---------------------------- MODULE MCClients ----------------------------
\* A small instance of Clients for TLC.
EXTENDS Clients, TLC
=============================================================================
