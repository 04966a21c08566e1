---------------------------- MODULE MCFileData ----------------------------
\* A small instance of FileData for TLC.
EXTENDS FileData, TLC
=============================================================================
