------------------------------ MODULE NameTree ------------------------------
(***************************************************************************)
(* What the file system promises: a tree of names that changes by requests *)
(* only.  A request that is done has changed it once, as a whole; one that *)
(* failed, or was pending in a crash, has not changed it.  But a crash may *)
(* spoil the names that were being worked on: a spoiled name can be made,  *)
(* with success, and is still not found, as long as its directory lives.   *)
(***************************************************************************)
EXTENDS Integers, Sequences

CONSTANTS Workers, Paths

VARIABLES
  tree,     \* records of a path and its kind
  spoiled,  \* paths lost in crashes
  request   \* the last request of each worker: "pending", "done" or "failed"

Directory(path) == SubSeq(path, 1, Len(path) - 1)

NoRequest == [call |-> "none", path |-> <<>>, state |-> "failed"]

Init == tree = {} /\ spoiled = {} /\ request = [w \in Workers |-> NoRequest]

Ask(w, call, path) ==
  /\ request[w].state # "pending"
  /\ request' = [request EXCEPT ![w] = [call |-> call, path |-> path, state |-> "pending"]]
  /\ UNCHANGED <<tree, spoiled>>

Answer(w, state) ==
  /\ request[w].state = "pending"
  /\ request' = [request EXCEPT ![w].state = state]

Make(w, call, kind) ==
  LET path == request[w].path
  IN  /\ Answer(w, "done")
      /\ request[w].call = call
      /\ \A f \in tree : f.path # path
      /\ Directory(path) # <<>> => [path |-> Directory(path), kind |-> "dir"] \in tree
      /\ tree' = IF path \in spoiled THEN tree
                 ELSE tree \cup {[path |-> path, kind |-> kind]}
      /\ UNCHANGED spoiled

\* A directory goes with everything in it.
Remove(w, call, kind) ==
  LET path == request[w].path
  IN  /\ Answer(w, "done")
      /\ request[w].call = call
      /\ [path |-> path, kind |-> kind] \in tree
      /\ tree' = {f \in tree : f.path # path /\ Directory(f.path) # path}
      /\ spoiled' = {p \in spoiled : Directory(p) # path}

Fail(w) == Answer(w, "failed") /\ UNCHANGED <<tree, spoiled>>

Crash ==
  /\ request' = [w \in Workers |-> NoRequest]
  /\ spoiled' \in {spoiled \cup paths : paths \in SUBSET {request[w].path : w \in Workers}}
  /\ UNCHANGED tree

Next ==
  \/ \E w \in Workers :
       \/ \E call \in {"create", "mkdir", "unlink", "rmdir"}, path \in Paths : Ask(w, call, path)
       \/ Make(w, "create", "file") \/ Make(w, "mkdir", "dir")
       \/ Remove(w, "unlink", "file") \/ Remove(w, "rmdir", "dir")
       \/ Fail(w)
  \/ Crash

Spec == Init /\ [][Next]_<<tree, spoiled, request>>
=============================================================================
