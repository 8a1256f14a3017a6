------------------------------ MODULE AtomicFile ------------------------------
(***************************************************************************)
(* What Upload of internal/sftpclient does to the destination file.  An    *)
(* upload looks at the destination once and goes on only when no link is   *)
(* there.  After that it puts its whole content there in one step, once,   *)
(* or leaves it alone; where the server cannot replace a file atomically,  *)
(* it never replaces one.  An upload that succeeds has put its content     *)
(* there; one that fails may have, when the answer was lost.               *)
(*                                                                         *)
(* This is less than "symlinks are not overwritten" (README.md:202): a     *)
(* link that comes after the look is replaced.                             *)
(***************************************************************************)
CONSTANTS Uploads,     \* the uploads to one destination
          Foreign,     \* what others may put there
          Links,       \* those of them that an upload refuses to replace
          Nothing      \* no file

VARIABLES dest,        \* the content of the destination, or Nothing
          outcome,     \* outcome[u]: "started", "looked", "put", "ok" or "failed"
          replaces     \* the server can replace a file atomically

vars == <<dest, outcome, replaces>>

Init == /\ dest \in Foreign \cup {Nothing}
        /\ outcome = [u \in Uploads |-> "started"]
        /\ replaces \in BOOLEAN

Others == /\ dest' \in Foreign \cup {Nothing}
          /\ UNCHANGED <<outcome, replaces>>

Look(u) == /\ outcome[u] = "started" /\ dest \notin Links
           /\ outcome' = [outcome EXCEPT ![u] = "looked"]
           /\ UNCHANGED <<dest, replaces>>

Put(u, result) ==
    /\ outcome[u] = "looked"
    /\ replaces \/ dest = Nothing
    /\ dest' = u
    /\ outcome' = [outcome EXCEPT ![u] = result]
    /\ UNCHANGED replaces

(* The program may end, and every upload with it. *)
Fail(some) ==
    /\ \A u \in some : outcome[u] \in {"started", "looked", "put"}
    /\ outcome' = [u \in Uploads |-> IF u \in some THEN "failed" ELSE outcome[u]]
    /\ UNCHANGED <<dest, replaces>>

Next == \/ Others
        \/ \E u \in Uploads : Look(u) \/ Put(u, "ok") \/ Put(u, "put")
        \/ \E some \in SUBSET Uploads : Fail(some)

Spec == Init /\ [][Next]_vars
=============================================================================
