--------------------------- MODULE TransportOwner ---------------------------
(***************************************************************************)
(* What internal/sshclient promises the handlers that dial through it:     *)
(*  - a connection attempt ends, either with a client whose transports are *)
(*    all open or with an error and no transport left open;                *)
(*  - a client once handed over keeps its transports until its caller's    *)
(*    context is cancelled or the caller closes it;                        *)
(*  - afterwards every transport is released, whatever the peer does.      *)
(***************************************************************************)
CONSTANT Hops           \* the transports a client may own

VARIABLES phase,        \* "setup", "usable" or "over": failed, or released
          cancelled,    \* the caller's context is done
          open          \* the transports that are open

vars == <<phase, cancelled, open>>

Init == phase = "setup" /\ cancelled = FALSE /\ open = {}

(* The caller's context ends: browser gone, request aborted, timeout. *)
Cancel == ~cancelled /\ cancelled' = TRUE /\ UNCHANGED <<phase, open>>

Open(h) == /\ phase = "setup"
           /\ h \notin open
           /\ open' = open \cup {h}
           /\ UNCHANGED <<phase, cancelled>>

(* A usable client loses a transport only after Cancel. *)
Drop(h) == /\ h \in open
           /\ phase # "usable" \/ cancelled
           /\ open' = open \ {h}
           /\ UNCHANGED <<phase, cancelled>>

Deliver == /\ phase = "setup"
           /\ open # {} \/ cancelled
           /\ phase' = "usable"
           /\ UNCHANGED <<cancelled, open>>

Fail == /\ phase = "setup"
        /\ open = {}
        /\ phase' = "over"
        /\ UNCHANGED <<cancelled, open>>

Release == /\ phase = "usable"
           /\ phase' = "over"
           /\ UNCHANGED <<cancelled, open>>

Next == \/ Cancel \/ Deliver \/ Fail \/ Release
        \/ \E h \in Hops : Open(h) \/ Drop(h)

AttemptEnds    == (phase = "setup") ~> (phase # "setup")
EventuallyFree == (cancelled \/ phase = "over") ~> (open = {})

Safety == Init /\ [][Next]_vars

Spec == Safety /\ AttemptEnds /\ EventuallyFree
=============================================================================
