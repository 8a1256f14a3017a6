------------------------------- MODULE RdpRelay -------------------------------
(***************************************************************************)
(* One RDP session of api/rdp_handler.go: RDPHandler from the upgrade on,  *)
(* negotiateRDP, and relayRDP with its three goroutines: the handler itself*)
(* moves bytes from the RDP server to the browser, "reader" those of the   *)
(* browser to the server, "pinger" pings the browser.                      *)
(***************************************************************************)
EXTENDS Naturals

CONSTANT MaxChunks     \* how many chunks the RDP server sends at most

ASSUME RelayAssumption == MaxChunks \in Nat

VARIABLES browser,     \* "here", "silent" (it neither reads nor answers), "gone"
          server,      \* "up", "stalled" or "ended"
          sent, shown, \* chunks the server has sent, chunks the browser got
          unread,      \* chunks sent and not yet read from the connection
          cancelled,   \* ctx is done
          ws, raw,     \* the two sockets: "none", "open" or "closed"
          hook,        \* the AfterFunc on ctx: "off", "armed", "fired", "stopped"
          stage,       \* where the handler is
          last,        \* the chunk in hand came with the end of the stream
          by,          \* why the relay ended
          reader, pinger,
          lock         \* who holds the mutex of wsWriter

world == <<browser, server, sent>>
sockets == <<ws, raw, hook>>
helpers == <<reader, pinger>>
vars == <<world, shown, unread, cancelled, sockets, stage, last, by, helpers, lock>>

Stages == {"handshake", "dial", "negotiate", "answer", "read", "lock", "write",
           "cleanup", "join", "leave", "returned"}

TypeOK == /\ browser \in {"here", "silent", "gone"}
          /\ server \in {"up", "stalled", "ended"}
          /\ sent \in 0..MaxChunks /\ shown \in 0..MaxChunks /\ unread \in 0..MaxChunks
          /\ shown + unread + (IF stage \in {"lock", "write"} THEN 1 ELSE 0) <= sent
          /\ cancelled \in BOOLEAN /\ last \in BOOLEAN
          /\ ws \in {"open", "closed"} /\ raw \in {"none", "open", "closed"}
          /\ hook \in {"off", "armed", "fired", "stopped"}
          /\ stage \in Stages
          /\ by \in {"none", "eof", "error"}
          /\ reader \in {"off", "reading", "writing", "done"}
          /\ pinger \in {"off", "idle", "waiting", "writing", "done"}
          /\ lock \in {"free", "handler", "pinger"}

Init == /\ browser = "here" /\ server = "up"
        /\ sent = 0 /\ shown = 0 /\ unread = 0
        /\ cancelled = FALSE
        /\ ws = "open" /\ raw = "none" /\ hook = "off"
        /\ stage = "handshake" /\ last = FALSE /\ by = "none"
        /\ reader = "off" /\ pinger = "off" /\ lock = "free"

-----------------------------------------------------------------------------
(* The world. *)
OnlyWorld == UNCHANGED <<shown, sockets, stage, last, by, helpers, lock>>

BrowserTurns == /\ \/ browser = "here" /\ browser' \in {"silent", "gone"}
                   \/ browser = "silent" /\ browser' = "gone"
                /\ UNCHANGED <<server, sent, unread, cancelled>> /\ OnlyWorld

ServerSends == /\ server = "up" /\ raw = "open" /\ sent < MaxChunks
               /\ sent' = sent + 1 /\ unread' = unread + 1
               /\ UNCHANGED <<browser, server, cancelled>> /\ OnlyWorld

ServerTurns == /\ \/ server = "up" /\ server' \in {"stalled", "ended"}
                  \/ server = "stalled" /\ server' = "ended"
               /\ UNCHANGED <<browser, sent, unread, cancelled>> /\ OnlyWorld

Shutdown == /\ ~cancelled /\ cancelled' = TRUE
            /\ UNCHANGED <<world, unread>> /\ OnlyWorld

-----------------------------------------------------------------------------
(* Writes end within their deadline.  A browser that is silent may still have
   room for some in its socket. *)
WsTakes == ws = "open" /\ browser # "gone"
WsFails == ws = "closed" \/ browser # "here"
ConnTakes == raw = "open" /\ server = "up"
ConnFails == raw = "closed" \/ server # "up"

(* A setup stage; each has a deadline of its own, and may fail before. *)
Handler == UNCHANGED <<world, helpers>>
Setup(here, next) == /\ stage = here
                     /\ stage' \in {next, "leave"}
                     /\ UNCHANGED <<shown, unread, cancelled, ws, last, by, lock>>

Handshake == /\ Setup("handshake", "dial") /\ (stage' = "dial" => browser = "here")
             /\ UNCHANGED <<raw, hook>> /\ Handler

NoHook == "off"                    \* fault: nothing closes the sockets at the end of ctx
CloseOnDone == "armed"
Dial == /\ Setup("dial", "negotiate") /\ Handler
        /\ \/ stage' = "negotiate" /\ server = "up"
              /\ raw' = "open" /\ hook' = CloseOnDone
           \/ stage' = "leave" /\ UNCHANGED <<raw, hook>>

Negotiate == /\ Setup("negotiate", "answer") /\ (stage' = "answer" => ConnTakes)
             /\ UNCHANGED <<raw, hook>> /\ Handler

(* The answer is the first message; then the goroutines start. *)
Answer == /\ stage = "answer"
          /\ \/ /\ WsTakes /\ stage' = "read"
                /\ reader' = "reading" /\ pinger' = "idle"
             \/ /\ WsFails /\ stage' = "leave"
                /\ UNCHANGED helpers
          /\ UNCHANGED <<world, shown, unread, cancelled, sockets, last, by, lock>>

-----------------------------------------------------------------------------
(* The handler relays. *)
EofDropsChunk(eof) == IF eof THEN "cleanup" ELSE "lock"   \* fault: err before n
AfterRead(eof) == "lock"

Read == /\ stage = "read" /\ raw = "open" /\ unread > 0
        /\ unread' = unread - 1
        /\ last' \in {FALSE, unread = 1 /\ server = "ended"}
        /\ stage' = AfterRead(last')
        /\ by' = IF stage' = "cleanup" THEN "eof" ELSE by
        /\ UNCHANGED <<world, shown, cancelled, sockets, helpers, lock>>

ReadFails == /\ stage = "read"
             /\ raw = "closed" \/ (server = "ended" /\ unread = 0)
             /\ stage' = "cleanup"
             /\ by' = IF raw = "open" THEN "eof" ELSE "error"
             /\ UNCHANGED <<world, shown, unread, cancelled, sockets, last, helpers, lock>>

Lock == /\ stage = "lock" /\ lock = "free"
        /\ stage' = "write" /\ lock' = "handler"
        /\ UNCHANGED <<world, shown, unread, cancelled, sockets, last, by, helpers>>

Write == /\ stage = "write"
         /\ \/ /\ WsTakes /\ shown' = shown + 1
               /\ IF last THEN stage' = "cleanup" /\ by' = "eof"
                          ELSE stage' = "read" /\ UNCHANGED by
            \/ /\ WsFails /\ UNCHANGED shown
               /\ stage' = "cleanup" /\ by' = "error"
         /\ lock' = "free"
         /\ UNCHANGED <<world, unread, cancelled, sockets, last, helpers>>

CloseAll == cancelled' = TRUE /\ ws' = "closed" /\ raw' = "closed"
Cleanup == /\ stage = "cleanup" /\ stage' = "join"
           /\ CloseAll
           /\ UNCHANGED <<world, shown, unread, hook, last, by, helpers, lock>>

Joined == reader = "done" /\ pinger = "done"
Join == /\ stage = "join" /\ Joined
        /\ stage' = "leave"
        /\ UNCHANGED <<world, shown, unread, cancelled, sockets, last, by, helpers, lock>>

(* The deferred calls: conn.Close, stop, raw.Close, cancel, ws.Close.  A
   callback whose context is done already cannot be stopped. *)
Leave == /\ stage = "leave" /\ stage' = "returned"
         /\ ws' = "closed" /\ raw' = IF raw = "open" THEN "closed" ELSE raw
         /\ hook' = IF hook = "armed" /\ ~cancelled THEN "stopped" ELSE hook
         /\ cancelled' = TRUE
         /\ UNCHANGED <<world, shown, unread, last, by, helpers, lock>>

HookFires == /\ hook = "armed" /\ cancelled
             /\ hook' = "fired" /\ ws' = "closed" /\ raw' = "closed"
             /\ UNCHANGED <<world, shown, unread, cancelled, stage, last, by, helpers, lock>>

-----------------------------------------------------------------------------
(* The goroutines. *)
Reader(from, to) == /\ reader = from /\ reader' = to
                    /\ cancelled' = (cancelled \/ to = "done")
                    /\ UNCHANGED <<world, shown, unread, sockets, stage, last, by, pinger, lock>>

ReadEnds == ws = "closed" \/ browser # "here"       \* gone, or no pong for 60 s

ReaderGets == ws = "open" /\ browser = "here" /\ Reader("reading", "writing")
ReaderRejects == ws = "open" /\ browser = "here" /\ Reader("reading", "done")
ReaderEnds == ReadEnds /\ Reader("reading", "done")
ReaderWrites == \/ ConnTakes /\ Reader("writing", "reading")
                \/ ConnFails /\ Reader("writing", "done")

Pinger(from, to) == /\ pinger = from /\ pinger' = to
                    /\ UNCHANGED <<world, shown, unread, sockets, stage, last, by, reader>>

PingerTicks == Pinger("idle", "waiting") /\ UNCHANGED <<cancelled, lock>>
PingerEnds == cancelled /\ Pinger("idle", "done") /\ UNCHANGED <<cancelled, lock>>
PingerLocks == /\ lock = "free" /\ lock' = "pinger"
               /\ Pinger("waiting", "writing") /\ UNCHANGED cancelled
PingerWrites == /\ lock' = "free"
                /\ \/ WsTakes /\ Pinger("writing", "idle") /\ UNCHANGED cancelled
                   \/ WsFails /\ Pinger("writing", "done") /\ cancelled' = TRUE

Main == \/ Handshake \/ Dial \/ Negotiate \/ Answer \/ Read \/ ReadFails
        \/ Write \/ Cleanup \/ Join \/ Leave
World == BrowserTurns \/ ServerSends \/ ServerTurns \/ Shutdown

Next == \/ World \/ Main \/ Lock \/ HookFires
        \/ ReaderGets \/ ReaderRejects \/ ReaderEnds \/ ReaderWrites
        \/ PingerTicks \/ PingerEnds \/ PingerLocks \/ PingerWrites

(* Every call of the program returns: each has a deadline, or waits for
   something that will close.  sync.Mutex hands itself to a waiter that has
   waited for a millisecond, so no waiter is overtaken for ever.  A browser
   owes no input. *)
Fairness == /\ WF_vars(Main) /\ WF_vars(HookFires)
            /\ SF_vars(Lock) /\ SF_vars(PingerLocks)
            /\ WF_vars(ReaderEnds) /\ WF_vars(ReaderWrites)
            /\ WF_vars(PingerTicks) /\ SF_vars(PingerEnds) /\ WF_vars(PingerWrites)

Spec == Init /\ [][Next]_vars /\ Fairness

-----------------------------------------------------------------------------
(* A relay that ends because the server closed has shown all of it, the bytes
   that came together with the end included (rdp_handler.go:233). *)
TailIsShown == by = "eof" => shown = sent

(* Whoever ends a session ends all of it: a browser that leaves or falls silent
   (the deadlines of lines 128, 197 and 198), a server that ends its stream
   though the browser stays, a shutdown though both sides are idle. *)
EndsCompletely ==
    (browser # "here" \/ server = "ended" \/ cancelled) ~> stage = "returned"
=============================================================================
