------------------------------- MODULE Terminal -------------------------------
(***************************************************************************)
(* internal/api/terminal_handler.go: one browser terminal.  runTerminal    *)
(* and the goroutines it starts share a context, a WebSocket behind a      *)
(* mutex, a bounded queue of input and an SSH session:                     *)
(*   main    dials, opens the session, greets, waits, unwinds              *)
(*   reader  readTerminalInput: WebSocket -> input queue                   *)
(*   typist  the input goroutine: input queue -> SSH stdin, resize         *)
(*   pump[s] pumpTerminalOutput: SSH stream s -> WebSocket                 *)
(*   waiter  cancels when both pumps have returned                         *)
(*   pinger  a ping every 15 s                                             *)
(* The SSH client is the abstract one of TransportOwner.                   *)
(***************************************************************************)
EXTENDS Naturals, Sequences

CONSTANTS Capacity,    \* terminalInputQueue
          Msgs,        \* the binary messages a browser may send
          Junk,        \* those of an unknown type or with a malformed size
          Streams,     \* the session's output streams: stdout and stderr
          Bounds       \* bounds of a behaviour: which messages are read, how
                       \* many, and how many chunks arrive on each stream

ASSUME CapacityAssumption == Capacity \in Nat \ {0}
ASSUME MessageAssumption == Junk \subseteq Msgs
ASSUME StreamAssumption ==
    Streams # {} /\ Streams \cap {"main", "pinger", "free"} = {}
ASSUME BoundAssumption ==
    Bounds \subseteq [msgs : SUBSET Msgs, input : Nat, output : [Streams -> Nat]]

Writers == {"main", "pinger"} \cup Streams

VARIABLES
    browser,     \* "up" or "left": closed the socket, or is silent for 60 s
    bound,       \* the bounds of this behaviour
    by,          \* who called cancel() first: "nobody" yet, "waiter", "other"
    ws,          \* the server's end of the WebSocket: "open" or "closed"
    lock,        \* the holder of wsWriter.mu, or "free"
    transport,   \* the SSH client: "none", "open" or "closed"
    main, reader, pinger, waiter, typist, pump,     \* where each goroutine is
    received,    \* the messages the reader has read
    queue,       \* the input channel
    held,        \* what the typist is writing: at most one message
    applied,     \* the messages written to the SSH session
    eof,         \* the SSH server has ended the session's output
    arrived,     \* arrived[s]: chunks received from the SSH server
    taken,       \* taken[s]: chunks read by the pump
    shown        \* shown[s]: chunks written to the WebSocket

world   == <<browser, bound>>
input   == <<received, queue, held, applied>>
output  == <<eof, arrived, taken, shown>>
threads == <<main, reader, pinger, waiter, typist, pump>>
vars    == <<world, by, ws, lock, transport, threads, input, output>>

ctxDone == by # "nobody"

(* cancel(): only the first call has an effect. *)
Cancel(who) == by' = IF ctxDone THEN by ELSE who

TypeOK ==
    /\ browser \in {"up", "left"} /\ bound \in Bounds
    /\ by \in {"nobody", "waiter", "other"}
    /\ ws \in {"open", "closed"}
    /\ lock \in Writers \cup {"free"}
    /\ transport \in {"none", "open", "closed"}
    /\ main \in {"dial", "session", "report", "greet", "wait", "unwind",
                 "hangup", "returned"}
    /\ reader \in {"reading", "done"}
    /\ pinger \in {"idle", "sending", "done"}
    /\ waiter \in {"none", "waiting", "done"}
    /\ typist \in {"none", "ready", "writing", "done"}
    /\ pump \in [Streams -> {"none", "reading", "sending", "done"}]
    /\ received \in Seq(Msgs) /\ applied \in Seq(Msgs)
    /\ queue \in Seq(Msgs) /\ Len(queue) <= Capacity
    /\ held \in Seq(Msgs) /\ Len(held) <= 1
    /\ eof \in BOOLEAN
    /\ arrived \in [Streams -> Nat]
    /\ taken \in [Streams -> Nat]
    /\ shown \in [Streams -> Nat]

Init ==
    /\ browser = "up" /\ bound \in Bounds
    /\ by = "nobody" /\ ws = "open" /\ lock = "free" /\ transport = "none"
    /\ main = "dial" /\ reader = "reading" /\ pinger = "idle"
    /\ waiter = "none" /\ typist = "none"
    /\ pump = [s \in Streams |-> "none"]
    /\ received = <<>> /\ queue = <<>> /\ held = <<>> /\ applied = <<>>
    /\ eof = FALSE
    /\ arrived = [s \in Streams |-> 0]
    /\ taken = [s \in Streams |-> 0]
    /\ shown = [s \in Streams |-> 0]

-----------------------------------------------------------------------------
(* The world outside. *)

BrowserLeaves == /\ browser = "up" /\ browser' = "left"
                 /\ UNCHANGED <<bound, by, ws, lock, transport, threads,
                                input, output>>

(* The request's context ends: the program shuts down. *)
ParentCancelled == /\ ~ctxDone /\ Cancel("other")
                   /\ UNCHANGED <<world, ws, lock, transport, threads, input,
                                  output>>

(* Output may arrive as soon as the shell has started. *)
ShellRuns == transport = "open" /\ main \in {"greet", "wait"} /\ ~eof

ChunkArrives(s) ==
    /\ ShellRuns /\ arrived[s] < bound.output[s]
    /\ arrived' = [arrived EXCEPT ![s] = @ + 1]
    /\ UNCHANGED <<world, by, ws, lock, transport, threads, input,
                   eof, taken, shown>>

(* One EOF message ends both streams; what has arrived stays buffered. *)
ShellEnds ==
    /\ ShellRuns
    /\ eof' = TRUE
    /\ UNCHANGED <<world, by, ws, lock, transport, threads, input,
                   arrived, taken, shown>>

(* The hooks on ctx: the WebSocket's AfterFunc, and those of the client. *)
ContextClosesSocket ==
    /\ ctxDone /\ ws = "open"
    /\ ws' = "closed"
    /\ UNCHANGED <<world, by, lock, transport, threads, input, output>>

SetupHookLeftArmed == TRUE
ClientHookDue == ctxDone

ContextClosesClient ==
    /\ ClientHookDue /\ transport = "open"
    /\ transport' = "closed"
    /\ UNCHANGED <<world, by, ws, lock, threads, input, output>>

-----------------------------------------------------------------------------
(* wsWriter: a frame is written under the mutex, and within 5 s. *)

Sending(w) == CASE w = "main"   -> main \in {"report", "greet"}
                [] w = "pinger" -> pinger = "sending"
                [] w \in Streams -> pump[w] = "sending"

Lock(w) == /\ Sending(w) /\ lock = "free"
           /\ lock' = w
           /\ UNCHANGED <<world, by, ws, transport, threads, input, output>>

(* The write returns: it fails at any time, as every write does to a browser
   that does not read, and cannot succeed on a closed socket. *)
WriteEnds(w, ok) == /\ lock = w /\ lock' = "free"
                    /\ ok => ws = "open"

-----------------------------------------------------------------------------
(* pinger *)

Tick == /\ pinger = "idle" /\ pinger' = "sending"
        /\ UNCHANGED <<world, by, ws, lock, transport, main, reader, waiter,
                       typist, pump, input, output>>

PingEnds(ok) ==
    /\ WriteEnds("pinger", ok)
    /\ pinger' = IF ok THEN "idle" ELSE "done"
    /\ IF ok THEN UNCHANGED by ELSE Cancel("other")
    /\ UNCHANGED <<world, ws, transport, main, reader, waiter, typist, pump,
                   input, output>>

PingerStops == /\ pinger = "idle" /\ ctxDone /\ pinger' = "done"
               /\ UNCHANGED <<world, by, ws, lock, transport, main, reader,
                              waiter, typist, pump, input, output>>

-----------------------------------------------------------------------------
(* reader: each message is queued, or ends the terminal. *)

Room == Len(queue) < Capacity

ReaderEnds == reader' = "done" /\ Cancel("other")

OverflowIgnored == UNCHANGED <<reader, by>>
Overflow == ReaderEnds

(* The select of lines 90-98: room in the queue and ctx.Done() race; default
   is taken only when neither is ready. *)
ReadMessage(m) ==
    /\ reader = "reading" /\ ws = "open" /\ browser = "up"
    /\ m \in bound.msgs /\ Len(received) < bound.input
    /\ received' = Append(received, m)
    /\ \/ Room /\ queue' = Append(queue, m) /\ UNCHANGED <<reader, by>>
       \/ ctxDone /\ ReaderEnds /\ UNCHANGED queue
       \/ ~Room /\ Overflow /\ UNCHANGED queue
    /\ UNCHANGED <<world, ws, lock, transport, main, pinger, waiter, typist,
                   pump, held, applied, output>>

(* ReadMessage returns an error: close frame, 60 s without a pong, a message
   above maxTerminalMessage, a broken or closed socket. *)
ReadFails ==
    /\ reader = "reading" /\ ReaderEnds
    /\ UNCHANGED <<world, ws, lock, transport, main, pinger, waiter, typist,
                   pump, input, output>>

-----------------------------------------------------------------------------
(* typist: on any way out it cancels. *)

TypistEndsAlone == typist' = "done" /\ UNCHANGED by
TypistEnds == typist' = "done" /\ Cancel("other")

TypistTakes ==
    /\ typist = "ready" /\ queue # <<>>
    /\ queue' = Tail(queue)
    /\ IF Head(queue) \in Junk
       THEN TypistEnds /\ UNCHANGED held
       ELSE typist' = "writing" /\ held' = <<Head(queue)>> /\ UNCHANGED by
    /\ UNCHANGED <<world, ws, lock, transport, main, reader, pinger, waiter,
                   pump, received, applied, output>>

TypistWrites ==
    /\ typist = "writing" /\ transport = "open"
    /\ applied' = applied \o held
    /\ held' = <<>>
    /\ typist' = "ready"
    /\ UNCHANGED <<world, by, ws, lock, transport, main, reader, pinger,
                   waiter, pump, received, queue, output>>

(* Write or Resize returns an error: rejected size, shell gone, transport
   closed.  The message is lost. *)
TypistFails ==
    /\ typist = "writing" /\ TypistEnds
    /\ held' = <<>>
    /\ UNCHANGED <<world, ws, lock, transport, main, reader, pinger, waiter,
                   pump, received, queue, applied, output>>

TypistIgnoresCancel == FALSE

TypistStops ==
    /\ typist = "ready" /\ ctxDone
    /\ typist' = "done"
    /\ UNCHANGED <<world, by, ws, lock, transport, main, reader, pinger,
                   waiter, pump, input, output>>

-----------------------------------------------------------------------------
(* pumps and waiter *)

PumpReads(s) ==
    /\ pump[s] = "reading" /\ taken[s] < arrived[s]
    /\ taken' = [taken EXCEPT ![s] = @ + 1]
    /\ pump' = [pump EXCEPT ![s] = "sending"]
    /\ UNCHANGED <<world, by, ws, lock, transport, main, reader, pinger,
                   waiter, typist, input, eof, arrived, shown>>

PumpWriteEnds(s, ok) ==
    /\ WriteEnds(s, ok)
    /\ IF ok
       THEN /\ shown' = [shown EXCEPT ![s] = @ + 1]
            /\ pump' = [pump EXCEPT ![s] = "reading"]
            /\ UNCHANGED by
       ELSE /\ pump' = [pump EXCEPT ![s] = "done"]
            /\ Cancel("other")
            /\ UNCHANGED shown
    /\ UNCHANGED <<world, ws, transport, main, reader, pinger, waiter, typist,
                   input, eof, arrived, taken>>

(* EOF comes after everything that arrived; a closed transport reads as EOF. *)
PumpReadsEOF(s) ==
    /\ pump[s] = "reading" /\ taken[s] = arrived[s]
    /\ eof \/ transport = "closed"
    /\ pump' = [pump EXCEPT ![s] = "done"]
    /\ UNCHANGED <<world, by, ws, lock, transport, main, reader, pinger,
                   waiter, typist, input, output>>

FirstOutputEnded == \E s \in Streams : pump[s] = "done"
OutputEnded == \A s \in Streams : pump[s] = "done"

WaiterCancels ==
    /\ waiter = "waiting" /\ OutputEnded
    /\ waiter' = "done"
    /\ Cancel("waiter")
    /\ UNCHANGED <<world, ws, lock, transport, main, reader, pinger, typist,
                   pump, input, output>>

-----------------------------------------------------------------------------
(* main *)

MainAt(from, to) ==
    /\ main = from /\ main' = to
    /\ UNCHANGED <<world, reader, pinger, waiter, typist, pump, input, output>>

DialSucceeds == /\ MainAt("dial", "session")
                /\ transport' = "open"
                /\ UNCHANGED <<by, ws, lock>>

DialFails == MainAt("dial", "report") /\ UNCHANGED <<by, ws, lock, transport>>

(* NewSession's own timer leaves the client open when it succeeds. *)
SessionStarts == /\ MainAt("session", "greet")
                 /\ transport = "open" \/ ctxDone
                 /\ UNCHANGED <<by, ws, lock, transport>>

(* NewSession closes the client it was given before it returns an error. *)
SessionAborts == /\ main = "session" /\ transport = "open"
                 /\ transport' = "closed"
                 /\ UNCHANGED <<world, by, ws, lock, threads, input, output>>

SessionFails == /\ MainAt("session", "report") /\ transport = "closed"
                /\ UNCHANGED <<by, ws, lock, transport>>

(* The outcome of sending the error is ignored. *)
ReportEnds(ok) == /\ MainAt("report", "hangup") /\ WriteEnds("main", ok)
                  /\ UNCHANGED <<by, ws, transport>>

GreetingFails == /\ MainAt("greet", "unwind") /\ WriteEnds("main", FALSE)
                 /\ UNCHANGED <<by, ws, transport>>

StartWaiter == waiter' = "waiting"

GreetingSent ==
    /\ main = "greet" /\ main' = "wait"
    /\ WriteEnds("main", TRUE)
    /\ pump' = [s \in Streams |-> "reading"]
    /\ StartWaiter
    /\ typist' = "ready"
    /\ UNCHANGED <<world, by, ws, transport, reader, pinger, input, output>>

Woken == MainAt("wait", "unwind") /\ ctxDone /\ UNCHANGED <<by, ws, lock, transport>>

ClientLeft == UNCHANGED transport
CloseClient == transport' = "closed"

(* client.Close(), called again by the deferred calls. *)
MainClosesClient == /\ MainAt("unwind", "hangup")
                    /\ CloseClient
                    /\ UNCHANGED <<by, ws, lock>>

(* The last deferred calls: ws.Close(), then cancel(). *)
HangUp == /\ MainAt("hangup", "returned")
          /\ ws' = "closed"
          /\ Cancel("other")
          /\ UNCHANGED <<lock, transport>>

-----------------------------------------------------------------------------
World == \/ BrowserLeaves \/ ParentCancelled \/ ShellEnds
         \/ \E s \in Streams : ChunkArrives(s)

Pinger == Tick \/ PingerStops \/ \E ok \in BOOLEAN : PingEnds(ok)
Reader == ReadFails \/ \E m \in Msgs : ReadMessage(m)
Typist == TypistTakes \/ TypistWrites \/ TypistFails \/ TypistStops
Pump(s) == \/ PumpReads(s) \/ PumpReadsEOF(s)
           \/ \E ok \in BOOLEAN : PumpWriteEnds(s, ok)
Main == \/ DialSucceeds \/ DialFails \/ SessionStarts \/ SessionAborts
        \/ SessionFails \/ GreetingFails \/ GreetingSent \/ Woken
        \/ MainClosesClient \/ HangUp
        \/ \E ok \in BOOLEAN : ReportEnds(ok)

Next == \/ World \/ ContextClosesSocket \/ ContextClosesClient
        \/ \E w \in Writers : Lock(w)
        \/ Pinger \/ Reader \/ Typist \/ WaiterCancels \/ Main
        \/ \E s \in Streams : Pump(s)

(* Goroutines run; a write ends within its deadline and a dial or session
   setup within its timer (module SSHClient); sync.Mutex does not starve a
   waiter.  Reads fail by themselves only when the other end is gone.  The
   world outside owes nothing: a stalled SSH server never takes the message that
   the typist is writing, which fails only once the client is closed. *)
Fairness ==
    /\ WF_vars(ContextClosesSocket) /\ WF_vars(ContextClosesClient)
    /\ \A w \in Writers : SF_vars(Lock(w))
    /\ WF_vars(PingerStops) /\ WF_vars(\E ok \in BOOLEAN : PingEnds(ok))
    /\ WF_vars(ReadFails /\ (browser = "left" \/ ws = "closed"))
    /\ WF_vars(TypistTakes \/ TypistStops)
    /\ WF_vars(TypistFails /\ transport = "closed")
    /\ \A s \in Streams : WF_vars(Pump(s))
    /\ WF_vars(WaiterCancels) /\ WF_vars(Main)

Spec == Init /\ [][Next]_vars /\ Fairness

-----------------------------------------------------------------------------
(* PROPERTIES *)

Pending == applied \o held \o queue

IsPrefixOf(s, t) == Len(s) <= Len(t) /\ \A i \in 1..Len(s) : s[i] = t[i]

(* "Never stop reading behind a blocked SSH write: disconnect" (lines 95-96):
   a full queue loses a message, and then nothing after it is ever typed.
   What the SSH session has received, is receiving or will receive is the
   browser's input without a gap, up to a message that ended the terminal. *)
InputHasNoGap == IsPrefixOf(applied, received) /\
                 (~ctxDone => Pending = received)

(* A terminal that ends by itself, because the shell has ended, has shown all
   the output of both streams: the first stream to end does not cut off the
   other (lines 142-155). *)
OutputIsComplete == by = "waiter" => \A s \in Streams : shown[s] = arrived[s]

(* No half session: while the context lives after the greeting, every
   goroutine that serves it lives, but for a pump whose stream has ended with
   its output shown.  A goroutine that stops for any other reason brings the
   others down (the defer cancel() of lines 78 and 157, lines 120 and 151). *)
NoHalfSession ==
    main = "wait" /\ ~ctxDone =>
      /\ reader = "reading" /\ pinger # "done" /\ waiter = "waiting"
      /\ typist \in {"ready", "writing"} /\ transport = "open"
      /\ \A s \in Streams : pump[s] = "done" => eof /\ shown[s] = arrived[s]

(* When runTerminal returns, on whichever path, the SSH client and the socket
   are closed and the context is done, so no goroutine waits for ever. *)
NothingOutlivesHandler ==
    main = "returned" => transport # "open" /\ ws = "closed" /\ ctxDone

AllDone == /\ main = "returned" /\ reader = "done" /\ pinger = "done"
           /\ waiter \in {"none", "done"} /\ typist \in {"none", "done"}
           /\ \A s \in Streams : pump[s] \in {"none", "done"}

(* Whoever ends a terminal ends all of it: a browser that leaves, a shell that
   ends, a shutdown or a failure, though the typist is blocked behind a full
   queue by a stalled SSH server and the browser has stopped reading (lines 78,
   106, 151, 157 and 185-188; "transport cleanup is independent of a final
   browser write"). *)
EndsCompletely == (browser = "left" \/ eof \/ ctxDone) ~> AllDone

(* Refinement: the handler uses its client as TransportOwner allows; it never
   closes one whose session is in use before the context is done. *)
Owner == INSTANCE TransportOwner WITH
    Hops <- {"ssh"},
    phase <- CASE main \in {"dial", "session"} -> "setup"
               [] main \in {"greet", "wait"} -> "usable"
               [] OTHER -> "over",
    cancelled <- ctxDone,
    open <- IF transport = "open" THEN {"ssh"} ELSE {}

ImplementsOwner == Owner!Spec
=============================================================================
