---------------------------- MODULE TerminalProofs ----------------------------
(***************************************************************************)
(* Safety of Terminal for every queue capacity, set of messages and set of *)
(* streams, and of SSHClient, the client it dials.  IInv is inductive      *)
(* relative to TypeOK, and AttemptInv to ClientTypeOK; the safety          *)
(* properties that TLC checks follow from them, and so does the safety of  *)
(* the refinement of TransportOwner by either: SSHClient keeps the promise *)
(* that Terminal is built on.                                              *)
(***************************************************************************)
EXTENDS Terminal, SSHClient, SequenceTheorems, TLAPS

(* Nothing read is out of order; the typist still has everything read as long
   as it and the reader run. *)
InputInv ==
    /\ IsPrefixOf(applied, received)
    /\ typist # "writing" => held = <<>>
    /\ typist # "done" => IsPrefixOf(Pending, received)
    /\ typist # "done" /\ reader = "reading" => Pending = received

(* The goroutines of a session start after the greeting. *)
StartInv == main \in {"dial", "session", "report", "greet"} =>
              /\ typist = "none" /\ waiter = "none"
              /\ \A s \in Streams : pump[s] = "none"

(* While the context lives every goroutine started so far lives. *)
LiveInv ==
    ~ctxDone =>
      /\ reader = "reading" /\ pinger # "done" /\ main # "returned"
      /\ main = "wait" => /\ waiter = "waiting" /\ typist \in {"ready", "writing"}
                          /\ \A s \in Streams : pump[s] # "none"
      /\ main # "wait" => /\ waiter = "none" /\ typist = "none"
                          /\ \A s \in Streams : pump[s] = "none"
      /\ main \in {"greet", "wait"} => transport = "open"

(* What each pump has read it has shown, but for the chunk being written. *)
PumpInv ==
    \A s \in Streams :
      /\ pump[s] \in {"none", "reading"} => taken[s] = shown[s]
      /\ pump[s] = "done" /\ ~ctxDone => eof /\ shown[s] = arrived[s]

WaiterInv ==
    by = "waiter" => eof /\ \A s \in Streams : pump[s] = "done" /\ shown[s] = arrived[s]

(* The holder of the mutex is writing a frame. *)
LockInv == \A w \in Writers : lock = w => Sending(w)

(* A chunk being written is the last one read. *)
SendingInv == \A s \in Streams : pump[s] = "sending" => taken[s] = shown[s] + 1

ClientInv ==
    /\ main = "dial" => transport = "none"
    /\ main \in {"report", "hangup", "returned"} => transport # "open"
    /\ main = "returned" => ws = "closed" /\ ctxDone

IInv == InputInv /\ StartInv /\ LiveInv /\ PumpInv /\ SendingInv /\ WaiterInv
        /\ LockInv /\ ClientInv

-----------------------------------------------------------------------------
(* Every variable keeps its type; the queue never outgrows its capacity. *)
LEMMA TypeStep == TypeOK /\ [Next]_vars => TypeOK'
<1> SUFFICES ASSUME TypeOK, [Next]_vars PROVE TypeOK'
  OBVIOUS
<1> USE CapacityAssumption, MessageAssumption
    DEF TypeOK, Cancel, ctxDone, Writers, world, input, output, threads
<1>1. CASE UNCHANGED vars
  BY <1>1 DEF vars
<1>2. CASE BrowserLeaves
  BY <1>2 DEF BrowserLeaves
<1>5. CASE ParentCancelled
  BY <1>5 DEF ParentCancelled
<1>6. CASE ShellEnds
  BY <1>6 DEF ShellEnds, ShellRuns
<1>7. ASSUME NEW s \in Streams, ChunkArrives(s) PROVE TypeOK'
  BY <1>7 DEF ChunkArrives, ShellRuns
<1>8. CASE ContextClosesSocket
  BY <1>8 DEF ContextClosesSocket
<1>9. CASE ContextClosesClient
  BY <1>9 DEF ContextClosesClient, ClientHookDue
<1>10. ASSUME NEW w \in Writers, Lock(w) PROVE TypeOK'
  BY <1>10 DEF Lock
<1>11. CASE Tick
  BY <1>11 DEF Tick
<1>12. CASE PingerStops
  BY <1>12 DEF PingerStops
<1>13. ASSUME NEW ok \in BOOLEAN, PingEnds(ok) PROVE TypeOK'
  BY <1>13 DEF PingEnds, WriteEnds
<1>14. CASE ReadFails
  BY <1>14 DEF ReadFails, ReaderEnds
<1>15. ASSUME NEW m \in Msgs, ReadMessage(m) PROVE TypeOK'
  <2>1. received' \in Seq(Msgs)
    BY <1>15, AppendProperties DEF ReadMessage, Room, Overflow, ReaderEnds
  <2>2. CASE Len(queue) < Capacity /\ queue' = Append(queue, m)
             /\ UNCHANGED <<reader, by>>
    <3>1. queue' \in Seq(Msgs) /\ Len(queue') = Len(queue) + 1
      BY <2>2, AppendProperties
    <3> QED
      BY <1>15, <2>1, <2>2, <3>1, LenProperties DEF ReadMessage, Room, Overflow, ReaderEnds
  <2>3. CASE reader' = "done" /\ Cancel("other") /\ UNCHANGED queue
    BY <1>15, <2>1, <2>3 DEF ReadMessage, Room, Overflow, ReaderEnds
  <2> QED
    BY <1>15, <2>2, <2>3 DEF ReadMessage, Room, Overflow, ReaderEnds
<1>16. CASE TypistTakes
  <2>1. /\ Head(queue) \in Msgs /\ queue' \in Seq(Msgs)
        /\ Len(queue') = Len(queue) - 1
    BY <1>16, HeadTailProperties DEF TypistTakes, TypistEnds
  <2>2. CASE Head(queue) \in Junk
    BY <1>16, <2>1, <2>2, LenProperties DEF TypistTakes, TypistEnds
  <2>3. CASE Head(queue) \notin Junk
    <3>1. held' \in Seq(Msgs) /\ Len(held') = 1
      <4>1. held' = <<Head(queue)>>
        BY <1>16, <2>3 DEF TypistTakes, TypistEnds
      <4> QED
        BY <2>1, <4>1
    <3> QED
      BY <1>16, <2>1, <2>3, <3>1, LenProperties DEF TypistTakes, TypistEnds
  <2> QED
    BY <2>2, <2>3
<1>17. CASE TypistWrites
  BY <1>17 DEF TypistWrites
<1>18. CASE TypistFails
  BY <1>18 DEF TypistFails, TypistEnds
<1>19. CASE TypistStops
  BY <1>19 DEF TypistStops
<1>20. ASSUME NEW s \in Streams, PumpReads(s) PROVE TypeOK'
  BY <1>20 DEF PumpReads
<1>21. ASSUME NEW s \in Streams, PumpReadsEOF(s) PROVE TypeOK'
  BY <1>21 DEF PumpReadsEOF
<1>22. ASSUME NEW s \in Streams, NEW ok \in BOOLEAN, PumpWriteEnds(s, ok) PROVE TypeOK'
  <2>1. pump' \in [Streams -> {"none", "reading", "sending", "done"}]
    <3>1. pump' = [pump EXCEPT ![s] = IF ok THEN "reading" ELSE "done"]
    BY <1>22 DEF PumpWriteEnds, WriteEnds
    <3> QED
      BY <3>1
  <2>2. shown' \in [Streams -> Nat]
    <3>1. shown' = [shown EXCEPT ![s] = IF ok THEN @ + 1 ELSE @]
      BY <1>22 DEF PumpWriteEnds
    <3> QED
      BY <3>1
  <2>3. by' \in {"nobody", "waiter", "other"}
    BY <1>22, Zenon DEF PumpWriteEnds
  <2>4. lock' = "free" /\ UNCHANGED <<world, ws, transport, main, reader,
                                      pinger, waiter, typist, input, eof,
                                      arrived, taken>>
    BY <1>22 DEF PumpWriteEnds, WriteEnds
  <2> QED
    BY <2>1, <2>2, <2>3, <2>4
<1>23. CASE WaiterCancels
  BY <1>23 DEF WaiterCancels, OutputEnded
<1>24. CASE DialSucceeds
  BY <1>24 DEF DialSucceeds, MainAt
<1>25. CASE DialFails
  BY <1>25 DEF DialFails, MainAt
<1>26. CASE SessionStarts
  BY <1>26 DEF SessionStarts, MainAt
<1>27. CASE SessionAborts
  BY <1>27 DEF SessionAborts
<1>28. CASE SessionFails
  BY <1>28 DEF SessionFails, MainAt
<1>29. ASSUME NEW ok \in BOOLEAN, ReportEnds(ok) PROVE TypeOK'
  BY <1>29 DEF ReportEnds, WriteEnds, MainAt
<1>30. CASE GreetingFails
  BY <1>30 DEF GreetingFails, WriteEnds, MainAt
<1>31. CASE GreetingSent
  <2>1. pump' \in [Streams -> {"none", "reading", "sending", "done"}]
    <3>1. pump' = [s \in Streams |-> "reading"]
      BY <1>31, Zenon DEF GreetingSent, StartWaiter
    <3> QED
      BY <3>1
  <2> QED
    <3>1. /\ lock' = "free" /\ main' = "wait" /\ waiter' = "waiting"
          /\ typist' = "ready"
          /\ UNCHANGED <<world, by, ws, transport, reader, pinger, input, output>>
      BY <1>31, Zenon DEF GreetingSent, StartWaiter, WriteEnds
    <3> QED
      BY <2>1, <3>1
<1>32. CASE Woken
  BY <1>32 DEF Woken, MainAt
<1>33. CASE MainClosesClient
  BY <1>33 DEF MainClosesClient, CloseClient, MainAt
<1>34. CASE HangUp
  BY <1>34 DEF HangUp, MainAt
<1> QED
  BY <1>1, <1>2, <1>5, <1>6, <1>7, <1>8, <1>9, <1>10, <1>11,
     <1>12, <1>13, <1>14, <1>15, <1>16, <1>17, <1>18, <1>19, <1>20, <1>21,
     <1>22, <1>23, <1>24, <1>25, <1>26, <1>27, <1>28, <1>29, <1>30, <1>31,
     <1>32, <1>33, <1>34
     DEF Next, World, Pinger, Reader, Typist, Pump, Main

-----------------------------------------------------------------------------
(* Prefixes. *)
LEMMA PrefixReflexive ==
  ASSUME NEW S, NEW s \in Seq(S) PROVE IsPrefixOf(s, s)
BY DEF IsPrefixOf

LEMMA PrefixOfConcat ==
  ASSUME NEW S, NEW s \in Seq(S), NEW u \in Seq(S), NEW t \in Seq(S),
         IsPrefixOf(s \o u, t)
  PROVE  IsPrefixOf(s, t)
<1>1. /\ Len(s) \in Nat /\ Len(u) \in Nat /\ Len(t) \in Nat
      /\ Len(s \o u) = Len(s) + Len(u)
      /\ \A i \in 1..Len(s) : (s \o u)[i] = s[i]
  BY ConcatProperties, LenProperties
<1> QED
  BY <1>1 DEF IsPrefixOf

LEMMA PrefixOfAppend ==
  ASSUME NEW S, NEW s \in Seq(S), NEW t \in Seq(S), NEW e \in S,
         IsPrefixOf(s, t)
  PROVE  IsPrefixOf(s, Append(t, e))
<1>1. /\ Len(s) \in Nat /\ Len(t) \in Nat /\ Len(Append(t, e)) = Len(t) + 1
      /\ \A i \in 1..Len(t) : Append(t, e)[i] = t[i]
  BY AppendProperties, LenProperties
<1> QED
  BY <1>1 DEF IsPrefixOf

(* The three moves of the input pipeline: a message joins the queue, goes from
   the queue to the typist, and from the typist to the session. *)
LEMMA MoveToQueue ==
  ASSUME NEW S, NEW a \in Seq(S), NEW h \in Seq(S), NEW q \in Seq(S), NEW m \in S
  PROVE  a \o h \o Append(q, m) = Append(a \o h \o q, m)
<1>1. a \o h \in Seq(S) /\ (a \o h) \o q \in Seq(S) /\ <<m>> \in Seq(S)
  BY ConcatProperties
<1>2. (a \o h) \o (q \o <<m>>) = ((a \o h) \o q) \o <<m>>
  BY <1>1, ConcatAssociative
<1> QED
  BY <1>1, <1>2, AppendIsConcat

LEMMA MoveToTypist ==
  ASSUME NEW S, NEW a \in Seq(S), NEW q \in Seq(S), q # <<>>
  PROVE  a \o <<Head(q)>> \o Tail(q) = a \o <<>> \o q
<1>1. Head(q) \in S /\ Tail(q) \in Seq(S) /\ <<Head(q)>> \in Seq(S)
  BY HeadTailProperties
<1>2. <<Head(q)>> \o Tail(q) = q
  BY <1>1
<1>3. (a \o <<Head(q)>>) \o Tail(q) = a \o (<<Head(q)>> \o Tail(q))
  BY <1>1, ConcatAssociative
<1>4. a \o <<>> = a
  BY ConcatEmptySeq
<1> QED
  BY <1>2, <1>3, <1>4

LEMMA MoveToSession ==
  ASSUME NEW S, NEW a \in Seq(S), NEW h \in Seq(S), NEW q \in Seq(S)
  PROVE  (a \o h) \o <<>> \o q = a \o h \o q
BY ConcatProperties, ConcatEmptySeq

(* IInv is inductive, one step of the proof per action. *)
LEMMA InvStep == TypeOK /\ IInv /\ [Next]_vars => IInv'
<1> SUFFICES ASSUME TypeOK, IInv, [Next]_vars PROVE IInv'
  OBVIOUS
<1>a. /\ applied \in Seq(Msgs) /\ held \in Seq(Msgs) /\ queue \in Seq(Msgs)
      /\ received \in Seq(Msgs)
  BY DEF TypeOK
<1>b. \A m \in Msgs :
        applied \o held \o Append(queue, m) = Append(applied \o held \o queue, m)
  BY <1>a, MoveToQueue
<1>c. queue # <<>> => applied \o <<Head(queue)>> \o Tail(queue)
                        = applied \o <<>> \o queue
  BY <1>a, MoveToTypist
<1>d. (applied \o held) \o <<>> \o queue = applied \o held \o queue
  BY <1>a, MoveToSession
<1> USE CapacityAssumption, MessageAssumption, StreamAssumption
    DEF TypeOK, Cancel, ctxDone, Writers, world, input, output, threads,
        IInv, InputInv, StartInv, LiveInv, PumpInv, SendingInv, WaiterInv,
        LockInv, ClientInv, Sending, Pending
<1>1. CASE UNCHANGED vars
  BY <1>1 DEF vars
<1>2. CASE BrowserLeaves
  BY <1>2 DEF BrowserLeaves
<1>5. CASE ParentCancelled
  BY <1>5 DEF ParentCancelled
<1>6. CASE ShellEnds
  BY <1>6 DEF ShellEnds, ShellRuns
<1>7. ASSUME NEW s \in Streams, ChunkArrives(s) PROVE IInv'
  BY <1>7 DEF ChunkArrives, ShellRuns
<1>8. CASE ContextClosesSocket
  BY <1>8 DEF ContextClosesSocket
<1>9. CASE ContextClosesClient
  BY <1>9 DEF ContextClosesClient, ClientHookDue
<1>10. ASSUME NEW w \in Writers, Lock(w) PROVE IInv'
  BY <1>10 DEF Lock
<1>11. CASE Tick
  BY <1>11 DEF Tick
<1>12. CASE PingerStops
  BY <1>12 DEF PingerStops
<1>13. ASSUME NEW ok \in BOOLEAN, PingEnds(ok) PROVE IInv'
  BY <1>13 DEF PingEnds, WriteEnds
<1>14. CASE ReadFails
  BY <1>14 DEF ReadFails, ReaderEnds
<1>15. ASSUME NEW m \in Msgs, ReadMessage(m) PROVE IInv'
  <2>1. IsPrefixOf(applied, received')
    BY <1>15, PrefixOfAppend DEF ReadMessage, Room, Overflow, ReaderEnds
  <2>2. Pending \in Seq(Msgs)
    BY ConcatProperties
  <2>3. CASE Len(queue) < Capacity /\ queue' = Append(queue, m)
             /\ UNCHANGED <<reader, by>>
    <3>1. Pending' = Append(Pending, m)
      BY <1>b, <1>15, <2>3 DEF ReadMessage, Room, Overflow, ReaderEnds
    <3>2. typist # "done" => Pending' = received'
      BY <1>15, <3>1 DEF ReadMessage, Room, Overflow, ReaderEnds
    <3>3. received' \in Seq(Msgs)
      BY <1>15, AppendProperties DEF ReadMessage, Room, Overflow, ReaderEnds
    <3>4. InputInv'
      BY <1>15, <2>1, <3>2, <3>3, PrefixReflexive DEF ReadMessage, Room, Overflow, ReaderEnds
    <3> QED
      BY <1>15, <2>3, <3>4 DEF ReadMessage, Room, Overflow, ReaderEnds
  <2>4. CASE reader' = "done" /\ Cancel("other") /\ UNCHANGED queue
    <3>1. typist # "done" => IsPrefixOf(Pending, received')
      BY <1>15, <2>2, PrefixOfAppend DEF ReadMessage, Room, Overflow, ReaderEnds
    <3>2. InputInv'
      BY <1>15, <2>1, <2>4, <3>1 DEF ReadMessage, Room, Overflow, ReaderEnds
    <3> QED
      BY <1>15, <2>4, <3>2 DEF ReadMessage, Room, Overflow, ReaderEnds
  <2> QED
    BY <1>15, <2>3, <2>4 DEF ReadMessage, Room, Overflow, ReaderEnds
<1>16. CASE TypistTakes
  <2>1. CASE Head(queue) \in Junk
    BY <1>16, <2>1 DEF TypistTakes, TypistEnds
  <2>2. CASE Head(queue) \notin Junk
    <3>1. typist' = "writing" /\ held' = <<Head(queue)>> /\ by' = by
      BY <1>16, <2>2 DEF TypistTakes, TypistEnds
    <3>2. Pending' = Pending
      BY <1>c, <1>16, <3>1 DEF TypistTakes, TypistEnds
    <3>3. InputInv'
      BY <1>16, <3>1, <3>2 DEF TypistTakes, TypistEnds
    <3> QED
      BY <1>16, <3>1, <3>3 DEF TypistTakes, TypistEnds
  <2> QED
    BY <2>1, <2>2
<1>17. CASE TypistWrites
  <2>1. Pending' = Pending
    BY <1>d, <1>17 DEF TypistWrites
  <2>2. applied \o held \in Seq(Msgs)
    BY ConcatProperties
  <2>3. IsPrefixOf((applied \o held) \o queue, received)
    BY <1>17 DEF TypistWrites
  <2>4. IsPrefixOf(applied', received')
    BY <1>17, <2>2, <2>3, PrefixOfConcat DEF TypistWrites
  <2>5. InputInv'
    BY <1>17, <2>1, <2>4 DEF TypistWrites
  <2> QED
    BY <1>17, <2>5 DEF TypistWrites
<1>18. CASE TypistFails
  BY <1>18 DEF TypistFails, TypistEnds
<1>19. CASE TypistStops
  BY <1>19 DEF TypistStops
<1>20. ASSUME NEW s \in Streams, PumpReads(s) PROVE IInv'
  BY <1>20 DEF PumpReads
<1>21. ASSUME NEW s \in Streams, PumpReadsEOF(s) PROVE IInv'
  BY <1>21 DEF PumpReadsEOF
<1>22. ASSUME NEW s \in Streams, NEW ok \in BOOLEAN, PumpWriteEnds(s, ok) PROVE IInv'
  <2>1. /\ lock = s /\ lock' = "free" /\ pump[s] = "sending"
        /\ UNCHANGED <<world, ws, transport, main, reader, pinger, waiter,
                       typist, input, eof, arrived, taken>>
    BY <1>22 DEF PumpWriteEnds, WriteEnds
  <2>2. CASE ok
    <3>1. /\ pump' = [pump EXCEPT ![s] = "reading"]
          /\ shown' = [shown EXCEPT ![s] = @ + 1] /\ by' = by
      BY <1>22, <2>2 DEF PumpWriteEnds
    <3> QED
      BY <2>1, <3>1
  <2>3. CASE ~ok
    <3>1. /\ pump' = [pump EXCEPT ![s] = "done"]
          /\ shown' = shown /\ Cancel("other")
      BY <1>22, <2>3, Zenon DEF PumpWriteEnds
    <3> QED
      BY <2>1, <3>1
  <2> QED
    BY <2>2, <2>3
<1>23. CASE WaiterCancels
  <2>1. ctxDone' /\ waiter' = "done" /\ (by' = by \/ ~ctxDone)
    BY <1>23 DEF WaiterCancels, OutputEnded
  <2>2. ~ctxDone => eof /\ \A s \in Streams : pump[s] = "done"
                                             /\ shown[s] = arrived[s]
    BY <1>23 DEF WaiterCancels, OutputEnded
  <2>3. WaiterInv'
    BY <1>23, <2>1, <2>2 DEF WaiterCancels, OutputEnded
  <2> QED
    BY <1>23, <2>1, <2>3 DEF WaiterCancels, OutputEnded
<1>24. CASE DialSucceeds
  BY <1>24 DEF DialSucceeds, MainAt
<1>25. CASE DialFails
  BY <1>25 DEF DialFails, MainAt
<1>26. CASE SessionStarts
  BY <1>26 DEF SessionStarts, MainAt
<1>27. CASE SessionAborts
  BY <1>27 DEF SessionAborts
<1>28. CASE SessionFails
  BY <1>28 DEF SessionFails, MainAt
<1>29. ASSUME NEW ok \in BOOLEAN, ReportEnds(ok) PROVE IInv'
  BY <1>29 DEF ReportEnds, WriteEnds, MainAt
<1>30. CASE GreetingFails
  BY <1>30 DEF GreetingFails, WriteEnds, MainAt
<1>31. CASE GreetingSent
  BY <1>31 DEF GreetingSent, StartWaiter, WriteEnds
<1>32. CASE Woken
  BY <1>32 DEF Woken, MainAt
<1>33. CASE MainClosesClient
  BY <1>33 DEF MainClosesClient, CloseClient, MainAt
<1>34. CASE HangUp
  BY <1>34 DEF HangUp, MainAt
<1> QED
  BY <1>1, <1>2, <1>5, <1>6, <1>7, <1>8, <1>9, <1>10, <1>11,
     <1>12, <1>13, <1>14, <1>15, <1>16, <1>17, <1>18, <1>19, <1>20, <1>21,
     <1>22, <1>23, <1>24, <1>25, <1>26, <1>27, <1>28, <1>29, <1>30, <1>31,
     <1>32, <1>33, <1>34
     DEF Next, World, Pinger, Reader, Typist, Pump, Main

-----------------------------------------------------------------------------
(* The types hold in every behaviour. *)
THEOREM TypeCorrect == Spec => []TypeOK
<1>1. Init => TypeOK
  <2> SUFFICES ASSUME Init PROVE TypeOK
    OBVIOUS
  <2>1. <<>> \in Seq(Msgs) /\ Len(<<>>) = 0
    BY EmptySeq
  <2>2. /\ [s \in Streams |-> "none"]
              \in [Streams -> {"none", "reading", "sending", "done"}]
        /\ [s \in Streams |-> 0] \in [Streams -> Nat]
    OBVIOUS
  <2>3. /\ received \in Seq(Msgs) /\ applied \in Seq(Msgs)
        /\ queue \in Seq(Msgs) /\ Len(queue) <= Capacity
        /\ held \in Seq(Msgs) /\ Len(held) <= 1
    BY <2>1, CapacityAssumption DEF Init
  <2>4. pump \in [Streams -> {"none", "reading", "sending", "done"}]
    BY <2>2 DEF Init
  <2>5. /\ arrived \in [Streams -> Nat] /\ taken \in [Streams -> Nat]
        /\ shown \in [Streams -> Nat]
    BY <2>2 DEF Init
  <2> QED
    BY <2>3, <2>4, <2>5 DEF Init, TypeOK, Writers
<1> QED
  BY <1>1, TypeStep, PTL DEF Spec

THEOREM InvCorrect == Spec => []IInv
<1>1. Init => IInv
  <2> SUFFICES ASSUME Init PROVE IInv
    OBVIOUS
  <2>1. InputInv
    <3>1. <<>> \o <<>> \o <<>> = <<>>
      OBVIOUS
    <3> QED
      BY <3>1 DEF Init, InputInv, Pending, IsPrefixOf
  <2> QED
    BY <2>1, StreamAssumption
    DEF Init, IInv, StartInv, LiveInv, PumpInv, SendingInv, WaiterInv,
        LockInv, ClientInv, ctxDone, Writers
<1> QED
  BY <1>1, TypeCorrect, InvStep, PTL DEF Spec

(* What the SSH session receives is the browser's input without a gap, with
   any queue capacity: readTerminalInput disconnects rather than skip. *)
THEOREM InputCorrect == Spec => []InputHasNoGap
<1>1. IInv => InputHasNoGap
  BY DEF IInv, InputInv, LiveInv, InputHasNoGap
<1> QED
  BY <1>1, InvCorrect, PTL

(* The end of one stream never cuts off the output of another: the waiter
   cancels only when every pump has shown all that arrived. *)
THEOREM OutputCorrect == Spec => []OutputIsComplete
<1>1. IInv => OutputIsComplete
  BY DEF IInv, WaiterInv, OutputIsComplete
<1> QED
  BY <1>1, InvCorrect, PTL

(* A session is never half alive: each goroutine that stops cancels ctx. *)
THEOREM LiveCorrect == Spec => []NoHalfSession
<1>1. TypeOK /\ IInv => NoHalfSession
  BY DEF TypeOK, IInv, LiveInv, PumpInv, NoHalfSession
<1> QED
  BY <1>1, TypeCorrect, InvCorrect, PTL

(* runTerminal returns with the client and the socket closed. *)
THEOREM CleanCorrect == Spec => []NothingOutlivesHandler
<1>1. IInv => NothingOutlivesHandler
  BY DEF IInv, ClientInv, NothingOutlivesHandler
<1> QED
  BY <1>1, InvCorrect, PTL

-----------------------------------------------------------------------------
(* Refinement.  A step of Terminal is seen by the owner of the transport only
   through three values. *)
Seen == <<main, ctxDone, transport>>

LEMMA OwnerStutters == UNCHANGED Seen => UNCHANGED Owner!vars
BY DEF Seen, Owner!vars

(* Cancelling ctx, once or again, is the owner's Cancel or nothing. *)
LEMMA OwnerCancels ==
  ASSUME TypeOK, NEW who \in {"waiter", "other"},
         Cancel(who) \/ UNCHANGED by, UNCHANGED <<main, transport>>
  PROVE  [Owner!Next]_(Owner!vars)
<1>1. CASE ctxDone' = ctxDone
  BY <1>1, OwnerStutters DEF Seen
<1>2. CASE ctxDone' # ctxDone
  <2>1. ~ctxDone /\ ctxDone' = TRUE
    BY <1>2 DEF TypeOK, Cancel, ctxDone
  <2>2. Owner!Cancel
    BY <2>1 DEF Owner!Cancel
  <2> QED
    BY <2>2 DEF Owner!Next
<1> QED
  BY <1>1, <1>2

LEMMA OwnerStep == TypeOK /\ IInv /\ [Next]_vars => [Owner!Next]_(Owner!vars)
<1> SUFFICES ASSUME TypeOK, IInv, [Next]_vars PROVE [Owner!Next]_(Owner!vars)
  OBVIOUS
<1>a. transport \in {"none", "open", "closed"}
  BY DEF TypeOK
<1>b. main \in {"greet", "wait"} /\ ~ctxDone => transport = "open"
  BY DEF IInv, LiveInv
<1>c. main = "dial" => transport = "none"
  BY DEF IInv, ClientInv
<1>1. CASE UNCHANGED vars
  BY <1>1, OwnerStutters DEF vars, threads, Seen, ctxDone
<1>2. CASE World
  <2>1. CASE ParentCancelled
    BY <2>1, OwnerCancels DEF ParentCancelled, threads
  <2>2. CASE World /\ ~ParentCancelled
    BY <2>2, OwnerStutters
       DEF World, BrowserLeaves, ShellEnds,
           ChunkArrives, threads, Seen, ctxDone
  <2> QED
    BY <1>2, <2>1, <2>2
<1>3. CASE ContextClosesSocket
  BY <1>3, OwnerStutters DEF ContextClosesSocket, threads, Seen, ctxDone
<1>4. CASE ContextClosesClient
  <2>1. Owner!Drop("ssh")
    BY <1>4 DEF ContextClosesClient, ClientHookDue, threads, Owner!Drop, ctxDone
  <2> QED
    BY <2>1 DEF Owner!Next
<1>5. ASSUME NEW w \in Writers, Lock(w) PROVE [Owner!Next]_(Owner!vars)
  BY <1>5, OwnerStutters DEF Lock, threads, Seen, ctxDone
<1>6. CASE Pinger
  BY <1>6, OwnerCancels DEF Pinger, Tick, PingerStops, PingEnds, threads
<1>7. CASE Reader
  BY <1>7, OwnerCancels DEF Reader, ReadFails, ReadMessage, Overflow, ReaderEnds
<1>8. CASE Typist
  BY <1>8, OwnerCancels
     DEF Typist, TypistTakes, TypistWrites, TypistFails, TypistStops, TypistEnds
<1>9. CASE WaiterCancels
  BY <1>9, OwnerCancels DEF WaiterCancels
<1>10. ASSUME NEW s \in Streams, Pump(s) PROVE [Owner!Next]_(Owner!vars)
  BY <1>10, OwnerCancels DEF Pump, PumpReads, PumpReadsEOF, PumpWriteEnds
<1>11. CASE DialSucceeds
  <2>1. Owner!Open("ssh")
    BY <1>c, <1>11 DEF DialSucceeds, MainAt, Owner!Open, ctxDone
  <2> QED
    BY <2>1 DEF Owner!Next
<1>12. CASE SessionStarts
  <2>1. Owner!Deliver
    BY <1>12 DEF SessionStarts, MainAt, Owner!Deliver, ctxDone
  <2> QED
    BY <2>1 DEF Owner!Next
<1>13. CASE SessionAborts
  <2>1. Owner!Drop("ssh")
    BY <1>13 DEF SessionAborts, threads, Owner!Drop, ctxDone
  <2> QED
    BY <2>1 DEF Owner!Next
<1>14. CASE DialFails \/ SessionFails
  <2>1. Owner!Fail
    BY <1>c, <1>14 DEF DialFails, SessionFails, MainAt, Owner!Fail, ctxDone
  <2> QED
    BY <2>1 DEF Owner!Next
<1>15. CASE GreetingFails \/ Woken
  <2>1. Owner!Release
    BY <1>15 DEF GreetingFails, Woken, MainAt, Owner!Release, ctxDone
  <2> QED
    BY <2>1 DEF Owner!Next
<1>16. CASE GreetingSent \/ \E ok \in BOOLEAN : ReportEnds(ok)
  <2>1. UNCHANGED Owner!vars
    BY <1>16 DEF GreetingSent, ReportEnds, MainAt, Owner!vars, ctxDone
  <2> QED
    BY <2>1
<1>17. CASE MainClosesClient
  <2>1. CASE transport = "open"
    <3>1. Owner!Drop("ssh")
      BY <1>17, <2>1 DEF MainClosesClient, CloseClient, MainAt, Owner!Drop, ctxDone
    <3> QED
      BY <3>1 DEF Owner!Next
  <2>2. CASE transport # "open"
    BY <1>17, <2>2 DEF MainClosesClient, CloseClient, MainAt, Owner!vars, ctxDone
  <2> QED
    BY <2>1, <2>2
<1>18. CASE HangUp
  <2>1. CASE ctxDone
    BY <1>18, <2>1 DEF HangUp, MainAt, Cancel, Owner!vars, ctxDone
  <2>2. CASE ~ctxDone
    <3>1. Owner!Cancel
      BY <1>18, <2>2 DEF HangUp, MainAt, Cancel, Owner!Cancel, ctxDone
    <3> QED
      BY <3>1 DEF Owner!Next
  <2> QED
    BY <2>1, <2>2
<1> QED
  BY <1>1, <1>2, <1>3, <1>4, <1>5, <1>6, <1>7, <1>8, <1>9, <1>10, <1>11, <1>12,
     <1>13, <1>14, <1>15, <1>16, <1>17, <1>18
     DEF Next, Main

(* runTerminal uses its SSH client as the owner of one transport may be used:
   every step of the handler is a step of TransportOwner or none, so a client
   in use is given up only once ctx is done. *)
THEOREM TerminalKeepsTransport == Spec => Owner!Safety
<1>1. Init => Owner!Init
  BY DEF Init, Owner!Init, ctxDone
<1> QED
  BY <1>1, TypeCorrect, InvCorrect, OwnerStep, PTL DEF Spec, Owner!Safety
-----------------------------------------------------------------------------
(* SSHClient.  Where the dialling goroutine can be in each stage. *)
StageInv ==
    /\ stage = "via" => viaJump
    /\ at = "connect" => stage = "dial"
    /\ at = "channel" => stage = "via"
    /\ at = "handshake" => stage \in {"dial", "via"}
    /\ at \in {"open", "register", "usable", "releasing", "released"} =>
         stage = "session"
    /\ at = "closing" => victim \in Clients

(* Which transports have been made, and what a Client closed means for them:
   jump.Close() has run before the once of the inner Client is over. *)
MadeInv ==
    /\ stage = "dial" => conn["inner"] = "none"
    /\ stage = "via" /\ at \in {"config", "channel"} => conn["inner"] = "none"
    /\ stage = "dial" /\ at \in {"config", "connect"} => conn["outer"] = "none"
    /\ stage # "dial" \/ at \notin {"config", "connect", "failed"} =>
         conn["outer"] # "none"
    /\ stage = "via" /\ at \in {"handshake", "stop", "check", "return"} =>
         conn["inner"] # "none"
    /\ stage = "session" => conn[Top] # "none"

ClosedInv ==
    /\ \A c \in Clients : conn[c] = "none" => once[c] = "idle" /\ watch[c] = "none"
    /\ once["outer"] = "closed" <=> conn["outer"] = "closed"
    /\ once["inner"] = "closed" => conn["inner"] = "closed" /\ once["outer"] = "closed"
    /\ conn["inner"] = "closed" => once["inner"] = "closed" \/ at \in {"closing", "failed"}

(* A setup hook outlives its stage only if the attempt has failed. *)
HookInv ==
    /\ \A k \in Stages : hook[k] \in {"armed", "fired", "done"} =>
         /\ k = stage
         /\ at \in {"channel", "handshake", "open", "register", "stop",
                    "closing", "failed"}
    /\ hook["held"] # "none" => stage = "session"
    /\ hook["held"] \in {"fired", "done"} => cancelled
    /\ hook["dial"] \in {"armed", "fired"} => conn["outer"] # "none"

(* A Client is closed for a reason. *)
ReasonInv ==
    (\E c \in Clients : once[c] # "idle") =>
       \/ cancelled
       \/ at \in {"closing", "failed", "releasing", "released"}
       \/ hook[stage] \in {"fired", "done"}

AttemptInv == StageInv /\ MadeInv /\ ClosedInv /\ HookInv /\ ReasonInv
              /\ FailureReleases

-----------------------------------------------------------------------------
(* The types of SSHClient; a client without a jump host has no inner part. *)
LEMMA ClientTypeStep ==
    ClientTypeOK /\ AttemptInv /\ [ClientNext]_clientVars => ClientTypeOK'
<1> SUFFICES ASSUME ClientTypeOK, AttemptInv, [ClientNext]_clientVars
             PROVE  ClientTypeOK'
  OBVIOUS
<1> USE DEF ClientTypeOK, AttemptInv, StageInv, MadeInv, ClosedInv, HookInv,
            Clients, Stages, Hooks, Route, Top, env, control, timers, owned
<1>1. CASE UNCHANGED clientVars
  BY <1>1 DEF clientVars
<1>2. CASE CallerCancels
  BY <1>2 DEF CallerCancels
<1>3. CASE PeerStalls
  BY <1>3 DEF PeerStalls
<1>4. CASE BadConfig
  BY <1>4 DEF BadConfig, Goto
<1>5. CASE StartDial
  BY <1>5 DEF StartDial, Begin, Goto
<1>6. CASE Connected
  BY <1>6 DEF Connected, Arm, Goto
<1>7. CASE ConnectFails
  BY <1>7 DEF ConnectFails, EndSetup, Goto
<1>8. CASE HandshakeDone
  BY <1>8 DEF HandshakeDone, Goto
<1>9. CASE StartVia
  BY <1>9 DEF StartVia, Begin, Arm, Goto
<1>10. CASE ChannelOpened
  BY <1>10 DEF ChannelOpened, Goto
<1>11. CASE StartSession
  BY <1>11 DEF StartSession, Begin, Arm, Goto
<1>12. CASE SessionOpened
  BY <1>12 DEF SessionOpened, Goto
<1>13. CASE Register
  BY <1>13 DEF Register, Arm, Goto
<1>14. CASE RequestError
  BY <1>14 DEF RequestError, CloseThenFail, CallClose, StageOwner
<1>15. CASE StopHook
  BY <1>15 DEF StopHook, Stopped, CloseThenFail, CallClose, MadeClient, Goto
<1>16. CASE CheckSetup
  BY <1>16 DEF CheckSetup, CloseThenFail, CallClose, MadeClient, Goto
<1>17. CASE Return
  BY <1>17 DEF Return, AfterDial, MadeClient, EndSetup, Stopped
<1>18. CASE CloseChannel
  BY <1>18 DEF CloseChannel
<1>19. CASE ReturnError
  BY <1>19 DEF ReturnError, ClosedAll, EndSetup, Stopped, Goto
<1>20. CASE Release
  BY <1>20 DEF Release, Stopped, CallClose, Goto
<1>21. CASE Released
  BY <1>21 DEF Released, Goto
<1>22. CASE CloseOuter
  BY <1>22 DEF CloseOuter
<1>23. CASE CloseInner
  BY <1>23 DEF CloseInner, JumpFirst, CallClose
<1>24. ASSUME NEW c \in Clients, WatchCancelled(c) PROVE ClientTypeOK'
  BY <1>24 DEF WatchCancelled, CallClose
<1>25. ASSUME NEW c \in Clients, WatchEnds(c) PROVE ClientTypeOK'
  BY <1>25 DEF WatchEnds, DoneClosed
<1>26. ASSUME NEW k \in Hooks, HookFires(k) PROVE ClientTypeOK'
  BY <1>26 DEF HookFires, ContextDone
<1>27. ASSUME NEW k \in Hooks, HookCloses(k) PROVE ClientTypeOK'
  BY <1>27 DEF HookCloses, HookTarget, CallClose
<1>28. ASSUME NEW k \in Hooks, HookReturns(k) PROVE ClientTypeOK'
  BY <1>28 DEF HookReturns
<1>29. ASSUME NEW s \in Stages, SetupEnds(s) PROVE ClientTypeOK'
  BY <1>29 DEF SetupEnds
<1> QED
  BY <1>1, <1>2, <1>3, <1>4, <1>5, <1>6, <1>7, <1>8, <1>9, <1>10, <1>11,
     <1>12, <1>13, <1>14, <1>15, <1>16, <1>17, <1>18, <1>19, <1>20, <1>21,
     <1>22, <1>23, <1>24, <1>25, <1>26, <1>27, <1>28, <1>29
     DEF ClientNext, Dialler, Helpers

(* AttemptInv is inductive relative to the types, one step of the proof per action. *)
LEMMA AttemptStep ==
    ClientTypeOK /\ AttemptInv /\ [ClientNext]_clientVars => AttemptInv'
<1> SUFFICES ASSUME ClientTypeOK, AttemptInv, [ClientNext]_clientVars
             PROVE  AttemptInv'
  OBVIOUS
<1> USE DEF ClientTypeOK, AttemptInv, StageInv, MadeInv, ClosedInv, HookInv,
            ReasonInv, FailureReleases, Clients, Stages, Hooks, Route, Top,
            env, control, timers, owned
<1>1. CASE UNCHANGED clientVars
  BY <1>1 DEF clientVars
<1>2. CASE CallerCancels
  BY <1>2 DEF CallerCancels
<1>3. CASE PeerStalls
  BY <1>3 DEF PeerStalls
<1>4. CASE BadConfig
  BY <1>4 DEF BadConfig, Goto
<1>5. CASE StartDial
  BY <1>5 DEF StartDial, Begin, Goto
<1>6. CASE Connected
  BY <1>6 DEF Connected, Arm, Goto
<1>7. CASE ConnectFails
  BY <1>7 DEF ConnectFails, EndSetup, Goto
<1>8. CASE HandshakeDone
  BY <1>8 DEF HandshakeDone, Goto
<1>9. CASE StartVia
  BY <1>9 DEF StartVia, Begin, Arm, Goto
<1>10. CASE ChannelOpened
  BY <1>10 DEF ChannelOpened, Goto
<1>11. CASE StartSession
  BY <1>11 DEF StartSession, Begin, Arm, Goto
<1>12. CASE SessionOpened
  BY <1>12 DEF SessionOpened, Goto
<1>13. CASE Register
  BY <1>13 DEF Register, Arm, Goto
<1>14. CASE RequestError
  BY <1>14 DEF RequestError, CloseThenFail, CallClose, StageOwner
<1>15. CASE StopHook
  BY <1>15 DEF StopHook, Stopped, CloseThenFail, CallClose, MadeClient, Goto
<1>16. CASE CheckSetup
  BY <1>16 DEF CheckSetup, CloseThenFail, CallClose, MadeClient, Goto
<1>17. CASE Return
  BY <1>17 DEF Return, AfterDial, MadeClient, EndSetup, Stopped
<1>18. CASE CloseChannel
  BY <1>18 DEF CloseChannel
<1>19. CASE ReturnError
  BY <1>19 DEF ReturnError, ClosedAll, EndSetup, Stopped, Goto
<1>20. CASE Release
  BY <1>20 DEF Release, Stopped, CallClose, Goto
<1>21. CASE Released
  BY <1>21 DEF Released, Goto
<1>22. CASE CloseOuter
  BY <1>22 DEF CloseOuter
<1>23. CASE CloseInner
  BY <1>23 DEF CloseInner, JumpFirst, CallClose
<1>24. ASSUME NEW c \in Clients, WatchCancelled(c) PROVE AttemptInv'
  BY <1>24 DEF WatchCancelled, CallClose
<1>25. ASSUME NEW c \in Clients, WatchEnds(c) PROVE AttemptInv'
  BY <1>25 DEF WatchEnds, DoneClosed
<1>26. ASSUME NEW k \in Hooks, HookFires(k) PROVE AttemptInv'
  BY <1>26 DEF HookFires, ContextDone
<1>27. ASSUME NEW k \in Hooks, HookCloses(k) PROVE AttemptInv'
  BY <1>27 DEF HookCloses, HookTarget, CallClose
<1>28. ASSUME NEW k \in Hooks, HookReturns(k) PROVE AttemptInv'
  BY <1>28 DEF HookReturns
<1>29. ASSUME NEW s \in Stages, SetupEnds(s) PROVE AttemptInv'
  BY <1>29 DEF SetupEnds
<1> QED
  BY <1>1, <1>2, <1>3, <1>4, <1>5, <1>6, <1>7, <1>8, <1>9, <1>10, <1>11,
     <1>12, <1>13, <1>14, <1>15, <1>16, <1>17, <1>18, <1>19, <1>20, <1>21,
     <1>22, <1>23, <1>24, <1>25, <1>26, <1>27, <1>28, <1>29
     DEF ClientNext, Dialler, Helpers

(* Types and AttemptInv hold in every behaviour of an attempt. *)
THEOREM AttemptCorrect == ClientSpec => [](ClientTypeOK /\ AttemptInv)
<1>1. ClientInit => ClientTypeOK /\ AttemptInv
  <2> SUFFICES ASSUME ClientInit PROVE ClientTypeOK /\ AttemptInv
    OBVIOUS
  <2>1. /\ stage = "dial" /\ at = "config"
        /\ \A c \in Clients : conn[c] = "none" /\ once[c] = "idle" /\ watch[c] = "none"
        /\ \A k \in Hooks : hook[k] = "none"
    BY DEF ClientInit
  <2>2. ClientTypeOK
    BY DEF ClientInit, ClientTypeOK, Clients, Stages, Hooks, Route
  <2>3. AttemptInv
    BY <2>1 DEF AttemptInv, StageInv, MadeInv, ClosedInv, HookInv, ReasonInv,
                FailureReleases, Clients, Stages, Hooks
  <2> QED
    BY <2>2, <2>3
<1> QED
  BY <1>1, ClientTypeStep, AttemptStep, PTL DEF ClientSpec

(* An attempt that returns an error leaves nothing open: Close has run to its
   end before ReturnError, and jump.Close() before the inner Client's end. *)
THEOREM FailureCorrect == ClientSpec => []FailureReleases
<1>1. AttemptInv => FailureReleases
  BY DEF AttemptInv
<1> QED
  BY <1>1, AttemptCorrect, PTL

(* A client handed over is open until its caller's context is done: the setup
   hook was detached while it had not started. *)
THEOREM UsableCorrect == ClientSpec => []UsableStaysOpen
<1>1. ClientTypeOK /\ AttemptInv => UsableStaysOpen
  BY DEF ClientTypeOK, AttemptInv, StageInv, MadeInv, ClosedInv, HookInv,
         ReasonInv, UsableStaysOpen, Clients, Stages, Hooks, Route, Top
<1> QED
  BY <1>1, AttemptCorrect, PTL

-----------------------------------------------------------------------------
(* Refinement.  What the owner of the transports sees of an attempt. *)
AttemptSeen == <<at, cancelled, conn>>

LEMMA AttemptStutters == UNCHANGED AttemptSeen => UNCHANGED ClientOwner!vars
BY DEF AttemptSeen, ClientOwner!vars

(* Moving inside setup, or from releasing to released, is not seen either. *)
Unusable == {"failed", "releasing", "released"}

LEMMA AttemptMoves ==
  ASSUME UNCHANGED <<cancelled, conn>>,
         \/ at \notin Unusable \cup {"usable"} /\ at' \notin Unusable \cup {"usable"}
         \/ at \in Unusable /\ at' \in Unusable
  PROVE  UNCHANGED ClientOwner!vars
BY DEF Unusable, ClientOwner!vars

(* Closing a transport drops it, or it was closed before. *)
LEMMA AttemptDrops ==
  ASSUME ClientTypeOK, NEW c \in Clients, UNCHANGED <<at, cancelled>>,
         conn' = [conn EXCEPT ![c] = "closed"],
         at # "usable" \/ cancelled
  PROVE  [ClientOwner!Next]_(ClientOwner!vars)
<1>1. CASE conn[c] = "open"
  <2>1. c \in {h \in Clients : conn[h] = "open"}
    BY <1>1
  <2>2. {h \in Clients : conn'[h] = "open"} = {h \in Clients : conn[h] = "open"} \ {c}
    BY <1>1 DEF ClientTypeOK
  <2>3. ClientOwner!Drop(c)
    BY <2>1, <2>2 DEF ClientOwner!Drop
  <2> QED
    BY <2>3 DEF ClientOwner!Next
<1>2. CASE conn[c] # "open"
  <2>1. {h \in Clients : conn'[h] = "open"} = {h \in Clients : conn[h] = "open"}
    BY <1>2 DEF ClientTypeOK
  <2> QED
    BY <2>1 DEF ClientOwner!vars
<1> QED
  BY <1>1, <1>2

LEMMA AttemptOpens ==
  ASSUME ClientTypeOK, NEW c \in Clients, conn[c] # "open",
         conn' = [conn EXCEPT ![c] = "open"], cancelled' = cancelled,
         at \notin Unusable \cup {"usable"}, at' \notin Unusable \cup {"usable"}
  PROVE  ClientOwner!Next
<1>1. /\ c \notin {h \in Clients : conn[h] = "open"}
      /\ {h \in Clients : conn'[h] = "open"} = {h \in Clients : conn[h] = "open"} \cup {c}
  BY DEF ClientTypeOK
<1>2. ClientOwner!Open(c)
  BY <1>1 DEF ClientOwner!Open, Unusable
<1> QED
  BY <1>2 DEF ClientOwner!Next

LEMMA AttemptFails ==
  ASSUME UNCHANGED <<cancelled, conn>>, at \notin Unusable \cup {"usable"},
         at' = "failed", \A c \in Clients : conn[c] # "open"
  PROVE  ClientOwner!Next
BY DEF Unusable, ClientOwner!Next, ClientOwner!Fail

LEMMA ClientOwnerStep ==
    ClientTypeOK /\ AttemptInv /\ [ClientNext]_clientVars
      => [ClientOwner!Next]_(ClientOwner!vars)
<1> SUFFICES ASSUME ClientTypeOK, AttemptInv, [ClientNext]_clientVars
             PROVE  [ClientOwner!Next]_(ClientOwner!vars)
  OBVIOUS
<1>a. at = "usable" /\ ~cancelled => \A c \in Clients : once[c] = "idle"
  BY DEF AttemptInv, StageInv, HookInv, ReasonInv, Stages
<1>b. \A c \in Clients : conn[c] \in {"none", "open", "closed"}
  BY DEF ClientTypeOK
<1>1. CASE UNCHANGED clientVars
  BY <1>1, AttemptStutters DEF clientVars, AttemptSeen
<1>2. CASE CallerCancels
  <2>1. ClientOwner!Cancel
    BY <1>2 DEF CallerCancels, control, owned, ClientOwner!Cancel
  <2> QED
    BY <2>1 DEF ClientOwner!Next
<1>3. CASE \/ PeerStalls \/ \E s \in Stages : SetupEnds(s)
           \/ \E c \in Clients : WatchCancelled(c) \/ WatchEnds(c)
           \/ \E k \in Hooks : HookFires(k) \/ HookCloses(k) \/ HookReturns(k)
  BY <1>3, AttemptStutters
     DEF PeerStalls, SetupEnds, WatchCancelled, WatchEnds, HookFires,
         HookCloses, HookReturns, control, owned, env, AttemptSeen
<1>4. CASE \/ StartDial \/ HandshakeDone \/ StartVia \/ StartSession
           \/ SessionOpened \/ Register \/ RequestError \/ StopHook
           \/ CheckSetup \/ Released
  BY <1>4, AttemptMoves
     DEF StartDial, HandshakeDone, StartVia, StartSession, SessionOpened,
         Register, RequestError, StopHook, CheckSetup, Released,
         CloseThenFail, Goto, env, owned, Unusable
<1>5. CASE BadConfig \/ ConnectFails
  <2>1. \A c \in Clients : conn[c] # "open"
    BY <1>5 DEF BadConfig, ConnectFails, AttemptInv, StageInv, MadeInv, Clients
  <2> QED
    BY <1>5, <2>1, AttemptFails
       DEF BadConfig, ConnectFails, Goto, env, owned, Unusable
<1>6. CASE Connected
  <2>1. conn["outer"] = "none"
    BY <1>6 DEF Connected, AttemptInv, StageInv, MadeInv
  <2> QED
    BY <1>6, <2>1, AttemptOpens DEF Connected, Goto, env, Unusable, Clients
<1>7. CASE ChannelOpened
  <2>1. conn["inner"] = "none"
    BY <1>7 DEF ChannelOpened, AttemptInv, StageInv, MadeInv
  <2> QED
    BY <1>7, <2>1, AttemptOpens DEF ChannelOpened, Goto, env, Unusable, Clients
<1>8. CASE Return
  <2>1. CASE stage # "session"
    BY <1>8, <2>1, AttemptMoves DEF Return, env, Unusable, ClientTypeOK, Stages
  <2>2. CASE stage = "session"
    <3>1. cancelled \/ conn["outer"] = "open"
      BY <1>8, <2>2, <1>b
         DEF Return, AttemptInv, MadeInv, ClosedInv, HookInv, ReasonInv,
             Clients, Stages
    <3>2. {c \in Clients : conn[c] = "open"} # {} \/ cancelled
      BY <3>1 DEF Clients
    <3>3. at = "return" /\ at' = "usable" /\ UNCHANGED <<cancelled, conn>>
      BY <1>8, <2>2 DEF Return, env
    <3>4. ClientOwner!Deliver
      BY <3>2, <3>3 DEF ClientOwner!Deliver
    <3> QED
      BY <3>4 DEF ClientOwner!Next
  <2> QED
    BY <2>1, <2>2
<1>9. CASE CloseChannel
  BY <1>9, AttemptDrops DEF CloseChannel, control, env, Clients
<1>10. CASE CloseOuter
  <2>1. at # "usable" \/ cancelled
    BY <1>10, <1>a DEF CloseOuter, Clients
  <2> QED
    BY <1>10, <2>1, AttemptDrops DEF CloseOuter, control, env, Clients
<1>11. CASE CloseInner
  <2>1. at # "usable" \/ cancelled
    BY <1>11, <1>a DEF CloseInner, Clients
  <2>2. CASE JumpFirst
    BY <1>11, <2>2, AttemptStutters DEF CloseInner, control, env, AttemptSeen
  <2>3. CASE ~JumpFirst
    BY <1>11, <2>1, <2>3, AttemptDrops DEF CloseInner, control, env, Clients
  <2> QED
    BY <2>2, <2>3
<1>12. CASE ReturnError
  <2>1. \A c \in Clients : conn[c] # "open"
    BY <1>12
       DEF ReturnError, ClosedAll, AttemptInv, StageInv, ClosedInv, Clients
  <2> QED
    BY <1>12, <2>1, AttemptFails DEF ReturnError, Goto, env, owned, Unusable
<1>13. CASE Release
  <2>1. at = "usable" /\ at' = "releasing" /\ UNCHANGED <<cancelled, conn>>
    BY <1>13 DEF Release, Goto, env
  <2>2. ClientOwner!Release
    BY <2>1 DEF ClientOwner!Release
  <2> QED
    BY <2>2 DEF ClientOwner!Next
<1> QED
  BY <1>1, <1>2, <1>3, <1>4, <1>5, <1>6, <1>7, <1>8, <1>9, <1>10, <1>11, <1>12,
     <1>13
     DEF ClientNext, Dialler, Helpers

(* An attempt through one hop or two is an owner of its transports: it drops
   one it has handed over only after its caller's context is done, and fails
   with none open.  Terminal stands on this promise. *)
THEOREM AttemptKeepsTransports == ClientSpec => ClientOwner!Safety
<1>1. ClientInit => ClientOwner!Init
  BY DEF ClientInit, ClientOwner!Init, Clients
<1> QED
  BY <1>1, AttemptCorrect, ClientOwnerStep, PTL DEF ClientSpec, ClientOwner!Safety
=============================================================================
