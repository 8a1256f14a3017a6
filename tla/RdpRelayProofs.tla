---------------------------- MODULE RdpRelayProofs ----------------------------
(***************************************************************************)
(* Theorems about RdpRelay: for any number of chunks.                      *)
(***************************************************************************)
EXTENDS RdpRelay, TLAPS

\* The chunk the handler has in hand.
InHand == IF stage \in {"lock", "write"} THEN 1 ELSE 0

Setups == {"handshake", "dial", "negotiate", "answer"}
Relaying == {"read", "lock", "write"}

\* While the handler relays, every chunk is on the screen, in hand or unread;
\* the one that came with the end of the stream is the last.
ChunksInv ==
  /\ sent \in Nat /\ shown \in Nat /\ unread \in Nat /\ stage \in Stages
  /\ server \in {"up", "stalled", "ended"}
  /\ stage \in Setups => shown = 0 /\ unread = sent
  /\ stage \in Relaying => shown + InHand + unread = sent
  /\ stage \in Setups \cup {"read"} => ~last
  /\ stage \in Relaying /\ last => unread = 0 /\ server = "ended"
  /\ stage \in Setups \cup Relaying => by = "none"
  /\ by = "eof" => shown = sent /\ server = "ended"

LEMMA InitInv == Init => ChunksInv
BY DEF Init, ChunksInv, Stages, Setups, Relaying

\* The setup, the browser, the goroutines and the cleanup move no chunk.
Unmoved ==
  /\ sent' = sent /\ shown' = shown /\ unread' = unread /\ last' = last /\ by' = by
  /\ server' = server \/ (server = "up" /\ server' = "stalled") \/ server' = "ended"
  /\ \/ stage' = stage
     \/ stage' \in {"cleanup", "join", "leave", "returned"}
     \/ stage \in Setups /\ stage' \in Setups \cup {"read"}
     \/ stage = "lock" /\ stage' = "write"

LEMMA OtherInv ==
  ASSUME ChunksInv, Unmoved
  PROVE  ChunksInv'
BY DEF ChunksInv, Unmoved, InHand, Stages, Setups, Relaying

LEMMA SendsInv ==
  ASSUME ChunksInv, ServerSends
  PROVE  ChunksInv'
BY DEF ChunksInv, InHand, Stages, Setups, Relaying, ServerSends, OnlyWorld

LEMMA ReadInv ==
  ASSUME ChunksInv, Read
  PROVE  ChunksInv'
<1>1. /\ stage = "read" /\ stage' = "lock" /\ unread > 0 /\ unread' = unread - 1
      /\ last' \in {FALSE, unread = 1 /\ server = "ended"}
      /\ sent' = sent /\ shown' = shown /\ server' = server /\ by' = by
  BY DEF Read, AfterRead, world
<1>2. last' => unread = 1 /\ server = "ended"
  BY <1>1, Zenon
<1>3. last' => unread' = 0
  BY <1>1, <1>2
<1> QED BY <1>1, <1>2, <1>3 DEF ChunksInv, InHand, Stages, Setups, Relaying

LEMMA ReadFailsInv ==
  ASSUME ChunksInv, ReadFails
  PROVE  ChunksInv'
BY DEF ChunksInv, InHand, Stages, Setups, Relaying, ReadFails, world

LEMMA WriteInv ==
  ASSUME ChunksInv, Write
  PROVE  ChunksInv'
BY DEF ChunksInv, InHand, Stages, Setups, Relaying, Write, world

\* The inductive invariant: every chunk of the stream is accounted for.
THEOREM InvCorrect == Spec => []ChunksInv
<1>1. ASSUME ChunksInv, [Next]_vars
      PROVE  ChunksInv'
  <2>1. UNCHANGED vars => Unmoved
    BY DEF Unmoved, vars, world
  <2>2. BrowserTurns \/ ServerTurns \/ Shutdown => Unmoved
    BY DEF Unmoved, BrowserTurns, ServerTurns, Shutdown, OnlyWorld, world
  <2>3. Handshake \/ Dial \/ Negotiate \/ Answer => Unmoved
    BY DEF Unmoved, Handshake, Dial, Negotiate, Answer, Setup, Handler, world, Setups
  <2>4. Lock \/ Cleanup \/ Join \/ Leave \/ HookFires => Unmoved
    BY DEF Unmoved, Lock, Cleanup, Join, Leave, HookFires, world
  <2>5. ReaderGets \/ ReaderRejects \/ ReaderEnds \/ ReaderWrites => Unmoved
    BY DEF Unmoved, ReaderGets, ReaderRejects, ReaderEnds, ReaderWrites, Reader, world
  <2>6. PingerTicks \/ PingerEnds \/ PingerLocks \/ PingerWrites => Unmoved
    BY DEF Unmoved, PingerTicks, PingerEnds, PingerLocks, PingerWrites, Pinger, world
  <2> QED BY <1>1, <2>1, <2>2, <2>3, <2>4, <2>5, <2>6, OtherInv, SendsInv, ReadInv,
             ReadFailsInv, WriteInv DEF Next, World, Main
<1> QED BY InitInv, <1>1, PTL DEF Spec

\* A relay that ends because the server closed has shown all of it, the bytes
\* that came together with the end included (rdp_handler.go:233).
THEOREM TailCorrect == Spec => []TailIsShown
<1>1. ChunksInv => TailIsShown
  BY DEF ChunksInv, TailIsShown
<1> QED BY InvCorrect, <1>1, PTL
=============================================================================
