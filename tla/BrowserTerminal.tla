--------------------------- MODULE BrowserTerminal ---------------------------
(***************************************************************************)
(* A terminal in the browser, hooks/useTerminalConnection.ts: connect with *)
(* its callbacks and timers, fail, the queue of input with pump, and the   *)
(* announcement of the terminal's size.  A callback runs to its end before *)
(* the next one starts.  All the state but status and errorMsg is local to *)
(* one call of connect, which first cleans up the previous one, so one     *)
(* connection is modelled, from connect to its cleanup.                    *)
(*                                                                         *)
(* Input is counted in frames of at most INPUT_CHUNK_BYTES: the k-th frame *)
(* accepted by a connection is the number k.                               *)
(***************************************************************************)
EXTENDS Naturals, Sequences

CONSTANTS Limit,          \* the frames that fill 256 KiB of bufferedAmount
          MaxFrames,      \* bound on the frames of input of one connection
          MaxSize         \* bound on the sizes the terminal takes

ASSUME BrowserAssumption == /\ Limit \in Nat \ {0} /\ MaxFrames \in Nat
                            /\ MaxSize \in Nat \ {0}

VARIABLES current,          \* this is the current connection: no cleanup yet
          status, errorMsg, \* what the tab shows
          connected, failed,
          queue, queueIndex,
          pumpTimer,        \* the variable holds a timer
          pumpArmed,        \* a timer will call pump
          resizeArmed,      \* a timer will call sendResize
          size,             \* cols and rows of the terminal
          socket,           \* readyState, or "none"
          buffered,         \* frames given to ws.send and not yet sent
          tasks,            \* events of the socket on their way to callbacks
          accepted,         \* input frames accepted by this connection
          sent, sentSize,   \* the input and the last size sent to the server
          said              \* what the server has announced

shows == <<status, errorMsg>>
input == <<queue, queueIndex, pumpTimer, pumpArmed, accepted>>
serverSide == <<sent, sentSize, said>>
connectVars == <<current, shows, connected, failed, input, resizeArmed, size, socket,
                   buffered, tasks, serverSide>>

Input(k) == [kind |-> "input", n |-> k]
Resize(n) == [kind |-> "size", n |-> n]
Frames == [kind : {"input"}, n : 1..MaxFrames] \cup [kind : {"size"}, n : 1..MaxSize]

ConnectTypeOK == /\ current \in BOOLEAN
                 /\ status \in {"connecting", "connected", "error"}
                 /\ errorMsg \in {"none", "plain", "interrupted"}
                 /\ (status = "error") = (errorMsg # "none")
                 /\ connected => status = "connected"
                 /\ failed \in BOOLEAN /\ failed => status = "error"
                 /\ queue \in Seq(Frames) /\ queueIndex \in 0..MaxFrames
                 /\ current => queueIndex <= Len(queue)
                 /\ {pumpTimer, pumpArmed, resizeArmed} \subseteq BOOLEAN
                 /\ pumpArmed => pumpTimer
                 /\ size \in 1..MaxSize /\ sentSize \in 0..MaxSize
                 /\ socket \in {"none", "connecting", "open", "closing", "closed"}
                 /\ buffered \in Seq(Frames) /\ sent \in Seq(Frames)
                 /\ tasks \in Seq({"connected", "end", "error", "close"})
                 /\ accepted \in 0..MaxFrames /\ said \in {"nothing", "connected", "end"}

-----------------------------------------------------------------------------
(* connect().  Without a token it only shows an error. *)
ConnectInit == /\ current = TRUE
               /\ \/ status = "connecting" /\ errorMsg = "none" /\ socket = "connecting"
                  \/ status = "error" /\ errorMsg = "plain" /\ socket = "none"
               /\ connected = FALSE /\ failed = FALSE
               /\ queue = <<>> /\ queueIndex = 0 /\ accepted = 0
               /\ pumpTimer = FALSE /\ pumpArmed = FALSE /\ resizeArmed = FALSE
               /\ size = 1 /\ buffered = <<>> /\ tasks = <<>>
               /\ sent = <<>> /\ sentSize = 0 /\ said = "nothing"

(* The tab closes or connects anew. *)
Cleanup == /\ current /\ current' = FALSE /\ connected' = FALSE
           /\ queue' = <<>> /\ tasks' = <<>>
           /\ pumpArmed' = FALSE /\ resizeArmed' = FALSE
           /\ socket' = IF socket \in {"none", "closed"} THEN socket ELSE "closing"
           /\ UNCHANGED <<shows, failed, queueIndex, pumpTimer, accepted, size, buffered,
                          serverSide>>

-----------------------------------------------------------------------------
(* The socket and the server. *)
Outside == UNCHANGED <<current, shows, connected, failed, input, resizeArmed, size>>

Opens == /\ socket = "connecting" /\ socket' = "open"
         /\ UNCHANGED <<buffered, tasks, serverSide>> /\ Outside

ServerSays(m) == /\ socket = "open" /\ said' = m /\ tasks' = Append(tasks, m)
                 /\ UNCHANGED <<socket, buffered, sent, sentSize>> /\ Outside
ServerIsReady == said = "nothing" /\ ServerSays("connected")
ServerEnds == said # "end" /\ ServerSays("end")

Transmit == /\ socket \in {"open", "closing"} /\ buffered # <<>>
            /\ buffered' = Tail(buffered)
            /\ \/ /\ Head(buffered).kind = "input"
                  /\ sent' = Append(sent, Head(buffered)) /\ UNCHANGED sentSize
               \/ /\ Head(buffered).kind = "size"
                  /\ sentSize' = Head(buffered).n /\ UNCHANGED sent
            /\ UNCHANGED <<socket, tasks, said>> /\ Outside

(* The connection is lost or closed: what is buffered is never sent, and still
   counts in bufferedAmount. *)
Breaks == /\ socket \in {"connecting", "open", "closing"}
          /\ socket' = "closed"
          /\ \E events \in {<<"close">>, <<"error", "close">>} :
               tasks' = IF current THEN tasks \o events ELSE <<>>
          /\ UNCHANGED <<buffered, serverSide>> /\ Outside

-----------------------------------------------------------------------------
(* The callbacks. *)
Rest == Len(queue) - queueIndex
Interrupted == Rest > 0 \/ buffered # <<>>

FailsAgain == TRUE                       \* fault: failed is not asked
MayFail == ~failed
Fail == IF MayFail
        THEN /\ failed' = TRUE /\ connected' = FALSE
             /\ errorMsg' = IF Interrupted THEN "interrupted" ELSE "plain"
             /\ status' = "error"
             /\ queue' = <<>> /\ queueIndex' = 0
             /\ socket' = IF socket = "closed" THEN "closed" ELSE "closing"
             /\ UNCHANGED <<current, resizeArmed, size, buffered, serverSide,
                            pumpTimer, pumpArmed, accepted>>
        ELSE UNCHANGED <<current, shows, connected, failed, input, resizeArmed,
                         size, socket, buffered, serverSide>>

Ready == connected /\ socket = "open"
Callback == UNCHANGED <<current, failed, socket, serverSide>>

KeepsOldSize == buffered                 \* fault: the size is not announced
Announce == Append(buffered, Resize(size))

(* The server's "connected" frame.  Two timers announce the size again. *)
Confirmed == IF failed
             THEN UNCHANGED <<shows, connected, input, resizeArmed, size, buffered>>
             ELSE /\ connected' = TRUE /\ status' = "connected"
                  /\ buffered' = IF socket = "open" THEN Announce ELSE buffered
                  /\ UNCHANGED <<errorMsg, input, resizeArmed, size>>

Task == /\ tasks # <<>> /\ tasks' = Tail(tasks)
        /\ \/ Head(tasks) = "connected" /\ Confirmed /\ Callback
           \/ Head(tasks) # "connected" /\ Fail

(* pump() hands frames of q from index i on to the socket, with no more than
   Limit waiting there, and tries again later. *)
Room(q, i) == IF Len(buffered) >= Limit THEN 0
              ELSE IF Len(buffered) + Len(q) - i <= Limit THEN Len(q) - i
              ELSE Limit - Len(buffered)
IndexStays(q) == Len(q)                  \* fault: queueIndex is not reset
Emptied(q) == 0
StaysSet == pumpTimer                    \* fault: pumpTimer is not cleared
Cleared == FALSE
PumpFrom(q, i) ==
  LET n == Room(q, i)
      all == i + n = Len(q)
  IN /\ buffered' = buffered \o SubSeq(q, i + 1, i + n)
     /\ queue' = IF all THEN <<>> ELSE q
     /\ queueIndex' = IF all THEN Emptied(q) ELSE i + n
     /\ pumpTimer' = IF all THEN Cleared ELSE TRUE
     /\ pumpArmed' = ~all

(* sendRef.current: a paste of k frames.  Before the server has confirmed, or
   after the connection has ended, it is ignored. *)
Data(k) == LET q == queue \o [j \in 1..k |-> Input(accepted + j)]
           IN /\ Ready /\ accepted + k <= MaxFrames
              /\ accepted' = accepted + k
              /\ IF pumpTimer
                 THEN /\ queue' = q
                      /\ UNCHANGED <<queueIndex, pumpTimer, pumpArmed, buffered>>
                 ELSE PumpFrom(q, queueIndex)
              /\ UNCHANGED <<shows, connected, resizeArmed, size, tasks>> /\ Callback

PumpFires == /\ pumpArmed
             /\ IF Ready THEN PumpFrom(queue, queueIndex)
                ELSE /\ pumpTimer' = Cleared /\ pumpArmed' = FALSE
                     /\ UNCHANGED <<queue, queueIndex, buffered>>
             /\ UNCHANGED <<accepted, shows, connected, resizeArmed, size, tasks>>
             /\ Callback

(* The terminal gets another size: from a ResizeObserver it is announced at
   once, and in any case 100 ms later. *)
Resizes == /\ size < MaxSize /\ socket # "none"
           /\ size' = size + 1 /\ resizeArmed' = TRUE
           /\ \/ UNCHANGED buffered
              \/ Ready /\ buffered' = Append(buffered, Resize(size'))
           /\ UNCHANGED <<shows, connected, input, tasks>> /\ Callback

ResizeFires == /\ resizeArmed /\ resizeArmed' = FALSE
               /\ buffered' = IF Ready THEN Announce ELSE buffered
               /\ UNCHANGED <<shows, connected, input, size, tasks>> /\ Callback

Network == Opens \/ ServerIsReady \/ ServerEnds \/ Transmit \/ Breaks
ConnectNext == \/ Cleanup \/ Network \/ Task \/ PumpFires \/ Resizes \/ ResizeFires
               \/ \E k \in 1..MaxFrames : Data(k)

(* The browser runs its tasks and timers; what waits in a socket is sent in the
   end, or the connection is found to be broken. *)
Moves == Transmit \/ (buffered # <<>> /\ Breaks)
ConnectFairness == /\ WF_connectVars(Task) /\ WF_connectVars(PumpFires)
                   /\ WF_connectVars(ResizeFires) /\ WF_connectVars(Moves)
ConnectSpec == ConnectInit /\ [][ConnectNext]_connectVars /\ ConnectFairness

-----------------------------------------------------------------------------
Numbered(n) == [k \in 1..n |-> Input(k)]

\* Of the input, s has what comes after frame a, up to frame b, once and in order.
Carries(s, a, b) ==
  /\ a <= b
  /\ \A k \in a + 1..b : \E i \in DOMAIN s : s[i] = Input(k)
  /\ \A i \in DOMAIN s : s[i].kind = "input" => s[i].n \in a + 1..b
  /\ \A i, j \in DOMAIN s : i < j /\ s[i].kind = "input" /\ s[j].kind = "input"
                              => s[i].n < s[j].n

(* No input is dropped, sent twice or out of order while the connection lives:
   the server has the beginning of what was accepted, the socket holds what
   comes next, and the queue the rest (useTerminalConnection.ts 92-105). *)
InputHasNoGap ==
  /\ sent = Numbered(Len(sent))
  /\ current /\ ~failed =>
       /\ Carries(buffered, Len(sent), accepted - Rest)
       /\ \A j \in queueIndex + 1..Len(queue) : queue[j] = Input(accepted - (Len(queue) - j))

(* When the connection has failed with accepted input that was never sent, the
   message says so, whichever of the error, the close and the server's frame
   came first (useTerminalConnection.ts 80-90). *)
LostInputIsTold ==
  failed /\ Len(sent) < accepted /\ socket = "closed" => errorMsg = "interrupted"

(* All accepted input reaches the server unless the connection ends
   (useTerminalConnection.ts 98 and 104). *)
InputArrives == (connected /\ Len(sent) < accepted) ~>
                  (Len(sent) = accepted \/ ~connected)

(* The server learns the terminal's size, also one taken before it confirmed
   (useTerminalConnection.ts 119-123 and 141-146). *)
SizeArrives == connected ~> (sentSize = size \/ ~connected)
=============================================================================
