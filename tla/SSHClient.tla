------------------------------ MODULE SSHClient ------------------------------
(***************************************************************************)
(* internal/sshclient: one connection attempt under a caller's context,    *)
(* from Dial or DialViaJump through NewSession to the release of the       *)
(* client.  The goroutines that race are the dialling goroutine, the       *)
(* context.AfterFunc callback of each setup stage, the one of the session, *)
(* the watch goroutine of each Client and the two steps of Client.Close.   *)
(*                                                                         *)
(* "outer" is the Client made by Dial: it owns a TCP connection.  "inner"  *)
(* is the Client made by DialViaJump: it owns a channel forwarded through  *)
(* "outer".  The peer answers or not, and may stop reading at any time.    *)
(***************************************************************************)
EXTENDS Naturals, FiniteSets

Clients == {"outer", "inner"}
Stages  == {"dial", "via", "session"}     \* each has a context.WithTimeout
Hooks   == Stages \cup {"held"}           \* "held" is the Session's own hook

VARIABLES
    viaJump,     \* the server has a jump host
    cancelled,   \* the caller's ctx is done
    peerStalled, \* the peer of the TCP connection has stopped reading
    stage, at,   \* where the dialling goroutine is
    victim,      \* the Client the error path closes, or "nobody"
    setup,       \* setup[s]: the stage's context, "none", "live" or "ended"
    hook,        \* hook[k]: "none", "armed", "fired", "stopped" or "done"
    watch,       \* watch[c]: "none", "waiting", "closing" or "done"
    once,        \* once[c]: the Client's sync.Once, "idle", "closing", "closed"
    conn         \* conn[c]: the transport, "none", "open" or "closed"

clientVars == <<viaJump, cancelled, peerStalled, stage, at, victim,
                setup, hook, watch, once, conn>>
env     == <<viaJump, cancelled, peerStalled>>
control == <<stage, at, victim>>
timers  == <<setup, hook>>
owned   == <<watch, once, conn>>

Route == IF viaJump THEN Clients ELSE {"outer"}
Top   == IF viaJump THEN "inner" ELSE "outer"

(* The Client that each AfterFunc callback closes. *)
HookTarget(k) == IF k \in {"dial", "via"} THEN "outer" ELSE Top

ClientTypeOK ==
    /\ viaJump \in BOOLEAN /\ cancelled \in BOOLEAN /\ peerStalled \in BOOLEAN
    /\ stage \in Stages
    /\ at \in {"config", "connect", "channel", "handshake", "open", "register",
               "stop", "check", "return", "closing", "usable", "releasing",
               "failed", "released"}
    /\ victim \in Clients \cup {"nobody"}
    /\ setup \in [Stages -> {"none", "live", "ended"}]
    /\ hook \in [Hooks -> {"none", "armed", "fired", "stopped", "done"}]
    /\ watch \in [Clients -> {"none", "waiting", "closing", "done"}]
    /\ once \in [Clients -> {"idle", "closing", "closed"}]
    /\ conn \in [Clients -> {"none", "open", "closed"}]
    /\ \A c \in Clients \ Route : conn[c] = "none" /\ once[c] = "idle"

ClientInit ==
    /\ viaJump \in BOOLEAN
    /\ cancelled = FALSE /\ peerStalled = FALSE
    /\ stage = "dial" /\ at = "config" /\ victim = "nobody"
    /\ setup = [s \in Stages |-> "none"]
    /\ hook = [k \in Hooks |-> "none"]
    /\ watch = [c \in Clients |-> "none"]
    /\ once = [c \in Clients |-> "idle"]
    /\ conn = [c \in Clients |-> "none"]

-----------------------------------------------------------------------------
(* The environment: the caller's context and the peer. *)

CallerCancels == ~cancelled /\ cancelled' = TRUE
                 /\ UNCHANGED <<viaJump, peerStalled, control, timers, owned>>

PeerStalls == ~peerStalled /\ peerStalled' = TRUE
              /\ UNCHANGED <<viaJump, cancelled, control, timers, owned>>

(* The stage's context ends: its timer, or the caller's cancellation reaching
   it.  The hooks registered on it start later, each in its own goroutine. *)
SetupEnds(s) == /\ setup[s] = "live"
                /\ setup' = [setup EXCEPT ![s] = "ended"]
                /\ UNCHANGED <<env, control, hook, owned>>

ContextDone(k) == IF k = "held" THEN cancelled ELSE setup[k] = "ended"

-----------------------------------------------------------------------------
(* Client.Close: the first caller runs the body, the others wait for it. *)

CallClose(c) == once' = [once EXCEPT ![c] = IF @ = "idle" THEN "closing" ELSE @]

(* conn.Close() on the TCP socket never waits for the peer. *)
CloseOuter ==
    /\ once["outer"] = "closing"
    /\ once' = [once EXCEPT !["outer"] = "closed"]
    /\ conn' = [conn EXCEPT !["outer"] = "closed"]
    /\ UNCHANGED <<env, control, timers, watch>>

(* Closing a forwarded channel writes to the TCP connection under it, so it
   waits for the peer unless that connection is already closed. *)
ChannelCloses == ~peerStalled \/ conn["outer"] = "closed"

JumpForgotten == FALSE
JumpFirst == once["outer"] # "closed"

(* The body for a client with a jump: jump.Close(), then the channel. *)
CloseInner ==
    /\ once["inner"] = "closing"
    /\ IF JumpFirst
       THEN /\ CallClose("outer")
            /\ UNCHANGED conn
       ELSE /\ ChannelCloses
            /\ once' = [once EXCEPT !["inner"] = "closed"]
            /\ conn' = [conn EXCEPT !["inner"] = "closed"]
    /\ UNCHANGED <<env, control, timers, watch>>

(* watch: the goroutine that closes the client when ctx ends, and itself ends
   when done is closed, which Close does first. *)
WatchCancelled(c) ==
    /\ watch[c] = "waiting" /\ cancelled
    /\ watch' = [watch EXCEPT ![c] = "closing"]
    /\ CallClose(c)
    /\ UNCHANGED <<env, control, timers, conn>>

DoneNeverClosed(c) == FALSE
DoneClosed(c) == once[c] # "idle"

WatchEnds(c) ==
    /\ \/ watch[c] = "waiting" /\ DoneClosed(c)
       \/ watch[c] = "closing" /\ once[c] = "closed"
    /\ watch' = [watch EXCEPT ![c] = "done"]
    /\ UNCHANGED <<env, control, timers, once, conn>>

(* An AfterFunc callback starts, calls Close, and returns when it has. *)
HookFires(k) ==
    /\ hook[k] = "armed" /\ ContextDone(k)
    /\ hook' = [hook EXCEPT ![k] = "fired"]
    /\ UNCHANGED <<env, control, setup, owned>>

HookCloses(k) ==
    /\ hook[k] = "fired" /\ once[HookTarget(k)] = "idle"
    /\ CallClose(HookTarget(k))
    /\ UNCHANGED <<env, control, timers, watch, conn>>

HookReturns(k) ==
    /\ hook[k] = "fired" /\ once[HookTarget(k)] = "closed"
    /\ hook' = [hook EXCEPT ![k] = "done"]
    /\ UNCHANGED <<env, control, setup, owned>>

-----------------------------------------------------------------------------
(* The dialling goroutine. *)

Goto(l) == at' = l /\ UNCHANGED <<stage, victim>>

Arm(k) == hook' = [hook EXCEPT ![k] = "armed"]

(* stop(): detaches the callback unless it has been started. *)
Stopped(k) == [hook EXCEPT ![k] = IF @ = "armed" THEN "stopped" ELSE @]

EndSetup(s) == setup' = [setup EXCEPT ![s] = "ended"]

Begin(s) == setup' = [setup EXCEPT ![s] = "live"]

(* makeConfig of every hop comes before anything is opened for it. *)
BadConfig == /\ at = "config" /\ stage = "dial"
             /\ Goto("failed")
             /\ UNCHANGED <<env, timers, owned>>

StartDial == /\ at = "config" /\ stage = "dial"
             /\ Begin("dial")
             /\ Goto("connect")
             /\ UNCHANGED <<env, hook, owned>>

(* DialContext: answered, refused, or ended by setup. *)
Connected ==
    /\ at = "connect" /\ ~peerStalled
    /\ conn' = [conn EXCEPT !["outer"] = "open"]
    /\ Arm("dial")
    /\ Goto("handshake")
    /\ UNCHANGED <<env, setup, watch, once>>

ConnectFails ==
    /\ at = "connect"
    /\ EndSetup("dial")
    /\ Goto("failed")
    /\ UNCHANGED <<env, hook, owned>>

(* The answer to a request in flight arrives only over open transports. *)
PeerAnswers == ~peerStalled /\ \A c \in Clients : conn[c] # "closed"

(* A request in flight may fail at any time: the peer refuses it, the network
   breaks.  It must fail once a transport under it is closed and, in Dial, at
   the deadline set on the socket. *)
RequestLost == \/ \E c \in Clients : conn[c] = "closed"
               \/ stage = "dial" /\ setup["dial"] = "ended"

HandshakeDone == /\ at = "handshake" /\ PeerAnswers
                 /\ Goto("stop")
                 /\ UNCHANGED <<env, timers, owned>>

StartVia == /\ at = "config" /\ stage = "via"
            /\ Begin("via")
            /\ Arm("via")
            /\ Goto("channel")
            /\ UNCHANGED <<env, owned>>

ChannelOpened ==
    /\ at = "channel" /\ PeerAnswers
    /\ conn' = [conn EXCEPT !["inner"] = "open"]
    /\ Goto("handshake")
    /\ UNCHANGED <<env, timers, watch, once>>

(* sshclient.NewSession, and sftpclient.NewClient alike. *)
StartSession == /\ at = "config" /\ stage = "session"
                /\ Begin("session")
                /\ Arm("session")
                /\ Goto("open")
                /\ UNCHANGED <<env, owned>>

SessionOpened == /\ at = "open" /\ PeerAnswers
                 /\ Goto("register")
                 /\ UNCHANGED <<env, timers, owned>>

Register == /\ at = "register"
            /\ Arm("held")
            /\ Goto("stop")
            /\ UNCHANGED <<env, setup, owned>>

(* The Client an error closes before the stage returns: the one being made
   when there is one already, the jump client until then. *)
StageOwner == IF stage = "session" THEN Top ELSE "outer"
MadeClient == CASE stage = "dial" -> "outer"
                [] stage = "via" -> "inner"
                [] stage = "session" -> Top

CloseThenFail(c) == /\ victim' = c
                    /\ CallClose(c)
                    /\ at' = "closing"
                    /\ UNCHANGED stage

RequestError ==
    /\ at \in {"channel", "handshake", "open"}
    /\ CloseThenFail(StageOwner)
    /\ UNCHANGED <<env, timers, watch, conn>>

StopHookLeftToDefer == /\ at = "stop"
                       /\ Goto("check")
                       /\ UNCHANGED <<env, timers, owned>>

(* if !stop() || setup.Err() != nil: two steps, the context may end between
   them.  Then the deferred stop() and cancel() run. *)
StopHook ==
    /\ at = "stop"
    /\ hook' = Stopped(stage)
    /\ IF hook[stage] = "armed"
       THEN Goto("check") /\ UNCHANGED once
       ELSE CloseThenFail(MadeClient)
    /\ UNCHANGED <<env, setup, watch, conn>>

CheckSetup ==
    /\ at = "check"
    /\ IF setup[stage] = "live"
       THEN Goto("return") /\ UNCHANGED once
       ELSE CloseThenFail(MadeClient)
    /\ UNCHANGED <<env, timers, watch, conn>>

AfterDial == IF viaJump THEN "via" ELSE "session"

(* Dial and DialViaJump start the watch of the client they return. *)
Return ==
    /\ at = "return"
    /\ watch' = IF stage = "session" THEN watch
                ELSE [watch EXCEPT ![MadeClient] = "waiting"]
    /\ EndSetup(stage)
    /\ hook' = Stopped(stage)
    /\ CASE stage = "dial"    -> stage' = AfterDial /\ at' = "config"
         [] stage = "via"     -> stage' = "session" /\ at' = "config"
         [] stage = "session" -> at' = "usable" /\ UNCHANGED stage
    /\ UNCHANGED <<env, victim, once, conn>>

(* Close has returned.  A forwarded connection whose handshake failed has no
   Client: it is closed by itself, after the socket under it. *)
CloseChannel ==
    /\ at = "closing" /\ once[victim] = "closed"
    /\ conn["inner"] = "open" /\ ChannelCloses
    /\ conn' = [conn EXCEPT !["inner"] = "closed"]
    /\ UNCHANGED <<env, control, timers, watch, once>>

ClosedOwner == once[victim] = "closed"
ClosedAll == once[victim] = "closed" /\ conn["inner"] # "open"

(* The deferred stop() and cancel(); Session.Close has stopped its hook. *)
ReturnError ==
    /\ at = "closing" /\ ClosedAll
    /\ EndSetup(stage)
    /\ hook' = [Stopped(stage) EXCEPT
                  !["held"] = IF @ = "armed" THEN "stopped" ELSE @]
    /\ Goto("failed")
    /\ UNCHANGED <<env, owned>>

(* Session.Close (or the SFTP client's): stop the hook, close the client. *)
Release ==
    /\ at = "usable"
    /\ hook' = Stopped("held")
    /\ CallClose(Top)
    /\ Goto("releasing")
    /\ UNCHANGED <<env, setup, watch, conn>>

Released ==
    /\ at = "releasing" /\ once[Top] = "closed"
    /\ Goto("released")
    /\ UNCHANGED <<env, timers, owned>>

-----------------------------------------------------------------------------
Dialler == \/ BadConfig \/ StartDial \/ Connected \/ ConnectFails
           \/ HandshakeDone \/ StartVia \/ ChannelOpened \/ StartSession
           \/ SessionOpened \/ Register \/ RequestError \/ StopHook
           \/ CheckSetup \/ Return \/ CloseChannel \/ ReturnError
           \/ Release \/ Released

Helpers == \/ CloseOuter \/ CloseInner
           \/ \E c \in Clients : WatchCancelled(c) \/ WatchEnds(c)
           \/ \E k \in Hooks : HookFires(k) \/ HookCloses(k) \/ HookReturns(k)

ClientNext == \/ CallerCancels \/ PeerStalls \/ Dialler \/ Helpers
              \/ \E s \in Stages : SetupEnds(s)

(* Steps the dialling goroutine takes by itself.  The caller of a usable
   client need never release it, and a peer need never answer. *)
OwnSteps == \/ BadConfig \/ StartDial \/ StartVia \/ StartSession \/ Register
            \/ StopHook \/ CheckSetup \/ Return \/ CloseChannel
            \/ ReturnError \/ Released
            \/ (RequestError /\ RequestLost)
            \/ (ConnectFails /\ setup["dial"] = "ended")

ClientFairness ==
    /\ WF_clientVars(OwnSteps)
    /\ \A s \in Stages : WF_clientVars(SetupEnds(s))
    /\ WF_clientVars(CloseOuter) /\ WF_clientVars(CloseInner)
    /\ \A c \in Clients : /\ WF_clientVars(WatchCancelled(c))
                          /\ WF_clientVars(WatchEnds(c))
    /\ \A k \in Hooks : /\ WF_clientVars(HookFires(k))
                        /\ WF_clientVars(HookCloses(k))
                        /\ WF_clientVars(HookReturns(k))

ClientSpec == ClientInit /\ [][ClientNext]_clientVars /\ ClientFairness

-----------------------------------------------------------------------------
(* PROPERTIES *)

(* "Client owns the target and, when present, the jump transport": an attempt
   that returns an error has closed every transport it opened, also when the
   error comes from the second hop or from the session (client.go:109-164,
   session.go:30-41). *)
FailureReleases == at = "failed" => \A c \in Clients : conn[c] # "open"

(* A client handed to its caller is never closed by the attempt that made it:
   neither by a setup timer that fires as the stage returns, nor by the
   deferred cancel() of a stage that succeeded (client.go:118, 161;
   session.go:38). *)
UsableStaysOpen == at = "usable" /\ ~cancelled =>
                     /\ \A c \in Route : conn[c] = "open"
                     /\ \A c \in Clients : once[c] = "idle"

(* Refinement: the attempt implements the abstract owner of transports. *)
ClientOwner == INSTANCE TransportOwner WITH
    Hops <- Clients,
    phase <- CASE at = "usable" -> "usable"
               [] at \in {"failed", "releasing", "released"} -> "over"
               [] OTHER -> "setup",
    open <- {c \in Clients : conn[c] = "open"}

ClientImplementsOwner == ClientOwner!Spec

(* The comment at client.go:28: closing the physical socket first keeps a
   stalled peer from delaying cleanup.  Once the client is closed, or the
   context is done, every goroutine made on the way also ends. *)
Quiet == /\ \A c \in Clients : watch[c] \in {"none", "done"}
         /\ \A k \in Hooks : hook[k] \in {"none", "stopped", "done"}
         /\ \A c \in Clients : conn[c] # "open"

NoGoroutineLeaks == (cancelled \/ at \in {"failed", "released"}) ~> Quiet
=============================================================================
