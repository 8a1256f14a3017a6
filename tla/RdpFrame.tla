------------------------------ MODULE RdpFrame ------------------------------
(***************************************************************************)
(* One remote desktop of the browser: the frame rdp.html with its script   *)
(* rdp/client.ts, and components/RdpTab.tsx, which shows the frame in a    *)
(* panel.  The two sides are documents of their own and talk by            *)
(* postMessage, in order: the tab sends whether it is active, the frame    *)
(* that it is ready and its status.  Workspace puts the tab among others.  *)
(*                                                                         *)
(* An event handler of the frame runs to its next await in one step.       *)
(***************************************************************************)
EXTENDS Naturals, Sequences

CONSTANTS Sizes,    \* the sizes of the browser window
          MaxInits, \* bound on the messages on their way to the frame
          MaxTold   \* bound on the messages on their way to the tab

ASSUME FrameAssumption == Sizes # {} /\ {MaxInits, MaxTold} \subseteq Nat \ {0}

VARIABLES window,     \* the size of the browser window
          displayed,  \* isActive of the tab: its panel is not hidden
          page,       \* how far the frame's document is
          mem,        \* the variables of the script
          controls,   \* which controls of the document can be seen or used
          call,       \* what the submit handler awaits
          leaving,    \* location.reload() was called
          timer,      \* the delayed resize of the observer is set
          remote,     \* the size the remote desktop was last asked to have
          toFrame, toTab

script == <<mem, controls, call, remote>>
frameVars == <<window, displayed, page, script, leaving, timer, toFrame, toTab>>

Pages == {"none", "blank", "loading", "ready", "failed"}
Status == {"connecting", "connected", "error"}
NoSize == <<>>
Desktops == {NoSize} \cup (Sizes \X BOOLEAN)

\* The module's initial values, and the document's.
NewScript == [known |-> FALSE, active |-> TRUE, connecting |-> FALSE, connected |-> FALSE]
NewControls == [form |-> TRUE, connect |-> FALSE, cancel |-> FALSE, tools |-> FALSE]

FrameTypeOK ==
  /\ window \in Sizes /\ displayed \in BOOLEAN /\ page \in Pages
  /\ mem \in [DOMAIN NewScript -> BOOLEAN] /\ controls \in [DOMAIN NewControls -> BOOLEAN]
  /\ call \in {"none", "connect", "run"} /\ leaving \in BOOLEAN /\ timer \in BOOLEAN
  /\ remote \in Desktops
  /\ toFrame \in Seq(BOOLEAN) /\ toTab \in Seq(Status \cup {"ready"})

NoFrame ==
  /\ displayed = FALSE /\ page = "none" /\ mem = NewScript /\ controls = NewControls
  /\ call = "none" /\ leaving = FALSE /\ timer = FALSE /\ remote = NoSize
  /\ toFrame = <<>> /\ toTab = <<>>

Running == page \in {"loading", "ready", "failed"}

\* The panel of a tab that is not active is hidden and has no extent, so
\* size() falls to its lower bound; the form takes its part of the window.
Size(form) == IF displayed THEN <<window, form>> ELSE NoSize

-----------------------------------------------------------------------------
(* The tab *)

\* RdpTab is mounted: an empty frame.  What its first effect sends goes to
\* the document that is there before rdp.html.
Mount(b) ==
  /\ displayed' = b /\ page' = "blank" /\ mem' = NewScript /\ controls' = NewControls
  /\ call' = "none" /\ leaving' = FALSE /\ timer' = FALSE /\ remote' = NoSize
  /\ toFrame' = <<b>> /\ toTab' = <<>> /\ UNCHANGED window

\* The frame leaves the page with its tab.
Unmount ==
  /\ displayed' = FALSE /\ page' = "none" /\ mem' = NewScript /\ controls' = NewControls
  /\ call' = "none" /\ leaving' = FALSE /\ timer' = FALSE /\ remote' = NoSize
  /\ toFrame' = <<>> /\ toTab' = <<>> /\ UNCHANGED window

\* isActive changed: the panel is shown or hidden, and the effect sends.
Activate(b) ==
  IF displayed = b \/ page = "none"
    THEN UNCHANGED frameVars
    ELSE /\ displayed' = b /\ toFrame' = Append(toFrame, b) /\ timer' = Running
         /\ UNCHANGED <<window, page, script, leaving, toTab>>

\* The listener takes a message: to "ready" it answers with what the tab is
\* now; a status goes to onStatusChange, see Workspace.
Answer(m) == toFrame' = IF m = "ready" THEN Append(toFrame, displayed) ELSE toFrame

\* The window changes its size; the observer of a shown panel sees it.
WindowResizes ==
  /\ window' \in Sizes \ {window}
  /\ timer' = (timer \/ (displayed /\ Running))
  /\ UNCHANGED <<displayed, page, script, leaving, toFrame, toTab>>

-----------------------------------------------------------------------------
(* The frame *)

Say(m) == toTab' = Append(toTab, m)
CanSay == Len(toTab) < MaxTold

\* The script starts: its listener is added, ready is posted, load() awaits.
Start ==
  /\ page = "blank" /\ CanSay
  /\ page' = "loading" /\ timer' = TRUE /\ Say("ready")
  /\ UNCHANGED <<window, displayed, script, leaving, toFrame>>

\* resize() while connected and active.
Resized(active) == IF mem.connected /\ active THEN Size(controls.form) ELSE remote
\* fault: becoming active again resizes nothing
NotResized(active) == remote
InitSize(active) == Resized(active)

\* The message listener.  Before the script runs there is none.
TakeInit ==
  /\ toFrame # <<>> /\ toFrame' = Tail(toFrame)
  /\ LET active == Head(toFrame) IN
       IF Running
         THEN /\ mem' = [mem EXCEPT !.known = TRUE, !.active = active]
              /\ remote' = InitSize(active)
         ELSE UNCHANGED <<mem, remote>>
  /\ UNCHANGED <<window, displayed, page, controls, call, leaving, timer, toTab>>

\* The modules of load() are there and the component is ready, or not.
Loaded ==
  /\ page = "loading" /\ CanSay
  /\ \/ /\ page' = "ready" /\ controls' = [controls EXCEPT !.connect = TRUE] /\ Say("connecting")
     \/ /\ page' = "failed" /\ Say("error") /\ UNCHANGED controls
  /\ UNCHANGED <<window, displayed, mem, call, leaving, timer, remote, toFrame>>

CanSubmit == page = "ready" /\ mem.known /\ ~mem.connecting /\ ~mem.connected

\* The submit handler up to api.connect(): the builder may throw, which
\* nothing catches.
Submit ==
  /\ displayed /\ controls.form /\ controls.connect /\ CanSubmit /\ CanSay
  /\ mem' = [mem EXCEPT !.connecting = TRUE]
  /\ controls' = [controls EXCEPT !.connect = FALSE, !.cancel = TRUE]
  /\ Say("connecting")
  /\ \/ call' = "connect" /\ remote' = Size(TRUE)
     \/ UNCHANGED <<call, remote>>
  /\ UNCHANGED <<window, displayed, page, leaving, timer, toFrame>>

\* api.connect() resolves.  The form gives its room to the desktop.
Connected ==
  /\ call = "connect" /\ CanSay
  /\ call' = "run"
  /\ mem' = [mem EXCEPT !.connected = TRUE, !.connecting = FALSE]
  /\ controls' = [controls EXCEPT !.cancel = FALSE, !.form = FALSE, !.tools = TRUE]
  /\ remote' = Size(FALSE)
  /\ timer' = (timer \/ displayed)
  /\ Say("connected")
  /\ UNCHANGED <<window, displayed, page, leaving, toFrame>>

\* fault: finally leaves the connect button disabled
StaysDisabled == [form |-> TRUE, connect |-> FALSE, cancel |-> FALSE, tools |-> FALSE]
LoginControls == [form |-> TRUE, connect |-> TRUE, cancel |-> FALSE, tools |-> FALSE]

\* The connection fails, or the session ends, by itself or by disconnect,
\* whose shutdown ends it; with the finally of the handler.
Over ==
  /\ call \in {"connect", "run"} /\ CanSay
  /\ call' = "none" /\ remote' = NoSize
  /\ mem' = [mem EXCEPT !.connected = FALSE, !.connecting = FALSE]
  /\ controls' = LoginControls
  /\ timer' = (timer \/ (displayed /\ ~controls.form))
  /\ Say("error")
  /\ UNCHANGED <<window, displayed, page, leaving, toFrame>>

\* The cancel button reloads the document, which goes on until it is replaced.
Cancel ==
  /\ displayed /\ Running /\ controls.cancel /\ leaving' = TRUE
  /\ UNCHANGED <<window, displayed, page, script, timer, toFrame, toTab>>
Reloads ==
  /\ leaving /\ leaving' = FALSE
  /\ page' = "blank" /\ mem' = NewScript /\ controls' = NewControls /\ call' = "none"
  /\ timer' = FALSE /\ remote' = NoSize /\ toFrame' = <<>>
  /\ UNCHANGED <<window, displayed, toTab>>

\* The delayed resize of the observer.
TimerFires ==
  /\ timer /\ timer' = FALSE
  /\ remote' = Resized(mem.active)
  /\ UNCHANGED <<window, displayed, page, mem, controls, call, leaving, toFrame, toTab>>

Frame == Start \/ TakeInit \/ Loaded \/ Submit \/ Connected \/ Over \/ Cancel \/ Reloads \/ TimerFires
FrameFairness == /\ WF_frameVars(Start) /\ WF_frameVars(TakeInit) /\ WF_frameVars(Loaded)
                 /\ WF_frameVars(Reloads) /\ WF_frameVars(TimerFires)

-----------------------------------------------------------------------------
\* A dot tells whether there is a desktop, and that the client did not load.
DotIsTrue(dot) == /\ (dot = "connected") = mem.connected
                  /\ page = "failed" => dot = "error"

\* The remote desktop is the size of the panel that shows it.
Fits == remote = Size(controls.form)
=============================================================================
