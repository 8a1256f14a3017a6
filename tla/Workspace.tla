------------------------------ MODULE Workspace ------------------------------
(***************************************************************************)
(* The workspace of the browser: the tabs of pages/MainPage.tsx and        *)
(* components/TerminalTabs.tsx, and what they know of the session behind   *)
(* each: the status a terminal tab reports by an effect                    *)
(* (components/TerminalTab.tsx) and the one a remote desktop posts from    *)
(* its frame (RdpFrame).  BrowserTerminal has the terminal's connection.   *)
(*                                                                         *)
(* React renders an event of the user before the next; what a state        *)
(* updater calls may come before or after what its handler calls next,     *)
(* because React runs an updater at once or while rendering.               *)
(***************************************************************************)
EXTENDS RdpFrame, FiniteSets, SequencesExt

CONSTANTS Terminals,  \* the SSH servers of the list
          Desktop,    \* the RDP server of the list
          MaxOpens    \* bound on the tabs ever opened

ASSUME WorkspaceAssumption == Desktop \notin Terminals /\ MaxOpens \in Nat

VARIABLES tabs,      \* the open tabs, in order
          activeKey, \* the key of the active tab, or NoKey
          statuses,  \* what the tabs have told, by key
          session,   \* the status of each terminal tab's own connection
          opens      \* the tabs opened so far: the next key

tabVars == <<tabs, activeKey, statuses, session, opens>>
vars == <<tabVars, frameVars>>

NoKey == 0
Keys == 1..MaxOpens
Tab == [key : Keys, server : Terminals \cup {Desktop}]
KeysOf(s) == {s[i].key : i \in DOMAIN s}
IsTab(k, server) == \E i \in DOMAIN tabs : tabs[i] = [key |-> k, server |-> server]
IndexOf(k) == CHOOSE i \in DOMAIN tabs : tabs[i].key = k
TerminalKeys == {k \in KeysOf(tabs) : ~IsTab(k, Desktop)}

TypeOK ==
  /\ FrameTypeOK
  /\ tabs \in Seq(Tab) /\ activeKey \in Keys \cup {NoKey} /\ opens \in 0..MaxOpens
  /\ statuses \in [DOMAIN statuses -> Status] /\ DOMAIN statuses \subseteq KeysOf(tabs)
  /\ session \in [TerminalKeys -> Status]
  /\ (page = "none") = (\A i \in DOMAIN tabs : tabs[i].server # Desktop)
  /\ displayed = IsTab(activeKey, Desktop)

Init ==
  /\ tabs = <<>> /\ activeKey = NoKey /\ statuses = <<>> /\ session = <<>> /\ opens = 0
  /\ window \in Sizes /\ NoFrame

\* The dot of a tab: connecting until the tab has told something.
Dot(k) == IF k \in DOMAIN statuses THEN statuses[k] ELSE "connecting"

-----------------------------------------------------------------------------
(* The user *)

\* The queue to the frame is not full: a bound.
CanActivate == Len(toFrame) < MaxInits

\* openTerminal: a server that has a tab gets no second one.
OpenTerminal(server) ==
  /\ CanActivate
  /\ IF \E i \in DOMAIN tabs : tabs[i].server = server
       THEN /\ activeKey' = (CHOOSE t \in ToSet(tabs) : t.server = server).key
            /\ UNCHANGED <<tabs, session, opens>>
            /\ Activate(server = Desktop)
       ELSE /\ opens < MaxOpens /\ opens' = opens + 1
            /\ tabs' = Append(tabs, [key |-> opens + 1, server |-> server])
            /\ activeKey' = opens + 1
            /\ IF server = Desktop
                 THEN Mount(TRUE) /\ UNCHANGED session
                 ELSE /\ Activate(FALSE)
                      /\ session' = [k \in DOMAIN session \cup {opens + 1} |->
                                       IF k = opens + 1 THEN "connecting" ELSE session[k]]
  /\ UNCHANGED statuses

\* onSelect, by a click or by the arrow keys, Home and End of a focused tab.
Select(k) ==
  /\ CanActivate
  /\ activeKey' = k /\ Activate(IsTab(k, Desktop))
  /\ UNCHANGED <<tabs, statuses, session, opens>>

\* closeTab gives the focus to a neighbour, and the updater of closeTerminal
\* to the last tab when the active one goes.
Neighbour(k) == IF IndexOf(k) < Len(tabs) THEN tabs[IndexOf(k) + 1].key ELSE tabs[IndexOf(k) - 1].key
\* fault: the last tab to go leaves its key
LeavesKey(k, rest) == {IF rest = <<>> THEN activeKey ELSE Neighbour(k)}
NextActive(k, rest) ==
  IF rest = <<>> THEN {NoKey}
  ELSE {Neighbour(k)} \cup (IF activeKey = k THEN {Last(rest).key} ELSE {})

\* The effect that forgets the statuses of tabs that are gone.
Kept(f, left) == [j \in DOMAIN f \cap left |-> f[j]]

\* closeTab, by the tab's button or by Delete; no two tabs have one key.
CloseTab(k) ==
  LET rest == RemoveAt(tabs, IndexOf(k))
      left == KeysOf(rest)
  IN /\ CanActivate
     /\ tabs' = rest
     /\ activeKey' \in NextActive(k, rest)
     /\ statuses' = Kept(statuses, left) /\ session' = Kept(session, left)
     /\ IF IsTab(k, Desktop) THEN Unmount ELSE Activate(IsTab(activeKey', Desktop))
     /\ UNCHANGED opens

-----------------------------------------------------------------------------
(* The sessions *)

\* The connection of a terminal tab comes, goes, or is tried again.
Changes(k, s) ==
  /\ s \in CASE session[k] = "connecting" -> {"connected", "error"}
             [] session[k] = "connected" -> {"error"}
             [] OTHER -> {"connecting"}
  /\ session' = [session EXCEPT ![k] = s]
  /\ UNCHANGED <<tabs, activeKey, statuses, opens, frameVars>>

\* fault: a key that has a status keeps it
FirstStays(k, s) == statuses' = [j \in DOMAIN statuses \cup {k} |-> IF j \in DOMAIN statuses THEN statuses[j] ELSE s]
SetStatus(k, s) == statuses' = [j \in DOMAIN statuses \cup {k} |-> IF j = k THEN s ELSE statuses[j]]

\* The effect of TerminalTab tells its status.
Reports(k) ==
  /\ SetStatus(k, session[k])
  /\ UNCHANGED <<tabs, activeKey, session, opens, frameVars>>

\* The listener of RdpTab takes a message of its frame.
Hears ==
  /\ toTab # <<>> /\ toTab' = Tail(toTab)
  /\ LET m == Head(toTab) IN
       /\ Answer(m)
       /\ IF m = "ready" THEN UNCHANGED statuses
          ELSE \E k \in KeysOf(tabs) : IsTab(k, Desktop) /\ SetStatus(k, m)
  /\ UNCHANGED <<tabs, activeKey, session, opens, window, displayed, page, script, leaving, timer>>

User == \/ \E s \in Terminals \cup {Desktop} : OpenTerminal(s)
        \/ \E k \in KeysOf(tabs) : Select(k) \/ CloseTab(k)
Sessions == \/ \E k \in TerminalKeys : Reports(k) \/ \E s \in Status : Changes(k, s)
            \/ Hears
Next == \/ User \/ Sessions
        \/ (Frame \/ WindowResizes) /\ UNCHANGED tabVars

\* Effects run, messages are delivered and timers fire.  Nobody has to open,
\* close, connect or resize anything, and no session has to change.
Fairness == /\ \A k \in Keys : WF_vars(k \in TerminalKeys /\ Reports(k))
            /\ WF_vars(Hears) /\ FrameFairness
Spec == Init /\ [][Next]_vars /\ Fairness

-----------------------------------------------------------------------------
(* Properties *)

\* The workspace shows a tab whenever one is open, and none when none is,
\* and no server has two: whatever is closed, and in whichever order the
\* updater of closeTerminal and closeTab choose the next one.
ActiveTabIsOpen ==
  /\ activeKey \in IF tabs = <<>> THEN {NoKey} ELSE KeysOf(tabs)
  /\ \A i, j \in DOMAIN tabs : tabs[i].server = tabs[j].server => i = j

\* A frame that has loaded and knows its server always lets its user go on:
\* connect, cancel what is going on, or disconnect; also when the builder of
\* the connection threw.
FrameIsUsable ==
  page = "ready" /\ mem.known =>
    \/ controls.form /\ controls.connect /\ CanSubmit
    \/ controls.form /\ controls.cancel
    \/ controls.tools /\ call = "run"

\* What only people and remote ends do.
Disturb == \/ User \/ \E k \in TerminalKeys : \E s \in Status : Changes(k, s)
           \/ (Submit \/ Connected \/ Over \/ Cancel \/ WindowResizes) /\ UNCHANGED tabVars
Quiet == <>[][~Disturb]_vars

\* Once people and remote ends are quiet, every dot comes to say what its
\* session is: no status is lost between the session and the bar, whatever tab
\* was opened, closed or shown meanwhile, and whatever the frame was doing.
DotSettles == Quiet => <>[](/\ \A k \in TerminalKeys : Dot(k) = session[k]
                            /\ \A k \in KeysOf(tabs) : IsTab(k, Desktop) => DotIsTrue(Dot(k)))

\* ... and a frame that has loaded comes to know its server and whether it is
\* shown: what the first effect sends is lost and a reload forgets it, and only
\* the answer to ready makes up for that.  A desktop that is shown comes to have
\* the size of its panel, also when that changed while it was connecting or hidden.
DesktopFits == Quiet => <>[](/\ page = "ready" => mem.known /\ mem.active = displayed
                             /\ displayed /\ mem.connected => Fits)
=============================================================================
