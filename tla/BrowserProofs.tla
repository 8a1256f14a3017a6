----------------------------- MODULE BrowserProofs -----------------------------
(***************************************************************************)
(* Theorems about the browser's workspace.  Of Workspace: for any servers, *)
(* sizes and bounds.  Of BrowserTerminal: for any number of frames of      *)
(* input, any limit of the socket and any pastes and resizes.              *)
(***************************************************************************)
EXTENDS Workspace, BrowserTerminal, SequenceTheorems, TLAPS

-----------------------------------------------------------------------------
(* The tabs and the frame of a remote desktop *)

\* What the script remembers, the controls of the document and the handler
\* that waits agree, whatever has been loaded, reloaded or thrown.
Agree(p, m, c, waits) ==
  /\ p \in Pages
  /\ m = [known |-> m.known, active |-> m.active, connecting |-> m.connecting,
          connected |-> m.connected]
  /\ m.connecting \in BOOLEAN /\ m.connected \in BOOLEAN
  /\ c \in [form : BOOLEAN, connect : BOOLEAN, cancel : BOOLEAN, tools : BOOLEAN]
  /\ ~m.connecting \/ ~m.connected
  /\ m.connected <=> waits = "run"
  /\ waits = "connect" => m.connecting
  /\ c.form <=> ~m.connected
  /\ c.tools <=> m.connected
  /\ c.cancel <=> m.connecting
  /\ c.connect <=> p = "ready" /\ ~m.connecting /\ ~m.connected
  /\ p # "ready" => ~m.connecting /\ ~m.connected

FrameInv == Agree(page, mem, controls, call)

\* A frame whose document has not run.
LEMMA NewAgrees ==
  ASSUME NEW p \in {"none", "blank"}
  PROVE  Agree(p, NewScript, NewControls, "none")
BY DEF Agree, NewScript, NewControls, Pages

-----------------------------------------------------------------------------
(* The steps of the tab *)

LEMMA UnmountInv == Unmount => FrameInv'
BY NewAgrees DEF Unmount, FrameInv

LEMMA MountInv ==
  ASSUME NEW b, Mount(b)
  PROVE  FrameInv'
BY NewAgrees DEF Mount, FrameInv

LEMMA ActivateInv ==
  ASSUME FrameInv, NEW b, Activate(b)
  PROVE  FrameInv'
BY DEF Activate, FrameInv, frameVars, script

LEMMA UserInv ==
  ASSUME FrameInv, User
  PROVE  FrameInv'
<1>1. ASSUME NEW s \in Terminals \cup {Desktop}, OpenTerminal(s) PROVE FrameInv'
  BY <1>1, MountInv, ActivateInv DEF OpenTerminal
<1>2. ASSUME NEW k, Select(k) PROVE FrameInv'
  BY <1>2, ActivateInv DEF Select
<1>3. ASSUME NEW k, CloseTab(k) PROVE FrameInv'
  BY <1>3, UnmountInv, ActivateInv DEF CloseTab
<1> QED BY <1>1, <1>2, <1>3 DEF User

-----------------------------------------------------------------------------
(* The steps of the frame *)

LEMMA FrameStepInv ==
  ASSUME FrameInv, Frame
  PROVE  FrameInv'
<1> USE DEF FrameInv
<1>1. CASE Start
  BY <1>1 DEF Start, script, Agree, Pages
<1>2. CASE TakeInit
  <2> DEFINE active == Head(toFrame)
  <2>1. UNCHANGED <<page, controls, call>>
    BY <1>2 DEF TakeInit
  <2>2. CASE Running
    <3>1. mem' = [mem EXCEPT !.known = TRUE, !.active = active]
      BY <1>2, <2>2 DEF TakeInit
    <3> QED BY <2>1, <3>1 DEF Agree
  <2>3. CASE ~Running
    BY <1>2, <2>1, <2>3 DEF TakeInit
  <2> QED BY <2>2, <2>3
<1>3. CASE Loaded
  BY <1>3 DEF Loaded, Agree, Pages
<1>4. CASE Submit
  BY <1>4 DEF Submit, CanSubmit, Agree
<1>5. CASE Connected
  BY <1>5 DEF Connected, Agree
<1>6. CASE Over
  BY <1>6 DEF Over, LoginControls, Agree
<1>7. CASE Cancel
  BY <1>7 DEF Cancel, script
<1>8. CASE Reloads
  BY <1>8, NewAgrees DEF Reloads
<1>9. CASE TimerFires
  BY <1>9 DEF TimerFires
<1> QED BY <1>1, <1>2, <1>3, <1>4, <1>5, <1>6, <1>7, <1>8, <1>9 DEF Frame

-----------------------------------------------------------------------------
(* The theorems *)

\* The controls of a remote desktop agree with what its script is doing, for
\* any tabs, messages and sizes.
THEOREM FrameCorrect == Spec => []FrameInv
<1>1. Init => FrameInv
  BY NewAgrees DEF Init, NoFrame, FrameInv
<1>2. FrameInv /\ [Next]_vars => FrameInv'
  <2> SUFFICES ASSUME FrameInv, [Next]_vars PROVE FrameInv'
    OBVIOUS
  <2>1. CASE User
    BY <2>1, UserInv
  <2>2. CASE Sessions
    BY <2>2 DEF Sessions, Reports, Changes, Hears, FrameInv, frameVars, script
  <2>3. CASE Frame
    BY <2>3, FrameStepInv
  <2>4. CASE WindowResizes
    BY <2>4 DEF WindowResizes, FrameInv, script
  <2>5. CASE UNCHANGED vars
    BY <2>5 DEF vars, frameVars, script, FrameInv
  <2> QED BY <2>1, <2>2, <2>3, <2>4, <2>5 DEF Next
<1> QED BY <1>1, <1>2, PTL DEF Spec

\* A loaded frame never locks its user out: there is always a way to connect,
\* to cancel or to disconnect (rdp/client.ts 63, also where line 75 throws).
THEOREM UsableCorrect == Spec => []FrameIsUsable
<1>1. FrameInv => FrameIsUsable
  BY DEF FrameInv, Agree, FrameIsUsable, CanSubmit
<1> QED BY <1>1, FrameCorrect, PTL

-----------------------------------------------------------------------------
(* The tabs *)

SomeTab == [key : Nat \ {NoKey}, server : Terminals \cup {Desktop}]

\* Keys are given once, and so are tabs to servers; the active one is open.
TabsInv ==
  /\ opens \in Nat
  /\ tabs \in Seq(SomeTab)
  /\ \A i \in DOMAIN tabs : tabs[i].key <= opens
  /\ \A i, j \in DOMAIN tabs : tabs[i].key = tabs[j].key => i = j
  /\ \A i, j \in DOMAIN tabs : tabs[i].server = tabs[j].server => i = j
  /\ activeKey \in IF tabs = <<>> THEN {NoKey} ELSE KeysOf(tabs)

\* Another tab may become active when no tab comes or goes.
LEMMA OtherActive ==
  ASSUME TabsInv, UNCHANGED <<tabs, opens>>, activeKey' = activeKey \/ activeKey' \in KeysOf(tabs)
  PROVE  TabsInv'
<1>1. KeysOf(tabs) # {} => tabs # <<>>
  BY DEF KeysOf
<1> QED BY <1>1 DEF TabsInv, KeysOf

LEMMA OpenTabs ==
  ASSUME TabsInv, NEW server \in Terminals \cup {Desktop}, OpenTerminal(server)
  PROVE  TabsInv'
<1>1. CASE \E i \in DOMAIN tabs : tabs[i].server = server
  <2>1. PICK i \in DOMAIN tabs : tabs[i].server = server
    BY <1>1
  <2>2. tabs[i] \in ToSet(tabs)
    BY DEF ToSet
  <2>3. PICK t \in ToSet(tabs) : activeKey' = t.key
    BY <1>1, <2>1, <2>2 DEF OpenTerminal
  <2>4. t.key \in KeysOf(tabs)
    BY <2>3 DEF ToSet, KeysOf
  <2> QED BY <1>1, <2>3, <2>4, OtherActive DEF OpenTerminal
<1>2. CASE ~\E i \in DOMAIN tabs : tabs[i].server = server
  <2> DEFINE new == [key |-> opens + 1, server |-> server]
  <2>1. /\ opens' = opens + 1 /\ tabs' = Append(tabs, new) /\ activeKey' = opens + 1
    BY <1>2 DEF OpenTerminal
  <2>2. new \in SomeTab /\ opens' \in Nat
    BY <2>1 DEF TabsInv, NoKey, SomeTab
  <2>3. /\ tabs' \in Seq(SomeTab) /\ tabs' # <<>> /\ DOMAIN tabs' = 1..(Len(tabs) + 1)
        /\ \A i \in 1..Len(tabs) : tabs'[i] = tabs[i]
        /\ tabs'[Len(tabs) + 1] = new
    BY <2>1, <2>2, AppendProperties DEF TabsInv
  <2>4. DOMAIN tabs = 1..Len(tabs) /\ Len(tabs) \in Nat
    BY DEF TabsInv
  <2>5. \A i \in DOMAIN tabs : tabs[i].key \in Nat /\ tabs[i].key <= opens
    <3>1. \A i \in DOMAIN tabs : tabs[i] \in SomeTab
      BY <2>4, ElementOfSeq DEF TabsInv
    <3> QED BY <3>1 DEF TabsInv, SomeTab
  <2>6. \A i \in DOMAIN tabs' : tabs'[i].key <= opens'
    BY <2>1, <2>3, <2>4, <2>5 DEF TabsInv
  <2>7. \A i, j \in DOMAIN tabs' : tabs'[i].key = tabs'[j].key => i = j
    BY <2>3, <2>4, <2>5 DEF TabsInv
  <2>8. \A i, j \in DOMAIN tabs' : tabs'[i].server = tabs'[j].server => i = j
    BY <1>2, <2>3, <2>4 DEF TabsInv
  <2>9. activeKey' \in KeysOf(tabs')
    BY <2>1, <2>3, <2>4 DEF KeysOf
  <2> QED BY <2>2, <2>3, <2>6, <2>7, <2>8, <2>9 DEF TabsInv
<1> QED BY <1>1, <1>2

\* Removing the k-th element of a sequence moves those behind it.
LEMMA RemoveAtProperties ==
  ASSUME NEW S, NEW s \in Seq(S), NEW k \in 1..Len(s)
  PROVE  /\ RemoveAt(s, k) \in Seq(S)
         /\ Len(RemoveAt(s, k)) = Len(s) - 1
         /\ \A i \in 1..(Len(s) - 1) : RemoveAt(s, k)[i] = s[IF i < k THEN i ELSE i + 1]
<1>1. PICK n \in Nat : n = Len(s)
  BY LenProperties
<1>2. PICK left : left = SubSeq(s, 1, k - 1)
  OBVIOUS
<1>3. PICK right : right = SubSeq(s, k + 1, n)
  OBVIOUS
<1>4. \A i \in 1..n : s[i] \in S
  BY <1>1, ElementOfSeq
<1>5. left \in Seq(S) /\ Len(left) = k - 1 /\ \A i \in 1..(k - 1) : left[i] = s[i]
  <2>1. \A i \in 1..(k - 1) : s[i] \in S
    BY <1>1, <1>4
  <2>2. /\ left \in Seq(S) /\ Len(left) = IF 1 <= k - 1 THEN (k - 1) - 1 + 1 ELSE 0
        /\ \A i \in 1..((k - 1) - 1 + 1) : left[i] = s[1 + i - 1]
    BY <1>1, <1>2, <2>1, SubSeqProperties
  <2> QED BY <1>1, <2>2
<1>6. right \in Seq(S) /\ Len(right) = n - k /\ \A i \in 1..(n - k) : right[i] = s[k + i]
  <2>1. \A i \in (k + 1)..n : s[i] \in S
    BY <1>1, <1>4
  <2>2. /\ right \in Seq(S) /\ Len(right) = IF k + 1 <= n THEN n - (k + 1) + 1 ELSE 0
        /\ \A i \in 1..(n - (k + 1) + 1) : right[i] = s[(k + 1) + i - 1]
    BY <1>1, <1>3, <2>1, SubSeqProperties
  <2>3. n - (k + 1) + 1 = n - k /\ \A i \in 1..(n - k) : (k + 1) + i - 1 = k + i
    BY <1>1
  <2>4. Len(right) = n - k
    BY <1>1, <2>2
  <2>5. \A i \in 1..(n - k) : right[i] = s[k + i]
    BY <2>2, <2>3
  <2> QED BY <2>2, <2>4, <2>5
<1>7. /\ left \o right \in Seq(S) /\ Len(left \o right) = n - 1
      /\ \A i \in 1..(n - 1) : (left \o right)[i] = IF i <= k - 1 THEN left[i] ELSE right[i - (k - 1)]
  <2>1. Len(left) + Len(right) = n - 1
    BY <1>1, <1>5, <1>6
  <2>2. /\ left \o right \in Seq(S) /\ Len(left \o right) = Len(left) + Len(right)
        /\ \A i \in 1..(Len(left) + Len(right)) :
             (left \o right)[i] = IF i <= Len(left) THEN left[i] ELSE right[i - Len(left)]
    BY <1>5, <1>6, ConcatProperties
  <2> QED BY <1>5, <2>1, <2>2
<1>8. RemoveAt(s, k) = left \o right
  BY <1>1, <1>2, <1>3 DEF RemoveAt
<1>9. ASSUME NEW i \in 1..(n - 1)
      PROVE  (left \o right)[i] = s[IF i < k THEN i ELSE i + 1]
  <2>1. CASE i < k
    BY <1>1, <1>5, <1>7, <2>1
  <2>2. CASE ~(i < k)
    <3>1. i - (k - 1) \in 1..(n - k) /\ k + (i - (k - 1)) = i + 1 /\ ~(i <= k - 1)
      BY <1>1, <2>2
    <3> QED BY <1>6, <1>7, <2>2, <3>1
  <2> QED BY <2>1, <2>2
<1> QED BY <1>1, <1>7, <1>8, <1>9

LEMMA CloseTabs ==
  ASSUME TabsInv, NEW k \in KeysOf(tabs), CloseTab(k)
  PROVE  TabsInv'
<1> DEFINE n == Len(tabs)
           at == IndexOf(k)
           old(i) == IF i < at THEN i ELSE i + 1
<1>1. tabs \in Seq(SomeTab) /\ n \in Nat /\ DOMAIN tabs = 1..n /\ \A i \in 1..n : tabs[i] \in SomeTab
  BY DEF TabsInv
<1>2. at \in 1..n /\ tabs[at].key = k
  <2>1. \E i \in DOMAIN tabs : tabs[i].key = k
    BY DEF KeysOf
  <2> QED BY <1>1, <2>1 DEF IndexOf
<1>3. /\ tabs' = RemoveAt(tabs, at) /\ opens' = opens
      /\ activeKey' \in NextActive(k, tabs')
  BY DEF CloseTab
<1> HIDE DEF at
<1>4. /\ tabs' \in Seq(SomeTab) /\ DOMAIN tabs' = 1..(n - 1) /\ Len(tabs') = n - 1
      /\ \A i \in 1..(n - 1) : old(i) \in 1..n /\ tabs'[i] = tabs[old(i)]
  <2>1. /\ tabs' \in Seq(SomeTab) /\ Len(tabs') = n - 1
        /\ \A i \in 1..(n - 1) : tabs'[i] = tabs[old(i)]
    BY <1>1, <1>2, <1>3, RemoveAtProperties
  <2>2. \A i \in 1..(n - 1) : old(i) \in 1..n
    BY <1>1, <1>2
  <2> QED BY <2>1, <2>2
<1>5. \A i, j \in 1..(n - 1) : old(i) = old(j) => i = j
  BY <1>1, <1>2
<1>6. \A i \in 1..n : i # at => \E j \in 1..(n - 1) : old(j) = i
  BY <1>1, <1>2
<1> HIDE DEF old
<1>7. /\ \A i, j \in DOMAIN tabs' : tabs'[i].key = tabs'[j].key => i = j
      /\ \A i, j \in DOMAIN tabs' : tabs'[i].server = tabs'[j].server => i = j
      /\ \A i \in DOMAIN tabs' : tabs'[i].key <= opens'
  <2>1. /\ \A i, j \in 1..n : tabs[i].key = tabs[j].key => i = j
        /\ \A i, j \in 1..n : tabs[i].server = tabs[j].server => i = j
        /\ \A i \in 1..n : tabs[i].key <= opens
    BY <1>1 DEF TabsInv
  <2>2. ASSUME NEW i \in 1..(n - 1), NEW j \in 1..(n - 1)
        PROVE  /\ tabs'[i].key = tabs'[j].key => i = j
               /\ tabs'[i].server = tabs'[j].server => i = j
               /\ tabs'[i].key <= opens
    <3>1. /\ old(i) \in 1..n /\ old(j) \in 1..n /\ (old(i) = old(j) => i = j)
          /\ tabs'[i] = tabs[old(i)] /\ tabs'[j] = tabs[old(j)]
      BY <1>4, <1>5
    <3> QED BY <2>1, <3>1
  <2> QED BY <1>3, <1>4, <2>2
<1>8. \A i \in 1..n : i # at => tabs[i].key \in KeysOf(tabs')
  BY <1>4, <1>6 DEF KeysOf
<1>9. activeKey' \in IF tabs' = <<>> THEN {NoKey} ELSE KeysOf(tabs')
  <2>1. CASE tabs' = <<>>
    BY <1>3, <2>1 DEF NextActive
  <2>2. CASE tabs' # <<>>
    <3>1. n >= 2
      BY <1>1, <1>4, <2>2, EmptySeq
    <3>2. Neighbour(k) \in KeysOf(tabs')
      <4>1. CASE at < n
        BY <1>1, <1>2, <1>8, <4>1 DEF Neighbour, at
      <4>2. CASE ~(at < n)
        BY <1>1, <1>2, <1>8, <3>1, <4>2 DEF Neighbour, at
      <4> QED BY <4>1, <4>2
    <3>3. Last(tabs').key \in KeysOf(tabs')
      BY <1>4, <3>1 DEF Last, KeysOf
    <3> QED BY <1>3, <2>2, <3>2, <3>3 DEF NextActive
  <2> QED BY <2>1, <2>2
<1> QED BY <1>3, <1>4, <1>7, <1>9 DEF TabsInv

\* For any servers and any number of tabs opened.
THEOREM TabsCorrect == Spec => []TabsInv
<1>1. Init => TabsInv
  BY DEF Init, TabsInv, NoKey
<1>2. TabsInv /\ [Next]_vars => TabsInv'
  <2> SUFFICES ASSUME TabsInv, [Next]_vars PROVE TabsInv'
    OBVIOUS
  <2>1. CASE User
    BY <2>1, OpenTabs, CloseTabs, OtherActive DEF User, Select
  <2>2. CASE UNCHANGED <<tabs, activeKey, opens>>
    BY <2>2, OtherActive
  <2> QED BY <2>1, <2>2 DEF Next, Sessions, Reports, Changes, Hears, vars, tabVars
<1> QED BY <1>1, <1>2, PTL DEF Spec

\* Whatever is closed, and in whichever order the two choices of the next tab
\* are made (MainPage.tsx 54, TerminalTabs.tsx 39).
THEOREM ActiveCorrect == Spec => []ActiveTabIsOpen
<1>1. TabsInv => ActiveTabIsOpen
  BY DEF TabsInv, ActiveTabIsOpen
<1> QED BY <1>1, TabsCorrect, PTL

-----------------------------------------------------------------------------
(* A connection of a terminal: what always holds *)

AnyFrame == [kind : {"input", "size"}, n : Nat]

\* The rest of q, from index i, is the input up to frame a.
Waits(q, i, a) == \A j \in i + 1..Len(q) : q[j] = Input(a - (Len(q) - j))

ConnectPlaces ==
  /\ sent \in Seq(AnyFrame) /\ buffered \in Seq(AnyFrame) /\ queue \in Seq(AnyFrame)
  /\ accepted \in Nat /\ queueIndex \in Nat /\ size \in Nat
  /\ tasks \in Seq({"connected", "end", "error", "close"})

\* Only the current connection hears of its socket, and is connected at most
\* until it fails.
LifeInv ==
  /\ ~current => tasks = <<>> /\ socket \notin {"connecting", "open"}
  /\ connected => current /\ ~failed
  /\ current => queueIndex <= Len(queue) /\ Len(queue) - queueIndex <= accepted

\* What has left the queue is with the server or in the socket, also after the
\* connection has failed.
InputInv ==
  /\ sent = Numbered(Len(sent))
  /\ \E b \in 0..accepted : Carries(buffered, Len(sent), b)
  /\ current /\ ~failed => /\ Carries(buffered, Len(sent), accepted - Rest)
                           /\ Waits(queue, queueIndex, accepted)

ToldInv == failed /\ Len(sent) < accepted => errorMsg = "interrupted"

ConnectInv == ConnectPlaces /\ LifeInv /\ InputInv /\ ToldInv

-----------------------------------------------------------------------------
(* Frames in a socket *)

LEMMA InputFacts ==
  /\ \A k, l : Input(k) = Input(l) => k = l
  /\ \A k : Input(k).kind = "input" /\ Input(k).n = k /\ Resize(k).kind = "size"
  /\ \A k \in Nat : Input(k) \in AnyFrame /\ Resize(k) \in AnyFrame
  /\ \A f \in AnyFrame : f.kind = "input" => f = Input(f.n)
BY DEF Input, Resize, AnyFrame

LEMMA CarriesNothing ==
  ASSUME NEW a \in Nat
  PROVE  Carries(<<>>, a, a)
BY DEF Carries

\* A frame that tells the size is no input.
LEMMA CarriesSize ==
  ASSUME NEW s \in Seq(AnyFrame), NEW a \in Nat, NEW b \in Nat, Carries(s, a, b),
         NEW f \in AnyFrame, f.kind = "size"
  PROVE  Carries(Append(s, f), a, b)
<1> DEFINE t == Append(s, f)
<1>1. /\ Len(t) = Len(s) + 1 /\ DOMAIN t = 1..Len(s) + 1 /\ DOMAIN s = 1..Len(s)
      /\ \A i \in 1..Len(s) : t[i] = s[i]
      /\ t[Len(s) + 1] = f /\ Len(s) \in Nat
  OBVIOUS
<1>2. \A i \in DOMAIN t : t[i].kind = "input" => i \in DOMAIN s
  BY <1>1
<1> HIDE DEF t
<1> QED BY <1>1, <1>2 DEF Carries

\* More input follows what is there.
LEMMA CarriesMore ==
  ASSUME NEW s \in Seq(AnyFrame), NEW a \in Nat, NEW b \in Nat, Carries(s, a, b),
         NEW m \in Seq(AnyFrame), \A i \in DOMAIN m : m[i] = Input(b + i)
  PROVE  Carries(s \o m, a, b + Len(m))
<1> DEFINE t == s \o m
<1> PICK k \in Nat : k = Len(s)
  OBVIOUS
<1> PICK l \in Nat : l = Len(m)
  OBVIOUS
<1>1. /\ DOMAIN t = 1..k + l /\ DOMAIN s = 1..k /\ DOMAIN m = 1..l
      /\ \A i \in 1..k : t[i] = s[i]
      /\ \A i \in k + 1..k + l : t[i] = m[i - k]
  BY ConcatProperties
<1>2. \A i \in k + 1..k + l : t[i] = Input(b + (i - k))
  <2>1. \A i \in k + 1..k + l : i - k \in DOMAIN m
    BY <1>1
  <2> QED BY <1>1, <2>1
<1> HIDE DEF t
<1>3. a <= b + l
  BY DEF Carries
<1>4. ASSUME NEW n \in a + 1..b + l
      PROVE  \E i \in DOMAIN t : t[i] = Input(n)
  <2>1. CASE n <= b
    BY <1>1, <2>1 DEF Carries
  <2>2. CASE n > b
    <3>1. k + (n - b) \in DOMAIN t /\ t[k + (n - b)] = Input(b + ((k + (n - b)) - k))
      BY <1>1, <1>2, <2>2
    <3>2. b + ((k + (n - b)) - k) = n
      OBVIOUS
    <3> QED BY <3>1, <3>2
  <2> QED BY <2>1, <2>2
<1>5. ASSUME NEW i \in DOMAIN t, t[i].kind = "input"
      PROVE  /\ t[i].n \in a + 1..b + l
             /\ i > k => t[i].n = b + (i - k)
             /\ i <= k => t[i].n \in a + 1..b
  <2>1. CASE i <= k
    <3>1. i \in DOMAIN s /\ t[i] = s[i]
      BY <1>1, <2>1
    <3>2. t[i].n \in a + 1..b
      BY <1>5, <3>1 DEF Carries
    <3> QED BY <1>1, <2>1, <3>2
  <2>2. CASE i > k
    <3>1. t[i].n = b + (i - k)
      BY <1>1, <1>2, <2>2, InputFacts
    <3> QED BY <1>1, <1>3, <2>2, <3>1 DEF Carries
  <2> QED BY <1>1, <2>1, <2>2
<1>6. ASSUME NEW i \in DOMAIN t, NEW j \in DOMAIN t, i < j,
             t[i].kind = "input", t[j].kind = "input"
      PROVE  t[i].n < t[j].n
  <2>1. CASE j <= k
    <3>1. i \in DOMAIN s /\ j \in DOMAIN s /\ t[i] = s[i] /\ t[j] = s[j]
      BY <1>1, <1>6, <2>1
    <3> QED BY <1>6, <3>1 DEF Carries
  <2>2. CASE i <= k /\ j > k
    <3>1. t[i].n \in a + 1..b /\ t[j].n = b + (j - k)
      BY <1>5, <1>6, <2>2
    <3> QED BY <1>1, <2>2, <3>1
  <2>3. CASE i > k
    <3>1. t[i].n = b + (i - k) /\ j > k
      BY <1>1, <1>5, <1>6, <2>3
    <3>2. t[j].n = b + (j - k)
      BY <1>5, <1>6, <3>1
    <3> QED BY <1>1, <1>6, <3>1, <3>2
  <2> QED BY <1>1, <2>1, <2>2, <2>3
<1>7. Carries(t, a, b + l)
  BY <1>3, <1>4, <1>5, <1>6 DEF Carries
<1> QED BY <1>7 DEF t

\* What is sent first is the next input.
LEMMA CarriesTail ==
  ASSUME NEW s \in Seq(AnyFrame), s # <<>>, NEW a \in Nat, NEW b \in Nat, Carries(s, a, b)
  PROVE  /\ Head(s).kind = "size" => Carries(Tail(s), a, b)
         /\ Head(s).kind = "input" => /\ Head(s) = Input(a + 1) /\ a < b
                                      /\ Carries(Tail(s), a + 1, b)
<1> DEFINE t == Tail(s)
<1> PICK k \in Nat : k = Len(s)
  OBVIOUS
<1>1. /\ DOMAIN t = 1..k - 1 /\ DOMAIN s = 1..k /\ k >= 1 /\ Head(s) = s[1] /\ s[1] \in AnyFrame
      /\ \A i \in 1..k - 1 : t[i] = s[i + 1]
  BY HeadTailProperties, EmptySeq
<1> HIDE DEF t
<1>2. \A i, j \in DOMAIN t : i < j => i + 1 < j + 1
  BY <1>1
<1>3. \A i \in DOMAIN t : i + 1 \in DOMAIN s /\ t[i] = s[i + 1] /\ 1 < i + 1
  BY <1>1
<1>4. \A i \in DOMAIN s : i = 1 \/ (i - 1 \in DOMAIN t /\ t[i - 1] = s[i])
  BY <1>1
<1>5. ASSUME NEW i \in DOMAIN t, NEW j \in DOMAIN t, i < j,
             t[i].kind = "input", t[j].kind = "input"
      PROVE  t[i].n < t[j].n
  BY <1>2, <1>3, <1>5 DEF Carries
<1>6. CASE Head(s).kind = "size"
  <2>1. ASSUME NEW n \in a + 1..b
        PROVE  \E i \in DOMAIN t : t[i] = Input(n)
    <3>1. PICK i \in DOMAIN s : s[i] = Input(n)
      BY DEF Carries
    <3>2. i # 1
      BY <1>1, <1>6, <3>1, InputFacts
    <3> QED BY <1>4, <3>1, <3>2
  <2>2. \A i \in DOMAIN t : t[i].kind = "input" => t[i].n \in a + 1..b
    BY <1>3 DEF Carries
  <2>3. Carries(t, a, b)
    BY <1>5, <2>1, <2>2 DEF Carries
  <2>4. Head(s).kind # "input"
    BY <1>6
  <2> QED BY <2>3, <2>4 DEF t
<1>7. CASE Head(s).kind = "input"
  <2>1. s[1].n \in a + 1..b /\ s[1] = Input(s[1].n)
    BY <1>1, <1>7, InputFacts DEF Carries
  <2>2. ASSUME NEW i \in DOMAIN t, t[i].kind = "input"
        PROVE  t[i].n \in a + 1..b /\ s[1].n < t[i].n
    <3>1. i + 1 \in DOMAIN s /\ t[i] = s[i + 1] /\ 1 < i + 1 /\ 1 \in DOMAIN s
      BY <1>1, <1>3
    <3> QED BY <1>1, <1>7, <2>2, <3>1 DEF Carries
  <2>3. s[1].n = a + 1
    <3>1. PICK i \in DOMAIN s : s[i] = Input(a + 1)
      BY <2>1 DEF Carries
    <3>2. CASE i = 1
      BY <3>1, <3>2, InputFacts
    <3>3. CASE i # 1
      <4>1. i - 1 \in DOMAIN t /\ t[i - 1].kind = "input" /\ t[i - 1].n = a + 1
        BY <1>4, <3>1, <3>3, InputFacts
      <4> QED BY <2>1, <2>2, <4>1
    <3> QED BY <3>2, <3>3
  <2>4. ASSUME NEW n \in a + 2..b
        PROVE  \E i \in DOMAIN t : t[i] = Input(n)
    <3>1. n \in a + 1..b /\ n # a + 1
      OBVIOUS
    <3>2. PICK i \in DOMAIN s : s[i] = Input(n)
      BY <3>1 DEF Carries
    <3>3. i # 1
      BY <2>3, <3>1, <3>2, InputFacts
    <3> QED BY <1>4, <3>2, <3>3
  <2>5. a + 1 <= b
    BY <2>1
  <2>6. \A i \in DOMAIN t : t[i].kind = "input" => t[i].n \in (a + 1) + 1..b
    BY <2>2, <2>3
  <2>7. \A n \in (a + 1) + 1..b : \E i \in DOMAIN t : t[i] = Input(n)
    BY <2>4
  <2>8. Carries(t, a + 1, b)
    BY <1>5, <2>5, <2>6, <2>7 DEF Carries
  <2>9. Head(s).kind # "size" /\ a < b /\ Head(s) = Input(a + 1)
    BY <1>1, <1>7, <2>1, <2>3, <2>5
  <2> QED BY <2>8, <2>9 DEF t
<1> QED BY <1>1, <1>6, <1>7 DEF AnyFrame

-----------------------------------------------------------------------------
(* The steps of a connection *)

LEMMA ConnectInitInv == ConnectInit => ConnectInv
<1> SUFFICES ASSUME ConnectInit PROVE ConnectInv
  OBVIOUS
<1>1. /\ current = TRUE /\ connected = FALSE /\ failed = FALSE /\ queue = <<>> /\ queueIndex = 0
      /\ accepted = 0 /\ buffered = <<>> /\ tasks = <<>> /\ sent = <<>> /\ size = 1
  BY DEF ConnectInit
<1>2. ConnectPlaces /\ LifeInv /\ ToldInv
  BY <1>1 DEF ConnectPlaces, LifeInv, ToldInv
<1>3. Len(sent) = 0 /\ accepted - Rest = 0 /\ Carries(buffered, 0, 0)
  <2>1. Len(sent) = 0 /\ Len(queue) = 0
    BY <1>1
  <2>2. Carries(<<>>, 0, 0)
    BY CarriesNothing
  <2>3. Rest = 0
    BY <1>1, <2>1 DEF Rest
  <2> QED BY <1>1, <2>1, <2>2, <2>3
<1>4. sent = Numbered(0) /\ Waits(queue, queueIndex, accepted)
  BY <1>1 DEF Numbered, Waits
<1> QED BY <1>1, <1>2, <1>3, <1>4 DEF ConnectInv, InputInv

\* What the invariant says of the input that has left the queue.
LEMMA Underway ==
  ASSUME ConnectInv
  PROVE  /\ Len(sent) \in Nat /\ Len(sent) <= accepted
         /\ current /\ ~failed =>
              Rest \in Nat /\ accepted - Rest \in 0..accepted /\ Len(sent) <= accepted - Rest
<1> USE DEF ConnectInv, ConnectPlaces, LifeInv, InputInv
<1>1. Len(sent) \in Nat /\ Len(sent) <= accepted
  BY DEF Carries
<1>2. current => Rest \in Nat /\ accepted - Rest \in 0..accepted
  BY DEF Rest
<1> QED BY <1>1, <1>2 DEF Carries

LEMMA CleanupInv == ConnectInv /\ Cleanup => ConnectInv'
<1> SUFFICES ASSUME ConnectInv, Cleanup PROVE ConnectInv'
  OBVIOUS
<1>1. /\ current' = FALSE /\ connected' = FALSE /\ queue' = <<>> /\ tasks' = <<>>
      /\ socket' \notin {"connecting", "open"}
      /\ UNCHANGED <<errorMsg, failed, queueIndex, accepted, size, buffered, sent>>
  BY DEF Cleanup, shows, serverSide
<1>2. ConnectPlaces'
  BY <1>1 DEF ConnectInv, ConnectPlaces
<1> QED BY <1>1, <1>2 DEF ConnectInv, LifeInv, InputInv, ToldInv

\* A step that leaves the input where it is.
LEMMA StillInv ==
  ASSUME ConnectInv, UNCHANGED <<sent, buffered, queue, queueIndex, accepted, size>>,
         current' = current, failed' = failed, connected' = connected, errorMsg' = errorMsg,
         tasks' \in Seq({"connected", "end", "error", "close"}),
         ~current => tasks' = <<>> /\ socket' \notin {"connecting", "open"}
  PROVE  ConnectInv'
BY DEF ConnectInv, ConnectPlaces, LifeInv, InputInv, ToldInv, Rest, Carries, Waits

\* What is transmitted is the next input, also after a failure.
LEMMA TransmitInv == ConnectInv /\ Transmit => ConnectInv'
<1> SUFFICES ASSUME ConnectInv, Transmit PROVE ConnectInv'
  OBVIOUS
<1> DEFINE a == Len(sent)
<1>1. /\ buffered # <<>> /\ buffered' = Tail(buffered)
      /\ \/ Head(buffered).kind = "input" /\ sent' = Append(sent, Head(buffered))
         \/ Head(buffered).kind = "size" /\ sent' = sent
      /\ UNCHANGED <<current, errorMsg, connected, failed, queue, queueIndex, accepted, size,
                     socket, tasks>>
  BY DEF Transmit, Outside, shows, input
<1>2. ConnectPlaces
  BY DEF ConnectInv
<1>3. a \in Nat /\ a <= accepted /\ sent = Numbered(a)
  BY Underway DEF ConnectInv, InputInv
<1>4. Head(buffered) \in AnyFrame /\ Tail(buffered) \in Seq(AnyFrame)
  BY <1>1, <1>2, HeadTailProperties, EmptySeq DEF ConnectPlaces
<1>5. ASSUME NEW b \in Nat, Carries(buffered, a, b)
      PROVE  /\ Carries(buffered', Len(sent'), b) /\ Len(sent') <= b
             /\ sent' = Numbered(Len(sent')) /\ a <= Len(sent')
             /\ sent' \in Seq(AnyFrame)
  <2>1. CASE Head(buffered).kind = "size"
    <3>1. sent' = sent /\ Carries(buffered', a, b)
      BY <1>1, <1>2, <1>3, <1>5, <2>1, CarriesTail DEF ConnectPlaces
    <3>2. a <= b
      BY <1>5 DEF Carries
    <3> QED BY <1>2, <1>3, <3>1, <3>2 DEF ConnectPlaces
  <2>2. CASE Head(buffered).kind = "input"
    <3>1. /\ Head(buffered) = Input(a + 1) /\ a < b /\ Carries(buffered', a + 1, b)
          /\ sent' = Append(sent, Input(a + 1))
      BY <1>1, <1>2, <1>3, <1>5, <2>2, CarriesTail DEF ConnectPlaces
    <3>2. Len(sent') = a + 1 /\ sent' \in Seq(AnyFrame)
      BY <1>2, <1>3, <3>1, InputFacts DEF ConnectPlaces
    <3>3. \A i \in 1..a + 1 : sent'[i] = Input(i)
      BY <1>2, <1>3, <3>1 DEF ConnectPlaces, Numbered
    <3>4. sent' = Numbered(a + 1)
      BY <1>3, <3>2, <3>3 DEF Numbered
    <3> QED BY <1>3, <3>1, <3>2, <3>4
  <2> QED BY <1>4, <2>1, <2>2 DEF AnyFrame
<1>6. PICK b \in 0..accepted : Carries(buffered, a, b)
  BY DEF ConnectInv, InputInv
<1>7. ConnectPlaces'
  BY <1>1, <1>2, <1>4, <1>5, <1>6 DEF ConnectPlaces
<1>8. InputInv'
  <2>1. current /\ ~failed => Carries(buffered', Len(sent'), accepted - Rest)
    BY <1>5, Underway DEF ConnectInv, InputInv
  <2> QED BY <1>1, <1>5, <1>6, <2>1 DEF ConnectInv, InputInv, Rest, Waits
<1>9. ToldInv'
  BY <1>1, <1>2, <1>3, <1>5, <1>6, <1>7 DEF ConnectInv, ConnectPlaces, ToldInv
<1> QED BY <1>1, <1>7, <1>8, <1>9 DEF ConnectInv, LifeInv

LEMMA NetworkInv == ConnectInv /\ Network => ConnectInv'
<1> SUFFICES ASSUME ConnectInv, Network PROVE ConnectInv'
  OBVIOUS
<1>1. tasks \in Seq({"connected", "end", "error", "close"})
      /\ (~current => tasks = <<>> /\ socket \notin {"connecting", "open"})
  BY DEF ConnectInv, ConnectPlaces, LifeInv
<1>2. CASE Opens
  BY <1>1, <1>2, StillInv DEF Opens, Outside, shows, input, serverSide
<1>3. ASSUME NEW m \in {"connected", "end"}, ServerSays(m)
      PROVE  ConnectInv'
  <2>1. tasks' \in Seq({"connected", "end", "error", "close"})
    BY <1>1, <1>3 DEF ServerSays
  <2> QED BY <1>1, <1>3, <2>1, StillInv DEF ServerSays, Outside, shows, input, serverSide
<1>4. CASE Breaks
  <2>1. PICK events \in {<<"close">>, <<"error", "close">>} :
               tasks' = IF current THEN tasks \o events ELSE <<>>
    BY <1>4 DEF Breaks
  <2>2. tasks' \in Seq({"connected", "end", "error", "close"})
    <3>1. events \in Seq({"connected", "end", "error", "close"})
      <4> DEFINE S == {"connected", "end", "error", "close"}
      <4>1. \A x, y \in S : <<x>> \in Seq(S) /\ <<x, y>> \in Seq(S)
        OBVIOUS
      <4>2. "error" \in S /\ "close" \in S
        OBVIOUS
      <4> QED BY <4>1, <4>2
    <3>2. <<>> \in Seq({"connected", "end", "error", "close"})
      OBVIOUS
    <3> QED BY <1>1, <2>1, <3>1, <3>2, ConcatProperties
  <2> QED BY <1>4, <2>1, <2>2, StillInv DEF Breaks, Outside, shows, input, serverSide
<1> QED BY <1>2, <1>3, <1>4, TransmitInv DEF Network, ServerIsReady, ServerEnds

-----------------------------------------------------------------------------
(* The callbacks *)

\* A connection fails with input that was not sent: it is in the queue or in
\* the socket, and the message tells.
LEMMA FailInv ==
  ASSUME ConnectInv, current, Fail, tasks' \in Seq({"connected", "end", "error", "close"})
  PROVE  ConnectInv'
<1>1. CASE ~MayFail
  BY <1>1, StillInv DEF Fail, shows, input, serverSide
<1>2. CASE MayFail
  <2>1. /\ ~failed /\ failed' = TRUE /\ connected' = FALSE /\ queue' = <<>> /\ queueIndex' = 0
        /\ errorMsg' = IF Interrupted THEN "interrupted" ELSE "plain"
        /\ UNCHANGED <<current, size, buffered, sent, accepted>>
    BY <1>2 DEF Fail, MayFail, serverSide
  <2>2. ConnectPlaces' /\ LifeInv'
    BY <2>1 DEF ConnectInv, ConnectPlaces, LifeInv
  <2>3. InputInv'
    BY <2>1 DEF ConnectInv, InputInv
  <2>4. ASSUME ~Interrupted
        PROVE  Len(sent) = accepted
    <3>1. Rest = 0 /\ buffered = <<>>
      BY <2>1, <2>4, Underway DEF Interrupted
    <3>2. Carries(<<>>, Len(sent), accepted) /\ accepted \in Nat
      BY <2>1, <3>1 DEF ConnectInv, ConnectPlaces, InputInv
    <3>3. ~(Len(sent) < accepted)
      <4> SUFFICES ASSUME Len(sent) < accepted PROVE FALSE
        OBVIOUS
      <4>1. Len(sent) + 1 \in Len(sent) + 1..accepted
        BY <3>2, Underway
      <4>2. PICK i \in DOMAIN <<>> : TRUE
        BY <3>2, <4>1 DEF Carries
      <4> QED BY <4>2
    <3> QED BY <3>2, <3>3, Underway
  <2>5. ToldInv'
    BY <2>1, <2>4, Underway DEF ToldInv, ConnectInv, ConnectPlaces
  <2> QED BY <2>2, <2>3, <2>5 DEF ConnectInv
<1> QED BY <1>1, <1>2

\* A callback leaves the connection as it is, and gives the socket at most one
\* frame, with the size.
LEMMA SizeInv ==
  ASSUME ConnectInv, UNCHANGED <<current, failed, sent, queue, queueIndex, accepted, errorMsg>>,
         connected' => current /\ ~failed, socket' = socket, size' \in Nat,
         tasks' \in Seq({"connected", "end", "error", "close"}), ~current => tasks' = <<>>,
         buffered' = buffered \/ buffered' = Append(buffered, Resize(size'))
  PROVE  ConnectInv'
<1>1. Len(sent) \in Nat /\ Len(sent) <= accepted
  BY Underway
<1>2. Resize(size') \in AnyFrame /\ Resize(size').kind = "size" /\ buffered \in Seq(AnyFrame)
  BY InputFacts DEF ConnectInv, ConnectPlaces
<1>3. buffered' \in Seq(AnyFrame)
  BY <1>2
<1>4. ASSUME NEW b \in Nat, Carries(buffered, Len(sent), b)
      PROVE  Carries(buffered', Len(sent), b)
  BY <1>1, <1>2, <1>4, CarriesSize
<1>5. InputInv'
  <2>1. accepted \in Nat
    BY DEF ConnectInv, ConnectPlaces
  <2>2. \E b \in 0..accepted : Carries(buffered', Len(sent), b)
    BY <1>4, <2>1 DEF ConnectInv, InputInv
  <2>3. current /\ ~failed => Carries(buffered', Len(sent), accepted - Rest)
    BY <1>4, <2>1, Underway DEF ConnectInv, InputInv
  <2> QED BY <2>2, <2>3 DEF ConnectInv, InputInv, Rest, Waits
<1> QED BY <1>3, <1>5 DEF ConnectInv, ConnectPlaces, LifeInv, ToldInv

LEMMA TaskInv == ConnectInv /\ Task => ConnectInv'
<1> SUFFICES ASSUME ConnectInv, Task PROVE ConnectInv'
  OBVIOUS
<1>1. /\ tasks # <<>> /\ tasks' = Tail(tasks) /\ current /\ size \in Nat
      /\ tasks \in Seq({"connected", "end", "error", "close"})
  BY DEF Task, ConnectInv, ConnectPlaces, LifeInv
<1>2. tasks' \in Seq({"connected", "end", "error", "close"})
  BY <1>1, HeadTailProperties, EmptySeq
<1>3. CASE Confirmed /\ Callback
  <2>1. CASE failed
    BY <1>1, <1>2, <1>3, <2>1, StillInv DEF Confirmed, Callback, shows, input, serverSide
  <2>2. CASE ~failed
    <3>1. /\ UNCHANGED <<current, failed, sent, queue, queueIndex, accepted, errorMsg, size, socket>>
          /\ buffered' = buffered \/ buffered' = Append(buffered, Resize(size'))
      BY <1>3, <2>2 DEF Confirmed, Callback, Announce, input, serverSide
    <3> QED BY <1>1, <1>2, <2>2, <3>1, SizeInv
  <2> QED BY <2>1, <2>2
<1>4. CASE Fail
  BY <1>1, <1>2, <1>4, FailInv
<1> QED BY <1>3, <1>4 DEF Task

LEMMA ResizeInv == ConnectInv /\ (Resizes \/ ResizeFires) => ConnectInv'
<1> SUFFICES ASSUME ConnectInv, Resizes \/ ResizeFires PROVE ConnectInv'
  OBVIOUS
<1>1. /\ UNCHANGED <<current, failed, sent, queue, queueIndex, accepted, errorMsg, connected,
                     socket, tasks>>
      /\ size' = size \/ size' = size + 1
      /\ buffered' = buffered \/ buffered' = Append(buffered, Resize(size'))
  BY DEF Resizes, ResizeFires, Announce, Callback, shows, input, serverSide
<1> QED BY <1>1, SizeInv DEF ConnectInv, ConnectPlaces, LifeInv

\* The pump moves the next frames of the queue to the socket.
LEMMA PumpMoves ==
  ASSUME ConnectInv, NEW q \in Seq(AnyFrame), NEW a \in Nat, queueIndex <= Len(q),
         Len(q) - queueIndex <= a, Carries(buffered, Len(sent), a - (Len(q) - queueIndex)),
         Waits(q, queueIndex, a), PumpFrom(q, queueIndex)
  PROVE  /\ buffered' \in Seq(AnyFrame) /\ queue' \in Seq(AnyFrame) /\ queueIndex' \in Nat
         /\ queueIndex' <= Len(queue') /\ Len(queue') - queueIndex' <= a
         /\ Carries(buffered', Len(sent), a - (Len(queue') - queueIndex'))
         /\ Waits(queue', queueIndex', a)
<1> DEFINE i == queueIndex
           n == Room(q, i)
           m == SubSeq(q, i + 1, i + n)
<1> PICK l \in Nat : l = Len(q)
  OBVIOUS
<1>1. i \in Nat /\ i <= l /\ Len(sent) \in Nat /\ buffered \in Seq(AnyFrame)
  BY Underway DEF ConnectInv, ConnectPlaces
<1>2. n \in 0..l - i
  <2>1. Len(buffered) \in Nat /\ Limit \in Nat
    BY <1>1, BrowserAssumption
  <2> QED BY <1>1, <2>1 DEF Room
<1>3. /\ buffered' = buffered \o m
      /\ queue' = IF i + n = l THEN <<>> ELSE q
      /\ queueIndex' = IF i + n = l THEN 0 ELSE i + n
  BY DEF PumpFrom, Emptied
<1> HIDE DEF n
<1>4. /\ m \in Seq(AnyFrame) /\ Len(m) = n /\ DOMAIN m = 1..n
      /\ \A j \in 1..n : m[j] = q[i + j]
  <2>1. \A j \in i + 1..i + n : q[j] \in AnyFrame
    BY <1>1, <1>2
  <2>2. i + 1 \in Int /\ i + n \in Int
    BY <1>1, <1>2
  <2>3. /\ m \in Seq(AnyFrame)
        /\ Len(m) = IF i + 1 <= i + n THEN (i + n) - (i + 1) + 1 ELSE 0
        /\ \A j \in 1..(i + n) - (i + 1) + 1 : m[j] = q[(i + 1) + j - 1]
    BY <2>1, <2>2, SubSeqProperties
  <2> HIDE DEF m
  <2>4. /\ (i + n) - (i + 1) + 1 = n
        /\ (IF i + 1 <= i + n THEN (i + n) - (i + 1) + 1 ELSE 0) = n
        /\ \A j \in 1..n : (i + 1) + j - 1 = i + j
    BY <1>1, <1>2
  <2>5. Len(m) = n
    BY <2>3, <2>4
  <2>6. \A j \in 1..n : m[j] = q[i + j]
    BY <2>3, <2>4
  <2>7. DOMAIN m = 1..n
    BY <2>3, <2>5
  <2> QED BY <2>3, <2>5, <2>6, <2>7
<1> HIDE DEF m
<1>5. \A j \in 1..n : m[j] = Input((a - (l - i)) + j)
  <2>1. \A j \in 1..n : i + j \in i + 1..l /\ a - (l - (i + j)) = (a - (l - i)) + j
    BY <1>1, <1>2
  <2> QED BY <1>4, <2>1 DEF Waits
<1>6. a - (l - i) \in Nat
  BY <1>1
<1>7. Carries(buffered', Len(sent), (a - (l - i)) + n)
  BY <1>1, <1>3, <1>4, <1>5, <1>6, CarriesMore
<1>8. buffered' \in Seq(AnyFrame)
  BY <1>1, <1>3, <1>4
<1>9. CASE i + n = l
  <2>1. queue' = <<>> /\ queueIndex' = 0 /\ Len(queue') = 0 /\ queue' \in Seq(AnyFrame)
    BY <1>3, <1>9
  <2>2. (a - (l - i)) + n = a - (0 - 0) /\ 0 - 0 <= a
    BY <1>1, <1>2, <1>9
  <2>3. Waits(queue', queueIndex', a)
    BY <2>1 DEF Waits
  <2> QED BY <1>7, <1>8, <2>1, <2>2, <2>3
<1>10. CASE i + n # l
  <2>1. /\ queue' = q /\ queueIndex' = i + n /\ (a - (l - i)) + n = a - (l - (i + n))
        /\ i + n <= l /\ l - (i + n) <= a /\ i + n \in Nat
    BY <1>1, <1>2, <1>3, <1>10
  <2>2. Waits(q, i + n, a)
    BY <1>1, <1>2 DEF Waits
  <2> QED BY <1>7, <1>8, <2>1, <2>2
<1> QED BY <1>9, <1>10

LEMMA PumpFiresInv == ConnectInv /\ PumpFires => ConnectInv'
<1> SUFFICES ASSUME ConnectInv, PumpFires PROVE ConnectInv'
  OBVIOUS
<1>1. UNCHANGED <<accepted, errorMsg, connected, size, tasks, current, failed, socket, sent>>
  BY DEF PumpFires, Callback, shows, serverSide
<1>2. ConnectPlaces /\ LifeInv /\ InputInv
  BY DEF ConnectInv
<1>3. CASE Ready
  <2>1. current /\ ~failed /\ PumpFrom(queue, queueIndex)
    BY <1>2, <1>3 DEF Ready, LifeInv, PumpFires
  <2>2. /\ buffered' \in Seq(AnyFrame) /\ queue' \in Seq(AnyFrame) /\ queueIndex' \in Nat
        /\ queueIndex' <= Len(queue') /\ Len(queue') - queueIndex' <= accepted
        /\ Carries(buffered', Len(sent), accepted - (Len(queue') - queueIndex'))
        /\ Waits(queue', queueIndex', accepted)
    BY <1>2, <2>1, PumpMoves DEF ConnectPlaces, LifeInv, InputInv, Rest
  <2>3. ConnectPlaces' /\ LifeInv'
    BY <1>1, <1>2, <2>2 DEF ConnectPlaces, LifeInv
  <2>4. accepted - (Len(queue') - queueIndex') \in 0..accepted
    BY <1>2, <2>2 DEF ConnectPlaces
  <2>5. InputInv'
    BY <1>1, <1>2, <2>2, <2>4 DEF InputInv, Rest
  <2> QED BY <1>1, <2>3, <2>5 DEF ConnectInv, ToldInv
<1>4. CASE ~Ready
  BY <1>1, <1>4, StillInv DEF PumpFires, ConnectInv, ConnectPlaces, LifeInv
<1> QED BY <1>3, <1>4

LEMMA DataInv ==
  ASSUME ConnectInv, NEW k \in Nat, Data(k)
  PROVE  ConnectInv'
<1> DEFINE new == [j \in 1..k |-> Input(accepted + j)]
           q == queue \o new
<1> PICK l \in Nat : l = Len(queue)
  BY DEF ConnectInv, ConnectPlaces
<1>1. /\ Ready /\ accepted' = accepted + k
      /\ UNCHANGED <<errorMsg, connected, size, tasks, current, failed, socket, sent>>
      /\ \/ queue' = q /\ UNCHANGED <<queueIndex, buffered>>
         \/ PumpFrom(q, queueIndex)
  BY DEF Data, Callback, shows, serverSide
<1>2. ConnectPlaces /\ LifeInv /\ InputInv /\ current /\ ~failed
  BY <1>1 DEF ConnectInv, LifeInv, Ready
<1>3. accepted \in Nat /\ queueIndex \in Nat /\ queueIndex <= l /\ l - queueIndex <= accepted
  BY <1>2 DEF ConnectPlaces, LifeInv
<1>4. new \in Seq(AnyFrame) /\ Len(new) = k
  <2>1. \A j \in 1..k : Input(accepted + j) \in AnyFrame
    BY <1>3, InputFacts
  <2> QED BY <2>1
<1>5. /\ q \in Seq(AnyFrame) /\ Len(q) = l + k
      /\ \A j \in 1..l : q[j] = queue[j]
      /\ \A j \in l + 1..l + k : q[j] = new[j - l]
  BY <1>2, <1>4, ConcatProperties DEF ConnectPlaces
<1> HIDE DEF q
<1>6. Waits(q, queueIndex, accepted + k)
  <2>1. ASSUME NEW j \in queueIndex + 1..l + k
        PROVE  q[j] = Input((accepted + k) - ((l + k) - j))
    <3>1. CASE j <= l
      <4>1. queue[j] = Input(accepted - (l - j))
        BY <1>2, <1>3, <3>1 DEF InputInv, Waits
      <4>2. accepted - (l - j) = (accepted + k) - ((l + k) - j)
        BY <1>3, <3>1
      <4> QED BY <1>3, <1>5, <3>1, <4>1, <4>2
    <3>2. CASE j > l
      <4>1. j - l \in 1..k /\ accepted + (j - l) = (accepted + k) - ((l + k) - j)
            /\ j \in l + 1..l + k
        BY <1>3, <3>2
      <4>2. new[j - l] = Input(accepted + (j - l))
        BY <4>1
      <4> QED BY <1>5, <4>1, <4>2
    <3> QED BY <1>3, <3>1, <3>2
  <2> QED BY <1>5, <2>1 DEF Waits
<1>7. /\ Carries(buffered, Len(sent), (accepted + k) - (Len(q) - queueIndex))
      /\ queueIndex <= Len(q) /\ Len(q) - queueIndex <= accepted + k
  <2>1. (accepted + k) - ((l + k) - queueIndex) = accepted - (l - queueIndex)
    BY <1>3
  <2> QED BY <1>2, <1>3, <1>5, <2>1 DEF InputInv, Rest
<1>8. /\ buffered' \in Seq(AnyFrame) /\ queue' \in Seq(AnyFrame) /\ queueIndex' \in Nat
      /\ queueIndex' <= Len(queue') /\ Len(queue') - queueIndex' <= accepted + k
      /\ Carries(buffered', Len(sent), (accepted + k) - (Len(queue') - queueIndex'))
      /\ Waits(queue', queueIndex', accepted + k)
  <2>1. CASE queue' = q /\ UNCHANGED <<queueIndex, buffered>>
    BY <1>2, <1>3, <1>5, <1>6, <1>7, <2>1 DEF ConnectPlaces
  <2>2. CASE PumpFrom(q, queueIndex)
    BY <1>3, <1>5, <1>6, <1>7, <2>2, PumpMoves
  <2> QED BY <1>1, <2>1, <2>2
<1>9. ConnectPlaces' /\ LifeInv'
  BY <1>1, <1>2, <1>3, <1>8 DEF ConnectPlaces, LifeInv
<1>10. (accepted + k) - (Len(queue') - queueIndex') \in 0..(accepted + k)
  BY <1>3, <1>8
<1>11. InputInv'
  BY <1>1, <1>2, <1>8, <1>10 DEF InputInv, Rest
<1> QED BY <1>1, <1>2, <1>9, <1>11 DEF ConnectInv, ToldInv

-----------------------------------------------------------------------------
(* Theorems about a connection *)

\* Where all accepted input is, at every step of a connection.
THEOREM ConnectCorrect == ConnectSpec => []ConnectInv
<1>1. ASSUME ConnectInv, [ConnectNext]_connectVars
      PROVE  ConnectInv'
  <2>1. CASE ConnectNext
    <3>1. \A k \in 1..MaxFrames : k \in Nat
      BY BrowserAssumption
    <3> QED BY <1>1, <2>1, <3>1, CleanupInv, NetworkInv, TaskInv, PumpFiresInv, ResizeInv, DataInv
            DEF ConnectNext
  <2>2. CASE UNCHANGED connectVars
    BY <1>1, <2>2, StillInv DEF connectVars, shows, input, serverSide, ConnectInv, ConnectPlaces, LifeInv
  <2> QED BY <1>1, <2>1, <2>2
<1> QED BY ConnectInitInv, <1>1, PTL DEF ConnectSpec

\* No accepted input is dropped, repeated or overtaken on its way to the server
\* (useTerminalConnection.ts 92-105).
THEOREM GapCorrect == ConnectSpec => []InputHasNoGap
<1>1. ConnectInv => InputHasNoGap
  BY DEF ConnectInv, InputInv, Waits, InputHasNoGap
<1> QED BY ConnectCorrect, <1>1, PTL

\* A connection that failed with input that was never sent says so
\* (useTerminalConnection.ts 80-90).
THEOREM ToldCorrect == ConnectSpec => []LostInputIsTold
<1>1. ConnectInv => LostInputIsTold
  BY DEF ConnectInv, ToldInv, LostInputIsTold
<1> QED BY ConnectCorrect, <1>1, PTL
=============================================================================
