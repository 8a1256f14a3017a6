--------------------------- MODULE FileManagerProofs ---------------------------
(***************************************************************************)
(* Theorems about FileManager: for any servers, directories, contents and  *)
(* number of operations and of reloads.                                    *)
(***************************************************************************)
EXTENDS FileManager, TLAPS

Here == <<server, path>>
SomeState == [path : Paths, files : SUBSET Row, ready : BOOLEAN, loading : BOOLEAN,
              generation : Nat]
SomeShown == [server : Servers, path : Paths, files : SUBSET Row, ready : BOOLEAN,
              generation : Nat]
SomeDirs == [Servers \X Paths -> SUBSET Names]
SomeTarget == [server : Servers, path : Paths, generation : Nat]
SomeList == [id : Nat, server : Servers, path : Paths, phase : Phases, found : SUBSET Names]
SomeOp == [kind : Kinds, target : SomeTarget, name : Names, phase : Phases,
           left : Nat, success : Nat]

Types ==
  /\ open \in BOOLEAN /\ server \in Servers /\ path \in Paths /\ generation \in Nat
  /\ state \in SomeState /\ shown \in SomeShown
  /\ lists \subseteq SomeList /\ ops \subseteq SomeOp /\ dialog \subseteq SomeTarget
  /\ dirs \in SomeDirs /\ unsure \in BOOLEAN

\* An open window shows where it is, and its request is the last one.
ViewInv ==
  open => /\ live = generation /\ state.path = path /\ state.generation = generation
          /\ shown.server = server
          /\ \A row \in state.files : row.server = server /\ row.path = path

\* What the handlers see of the present generation is what there is.
ShownInv ==
  /\ shown.generation <= generation
  /\ open /\ shown.generation = generation /\ shown.ready =>
       state.ready /\ shown.files = state.files /\ shown.path = path

\* The request of the present generation is for this place, and not answered.
ListsInv ==
  \A r \in lists :
    /\ r.id <= generation
    /\ \A q \in lists : q.id = r.id => q = r
    /\ open /\ r.id = generation => r.server = server /\ r.path = path /\ ~state.ready

\* What was captured in the present generation was captured here, from a
\* listing.
TargetInv(t) ==
  /\ t.generation <= generation
  /\ open /\ t.generation = generation => t.server = server /\ t.path = path /\ state.ready

\* An operation on this place from before the last reload was served by then.
PastInv ==
  open /\ ~unsure =>
    \A o \in ops : Place(o) = Here /\ o.target.generation # generation =>
                     o.phase = "served" /\ o.left = 0

\* A listing that is not true will be read again by an operation that was
\* captured from it.
TrueInv ==
  open /\ ~unsure =>
    /\ state.ready =>
         \/ {row.name : row \in state.files} = dirs[Here]
         \/ \E o \in ops : /\ o.target.generation = generation
                           /\ o.phase = "served" \/ o.success > 0
    /\ \A r \in lists : r.id = generation /\ r.phase = "served" => r.found = dirs[Here]

IInv == /\ Types /\ ViewInv /\ ShownInv /\ ListsInv
        /\ \A o \in ops : TargetInv(o.target)
        /\ \A t \in dialog : TargetInv(t)
        /\ PastInv /\ TrueInv

\* What Types says of the fields of the two records.
LEMMA Fields ==
  ASSUME Types
  PROVE  /\ state.path \in Paths /\ state.files \subseteq Row /\ state.ready \in BOOLEAN
         /\ state.loading \in BOOLEAN /\ state.generation \in Nat
         /\ shown.generation \in Nat /\ shown.server \in Servers
  BY DEF Types, SomeState, SomeShown

LEMMA InitInv == Init => IInv
<1> SUFFICES ASSUME Init PROVE IInv
  OBVIOUS
<1>1. Types
  BY FilesAssumption DEF Init, Types, SomeState, SomeShown, SomeDirs
<1> QED BY <1>1 DEF Init, IInv, ViewInv, ShownInv, ListsInv, PastInv, TrueInv

-----------------------------------------------------------------------------
(* Reloading *)

\* loadFiles up to its await, whoever calls it: a generation nothing knows of.
LEMMA ReloadInv ==
  ASSUME IInv, NEW id \in Nat, id > generation, NEW s \in Servers, NEW p \in Paths,
         Reload(id, s, p, ops'), ops' \subseteq ops, UNCHANGED <<dialog, dirs>>,
         open' = TRUE, server' = s,
         shown' = Rendered' \/ (shown' = shown /\ shown.server = s)
  PROVE  IInv'
<1> DEFINE new == [id |-> id, server |-> s, path |-> p, phase |-> "sent", found |-> {}]
<1>1. /\ generation' = id /\ live' = id /\ path' = p
      /\ state' = [path |-> p, files |-> {}, ready |-> FALSE, loading |-> TRUE, generation |-> id]
      /\ lists' = lists \cup {new} /\ unsure' \in BOOLEAN
  BY DEF Reload
<1>a. \/ shown' = [server |-> s, path |-> p, files |-> {}, ready |-> FALSE, generation |-> id]
      \/ shown' = shown /\ shown.server = s
  BY <1>1 DEF Rendered
<1>2. Types'
  <2>1. new \in SomeList
    BY DEF SomeList, Phases
  <2>2. shown' \in SomeShown
    <3>1. CASE shown' = shown
      BY <3>1 DEF IInv, Types
    <3>2. CASE shown' = [server |-> s, path |-> p, files |-> {}, ready |-> FALSE,
                         generation |-> id]
      <4>1. {} \in SUBSET Row /\ FALSE \in BOOLEAN
        OBVIOUS
      <4> QED BY <3>2, <4>1 DEF SomeShown
    <3> QED BY <1>a, <3>1, <3>2
  <2>3. state' \in SomeState
    BY <1>1 DEF SomeState
  <2> QED BY <1>1, <2>1, <2>2, <2>3 DEF IInv, Types
<1>3. ViewInv'
  BY <1>1, <1>a DEF ViewInv
<1>4. shown.generation < id /\ (\A r \in lists : r.id < id)
      /\ (\A o \in ops : o.target.generation < id) /\ (\A t \in dialog : t.generation < id)
  BY Fields DEF IInv, Types, ShownInv, ListsInv, TargetInv, SomeList, SomeOp, SomeTarget
<1>5. ShownInv'
  <2>1. CASE shown' = shown
    <3>1. shown.generation \in Nat /\ shown.generation < id
      BY <1>4, Fields DEF IInv
    <3> QED BY <1>1, <2>1, <3>1 DEF ShownInv
  <2>2. CASE shown' = [server |-> s, path |-> p, files |-> {}, ready |-> FALSE,
                       generation |-> id]
    <3>1. id <= id
      OBVIOUS
    <3> QED BY <1>1, <2>2, <3>1 DEF ShownInv
  <2> QED BY <1>a, <2>1, <2>2
<1>6. ListsInv'
  <2>1. \A r \in lists : r.id # id /\ r.id <= id
    BY <1>4 DEF IInv, Types, SomeList
  <2>2. new.id = id /\ new.server = s /\ new.path = p /\ id <= id
    OBVIOUS
  <2> QED BY <1>1, <2>1, <2>2 DEF ListsInv, IInv
<1>7. \A o \in ops' : TargetInv(o.target)'
  BY <1>1, <1>4 DEF TargetInv, IInv, Types, SomeOp, SomeTarget
<1>8. \A t \in dialog' : TargetInv(t)'
  BY <1>1, <1>4 DEF TargetInv, IInv, Types, SomeTarget
<1>9. PastInv'
  <2> SUFFICES ASSUME ~unsure', NEW o \in ops', Place(o) = <<s, p>>
               PROVE  o.phase = "served" /\ o.left = 0
    BY <1>1 DEF PastInv, Here, Place
  <2>1. ~(o.phase = "sent" \/ o.left > 0)
    BY DEF Reload, Place
  <2> QED BY <2>1 DEF IInv, Types, SomeOp, Phases
<1>10. TrueInv'
  <2>1. \A r \in lists' : ~(r.id = id /\ r.phase = "served")
    BY <1>1, <1>4 DEF IInv, Types, SomeList
  <2> QED BY <1>1, <2>1 DEF TrueInv
<1> QED BY <1>2, <1>3, <1>5, <1>6, <1>7, <1>8, <1>9, <1>10 DEF IInv

LEMMA ShowInv ==
  ASSUME IInv, NEW s \in Servers, Show(s)
  PROVE  IInv'
<1> DEFINE id == (IF open THEN Cleanup ELSE generation) + 1
<1>1. id \in Nat /\ id > generation
  BY DEF IInv, Types, Cleanup
<1>2. Root \in Paths
  BY FilesAssumption
<1> QED BY <1>1, <1>2, ReloadInv DEF Show

LEMMA NavigateInv ==
  ASSUME IInv, NEW p \in Paths, Navigate(p)
  PROVE  IInv'
<1>1. generation + 1 \in Nat /\ generation + 1 > generation
  BY DEF IInv, Types
<1>2. shown.server = server /\ server \in Servers
  BY DEF Navigate, IInv, ViewInv, Types
<1> QED BY <1>1, <1>2, ReloadInv DEF Navigate, props

LEMMA CloseInv ==
  ASSUME IInv, Close
  PROVE  IInv'
<1>1. /\ open' = FALSE /\ generation' = generation + 1 /\ live' = 0
      /\ server' = server /\ path' = path /\ state' = state /\ shown' = shown /\ lists' = lists
      /\ ops' = ops /\ dialog' = dialog /\ dirs' = dirs /\ unsure' = unsure
  BY DEF Close, Cleanup, NoRequest
<1>2. Types'
  <2>1. Types
    BY DEF IInv
  <2>2. generation \in Nat
    BY <2>1 DEF Types
  <2>3. generation' \in Nat
    BY <1>1, <2>2
  <2> QED BY <1>1, <2>1, <2>3 DEF Types
<1>3. ViewInv' /\ PastInv' /\ TrueInv'
  BY <1>1 DEF ViewInv, PastInv, TrueInv
<1>4. ShownInv' /\ ListsInv'
  <2>1. shown.generation \in Nat /\ shown.generation <= generation /\ generation \in Nat
    BY Fields DEF IInv, Types, ShownInv
  <2>2. \A r \in lists : r.id \in Nat /\ r.id <= generation
    BY DEF IInv, Types, ListsInv, SomeList
  <2>3. \A r, q \in lists : q.id = r.id => q = r
    BY DEF IInv, ListsInv
  <2> QED BY <1>1, <2>1, <2>2, <2>3 DEF ShownInv, ListsInv
<1>5. (\A o \in ops : TargetInv(o.target))' /\ (\A t \in dialog : TargetInv(t))'
  BY <1>1 DEF TargetInv, IInv, Types, SomeOp, SomeTarget
<1> QED BY <1>2, <1>3, <1>4, <1>5 DEF IInv

LEMMA RenderInv ==
  ASSUME IInv, Render
  PROVE  IInv'
<1>1. open /\ shown' = Rendered
      /\ open' = open /\ server' = server /\ path' = path /\ generation' = generation
      /\ live' = live /\ state' = state /\ lists' = lists /\ ops' = ops /\ dialog' = dialog
      /\ dirs' = dirs /\ unsure' = unsure
  BY DEF Render, props, view
<1>2. Types'
  <2>1. server \in Servers /\ state.path \in Paths /\ state.files \in SUBSET Row
        /\ state.ready \in BOOLEAN /\ state.generation \in Nat
    BY Fields DEF IInv, Types
  <2>2. Rendered \in SomeShown
    BY <2>1 DEF Rendered, SomeShown
  <2> QED BY <1>1, <2>2 DEF IInv, Types, props, view
<1>3. ViewInv' /\ ShownInv'
  BY <1>1 DEF IInv, Types, ViewInv, ShownInv, Rendered, props, view
<1>4. ListsInv' /\ PastInv' /\ TrueInv' /\ (\A o \in ops : TargetInv(o.target))'
      /\ (\A t \in dialog : TargetInv(t))'
  BY <1>1 DEF IInv, ListsInv, PastInv, TrueInv, TargetInv, props, view, Here
<1> QED BY <1>2, <1>3, <1>4 DEF IInv

-----------------------------------------------------------------------------
(* The answer to a listing *)

LEMMA AnswerInv ==
  ASSUME IInv, NEW r \in lists, NEW ok \in BOOLEAN, Answer(r, ok)
  PROVE  IInv'
<1>1. /\ lists' = lists \ {r} /\ (ok => r.phase = "served")
      /\ open' = open /\ server' = server /\ path' = path /\ generation' = generation
      /\ live' = live /\ shown' = shown /\ ops' = ops /\ dialog' = dialog /\ dirs' = dirs
      /\ unsure' = unsure
  BY DEF Answer, props
<1>2. r \in SomeList
  BY DEF IInv, Types
<1>3. ASSUME state' \in SomeState
      PROVE  Types'
  <2>1. Types
    BY DEF IInv
  <2>2. lists \subseteq SomeList
    BY <2>1 DEF Types
  <2>3. lists' \subseteq SomeList
    BY <1>1, <2>2
  <2>4. open' = open /\ server' = server
    BY <1>1 DEF props
  <2> QED BY <1>1, <1>3, <2>1, <2>3, <2>4 DEF Types
<1>4. /\ \A q \in lists' : q \in lists /\ (AnswerCounts(r) => q.id # generation)
      /\ \A q \in lists : /\ q.id <= generation
                          /\ open /\ q.id = generation =>
                               q.server = server /\ q.path = path /\ ~state.ready
      /\ \A p, q \in lists' : q.id = p.id => q = p
  <2>1. /\ \A q \in lists : /\ q.id <= generation
                            /\ open /\ q.id = generation =>
                                 q.server = server /\ q.path = path /\ ~state.ready
        /\ \A p, q \in lists : q.id = p.id => q = p
    BY DEF IInv, ListsInv
  <2>2. AnswerCounts(r) => r.id = generation
    BY DEF AnswerCounts
  <2> QED BY <1>1, <2>1, <2>2
<1>5. CASE state' = state
  <2>1. Types'
    BY <1>3, <1>5 DEF IInv, Types
  <2>2. ViewInv' /\ ShownInv' /\ PastInv'
    BY <1>1, <1>5 DEF IInv, ViewInv, ShownInv, PastInv, Here, props
  <2>3. ListsInv' /\ TrueInv'
    <3>1. ListsInv'
      BY <1>1, <1>4, <1>5 DEF ListsInv, props
    <3>2. open' = open /\ Here' = Here /\ generation' = generation /\ ops' = ops
          /\ dirs' = dirs /\ unsure' = unsure
      BY <1>1 DEF Here, props
    <3>3. TrueInv'
      BY <1>1, <1>5, <3>2 DEF IInv, TrueInv
    <3> QED BY <3>1, <3>3
  <2>4. (\A o \in ops : TargetInv(o.target))' /\ (\A t \in dialog : TargetInv(t))'
    BY <1>1, <1>5 DEF IInv, TargetInv, props
  <2> QED BY <2>1, <2>2, <2>3, <2>4 DEF IInv
<1>6. CASE AnswerCounts(r) /\ ~ok
  <2>1. state' = [state EXCEPT !.loading = FALSE]
    BY <1>6 DEF Answer, AfterAnswer
  <2>2. state' \in SomeState
        /\ state'.path = state.path /\ state'.files = state.files
        /\ state'.ready = state.ready /\ state'.generation = state.generation
    BY <2>1 DEF IInv, Types, SomeState
  <2>3. Types'
    BY <1>3, <2>2
  <2>4. ViewInv' /\ ShownInv' /\ PastInv'
    BY <1>1, <2>2 DEF IInv, ViewInv, ShownInv, PastInv, Here, props
  <2>5. ListsInv' /\ TrueInv'
    <3>1. ListsInv'
      BY <1>1, <1>4, <2>2 DEF ListsInv, props
    <3>2. open' = open /\ Here' = Here /\ generation' = generation /\ ops' = ops
          /\ dirs' = dirs /\ unsure' = unsure
      BY <1>1 DEF Here, props
    <3>3. TrueInv'
      BY <1>1, <2>2, <3>2 DEF IInv, TrueInv
    <3> QED BY <3>1, <3>3
  <2>6. (\A o \in ops : TargetInv(o.target))' /\ (\A t \in dialog : TargetInv(t))'
    BY <1>1, <2>2 DEF IInv, TargetInv, props
  <2> QED BY <2>3, <2>4, <2>5, <2>6 DEF IInv
<1>7. CASE AnswerCounts(r) /\ ok
  <2>1. /\ state' = [state EXCEPT !.files = RowsOf(r), !.ready = TRUE, !.loading = FALSE]
        /\ open /\ r.id = generation /\ r.server = server /\ r.path = path
        /\ r.phase = "served" /\ ~state.ready
    BY <1>1, <1>7 DEF Answer, AfterAnswer, AnswerCounts, IInv, ListsInv
  <2>2. RowsOf(r) \subseteq Row
    BY <1>2 DEF RowsOf, Row, SomeList
  <2>3. state' \in SomeState
        /\ state'.path = state.path /\ state'.files = RowsOf(r) /\ state'.ready
        /\ state'.generation = state.generation
    BY <2>1, <2>2 DEF IInv, Types, SomeState
  <2>4. Types'
    BY <1>3, <2>3
  <2>5. ViewInv'
    BY <1>1, <2>1, <2>3 DEF IInv, ViewInv, RowsOf, props
  <2>6. ShownInv'
    BY <1>1, <2>1 DEF IInv, ShownInv, props
  <2>7. \A q \in lists' : q.id # generation
    BY <1>4, <1>7
  <2>8. ListsInv'
    BY <1>1, <1>4, <2>7 DEF ListsInv, props
  <2>9. (\A o \in ops : TargetInv(o.target))' /\ (\A t \in dialog : TargetInv(t))'
    BY <1>1, <2>1, <2>3 DEF IInv, TargetInv, props
  <2>10. PastInv'
    BY <1>1 DEF IInv, PastInv, Here, props
  <2>11. TrueInv'
    <3>1. {row.name : row \in RowsOf(r)} = r.found
      <4>1. \A n \in r.found : [server |-> r.server, path |-> r.path, name |-> n].name = n
        OBVIOUS
      <4>2. {row.name : row \in RowsOf(r)} \subseteq r.found
        BY <4>1 DEF RowsOf
      <4>3. ASSUME NEW n \in r.found
            PROVE  n \in {row.name : row \in RowsOf(r)}
        <5>1. [server |-> r.server, path |-> r.path, name |-> n] \in RowsOf(r)
          BY DEF RowsOf
        <5> QED BY <4>1, <5>1
      <4> QED BY <4>2, <4>3
    <3>2. ~unsure => r.found = dirs[Here]
      BY <2>1 DEF IInv, TrueInv
    <3>3. unsure' = unsure /\ dirs' = dirs /\ Here' = Here
      BY <1>1 DEF Here, props
    <3> QED BY <2>3, <2>7, <1>1, <3>1, <3>2, <3>3 DEF TrueInv, props
  <2> QED BY <2>4, <2>5, <2>6, <2>8, <2>9, <2>10, <2>11 DEF IInv
<1> QED BY <1>5, <1>6, <1>7 DEF Answer

LEMMA ServeListInv ==
  ASSUME IInv, NEW r \in lists, ServeList(r)
  PROVE  IInv'
<1> DEFINE new == [r EXCEPT !.phase = "served", !.found = dirs[<<r.server, r.path>>]]
<1>1. /\ lists' = (lists \ {r}) \cup {new}
      /\ open' = open /\ server' = server /\ path' = path /\ generation' = generation
      /\ live' = live /\ state' = state /\ shown' = shown /\ ops' = ops /\ dialog' = dialog
      /\ dirs' = dirs /\ unsure' = unsure
  BY DEF ServeList, props, view
<1>2. r \in SomeList /\ dirs[<<r.server, r.path>>] \subseteq Names
  BY DEF IInv, Types, SomeList, SomeDirs
<1>3. /\ new \in SomeList /\ new.id = r.id /\ new.server = r.server /\ new.path = r.path
      /\ new.found = dirs[<<r.server, r.path>>]
  BY <1>2 DEF SomeList, Phases
<1>4. Types'
  BY <1>1, <1>3 DEF IInv, Types, props, view
<1>5. ListsInv'
  <2>1. \A q \in lists' : q = new \/ (q \in lists /\ q # r)
    BY <1>1
  <2>2. \A q \in lists' : /\ q.id <= generation
                          /\ open /\ q.id = generation =>
                               q.server = server /\ q.path = path /\ ~state.ready
    BY <1>3, <2>1 DEF IInv, ListsInv
  <2>3. \A p, q \in lists' : q.id = p.id => q = p
    <3>1. \A q \in lists : q # r => q.id # r.id
      BY DEF IInv, ListsInv
    <3>2. \A p, q \in lists : q.id = p.id => q = p
      BY DEF IInv, ListsInv
    <3> QED BY <1>3, <2>1, <3>1, <3>2
  <2> QED BY <1>1, <2>2, <2>3 DEF ListsInv, props, view
<1>6. TrueInv'
  <2> SUFFICES ASSUME open, ~unsure PROVE TrueInv'
    BY <1>1 DEF TrueInv, props
  <2>1. \A q \in lists' : q.id = generation /\ q.phase = "served" => q.found = dirs[Here]
    <3>1. r.id = generation => new.found = dirs[Here]
      BY <1>3 DEF IInv, ListsInv, Here
    <3> QED BY <1>1, <1>3, <3>1 DEF IInv, TrueInv
  <2>2. dirs' = dirs /\ Here' = Here /\ state' = state /\ ops' = ops
        /\ generation' = generation
    BY <1>1 DEF props, view, Here
  <2> QED BY <2>1, <2>2 DEF IInv, TrueInv
<1>7. ViewInv' /\ ShownInv' /\ PastInv' /\ (\A o \in ops : TargetInv(o.target))'
      /\ (\A t \in dialog : TargetInv(t))'
  BY <1>1 DEF IInv, ViewInv, ShownInv, PastInv, TargetInv, Here, props, view
<1> QED BY <1>4, <1>5, <1>6, <1>7 DEF IInv

-----------------------------------------------------------------------------
(* Operations *)

\* A handler that was given the listing adds an operation that was captured
\* from it, or from the dialog's target.
LEMMA StartInv ==
  ASSUME IInv, NEW kind \in Kinds, NEW t \in SomeTarget, NEW n \in Names,
         NEW files \in Nat, Start(kind, t, n, files), IsCurrent(t), TargetInv(t),
         Handler, dialog' \subseteq dialog
  PROVE  IInv'
<1> DEFINE new == [kind |-> kind, target |-> t, name |-> n, phase |-> "sent",
                   left |-> files, success |-> 0]
<1>1. /\ ops' = ops \cup {new}
      /\ open' = open /\ server' = server /\ path' = path /\ generation' = generation
      /\ live' = live /\ state' = state /\ shown' = shown /\ lists' = lists /\ dirs' = dirs
      /\ unsure' = unsure
  BY DEF Start, Handler, props, view
<1>2. new \in SomeOp /\ new.target = t
  BY DEF SomeOp, Phases
<1>3. Types'
  BY <1>1, <1>2 DEF IInv, Types
<1>4. ViewInv' /\ ShownInv' /\ ListsInv'
  BY <1>1 DEF IInv, ViewInv, ShownInv, ListsInv
<1>5. (\A o \in ops : TargetInv(o.target))' /\ (\A u \in dialog : TargetInv(u))'
  BY <1>1, <1>2 DEF IInv, TargetInv
<1>6. PastInv'
  <2>1. new.target.generation = generation
    BY <1>2 DEF IsCurrent
  <2> QED BY <1>1, <2>1 DEF IInv, PastInv, Here
<1>7. TrueInv'
  BY <1>1 DEF IInv, TrueInv, Here
<1> QED BY <1>3, <1>4, <1>5, <1>6, <1>7 DEF IInv

\* What the handlers capture is of the present generation, and was listed.
LEMMA CapturedInv ==
  ASSUME IInv, shown.ready, IsCurrent(Captured)
  PROVE  Captured \in SomeTarget /\ TargetInv(Captured)
<1>1. open /\ Captured.generation = generation /\ Captured.server = server
      /\ Captured.path = path /\ shown.generation = generation
  BY DEF IsCurrent, Captured
<1>2. state.ready /\ generation \in Nat
  BY <1>1 DEF IInv, Types, ShownInv
<1>3. Captured \in SomeTarget
  <2>1. shown.server \in Servers /\ shown.path \in Paths /\ shown.generation \in Nat
    BY DEF IInv, Types, SomeShown
  <2> QED BY <2>1 DEF Captured, SomeTarget
<1> QED BY <1>1, <1>2, <1>3 DEF TargetInv

LEMMA ActsInv ==
  ASSUME IInv, Acts
  PROVE  IInv'
<1>1. ASSUME NEW n \in Names, NEW k \in 1..MaxFiles, Upload(n, k)
      PROVE  IInv'
  <2>1. k - 1 \in Nat /\ "upload" \in Kinds
    BY FilesAssumption DEF Kinds
  <2> QED BY <1>1, <2>1, CapturedInv, StartInv DEF Upload
<1>2. ASSUME NEW row \in shown.files, Delete(row)
      PROVE  IInv'
  <2>1. row.name \in Names /\ "delete" \in Kinds
    BY DEF IInv, Types, SomeShown, Row, Kinds
  <2> QED BY <1>2, <2>1, CapturedInv, StartInv DEF Delete
<1>3. CASE AskMkdir
  <2>1. /\ dialog' = {Captured} /\ ops' = ops
        /\ open' = open /\ server' = server /\ path' = path /\ generation' = generation
        /\ live' = live /\ state' = state /\ shown' = shown /\ lists' = lists /\ dirs' = dirs
        /\ unsure' = unsure
    BY <1>3 DEF AskMkdir, Handler, props, view
  <2>2. Captured \in SomeTarget /\ TargetInv(Captured)
    BY <1>3, CapturedInv DEF AskMkdir
  <2>3. Types'
    BY <2>1, <2>2 DEF IInv, Types
  <2>4. ViewInv' /\ ShownInv' /\ ListsInv' /\ PastInv' /\ TrueInv'
    BY <2>1 DEF IInv, ViewInv, ShownInv, ListsInv, PastInv, TrueInv, Here
  <2>5. (\A o \in ops : TargetInv(o.target))' /\ (\A u \in dialog : TargetInv(u))'
    BY <2>1, <2>2 DEF IInv, TargetInv
  <2> QED BY <2>3, <2>4, <2>5 DEF IInv
<1>4. CASE Mkdir
  <2> PICK t \in dialog : /\ dialog' = {} /\ Handler
                          /\ \/ ops' = ops
                             \/ IsCurrent(t) /\ \E n \in Names : Start("mkdir", t, n, 0)
    BY <1>4 DEF Mkdir
  <2>1. t \in SomeTarget /\ TargetInv(t)
    BY DEF IInv, Types
  <2>2. CASE ops' = ops
    <3>1. /\ open' = open /\ server' = server /\ path' = path /\ generation' = generation
          /\ live' = live /\ state' = state /\ shown' = shown /\ lists' = lists
          /\ dirs' = dirs /\ unsure' = unsure
      BY DEF Handler, props, view
    <3>2. Types'
      BY <2>2, <3>1 DEF IInv, Types
    <3>3. ViewInv' /\ ShownInv' /\ ListsInv' /\ PastInv' /\ TrueInv'
      BY <2>2, <3>1 DEF IInv, ViewInv, ShownInv, ListsInv, PastInv, TrueInv, Here
    <3>4. (\A o \in ops : TargetInv(o.target))' /\ (\A u \in dialog : TargetInv(u))'
      BY <2>2, <3>1 DEF IInv, TargetInv
    <3> QED BY <3>2, <3>3, <3>4 DEF IInv
  <2>3. ASSUME IsCurrent(t), NEW n \in Names, Start("mkdir", t, n, 0)
        PROVE  IInv'
    <3>1. 0 \in Nat /\ "mkdir" \in Kinds /\ dialog' \subseteq dialog
      BY DEF Kinds
    <3> QED BY <2>1, <2>3, <3>1, StartInv
  <2> QED BY <2>2, <2>3
<1> QED BY <1>1, <1>2, <1>3, <1>4 DEF Acts

\* A server does what an operation asks: an operation on this place is of the
\* present generation, so it will have the listing read again.
LEMMA ServeInv ==
  ASSUME IInv, NEW o \in ops, Serve(o)
  PROVE  IInv'
<1> DEFINE new == [o EXCEPT !.phase = "served"]
<1>1. /\ ops' = (ops \ {o}) \cup {new} /\ o.phase = "sent"
      /\ open' = open /\ server' = server /\ path' = path /\ generation' = generation
      /\ live' = live /\ state' = state /\ shown' = shown /\ lists' = lists
      /\ dialog' = dialog /\ unsure' = unsure
  BY DEF Serve, props, view
<1>2. o \in SomeOp
  BY DEF IInv, Types
<1>3. new \in SomeOp /\ new.target = o.target /\ new.phase = "served" /\ new.left = o.left
  BY <1>2 DEF SomeOp, Phases
<1>4. dirs' \in SomeDirs /\ \A q \in Servers \X Paths : q # Place(o) => dirs'[q] = dirs[q]
  <2>1. Place(o) \in Servers \X Paths /\ o.name \in Names
    BY <1>2 DEF SomeOp, SomeTarget, Place
  <2>2. dirs' = [dirs EXCEPT ![Place(o)] =
                   IF o.kind = "delete" THEN dirs[Place(o)] \ {o.name}
                   ELSE dirs[Place(o)] \cup {o.name}]
    BY DEF Serve
  <2> QED BY <2>1, <2>2 DEF IInv, Types, SomeDirs
<1>5. Types'
  BY <1>1, <1>3, <1>4 DEF IInv, Types
<1>6. ViewInv' /\ ShownInv' /\ ListsInv'
  BY <1>1 DEF IInv, ViewInv, ShownInv, ListsInv
<1>7. (\A q \in ops : TargetInv(q.target))' /\ (\A u \in dialog : TargetInv(u))'
  BY <1>1, <1>3 DEF IInv, TargetInv
<1>8. open /\ ~unsure /\ Place(o) = Here => o.target.generation = generation
  BY <1>1 DEF IInv, PastInv
<1>9. PastInv'
  BY <1>1, <1>3, <1>8 DEF IInv, PastInv, Place, Here
<1>10. TrueInv'
  <2> SUFFICES ASSUME open, ~unsure PROVE TrueInv'
    BY <1>1 DEF TrueInv
  <2>1. new \in ops' /\ Here' = Here /\ Here \in Servers \X Paths
    BY <1>1 DEF Here, IInv, Types
  <2>2. CASE Place(o) = Here
    <3>1. o.target.generation = generation /\ state.ready
      BY <1>8, <2>2 DEF IInv, TargetInv
    <3>2. \A r \in lists : r.id # generation
      BY <3>1 DEF IInv, ListsInv
    <3> QED BY <1>1, <1>3, <2>1, <3>1, <3>2 DEF TrueInv
  <2>3. CASE Place(o) # Here
    <3>1. dirs'[Here] = dirs[Here]
      BY <1>4, <2>1, <2>3
    <3>2. ASSUME NEW q \in ops, q.target.generation = generation,
                 q.phase = "served" \/ q.success > 0
          PROVE  \E p \in ops' : /\ p.target.generation = generation
                                 /\ p.phase = "served" \/ p.success > 0
      <4>1. CASE q = o
        BY <1>3, <2>1, <3>2, <4>1
      <4>2. CASE q # o
        BY <1>1, <3>2, <4>2
      <4> QED BY <4>1, <4>2
    <3> QED BY <1>1, <2>1, <3>1, <3>2 DEF IInv, TrueInv
  <2> QED BY <2>2, <2>3
<1> QED BY <1>5, <1>6, <1>7, <1>9, <1>10 DEF IInv

\* The browser gets an answer and stays where it is: a listing that has become
\* untrue is read again by another operation, or nothing will tell.
LEMMA StayInv ==
  ASSUME IInv, NEW o \in ops, NEW ok \in BOOLEAN, ok => o.phase = "served",
         NEW more, ops' = (ops \ {o}) \cup more,
         UNCHANGED <<props, view, shown, lists, dialog, dirs>>,
         unsure' = (unsure \/ (~ok /\ o.phase = "served" /\ Place(o) = Here)),
         \/ more = {} /\ ~(IsCurrent(o.target) /\ (ok \/ o.success > 0))
         \/ \E n \in SomeOp : /\ more = {n} /\ n.target = o.target /\ o.left > 0
                              /\ ok \/ o.success > 0 => n.success > 0
  PROVE  IInv'
<1>1. /\ open' = open /\ server' = server /\ path' = path /\ generation' = generation
      /\ live' = live /\ state' = state /\ shown' = shown /\ lists' = lists
      /\ dialog' = dialog /\ dirs' = dirs
  BY DEF props, view
<1>2. more \subseteq SomeOp /\ \A n \in more : n.target = o.target /\ o.left > 0
  OBVIOUS
<1>3. o \in SomeOp /\ TargetInv(o.target)
  BY DEF IInv, Types
<1>4. Types'
  <2>1. ops' \subseteq SomeOp /\ unsure' \in BOOLEAN
    BY <1>2 DEF IInv, Types
  <2> QED BY <1>1, <2>1 DEF IInv, Types
<1>5. ViewInv' /\ ShownInv' /\ ListsInv'
  BY <1>1 DEF IInv, ViewInv, ShownInv, ListsInv
<1>6. (\A q \in ops : TargetInv(q.target))' /\ (\A u \in dialog : TargetInv(u))'
  BY <1>1, <1>2 DEF IInv, TargetInv
<1>7. PastInv'
  <2> SUFFICES ASSUME open, ~unsure, NEW q \in ops', Place(q) = Here,
                      q.target.generation # generation
               PROVE  q.phase = "served" /\ q.left = 0
    BY <1>1 DEF PastInv, Here
  <2>1. CASE q \in ops
    BY <2>1 DEF IInv, PastInv
  <2>2. CASE q \in more
    <3>1. q.target = o.target /\ o.left > 0
      BY <1>2, <2>2
    <3>2. o.left = 0
      BY <3>1 DEF IInv, PastInv, Place
    <3> QED BY <1>3, <3>1, <3>2 DEF SomeOp
  <2> QED BY <2>1, <2>2
<1>8. TrueInv'
  <2> SUFFICES ASSUME open, ~unsure, ~(~ok /\ o.phase = "served" /\ Place(o) = Here)
               PROVE  TrueInv'
    BY <1>1 DEF TrueInv
  <2>1. ASSUME NEW q \in ops, q.target.generation = generation, state.ready,
               q.phase = "served" \/ q.success > 0
        PROVE  \E p \in ops' : /\ p.target.generation = generation
                               /\ p.phase = "served" \/ p.success > 0
    <3>1. CASE q # o
      BY <2>1, <3>1
    <3>2. CASE q = o
      <4>1. Place(o) = Here /\ IsCurrent(o.target)
        BY <1>3, <2>1, <3>2 DEF TargetInv, Place, Here, IsCurrent
      <4>2. ok \/ o.success > 0
        BY <2>1, <3>2, <4>1
      <4>3. PICK n \in SomeOp : more = {n} /\ n.target = o.target /\ n.success > 0
        BY <4>1, <4>2
      <4> QED BY <2>1, <3>2, <4>3
    <3> QED BY <3>1, <3>2
  <2> QED BY <1>1, <2>1 DEF IInv, TrueInv, Here
<1> QED BY <1>4, <1>5, <1>6, <1>7, <1>8 DEF IInv

LEMMA ReplyInv ==
  ASSUME IInv, NEW o \in ops, NEW ok \in BOOLEAN, Reply(o, ok)
  PROVE  IInv'
<1> DEFINE won == o.success + (IF ok THEN 1 ELSE 0)
           new == [o EXCEPT !.phase = "sent", !.left = o.left - 1, !.success = won]
           missed == ~ok /\ o.phase = "served" /\ Place(o) = <<server, path>>
<1>1. /\ ok => o.phase = "served"
      /\ UNCHANGED <<props, shown, dialog, dirs>>
      /\ \/ /\ o.left > 0 /\ ops' = (ops \ {o}) \cup {new}
            /\ UNCHANGED <<view, lists>> /\ unsure' = (unsure \/ missed)
         \/ /\ o.left = 0 /\ ops' = ops \ {o}
            /\ IF won > 0 /\ IsCurrent(o.target)
               THEN Reload(generation + 1, o.target.server, o.target.path, ops \ {o})
               ELSE UNCHANGED <<view, lists>> /\ unsure' = (unsure \/ missed)
  BY DEF Reply, Refreshes
<1>2. o \in SomeOp /\ o.left \in Nat /\ o.success \in Nat /\ won \in Nat
  BY DEF IInv, Types, SomeOp
<1>3. won > 0 <=> ok \/ o.success > 0
  BY <1>2
<1>4. CASE o.left > 0 /\ ops' = (ops \ {o}) \cup {new}
           /\ UNCHANGED <<view, lists>> /\ unsure' = (unsure \/ missed)
  <2>1. new \in SomeOp /\ new.target = o.target /\ new.success = won
    <3>1. o.left - 1 \in Nat
      BY <1>2, <1>4
    <3> QED BY <1>2, <3>1 DEF SomeOp, Phases
  <2>2. UNCHANGED <<props, view, shown, lists, dialog, dirs>>
    BY <1>1, <1>4
  <2> QED BY <1>1, <1>3, <1>4, <2>1, <2>2, StayInv DEF Here
<1>5. CASE o.left = 0 /\ ops' = ops \ {o} /\ ~(won > 0 /\ IsCurrent(o.target))
           /\ UNCHANGED <<view, lists>> /\ unsure' = (unsure \/ missed)
  <2>1. UNCHANGED <<props, view, shown, lists, dialog, dirs>>
    BY <1>1, <1>5
  <2>2. ops' = (ops \ {o}) \cup {}
    BY <1>5
  <2> QED BY <1>1, <1>3, <1>5, <2>1, <2>2, StayInv DEF Here
<1>6. CASE ops' = ops \ {o} /\ IsCurrent(o.target)
           /\ Reload(generation + 1, o.target.server, o.target.path, ops \ {o})
  <2>1. generation + 1 \in Nat /\ generation + 1 > generation
    BY DEF IInv, Types
  <2>2. o.target.server \in Servers /\ o.target.path \in Paths
    BY <1>2 DEF SomeOp, SomeTarget
  <2>3. open' = TRUE /\ server' = o.target.server /\ shown' = shown
        /\ shown.server = o.target.server /\ ops' \subseteq ops
        /\ Reload(generation + 1, o.target.server, o.target.path, ops')
        /\ UNCHANGED <<dialog, dirs>>
    BY <1>1, <1>6 DEF IsCurrent, props, IInv, ViewInv
  <2> QED BY <2>1, <2>2, <2>3, ReloadInv
<1> QED BY <1>1, <1>4, <1>5, <1>6

-----------------------------------------------------------------------------
LEMMA StutterInv ==
  ASSUME IInv, UNCHANGED vars
  PROVE  IInv'
<1>1. /\ open' = open /\ server' = server /\ path' = path /\ generation' = generation
      /\ live' = live /\ state' = state /\ shown' = shown /\ lists' = lists
      /\ ops' = ops /\ dialog' = dialog /\ dirs' = dirs /\ unsure' = unsure
  BY DEF vars, props, view
<1>2. Types'
  BY <1>1 DEF IInv, Types
<1>3. ViewInv' /\ ShownInv' /\ ListsInv' /\ PastInv' /\ TrueInv'
  BY <1>1 DEF IInv, ViewInv, ShownInv, ListsInv, PastInv, TrueInv, Here
<1>4. (\A o \in ops : TargetInv(o.target))' /\ (\A t \in dialog : TargetInv(t))'
  BY <1>1 DEF IInv, TargetInv
<1> QED BY <1>2, <1>3, <1>4 DEF IInv

\* The inductive invariant: what is on the screen, what the handlers of the last
\* rendering see and what is on its way agree on the generation they belong to.
THEOREM InvCorrect == Spec => []IInv
<1>1. IInv /\ [Next]_vars => IInv'
  BY ShowInv, CloseInv, NavigateInv, RenderInv, ActsInv, ServeListInv, AnswerInv, ServeInv,
     ReplyInv, StutterInv DEF Next
<1> QED BY InitInv, <1>1, PTL DEF Spec

\* In whatever order requests are answered, every row is one of the directory
\* and the server the user went to last (useDirectory.ts 29).
THEOREM RowsCorrect == Spec => []RowsAreOfView
<1>1. IInv => RowsAreOfView
  BY DEF IInv, ViewInv, RowsAreOfView
<1> QED BY InvCorrect, <1>1, PTL

\* When nothing is on its way, the listing is the directory as it is, unless
\* the user reloaded during an operation or the answer to one was lost
\* (FileManager.tsx 92, 120 and 153).
THEOREM ListingCorrect == Spec => []ListingIsTrue
<1>1. IInv => ListingIsTrue
  BY DEF IInv, TrueInv, ListingIsTrue, Here
<1> QED BY InvCorrect, <1>1, PTL

\* An operation starts only on the directory the user sees listed, and deletes
\* only what is in that list (FileManager.tsx 75, 116 and 149).
THEOREM ActsCorrect == Spec => ActsOnWhatIsListed
<1> DEFINE Fine(o) == /\ open /\ state.ready
                      /\ o.target.server = server /\ o.target.path = path
                      /\ o.kind = "delete" => \E row \in state.files : row.name = o.name
           Good == \A o \in ops' : (\A q \in ops : q.kind # o.kind) => Fine(o)
<1>1. ASSUME IInv, shown.ready, IsCurrent(Captured)
      PROVE  /\ open /\ state.ready /\ shown.files = state.files
             /\ Captured.server = server /\ Captured.path = path
  BY <1>1 DEF IInv, ShownInv, IsCurrent, Captured
<1>2. ASSUME IInv, Next PROVE Good
  <2>1. ASSUME NEW n \in Names, NEW k \in 1..MaxFiles, Upload(n, k)
        PROVE  Good
    BY <1>1, <1>2, <2>1 DEF Upload, Start, Captured
  <2>2. ASSUME NEW row \in shown.files, Delete(row)
        PROVE  Good
    BY <1>1, <1>2, <2>2 DEF Delete, Start, Captured
  <2>3. CASE Mkdir
    <3>1. PICK t \in dialog : \/ ops' = ops
                              \/ IsCurrent(t) /\ \E n \in Names : Start("mkdir", t, n, 0)
      BY <2>3 DEF Mkdir
    <3>2. IsCurrent(t) => open /\ state.ready /\ t.server = server /\ t.path = path
      BY <1>2 DEF IInv, TargetInv, IsCurrent
    <3> QED BY <3>1, <3>2 DEF Start
  <2>4. ASSUME NEW o \in ops, NEW ok \in BOOLEAN, Serve(o) \/ Reply(o, ok)
        PROVE  Good
    <3>1. \A q \in ops' : \E p \in ops : p.kind = q.kind
      <4>1. CASE Serve(o)
        <5>1. ops' \subseteq ops \cup {[o EXCEPT !.phase = "served"]}
          BY <4>1 DEF Serve
        <5>2. [o EXCEPT !.phase = "served"].kind = o.kind
          BY <1>2 DEF IInv, Types, SomeOp
        <5> QED BY <5>1, <5>2
      <4>2. CASE Reply(o, ok)
        <5> DEFINE new == [o EXCEPT !.phase = "sent", !.left = o.left - 1,
                                    !.success = o.success + (IF ok THEN 1 ELSE 0)]
        <5>1. ops' \subseteq ops \cup {new}
          BY <4>2 DEF Reply
        <5>2. new.kind = o.kind
          BY <1>2 DEF IInv, Types, SomeOp
        <5> QED BY <5>1, <5>2
      <4> QED BY <2>4, <4>1, <4>2
    <3> QED BY <3>1
  <2>5. CASE ops' = ops
    BY <2>5
  <2> QED BY <1>2, <2>1, <2>2, <2>3, <2>4, <2>5
          DEF Next, Show, Close, Navigate, Render, Acts, AskMkdir, ServeList, Answer
<1>3. UNCHANGED vars => Good
  BY DEF vars
<1>4. IInv /\ [Next]_vars => [Good]_vars
  BY <1>2, <1>3
<1> QED BY <1>4, InvCorrect, PTL DEF Spec, ActsOnWhatIsListed
=============================================================================
