----------------------------- MODULE FileManager -----------------------------
(***************************************************************************)
(* The browser's file manager: hooks/useDirectory.ts, which loads and shows*)
(* one directory of one server, and the handlers of                        *)
(* components/FileManager.tsx, which act on what is shown.  Requests to    *)
(* list a directory and operations on it are answered in any order, and a  *)
(* handler sees the state of the last rendering, not the latest one.       *)
(*                                                                         *)
(* An event of the user is rendered before the next one, with its effects; *)
(* a state change after an await is rendered later, by Render.             *)
(***************************************************************************)
EXTENDS Naturals

CONSTANTS Servers, Paths, Names,
          Root,         \* the directory "/"
          Contents,     \* what the directories may hold at first
          MaxGen,       \* bound on generation
          MaxFiles      \* bound on the files of one upload

ASSUME FilesAssumption == /\ Root \in Paths /\ Servers # {}
                          /\ MaxGen \in Nat /\ MaxFiles \in Nat
                          /\ Contents \subseteq [Servers \X Paths -> SUBSET Names]

VARIABLES open, server, \* the props; visible.current.open and .serverId
          path,         \* visible.current.path
          generation,   \* generation.current
          live,         \* the id of the request that is not aborted, or 0
          state,        \* what the set... functions have been called with
          shown,        \* what the handlers of the last rendering see
          lists,        \* listFiles requests on their way
          ops,          \* uploads, deletions and mkdirs on their way
          dialog,       \* the targets of an open "new folder" dialog
          dirs,         \* the directories of the servers
          unsure        \* history: the listing may miss an operation, see Reload

props == <<open, server>>
view == <<path, generation, live, state>>
vars == <<props, view, shown, lists, ops, dialog, dirs, unsure>>

Kinds == {"upload", "delete", "mkdir"}
Phases == {"sent", "served"}
Row == [server : Servers, path : Paths, name : Names]
Closure == [server : Servers, path : Paths, files : SUBSET Row, ready : BOOLEAN,
            generation : 0..MaxGen]
Target == [server : Servers, path : Paths, generation : 0..MaxGen]
Request == [id : 1..MaxGen, server : Servers, path : Paths, phase : Phases,
            found : SUBSET Names]
Operation == [kind : Kinds, target : Target, name : Names, phase : Phases,
              left : 0..MaxFiles, success : 0..MaxFiles]

TypeOK == /\ open \in BOOLEAN /\ server \in Servers /\ path \in Paths
          /\ generation \in 0..MaxGen /\ live \in {0, generation}
          /\ open => live = generation
          /\ state \in [path : Paths, files : SUBSET Row, ready : BOOLEAN,
                        loading : BOOLEAN, generation : 0..MaxGen]
          /\ shown \in Closure
          /\ lists \subseteq Request /\ ops \subseteq Operation
          /\ dialog \subseteq Target
          /\ \A k \in Kinds : \A o, q \in ops : o.kind = k /\ q.kind = k => o = q
          /\ dirs \in [Servers \X Paths -> SUBSET Names] /\ unsure \in BOOLEAN

Init == /\ open = FALSE /\ server \in Servers /\ path = Root
        /\ generation = 0 /\ live = 0
        /\ state = [path |-> Root, files |-> {}, ready |-> FALSE, loading |-> FALSE,
                    generation |-> 0]
        /\ shown = [server |-> server, path |-> Root, files |-> {}, ready |-> FALSE,
                    generation |-> 0]
        /\ lists = {} /\ ops = {} /\ dialog = {}
        /\ dirs \in Contents
        /\ unsure = FALSE

-----------------------------------------------------------------------------
(* The hook. *)
Rendered == [server |-> server, path |-> state.path, files |-> state.files,
             ready |-> state.ready, generation |-> state.generation]

Reload(id, s, p, flying) ==      \* loadFiles(p), up to its await
  /\ id <= MaxGen
  /\ generation' = id /\ live' = id /\ path' = p
  /\ state' = [path |-> p, files |-> {}, ready |-> FALSE, loading |-> TRUE,
               generation |-> id]
  /\ lists' = lists \cup {[id |-> id, server |-> s, path |-> p, phase |-> "sent",
                           found |-> {}]}
  /\ unsure' = \E o \in flying : /\ o.phase = "sent" \/ o.left > 0
                                 /\ <<o.target.server, o.target.path>> = <<s, p>>

NoRequest == 0
Cleanup == generation + 1        \* of the effect: no answer is current any more

(* The window opens on a server, or its server changes: the effect of the old
   one, if it has not gone with the window, is cleaned up, and the root is
   loaded. *)
Show(s) == /\ ~open \/ s # server
           /\ open' = TRUE /\ server' = s
           /\ Reload((IF open THEN Cleanup ELSE generation) + 1, s, Root, ops)
           /\ shown' = Rendered'
           /\ UNCHANGED <<ops, dialog, dirs>>

Close == /\ open /\ generation < MaxGen
         /\ open' = FALSE
         /\ generation' = Cleanup /\ live' = NoRequest
         /\ UNCHANGED <<server, path, state, shown, lists, ops, dialog, dirs, unsure>>

(* The address line, the breadcrumbs, "refresh" and "root" go anywhere; a row
   only where it is current, so it adds nothing. *)
Navigate(p) == /\ open
               /\ Reload(generation + 1, shown.server, p, ops)
               /\ UNCHANGED <<props, ops, dialog, dirs>>
               /\ shown' = Rendered'

Render == /\ open /\ shown # Rendered
          /\ shown' = Rendered
          /\ UNCHANGED <<props, view, lists, ops, dialog, dirs, unsure>>

AnyAnswerCounts(r) == open /\ server = r.server        \* fault: an old answer counts
AnswerCounts(r) == live = r.id /\ generation = r.id /\ open /\ server = r.server

RowsOf(r) == {[server |-> r.server, path |-> r.path, name |-> n] : n \in r.found}

AfterAnswer(r, ok) ==
  IF ok THEN [state EXCEPT !.files = RowsOf(r), !.ready = TRUE, !.loading = FALSE]
  ELSE [state EXCEPT !.loading = FALSE]

Answer(r, ok) ==
  /\ ok => r.phase = "served"
  /\ lists' = lists \ {r}
  /\ state' = IF AnswerCounts(r) THEN AfterAnswer(r, ok) ELSE state
  /\ UNCHANGED <<props, path, generation, live, shown, ops, dialog, dirs, unsure>>

(* capture() of the last rendering, and its isCurrent. *)
Captured == [server |-> shown.server, path |-> shown.path,
             generation |-> shown.generation]
SamePlace(t) == open /\ server = t.server /\ path = t.path     \* fault: no generation
IsCurrent(t) == generation = t.generation /\ open /\ server = t.server
                /\ path = t.path

-----------------------------------------------------------------------------
(* The handlers of the window. *)
Idle(kind) == \A o \in ops : o.kind # kind
Start(kind, t, n, files) ==
  /\ Idle(kind)
  /\ ops' = ops \cup {[kind |-> kind, target |-> t, name |-> n, phase |-> "sent",
                       left |-> files, success |-> 0]}

Handler == UNCHANGED <<props, view, shown, lists, dirs, unsure>>

Upload(n, files) == /\ shown.ready /\ IsCurrent(Captured) /\ files > 0
                    /\ Start("upload", Captured, n, files - 1)
                    /\ UNCHANGED dialog /\ Handler

Delete(row) == /\ shown.ready /\ row \in shown.files /\ IsCurrent(Captured)
               /\ Start("delete", Captured, row.name, 0)
               /\ UNCHANGED dialog /\ Handler

AskMkdir == /\ dialog = {} /\ shown.ready /\ IsCurrent(Captured)
            /\ dialog' = {Captured}
            /\ UNCHANGED ops /\ Handler

(* The dialog is cancelled, or given a name. *)
Mkdir == \E t \in dialog :
           /\ dialog' = {}
           /\ \/ UNCHANGED ops
              \/ IsCurrent(t) /\ \E n \in Names : Start("mkdir", t, n, 0)
           /\ Handler

NeverRefreshes(t) == FALSE         \* fault: no refresh after an operation
Refreshes(t) == IsCurrent(t)

Place(o) == <<o.target.server, o.target.path>>

(* The answer to an operation arrives; an upload goes on with its next file.
   An operation that was served may still fail for the browser. *)
Reply(o, ok) ==
  LET won == o.success + (IF ok THEN 1 ELSE 0)
      rest == ops \ {o}
      missed == ~ok /\ o.phase = "served" /\ Place(o) = <<server, path>>
      Stay == UNCHANGED <<view, lists>> /\ unsure' = (unsure \/ missed)
  IN /\ ok => o.phase = "served"
     /\ \/ /\ o.left > 0
           /\ ops' = rest \cup {[o EXCEPT !.phase = "sent", !.left = @ - 1,
                                          !.success = won]}
           /\ Stay
        \/ /\ o.left = 0
           /\ ops' = rest
           /\ IF won > 0 /\ Refreshes(o.target)
              THEN Reload(generation + 1, o.target.server, o.target.path, rest)
              ELSE Stay
     /\ UNCHANGED <<props, shown, dialog, dirs>>

-----------------------------------------------------------------------------
(* The servers, which serve requests in any order. *)
ServeList(r) ==
  /\ r.phase = "sent"
  /\ lists' = (lists \ {r}) \cup
                {[r EXCEPT !.phase = "served", !.found = dirs[<<r.server, r.path>>]]}
  /\ UNCHANGED <<props, view, shown, ops, dialog, dirs, unsure>>

\* What is gone cannot be deleted; an upload may replace what is there, and
\* MkdirAll accepts a directory that is.
Possible(o) == o.kind = "delete" => o.name \in dirs[Place(o)]
Serve(o) ==
  /\ o.phase = "sent" /\ Possible(o)
  /\ dirs' = [dirs EXCEPT ![Place(o)] =
                IF o.kind = "delete" THEN @ \ {o.name} ELSE @ \cup {o.name}]
  /\ ops' = (ops \ {o}) \cup {[o EXCEPT !.phase = "served"]}
  /\ UNCHANGED <<props, view, shown, lists, dialog, unsure>>

Acts == \/ \E n \in Names, k \in 1..MaxFiles : Upload(n, k)
        \/ \E row \in shown.files : Delete(row)
        \/ AskMkdir
        \/ Mkdir

Next == \/ \E s \in Servers : Show(s)
        \/ Close
        \/ \E p \in Paths : Navigate(p)
        \/ Render
        \/ Acts
        \/ \E r \in lists : ServeList(r) \/ \E ok \in BOOLEAN : Answer(r, ok)
        \/ \E o \in ops : Serve(o) \/ \E ok \in BOOLEAN : Reply(o, ok)

Spec == Init /\ [][Next]_vars

-----------------------------------------------------------------------------
(* Every row on the screen's state is one of the directory and the server the
   user went to last, in whatever order requests are answered (useDirectory.ts
   29, "ignores out-of-order responses and finally blocks"). *)
RowsAreOfView == open => \A row \in state.files : /\ row.server = server
                                                  /\ row.path = path

(* An operation starts only on the directory the user sees listed at that
   moment; a row is deleted only if it is in that list (FileManager.tsx 75, 116
   and 149, after a navigation, a refresh or a change of server). *)
ActsOnWhatIsListed ==
  [][\A o \in ops' : (\A q \in ops : q.kind # o.kind) =>
        /\ open /\ state.ready
        /\ o.target.server = server /\ o.target.path = path
        /\ o.kind = "delete" => \E row \in state.files : row.name = o.name]_vars

(* When nothing is on its way, the listing is the directory as it is, with the
   user's own changes, unless the answer to an operation was lost, or the listing
   was read again, by the user or after another operation, while one was on its
   way whose own answer brings no newer one (FileManager.tsx 92, 120 and 153). *)
ListingIsTrue == open /\ state.ready /\ ops = {} /\ ~unsure =>
                   {row.name : row \in state.files} = dirs[<<server, path>>]
=============================================================================
