----------------------------- MODULE ServerPanel -----------------------------
(***************************************************************************)
(* The server list of the browser, components/ServerSidebar.tsx, and the   *)
(* form it opens, components/ServerFormModal.tsx, with the handlers of the *)
(* server they send to.  A handler answers in one step here: ServerStore   *)
(* has what happens between its steps.  Requests are served and answered   *)
(* in any order.  Nobody but this panel writes the table.                  *)
(*                                                                         *)
(* What a handler of the panel sets is rendered before the user's next     *)
(* event.  The mask of an open form keeps the user from the list.  The     *)
(* layout is taken not to switch between the drawer and the side bar, which*)
(* would mount the list anew and drop the form (pages/MainPage.tsx 97).    *)
(***************************************************************************)
EXTENDS Naturals, Sequences, FiniteSets

CONSTANTS Keys,        \* the private keys one can type or import
          Passwords,
          Tables,      \* what the table of servers may hold at first
          MaxId,       \* bound on the ids the table gives
          Bounds       \* bounds taken together, see bound

VARIABLES bound,    \* how many forms are opened, how many requests are on their
                    \* way at once, and which fields the user works on
          table,    \* the rows of the database: ids are never given twice
          list,     \* servers: the rows the sidebar shows
          loading,  \* of the sidebar, until the first answer
          modal,    \* the open form: its number and what it edits, or Closed
          form,     \* the state of that form
          readers,  \* the key files it is reading
          forms,    \* the forms opened so far
          requests, \* on their way
          newest,   \* history: the listing served last, until its answer comes
          unsure    \* history: the list comes from an older listing than that, or
                    \* an answer was lost

panel == <<list, loading, modal, form, readers, forms>>
history == <<newest, unsure>>
vars == <<bound, table, panel, requests, history>>

None == "none"
Old == "old"      \* a credential stored before
NoId == 0
Ids == 1..MaxId
Row == [protocol : {"ssh", "rdp"}, auth : {"key", "password"}, key : Keys \cup {None, Old},
        password : Passwords \cup {None, Old}, jump : Ids \cup {NoId}]
Gone == [protocol |-> None]
Rows(t) == {i \in DOMAIN t : t[i] # Gone}
IsTable(t) == /\ t \in Seq(Row \cup {Gone}) /\ Len(t) <= MaxId
              /\ \A i \in Rows(t) : t[i].jump # i     \* see JumpsAreSound of ServerStore

ASSUME PanelAssumption == /\ (Keys \cup Passwords) \cap {None, Old} = {}
                          /\ MaxId \in Nat
                          /\ \A b \in Bounds : b.forms \in Nat /\ b.requests \in Nat \ {0}
                          /\ \A t \in Tables : IsTable(t)

Closed == [number |-> 0, editing |-> NoId]
NewForm == [protocol |-> "ssh", auth |-> "key", source |-> "new", reuse |-> NoId,
            text |-> None,       \* privateKeyValue, which the text area shows
            key |-> None,        \* private_key, which is sent
            password |-> None, jump |-> NoId, options |-> {}, loading |-> FALSE]

TypeOK == /\ IsTable(table) /\ IsTable(list)
          /\ modal \in [number : 0..forms, editing : Ids \cup {NoId}] /\ forms \in 0..bound.forms
          /\ DOMAIN form = DOMAIN NewForm /\ form.reuse \in form.options \cup {NoId}
          /\ readers \subseteq Keys
          /\ \A r \in requests : r.id \in 1..bound.requests /\ \A q \in requests : q.id = r.id => q = r
          /\ loading \in BOOLEAN /\ unsure \in BOOLEAN /\ newest \in Nat

IsOpen == modal # Closed

\* A request gets a free number; there is room for it: a bound.
HasRoom == Cardinality(requests) < bound.requests
With(rest, r) ==
  rest \cup {[r EXCEPT !.id = CHOOSE i \in 1..bound.requests : \A q \in rest : q.id # i]}
List == [id |-> 0, kind |-> "list", phase |-> "sent"]
Options(n) == [id |-> 0, kind |-> "options", number |-> n, phase |-> "sent"]
Deletion(i) == [id |-> 0, kind |-> "delete", target |-> i, phase |-> "sent"]

Init == /\ bound \in Bounds
        /\ table \in Tables /\ list = <<>> /\ loading = TRUE
        /\ modal = Closed /\ form = NewForm /\ readers = {} /\ forms = 0
        /\ requests = With({}, List) /\ newest = NoId /\ unsure = FALSE

-----------------------------------------------------------------------------
(* The sidebar *)

\* The effect of the form fills it for the server it edits, without its
\* credentials.
Filled(editing) ==
  IF editing = NoId THEN NewForm
  ELSE [NewForm EXCEPT !.protocol = list[editing].protocol, !.auth = list[editing].auth,
                       !.jump = list[editing].jump]

\* The form is mounted: for a server of the list, or for none.
Open(editing) ==
  /\ ~loading /\ ~IsOpen /\ forms < bound.forms /\ HasRoom
  /\ forms' = forms + 1 /\ modal' = [number |-> forms + 1, editing |-> editing]
  /\ form' = Filled(editing)
  /\ requests' = With(requests, Options(forms + 1))
  /\ UNCHANGED <<table, list, loading, readers, history>>

\* handleDelete, confirmed.
Delete(i) ==
  /\ ~loading /\ ~IsOpen /\ HasRoom
  /\ requests' = With(requests, Deletion(i))
  /\ UNCHANGED <<table, panel, history>>

\* The form is unmounted, and what its files are read into with it.
Unmount == modal' = Closed /\ form' = NewForm /\ readers' = {}

Cancel == /\ IsOpen /\ Unmount
          /\ UNCHANGED <<table, list, loading, forms, requests, history>>

-----------------------------------------------------------------------------
(* The form *)

IsSsh(f) == f.protocol = "ssh"
ByPassword(f) == IsSsh(f) /\ f.auth = "password"
ByKey(f) == IsSsh(f) /\ f.auth = "key"
StaysReused(f) == f.reuse # NoId     \* fault: a server chosen before still counts
Reuses(f) == f.source = "reuse" /\ f.reuse # NoId

Fill(field, values) == field \in bound.fields /\ form' \in {[form EXCEPT ![field] = v] : v \in values}
SetKey(k) == "key" \in bound.fields /\ form' = [form EXCEPT !.text = k, !.key = k]

\* One of the controls that the form shows is used.
Edit == /\ IsOpen
        /\ \/ Fill("protocol", {"ssh", "rdp"})
           \/ IsSsh(form) /\ (Fill("auth", {"key", "password"}) \/ Fill("jump", form.options \cup {NoId}))
           \/ ByPassword(form) /\ Fill("password", Passwords \cup {None})
           \/ ByKey(form) /\ Fill("source", {"new", "reuse"})
           \/ ByKey(form) /\ form.source = "reuse" /\ Fill("reuse", form.options)
           \/ ByKey(form) /\ form.source = "new" /\ \E k \in Keys \cup {None} : SetKey(k)
        /\ form' # form
        /\ UNCHANGED <<table, list, loading, modal, readers, forms, requests, history>>

\* handleFileSelect, and its onload at some later time, whatever the form
\* shows by then.
PickFile(k) ==
  /\ IsOpen /\ "file" \in bound.fields /\ ByKey(form) /\ form.source = "new"
  /\ readers' = readers \cup {k}
  /\ UNCHANGED <<table, list, loading, modal, form, forms, requests, history>>
FileRead(k) ==
  /\ k \in readers /\ readers' = readers \ {k}
  /\ \/ form' = [form EXCEPT !.text = k, !.key = k, !.source = "new"]
     \/ UNCHANGED form
  /\ UNCHANGED <<table, list, loading, modal, forms, requests, history>>

\* What handleSubmit sends: of the credentials only what the choices ask for,
\* of a remote desktop none, and no jump host.
Blank == [protocol |-> "ssh", auth |-> "password", key |-> None, password |-> None,
          copy |-> NoId, jump |-> NoId]
\* fault: the jump host chosen before goes with the desktop
KeepsJump(f) == [Blank EXCEPT !.protocol = "rdp", !.jump = f.jump]
RdpBody(f) == [Blank EXCEPT !.protocol = "rdp"]
Body(f) ==
  CASE ~IsSsh(f) -> RdpBody(f)
    [] ByPassword(f) -> [Blank EXCEPT !.password = f.password, !.jump = f.jump]
    [] ByKey(f) /\ Reuses(f) -> [Blank EXCEPT !.auth = "key", !.copy = f.reuse, !.jump = f.jump]
    [] OTHER -> [Blank EXCEPT !.auth = "key", !.key = f.key, !.jump = f.jump]

\* History: what the form shows of the connection.
Seen(f) ==
  CASE ~IsSsh(f) -> [NewForm EXCEPT !.protocol = "rdp"]
    [] ByPassword(f) -> [NewForm EXCEPT !.auth = "password", !.password = f.password, !.jump = f.jump]
    [] ByKey(f) /\ f.source = "new" -> [NewForm EXCEPT !.text = f.text, !.jump = f.jump]
    [] OTHER -> [NewForm EXCEPT !.source = "reuse", !.reuse = f.reuse, !.jump = f.jump]

Save == [id |-> 0, kind |-> "save", number |-> modal.number, target |-> modal.editing,
         body |-> Body(form), seen |-> Seen(form), phase |-> "sent"]

\* A new server needs a credential; an edited one keeps what it has.
IsComplete(f) ==
  \/ ~IsSsh(f) \/ modal.editing # NoId
  \/ ByPassword(f) /\ f.password # None
  \/ ByKey(f) /\ (Reuses(f) \/ f.key # None)

Submit ==
  /\ IsOpen /\ ~form.loading /\ IsComplete(form) /\ HasRoom
  /\ requests' = With(requests, Save)
  /\ form' = [form EXCEPT !.loading = TRUE]
  /\ UNCHANGED <<table, list, loading, modal, readers, forms, history>>

-----------------------------------------------------------------------------
(* The server *)

Stored(i) == IF i = NoId THEN [key |-> None, password |-> None] ELSE table[i]

\* resolveCredentials
KeyOf(b, i) ==
  IF b.protocol = "rdp" THEN None
  ELSE IF b.auth = "password" THEN Stored(i).key
  ELSE IF b.key # None THEN b.key
  ELSE IF b.copy # NoId THEN table[b.copy].key
  ELSE Stored(i).key
PasswordOf(b, i) ==
  CASE b.protocol = "rdp" -> None
    [] b.auth = "password" /\ b.password # None -> b.password
    [] OTHER -> Stored(i).password

\* The verdict of validate and saveServer on body b for row i: the first
\* check that fails, or that it is accepted.
Verdict(b, i) ==
  IF b.protocol = "rdp" /\ b # [Blank EXCEPT !.protocol = "rdp"] THEN "invalid"
  ELSE IF i # NoId /\ i \notin Rows(table) THEN "gone"
  ELSE IF b.jump # NoId /\ b.jump = i THEN "invalid"
  ELSE IF b.jump # NoId /\ (b.jump \notin Rows(table) \/ table[b.jump].protocol = "rdp") THEN "no jump"
  ELSE IF /\ b.protocol = "ssh" /\ b.auth = "key" /\ b.key = None /\ b.copy # NoId
          /\ b.copy \notin Rows(table) \/ table[b.copy].key = None
  THEN "no source"
  ELSE IF b.protocol = "ssh" /\ (IF b.auth = "key" THEN KeyOf(b, i) ELSE PasswordOf(b, i)) = None
  THEN "no credential"
  ELSE "accepted"

Serve(r) ==
  /\ r.phase = "sent"
  /\ LET done(phase) == requests' = (requests \ {r}) \cup {[r EXCEPT !.phase = phase]}
         b == r.body
         row == [protocol |-> b.protocol, auth |-> b.auth, jump |-> b.jump,
                 key |-> KeyOf(b, r.target), password |-> PasswordOf(b, r.target)]
     IN CASE r.kind \in {"list", "options"} ->
               /\ requests' = (requests \ {r}) \cup
                    {[k \in DOMAIN r \cup {"rows"} |->
                        IF k = "rows" THEN table ELSE IF k = "phase" THEN "accepted" ELSE r[k]]}
               /\ UNCHANGED table
          [] r.kind = "delete" ->
               /\ done("accepted") /\ table' = [table EXCEPT ![r.target] = Gone]
          [] r.kind = "save" ->
               /\ done(Verdict(b, r.target))
               /\ IF Verdict(b, r.target) # "accepted" THEN UNCHANGED table
                  ELSE IF r.target # NoId THEN table' = [table EXCEPT ![r.target] = row]
                  ELSE Len(table) < MaxId /\ table' = Append(table, row)
  /\ newest' = IF r.kind = "list" THEN r.id ELSE newest
  /\ UNCHANGED <<panel, unsure>>

-----------------------------------------------------------------------------
(* The answers *)

\* History: a listing that would have been the newest, or the answer to a change
\* that was made, is lost; none of the listings served so far is as new.
Missed(r) ==
  LET lost == \/ r.kind = "list" /\ (r.phase = "sent" \/ r.id = newest)
              \/ r.kind # "list" /\ r.phase = "accepted"
  IN IF lost THEN newest' = NoId /\ unsure' = TRUE ELSE UNCHANGED history

\* A request that was accepted may fail for the browser all the same; one that
\* was refused, or that never arrives, does.
TakeList(r, ok) ==
  /\ requests' = requests \ {r} /\ loading' = FALSE
  /\ list' = IF ok THEN r.rows ELSE list
  /\ IF ok THEN /\ newest' = IF newest = r.id THEN NoId ELSE newest
                /\ unsure' = (newest = NoId)
           ELSE Missed(r)
  /\ UNCHANGED <<modal, form, readers, forms>>

\* The list of the effect: only for the form that asked for it.
Reusable(t) == {i \in Rows(t) : IsSsh(t[i]) /\ i # modal.editing}
TakeOptions(r, ok) ==
  /\ requests' = requests \ {r}
  /\ form' = IF ok /\ r.number = modal.number THEN [form EXCEPT !.options = Reusable(r.rows)] ELSE form
  /\ UNCHANGED <<list, loading, modal, readers, forms, history>>

\* A change that fails shows a message, and the form that sent it may send again.
ClosesAnyway(r) ==                   \* fault: the form is closed in a finally
  /\ requests' = requests \ {r} /\ Unmount
  /\ Missed(r)
  /\ UNCHANGED <<list, loading, forms>>
Failed(r) ==
  /\ requests' = requests \ {r}
  /\ form' = IF r.kind = "save" /\ r.number = modal.number THEN [form EXCEPT !.loading = FALSE] ELSE form
  /\ Missed(r)
  /\ UNCHANGED <<list, loading, modal, readers, forms>>

\* fetchServers after a change.
NotFetched(rest) == rest             \* fault: the list is not read again
Refetch(rest) == With(rest, List)

\* handleModalOk closes the form that is open by then.
Changed(r) ==
  /\ requests' = Refetch(requests \ {r})
  /\ IF r.kind = "save" THEN Unmount ELSE UNCHANGED <<modal, form, readers>>
  /\ UNCHANGED <<list, loading, forms, history>>

Answer(r, ok) ==
  /\ ok => r.phase = "accepted"
  /\ UNCHANGED table
  /\ CASE r.kind = "list" -> TakeList(r, ok)
       [] r.kind = "options" -> TakeOptions(r, ok)
       [] OTHER -> IF ok THEN Changed(r) ELSE Failed(r)

User == \/ Open(NoId) \/ \E i \in Rows(list) : Open(i) \/ Delete(i)
        \/ Cancel \/ Edit \/ Submit
        \/ \E k \in Keys : PickFile(k) \/ FileRead(k)
Next == /\ User \/ \E r \in requests : Serve(r) \/ \E ok \in BOOLEAN : Answer(r, ok)
        /\ UNCHANGED bound
Spec == Init /\ [][Next]_vars

-----------------------------------------------------------------------------
(* Properties *)

\* The form never sends what the server calls invalid, whatever was filled in
\* before a control was hidden, and never a new server without a credential
\* (ServerFormModal.test.tsx 44, "switches to RDP without sending saved SSH
\* credentials or settings"): a save is refused only for what the table holds.
RefusedForTheTable ==
  \A r \in requests : r.kind = "save" =>
    /\ r.phase # "invalid"
    /\ r.phase = "no credential" => r.target # NoId

\* A save writes what the form showed when it was submitted: the pasted or
\* imported key that is in view, the key of the chosen server, or for a blank
\* field of an edit what was stored.  Only "reuse" with no server chosen says
\* nothing of the key.
Accepts(r) == r.phase = "sent" /\ [r EXCEPT !.phase = "accepted"] \in requests'
Target(r) == IF r.target = NoId THEN Len(table') ELSE r.target
SavedAsShown ==
  [][\A r \in requests : r.kind = "save" /\ Accepts(r) =>
       LET f == r.seen
           row == table'[Target(r)]
           old == Stored(r.target)
       IN /\ row.protocol = f.protocol
          /\ IsSsh(f) => row.auth = f.auth /\ row.jump = f.jump
          /\ ~IsSsh(f) => row.key = None /\ row.password = None /\ row.jump = NoId
          /\ ByPassword(f) => row.password = IF f.password = None THEN old.password ELSE f.password
          /\ ByKey(f) /\ f.source = "new" => row.key = IF f.text = None THEN old.key ELSE f.text
          /\ ByKey(f) /\ Reuses(f) => row.key = table[f.reuse].key]_vars

\* When nothing is on its way the sidebar shows the servers there are: every
\* change that succeeds is followed by a listing.  Two exceptions, which the code
\* does nothing about: an answer was lost, of a change or of the last listing
\* (ServerSidebar.tsx 29, "Retain the last successfully loaded list"); or the
\* answer of an older listing came after that of a newer one (fetchServers).
ListIsTrue ==
  (\A r \in requests : r.kind = "options") /\ ~unsure => list = table

\* A form goes, with what was filled in, only because it was cancelled or a
\* save succeeded, never on a failure or for another request.  The save may be
\* one whose own form was cancelled while it was on its way: handleModalOk
\* closes the form that is open by then.
FormLeavesForCause ==
  [][IsOpen /\ modal' # modal =>
       \/ requests' = requests
       \/ \E r \in requests \ requests' :
            /\ r.kind = "save" /\ r.phase = "accepted"
            /\ r.number <= modal.number]_vars
=============================================================================
