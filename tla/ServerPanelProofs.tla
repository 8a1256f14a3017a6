--------------------------- MODULE ServerPanelProofs ---------------------------
(***************************************************************************)
(* Theorems about ServerPanel: for any keys, passwords and tables, and for *)
(* any number of servers, of forms and of requests on their way.           *)
(***************************************************************************)
EXTENDS ServerPanel, SequenceTheorems, FiniteSetTheorems, TLAPS

\* What the form relies on in a table: no row jumps through itself.
Fine(t) == \A i \in Rows(t) : /\ t[i].protocol \in {"ssh", "rdp"}
                              /\ t[i].auth \in {"key", "password"}
                              /\ t[i].jump # i

\* What the server asks of a body for row i that is not about its table.
Fits(b, i) ==
  /\ b.protocol = "ssh" \/ b = [Blank EXCEPT !.protocol = "rdp"]
  /\ b.auth \in {"key", "password"}
  /\ b.jump # NoId => b.jump # i
  /\ i = NoId => \/ b.protocol = "rdp"
                 \/ b.auth = "password" /\ b.password # None
                 \/ b.auth = "key" /\ (b.key # None \/ b.copy # NoId)

\* A save, sent by one of the first n forms.
SaveFits(r, n) ==
  /\ {"number", "target", "body"} \subseteq DOMAIN r
  /\ r.number \in Nat /\ r.number <= n
  /\ Fits(r.body, r.target)
  /\ r.phase # "invalid"
  /\ r.phase = "no credential" => r.target # NoId

Good(r, n) ==
  /\ {"id", "kind", "phase"} \subseteq DOMAIN r
  /\ r.kind \in {"list", "options", "delete", "save"}
  /\ r.kind \in {"list", "options"} /\ r.phase = "accepted" =>
       "rows" \in DOMAIN r /\ Fine(r.rows)
  /\ r.kind = "save" => SaveFits(r, n)

TableInv == (\E S : table \in Seq(S)) /\ Fine(table) /\ Fine(list)
FormInv ==
  /\ DOMAIN form = DOMAIN NewForm
  /\ form.protocol \in {"ssh", "rdp"} /\ form.auth \in {"key", "password"}
  /\ IsOpen => /\ modal.number = forms
               /\ modal.editing \notin form.options
               /\ form.jump # NoId => form.jump # modal.editing
RequestsInv == \A r \in requests : Good(r, forms)

IInv == forms \in Nat /\ TableInv /\ FormInv /\ RequestsInv

LEMMA SeqGrows ==
  ASSUME NEW S, NEW T, S \subseteq T, NEW s \in Seq(S)
  PROVE  s \in Seq(T)
OBVIOUS

LEMMA SeqUpdate ==
  ASSUME NEW S, NEW s \in Seq(S), NEW i, NEW v \in S
  PROVE  [s EXCEPT ![i] = v] \in Seq(S)
<1>1. CASE i \in 1..Len(s)
  BY <1>1, ExceptSeq
<1>2. CASE i \notin 1..Len(s)
  <2>1. [s EXCEPT ![i] = v] = s
    BY <1>2
  <2> QED BY <2>1
<1> QED BY <1>1, <1>2

\* A request that is good is good under any number, and among the others.
LEMMA WithGood ==
  ASSUME NEW rest, NEW q, NEW n, \A r \in rest : Good(r, n), Good(q, n)
  PROVE  \A r \in With(rest, q) : Good(r, n)
<1> DEFINE c == CHOOSE i \in 1..bound.requests : \A p \in rest : p.id # i
           new == [q EXCEPT !.id = c]
<1>1. With(rest, q) = rest \cup {new}
  BY DEF With
<1>2. DOMAIN new = DOMAIN q /\ \A x \in DOMAIN q : x # "id" => new[x] = q[x]
  OBVIOUS
<1>3. Good(new, n)
  BY <1>2 DEF Good, SaveFits
<1> QED BY <1>1, <1>3

LEMMA InitInv == Init => IInv
<1> SUFFICES ASSUME Init PROVE IInv
  OBVIOUS
<1>1. TableInv
  <2>1. IsTable(table) /\ list = <<>>
    BY PanelAssumption DEF Init
  <2>2. \A i \in Rows(table) : table[i] \in Row /\ table[i].jump # i
    BY <2>1 DEF IsTable, Rows
  <2>3. Fine(table) /\ Fine(list)
    BY <2>1, <2>2 DEF Fine, Rows, Row
  <2> QED BY <2>1, <2>3 DEF TableInv, IsTable
<1>2. FormInv
  BY DEF Init, FormInv, NewForm, IsOpen
<1>3. RequestsInv
  <2>1. Good(List, forms)
    BY DEF Good, List
  <2> QED BY <2>1, WithGood DEF Init, RequestsInv
<1> QED BY <1>1, <1>2, <1>3 DEF Init, IInv

-----------------------------------------------------------------------------
(* The user *)

\* A step of the user that sends at most one good request.
LEMMA SendInv ==
  ASSUME IInv, NEW q, requests' = requests \/ (Good(q, forms') /\ requests' = With(requests, q)),
         forms' \in Nat, forms <= forms', FormInv',
         table' = table, list' = list
  PROVE  IInv'
<1>1. ASSUME NEW r \in requests
      PROVE  Good(r, forms')
  <2>1. Good(r, forms)
    BY DEF IInv, RequestsInv
  <2>2. \A k \in Nat : k <= forms => k <= forms'
    BY DEF IInv
  <2> QED BY <2>1, <2>2 DEF Good, SaveFits
<1>2. RequestsInv'
  BY <1>1, WithGood DEF RequestsInv
<1>3. TableInv'
  BY DEF IInv, TableInv
<1> QED BY <1>2, <1>3 DEF IInv

LEMMA OpenInv ==
  ASSUME IInv, NEW i, i = NoId \/ i \in Rows(list), Open(i)
  PROVE  IInv'
<1>1. /\ forms' = forms + 1 /\ modal' = [number |-> forms + 1, editing |-> i]
      /\ form' = Filled(i) /\ requests' = With(requests, Options(forms + 1))
      /\ table' = table /\ list' = list
  BY DEF Open
<1>2. forms' \in Nat /\ forms <= forms'
  BY <1>1 DEF IInv
<1>3. FormInv'
  <2>1. i # NoId => list[i].jump # i /\ list[i].auth \in {"key", "password"}
        /\ list[i].protocol \in {"ssh", "rdp"}
    BY DEF IInv, TableInv, Fine
  <2> QED BY <1>1, <2>1 DEF FormInv, Filled, NewForm, IsOpen
<1>4. Good(Options(forms + 1), forms')
  BY DEF Good, Options
<1> QED BY <1>1, <1>2, <1>3, <1>4, SendInv

LEMMA DeleteInv ==
  ASSUME IInv, NEW i, Delete(i)
  PROVE  IInv'
<1>1. /\ requests' = With(requests, Deletion(i))
      /\ table' = table /\ list' = list
      /\ modal' = modal /\ form' = form /\ forms' = forms
  BY DEF Delete, panel
<1>2. FormInv' /\ forms' \in Nat /\ forms <= forms'
  BY <1>1 DEF IInv, FormInv, IsOpen
<1>3. Good(Deletion(i), forms')
  BY DEF Good, Deletion
<1> QED BY <1>1, <1>2, <1>3, SendInv

LEMMA CancelInv ==
  ASSUME IInv, Cancel
  PROVE  IInv'
<1>1. /\ requests' = requests /\ form' = NewForm /\ modal' = Closed /\ forms' = forms
      /\ table' = table /\ list' = list
  BY DEF Cancel, Unmount
<1>2. FormInv' /\ forms' \in Nat /\ forms <= forms'
  BY <1>1 DEF IInv, FormInv, IsOpen, NewForm
<1> QED BY <1>1, <1>2, SendInv

\* The controls of the form: a jump host is one of the options, which leave out
\* the server that is edited.
LEMMA FieldsInv ==
  ASSUME IInv, Edit \/ \E k \in Keys : PickFile(k) \/ FileRead(k)
  PROVE  IInv'
<1>1. /\ requests' = requests /\ modal' = modal /\ forms' = forms
      /\ table' = table /\ list' = list
  BY DEF Edit, PickFile, FileRead
<1>2. forms' \in Nat /\ forms <= forms'
  BY <1>1 DEF IInv
<1>3. FormInv
  BY DEF IInv
<1>4. CASE form' = form
  BY <1>1, <1>2, <1>3, <1>4, SendInv DEF FormInv, IsOpen
<1>5. ASSUME NEW k, NEW source,
             form' = [form EXCEPT !.text = k, !.key = k, !.source = source]
      PROVE  IInv'
  <2>1. FormInv'
    BY <1>1, <1>3, <1>5 DEF FormInv, IsOpen, NewForm
  <2> QED BY <1>1, <1>2, <2>1, SendInv
<1>6. ASSUME NEW field \in {"protocol", "auth", "source", "reuse", "password", "jump"},
             NEW v, form' = [form EXCEPT ![field] = v],
             field = "protocol" => v \in {"ssh", "rdp"},
             field = "auth" => v \in {"key", "password"},
             field = "jump" => v \in form.options \cup {NoId}
      PROVE  IInv'
  <2>1. FormInv'
    BY <1>1, <1>3, <1>6 DEF FormInv, IsOpen, NewForm
  <2> QED BY <1>1, <1>2, <2>1, SendInv
<1>7. ASSUME NEW k, SetKey(k)
      PROVE  IInv'
  <2>1. form' = [form EXCEPT !.text = k, !.key = k, !.source = form.source]
    BY <1>3, <1>7 DEF SetKey, FormInv, NewForm
  <2> QED BY <1>5, <2>1
<1>8. CASE Edit
  <2>1. \/ \E k : SetKey(k)
        \/ \E v : \E field \in {"protocol", "auth", "source", "reuse", "password", "jump"} :
             /\ form' = [form EXCEPT ![field] = v]
             /\ field = "protocol" => v \in {"ssh", "rdp"}
             /\ field = "auth" => v \in {"key", "password"}
             /\ field = "jump" => v \in form.options \cup {NoId}
    BY <1>8 DEF Edit, Fill
  <2> QED BY <1>6, <1>7, <2>1
<1>9. CASE \E k \in Keys : PickFile(k) \/ FileRead(k)
  BY <1>4, <1>5, <1>9 DEF PickFile, FileRead
<1> QED BY <1>8, <1>9

LEMMA SubmitInv ==
  ASSUME IInv, Submit
  PROVE  IInv'
<1>1. /\ IsOpen /\ IsComplete(form) /\ requests' = With(requests, Save)
      /\ form' = [form EXCEPT !.loading = TRUE] /\ modal' = modal /\ forms' = forms
      /\ table' = table /\ list' = list
  BY DEF Submit
<1>2. FormInv' /\ forms' \in Nat /\ forms <= forms'
  BY <1>1 DEF IInv, FormInv, IsOpen, NewForm
<1>3. FormInv /\ modal.number = forms /\ forms \in Nat
  BY <1>1 DEF IInv, FormInv
<1>4. Fits(Body(form), modal.editing)
  BY <1>1, <1>3 DEF Fits, Body, RdpBody, Blank, IsComplete, IsSsh, ByPassword, ByKey, Reuses,
                    FormInv
<1>5. Good(Save, forms')
  BY <1>1, <1>3, <1>4 DEF Good, SaveFits, Save
<1> QED BY <1>1, <1>2, <1>5, SendInv

-----------------------------------------------------------------------------
(* The server *)

\* What the server accepts, or refuses, of a save that the form could send.
LEMMA VerdictFits ==
  ASSUME NEW b, NEW i, Fits(b, i)
  PROVE  /\ Verdict(b, i) # "invalid"
         /\ Verdict(b, i) = "no credential" => i # NoId
         /\ Verdict(b, i) = "accepted" =>
              /\ i # NoId => i \in Rows(table)
              /\ b.jump # NoId => b.jump \in Rows(table)
<1>1. Verdict(b, i) # "invalid"
  BY DEF Verdict, Fits
<1>2. Verdict(b, i) = "accepted" =>
        /\ i # NoId => i \in Rows(table)
        /\ b.jump # NoId => b.jump \in Rows(table)
  <2>1. b.protocol = "rdp" => b.jump = NoId
    BY DEF Fits, Blank
  <2> QED BY <2>1 DEF Verdict
<1>3. ASSUME i = NoId
      PROVE  Verdict(b, i) # "no credential"
  <2> SUFFICES ASSUME Verdict(b, i) = "no credential" PROVE FALSE
    OBVIOUS
  <2>1. /\ b.protocol = "ssh"
        /\ (IF b.auth = "key" THEN KeyOf(b, i) ELSE PasswordOf(b, i)) = None
        /\ ~(b.auth = "key" /\ b.key = None /\ b.copy # NoId /\ table[b.copy].key = None)
    BY DEF Verdict
  <2>2. CASE b.auth = "key"
    <3>1. b.key # None \/ b.copy # NoId
      BY <1>3, <2>1, <2>2 DEF Fits
    <3>2. KeyOf(b, i) = IF b.key # None THEN b.key
                        ELSE IF b.copy # NoId THEN table[b.copy].key ELSE Stored(i).key
      BY <2>1, <2>2 DEF KeyOf
    <3> QED BY <2>1, <2>2, <3>1, <3>2
  <2>3. CASE b.auth = "password" /\ b.password # None
    BY <2>1, <2>3 DEF PasswordOf
  <2> QED BY <1>3, <2>1, <2>2, <2>3 DEF Fits
<1> QED BY <1>1, <1>2, <1>3

LEMMA ServeInv ==
  ASSUME IInv, NEW r \in requests, Serve(r), UNCHANGED bound
  PROVE  IInv'
<1> DEFINE b == r.body
           row == [protocol |-> b.protocol, auth |-> b.auth, jump |-> b.jump,
                   key |-> KeyOf(b, r.target), password |-> PasswordOf(b, r.target)]
           listed == [k \in DOMAIN r \cup {"rows"} |->
                        IF k = "rows" THEN table ELSE IF k = "phase" THEN "accepted" ELSE r[k]]
           verdict == IF r.kind = "save" THEN Verdict(b, r.target) ELSE "accepted"
           new == IF r.kind \in {"list", "options"} THEN listed ELSE [r EXCEPT !.phase = verdict]
<1>1. list' = list /\ modal' = modal /\ form' = form /\ forms' = forms
  BY DEF Serve, panel
<1>2. r.phase = "sent" /\ Good(r, forms) /\ TableInv
  BY DEF Serve, IInv, RequestsInv
<1>3. r.kind = "save" => SaveFits(r, forms) /\ Fits(b, r.target)
  BY <1>2 DEF Good, SaveFits
<1>4. /\ requests' = (requests \ {r}) \cup {new}
      /\ \/ table' = table /\ ~(r.kind \in {"delete", "save"} /\ verdict = "accepted")
         \/ r.kind = "delete" /\ table' = [table EXCEPT ![r.target] = Gone]
         \/ r.kind = "save" /\ verdict = "accepted" /\ r.target # NoId
              /\ table' = [table EXCEPT ![r.target] = row]
         \/ r.kind = "save" /\ verdict = "accepted" /\ r.target = NoId
              /\ table' = Append(table, row)
  BY <1>2 DEF Serve, Good
<1>5. /\ new.kind = r.kind /\ new.phase = verdict /\ DOMAIN r \subseteq DOMAIN new
      /\ \A x \in DOMAIN r : x \notin {"phase", "rows"} => new[x] = r[x]
      /\ r.kind \in {"list", "options"} => "rows" \in DOMAIN new /\ new.rows = table
  BY <1>2 DEF Good
<1>6. Good(new, forms)
  <2>1. r.kind = "save" => /\ verdict # "invalid"
                           /\ verdict = "no credential" => r.target # NoId
    BY <1>3, VerdictFits
  <2> QED BY <1>2, <1>3, <1>5, <2>1 DEF Good, SaveFits, TableInv
<1>7. RequestsInv'
  BY <1>1, <1>4, <1>6 DEF IInv, RequestsInv
<1>8. FormInv' /\ forms' \in Nat
  BY <1>1 DEF IInv, FormInv, IsOpen
<1>9. TableInv'
  <2> PICK S : table \in Seq(S)
    BY <1>2 DEF TableInv
  <2>1. Fine(list)'
    BY <1>1, <1>2 DEF TableInv, Fine, Rows
  <2>2. CASE table' = table
    BY <1>2, <2>1, <2>2 DEF TableInv, Fine, Rows
  <2>3. CASE r.kind = "delete" /\ table' = [table EXCEPT ![r.target] = Gone]
    <3>1. table \in Seq(S \cup {Gone}) /\ table' \in Seq(S \cup {Gone})
      BY <2>3, SeqGrows, SeqUpdate
    <3>2. Fine(table')
      BY <1>2, <2>3 DEF TableInv, Fine, Rows
    <3> QED BY <2>1, <3>1, <3>2 DEF TableInv, Fine, Rows
  <2>4. CASE r.kind = "save" /\ verdict = "accepted"
    <3>1. /\ r.target # NoId => r.target \in Rows(table)
          /\ b.jump # NoId => b.jump \in Rows(table) /\ b.jump # r.target
      BY <1>3, <2>4, VerdictFits DEF Fits
    <3>2. row.protocol \in {"ssh", "rdp"} /\ row.auth \in {"key", "password"}
          /\ row.jump = b.jump
      BY <1>3, <2>4 DEF Fits, Blank
    <3>3. table \in Seq(S \cup {row})
      BY SeqGrows
    <3>4. CASE r.target # NoId /\ table' = [table EXCEPT ![r.target] = row]
      <4>1. table' \in Seq(S \cup {row})
        BY <3>3, <3>4, SeqUpdate
      <4>2. row.jump # r.target
        BY <3>1, <3>2, <3>4
      <4>3. Fine(table')
        BY <1>2, <3>2, <3>4, <4>2 DEF TableInv, Fine, Rows
      <4> QED BY <2>1, <4>1, <4>3 DEF TableInv, Fine, Rows
    <3>5. CASE r.target = NoId /\ table' = Append(table, row)
      <4>1. table' \in Seq(S \cup {row}) /\ Len(table') = Len(table) + 1
            /\ DOMAIN table' = 1..Len(table) + 1 /\ table'[Len(table) + 1] = row
            /\ \A i \in DOMAIN table : table'[i] = table[i]
        BY <3>3, <3>5
      <4>2. row.jump # Len(table) + 1
        BY <3>1, <3>2 DEF Rows, NoId
      <4>3. Fine(table')
        BY <1>2, <3>2, <4>1, <4>2 DEF TableInv, Fine, Rows
      <4> QED BY <2>1, <4>1, <4>3 DEF TableInv, Fine, Rows
    <3> QED BY <1>4, <2>4, <3>4, <3>5
  <2> QED BY <1>4, <2>2, <2>3, <2>4
<1> QED BY <1>7, <1>8, <1>9 DEF IInv

-----------------------------------------------------------------------------
(* The answers *)

LEMMA AnswerInv ==
  ASSUME IInv, NEW r \in requests, NEW ok \in BOOLEAN, Answer(r, ok)
  PROVE  IInv'
<1>1. /\ table' = table /\ forms' = forms /\ forms \in Nat /\ FormInv
      /\ ok => r.phase = "accepted"
      /\ r.kind \in {"list", "options"} /\ ok => Fine(r.rows)
      /\ \A q \in requests : Good(q, forms)
  <2>1. Good(r, forms)
    BY DEF IInv, RequestsInv
  <2>2. forms' = forms
    BY DEF Answer, TakeList, TakeOptions, Changed, Failed
  <2> QED BY <2>1, <2>2 DEF Answer, IInv, RequestsInv, Good
<1>2. CASE r.kind = "list" /\ TakeList(r, ok)
  <2>1. /\ requests' = requests \ {r} /\ modal' = modal /\ form' = form
        /\ list' = IF ok THEN r.rows ELSE list
    BY <1>2 DEF TakeList
  <2>2. TableInv' /\ FormInv' /\ RequestsInv'
    BY <1>1, <1>2, <2>1 DEF IInv, TableInv, FormInv, RequestsInv, IsOpen, Fine, Rows
  <2> QED BY <1>1, <2>2 DEF IInv
<1>3. CASE r.kind = "options" /\ TakeOptions(r, ok)
  <2>1. /\ requests' = requests \ {r} /\ modal' = modal /\ list' = list
       
        /\ form' = form \/ form' = [form EXCEPT !.options = Reusable(r.rows)]
    BY <1>3 DEF TakeOptions
  <2>2. FormInv'
    BY <1>1, <2>1 DEF FormInv, IsOpen, NewForm, Reusable
  <2>3. TableInv' /\ RequestsInv'
    BY <1>1, <2>1 DEF IInv, TableInv, RequestsInv, Fine, Rows
  <2> QED BY <1>1, <2>2, <2>3 DEF IInv
<1>4. CASE r.kind \in {"delete", "save"} /\ ~ok /\ Failed(r)
  <2>1. /\ requests' = requests \ {r} /\ modal' = modal /\ list' = list
        /\ form' = form \/ form' = [form EXCEPT !.loading = FALSE]
    BY <1>4 DEF Failed
  <2>2. FormInv'
    BY <1>1, <2>1 DEF FormInv, IsOpen, NewForm
  <2>3. TableInv' /\ RequestsInv'
    BY <1>1, <2>1 DEF IInv, TableInv, RequestsInv, Fine, Rows
  <2> QED BY <1>1, <2>2, <2>3 DEF IInv
<1>5. CASE r.kind \in {"delete", "save"} /\ Changed(r)
  <2>1. /\ requests' = With(requests \ {r}, List) /\ list' = list
       
        /\ \/ form' = NewForm /\ modal' = Closed
           \/ form' = form /\ modal' = modal
    BY <1>5 DEF Changed, Refetch, Unmount
  <2>2. FormInv'
    BY <1>1, <2>1 DEF FormInv, IsOpen, NewForm
  <2>3. Good(List, forms)
    BY DEF Good, List
  <2>4. RequestsInv'
    BY <1>1, <2>1, <2>3, WithGood DEF RequestsInv
  <2>5. TableInv'
    BY <1>1, <2>1 DEF IInv, TableInv, Fine, Rows
  <2> QED BY <1>1, <2>2, <2>4, <2>5 DEF IInv
<1> QED
  <2>1. Good(r, forms)
    BY <1>1
  <2> QED BY <1>2, <1>3, <1>4, <1>5, <2>1 DEF Answer, Good

-----------------------------------------------------------------------------
(* The theorems *)

\* The inductive invariant: what the table, the list, the form and the requests
\* hold agrees, whatever is answered when.
THEOREM InvCorrect == Spec => []IInv
<1>1. ASSUME IInv, Next
      PROVE  IInv'
  <2>1. CASE User
    BY <1>1, <2>1, OpenInv, DeleteInv, CancelInv, FieldsInv, SubmitInv DEF User
  <2>2. CASE \E r \in requests : Serve(r) \/ \E ok \in BOOLEAN : Answer(r, ok)
    BY <1>1, <2>2, ServeInv, AnswerInv DEF Next
  <2> QED BY <1>1, <2>1, <2>2 DEF Next
<1>2. ASSUME IInv, UNCHANGED vars
      PROVE  IInv'
  <2>1. /\ table' = table /\ list' = list /\ modal' = modal
        /\ form' = form /\ forms' = forms /\ requests' = requests
    BY <1>2 DEF vars, panel
  <2>2. FormInv' /\ forms' \in Nat /\ forms <= forms'
    BY <1>2, <2>1 DEF IInv, FormInv, IsOpen
  <2> QED BY <1>2, <2>1, <2>2, SendInv
<1> QED BY InitInv, <1>1, <1>2, PTL DEF Spec

\* The form sends nothing the server calls invalid, whatever was filled in
\* before a control was hidden (ServerFormModal.tsx, handleSubmit).
THEOREM RefusedCorrect == Spec => []RefusedForTheTable
<1>1. IInv => RefusedForTheTable
  BY DEF IInv, RequestsInv, Good, SaveFits, RefusedForTheTable
<1> QED BY InvCorrect, <1>1, PTL

\* No failure, and no answer to a list, closes a form (ServerFormModal.tsx,
\* the catch of handleSubmit).
THEOREM LeavesCorrect == Spec => FormLeavesForCause
<1> DEFINE Cause == IsOpen /\ modal' # modal =>
                      \/ requests' = requests
                      \/ \E r \in requests \ requests' :
                           /\ r.kind = "save" /\ r.phase = "accepted"
                           /\ r.number <= modal.number
<1>1. ASSUME IInv, Next, IsOpen, modal' # modal
      PROVE  Cause
  <2>1. CASE User
    BY <1>1, <2>1 DEF User, Open, Delete, Cancel, Edit, Submit, PickFile, FileRead, panel
  <2>2. ASSUME NEW r \in requests, NEW ok \in BOOLEAN, Answer(r, ok)
        PROVE  Cause
    <3>1. Good(r, forms) /\ modal.number = forms
      BY <1>1 DEF IInv, RequestsInv, FormInv
    <3>2. ok /\ r.kind = "save" /\ Changed(r)
      BY <1>1, <2>2, <3>1 DEF Answer, TakeList, TakeOptions, Failed, Changed, Good
    <3>3. r.phase = "accepted" /\ requests' = With(requests \ {r}, List)
      BY <2>2, <3>2 DEF Answer, Changed, Refetch
    <3>4. r \notin requests'
      BY <3>2, <3>3 DEF With, List
    <3> QED BY <3>1, <3>2, <3>3, <3>4 DEF Good, SaveFits
  <2>3. ASSUME NEW r \in requests, Serve(r)
        PROVE  modal' = modal
    BY <2>3 DEF Serve, panel
  <2> QED BY <1>1, <2>1, <2>2, <2>3 DEF Next
<1>2. UNCHANGED vars => modal' = modal
  BY DEF vars, panel
<1>3. IInv /\ [Next]_vars => [Cause]_vars
  BY <1>1, <1>2
<1> QED BY <1>3, InvCorrect, PTL DEF Spec, FormLeavesForCause

-----------------------------------------------------------------------------
(* What is saved is what was shown *)

\* The ids 1 to n are given to no two requests.
OwnIds(R, n) ==
  /\ IsFiniteSet(R) /\ Cardinality(R) <= n
  /\ \A r \in R : "id" \in DOMAIN r /\ r.id \in 1..n
  /\ \A r, q \in R : r.id = q.id => r = q

\* A form that sends the key it shows.
Proper(f) == f.auth \in {"key", "password"} /\ f.source \in {"new", "reuse"} /\ f.text = f.key

\* A save is what a form showed.
Shown(r) ==
  r.kind = "save" => /\ {"body", "seen"} \subseteq DOMAIN r
                     /\ \E f : Proper(f) /\ r.body = Body(f) /\ r.seen = Seen(f)

SaveInv ==
  /\ bound.requests \in Nat \ {0} /\ OwnIds(requests, bound.requests)
  /\ Proper(form)
  /\ \A r \in requests : Shown(r)

\* While there is room, an id is free.
LEMMA FreeId ==
  ASSUME NEW n \in Nat, NEW R, OwnIds(R, n), Cardinality(R) < n
  PROVE  \E i \in 1..n : \A q \in R : q.id # i
<1> SUFFICES ASSUME \A i \in 1..n : \E q \in R : q.id = i PROVE FALSE
  OBVIOUS
<1> DEFINE f == [i \in 1..n |-> CHOOSE q \in R : q.id = i]
<1>1. IsFiniteSet(1..n) /\ Cardinality(1..n) = n
  BY FS_Interval
<1>2. f \in [1..n -> R] /\ \A i \in 1..n : f[i].id = i
  OBVIOUS
<1>3. IsFiniteSet(R) /\ Cardinality(R) < Cardinality(1..n)
  BY <1>1 DEF OwnIds
<1> HIDE DEF f
<1>4. \E x, y \in 1..n : x # y /\ f[x] = f[y]
  BY <1>1, <1>2, <1>3, FS_PigeonHole
<1> QED BY <1>2, <1>4

\* A request that is sent gets an id of its own, and is otherwise as it was.
LEMMA WithOwnId ==
  ASSUME NEW R, OwnIds(R, bound.requests), bound.requests \in Nat,
         Cardinality(R) < bound.requests, NEW q, "id" \in DOMAIN q
  PROVE  /\ OwnIds(With(R, q), bound.requests)
         /\ \E e : /\ With(R, q) = R \cup {e} /\ DOMAIN e = DOMAIN q
                   /\ \A x \in DOMAIN q : x # "id" => e[x] = q[x]
<1> DEFINE n == bound.requests
           c == CHOOSE i \in 1..n : \A p \in R : p.id # i
           e == [q EXCEPT !.id = c]
<1>1. With(R, q) = R \cup {e}
  BY DEF With
<1>2. c \in 1..n /\ \A p \in R : p.id # c
  BY FreeId
<1> HIDE DEF c
<1>3. /\ DOMAIN e = DOMAIN q /\ e.id = c
      /\ \A x \in DOMAIN q : x # "id" => e[x] = q[x]
  OBVIOUS
<1> HIDE DEF e
<1>4. e \notin R
  BY <1>2, <1>3
<1>5. /\ IsFiniteSet(R \cup {e}) /\ Cardinality(R \cup {e}) = Cardinality(R) + 1
      /\ Cardinality(R) \in Nat
  BY <1>4, FS_AddElement, FS_CardinalityType DEF OwnIds
<1>6. OwnIds(R \cup {e}, n)
  BY <1>2, <1>3, <1>5 DEF OwnIds
<1> QED BY <1>1, <1>3, <1>6

\* With one request less there is room.
LEMMA WithoutOne ==
  ASSUME NEW n \in Nat, NEW R, OwnIds(R, n), NEW r \in R
  PROVE  OwnIds(R \ {r}, n) /\ Cardinality(R \ {r}) < n
<1>1. /\ IsFiniteSet(R \ {r}) /\ Cardinality(R \ {r}) = Cardinality(R) - 1
      /\ Cardinality(R) \in Nat
  BY FS_RemoveElement, FS_CardinalityType DEF OwnIds
<1> QED BY <1>1 DEF OwnIds

\* An answer takes the place of its request.
LEMMA ReplaceOne ==
  ASSUME NEW n \in Nat, NEW R, OwnIds(R, n), NEW r \in R, NEW e, "id" \in DOMAIN e, e.id = r.id
  PROVE  OwnIds((R \ {r}) \cup {e}, n)
<1> DEFINE rest == R \ {r}
<1>1. OwnIds(rest, n) /\ Cardinality(rest) < n
  BY WithoutOne
<1>2. r.id \in 1..n /\ \A q \in rest : q.id # r.id
  BY DEF OwnIds
<1> HIDE DEF rest
<1>3. e \notin rest
  BY <1>2
<1>4. /\ IsFiniteSet(rest \cup {e}) /\ Cardinality(rest \cup {e}) = Cardinality(rest) + 1
      /\ Cardinality(rest) \in Nat
  BY <1>1, <1>3, FS_AddElement, FS_CardinalityType DEF OwnIds
<1>5. OwnIds(rest \cup {e}, n)
  BY <1>1, <1>2, <1>4 DEF OwnIds
<1> QED BY <1>5 DEF rest

LEMMA SaveInit == Init => SaveInv
<1> SUFFICES ASSUME Init PROVE SaveInv
  OBVIOUS
<1>1. bound.requests \in Nat \ {0} /\ form = NewForm /\ requests = With({}, List)
  BY PanelAssumption DEF Init
<1>2. OwnIds({}, bound.requests) /\ Cardinality({}) < bound.requests
  BY <1>1, FS_EmptySet DEF OwnIds
<1>3. "id" \in DOMAIN List /\ "kind" \in DOMAIN List /\ List.kind = "list"
  BY DEF List
<1>4. PICK e : /\ With({}, List) = {} \cup {e} /\ e.kind = "list"
  BY <1>1, <1>2, <1>3, WithOwnId
<1>5. OwnIds(requests, bound.requests)
  BY <1>1, <1>2, <1>3, WithOwnId
<1>6. \A r \in requests : Shown(r)
  BY <1>1, <1>4 DEF Shown
<1> QED BY <1>1, <1>5, <1>6 DEF SaveInv, Proper, NewForm

\* A step that sends one request at most, or takes one away.
LEMMA SaveSent ==
  ASSUME SaveInv, bound' = bound, Proper(form'), NEW R, R \subseteq requests,
         OwnIds(R, bound.requests), NEW q, {"id", "kind"} \subseteq DOMAIN q, Shown(q),
         \/ requests' = R
         \/ Cardinality(R) < bound.requests /\ requests' = With(R, q)
  PROVE  SaveInv'
<1>1. bound.requests \in Nat \ {0} /\ \A r \in R : Shown(r)
  BY DEF SaveInv
<1>2. CASE requests' = R
  BY <1>1, <1>2 DEF SaveInv, Shown
<1>3. CASE Cardinality(R) < bound.requests /\ requests' = With(R, q)
  <2>1. OwnIds(requests', bound.requests)
    BY <1>1, <1>3, WithOwnId
  <2>2. PICK e : /\ With(R, q) = R \cup {e} /\ DOMAIN e = DOMAIN q
                 /\ \A x \in DOMAIN q : x # "id" => e[x] = q[x]
    BY <1>1, <1>3, WithOwnId
  <2>3. Shown(e)
    BY <2>2 DEF Shown
  <2>4. \A r \in requests' : Shown(r)
    BY <1>1, <1>3, <2>2, <2>3
  <2> QED BY <1>1, <2>1, <2>4 DEF SaveInv, Shown
<1> QED BY <1>2, <1>3

LEMMA SaveUser ==
  ASSUME IInv, SaveInv, User, bound' = bound
  PROVE  SaveInv'
<1>1. /\ OwnIds(requests, bound.requests) /\ Proper(form) /\ bound.requests \in Nat
      /\ DOMAIN form = DOMAIN NewForm
  BY DEF IInv, SaveInv, FormInv
<1>2. /\ "id" \in DOMAIN List /\ "kind" \in DOMAIN List /\ Shown(List)
  BY DEF List, Shown
<1>3. CASE requests' = requests /\ Proper(form')
  BY <1>1, <1>2, <1>3, SaveSent
<1>4. ASSUME NEW editing, Open(editing), editing = NoId \/ editing \in Rows(list)
      PROVE  SaveInv'
  <2> DEFINE q == Options(forms + 1)
  <2>1. {"id", "kind"} \subseteq DOMAIN q /\ Shown(q)
    BY DEF Options, Shown
  <2>2. Proper(Filled(editing))
    BY <1>4 DEF Proper, Filled, NewForm, IInv, TableInv, Fine
  <2>3. /\ Cardinality(requests) < bound.requests /\ requests' = With(requests, q)
        /\ form' = Filled(editing)
    BY <1>4 DEF Open, HasRoom
  <2> HIDE DEF q
  <2> QED BY <1>1, <2>1, <2>2, <2>3, SaveSent
<1>5. ASSUME NEW i, Delete(i)
      PROVE  SaveInv'
  <2>1. {"id", "kind"} \subseteq DOMAIN Deletion(i) /\ Shown(Deletion(i))
    BY DEF Deletion, Shown
  <2>2. /\ Cardinality(requests) < bound.requests /\ requests' = With(requests, Deletion(i))
        /\ form' = form
    BY <1>5 DEF Delete, HasRoom, panel
  <2> QED BY <1>1, <2>1, <2>2, SaveSent
<1>6. CASE Cancel
  BY <1>3, <1>6 DEF Cancel, Unmount, Proper, NewForm
<1>7. CASE Edit
  <2>1. requests' = requests
    BY <1>7 DEF Edit
  <2>2. ASSUME NEW k, SetKey(k)
        PROVE  Proper(form')
    BY <1>1, <2>2 DEF SetKey, Proper, NewForm
  <2>3. ASSUME NEW v, NEW field \in {"protocol", "auth", "source", "reuse", "password", "jump"},
               form' = [form EXCEPT ![field] = v],
               field = "auth" => v \in {"key", "password"},
               field = "source" => v \in {"new", "reuse"}
        PROVE  Proper(form')
    BY <1>1, <2>3 DEF Proper, NewForm
  <2>4. \/ \E k : SetKey(k)
        \/ \E v : \E field \in {"protocol", "auth", "source", "reuse", "password", "jump"} :
             /\ form' = [form EXCEPT ![field] = v]
             /\ field = "auth" => v \in {"key", "password"}
             /\ field = "source" => v \in {"new", "reuse"}
    BY <1>7 DEF Edit, Fill
  <2> QED BY <1>3, <2>1, <2>2, <2>3, <2>4
<1>8. CASE Submit
  <2>1. /\ Cardinality(requests) < bound.requests /\ requests' = With(requests, Save)
        /\ form' = [form EXCEPT !.loading = TRUE]
    BY <1>8 DEF Submit, HasRoom
  <2>2. {"id", "kind"} \subseteq DOMAIN Save /\ Shown(Save)
    BY <1>1 DEF Save, Shown
  <2>3. Proper(form')
    BY <1>1, <2>1 DEF Proper, NewForm
  <2> QED BY <1>1, <2>1, <2>2, <2>3, SaveSent
<1>9. ASSUME NEW k, PickFile(k) \/ FileRead(k)
      PROVE  SaveInv'
  BY <1>1, <1>3, <1>9 DEF PickFile, FileRead, Proper, NewForm
<1> QED BY <1>4, <1>5, <1>6, <1>7, <1>8, <1>9 DEF User

LEMMA SaveServe ==
  ASSUME IInv, SaveInv, NEW r \in requests, Serve(r), bound' = bound
  PROVE  /\ SaveInv'
         /\ \E e : requests' = (requests \ {r}) \cup {e} /\ e.id = r.id /\ e.kind = r.kind
<1> DEFINE listed == [k \in DOMAIN r \cup {"rows"} |->
                        IF k = "rows" THEN table ELSE IF k = "phase" THEN "accepted" ELSE r[k]]
<1>1. /\ {"id", "kind", "phase"} \subseteq DOMAIN r /\ form' = form
      /\ OwnIds(requests, bound.requests) /\ bound.requests \in Nat /\ Shown(r)
      /\ r.kind \in {"list", "options", "delete", "save"}
  BY DEF IInv, RequestsInv, Good, SaveInv, OwnIds, Serve, panel
<1>2. \/ requests' = (requests \ {r}) \cup {listed} /\ r.kind # "save"
      \/ \E phase : requests' = (requests \ {r}) \cup {[r EXCEPT !.phase = phase]}
  BY <1>1 DEF Serve
<1>3. ASSUME NEW e, requests' = (requests \ {r}) \cup {e}, {"id", "kind"} \subseteq DOMAIN e,
             e.id = r.id, e.kind = r.kind, Shown(e)
      PROVE  /\ SaveInv'
             /\ \E x : requests' = (requests \ {r}) \cup {x} /\ x.id = r.id /\ x.kind = r.kind
  <2>1. OwnIds(requests', bound.requests)
    BY <1>1, <1>3, ReplaceOne
  <2> QED BY <1>1, <1>3, <2>1 DEF SaveInv, Shown
<1>4. CASE requests' = (requests \ {r}) \cup {listed} /\ r.kind # "save"
  <2>1. {"id", "kind"} \subseteq DOMAIN listed /\ listed.id = r.id /\ listed.kind = r.kind
    BY <1>1
  <2> HIDE DEF listed
  <2>2. Shown(listed)
    BY <1>4, <2>1 DEF Shown
  <2> QED BY <1>3, <1>4, <2>1, <2>2
<1>5. ASSUME NEW phase, requests' = (requests \ {r}) \cup {[r EXCEPT !.phase = phase]}
      PROVE  /\ SaveInv'
             /\ \E x : requests' = (requests \ {r}) \cup {x} /\ x.id = r.id /\ x.kind = r.kind
  <2> DEFINE e == [r EXCEPT !.phase = phase]
  <2>1. DOMAIN e = DOMAIN r /\ \A x \in DOMAIN r : x # "phase" => e[x] = r[x]
    BY <1>1
  <2> HIDE DEF e
  <2>2. Shown(e)
    BY <1>1, <2>1 DEF Shown
  <2>3. requests' = (requests \ {r}) \cup {e}
    BY <1>5 DEF e
  <2> QED BY <1>1, <1>3, <2>1, <2>2, <2>3
<1> QED BY <1>2, <1>4, <1>5

LEMMA SaveAnswer ==
  ASSUME IInv, SaveInv, NEW r \in requests, NEW ok \in BOOLEAN, Answer(r, ok), bound' = bound
  PROVE  SaveInv'
<1> DEFINE R == requests \ {r}
<1>1. /\ OwnIds(requests, bound.requests) /\ bound.requests \in Nat /\ Proper(form)
      /\ DOMAIN form = DOMAIN NewForm
  BY DEF SaveInv, IInv, FormInv
<1>2. R \subseteq requests /\ OwnIds(R, bound.requests) /\ Cardinality(R) < bound.requests
  BY <1>1, WithoutOne
<1>3. {"id", "kind"} \subseteq DOMAIN List /\ Shown(List)
  BY DEF List, Shown
<1>4. requests' = R \/ requests' = With(R, List)
  BY DEF Answer, TakeList, TakeOptions, Changed, Failed, Refetch
<1>5. Proper(form')
  <2>1. \/ form' = form \/ form' = NewForm
        \/ \E v : form' = [form EXCEPT !.options = v] \/ form' = [form EXCEPT !.loading = v]
    BY DEF Answer, TakeList, TakeOptions, Changed, Failed, Unmount
  <2> QED BY <1>1, <2>1 DEF Proper, NewForm
<1> QED BY <1>2, <1>3, <1>4, <1>5, SaveSent

\* What every save on its way has of the form that sent it, and its own id.
THEOREM ShownCorrect == Spec => []SaveInv
<1>1. ASSUME IInv, SaveInv, [Next]_vars
      PROVE  SaveInv'
  <2>1. CASE UNCHANGED vars
    BY <1>1, <2>1 DEF SaveInv, Shown, vars, panel
  <2>2. CASE Next
    BY <1>1, <2>2, SaveUser, SaveServe, SaveAnswer DEF Next
  <2> QED BY <1>1, <2>1, <2>2
<1> QED BY SaveInit, InvCorrect, <1>1, PTL DEF Spec

-----------------------------------------------------------------------------
(* The list *)

\* A change was made, or a listing is to be served, whose answer the list awaits.
Coming == \E q \in requests : \/ q.kind = "list" /\ q.phase = "sent"
                              \/ q.kind \in {"delete", "save"} /\ q.phase = "accepted"

\* The listing served last.
Current(q) == q.id = newest /\ q.kind = "list" /\ q.phase = "accepted"

\* The listing served last is on its way and shows the table, or is followed by
\* another; a list that does not show the table awaits one of them, unless an
\* answer was lost or the answers of two listings have overtaken each other.
ListInv ==
  /\ newest # NoId => \E q \in requests : Current(q) /\ (q.rows = table \/ Coming)
  /\ ~unsure => list = table \/ Coming \/ newest # NoId

\* Requests only come, but for one on which neither depends.
LEMMA ListStays ==
  ASSUME ListInv, NEW r,
         \A q \in requests : q # r => q \in requests',
         newest' = newest, unsure' = unsure, list' = list, table' = table,
         r.kind # "list", r.kind = "options" \/ r.phase # "accepted"
  PROVE  ListInv'
<1>1. Coming => Coming'
  BY DEF Coming
<1>2. \A q \in requests : Current(q) => q \in requests' /\ Current(q)'
  BY DEF Current
<1> QED BY <1>1, <1>2 DEF ListInv

LEMMA ListUser ==
  ASSUME ListInv, User
  PROVE  ListInv'
<1>1. /\ newest' = newest /\ unsure' = unsure /\ list' = list /\ table' = table
      /\ \A q \in requests : q \in requests'
  BY DEF User, Open, Delete, Cancel, Edit, Submit, PickFile, FileRead, panel, history, With
<1>2. Coming => Coming'
  BY <1>1 DEF Coming
<1>3. \A q \in requests : Current(q) => q \in requests' /\ Current(q)'
  BY <1>1 DEF Current
<1> QED BY <1>1, <1>2, <1>3 DEF ListInv

LEMMA ListServe ==
  ASSUME IInv, SaveInv, ListInv, NEW r \in requests, Serve(r)
  PROVE  ListInv'
<1> DEFINE listed == [k \in DOMAIN r \cup {"rows"} |->
                        IF k = "rows" THEN table ELSE IF k = "phase" THEN "accepted" ELSE r[k]]
<1>1. /\ r.phase = "sent" /\ {"id", "kind", "phase"} \subseteq DOMAIN r
      /\ r.kind \in {"list", "options", "delete", "save"}
      /\ r.id \in 1..bound.requests
      /\ list' = list /\ unsure' = unsure
      /\ newest' = IF r.kind = "list" THEN r.id ELSE newest
  BY DEF Serve, panel, IInv, RequestsInv, Good, SaveInv, OwnIds
<1>2. CASE r.kind = "list"
  <2>1. requests' = (requests \ {r}) \cup {listed} /\ table' = table
    BY <1>1, <1>2 DEF Serve
  <2>2. /\ listed.id = r.id /\ listed.kind = "list" /\ listed.phase = "accepted"
        /\ listed.rows = table
    BY <1>1, <1>2
  <2> HIDE DEF listed
  <2>3. newest' = r.id /\ r.id # NoId
    <3>1. bound.requests \in Nat
      BY DEF SaveInv
    <3> QED BY <1>1, <1>2, <3>1 DEF NoId
  <2>4. listed.id = newest' /\ listed \in requests' /\ listed.rows = table'
    BY <2>1, <2>2, <2>3
  <2> QED BY <2>2, <2>3, <2>4 DEF ListInv, Current
<1>3. CASE r.kind # "list" /\ table' = table
  <2>1. \A q \in requests : q # r => q \in requests'
    BY <1>1, <1>3 DEF Serve
  <2> QED BY <1>1, <1>3, <2>1, ListStays
<1>4. CASE r.kind # "list" /\ table' # table
  <2> DEFINE e == [r EXCEPT !.phase = "accepted"]
  <2>1. r.kind \in {"delete", "save"} /\ requests' = (requests \ {r}) \cup {e}
    BY <1>1, <1>4 DEF Serve
  <2>2. e.kind = r.kind /\ e.phase = "accepted"
    BY <1>1
  <2> HIDE DEF e
  <2>3. Coming'
    BY <2>1, <2>2 DEF Coming
  <2>4. \A q \in requests : Current(q) => q \in requests' /\ Current(q)'
    BY <1>1, <1>4, <2>1 DEF Current
  <2> QED BY <1>1, <1>4, <2>3, <2>4 DEF ListInv
<1> QED BY <1>2, <1>3, <1>4

LEMMA ListAnswer ==
  ASSUME IInv, SaveInv, ListInv, NEW r \in requests, NEW ok \in BOOLEAN, Answer(r, ok)
  PROVE  ListInv'
<1>1. /\ r.kind \in {"list", "options", "delete", "save"} /\ table' = table
      /\ ok => r.phase = "accepted"
      /\ \A q \in requests : q.id = r.id => q = r
  BY DEF Answer, IInv, RequestsInv, Good, SaveInv, OwnIds
<1>2. CASE r.kind = "list" /\ ok
  <2>1. /\ requests' = requests \ {r} /\ list' = r.rows /\ r.phase = "accepted"
        /\ newest' = IF newest = r.id THEN NoId ELSE newest
        /\ unsure' = (newest = NoId)
    BY <1>1, <1>2 DEF Answer, TakeList
  <2>2. Coming => Coming'
    BY <1>2, <2>1 DEF Coming
  <2>3. CASE newest = r.id
    <3>1. newest # NoId => r.rows = table \/ Coming
      BY <1>1, <2>3 DEF ListInv, Current
    <3> QED BY <1>1, <2>1, <2>2, <2>3, <3>1 DEF ListInv
  <2>4. CASE newest # r.id
    <3>1. \A q \in requests : Current(q) => q \in requests' /\ Current(q)'
      BY <2>1, <2>4 DEF Current
    <3> QED BY <1>1, <2>1, <2>2, <2>4, <3>1 DEF ListInv
  <2> QED BY <2>3, <2>4
<1>3. CASE unsure' = TRUE /\ newest' = NoId
  BY <1>3 DEF ListInv
<1>4. CASE r.kind = "list" /\ ~ok
  <2>1. requests' = requests \ {r} /\ list' = list /\ Missed(r)
    BY <1>4 DEF Answer, TakeList
  <2>2. CASE r.phase # "sent" /\ r.id # newest
    <3>1. newest' = newest /\ unsure' = unsure
      BY <1>4, <2>1, <2>2 DEF Missed, history
    <3>2. Coming => Coming'
      BY <1>4, <2>1, <2>2 DEF Coming
    <3>3. \A q \in requests : Current(q) => q \in requests' /\ Current(q)'
      BY <2>1, <2>2, <3>1 DEF Current
    <3> QED BY <1>1, <2>1, <3>1, <3>2, <3>3 DEF ListInv
  <2> QED BY <1>3, <1>4, <2>1, <2>2 DEF Missed
<1>5. CASE r.kind = "options"
  <2>1. requests' = requests \ {r} /\ list' = list /\ newest' = newest /\ unsure' = unsure
    BY <1>5 DEF Answer, TakeOptions, history
  <2> QED BY <1>1, <1>5, <2>1, ListStays
<1>6. CASE r.kind \in {"delete", "save"} /\ ~ok
  <2>1. requests' = requests \ {r} /\ list' = list /\ Missed(r)
    BY <1>6 DEF Answer, Failed
  <2>2. CASE r.phase # "accepted"
    <3>1. newest' = newest /\ unsure' = unsure
      BY <1>6, <2>1, <2>2 DEF Missed, history
    <3> QED BY <1>1, <1>6, <2>1, <2>2, <3>1, ListStays
  <2> QED BY <1>3, <1>6, <2>1, <2>2 DEF Missed
<1>7. CASE r.kind \in {"delete", "save"} /\ ok
  <2>1. /\ requests' = With(requests \ {r}, List) /\ newest' = newest /\ unsure' = unsure
    BY <1>7 DEF Answer, Changed, Refetch, history
  <2>2. Coming'
    <3> DEFINE rest == requests \ {r}
               i == CHOOSE i \in 1..bound.requests : \A q \in rest : q.id # i
    <3>1. [List EXCEPT !.id = i] \in With(rest, List)
      BY DEF With
    <3> HIDE DEF i
    <3>2. [List EXCEPT !.id = i].kind = "list" /\ [List EXCEPT !.id = i].phase = "sent"
      BY DEF List
    <3> QED BY <2>1, <3>1, <3>2 DEF Coming
  <2>3. \A q \in requests : Current(q) => q \in requests' /\ Current(q)'
    BY <1>7, <2>1 DEF Current, With
  <2> QED BY <2>1, <2>2, <2>3 DEF ListInv
<1> QED BY <1>1, <1>2, <1>4, <1>5, <1>6, <1>7

LEMMA ListInit == Init => ListInv
<1> SUFFICES ASSUME Init PROVE ListInv
  OBVIOUS
<1>1. requests = With({}, List) /\ newest = NoId
  BY DEF Init
<1> DEFINE i == CHOOSE i \in 1..bound.requests : \A q \in {} : q.id # i
<1>2. [List EXCEPT !.id = i] \in requests
  BY <1>1 DEF With
<1> HIDE DEF i
<1>3. [List EXCEPT !.id = i].kind = "list" /\ [List EXCEPT !.id = i].phase = "sent"
  BY DEF List
<1> QED BY <1>1, <1>2, <1>3 DEF ListInv, Coming

\* A list that does not show the table awaits the answer of a listing or of a
\* change, and with nothing on its way it is the table (ServerSidebar.tsx,
\* fetchServers after every change).  This holds unless an answer was lost, or
\* that of an older listing came after that of the newest.
THEOREM ListCorrect == Spec => []ListIsTrue
<1>1. ASSUME IInv, SaveInv, ListInv, [Next]_vars
      PROVE  ListInv'
  <2>1. CASE UNCHANGED vars
    BY <1>1, <2>1 DEF ListInv, Coming, Current, vars, panel, history
  <2>2. CASE Next
    BY <1>1, <2>2, ListUser, ListServe, ListAnswer DEF Next
  <2> QED BY <1>1, <2>1, <2>2
<1>2. ListInv => ListIsTrue
  BY DEF ListInv, Coming, Current, ListIsTrue
<1> QED BY ListInit, InvCorrect, ShownCorrect, <1>1, <1>2, PTL DEF Spec

-----------------------------------------------------------------------------
\* The row that the server makes of a save says what the form showed.
LEMMA RowFits ==
  ASSUME NEW f, Proper(f), NEW b, b = Body(f), NEW g, g = Seen(f), NEW i
  PROVE  /\ b.protocol = g.protocol
         /\ IsSsh(g) => b.auth = g.auth /\ b.jump = g.jump
         /\ ~IsSsh(g) => KeyOf(b, i) = None /\ PasswordOf(b, i) = None /\ b.jump = NoId
         /\ ByPassword(g) =>
              PasswordOf(b, i) = IF g.password = None THEN Stored(i).password ELSE g.password
         /\ ByKey(g) /\ g.source = "new" =>
              KeyOf(b, i) = IF g.text = None THEN Stored(i).key ELSE g.text
         /\ ByKey(g) /\ Reuses(g) => KeyOf(b, i) = table[g.reuse].key
<1> HIDE DEF Stored
<1>1. CASE ~IsSsh(f)
  BY <1>1 DEF Body, RdpBody, Blank, Seen, NewForm, IsSsh, ByPassword, ByKey, KeyOf, PasswordOf
<1>2. CASE ByPassword(f)
  BY <1>2 DEF Body, Blank, Seen, NewForm, IsSsh, ByPassword, ByKey, KeyOf, PasswordOf
<1>3. CASE ByKey(f) /\ f.source = "new"
  BY <1>3 DEF Proper, Body, Blank, Seen, NewForm, IsSsh, ByPassword, ByKey, Reuses, KeyOf
<1>4. CASE ByKey(f) /\ f.source = "reuse"
  BY <1>4 DEF Proper, Body, Blank, Seen, NewForm, IsSsh, ByPassword, ByKey, Reuses, KeyOf
<1> QED BY <1>1, <1>2, <1>3, <1>4 DEF Proper, ByPassword, ByKey

\* A save that the server accepts writes what the form showed when it was
\* submitted (ServerFormModal.tsx, handleSubmit, and resolveCredentials).
THEOREM SavedCorrect == Spec => SavedAsShown
<1> DEFINE Says(r) == LET f == r.seen
                          row == table'[Target(r)]
                          old == Stored(r.target)
                      IN /\ row.protocol = f.protocol
                         /\ IsSsh(f) => row.auth = f.auth /\ row.jump = f.jump
                         /\ ~IsSsh(f) => row.key = None /\ row.password = None /\ row.jump = NoId
                         /\ ByPassword(f) =>
                              row.password = IF f.password = None THEN old.password ELSE f.password
                         /\ ByKey(f) /\ f.source = "new" =>
                              row.key = IF f.text = None THEN old.key ELSE f.text
                         /\ ByKey(f) /\ Reuses(f) => row.key = table[f.reuse].key
           Fact == \A r \in requests : r.kind = "save" /\ Accepts(r) => Says(r)
<1>1. ASSUME IInv, SaveInv, [Next]_vars, NEW r \in requests, r.kind = "save", Accepts(r)
      PROVE  Says(r)
  <2> DEFINE new == [r EXCEPT !.phase = "accepted"]
  <2>1. /\ {"id", "kind", "phase"} \subseteq DOMAIN r /\ Good(r, forms)
        /\ \A q, p \in requests : q.id = p.id => q = p
        /\ r.phase = "sent" /\ new \in requests'
    BY <1>1 DEF IInv, RequestsInv, Good, SaveInv, OwnIds, Accepts
  <2>2. new.id = r.id /\ new.kind = "save" /\ new.phase = "accepted"
    BY <1>1, <2>1
  <2> HIDE DEF new
  <2>3. new \notin requests
    BY <2>1, <2>2
  <2>4. ASSUME NEW R \in SUBSET requests, NEW q, {"id", "kind", "phase"} \subseteq DOMAIN q,
               q.phase = "sent"
        PROVE  requests' # With(R, q)
    <3> DEFINE c == CHOOSE i \in 1..bound.requests : \A p \in R : p.id # i
    <3>1. With(R, q) = R \cup {[q EXCEPT !.id = c]}
      BY DEF With
    <3> HIDE DEF c
    <3>2. [q EXCEPT !.id = c].phase = "sent"
      BY <2>4
    <3> QED BY <2>1, <2>2, <2>3, <3>1, <3>2
  <2>5. ~User
    <3>1. requests' # requests
      BY <2>1, <2>3
    <3>2. \A n : requests' # With(requests, Options(n)) /\ requests' # With(requests, Deletion(n))
      BY <2>4 DEF Options, Deletion
    <3>3. requests' # With(requests, Save)
      BY <2>4 DEF Save
    <3> QED BY <3>1, <3>2, <3>3
            DEF User, Open, Delete, Cancel, Edit, Submit, PickFile, FileRead
  <2>6. ASSUME NEW q \in requests, NEW ok \in BOOLEAN
        PROVE  ~Answer(q, ok)
    <3>1. requests' # requests \ {q}
      BY <2>1, <2>3
    <3>2. requests' # With(requests \ {q}, List)
      BY <2>4 DEF List
    <3> QED BY <3>1, <3>2 DEF Answer, TakeList, TakeOptions, Changed, Failed, Refetch
  <2>7. ASSUME NEW q \in requests, Serve(q), bound' = bound
        PROVE  q = r
    <3>1. PICK e : requests' = (requests \ {q}) \cup {e} /\ e.id = q.id
      BY <1>1, <2>7, SaveServe
    <3>2. new = e
      BY <2>1, <2>3, <3>1
    <3> QED BY <2>1, <2>2, <3>1, <3>2
  <2>8. Serve(r)
    BY <1>1, <2>1, <2>3, <2>5, <2>6, <2>7 DEF Next, vars
  <2> DEFINE b == r.body
             row == [protocol |-> b.protocol, auth |-> b.auth, jump |-> b.jump,
                     key |-> KeyOf(b, r.target), password |-> PasswordOf(b, r.target)]
  <2>9. /\ Verdict(b, r.target) = "accepted"
        /\ IF r.target # NoId THEN table' = [table EXCEPT ![r.target] = row]
           ELSE table' = Append(table, row)
    <3>1. /\ requests' = (requests \ {r}) \cup {[r EXCEPT !.phase = Verdict(b, r.target)]}
          /\ IF Verdict(b, r.target) # "accepted" THEN UNCHANGED table
             ELSE IF r.target # NoId THEN table' = [table EXCEPT ![r.target] = row]
             ELSE Len(table) < MaxId /\ table' = Append(table, row)
      BY <1>1, <2>8 DEF Serve
    <3>2. new = [r EXCEPT !.phase = Verdict(b, r.target)]
      BY <2>1, <2>3, <3>1
    <3>3. Verdict(b, r.target) = "accepted"
      BY <2>1, <2>2, <3>2
    <3> QED BY <3>1, <3>3
  <2>10. table'[Target(r)] = row
    <3>1. PICK S : table \in Seq(S)
      BY <1>1 DEF IInv, TableInv
    <3>2. CASE r.target # NoId
      <4>1. Fits(b, r.target)
        BY <1>1, <2>1 DEF Good, SaveFits
      <4>2. r.target \in DOMAIN table
        BY <2>9, <3>2, <4>1, VerdictFits DEF Rows
      <4> QED BY <2>9, <3>2, <4>2 DEF Target
    <3>3. CASE r.target = NoId
      <4>1. table \in Seq(S \cup {row}) /\ table' = Append(table, row)
        BY <2>9, <3>1, <3>3, SeqGrows
      <4> HIDE DEF row
      <4>2. Len(table') = Len(table) + 1 /\ table'[Len(table) + 1] = row
        BY <4>1
      <4> QED BY <3>3, <4>2 DEF Target
    <3> QED BY <3>2, <3>3
  <2>11. PICK f : Proper(f) /\ b = Body(f) /\ r.seen = Seen(f)
    BY <1>1 DEF SaveInv, Shown
  <2> QED BY <2>10, <2>11, RowFits
<1>2. IInv /\ SaveInv /\ [Next]_vars => [Fact]_vars
  BY <1>1
<1> QED BY InvCorrect, ShownCorrect, <1>2, PTL DEF Spec, SavedAsShown
=============================================================================
