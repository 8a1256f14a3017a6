-------------------------- MODULE ServerStoreProofs --------------------------
(***************************************************************************)
(* Safety of ServerStore for any number of concurrent requests, ids,       *)
(* secrets and bodies.                                                     *)
(***************************************************************************)
EXTENDS ServerStore, TLAPS

(* What every stored row satisfies, by itself. *)
GoodRow(row) == /\ row.protocol = "rdp" => row.key = Blank /\ row.password = Blank
                                           /\ row.jump = NoJump
                /\ row.protocol = "ssh" => HasCredential(row)
                /\ row.jump < nextId

TableInv == \A i \in Ids : /\ i >= nextId => table[i] = NoRow
                           /\ table[i] # NoRow => GoodRow(table[i]) /\ table[i].jump # i

(* A jump host that was accepted had an id already given out, so the id a
   create is about to get is another. *)
FormInv == \A r \in Requests :
    at[r] \in {"resolve", "write"} =>
       /\ form[r].jump < nextId
       /\ form[r].jump # NoJump => form[r].jump # target[r]

WriteInv == \A r \in Requests :
    at[r] = "write" => GoodRow(result[r]) /\ result[r].jump = form[r].jump

DialInv == \A r \in Requests :
    /\ at[r] \in {"dialJump", "dialing"} =>
         /\ GoodRow(current[r]) /\ current[r].protocol = "ssh"
         /\ current[r].jump # target[r]
    /\ at[r] = "dialing" /\ current[r].jump # NoJump =>
         /\ result[r] # NoRow /\ GoodRow(result[r])
         /\ result[r].protocol = "ssh" /\ result[r].jump = NoJump

IInv == TableInv /\ FormInv /\ WriteInv /\ DialInv

-----------------------------------------------------------------------------
LEMMA SomeFormIsValid == SomeForm \in ValidForms
<1> DEFINE f == [protocol |-> "rdp", auth |-> "password", key |-> Blank,
                 password |-> Blank, copy |-> NoJump, jump |-> NoJump]
<1>1. f \in ValidForms /\ f.protocol = "rdp"
  BY StoreAssumption DEF ValidForms, Valid, IdRefs, NoJump
<1> QED
  BY <1>1 DEF SomeForm

(* A resolved row is a row, and is RDP with nothing in it or SSH. *)
LEMMA ResolvedRowType ==
  ASSUME TypeOK, NEW r \in Requests
  PROVE  ResolvedRow(r) \in Rows
<1>1. form[r] \in ValidForms /\ current[r] \in Rows \cup {NoRow}
  BY DEF TypeOK
<1>2. /\ form[r].protocol \in {"ssh", "rdp"} /\ form[r].auth \in {"key", "password"}
      /\ form[r].key \in Secrets \cup {Blank} /\ form[r].copy \in IdRefs
      /\ form[r].password \in Secrets \cup {Blank} /\ form[r].jump \in IdRefs
  BY <1>1 DEF ValidForms
<1>3. KeptKey(r) \in Secrets \cup {Blank} /\ KeptPassword(r) \in Secrets \cup {Blank}
  BY <1>1 DEF KeptKey, KeptPassword, Rows
<1>4. ASSUME form[r].copy # NoJump
      PROVE  CopiedKey(r) \in Secrets \cup {Blank}
  <2>1. form[r].copy \in Ids
    BY <1>2, <1>4, StoreAssumption DEF Ids, IdRefs, NoJump
  <2>2. table[form[r].copy] \in Rows \cup {NoRow}
    BY <2>1 DEF TypeOK
  <2> QED
    BY <2>2 DEF CopiedKey, Rows
<1>5. ResolvedKey(r) \in Secrets \cup {Blank}
  BY <1>2, <1>3, <1>4 DEF ResolvedKey
<1>6. ResolvedPassword(r) \in Secrets \cup {Blank}
  BY <1>2, <1>3 DEF ResolvedPassword
<1> QED
  BY <1>2, <1>5, <1>6 DEF ResolvedRow, Cleared, Rows

-----------------------------------------------------------------------------
(* Type correctness, one step per action. *)
LEMMA OverType ==
  ASSUME TypeOK, NEW r \in Requests, Over(r),
         table' \in [Ids -> Rows \cup {NoRow}], nextId' \in 1..(MaxId + 1)
  PROVE  TypeOK'
<1>1. /\ at' \in [Requests -> {"idle", "load", "jump", "resolve", "write",
                               "dialJump", "dialing"}]
      /\ target' \in [Requests -> IdRefs]
      /\ form' \in [Requests -> ValidForms]
      /\ current' \in [Requests -> Rows \cup {NoRow}]
      /\ result' \in [Requests -> Rows \cup {NoRow}]
  BY SomeFormIsValid, StoreAssumption DEF TypeOK, Over, Goto, IdRefs
<1> QED
  BY <1>1 DEF TypeOK, Over, Goto

LEMMA TypeStep ==
  ASSUME TypeOK, [Next]_vars
  PROVE  TypeOK'
<1> USE StoreAssumption
<1>1. ASSUME NEW r \in Requests, Load(r)
      PROVE  TypeOK'
  <2>1. target[r] \in Ids
    BY <1>1 DEF TypeOK, Load, Found, Ids, IdRefs
  <2> QED
    BY <1>1, <2>1 DEF TypeOK, Load, Found, Goto
<1>2. ASSUME NEW r \in Requests, CheckJump(r)
      PROVE  TypeOK'
  BY <1>2 DEF TypeOK, CheckJump, Goto
<1>3. ASSUME NEW r \in Requests, Resolve(r)
      PROVE  TypeOK'
  <2>1. ResolvedRow(r) \in Rows
    BY ResolvedRowType
  <2> QED
    BY <1>3, <2>1 DEF TypeOK, Resolve, Usable, Goto
<1>4. ASSUME NEW r \in Requests, Insert(r)
      PROVE  TypeOK'
  <2>1. nextId \in Ids /\ nextId' \in 1..(MaxId + 1)
    BY <1>4 DEF TypeOK, Insert, NewId, Ids
  <2>2. result[r] \in Rows \cup {NoRow}
    BY DEF TypeOK
  <2>3. table' \in [Ids -> Rows \cup {NoRow}]
    BY <1>4, <2>1, <2>2 DEF TypeOK, Insert, NewId
  <2> QED
    BY <1>4, <2>1, <2>3, OverType DEF Insert, NewId
<1>5. ASSUME NEW r \in Requests, Update(r)
      PROVE  TypeOK'
  <2>1. result[r] \in Rows \cup {NoRow}
    BY DEF TypeOK
  <2>2. table' \in [Ids -> Rows \cup {NoRow}]
    BY <1>5, <2>1 DEF TypeOK, Update, Written
  <2>3. nextId' \in 1..(MaxId + 1)
    BY <1>5 DEF TypeOK, Update, Written
  <2> QED
    BY <1>5, <2>2, <2>3, OverType DEF Update, Written
<1>6. ASSUME NEW r \in Requests, DialJump(r)
      PROVE  TypeOK'
  <2>1. current[r] \in Rows
    BY <1>6 DEF TypeOK, DialJump, DirectSsh
  <2>2. current[r].jump \in Ids
    BY <1>6, <2>1 DEF TypeOK, DialJump, DirectSsh, Rows, IdRefs, Ids, NoJump
  <2>3. table[current[r].jump] \in Rows \cup {NoRow}
    BY <2>2 DEF TypeOK
  <2> QED
    BY <1>6, <2>3 DEF TypeOK, DialJump, DirectSsh, Goto
<1>7. ASSUME NEW r \in Requests, GiveUp(r)
      PROVE  TypeOK'
  BY <1>7, OverType DEF GiveUp, TypeOK
<1>8. ASSUME NEW r \in Requests, NEW f \in Forms, StartCreate(r, f)
      PROVE  TypeOK'
  BY <1>8 DEF TypeOK, StartCreate, Goto
<1>9. ASSUME NEW r \in Requests, NEW f \in Forms, NEW i \in Ids,
             StartUpdate(r, f, i)
      PROVE  TypeOK'
  BY <1>9 DEF TypeOK, StartUpdate, Goto, Ids, IdRefs
<1>10. ASSUME NEW r \in Requests, NEW i \in Ids, StartDial(r, i)
       PROVE  TypeOK'
  BY <1>10 DEF TypeOK, StartDial, Goto, Ids, IdRefs
<1>11. ASSUME NEW i \in Ids, Delete(i)
       PROVE  TypeOK'
  BY <1>11 DEF TypeOK, Delete
<1>12. CASE UNCHANGED vars
  BY <1>12 DEF TypeOK, vars
<1> QED
  BY <1>1, <1>2, <1>3, <1>4, <1>5, <1>6, <1>7, <1>8, <1>9, <1>10, <1>11,
     <1>12 DEF Next, Step
-----------------------------------------------------------------------------
(* The inductive invariant. *)
LEMMA InvInit == Init => IInv
  BY DEF Init, IInv, TableInv, FormInv, WriteInv, DialInv

(* A row stays good as ids are given out. *)
LEMMA GoodRowStays ==
  ASSUME TypeOK, TypeOK', nextId' >= nextId
  PROVE  \A row \in Rows : GoodRow(row) => GoodRow(row)'
<1>1. nextId \in Nat /\ nextId' \in Nat
  BY StoreAssumption DEF TypeOK
<1>2. \A row \in Rows : row.jump \in Nat
  BY DEF Rows, IdRefs
<1> QED
  BY <1>1, <1>2 DEF GoodRow

(* What a request does to its own progress leaves the others' as it was. *)
LEMMA OverInv ==
  ASSUME TypeOK, TypeOK', IInv, NEW r \in Requests, Over(r), nextId' >= nextId
  PROVE  (FormInv /\ WriteInv /\ DialInv)'
<1>1. \A row \in Rows : GoodRow(row) => GoodRow(row)'
  BY GoodRowStays
<1>2. at'[r] = "idle"
  BY DEF Over, Goto, TypeOK
<1>3. \A s \in Requests \ {r} :
         /\ at'[s] = at[s] /\ target'[s] = target[s] /\ form'[s] = form[s]
         /\ current'[s] = current[s] /\ result'[s] = result[s]
  BY DEF Over, Goto, TypeOK
<1>4. FormInv'
  <2>1. nextId \in Nat /\ nextId' \in Nat
    BY StoreAssumption DEF TypeOK
  <2>2. \A s \in Requests : form[s].jump \in Nat
    BY DEF TypeOK, ValidForms, IdRefs
  <2> QED
    BY <1>2, <1>3, <2>1, <2>2 DEF FormInv, IInv
<1>5. WriteInv'
  <2> SUFFICES ASSUME NEW s \in Requests, at'[s] = "write"
               PROVE  GoodRow(result[s])' /\ result'[s].jump = form'[s].jump
    BY DEF WriteInv
  <2>1. s # r /\ at[s] = "write" /\ result'[s] = result[s] /\ form'[s] = form[s]
    BY <1>2, <1>3
  <2>2. result[s] \in Rows /\ GoodRow(result[s]) /\ result[s].jump = form[s].jump
    BY <2>1 DEF TypeOK, IInv, WriteInv
  <2> QED
    BY <1>1, <2>1, <2>2 DEF GoodRow
<1>6. DialInv'
  <2> SUFFICES ASSUME NEW s \in Requests, s # r
               PROVE  (DialInv!(s))'
    BY <1>2 DEF DialInv
  <2>1. current[s] \in Rows \cup {NoRow} /\ result[s] \in Rows \cup {NoRow}
    BY DEF TypeOK
  <2>2. at[s] \in {"dialJump", "dialing"} => current[s] # NoRow
    BY DEF TypeOK
  <2> QED
    BY <1>1, <1>3, <2>1, <2>2 DEF DialInv, IInv, GoodRow
<1> QED
  BY <1>4, <1>5, <1>6
(* A write puts a good row, which does not jump to its own id, in the table. *)
LEMMA WriteTable ==
  ASSUME TypeOK, TypeOK', IInv, NEW r \in Requests, at[r] = "write",
         NEW i \in Ids, nextId' >= nextId, i < nextId',
         result[r].jump # i,
         table' = [table EXCEPT ![i] = result[r]]
  PROVE  TableInv'
<1>1. \A row \in Rows : GoodRow(row) => GoodRow(row)'
  BY GoodRowStays
<1>2. result[r] \in Rows /\ GoodRow(result[r])
  BY DEF TypeOK, IInv, WriteInv
<1>3. nextId \in Nat /\ nextId' \in Nat /\ \A k \in Ids : k \in Nat
  BY StoreAssumption DEF TypeOK, Ids
<1>4. ASSUME NEW j \in Ids
      PROVE  (TableInv!(j))'
  <2>1. table[j] \in Rows \cup {NoRow}
    BY DEF TypeOK
  <2>2. CASE j = i
    <3>1. table'[j] = result[r]
      BY <2>2 DEF TypeOK
    <3> QED
      BY <1>1, <1>2, <1>3, <2>2, <3>1 DEF GoodRow
  <2>3. CASE j # i
    <3>1. table'[j] = table[j]
      BY <2>3 DEF TypeOK
    <3>2. /\ j >= nextId => table[j] = NoRow
          /\ table[j] # NoRow => GoodRow(table[j]) /\ table[j].jump # j
      BY DEF IInv, TableInv
    <3> QED
      BY <1>1, <1>3, <2>1, <3>1, <3>2 DEF GoodRow
  <2> QED
    BY <2>2, <2>3
<1> QED
  BY <1>4 DEF TableInv

LEMMA InvStep ==
  ASSUME TypeOK, TypeOK', IInv, [Next]_vars
  PROVE  IInv'
<1> USE StoreAssumption
<1>0. nextId \in Nat /\ \A i \in Ids : i \in Nat
  BY DEF TypeOK, Ids
<1>1. ASSUME NEW r \in Requests, Load(r)
      PROVE  IInv'
  <2>1. TableInv' /\ FormInv' /\ WriteInv'
    BY <1>1 DEF Load, Found, Goto, TypeOK, IInv, TableInv, FormInv, WriteInv, GoodRow
  <2>2. DialInv'
    BY <1>1 DEF Load, Found, Goto, TypeOK, IInv, DialInv, GoodRow
  <2> QED
    BY <2>1, <2>2 DEF IInv
<1>2. ASSUME NEW r \in Requests, CheckJump(r)
      PROVE  IInv'
  <2>1. form[r].jump \in Ids \cup {NoJump}
    BY DEF TypeOK, ValidForms, IdRefs, Ids, NoJump
  <2>2. /\ form[r].jump < nextId
        /\ form[r].jump # NoJump => form[r].jump # target[r]
    <3>1. nextId > 0
      BY DEF TypeOK
    <3> QED
      BY <1>2, <1>0, <2>1, <3>1 DEF CheckJump, JumpAccepted, IInv, TableInv, NoJump
  <2>3. FormInv'
    BY <1>2, <2>2 DEF CheckJump, Goto, TypeOK, IInv, FormInv
  <2>4. TableInv' /\ WriteInv' /\ DialInv'
    BY <1>2 DEF CheckJump, Goto, TypeOK, IInv, TableInv, WriteInv, DialInv, GoodRow
  <2> QED
    BY <2>3, <2>4 DEF IInv
<1>3. ASSUME NEW r \in Requests, Resolve(r)
      PROVE  IInv'
  <2>1. ResolvedRow(r) \in Rows
    BY ResolvedRowType
  <2>2. ResolvedRow(r).jump = form[r].jump /\ form[r].jump < nextId
    BY <1>3 DEF ResolvedRow, Cleared, Resolve, Usable, IInv, FormInv
  <2>3. GoodRow(ResolvedRow(r))
    <3>1. CASE form[r].protocol = "rdp"
      <4>1. form[r].jump = NoJump
        BY <3>1 DEF TypeOK, ValidForms, Valid
      <4> QED
        BY <2>2, <3>1, <4>1 DEF ResolvedRow, Cleared, GoodRow
    <3>2. CASE form[r].protocol = "ssh"
      <4>1. ResolvedRow(r).protocol = "ssh" /\ HasCredential(ResolvedRow(r))
        BY <1>3, <3>2 DEF Resolve, Usable, ResolvedRow, Cleared
      <4> QED
        BY <2>2, <4>1 DEF GoodRow
    <3> QED
      BY <3>1, <3>2 DEF TypeOK, ValidForms
  <2>4. /\ at' = [at EXCEPT ![r] = "write"]
        /\ result' = [result EXCEPT ![r] = ResolvedRow(r)]
        /\ UNCHANGED <<table, nextId, target, form, current>>
        /\ at[r] = "resolve"
    BY <1>3 DEF Resolve, Usable, Goto
  <2>5. WriteInv'
    <3> SUFFICES ASSUME NEW s \in Requests, at'[s] = "write"
                 PROVE  GoodRow(result[s])' /\ result'[s].jump = form'[s].jump
      BY DEF WriteInv
    <3>1. CASE s = r
      BY <2>2, <2>3, <2>4, <3>1 DEF TypeOK, GoodRow
    <3>2. CASE s # r
      BY <2>4, <3>2 DEF TypeOK, IInv, WriteInv, GoodRow
    <3> QED
      BY <3>1, <3>2
  <2>6. TableInv' /\ FormInv' /\ DialInv'
    BY <2>4 DEF TypeOK, IInv, TableInv, FormInv, DialInv, GoodRow
  <2> QED
    BY <2>5, <2>6 DEF IInv
<1>4. ASSUME NEW r \in Requests, Insert(r)
      PROVE  IInv'
  <2>1. /\ at[r] = "write" /\ Over(r)
        /\ nextId \in Ids /\ nextId' = nextId + 1
        /\ table' = [table EXCEPT ![nextId] = result[r]]
    BY <1>4 DEF Insert, NewId, TypeOK, Ids
  <2>2. result[r].jump # nextId
    BY <1>0, <2>1 DEF IInv, WriteInv, FormInv, GoodRow
  <2>3. nextId' >= nextId /\ nextId < nextId'
    BY <1>0, <2>1
  <2>4. TableInv'
    BY <2>1, <2>2, <2>3, WriteTable
  <2>5. (FormInv /\ WriteInv /\ DialInv)'
    BY <2>1, <2>3, OverInv
  <2> QED
    BY <2>4, <2>5 DEF IInv
<1>5. ASSUME NEW r \in Requests, Update(r)
      PROVE  IInv'
  <2>1. /\ at[r] = "write" /\ Over(r) /\ nextId' = nextId
        /\ target[r] \in Ids
    BY <1>5 DEF Update, Written, TypeOK, IdRefs, Ids
  <2>2. result[r].jump # target[r]
    BY <1>0, <2>1 DEF IInv, WriteInv, FormInv, NoJump, Ids
  <2>3. CASE table[target[r]] = NoRow
    <3>1. table' = table
      BY <1>5, <2>1, <2>3 DEF Update, Written, TypeOK
    <3> QED
      BY <1>0, <2>1, <3>1, OverInv DEF IInv, TableInv, GoodRow
  <2>4. CASE table[target[r]] # NoRow
    <3>1. table' = [table EXCEPT ![target[r]] = result[r]]
      BY <1>5, <2>1, <2>4 DEF Update, Written, TypeOK
    <3>2. target[r] < nextId' /\ nextId' >= nextId
      BY <1>0, <2>1, <2>4 DEF IInv, TableInv
    <3>3. TableInv'
      BY <2>1, <2>2, <3>1, <3>2, WriteTable
    <3>4. (FormInv /\ WriteInv /\ DialInv)'
      BY <1>0, <2>1, OverInv
    <3> QED
      BY <3>3, <3>4 DEF IInv
  <2> QED
    BY <2>3, <2>4
<1>6. ASSUME NEW r \in Requests, DialJump(r)
      PROVE  IInv'
  <2>1. current[r].jump \in Ids
    BY <1>6 DEF TypeOK, DialJump, DirectSsh, Rows, IdRefs, Ids, NoJump
  <2>2. GoodRow(table[current[r].jump])
    BY <1>6, <2>1 DEF DialJump, DirectSsh, IInv, TableInv
  <2>3. TableInv' /\ FormInv' /\ WriteInv'
    BY <1>6 DEF DialJump, DirectSsh, Goto, TypeOK, IInv, TableInv, FormInv, WriteInv, GoodRow
  <2>4. DialInv'
    BY <1>6, <2>2 DEF DialJump, DirectSsh, Goto, TypeOK, IInv, DialInv, GoodRow
  <2> QED
    BY <2>3, <2>4 DEF IInv
<1>7. ASSUME NEW r \in Requests, GiveUp(r)
      PROVE  IInv'
  <2>1. Over(r) /\ table' = table /\ nextId' = nextId /\ nextId' >= nextId
    BY <1>0, <1>7 DEF GiveUp
  <2>2. TableInv'
    BY <2>1 DEF IInv, TableInv, GoodRow
  <2> QED
    BY <2>1, <2>2, OverInv DEF IInv
<1>8. ASSUME NEW r \in Requests, NEW f \in Forms, StartCreate(r, f)
      PROVE  IInv'
  BY <1>8 DEF StartCreate, Goto, TypeOK, IInv, TableInv, FormInv, WriteInv,
              DialInv, GoodRow
<1>9. ASSUME NEW r \in Requests, NEW f \in Forms, NEW i \in Ids,
             StartUpdate(r, f, i)
      PROVE  IInv'
  <2>1. TableInv' /\ FormInv' /\ WriteInv'
    BY <1>9 DEF StartUpdate, Goto, TypeOK, IInv, TableInv, FormInv, WriteInv, GoodRow
  <2>2. DialInv'
    BY <1>9 DEF StartUpdate, Goto, TypeOK, IInv, DialInv, GoodRow
  <2> QED
    BY <2>1, <2>2 DEF IInv
<1>10. ASSUME NEW r \in Requests, NEW i \in Ids, StartDial(r, i)
       PROVE  IInv'
  <2>1. GoodRow(table[i])
    BY <1>10 DEF StartDial, IInv, TableInv
  <2>2. TableInv' /\ FormInv' /\ WriteInv'
    BY <1>10 DEF StartDial, Goto, TypeOK, IInv, TableInv, FormInv, WriteInv, GoodRow
  <2>3. DialInv'
    BY <1>10, <2>1 DEF StartDial, Goto, TypeOK, IInv, DialInv, GoodRow
  <2> QED
    BY <2>2, <2>3 DEF IInv
<1>11. ASSUME NEW i \in Ids, Delete(i)
       PROVE  IInv'
  BY <1>11 DEF Delete, TypeOK, IInv, TableInv, FormInv, WriteInv, DialInv, GoodRow
<1>12. CASE UNCHANGED vars
  BY <1>12 DEF vars, IInv, TableInv, FormInv, WriteInv, DialInv, GoodRow
<1> QED
  BY <1>1, <1>2, <1>3, <1>4, <1>5, <1>6, <1>7, <1>8, <1>9, <1>10, <1>11,
     <1>12 DEF Next, Step

-----------------------------------------------------------------------------
(* The variables keep their types, and a request that is about to write has a
   row to write (server_handler.go:161-227). *)
THEOREM TypeCorrect == Spec => []TypeOK
<1>1. Init => TypeOK
  BY SomeFormIsValid, StoreAssumption DEF Init, TypeOK, Ids, IdRefs
<1>2. TypeOK /\ [Next]_vars => TypeOK'
  BY TypeStep
<1> QED
  BY <1>1, <1>2, PTL DEF Spec

(* The table, the rows about to be written and the rows about to be dialled
   are all good at every moment. *)
THEOREM InvCorrect == Spec => []IInv
<1>1. Init => IInv
  BY InvInit
<1>2. TypeOK /\ TypeOK' /\ IInv /\ [Next]_vars => IInv'
  BY InvStep
<1> QED
  BY <1>1, <1>2, TypeCorrect, PTL DEF Spec

(* Every record is sound, for any number of concurrent requests: no RDP record
   holds a password, a key or a jump host, and every SSH record can
   authenticate (server_handler.go:52-65, 117-151). *)
THEOREM RowsCorrect == Spec => []RowsAreSound
<1>1. IInv => RdpRowsHoldNoSecrets
  BY DEF IInv, TableInv, GoodRow, RdpRowsHoldNoSecrets, Stored
<1>2. IInv => SshRowsCanAuthenticate
  BY DEF IInv, TableInv, GoodRow, SshRowsCanAuthenticate, Stored
<1>3. IInv => RowsAreSound
  BY <1>1, <1>2 DEF RowsAreSound
<1> QED
  BY <1>3, InvCorrect, PTL

(* No server jumps through itself, or through an id not yet given out, though
   a create cannot compare with its own id (server_handler.go:192). *)
THEOREM JumpCorrect == Spec => []JumpsAreSound
<1>1. IInv => JumpsAreSound
  BY DEF IInv, TableInv, GoodRow, JumpsAreSound, NoSelfJump, JumpsPointBack, Stored
<1> QED
  BY <1>1, InvCorrect, PTL

(* What dialServer connects to is sound, whatever is written between its two
   reads (connection.go:51-88). *)
THEOREM DialCorrect == Spec => []DialIsSound
<1>1. IInv => DialIsSound
  BY DEF IInv, DialInv, GoodRow, DialIsSound
<1> QED
  BY <1>1, InvCorrect, PTL

(* No write brings a deleted server back (models/server.go:78-92). *)
THEOREM DeleteCorrect == Spec => DeletedStaysDeleted
<1> USE StoreAssumption
<1> DEFINE Kept == \A i \in Ids : i < nextId /\ table[i] = NoRow => table'[i] = NoRow
<1>1. TypeOK /\ [Next]_vars => [Kept]_vars
  <2> SUFFICES ASSUME TypeOK, Next, NEW i \in Ids, i < nextId, table[i] = NoRow
               PROVE  table'[i] = NoRow
    OBVIOUS
  <2>1. i # nextId
    BY DEF TypeOK, Ids
  <2>2. ASSUME NEW r \in Requests, Insert(r)
        PROVE  table'[i] = NoRow
    BY <2>1, <2>2 DEF Insert, NewId, TypeOK
  <2>3. ASSUME NEW r \in Requests, Update(r)
        PROVE  table'[i] = NoRow
    BY <2>3 DEF Update, Written, TypeOK
  <2>4. ASSUME NEW j \in Ids, Delete(j)
        PROVE  table'[i] = NoRow
    BY <2>4 DEF Delete, TypeOK
  <2> QED
    BY <2>2, <2>3, <2>4
    DEF Next, Step, Load, Found, CheckJump, Resolve, Usable, DialJump, DirectSsh, GiveUp, StartCreate,
        StartUpdate, StartDial
<1> QED
  BY <1>1, TypeCorrect, PTL DEF Spec, DeletedStaysDeleted
=============================================================================
