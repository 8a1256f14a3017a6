----------------------------- MODULE ServerStore -----------------------------
(***************************************************************************)
(* The servers table and the requests that work on it:                     *)
(* internal/api/server_handler.go (create, update, delete), and            *)
(* internal/api/connection.go (the rows a connection is dialled with).     *)
(*                                                                         *)
(* Each SQL statement is atomic and the handlers use no transaction, so    *)
(* requests interleave between statements.  A request that fails or dies   *)
(* with the program leaves the table as its last statement made it.        *)
(***************************************************************************)
EXTENDS Naturals

CONSTANTS Requests,    \* requests in progress at one time
          MaxId,       \* bound: ids the AUTOINCREMENT column may give out
          Secrets,     \* private keys and passwords
          Forms,       \* the request bodies that are tried
          NoRow        \* no row: not found

Blank == "blank"       \* an empty private_key or password
NoJump == 0            \* jump_server_id NULL; copy_key_from 0

Ids    == 1..MaxId
IdRefs == 0..MaxId

(* req.validate(): the bodies it accepts. *)
Valid(f) == f.protocol = "rdp" =>
              /\ f.auth = "password"
              /\ f.key = Blank /\ f.password = Blank
              /\ f.copy = NoJump /\ f.jump = NoJump

ValidForms == {f \in [protocol : {"ssh", "rdp"}, auth : {"key", "password"},
                      key : Secrets \cup {Blank},
                      password : Secrets \cup {Blank},
                      copy : IdRefs, jump : IdRefs] : Valid(f)}

Rows == [protocol : {"ssh", "rdp"}, auth : {"key", "password"},
         key : Secrets \cup {Blank}, password : Secrets \cup {Blank},
         jump : IdRefs]

ASSUME StoreAssumption == /\ MaxId \in Nat
                          /\ Blank \notin Secrets
                          /\ Forms \subseteq ValidForms
                          /\ NoRow \notin Rows

VARIABLES table,     \* table[i]: the row with id i, or NoRow
          nextId,    \* the AUTOINCREMENT sequence
          at,        \* at[r]: the next statement of request r
          target,    \* target[r]: its id, 0 for a create
          form,      \* form[r]: its body
          current,   \* current[r]: the row it has read
          result     \* result[r]: the row to write; the jump row to dial by

vars == <<table, nextId, at, target, form, current, result>>

SomeForm == CHOOSE f \in ValidForms : f.protocol = "rdp"

TypeOK ==
    /\ table \in [Ids -> Rows \cup {NoRow}]
    /\ nextId \in 1..(MaxId + 1)
    /\ at \in [Requests -> {"idle", "load", "jump", "resolve", "write",
                            "dialJump", "dialing"}]
    /\ target \in [Requests -> IdRefs]
    /\ form \in [Requests -> ValidForms]
    /\ current \in [Requests -> Rows \cup {NoRow}]
    /\ result \in [Requests -> Rows \cup {NoRow}]
    /\ \A r \in Requests :
         /\ at[r] \in {"jump", "resolve"} /\ target[r] # 0 => current[r] # NoRow
         /\ at[r] = "write" => result[r] # NoRow
         /\ at[r] \in {"dialJump", "dialing"} => current[r] # NoRow
         /\ at[r] = "dialJump" => current[r].jump # NoJump
         /\ at[r] \in {"load", "dialJump", "dialing"} => target[r] # 0
         /\ at[r] = "idle" => target[r] = 0

(* A fresh installation. *)
Init ==
    /\ table = [i \in Ids |-> NoRow]
    /\ nextId = 1
    /\ at = [r \in Requests |-> "idle"]
    /\ target = [r \in Requests |-> 0]
    /\ form = [r \in Requests |-> SomeForm]
    /\ current = [r \in Requests |-> NoRow]
    /\ result = [r \in Requests |-> NoRow]

-----------------------------------------------------------------------------
(* Requests *)

Goto(r, l) == at' = [at EXCEPT ![r] = l]

(* The request is over: answered, failed on a statement, or lost in a crash. *)
Over(r) == /\ Goto(r, "idle")
           /\ target' = [target EXCEPT ![r] = 0]
           /\ form' = [form EXCEPT ![r] = SomeForm]
           /\ current' = [current EXCEPT ![r] = NoRow]
           /\ result' = [result EXCEPT ![r] = NoRow]

StartCreate(r, f) ==
    /\ at[r] = "idle"
    /\ Goto(r, "jump")
    /\ form' = [form EXCEPT ![r] = f]
    /\ UNCHANGED <<table, nextId, target, current, result>>

StartUpdate(r, f, i) ==
    /\ at[r] = "idle"
    /\ Goto(r, "load")
    /\ form' = [form EXCEPT ![r] = f]
    /\ target' = [target EXCEPT ![r] = i]
    /\ UNCHANGED <<table, nextId, current, result>>

Found(r) == table[target[r]] # NoRow

(* The update reads the row whose credentials it may keep. *)
Load(r) ==
    /\ at[r] = "load" /\ Found(r)
    /\ Goto(r, "jump")
    /\ current' = [current EXCEPT ![r] = table[target[r]]]
    /\ UNCHANGED <<table, nextId, target, form, result>>

(* The jump host, if any, is another server that exists and speaks SSH. *)
JumpAccepted(r) ==
    LET j == form[r].jump IN
    j # NoJump => /\ j # target[r]
                  /\ table[j] # NoRow
                  /\ table[j].protocol = "ssh"

CheckJump(r) ==
    /\ at[r] = "jump" /\ JumpAccepted(r)
    /\ Goto(r, "resolve")
    /\ UNCHANGED <<table, nextId, target, form, current, result>>

(* resolveCredentials: what the row read holds, replaced by what is given. *)
KeptKey(r) == IF current[r] = NoRow THEN Blank ELSE current[r].key
KeptPassword(r) == IF current[r] = NoRow THEN Blank ELSE current[r].password

(* The key of the source server, Blank when it has none: then the request is
   refused, as it is when no key remains at all. *)
CopiedKey(r) ==
    LET i == form[r].copy IN
    IF table[i] = NoRow THEN Blank ELSE table[i].key

ResolvedKey(r) ==
    LET f == form[r] IN
    IF f.auth = "password" THEN KeptKey(r)
    ELSE IF f.key # Blank THEN f.key
    ELSE IF f.copy # NoJump THEN CopiedKey(r)
    ELSE KeptKey(r)

ResolvedPassword(r) ==
    LET f == form[r] IN
    IF f.auth = "password" /\ f.password # Blank THEN f.password
    ELSE KeptPassword(r)

NeverCleared(r) == FALSE
Cleared(r) == form[r].protocol = "rdp"

ResolvedRow(r) ==
    LET f == form[r] IN
    [protocol |-> f.protocol, auth |-> f.auth,
     key      |-> IF Cleared(r) THEN Blank ELSE ResolvedKey(r),
     password |-> IF Cleared(r) THEN Blank ELSE ResolvedPassword(r),
     jump     |-> f.jump]

HasCredential(row) == IF row.auth = "key" THEN row.key # Blank
                      ELSE row.password # Blank

Usable(r) == form[r].protocol = "ssh" => HasCredential(ResolvedRow(r))

Resolve(r) ==
    /\ at[r] = "resolve" /\ Usable(r)
    /\ result' = [result EXCEPT ![r] = ResolvedRow(r)]
    /\ Goto(r, "write")
    /\ UNCHANGED <<table, nextId, target, form, current>>

LargestPlusOne == CHOOSE i \in 1..(MaxId + 1) :
                      /\ \A j \in Ids : j >= i => table[j] = NoRow
                      /\ i > 1 => table[i - 1] # NoRow
NewId == nextId

(* INSERT: AUTOINCREMENT never gives out an id twice, across restarts too. *)
Insert(r) ==
    /\ at[r] = "write" /\ target[r] = 0 /\ NewId <= MaxId
    /\ table' = [table EXCEPT ![NewId] = result[r]]
    /\ nextId' = NewId + 1
    /\ Over(r)

Upserted(r) == result[r]
Written(r) == IF table[target[r]] = NoRow THEN NoRow ELSE result[r]

(* UPDATE ... WHERE id: no row to change when a DELETE came first, and the
   request succeeds all the same. *)
Update(r) ==
    /\ at[r] = "write" /\ target[r] # 0
    /\ table' = [table EXCEPT ![target[r]] = Written(r)]
    /\ Over(r)
    /\ UNCHANGED nextId

(* A request is one statement, and needs no row to be there. *)
Delete(i) ==
    /\ table' = [table EXCEPT ![i] = NoRow]
    /\ UNCHANGED <<nextId, at, target, form, current, result>>

-----------------------------------------------------------------------------
(* dialServer, for a terminal, a file transfer or a connection test *)

(* loadConnectionServer reads the row; one that is RDP, or that jumps through
   itself, ends the request. *)
StartDial(r, i) ==
    LET row == table[i] IN
    /\ at[r] = "idle" /\ row # NoRow
    /\ row.protocol = "ssh" /\ row.jump # i
    /\ target' = [target EXCEPT ![r] = i]
    /\ current' = [current EXCEPT ![r] = row]
    /\ Goto(r, IF row.jump = NoJump THEN "dialing" ELSE "dialJump")
    /\ UNCHANGED <<table, nextId, form, result>>

AnyJump(row) == TRUE
DirectSsh(row) == row.jump = NoJump /\ row.protocol = "ssh"

(* The jump host must itself be direct, and SSH. *)
DialJump(r) ==
    LET row == table[current[r].jump] IN
    /\ at[r] = "dialJump" /\ row # NoRow
    /\ DirectSsh(row)
    /\ result' = [result EXCEPT ![r] = row]
    /\ Goto(r, "dialing")
    /\ UNCHANGED <<table, nextId, target, form, current>>

(* Refused by a check, failed on a statement, lost with the program; and the
   end of a dial. *)
GiveUp(r) == /\ at[r] # "idle"
             /\ Over(r)
             /\ UNCHANGED <<table, nextId>>

-----------------------------------------------------------------------------
Step(r) == \/ Load(r) \/ CheckJump(r) \/ Resolve(r) \/ Insert(r) \/ Update(r)
           \/ DialJump(r) \/ GiveUp(r)
           \/ \E f \in Forms : StartCreate(r, f)
           \/ \E f \in Forms, i \in Ids : StartUpdate(r, f, i)
           \/ \E i \in Ids : StartDial(r, i)

Next == \/ \E r \in Requests : Step(r)
        \/ \E i \in Ids : Delete(i)

Spec == Init /\ [][Next]_vars

-----------------------------------------------------------------------------
(* PROPERTIES *)

Stored == {i \in Ids : table[i] # NoRow}

(* docs/rdp.md: an RDP record keeps no password, private key or jump host, and
   converting an SSH record clears them, whatever other updates of the record
   and copies of its key are in progress (server_handler.go:52-65, 118-120). *)
RdpRowsHoldNoSecrets ==
    \A i \in Stored : table[i].protocol = "rdp" =>
        table[i].key = Blank /\ table[i].password = Blank /\ table[i].jump = NoJump

(* Every SSH row can authenticate, with the method it names: keeping, giving
   and copying a credential, racing conversions and deletions, never store an
   SSH row without one (resolveCredentials, server_handler.go:117-151). *)
SshRowsCanAuthenticate ==
    \A i \in Stored : table[i].protocol = "ssh" => HasCredential(table[i])

(* Together: every row is one that validate and resolveCredentials promise. *)
RowsAreSound == RdpRowsHoldNoSecrets /\ SshRowsCanAuthenticate

(* No stored server jumps through itself.  A create cannot check this, having
   no id yet (server_handler.go:192 compares with 0): it relies on ids that
   are never given out twice. *)
NoSelfJump == \A i \in Stored : table[i].jump # i

(* A jump host reference never comes to mean a server created later. *)
JumpsPointBack == \A i \in Stored : table[i].jump < nextId

(* Together: what AUTOINCREMENT does for the jump hosts. *)
JumpsAreSound == NoSelfJump /\ JumpsPointBack

(* A deleted server stays deleted, also when an update that has read it writes
   after the DELETE. *)
DeletedStaysDeleted ==
    [][\A i \in Ids : i < nextId /\ table[i] = NoRow => table'[i] = NoRow]_vars

(* What is dialled: at most one jump, both ends SSH, different servers, each
   with the credential makeConfig will ask for, though the two rows are read
   by two statements. *)
DialIsSound ==
    \A r \in Requests : at[r] = "dialing" =>
        /\ current[r].protocol = "ssh" /\ HasCredential(current[r])
        /\ current[r].jump # target[r]
        /\ current[r].jump # NoJump =>
             /\ result[r] # NoRow
             /\ result[r].protocol = "ssh" /\ HasCredential(result[r])
             /\ result[r].jump = NoJump
=============================================================================
