-------------------------------- MODULE Startup --------------------------------
(***************************************************************************)
(* Starting OpsUp: config.Load with the secrets file, database.migrate,    *)
(* UpgradeCredentials, and then a program that stores credentials.         *)
(* Programs may start at the same time on the same files, crash at any     *)
(* point, and be started again; the operator may change the environment    *)
(* while none runs.  Of the two secrets the encryption key has a value; of  *)
(* the JWT secret only whether the environment gives it, for without it the*)
(* file is read or made whatever key is set.                               *)
(***************************************************************************)
EXTENDS Naturals, Sequences

CONSTANTS Programs,    \* programs that may run; each may generate a key, which has its name
          Values,      \* encrypted columns of server records
          Supplied,    \* a key of the operator's, for OPSUP_ENCRYPTION_KEY
          Legacy,      \* LegacyEncryptionKey
          None,        \* no key, nothing stored, no program
          Torn,        \* a secrets file whose content is not complete
          Added        \* Added[i]: the columns migration i adds to servers

ASSUME StartupAssumption ==
    /\ {Supplied, Legacy, None, Torn} \cap Programs = {}
    /\ Supplied \notin {Legacy, None, Torn} /\ Legacy \notin {None, Torn} /\ None # Torn
    /\ Len(Added) \in Nat \ {0}

VARIABLES file,        \* the secrets file: None, Torn or the key in it
          synced,      \* its content is on disk
          env, jwt,    \* OPSUP_ENCRYPTION_KEY; OPSUP_JWT_SECRET is set
          db,          \* version, columns, and what encrypts each value
          tx, work,    \* the program in a transaction, and the data it sees
          at, key      \* at[p]: the next step of p, or why it has ended

startupVars == <<file, synced, env, jwt, db, tx, work, at, key>>
disk == <<file, synced>>
environment == <<env, jwt>>

Keys == Programs \cup {Supplied, Legacy}    \* a program's own is the one it generates
Latest == Len(Added)
Columns(v) == UNION {Added[i] : i \in 1..v}

Database == [version : 0..(Latest + 1), columns : SUBSET Columns(Latest),
             cred : [Values -> Keys \cup {None}]]

Refusals == {"old default key", "damaged file", "file exists", "no write", "busy",
             "newer schema", "cannot decrypt"}
Down == {"off"} \cup Refusals

StartupTypeOK == /\ file \in Programs \cup {None, Torn} /\ synced \in BOOLEAN
                 /\ env \in {None, Supplied, Legacy} /\ jwt \in BOOLEAN
                 /\ db \in Database /\ work \in Database \cup {None}
                 /\ tx \in Programs \cup {None}
                 /\ at \in [Programs -> Down \cup {"read", "create", "write", "sync", "migrate",
                                                   "migrating", "upgrade", "upgrading", "serving"}]
                 /\ key \in [Programs -> Keys \cup {None}]
                 /\ \A p \in Programs : tx = p <=> at[p] \in {"migrating", "upgrading"}

(* A database of any earlier release: version 0 is the unversioned one, which
   may have some of the columns already, and old or operator's keys. *)
StartupInit == /\ file = None /\ synced = TRUE
               /\ env \in {None, Supplied, Legacy} /\ jwt \in BOOLEAN
               /\ db \in Database
               /\ db.columns \in IF db.version = 0 THEN SUBSET Added[1]
                                 ELSE {Columns(IF db.version > Latest THEN Latest ELSE db.version)}
               /\ \A v \in Values : db.cred[v] \notin Programs
               /\ tx = None /\ work = None
               /\ at = [p \in Programs |-> "off"]
               /\ key = [p \in Programs |-> None]

-----------------------------------------------------------------------------
Goto(p, l) == at' = [at EXCEPT ![p] = l]
Uses(p, k) == key' = [key EXCEPT ![p] = k]

(* config.Load: the file is needed when either secret is not in the environment;
   the key of the environment goes before that of the file, and is checked last. *)
Chosen(k) == IF env = None THEN k ELSE env
Admitted(k) == IF k = Legacy THEN "old default key" ELSE "migrate"

LoadConfig(p) ==
    /\ at[p] \in Down
    /\ Goto(p, IF env = None \/ ~jwt THEN "read" ELSE Admitted(env))
    /\ Uses(p, env)
    /\ UNCHANGED <<disk, environment, db, tx, work>>

\* A random key is new.  Bound: a program whose key encrypts something generates
\* no second one; the other programs stand for it.
IsNew(k) == \A v \in Values : db.cred[v] # k

ReadSecrets(p) ==
    /\ at[p] = "read"
    /\ \/ file = None /\ IsNew(p) /\ Goto(p, "create") /\ Uses(p, Chosen(p))
       \/ file = Torn /\ Goto(p, "damaged file") /\ Uses(p, None)
       \/ file \in Programs /\ Goto(p, Admitted(Chosen(file))) /\ Uses(p, Chosen(file))
    /\ UNCHANGED <<disk, environment, db, tx, work>>

(* O_EXCL: of several programs that saw no file one makes it. *)
Truncates == TRUE                  \* fault: O_TRUNC in the place of O_EXCL
MayCreate == file = None
CreateFile(p) ==
    /\ at[p] = "create"
    /\ \/ MayCreate /\ file' = Torn /\ synced' = FALSE /\ Goto(p, "write")
       \/ ~MayCreate /\ UNCHANGED disk /\ Goto(p, "file exists")
    /\ UNCHANGED <<environment, db, tx, work, key>>

WriteFile(p) ==
    /\ at[p] = "write"
    /\ \/ file' = p /\ Goto(p, "sync")
       \/ UNCHANGED file /\ Goto(p, "no write")
    /\ UNCHANGED <<synced, environment, db, tx, work, key>>

SyncFile(p) ==
    /\ at[p] = "sync"
    /\ \/ synced' = TRUE /\ Goto(p, Admitted(key[p]))
       \/ UNCHANGED synced /\ Goto(p, "no write")
    /\ UNCHANGED <<file, environment, db, tx, work, key>>

-----------------------------------------------------------------------------
(* Transactions: BEGIN IMMEDIATE takes the only write lock, or fails after
   the busy timeout; an error or a crash rolls back. *)
Begin(p, here, next) ==
    /\ at[p] = here
    /\ \/ tx = None /\ tx' = p /\ work' = db /\ Goto(p, next)
       \/ tx # None /\ UNCHANGED <<tx, work>> /\ Goto(p, "busy")
    /\ UNCHANGED <<disk, environment, db, key>>

Autocommits(p, new) == work' = new /\ db' = new    \* fault: db.Exec, not tx.Exec
Changes(p, new) == work' = new /\ UNCHANGED db

Execute(p, new) == Changes(p, new) /\ UNCHANGED <<disk, environment, tx, at, key>>

Commit(p, next) == /\ db' = work /\ tx' = None /\ work' = None /\ Goto(p, next)
                   /\ UNCHANGED <<disk, environment, key>>

Rollback(p, reason) == /\ tx' = None /\ work' = None /\ Goto(p, reason)
                       /\ UNCHANGED <<disk, environment, db, key>>

(* migrate: the migrations not yet applied, in one transaction. *)
TooNew(p) == at[p] = "migrating" /\ work.version > Latest /\ Rollback(p, "newer schema")

\* addServerColumn adds only what is missing.
AddColumns(p) ==
    /\ at[p] = "migrating" /\ work.version < Latest
    /\ LET i == work.version + 1
       IN  Execute(p, [work EXCEPT !.columns = @ \cup Added[i], !.version = i])

Migrate(p) == at[p] = "migrating" /\ work.version = Latest /\ Commit(p, "upgrade")

(* UpgradeCredentials: every value is read before one is written. *)
Readable(p, v) == work.cred[v] \in {None, key[p], Legacy}
Old(d) == {v \in Values : d.cred[v] = Legacy}

Undecryptable(p) == /\ at[p] = "upgrading" /\ \E v \in Values : ~Readable(p, v)
                    /\ Rollback(p, "cannot decrypt")

SkipsUnreadable(p) == TRUE         \* fault: a value no key decrypts is passed over
AllReadable(p) == \A v \in Values : Readable(p, v)

Reencrypt(p, v) ==
    /\ at[p] = "upgrading" /\ v \in Old(work) /\ AllReadable(p)
    /\ Execute(p, [work EXCEPT !.cred[v] = key[p]])

Upgrade(p) == /\ at[p] = "upgrading" /\ Old(work) = {} /\ AllReadable(p)
              /\ Commit(p, "serving")

-----------------------------------------------------------------------------
(* A program that serves stores credentials, and removes them. *)
Store(p, v) ==
    /\ at[p] = "serving" /\ tx = None
    /\ \E k \in {None, key[p]} : db' = [db EXCEPT !.cred[v] = k]
    /\ UNCHANGED <<disk, environment, tx, work, at, key>>

Crash(p) == /\ at[p] \notin Down /\ Goto(p, "off")
            /\ IF tx = p THEN tx' = None /\ work' = None ELSE UNCHANGED <<tx, work>>
            /\ Uses(p, None)
            /\ UNCHANGED <<disk, environment, db>>

\* Of what was not synced the content may be lost, or the name with it.
PowerLoss == /\ at' = [p \in Programs |-> "off"] /\ tx' = None /\ work' = None
             /\ key' = [p \in Programs |-> None]
             /\ file' \in IF synced \/ file = None THEN {file} ELSE {file, Torn, None}
             /\ synced' = TRUE
             /\ UNCHANGED <<environment, db>>

Reconfigure == /\ \A p \in Programs : at[p] \in Down
               /\ env' \in {None, Supplied, Legacy} /\ jwt' \in BOOLEAN
               /\ UNCHANGED <<disk, db, tx, work, at, key>>

StartupNext == \/ PowerLoss \/ Reconfigure
               \/ \E p \in Programs :
                     \/ LoadConfig(p) \/ ReadSecrets(p) \/ CreateFile(p) \/ WriteFile(p) \/ SyncFile(p)
                     \/ Begin(p, "migrate", "migrating") \/ TooNew(p) \/ AddColumns(p) \/ Migrate(p)
                     \/ Begin(p, "upgrade", "upgrading") \/ Undecryptable(p) \/ Upgrade(p)
                     \/ Crash(p)
                     \/ \E v \in Values : Reencrypt(p, v) \/ Store(p, v)

StartupSpec == StartupInit /\ [][StartupNext]_startupVars

-----------------------------------------------------------------------------
(* A program serves only credentials it can decrypt, and all of them, whatever
   keys earlier programs used (credentials.go:45-47). *)
ServedAreReadable ==
    \A p \in Programs : at[p] = "serving" =>
        \A v \in Values : db.cred[v] \in {None, key[p]}

(* A generated key that encrypts something is the one in the secrets file: "a
   persistent random key" (README.md:167). *)
GeneratedKeyIsKept ==
    \A v \in Values : db.cred[v] \in Programs => file = db.cred[v]

(* Only the machine stops that: no race, crash or restart of programs makes a
   generated key differ from the file, but for a power loss before its sync
   (the comment at config.go:102). *)
OnlyPowerTakesKey ==
    [][GeneratedKeyIsKept /\ ~GeneratedKeyIsKept'
          => ~synced /\ \A p \in Programs : at'[p] = "off"]_startupVars

(* Old credentials are re-encrypted all at once or not at all, "without partially
   changing credentials" (README.md:183), and an old schema becomes the latest at
   once, whatever columns the unversioned release had (migrations.go:45, 71-94). *)
UpgradeIsAtomic ==
    [][/\ Old(db') # Old(db) => Old(db') = {}
       /\ \/ db'.version = db.version /\ db'.columns = db.columns
          \/ db'.version = Latest /\ db'.columns = Columns(Latest)]_startupVars
=============================================================================
