----------------------------- MODULE ServerProofs -----------------------------
(***************************************************************************)
(* Theorems about the server's start and its sign-in.  Of Auth: for any    *)
(* number of windows and of requests.  Of Startup: for any number of       *)
(* programs, of encrypted columns and of migrations, and any sequence of   *)
(* starts, crashes and power losses.                                       *)
(***************************************************************************)
EXTENDS Auth, Startup, TLAPS

-----------------------------------------------------------------------------
(* Sign-in *)

\* What a request may be when u are the users: only a setup has counted, a
\* setup names a window, and one that was told yes names a user.
Good(r, u) ==
  /\ r \in Request
  /\ r.phase = "counted" => r.kind = "setup"
  /\ r.kind = "setup" => r.name \in Windows
  /\ r.kind = "setup" /\ r.phase = "yes" => r.name \in u

Single(u) == u \subseteq Windows /\ \A m, n \in u : m = n

Places == /\ token \in Token /\ page \in [Windows -> Pages \cup {"closed"}]
          /\ checked \in [Windows -> Checks]

IInv == Places /\ Single(users) /\ \A r \in requests : Good(r, users)

LEMMA InitInv == Init => IInv
BY DEF Init, IInv, Places, Single, Token, Checks

\* A request stays good when the users become more.
LEMMA GoodGrows ==
  ASSUME NEW r, NEW u, NEW v, Good(r, u), u \subseteq v
  PROVE  Good(r, v)
BY DEF Good

-----------------------------------------------------------------------------
(* The steps of the server *)

\* The server works on one request, and the table only grows.
LEMMA Answered ==
  ASSUME IInv, NEW r \in requests, NEW phase, Done(r, phase),
         UNCHANGED <<token, page, checked>>, users \subseteq users', Single(users'),
         Good([r EXCEPT !.phase = phase], users')
  PROVE  IInv'
<1>1. ASSUME NEW q \in requests' PROVE Good(q, users')
  <2>1. CASE q = [r EXCEPT !.phase = phase]
    BY <2>1
  <2>2. CASE q \in requests
    BY <2>2, GoodGrows DEF IInv
  <2> QED BY <2>1, <2>2 DEF Done
<1>2. Places'
  BY DEF IInv, Places
<1> QED BY <1>1, <1>2 DEF IInv

\* A request in another phase: everything but the phase is as it was.
LEMMA Rephased ==
  ASSUME NEW u, NEW r, Good(r, u),
         NEW phase \in {"sent", "counted", "yes", "no", "denied", "failed"},
         phase = "counted" => r.kind = "setup",
         r.kind = "setup" /\ phase = "yes" => r.name \in u
  PROVE  Good([r EXCEPT !.phase = phase], u)
BY DEF Good, Request

LEMMA ServeInv ==
  ASSUME IInv, NEW r \in requests, Serve(r)
  PROVE  IInv'
<1>1. Good(r, users) /\ Single(users) /\ UNCHANGED <<token, page, checked>>
  BY DEF IInv, Serve
<1>2. CASE AuthStatus(r)
  <2> DEFINE phase == IF users # {} THEN "yes" ELSE "no"
  <2>1. Good([r EXCEPT !.phase = phase], users)
    BY <1>1, <1>2, Rephased DEF AuthStatus
  <2> QED BY <1>1, <1>2, <2>1, Answered DEF AuthStatus
<1>3. CASE CountUsers(r)
  <2> DEFINE phase == IF users # {} THEN "failed" ELSE "counted"
  <2>1. Good([r EXCEPT !.phase = phase], users)
    BY <1>1, <1>3, Rephased DEF CountUsers
  <2> QED BY <1>1, <1>3, <2>1, Answered DEF CountUsers
<1>4. CASE CreateFirstUser(r)
  <2>1. r.kind = "setup" /\ r.name \in Windows
    BY <1>1, <1>4 DEF CreateFirstUser, Good
  <2>2. CASE Inserts
    <3>1. users = {} /\ users' = {r.name}
      BY <1>4, <2>2 DEF CreateFirstUser, Inserts
    <3>2. PICK phase \in {"yes", "failed"} : Done(r, phase)
      BY <1>4, <2>2 DEF CreateFirstUser
    <3>3. Single(users') /\ users \subseteq users'
      BY <3>1, <2>1 DEF Single
    <3>4. Good(r, users')
      BY <1>1, <3>3, GoodGrows
    <3>5. Good([r EXCEPT !.phase = phase], users')
      BY <3>1, <3>4, Rephased
    <3> QED BY <1>1, <3>2, <3>3, <3>5, Answered
  <2>3. CASE ~Inserts
    <3>1. Good([r EXCEPT !.phase = "failed"], users)
      BY <1>1, Rephased
    <3> QED BY <1>1, <1>4, <2>3, <3>1, Answered DEF CreateFirstUser
  <2> QED BY <2>2, <2>3
<1>5. CASE AuthLogin(r)
  <2>1. \A phase \in {"yes", "denied"} : Good([r EXCEPT !.phase = phase], users)
    BY <1>1, <1>5, Rephased DEF AuthLogin
  <2> QED BY <1>1, <1>5, <2>1, Answered DEF AuthLogin
<1>6. CASE ListServers(r)
  <2> DEFINE phase == IF r.token = "valid" THEN "yes" ELSE "denied"
  <2>1. Good([r EXCEPT !.phase = phase], users)
    BY <1>1, <1>6, Rephased DEF ListServers
  <2> QED BY <1>1, <1>6, <2>1, Answered DEF ListServers
<1>7. CASE Fails(r)
  <2>1. Good([r EXCEPT !.phase = "failed"], users)
    BY <1>1, Rephased
  <2> QED BY <1>1, <1>7, <2>1, Answered DEF Fails
<1> QED BY <1>2, <1>3, <1>4, <1>5, <1>6, <1>7 DEF Serve

-----------------------------------------------------------------------------
(* The steps of the browser *)

\* What a page asks when it is mounted.
LEMMA AskGood ==
  ASSUME NEW w \in Windows, NEW p \in Pages, NEW t \in Token, NEW u
  PROVE  Good(Ask(w, p, t), u)
BY DEF Good, Ask, Request, Kinds, Token

LEMMA LandingIsPage ==
  ASSUME NEW p \in Pages, NEW t
  PROVE  Landing(p, t) \in Pages
BY DEF Landing, Pages

\* A document is loaded.
LEMMA LoadInv ==
  ASSUME IInv, NEW w \in Windows, NEW p \in Pages, NEW t \in Token,
         NEW rest \in SUBSET requests, Load(w, p, t, rest), token' \in Token, UNCHANGED users
  PROVE  IInv'
<1>1. Landing(p, t) \in Pages
  BY LandingIsPage
<1>2. ASSUME NEW q \in requests' PROVE Good(q, users')
  <2>1. CASE q \in requests
    BY <2>1 DEF IInv
  <2>2. CASE q = Ask(w, Landing(p, t), t)
    BY <1>1, <2>2, AskGood
  <2>3. CASE \E r \in requests : q = [r EXCEPT !.window = Nobody]
    <3>1. PICK r \in requests : q = [r EXCEPT !.window = Nobody]
      BY <2>3
    <3>2. Good(r, users)
      BY DEF IInv
    <3> QED BY <3>1, <3>2 DEF Good, Request
  <2> QED BY <2>1, <2>2, <2>3 DEF Load, Unheard
<1>3. Places'
  BY <1>1 DEF IInv, Places, Load, Checks
<1> QED BY <1>2, <1>3 DEF IInv

\* A page of the router is mounted.
LEMMA NavigateInv ==
  ASSUME IInv, NEW w \in Windows, NEW p \in Pages, NEW t \in Token,
         NEW rest \in SUBSET requests, Navigate(w, p, t, rest), token' \in Token, UNCHANGED users
  PROVE  IInv'
<1>1. Landing(p, t) \in Pages
  BY LandingIsPage
<1>2. ASSUME NEW q \in requests' PROVE Good(q, users')
  <2>1. CASE q \in requests
    BY <2>1 DEF IInv
  <2>2. CASE q = Ask(w, Landing(p, t), t)
    BY <1>1, <2>2, AskGood
  <2> QED BY <2>1, <2>2 DEF Navigate
<1>3. Places'
  BY <1>1 DEF IInv, Places, Navigate, Checks
<1> QED BY <1>2, <1>3 DEF IInv

LEMMA AnswerInv ==
  ASSUME IInv, NEW r \in requests, Answer(r)
  PROVE  IInv'
<1> DEFINE rest == requests \ {r}
<1>1. r \in Request /\ Good(r, users) /\ UNCHANGED users
  BY DEF IInv, Good, Answer
<1>2. rest \in SUBSET requests /\ token \in Token /\ "login" \in Pages /\ "main" \in Pages
      /\ NoToken \in Token /\ "valid" \in Token
  BY DEF IInv, Places, Pages, Token
<1>3. CASE requests' = rest /\ UNCHANGED <<token, page>> /\ checked' \in [Windows -> Checks]
  BY <1>1, <1>3 DEF IInv, Places
<1>4. CASE r.window = Nobody
  BY <1>3, <1>4 DEF Answer, IInv, Places
<1>5. CASE r.window # Nobody
  <2>1. r.window \in Windows
    BY <1>1, <1>5 DEF Request
  <2>2. CASE r.phase = "denied"
    <3>1. token' = NoToken /\ Load(r.window, "login", NoToken, rest)
      BY <1>5, <2>2 DEF Answer
    <3> QED BY <1>1, <1>2, <2>1, <3>1, LoadInv
  <2>3. CASE r.kind \in {"login", "setup"} /\ r.phase = "yes"
    <3>1. token' = "valid" /\ Navigate(r.window, "main", "valid", rest)
      BY <1>5, <2>3 DEF Answer
    <3> QED BY <1>1, <1>2, <2>1, <3>1, NavigateInv
  <2>4. CASE r.kind \in {"login", "setup"} /\ r.phase = "failed"
    BY <1>3, <1>5, <2>4 DEF Answer, IInv, Places
  <2>5. CASE r.kind \in {"status", "list"} /\ r.phase # "denied"
    <3>1. UNCHANGED token
      BY <1>5, <2>5 DEF Answer
    <3>2. CASE Redirects(r)
      <4>1. Navigate(r.window, Redirection(r), token, rest)
        BY <1>5, <2>5, <3>2 DEF Answer
      <4>2. Redirection(r) \in Pages
        BY DEF Redirection, Pages
      <4> QED BY <1>1, <1>2, <2>1, <3>1, <4>1, <4>2, NavigateInv
    <3>3. CASE ~Redirects(r)
      <4>1. requests' = rest /\ UNCHANGED page /\ Checked(r)
        BY <1>5, <2>5, <3>3 DEF Answer
      <4>2. r.phase \in Checks
        BY <2>5 DEF Answer, IsAnswered, Checks
      <4>3. checked' \in [Windows -> Checks]
        BY <4>1, <4>2 DEF Checked, IInv, Places
      <4> QED BY <1>3, <3>1, <4>1, <4>3
    <3> QED BY <3>2, <3>3
  <2>6. r.kind \in {"login", "setup"} \/ r.kind \in {"status", "list"}
    BY <1>1 DEF Request, Kinds
  <2> QED BY <1>5, <2>2, <2>3, <2>4, <2>5, <2>6 DEF Answer
<1> QED BY <1>4, <1>5

LEMMA UserInv ==
  ASSUME IInv, User
  PROVE  IInv'
<1>1. ASSUME NEW w \in Windows, Logout(w) PROVE IInv'
  <2>1. "login" \in Pages /\ NoToken \in Token
    BY DEF Pages, Token
  <2> QED BY <1>1, <2>1, LoadInv DEF Logout
<1>2. ASSUME NEW w \in Windows, NEW p \in Pages, Visit(w, p) PROVE IInv'
  BY <1>2, LoadInv DEF Visit, IInv, Places
<1>3. ASSUME NEW w \in Windows, NEW kind \in {"login", "setup"},
             NEW n \in {Nobody, w}, kind = "setup" => n = w, Submit(w, kind, n)
      PROVE  IInv'
  <2> DEFINE new == [window |-> w, kind |-> kind, page |-> kind, name |-> n,
                     token |-> NoToken, phase |-> "sent"]
  <2>1. Good(new, users)
    BY <1>3 DEF Good, Request, Kinds, Pages, Token
  <2>2. requests' = requests \cup {new} /\ UNCHANGED <<users, token, page, checked>>
    BY <1>3 DEF Submit
  <2> QED BY <2>1, <2>2 DEF IInv, Places
<1>4. CASE Expire
  <2>1. ASSUME NEW q \in requests' PROVE Good(q, users)
    <3>1. PICK r \in requests :
            q = IF r.token = "valid" THEN [r EXCEPT !.token = "expired"] ELSE r
      BY <1>4 DEF Expire
    <3>2. Good(r, users)
      BY DEF IInv
    <3> QED BY <3>1, <3>2 DEF Good, Request, Token
  <2>2. Places' /\ UNCHANGED users
    BY <1>4 DEF Expire, IInv, Places, Token
  <2> QED BY <2>1, <2>2 DEF IInv
<1> QED BY <1>1, <1>2, <1>3, <1>4 DEF User

-----------------------------------------------------------------------------
(* Theorems about signing in *)

\* The table of users and what every request has been told agree, for any
\* number of windows and any order of counting, hashing and inserting.
THEOREM InvCorrect == Spec => []IInv
<1>1. IInv /\ [Next]_vars => IInv'
  <2> SUFFICES ASSUME IInv, [Next]_vars PROVE IInv'
    OBVIOUS
  <2>1. CASE User
    BY <2>1, UserInv
  <2>2. ASSUME NEW r \in requests, Serve(r) \/ Answer(r) PROVE IInv'
    BY <2>2, ServeInv, AnswerInv
  <2>3. CASE UNCHANGED vars
    BY <2>3 DEF IInv, Places, vars
  <2> QED BY <2>1, <2>2, <2>3 DEF Next, Progress
<1> QED BY <1>1, InitInv, PTL DEF Spec

\* There is one administrator at most, whatever counts and inserts overlap
\* (CreateFirstUser, user.go 27), and only he was told so.
THEOREM AdministratorCorrect == Spec => []OneAdministrator
<1>1. IInv => OneAdministrator
  BY DEF IInv, Single, Good, OneAdministrator
<1> QED BY <1>1, InvCorrect, PTL

\* Every variable keeps its type.
THEOREM TypeCorrect == Spec => []TypeOK
<1>1. IInv => TypeOK
  BY DEF IInv, Places, Single, Good, TypeOK
<1> QED BY <1>1, InvCorrect, PTL

-----------------------------------------------------------------------------
(* Startup: what always holds *)

\* What the credentials of a database may be.
Data(d) == "cred" \in DOMAIN d /\ d.cred \in [Values -> Keys \cup {None}]

Steps == Down \cup {"read", "create", "write", "sync", "migrate", "migrating",
                    "upgrade", "upgrading", "serving"}
Creating == {"create", "write"}
Loaded == {"migrate", "migrating", "upgrade", "upgrading", "serving"}

Ranges == /\ file \in Programs \cup {None, Torn} /\ env \in {None, Supplied, Legacy}
         /\ tx \in Programs \cup {None}
         /\ at \in [Programs -> Steps] /\ key \in [Programs -> Keys \cup {None}]

\* One program has the lock; the data it sees is the database's, but for what it
\* has re-encrypted.
LockInv ==
  /\ \A p \in Programs : tx = p <=> at[p] \in {"migrating", "upgrading"}
  /\ Data(db)
  /\ tx # None => /\ Data(work)
                  /\ at[tx] = "migrating" => work.cred = db.cred

\* The program that writes the file found none, and is the only one; what a
\* program uses once it has loaded its configuration is the operator's key or
\* the one in the file.
KeyFits(p) ==
  /\ at[p] \in Creating => key[p] = Chosen(p)
  /\ at[p] = "write" => file = Torn /\ \A q \in Programs : at[q] = "write" => q = p
  /\ at[p] = "sync" => file \in Programs /\ key[p] = Chosen(file)
  /\ at[p] \in Loaded => \/ env = Supplied /\ key[p] = Supplied
                         \/ env = None /\ file \in Programs /\ key[p] = file

FileInv == \A p \in Programs : KeyFits(p)

StartupInv == Ranges /\ LockInv /\ FileInv /\ ServedAreReadable

\* Programs that have loaded their configuration use one key, and not an old one.
LEMMA OneKey ==
  ASSUME StartupInv, NEW p \in Programs, at[p] \in Loaded
  PROVE  /\ key[p] \in Programs \cup {Supplied} /\ key[p] \notin {None, Legacy}
         /\ key[p] \in Programs => key[p] = file
         /\ \A q \in Programs : at[q] \in Loaded => key[q] = key[p]
BY StartupAssumption DEF StartupInv, FileInv, KeyFits, Chosen

LEMMA StartupInitInv == StartupInit => StartupInv
<1> SUFFICES ASSUME StartupInit PROVE StartupInv
  OBVIOUS
<1>1. Data(db)
  BY DEF StartupInit, Database, Data
<1>2. tx = None /\ \A p \in Programs : at[p] = "off"
  BY DEF StartupInit
<1>3. Ranges
  BY DEF StartupInit, Ranges, Steps, Down
<1>4. LockInv
  BY <1>1, <1>2, StartupAssumption DEF LockInv
<1>5. FileInv /\ ServedAreReadable
  BY <1>2 DEF FileInv, KeyFits, Chosen, Creating, Loaded, ServedAreReadable
<1> QED BY <1>3, <1>4, <1>5 DEF StartupInv

-----------------------------------------------------------------------------
(* Loading the configuration *)

LEMMA Goes ==
  ASSUME StartupInv, NEW p \in Programs, NEW l \in Steps, Goto(p, l)
  PROVE  /\ at' \in [Programs -> Steps] /\ at'[p] = l
         /\ \A q \in Programs : q # p => at'[q] = at[q]
BY DEF StartupInv, Ranges, Goto

\* No other program relies on the file.
Alone(p) == \A q \in Programs : /\ q # p => at[q] \notin {"write", "sync"}
                                /\ at[q] \in Loaded => env = Supplied

\* A step of p may change the file only then.
LEMMA OthersFit ==
  ASSUME StartupInv, NEW p \in Programs, NEW l \in Steps, Goto(p, l), UNCHANGED env,
         \A q \in Programs : q # p => key'[q] = key[q],
         file' = file \/ Alone(p),
         KeyFits(p)'
  PROVE  FileInv'
<1> SUFFICES ASSUME NEW q \in Programs, q # p PROVE KeyFits(q)'
  BY DEF FileInv
<1>1. /\ at'[q] = at[q] /\ key'[q] = key[q] /\ KeyFits(q)
      /\ \A o \in Programs : at'[o] = "write" => at[o] = "write" \/ o = p
  BY Goes DEF StartupInv, FileInv
<1>2. at'[p] = "write" => at[q] # "write"
  BY <1>1 DEF KeyFits, Chosen
<1>3. CASE at[q] \in Loaded
  <2>1. env = Supplied \/ file' = file
    BY <1>3 DEF Alone
  <2> QED BY <1>1, <1>3, <2>1, StartupAssumption DEF KeyFits, Creating, Loaded
<1>4. CASE at[q] \in {"write", "sync"}
  BY <1>1, <1>2, <1>4 DEF Alone, KeyFits, Chosen, Creating, Loaded
<1>5. CASE at[q] \notin Loaded \cup {"write", "sync"}
  BY <1>1, <1>5 DEF KeyFits, Chosen, Creating
<1> QED BY <1>3, <1>4, <1>5

\* A step of one program that leaves the data and the lock alone.
LEMMA LoadingInv ==
  ASSUME StartupInv, NEW p \in Programs, NEW l \in Steps, Goto(p, l),
         at[p] \notin {"migrating", "upgrading"}, l \notin {"migrating", "upgrading", "serving"},
         UNCHANGED <<env, db, tx, work>>,
         file' \in Programs \cup {None, Torn}, key' \in [Programs -> Keys \cup {None}],
         \A q \in Programs : q # p => key'[q] = key[q],
         FileInv'
  PROVE  StartupInv'
<1>1. /\ at' \in [Programs -> Steps] /\ at'[p] = l
      /\ \A q \in Programs : q # p => at'[q] = at[q]
  BY Goes
<1>2. Ranges'
  BY <1>1 DEF StartupInv, Ranges
<1>3. LockInv'
  BY <1>1 DEF StartupInv, LockInv, Ranges, Data
<1>4. ServedAreReadable'
  BY <1>1 DEF StartupInv, ServedAreReadable
<1> QED BY <1>2, <1>3, <1>4 DEF StartupInv

\* The key a program chooses, when none or one of the file is there to choose.
LEMMA ChosenFits ==
  ASSUME StartupInv, NEW k \in Programs
  PROVE  /\ Chosen(k) \in Keys /\ Admitted(Chosen(k)) \in {"old default key", "migrate"}
         /\ \/ Admitted(Chosen(k)) # "migrate"
            \/ env = Supplied /\ Chosen(k) = Supplied
            \/ env = None /\ Chosen(k) = k
BY StartupAssumption DEF StartupInv, Ranges, Chosen, Admitted, Keys

\* p goes on with key k, and the file stays.
LEMMA ChoiceInv ==
  ASSUME StartupInv, NEW p \in Programs, at[p] \notin {"migrating", "upgrading"},
         NEW l \in {"read", "create", "migrate"} \cup Refusals, NEW k \in Keys \cup {None},
         Goto(p, l), Uses(p, k), UNCHANGED <<file, env, db, tx, work>>,
         l = "create" => k = Chosen(p),
         l = "migrate" => (\/ env = Supplied /\ k = Supplied
                           \/ env = None /\ file \in Programs /\ k = file)
  PROVE  StartupInv'
<1>1. /\ key'[p] = k /\ \A q \in Programs : q # p => key'[q] = key[q]
      /\ key' \in [Programs -> Keys \cup {None}] /\ Ranges
  BY DEF StartupInv, Ranges, Uses
<1>2. l \in Steps
  BY DEF Steps, Down
<1>3. KeyFits(p)'
  BY <1>1, <1>2, Goes DEF KeyFits, Creating, Loaded, Refusals, Chosen
<1>4. FileInv'
  BY <1>1, <1>2, <1>3, OthersFit
<1> QED BY <1>1, <1>2, <1>4, LoadingInv DEF Ranges, Refusals

LEMMA LoadConfigInv ==
  ASSUME StartupInv, NEW p \in Programs, LoadConfig(p)
  PROVE  StartupInv'
<1> DEFINE l == IF env = None \/ ~jwt THEN "read" ELSE Admitted(env)
<1>1. /\ at[p] \in Down /\ Goto(p, l) /\ Uses(p, env) /\ UNCHANGED <<file, env, db, tx, work>>
  BY DEF LoadConfig, disk, environment
<1>2. l \in {"read", "migrate", "old default key"} /\ (l = "migrate" => env = Supplied)
  BY StartupAssumption DEF StartupInv, Ranges, Admitted
<1>3. env \in Keys \cup {None}
  BY DEF StartupInv, Ranges, Keys
<1> HIDE DEF l
<1> QED BY <1>1, <1>2, <1>3, ChoiceInv DEF Down, Refusals

LEMMA ReadSecretsInv ==
  ASSUME StartupInv, NEW p \in Programs, ReadSecrets(p)
  PROVE  StartupInv'
<1>1. at[p] = "read" /\ UNCHANGED <<file, env, db, tx, work>>
  BY DEF ReadSecrets, disk, environment
<1>2. CASE Goto(p, "create") /\ Uses(p, Chosen(p))
  BY <1>1, <1>2, ChosenFits, ChoiceInv
<1>3. CASE Goto(p, "damaged file") /\ Uses(p, None)
  BY <1>1, <1>3, ChoiceInv DEF Refusals
<1>4. CASE file \in Programs /\ Goto(p, Admitted(Chosen(file))) /\ Uses(p, Chosen(file))
  <2> DEFINE l == Admitted(Chosen(file))
             k == Chosen(file)
  <2>1. /\ k \in Keys /\ l \in {"old default key", "migrate"}
        /\ l = "migrate" => (env = Supplied /\ k = Supplied) \/ (env = None /\ k = file)
    BY <1>4, ChosenFits
  <2>2. Goto(p, l) /\ Uses(p, k) /\ file \in Programs
    BY <1>4
  <2> HIDE DEF l, k
  <2> QED BY <1>1, <2>1, <2>2, ChoiceInv DEF Refusals
<1> QED BY <1>2, <1>3, <1>4 DEF ReadSecrets

\* With no file, or a file that is not complete, no program relies on it.
LEMMA NobodyLoaded ==
  ASSUME StartupInv, NEW p \in Programs, at[p] \in Creating, file \in {None, Torn}
  PROVE  \A q \in Programs : /\ at[q] # "sync" /\ (at[q] \in Loaded => env = Supplied)
                             /\ at[q] = "write" /\ file = None => FALSE
                             /\ at[q] = "write" /\ at[p] = "write" => q = p
BY StartupAssumption DEF StartupInv, FileInv, KeyFits, Chosen, Creating

LEMMA CreateFileInv ==
  ASSUME StartupInv, NEW p \in Programs, CreateFile(p)
  PROVE  StartupInv'
<1>1. /\ at[p] = "create" /\ key' = key /\ UNCHANGED <<env, db, tx, work>>
      /\ Ranges /\ KeyFits(p)
  BY DEF CreateFile, environment, StartupInv, FileInv
<1>2. CASE file = None /\ file' = Torn /\ Goto(p, "write")
  <2>1. Alone(p)
    BY <1>1, <1>2, NobodyLoaded DEF Creating, Alone
  <2>2. "write" \in Steps
    BY DEF Steps
  <2>5. /\ at'[p] = "write" /\ \A q \in Programs : q # p => at'[q] = at[q]
    BY <1>2, <2>2, Goes
  <2>6. key[p] = Chosen(p) /\ Chosen(p)' = Chosen(p)
    BY <1>1 DEF KeyFits, Creating, Chosen
  <2>3. KeyFits(p)'
    BY <1>1, <1>2, <2>1, <2>5, <2>6 DEF Alone, KeyFits, Creating, Loaded
  <2>4. FileInv'
    BY <1>1, <1>2, <2>1, <2>2, <2>3, OthersFit
  <2> QED BY <1>1, <1>2, <2>2, <2>4, LoadingInv DEF Ranges
<1>3. CASE UNCHANGED disk /\ Goto(p, "file exists")
  <2>1. "file exists" \in Steps /\ file' = file
    BY <1>3 DEF Steps, Down, Refusals, disk, environment
  <2>2. KeyFits(p)'
    BY <1>1, <1>3, <2>1, Goes DEF KeyFits, Chosen, Creating, Loaded
  <2>3. FileInv'
    BY <1>1, <1>3, <2>1, <2>2, OthersFit
  <2> QED BY <1>1, <1>3, <2>1, <2>3, LoadingInv DEF Ranges
<1> QED BY <1>2, <1>3 DEF CreateFile, MayCreate

LEMMA WriteFileInv ==
  ASSUME StartupInv, NEW p \in Programs, WriteFile(p)
  PROVE  StartupInv'
<1>1. /\ at[p] = "write" /\ key' = key /\ UNCHANGED <<env, db, tx, work>>
      /\ Ranges /\ KeyFits(p)
  BY DEF WriteFile, environment, StartupInv, FileInv
<1>2. key[p] = Chosen(p) /\ file = Torn
  BY <1>1 DEF KeyFits, Chosen, Creating
<1>3. CASE file' = p /\ Goto(p, "sync")
  <2>1. Alone(p)
    BY <1>1, <1>2, NobodyLoaded DEF Creating, Alone
  <2>2. "sync" \in Steps
    BY DEF Steps
  <2>3. KeyFits(p)'
    BY <1>1, <1>2, <1>3, <2>2, Goes DEF KeyFits, Chosen, Creating, Loaded
  <2>4. FileInv'
    BY <1>1, <1>3, <2>1, <2>2, <2>3, OthersFit
  <2> QED BY <1>1, <1>2, <1>3, <2>2, <2>4, LoadingInv DEF Ranges
<1>4. CASE UNCHANGED file /\ Goto(p, "no write")
  <2>1. "no write" \in Steps
    BY DEF Steps, Down, Refusals
  <2>2. KeyFits(p)'
    BY <1>1, <1>4, <2>1, Goes DEF KeyFits, Chosen, Creating, Loaded
  <2>3. FileInv'
    BY <1>1, <1>4, <2>1, <2>2, OthersFit
  <2> QED BY <1>1, <1>4, <2>1, <2>3, LoadingInv DEF Ranges
<1> QED BY <1>3, <1>4 DEF WriteFile

LEMMA SyncFileInv ==
  ASSUME StartupInv, NEW p \in Programs, SyncFile(p)
  PROVE  StartupInv'
<1> DEFINE k == key[p]
           c == Admitted(k)
<1>1. /\ at[p] = "sync" /\ file \in Programs /\ k = Chosen(file) /\ Uses(p, k)
      /\ UNCHANGED <<file, env, db, tx, work>>
  BY DEF SyncFile, StartupInv, Ranges, FileInv, KeyFits, Chosen, Uses, environment
<1>2. /\ k \in Keys /\ c \in {"old default key", "migrate"}
      /\ c = "migrate" => (env = Supplied /\ k = Supplied) \/ (env = None /\ k = file)
  BY <1>1, ChosenFits
<1>3. PICK l \in {c, "no write"} : Goto(p, l)
  BY DEF SyncFile
<1> HIDE DEF k, c
<1> QED BY <1>1, <1>2, <1>3, ChoiceInv DEF Refusals

-----------------------------------------------------------------------------
(* Transactions *)

\* A program that has loaded its key goes on, or ends.
LEMMA StaysFit ==
  ASSUME StartupInv, NEW p \in Programs, at[p] \in Loaded, NEW l \in Loaded \cup Down,
         Goto(p, l), UNCHANGED <<file, env, key>>
  PROVE  FileInv' /\ l \in Steps
<1>1. l \in Steps /\ l \notin Creating \cup {"read", "sync"} /\ (l \in Loaded => at[p] \in Loaded)
  BY DEF Loaded, Down, Steps, Creating, Refusals
<1>2. KeyFits(p)'
  BY <1>1, Goes DEF StartupInv, FileInv, KeyFits, Chosen, Creating
<1> QED BY <1>1, <1>2, OthersFit

LEMMA BeginInv ==
  ASSUME StartupInv, NEW p \in Programs, NEW here \in {"migrate", "upgrade"},
         NEW next \in {"migrating", "upgrading"}, Begin(p, here, next)
  PROVE  StartupInv'
<1>1. /\ at[p] = here /\ UNCHANGED <<file, env, db, key>> /\ Ranges /\ LockInv
      /\ here \in Loaded /\ next \in Loaded /\ next \in Steps
  BY DEF Begin, disk, environment, StartupInv, Loaded, Steps
<1>2. CASE tx = None /\ tx' = p /\ work' = db /\ Goto(p, next)
  <2>1. FileInv'
    BY <1>1, <1>2, StaysFit
  <2>2. /\ at' \in [Programs -> Steps] /\ at'[p] = next
        /\ \A q \in Programs : q # p => at'[q] = at[q]
    BY <1>1, <1>2, Goes
  <2>3. Ranges'
    BY <1>1, <1>2, <2>2 DEF Ranges
  <2>4. LockInv'
    BY <1>1, <1>2, <2>2, StartupAssumption DEF LockInv, Data
  <2>5. ServedAreReadable'
    BY <1>1, <2>2 DEF StartupInv, ServedAreReadable
  <2> QED BY <2>1, <2>3, <2>4, <2>5 DEF StartupInv
<1>3. CASE UNCHANGED <<tx, work>> /\ Goto(p, "busy")
  <2>1. FileInv' /\ "busy" \in Steps
    BY <1>1, <1>3, StaysFit DEF Down, Refusals
  <2> QED BY <1>1, <1>3, <2>1, LoadingInv DEF Ranges
<1> QED BY <1>2, <1>3 DEF Begin

\* The program that has the lock.
LEMMA Holds ==
  ASSUME StartupInv, NEW p \in Programs, at[p] \in {"migrating", "upgrading"}
  PROVE  /\ tx = p /\ tx # None /\ Data(work)
         /\ at[p] = "migrating" => work.cred = db.cred
         /\ at[p] \in Loaded
BY StartupAssumption DEF StartupInv, LockInv, Loaded

\* It changes the data it sees.
LEMMA ExecuteInv ==
  ASSUME StartupInv, NEW p \in Programs, at[p] \in {"migrating", "upgrading"},
         NEW new, Data(new), at[p] = "migrating" => new.cred = work.cred, Execute(p, new)
  PROVE  StartupInv'
<1>1. work' = new /\ UNCHANGED <<file, env, db, tx, at, key>>
  BY DEF Execute, Changes, disk, environment
<1>2. LockInv'
  BY <1>1, Holds DEF StartupInv, LockInv, Data
<1> QED BY <1>1, <1>2 DEF StartupInv, Ranges, FileInv, KeyFits, Chosen, ServedAreReadable

LEMMA AddColumnsInv ==
  ASSUME StartupInv, NEW p \in Programs, AddColumns(p)
  PROVE  StartupInv'
<1> DEFINE i == work.version + 1
           new == [work EXCEPT !.columns = @ \cup Added[i], !.version = i]
<1>1. at[p] = "migrating" /\ Execute(p, new)
  BY DEF AddColumns
<1>2. Data(new) /\ new.cred = work.cred
  BY <1>1, Holds DEF Data
<1> HIDE DEF new
<1> QED BY <1>1, <1>2, ExecuteInv

LEMMA ReencryptInv ==
  ASSUME StartupInv, NEW p \in Programs, NEW v \in Values, Reencrypt(p, v)
  PROVE  StartupInv'
<1> DEFINE new == [work EXCEPT !.cred[v] = key[p]]
<1>1. at[p] = "upgrading" /\ Execute(p, new) /\ key[p] \in Keys \cup {None}
  BY DEF Reencrypt, StartupInv, Ranges
<1>2. Data(new)
  BY <1>1, Holds DEF Data
<1> HIDE DEF new
<1> QED BY <1>1, <1>2, ExecuteInv

\* The lock is given back, with the data of the database as they were, or with
\* data that every program that serves can read.
LEMMA ReleaseInv ==
  ASSUME StartupInv, NEW p \in Programs, at[p] \in {"migrating", "upgrading"},
         NEW l \in Down \cup {"upgrade", "serving"}, Goto(p, l),
         tx' = None, UNCHANGED <<file, env, key>>, Data(db)',
         \/ db'.cred = db.cred /\ l # "serving"
         \/ \A v \in Values : db'.cred[v] \in {None, key[p]}
  PROVE  StartupInv'
<1>1. at[p] \in Loaded /\ l \in Loaded \cup Down /\ l \notin {"migrating", "upgrading"}
      /\ tx = p
  BY Holds DEF Loaded, Down, Refusals
<1>2. FileInv' /\ l \in Steps
  BY <1>1, StaysFit
<1>3. /\ at' \in [Programs -> Steps] /\ at'[p] = l
      /\ \A q \in Programs : q # p => at'[q] = at[q]
  BY <1>2, Goes
<1>4. Ranges'
  BY <1>3 DEF StartupInv, Ranges
<1>5. LockInv'
  BY <1>1, <1>3, StartupAssumption DEF StartupInv, LockInv
<1>6. ASSUME NEW q \in Programs, at'[q] = "serving", NEW v \in Values
      PROVE  db'.cred[v] \in {None, key'[q]}
  <2>1. CASE db'.cred = db.cred /\ l # "serving"
    BY <1>3, <1>6, <2>1 DEF StartupInv, ServedAreReadable
  <2>2. CASE \A u \in Values : db'.cred[u] \in {None, key[p]}
    <3>1. at[q] \in Loaded \/ q = p
      BY <1>3, <1>6 DEF Loaded
    <3>2. key[q] = key[p]
      BY <1>1, <3>1, OneKey
    <3> QED BY <2>2, <3>2
  <2> QED BY <2>1, <2>2
<1> QED BY <1>2, <1>4, <1>5, <1>6 DEF StartupInv, ServedAreReadable

LEMMA RollbackInv ==
  ASSUME StartupInv, NEW p \in Programs, TooNew(p) \/ Undecryptable(p)
  PROVE  StartupInv'
<1>1. PICK l \in {"newer schema", "cannot decrypt"} : Rollback(p, l)
  BY DEF TooNew, Undecryptable
<1>2. at[p] \in {"migrating", "upgrading"} /\ l \in Down /\ l # "serving"
  BY DEF TooNew, Undecryptable, Down, Refusals
<1>3. Goto(p, l) /\ tx' = None /\ UNCHANGED <<file, env, db, key>> /\ Data(db)'
  BY <1>1 DEF Rollback, disk, environment, StartupInv, LockInv, Data
<1> QED BY <1>2, <1>3, ReleaseInv

LEMMA MigrateInv ==
  ASSUME StartupInv, NEW p \in Programs, Migrate(p)
  PROVE  StartupInv' /\ db'.cred = db.cred /\ file' = file
<1>1. /\ at[p] = "migrating" /\ db' = work /\ tx' = None /\ Goto(p, "upgrade")
      /\ UNCHANGED <<file, env, key>>
  BY DEF Migrate, Commit, disk, environment
<1>2. Data(db)' /\ db'.cred = db.cred
  BY <1>1, Holds DEF Data
<1> QED BY <1>1, <1>2, ReleaseInv

\* What the upgrade commits is encrypted with the program's key.
LEMMA UpgradeInv ==
  ASSUME StartupInv, NEW p \in Programs, Upgrade(p)
  PROVE  /\ StartupInv' /\ Old(db') = {} /\ file' = file /\ at[p] \in Loaded
         /\ \A v \in Values : db'.cred[v] \in {None, key[p]}
<1>1. /\ at[p] = "upgrading" /\ db' = work /\ tx' = None /\ Goto(p, "serving")
      /\ Old(work) = {} /\ UNCHANGED <<file, env, key>>
      /\ \A v \in Values : work.cred[v] \in {None, key[p], Legacy}
  BY DEF Upgrade, Commit, AllReadable, Readable, disk, environment
<1>2. \A v \in Values : db'.cred[v] \in {None, key[p]}
  BY <1>1 DEF Old
<1>3. Data(db)'
  BY <1>1, Holds DEF Data
<1> QED BY <1>1, <1>2, <1>3, ReleaseInv DEF Loaded

LEMMA StoreInv ==
  ASSUME StartupInv, NEW p \in Programs, NEW v \in Values, Store(p, v)
  PROVE  /\ StartupInv' /\ file' = file /\ at[p] \in Loaded /\ Old(db) = {} /\ Old(db') = {}
         /\ \A u \in Values : db'.cred[u] \in {db.cred[u], None, key[p]}
<1>1. /\ at[p] = "serving" /\ tx = None /\ UNCHANGED <<file, env, tx, at, key>>
      /\ Ranges /\ LockInv /\ at[p] \in Loaded
  BY DEF Store, disk, environment, StartupInv, Loaded
<1>2. PICK k \in {None, key[p]} : db' = [db EXCEPT !.cred[v] = k]
  BY DEF Store
<1>3. /\ Data(db)'
      /\ \A u \in Values : db'.cred[u] = IF u = v THEN k ELSE db.cred[u]
  BY <1>1, <1>2 DEF Ranges, LockInv, Data
<1>4. LockInv'
  BY <1>1, <1>3 DEF LockInv
<1>5. \A q \in Programs : at[q] = "serving" => key[q] = key[p]
  BY <1>1, OneKey DEF Loaded
<1>6. ServedAreReadable'
  BY <1>1, <1>3, <1>5 DEF StartupInv, ServedAreReadable
<1>7. Old(db) = {} /\ Old(db') = {}
  <2>1. key[p] # Legacy /\ None # Legacy
    BY <1>1, OneKey, StartupAssumption
  <2>2. \A u \in Values : db.cred[u] \in {None, key[p]}
    BY <1>1 DEF StartupInv, ServedAreReadable
  <2> QED BY <1>3, <2>1, <2>2 DEF Old
<1> QED BY <1>1, <1>3, <1>4, <1>6, <1>7 DEF StartupInv, Ranges, FileInv, KeyFits, Chosen

-----------------------------------------------------------------------------
(* Ends, and what happens while no program runs *)

LEMMA CrashInv ==
  ASSUME StartupInv, NEW p \in Programs, Crash(p)
  PROVE  StartupInv'
<1>1. /\ at[p] \notin Down /\ Goto(p, "off") /\ key' = [key EXCEPT ![p] = None]
      /\ UNCHANGED <<file, env, db>>
      /\ IF tx = p THEN tx' = None ELSE UNCHANGED <<tx, work>>
      /\ "off" \in Steps /\ Ranges /\ LockInv
  BY DEF Crash, Uses, disk, environment, Steps, Down, StartupInv
<1>2. /\ at' \in [Programs -> Steps] /\ at'[p] = "off"
      /\ \A q \in Programs : q # p => at'[q] = at[q] /\ key'[q] = key[q]
  BY <1>1, Goes DEF Ranges
<1>3. KeyFits(p)'
  BY <1>2 DEF KeyFits, Chosen, Creating, Loaded
<1>4. FileInv'
  BY <1>1, <1>2, <1>3, OthersFit
<1>5. Ranges'
  BY <1>1, <1>2 DEF Ranges
<1>6. LockInv'
  BY <1>1, <1>2, StartupAssumption DEF LockInv, Ranges, Data
<1>7. ServedAreReadable'
  BY <1>1, <1>2 DEF StartupInv, ServedAreReadable
<1> QED BY <1>4, <1>5, <1>6, <1>7 DEF StartupInv

LEMMA QuietInv ==
  ASSUME StartupInv, PowerLoss \/ Reconfigure
  PROVE  StartupInv' /\ db' = db
<1>1. CASE PowerLoss
  <2>1. /\ at' = [p \in Programs |-> "off"] /\ tx' = None
        /\ key' = [p \in Programs |-> None] /\ file' \in {file, Torn, None} /\ UNCHANGED <<env, db>>
    BY <1>1 DEF PowerLoss, environment
  <2>2. \A p \in Programs : at'[p] = "off"
    BY <2>1
  <2>3. Ranges'
    BY <2>1 DEF StartupInv, Ranges, Steps, Down
  <2>4. LockInv' /\ FileInv' /\ ServedAreReadable'
    BY <2>1, <2>2, StartupAssumption DEF StartupInv, LockInv, FileInv, KeyFits, Chosen, Creating, Loaded,
       ServedAreReadable
  <2> QED BY <2>1, <2>3, <2>4 DEF StartupInv
<1>2. CASE Reconfigure
  <2>1. /\ \A p \in Programs : at[p] \in Down
        /\ env' \in {None, Supplied, Legacy} /\ UNCHANGED <<file, db, tx, work, at, key>>
    BY <1>2 DEF Reconfigure, disk, environment
  <2>2. \A p \in Programs : at'[p] \notin Creating \cup {"sync"} \cup Loaded
    BY <2>1 DEF Down, Refusals, Creating, Loaded
  <2>3. FileInv'
    BY <2>2 DEF FileInv, KeyFits, Chosen, Creating
  <2> QED BY <2>1, <2>3 DEF StartupInv, Ranges, LockInv, Data, ServedAreReadable
<1> QED BY <1>1, <1>2

-----------------------------------------------------------------------------
(* Theorems about starting *)

LEMMA StartupStep ==
  ASSUME StartupInv, [StartupNext]_startupVars
  PROVE  StartupInv'
<1>1. CASE UNCHANGED startupVars
  BY <1>1 DEF startupVars, StartupInv, Ranges, LockInv, Data, FileInv, KeyFits, Chosen, ServedAreReadable
<1>2. CASE PowerLoss \/ Reconfigure
  BY <1>2, QuietInv
<1>3. ASSUME NEW p \in Programs,
             \/ LoadConfig(p) \/ ReadSecrets(p) \/ CreateFile(p) \/ WriteFile(p) \/ SyncFile(p)
      PROVE  StartupInv'
  BY <1>3, LoadConfigInv, ReadSecretsInv, CreateFileInv, WriteFileInv, SyncFileInv
<1>4. ASSUME NEW p \in Programs,
             \/ Begin(p, "migrate", "migrating") \/ Begin(p, "upgrade", "upgrading")
             \/ TooNew(p) \/ AddColumns(p) \/ Migrate(p)
      PROVE  StartupInv'
  BY <1>4, BeginInv, RollbackInv, AddColumnsInv, MigrateInv
<1>5. ASSUME NEW p \in Programs,
             \/ Undecryptable(p) \/ Upgrade(p) \/ Crash(p)
             \/ \E v \in Values : Reencrypt(p, v) \/ Store(p, v)
      PROVE  StartupInv'
  BY <1>5, RollbackInv, UpgradeInv, CrashInv, ReencryptInv, StoreInv
<1> QED BY <1>1, <1>2, <1>3, <1>4, <1>5 DEF StartupNext

\* The inductive invariant of the secrets file, the lock of the database and the
\* keys programs have loaded.
THEOREM StartupCorrect == StartupSpec => []StartupInv
BY StartupInitInv, StartupStep, PTL DEF StartupSpec

\* A program that serves can decrypt all credentials (credentials.go:45-47).
THEOREM ServedCorrect == StartupSpec => []ServedAreReadable
<1>1. StartupInv => ServedAreReadable
  BY DEF StartupInv
<1> QED BY StartupCorrect, <1>1, PTL

\* A step changes the database only by a commit of migrations, which leaves the
\* credentials, by the commit of an upgrade, or by a program that serves.
LEMMA DatabaseChanges ==
  ASSUME [StartupNext]_startupVars, db' # db
  PROVE  \E p \in Programs : \/ Migrate(p) \/ Upgrade(p) \/ \E v \in Values : Store(p, v)
<1>1. ~UNCHANGED startupVars /\ ~PowerLoss /\ ~Reconfigure
  BY DEF startupVars, PowerLoss, Reconfigure
<1>2. ASSUME NEW p \in Programs
      PROVE  ~LoadConfig(p) /\ ~ReadSecrets(p) /\ ~CreateFile(p) /\ ~WriteFile(p) /\ ~SyncFile(p)
  BY DEF LoadConfig, ReadSecrets, CreateFile, WriteFile, SyncFile
<1>3. ASSUME NEW p \in Programs
      PROVE  /\ ~Begin(p, "migrate", "migrating") /\ ~Begin(p, "upgrade", "upgrading")
             /\ ~TooNew(p) /\ ~AddColumns(p) /\ ~Undecryptable(p) /\ ~Crash(p)
             /\ \A v \in Values : ~Reencrypt(p, v)
  BY DEF Begin, TooNew, AddColumns, Undecryptable, Rollback, Execute, Changes, Crash, Reencrypt
<1> QED BY <1>1, <1>2, <1>3 DEF StartupNext

\* A database of a version this program knows has the columns of it.
Fits(d) == /\ {"version", "columns", "cred"} \subseteq DOMAIN d /\ d.version \in Nat
           /\ d.version = 0 => d.columns \subseteq Added[1]
           /\ d.version \in 1..Latest => d.columns = Columns(d.version)

\* An upgrade of the credentials does not see another schema than the database's.
SameSchema == tx # None /\ at[tx] = "upgrading" =>
                work.version = db.version /\ work.columns = db.columns

SchemaInv == Fits(db) /\ (tx # None => Fits(work)) /\ SameSchema

LEMMA ColumnsOf ==
  /\ Columns(1) = Added[1]
  /\ \A i \in Nat \ {0} : Columns(i + 1) = Columns(i) \cup Added[i + 1]
<1>1. 1..1 = {1} /\ \A i \in Nat \ {0} : 1..(i + 1) = (1..i) \cup {i + 1}
  OBVIOUS
<1> QED BY <1>1, Zenon DEF Columns

LEMMA SchemaInit == StartupInit => SchemaInv
<1> SUFFICES ASSUME StartupInit PROVE SchemaInv
  OBVIOUS
<1>1. db \in Database /\ tx = None /\ Latest \in Nat
  BY StartupAssumption DEF StartupInit, Latest
<1>2. DOMAIN db = {"version", "columns", "cred"} /\ db.version \in Nat
  BY <1>1 DEF Database
<1>3. /\ db.version = 0 => db.columns \in SUBSET Added[1]
      /\ db.version # 0 => db.columns = Columns(IF db.version > Latest THEN Latest ELSE db.version)
  BY DEF StartupInit
<1>4. db.version \in 1..Latest => db.version # 0 /\ ~(db.version > Latest)
  BY <1>1, <1>2
<1> QED BY <1>1, <1>2, <1>3, <1>4 DEF SchemaInv, SameSchema, Fits

\* One more migration.
LEMMA AddColumnsFits ==
  ASSUME StartupInv, SchemaInv, NEW p \in Programs, AddColumns(p)
  PROVE  SchemaInv'
<1> DEFINE i == work.version + 1
           new == [work EXCEPT !.columns = @ \cup Added[i], !.version = i]
<1>1. /\ at[p] = "migrating" /\ work' = new /\ UNCHANGED <<db, tx, at>> /\ work.version < Latest
  BY DEF AddColumns, Execute, Changes
<1>2. Fits(work) /\ Latest \in Nat
  BY <1>1, Holds, StartupAssumption DEF SchemaInv, Latest
<1>3. /\ {"version", "columns", "cred"} \subseteq DOMAIN new /\ new.version = i
      /\ new.columns = work.columns \cup Added[i] /\ i \in Nat \ {0}
  BY <1>2 DEF Fits
<1>4. new.columns = Columns(i)
  <2>1. CASE work.version = 0
    BY <1>2, <1>3, <2>1, ColumnsOf DEF Fits
  <2>2. CASE work.version # 0
    <3>1. work.version \in Nat \ {0} /\ work.version \in 1..Latest
      BY <1>1, <1>2, <2>2 DEF Fits
    <3> QED BY <1>2, <1>3, <3>1, ColumnsOf DEF Fits
  <2> QED BY <2>1, <2>2
<1> HIDE DEF new, i
<1>5. Fits(new)
  BY <1>3, <1>4 DEF Fits
<1> QED BY <1>1, <1>5, Holds DEF SchemaInv, SameSchema, Fits

\* A step of another program, or to a step that is not of an upgrade.
LEMMA OthersStay ==
  ASSUME StartupInv, NEW p \in Programs, NEW l, l # "upgrading", Goto(p, l)
  PROVE  tx # None /\ at'[tx] = "upgrading" => at[tx] = "upgrading"
BY DEF StartupInv, Ranges, Goto

\* The other steps keep the schema, or put the latest in its place.
LEMMA SchemaStep ==
  ASSUME StartupInv, SchemaInv, [StartupNext]_startupVars
  PROVE  /\ SchemaInv'
         /\ \/ db'.version = db.version /\ db'.columns = db.columns
            \/ db'.version = Latest /\ db'.columns = Columns(Latest)
<1>1. CASE UNCHANGED startupVars \/ PowerLoss \/ Reconfigure
  BY <1>1, StartupAssumption DEF startupVars, PowerLoss, Reconfigure, SchemaInv, SameSchema, Fits
<1>2. ASSUME NEW p \in Programs, NEW v \in Values, Reencrypt(p, v) \/ Store(p, v)
      PROVE  SchemaInv' /\ db'.version = db.version /\ db'.columns = db.columns
  BY <1>2, Holds DEF Reencrypt, Execute, Changes, Store, SchemaInv, SameSchema, Fits
<1>3. ASSUME NEW p \in Programs, AddColumns(p)
      PROVE  SchemaInv' /\ db' = db
  BY <1>3, AddColumnsFits DEF AddColumns, Execute, Changes
<1>4. ASSUME NEW p \in Programs, Migrate(p) \/ Upgrade(p)
      PROVE  SchemaInv' /\ db' = work /\ tx = p
  BY <1>4, Holds, StartupAssumption DEF Migrate, Upgrade, Commit, SchemaInv, SameSchema, Fits
<1>5. ASSUME NEW p \in Programs, NEW here \in {"migrate", "upgrade"},
             NEW next \in {"migrating", "upgrading"}, Begin(p, here, next)
      PROVE  SchemaInv' /\ db' = db
  <2>1. CASE tx = None /\ tx' = p /\ work' = db
    BY <1>5, <2>1 DEF Begin, SchemaInv, SameSchema, Fits
  <2>2. CASE tx # None /\ UNCHANGED <<tx, work>> /\ Goto(p, "busy")
    BY <1>5, <2>2, OthersStay, Holds DEF Begin, SchemaInv, SameSchema, Fits
  <2> QED BY <1>5, <2>1, <2>2 DEF Begin
<1>6. ASSUME NEW p \in Programs, TooNew(p) \/ Undecryptable(p) \/ Crash(p)
      PROVE  SchemaInv' /\ db' = db
  <2>1. CASE tx' = None /\ db' = db
    BY <2>1, StartupAssumption DEF SchemaInv, SameSchema, Fits
  <2>2. CASE Crash(p) /\ UNCHANGED <<tx, work, db>>
    BY <2>2, OthersStay DEF Crash, SchemaInv, SameSchema, Fits
  <2> QED BY <1>6, <2>1, <2>2 DEF TooNew, Undecryptable, Rollback, Crash
<1>7. ASSUME NEW p \in Programs,
             \/ LoadConfig(p) \/ ReadSecrets(p) \/ CreateFile(p) \/ WriteFile(p) \/ SyncFile(p)
      PROVE  SchemaInv' /\ db' = db
  <2>1. UNCHANGED <<db, tx, work>> /\ \E l : l # "upgrading" /\ Goto(p, l)
    BY <1>7 DEF LoadConfig, ReadSecrets, CreateFile, WriteFile, SyncFile, Admitted
  <2> QED BY <2>1, OthersStay DEF SchemaInv, SameSchema, Fits
<1>8. ASSUME NEW p \in Programs, Migrate(p)
      PROVE  db'.version = Latest /\ db'.columns = Columns(Latest)
  <2>1. Latest \in 1..Latest
    BY StartupAssumption DEF Latest
  <2> QED BY <1>4, <1>8, <2>1, StartupAssumption DEF Migrate, SchemaInv, Fits
<1>9. ASSUME NEW p \in Programs, Upgrade(p)
      PROVE  db'.version = db.version /\ db'.columns = db.columns
  BY <1>4, <1>9, Holds, StartupAssumption DEF Upgrade, SchemaInv, SameSchema
<1> QED
  BY <1>1, <1>2, <1>3, <1>4, <1>5, <1>6, <1>7, <1>8, <1>9 DEF StartupNext

\* Old credentials are re-encrypted together (credentials.go:50-70), and a schema
\* changes to the latest at once (migrations.go:71-94).
THEOREM AtomicCorrect == StartupSpec => UpgradeIsAtomic
<1>1. ASSUME StartupInv, [StartupNext]_startupVars, Old(db') # Old(db)
      PROVE  Old(db') = {}
  <2>1. PICK p \in Programs : \/ Migrate(p) \/ Upgrade(p) \/ \E v \in Values : Store(p, v)
    BY <1>1, DatabaseChanges
  <2>2. ~Migrate(p)
    BY <1>1, MigrateInv DEF Old
  <2> QED BY <1>1, <2>1, <2>2, UpgradeInv, StoreInv
<1>2. StartupSpec => [](StartupInv /\ SchemaInv)
  BY SchemaInit, SchemaStep, StartupInitInv, StartupStep, PTL DEF StartupSpec
<1> QED BY <1>1, <1>2, SchemaStep, PTL DEF StartupSpec, UpgradeIsAtomic

\* A generated key is lost only by a power loss before its sync (config.go:102).
THEOREM KeyCorrect == StartupSpec => OnlyPowerTakesKey
<1>1. ASSUME StartupInv, [StartupNext]_startupVars, GeneratedKeyIsKept, ~GeneratedKeyIsKept'
      PROVE  ~synced /\ \A p \in Programs : at'[p] = "off"
  <2>1. db' = db
    <3> SUFFICES ASSUME db' # db PROVE GeneratedKeyIsKept'
      BY <1>1
    <3>1. PICK p \in Programs : \/ Migrate(p) \/ Upgrade(p) \/ \E v \in Values : Store(p, v)
      BY <1>1, DatabaseChanges
    <3>2. CASE Migrate(p)
      BY <1>1, <3>2, MigrateInv DEF GeneratedKeyIsKept
    <3>3. CASE Upgrade(p) \/ \E v \in Values : Store(p, v)
      <4>1. /\ file' = file /\ at[p] \in Loaded
            /\ \A v \in Values : db'.cred[v] \in {db.cred[v], None, key[p]}
        BY <1>1, <3>3, UpgradeInv, StoreInv
      <4>2. key[p] \in Programs => key[p] = file
        BY <1>1, <4>1, OneKey
      <4> QED BY <1>1, <4>1, <4>2, StartupAssumption DEF GeneratedKeyIsKept
    <3> QED BY <3>1, <3>2, <3>3
  <2>2. file' # file /\ file \in Programs
    BY <1>1, <2>1, StartupAssumption DEF GeneratedKeyIsKept, StartupInv, Ranges
  <2>3. PowerLoss
    <3>1. \A p \in Programs : ~CreateFile(p) /\ ~WriteFile(p)
      BY <1>1, <2>2, StartupAssumption
         DEF CreateFile, MayCreate, disk, environment, WriteFile, StartupInv, FileInv, KeyFits, Chosen
    <3>2. ASSUME NEW p \in Programs
          PROVE  /\ ~LoadConfig(p) /\ ~ReadSecrets(p) /\ ~SyncFile(p) /\ ~Crash(p)
                 /\ ~Begin(p, "migrate", "migrating") /\ ~Begin(p, "upgrade", "upgrading")
                 /\ ~TooNew(p) /\ ~AddColumns(p) /\ ~Undecryptable(p)
                 /\ ~Migrate(p) /\ ~Upgrade(p)
                 /\ \A v \in Values : ~Reencrypt(p, v) /\ ~Store(p, v)
      BY <2>2 DEF LoadConfig, ReadSecrets, SyncFile, Crash, Begin, TooNew, AddColumns,
         Undecryptable, Rollback, Execute, Reencrypt, Migrate, Upgrade, Commit, Store, disk, environment
    <3>3. ~Reconfigure /\ ~UNCHANGED startupVars
      BY <2>2 DEF Reconfigure, startupVars, disk, environment
    <3> QED BY <1>1, <3>1, <3>2, <3>3 DEF StartupNext
  <2> QED BY <2>2, <2>3, StartupAssumption DEF PowerLoss
<1> QED BY StartupCorrect, <1>1, PTL DEF StartupSpec, OnlyPowerTakesKey
=============================================================================
