-------------------------------- MODULE Auth --------------------------------
(***************************************************************************)
(* Signing in: the handlers of internal/api/auth_handler.go on the table   *)
(* of users, and the pages of the browser that lead there, App.tsx,        *)
(* pages/LoginPage.tsx and pages/SetupPage.tsx, with the interceptors of   *)
(* api/client.ts.  The windows of one browser share its local storage.     *)
(*                                                                         *)
(* A page asks once, when it is mounted, and acts on the answer whenever   *)
(* it comes, also when the window shows another page by then; only leaving *)
(* the document silences what is on its way.  A handler of the server runs *)
(* from one access of the database to the next.                            *)
(***************************************************************************)
EXTENDS Naturals, FiniteSets

CONSTANTS Windows,
          MaxRequests  \* bound on the requests on their way

\* A window with no document that would hear the answer, and what a request
\* carries that names nobody.
Nobody == "nobody"
ASSUME AuthAssumption == Windows # {} /\ Nobody \notin Windows /\ MaxRequests \in Nat

VARIABLES users,    \* the table of users, each named after the window it was typed in
          token,    \* opsup_token in the local storage, with its validity
          page,     \* what each window shows
          checked,  \* history: what the last answer said to the page it shows
          requests  \* on their way

vars == <<users, token, page, checked, requests>>

NoToken == "none"
Token == {NoToken, "valid", "expired"}
Pages == {"login", "setup", "main"}
Checks == {"nothing", "yes", "no", "failed"}

Kinds == {"status", "list", "login", "setup"}
Request == [window : Windows \cup {Nobody}, kind : Kinds, page : Pages, name : Windows \cup {Nobody},
            token : Token, phase : {"sent", "counted", "yes", "no", "denied", "failed"}]

TypeOK == /\ users \subseteq Windows /\ token \in Token
          /\ page \in [Windows -> Pages \cup {"closed"}]
          /\ checked \in [Windows -> Checks] /\ requests \subseteq Request

Init == /\ users = {} /\ token = NoToken /\ page = [w \in Windows |-> "closed"]
        /\ checked = [w \in Windows |-> "nothing"] /\ requests = {}

IsAnswered(r) == r.phase \in {"yes", "no", "denied", "failed"}

-----------------------------------------------------------------------------
(* The pages *)

\* There is room for another request: a bound.
HasRoom == Cardinality(requests) < MaxRequests

\* What the effect of a page sends when it is mounted: the login and setup
\* pages ask whether there is an administrator, the main page for its servers.
Ask(w, p, t) == [window |-> w, kind |-> IF p = "main" THEN "list" ELSE "status", page |-> p,
                 name |-> Nobody, token |-> IF p = "main" THEN t ELSE NoToken, phase |-> "sent"]

\* PrivateRoute: without a token the main page leads to the login page.
Landing(p, t) == IF p = "main" /\ t = NoToken THEN "login" ELSE p

\* navigate(): the page is mounted unless it is the one that is shown.
Navigate(w, p, t, rest) ==
  LET q == Landing(p, t) IN
    IF page[w] = q
      THEN requests' = rest /\ UNCHANGED <<page, checked>>
      ELSE /\ page' = [page EXCEPT ![w] = q] /\ checked' = [checked EXCEPT ![w] = "nothing"]
           /\ requests' = rest \cup {Ask(w, q, t)}

\* A document is loaded: nobody hears what the one before has asked, which
\* matters only for a setup, whose handler goes on.
Unheard(w, rest) ==
  {r \in rest : r.window # w} \cup
  {[r EXCEPT !.window = Nobody] : r \in {q \in rest : q.window = w /\ q.kind = "setup" /\ ~IsAnswered(q)}}
Load(w, p, t, rest) ==
  /\ page' = [page EXCEPT ![w] = Landing(p, t)]
  /\ checked' = [checked EXCEPT ![w] = "nothing"]
  /\ requests' = Unheard(w, rest) \cup {Ask(w, Landing(p, t), t)}

\* An address is opened, or opened again.
Visit(w, p) == HasRoom /\ Load(w, p, token, requests) /\ UNCHANGED <<users, token>>

\* onFinish of the two forms, of which a login says nothing more here; the
\* button is off while the answer is awaited.
Submit(w, kind, n) ==
  /\ page[w] = kind /\ HasRoom
  /\ \A r \in requests : r.window = w => r.kind # kind
  /\ requests' = requests \cup {[window |-> w, kind |-> kind, page |-> kind, name |-> n,
                                 token |-> NoToken, phase |-> "sent"]}
  /\ UNCHANGED <<users, token, page, checked>>

\* logout of the main page.
Logout(w) ==
  /\ page[w] = "main" /\ token' = NoToken
  /\ Load(w, "login", NoToken, requests) /\ UNCHANGED users

\* The token comes to its end, wherever it has been copied to.
Expire ==
  /\ token = "valid" /\ token' = "expired"
  /\ requests' = {IF r.token = "valid" THEN [r EXCEPT !.token = "expired"] ELSE r : r \in requests}
  /\ UNCHANGED <<users, page, checked>>

-----------------------------------------------------------------------------
(* The server *)

Done(r, phase) == requests' = (requests \ {r}) \cup {[r EXCEPT !.phase = phase]}

AuthStatus(r) == /\ r.kind = "status" /\ r.phase = "sent"
                 /\ Done(r, IF users # {} THEN "yes" ELSE "no") /\ UNCHANGED users

\* AuthSetup counts the users, checks and hashes the password, and inserts the
\* first user only into an empty table; it answers with a token.
CountUsers(r) == /\ r.kind = "setup" /\ r.phase = "sent"
                 /\ Done(r, IF users # {} THEN "failed" ELSE "counted") /\ UNCHANGED users

AlwaysInserts == TRUE            \* fault: the insert does not look again
Inserts == users = {}
CreateFirstUser(r) ==
  /\ r.phase = "counted"
  /\ IF Inserts
       THEN /\ users' = users \cup {r.name}
            /\ \E phase \in {"yes", "failed"} : Done(r, phase)
       ELSE Done(r, "failed") /\ UNCHANGED users

\* The right name and password need a user; 401 otherwise.
AuthLogin(r) ==
  /\ r.kind = "login" /\ r.phase = "sent"
  /\ \/ users # {} /\ Done(r, "yes")
     \/ Done(r, "denied")
  /\ UNCHANGED users

\* JWTAuthMiddleware, before ListServers.
ListServers(r) ==
  /\ r.kind = "list" /\ r.phase = "sent"
  /\ Done(r, IF r.token = "valid" THEN "yes" ELSE "denied") /\ UNCHANGED users

\* The limit of attempts, a bad field, an error of the database, or no answer.
Fails(r) == r.phase \in {"sent", "counted"} /\ Done(r, "failed") /\ UNCHANGED users

Serve(r) == /\ \/ AuthStatus(r) \/ CountUsers(r) \/ CreateFirstUser(r)
               \/ AuthLogin(r) \/ ListServers(r) \/ Fails(r)
            /\ UNCHANGED <<token, page, checked>>

-----------------------------------------------------------------------------
(* The answers *)

\* What an answer to its check tells the page that is shown.
Checked(r) == checked' = IF page[r.window] = r.page THEN [checked EXCEPT ![r.window] = r.phase]
                         ELSE checked

\* Where the answer to a check sends its window: the login page goes to setup
\* when there is no administrator, the setup page to login when there is one.
RedirectsOnFailure(r) ==         \* fault: a setup page that cannot ask gives up
  \/ r.page = "login" /\ r.phase = "no"
  \/ r.page = "setup" /\ r.phase # "no"
Redirects(r) == \/ r.page = "login" /\ r.phase = "no"
                \/ r.page = "setup" /\ r.phase = "yes"
Redirection(r) == IF r.page = "login" THEN "setup" ELSE "login"

Answer(r) ==
  LET rest == requests \ {r} IN
  /\ IsAnswered(r) /\ UNCHANGED users
  /\ \/ /\ r.window = Nobody /\ requests' = rest /\ UNCHANGED <<token, page, checked>>
     \/ \* The interceptor: any 401 ends the session of the browser.
        /\ r.window # Nobody /\ r.phase = "denied"
        /\ token' = NoToken /\ Load(r.window, "login", NoToken, rest)
     \/ \* useAuth stores the token of a login or a setup that succeeded.
        /\ r.window # Nobody /\ r.kind \in {"login", "setup"} /\ r.phase = "yes"
        /\ token' = "valid" /\ Navigate(r.window, "main", "valid", rest)
     \/ /\ r.window # Nobody /\ r.kind \in {"login", "setup"} /\ r.phase = "failed"
        /\ requests' = rest /\ UNCHANGED <<token, page, checked>>
     \/ /\ r.window # Nobody /\ r.kind \in {"status", "list"} /\ r.phase # "denied"
        /\ UNCHANGED token
        /\ IF Redirects(r) THEN Navigate(r.window, Redirection(r), token, rest)
           ELSE requests' = rest /\ UNCHANGED page /\ Checked(r)

User == \/ \E w \in Windows : Logout(w) \/ \E p \in Pages : Visit(w, p)
        \/ \E w \in Windows : Submit(w, "login", Nobody) \/ Submit(w, "setup", w)
        \/ Expire
Progress == \E r \in requests : Serve(r) \/ Answer(r)
Next == User \/ Progress

\* Requests are answered, or fail; nobody has to do anything.
Spec == Init /\ [][Next]_vars /\ WF_vars(Progress)

-----------------------------------------------------------------------------
(* Properties *)

\* There is one administrator at most, however many setups have counted no
\* user, and nobody is told that he is the administrator who is not.
OneAdministrator ==
  /\ \A m, n \in users : m = n
  /\ \A r \in requests : r.kind = "setup" /\ r.phase = "yes" => r.name \in users

\* Once nobody does anything, every window comes to rest at a page whose own
\* check agrees with it, or failed: there is no loop of redirections between
\* the login, setup and main pages, whatever answers are late, and none stays
\* on the main page with a token that was refused.
Agrees(w) == \/ page[w] = "closed"
             \/ checked[w] = "failed"
             \/ checked[w] = IF page[w] = "setup" THEN "no" ELSE "yes"
PagesSettle == <>[][~User]_vars => <>[](\A w \in Windows : Agrees(w))
=============================================================================
