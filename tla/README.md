# Specifications of OpsUp

OpsUp is one Go program that gives browsers SSH terminals, SFTP file transfers
and RDP desktops on servers whose records it keeps in SQLite.  This directory
holds TLA+ specifications of its concurrent and persistent parts, TLC
configurations that check small instances of them, and TLAPS proofs of their
safety for every value of the constants.

    tlc -config Terminal.cfg MCTerminal.tla   # one run of PROJECT.json
    tlapm TerminalProofs.tla                  # one proof module

## 1. The system

| Component | State it keeps | Operations | Interacts with |
|---|---|---|---|
| SSH client (`internal/sshclient`, `sftpclient.NewClient`) | transports, setup timers, context hooks, a `sync.Once` per client | `Dial`, `DialViaJump`, `NewSession`, `Close` | called by every handler; peer over TCP |
| Terminal gateway (`api/terminal_handler.go`) | WebSocket, write mutex, input queue, six goroutines, context | read input, write input, pump stdout/stderr, ping, unwind | browser, SSH client |
| Server records (`api/server_handler.go`, `api/connection.go`, `models/server.go`) | the `servers` table | create, update, delete, read to dial | all handlers that connect |
| Upload (`sftpclient.Upload`) | a temporary file beside the destination | check, write, publish | SFTP server, other uploads |
| RDP gateway (`api/rdp_handler.go`) | WebSocket, TLS connection, two relay directions | handshake, relay, joining cleanup | browser, RDP server |
| Authentication (`api/auth_handler.go`, `rate_limit.go`) | the `users` table, a window per client address | set up the first administrator, log in, limit | browser |
| Sign-in pages (`App.tsx`, `LoginPage.tsx`, `SetupPage.tsx`, `api/client.ts`) | the token in the local storage, the page of each window | check, submit, redirect, log out | authentication, other windows |
| Startup (`config`, `database`) | secrets file, schema version, encrypted credentials | load or create, migrate, upgrade | file system, SQLite |
| Browser terminal (`useTerminalConnection.ts`) | generation, input queue, WebSocket, timers | connect, type, fail, clean up | terminal gateway |
| Browser file manager (`useDirectory.ts`, `FileManager.tsx`) | path, generation, listing | navigate, upload, delete, create | SFTP handlers |
| Browser tabs (`MainPage.tsx`, `TerminalTabs.tsx`, `TerminalTab.tsx`, `RdpTab.tsx`) | tabs, active key, statuses | open, select, close, report | terminals and desktops |
| Browser RDP frame (`rdp/client.ts`, `RdpTab.tsx`) | flags of the script, its controls, messages between two documents | load, connect, cancel, resize | RDP gateway through an external client |
| Browser server list and form (`ServerSidebar.tsx`, `ServerFormModal.tsx`) | the list, one form, key files being read | list, delete, edit, import, submit | server records |
| Session manager (`internal/terminal/manager.go`) | sessions by id | register, unregister, close all | nothing: unused |

What is hard in it: goroutines that end each other through one context; timers
and hooks that race with the success of what they guard; a peer or a browser
that stops reading; a bounded queue at its limit; handlers made of several SQL
statements without a transaction; callbacks of a connection, a form or a page
that has been replaced; answers that come in another order than they were asked
for.  `PROJECT.json` lists these hazards line by line, each with the
properties that would catch it; a few have none, and a note that says why.

For each part, what makes it correct:

- *SSH client*: an attempt that fails releases all it opened; one that succeeds
  is not closed by a timer of the attempt; no goroutine is left behind.
- *Terminal gateway*: input reaches the shell without a gap or not at all;
  output that arrived before the shell ended is shown; a terminal is never half
  alive; whoever ends it, everything ends.
- *Server records*: a row can always authenticate and is dialled with rows that
  belong together; an update never changes what it was not asked to.
- *Upload*: the destination is replaced as a whole or not at all, nothing is
  readable or left over in between.
- *RDP gateway*: as the terminal, with the goroutines joined.
- *Startup*: credentials are readable by every program that serves; no race,
  crash or restart of programs loses the generated key; the schema becomes the
  latest at once, and so do the credentials of an old release.
- *Authentication*: there is one administrator at most; windows come to rest at
  a page that can work.
- *Tabs*: a tab is active whenever one is open; its dot says what its session is.
- *RDP frame*: the user can always go on; the desktop has the size of its panel.
- *Server list and form*: what is saved is what the form shows; nothing is sent
  that only the form could have kept from being invalid; the list is that of the
  table; a form goes only when it is cancelled or a save succeeded.
- *Browser file manager, terminal*: what is shown belongs to where the user is;
  what the user does hits what is shown; accepted input is sent in order or
  reported.

## 2. Modules

| Module | Models | EXTENDS / INSTANCE |
|---|---|---|
| `TransportOwner` | what an SSH client promises: a transport is open from its first use to one release | abstract |
| `SSHClient` | `Dial`, `DialViaJump`, `NewSession`, `Client.Close` | implements `TransportOwner` |
| `Terminal`, `MCTerminal` | `runTerminal` and its goroutines | implements `TransportOwner` as its user |
| `ServerStore`, `MCServerStore` | the `servers` table under concurrent requests | |
| `AtomicFile` | what an upload promises: one look that refuses a link, then a file replaced in one step or left alone | abstract |
| `Upload` | `sftpclient.Client.Upload` | implements `AtomicFile` |
| `RdpRelay` | `RDPHandler`, `negotiateRDP`, `relayRDP` | |
| `Startup`, `MCStartup` | `config.Load`, `migrate`, `UpgradeCredentials` | |
| `BrowserTerminal` | `connect` of `useTerminalConnection.ts` | |
| `FileManager`, `MCFileManager` | `useDirectory.ts` and the handlers of `FileManager.tsx` | |
| `RdpFrame` | `rdp/client.ts` and `RdpTab.tsx`, one desktop | no behaviours of its own |
| `Workspace` | the tabs of `MainPage.tsx` and `TerminalTabs.tsx` | composes `RdpFrame` with them |
| `ServerPanel`, `MCServerPanel` | `ServerSidebar.tsx`, `ServerFormModal.tsx` and the handlers they send to | |
| `Auth` | `auth_handler.go`, `CreateFirstUser`, the sign-in pages and the interceptors | |
| `TerminalProofs` | theorems about `SSHClient` and `Terminal` | EXTENDS both and `TLAPS` |
| `ServerProofs` | theorems about `Auth` and `Startup` | EXTENDS both and `TLAPS` |
| `BrowserProofs` | theorems about `Workspace` (with `RdpFrame`) and `BrowserTerminal` | EXTENDS both and `TLAPS` |
| `ServerStoreProofs`, `UploadProofs`, `RdpRelayProofs`, `FileManagerProofs`, `ServerPanelProofs` | theorems about the module of that name | EXTEND it and `TLAPS` |

The two halves of the SSH stack are composed through `TransportOwner`:
`SSHClient` is shown to implement it, and `Terminal` uses it in place of the
client, so that the goroutines of both need not be explored together.
Where two modules meet in one proof module their names differ: the specification
is called `ClientSpec` in `SSHClient`, `StartupSpec` in `Startup`, `ConnectSpec`
in `BrowserTerminal` and `Spec` elsewhere, and `conn[c]` is the transport of
`SSHClient`, `serverSide` the server's end in `BrowserTerminal`.

Operators marked `\* fault` are plausible mistakes (a missing guard, a wrong
order) with the parameters of the definition that follows them.  No module uses
them; put in the place of that definition, each makes one property of the
module fail, which shows that the property depends on that line of the code.
`PROJECT.json` lists them under `mutants`.

### How state and actions correspond to the code

**SSHClient.** One attempt, with or without a jump host.  `stage` and `at` are
the place of the dialling goroutine, `hook[k]` the `context.AfterFunc` of a
setup stage or of the session (`armed`, `fired` before its first statement,
`stopped`, `done`), `watch[c]` the goroutine of a client, `once[c]` its
`sync.Once`, in which closing takes two steps because closing a forwarded
channel writes to the connection under it.  A stage may time out at any moment;
a peer may stop reading at any moment.

**Terminal.** `main`, `reader`, `typist`, `pump[s]`, `waiter` and `pinger` are
the goroutines; `lock` is the mutex of `wsWriter`; `by` records who cancelled
the context first.  `received`, `queue`, `held`, `applied` follow the messages
from the WebSocket to the shell, `arrived`, `taken`, `shown` the output the
other way.  A message is a model value: a key stroke, a resize, or one of `Junk`
(an unknown type or a malformed size, on which the code gives up).  A write
takes three steps (take the lock, write, return), a queue operation one.

**ServerStore.** `table` and `nextId` are the SQLite table with its
AUTOINCREMENT sequence.  Every SQL statement is one action, since the handlers
use no transaction; between them a request carries the rows it has read in
`current` and `result`.  `Form` values are the bodies `validate` accepts; a
credential is the secret it encrypts.

**Upload.** `dest` is the destination, `temp[u]` the temporary file of an upload
(how much of it is written, its mode and owner), `at[u]` the next SFTP request.
A `Link` at the destination is what `Lstat` tells from a regular file.
A request is refused, done, or done with its answer lost.  `Others` changes the
destination as another user of the server would.

**RdpRelay.** The stages of the handler up to the relay, then `reader` and
`pinger` beside it.  `hook` is the callback on the context; `unread` is what the
kernel has received; `last` marks a `Read` that returns bytes and `io.EOF`.

**Startup.** `file`, `synced` are the secrets file and whether it survives a
power failure, which may tear or lose it when it does not; `env`, `jwt` the two
secrets the environment may give, of which either missing makes `config.Load`
read or create the file; `db` is version, columns and the key each stored value is
encrypted with; `tx`, `work` the one immediate transaction and what it sees.
Programs start, crash and start again at every point; the operator may change
the environment while none runs.  A program is named after the key it generates,
which is a new one: while it encrypts something its program generates no second
(`IsNew`, a bound), and another program stands for that.

**BrowserTerminal.** One connection from `connect` to its cleanup.  `tasks` are
the events of the socket that wait for their callback, `buffered` is what
`bufferedAmount` counts, `pumpTimer` the variable and `pumpArmed` the timer
behind it.  JavaScript runs a callback to its end, so a callback is an action;
`PumpFrom` is the whole loop of `pump`.  A frame of size information counts as
a frame of input in `bufferedAmount`, which only makes the bound tighter.
`ws.send` does not throw on an open socket, so the two `catch` branches are
left out.

**FileManager.** `state` is what the set-functions of the hook have been called
with, `shown` what the handlers of the last rendering see; `Render` brings the
second up to date after an `await`, while an event of the user is rendered, with
its effects, before the next.  `generation`, `live` and `path` are the refs.
`lists` and `ops` are requests on their way; a server serves them in any order,
and an answer may come in any order or be lost.  `Reload` is `loadFiles` up to
its `await`, `Answer` the rest.  Operations of one kind are not overlapped with
another of the same kind.  The window is closed by unmounting it in the program
and by its `open` property in the tests; both are `Close`.  A "new folder"
dialog may stay open while the window moves on, as the hook allows.

**Auth.** `users` is the table, `token` what the windows of one browser share,
`page[w]` what a window shows.  A request carries the page that asked, the token
it was sent with and how far the server is: `AuthSetup` counts, then hashes,
then inserts, and others come in between.  `Answer` is the interceptor of
`client.ts` and the code after the `await` of whoever asked; it acts on the
window whatever page that shows by then.  `Load` is a new document, which hears
nothing of what the one before had asked; `Navigate` a change of page within it.
A user is named after the window the name was typed in.

**RdpFrame, Workspace.** `mem` and `controls` are the variables of the script
and what can be used of its document; `call` is what the submit handler awaits.
`toFrame` and `toTab` are the messages between the documents, in order; those
that reach the empty document before `rdp.html` are lost, and a reload starts
the script anew.  `remote` is the size the desktop was last told.  `tabs`,
`activeKey` and `statuses` are the state of `MainPage`.  `NextActive` has both
orders of the two choices closing a tab makes, since React may run a state
updater at once or while it renders.

**ServerPanel.** `modal` and `form` are the open form with all its states,
also those of hidden controls; `readers` the key files it reads, `requests`
lists, options of a form, deletions and saves.  The server answers each in one
step by `Verdict`, the checks of `validate` and `saveServer` in their order.
`Changed` is `fetchServers` and `handleModalOk` after a success.  The fields the
user works on are part of `bound`, so that forms with many fields and
several forms at once are explored apart.  `IsTable` asks of the first table
what `JumpsAreSound` of `ServerStore` says of every table.  An event is rendered
before the user's next; the layout does not switch between drawer and side bar.

## 3. Runs

| Run | Question | Bounds |
|---|---|---|
| `ssh_client` | Does every attempt end with its transports owned once or closed, whatever fires when? | both routes, no other bound: the model is finite |
| `terminal` | Is input typed without a gap when the queue overflows, output complete when the shell ends, a terminal never half alive, everything closed when the handler returns; does everything end when the browser leaves, the context ends or the shell ends, and is the client used as `TransportOwner` says? | 3 key strokes on 1 queue slot, or a malformed message, or a chunk on each of two streams; every write may stall |
| `server_store` | Do concurrent requests keep rows whole, and are dials made with rows that belong together? | 2 requests at a time on 2 ids, 6 bodies |
| `upload` | Does an upload replace its destination as a whole, leave nothing, and end? | 2 uploads to one path, and others' files |
| `upload_links` | Is a symbolic link at the destination never overwritten, as `README.md` 202 says?  No: see below | the same |
| `rdp_relay` | Does a session end completely, whoever ends it, with its output shown? | 2 chunks |
| `startup` | Is what is served readable, do schema and old credentials change at once, and is a generated key lost to nothing but a power failure before its sync? | 2 programs, 2 values, 3 migrations, power failures |
| `browser_terminal` | Is input sent without a gap or reported, and is the size announced? | pastes up to 5 frames, 2 fit the socket; 3 sizes |
| `files` | Do rows, operations and refreshes stay with the directory in view? | 2 servers, 2 directories, 1 name, 3 generations, 2 files per upload |
| `auth` | Is there one administrator at most, and does every window come to rest whatever answers are late? | 2 windows, 3 requests on their way |
| `workspace` | Is a tab active whenever one is open, can the frame always be used, and once people are quiet, do dots and desktop sizes become right and frames know their server? | 1 terminal and 1 desktop, 3 tabs opened, 2 window sizes, 2 and 1 messages between the documents |
| `server_panel` | Is what is saved what the form showed, is the list true but for lost answers and late older ones, and does a form go only for a cause? | 2 first tables, 3 ids, 1 key and 1 password, five bounds of forms, requests and fields |

Why these bounds are enough.  The hazards are races of a handful of actors, all
of which are present: every goroutine of a handler, two requests of which one
overtakes the other, two uploads, two programs.  A queue of one slot overflows
behind a write that is held with three messages; what comes in and what goes out
of a terminal meet only in the context, the socket and its lock, so `MCBounds`
explores an overflow, a malformed message and output each by itself, against
every way a terminal may end; a socket of two frames makes `pump` stop and go on
more than once in a paste of five.  Three generations of the file manager allow
a navigation away and back, a closing and a reopening, and a change of server,
each with requests of the first generation still on their way.  Two windows are
enough for one to end the session under the other, and three requests for a
check, a setup and an answer of the page before to cross.  Three tabs opened on
two servers allow the desktop to be closed and opened again, and a tab to be
closed on either side of the active one.  In the server panel two forms let a
late save meet a newer form, and three requests a deletion meet two listings.
Bounds that cut behaviours (`MaxId`, `MaxChunks`, `MaxFrames`, `MaxSize`,
`MaxGen`, `MaxFiles`, `MaxRequests`, `MaxOpens`, `MaxInits`, `MaxTold`,
`Bounds`) are guards of the actions that count; a run whose system may stop
there, or rightly ends, says `CHECK_DEADLOCK FALSE`.

### Fairness

Weak fairness is given to the steps a scheduler takes: goroutines that can go
on, `context.AfterFunc` callbacks, timers, and the tasks of the browser.
Nothing obliges a peer: browsers and servers may be silent for ever, and
operators may never act.  What the code waits for is bounded by what it sets up
itself: a setup stage ends by its `context.WithTimeout`, a WebSocket or RDP
write by its write deadline, a read by a silent browser by the pong deadline of
60 seconds, an SFTP request by the 15 minutes of `sftpOperation`.  A write to
the SSH session has no deadline: only the closing of the transport ends it, and
so it has fairness only then.  The mutex of `wsWriter` has strong fairness per
writer, which Go's `sync.Mutex` gives by its starvation mode.  Where a `select`
has several ready cases, only the disjunction is fair.  In `BrowserTerminal`
what waits in a socket is sent in the end or the connection is found broken
(TCP's own limit on retransmission).  In `Workspace` effects run, messages
between the documents are delivered, timers fire and a frame that loads is
loaded or fails; nobody has to connect, close or resize anything.  In `Auth`
the only fairness is that something on its way goes on while anything is
(`Progress`): requests are answered or fail.  `ServerStore`, `FileManager`,
`ServerPanel` and `Startup` are checked for safety only and state no fairness.

### What the runs found

One statement of the documentation does not hold.  `README.md` 202 says
"symlinks are not overwritten", and `Upload` does refuse a link that its `Lstat`
sees (`client.go` 59); but the rename comes many requests later (line 102), and
on a server with the POSIX extension it replaces a link that was put there
meanwhile.  `upload_links` states the sentence as `LinksAreNotOverwritten` and
ends with that behaviour.  For the same reason the mode and owner preserved are
those of the file that was there at the `Lstat`.  `AtomicFile` promises only the
look, and says so; `ImplementsFile` and `FileCorrect` are to be read with that.

Every other property listed holds.  The following behaviours are in the code, are
allowed by the properties, and are worth knowing; most are in the models, and
appeared as counterexamples to stronger properties or while the code was
translated.

Server:

- Deleting a server leaves rows that name it as their jump host, and every dial
  of those fails: the column the README calls a foreign key is declared without
  `REFERENCES` (`migrations.go`, `server_handler.go`).
- An update that leaves the key blank writes back the one it read at
  `server_handler.go` 181, so it undoes an update that came in between.
- A generated key that is read back from a file not yet synced
  (`config.go` 72) can encrypt credentials and then be lost with the power,
  even with the file itself, and a new one is generated then;
  a crash between creating and writing the file makes every later start fail.

Sign-in pages:

- A wrong password is answered 401, which the interceptor takes for the end of
  the session: it removes the token of all windows.
- A status answer that comes late takes its window from the main page to setup.
- A setup page stays one after another window has set up the administrator,
  until it is submitted or loaded again, and a page whose check failed stays as
  it is.

Tabs and the RDP frame:

- Closing a tab that is not active moves the active one to a neighbour of the
  closed tab.
- When the active tab is closed, whether the last tab or the neighbour that has
  the focus becomes active depends on when React runs the updater.
- A builder of the connection that throws leaves only the cancel button.

Server list and form:

- With "reuse" and no server chosen, a key pasted before the source was changed
  is sent although it is hidden; without one the stored key stays.
- Of several key files the last to be read wins, and one that is read after the
  submission is not sent.
- A save whose form was cancelled closes the form that is open when it is
  answered.
- Lists are not numbered: an older answer that comes last stays.  `ListIsTrue`
  exempts that and lost answers, and shows that nothing else leaves a list wrong.
- A jump host or a key of another server that has gone since the form was opened
  is noticed by the server only; the save is refused.

File manager: when two operations overlap, the reload after the first makes the
second stale, which is then not followed by a listing (`useDirectory.ts` 52);
`ListingIsTrue` says so through `unsure`.

## 4. Proofs

TLC checks the instances above; the following hold for every value of the
constants that satisfies the named assumptions, with any number of requests,
uploads, messages and chunks.  Each proof module shows that its invariant holds
initially and is kept by each action, in one step per action, and derives the
properties from it.  Type invariants are not listed in the runs; those of
`SSHClient`, `Terminal`, `ServerStore`, `Upload` and `Auth` are proved here; in
the other proof modules what a proof needs of types is a part of its invariant.

**TerminalProofs**, the terminal (from `CapacityAssumption`,
`MessageAssumption`, `StreamAssumption`, `BoundAssumption`).  `TypeCorrect`,
`InputCorrect`, `OutputCorrect`, `LiveCorrect` and `CleanCorrect` state the type
invariant and the invariants of the run `terminal`.  None is inductive alone.
`InputInv` adds that until somebody cancels the context the typed, held and
queued messages are exactly those received, and lemmas move a message from one
part to the next.  `PumpInv`, `SendingInv` and `WaiterInv` say that the waiter
is the one that cancels only after each pump has shown what it took and reached
the end of its stream; `LiveInv` that a goroutine that has ended early has
cancelled the context; `StartInv`, `LockInv` and `ClientInv` tie the goroutines
to the stage of the handler, the mutex to the writer that holds it and the
transport to the handler.

**TerminalProofs**, the SSH client.  `FailureCorrect`, `UsableCorrect`.
`SSHClient` has no constants, and TLC explores it whole; what the proof adds is
the reason.  Of `AttemptInv`, `MadeInv` says which transports a stage has made,
`ClosedInv` what it means for them that a `sync.Once` is over - the inner
client's only after the socket under it is closed - and `HookInv` that a setup
hook which can still fire is that of the present stage, in a place where the
dialling goroutine will still ask whether it has.  `ReasonInv` is the heart: a
client that is being closed has a cancelled context, a failing or released
attempt, or a hook of the present stage that was started.  At "usable" only the
first is left.

**TerminalProofs**, the refinement.  `AttemptKeepsTransports` and
`TerminalKeepsTransport`: `ClientSpec => ClientOwner!Safety` and
`Spec => Owner!Safety`, where `Safety` is `TransportOwner` without its two
liveness formulas.  Each step of either is a step of the owner or a stutter.
That of `SSHClient` needs `ReasonInv`, for a transport may be dropped in use
only after the cancellation; that of `Terminal` needs `LiveInv`, for a client may
be delivered only with its transport open.  With the first theorem the second
rests on what `client.go` does and not on what it is hoped to do.

**ServerStoreProofs** (from `StoreAssumption`).  `TypeCorrect`, `RowsCorrect`,
`JumpCorrect`, `DialCorrect`, `DeleteCorrect`.  `TableInv` says that every row
is one a validated body may produce and that no id from `nextId` on is used;
`FormInv` and `WriteInv` carry that through the statements of a request,
`DialInv` through those of a dial.  That no server jumps through itself rests on
AUTOINCREMENT: an id that a form names is below `nextId` when it is checked,
and the row it creates gets an id that was never used.

**UploadProofs** (from `UploadAssumption`).  `TypeCorrect`, `PrivateCorrect`,
`ReadyCorrect`, `LitterCorrect`, and `FileCorrect`: `Spec => ImplementsFile`,
the refinement of `AtomicFile` under the mapping in `Upload`.  `IInv` is a
conjunction per upload, and `OneUpload` is its frame: an action of one upload
disturbs only its own conjunct, so each step is argued about one upload.
`StepOutcome` says what a step does to the destination as the mapping sees it,
from which each step of `Upload` is a step of `AtomicFile` or a stutter.

**ServerProofs**, signing in (from `AuthAssumption`).
`AdministratorCorrect`, `TypeCorrect`, for any number of windows and requests.
`IInv` says that a request told "yes" names a user, and that there is at most
one: `Answered` is the frame for what the server does to one request, and
`GoodGrows` carries the other requests over a table that only grows.

**ServerProofs**, starting up (from `StartupAssumption`).  `ServedCorrect`,
`AtomicCorrect`, `KeyCorrect`, for any number of programs that start, crash and
start again, of encrypted values and of migrations.  That a serving program can
decrypt what is stored is inductive only with the two things that make the
programs agree.  `FileInv`: at most one program writes the secrets file, the one
whose exclusive create succeeded, and the key of a program that has loaded its
configuration is the operator's or the one in the file; the lemma `OneKey`
concludes that all of them use one key.  `LockInv`: the data seen in the one
open transaction is the database's until the upgrade, so what is committed is
either unchanged or encrypted throughout with that key.  With the
operator's key in the environment no program relies on the file, which may then be
made, or lost, beside them (`Alone`).  `UpgradeIsAtomic` and
`OnlyPowerTakesKey` are about steps, and follow from the invariant step by step;
the schema needs `SchemaInv` beside it: a database of a version that is known has
exactly the columns of it, the unversioned one some of the first migration's, and
a credential upgrade sees the schema of the database.

**BrowserProofs**, tabs and the RDP frame.  `FrameCorrect`, `UsableCorrect`,
`TabsCorrect`, `ActiveCorrect`.  Whether a frame can be used is not inductive:
`FrameInv` adds that what the script remembers, what the document shows and what
the handler waits for agree through loading, connecting, throwing, ending and
reloading; the tabs come in only by mounting and unmounting the frame.
`TabsInv` says that keys and servers of tabs are unique and keys no greater than
the last one given out; closing a tab removes one place of the sequence, and a
lemma says where the others go.

**BrowserProofs**, the browser terminal (from `BrowserAssumption`).
`ConnectCorrect`, `GapCorrect`, `ToldCorrect`, for any limit of the socket and
any number of frames.  `Carries(s, a, b)` says that the input in a sequence of
frames is that from `a + 1` to `b`, each once and in order, with sizes anywhere
between.  `InputInv` says that what the socket holds carries the input from the
last one sent to the first one still queued, and the lemmas `Carries...` what
becomes of that when a paste joins the queue, `pump` moves a run of frames, a
size is announced or the socket sends its first frame.  `ToldInv`: the first of
the events that race at the end decides the message, and if it found queue and
socket empty, `InputInv` says that all accepted input was sent; nothing is
accepted after it.

**FileManagerProofs** (from `FilesAssumption`).  `RowsCorrect`,
`ListingCorrect`, `ActsCorrect`: the generation argument, for any number of
reloads, operations and directories.  `ViewInv`, `ShownInv` and `ListsInv` say
that an answer of the present generation is about this place; `PastInv` that an
operation on this place from before the last reload is finished, unless
`unsure`; `TrueInv` that a listing which is not true has an operation of the
present generation behind it, which will list again.

**RdpRelayProofs.** `TailCorrect`, for a stream of any length.  `ChunksInv`
counts every chunk as shown, in hand or unread, and says that a relay which
ended by the end of the stream has shown all of them.

**ServerPanelProofs** (from `PanelAssumption`).  `RefusedCorrect`,
`ListCorrect`, `LeavesCorrect`, `ShownCorrect`, `SavedCorrect`, for any tables,
keys, forms and requests.  `ListInv` says that a list which is not the table's
is `unsure`, or has an accepted change or a listing still on its way, and that
the listing served last, while it is on its way, carries the table or is
followed by another; `ListCorrect` therefore says that lost answers and an older
answer that comes last are the only causes of a list that stays wrong, and not
that there are none.  `FormInv` that a form never names the row it edits as its
jump host, also in a hidden control; `RequestsInv` that bodies are such as
`validate` accepts and that a request is never of a form yet to be opened.
`SaveInv` says that requests have ids of their own and that a save on its way
carries what its form showed when it was submitted.  A request takes an id that
is free; that there is one is counted (`FreeId`: fewer requests than ids), and
`PanelAssumption` asks for at least one, since the first list is always on its
way.

## 5. What is only model-checked

Liveness, which needs `ENABLED` and fairness and is beyond this prover:
`NoGoroutineLeaks` of `SSHClient`, `EndsCompletely` of `Terminal` and of
`RdpRelay`, `EveryUploadEnds`, `InputArrives` and `SizeArrives` of
`BrowserTerminal`, `PagesSettle`, `DotSettles` and `DesktopFits`; and, of
`ClientImplementsOwner` and `ImplementsOwner`, the two liveness formulas of
`TransportOwner`.  Every safety invariant and every action property of the runs
is a theorem.

## 6. What is not modelled

- Contents: terminal bytes, file data, RDP messages, certificates, the wire
  formats of SSH and TLS, encryption and password hashing.  They are values,
  or stages that succeed or fail.
- Listing, downloading, creating and deleting over SFTP: one request each,
  between the dial and the release that `SSHClient` models.
- `terminal/manager.go`: no handler uses it.
- The attempt limiter's clock and table: in `Auth` a refusal may come at any
  time.  Its window is computed from a time read before the mutex is taken
  (`rate_limit.go`), which may shorten a window by the wait for the lock.
- `ThemeContext.tsx`, the frame of the sign-in pages, fonts, styling, the touch
  scrolling of terminals, the long press that opens a menu, searching and
  collapsing groups: presentation, with no request and no state another part
  reads.
- The switch of the layout between drawer and side bar, which mounts the list
  anew; the clipboard, full screen and Ctrl+Alt+Del of a desktop, single calls
  on an external client; connection tests of a form, which answer with a message.
- Shutdown beyond the base context: `main.go` does not wait for hijacked
  connections, which end by that context while the program exits.

Limits of what is modelled.  In `Terminal` and `RdpRelay` a failed write to the
other side may end the session before output that has arrived is shown;
`OutputIsComplete` and `TailIsShown` are about sessions the shell or the server
ended.  In `Startup`, `Sync` is taken to make the file and its directory entry
durable, a random key to be new, and the environment changes only while no
program runs.  In `BrowserTerminal`, input lost after it has left the browser is
not seen by anyone; the browser gets no acknowledgement.  In `FileManager`,
`ListingIsTrue` says nothing after a lost answer, or after a reload, of the
user's or of the program's own, during an operation whose answer is then stale
(`unsure`), and directories change only through the window.  In `ServerPanel`
nobody but this panel writes the table: other windows and programs change it for
no listing of this one.

## 7. Plan

1. `Session`: `BrowserTerminal` composed with `Terminal` through two channels,
   for input that is neither typed nor reported, and output order end to end.
2. `Shutdown`: `main.go` with open terminals, relays and requests, and the
   database closed under them.
3. The attempt limiter with a clock that advances between its reading and the
   mutex, and its table of addresses at its limit.
4. Proofs: type correctness of the modules whose invariants carry only the types
   their proofs need, and the safety half of the liveness arguments: what holds
   while a goroutine, a request or a task is still on its way.
5. Descriptions the code does not follow: the status frame 0x03 of the README,
   which no handler sends; the sessions table, which nothing writes.
