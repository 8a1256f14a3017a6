-------------------------------- MODULE Upload --------------------------------
(***************************************************************************)
(* Upload of internal/sftpclient/client.go: several uploads to one path    *)
(* of one SFTP server, each over a connection of its own, while others     *)
(* change that path too.  A content is written to a temporary file beside  *)
(* the destination and published by a rename.                              *)
(*                                                                         *)
(* Every step is one SFTP request.  The server refuses it, carries it out, *)
(* or carries it out and its answer is lost with the connection; the       *)
(* connection may be lost before it, too: the browser has left, the 15     *)
(* minutes of sftpOperation are over, the program has ended.               *)
(***************************************************************************)
CONSTANTS Uploads,     \* the uploads in progress
          Foreign,     \* regular files that others may put at the path
          Link,        \* a symbolic link that others may put there
          Nothing      \* no file

VARIABLES dest,        \* what is at the path
          temp,        \* temp[u]: the temporary file of u, or Nothing
          up,          \* up[u]: the connection is up
          over,        \* over[u]: a regular file was there at the first Lstat
          at,          \* at[u]: the next request of u, or how it ended
          posix        \* the server has posix-rename@openssh.com

vars == <<dest, temp, up, over, at, posix>>
files == <<dest, temp>>

Temps == [bytes : {"none", "part", "whole"}, mode : {"default", "private", "final"},
          owner : {"login", "kept"}]

ASSUME UploadAssumption ==
    /\ Foreign \cap Uploads = {}
    /\ Link \notin Foreign \cup Uploads
    /\ Nothing \notin Foreign \cup Uploads \cup {Link} \cup Temps

(* What a rename of the temporary file puts at the path. *)
Content(u) == <<u, temp[u].bytes>>

Uploaded == Uploads \X {"none", "part", "whole"}

Ended == {"ok", "failed", "litter"}

Changing == {"secure", "copy", "chown", "chmod", "close", "probe", "publish"}

TypeOK == /\ dest \in Foreign \cup {Link, Nothing} \cup Uploaded
          /\ temp \in [Uploads -> Temps \cup {Nothing}]
          /\ up \in [Uploads -> BOOLEAN]
          /\ over \in [Uploads -> BOOLEAN]
          /\ at \in [Uploads -> {"lstat", "create", "cleanup"} \cup Changing \cup Ended]
          /\ posix \in BOOLEAN
          /\ \A u \in Uploads : at[u] \in Changing => temp[u] # Nothing

Init == /\ dest \in Foreign \cup {Link, Nothing}
        /\ temp = [u \in Uploads |-> Nothing]
        /\ up = [u \in Uploads |-> TRUE]
        /\ over = [u \in Uploads |-> FALSE]
        /\ at = [u \in Uploads |-> "lstat"]
        /\ posix \in BOOLEAN

-----------------------------------------------------------------------------
Others == /\ dest' \in Foreign \cup {Link, Nothing}
          /\ UNCHANGED <<temp, up, over, at, posix>>

(* The time is over, or the connection is lost. *)
NoDeadline(u) == FALSE    \* fault: an operation may take for ever
Deadline(u) == at[u] \notin Ended

Disconnect(u) == /\ Deadline(u) /\ up[u]
                 /\ up' = [up EXCEPT ![u] = FALSE]
                 /\ UNCHANGED <<files, over, at, posix>>

Goto(u, l) == at' = [at EXCEPT ![u] = l] /\ UNCHANGED <<over, posix>>

(* One request: carried out and answered; not carried out; or carried out,
   with its answer lost. *)
Request(u, Effect, done, error) ==
    \/ up[u] /\ Effect /\ Goto(u, done) /\ UNCHANGED up
    \/ UNCHANGED files /\ Goto(u, error) /\ UNCHANGED up
    \/ up[u] /\ Effect /\ Goto(u, error) /\ up' = [up EXCEPT ![u] = FALSE]

SetTemp(u, file) == temp' = [temp EXCEPT ![u] = file] /\ UNCHANGED dest

(* One request on the temporary file; after an error it is removed. *)
FailureForgets == "failed"         \* fault: the deferred Remove is missing
OnFailure == "cleanup"
Change(u, here, file, next) ==
    at[u] = here /\ Request(u, SetTemp(u, file), next, OnFailure)

-----------------------------------------------------------------------------
(* Not a regular file, or an error other than "does not exist": fails. *)
LstatFirst(u) ==
    /\ at[u] = "lstat"
    /\ UNCHANGED <<files, up, posix>>
    /\ \/ /\ up[u] /\ dest # Link
          /\ over' = [over EXCEPT ![u] = dest # Nothing]
          /\ at' = [at EXCEPT ![u] = "create"]
       \/ at' = [at EXCEPT ![u] = "failed"] /\ UNCHANGED over

(* O_EXCL and a random name: the file is new, with the server's mode. *)
CopiesFirst == "copy"              \* fault: the file keeps the server's mode
AfterCreate == "secure"
Create(u) ==
    /\ at[u] = "create"
    /\ Request(u, SetTemp(u, [bytes |-> "none", mode |-> "default", owner |-> "login"]),
               AfterCreate, "failed")

Secure(u) == Change(u, "secure", [temp[u] EXCEPT !.mode = "private"], "copy")

(* io.Copy: some of the content, and the rest with what follows. *)
AfterCopy(u) == IF over[u] THEN "chown" ELSE "chmod"
ShortCopy == {"part", "whole"}     \* fault: an error of io.Copy is dropped
Copied == {"whole"}
Copy(u) == \/ Change(u, "copy", [temp[u] EXCEPT !.bytes = "part"], "copy")
           \/ \E b \in Copied :
                 Change(u, "copy", [temp[u] EXCEPT !.bytes = b], AfterCopy(u))

Chown(u) == Change(u, "chown", [temp[u] EXCEPT !.owner = "kept"], "chmod")
Chmod(u) == Change(u, "chmod", [temp[u] EXCEPT !.mode = "final"], "close")
Close(u) == Change(u, "close", temp[u], IF posix THEN "publish" ELSE "probe")

(* Without the extension: an early look, and then a rename that the server
   itself refuses when something is there. *)
Probe(u) == /\ at[u] = "probe"
            /\ \/ up[u] /\ dest = Nothing /\ Goto(u, "publish")
               \/ Goto(u, "cleanup")
            /\ UNCHANGED <<files, up>>

Rename(u) == /\ posix \/ dest = Nothing
             /\ dest' = Content(u)
             /\ temp' = [temp EXCEPT ![u] = Nothing]

Publish(u) == at[u] = "publish" /\ Request(u, Rename(u), "ok", OnFailure)

(* The deferred Remove, whose own error is ignored. *)
Remove(u) == /\ at[u] = "cleanup"
             /\ Request(u, SetTemp(u, Nothing), "failed", "litter")

Step(u) == \/ LstatFirst(u) \/ Create(u) \/ Secure(u) \/ Copy(u) \/ Chown(u)
           \/ Chmod(u) \/ Close(u) \/ Probe(u) \/ Publish(u) \/ Remove(u)

(* The program ends: nothing is cleaned up. *)
Crash == /\ at' = [u \in Uploads |-> IF at[u] \in Ended THEN at[u] ELSE "litter"]
         /\ up' = [u \in Uploads |-> FALSE]
         /\ UNCHANGED <<files, over, posix>>

Next == Others \/ Crash \/ \E u \in Uploads : Step(u) \/ Disconnect(u)

(* A server owes no answer; after 15 minutes the connection is closed, and
   without a connection every request fails at once. *)
Fairness == \A u \in Uploads : /\ WF_vars(Disconnect(u))
                               /\ WF_vars(~up[u] /\ Step(u))

Spec == Init /\ [][Next]_vars /\ Fairness

-----------------------------------------------------------------------------
(* Content is never readable under the server's default mode: the temporary
   file is private before its first byte (client.go:83). *)
TempStaysPrivate ==
    \A u \in Uploads : temp[u] # Nothing /\ temp[u].bytes # "none"
                           => temp[u].mode # "default"

(* Only a whole file with its final mode is offered for publication, and one
   that is to replace a file has that file's owner (client.go:88-100). *)
PublishedIsReady ==
    \A u \in Uploads : at[u] \in {"probe", "publish"}
        => temp[u] = [bytes |-> "whole", mode |-> "final",
                      owner |-> IF over[u] THEN "kept" ELSE "login"]

(* A failed upload whose connection survived has removed its temporary file,
   and only that: README.md:203 allows litter after a loss (client.go:78). *)
NoLitter == \A u \in Uploads : at[u] = "ok" \/ (at[u] = "failed" /\ up[u])
                                   => temp[u] = Nothing

(* A destination that is a link at the first Lstat is refused (client.go:59).
   Otherwise the destination is replaced atomically, once, by a whole upload, or
   not at all, and never without the extension (the comment at client.go:50). *)
Outcome(u) == CASE at[u] = "lstat" -> "started"
                [] at[u] = "ok" -> "ok"
                [] at[u] \in {"failed", "litter"} -> "failed"
                [] at[u] = "cleanup" /\ temp[u] = Nothing -> "put"
                [] OTHER -> "looked"

File == INSTANCE AtomicFile
           WITH Uploads <- Uploads \X {"whole"},
                Foreign <- Foreign \cup {Link},
                Links <- {Link},
                outcome <- [w \in Uploads \X {"whole"} |-> Outcome(w[1])],
                replaces <- posix
ImplementsFile == File!Spec

(* Every upload ends, even on a server that stops answering. *)
EveryUploadEnds == \A u \in Uploads : <>(at[u] \in Ended)

(* "Replacing a regular file preserves permissions and UID/GID ... symlinks are
   not overwritten" (README.md:202).  The code keeps this for what it saw at the
   first Lstat only: posix-rename replaces whatever is there by then. *)
LinksAreNotOverwritten == [][dest = Link => dest' \notin Uploaded]_dest
=============================================================================
