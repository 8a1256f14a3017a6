----------------------------- MODULE UploadProofs -----------------------------
(***************************************************************************)
(* Theorems about Upload: for any uploads and any changes by others.       *)
(***************************************************************************)
EXTENDS Upload, TLAPS

Owner(o) == IF o THEN "kept" ELSE "login"

Full == {"chown", "chmod", "close", "probe", "publish"}

(* What the temporary file t of an upload may be before its request a, when l
   says that its connection is up and o that it replaces a file. *)
Sound(t, l, a, o) ==
    /\ l \in BOOLEAN /\ o \in BOOLEAN
    /\ a \in {"lstat", "create", "cleanup"} \cup Changing \cup Ended
    /\ t = Nothing \/ t \in Temps
    /\ t \in Temps /\ t.bytes # "none" => t.mode # "default"
    /\ a \in {"lstat", "create", "ok"} \/ (a = "failed" /\ l) => t = Nothing
    /\ a \in Changing => t \in Temps
    /\ a = "secure" => t.bytes = "none"
    /\ a \in {"secure", "copy", "chown"} => t.owner = "login"
    /\ a \in {"copy", "chown", "chmod"} => t.mode = "private"
    /\ a \in Full => t.bytes = "whole"
    /\ a = "chown" => o
    /\ a \in {"chmod", "close", "probe", "publish"} => t.owner = Owner(o)
    /\ a \in {"close", "probe", "publish"} => t.mode = "final"

Functions == /\ DOMAIN temp = Uploads /\ temp = [u \in Uploads |-> temp[u]]
             /\ DOMAIN up = Uploads /\ up = [u \in Uploads |-> up[u]]
             /\ DOMAIN over = Uploads /\ over = [u \in Uploads |-> over[u]]
             /\ DOMAIN at = Uploads /\ at = [u \in Uploads |-> at[u]]

IInv == /\ dest \in Foreign \cup {Link, Nothing} \cup Uploaded
        /\ posix \in BOOLEAN
        /\ Functions
        /\ \A u \in Uploads : Sound(temp[u], up[u], at[u], over[u])

(* A step of one upload. *)
OnlyChanges(u) ==
    /\ temp' = [temp EXCEPT ![u] = temp'[u]]
    /\ up' = [up EXCEPT ![u] = up'[u]]
    /\ at' = [at EXCEPT ![u] = at'[u]]
    /\ over' = [over EXCEPT ![u] = over'[u]]
    /\ posix' = posix

(* What a request that would make new the temporary file of u does to u. *)
Result(u, new, done, error) ==
    /\ over'[u] = over[u]
    /\ \/ up[u] /\ temp'[u] = new /\ at'[u] = done /\ up'[u] = up[u]
       \/ temp'[u] = temp[u] /\ at'[u] = error /\ up'[u] = up[u]
       \/ up[u] /\ temp'[u] = new /\ at'[u] = error /\ up'[u] = FALSE

(* Such a step disturbs no other upload. *)
LEMMA OneUpload ==
    ASSUME IInv, NEW u \in Uploads, OnlyChanges(u),
           dest' \in Foreign \cup {Link, Nothing} \cup Uploaded,
           Sound(temp'[u], up'[u], at'[u], over'[u])
    PROVE  IInv'
<1> USE DEF OnlyChanges
<1>1. Functions'
  BY DEF IInv, Functions
<1>2. ASSUME NEW v \in Uploads PROVE Sound(temp'[v], up'[v], at'[v], over'[v])
  <2>1. CASE v = u
    BY <2>1
  <2>2. CASE v # u
    <3>1. /\ temp'[v] = temp[v] /\ up'[v] = up[v]
          /\ at'[v] = at[v] /\ over'[v] = over[v]
      BY <2>2 DEF IInv, Functions
    <3> QED BY <3>1 DEF IInv
  <2> QED BY <2>1, <2>2
<1> QED BY <1>1, <1>2 DEF IInv

LEMMA Initially == Init => IInv
  BY UploadAssumption DEF Init, IInv, Functions, Sound, Changing, Full, Ended

LEMMA OthersKeepIInv == IInv /\ Others => IInv'
  BY DEF Others, IInv, Functions

LEMMA CrashKeepsIInv == IInv /\ Crash => IInv'
<1> SUFFICES ASSUME IInv, Crash PROVE IInv'
  OBVIOUS
<1>1. Functions'
  BY DEF Crash, IInv, Functions, files
<1>2. ASSUME NEW u \in Uploads PROVE Sound(temp'[u], up'[u], at'[u], over'[u])
  <2>1. Sound(temp[u], up[u], at[u], over[u]) BY DEF IInv
  <2>2. /\ temp'[u] = temp[u] /\ over'[u] = over[u] /\ up'[u] = FALSE
        /\ at'[u] = IF at[u] \in Ended THEN at[u] ELSE "litter"
    BY DEF Crash, files
  <2> QED BY <2>1, <2>2 DEF Sound, Changing, Full, Ended
<1> QED BY <1>1, <1>2 DEF IInv, Crash, files

(* What a step of u starts from. *)
LEMMA Before ==
    ASSUME IInv, NEW u \in Uploads
    PROVE  /\ Functions
           /\ Sound(temp[u], up[u], at[u], over[u])
           /\ dest \in Foreign \cup {Link, Nothing} \cup Uploaded
  BY DEF IInv

LEMMA DisconnectKeepsIInv ==
    ASSUME IInv, NEW u \in Uploads, Disconnect(u) PROVE IInv'
<1>1. OnlyChanges(u) /\ dest' = dest
  BY Before DEF Disconnect, OnlyChanges, Functions, files
<1>2. Sound(temp'[u], up'[u], at'[u], over'[u])
  BY Before DEF Disconnect, Functions, Sound, files
<1> QED BY <1>1, <1>2, Before, OneUpload

LEMMA StepKeepsIInv ==
    ASSUME IInv, NEW u \in Uploads, Step(u) PROVE IInv'
<1>0. /\ Sound(temp[u], up[u], at[u], over[u]) /\ Functions
      /\ dest \in Foreign \cup {Link, Nothing} \cup Uploaded
      /\ Nothing \notin Temps
  BY Before, UploadAssumption
<1>1. CASE LstatFirst(u)
  <2>1. /\ OnlyChanges(u) /\ dest' = dest /\ temp'[u] = temp[u] /\ up'[u] = up[u]
        /\ at[u] = "lstat" /\ at'[u] \in {"create", "failed"}
    BY <1>0, <1>1 DEF LstatFirst, OnlyChanges, Functions, files
  <2>2. over'[u] \in BOOLEAN
    BY <1>0, <1>1 DEF LstatFirst, Functions, Sound
  <2>3. Sound(temp'[u], up'[u], at'[u], over'[u])
    BY <1>0, <2>1, <2>2 DEF Sound, Changing, Full, Ended
  <2> QED BY <1>0, <2>1, <2>3, OneUpload
<1>2. CASE Create(u)
  <2>1. at[u] = "create"
    BY <1>2 DEF Create, AfterCreate, Change
  <2>2. OnlyChanges(u) /\ dest' = dest
        /\ Result(u, [bytes |-> "none", mode |-> "default", owner |-> "login"], "secure", "failed")
    BY <1>0, <1>2 DEF Create, AfterCreate, Result, OnlyChanges, Functions, Request, Change, SetTemp, Goto, OnFailure, files
  <2>3. LET n == [bytes |-> "none", mode |-> "default", owner |-> "login"]
        IN  n \in Temps /\ n.bytes = "none" /\ n.owner = "login"
    BY <1>0, <2>1 DEF Temps, Sound, Changing
  <2>4. Sound(temp'[u], up'[u], at'[u], over'[u])
    BY <1>0, <2>1, <2>2, <2>3 DEF Sound, Result, Changing, Full, Ended, Owner
  <2> QED BY <1>0, <2>2, <2>4, OneUpload
<1>3. CASE Secure(u)
  <2>1. at[u] = "secure"
    BY <1>3 DEF Secure, Change
  <2>2. OnlyChanges(u) /\ dest' = dest
        /\ Result(u, [temp[u] EXCEPT !.mode = "private"], "copy", "cleanup")
    BY <1>0, <1>3 DEF Secure, Result, OnlyChanges, Functions, Request, Change, SetTemp, Goto, OnFailure, files
  <2>3. LET n == [temp[u] EXCEPT !.mode = "private"]
          IN  n \in Temps /\ n.bytes = temp[u].bytes /\ n.mode = "private" /\ n.owner = temp[u].owner
    BY <1>0, <2>1 DEF Temps, Sound, Changing
  <2>4. Sound(temp'[u], up'[u], at'[u], over'[u])
    BY <1>0, <2>1, <2>2, <2>3 DEF Sound, Result, Changing, Full, Ended, Owner
  <2> QED BY <1>0, <2>2, <2>4, OneUpload
<1>4. CASE Copy(u)
  <2>1. CASE Change(u, "copy", [temp[u] EXCEPT !.bytes = "part"], "copy")
    <3>1. at[u] = "copy"
      BY <2>1 DEF Change
    <3>2. OnlyChanges(u) /\ dest' = dest
          /\ Result(u, [temp[u] EXCEPT !.bytes = "part"], "copy", "cleanup")
      BY <1>0, <2>1 DEF Result, OnlyChanges, Functions, Request, Change, SetTemp, Goto, OnFailure, files
    <3>3. LET n == [temp[u] EXCEPT !.bytes = "part"]
            IN  n \in Temps /\ n.bytes = "part" /\ n.mode = temp[u].mode /\ n.owner = temp[u].owner
      BY <1>0, <3>1 DEF Temps, Sound, Changing
    <3>4. Sound(temp'[u], up'[u], at'[u], over'[u])
      BY <1>0, <3>1, <3>2, <3>3 DEF Sound, Result, Changing, Full, Ended, Owner
    <3> QED BY <1>0, <3>2, <3>4, OneUpload
  <2>2. CASE Change(u, "copy", [temp[u] EXCEPT !.bytes = "whole"], AfterCopy(u))
    <3>1. at[u] = "copy"
      BY <2>2 DEF Change
    <3>2. OnlyChanges(u) /\ dest' = dest
          /\ Result(u, [temp[u] EXCEPT !.bytes = "whole"], AfterCopy(u), "cleanup")
      BY <1>0, <2>2 DEF Result, OnlyChanges, Functions, Request, Change, SetTemp, Goto, OnFailure, files
    <3>3. LET n == [temp[u] EXCEPT !.bytes = "whole"]
            IN  n \in Temps /\ n.bytes = "whole" /\ n.mode = temp[u].mode /\ n.owner = temp[u].owner
      BY <1>0, <3>1 DEF Temps, Sound, Changing
    <3>4. Sound(temp'[u], up'[u], at'[u], over'[u])
      BY <1>0, <3>1, <3>2, <3>3 DEF Sound, Result, Changing, Full, Ended, Owner, AfterCopy
    <3> QED BY <1>0, <3>2, <3>4, OneUpload
  <2> QED BY <1>4, <2>1, <2>2 DEF Copy, Copied
<1>5. CASE Chown(u)
  <2>1. at[u] = "chown"
    BY <1>5 DEF Chown, Change
  <2>2. OnlyChanges(u) /\ dest' = dest
        /\ Result(u, [temp[u] EXCEPT !.owner = "kept"], "chmod", "cleanup")
    BY <1>0, <1>5 DEF Chown, Result, OnlyChanges, Functions, Request, Change, SetTemp, Goto, OnFailure, files
  <2>3. LET n == [temp[u] EXCEPT !.owner = "kept"]
          IN  n \in Temps /\ n.bytes = temp[u].bytes /\ n.mode = temp[u].mode /\ n.owner = "kept"
    BY <1>0, <2>1 DEF Temps, Sound, Changing
  <2>4. Sound(temp'[u], up'[u], at'[u], over'[u])
    BY <1>0, <2>1, <2>2, <2>3 DEF Sound, Result, Changing, Full, Ended, Owner
  <2> QED BY <1>0, <2>2, <2>4, OneUpload
<1>6. CASE Chmod(u)
  <2>1. at[u] = "chmod"
    BY <1>6 DEF Chmod, Change
  <2>2. OnlyChanges(u) /\ dest' = dest
        /\ Result(u, [temp[u] EXCEPT !.mode = "final"], "close", "cleanup")
    BY <1>0, <1>6 DEF Chmod, Result, OnlyChanges, Functions, Request, Change, SetTemp, Goto, OnFailure, files
  <2>3. LET n == [temp[u] EXCEPT !.mode = "final"]
          IN  n \in Temps /\ n.bytes = temp[u].bytes /\ n.mode = "final" /\ n.owner = temp[u].owner
    BY <1>0, <2>1 DEF Temps, Sound, Changing
  <2>4. Sound(temp'[u], up'[u], at'[u], over'[u])
    BY <1>0, <2>1, <2>2, <2>3 DEF Sound, Result, Changing, Full, Ended, Owner
  <2> QED BY <1>0, <2>2, <2>4, OneUpload
<1>7. CASE Close(u)
  <2>1. at[u] = "close"
    BY <1>7 DEF Close, Change
  <2>2. OnlyChanges(u) /\ dest' = dest
        /\ Result(u, temp[u], IF posix THEN "publish" ELSE "probe", "cleanup")
    BY <1>0, <1>7 DEF Close, Result, OnlyChanges, Functions, Request, Change, SetTemp, Goto, OnFailure, files
  <2>4. Sound(temp'[u], up'[u], at'[u], over'[u])
    BY <1>0, <2>1, <2>2 DEF Sound, Result, Changing, Full, Ended, Owner
  <2> QED BY <1>0, <2>2, <2>4, OneUpload
<1>8. CASE Probe(u)
  <2>1. /\ OnlyChanges(u) /\ dest' = dest /\ temp'[u] = temp[u] /\ up'[u] = up[u]
        /\ over'[u] = over[u] /\ at[u] = "probe" /\ at'[u] \in {"publish", "cleanup"}
    BY <1>0, <1>8 DEF Probe, Goto, OnlyChanges, Functions, files
  <2>2. Sound(temp'[u], up'[u], at'[u], over'[u])
    BY <1>0, <2>1 DEF Sound, Changing, Full, Ended
  <2> QED BY <1>0, <2>1, <2>2, OneUpload
<1>9. CASE Publish(u)
  <2>1. at[u] = "publish" /\ Content(u) \in Uploaded
    BY <1>0, <1>9 DEF Publish, Content, Uploaded, Sound, Changing, Temps
  <2>2. /\ OnlyChanges(u) /\ dest' \in {dest, Content(u)}
        /\ Result(u, Nothing, "ok", "cleanup")
    BY <1>0, <1>9 DEF Publish, Rename, Result, OnlyChanges, Functions, Request, Goto,
                      OnFailure, files
  <2>3. Sound(temp'[u], up'[u], at'[u], over'[u])
    BY <1>0, <2>1, <2>2 DEF Sound, Result, Changing, Full, Ended, Owner
  <2> QED BY <1>0, <2>1, <2>2, <2>3, OneUpload
<1>10. CASE Remove(u)
  <2>1. at[u] = "cleanup"
    BY <1>10 DEF Remove, Change
  <2>2. OnlyChanges(u) /\ dest' = dest
        /\ Result(u, Nothing, "failed", "litter")
    BY <1>0, <1>10 DEF Remove, Result, OnlyChanges, Functions, Request, Change, SetTemp, Goto, OnFailure, files
  <2>4. Sound(temp'[u], up'[u], at'[u], over'[u])
    BY <1>0, <2>1, <2>2 DEF Sound, Result, Changing, Full, Ended, Owner
  <2> QED BY <1>0, <2>2, <2>4, OneUpload
<1> QED BY <1>1, <1>2, <1>3, <1>4, <1>5, <1>6, <1>7, <1>8, <1>9, <1>10 DEF Step

(* The temporary file at every request is what the order of Upload makes it
   (client.go:56-118), for any number of uploads. *)
THEOREM InvCorrect == Spec => []IInv
<1>1. IInv /\ [Next]_vars => IInv'
  <2>1. IInv /\ UNCHANGED vars => IInv'
    BY DEF vars, IInv, Functions
  <2> QED BY <2>1, OthersKeepIInv, CrashKeepsIInv, DisconnectKeepsIInv, StepKeepsIInv DEF Next
<1> QED BY Initially, <1>1, PTL DEF Spec

(* Types, and a temporary file wherever a request works on one. *)
THEOREM TypeCorrect == Spec => []TypeOK
<1>1. ASSUME IInv PROVE TypeOK
  <2>1. ASSUME NEW u \in Uploads
        PROVE /\ temp[u] \in Temps \cup {Nothing} /\ up[u] \in BOOLEAN /\ over[u] \in BOOLEAN
              /\ at[u] \in {"lstat", "create", "cleanup"} \cup Changing \cup Ended
              /\ at[u] \in Changing => temp[u] # Nothing
    <3>1. Sound(temp[u], up[u], at[u], over[u]) BY <1>1 DEF IInv
    <3> QED BY <3>1, UploadAssumption DEF Sound
  <2> QED BY <1>1, <2>1 DEF IInv, Functions, TypeOK
<1> QED BY InvCorrect, <1>1, PTL

(* No byte is readable under the server's default mode (client.go:83). *)
THEOREM PrivateCorrect == Spec => []TempStaysPrivate
<1>1. ASSUME IInv, NEW u \in Uploads, temp[u] # Nothing, temp[u].bytes # "none"
      PROVE  temp[u].mode # "default"
  <2>1. Sound(temp[u], up[u], at[u], over[u]) BY <1>1 DEF IInv
  <2> QED BY <1>1, <2>1 DEF Sound
<1>2. IInv => TempStaysPrivate BY <1>1 DEF TempStaysPrivate
<1> QED BY InvCorrect, <1>2, PTL

(* What is published is whole, with its final mode and owner. *)
THEOREM ReadyCorrect == Spec => []PublishedIsReady
<1>1. ASSUME IInv, NEW u \in Uploads, at[u] \in {"probe", "publish"}
      PROVE  temp[u] = [bytes |-> "whole", mode |-> "final",
                        owner |-> IF over[u] THEN "kept" ELSE "login"]
  <2>1. /\ temp[u] \in Temps /\ temp[u].bytes = "whole" /\ temp[u].mode = "final"
        /\ temp[u].owner = IF over[u] THEN "kept" ELSE "login"
    BY <1>1 DEF IInv, Sound, Full, Owner, Changing
  <2> QED BY <2>1 DEF Temps
<1>2. IInv => PublishedIsReady
  BY <1>1 DEF PublishedIsReady
<1> QED BY InvCorrect, <1>2, PTL

(* A failed upload whose connection survived left nothing behind. *)
THEOREM LitterCorrect == Spec => []NoLitter
<1>1. IInv => NoLitter
  BY DEF IInv, Sound, NoLitter
<1> QED BY InvCorrect, <1>1, PTL

-----------------------------------------------------------------------------
(* The refinement.  The abstract uploads are the whole contents. *)
Whole == Uploads \X {"whole"}
Outcomes == [w \in Whole |-> Outcome(w[1])]

LEMMA PairIsWhole ==
    \A u \in Uploads : <<u, "whole">> \in Whole /\ <<u, "whole">>[1] = u
  BY DEF Whole

(* A step after which one outcome has changed. *)
LEMMA OneOutcome ==
    ASSUME NEW u \in Uploads, \A v \in Uploads \ {u} : Outcome(v)' = Outcome(v)
    PROVE  Outcomes' = [Outcomes EXCEPT ![<<u, "whole">>] = Outcome(u)']
<1> DEFINE new == [Outcomes EXCEPT ![<<u, "whole">>] = Outcome(u)']
<1>1. ASSUME NEW w \in Whole PROVE Outcomes'[w] = new[w]
  <2>1. CASE w[1] = u
    BY <2>1 DEF Outcomes, Whole
  <2>2. CASE w[1] # u
    BY <2>2 DEF Outcomes, Whole
  <2> QED BY <2>1, <2>2
<1> QED BY <1>1 DEF Outcomes

(* A step of u touches nothing of the others. *)
LEMMA StepIsLocal ==
    ASSUME IInv, NEW u \in Uploads, Step(u) PROVE OnlyChanges(u)
<1>0. Functions
  BY DEF IInv
<1> USE <1>0 DEF OnlyChanges, Functions, Request, Change, SetTemp, Goto, files
<1>1. CASE LstatFirst(u)
  BY <1>1 DEF LstatFirst
<1>2. CASE Create(u)
  BY <1>2 DEF Create
<1>3. CASE Secure(u)
  BY <1>3 DEF Secure
<1>4. CASE Copy(u)
  BY <1>4 DEF Copy
<1>5. CASE Chown(u)
  BY <1>5 DEF Chown
<1>6. CASE Chmod(u)
  BY <1>6 DEF Chmod
<1>7. CASE Close(u)
  BY <1>7 DEF Close
<1>8. CASE Probe(u)
  BY <1>8 DEF Probe
<1>9. CASE Publish(u)
  BY <1>9 DEF Publish, Rename
<1>10. CASE Remove(u)
  BY <1>10 DEF Remove
<1> QED BY <1>1, <1>2, <1>3, <1>4, <1>5, <1>6, <1>7, <1>8, <1>9, <1>10 DEF Step

(* A step of u puts the whole content of u at the path, or leaves the path
   alone and its own outcome as it was, or failed, or looked at a path without
   a link. *)
LEMMA StepOutcome ==
    ASSUME IInv, NEW u \in Uploads, Step(u)
    PROVE  \/ /\ Outcome(u) = "looked" /\ Outcome(u)' \in {"ok", "put"}
              /\ dest' = <<u, "whole">> /\ (posix \/ dest = Nothing)
           \/ /\ dest' = dest
              /\ \/ Outcome(u)' = Outcome(u)
                 \/ /\ Outcome(u) \in {"started", "looked", "put"}
                    /\ Outcome(u)' = "failed"
                 \/ /\ Outcome(u) = "started" /\ Outcome(u)' = "looked"
                    /\ dest # Link
<1>0. Sound(temp[u], up[u], at[u], over[u]) /\ Functions /\ Nothing \notin Temps
  BY UploadAssumption DEF IInv
<1> DEFINE Stays == at'[u] \notin {"lstat", "ok", "failed", "litter"}
                    /\ (at'[u] = "cleanup" => temp'[u] # Nothing)
           Starts == /\ at[u] \notin Ended \cup {"lstat"}
                     /\ at[u] = "cleanup" => temp[u] # Nothing
<1>1. Starts => Outcome(u) = "looked"
  BY DEF Outcome, Ended
<1>2. Stays => Outcome(u)' = "looked"
  BY DEF Outcome
<1>3. at'[u] \in {"failed", "litter"} => Outcome(u)' = "failed"
  BY DEF Outcome
<1>9. CASE LstatFirst(u)
  <2>1. /\ at[u] = "lstat" /\ dest' = dest
        /\ (at'[u] = "create" /\ dest # Link) \/ at'[u] = "failed"
    BY <1>0, <1>9 DEF LstatFirst, files, Functions
  <2>2. Outcome(u) = "started"
    BY <2>1 DEF Outcome
  <2> QED BY <1>2, <1>3, <2>1, <2>2
<1>4. CASE Create(u)
  <2>1. dest' = dest /\ Starts /\ (Stays \/ at'[u] = "failed")
    BY <1>0, <1>4 DEF Create, AfterCreate, Request, SetTemp, Goto, files,
                      Functions, Ended
  <2> QED BY <1>1, <1>2, <1>3, <2>1
<1>5. CASE Secure(u) \/ Copy(u) \/ Chown(u) \/ Chmod(u) \/ Close(u)
  <2>1. temp[u] \in Temps /\ at[u] \in Changing
    BY <1>0, <1>5 DEF Secure, Copy, Chown, Chmod, Close, Change, Sound, Changing
  <2>2. /\ dest' = dest
        /\ temp'[u] \in {temp[u], [temp[u] EXCEPT !.mode = "private"],
                          [temp[u] EXCEPT !.mode = "final"],
                          [temp[u] EXCEPT !.owner = "kept"],
                          [temp[u] EXCEPT !.bytes = "part"],
                          [temp[u] EXCEPT !.bytes = "whole"]}
        /\ at'[u] \in Changing \cup {"cleanup"}
    BY <1>0, <1>5 DEF Secure, Copy, Chown, Chmod, Close, Change, Request, SetTemp, Goto,
                      files, Functions, Changing, OnFailure, AfterCopy, Copied
  <2>3. temp'[u] \in Temps
    BY <2>1, <2>2 DEF Temps
  <2>4. Starts /\ Stays
    BY <1>0, <2>1, <2>2, <2>3 DEF Changing, Ended
  <2> QED BY <1>1, <1>2, <2>2, <2>4
<1>6. CASE Probe(u)
  <2>1. at[u] = "probe" /\ temp[u] \in Temps
    BY <1>0, <1>6 DEF Probe, Sound, Changing
  <2>2. dest' = dest /\ temp'[u] = temp[u] /\ at'[u] \in {"publish", "cleanup"}
    BY <1>0, <1>6 DEF Probe, Goto, Functions, files
  <2> QED BY <1>0, <1>1, <1>2, <2>1, <2>2 DEF Ended
<1>7. CASE Publish(u)
  <2>1. at[u] = "publish" /\ temp[u] \in Temps /\ Content(u) = <<u, "whole">>
    BY <1>0, <1>7 DEF Publish, Sound, Changing, Full, Content
  <2>2. \/ /\ dest' = Content(u) /\ (posix \/ dest = Nothing)
           /\ temp'[u] = Nothing /\ at'[u] \in {"ok", "cleanup"}
        \/ dest' = dest /\ temp'[u] = temp[u] /\ at'[u] = "cleanup"
    BY <1>0, <1>7 DEF Publish, Rename, Request, Goto, OnFailure, Functions, files
  <2>3. at'[u] = "ok" \/ (at'[u] = "cleanup" /\ temp'[u] = Nothing)
            => Outcome(u)' \in {"ok", "put"}
    BY DEF Outcome
  <2> QED BY <1>0, <1>1, <1>2, <2>1, <2>2, <2>3 DEF Ended
<1>8. CASE Remove(u)
  <2>1. at[u] = "cleanup" /\ dest' = dest /\ at'[u] \in {"failed", "litter"}
    BY <1>0, <1>8 DEF Remove, Request, SetTemp, Goto, Functions, files
  <2>2. Outcome(u) \in {"looked", "put"}
    BY <2>1 DEF Outcome
  <2> QED BY <1>3, <2>1, <2>2
<1> QED BY <1>4, <1>5, <1>6, <1>7, <1>8, <1>9 DEF Step

LEMMA StepRefines == ASSUME IInv, [Next]_vars PROVE [File!Next]_(File!vars)
<1> USE DEF File!vars, File!Next
<1>0. File!vars = <<dest, Outcomes, posix>>
  BY DEF Outcomes, Whole
<1>1. CASE UNCHANGED vars
  <2>1. \A u \in Uploads : Outcome(u)' = Outcome(u)
    BY <1>1 DEF Outcome, vars
  <2>2. Outcomes' = Outcomes
    BY <2>1 DEF Outcomes, Whole
  <2> QED BY <1>1, <2>2 DEF vars, Outcomes, Whole
<1>2. CASE Others
  <2>1. \A u \in Uploads : Outcome(u)' = Outcome(u)
    BY <1>2 DEF Others, Outcome
  <2>2. Outcomes' = Outcomes
    BY <2>1 DEF Outcomes, Whole
  <2>3. File!Others
    BY <1>2, <2>2 DEF Others, File!Others, Outcomes, Whole
  <2> QED BY <2>3
<1>3. CASE Crash
  <2> DEFINE some == {w \in Whole : at[w[1]] \notin Ended}
  <2>1. ASSUME NEW w \in Whole
        PROVE  Outcomes'[w] = IF w \in some THEN "failed" ELSE Outcomes[w]
    <3>1. at'[w[1]] = (IF at[w[1]] \in Ended THEN at[w[1]] ELSE "litter") /\ temp' = temp
      BY <1>3 DEF Crash, files, Whole
    <3> QED BY <3>1 DEF Outcomes, Outcome, Ended
  <2>2. \A w \in some : Outcomes[w] \in {"started", "looked", "put"}
    BY DEF Outcomes, Outcome, Ended
  <2>3. Outcomes' = [w \in Whole |-> IF w \in some THEN "failed" ELSE Outcomes[w]]
    BY <2>1 DEF Outcomes
  <2>4. some \in SUBSET Whole /\ UNCHANGED <<dest, posix>>
    BY <1>3 DEF Crash, files
  <2>5. File!Fail(some)
    BY <2>2, <2>3, <2>4 DEF File!Fail, Outcomes, Whole
  <2> QED BY <2>4, <2>5 DEF Whole
<1>4. ASSUME NEW u \in Uploads, Disconnect(u) PROVE UNCHANGED File!vars
  <2>1. \A v \in Uploads : Outcome(v)' = Outcome(v)
    BY <1>4 DEF Disconnect, Outcome, files
  <2>2. Outcomes' = Outcomes
    BY <2>1 DEF Outcomes, Whole
  <2> QED BY <1>4, <2>2 DEF Disconnect, files, Outcomes, Whole
<1>5. ASSUME NEW u \in Uploads, Step(u) PROVE [File!Next]_(File!vars)
  <2> DEFINE w == <<u, "whole">>
  <2>1. OnlyChanges(u)
    BY <1>5, StepIsLocal
  <2>2. \A v \in Uploads \ {u} : Outcome(v)' = Outcome(v)
    <3>1. \A v \in Uploads \ {u} : at'[v] = at[v] /\ temp'[v] = temp[v]
      BY <2>1 DEF OnlyChanges, IInv, Functions
    <3> QED BY <3>1 DEF Outcome
  <2>3. Outcomes' = [Outcomes EXCEPT ![w] = Outcome(u)']
    BY <2>2, OneOutcome
  <2>4. w \in Whole /\ Outcomes[w] = Outcome(u) /\ posix' = posix
    BY <2>1, PairIsWhole DEF Outcomes, OnlyChanges
  <2>5. CASE /\ Outcome(u) = "looked" /\ Outcome(u)' \in {"ok", "put"}
             /\ dest' = w /\ (posix \/ dest = Nothing)
    <3>1. File!Put(w, Outcome(u)')
      BY <2>3, <2>4, <2>5 DEF File!Put, Outcomes, Whole
    <3> QED BY <2>4, <2>5, <3>1 DEF Whole
  <2>6. CASE dest' = dest /\ Outcome(u)' = Outcome(u)
    <3>1. Outcomes' = Outcomes
      BY <2>3, <2>4, <2>6 DEF Outcomes
    <3> QED BY <2>4, <2>6, <3>1 DEF Outcomes, Whole
  <2>7. CASE /\ dest' = dest /\ Outcome(u) \in {"started", "looked", "put"}
             /\ Outcome(u)' = "failed"
    <3>1. Outcomes' = [x \in Whole |-> IF x \in {w} THEN "failed" ELSE Outcomes[x]]
      BY <2>3, <2>7 DEF Outcomes
    <3>2. File!Fail({w})
      BY <2>4, <2>7, <3>1 DEF File!Fail, Outcomes, Whole
    <3>3. {w} \in SUBSET Whole
      BY <2>4
    <3> QED BY <3>2, <3>3 DEF Whole
  <2>8. CASE /\ dest' = dest /\ Outcome(u) = "started" /\ dest # Link
             /\ Outcome(u)' = "looked"
    <3>1. File!Look(w)
      BY <2>3, <2>4, <2>8 DEF File!Look, Outcomes, Whole
    <3> QED BY <2>4, <3>1 DEF Whole
  <2> QED BY <1>5, StepOutcome, <2>5, <2>6, <2>7, <2>8
<1> QED BY <1>1, <1>2, <1>3, <1>4, <1>5 DEF Next

(* Upload implements AtomicFile: the destination only ever changes to a whole
   upload, at once, never over a file the server cannot replace, and never by an
   upload that found a link there. *)
THEOREM FileCorrect == Spec => ImplementsFile
<1>1. Init => File!Init
  BY DEF Init, File!Init, Outcome, Whole
<1> QED BY <1>1, StepRefines, InvCorrect, PTL DEF Spec, ImplementsFile, File!Spec
=============================================================================
