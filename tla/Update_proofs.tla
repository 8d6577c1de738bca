--------------------------- MODULE Update_proofs ---------------------------
(***************************************************************************)
(* Self-update, proved for any versions, any calls and any outcome of a    *)
(* trial: what is installed runs here, is never older than what the        *)
(* service runs, and is what was reported; and nothing of an update stays. *)
(***************************************************************************)
EXTENDS Update, TLAPS

\* A call that has a tag to install and has not replaced the program.
Pending(c) == call[c].pc \in {"checked", "written", "tested", "linked"}

\* The mutex: two handlers are never between their check and their answer.
OneHandler == \A c, d \in Post : Active(c) /\ Active(d) => c = d

\* A call's temporary file holds the release it fetched, from the write to the
\* rename; at any other time there is none.
OwnTemps ==
  \A c \in Call : temps[c] = IF call[c].pc \in {"written", "tested", "linked"}
                             THEN call[c].tag ELSE None

\* What is about to be renamed over the program has been run.
TriedOut == \A c \in Call : call[c].pc \in {"tested", "linked"} => Trial[call[c].tag] = "runs"

\* A handler installs only what is newer than its own process, which is the service.
NewerThanService == \A c \in Post : Pending(c) => newerThanRunning(call[c].tag, running)

\* A command line installs only what is newer than the program, which is the one it
\* runs as long as nobody else replaces it.
NewerThanProgram ==
  ~crossed => \A c \in Cli : /\ call[c].pc = "started" => call[c].self = path
                             /\ Pending(c) => newerThanRunning(call[c].tag, path)

\* The backup belongs to a call that will remove it, or is known to be left behind.
OwnBackup ==
  backup /\ ~dirty => \E c \in Call : call[c].pc \in {"linked", "swapped"} /\ call[c].kept

\* The inductive invariant.
IInv == /\ TypeOK /\ InstalledRuns /\ NeverDowngraded /\ InstalledAsReported
        /\ OneHandler /\ OwnTemps /\ TriedOut
        /\ NewerThanService /\ NewerThanProgram /\ OwnBackup


-----------------------------------------------------------------------------
\* Versions are compared part by part.
LEMMA NewerParts ==
  ASSUME NEW a \in Versions, NEW b \in Versions
  PROVE  newerThanRunning(a, b) <=>
           \/ a[1] > b[1]
           \/ a[1] = b[1] /\ a[2] > b[2]
           \/ a[1] = b[1] /\ a[2] = b[2] /\ a[3] > b[3]
<1>1. a # None
  BY NoneAssumption
<1>2. 1 .. 3 = {1, 2, 3} /\ 1 .. 1 - 1 = {} /\ 1 .. 2 - 1 = {1} /\ 1 .. 3 - 1 = {1, 2}
  OBVIOUS
<1> QED
  BY <1>1, <1>2 DEF newerThanRunning

\* "Newer" is a strict order in which any two versions compare: no version is newer
\* than one that is newer than it, and what is not older than a stays so
\* when something newer takes its place.
LEMMA NewerOrder ==
  ASSUME NEW a \in Versions, NEW b \in Versions, NEW c \in Versions
  PROVE  /\ newerThanRunning(a, b) => ~newerThanRunning(b, a)
         /\ ~newerThanRunning(a, b) /\ newerThanRunning(c, b) => ~newerThanRunning(a, c)
<1>1. /\ a[1] \in Nat /\ a[2] \in Nat /\ a[3] \in Nat
      /\ b[1] \in Nat /\ b[2] \in Nat /\ b[3] \in Nat
      /\ c[1] \in Nat /\ c[2] \in Nat /\ c[3] \in Nat
  BY VersionsAssumption
<1>2. /\ newerThanRunning(a, b) <=> \/ a[1] > b[1]
                                    \/ a[1] = b[1] /\ a[2] > b[2]
                                    \/ a[1] = b[1] /\ a[2] = b[2] /\ a[3] > b[3]
      /\ newerThanRunning(b, a) <=> \/ b[1] > a[1]
                                    \/ b[1] = a[1] /\ b[2] > a[2]
                                    \/ b[1] = a[1] /\ b[2] = a[2] /\ b[3] > a[3]
  BY NewerParts
<1>3. /\ newerThanRunning(c, b) <=> \/ c[1] > b[1]
                                    \/ c[1] = b[1] /\ c[2] > b[2]
                                    \/ c[1] = b[1] /\ c[2] = b[2] /\ c[3] > b[3]
      /\ newerThanRunning(a, c) <=> \/ a[1] > c[1]
                                    \/ a[1] = c[1] /\ a[2] > c[2]
                                    \/ a[1] = c[1] /\ a[2] = c[2] /\ a[3] > c[3]
  BY NewerParts
<1> QED
  BY <1>1, <1>2, <1>3

\* No version is newer than itself, and only a tag that could be parsed is newer.
LEMMA NewerStrict ==
  ASSUME NEW tag \in Versions \cup {None}, NEW a \in Versions
  PROVE  ~newerThanRunning(a, a) /\ (newerThanRunning(tag, a) => tag \in Versions)
<1>1. ~newerThanRunning(a, a)
  BY NewerOrder
<1> QED
  BY <1>1 DEF newerThanRunning

\* A release that comes or goes changes nothing here.
LEMMA PublishSafe ==
  ASSUME IInv, NEW tag \in Versions \cup {None}, Publish(tag)
  PROVE  IInv'
<1>1. /\ TypeOK' /\ InstalledRuns' /\ NeverDowngraded' /\ InstalledAsReported'
      /\ OneHandler' /\ OwnTemps' /\ TriedOut' /\ NewerThanService'
      /\ NewerThanProgram' /\ OwnBackup'
  BY DEF IInv, TypeOK, Pc, InstalledRuns, NeverDowngraded, InstalledAsReported,
         Active, Busy, OneHandler, OwnTemps, TriedOut, NewerThanService, Pending,
         NewerThanProgram, OwnBackup, Publish, files, ghosts
<1> QED
  BY <1>1 DEF IInv

\* A command line starts with the installed version.
LEMMA StartCliSafe ==
  ASSUME IInv, NEW c \in Cli, StartCli(c)
  PROVE  IInv'
<1>1. TypeOK'
  BY DEF IInv, TypeOK, Pc, StartCli, NoCall, files, ghosts, Call
<1>2. OwnTemps'
  BY DEF IInv, TypeOK, OwnTemps, StartCli, NoCall, files, ghosts, Call
<1>3. NewerThanProgram'
  BY DEF IInv, TypeOK, NewerThanProgram, Pending, StartCli, NoCall, files, ghosts,
         Call
<1>4. OwnBackup'
  BY DEF IInv, TypeOK, OwnBackup, StartCli, NoCall, files, ghosts, Call
<1>5. /\ InstalledRuns' /\ NeverDowngraded' /\ InstalledAsReported'
      /\ OneHandler' /\ TriedOut' /\ NewerThanService'
  BY DEF IInv, TypeOK, InstalledRuns, NeverDowngraded, InstalledAsReported,
         Active, Busy, OneHandler, TriedOut, NewerThanService, Pending, StartCli,
         NoCall, files, ghosts, Call
<1> QED
  BY <1>1, <1>2, <1>3, <1>4, <1>5 DEF IInv

\* A download only adds a temporary file of the call's own.
LEMMA WriteSafe ==
  ASSUME IInv, NEW c \in Call, WriteTemp(c)
  PROVE  IInv'
<1>1. TypeOK'
  BY DEF IInv, TypeOK, Pc, WriteTemp, TempOf, ghosts
<1>2. OwnTemps'
  BY DEF IInv, TypeOK, OwnTemps, WriteTemp, TempOf, ghosts
<1>3. TriedOut'
  BY DEF IInv, TypeOK, TriedOut, WriteTemp, TempOf, ghosts
<1>4. /\ InstalledRuns' /\ NeverDowngraded' /\ InstalledAsReported'
      /\ OneHandler' /\ NewerThanService' /\ NewerThanProgram' /\ OwnBackup'
  BY DEF IInv, TypeOK, InstalledRuns, NeverDowngraded, InstalledAsReported,
         Active, Busy, OneHandler, NewerThanService, Pending, NewerThanProgram,
         OwnBackup, WriteTemp, TempOf, ghosts
<1> QED
  BY <1>1, <1>2, <1>3, <1>4 DEF IInv

\* A handler passes the check only if it is alone and the release is newer than the
\* service.
LEMMA CheckPostSafe ==
  ASSUME IInv, NEW c \in Post, CheckPost(c)
  PROVE  IInv'
<1>0. newerThanRunning(latest, running) /\ latest \in Versions
  BY NewerStrict DEF CheckPost, Check, IInv, TypeOK
<1>1. TypeOK'
  BY <1>0, CallsAssumption
  DEF IInv, TypeOK, Pc, CheckPost, Check, NoCall, files, ghosts, Call
<1>2. OneHandler'
  BY DEF IInv, TypeOK, OneHandler, Active, CheckPost, Check, updating, NoCall,
         Call
<1>3. OwnTemps'
  BY <1>0, CallsAssumption
  DEF IInv, TypeOK, OwnTemps, CheckPost, Check, NoCall, files, ghosts, Call
<1>4. NewerThanService'
  BY <1>0, CallsAssumption
  DEF IInv, TypeOK, NewerThanService, Pending, CheckPost, Check, NoCall, files,
         ghosts, Call
<1>5. OwnBackup'
  BY <1>0, CallsAssumption
  DEF IInv, TypeOK, OwnBackup, CheckPost, Check, NoCall, files, ghosts, Call
<1>6. /\ InstalledRuns' /\ NeverDowngraded' /\ InstalledAsReported'
      /\ TriedOut' /\ NewerThanProgram'
  BY <1>0, CallsAssumption
  DEF IInv, TypeOK, InstalledRuns, NeverDowngraded, InstalledAsReported,
         Active, Busy, TriedOut, NewerThanProgram, Pending, CheckPost, Check,
         NoCall, files, ghosts, Call
<1> QED
  BY <1>1, <1>2, <1>3, <1>4, <1>5, <1>6 DEF IInv

\* A command line passes the check only if the release is newer than its own program,
\* which is the installed one.
LEMMA CheckCliSafe ==
  ASSUME IInv, NEW c \in Cli, CheckCli(c)
  PROVE  IInv'
<1>0. newerThanRunning(latest, call[c].self) /\ latest \in Versions
  BY DEF CheckCli, Check, newerThanRunning, IInv, TypeOK
<1>1. TypeOK'
  BY <1>0, CallsAssumption
  DEF IInv, TypeOK, Pc, CheckCli, Check, NoCall, files, ghosts, Call
<1>2. OwnTemps'
  BY <1>0, CallsAssumption
  DEF IInv, TypeOK, OwnTemps, CheckCli, Check, NoCall, files, ghosts, Call
<1>3. NewerThanProgram'
  BY <1>0, CallsAssumption
  DEF IInv, TypeOK, NewerThanProgram, Pending, CheckCli, Check, NoCall, files,
         ghosts, Call
<1>4. OwnBackup'
  BY <1>0, CallsAssumption
  DEF IInv, TypeOK, OwnBackup, CheckCli, Check, NoCall, files, ghosts, Call
<1>5. /\ InstalledRuns' /\ NeverDowngraded' /\ InstalledAsReported'
      /\ OneHandler' /\ TriedOut' /\ NewerThanService'
  BY <1>0, CallsAssumption
  DEF IInv, TypeOK, InstalledRuns, NeverDowngraded, InstalledAsReported,
         Active, Busy, OneHandler, TriedOut, NewerThanService, Pending, CheckCli,
         Check, NoCall, files, ghosts, Call
<1> QED
  BY <1>1, <1>2, <1>3, <1>4, <1>5 DEF IInv

\* A release that runs is tried.
LEMMA TestSafe ==
  ASSUME IInv, NEW c \in Call, TestTemp(c)
  PROVE  IInv'
<1>1. TypeOK'
  BY DEF IInv, TypeOK, Pc, TestTemp, Outcome, TempOf, files, ghosts
<1>2. OwnTemps'
  BY DEF IInv, TypeOK, OwnTemps, TestTemp, Outcome, TempOf, files, ghosts
<1>3. TriedOut'
  BY NoneAssumption DEF IInv, TypeOK, TriedOut, OwnTemps, TestTemp, Outcome, TempOf, files,
         ghosts
<1>4. /\ InstalledRuns' /\ NeverDowngraded' /\ InstalledAsReported'
      /\ OneHandler' /\ NewerThanService' /\ NewerThanProgram' /\ OwnBackup'
  BY DEF IInv, TypeOK, InstalledRuns, NeverDowngraded, InstalledAsReported,
         Active, Busy, OneHandler, NewerThanService, Pending, NewerThanProgram,
         OwnBackup, TestTemp, Outcome, TempOf, files, ghosts
<1> QED
  BY <1>1, <1>2, <1>3, <1>4 DEF IInv

\* The program is linked to the backup, by a call that notes whether it was.
LEMMA LinkSafe ==
  ASSUME IInv, NEW c \in Call, LinkBackup(c)
  PROVE  IInv'
<1>1. PICK linked \in BOOLEAN :
        /\ call[c].pc = "tested"
        /\ backup' \in BOOLEAN /\ (backup' => linked \/ backup)
        /\ call' = [call EXCEPT ![c] = [call[c] EXCEPT !.pc = "linked", !.kept = linked]]
        /\ UNCHANGED <<latest, path, temps, running, crossed, dirty>>
  BY DEF LinkBackup, ghosts, IInv, TypeOK
<1>2. TypeOK'
  BY <1>1
  DEF IInv, TypeOK, Pc, ghosts
<1>3. OwnTemps'
  BY <1>1
  DEF IInv, TypeOK, OwnTemps, ghosts
<1>4. TriedOut'
  BY <1>1
  DEF IInv, TypeOK, TriedOut, ghosts
<1>5. OwnBackup'
  BY <1>1
  DEF IInv, TypeOK, OwnBackup, ghosts
<1>6. /\ InstalledRuns' /\ NeverDowngraded' /\ InstalledAsReported'
      /\ OneHandler' /\ NewerThanService' /\ NewerThanProgram'
  BY <1>1
  DEF IInv, TypeOK, InstalledRuns, NeverDowngraded, InstalledAsReported,
         Active, Busy, OneHandler, NewerThanService, Pending, NewerThanProgram,
         ghosts
<1> QED
  BY <1>2, <1>3, <1>4, <1>5, <1>6 DEF IInv

\* The rename installs a release that was tried.  Whoever else is at work in another
\* process is crossed by it; in this process nobody is.
LEMMA SwapSafe ==
  ASSUME IInv, NEW c \in Call, Swap(c)
  PROVE  IInv'
<1>1. /\ call[c].pc = "linked" /\ call[c].tag \in Versions
      /\ path' = call[c].tag /\ temps' = [temps EXCEPT ![c] = None]
      /\ crossed' = (crossed \/ \E d \in Call : ~SameProcess(c, d) /\ Busy(d))
      /\ call' = [call EXCEPT ![c].pc = "swapped"]
      /\ UNCHANGED <<latest, backup, running, dirty>>
  BY DEF Swap, TempOf, IInv, TypeOK, OwnTemps
<1>2. TypeOK'
  BY <1>1
  DEF IInv, TypeOK, Pc, Swap, TempOf
<1>3. InstalledRuns'
  BY <1>1 DEF IInv, TypeOK, TriedOut, InstalledRuns
<1>4. NeverDowngraded'
  <2>1. CASE c \in Post
    BY <1>1, <2>1, NewerOrder DEF IInv, TypeOK, NewerThanService, Pending, NeverDowngraded
  <2>2. CASE c \in Cli /\ ~crossed
    BY <1>1, <2>2, NewerOrder DEF IInv, TypeOK, NewerThanProgram, Pending, NeverDowngraded
  <2>3. CASE crossed
    BY <1>1, <2>3 DEF NeverDowngraded
  <2> QED
    BY <2>1, <2>2, <2>3 DEF Call
<1>5. InstalledAsReported'
  <2> SUFFICES ASSUME NEW d \in Call, call'[d].pc = "swapped"
               PROVE  crossed' \/ path' = call'[d].tag
    BY DEF InstalledAsReported
  <2>1. CASE d = c
    BY <1>1, <2>1 DEF IInv, TypeOK
  <2>2. CASE d # c /\ SameProcess(c, d)
    BY <1>1, <2>2 DEF IInv, TypeOK, OneHandler, Active, SameProcess
  <2>3. CASE ~SameProcess(c, d)
    <3>1. d # c
      BY <2>3 DEF SameProcess
    <3> QED
      BY <1>1, <2>3, <3>1 DEF IInv, TypeOK, Active, Busy
  <2> QED
    BY <2>1, <2>2, <2>3
<1>6. OneHandler'
  BY <1>1 DEF IInv, TypeOK, OneHandler, Active
<1>7. OwnTemps'
  BY <1>1
  DEF IInv, TypeOK, OwnTemps, Swap, TempOf
<1>8. NewerThanProgram'
  <2> SUFFICES ASSUME ~crossed', NEW d \in Cli, d # c
               PROVE  ~Busy(d)
    BY <1>1 DEF IInv, TypeOK, NewerThanProgram, Pending, Busy, Active, Call
  <2>1. ~SameProcess(c, d)
    BY CallsAssumption DEF SameProcess
  <2> QED
    BY <1>1, <2>1 DEF Call
<1>9. OwnBackup'
  BY <1>1
  DEF IInv, TypeOK, OwnBackup, Swap, TempOf
<1>10. /\ TriedOut' /\ NewerThanService'
  BY <1>1
  DEF IInv, TypeOK, TriedOut, NewerThanService, Pending, Swap, TempOf
<1> QED
  BY <1>2, <1>3, <1>4, <1>5, <1>6, <1>7, <1>8, <1>9, <1>10 DEF IInv

\* The backup a call has made goes with it.
LEMMA FinishSafe ==
  ASSUME IInv, NEW c \in Call, Finish(c)
  PROVE  IInv'
<1>1. TypeOK'
  BY DEF IInv, TypeOK, Pc, Finish, ghosts
<1>2. OneHandler'
  BY DEF IInv, TypeOK, OneHandler, Active, Finish, ghosts
<1>3. OwnTemps'
  BY DEF IInv, TypeOK, OwnTemps, Finish, ghosts
<1>4. OwnBackup'
  BY DEF IInv, TypeOK, OwnBackup, Finish, ghosts
<1>5. /\ InstalledRuns' /\ NeverDowngraded' /\ InstalledAsReported'
      /\ TriedOut' /\ NewerThanService' /\ NewerThanProgram'
  BY DEF IInv, TypeOK, InstalledRuns, NeverDowngraded, InstalledAsReported,
         Active, Busy, TriedOut, NewerThanService, Pending, NewerThanProgram,
         Finish, ghosts
<1> QED
  BY <1>1, <1>2, <1>3, <1>4, <1>5 DEF IInv

\* A call that fails leaves nothing, unless it was the rename that failed.
LEMMA FailSafe ==
  ASSUME IInv, NEW c \in Call, Fail(c)
  PROVE  IInv'
<1>1. TypeOK'
  BY DEF IInv, TypeOK, Pc, Fail, TempOf, NoCall
<1>2. OneHandler'
  BY DEF IInv, TypeOK, OneHandler, Active, Fail, TempOf, NoCall
<1>3. OwnTemps'
  BY DEF IInv, TypeOK, OwnTemps, Fail, TempOf, NoCall
<1>4. OwnBackup'
  BY DEF IInv, TypeOK, OwnBackup, Fail, TempOf, NoCall
<1>5. /\ InstalledRuns' /\ NeverDowngraded' /\ InstalledAsReported'
      /\ TriedOut' /\ NewerThanService' /\ NewerThanProgram'
  BY DEF IInv, TypeOK, InstalledRuns, NeverDowngraded, InstalledAsReported,
         Active, Busy, TriedOut, NewerThanService, Pending, NewerThanProgram,
         Fail, TempOf, NoCall
<1> QED
  BY <1>1, <1>2, <1>3, <1>4, <1>5 DEF IInv

\* A call ends although the service could not be restarted.
LEMMA RestartFailsSafe ==
  ASSUME IInv, NEW c \in Call, RestartFails(c)
  PROVE  IInv'
<1>1. TypeOK'
  BY DEF IInv, TypeOK, Pc, RestartFails, NoCall, files, ghosts
<1>2. OneHandler'
  BY DEF IInv, TypeOK, OneHandler, Active, RestartFails, NoCall, files, ghosts
<1>3. OwnTemps'
  BY DEF IInv, TypeOK, OwnTemps, RestartFails, NoCall, files, ghosts
<1>4. OwnBackup'
  BY DEF IInv, TypeOK, OwnBackup, RestartFails, NoCall, files, ghosts
<1>5. /\ InstalledRuns' /\ NeverDowngraded' /\ InstalledAsReported'
      /\ TriedOut' /\ NewerThanService' /\ NewerThanProgram'
  BY DEF IInv, TypeOK, InstalledRuns, NeverDowngraded, InstalledAsReported,
         Active, Busy, TriedOut, NewerThanService, Pending, NewerThanProgram,
         RestartFails, NoCall, files, ghosts
<1> QED
  BY <1>1, <1>2, <1>3, <1>4, <1>5 DEF IInv

\* The service starts again with the installed version and without handlers; a command
\* line goes on, or ends with the restart it asked for.
LEMMA NewServiceSafe ==
  ASSUME IInv, NEW STATE left, NewService(left),
         \A c \in Call : \/ left[c] = call[c]
                         \/ call[c].pc = "restart" /\ left[c] = NoCall
  PROVE  IInv'
<1>1. /\ call' = [c \in Call |-> call'[c]]
      /\ \A c \in Call : \/ call'[c] = NoCall /\ (c \in Post \/ call[c].pc = "restart")
                         \/ call'[c] = call[c] /\ c \notin Post
  BY DEF NewService
<1>2. TypeOK'
  <2>1. NoCall \in [pc : Pc, self : Versions \cup {None}, tag : Versions \cup {None},
                  kept : BOOLEAN]
    BY DEF NoCall, Pc
  <2>2. call' \in [Call -> [pc : Pc, self : Versions \cup {None}, tag : Versions \cup {None},
                            kept : BOOLEAN]]
    BY <1>1, <2>1 DEF IInv, TypeOK
  <2>3. \A c \in Call : call'[c].pc \notin {"idle", "started"} => call'[c].tag \in Versions
    BY <1>1 DEF IInv, TypeOK, NoCall
  <2> QED
    BY <2>2, <2>3 DEF IInv, TypeOK, NewService
<1>3. NeverDowngraded'
  BY NewerStrict DEF NewService, NeverDowngraded, IInv, TypeOK
<1>4. OneHandler'
  BY CallsAssumption
  DEF IInv, TypeOK, OneHandler, Active, NewService, NoCall, Call
<1>5. OwnTemps'
  BY CallsAssumption
  DEF IInv, TypeOK, OwnTemps, NewService, NoCall, Call
<1>6. NewerThanService'
  BY CallsAssumption
  DEF IInv, TypeOK, NewerThanService, Pending, NewService, NoCall, Call
<1>7. OwnBackup'
  <2> SUFFICES ASSUME backup', ~dirty'
               PROVE  \E c \in Call : call'[c].pc \in {"linked", "swapped"} /\ call'[c].kept
    BY DEF OwnBackup
  <2>1. backup /\ ~dirty /\ \A c \in Post : ~Active(c)
    BY DEF NewService
  <2>2. PICK c \in Call : call[c].pc \in {"linked", "swapped"} /\ call[c].kept
    BY <2>1 DEF IInv, OwnBackup
  <2>3. call'[c] = call[c]
    BY <1>1, <2>1, <2>2 DEF Active
  <2> QED
    BY <2>2, <2>3
<1>8. /\ InstalledRuns' /\ InstalledAsReported' /\ TriedOut'
      /\ NewerThanProgram'
  BY CallsAssumption
  DEF IInv, TypeOK, InstalledRuns, InstalledAsReported, Active, Busy, TriedOut,
         NewerThanProgram, Pending, NewService, NoCall, Call
<1> QED
  BY <1>2, <1>3, <1>4, <1>5, <1>6, <1>7, <1>8 DEF IInv

\* A command line that is killed leaves its files, which is noted.
LEMMA KillCliSafe ==
  ASSUME IInv, NEW c \in Cli, KillCli(c)
  PROVE  IInv'
<1>1. TypeOK'
  BY CallsAssumption
  DEF IInv, TypeOK, Pc, KillCli, NoCall, Call
<1>2. OneHandler'
  BY CallsAssumption
  DEF IInv, TypeOK, OneHandler, Active, KillCli, NoCall, Call
<1>3. OwnTemps'
  BY CallsAssumption
  DEF IInv, TypeOK, OwnTemps, KillCli, NoCall, Call
<1>4. OwnBackup'
  BY CallsAssumption
  DEF IInv, TypeOK, OwnBackup, KillCli, NoCall, Call
<1>5. /\ InstalledRuns' /\ NeverDowngraded' /\ InstalledAsReported'
      /\ TriedOut' /\ NewerThanService' /\ NewerThanProgram'
  BY CallsAssumption
  DEF IInv, TypeOK, InstalledRuns, NeverDowngraded, InstalledAsReported,
         Active, Busy, TriedOut, NewerThanService, Pending, NewerThanProgram,
         KillCli, NoCall, Call
<1> QED
  BY <1>1, <1>2, <1>3, <1>4, <1>5 DEF IInv

\* Initially the service runs the installed version, and nothing else is there.
LEMMA InitSafe == Init => IInv
<1> SUFFICES ASSUME Init PROVE IInv
  OBVIOUS
<1>1. TypeOK /\ InstalledRuns
  BY DEF Init, TypeOK, Pc, NoCall, InstalledRuns
<1>2. NeverDowngraded
  BY <1>1, NewerStrict DEF Init, TypeOK, NeverDowngraded
<1>3. InstalledAsReported /\ OneHandler /\ OwnTemps /\ TriedOut
  BY DEF Init, NoCall, InstalledAsReported, OneHandler, Active, OwnTemps, TriedOut, Call
<1>4. NewerThanService /\ NewerThanProgram /\ OwnBackup
  BY DEF Init, NoCall, NewerThanService, NewerThanProgram, Pending, OwnBackup, Call
<1> QED
  BY <1>1, <1>2, <1>3, <1>4 DEF IInv

\* Every step keeps the invariant, whichever process takes it.
LEMMA StepSafe == IInv /\ [Next]_vars => IInv'
<1> SUFFICES ASSUME IInv, [Next]_vars PROVE IInv'
  OBVIOUS
<1>1. ASSUME NEW tag \in Versions \cup {None}, Publish(tag) PROVE IInv'
  BY <1>1, PublishSafe
<1>2. ASSUME NEW c \in Post, CheckPost(c) PROVE IInv'
  BY <1>2, CheckPostSafe
<1>3. ASSUME NEW c \in Cli, StartCli(c) \/ CheckCli(c) \/ KillCli(c) PROVE IInv'
  BY <1>3, StartCliSafe, CheckCliSafe, KillCliSafe
<1>4. ASSUME NEW c \in Call, Step(c) PROVE IInv'
  <2>1. CASE WriteTemp(c) \/ TestTemp(c) \/ LinkBackup(c)
    BY <2>1, WriteSafe, TestSafe, LinkSafe
  <2>2. CASE Swap(c) \/ Finish(c)
    BY <2>2, SwapSafe, FinishSafe
  <2>3. CASE TrialFails(c) \/ StepFails(c)
    BY <2>3, FailSafe DEF TrialFails, StepFails
  <2>4. CASE Restart(c)
    <3> DEFINE left == [call EXCEPT ![c] = NoCall]
    <3>1. \A d \in Call : left[d] = call[d] \/ (call[d].pc = "restart" /\ left[d] = NoCall)
      BY <2>4 DEF Restart, IInv, TypeOK
    <3>2. NewService(left)
      BY <2>4 DEF Restart
    <3> HIDE DEF left
    <3> QED
      BY <3>1, <3>2, NewServiceSafe
  <2>5. CASE RestartFails(c)
    BY <2>5, RestartFailsSafe
  <2> QED
    BY <1>4, <2>1, <2>2, <2>3, <2>4, <2>5 DEF Step
<1>5. CASE KillService
  BY <1>5, NewServiceSafe DEF KillService
<1>6. CASE UNCHANGED vars
  BY <1>6 DEF vars, files, ghosts, IInv, TypeOK, InstalledRuns, NeverDowngraded,
         InstalledAsReported, OneHandler, OwnTemps, TriedOut, NewerThanService,
         NewerThanProgram, OwnBackup, Active, Busy, Pending
<1> QED
  BY <1>1, <1>2, <1>3, <1>4, <1>5, <1>6 DEF Next

\* The invariant holds at all times.
THEOREM InvariantHolds == Spec => []IInv
<1> QED
  BY InitSafe, StepSafe, PTL DEF Spec

\* Every variable keeps its type, and a call past its check has a tag to install.
THEOREM TypeCorrect == Spec => []TypeOK
<1>1. IInv => TypeOK
  BY DEF IInv
<1> QED
  BY <1>1, InvariantHolds, PTL

\* The installed program is one that runs here (update.go:292).
THEOREM ProgramRuns == Spec => []InstalledRuns
<1>1. IInv => InstalledRuns
  BY DEF IInv
<1> QED
  BY <1>1, InvariantHolds, PTL

\* A restart never takes the service back to an older version, unless two processes
\* have updated at the same time (update.go:233).
THEOREM NoDowngrade == Spec => []NeverDowngraded
<1>1. IInv => NeverDowngraded
  BY DEF IInv
<1> QED
  BY <1>1, InvariantHolds, PTL

\* The tag selfUpdate returns is the version it installed, unless another process has
\* installed one since (update.go:224).
THEOREM ReportIsTrue == Spec => []InstalledAsReported
<1>1. IInv => InstalledAsReported
  BY DEF IInv
<1> QED
  BY <1>1, InvariantHolds, PTL

\* Without an update under way there is no temporary file and no backup, unless a
\* process was killed or a rename failed (update.go:277, 307).
THEOREM LeavesNothing == Spec => []NothingLeft
<1>1. IInv => NothingLeft
  BY DEF IInv, OwnTemps, OwnBackup, NothingLeft, Active
<1> QED
  BY <1>1, InvariantHolds, PTL

=============================================================================
