------------------------------- MODULE Update -------------------------------
(***************************************************************************)
(* Self-update (update.go, and the POST of /api/update in server.go):      *)
(* handlers of the service and command lines that download the newest      *)
(* release, try it, rename it over the installed program and restart the   *)
(* service.  Handlers share a mutex; command lines are processes of their  *)
(* own, and share only the file system with them.                          *)
(***************************************************************************)
EXTENDS Integers

CONSTANTS
  Versions,  \* released versions, as triples
  Trial,     \* what a release does on this system when it is run
  Post,      \* handlers of POST /api/update
  Cli,       \* runs of `tallyawg update`
  None       \* no file; also a tag that cannot be parsed

ASSUME VersionsAssumption == Versions \subseteq Nat \X Nat \X Nat
ASSUME TrialAssumption == Trial \in [Versions -> {"runs", "dies", "hangs"}]
ASSUME CallsAssumption == Post \cap Cli = {}
ASSUME NoneAssumption == None \notin Versions

Call == Post \cup Cli

VARIABLES
  latest,   \* tag of the newest release; one can be withdrawn
  \* the file system
  path,     \* the version at the service's path
  backup,   \* whether there is a <path>.old; no step reads it
  temps,    \* temporary files of the calls
  \* processes
  running,  \* the version of the service
  call,     \* calls of selfUpdate
  \* what no program sees
  crossed,  \* a program was replaced while another process was updating it
  dirty     \* files were left behind by a process that was killed, or by a rename
            \* over the program that failed

files   == <<path, backup, temps>>
ghosts  == <<crossed, dirty>>
vars    == <<latest, files, running, call, ghosts>>

NoCall == [pc |-> "idle", self |-> None, tag |-> None, kept |-> FALSE]

Pc == {"idle", "started", "checked", "written", "tested", "linked", "swapped", "restart"}

TypeOK ==
  /\ latest \in Versions \cup {None}
  /\ path \in Versions
  /\ backup \in BOOLEAN
  /\ temps \in [Call -> Versions \cup {None}]
  /\ running \in Versions
  /\ call \in [Call -> [pc : Pc, self : Versions \cup {None}, tag : Versions \cup {None},
                        kept : BOOLEAN]]
  /\ \A c \in Call : call[c].pc \notin {"idle", "started"} => call[c].tag \in Versions
  /\ crossed \in BOOLEAN /\ dirty \in BOOLEAN

\* The service runs the installed version.
Init ==
  /\ latest \in Versions
  /\ path \in {v \in Versions : Trial[v] = "runs"}
  /\ running = path
  /\ backup = FALSE
  /\ temps = [c \in Call |-> None]
  /\ call = [c \in Call |-> NoCall]
  /\ crossed = FALSE /\ dirty = FALSE

(***************************************************************************)
(* Versions.                                                               *)
(***************************************************************************)
\* Bug: any greater part makes a version newer.
AnyNewer(remote, local) == remote # None /\ \E i \in 1 .. 3 : remote[i] > local[i]

\* Bug: a tag that cannot be parsed is taken for a newer one.
UnparsedNewer(remote, local) ==
  \/ remote = None
  \/ \E i \in 1 .. 3 : /\ remote[i] > local[i]
                       /\ \A j \in 1 .. i - 1 : remote[j] = local[j]

\* The first part that differs decides; a tag that cannot be parsed is not newer.
newerThanRunning(remote, local) ==
  /\ remote # None
  /\ \E i \in 1 .. 3 : /\ remote[i] > local[i]
                       /\ \A j \in 1 .. i - 1 : remote[j] = local[j]

Publish(tag) ==
  /\ tag # latest
  /\ latest' = tag
  /\ UNCHANGED <<files, running, call, ghosts>>

(***************************************************************************)
(* selfUpdate.                                                             *)
(***************************************************************************)
Active(c) == call[c].pc \in {"checked", "written", "tested", "linked", "swapped"}
Busy(c) == Active(c) \/ call[c].pc = "started"

\* Bug: no mutex.
NeverBusy(c) == FALSE
\* The mutex is that of the process.
updating(c) == c \in Post /\ \E d \in Post : Active(d)

SameProcess(c, d) == c = d \/ {c, d} \subseteq Post

\* A command line runs the version that is installed when it starts.
StartCli(c) ==
  /\ call[c].pc = "idle"
  /\ call' = [call EXCEPT ![c] = [NoCall EXCEPT !.pc = "started", !.self = path]]
  /\ UNCHANGED <<latest, files, running, ghosts>>

\* TryLock, the newest release, the comparison with the version that runs.
Check(c, self) ==
  /\ ~updating(c)
  /\ newerThanRunning(latest, self)
  /\ call' = [call EXCEPT ![c] = [NoCall EXCEPT !.pc = "checked", !.tag = latest]]
  /\ UNCHANGED <<latest, files, running, ghosts>>

CheckPost(c) == call[c].pc = "idle" /\ Check(c, running)
CheckCli(c) == call[c].pc = "started" /\ Check(c, call[c].self)

\* Bug: one name for the temporary file.
OneTemp(c) == CHOOSE d \in Call : TRUE
\* The temporary file of a call; CreateTemp picks a fresh name.
TempOf(c) == c

\* The archive is fetched, its sum verified, the program in it written to a file.
WriteTemp(c) ==
  /\ call[c].pc = "checked"
  /\ temps' = [temps EXCEPT ![TempOf(c)] = call[c].tag]
  /\ call' = [call EXCEPT ![c].pc = "written"]
  /\ UNCHANGED <<latest, path, backup, running, ghosts>>

\* What happens when the temporary file is run.
Outcome(c) == LET file == temps[TempOf(c)] IN IF file = None THEN "dies" ELSE Trial[file]

TestTemp(c) ==
  /\ call[c].pc = "written"
  /\ Outcome(c) = "runs"
  /\ call' = [call EXCEPT ![c].pc = "tested"]
  /\ UNCHANGED <<latest, files, running, ghosts>>

\* The old backup is removed, the program linked in its place if that can be done;
\* it cannot be when another process has just done so.
LinkBackup(c) ==
  /\ call[c].pc = "tested"
  /\ \E linked \in BOOLEAN :
       /\ backup' \in IF linked THEN {TRUE} ELSE {FALSE, backup}
       /\ call' = [call EXCEPT ![c].pc = "linked", ![c].kept = linked]
  /\ UNCHANGED <<latest, path, temps, running, ghosts>>

\* A rename takes the file away; there may be none if someone else has.
Swap(c) ==
  /\ call[c].pc = "linked"
  /\ temps[TempOf(c)] # None
  /\ path' = temps[TempOf(c)]
  /\ temps' = [temps EXCEPT ![TempOf(c)] = None]
  /\ crossed' = (crossed \/ \E d \in Call : ~SameProcess(c, d) /\ Busy(d))
  /\ call' = [call EXCEPT ![c].pc = "swapped"]
  /\ UNCHANGED <<latest, backup, running, dirty>>

\* The backup goes, the mutex is released, the tag is returned.
Finish(c) ==
  /\ call[c].pc = "swapped"
  /\ backup' = (backup /\ ~call[c].kept)
  /\ call' = [call EXCEPT ![c].pc = "restart"]
  /\ UNCHANGED <<latest, path, temps, running, ghosts>>

\* Bug: the file stays when the update fails.
FailDirty(c) ==
  /\ call[c].pc \in {"started", "checked", "written", "linked"}
  /\ call' = [call EXCEPT ![c] = NoCall]
  /\ dirty' = (dirty \/ call[c].pc = "linked")
  /\ UNCHANGED <<latest, files, running, crossed>>

\* An error anywhere before the program is replaced: no network, a sum that does not
\* match, a full disk, a file that does not run.  The temporary file is removed; a
\* backup that was made stays.
Fail(c) ==
  /\ call[c].pc \in {"started", "checked", "written", "linked"}
  /\ call' = [call EXCEPT ![c] = NoCall]
  /\ temps' = [temps EXCEPT ![TempOf(c)] = None]
  /\ dirty' = (dirty \/ call[c].pc = "linked")
  /\ UNCHANGED <<latest, path, backup, running, crossed>>

\* Bug: no time limit for the trial.
TrialHangs(c) ==
  /\ call[c].pc = "written"
  /\ Outcome(c) = "dies"
  /\ Fail(c)
\* The trial fails, or does not end within 30 seconds.
TrialFails(c) ==
  /\ call[c].pc = "written"
  /\ Outcome(c) # "runs"
  /\ Fail(c)

\* The network fails, or a file operation does.
StepFails(c) == call[c].pc # "written" /\ Fail(c)

(***************************************************************************)
(* The restart.                                                            *)
(***************************************************************************)
\* The service is another process then: its handlers are gone.  The files of one
\* that was cut off stay, under names that are not used again.
NewService(left) ==
  /\ running' = path
  /\ call' = [c \in Call |-> IF c \in Post THEN NoCall ELSE left[c]]
  /\ temps' = [c \in Call |-> IF c \in Post THEN None ELSE temps[c]]
  /\ dirty' = (dirty \/ \E c \in Post : Active(c))
  /\ UNCHANGED <<latest, path, backup, crossed>>

\* One second after a handler answered, or at the end of the command line.
Restart(c) ==
  /\ call[c].pc = "restart"
  /\ NewService([call EXCEPT ![c] = NoCall])

RestartFails(c) ==
  /\ call[c].pc = "restart"
  /\ call' = [call EXCEPT ![c] = NoCall]
  /\ UNCHANGED <<latest, files, running, ghosts>>

\* The service dies and systemd starts it again.
KillService == NewService(call)

KillCli(c) ==
  /\ call[c].pc # "idle"
  /\ call' = [call EXCEPT ![c] = NoCall]
  /\ temps' = [temps EXCEPT ![c] = None]
  /\ dirty' = TRUE
  /\ UNCHANGED <<latest, path, backup, running, crossed>>

\* What a call that has started goes on to do.
Step(c) ==
  \/ WriteTemp(c) \/ TestTemp(c) \/ LinkBackup(c) \/ Swap(c) \/ Finish(c)
  \/ TrialFails(c) \/ StepFails(c) \/ Restart(c) \/ RestartFails(c)

Next == \/ \E tag \in Versions \cup {None} : Publish(tag)
        \/ \E c \in Post : CheckPost(c)
        \/ \E c \in Cli : StartCli(c) \/ CheckCli(c) \/ KillCli(c)
        \/ \E c \in Call : Step(c)
        \/ KillService

\* A call goes on: fetches, the trial and the restart are limited in time.
Fairness == \A c \in Call : WF_vars(Step(c))

Spec == Init /\ [][Next]_vars /\ Fairness

(***************************************************************************)
(* Properties.                                                             *)
(***************************************************************************)
\* "run the downloaded binary before trusting it" (update.go:292): the installed
\* program is always one that runs here, whoever installs what at the same time and
\* wherever a process is killed.
InstalledRuns == Trial[path] = "runs"

\* A restart never takes the service back to an older version (update.go:233),
\* although releases are withdrawn, unless a command line and another process have
\* updated at the same time.
NeverDowngraded == crossed \/ ~newerThanRunning(running, path)

\* "a second click must not race the first" (update.go:224): when selfUpdate returns
\* a tag, that is the version installed.  Of the service's own requests this always
\* holds, as they exclude each other; a request and a command line do not, and crossed
\* leaves out what follows once one has replaced the program under the other.
InstalledAsReported == \A c \in Call : call[c].pc = "swapped" => crossed \/ path = call[c].tag

\* When no update is under way, nothing of one is left, unless a process was killed
\* or a rename failed (update.go:277, 307).  A file that can be created here is taken
\* to be removable: the code ignores the errors of os.Remove.
NothingLeft ==
  (\A c \in Call : ~Active(c)) /\ ~dirty => ~backup /\ \A c \in Call : temps[c] = None

\* An update ends, and does not block the next one for good: "an update is already
\* running" (update.go:225) does not stay true, even for a program that hangs.
UpdateEnds == \A c \in Call : Active(c) ~> ~Active(c)
=============================================================================
