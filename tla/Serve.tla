------------------------------- MODULE Serve -------------------------------
(***************************************************************************)
(* `tallyawg serve` (server.go) and the page it serves: the goroutine that *)
(* takes snapshots, the handlers that answer /api/usage from the ledger    *)
(* and the running interfaces, the deletion of a peer, and the page that   *)
(* has several requests in flight.                                         *)
(*                                                                         *)
(* A snapshot and an erasure are what Collector shows them to be: they are *)
(* serialised by the flock and replace the whole file.  The interfaces do  *)
(* not restart here, so counters only grow.                                *)
(***************************************************************************)
EXTENDS Integers, FiniteSets

CONSTANTS
  Pub,          \* public keys of peers; none comes back once it is removed
  Req,          \* handlers of /api/usage that may run at once
  None,         \* no such entry
  MaxBytes,     \* bound: the counter of a peer
  MaxLoads,     \* bound: requests the page makes
  MaxFailures   \* bound: snapshots that fail, in whole or for an interface

ASSUME NoneAssumption == None \notin Pub \cup Nat
ASSUME BoundAssumption == MaxBytes \in Nat /\ MaxLoads \in Nat /\ MaxFailures \in Nat

VARIABLES
  \* the interfaces
  live,      \* running peers
  unborn,    \* peers yet to be added
  ctr,       \* their counters
  \* the server
  ledger,    \* the ledger file: what accounting a session needs of a peer
  loop,      \* how far the goroutine that takes snapshots has come
  mem,       \* the ledger it is about to save
  ticked,    \* the ticker's channel holds a tick
  trigger,   \* the trigger channel, of one slot, is full
  up,        \* the server listens
  req,       \* the handlers
  del,       \* the deletion the page asked for
  \* the page
  reqSeq,    \* number of the latest request
  shown,     \* peers in the rendered rows
  \* what no program sees
  newest,    \* the latest request whose answer was rendered
  deletedAt, \* the request made right after the deletion of a peer, 0 for none
  told,      \* peers a handler found running and unknown, and kicked a snapshot for
  failures   \* snapshots that failed, or missed an interface

kernel == <<live, unborn, ctr>>
server == <<ledger, loop, mem, ticked, trigger, up>>
page   == <<reqSeq, shown, newest, deletedAt>>
vars   == <<kernel, server, req, del, page, told, failures>>

\* The last reading, and the reading the session began at.
Entry == [last : Nat, base : Nat]
Ledger == [Pub -> Entry \cup {None}]
NoLedger == [p \in Pub |-> None]
NoReadings == [p \in Pub |-> None]

Request == [ pc : {"free", "load", "live", "kick", "reply"},
             seq : Nat,
             rows : Ledger,                       \* the ledger it loaded
             readings : [Pub -> Nat \cup {None}], \* what liveState returned
             answer : SUBSET Pub ]                \* the peers of the answer
NoRequest == [pc |-> "free", seq |-> 0, rows |-> NoLedger, readings |-> NoReadings, answer |-> {}]

TypeOK ==
  /\ live \subseteq Pub /\ unborn \subseteq Pub \ live
  /\ ctr \in [Pub -> 0 .. MaxBytes]
  /\ ledger \in Ledger /\ mem \in Ledger
  /\ loop \in {"begin", "dumping", "hanging", "saving", "select"}
  /\ ticked \in BOOLEAN /\ trigger \in BOOLEAN /\ up \in BOOLEAN
  /\ req \in [Req -> Request]
  /\ del \in [pub : Pub \cup {None}, pc : {"none", "unlive", "forget", "done"}]
  /\ reqSeq \in 0 .. MaxLoads /\ newest \in 0 .. reqSeq
  /\ shown \subseteq Pub /\ told \subseteq Pub
  /\ deletedAt \in [Pub -> 0 .. MaxLoads]
  /\ failures \in 0 .. MaxFailures

NoDeletion == [pub |-> None, pc |-> "none"]

\* The server starts, with an empty ledger, some peers running, and a page still open
\* that may show some of them.
Init ==
  /\ live \in SUBSET Pub
  /\ unborn = Pub \ live
  /\ ctr = [p \in Pub |-> 0]
  /\ ledger = NoLedger /\ mem = NoLedger
  /\ loop = "begin"
  /\ ticked = FALSE /\ trigger = FALSE /\ up = FALSE
  /\ req = [r \in Req |-> NoRequest]
  /\ del = NoDeletion
  /\ reqSeq = 0 /\ shown \in SUBSET live /\ newest = 0
  /\ deletedAt = [p \in Pub |-> 0]
  /\ told = {} /\ failures = 0

(***************************************************************************)
(* The interfaces.                                                         *)
(***************************************************************************)
Attach(p) ==
  /\ p \in unborn
  /\ live' = live \cup {p}
  /\ unborn' = unborn \ {p}
  /\ UNCHANGED <<ctr, server, req, del, page, told, failures>>

Traffic(p) ==
  /\ p \in live
  /\ ctr[p] < MaxBytes
  /\ ctr' = [ctr EXCEPT ![p] = @ + 1]
  /\ UNCHANGED <<live, unborn, server, req, del, page, told, failures>>

(***************************************************************************)
(* The goroutine that takes snapshots.                                     *)
(***************************************************************************)
\* collect holds the mutex for the whole snapshot; collectOnce holds the flock,
\* which it takes next, from loading the ledger to saving it.
MuHeld == loop \in {"dumping", "hanging", "saving"}
FlockHeld == MuHeld

Tick ==
  /\ ~ticked
  /\ ticked' = TRUE
  /\ UNCHANGED <<kernel, ledger, loop, mem, trigger, up, req, del, page, told, failures>>

\* One of the two channels has something; a tick and a kick stay two.
Select ==
  /\ loop = "select"
  /\ \/ ticked /\ ticked' = FALSE /\ UNCHANGED trigger
     \/ trigger /\ trigger' = FALSE /\ UNCHANGED ticked
  /\ loop' = "begin"
  /\ UNCHANGED <<kernel, ledger, mem, up, req, del, page, told, failures>>

Begin ==
  /\ loop = "begin"
  /\ loop' = "dumping"
  /\ UNCHANGED <<kernel, ledger, mem, ticked, trigger, up, req, del, page, told, failures>>

\* A first sight is the baseline of the session.  A peer that came online since
\* the last snapshot has that one's reading as its baseline.
Folded(e, r, opens) ==
  IF e = None THEN [last |-> r, base |-> r]
  ELSE [last |-> r, base |-> IF opens THEN e.last ELSE e.base]

\* What was loaded under the flock is the ledger still.
Dump ==
  /\ loop = "dumping"
  /\ \E opening \in SUBSET live :
       mem' = [p \in Pub |-> IF p \in live THEN Folded(ledger[p], ctr[p], p \in opening)
                             ELSE ledger[p]]
  /\ loop' = "saving"
  /\ UNCHANGED <<kernel, ledger, ticked, trigger, up, req, del, page, told, failures>>

\* The tool that is to read the interface hangs.
Hang ==
  /\ loop = "dumping"
  /\ failures < MaxFailures
  /\ failures' = failures + 1
  /\ loop' = "hanging"
  /\ UNCHANGED <<kernel, ledger, mem, ticked, trigger, up, req, del, page, told>>

\* Bug: it is waited for.
WaitForTool == loop = "hanging" /\ UNCHANGED vars

\* After wgTimeout it is killed, and the interface skipped.
TimeOut ==
  /\ loop = "hanging"
  /\ mem' = ledger
  /\ loop' = "saving"
  /\ UNCHANGED <<kernel, ledger, ticked, trigger, up, req, del, page, told, failures>>

\* The snapshot is over, well or not; after the first one the server listens.
Done ==
  /\ loop' = "select"
  /\ up' = TRUE
  /\ mem' = NoLedger

\* Bug: kicks that came during the snapshot are taken for answered.
SaveDraining ==
  /\ loop = "saving"
  /\ ledger' = mem
  /\ trigger' = FALSE
  /\ Done
  /\ UNCHANGED <<kernel, ticked, req, del, page, told, failures>>

Save ==
  /\ loop = "saving"
  /\ ledger' = mem
  /\ Done
  /\ UNCHANGED <<kernel, ticked, trigger, req, del, page, told, failures>>

\* Bug: an error ends the goroutine with the snapshot it could not finish.
FailForGood ==
  /\ MuHeld
  /\ failures < MaxFailures
  /\ failures' = failures + 1
  /\ loop' = "stopped"
  /\ UNCHANGED <<kernel, ledger, mem, up, ticked, trigger, req, del, page, told>>

\* collectOnce failed somewhere; the error is logged and no more.
FailSnapshot ==
  /\ MuHeld
  /\ failures < MaxFailures
  /\ failures' = failures + 1
  /\ Done
  /\ UNCHANGED <<kernel, ledger, ticked, trigger, req, del, page, told>>

(***************************************************************************)
(* The handler of /api/usage.                                              *)
(***************************************************************************)
\* It waits for a snapshot in progress, and lets go of the mutex once it has read.
LoadRows(r) ==
  /\ req[r].pc = "load"
  /\ ~MuHeld
  /\ req' = [req EXCEPT ![r].pc = "live", ![r].rows = ledger]
  /\ UNCHANGED <<kernel, server, del, page, told, failures>>

\* The running interfaces are read after the ledger; the peers of one whose tool
\* fails do not seem to run.
ReadLive(r) ==
  /\ req[r].pc = "live"
  /\ \E seen \in SUBSET live :
       req' = [req EXCEPT ![r].pc = "kick",
                          ![r].readings = [p \in Pub |-> IF p \in seen THEN ctr[p] ELSE None]]
  /\ UNCHANGED <<kernel, server, del, page, told, failures>>

\* Peers that run but are not in the ledger.
New(r) == {p \in Pub : req[r].readings[p] # None /\ req[r].rows[p] = None}

\* The rows of an answer: of the ledger, and of the new peers.
Rows(r) == {p \in Pub : req[r].rows[p] # None} \cup New(r)

\* A send that does not block: a full channel already means a snapshot to come.
Kick(r) ==
  /\ req[r].pc = "kick"
  /\ trigger' = (trigger \/ New(r) # {})
  /\ told' = told \cup New(r)
  /\ req' = [req EXCEPT ![r] = [NoRequest EXCEPT !.pc = "reply", !.seq = req[r].seq,
                                                 !.answer = Rows(r)]]
  /\ UNCHANGED <<kernel, ledger, loop, mem, ticked, up, del, page, failures>>

\* Bug: the ledger is read once more for the sessions.
BaseNow(r, p) == IF ledger[p] = None THEN 0 ELSE ledger[p].base
\* The baseline that is taken off the live counter of p.
Base(r, p) == IF req[r].rows[p] = None THEN 0 ELSE req[r].rows[p].base

\* Bug: whatever arrives is rendered.
RenderAny(r) ==
  /\ req[r].pc = "reply"
  /\ req' = [req EXCEPT ![r] = NoRequest]
  /\ shown' = req[r].answer
  /\ newest' = IF req[r].seq > newest THEN req[r].seq ELSE newest
  /\ UNCHANGED <<kernel, server, del, reqSeq, deletedAt, told, failures>>

\* Answers arrive in any order; the page renders that of its latest request only.
Reply(r) ==
  /\ req[r].pc = "reply"
  /\ req' = [req EXCEPT ![r] = NoRequest]
  /\ IF req[r].seq = reqSeq
     THEN shown' = req[r].answer /\ newest' = req[r].seq
     ELSE UNCHANGED <<shown, newest>>
  /\ UNCHANGED <<kernel, server, del, reqSeq, deletedAt, told, failures>>

\* The ledger could not be read, or the answer was lost: the rows stay.
FailRequest(r) ==
  /\ req[r].pc \in {"load", "reply"}
  /\ req' = [req EXCEPT ![r] = NoRequest]
  /\ UNCHANGED <<kernel, server, del, page, told, failures>>

(***************************************************************************)
(* The page.                                                               *)
(***************************************************************************)
\* Handlers are alike: the first that is free takes the request.
SendRequest(r) ==
  /\ up
  /\ req[r].pc = "free"
  /\ r = CHOOSE x \in Req : req[x].pc = "free"
  /\ reqSeq < MaxLoads
  /\ reqSeq' = reqSeq + 1
  /\ req' = [req EXCEPT ![r] = [NoRequest EXCEPT !.pc = "load", !.seq = reqSeq + 1]]

\* The timer, another month, another zone.
Load(r) ==
  /\ SendRequest(r)
  /\ UNCHANGED <<kernel, server, del, shown, newest, deletedAt, told, failures>>

DeletePeer(p) ==
  /\ del = NoDeletion
  /\ p \in shown \cap live
  /\ del' = [pub |-> p, pc |-> "unlive"]
  /\ UNCHANGED <<kernel, server, req, page, told, failures>>

\* removePeer, as far as the page can tell: off the interface, then out of the
\* ledger, under its flock.
RemoveLive ==
  /\ del.pc = "unlive"
  /\ live' = live \ {del.pub}
  /\ del' = [del EXCEPT !.pc = "forget"]
  /\ UNCHANGED <<unborn, ctr, server, req, page, told, failures>>

ForgetPeer ==
  /\ del.pc = "forget"
  /\ ~FlockHeld
  /\ ledger' = [ledger EXCEPT ![del.pub] = None]
  /\ del' = [del EXCEPT !.pc = "done"]
  /\ UNCHANGED <<kernel, loop, mem, ticked, trigger, up, req, page, told, failures>>

\* The page learns that the peer is deleted, and loads.
Deleted(r) ==
  /\ del.pc = "done"
  /\ SendRequest(r)
  /\ deletedAt' = [deletedAt EXCEPT ![del.pub] = reqSeq + 1]
  /\ del' = NoDeletion
  /\ UNCHANGED <<kernel, server, shown, newest, told, failures>>

Snapshot == Select \/ Begin \/ Dump \/ TimeOut \/ Save

Next == \/ \E p \in Pub : Attach(p) \/ Traffic(p) \/ DeletePeer(p)
        \/ Tick \/ Snapshot \/ Hang \/ FailSnapshot
        \/ \E r \in Req : \/ Load(r) \/ LoadRows(r) \/ ReadLive(r) \/ Kick(r)
                          \/ Reply(r) \/ FailRequest(r) \/ Deleted(r)
        \/ RemoveLive \/ ForgetPeer

\* The goroutines are scheduled.  A handler gets the mutex in the end although
\* snapshots keep taking it (Go's Mutex hands over to one that starves).  The
\* ticker is not assumed to fire, and nothing that may fail is.
Fairness ==
  /\ WF_vars(Snapshot)
  /\ \A r \in Req : SF_vars(LoadRows(r)) /\ WF_vars(ReadLive(r) \/ Kick(r) \/ Reply(r))

Spec == Init /\ [][Next]_vars /\ Fairness

(***************************************************************************)
(* Properties.                                                             *)
(***************************************************************************)
\* "session = live counter since the current session's baseline" (server.go:132):
\* as the live state is read after the ledger, the counter has reached the
\* baseline, and no session is clipped by maxZero.
SessionsAddUp ==
  \A r \in Req : req[r].pc = "kick" =>
    \A p \in Pub : req[r].readings[p] # None => Base(r, p) <= req[r].readings[p]

\* Once the page has rendered what it asked for after a deletion, the deleted peer
\* is off the page, whatever older answers arrive later (index.html:257-263,
\* server.go:74-97).
DeletedStaysOff ==
  \A p \in Pub : deletedAt[p] # 0 /\ newest >= deletedAt[p] => p \notin shown

\* "kick an off-cycle collect so the new peer lands in the ledger now"
\* (server.go:117): a peer a handler found new gets into the ledger without any
\* tick, even if the channel was full and a snapshot was under way, unless it
\* stops running or a snapshot fails or misses it.
NewPeerLands ==
  \A p \in Pub : p \in told ~> (ledger[p] # None \/ p \notin live \/ failures > 0)

\* With a ticker that keeps firing, a running peer gets into the ledger, whether or
\* not anyone looks at the page and although snapshots have failed
\* (server.go:53-59).
RunningPeerLands ==
  []<>ticked => \A p \in Pub : p \in live ~> (ledger[p] # None \/ p \notin live)

\* Every request gets an answer, although snapshots hold the mutex over and over
\* and "a wedged one would otherwise hold the collector lock forever"
\* (collect.go:15, server.go:41-43, 74-76).
RequestsAreAnswered ==
  \A r \in Req : req[r].pc # "free" ~> req[r].pc = "free"
=============================================================================
