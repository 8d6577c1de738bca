----------------------------- MODULE Collector -----------------------------
(***************************************************************************)
(* Everything that writes the ledger file, against the kernel it reads.    *)
(*                                                                         *)
(* A writer is one call of collectOnce (the daemon's ticker, a trigger, a  *)
(* `tallyawg collect` by hand) or of forgetPeer (the end of a peer         *)
(* removal); calls of several processes run side by side and meet at the   *)
(* flock of withLock.  The environment is the kernel's interfaces: their   *)
(* counters grow, and are zeroed when an interface or a peer is recreated. *)
(***************************************************************************)
EXTENDS Ledger

CONSTANTS
  Writer,      \* concurrent calls that may write the ledger
  MultiHomed,  \* may one key be a peer of several interfaces at once?
  FlockFails,  \* may withLock be unable to lock, and run unlocked?
  MaxCarried,  \* bound: bytes carried for a peer in one direction
  NoFile,      \* no file at this path
  Torn         \* a file whose contents were not fully written

ASSUME FlagAssumption == MultiHomed \in BOOLEAN /\ FlockFails \in BOOLEAN
ASSUME WriterAssumption == None \notin Writer /\ None \notin Pub
ASSUME FileAssumption == NoFile \notin LedgerType /\ Torn \notin LedgerType
ASSUME BoundAssumption == MaxCarried \in Nat

VARIABLES
  \* the kernel
  on,      \* on[i]: the peers interface i has
  ctr,     \* ctr[i][p]: what a dump of i shows for p
  hs,      \* hs[i][p]: time of the latest handshake, 0 for never
  now,     \* the clock
  \* the files
  disk,    \* the ledger file
  tmp,     \* the temporary file writeAtomic renames over it
  holder,  \* the writer that holds the flock
  \* the calls in progress
  pc,      \* how far a call has come
  target,  \* the key a forgetPeer erases; None in a collectOnce
  todo,    \* interfaces a collectOnce has yet to dump
  seen,    \* keys it has already accounted for
  at,      \* the time it stamps its snapshot with
  mem,     \* the ledger it has loaded
  \* what no program sees
  carried, \* bytes the kernel carried for p since p was last erased
  zeroed   \* the worst that befell a counter of p: see Zeroing

kernel == <<on, ctr, hs, now>>
files  == <<disk, tmp, holder>>
calls  == <<pc, target, todo, seen, at, mem>>
ghosts == <<carried, zeroed>>
vars   == <<kernel, files, calls, ghosts>>

PCs == {"idle", "waiting", "folding", "writing", "renaming"}

\* The steps that run inside withLock.
Inside == {"folding", "writing", "renaming"}

TypeOK ==
  /\ on \in [Iface -> SUBSET Pub]
  /\ ctr \in [Iface -> [Pub -> Reading]]
  /\ hs \in [Iface -> [Pub -> Nat]]
  /\ now \in Time
  /\ disk \in LedgerType \cup {Torn}
  /\ tmp \in LedgerType \cup {NoFile, Torn}
  /\ holder \in Writer \cup {None}
  /\ pc \in [Writer -> PCs]
  /\ target \in [Writer -> Pub \cup {None}]
  /\ todo \in [Writer -> SUBSET Iface]
  /\ seen \in [Writer -> SUBSET Pub]
  /\ at \in [Writer -> Time]
  /\ mem \in [Writer -> LedgerType]
  /\ carried \in [Pub -> Reading]
  /\ zeroed \in [Pub -> {"never", "read", "unread"}]

\* The machine has just booted: no interface is up and no call is in progress.
\* The ledger file, if there is one, holds l.
Boot(l) ==
  /\ on = [i \in Iface |-> {}]
  /\ ctr = [i \in Iface |-> [p \in Pub |-> Zero]]
  /\ hs = [i \in Iface |-> [p \in Pub |-> 0]]
  /\ now = 1
  /\ disk = l
  /\ tmp = NoFile
  /\ holder = None
  /\ pc = [w \in Writer |-> "idle"]
  /\ target = [w \in Writer |-> None]
  /\ todo = [w \in Writer |-> {}]
  /\ seen = [w \in Writer |-> {}]
  /\ at = [w \in Writer |-> 1]
  /\ mem = [w \in Writer |-> newLedger]
  /\ carried = [p \in Pub |-> l[p].total]
  /\ zeroed = [p \in Pub |-> IF l[p].known THEN "read" ELSE "never"]

\* A new installation: a missing file is an empty ledger.
Init == Boot(newLedger)

(***************************************************************************)
(* The kernel.                                                             *)
(***************************************************************************)
\* What a snapshot of i would now add to entry e of p.
Pending(e, i, p) == Fresh(Rebaselined(e, i), ctr[i][p])

\* The counter of p on i is about to be zeroed: "read" if the saved ledger
\* already accounts for all of it, "unread" if bytes vanish with it.
Zeroing(i, p) ==
  IF ctr[i][p] = Zero \/ zeroed[p] = "unread" THEN zeroed[p]
  ELSE IF Pending(disk[p], i, p) = Zero THEN "read"
  ELSE "unread"

Traffic(i, p, d) ==
  /\ p \in on[i]
  /\ carried[p][d] < MaxCarried
  /\ ctr' = [ctr EXCEPT ![i][p][d] = @ + 1]
  /\ carried' = [carried EXCEPT ![p][d] = @ + 1]
  /\ UNCHANGED <<on, hs, now, files, calls, zeroed>>

Handshake(i, p) ==
  /\ p \in on[i]
  /\ hs[i][p] # now
  /\ hs' = [hs EXCEPT ![i][p] = now]
  /\ UNCHANGED <<on, ctr, now, files, calls, ghosts>>

\* `wg set peer`, or an interface coming up with p in its config.
Attach(i, p) ==
  /\ p \notin on[i]
  /\ ~MultiHomed => \A j \in Iface : p \notin on[j]
  /\ on' = [on EXCEPT ![i] = @ \cup {p}]
  /\ UNCHANGED <<ctr, hs, now, files, calls, ghosts>>

\* Interface i loses its counters: it goes down and comes up again with the
\* peers S (none of them while it stays down), or the peers outside S are removed.
Recreate(i, S, Gone) ==
  /\ on' = [on EXCEPT ![i] = S]
  /\ ctr' = [ctr EXCEPT ![i] = [p \in Pub |-> IF p \in Gone THEN Zero ELSE @[p]]]
  /\ hs' = [hs EXCEPT ![i] = [p \in Pub |-> IF p \in Gone THEN 0 ELSE @[p]]]
  /\ zeroed' = [p \in Pub |-> IF p \in Gone THEN Zeroing(i, p) ELSE zeroed[p]]
  /\ UNCHANGED <<now, files, calls, carried>>

Restart(i) == \E S \in SUBSET on[i] : on[i] # {} /\ Recreate(i, S, on[i])

Detach(i, p) == p \in on[i] /\ Recreate(i, on[i] \ {p}, {p})

Tick ==
  /\ now < MaxTime
  /\ now' = now + 1
  /\ UNCHANGED <<on, ctr, hs, files, calls, ghosts>>

(***************************************************************************)
(* Writers.                                                                *)
(***************************************************************************)
\* A collectOnce lists its interfaces before it asks for the lock; the list is
\* the one given with -i, or those of the tools that answered.
StartCollect(w) ==
  /\ pc[w] = "idle"
  /\ \E I \in (SUBSET Iface) \ {{}} : todo' = [todo EXCEPT ![w] = I]
  /\ pc' = [pc EXCEPT ![w] = "waiting"]
  /\ target' = [target EXCEPT ![w] = None]
  /\ UNCHANGED <<kernel, files, seen, at, mem, ghosts>>

StartForget(w, p) ==
  /\ pc[w] = "idle"
  /\ pc' = [pc EXCEPT ![w] = "waiting"]
  /\ target' = [target EXCEPT ![w] = p]
  /\ UNCHANGED <<kernel, files, todo, seen, at, mem, ghosts>>

LockFree == ~FlockFails => holder = None

\* Bug: only the history is deleted.
HistoryForgotten(l, p) ==
  [l EXCEPT ![p] = [Absent EXCEPT !.last = l[p].last, !.base = l[p].base, !.at = l[p].at]]
\* forgetPeer deletes its key from all five maps.
Forgotten(l, p) == [l EXCEPT ![p] = Absent]

\* withLock takes the flock, unless it cannot and runs without; loadLedger reads
\* the file (one that does not parse fails the call).
Load(w) ==
  LET loaded == [p \in Pub |-> backfill(disk[p])] IN
  /\ pc[w] = "waiting"
  /\ LockFree
  /\ disk # Torn
  /\ holder' \in IF FlockFails THEN {holder, w} ELSE {w}
  /\ pc' = [pc EXCEPT ![w] = "folding"]
  /\ mem' = [mem EXCEPT ![w] = IF target[w] = None THEN loaded
                                ELSE Forgotten(loaded, target[w])]
  /\ seen' = [seen EXCEPT ![w] = {}]
  /\ at' = [at EXCEPT ![w] = now]
  /\ UNCHANGED <<kernel, disk, tmp, target, todo, ghosts>>

\* The dump of interface i, folded into the ledger; a key an earlier interface
\* showed is skipped.
Folded(w, i) ==
  [p \in Pub |-> IF p \in on[i] \ seen[w]
                 THEN foldPeer(mem[w][p], at[w], i, ctr[i][p], hs[i][p])
                 ELSE mem[w][p]]

\* One interface of the list, in its order.
Dump(w, i) ==
  /\ pc[w] = "folding"
  /\ i \in todo[w]
  /\ \A j \in todo[w] : i <= j
  /\ todo' = [todo EXCEPT ![w] = @ \ {i}]
  /\ UNCHANGED <<kernel, files, pc, target, at, ghosts>>

FoldIface(w, i) ==
  /\ Dump(w, i)
  /\ mem' = [mem EXCEPT ![w] = Folded(w, i)]
  /\ seen' = [seen EXCEPT ![w] = @ \cup on[i]]

\* No tool could read it, or it is down.
SkipIface(w, i) ==
  /\ Dump(w, i)
  /\ UNCHANGED <<mem, seen>>

\* Bugs: the ledger file itself is opened; loading and saving are two critical
\* sections, the second of which this models as one writer writing at a time.
OpenInPlace(w) ==
  /\ pc[w] = "folding"
  /\ todo[w] = {}
  /\ pc' = [pc EXCEPT ![w] = "writing"]
  /\ disk' = Torn
  /\ UNCHANGED <<kernel, tmp, holder, target, todo, seen, at, mem, ghosts>>
OpenUnlocked(w) ==
  /\ pc[w] = "folding"
  /\ todo[w] = {}
  /\ \A v \in Writer : pc[v] \notin {"writing", "renaming"}
  /\ pc' = [pc EXCEPT ![w] = "writing"]
  /\ tmp' = Torn
  /\ holder' = None
  /\ UNCHANGED <<kernel, disk, target, todo, seen, at, mem, ghosts>>

\* A collectOnce prunes; then writeAtomic creates the temporary file, empty.
OpenTmp(w) ==
  /\ pc[w] = "folding"
  /\ todo[w] = {}
  /\ pc' = [pc EXCEPT ![w] = "writing"]
  /\ mem' = [mem EXCEPT ![w] = IF target[w] # None THEN @
                                ELSE [p \in Pub |-> prune(@[p], at[w])]]
  /\ tmp' = Torn
  /\ UNCHANGED <<kernel, disk, holder, target, todo, seen, at, ghosts>>

WriteTmp(w) ==
  /\ pc[w] = "writing"
  /\ pc' = [pc EXCEPT ![w] = "renaming"]
  /\ tmp' = mem[w]
  /\ UNCHANGED <<kernel, disk, holder, target, todo, seen, at, mem, ghosts>>

\* The call is over; what it knew is gone and its lock is released.
Leave(w) ==
  /\ pc' = [pc EXCEPT ![w] = "idle"]
  /\ holder' = IF holder = w THEN None ELSE holder
  /\ target' = [target EXCEPT ![w] = None]
  /\ todo' = [todo EXCEPT ![w] = {}]
  /\ seen' = [seen EXCEPT ![w] = {}]
  /\ at' = [at EXCEPT ![w] = 1]
  /\ mem' = [mem EXCEPT ![w] = newLedger]

\* Bytes an erased peer starts again with: those its interface still shows.
Showing(p) ==
  LET homes == {i \in Iface : p \in on[i]} IN
  IF homes = {} THEN Zero
  ELSE IF MultiHomed THEN carried[p]
  ELSE ctr[CHOOSE i \in homes : TRUE][p]

Rename(w) ==
  /\ pc[w] = "renaming"
  /\ tmp # NoFile
  /\ disk' = tmp
  /\ tmp' = NoFile
  /\ Leave(w)
  /\ IF target[w] = None
     THEN UNCHANGED ghosts
     ELSE /\ carried' = [carried EXCEPT ![target[w]] = Showing(target[w])]
          /\ zeroed' = [zeroed EXCEPT ![target[w]] = "never"]
  /\ UNCHANGED kernel

\* An error ends the call; writeAtomic removes the temporary file it opened.
Fail(w) ==
  /\ pc[w] # "idle"
  /\ tmp' = IF pc[w] \in {"writing", "renaming"} THEN NoFile ELSE tmp
  /\ Leave(w)
  /\ UNCHANGED <<kernel, disk, ghosts>>

\* The process is killed: the kernel drops its flock, its temporary file stays.
Crash(w) ==
  /\ pc[w] # "idle"
  /\ Leave(w)
  /\ UNCHANGED <<kernel, disk, tmp, ghosts>>

Step(w) == \/ StartCollect(w)
           \/ \E p \in Pub : StartForget(w, p)
           \/ Load(w)
           \/ \E i \in Iface : FoldIface(w, i) \/ SkipIface(w, i)
           \/ OpenTmp(w) \/ WriteTmp(w) \/ Rename(w)
           \/ Fail(w) \/ Crash(w)

Environment == \/ \E i \in Iface, p \in Pub : \/ \E d \in Dir : Traffic(i, p, d)
                                              \/ Handshake(i, p)
                                              \/ Attach(i, p)
                                              \/ Detach(i, p)
               \/ \E i \in Iface : Restart(i)
               \/ Tick

Next == Environment \/ \E w \in Writer : Step(w)

Spec == Init /\ [][Next]_vars

(***************************************************************************)
(* Properties.                                                             *)
(***************************************************************************)
\* What a snapshot taken now would add to the saved ledger for p; a peer of no
\* interface has nothing pending.  Meaningful when p has one interface at most.
PendingOf(p) ==
  LET homes == {i \in Iface : p \in on[i]} IN
  IF homes = {} THEN Zero ELSE Pending(disk[p], CHOOSE i \in homes : TRUE, p)

\* No byte is ever counted twice: however snapshots, erasures, restarts, crashes
\* and failed writes interleave, the saved total of a peer is at most what was
\* carried for it (collectOnce under withLock, addDelta's reset rule, the moved
\* check of collectOnce).
NeverCountedTwice == \A p \in Pub : Leq(disk[p].total, carried[p])

\* Nothing is lost either while no counter was zeroed: what was carried is what
\* is saved plus what the next snapshot will add, even though the interface was
\* skipped, a snapshot failed halfway or its process was killed.
AllAccounted ==
  \A p \in Pub : zeroed[p] = "never" =>
    carried[p] = Plus(disk[p].total, PendingOf(p))

\* The five maps of the saved ledger agree: a key is in all of Peers, Last and
\* SessBase or in no map at all (forgetPeer leaves nothing behind, a snapshot
\* nothing half done), and a peer last seen online has a session that started
\* at a real handshake, never in the future of its snapshot.
MapsAgree ==
  \A p \in Pub :
    LET e == disk[p] IN
    /\ e.known <=> e.last # None
    /\ e.known <=> e.base # None
    /\ ~e.known => e = Absent
    /\ e.prevOn => e.at # None
    /\ e.at # None => e.at \in 1 .. now

\* "updateSession rebaselines a peer's session counters on each offline->online
\* transition" (ledger.go:146) and on no other snapshot: from one saved ledger to the
\* next, going on, going offline or staying there leaves a session its baseline and
\* its start ("Going offline freezes the session", ledger_test.go:109), and coming
\* back counts exactly what came after the snapshot before.  A reading below the
\* baseline is of counters that restarted, and counts from zero.  Nothing is said of
\* a peer that moved, nor of one that comes back with counters below the last
\* reading but not below the old baseline: the code makes that reading the baseline.
Follows(e, f) ==
  e.base # None /\ f.known /\ ~Moved(e, f.iface) =>
    IF ~Leq(e.base, f.last) THEN f.last # e.last => f.base = Zero
    ELSE IF f.prevOn /\ ~e.prevOn THEN Leq(e.last, f.last) => f.base = e.last
    ELSE f.base = e.base /\ f.at = e.at
SessionsFollowOnline == \A p \in Pub : Follows(disk[p], disk'[p])
SessionsOpenOnce == [][disk' # disk => SessionsFollowOnline]_vars

\* atomic.go:8, "a write dying halfway cannot gut the file": what is at the
\* ledger's path is always a whole ledger.
LedgerIsWhole == disk \in LedgerType

\* w finishes erasing p: the only step that may take something from the ledger.
Erases(w, p) == pc[w] = "renaming" /\ target[w] = p /\ disk' = tmp

\* Every saved total and month is at least what it was, save those of an erased peer.
OnlyGrows ==
  \A p \in Pub : \/ /\ Leq(disk[p].total, disk'[p].total)
                    /\ \A m \in Month : Leq(disk[p].months[m], disk'[p].months[m])
                 \/ \E w \in Writer : Erases(w, p)

\* No update is lost: nothing but the end of its own erasure takes bytes from
\* what the file holds for a peer (two writers meet at withLock's flock).
SavedOnlyGrows == [][OnlyGrows]_vars

\* The saved totals are the book of AccountBook.
Book == INSTANCE AccountBook WITH book <- [p \in Pub |-> disk[p].total]

\* Whatever the interfaces, the writers and their failures do, the saved totals
\* behave like a book that follows the traffic.
KeepsTheBook == Book!Spec

(***************************************************************************)
(* Why NeverCountedTwice and SavedOnlyGrows hold: the inductive invariant  *)
(* of Collector_proofs.  Neither property is inductive: both are about the *)
(* file, and a step that replaces the file installs the ledger a call      *)
(* loaded some time ago.                                                   *)
(***************************************************************************)
\* Even after the next snapshot, e would count no more than was carried.
Safe(e, p) ==
  /\ Leq(e.total, carried[p])
  /\ \A i \in Iface : p \in on[i] => Leq(Plus(e.total, Pending(e, i, p)), carried[p])

\* A peer has one interface at most, and only that one shows bytes for it.
KernelInv ==
  /\ \A p \in Pub, i, j \in Iface : p \in on[i] /\ p \in on[j] => i = j
  /\ \A p \in Pub, i \in Iface : p \notin on[i] => ctr[i][p] = Zero
  /\ \A p \in Pub, i \in Iface : Leq(ctr[i][p], carried[p])

\* The flock is held by whoever is inside withLock.
LockInv == \A w \in Writer : pc[w] \in Inside <=> holder = w

\* The saved ledger counts nothing twice, and needs no backfill.
FileInv == \A p \in Pub : Safe(disk[p], p) /\ Upgraded(disk[p])

\* e2 has all that e1 has.
Covers(e1, e2) ==
  /\ Leq(e1.total, e2.total)
  /\ \A m \in Month : Leq(e1.months[m], e2.months[m])

\* What a call works on: an erasure has taken out its key and nothing else; every
\* other entry is safe, has all that the file has, and is what the call will
\* rename into place.
CallOK(w) ==
  /\ pc[w] = "idle" \/ target[w] # None => todo[w] = {}
  /\ pc[w] \in Inside =>
       /\ \A p \in Pub : Upgraded(mem[w][p])
       /\ target[w] # None => mem[w] = [disk EXCEPT ![target[w]] = Absent]
       /\ \A p \in Pub \ {target[w]} : Safe(mem[w][p], p) /\ Covers(disk[p], mem[w][p])
  /\ pc[w] = "renaming" => tmp = mem[w]

CallInv == \A w \in Writer : CallOK(w)

\* The types, and a ledger file that is whole.
Typed == TypeOK /\ LedgerIsWhole

IInv == Typed /\ KernelInv /\ LockInv /\ FileInv /\ CallInv
=============================================================================
