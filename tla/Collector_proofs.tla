-------------------------- MODULE Collector_proofs --------------------------
(***************************************************************************)
(* The saved ledger counts no byte twice and loses no update, its maps     *)
(* agree, sessions begin when a peer comes online and at no other time, and *)
(* while no counter is zeroed every byte is either saved or still to be    *)
(* read: for any number of peers, interfaces, writers and any calendar, as *)
(* long as a key belongs to one interface at a time and the flock can be   *)
(* taken.                                                                  *)
(***************************************************************************)
EXTENDS Collector, TLAPS

(***************************************************************************)
(* The operators of Ledger: what they return, and what folding one reading *)
(* does to the fields the totals depend on.                                *)
(***************************************************************************)
\* Sums of readings are readings, and Zero is one.
LEMMA ReadingFacts ==
  /\ Zero \in Reading
  /\ \A a, b \in Reading : Plus(a, b) \in Reading
  /\ \A a, r \in Reading : Delta(a, r) \in Reading
BY DEF Zero, Plus, Delta, Reading

\* The keys a snapshot books under are hours and months of the calendar.
LEMMA CalendarFacts ==
  ASSUME NEW t \in Time
  PROVE  HourOf[t] \in Hour /\ ZoneMonth[HourOf[t]] \in Month
<1>1. MaxTime \in Time /\ t <= MaxTime
  BY CalendarAssumption DEF Time
<1>2. HourOf[t] \in Nat /\ HourOf[MaxTime] \in Nat /\ HourOf[t] <= HourOf[MaxTime]
  BY <1>1, CalendarAssumption DEF Time
<1>3. HourOf[t] \in Hour
  BY <1>2 DEF Hour
<1> QED BY <1>3 DEF Month

\* The entry of a key the ledger does not have is an entry.
LEMMA AbsentType == Absent \in Entry /\ Upgraded(Absent) /\ newLedger \in LedgerType
<1>1. Absent \in Entry
  BY ReadingFacts DEF Absent, Entry, NoHours, NoMonths
<1> QED BY <1>1 DEF Absent, Upgraded, newLedger, LedgerType

\* Rebaselining an entry forgets its last reading or nothing.
LEMMA RebaselinedType ==
  ASSUME NEW e \in Entry, NEW i
  PROVE  /\ Rebaselined(e, i) \in Entry
         /\ Rebaselined(e, i).total = e.total
         /\ Rebaselined(e, i).hours = e.hours
         /\ Rebaselined(e, i).months = e.months
BY DEF Rebaselined, Entry

\* What a reading adds is a reading.
LEMMA FreshType ==
  ASSUME NEW e \in Entry, NEW r \in Reading
  PROVE  Fresh(e, r) \in Reading
<1>1. e.last \in Reading \cup {None}
  BY DEF Entry
<1> QED BY <1>1, ReadingFacts DEF Fresh

\* addDelta returns an entry; it adds the same to the total as it found fresh.
LEMMA AddDeltaType ==
  ASSUME NEW e \in Entry, NEW t \in Time, NEW r \in Reading
  PROVE  /\ addDelta(e, t, r) \in Entry
         /\ addDelta(e, t, r).known
         /\ addDelta(e, t, r).total = Plus(e.total, Fresh(e, r))
         /\ addDelta(e, t, r).last = r
         /\ \/ addDelta(e, t, r).months = e.months
            \/ addDelta(e, t, r).months =
                 addBucket(e.months, ZoneMonth[HourOf[t]], Fresh(e, r))
<1> DEFINE delta == Fresh(e, r)
           a == addDelta(e, t, r)
<1>1. delta \in Reading
  BY FreshType
<1>2. HourOf[t] \in Hour /\ ZoneMonth[HourOf[t]] \in Month
  BY CalendarFacts
<1>3. /\ e.total \in Reading /\ e.hours \in [Hour -> Reading]
      /\ e.months \in [Month -> Reading]
  BY DEF Entry
<1>4. Plus(e.total, delta) \in Reading
  BY <1>1, <1>3, ReadingFacts
<1>5. addBucket(e.hours, HourOf[t], delta) \in [Hour -> Reading]
  BY <1>1, <1>2, <1>3, ReadingFacts DEF addBucket
<1>6. addBucket(e.months, ZoneMonth[HourOf[t]], delta) \in [Month -> Reading]
  BY <1>1, <1>2, <1>3, ReadingFacts DEF addBucket
<1> HIDE DEF delta
<1>7. a = [e EXCEPT !.known  = TRUE,
                    !.total  = Plus(e.total, delta),
                    !.hours  = IF e.last = None THEN e.hours
                               ELSE addBucket(e.hours, HourOf[t], delta),
                    !.months = IF e.last = None THEN e.months
                               ELSE addBucket(e.months, ZoneMonth[HourOf[t]], delta),
                    !.last   = r]
  BY DEF addDelta, delta
<1> HIDE DEF a
<1>8. a \in Entry
  BY <1>3, <1>4, <1>5, <1>6, <1>7 DEF Entry
<1>9. /\ a.known /\ a.total = Plus(e.total, delta) /\ a.last = r
      /\ \/ a.months = e.months
         \/ a.months = addBucket(e.months, ZoneMonth[HourOf[t]], delta)
  BY <1>7 DEF Entry
<1> QED BY <1>8, <1>9 DEF a, delta

\* Two entries that differ at most in the session's fields.
SameAccount(u, e) ==
  /\ u.known = e.known /\ u.iface = e.iface /\ u.total = e.total
  /\ u.hours = e.hours /\ u.months = e.months /\ u.last = e.last

\* updateSession changes only the session's fields.
LEMMA UpdateSessionType ==
  ASSUME NEW e \in Entry, NEW r \in Reading, NEW online \in BOOLEAN, NEW h \in Nat,
         NEW prevRaw \in Reading \cup {None}
  PROVE  /\ updateSession(e, r, online, h, prevRaw) \in Entry
         /\ SameAccount(updateSession(e, r, online, h, prevRaw), e)
<1> DEFINE base == IF Opens(e, r, online)
                   THEN IF BelowBase(e, r) THEN Zero
                        ELSE IF prevRaw # None THEN prevRaw ELSE r
                   ELSE e.base
           start == IF Opens(e, r, online) /\ online THEN h ELSE e.at
           u == updateSession(e, r, online, h, prevRaw)
<1>1. base \in Reading \cup {None} /\ start \in Nat \cup {None}
  BY ReadingFacts DEF Entry
<1>2. u = [e EXCEPT !.base = base, !.at = start, !.prevOn = online]
  BY DEF updateSession, Entry
<1> HIDE DEF base, start, u
<1>3. u \in Entry /\ SameAccount(u, e)
  BY <1>1, <1>2 DEF Entry, SameAccount
<1> QED BY <1>3 DEF u

\* Folding a reading keeps an entry an entry, adds to its total exactly what was
\* pending, and remembers the reading and its interface.
LEMMA FoldPeerType ==
  ASSUME NEW e \in Entry, NEW t \in Time, NEW i \in Iface, NEW r \in Reading, NEW h \in Nat
  PROVE  LET f == foldPeer(e, t, i, r, h)
         IN  /\ f \in Entry
             /\ f.known /\ f.iface = i /\ f.last = r
             /\ f.total = Plus(e.total, Fresh(Rebaselined(e, i), r))
             /\ f.hours = addDelta(Rebaselined(e, i), t, r).hours
             /\ f.months = addDelta(Rebaselined(e, i), t, r).months
<1> DEFINE q == Rebaselined(e, i)
           a == addDelta(q, t, r)
           b == [a EXCEPT !.iface = i]
           online == Online(t, h)
           f == foldPeer(e, t, i, r, h)
<1>1. q \in Entry /\ q.total = e.total
  BY RebaselinedType
<1>2. q.last \in Reading \cup {None}
  BY <1>1 DEF Entry
<1>3. /\ a \in Entry /\ a.known /\ a.last = r
      /\ a.total = Plus(e.total, Fresh(q, r))
  BY <1>1, AddDeltaType
<1>4. f = updateSession(b, r, online, h, q.last)
  BY DEF foldPeer
<1> HIDE DEF q, a, f
<1>5. /\ b \in Entry /\ b.known /\ b.iface = i /\ b.last = r
      /\ b.total = Plus(e.total, Fresh(q, r))
      /\ b.hours = a.hours /\ b.months = a.months
  BY <1>3 DEF Entry
<1>6. online \in BOOLEAN
  BY DEF Online
<1> HIDE DEF b, online
<1>7. /\ updateSession(b, r, online, h, q.last) \in Entry
      /\ SameAccount(updateSession(b, r, online, h, q.last), b)
  BY <1>2, <1>5, <1>6, UpdateSessionType, Zenon
<1>8. /\ f \in Entry
      /\ f.known /\ f.iface = i /\ f.last = r
      /\ f.total = Plus(e.total, Fresh(q, r))
      /\ f.hours = a.hours /\ f.months = a.months
  BY <1>4, <1>5, <1>7 DEF SameAccount
<1> QED BY <1>8 DEF f, q, a

\* A reading that adds something adds it to hours and months alike.
LEMMA AddDeltaUpgraded ==
  ASSUME NEW e \in Entry, NEW t \in Time, NEW r \in Reading, Upgraded(e)
  PROVE  Upgraded(addDelta(e, t, r))
<1> DEFINE a == addDelta(e, t, r)
           delta == Fresh(e, r)
           k == ZoneMonth[HourOf[t]]
<1>1. CASE e.last = None
  <2>1. a.hours = e.hours /\ a.months = e.months
    BY <1>1 DEF addDelta, Entry
  <2> QED BY <2>1 DEF Upgraded
<1>2. CASE e.last # None
  <2>1. delta \in Reading
    BY FreshType
  <2>2. HourOf[t] \in Hour /\ k \in Month
    BY CalendarFacts
  <2>3. e.hours \in [Hour -> Reading] /\ e.months \in [Month -> Reading]
    BY DEF Entry
  <2>4. /\ a.hours = addBucket(e.hours, HourOf[t], delta)
        /\ a.months = addBucket(e.months, k, delta)
    BY <1>2 DEF addDelta, Entry
  <2> HIDE DEF a, delta, k
  <2>5. SUFFICES ASSUME a.months = NoMonths
                 PROVE  a.hours = NoHours
    BY DEF Upgraded, a
  <2>6. a.months[k] = Plus(e.months[k], delta) /\ a.months[k] = Zero
    BY <2>2, <2>3, <2>4, <2>5 DEF addBucket, NoMonths
  <2>7. \A d \in Dir : delta[d] = 0 /\ e.months[k][d] = 0
    <3>1. e.months[k] \in Reading
      BY <2>2, <2>3
    <3> QED BY <2>1, <2>6, <3>1 DEF Plus, Zero, Reading
  <2>8. e.months[k] = Zero
    BY <2>2, <2>3, <2>7 DEF Zero, Reading
  <2>9. \A m \in Month : e.months[m] = Zero
    BY <2>2, <2>3, <2>4, <2>5, <2>8 DEF addBucket, NoMonths
  <2>10. e.months = NoMonths
    BY <2>3, <2>9 DEF NoMonths
  <2>11. e.hours = NoHours
    BY <2>10 DEF Upgraded
  <2>12. Plus(Zero, delta) = Zero
    BY <2>1, <2>7 DEF Plus, Zero, Reading
  <2>13. a.hours = [NoHours EXCEPT ![HourOf[t]] = Zero]
    BY <2>2, <2>4, <2>11, <2>12 DEF addBucket, NoHours
  <2> QED BY <2>2, <2>13 DEF NoHours
<1> QED BY <1>1, <1>2

\* Folding a reading leaves nothing to backfill.
LEMMA FoldPeerUpgraded ==
  ASSUME NEW e \in Entry, NEW t \in Time, NEW i \in Iface, NEW r \in Reading, NEW h \in Nat,
         Upgraded(e)
  PROVE  Upgraded(foldPeer(e, t, i, r, h))
<1> DEFINE q == Rebaselined(e, i)
<1>1. q \in Entry /\ q.hours = e.hours /\ q.months = e.months
  BY RebaselinedType
<1>2. Upgraded(q)
  BY <1>1 DEF Upgraded
<1>3. Upgraded(addDelta(q, t, r))
  BY <1>1, <1>2, AddDeltaUpgraded
<1> QED BY <1>3, FoldPeerType DEF Upgraded

\* prune touches the hours alone.
LEMMA PruneType ==
  ASSUME NEW e \in Entry, NEW t \in Time
  PROVE  /\ prune(e, t) \in Entry
         /\ prune(e, t) = [e EXCEPT !.hours = prune(e, t).hours]
         /\ Upgraded(e) => Upgraded(prune(e, t))
<1> DEFINE kept == [h \in Hour |-> IF h < HourOf[t] - KeepHours THEN Zero ELSE e.hours[h]]
           u == prune(e, t)
<1>1. kept \in [Hour -> Reading]
  BY ReadingFacts DEF Entry
<1>2. u = [e EXCEPT !.hours = kept]
  BY DEF prune
<1>3. e.hours = NoHours => kept = NoHours
  BY DEF NoHours
<1> HIDE DEF kept, u
<1>4. u \in Entry /\ u.hours = kept /\ u.months = e.months
  BY <1>1, <1>2 DEF Entry
<1>5. u = [e EXCEPT !.hours = u.hours]
  BY <1>2, <1>4
<1>6. Upgraded(e) => Upgraded(u)
  BY <1>3, <1>4 DEF Upgraded
<1> QED BY <1>4, <1>5, <1>6 DEF u

\* An up-to-date entry is loaded as it was saved.
LEMMA BackfillIdle ==
  ASSUME NEW e, Upgraded(e)
  PROVE  backfill(e) = e
BY DEF backfill, Upgraded

\* What a fold makes of the session: whether it opens, and from which baseline,
\* depends on the entry before the fold.
LEMMA FoldPeerSession ==
  ASSUME NEW e \in Entry, NEW t \in Time, NEW i \in Iface, NEW r \in Reading, NEW h \in Nat
  PROVE  LET f == foldPeer(e, t, i, r, h)
             q == Rebaselined(e, i)
             opens == Opens(e, r, Online(t, h))
         IN  /\ f.base = IF opens THEN IF BelowBase(e, r) THEN Zero
                                       ELSE IF q.last # None THEN q.last ELSE r
                         ELSE e.base
             /\ f.at = IF opens /\ Online(t, h) THEN h ELSE e.at
             /\ f.prevOn = Online(t, h)
<1> DEFINE q == Rebaselined(e, i)
           b == [addDelta(q, t, r) EXCEPT !.iface = i]
           online == Online(t, h)
           f == foldPeer(e, t, i, r, h)
<1>1. q \in Entry /\ q.base = e.base /\ q.at = e.at /\ q.prevOn = e.prevOn
  BY DEF Rebaselined, Entry
<1>2. addDelta(q, t, r) \in Entry
  BY <1>1, AddDeltaType
<1>3. /\ addDelta(q, t, r).base = q.base /\ addDelta(q, t, r).at = q.at
      /\ addDelta(q, t, r).prevOn = q.prevOn
  BY <1>1 DEF addDelta, Entry
<1>4. f = updateSession(b, r, online, h, q.last)
  BY DEF foldPeer
<1> HIDE DEF q, online, f
<1>5. b \in Entry /\ b.base = e.base /\ b.at = e.at /\ b.prevOn = e.prevOn
  BY <1>1, <1>2, <1>3 DEF Entry
<1> HIDE DEF b
<1>6. /\ BelowBase(b, r) <=> BelowBase(e, r)
      /\ Opens(b, r, online) <=> Opens(e, r, online)
  BY <1>5 DEF BelowBase, Opens
<1> DEFINE base == IF Opens(e, r, online)
                   THEN IF BelowBase(e, r) THEN Zero ELSE IF q.last # None THEN q.last ELSE r
                   ELSE e.base
           start == IF Opens(e, r, online) /\ online THEN h ELSE e.at
<1>7. f = [b EXCEPT !.base = base, !.at = start, !.prevOn = online]
  BY <1>4, <1>5, <1>6 DEF updateSession
<1> HIDE DEF base, start
<1>8. f.base = base /\ f.at = start /\ f.prevOn = online
  BY <1>5, <1>7 DEF Entry
<1> QED
  BY <1>8 DEF base, start, q, f, online

(***************************************************************************)
(* Arithmetic of readings.                                                 *)
(***************************************************************************)
\* A counter that shows nothing leaves nothing pending.
LEMMA NothingFresh ==
  ASSUME NEW e \in Entry, NEW i
  PROVE  Fresh(Rebaselined(e, i), Zero) = Zero
<1> DEFINE q == Rebaselined(e, i)
<1>1. q.last \in Reading \cup {None}
  BY RebaselinedType DEF Entry
<1> HIDE DEF q
<1>2. q.last \in Reading => Delta(q.last, Zero) = Zero
  BY DEF Delta, Zero, Reading
<1>3. Fresh(q, Zero) = Zero
  BY <1>1, <1>2 DEF Fresh
<1> QED BY <1>3 DEF q

\* One more byte on the counter is at most one more byte pending.
LEMMA FreshGrows ==
  ASSUME NEW q \in Entry, NEW r \in Reading, NEW d \in Dir, NEW x \in Dir
  PROVE  Fresh(q, [r EXCEPT ![d] = @ + 1])[x] <= Fresh(q, r)[x] + (IF x = d THEN 1 ELSE 0)
<1> DEFINE more == [r EXCEPT ![d] = @ + 1]
<1>1. q.last \in Reading \cup {None}
  BY DEF Entry
<1>2. more \in Reading /\ more[x] = r[x] + (IF x = d THEN 1 ELSE 0)
  BY DEF Reading
<1> HIDE DEF more
<1>3. Fresh(q, more)[x] <= Fresh(q, r)[x] + (IF x = d THEN 1 ELSE 0)
  <2>1. CASE q.last = None
    BY <1>2, <2>1 DEF Fresh, Reading
  <2>2. CASE q.last # None
    <3>1. q.last \in Reading
      BY <1>1, <2>2
    <3>2. Delta(q.last, more)[x] <= Delta(q.last, r)[x] + (IF x = d THEN 1 ELSE 0)
      BY <1>2, <3>1 DEF Delta, Reading
    <3> QED BY <2>2, <3>2 DEF Fresh
  <2> QED BY <2>1, <2>2
<1> QED BY <1>3 DEF more

\* Right after a reading nothing is pending on its interface.
LEMMA NothingPendingAfterFold ==
  ASSUME NEW f \in Entry, NEW r \in Reading, NEW i \in Iface, f.last = r, f.iface = i
  PROVE  Fresh(Rebaselined(f, i), r) = Zero
<1>1. Rebaselined(f, i) = f
  BY DEF Rebaselined, Moved
<1>2. r # None
  BY NoneAssumption
<1>3. Delta(r, r) = Zero
  BY DEF Delta, Zero, Reading
<1> QED BY <1>1, <1>2, <1>3 DEF Fresh

\* The types the obligations below need of the kernel.
LEMMA KernelTypes ==
  ASSUME Typed, NEW i \in Iface, NEW p \in Pub
  PROVE  /\ ctr[i][p] \in Reading /\ hs[i][p] \in Nat /\ on[i] \subseteq Pub
         /\ carried[p] \in Reading
         /\ \A e \in Entry : Pending(e, i, p) \in Reading
<1>1. ctr[i][p] \in Reading /\ hs[i][p] \in Nat /\ on[i] \subseteq Pub /\ carried[p] \in Reading
  BY DEF Typed, TypeOK, LedgerIsWhole
<1>2. \A e \in Entry : Pending(e, i, p) \in Reading
  BY <1>1, RebaselinedType, FreshType DEF Pending
<1> QED BY <1>1, <1>2

\* An erased peer counts nothing, and what its interface shows was carried.
LEMMA AbsentSafe ==
  ASSUME Typed, KernelInv, NEW p \in Pub
  PROVE  Safe(Absent, p)
<1>1. \A r \in Reading, i \in Iface : Fresh(Rebaselined(Absent, i), r) = r
  BY DEF Fresh, Rebaselined, Moved, Absent
<1>2. \A i \in Iface : ctr[i][p] \in Reading /\ Leq(ctr[i][p], carried[p])
  BY KernelTypes DEF KernelInv
<1>3. carried[p] \in Reading
  BY DEF Typed, TypeOK, LedgerIsWhole
<1>4. Absent.total = Zero
  BY DEF Absent
<1>5. Leq(Zero, carried[p])
  BY <1>3 DEF Leq, Zero, Reading
<1>6. \A r \in Reading : Plus(Zero, r) = r
  BY DEF Plus, Zero, Reading
<1>7. \A i \in Iface : Leq(Plus(Absent.total, Pending(Absent, i, p)), carried[p])
  BY <1>1, <1>2, <1>4, <1>6 DEF Pending
<1> QED BY <1>4, <1>5, <1>7 DEF Safe

(***************************************************************************)
(* The kernel's steps.                                                     *)
(***************************************************************************)
\* What the kernel does to the variables the proofs look at, one case per action.
\* Traffic adds the byte to the counter and to what was carried.
LEMMA TrafficSafe ==
  ASSUME Typed, NEW i \in Iface, NEW p \in Pub, NEW d \in Dir, Traffic(i, p, d), KernelInv,
         NEW e \in Entry, NEW q \in Pub, Safe(e, q)
  PROVE  Safe(e, q)'
<1>1. /\ on' = on /\ on \in [Iface -> SUBSET Pub]
      /\ ctr' = [ctr EXCEPT ![i][p][d] = @ + 1] /\ ctr \in [Iface -> [Pub -> Reading]]
      /\ carried' = [carried EXCEPT ![p][d] = @ + 1] /\ carried \in [Pub -> Reading]
      /\ p \in on[i]
  BY DEF Traffic, Typed, TypeOK, LedgerIsWhole
<1>2. carried[q] \in Reading /\ e.total \in Reading
  BY <1>1 DEF Entry
<1>3. /\ carried'[q] \in Reading
      /\ \A x \in Dir : carried'[q][x] = carried[q][x] + (IF q = p /\ x = d THEN 1 ELSE 0)
  BY <1>1, <1>2 DEF Reading
<1>4. Leq(e.total, carried'[q])
  BY <1>2, <1>3 DEF Safe, Leq, Reading
<1>5. ASSUME NEW j \in Iface, q \in on[j]
      PROVE  Leq(Plus(e.total, Pending(e, j, q)'), carried'[q])
  <2> DEFINE b == Rebaselined(e, j)
  <2>1. b \in Entry
    BY RebaselinedType
  <2>2. ctr[j][q] \in Reading
    BY <1>1
  <2>3. Leq(Plus(e.total, Fresh(b, ctr[j][q])), carried[q])
    BY <1>5 DEF Safe, Pending
  <2>4. CASE q = p /\ j = i
    <3>1. ctr'[j][q] = [ctr[j][q] EXCEPT ![d] = @ + 1]
      BY <1>1, <2>4
    <3>2. [ctr[j][q] EXCEPT ![d] = @ + 1] \in Reading
      BY <2>2 DEF Reading
    <3> HIDE DEF b
    <3>3. /\ Fresh(b, ctr[j][q]) \in Reading /\ Fresh(b, ctr'[j][q]) \in Reading
          /\ \A x \in Dir : Fresh(b, ctr'[j][q])[x] <= Fresh(b, ctr[j][q])[x] + (IF x = d THEN 1 ELSE 0)
      BY <2>1, <2>2, <3>1, <3>2, FreshType, FreshGrows
    <3>4. Leq(Plus(e.total, Fresh(b, ctr'[j][q])), carried'[q])
      BY <1>2, <1>3, <2>3, <2>4, <3>3 DEF Leq, Plus, Reading
    <3> QED BY <3>4 DEF Pending, b
  <2>5. CASE ~(q = p /\ j = i)
    <3>1. ctr'[j][q] = ctr[j][q]
      BY <1>1, <2>5
    <3> HIDE DEF b
    <3>2. Fresh(b, ctr[j][q]) \in Reading
      BY <2>1, <2>2, FreshType
    <3>3. Leq(Plus(e.total, Fresh(b, ctr'[j][q])), carried'[q])
      BY <1>2, <1>3, <2>3, <3>1, <3>2 DEF Leq, Plus, Reading
    <3> QED BY <3>3 DEF Pending, b
  <2> QED BY <2>4, <2>5
<1> QED BY <1>1, <1>4, <1>5 DEF Safe

\* A counter that starts at zero leaves nothing pending.
LEMMA ZeroPending ==
  ASSUME Typed, NEW e \in Entry, NEW q \in Pub, Leq(e.total, carried[q]), NEW j \in Iface
  PROVE  Leq(Plus(e.total, Fresh(Rebaselined(e, j), Zero)), carried[q])
<1>1. Fresh(Rebaselined(e, j), Zero) = Zero
  BY NothingFresh
<1>2. e.total \in Reading /\ carried[q] \in Reading
  BY DEF Entry, Typed, TypeOK, LedgerIsWhole
<1>3. Plus(e.total, Zero) = e.total
  BY <1>2 DEF Plus, Zero, Reading
<1> QED BY <1>1, <1>3

\* A new peer shows zero; nothing else changes.
LEMMA AttachSafe ==
  ASSUME Typed, KernelInv, NEW i \in Iface, NEW p \in Pub, Attach(i, p),
         NEW e \in Entry, NEW q \in Pub, Safe(e, q)
  PROVE  Safe(e, q)'
<1>1. /\ on' = [on EXCEPT ![i] = @ \cup {p}] /\ on \in [Iface -> SUBSET Pub]
      /\ ctr' = ctr /\ carried' = carried /\ p \notin on[i]
  BY DEF Attach, Typed, TypeOK, LedgerIsWhole, ghosts
<1>2. ASSUME NEW j \in Iface, q \in on'[j]
      PROVE  Leq(Plus(e.total, Fresh(Rebaselined(e, j), ctr[j][q])), carried[q])
  <2>1. CASE q \in on[j]
    BY <2>1 DEF Safe, Pending
  <2>2. CASE q \notin on[j]
    <3>1. ctr[j][q] = Zero
      BY <2>2 DEF KernelInv
    <3> QED BY <3>1, ZeroPending DEF Safe
  <2> QED BY <2>1, <2>2
<1> QED BY <1>1, <1>2 DEF Safe, Pending

\* A recreated counter shows zero; the others are as they were.
LEMMA RecreateSafe ==
  ASSUME Typed, KernelInv, NEW i \in Iface, NEW S \in SUBSET on[i], NEW Gone \in SUBSET Pub,
         Recreate(i, S, Gone),
         NEW e \in Entry, NEW q \in Pub, Safe(e, q)
  PROVE  Safe(e, q)'
<1>1. /\ on' = [on EXCEPT ![i] = S] /\ on \in [Iface -> SUBSET Pub]
      /\ ctr' = [ctr EXCEPT ![i] = [x \in Pub |-> IF x \in Gone THEN Zero ELSE ctr[i][x]]]
      /\ ctr \in [Iface -> [Pub -> Reading]]
      /\ carried' = carried
  BY DEF Recreate, Typed, TypeOK, LedgerIsWhole
<1>2. ASSUME NEW j \in Iface, q \in on'[j]
      PROVE  Leq(Plus(e.total, Fresh(Rebaselined(e, j), ctr'[j][q])), carried[q])
  <2>1. q \in on[j]
    BY <1>1, <1>2
  <2>2. ctr'[j][q] = ctr[j][q] \/ ctr'[j][q] = Zero
    BY <1>1
  <2>3. CASE ctr'[j][q] = ctr[j][q]
    BY <2>1, <2>3 DEF Safe, Pending
  <2>4. CASE ctr'[j][q] = Zero
    BY <2>4, ZeroPending DEF Safe
  <2> QED BY <2>2, <2>3, <2>4
<1> QED BY <1>1, <1>2 DEF Safe, Pending

\* Nothing the kernel does makes a safe entry unsafe.
LEMMA EnvironmentSafe ==
  ASSUME Typed, KernelInv, Environment, NEW e \in Entry, NEW q \in Pub, Safe(e, q)
  PROVE  Safe(e, q)'
<1>1. CASE \E i \in Iface, p \in Pub, d \in Dir : Traffic(i, p, d)
  BY <1>1, TrafficSafe
<1>2. CASE \E i \in Iface, p \in Pub : Attach(i, p)
  BY <1>2, AttachSafe
<1>3. CASE \E i \in Iface, p \in Pub : Detach(i, p)
  <2>1. PICK i \in Iface, p \in Pub : Recreate(i, on[i] \ {p}, {p})
    BY <1>3 DEF Detach
  <2>2. on[i] \ {p} \in SUBSET on[i] /\ {p} \in SUBSET Pub
    OBVIOUS
  <2> QED BY <2>1, <2>2, RecreateSafe
<1>4. CASE \E i \in Iface : Restart(i)
  <2>1. PICK i \in Iface : \E S \in SUBSET on[i] : Recreate(i, S, on[i])
    BY <1>4 DEF Restart
  <2>2. on[i] \in SUBSET Pub
    BY DEF Typed, TypeOK, LedgerIsWhole
  <2> QED BY <2>1, <2>2, RecreateSafe
<1>5. CASE UNCHANGED <<on, ctr, carried>>
  BY <1>5 DEF Safe, Pending
<1>6. \/ \E i \in Iface, p \in Pub, d \in Dir : Traffic(i, p, d)
      \/ \E i \in Iface, p \in Pub : Attach(i, p)
      \/ \E i \in Iface, p \in Pub : Detach(i, p)
      \/ \E i \in Iface : Restart(i)
      \/ UNCHANGED <<on, ctr, carried>>
  BY DEF Environment, Handshake, Tick, ghosts
<1> QED BY <1>1, <1>2, <1>3, <1>4, <1>5, <1>6

\* The kernel's steps keep the types and leave files and calls alone.
LEMMA EnvironmentTypes ==
  ASSUME Typed, Environment
  PROVE  Typed' /\ UNCHANGED <<files, calls>>
<1> USE DEF files, calls, ghosts
<1>1. ASSUME NEW i \in Iface, NEW p \in Pub, NEW d \in Dir, Traffic(i, p, d)
      PROVE  Typed' /\ UNCHANGED <<files, calls>>
  <2>1. [ctr[i][p] EXCEPT ![d] = @ + 1] \in Reading /\ [carried[p] EXCEPT ![d] = @ + 1] \in Reading
    BY DEF Typed, TypeOK, LedgerIsWhole, Reading
  <2>2. /\ ctr' = [ctr EXCEPT ![i] = [ctr[i] EXCEPT ![p] = [ctr[i][p] EXCEPT ![d] = @ + 1]]]
        /\ carried' = [carried EXCEPT ![p] = [carried[p] EXCEPT ![d] = @ + 1]]
    BY <1>1 DEF Traffic, Typed, TypeOK, LedgerIsWhole
  <2>3. ctr' \in [Iface -> [Pub -> Reading]] /\ carried' \in [Pub -> Reading]
    BY <2>1, <2>2 DEF Typed, TypeOK, LedgerIsWhole
  <2> QED BY <1>1, <2>3 DEF Traffic, Typed, TypeOK, LedgerIsWhole
<1>2. ASSUME NEW i \in Iface, NEW p \in Pub, Handshake(i, p)
      PROVE  Typed' /\ UNCHANGED <<files, calls>>
  BY <1>2, CalendarAssumption DEF Handshake, Typed, TypeOK, LedgerIsWhole, Time
<1>3. ASSUME NEW i \in Iface, NEW p \in Pub, Attach(i, p)
      PROVE  Typed' /\ UNCHANGED <<files, calls>>
  BY <1>3 DEF Attach, Typed, TypeOK, LedgerIsWhole
<1>4. ASSUME NEW i \in Iface, NEW S \in SUBSET Pub, NEW Gone \in SUBSET Pub, Recreate(i, S, Gone)
      PROVE  Typed' /\ UNCHANGED <<files, calls>>
  <2>1. \A x \in Pub : Zeroing(i, x) \in {"never", "read", "unread"}
    BY DEF Zeroing, Typed, TypeOK, LedgerIsWhole
  <2>2. zeroed' \in [Pub -> {"never", "read", "unread"}]
    BY <1>4, <2>1 DEF Recreate, Typed, TypeOK, LedgerIsWhole
  <2>3. /\ ctr' \in [Iface -> [Pub -> Reading]]
        /\ hs' \in [Iface -> [Pub -> Nat]]
        /\ on' \in [Iface -> SUBSET Pub]
    BY <1>4, ReadingFacts DEF Recreate, Typed, TypeOK, LedgerIsWhole
  <2> QED BY <1>4, <2>2, <2>3 DEF Recreate, Typed, TypeOK, LedgerIsWhole
<1>5. CASE Tick
  <2>1. now + 1 \in Time
    BY <1>5, CalendarAssumption DEF Tick, Typed, TypeOK, LedgerIsWhole, Time
  <2> QED BY <1>5, <2>1 DEF Tick, Typed, TypeOK, LedgerIsWhole
<1>6. ASSUME NEW i \in Iface, NEW p \in Pub, Detach(i, p)
      PROVE  Typed' /\ UNCHANGED <<files, calls>>
  <2>1. on[i] \ {p} \in SUBSET Pub /\ {p} \in SUBSET Pub
    BY DEF Typed, TypeOK, LedgerIsWhole
  <2> QED BY <1>4, <1>6, <2>1 DEF Detach
<1>7. ASSUME NEW i \in Iface, Restart(i)
      PROVE  Typed' /\ UNCHANGED <<files, calls>>
  <2>1. PICK S \in SUBSET on[i] : Recreate(i, S, on[i])
    BY <1>7 DEF Restart
  <2>2. on[i] \in SUBSET Pub /\ S \in SUBSET Pub
    BY DEF Typed, TypeOK, LedgerIsWhole
  <2> QED BY <1>4, <2>1, <2>2
<1> QED BY <1>1, <1>2, <1>3, <1>5, <1>6, <1>7 DEF Environment

\* A key stays on one interface, and only that one shows bytes, all of them carried.
LEMMA EnvironmentKernel ==
  ASSUME ~MultiHomed, Typed, KernelInv, Environment
  PROVE  KernelInv'
<1> USE DEF ghosts
<1>1. ASSUME NEW i \in Iface, NEW p \in Pub, NEW d \in Dir, Traffic(i, p, d)
      PROVE  KernelInv'
  <2>1. /\ on' = on /\ p \in on[i]
        /\ ctr' = [ctr EXCEPT ![i][p][d] = @ + 1] /\ ctr \in [Iface -> [Pub -> Reading]]
        /\ carried' = [carried EXCEPT ![p][d] = @ + 1] /\ carried \in [Pub -> Reading]
    BY <1>1 DEF Traffic, Typed, TypeOK, LedgerIsWhole
  <2>2. ASSUME NEW q \in Pub, NEW j \in Iface
        PROVE  Leq(ctr'[j][q], carried'[q])
    <3>1. Leq(ctr[j][q], carried[q]) /\ ctr[j][q] \in Reading /\ carried[q] \in Reading
      BY <2>1 DEF KernelInv
    <3>2. \A x \in Dir : ctr'[j][q][x] <= ctr[j][q][x] + (IF q = p /\ x = d THEN 1 ELSE 0)
      BY <2>1, <3>1 DEF Reading
    <3>3. \A x \in Dir : carried'[q][x] = carried[q][x] + (IF q = p /\ x = d THEN 1 ELSE 0)
      BY <2>1, <3>1 DEF Reading
    <3>4. \A x \in Dir : ctr'[j][q][x] \in Nat
      BY <2>1, <3>1 DEF Reading
    <3> QED BY <3>1, <3>2, <3>3, <3>4 DEF Leq, Reading
  <2>3. \A q \in Pub, j \in Iface : q \notin on'[j] => ctr'[j][q] = Zero
    BY <2>1 DEF KernelInv
  <2> QED BY <2>1, <2>2, <2>3 DEF KernelInv
<1>2. ASSUME NEW i \in Iface, NEW p \in Pub, Attach(i, p)
      PROVE  KernelInv'
  BY <1>2 DEF Attach, KernelInv, Typed, TypeOK, LedgerIsWhole
<1>3. ASSUME NEW i \in Iface, NEW S \in SUBSET on[i], NEW Gone \in SUBSET Pub,
             Recreate(i, S, Gone), on[i] \ Gone \subseteq S
      PROVE  KernelInv'
  <2>1. /\ on' = [on EXCEPT ![i] = S] /\ on \in [Iface -> SUBSET Pub]
        /\ ctr' = [ctr EXCEPT ![i] = [x \in Pub |-> IF x \in Gone THEN Zero ELSE ctr[i][x]]]
        /\ ctr \in [Iface -> [Pub -> Reading]]
        /\ carried' = carried /\ carried \in [Pub -> Reading]
    BY <1>3 DEF Recreate, Typed, TypeOK, LedgerIsWhole
  <2>2. \A q \in Pub, j \in Iface : ctr'[j][q] \in {ctr[j][q], Zero}
    BY <2>1
  <2>3. \A q \in Pub : Leq(Zero, carried[q])
    BY <2>1 DEF Leq, Zero, Reading
  <2>4. \A q \in Pub, j \in Iface : Leq(ctr'[j][q], carried'[q])
    BY <2>1, <2>2, <2>3 DEF KernelInv
  <2>5. \A q \in Pub, j, k \in Iface : q \in on'[j] /\ q \in on'[k] => j = k
    BY <2>1 DEF KernelInv
  <2>6. \A q \in Pub, j \in Iface : q \notin on'[j] => ctr'[j][q] = Zero
    BY <1>3, <2>1 DEF KernelInv
  <2> QED BY <2>4, <2>5, <2>6 DEF KernelInv
<1>4. ASSUME NEW i \in Iface, NEW p \in Pub, Detach(i, p)
      PROVE  KernelInv'
  <2>1. on[i] \ {p} \in SUBSET on[i] /\ {p} \in SUBSET Pub
    OBVIOUS
  <2> QED BY <1>3, <1>4, <2>1 DEF Detach
<1>5. ASSUME NEW i \in Iface, Restart(i)
      PROVE  KernelInv'
  <2>1. PICK S \in SUBSET on[i] : Recreate(i, S, on[i])
    BY <1>5 DEF Restart
  <2>2. on[i] \in SUBSET Pub
    BY DEF Typed, TypeOK, LedgerIsWhole
  <2> QED BY <1>3, <2>1, <2>2
<1>6. CASE UNCHANGED <<on, ctr, carried>>
  BY <1>6 DEF KernelInv
<1> QED BY <1>1, <1>2, <1>4, <1>5, <1>6 DEF Environment, Handshake, Tick

\* Every ledger a call works on holds entries.
LEMMA EntryTypes ==
  ASSUME Typed, NEW p \in Pub
  PROVE  disk[p] \in Entry /\ \A w \in Writer : mem[w][p] \in Entry
BY DEF Typed, TypeOK, LedgerIsWhole, LedgerType

\* The kernel's steps keep the invariant.
LEMMA EnvironmentStep ==
  ASSUME ~MultiHomed, IInv, Environment
  PROVE  IInv'
<1>1. Typed /\ KernelInv /\ LockInv /\ FileInv /\ CallInv
  BY DEF IInv
<1>2. Typed' /\ KernelInv' /\ UNCHANGED <<files, calls>>
  BY <1>1, EnvironmentTypes, EnvironmentKernel
<1>3. /\ disk' = disk /\ tmp' = tmp /\ holder' = holder
      /\ pc' = pc /\ target' = target /\ todo' = todo /\ mem' = mem
  BY <1>2 DEF files, calls
<1>4. \A e \in Entry, q \in Pub : Safe(e, q) => Safe(e, q)'
  BY <1>1, EnvironmentSafe
<1>5. LockInv'
  BY <1>1, <1>3 DEF LockInv
<1>6. FileInv'
  BY <1>1, <1>3, <1>4, EntryTypes DEF FileInv, Safe, Pending
<1>7. CallInv'
  BY <1>1, <1>3, <1>4, EntryTypes DEF CallInv, CallOK, Safe, Pending
<1> QED BY <1>2, <1>5, <1>6, <1>7 DEF IInv

(***************************************************************************)
(* The writers' steps.                                                     *)
(***************************************************************************)
\* A step that leaves the kernel and what was carried alone leaves the kernel's
\* part of the invariant and every safe entry alone.
LEMMA QuietStep ==
  ASSUME KernelInv, UNCHANGED <<on, ctr, carried>>
  PROVE  KernelInv' /\ \A e, p : Safe(e, p)' <=> Safe(e, p)
BY DEF KernelInv, Safe, Pending

\* Two calls are never inside withLock together.
LEMMA OneInside ==
  ASSUME LockInv, NEW w \in Writer, NEW v \in Writer, pc[w] \in Inside, pc[v] \in Inside
  PROVE  v = w
BY DEF LockInv

\* Asking for the lock.
LEMMA StartStep ==
  ASSUME IInv, NEW w \in Writer, StartCollect(w) \/ \E p \in Pub : StartForget(w, p)
  PROVE  IInv'
<1> USE DEF kernel, files, ghosts
<1>1. Typed /\ KernelInv /\ LockInv /\ FileInv /\ CallInv
  BY DEF IInv
<1>2. /\ UNCHANGED <<on, ctr, hs, now, disk, tmp, holder, seen, at, mem, carried, zeroed>>
      /\ pc[w] = "idle" /\ pc' = [pc EXCEPT ![w] = "waiting"]
      /\ \E t \in Pub \cup {None} : target' = [target EXCEPT ![w] = t]
      /\ todo' \in [Writer -> SUBSET Iface]
      /\ \A v \in Writer : v # w => todo'[v] = todo[v]
      /\ target'[w] # None => todo'[w] = {}
  <2>1. CASE StartCollect(w)
    <3>1. PICK I \in (SUBSET Iface) \ {{}} : todo' = [todo EXCEPT ![w] = I]
      BY <2>1 DEF StartCollect
    <3>2. todo \in [Writer -> SUBSET Iface] /\ target \in [Writer -> Pub \cup {None}]
      BY <1>1 DEF Typed, TypeOK, LedgerIsWhole
    <3> QED BY <2>1, <3>1, <3>2 DEF StartCollect
  <2>2. CASE \E p \in Pub : StartForget(w, p)
    <3>1. pc[w] = "idle" => todo[w] = {}
      BY <1>1 DEF CallInv, CallOK
    <3> QED BY <1>1, <2>2, <3>1 DEF StartForget, Typed, TypeOK, LedgerIsWhole
  <2> QED BY <2>1, <2>2
<1>3. Typed'
  BY <1>1, <1>2 DEF Typed, TypeOK, LedgerIsWhole, PCs
<1>4. KernelInv' /\ \A e, p : Safe(e, p)' <=> Safe(e, p)
  BY <1>1, <1>2, QuietStep
<1>5. LockInv'
  BY <1>1, <1>2 DEF LockInv, Inside, Typed, TypeOK, LedgerIsWhole
<1>6. FileInv'
  BY <1>1, <1>2, <1>4 DEF FileInv, Safe, Pending
<1>7. ASSUME NEW v \in Writer
      PROVE  CallOK(v)'
  <2>1. CASE v = w
    BY <1>1, <1>2, <2>1 DEF CallInv, CallOK, Inside, Typed, TypeOK, LedgerIsWhole
  <2>2. CASE v # w
    <3>1. pc'[v] = pc[v] /\ target'[v] = target[v] /\ todo'[v] = todo[v] /\ mem'[v] = mem[v]
      BY <1>1, <1>2, <2>2 DEF Typed, TypeOK, LedgerIsWhole
    <3> QED BY <1>1, <1>2, <3>1 DEF CallInv, CallOK, Safe, Pending
  <2> QED BY <2>1, <2>2
<1> QED BY <1>3, <1>4, <1>5, <1>6, <1>7 DEF IInv, CallInv

\* An entry has all that it has itself.
LEMMA CoversSelf ==
  ASSUME NEW e \in Entry
  PROVE  Covers(e, e)
BY DEF Covers, Leq, Entry, Reading

\* Loading under the lock: the ledger a call gets is the file's.
LEMMA LoadStep ==
  ASSUME ~FlockFails, IInv, NEW w \in Writer, Load(w)
  PROVE  IInv'
<1> USE DEF kernel, ghosts
<1>1. Typed /\ KernelInv /\ LockInv /\ FileInv /\ CallInv
  BY DEF IInv
<1>2. \A p \in Pub : backfill(disk[p]) = disk[p]
  BY <1>1, BackfillIdle DEF FileInv
<1>3. disk \in LedgerType /\ disk = [p \in Pub |-> disk[p]]
  BY <1>1 DEF Typed, TypeOK, LedgerIsWhole, LedgerType
<1>4. [p \in Pub |-> backfill(disk[p])] = disk
  BY <1>2, <1>3
<1> DEFINE got == IF target[w] = None THEN disk ELSE [disk EXCEPT ![target[w]] = Absent]
<1>5. got \in LedgerType
  BY <1>3, AbsentType DEF LedgerType
<1>6. /\ UNCHANGED <<on, ctr, hs, now, disk, tmp, target, todo, carried, zeroed>>
      /\ pc[w] = "waiting" /\ holder = None /\ holder' = w
      /\ pc' = [pc EXCEPT ![w] = "folding"]
      /\ seen' = [seen EXCEPT ![w] = {}]
      /\ at' = [at EXCEPT ![w] = now]
      /\ mem' = [mem EXCEPT ![w] = got]
  BY <1>4 DEF Load, LockFree, Forgotten
<1>7. Typed'
  BY <1>1, <1>5, <1>6 DEF Typed, TypeOK, LedgerIsWhole, PCs
<1>8. KernelInv' /\ \A e, p : Safe(e, p)' <=> Safe(e, p)
  BY <1>1, <1>6, QuietStep
<1>9. LockInv'
  BY <1>1, <1>6, WriterAssumption DEF LockInv, Inside, Typed, TypeOK, LedgerIsWhole
<1>10. FileInv'
  BY <1>1, <1>6, <1>8 DEF FileInv, Safe, Pending
<1>11. ASSUME NEW v \in Writer
       PROVE  CallOK(v)'
  <2>1. CASE v = w
    <3>1. /\ mem'[w] = got /\ pc'[w] = "folding" /\ target'[w] = target[w] /\ todo'[w] = todo[w]
      BY <1>1, <1>6 DEF Typed, TypeOK, LedgerIsWhole
    <3>2. \A p \in Pub : Upgraded(got[p])
      BY <1>1, <1>3, AbsentType DEF FileInv, LedgerType
    <3>3. target[w] # None => got = [disk EXCEPT ![target[w]] = Absent]
      OBVIOUS
    <3>4. \A p \in Pub \ {target[w]} : got[p] = disk[p]
      BY <1>3 DEF LedgerType
    <3>5. \A p \in Pub \ {target[w]} : Safe(got[p], p) /\ Covers(disk[p], got[p])
      BY <1>1, <3>4, EntryTypes, CoversSelf DEF FileInv
    <3>6. target[w] # None => todo[w] = {}
      BY <1>1 DEF CallInv, CallOK
    <3> HIDE DEF got
    <3>7. \A p \in Pub \ {target'[w]} :
            /\ Leq(mem'[w][p].total, carried'[p])
            /\ \A i \in Iface : p \in on'[i] =>
                 Leq(Plus(mem'[w][p].total, Fresh(Rebaselined(mem'[w][p], i), ctr'[i][p])), carried'[p])
            /\ Covers(disk'[p], mem'[w][p])
      BY <1>6, <3>1, <3>5 DEF Safe, Pending
    <3> QED BY <1>6, <2>1, <3>1, <3>2, <3>3, <3>6, <3>7 DEF CallOK, Safe, Pending, Inside
  <2>2. CASE v # w
    <3>1. pc'[v] = pc[v] /\ target'[v] = target[v] /\ todo'[v] = todo[v] /\ mem'[v] = mem[v]
      BY <1>1, <1>6, <2>2 DEF Typed, TypeOK, LedgerIsWhole
    <3> QED BY <1>1, <1>6, <3>1 DEF CallInv, CallOK, Safe, Pending
  <2> QED BY <2>1, <2>2
<1> QED BY <1>7, <1>8, <1>9, <1>10, <1>11 DEF IInv, CallInv

\* A folded entry is safe: what it gained was pending, and nothing is left
\* pending; and it has all the entry had.
LEMMA FoldSafe ==
  ASSUME Typed, KernelInv, ~MultiHomed, NEW e \in Entry, NEW p \in Pub, NEW i \in Iface,
         p \in on[i], NEW t \in Time, Safe(e, p)
  PROVE  LET f == foldPeer(e, t, i, ctr[i][p], hs[i][p])
         IN  f \in Entry /\ Safe(f, p) /\ Covers(e, f)
<1> DEFINE r == ctr[i][p]
           q == Rebaselined(e, i)
           f == foldPeer(e, t, i, r, hs[i][p])
<1>1. r \in Reading /\ hs[i][p] \in Nat /\ carried[p] \in Reading /\ e.total \in Reading
  BY KernelTypes DEF Entry
<1>2. /\ f \in Entry /\ f.iface = i /\ f.last = r
      /\ f.total = Plus(e.total, Fresh(q, r))
      /\ f.months = addDelta(q, t, r).months
  BY <1>1, FoldPeerType
<1>3. q \in Entry /\ q.months = e.months
  BY RebaselinedType
<1>4. Fresh(q, r) \in Reading
  BY <1>1, <1>3, FreshType
<1>5. Leq(f.total, carried[p])
  BY <1>2 DEF Safe, Pending
<1>6. Fresh(Rebaselined(f, i), r) = Zero
  BY <1>1, <1>2, NothingPendingAfterFold
<1>7. ASSUME NEW j \in Iface, p \in on[j]
      PROVE  Leq(Plus(f.total, Pending(f, j, p)), carried[p])
  <2>1. j = i
    BY <1>7 DEF KernelInv
  <2>2. Pending(f, j, p) = Zero
    BY <1>6, <2>1 DEF Pending
  <2>3. f.total \in Reading
    BY <1>2 DEF Entry
  <2> HIDE DEF f
  <2>4. Plus(f.total, Zero) = f.total
    BY <2>3 DEF Plus, Zero, Reading
  <2> QED BY <1>5, <2>2, <2>4
<1>8. Leq(e.total, f.total)
  <2> HIDE DEF q
  <2> QED BY <1>1, <1>2, <1>4 DEF Leq, Plus, Reading
<1>9. \A m \in Month : Leq(e.months[m], f.months[m])
  <2> DEFINE k == ZoneMonth[HourOf[t]]
             delta == Fresh(q, r)
  <2>1. f.months = e.months \/ f.months = addBucket(e.months, k, delta)
    BY <1>1, <1>2, <1>3, AddDeltaType
  <2>2. e.months \in [Month -> Reading] /\ k \in Month
    BY CalendarFacts DEF Entry
  <2> HIDE DEF f, delta, k
  <2>3. ASSUME NEW m \in Month
        PROVE  f.months[m] \in {e.months[m], Plus(e.months[m], delta)}
    BY <2>1, <2>2 DEF addBucket
  <2>4. ASSUME NEW m \in Month
        PROVE  Leq(e.months[m], e.months[m]) /\ Leq(e.months[m], Plus(e.months[m], delta))
    BY <1>4, <2>2 DEF Leq, Plus, Reading, delta
  <2> QED BY <2>3, <2>4
<1>10. f \in Entry /\ Safe(f, p) /\ Covers(e, f)
  BY <1>2, <1>5, <1>7, <1>8, <1>9 DEF Safe, Covers
<1> QED BY <1>10

\* Having all that something has that has all of e.
LEMMA CoversTrans ==
  ASSUME NEW e \in Entry, NEW f \in Entry, NEW g \in Entry, Covers(e, f), Covers(f, g)
  PROVE  Covers(e, g)
<1>1. Leq(e.total, g.total)
  BY DEF Covers, Leq, Entry, Reading
<1>2. \A m \in Month : Leq(e.months[m], g.months[m])
  <2>1. /\ e.months \in [Month -> Reading] /\ f.months \in [Month -> Reading]
        /\ g.months \in [Month -> Reading]
    BY DEF Entry
  <2> QED BY <2>1 DEF Covers, Leq, Reading
<1> QED BY <1>1, <1>2 DEF Covers

\* A step of w that changes at most w's own ledger and list, the latter downwards,
\* and where w stands inside withLock.
LEMMA InsideStep ==
  ASSUME IInv, NEW w \in Writer, pc[w] \in Inside, Typed',
         UNCHANGED <<on, ctr, carried, disk, holder, target>>,
         NEW next \in Inside, pc' = [pc EXCEPT ![w] = next],
         \A v \in Writer \ {w} : todo'[v] = todo[v] /\ mem'[v] = mem[v],
         CallOK(w)'
  PROVE  IInv'
<1>1. Typed /\ KernelInv /\ LockInv /\ FileInv /\ CallInv
  BY DEF IInv
<1>2. KernelInv'
  BY <1>1, QuietStep
<1>3. LockInv'
  BY <1>1 DEF LockInv, Typed, TypeOK, LedgerIsWhole
<1>4. FileInv'
  BY <1>1 DEF FileInv, Safe, Pending
<1>5. ASSUME NEW v \in Writer, v # w
      PROVE  CallOK(v)'
  <2>1. pc'[v] = pc[v] /\ target'[v] = target[v] /\ todo'[v] = todo[v] /\ mem'[v] = mem[v]
    BY <1>1, <1>5 DEF Typed, TypeOK, LedgerIsWhole
  <2>2. pc[v] \notin Inside
    BY <1>1, <1>5, OneInside
  <2> QED BY <1>1, <2>1, <2>2 DEF CallInv, CallOK, Inside
<1> QED BY <1>2, <1>3, <1>4, <1>5 DEF IInv, CallInv

\* Folding the dump of an interface, or passing over it.
LEMMA DumpStep ==
  ASSUME ~MultiHomed, IInv, NEW w \in Writer, NEW i \in Iface, FoldIface(w, i) \/ SkipIface(w, i)
  PROVE  IInv'
<1> USE DEF kernel, files, ghosts
<1>1. Typed /\ KernelInv /\ LockInv /\ FileInv /\ CallInv
  BY DEF IInv
<1>2. /\ UNCHANGED <<on, ctr, hs, now, disk, tmp, holder, pc, target, at, carried, zeroed>>
      /\ pc[w] = "folding" /\ i \in todo[w]
      /\ todo' = [todo EXCEPT ![w] = @ \ {i}]
  BY DEF FoldIface, SkipIface, Dump
<1>3. target[w] = None
  BY <1>1, <1>2 DEF CallInv, CallOK
<1>4. /\ \A p \in Pub : Upgraded(mem[w][p]) /\ Safe(mem[w][p], p) /\ Covers(disk[p], mem[w][p])
      /\ mem[w] \in LedgerType /\ at[w] \in Time
  BY <1>1, <1>2, <1>3, WriterAssumption DEF CallInv, CallOK, Inside, Typed, TypeOK, LedgerIsWhole
<1>5. ASSUME NEW p \in Pub
      PROVE  /\ Folded(w, i)[p] \in Entry /\ Upgraded(Folded(w, i)[p])
             /\ Safe(Folded(w, i)[p], p) /\ Covers(disk[p], Folded(w, i)[p])
  <2> DEFINE e == mem[w][p]
             f == foldPeer(e, at[w], i, ctr[i][p], hs[i][p])
  <2>1. e \in Entry /\ disk[p] \in Entry
    BY <1>1, EntryTypes
  <2>2. CASE p \in on[i] \ seen[w]
    <3>1. f \in Entry /\ Safe(f, p) /\ Covers(e, f)
      BY <1>1, <1>4, <2>1, <2>2, FoldSafe
    <3>2. Upgraded(f)
      BY <1>1, <1>4, <2>1, KernelTypes, FoldPeerUpgraded
    <3>3. Covers(disk[p], f)
      BY <1>4, <2>1, <3>1, CoversTrans
    <3>4. Folded(w, i)[p] = f
      BY <2>2 DEF Folded
    <3> HIDE DEF f
    <3> QED BY <3>1, <3>2, <3>3, <3>4 DEF Safe, Pending
  <2>3. CASE p \notin on[i] \ seen[w]
    <3>1. Folded(w, i)[p] = e
      BY <2>3 DEF Folded
    <3> QED BY <1>4, <2>1, <3>1 DEF Safe, Pending
  <2> QED BY <2>2, <2>3
<1>6. Folded(w, i) \in LedgerType
  <2>1. \A p \in Pub : Folded(w, i)[p] \in Entry
    BY <1>5
  <2> QED BY <2>1 DEF Folded, LedgerType
<1>7. mem' = [mem EXCEPT ![w] = mem'[w]] /\ mem'[w] \in {mem[w], Folded(w, i)}
  BY <1>1 DEF FoldIface, SkipIface, Typed, TypeOK, LedgerIsWhole
<1>8. seen' \in [Writer -> SUBSET Pub]
  <2>1. seen \in [Writer -> SUBSET Pub]
    BY <1>1 DEF Typed, TypeOK
  <2>2. on[i] \subseteq Pub
    BY <1>1 DEF Typed, TypeOK
  <2>3. seen' = seen \/ seen' = [seen EXCEPT ![w] = @ \cup on[i]]
    BY DEF FoldIface, SkipIface
  <2> QED BY <2>1, <2>2, <2>3
<1>9. Typed'
  <2>1. mem' \in [Writer -> LedgerType]
    BY <1>1, <1>4, <1>6, <1>7 DEF Typed, TypeOK, LedgerIsWhole
  <2> QED BY <1>1, <1>2, <1>8, <2>1 DEF Typed, TypeOK, LedgerIsWhole
<1>10. \A p \in Pub : Upgraded(mem'[w][p])
  BY <1>4, <1>5, <1>7
<1>11. \A p \in Pub : /\ Leq(mem'[w][p].total, carried[p])
                      /\ \A j \in Iface : p \in on[j] =>
                           Leq(Plus(mem'[w][p].total, Fresh(Rebaselined(mem'[w][p], j), ctr[j][p])), carried[p])
                      /\ Covers(disk[p], mem'[w][p])
  BY <1>4, <1>5, <1>7 DEF Safe, Pending
<1>12. CallOK(w)'
  BY <1>2, <1>3, <1>10, <1>11 DEF CallOK, Safe, Pending
<1>13. pc' = [pc EXCEPT ![w] = "folding"] /\ "folding" \in Inside
  BY <1>1, <1>2 DEF Typed, TypeOK, LedgerIsWhole, Inside
<1>14. \A v \in Writer \ {w} : todo'[v] = todo[v] /\ mem'[v] = mem[v]
  BY <1>1, <1>2, <1>7 DEF Typed, TypeOK, LedgerIsWhole
<1> QED BY <1>2, <1>9, <1>12, <1>13, <1>14, InsideStep

\* Pruning takes nothing from totals and months.
LEMMA PruneSafe ==
  ASSUME Typed, NEW e \in Entry, NEW p \in Pub, NEW t \in Time
  PROVE  /\ Safe(e, p) => Safe(prune(e, t), p)
         /\ Covers(e, prune(e, t))
<1> DEFINE u == prune(e, t)
<1>1. u = [e EXCEPT !.hours = u.hours] /\ u \in Entry
  BY PruneType
<1> HIDE DEF u
<1>2. /\ u.total = e.total /\ u.months = e.months /\ u.last = e.last
      /\ u.known = e.known /\ u.iface = e.iface
  BY <1>1 DEF Entry
<1>3. \A i : Rebaselined(u, i).last = Rebaselined(e, i).last
  BY <1>1, <1>2 DEF Rebaselined, Moved, Entry
<1>4. \A i, r : Fresh(Rebaselined(u, i), r) = Fresh(Rebaselined(e, i), r)
  BY <1>3 DEF Fresh
<1>5. Safe(e, p) => Safe(u, p)
  BY <1>2, <1>4 DEF Safe, Pending
<1>6. Covers(e, e)
  BY CoversSelf
<1>7. Covers(e, u)
  BY <1>2, <1>6 DEF Covers
<1> QED BY <1>5, <1>7 DEF u

\* Pruning, and creating the temporary file.
LEMMA OpenTmpStep ==
  ASSUME IInv, NEW w \in Writer, OpenTmp(w)
  PROVE  IInv'
<1> USE DEF kernel, ghosts
<1>1. Typed /\ KernelInv /\ LockInv /\ FileInv /\ CallInv
  BY DEF IInv
<1> DEFINE got == IF target[w] # None THEN mem[w] ELSE [p \in Pub |-> prune(mem[w][p], at[w])]
<1>2. /\ UNCHANGED <<on, ctr, hs, now, disk, holder, target, todo, seen, at, carried, zeroed>>
      /\ pc[w] = "folding" /\ pc' = [pc EXCEPT ![w] = "writing"] /\ tmp' = Torn
      /\ mem' = [mem EXCEPT ![w] = got]
  BY DEF OpenTmp
<1>3. mem[w] \in LedgerType /\ at[w] \in Time /\ pc[w] \in Inside
  BY <1>1, <1>2 DEF Typed, TypeOK, LedgerIsWhole, Inside
<1>4. \A p \in Pub : mem[w][p] \in Entry /\ disk[p] \in Entry
  BY <1>1, EntryTypes
<1>5. got \in LedgerType
  BY <1>3, <1>4, PruneType DEF LedgerType
<1>6. \A p \in Pub : Upgraded(got[p])
  BY <1>1, <1>3, <1>4, PruneType DEF CallInv, CallOK
<1>7. target[w] # None => got = [disk EXCEPT ![target[w]] = Absent] /\ todo[w] = {}
  BY <1>1, <1>3 DEF CallInv, CallOK
<1>8. ASSUME NEW p \in Pub \ {target[w]}
      PROVE  Safe(got[p], p) /\ Covers(disk[p], got[p])
  <2>1. Safe(mem[w][p], p) /\ Covers(disk[p], mem[w][p])
    BY <1>1, <1>3 DEF CallInv, CallOK
  <2>2. CASE target[w] # None
    BY <2>1, <2>2
  <2>3. CASE target[w] = None
    <3>1. got[p] = prune(mem[w][p], at[w])
      BY <2>3
    <3>2. Safe(got[p], p) /\ Covers(mem[w][p], got[p])
      BY <1>1, <1>3, <1>4, <2>1, <3>1, PruneSafe
    <3>3. got[p] \in Entry
      BY <1>3, <1>4, <3>1, PruneType
    <3> QED BY <1>4, <2>1, <3>2, <3>3, CoversTrans
  <2> QED BY <2>2, <2>3
<1> HIDE DEF got
<1>9. mem'[w] = got /\ mem' \in [Writer -> LedgerType]
  BY <1>1, <1>2, <1>5 DEF Typed, TypeOK, LedgerIsWhole
<1>10. Typed'
  BY <1>1, <1>2, <1>9 DEF Typed, TypeOK, LedgerIsWhole, PCs
<1>11. \A p \in Pub \ {target[w]} :
         /\ Leq(mem'[w][p].total, carried[p])
         /\ \A j \in Iface : p \in on[j] =>
              Leq(Plus(mem'[w][p].total, Fresh(Rebaselined(mem'[w][p], j), ctr[j][p])), carried[p])
         /\ Covers(disk[p], mem'[w][p])
  BY <1>8, <1>9 DEF Safe, Pending
<1>12. pc'[w] = "writing"
  BY <1>1, <1>2 DEF Typed, TypeOK, LedgerIsWhole
<1>13. CallOK(w)'
  BY <1>2, <1>6, <1>7, <1>9, <1>11, <1>12 DEF CallOK, Safe, Pending
<1>14. \A v \in Writer \ {w} : todo'[v] = todo[v] /\ mem'[v] = mem[v]
  BY <1>1, <1>2 DEF Typed, TypeOK, LedgerIsWhole
<1>15. "writing" \in Inside
  BY DEF Inside
<1> QED BY <1>2, <1>3, <1>10, <1>13, <1>14, <1>15, InsideStep

\* Writing the temporary file.
LEMMA WriteTmpStep ==
  ASSUME IInv, NEW w \in Writer, WriteTmp(w)
  PROVE  IInv'
<1> USE DEF kernel, ghosts
<1>1. Typed /\ KernelInv /\ LockInv /\ FileInv /\ CallInv
  BY DEF IInv
<1>2. /\ UNCHANGED <<on, ctr, hs, now, disk, holder, target, todo, seen, at, mem, carried, zeroed>>
      /\ pc[w] = "writing" /\ pc' = [pc EXCEPT ![w] = "renaming"] /\ tmp' = mem[w]
  BY DEF WriteTmp
<1>3. pc[w] \in Inside /\ "renaming" \in Inside
  BY <1>2 DEF Inside
<1>4. Typed'
  BY <1>1, <1>2 DEF Typed, TypeOK, LedgerIsWhole, PCs
<1>5. CallOK(w)'
  BY <1>1, <1>2, <1>3 DEF CallInv, CallOK, Safe, Pending
<1> QED BY <1>2, <1>3, <1>4, <1>5, InsideStep

\* A call that ends without touching the ledger file.
LEMMA LeaveStep ==
  ASSUME IInv, NEW w \in Writer, Leave(w), pc[w] # "idle",
         UNCHANGED <<on, ctr, hs, now, disk, carried, zeroed>>,
         \/ tmp' = tmp
         \/ pc[w] \in Inside /\ tmp' = NoFile
  PROVE  IInv'
<1>1. Typed /\ KernelInv /\ LockInv /\ FileInv /\ CallInv
  BY DEF IInv
<1>2. Typed'
  BY <1>1, AbsentType, CalendarAssumption DEF Typed, TypeOK, LedgerIsWhole, Leave, PCs, Time
<1>3. KernelInv'
  BY <1>1, QuietStep
<1>4. LockInv'
  BY <1>1, WriterAssumption DEF LockInv, Leave, Inside, Typed, TypeOK, LedgerIsWhole
<1>5. FileInv'
  BY <1>1 DEF FileInv, Safe, Pending
<1>6. ASSUME NEW v \in Writer
      PROVE  CallOK(v)'
  <2>1. CASE v = w
    BY <1>1, <2>1 DEF Leave, CallOK, Inside, Typed, TypeOK, LedgerIsWhole
  <2>2. CASE v # w
    <3>1. pc'[v] = pc[v] /\ target'[v] = target[v] /\ todo'[v] = todo[v] /\ mem'[v] = mem[v]
      BY <1>1, <2>2 DEF Leave, Typed, TypeOK, LedgerIsWhole
    <3>2. pc[v] \in Inside => tmp' = tmp
      BY <1>1, <2>2, OneInside
    <3> QED BY <1>1, <3>1, <3>2 DEF CallInv, CallOK, Safe, Pending, Inside
  <2> QED BY <2>1, <2>2
<1> QED BY <1>2, <1>3, <1>4, <1>5, <1>6 DEF IInv, CallInv

\* The new file takes the old one's place.
LEMMA RenameStep ==
  ASSUME ~MultiHomed, IInv, NEW w \in Writer, Rename(w)
  PROVE  IInv'
<1> USE DEF kernel, ghosts
<1>1. Typed /\ KernelInv /\ LockInv /\ FileInv /\ CallInv
  BY DEF IInv
<1>2. /\ UNCHANGED <<on, ctr, hs, now>>
      /\ pc[w] = "renaming" /\ tmp' = NoFile /\ Leave(w)
      /\ target[w] = None => UNCHANGED <<carried, zeroed>>
      /\ target[w] # None =>
           /\ carried' = [carried EXCEPT ![target[w]] = Showing(target[w])]
           /\ zeroed' = [zeroed EXCEPT ![target[w]] = "never"]
  BY DEF Rename
<1>3. disk' = mem[w] /\ pc[w] \in Inside
  BY <1>1, <1>2 DEF Rename, CallInv, CallOK, Inside
<1>4. ASSUME NEW p \in Pub
      PROVE  /\ Showing(p) \in Reading
             /\ \A i \in Iface : Leq(ctr[i][p], Showing(p))
  <2> DEFINE homes == {i \in Iface : p \in on[i]}
  <2>1. \A i \in Iface : ctr[i][p] \in Reading
    BY <1>1, KernelTypes
  <2>2. CASE homes = {}
    <3>1. Showing(p) = Zero
      BY <2>2 DEF Showing
    <3>2. \A i \in Iface : ctr[i][p] = Zero
      BY <1>1, <2>2 DEF KernelInv
    <3> QED BY <3>1, <3>2, ReadingFacts DEF Leq, Zero
  <2>3. CASE homes # {}
    <3> DEFINE h == CHOOSE i \in homes : TRUE
    <3>1. h \in homes
      BY <2>3
    <3> HIDE DEF h
    <3>2. Showing(p) = ctr[h][p]
      BY <2>3 DEF Showing, h
    <3>3. \A i \in Iface : i = h \/ ctr[i][p] = Zero
      BY <1>1, <3>1 DEF KernelInv
    <3>4. Leq(ctr[h][p], ctr[h][p]) /\ Leq(Zero, ctr[h][p])
      BY <2>1, <3>1 DEF Leq, Zero, Reading
    <3> QED BY <2>1, <3>1, <3>2, <3>3, <3>4
  <2> QED BY <2>2, <2>3
<1>5. /\ carried' \in [Pub -> Reading]
      /\ zeroed' \in [Pub -> {"never", "read", "unread"}]
  <2>1. carried \in [Pub -> Reading] /\ zeroed \in [Pub -> {"never", "read", "unread"}]
    BY <1>1 DEF Typed, TypeOK, LedgerIsWhole
  <2>2. CASE target[w] = None
    BY <1>2, <2>1, <2>2
  <2>3. CASE target[w] # None
    <3>1. target[w] \in Pub
      BY <1>1, <2>3 DEF Typed, TypeOK, LedgerIsWhole
    <3>2. Showing(target[w]) \in Reading
      BY <1>4, <3>1
    <3> QED BY <1>2, <2>1, <2>3, <3>2
  <2> QED BY <2>2, <2>3
<1>6. Typed'
  BY <1>1, <1>2, <1>3, <1>5, AbsentType, CalendarAssumption DEF Typed, TypeOK, LedgerIsWhole, Leave, PCs, Time
<1>7. \A p \in Pub : carried'[p] = IF p = target[w] THEN Showing(p) ELSE carried[p]
  BY <1>1, <1>2, WriterAssumption DEF Typed, TypeOK, LedgerIsWhole
<1>8. KernelInv'
  BY <1>1, <1>2, <1>4, <1>7 DEF KernelInv
<1>9. LockInv'
  BY <1>1, <1>2, <1>3, WriterAssumption DEF LockInv, Leave, Inside, Typed, TypeOK, LedgerIsWhole
<1>10. FileInv'
  <2>1. \A p \in Pub : Upgraded(disk'[p])
    BY <1>1, <1>3 DEF CallInv, CallOK
  <2>2. ASSUME NEW p \in Pub
        PROVE  Safe(disk[p], p)'
    <3>1. CASE p = target[w]
      <4>1. disk'[p] = Absent
        <5>1. disk' = [disk EXCEPT ![target[w]] = Absent]
          BY <1>1, <1>3, <3>1, WriterAssumption DEF CallInv, CallOK
        <5> QED BY <1>1, <3>1, <5>1 DEF Typed, TypeOK, LedgerIsWhole, LedgerType
      <4>2. Safe(Absent, p)'
        BY <1>6, <1>8, AbsentSafe, PTL
      <4> QED BY <4>1, <4>2 DEF Safe, Pending
    <3>2. CASE p # target[w]
      <4>1. Safe(mem[w][p], p)
        BY <1>1, <1>3, <3>2 DEF CallInv, CallOK
      <4> QED BY <1>2, <1>3, <1>7, <3>2, <4>1 DEF Safe, Pending
    <3> QED BY <3>1, <3>2
  <2> QED BY <2>1, <2>2 DEF FileInv
<1>11. ASSUME NEW v \in Writer
       PROVE  CallOK(v)'
  <2>1. CASE v = w
    BY <1>1, <1>2, <2>1 DEF Leave, CallOK, Inside, Typed, TypeOK, LedgerIsWhole
  <2>2. CASE v # w
    <3>1. pc'[v] = pc[v] /\ target'[v] = target[v] /\ todo'[v] = todo[v] /\ mem'[v] = mem[v]
      BY <1>1, <1>2, <2>2 DEF Leave, Typed, TypeOK, LedgerIsWhole
    <3>2. pc[v] \notin Inside
      BY <1>1, <1>3, <2>2, OneInside
    <3> QED BY <1>1, <3>1, <3>2 DEF CallInv, CallOK, Inside
  <2> QED BY <2>1, <2>2
<1> QED BY <1>6, <1>8, <1>9, <1>10, <1>11 DEF IInv, CallInv

(***************************************************************************)
(* The theorems.                                                           *)
(***************************************************************************)
\* A new installation satisfies the invariant.
LEMMA Initially ==
  ASSUME Init
  PROVE  IInv
<1>1. newLedger \in LedgerType /\ \A p \in Pub : newLedger[p] = Absent
  BY AbsentType DEF newLedger
<1> DEFINE l == newLedger
<1>2. /\ on = [i \in Iface |-> {}] /\ ctr = [i \in Iface |-> [p \in Pub |-> Zero]]
      /\ hs = [i \in Iface |-> [p \in Pub |-> 0]] /\ now = 1
      /\ disk = l /\ tmp = NoFile /\ holder = None
      /\ pc = [w \in Writer |-> "idle"] /\ target = [w \in Writer |-> None]
      /\ todo = [w \in Writer |-> {}] /\ seen = [w \in Writer |-> {}]
      /\ at = [w \in Writer |-> 1] /\ mem = [w \in Writer |-> l]
      /\ carried = [p \in Pub |-> l[p].total]
      /\ zeroed = [p \in Pub |-> IF l[p].known THEN "read" ELSE "never"]
  BY DEF Init, Boot
<1> HIDE DEF l
<1>3. l \in LedgerType /\ \A p \in Pub : l[p] = Absent
  BY <1>1 DEF l
<1>4. \A p \in Pub : l[p].total = Zero /\ ~l[p].known
  BY <1>3 DEF Absent
<1>5. Typed
  BY <1>2, <1>3, <1>4, ReadingFacts, CalendarAssumption DEF Typed, TypeOK, LedgerIsWhole, Time, PCs
<1>6. KernelInv
  BY <1>2, <1>4 DEF KernelInv, Leq, Zero
<1>7. LockInv
  BY <1>2, WriterAssumption DEF LockInv, Inside
<1>8. FileInv
  BY <1>2, <1>3, <1>5, <1>6, AbsentSafe, AbsentType DEF FileInv, Safe, Pending
<1>9. CallInv
  BY <1>2 DEF CallInv, CallOK, Inside
<1> QED BY <1>5, <1>6, <1>7, <1>8, <1>9 DEF IInv

\* Every step keeps the invariant: the environment's, and each of a writer's.
LEMMA Inductive ==
  ASSUME ~MultiHomed, ~FlockFails, IInv, [Next]_vars
  PROVE  IInv'
<1>1. CASE Environment
  BY <1>1, EnvironmentStep
<1>2. ASSUME NEW w \in Writer, Step(w)
      PROVE  IInv'
  <2>1. CASE StartCollect(w) \/ \E p \in Pub : StartForget(w, p)
    BY <2>1, StartStep
  <2>2. CASE Load(w)
    BY <2>2, LoadStep
  <2>3. CASE \E i \in Iface : FoldIface(w, i) \/ SkipIface(w, i)
    BY <2>3, DumpStep
  <2>4. CASE OpenTmp(w)
    BY <2>4, OpenTmpStep
  <2>5. CASE WriteTmp(w)
    BY <2>5, WriteTmpStep
  <2>6. CASE Rename(w)
    BY <2>6, RenameStep
  <2>7. CASE Fail(w)
    BY <2>7, LeaveStep DEF Fail, Inside, kernel, ghosts
  <2>8. CASE Crash(w)
    BY <2>8, LeaveStep DEF Crash, kernel, ghosts
  <2> QED BY <1>2, <2>1, <2>2, <2>3, <2>4, <2>5, <2>6, <2>7, <2>8 DEF Step
<1>3. CASE UNCHANGED vars
  BY <1>3 DEF vars, kernel, files, calls, ghosts, IInv, Typed, TypeOK, LedgerIsWhole, KernelInv, LockInv, FileInv,
              CallInv, CallOK, Safe, Pending
<1> QED BY <1>1, <1>2, <1>3 DEF Next

\* With one interface per key and a flock that works, the invariant always holds.
THEOREM InvariantHolds ==
  ASSUME ~MultiHomed, ~FlockFails
  PROVE  Spec => []IInv
<1>1. Init => IInv
  BY Initially
<1>2. IInv /\ [Next]_vars => IInv'
  BY Inductive
<1> QED BY <1>1, <1>2, PTL DEF Spec

\* The variables keep their types (TypeOK).
THEOREM TypeCorrect ==
  ASSUME ~MultiHomed, ~FlockFails
  PROVE  Spec => []TypeOK
<1>1. IInv => TypeOK
  BY DEF IInv, Typed
<1> QED BY <1>1, InvariantHolds, PTL

\* What is at the ledger's path is always a whole ledger, even though its writers
\* crash and fail between any two steps of writeAtomic (LedgerIsWhole).
THEOREM FileWhole ==
  ASSUME ~MultiHomed, ~FlockFails
  PROVE  Spec => []LedgerIsWhole
<1>1. IInv => LedgerIsWhole
  BY DEF IInv, Typed
<1> QED BY <1>1, InvariantHolds, PTL

\* No byte is ever counted twice (NeverCountedTwice).
THEOREM CountedOnce ==
  ASSUME ~MultiHomed, ~FlockFails
  PROVE  Spec => []NeverCountedTwice
<1>1. IInv => NeverCountedTwice
  BY DEF IInv, FileInv, Safe, NeverCountedTwice
<1> QED BY <1>1, InvariantHolds, PTL

\* Only the end of an erasure takes bytes from the saved ledger (SavedOnlyGrows).
THEOREM NoUpdateLost ==
  ASSUME ~MultiHomed, ~FlockFails
  PROVE  Spec => SavedOnlyGrows
<1>1. IInv /\ [Next]_vars => [OnlyGrows]_vars
  <2>1. SUFFICES ASSUME IInv, Next
                 PROVE  OnlyGrows
    OBVIOUS
  <2>2. CASE \E w \in Writer : Rename(w)
    <3>1. PICK w \in Writer : Rename(w)
      BY <2>2
    <3>2. disk' = mem[w] /\ disk' = tmp /\ pc[w] = "renaming"
      BY <2>1, <3>1 DEF Rename, IInv, CallInv, CallOK
    <3>3. \A p \in Pub \ {target[w]} : Covers(disk[p], disk'[p])
      BY <2>1, <3>2 DEF IInv, CallInv, CallOK, Inside
    <3> QED BY <3>2, <3>3 DEF Covers, Erases, OnlyGrows
  <2>3. CASE disk' = disk
    <3>1. \A p \in Pub : Covers(disk[p], disk'[p])
      BY <2>1, <2>3, EntryTypes, CoversSelf DEF IInv
    <3> QED BY <3>1 DEF Covers, OnlyGrows
  <2>4. (\E w \in Writer : Rename(w)) \/ disk' = disk
    BY <2>1, EnvironmentTypes
       DEF IInv, Next, Step, StartCollect, StartForget, Load, FoldIface, SkipIface, Dump,
           OpenTmp, WriteTmp, Fail, Crash, files
  <2> QED BY <2>2, <2>3, <2>4
<1> QED BY <1>1, InvariantHolds, PTL DEF Spec, SavedOnlyGrows

\* The saved totals implement AccountBook (KeepsTheBook): traffic carries, the end
\* of a snapshot records, the end of an erasure erases, and every other step of
\* kernel and writers, crashes included, leaves the book alone.
THEOREM Refinement ==
  ASSUME ~MultiHomed, ~FlockFails
  PROVE  Spec => KeepsTheBook
<1>1. Init => Book!Init
  <2>1. newLedger \in LedgerType /\ \A p \in Pub : newLedger[p].total = Zero
    BY AbsentType DEF newLedger, Absent
  <2> QED BY <2>1 DEF Init, Boot, Book!Init, Book!Zero, Zero
<1>2. IInv /\ IInv' /\ [Next]_vars => [Book!Next]_(Book!vars)
  <2> SUFFICES ASSUME IInv, IInv', [Next]_vars, ~UNCHANGED Book!vars
               PROVE  Book!Next
    OBVIOUS
  <2> DEFINE book == [p \in Pub |-> disk[p].total]
  <2>1. /\ \A p \in Pub : disk[p] \in Entry /\ disk'[p] \in Entry
        /\ carried \in [Pub -> Reading] /\ carried' \in [Pub -> Reading]
    BY DEF IInv, Typed, TypeOK, LedgerIsWhole, LedgerType
  <2>2. book \in [Pub -> Reading] /\ book' \in [Pub -> Reading]
    BY <2>1 DEF Entry
  <2>3. \A p \in Pub : Leq(disk'[p].total, carried'[p])
    BY DEF IInv, FileInv, Safe
  <2> USE DEF Leq, Book!Leq, Zero, Book!Zero, Reading, Book!Reading
  <2>4. CASE \E i \in Iface, p \in Pub, d \in Dir : Traffic(i, p, d)
    <3>1. PICK p \in Pub, d \in Dir : carried' = [carried EXCEPT ![p][d] = @ + 1] /\ disk' = disk
      BY <2>4 DEF Traffic, files
    <3>2. \A q \in Pub, x \in Dir : carried[q][x] <= carried'[q][x]
      BY <2>1, <3>1
    <3> QED BY <2>1, <3>1, <3>2 DEF Book!Next, Book!Carry
  <2>5. CASE \E w \in Writer : Rename(w)
    <3>1. PICK w \in Writer : Rename(w)
      BY <2>5
    <3>2. disk' = mem[w] /\ pc[w] \in Inside
      BY <3>1 DEF Rename, IInv, CallInv, CallOK, Inside
    <3>3. CASE target[w] = None
      <4>1. carried' = carried
        BY <3>1, <3>3 DEF Rename, ghosts
      <4>2. \A p \in Pub : Covers(disk[p], disk'[p])
        BY <3>2, <3>3, WriterAssumption DEF IInv, CallInv, CallOK
      <4> QED BY <2>2, <2>3, <4>1, <4>2 DEF Covers, Book!Next, Book!Record
    <3>4. CASE target[w] # None
      <4>1. PICK p \in Pub : p = target[w]
        BY <3>4 DEF IInv, Typed, TypeOK, LedgerIsWhole
      <4>2. disk' = [disk EXCEPT ![p] = Absent] /\ disk \in LedgerType
        BY <3>2, <3>4, <4>1 DEF IInv, CallInv, CallOK, Typed, TypeOK, LedgerIsWhole
      <4>3. carried' = [carried EXCEPT ![p] = Showing(p)]
        BY <3>1, <3>4, <4>1 DEF Rename
      <4>4. book' = [book EXCEPT ![p] = Zero]
        <5>1. Absent.total = Zero
          BY DEF Absent
        <5> QED BY <4>1, <4>2, <5>1 DEF LedgerType
      <4>5. Leq(Showing(p), carried[p])
        <5> DEFINE homes == {i \in Iface : p \in on[i]}
        <5>1. CASE homes = {}
          BY <2>1, <4>1, <5>1 DEF Showing
        <5>2. CASE homes # {}
          <6>1. (CHOOSE i \in homes : TRUE) \in Iface
            BY <5>2
          <6>2. Showing(p) = ctr[CHOOSE i \in homes : TRUE][p]
            BY <5>2 DEF Showing
          <6> HIDE DEF homes
          <6> QED BY <4>1, <6>1, <6>2 DEF IInv, KernelInv
        <5> QED BY <5>1, <5>2
      <4>6. carried'[p] = Showing(p) /\ \A q \in Pub \ {p} : carried'[q] = carried[q]
        BY <2>1, <4>1, <4>3
      <4>7. Book!Leq(carried'[p], carried[p])
        BY <4>5, <4>6
      <4>8. Book!Erase(p)
        BY <2>1, <4>4, <4>6, <4>7 DEF Book!Erase
      <4> QED BY <4>1, <4>8 DEF Book!Next
    <3> QED BY <3>3, <3>4
  <2>6. \/ \E i \in Iface, p \in Pub, d \in Dir : Traffic(i, p, d)
        \/ \E w \in Writer : Rename(w)
        \/ disk' = disk /\ carried' = carried
    <3>1. ASSUME Environment, ~\E i \in Iface, p \in Pub, d \in Dir : Traffic(i, p, d)
          PROVE  disk' = disk /\ carried' = carried
      BY <3>1 DEF Environment, Handshake, Attach, Detach, Restart, Recreate, Tick, files, ghosts
    <3>2. ASSUME NEW w \in Writer, Step(w), ~Rename(w)
          PROVE  disk' = disk /\ carried' = carried
      BY <3>2 DEF Step, StartCollect, StartForget, Load, FoldIface, SkipIface, Dump, OpenTmp,
                  WriteTmp, Fail, Crash, files, ghosts
    <3>3. UNCHANGED vars => disk' = disk /\ carried' = carried
      BY DEF vars, files, ghosts
    <3>4. Environment \/ (\E w \in Writer : Step(w)) \/ UNCHANGED vars
      BY DEF Next
    <3> QED BY <3>1, <3>2, <3>3, <3>4, Zenon
  <2> QED BY <2>4, <2>5, <2>6 DEF Book!vars
<1> QED BY <1>1, <1>2, InvariantHolds, PTL DEF Spec, KeepsTheBook, Book!Spec

(***************************************************************************)
(* What a snapshot does to the maps of the ledger.                         *)
(***************************************************************************)
\* No handshake is later than the clock.
HandshakesPast == \A i \in Iface, p \in Pub : hs[i][p] <= now

\* The five maps agree on a key (MapsAgree is this of the saved ledger).
Agrees(e) ==
  /\ e.known <=> e.last # None
  /\ e.known <=> e.base # None
  /\ ~e.known => e = Absent
  /\ e.prevOn => e.at # None
  /\ e.at # None => e.at \in 1 .. now

\* Entry e and its home's next snapshot have exactly what was carried for p, and
\* the counters have not fallen below the last reading.
Exact(e, p) ==
  /\ \A i \in Iface : p \in on[i] => carried[p] = Plus(e.total, Pending(e, i, p))
  /\ (\A i \in Iface : p \notin on[i]) => carried[p] = e.total
  /\ \A i \in Iface : e.last # None /\ ~Moved(e, i) => Leq(e.last, ctr[i][p])

\* Until a counter of p has been zeroed, e is exact.
Accounts(e, p) == zeroed[p] = "never" => Exact(e, p)

\* The ledger a call works on: its maps agree, it is one snapshot after the file,
\* which a key has seen once at most, and it accounts for what the file does.
SnapshotOK(w) ==
  pc[w] \in Inside =>
    \A p \in Pub :
      /\ Agrees(mem[w][p])
      /\ p # target[w] => Accounts(mem[w][p], p)
      /\ target[w] = None => Follows(disk[p], mem[w][p])
      /\ target[w] = None /\ pc[w] = "folding" /\ p \notin seen[w] => mem[w][p] = disk[p]

\* The inductive invariant, on top of the one of Collector.
SnapshotInv ==
  /\ HandshakesPast
  /\ \A p \in Pub : Agrees(disk[p]) /\ Accounts(disk[p], p)
  /\ \A w \in Writer : SnapshotOK(w)

(***************************************************************************)
(* The maps and the session of one key.                                    *)
(***************************************************************************)
\* A key that is in no map agrees with itself.
LEMMA AbsentAgrees == Agrees(Absent)
  BY DEF Agrees, Absent

\* prune keeps what the maps agree on, and a session.
LEMMA PruneAgrees ==
  ASSUME NEW e \in Entry, NEW t \in Time
  PROVE  /\ Agrees(e) => Agrees(prune(e, t))
         /\ \A d \in Entry : Follows(d, e) => Follows(d, prune(e, t))
<1> DEFINE u == prune(e, t)
<1>1. u \in Entry /\ u = [e EXCEPT !.hours = u.hours]
  BY PruneType
<1>2. e = Absent => u = Absent
  <2> SUFFICES ASSUME e = Absent PROVE u = Absent
    OBVIOUS
  <2>1. e.hours = NoHours
    BY DEF Absent
  <2>2. u.hours = NoHours
    BY <2>1 DEF prune, NoHours, Entry
  <2>3. u = [Absent EXCEPT !.hours = NoHours]
    BY <1>1, <2>2
  <2> QED
    BY <2>3 DEF Absent
<1> HIDE DEF u
<1>3. /\ u.known = e.known /\ u.iface = e.iface /\ u.last = e.last
      /\ u.base = e.base /\ u.at = e.at /\ u.prevOn = e.prevOn
  BY <1>1 DEF Entry
<1>4. Agrees(e) => Agrees(u)
  BY <1>2, <1>3 DEF Agrees
<1>5. \A d \in Entry : Follows(d, e) => Follows(d, u)
  BY <1>3 DEF Follows
<1> QED
  BY <1>4, <1>5 DEF u

\* A key nothing happened to goes on.
LEMMA FollowsSelf ==
  ASSUME NEW e
  PROVE  Follows(e, e)
  BY DEF Follows

\* After a fold the maps agree, and the session went on or began as it should.
LEMMA FoldAgrees ==
  ASSUME NEW e \in Entry, NEW t \in Time, NEW i \in Iface, NEW r \in Reading, NEW h \in Nat,
         now \in Nat, h <= now, Agrees(e)
  PROVE  LET f == foldPeer(e, t, i, r, h) IN Agrees(f) /\ Follows(e, f)
<1> DEFINE f == foldPeer(e, t, i, r, h)
           q == Rebaselined(e, i)
           online == Online(t, h)
           opens == Opens(e, r, online)
<1>1. f \in Entry /\ f.known /\ f.last = r /\ f.iface = i
  BY FoldPeerType
<1>2. /\ f.base = IF opens THEN IF BelowBase(e, r) THEN Zero
                                ELSE IF q.last # None THEN q.last ELSE r
                  ELSE e.base
      /\ f.at = IF opens /\ online THEN h ELSE e.at
      /\ f.prevOn = online
  BY FoldPeerSession
<1>3. r # None /\ Zero # None /\ h # None
  BY NoneAssumption, ReadingFacts
<1>4. online \in BOOLEAN /\ (online => h > 0)
  BY DEF Online
<1>5. q.last # None => q.last = e.last /\ ~Moved(e, i)
  BY DEF Rebaselined, Entry
<1>6. ~Moved(e, i) => q = e
  BY DEF Rebaselined
<1> HIDE DEF f, q, online
<1>7. f.base # None
  BY <1>2, <1>3 DEF Opens
<1>8. f.prevOn => f.at # None
  BY <1>2, <1>3, <1>4 DEF Opens, Agrees
<1>9. f.at # None => f.at \in 1 .. now
  BY <1>2, <1>3, <1>4 DEF Agrees
<1>10. Agrees(f)
  BY <1>1, <1>3, <1>7, <1>8, <1>9 DEF Agrees
<1>11. ASSUME e.base # None, ~Moved(e, f.iface)
       PROVE  IF ~Leq(e.base, f.last) THEN f.base = Zero
              ELSE IF f.prevOn /\ ~e.prevOn THEN f.base = e.last
              ELSE f.base = e.base /\ f.at = e.at
  <2>1. BelowBase(e, r) <=> ~Leq(e.base, f.last)
    BY <1>1, <1>11 DEF BelowBase, Leq, Entry, Reading
  <2>2. e.last # None /\ q.last = e.last
    BY <1>1, <1>6, <1>11 DEF Agrees
  <2>3. CASE BelowBase(e, r)
    BY <1>2, <2>1, <2>3 DEF Opens
  <2>4. CASE ~BelowBase(e, r)
    BY <1>2, <1>4, <1>11, <2>1, <2>2, <2>4 DEF Opens, Entry
  <2> QED
    BY <2>3, <2>4
<1>12. Follows(e, f)
  BY <1>11 DEF Follows
<1> QED
  BY <1>10, <1>12 DEF f

(***************************************************************************)
(* The bytes of one key.                                                   *)
(***************************************************************************)
\* One more byte in direction d.
OneMore(r, d) == [r EXCEPT ![d] = @ + 1]

\* One more byte on a counter that has not been zeroed is one more byte pending.
LEMMA FreshGrowsExactly ==
  ASSUME NEW q \in Entry, NEW r \in Reading, NEW d \in Dir, q.last # None => Leq(q.last, r)
  PROVE  Fresh(q, OneMore(r, d)) = OneMore(Fresh(q, r), d)
<1> DEFINE more == [r EXCEPT ![d] = @ + 1]
<1>1. q.last \in Reading \cup {None} /\ more \in Reading
  BY DEF Entry, Reading
<1>2. CASE q.last = None
  BY <1>2 DEF Fresh, OneMore
<1>3. CASE q.last # None
  <2>1. q.last \in Reading /\ Leq(q.last, r)
    BY <1>1, <1>3
  <2>2. \A x \in Dir : Delta(q.last, more)[x] = (Delta(q.last, r)[x] + (IF x = d THEN 1 ELSE 0))
    BY <1>1, <2>1 DEF Delta, Leq, Reading
  <2>3. Delta(q.last, more) \in Reading /\ Delta(q.last, r) \in Reading
    BY <1>1, <2>1, ReadingFacts
  <2> HIDE DEF more
  <2>4. Delta(q.last, more) = [Delta(q.last, r) EXCEPT ![d] = @ + 1]
    BY <2>2, <2>3 DEF Reading
  <2> QED
    BY <1>3, <2>4 DEF Fresh, more, OneMore
<1> QED
  BY <1>2, <1>3

\* A byte added to one summand is a byte added to the sum.
LEMMA PlusGrows ==
  ASSUME NEW a \in Reading, NEW b \in Reading, NEW d \in Dir
  PROVE  /\ Plus(a, OneMore(b, d)) = OneMore(Plus(a, b), d)
         /\ Plus(a, Zero) = a
<1> DEFINE more == [b EXCEPT ![d] = @ + 1]
<1>1. more \in Reading
  BY DEF Reading
<1>2. Plus(a, more) \in Reading /\ Plus(a, b) \in Reading
  BY <1>1, ReadingFacts
<1>3. \A x \in Dir : Plus(a, more)[x] = (Plus(a, b)[x] + (IF x = d THEN 1 ELSE 0))
  BY DEF Plus, Reading
<1> HIDE DEF more
<1>4. Plus(a, more) = [Plus(a, b) EXCEPT ![d] = @ + 1]
  BY <1>2, <1>3 DEF Reading
<1>5. Plus(a, Zero) = a
  BY DEF Plus, Zero, Reading
<1> QED
  BY <1>4, <1>5 DEF more, OneMore

\* A byte of traffic is pending, or was not of this key.
LEMMA TrafficExact ==
  ASSUME Typed, KernelInv, NEW i \in Iface, NEW p \in Pub, NEW d \in Dir, Traffic(i, p, d),
         NEW e \in Entry, NEW q \in Pub, Exact(e, q)
  PROVE  Exact(e, q)'
<1>1. /\ on' = on /\ p \in on[i] /\ zeroed' = zeroed
      /\ ctr' = [ctr EXCEPT ![i][p][d] = @ + 1] /\ ctr \in [Iface -> [Pub -> Reading]]
      /\ carried' = [carried EXCEPT ![p][d] = @ + 1] /\ carried \in [Pub -> Reading]
  BY DEF Traffic, Typed, TypeOK, LedgerIsWhole
<1>2. CASE q # p
  <2>1. carried'[q] = carried[q] /\ \A j \in Iface : ctr'[j][q] = ctr[j][q]
    BY <1>1, <1>2
  <2> QED
    BY <1>1, <2>1 DEF Exact, Pending
<1>3. CASE q = p
  <2> DEFINE b == Rebaselined(e, i)
             r == ctr[i][p]
  <2>1. /\ ctr'[i][p] = OneMore(r, d) /\ carried'[p] = OneMore(carried[p], d)
        /\ \A j \in Iface : j # i => ctr'[j][p] = ctr[j][p]
    BY <1>1 DEF OneMore
  <2>2. \A j \in Iface : p \in on[j] => j = i
    BY <1>1 DEF KernelInv
  <2>3. b \in Entry /\ r \in Reading /\ e.total \in Reading /\ e.last \in Reading \cup {None}
    BY <1>1, RebaselinedType DEF Entry
  <2>4. b.last # None => Leq(b.last, r)
    BY <1>3 DEF Rebaselined, Exact, Entry
  <2>5. carried[p] = Plus(e.total, Fresh(b, r))
    BY <1>1, <1>3 DEF Exact, Pending
  <2> HIDE DEF b, r
  <2>6. Fresh(b, ctr'[i][p]) = OneMore(Fresh(b, r), d)
    BY <2>1, <2>3, <2>4, FreshGrowsExactly
  <2>7. Plus(e.total, Fresh(b, ctr'[i][p])) = carried'[p]
    <3>1. Fresh(b, r) \in Reading
      BY <2>3, FreshType
    <3>2. Plus(e.total, OneMore(Fresh(b, r), d)) = OneMore(Plus(e.total, Fresh(b, r)), d)
      BY <2>3, <3>1, PlusGrows
    <3> QED
      BY <2>1, <2>5, <2>6, <3>2
  <2>8. \A j \in Iface : p \in on'[j] => carried'[p] = Plus(e.total, Pending(e, j, p)')
    BY <1>1, <2>2, <2>7 DEF Pending, b
  <2>9. ASSUME NEW j \in Iface, e.last # None, ~Moved(e, j)
        PROVE  Leq(e.last, ctr'[j][p])
    <3>1. Leq(e.last, ctr[j][p])
      BY <1>3, <2>9 DEF Exact
    <3>2. \A x \in Dir : ctr'[j][p][x] \in {ctr[j][p][x], ctr[j][p][x] + 1}
      BY <1>1, <2>1 DEF Reading
    <3>3. e.last \in Reading /\ ctr[j][p] \in Reading
      BY <1>1, <2>3, <2>9
    <3> QED
      BY <3>1, <3>2, <3>3 DEF Leq, Reading
  <2> QED
    BY <1>1, <1>3, <2>8, <2>9 DEF Exact
<1> QED
  BY <1>2, <1>3

\* A peer that is added to an interface shows nothing there yet.
LEMMA AttachExact ==
  ASSUME Typed, KernelInv, ~MultiHomed, NEW i \in Iface, NEW p \in Pub, Attach(i, p),
         NEW e \in Entry, NEW q \in Pub, Exact(e, q)
  PROVE  Exact(e, q)'
<1>1. /\ on' = [on EXCEPT ![i] = @ \cup {p}] /\ on \in [Iface -> SUBSET Pub]
      /\ ctr' = ctr /\ carried' = carried /\ \A j \in Iface : p \notin on[j]
  BY DEF Attach, Typed, TypeOK, LedgerIsWhole, ghosts
<1>2. CASE q # p
  <2>1. \A j \in Iface : q \in on'[j] <=> q \in on[j]
    BY <1>1, <1>2
  <2> QED
    BY <1>1, <2>1 DEF Exact, Pending
<1>3. CASE q = p
  <2>1. ctr[i][p] = Zero /\ carried[p] = e.total /\ e.total \in Reading
    BY <1>1, <1>3 DEF KernelInv, Exact, Entry
  <2>2. Fresh(Rebaselined(e, i), Zero) = Zero
    BY NothingFresh
  <2>3. Plus(e.total, Zero) = e.total
    BY <2>1 DEF Plus, Zero, Reading
  <2>4. \A j \in Iface : p \in on'[j] => j = i
    BY <1>1
  <2>5. \A j \in Iface : p \in on'[j] => carried'[p] = Plus(e.total, Pending(e, j, p)')
    BY <1>1, <2>1, <2>2, <2>3, <2>4 DEF Pending
  <2>6. p \in on'[i]
    BY <1>1
  <2> QED
    BY <1>1, <1>3, <2>5, <2>6 DEF Exact
<1> QED
  BY <1>2, <1>3

\* A recreation that zeroes no counter of a key leaves its bytes where they are.
LEMMA RecreateExact ==
  ASSUME Typed, KernelInv, NEW i \in Iface, NEW S \in SUBSET on[i], NEW Gone \in SUBSET Pub,
         Recreate(i, S, Gone), on[i] \ Gone \subseteq S,
         NEW e \in Entry, NEW q \in Pub, Accounts(e, q)
  PROVE  Accounts(e, q)'
<1> SUFFICES ASSUME zeroed'[q] = "never" PROVE Exact(e, q)'
  BY DEF Accounts
<1>1. /\ on' = [on EXCEPT ![i] = S] /\ on \in [Iface -> SUBSET Pub]
      /\ ctr' = [ctr EXCEPT ![i] = [x \in Pub |-> IF x \in Gone THEN Zero ELSE ctr[i][x]]]
      /\ ctr \in [Iface -> [Pub -> Reading]]
      /\ carried' = carried
      /\ zeroed'[q] = IF q \in Gone THEN Zeroing(i, q) ELSE zeroed[q]
  BY DEF Recreate, Typed, TypeOK, LedgerIsWhole
<1>2. zeroed[q] = "never" /\ (q \in Gone => ctr[i][q] = Zero)
  BY <1>1 DEF Zeroing
<1>3. Exact(e, q)
  BY <1>2 DEF Accounts
<1>4. \A j \in Iface : ctr'[j][q] = ctr[j][q]
  BY <1>1, <1>2
<1>5. \A j \in Iface : q \in on'[j] => q \in on[j]
  BY <1>1
<1>6. ASSUME \A j \in Iface : q \notin on'[j]
      PROVE  carried'[q] = e.total
  <2>1. CASE \A j \in Iface : q \notin on[j]
    BY <1>1, <1>3, <2>1 DEF Exact
  <2>2. CASE q \in on[i]
    <3>1. q \in Gone
      BY <1>1, <1>6, <2>2
    <3>2. carried[q] = Plus(e.total, Fresh(Rebaselined(e, i), Zero))
      BY <1>2, <1>3, <2>2, <3>1 DEF Exact, Pending
    <3>3. Fresh(Rebaselined(e, i), Zero) = Zero
      BY NothingFresh
    <3>4. e.total \in Reading
      BY DEF Entry
    <3>5. Plus(e.total, Zero) = e.total
      BY <3>4 DEF Plus, Zero, Reading
    <3> QED
      BY <1>1, <3>2, <3>3, <3>5
  <2>3. \A j \in Iface : q \in on[j] => j = i
    BY <1>1, <1>6
  <2> QED
    BY <2>1, <2>2, <2>3
<1> QED
  BY <1>1, <1>3, <1>4, <1>5, <1>6 DEF Exact, Pending

\* Nothing the kernel does leaves a byte unaccounted for, unless a counter of the key
\* was zeroed.
LEMMA EnvironmentAccounts ==
  ASSUME Typed, KernelInv, ~MultiHomed, Environment, NEW e \in Entry, NEW q \in Pub, Accounts(e, q)
  PROVE  Accounts(e, q)'
<1>1. CASE \E i \in Iface, p \in Pub, d \in Dir : Traffic(i, p, d)
  BY <1>1, TrafficExact DEF Accounts, Traffic
<1>2. CASE \E i \in Iface, p \in Pub : Attach(i, p)
  BY <1>2, AttachExact DEF Accounts, Attach, ghosts
<1>3. CASE \E i \in Iface, p \in Pub : Detach(i, p)
  <2>1. PICK i \in Iface, p \in Pub : Recreate(i, on[i] \ {p}, {p})
    BY <1>3 DEF Detach
  <2>2. on[i] \ {p} \in SUBSET on[i] /\ {p} \in SUBSET Pub
    OBVIOUS
  <2> QED
    BY <2>1, <2>2, RecreateExact
<1>4. CASE \E i \in Iface : Restart(i)
  <2>1. PICK i \in Iface : \E S \in SUBSET on[i] : Recreate(i, S, on[i])
    BY <1>4 DEF Restart
  <2>2. on[i] \in SUBSET Pub /\ on[i] \ on[i] = {}
    BY DEF Typed, TypeOK, LedgerIsWhole
  <2> QED
    BY <2>1, <2>2, RecreateExact
<1>5. CASE UNCHANGED <<on, ctr, carried, zeroed>>
  BY <1>5 DEF Accounts, Exact, Pending
<1>6. \/ \E i \in Iface, p \in Pub, d \in Dir : Traffic(i, p, d)
      \/ \E i \in Iface, p \in Pub : Attach(i, p)
      \/ \E i \in Iface, p \in Pub : Detach(i, p)
      \/ \E i \in Iface : Restart(i)
      \/ UNCHANGED <<on, ctr, carried, zeroed>>
  BY DEF Environment, Handshake, Tick, ghosts
<1> QED
  BY <1>1, <1>2, <1>3, <1>4, <1>5, <1>6

\* Right after a fold nothing is pending, and the counters are those just read.
LEMMA FoldExact ==
  ASSUME Typed, KernelInv, NEW e \in Entry, NEW p \in Pub, NEW i \in Iface,
         p \in on[i], NEW t \in Time, Exact(e, p)
  PROVE  Exact(foldPeer(e, t, i, ctr[i][p], hs[i][p]), p)
<1> DEFINE r == ctr[i][p]
           f == foldPeer(e, t, i, r, hs[i][p])
<1>1. r \in Reading /\ hs[i][p] \in Nat
  BY KernelTypes
<1>2. /\ f \in Entry /\ f.known /\ f.iface = i /\ f.last = r
      /\ f.total = Plus(e.total, Fresh(Rebaselined(e, i), r))
  BY <1>1, FoldPeerType
<1> HIDE DEF f
<1>3. carried[p] = f.total
  BY <1>2 DEF Exact, Pending
<1>4. Fresh(Rebaselined(f, i), r) = Zero
  BY <1>1, <1>2, NothingPendingAfterFold
<1>5. f.total \in Reading
  BY <1>2 DEF Entry
<1>6. Plus(f.total, Zero) = f.total
  BY <1>5 DEF Plus, Zero, Reading
<1>7. \A j \in Iface : p \in on[j] => j = i
  BY DEF KernelInv
<1>8. \A j \in Iface : p \in on[j] => carried[p] = Plus(f.total, Pending(f, j, p))
  BY <1>3, <1>4, <1>6, <1>7 DEF Pending
<1>9. i # None
  BY InterfaceAssumption, NoneAssumption
<1>10. \A j \in Iface : ~Moved(f, j) => j = i
  BY <1>2, <1>9 DEF Moved
<1>11. Leq(r, r)
  BY <1>1 DEF Leq, Reading
<1>12. Exact(f, p)
  BY <1>2, <1>3, <1>8, <1>10, <1>11 DEF Exact
<1> QED
  BY <1>12 DEF f

\* Pruning takes no byte from the total and leaves the last reading.
LEMMA PruneExact ==
  ASSUME NEW e \in Entry, NEW p \in Pub, NEW t \in Time
  PROVE  Accounts(e, p) => Accounts(prune(e, t), p)
<1> DEFINE u == prune(e, t)
<1>1. u = [e EXCEPT !.hours = u.hours] /\ u \in Entry
  BY PruneType
<1> HIDE DEF u
<1>2. /\ u.total = e.total /\ u.last = e.last
      /\ u.known = e.known /\ u.iface = e.iface
  BY <1>1 DEF Entry
<1>3. \A i : Rebaselined(u, i).last = Rebaselined(e, i).last
  BY <1>1, <1>2 DEF Rebaselined, Moved, Entry
<1>4. \A i, r : Fresh(Rebaselined(u, i), r) = Fresh(Rebaselined(e, i), r)
  BY <1>3 DEF Fresh
<1>5. \A i : Moved(u, i) <=> Moved(e, i)
  BY <1>2 DEF Moved
<1>6. Exact(e, p) => Exact(u, p)
  BY <1>2, <1>4, <1>5 DEF Exact, Pending
<1> QED
  BY <1>6 DEF u, Accounts

\* A key that is erased starts again with the bytes its interface shows.
LEMMA ErasedExact ==
  ASSUME Typed, KernelInv, ~MultiHomed, NEW p \in Pub, UNCHANGED <<on, ctr>>,
         carried'[p] = Showing(p)
  PROVE  Exact(Absent, p)'
<1> DEFINE homes == {i \in Iface : p \in on[i]}
<1>1. Absent.last = None /\ Absent.total = Zero
  BY DEF Absent
<1>2. \A i \in Iface, r \in Reading : Fresh(Rebaselined(Absent, i), r) = r
  BY DEF Fresh, Rebaselined, Moved, Absent
<1>3. \A r \in Reading : Plus(Zero, r) = r
  BY DEF Plus, Zero, Reading
<1>4. \A i \in Iface : ctr[i][p] \in Reading
  BY KernelTypes
<1>5. ASSUME NEW i \in Iface, p \in on[i]
      PROVE  carried'[p] = Plus(Absent.total, Fresh(Rebaselined(Absent, i), ctr[i][p]))
  <2> DEFINE h == CHOOSE j \in homes : TRUE
  <2>1. homes # {} /\ h \in homes
    BY <1>5
  <2>2. Showing(p) = ctr[h][p]
    BY <2>1 DEF Showing
  <2>3. h = i
    BY <1>5, <2>1 DEF KernelInv
  <2> HIDE DEF h
  <2> QED
    BY <1>1, <1>2, <1>3, <1>4, <2>2, <2>3
<1>6. (\A i \in Iface : p \notin on[i]) => carried'[p] = Zero
  <2> SUFFICES ASSUME \A i \in Iface : p \notin on[i] PROVE Showing(p) = Zero
    OBVIOUS
  <2>1. homes = {}
    OBVIOUS
  <2> QED
    BY <2>1 DEF Showing
<1> QED
  BY <1>1, <1>5, <1>6 DEF Exact, Pending

(***************************************************************************)
(* The steps.                                                              *)
(***************************************************************************)
\* The kernel's steps: the clock and the handshakes go forwards, and every byte is
\* accounted for.
LEMMA EnvironmentSnapshot ==
  ASSUME ~MultiHomed, IInv, Environment, SnapshotInv
  PROVE  SnapshotInv'
<1>1. Typed /\ KernelInv
  BY DEF IInv
<1>2. UNCHANGED <<files, calls>> /\ Typed'
  BY <1>1, EnvironmentTypes
<1>3. /\ disk' = disk /\ pc' = pc /\ target' = target /\ seen' = seen /\ mem' = mem
  BY <1>2 DEF files, calls
<1>4. now \in Nat /\ now' \in Nat /\ now <= now'
  <2>1. now' = now \/ now' = now + 1
    BY DEF Environment, Traffic, Handshake, Attach, Detach, Restart, Recreate, Tick
  <2>2. now \in Nat /\ now' \in Nat
    BY <1>1, <1>2, CalendarAssumption DEF Typed, TypeOK, Time
  <2> QED BY <2>1, <2>2
<1>5. \A e \in Entry, q \in Pub : Accounts(e, q) => Accounts(e, q)'
  BY <1>1, EnvironmentAccounts
<1>6. \A e : Agrees(e) => Agrees(e)'
  BY <1>4 DEF Agrees
<1>7. HandshakesPast'
  <2>1. hs \in [Iface -> [Pub -> Nat]]
    BY <1>1 DEF Typed, TypeOK, LedgerIsWhole
  <2>2. ASSUME NEW i \in Iface, NEW p \in Pub
        PROVE  hs'[i][p] \in {hs[i][p], now, 0}
    BY <2>1 DEF Environment, Traffic, Handshake, Attach, Detach, Restart, Recreate, Tick
  <2> QED
    BY <1>4, <2>1, <2>2 DEF SnapshotInv, HandshakesPast
<1>8. \A p \in Pub : Agrees(disk[p])' /\ Accounts(disk[p], p)'
  <2> TAKE p \in Pub
  <2>1. disk[p] \in Entry
    BY <1>1, EntryTypes
  <2> DEFINE e == disk[p]
  <2>2. Agrees(e)' /\ Accounts(e, p)'
    BY <1>3, <1>5, <1>6, <2>1 DEF SnapshotInv, Agrees, Accounts, Exact, Pending
  <2> QED
    BY <2>2
<1>9. ASSUME NEW w \in Writer
      PROVE  SnapshotOK(w)'
  <2> SUFFICES ASSUME pc[w] \in Inside, NEW p \in Pub
               PROVE  /\ Agrees(mem[w][p])'
                      /\ p # target[w] => Accounts(mem[w][p], p)'
                      /\ target[w] = None => Follows(disk[p], mem[w][p])
                      /\ target[w] = None /\ pc[w] = "folding" /\ p \notin seen[w] => mem[w][p] = disk[p]
    BY <1>3 DEF SnapshotOK, Inside
  <2>1. mem[w][p] \in Entry
    BY <1>1, EntryTypes
  <2>2. Agrees(mem[w][p])'
    BY <1>3, <1>6 DEF SnapshotInv, SnapshotOK, Agrees
  <2>3. p # target[w] => Accounts(mem[w][p], p)'
    BY <1>3, <1>5, <2>1 DEF SnapshotInv, SnapshotOK, Accounts, Exact, Pending
  <2> QED
    BY <2>2, <2>3 DEF SnapshotInv, SnapshotOK
<1> QED
  BY <1>7, <1>8, <1>9 DEF SnapshotInv

\* A step of w that leaves the kernel, the file and the other calls alone.
LEMMA CallSnapshot ==
  ASSUME SnapshotInv, NEW w \in Writer, SnapshotOK(w)',
         UNCHANGED <<on, ctr, hs, now, disk, carried, zeroed>>,
         \A v \in Writer \ {w} : /\ pc'[v] = pc[v] /\ target'[v] = target[v]
                                 /\ seen'[v] = seen[v] /\ mem'[v] = mem[v]
  PROVE  SnapshotInv'
<1>1. HandshakesPast' /\ \A p \in Pub : Agrees(disk[p])' /\ Accounts(disk[p], p)'
  BY DEF SnapshotInv, HandshakesPast, Agrees, Accounts, Exact, Pending
<1>2. ASSUME NEW v \in Writer, v # w
      PROVE  SnapshotOK(v)'
  BY <1>2 DEF SnapshotInv, SnapshotOK, Agrees, Accounts, Exact, Pending
<1> QED
  BY <1>1, <1>2 DEF SnapshotInv

\* Asking for the lock, writing the temporary file, and ending without a rename
\* leave nothing to check but what the call works on.
LEMMA OutsideSnapshot ==
  ASSUME IInv, SnapshotInv, NEW w \in Writer,
         \/ StartCollect(w)
         \/ \E p \in Pub : StartForget(w, p)
         \/ Fail(w)
         \/ Crash(w)
  PROVE  SnapshotInv'
<1> USE DEF kernel, files, ghosts
<1>1. Typed
  BY DEF IInv
<1>2. /\ UNCHANGED <<on, ctr, hs, now, disk, carried, zeroed>>
      /\ pc'[w] \notin Inside
      /\ \A v \in Writer \ {w} : /\ pc'[v] = pc[v] /\ target'[v] = target[v]
                                 /\ seen'[v] = seen[v] /\ mem'[v] = mem[v]
  BY <1>1 DEF StartCollect, StartForget, Fail, Crash, Leave, Inside, Typed, TypeOK, LedgerIsWhole
<1>3. SnapshotOK(w)'
  BY <1>2 DEF SnapshotOK
<1> QED
  BY <1>2, <1>3, CallSnapshot

\* A call that has loaded the file has not seen any key yet.
LEMMA LoadSnapshot ==
  ASSUME IInv, SnapshotInv, NEW w \in Writer, Load(w)
  PROVE  SnapshotInv'
<1> USE DEF kernel, ghosts
<1>1. Typed /\ FileInv
  BY DEF IInv
<1>2. \A p \in Pub : backfill(disk[p]) = disk[p]
  BY <1>1, BackfillIdle DEF FileInv
<1>3. disk \in LedgerType /\ disk = [p \in Pub |-> disk[p]]
  BY <1>1 DEF Typed, TypeOK, LedgerIsWhole, LedgerType
<1>4. [p \in Pub |-> backfill(disk[p])] = disk
  BY <1>2, <1>3
<1> DEFINE got == IF target[w] = None THEN disk ELSE [disk EXCEPT ![target[w]] = Absent]
<1>5. /\ UNCHANGED <<on, ctr, hs, now, disk, target, carried, zeroed>>
      /\ seen' = [seen EXCEPT ![w] = {}]
      /\ pc' = [pc EXCEPT ![w] = "folding"]
      /\ mem' = [mem EXCEPT ![w] = got]
  BY <1>4 DEF Load, Forgotten
<1>6. \A p \in Pub : got[p] \in {disk[p], Absent} /\ (p # target[w] => got[p] = disk[p])
  BY <1>3 DEF LedgerType
<1>7. target[w] = None => got = disk
  OBVIOUS
<1> HIDE DEF got
<1>8. /\ mem'[w] = got /\ target'[w] = target[w]
      /\ \A v \in Writer \ {w} : /\ pc'[v] = pc[v] /\ target'[v] = target[v]
                                 /\ seen'[v] = seen[v] /\ mem'[v] = mem[v]
  BY <1>1, <1>5 DEF Typed, TypeOK, LedgerIsWhole
<1>9. SnapshotOK(w)'
  <2> SUFFICES ASSUME NEW p \in Pub
               PROVE  /\ Agrees(mem[w][p])'
                      /\ p # target[w] => Accounts(mem[w][p], p)'
                      /\ target[w] = None => Follows(disk[p], got[p])
                      /\ target[w] = None => got[p] = disk[p]
    BY <1>5, <1>8 DEF SnapshotOK
  <2>1. Agrees(got[p])
    BY <1>6, AbsentAgrees DEF SnapshotInv
  <2>2. p # target[w] => Accounts(got[p], p)
    BY <1>6 DEF SnapshotInv
  <2>3. Agrees(mem[w][p])'
    BY <1>5, <1>8, <2>1 DEF Agrees
  <2>4. p # target[w] => Accounts(mem[w][p], p)'
    BY <1>5, <1>8, <2>2 DEF Accounts, Exact, Pending
  <2> QED
    BY <1>7, <2>3, <2>4, FollowsSelf
<1> QED
  BY <1>5, <1>8, <1>9, CallSnapshot

\* A key is folded once at most: into the entry the file has for it.
LEMMA DumpSnapshot ==
  ASSUME IInv, SnapshotInv, NEW w \in Writer, NEW i \in Iface, FoldIface(w, i) \/ SkipIface(w, i)
  PROVE  SnapshotInv'
<1> USE DEF kernel, files, ghosts
<1>1. Typed /\ KernelInv /\ CallInv
  BY DEF IInv
<1>2. /\ UNCHANGED <<on, ctr, hs, now, disk, target, pc, carried, zeroed>>
      /\ pc[w] = "folding" /\ i \in todo[w]
      /\ \/ mem' = [mem EXCEPT ![w] = Folded(w, i)] /\ seen' = [seen EXCEPT ![w] = @ \cup on[i]]
         \/ mem' = mem /\ seen' = seen
  BY DEF FoldIface, SkipIface, Dump
<1>3. target[w] = None
  BY <1>1, <1>2 DEF CallInv, CallOK
<1>4. \A v \in Writer \ {w} : /\ pc'[v] = pc[v] /\ target'[v] = target[v]
                              /\ seen'[v] = seen[v] /\ mem'[v] = mem[v]
  BY <1>1, <1>2 DEF Typed, TypeOK, LedgerIsWhole
<1>5. SnapshotOK(w)'
  <2> SUFFICES ASSUME NEW p \in Pub
               PROVE  /\ Agrees(mem[w][p])' /\ Accounts(mem[w][p], p)'
                      /\ Follows(disk[p], mem'[w][p])
                      /\ p \notin seen'[w] => mem'[w][p] = disk[p]
    BY <1>2, <1>3 DEF SnapshotOK
  <2> DEFINE e == mem[w][p]
             f == foldPeer(e, at[w], i, ctr[i][p], hs[i][p])
  <2>1. e \in Entry /\ at[w] \in Time /\ now \in Nat /\ ctr[i][p] \in Reading /\ hs[i][p] \in Nat
    BY <1>1, EntryTypes, KernelTypes DEF Typed, TypeOK, LedgerIsWhole, Time
  <2>2. /\ Agrees(e) /\ Accounts(e, p) /\ Follows(disk[p], e)
        /\ p \notin seen[w] => e = disk[p]
    BY <1>2, <1>3, WriterAssumption DEF SnapshotInv, SnapshotOK, Inside
  <2>3. ASSUME p \in on[i] \ seen[w]
        PROVE  Agrees(f) /\ Accounts(f, p) /\ Follows(disk[p], f)
    <3>1. hs[i][p] <= now
      BY DEF SnapshotInv, HandshakesPast
    <3>2. Agrees(f) /\ Follows(e, f)
      BY <2>1, <2>2, <3>1, FoldAgrees
    <3>3. Exact(e, p) => Exact(f, p)
      BY <1>1, <2>1, <2>3, FoldExact
    <3>4. Accounts(f, p)
      BY <2>2, <3>3 DEF Accounts
    <3> QED
      BY <2>2, <2>3, <3>2, <3>4
  <2>4. /\ mem'[w][p] \in {e, Folded(w, i)[p]}
        /\ p \notin seen'[w] => p \notin seen[w]
        /\ p \notin seen'[w] /\ p \in on[i] => mem'[w][p] = e
    BY <1>1, <1>2 DEF Typed, TypeOK, LedgerIsWhole
  <2>5. Folded(w, i)[p] = IF p \in on[i] \ seen[w] THEN f ELSE e
    BY DEF Folded
  <2> HIDE DEF f, e
  <2>6. /\ Agrees(mem'[w][p]) /\ Accounts(mem'[w][p], p) /\ Follows(disk[p], mem'[w][p])
        /\ p \notin seen'[w] => mem'[w][p] = disk[p]
    BY <2>2, <2>3, <2>4, <2>5
  <2> QED
    BY <1>2, <2>6 DEF Agrees, Accounts, Exact, Pending
<1> QED
  BY <1>2, <1>4, <1>5, CallSnapshot

\* Pruning leaves alone all that the invariant is about.
LEMMA OpenTmpSnapshot ==
  ASSUME IInv, SnapshotInv, NEW w \in Writer, OpenTmp(w)
  PROVE  SnapshotInv'
<1> USE DEF kernel, ghosts
<1>1. Typed
  BY DEF IInv
<1> DEFINE got == IF target[w] # None THEN mem[w] ELSE [p \in Pub |-> prune(mem[w][p], at[w])]
<1>2. /\ UNCHANGED <<on, ctr, hs, now, disk, target, seen, carried, zeroed>>
      /\ pc[w] = "folding" /\ pc' = [pc EXCEPT ![w] = "writing"]
      /\ mem' = [mem EXCEPT ![w] = got]
  BY DEF OpenTmp
<1>3. at[w] \in Time /\ pc[w] \in Inside
  BY <1>1, <1>2 DEF Typed, TypeOK, LedgerIsWhole, Inside
<1>4. \A p \in Pub : got[p] \in {mem[w][p], prune(mem[w][p], at[w])}
  OBVIOUS
<1> HIDE DEF got
<1>5. /\ mem'[w] = got /\ target'[w] = target[w] /\ pc'[w] = "writing"
      /\ \A v \in Writer \ {w} : /\ pc'[v] = pc[v] /\ target'[v] = target[v]
                                 /\ seen'[v] = seen[v] /\ mem'[v] = mem[v]
  BY <1>1, <1>2 DEF Typed, TypeOK, LedgerIsWhole
<1>6. SnapshotOK(w)'
  <2> SUFFICES ASSUME NEW p \in Pub
               PROVE  /\ Agrees(mem[w][p])'
                      /\ p # target[w] => Accounts(mem[w][p], p)'
                      /\ target[w] = None => Follows(disk[p], got[p])
    BY <1>2, <1>5 DEF SnapshotOK
  <2>1. mem[w][p] \in Entry /\ disk[p] \in Entry
    BY <1>1, EntryTypes
  <2>2. /\ Agrees(mem[w][p])
        /\ p # target[w] => Accounts(mem[w][p], p)
        /\ target[w] = None => Follows(disk[p], mem[w][p])
    BY <1>3 DEF SnapshotInv, SnapshotOK
  <2>3. /\ Agrees(got[p])
        /\ p # target[w] => Accounts(got[p], p)
        /\ target[w] = None => Follows(disk[p], got[p])
    BY <1>3, <1>4, <2>1, <2>2, PruneAgrees, PruneExact
  <2>4. Agrees(mem[w][p])'
    BY <1>2, <1>5, <2>3 DEF Agrees
  <2>5. p # target[w] => Accounts(mem[w][p], p)'
    BY <1>2, <1>5, <2>3 DEF Accounts, Exact, Pending
  <2> QED
    BY <2>3, <2>4, <2>5
<1> QED
  BY <1>2, <1>5, <1>6, CallSnapshot

\* Writing the temporary file changes nothing of a call but where it stands.
LEMMA WriteTmpSnapshot ==
  ASSUME IInv, SnapshotInv, NEW w \in Writer, WriteTmp(w)
  PROVE  SnapshotInv'
<1> USE DEF kernel, ghosts
<1>1. Typed
  BY DEF IInv
<1>2. /\ UNCHANGED <<on, ctr, hs, now, disk, target, seen, mem, carried, zeroed>>
      /\ pc[w] = "writing" /\ pc' = [pc EXCEPT ![w] = "renaming"]
  BY DEF WriteTmp
<1>3. /\ pc[w] \in Inside /\ pc'[w] = "renaming"
      /\ \A v \in Writer \ {w} : pc'[v] = pc[v]
  BY <1>1, <1>2 DEF Typed, TypeOK, LedgerIsWhole, Inside
<1>4. SnapshotOK(w)'
  BY <1>2, <1>3 DEF SnapshotInv, SnapshotOK, Agrees, Accounts, Exact, Pending
<1> QED
  BY <1>2, <1>3, <1>4, CallSnapshot

\* The ledger a call worked on takes the file's place; a key it erased starts again.
LEMMA RenameSnapshot ==
  ASSUME ~MultiHomed, IInv, SnapshotInv, NEW w \in Writer, Rename(w)
  PROVE  SnapshotInv'
<1> USE DEF kernel, ghosts
<1>1. Typed /\ KernelInv /\ LockInv /\ CallInv
  BY DEF IInv
<1>2. /\ UNCHANGED <<on, ctr, hs, now>>
      /\ pc[w] = "renaming" /\ Leave(w)
      /\ target[w] = None => UNCHANGED <<carried, zeroed>>
      /\ target[w] # None =>
           /\ carried' = [carried EXCEPT ![target[w]] = Showing(target[w])]
           /\ zeroed' = [zeroed EXCEPT ![target[w]] = "never"]
  BY DEF Rename
<1>3. disk' = mem[w] /\ pc[w] \in Inside
  BY <1>1, <1>2 DEF Rename, CallInv, CallOK, Inside
<1>4. /\ \A p \in Pub \ {target[w]} : carried'[p] = carried[p] /\ zeroed'[p] = zeroed[p]
      /\ \A p \in Pub : p = target[w] => carried'[p] = Showing(p)
  BY <1>1, <1>2, WriterAssumption DEF Typed, TypeOK, LedgerIsWhole
<1>5. ASSUME NEW p \in Pub
      PROVE  Agrees(disk[p])' /\ Accounts(disk[p], p)'
  <2>1. Agrees(disk[p])'
    BY <1>2, <1>3 DEF SnapshotInv, SnapshotOK, Agrees
  <2>2. CASE p = target[w]
    <3>1. disk'[p] = Absent
      <4>1. disk' = [disk EXCEPT ![target[w]] = Absent]
        BY <1>1, <1>3, <2>2, WriterAssumption DEF CallInv, CallOK
      <4> QED
        BY <1>1, <2>2, <4>1 DEF Typed, TypeOK, LedgerIsWhole, LedgerType
    <3>2. Exact(Absent, p)'
      BY <1>1, <1>2, <1>4, <2>2, ErasedExact
    <3> QED
      BY <2>1, <3>1, <3>2 DEF Accounts, Exact, Pending
  <2>3. CASE p # target[w]
    <3>1. Accounts(mem[w][p], p)
      BY <1>3, <2>3 DEF SnapshotInv, SnapshotOK
    <3> QED
      BY <1>2, <1>3, <1>4, <2>1, <2>3, <3>1 DEF Accounts, Exact, Pending
  <2> QED
    BY <2>2, <2>3
<1>6. ASSUME NEW v \in Writer
      PROVE  SnapshotOK(v)'
  <2>1. pc'[v] \notin Inside
    <3>1. CASE v = w
      BY <1>1, <1>2, <3>1 DEF Leave, Inside, Typed, TypeOK, LedgerIsWhole
    <3>2. CASE v # w
      BY <1>1, <1>2, <1>3, <3>2, OneInside DEF Leave, Typed, TypeOK, LedgerIsWhole
    <3> QED
      BY <3>1, <3>2
  <2> QED
    BY <2>1 DEF SnapshotOK
<1>7. HandshakesPast'
  BY <1>2 DEF SnapshotInv, HandshakesPast
<1> QED
  BY <1>5, <1>6, <1>7 DEF SnapshotInv

(***************************************************************************)
(* The theorems.                                                           *)
(***************************************************************************)
\* A new installation has read nothing and carried nothing.
LEMMA InitialSnapshot ==
  ASSUME Init
  PROVE  SnapshotInv
<1>1. \A p \in Pub : newLedger[p] = Absent
  BY DEF newLedger
<1>2. Absent.total = Zero /\ Absent.last = None /\ ~Absent.known
  BY DEF Absent
<1>3. /\ on = [i \in Iface |-> {}] /\ hs = [i \in Iface |-> [p \in Pub |-> 0]] /\ now = 1
      /\ disk = newLedger /\ pc = [w \in Writer |-> "idle"]
      /\ \A p \in Pub : carried[p] = Zero
  BY <1>1, <1>2 DEF Init, Boot
<1>4. HandshakesPast
  BY <1>3 DEF HandshakesPast
<1>5. \A p \in Pub : Agrees(disk[p]) /\ Accounts(disk[p], p)
  BY <1>1, <1>2, <1>3, AbsentAgrees DEF Accounts, Exact
<1>6. \A w \in Writer : SnapshotOK(w)
  BY <1>3 DEF SnapshotOK, Inside
<1> QED
  BY <1>4, <1>5, <1>6 DEF SnapshotInv

\* Every step keeps the invariant.
LEMMA SnapshotStep ==
  ASSUME ~MultiHomed, IInv, SnapshotInv, [Next]_vars
  PROVE  SnapshotInv'
<1>1. CASE Environment
  BY <1>1, EnvironmentSnapshot
<1>2. ASSUME NEW w \in Writer, Step(w)
      PROVE  SnapshotInv'
  <2>1. CASE \/ StartCollect(w) \/ \E p \in Pub : StartForget(w, p)
             \/ Fail(w) \/ Crash(w)
    BY <2>1, OutsideSnapshot
  <2>2. CASE Load(w)
    BY <2>2, LoadSnapshot
  <2>3. CASE \E i \in Iface : FoldIface(w, i) \/ SkipIface(w, i)
    BY <2>3, DumpSnapshot
  <2>4. CASE OpenTmp(w)
    BY <2>4, OpenTmpSnapshot
  <2>5. CASE WriteTmp(w)
    BY <2>5, WriteTmpSnapshot
  <2>6. CASE Rename(w)
    BY <2>6, RenameSnapshot
  <2> QED
    BY <1>2, <2>1, <2>2, <2>3, <2>4, <2>5, <2>6 DEF Step
<1>3. CASE UNCHANGED vars
  BY <1>3 DEF vars, kernel, files, calls, ghosts, SnapshotInv, SnapshotOK, HandshakesPast, Agrees,
              Accounts, Exact, Pending
<1> QED
  BY <1>1, <1>2, <1>3 DEF Next

\* The invariant holds whatever the calls and the kernel do.
THEOREM SnapshotInvariant ==
  ASSUME ~MultiHomed, ~FlockFails
  PROVE  Spec => []SnapshotInv
<1>1. Init => SnapshotInv
  BY InitialSnapshot
<1>2. IInv /\ SnapshotInv /\ [Next]_vars => SnapshotInv'
  BY SnapshotStep
<1> QED
  BY <1>1, <1>2, InvariantHolds, PTL DEF Spec

\* A key of the saved ledger is in all of its maps or in none, and an online peer has
\* a session that began at a real handshake (MapsAgree).
THEOREM MapsAlwaysAgree ==
  ASSUME ~MultiHomed, ~FlockFails
  PROVE  Spec => []MapsAgree
<1>1. SnapshotInv => MapsAgree
  BY DEF SnapshotInv, Agrees, MapsAgree
<1> QED
  BY <1>1, SnapshotInvariant, PTL

\* While no counter was zeroed, what was carried is what is saved plus what the next
\* snapshot adds (AllAccounted).
THEOREM NothingLost ==
  ASSUME ~MultiHomed, ~FlockFails
  PROVE  Spec => []AllAccounted
<1>1. IInv /\ SnapshotInv => AllAccounted
  <2> SUFFICES ASSUME IInv, SnapshotInv, NEW p \in Pub, zeroed[p] = "never"
               PROVE  carried[p] = Plus(disk[p].total, PendingOf(p))
    BY DEF AllAccounted
  <2> DEFINE homes == {i \in Iface : p \in on[i]}
  <2>1. Exact(disk[p], p)
    BY DEF SnapshotInv, Accounts
  <2>2. CASE homes = {}
    <3>1. PendingOf(p) = Zero
      BY <2>2 DEF PendingOf
    <3>2. disk[p].total \in Reading
      BY EntryTypes DEF IInv, Entry
    <3>3. Plus(disk[p].total, Zero) = disk[p].total
      BY <3>2 DEF Plus, Zero, Reading
    <3>4. carried[p] = disk[p].total
      BY <2>1, <2>2 DEF Exact
    <3> QED
      BY <3>1, <3>3, <3>4
  <2>3. CASE homes # {}
    <3> DEFINE h == CHOOSE i \in homes : TRUE
    <3>1. h \in homes /\ PendingOf(p) = Pending(disk[p], h, p)
      BY <2>3 DEF PendingOf
    <3> HIDE DEF h
    <3> QED
      BY <2>1, <3>1 DEF Exact
  <2> QED
    BY <2>2, <2>3
<1> QED
  BY <1>1, InvariantHolds, SnapshotInvariant, PTL

\* A saved session keeps its baseline and start through every snapshot, online or not,
\* until its peer comes back, when it begins at the snapshot before, or its counters fall
\* below the baseline, when it begins at zero: whichever call replaces the file
\* (SessionsOpenOnce, which says nothing of moves and of one kind of reset).
THEOREM SessionsBeginOnline ==
  ASSUME ~MultiHomed, ~FlockFails
  PROVE  Spec => SessionsOpenOnce
<1>1. IInv /\ SnapshotInv /\ [Next]_vars => [disk' # disk => SessionsFollowOnline]_vars
  <2> SUFFICES ASSUME IInv, SnapshotInv, Next, disk' # disk
               PROVE  SessionsFollowOnline
    OBVIOUS
  <2>1. (\E w \in Writer : Rename(w)) \/ disk' = disk
    BY EnvironmentTypes
       DEF IInv, Next, Step, StartCollect, StartForget, Load, FoldIface, SkipIface, Dump,
           OpenTmp, WriteTmp, Fail, Crash, files
  <2>2. PICK w \in Writer : Rename(w)
    BY <2>1
  <2>3. disk' = mem[w] /\ pc[w] \in Inside
    BY <2>2 DEF Rename, IInv, CallInv, CallOK, Inside
  <2>4. CASE target[w] = None
    BY <2>3, <2>4 DEF SnapshotInv, SnapshotOK, SessionsFollowOnline
  <2>5. CASE target[w] # None
    <3>1. disk' = [disk EXCEPT ![target[w]] = Absent] /\ disk \in LedgerType
      BY <2>3, <2>5 DEF IInv, CallInv, CallOK, Typed, TypeOK, LedgerIsWhole
    <3>2. \A p \in Pub : disk'[p] \in {disk[p], Absent}
      BY <3>1 DEF LedgerType
    <3>3. Absent.known = FALSE
      BY DEF Absent
    <3>4. \A p \in Pub : Follows(disk[p], disk[p]) /\ Follows(disk[p], Absent)
      BY <3>3, FollowsSelf DEF Follows
    <3> QED
      BY <3>2, <3>4 DEF SessionsFollowOnline
  <2> QED
    BY <2>4, <2>5
<1> QED
  BY <1>1, InvariantHolds, SnapshotInvariant, PTL DEF Spec, SessionsOpenOnce
=============================================================================
