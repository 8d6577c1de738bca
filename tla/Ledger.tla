------------------------------- MODULE Ledger -------------------------------
(***************************************************************************)
(* The per-peer accounting of ledger.go, as pure operators: what one       *)
(* reading of a peer's kernel counters does to what is stored about it.    *)
(*                                                                         *)
(* The Go ledger is five maps keyed by public key (Peers, Last, SessBase,  *)
(* SessAt, PrevOn).  Here a ledger is one function from keys to Entry, and *)
(* an entry has one field per map; "the map has no such key" is the value  *)
(* None (or known = FALSE for Peers, and FALSE for PrevOn, whose absence   *)
(* and whose FALSE the code cannot tell apart).                            *)
(***************************************************************************)
EXTENDS Integers, FiniteSets, FiniteSetsExt

CONSTANTS
  Pub,         \* public keys of peers
  Iface,       \* interfaces, numbered in the order wgInterfaces lists them
  Dir,         \* the counters of a peer: received and sent
  MaxTime,     \* snapshots happen at times 1 .. MaxTime
  HourOf,      \* time -> UTC hour, the key of an hour bucket
  ZoneMonth,   \* UTC hour -> month in the collector's time zone
  UtcMonth,    \* UTC hour -> month in UTC
  KeepHours,   \* hours of detail that prune leaves
  OnlineSecs,  \* a handshake younger than this means the peer is online
  None         \* an absent key

Time  == 1 .. MaxTime
Hour  == 0 .. HourOf[MaxTime]
Month == {ZoneMonth[h] : h \in Hour} \cup {UtcMonth[h] : h \in Hour}

\* Raw values of the counters in one line of a dump; also any pair of byte sums.
Reading == [Dir -> Nat]

ASSUME InterfaceAssumption == Iface \subseteq Nat
ASSUME NoneAssumption == None \notin Reading /\ None \notin Nat
ASSUME DirAssumption == IsFiniteSet(Dir) /\ Dir # {}
ASSUME CalendarAssumption ==
  /\ MaxTime \in Nat \ {0} /\ KeepHours \in Nat /\ OnlineSecs \in Nat
  /\ HourOf \in [Time -> Nat]
  /\ \A s, t \in Time : s <= t => HourOf[s] <= HourOf[t]
  /\ Hour \subseteq DOMAIN ZoneMonth /\ Hour \subseteq DOMAIN UtcMonth

Zero == [d \in Dir |-> 0]
Plus(a, b) == [d \in Dir |-> a[d] + b[d]]
Leq(a, b)  == \A d \in Dir : a[d] <= b[d]

NoHours  == [h \in Hour |-> Zero]
NoMonths == [m \in Month |-> Zero]

(***************************************************************************)
(* What the ledger stores about one key.                                   *)
(***************************************************************************)
Entry == [ known  : BOOLEAN,                 \* the key is in Peers
           iface  : Iface \cup {None},       \* interface of the last reading
           total  : Reading,
           hours  : [Hour -> Reading],
           months : [Month -> Reading],
           last   : Reading \cup {None},     \* last raw reading
           base   : Reading \cup {None},     \* raw reading at session start
           at     : Nat \cup {None},         \* session start
           prevOn : BOOLEAN ]                \* online at the previous snapshot

LedgerType == [Pub -> Entry]

\* A key the ledger holds nothing about.
Absent == [ known |-> FALSE, iface |-> None, total |-> Zero,
            hours |-> NoHours, months |-> NoMonths,
            last |-> None, base |-> None, at |-> None, prevOn |-> FALSE ]

newLedger == [p \in Pub |-> Absent]

(***************************************************************************)
(* addDelta.                                                               *)
(***************************************************************************)
\* Bug: no counter is ever zeroed.
Difference(last, r) == [d \in Dir |-> r[d] - last[d]]

\* What a reading adds: a counter below its last value was zeroed in between,
\* and then the whole value is new.
Delta(last, r) == [d \in Dir |-> IF r[d] >= last[d] THEN r[d] - last[d] ELSE r[d]]

addBucket(buckets, key, r) == [buckets EXCEPT ![key] = Plus(@, r)]

\* Bug: the first sight is a baseline only.
FreshFromBaseline(e, r) == IF e.last = None THEN Zero ELSE Delta(e.last, r)
\* The first sight counts the whole counter, as if nothing had been read before.
Fresh(e, r) == IF e.last = None THEN r ELSE Delta(e.last, r)

\* Bug: months by UTC.
addDeltaUtc(e, t, r) ==
  LET delta == Fresh(e, r)
  IN  [e EXCEPT !.known  = TRUE,
                !.total  = Plus(@, delta),
                !.hours  = IF e.last = None THEN @ ELSE addBucket(@, HourOf[t], delta),
                !.months = IF e.last = None THEN @
                           ELSE addBucket(@, UtcMonth[HourOf[t]], delta),
                !.last   = r]

\* A first sight goes to the total alone; every later delta also goes to the
\* hour and the month of the snapshot.
addDelta(e, t, r) ==
  LET delta == Fresh(e, r)
  IN  [e EXCEPT !.known  = TRUE,
                !.total  = Plus(@, delta),
                !.hours  = IF e.last = None THEN @ ELSE addBucket(@, HourOf[t], delta),
                !.months = IF e.last = None THEN @
                           ELSE addBucket(@, ZoneMonth[HourOf[t]], delta),
                !.last   = r]

(***************************************************************************)
(* updateSession.                                                          *)
(***************************************************************************)
Online(t, hs) == hs > 0 /\ t - hs < OnlineSecs

\* Some counter is below the session's baseline.
BelowBase(e, r) == e.base # None /\ \E d \in Dir : r[d] < e.base[d]

\* Bug: going offline opens a session as well.
OpensOnChange(e, r, online) == e.base = None \/ BelowBase(e, r) \/ online # e.prevOn
Opens(e, r, online) == \/ e.base = None
                       \/ BelowBase(e, r)
                       \/ online /\ ~e.prevOn

updateSession(e, r, online, hs, prevRaw) ==
  LET opens == Opens(e, r, online)
      base  == IF BelowBase(e, r)   THEN Zero
               ELSE IF prevRaw # None THEN prevRaw
               ELSE r
  IN  [e EXCEPT !.base   = IF opens THEN base ELSE @,
                !.at     = IF opens /\ online THEN hs ELSE @,
                !.prevOn = online]

(***************************************************************************)
(* What collectOnce does with one peer of one interface's dump.            *)
(***************************************************************************)
\* Bug: the interface of the last reading is not looked at.
AnyKnown(e, i) == e.known
Moved(e, i) == e.known /\ e.iface # None /\ e.iface # i

\* Bug: a reading is compared with one of another interface.
AsRead(e, i) == e
Rebaselined(e, i) == IF Moved(e, i) THEN [e EXCEPT !.last = None] ELSE e

foldPeer(e, t, i, r, hs) ==
  LET q == Rebaselined(e, i)
  IN  updateSession([addDelta(q, t, r) EXCEPT !.iface = i], r, Online(t, hs), hs, q.last)

(***************************************************************************)
(* prune, and the months that loadLedger rebuilds for a ledger written     *)
(* before months were kept.                                                *)
(***************************************************************************)
prune(e, t) ==
  [e EXCEPT !.hours =
     [h \in Hour |-> IF h < HourOf[t] - KeepHours THEN Zero ELSE e.hours[h]]]

\* The bytes of direction d in the hours of H.
HourSum(e, H, d) == MapThenSumSet(LAMBDA h : e.hours[h][d], H)

backfill(e) ==
  IF e.months = NoMonths /\ e.hours # NoHours
  THEN [e EXCEPT !.months = [m \in Month |-> [d \in Dir |->
                               HourSum(e, {h \in Hour : UtcMonth[h] = m}, d)]]]
  ELSE e

\* There is nothing to backfill: whoever has hours has months.
Upgraded(e) == e.months = NoMonths => e.hours = NoHours
=============================================================================
