------------------------------- MODULE Reader -------------------------------
(***************************************************************************)
(* What a reader of the ledger is shown while calls go on writing it, on a *)
(* new installation or on one upgraded from a version that kept hours but  *)
(* no months.                                                              *)
(***************************************************************************)
EXTENDS Collector, Rows

CONSTANT OldFile  \* a ledger file of a version that kept hours but no months

\* It was written before the upgrade, its maps agree, and its hours are part of
\* its totals.
ASSUME OldFileAssumption ==
  /\ OldFile \in LedgerType
  /\ \A p \in Pub :
       LET e == OldFile[p] IN
       /\ e.known <=> e.last # None
       /\ ~e.known => e = Absent
       /\ e.months = NoMonths
       /\ \A h \in Hour : e.hours[h] # Zero => h <= HourOf[1]
       /\ \A d \in Dir : HourSum(e, Hour, d) <= e.total[d]

OldInit == Boot(OldFile)

UpgradeSpec == (Init \/ OldInit) /\ [][Next]_vars

\* Hours of the present version alone: all but those the old file has bytes for.
NewHours == {h \in Hour : \A p \in Pub : OldFile[p].hours[h] = Zero}
\* Hours that were over when it started.
OldHours == {h \in Hour : h < HourOf[1]}

(***************************************************************************)
(* How the reader's days lie among the hours of the ledger.                *)
(***************************************************************************)
\* The reader is in the collector's zone: its days end with the months.
SameZone == \A t \in Time : \A h \in TodayHours(t) : ZoneMonth[h] = selMonth(t)

\* Its midnights fall on whole UTC hours.
WholeHours == \A s, t \in Time : DayOf[s] < DayOf[t] => HourOf[s] < HourOf[t]

\* prune leaves at least a day.
KeepsTheDay == \A s, t \in Time : DayOf[s] = DayOf[t] => HourOf[t] - HourOf[s] <= KeepHours

(***************************************************************************)
(* Properties.                                                             *)
(***************************************************************************)
\* The hours of month m: "months follow the configured one" (ledger.go:137), but for
\* hours before the upgrade, whose months are rebuilt by UTC (ledger.go:90).
HoursOfMonth(m) == {h \in OldHours : UtcMonth[h] = m}
                     \cup {h \in NewHours \ OldHours : ZoneMonth[h] = m}

\* Whenever the file is loaded, a month holds its own hours: two calendars meet in it,
\* and no prune, erasure, backfill or snapshot across a boundary mixes them up.  Of the
\* hour of the upgrade only the part after it is known to be the configured zone's, so
\* it counts if the old file has nothing in it.  The repository disagrees with itself
\* here: the comment on the field says "Months by UTC" (ledger.go:21), the code and
\* its comment (ledger.go:137-139) take the configured zone, and so does this.
HoursInTheirMonth ==
  \A p \in Pub, d \in Dir, m \in Month :
    LET e == backfill(disk[p]) IN HourSum(e, HoursOfMonth(m), d) <= e.months[m][d]

\* What a reader is shown, at any moment, of the ledger it loads.
TodayOf(p) == today(backfill(disk[p]), now)

\* A call of this local day replaces the file.
SavesToday == disk' # disk /\ \E w \in Writer : pc[w] = "renaming" /\ DayOf[at[w]] = DayOf[now]

\* What that books for p; a first sight of it, or of it on another interface, is
\* of no day.
Growth(p) ==
  [d \in Dir |-> IF disk[p].known /\ ~Moved(disk[p], disk'[p].iface)
                 THEN disk'[p].total[d] - disk[p].total[d]
                 ELSE 0]

\* today_test.go:8, ""today" must cover the local day exactly": whatever a snapshot
\* books during a local day is in today until midnight, whatever is pruned, and
\* nothing else is; midnight takes all of it, also while a snapshot is under way.
TodayCoversTheDay ==
  \A p \in Pub :
    TodayOf(p)' = IF DayOf[now'] # DayOf[now] \/ ~disk'[p].known THEN Zero
                  ELSE IF SavesToday THEN Plus(TodayOf(p), Growth(p))
                  ELSE TodayOf(p)
TodayIsExact == [][disk' # disk \/ now' # now => TodayCoversTheDay]_vars

\* server.go:85, "months are bucketed in the collector's zone, so the default must
\* come from it": a reader in that zone never sees more today than in the month
\* shown by default (but for the hours of an old file, which have UTC months), in
\* a month than in its year, or in a year than in all.
RowsNest ==
  \A p \in Pub, d \in Dir :
    LET e == backfill(disk[p])
        shown == row(e, now, selMonth(now)) IN
    /\ HourSum(e, TodayHours(now) \cap NewHours, d) <= shown.month[d]
    /\ \A m \in availableMonths(disk) :
         e.months[m][d] <= year(e, m)[d] /\ year(e, m)[d] <= e.total[d]
=============================================================================
