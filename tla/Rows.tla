-------------------------------- MODULE Rows --------------------------------
(***************************************************************************)
(* What a reader of the ledger is shown of a peer (Ledger.rows): its bytes *)
(* of the local day, of a month, of that month's year, and of all time.    *)
(* The day is the reader's, the months are the collector's.  Names and the *)
(* order of the rows are left out.                                         *)
(***************************************************************************)
EXTENDS Ledger

CONSTANTS
  DayOf,   \* time -> day in the reader's zone; days may differ in length
  YearOf   \* month -> year

ASSUME DayAssumption ==
  /\ DayOf \in [Time -> Nat]
  /\ \A s, t \in Time : s <= t => DayOf[s] <= DayOf[t]
  /\ Month \subseteq DOMAIN YearOf

DayStart(t) == CHOOSE s \in Time : DayOf[s] = DayOf[t] /\ \A u \in Time : DayOf[u] = DayOf[t] => s <= u

\* Bug: the hour the day begins with is missed.
HoursAfterFirst(t) == {h \in Hour : /\ HourOf[DayStart(t)] < h
                                    /\ \A u \in Time : DayOf[u] > DayOf[t] => h < HourOf[u]}

\* The UTC hours from the one in which the day begins up to, without it, the one
\* in which the next day does.
TodayHours(t) == {h \in Hour : /\ HourOf[DayStart(t)] <= h
                               /\ \A u \in Time : DayOf[u] > DayOf[t] => h < HourOf[u]}

today(e, t) == [d \in Dir |-> HourSum(e, TodayHours(t), d)]

year(e, m) == [d \in Dir |-> MapThenSumSet(LAMBDA k : e.months[k][d],
                                           {k \in Month : YearOf[k] = YearOf[m]})]

\* The row of e at time t, for month m.
row(e, t, m) == [ today |-> today(e, t), month |-> e.months[m],
                  year |-> year(e, m), total |-> e.total ]

\* The months a reader may choose from.
availableMonths(l) == {m \in Month : \E p \in Pub : l[p].months[m] # Zero}

\* Bug: the month is UTC's.
UtcMonthOf(t) == UtcMonth[HourOf[t]]
\* The month shown when none is chosen: that of the clock in the collector's zone.
selMonth(t) == ZoneMonth[HourOf[t]]
=============================================================================
