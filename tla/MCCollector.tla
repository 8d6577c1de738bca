---------------------------- MODULE MCCollector ----------------------------
(***************************************************************************)
(* Small calendars and interface sets for model checking Collector.        *)
(***************************************************************************)
EXTENDS Reader, TLC

OneInterface  == {1}
TwoInterfaces == {1, 2}

OneDirection  == {"rx"}
TwoDirections == {"rx", "tx"}

\* The clock stands still: one hour, one month.
StillHours  == [t \in Time |-> 0]
StillMonths == [h \in {0} |-> 0]

\* A new hour with every tick; hour 0 is over when the clock starts.
TickHours == [t \in Time |-> t]

\* Months of two hours.  Midnight UTC between months falls after hours 0 and 2; the
\* collector's zone is an hour ahead, so there hours 0 and 2 are in a later month.
UtcMonths  == [h \in 0 .. 3 |-> (h + 1) \div 2]
EastMonths == [h \in 0 .. 3 |-> (h + 2) \div 2]
\* A year of one month, then one of two.
Years == [m \in 0 .. 2 |-> (m + 1) \div 2]

\* A reader in the collector's zone: its day is the two hours of a month.
EastDays == [t \in Time |-> (t + 2) \div 2]
OneDay == [t \in Time |-> 0]

\* A tick every half hour, and a reader whose day begins half past an hour.
HalfHours    == [t \in Time |-> (t - 1) \div 2]
HalfHourDays == [t \in Time |-> t \div 2]

(***************************************************************************)
(* An old file that knows each peer with one byte in hour 0, which is in   *)
(* month 0 by UTC and in month 1 by the collector's clock.                 *)
(***************************************************************************)
OldEntry == [Absent EXCEPT !.known = TRUE,
                           !.total = [d \in Dir |-> 1],
                           !.hours = [@ EXCEPT ![0] = [d \in Dir |-> 1]],
                           !.last = [d \in Dir |-> 1],
                           !.base = Zero]
OldLedger == [p \in Pub |-> OldEntry]

WriterSymmetry == Permutations(Writer)
=============================================================================
