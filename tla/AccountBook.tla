----------------------------- MODULE AccountBook -----------------------------
(***************************************************************************)
(* What the ledger promises its reader, with no interface, no snapshot, no *)
(* lock and no file in sight.  Bytes are carried for a peer; from time to  *)
(* time the book catches up with some of what was carried; a peer can be   *)
(* erased.  The book never lags backwards and never runs ahead of the      *)
(* traffic, whatever restarts, crashes or failures happen underneath.      *)
(***************************************************************************)
EXTENDS Integers

CONSTANTS Pub, Dir

VARIABLES
  carried,  \* bytes carried for a peer since it was last erased
  book      \* bytes the book shows for it

vars == <<carried, book>>

Reading == [Dir -> Nat]
Zero == [d \in Dir |-> 0]
Leq(a, b) == \A d \in Dir : a[d] <= b[d]

Init == /\ carried = [p \in Pub |-> Zero]
        /\ book = [p \in Pub |-> Zero]

Carry == /\ carried' \in [Pub -> Reading]
         /\ \A p \in Pub : Leq(carried[p], carried'[p])
         /\ UNCHANGED book

Record == /\ book' \in [Pub -> Reading]
          /\ \A p \in Pub : Leq(book[p], book'[p]) /\ Leq(book'[p], carried[p])
          /\ UNCHANGED carried

Erase(p) == /\ book' = [book EXCEPT ![p] = Zero]
            /\ carried' \in [Pub -> Reading]
            /\ Leq(carried'[p], carried[p])
            /\ \A q \in Pub \ {p} : carried'[q] = carried[q]

Next == \/ Carry
        \/ Record
        \/ \E p \in Pub : Erase(p)

Spec == Init /\ [][Next]_vars
=============================================================================
