---------------------------- MODULE Serve_proofs ----------------------------
(***************************************************************************)
(* The server and its page, proved for any peers, handlers and bounds: no  *)
(* session is clipped, and a deleted peer does not come back to the page.  *)
(***************************************************************************)
EXTENDS Serve, TLAPS

\* What the ledger says of a session is not ahead of the peer's counter.
Behind(e, n) == e # None => e.base <= e.last /\ e.last <= n

\* Neither the file nor the ledger to be saved is ahead of the counters.
LedgersBehind == \A p \in Pub : Behind(ledger[p], ctr[p]) /\ Behind(mem[p], ctr[p])

\* Nor are the rows of a handler that is about to read the counters.
RowsBehind == \A r \in Req : req[r].pc = "live" => \A p \in Pub : Behind(req[r].rows[p], ctr[p])

\* Only a snapshot that has read the interfaces has a ledger to save.
NothingToSave == loop # "saving" => mem = NoLedger

\* Nothing is left of a peer, and no snapshot will write it again.
Gone(p) == p \notin live \cup unborn /\ ledger[p] = None /\ mem[p] = None

\* How far the deletion of a peer has come.
DeletionTakes ==
  /\ del.pc = "unlive" => del.pub \in live
  /\ del.pc = "forget" => del.pub \in Pub \ (live \cup unborn)
  /\ del.pc = "done" => del.pub \in Pub /\ Gone(del.pub)

\* A peer whose deletion the page has learnt of stays gone.
DeletedGone == \A p \in Pub : deletedAt[p] # 0 => Gone(p)

\* No request has a number that is yet to be given.
Numbered == \A r \in Req : req[r].seq <= reqSeq

\* A request made after the deletion of a peer finds nothing of it.
AnswersWithout ==
  \A r \in Req, p \in Pub :
    deletedAt[p] # 0 /\ deletedAt[p] <= req[r].seq =>
      req[r].rows[p] = None /\ req[r].readings[p] = None /\ p \notin req[r].answer

\* The inductive invariant.
IInv == /\ TypeOK /\ SessionsAddUp /\ DeletedStaysOff
        /\ LedgersBehind /\ RowsBehind /\ NothingToSave
        /\ DeletionTakes /\ DeletedGone /\ Numbered /\ AnswersWithout
-----------------------------------------------------------------------------
\* The empty ledger is a ledger.
LEMMA NoLedgerFacts == NoLedger \in Ledger /\ \A p \in Pub : NoLedger[p] = None
  BY DEF NoLedger, Ledger

\* What is behind a counter stays behind it when the counter grows.
LEMMA StaysBehind ==
  ASSUME NEW e \in Entry \cup {None}, NEW m \in Nat, NEW n \in Nat, m <= n, Behind(e, m)
  PROVE  Behind(e, n)
  BY DEF Behind, Entry

\* A peer that is added is a new one.
LEMMA AttachSafe ==
  ASSUME IInv, NEW p \in Pub, Attach(p)
  PROVE  IInv'
<1>1. TypeOK'
  BY DEF IInv, TypeOK, Attach, server, page
<1>2. DeletionTakes'
  BY DEF IInv, TypeOK, DeletionTakes, Gone, Attach, server, page
<1>3. DeletedGone'
  BY DEF IInv, TypeOK, DeletedGone, Gone, Attach, server, page
<1>4. /\ SessionsAddUp' /\ DeletedStaysOff' /\ LedgersBehind' /\ RowsBehind'
      /\ NothingToSave' /\ Numbered' /\ AnswersWithout'
  BY DEF IInv, TypeOK, SessionsAddUp, Base, DeletedStaysOff, LedgersBehind, Behind,
      RowsBehind, NothingToSave, Numbered, AnswersWithout, Attach, server, page
<1> QED
  BY <1>1, <1>2, <1>3, <1>4 DEF IInv

\* Counters only grow.
LEMMA TrafficSafe ==
  ASSUME IInv, NEW p \in Pub, Traffic(p)
  PROVE  IInv'
<1>1. /\ ctr' \in [Pub -> 0 .. MaxBytes]
      /\ \A q \in Pub : ctr[q] \in Nat /\ ctr'[q] \in Nat /\ ctr[q] <= ctr'[q]
  BY BoundAssumption DEF IInv, TypeOK, Traffic
<1>2. TypeOK'
  BY <1>1 DEF IInv, TypeOK, Traffic, server, page
<1>3. LedgersBehind'
  <2>1. ASSUME NEW q \in Pub PROVE Behind(ledger[q], ctr'[q]) /\ Behind(mem[q], ctr'[q])
    BY <1>1, StaysBehind DEF IInv, TypeOK, Ledger, LedgersBehind
  <2> QED
    BY <2>1 DEF LedgersBehind, Traffic, server
<1>4. RowsBehind'
  <2>1. ASSUME NEW r \in Req, req[r].pc = "live", NEW q \in Pub
        PROVE  Behind(req[r].rows[q], ctr'[q])
    <3>1. req[r].rows[q] \in Entry \cup {None}
      BY DEF IInv, TypeOK, Request, Ledger
    <3> QED
      BY <1>1, <2>1, <3>1, StaysBehind DEF IInv, RowsBehind
  <2> QED
    BY <2>1 DEF RowsBehind, Traffic
<1>5. /\ SessionsAddUp' /\ DeletedStaysOff' /\ NothingToSave' /\ DeletionTakes'
      /\ DeletedGone' /\ Numbered' /\ AnswersWithout'
  BY <1>1
  DEF IInv, TypeOK, SessionsAddUp, Base, DeletedStaysOff, NothingToSave,
      DeletionTakes, Gone, DeletedGone, Numbered, AnswersWithout, Traffic,
      server, page
<1> QED
  BY <1>2, <1>3, <1>4, <1>5 DEF IInv

\* A tick, or the goroutine taking one up, leaves the data alone.
LEMMA TickSafe ==
  ASSUME IInv, Tick \/ Select \/ Begin
  PROVE  IInv'
<1>1. TypeOK'
  BY DEF IInv, TypeOK, Tick, Select, Begin, kernel, page
<1>2. NothingToSave'
  BY DEF IInv, TypeOK, NothingToSave, Tick, Select, Begin, kernel, page
<1>3. /\ SessionsAddUp' /\ DeletedStaysOff' /\ LedgersBehind' /\ RowsBehind'
      /\ DeletionTakes' /\ DeletedGone' /\ Numbered' /\ AnswersWithout'
  BY DEF IInv, TypeOK, SessionsAddUp, Base, DeletedStaysOff, LedgersBehind, Behind,
      RowsBehind, DeletionTakes, Gone, DeletedGone, Numbered, AnswersWithout,
      Tick, Select, Begin, kernel, page
<1> QED
  BY <1>1, <1>2, <1>3 DEF IInv

\* A tool that hangs keeps the snapshot from getting any data.
LEMMA HangSafe ==
  ASSUME IInv, Hang
  PROVE  IInv'
<1>1. TypeOK'
  BY BoundAssumption DEF IInv, TypeOK, Hang, kernel, page
<1>2. NothingToSave'
  BY BoundAssumption DEF IInv, TypeOK, NothingToSave, Hang, kernel, page
<1>3. /\ SessionsAddUp' /\ DeletedStaysOff' /\ LedgersBehind' /\ RowsBehind'
      /\ DeletionTakes' /\ DeletedGone' /\ Numbered' /\ AnswersWithout'
  BY BoundAssumption
  DEF IInv, TypeOK, SessionsAddUp, Base, DeletedStaysOff, LedgersBehind, Behind,
      RowsBehind, DeletionTakes, Gone, DeletedGone, Numbered, AnswersWithout,
      Hang, kernel, page
<1> QED
  BY <1>1, <1>2, <1>3 DEF IInv

\* An interface that is skipped leaves the ledger as it was loaded.
LEMMA TimeOutSafe ==
  ASSUME IInv, TimeOut
  PROVE  IInv'
<1>1. TypeOK'
  BY DEF IInv, TypeOK, TimeOut, kernel, page
<1>2. LedgersBehind'
  BY DEF IInv, TypeOK, LedgersBehind, Behind, TimeOut, kernel, page
<1>3. NothingToSave'
  BY DEF IInv, TypeOK, NothingToSave, TimeOut, kernel, page
<1>4. DeletionTakes'
  BY DEF IInv, TypeOK, DeletionTakes, Gone, TimeOut, kernel, page
<1>5. DeletedGone'
  BY DEF IInv, TypeOK, DeletedGone, Gone, TimeOut, kernel, page
<1>6. /\ SessionsAddUp' /\ DeletedStaysOff' /\ RowsBehind' /\ Numbered'
      /\ AnswersWithout'
  BY DEF IInv, TypeOK, SessionsAddUp, Base, DeletedStaysOff, RowsBehind, Behind,
      Numbered, AnswersWithout, TimeOut, kernel, page
<1> QED
  BY <1>1, <1>2, <1>3, <1>4, <1>5, <1>6 DEF IInv

\* The ledger that is saved is not ahead of the counters.
LEMMA SaveSafe ==
  ASSUME IInv, Save
  PROVE  IInv'
<1>1. TypeOK'
  BY NoLedgerFacts, BoundAssumption DEF IInv, TypeOK, Save, Done, kernel, page
<1>2. LedgersBehind'
  BY NoLedgerFacts, BoundAssumption
  DEF IInv, TypeOK, LedgersBehind, Behind, Save, Done, kernel, page
<1>3. NothingToSave'
  BY NoLedgerFacts, BoundAssumption
  DEF IInv, TypeOK, NothingToSave, Save, Done, kernel, page
<1>4. DeletionTakes'
  BY NoLedgerFacts, BoundAssumption
  DEF IInv, TypeOK, DeletionTakes, Gone, Save, Done, kernel, page
<1>5. DeletedGone'
  BY NoLedgerFacts, BoundAssumption
  DEF IInv, TypeOK, DeletedGone, Gone, Save, Done, kernel, page
<1>6. /\ SessionsAddUp' /\ DeletedStaysOff' /\ RowsBehind' /\ Numbered'
      /\ AnswersWithout'
  BY NoLedgerFacts, BoundAssumption
  DEF IInv, TypeOK, SessionsAddUp, Base, DeletedStaysOff, RowsBehind, Behind,
      Numbered, AnswersWithout, Save, Done, kernel, page
<1> QED
  BY <1>1, <1>2, <1>3, <1>4, <1>5, <1>6 DEF IInv

\* A snapshot that fails leaves the ledger alone.
LEMMA FailSnapshotSafe ==
  ASSUME IInv, FailSnapshot
  PROVE  IInv'
<1>1. TypeOK'
  BY NoLedgerFacts, BoundAssumption
  DEF IInv, TypeOK, FailSnapshot, Done, kernel, page
<1>2. LedgersBehind'
  BY NoLedgerFacts, BoundAssumption
  DEF IInv, TypeOK, LedgersBehind, Behind, FailSnapshot, Done, kernel, page
<1>3. NothingToSave'
  BY NoLedgerFacts, BoundAssumption
  DEF IInv, TypeOK, NothingToSave, FailSnapshot, Done, kernel, page
<1>4. DeletionTakes'
  BY NoLedgerFacts, BoundAssumption
  DEF IInv, TypeOK, DeletionTakes, Gone, FailSnapshot, Done, kernel, page
<1>5. DeletedGone'
  BY NoLedgerFacts, BoundAssumption
  DEF IInv, TypeOK, DeletedGone, Gone, FailSnapshot, Done, kernel, page
<1>6. /\ SessionsAddUp' /\ DeletedStaysOff' /\ RowsBehind' /\ Numbered'
      /\ AnswersWithout'
  BY NoLedgerFacts, BoundAssumption
  DEF IInv, TypeOK, SessionsAddUp, Base, DeletedStaysOff, RowsBehind, Behind,
      Numbered, AnswersWithout, FailSnapshot, Done, kernel, page
<1> QED
  BY <1>1, <1>2, <1>3, <1>4, <1>5, <1>6 DEF IInv

\* A reading folded into an entry is where the session stands, and not ahead of it.
LEMMA FoldedBehind ==
  ASSUME NEW e \in Entry \cup {None}, NEW n \in Nat, NEW opens \in BOOLEAN, Behind(e, n)
  PROVE  Folded(e, n, opens) \in Entry /\ Behind(Folded(e, n, opens), n)
  BY DEF Behind, Entry, Folded

\* A request that is not under way has no data.
LEMMA NoRequestFacts ==
  /\ NoRequest \in Request /\ NoRequest.seq = 0 /\ NoRequest.answer = {} /\ NoRequest.pc = "free"
  /\ \A p \in Pub : NoRequest.rows[p] = None /\ NoRequest.readings[p] = None
  BY NoLedgerFacts DEF NoRequest, Request, NoReadings

\* A snapshot takes the readings of peers that run, and of no peer that is gone.
LEMMA DumpSafe ==
  ASSUME IInv, Dump
  PROVE  IInv'
<1>1. /\ mem' \in Ledger /\ loop = "dumping" /\ loop' = "saving"
      /\ \A p \in Pub : Behind(mem'[p], ctr[p]) /\ (p \notin live => mem'[p] = ledger[p])
  <2> PICK opening \in SUBSET live :
          mem' = [p \in Pub |-> IF p \in live THEN Folded(ledger[p], ctr[p], p \in opening)
                                ELSE ledger[p]]
    BY DEF Dump
  <2>1. ASSUME NEW p \in Pub
        PROVE  /\ mem'[p] \in Entry \cup {None} /\ Behind(mem'[p], ctr[p])
               /\ p \notin live => mem'[p] = ledger[p]
    <3>1. /\ ledger[p] \in Entry \cup {None} /\ ctr[p] \in Nat
          /\ Behind(ledger[p], ctr[p])
      BY BoundAssumption DEF IInv, TypeOK, Ledger, LedgersBehind
    <3>2. (p \in opening) \in BOOLEAN
      OBVIOUS
    <3>3. /\ Folded(ledger[p], ctr[p], p \in opening) \in Entry
          /\ Behind(Folded(ledger[p], ctr[p], p \in opening), ctr[p])
      BY <3>1, <3>2, FoldedBehind
    <3> QED
      BY <3>1, <3>3
  <2> QED
    BY <2>1 DEF Dump, Ledger
<1>2. TypeOK'
  BY <1>1 DEF IInv, TypeOK, Dump, kernel, page
<1>3. LedgersBehind'
  BY <1>1 DEF IInv, TypeOK, LedgersBehind, Behind, Dump, kernel, page
<1>4. NothingToSave'
  BY <1>1 DEF IInv, TypeOK, NothingToSave, Dump, kernel, page
<1>5. DeletionTakes'
  BY <1>1 DEF IInv, TypeOK, DeletionTakes, Gone, Dump, kernel, page
<1>6. DeletedGone'
  BY <1>1 DEF IInv, TypeOK, DeletedGone, Gone, Dump, kernel, page
<1>7. /\ SessionsAddUp' /\ DeletedStaysOff' /\ RowsBehind' /\ Numbered'
      /\ AnswersWithout'
  BY <1>1
  DEF IInv, TypeOK, SessionsAddUp, Base, DeletedStaysOff, RowsBehind, Behind,
      Numbered, AnswersWithout, Dump, kernel, page
<1> QED
  BY <1>2, <1>3, <1>4, <1>5, <1>6, <1>7 DEF IInv

\* A handler loads a ledger that is not ahead of the counters.
LEMMA LoadRowsSafe ==
  ASSUME IInv, NEW r \in Req, LoadRows(r)
  PROVE  IInv'
<1>1. /\ req' \in [Req -> Request] /\ \A q \in Req : q # r => req'[q] = req[q]
      /\ req'[r].pc = "live" /\ req'[r].rows = ledger /\ req'[r].seq = req[r].seq
      /\ req'[r].readings = req[r].readings /\ req'[r].answer = req[r].answer
      /\ UNCHANGED <<live, unborn, ctr, ledger, loop, mem, ticked, trigger, up, del, reqSeq, shown, newest,
                   deletedAt, told, failures>>
  BY DEF LoadRows, IInv, TypeOK, Request, kernel, server, page
<1>2. TypeOK'
  BY <1>1 DEF IInv, TypeOK
<1>3. SessionsAddUp'
  BY <1>1 DEF IInv, TypeOK, SessionsAddUp, Base
<1>4. RowsBehind'
  BY <1>1 DEF IInv, TypeOK, RowsBehind, LedgersBehind
<1>5. Numbered'
  BY <1>1 DEF IInv, TypeOK, Numbered
<1>6. AnswersWithout'
  BY <1>1 DEF IInv, TypeOK, AnswersWithout, DeletedGone, Gone
<1>7. /\ DeletedStaysOff' /\ LedgersBehind' /\ NothingToSave' /\ DeletionTakes'
      /\ DeletedGone'
  BY <1>1
  DEF IInv, TypeOK, DeletedStaysOff, LedgersBehind, Behind, NothingToSave,
      DeletionTakes, Gone, DeletedGone
<1> QED
  BY <1>2, <1>3, <1>4, <1>5, <1>6, <1>7 DEF IInv

\* A change of one request leaves the others as they are.
LEMMA OnlyRequest ==
  ASSUME NEW f \in [Req -> Request], NEW r \in Req, NEW x \in Request
  PROVE  LET g == [f EXCEPT ![r] = x] IN
         g \in [Req -> Request] /\ g[r] = x /\ \A q \in Req : q # r => g[q] = f[q]
  OBVIOUS

\* The counters, read after the ledger, have reached what it says.
LEMMA ReadLiveSafe ==
  ASSUME IInv, NEW r \in Req, ReadLive(r)
  PROVE  IInv'
<1>1. /\ req' \in [Req -> Request] /\ \A q \in Req : q # r => req'[q] = req[q]
      /\ req[r].pc = "live" /\ req'[r].pc = "kick" /\ req'[r].seq = req[r].seq
      /\ req'[r].rows = req[r].rows /\ req'[r].answer = req[r].answer
      /\ \A p \in Pub : /\ req'[r].readings[p] \in {ctr[p], None}
                        /\ p \notin live => req'[r].readings[p] = None
      /\ UNCHANGED <<live, unborn, ctr, ledger, loop, mem, ticked, trigger, up, del, reqSeq, shown, newest,
                   deletedAt, told, failures>>
  <2>1. PICK seen \in SUBSET live :
          req' = [req EXCEPT ![r].pc = "kick",
                             ![r].readings = [p \in Pub |-> IF p \in seen THEN ctr[p] ELSE None]]
    BY DEF ReadLive
  <2> DEFINE seenNow == [p \in Pub |-> IF p \in seen THEN ctr[p] ELSE None]
  <2>2. /\ seenNow \in [Pub -> Nat \cup {None}]
        /\ \A p \in Pub : seenNow[p] \in {ctr[p], None} /\ (p \notin live => seenNow[p] = None)
    BY BoundAssumption DEF IInv, TypeOK
  <2>3. req' = [req EXCEPT ![r].pc = "kick", ![r].readings = seenNow]
    BY <2>1
  <2> HIDE DEF seenNow
  <2> DEFINE read == [req[r] EXCEPT !.pc = "kick", !.readings = seenNow]
  <2>4. /\ read \in Request /\ read.pc = "kick" /\ read.seq = req[r].seq
        /\ read.rows = req[r].rows /\ read.answer = req[r].answer /\ read.readings = seenNow
    <3>1. req[r] \in Request
      BY DEF IInv, TypeOK
    <3> QED
      BY <2>2, <3>1 DEF Request
  <2>5. req \in [Req -> Request] /\ req' = [req EXCEPT ![r] = read]
    BY <2>3 DEF IInv, TypeOK
  <2> HIDE DEF read
  <2>6. req' \in [Req -> Request] /\ req'[r] = read /\ \A q \in Req : q # r => req'[q] = req[q]
    BY <2>4, <2>5, OnlyRequest
  <2>7. /\ req[r].pc = "live"
        /\ UNCHANGED <<live, unborn, ctr, ledger, loop, mem, ticked, trigger, up, del, reqSeq, shown,
                     newest, deletedAt, told, failures>>
    BY DEF ReadLive, kernel, server, page
  <2> QED
    BY <2>2, <2>4, <2>6, <2>7
<1>2. TypeOK'
  BY <1>1 DEF IInv, TypeOK
<1>3. SessionsAddUp'
  <2> SUFFICES ASSUME NEW q \in Req, req'[q].pc = "kick", NEW p \in Pub, req'[q].readings[p] # None
               PROVE  Base(q, p)' <= req'[q].readings[p]
    BY DEF SessionsAddUp
  <2>1. CASE q # r
    BY <1>1, <2>1 DEF IInv, SessionsAddUp, Base
  <2>2. CASE q = r
    <3>1. req'[r].readings[p] = ctr[p] /\ ctr[p] \in Nat
      BY <1>1, <2>2, BoundAssumption DEF IInv, TypeOK
    <3>2. req[r].rows \in Ledger
      BY DEF IInv, TypeOK, Request
    <3>3. CASE req[r].rows[p] = None
      BY <1>1, <2>2, <3>1, <3>3 DEF Base
    <3>4. CASE req[r].rows[p] # None
      <4>1. req[r].rows[p] \in Entry
        BY <3>2, <3>4 DEF Ledger
      <4>2. req[r].rows[p].base <= req[r].rows[p].last /\ req[r].rows[p].last <= ctr[p]
        BY <1>1, <3>4 DEF IInv, RowsBehind, Behind
      <4>3. Base(r, p)' = req[r].rows[p].base
        BY <1>1, <3>4 DEF Base
      <4> QED
        BY <2>2, <3>1, <4>1, <4>2, <4>3 DEF Entry
    <3> QED
      BY <3>3, <3>4
  <2> QED
    BY <2>1, <2>2
<1>4. RowsBehind'
  BY <1>1 DEF IInv, TypeOK, RowsBehind, Behind
<1>5. Numbered'
  BY <1>1 DEF IInv, TypeOK, Numbered
<1>6. AnswersWithout'
  BY <1>1 DEF IInv, TypeOK, AnswersWithout, DeletedGone, Gone
<1>7. /\ DeletedStaysOff' /\ LedgersBehind' /\ NothingToSave' /\ DeletionTakes'
      /\ DeletedGone'
  BY <1>1
  DEF IInv, TypeOK, DeletedStaysOff, LedgersBehind, Behind, NothingToSave,
      DeletionTakes, Gone, DeletedGone
<1> QED
  BY <1>2, <1>3, <1>4, <1>5, <1>6, <1>7 DEF IInv

\* The answer has the peers of the ledger and of the interfaces.
LEMMA KickSafe ==
  ASSUME IInv, NEW r \in Req, Kick(r)
  PROVE  IInv'
<1>1. /\ req' \in [Req -> Request] /\ \A q \in Req : q # r => req'[q] = req[q]
      /\ req'[r].pc = "reply" /\ req'[r].seq = req[r].seq /\ req'[r].answer = Rows(r)
      /\ \A p \in Pub : req'[r].rows[p] = None /\ req'[r].readings[p] = None
      /\ trigger' \in BOOLEAN /\ told' \subseteq Pub
      /\ UNCHANGED <<live, unborn, ctr, ledger, loop, mem, ticked, up, del, reqSeq, shown, newest,
                   deletedAt, failures>>
  BY NoRequestFacts DEF Kick, New, Rows, IInv, TypeOK, Request, kernel, page
<1>2. TypeOK'
  BY <1>1 DEF IInv, TypeOK
<1>3. SessionsAddUp'
  BY <1>1 DEF IInv, TypeOK, SessionsAddUp, Base
<1>4. RowsBehind'
  BY <1>1 DEF IInv, TypeOK, RowsBehind, Behind
<1>5. Numbered'
  BY <1>1 DEF IInv, TypeOK, Numbered
<1>6. AnswersWithout'
  BY <1>1 DEF IInv, TypeOK, AnswersWithout, Rows, New
<1>7. /\ DeletedStaysOff' /\ LedgersBehind' /\ NothingToSave' /\ DeletionTakes'
      /\ DeletedGone'
  BY <1>1
  DEF IInv, TypeOK, DeletedStaysOff, LedgersBehind, Behind, NothingToSave,
      DeletionTakes, Gone, DeletedGone
<1> QED
  BY <1>2, <1>3, <1>4, <1>5, <1>6, <1>7 DEF IInv

\* Only the answer to the latest request is rendered.
LEMMA ReplySafe ==
  ASSUME IInv, NEW r \in Req, Reply(r)
  PROVE  IInv'
<1>1. /\ req' \in [Req -> Request] /\ \A q \in Req : q # r => req'[q] = req[q]
      /\ req'[r].pc = "free" /\ req'[r].seq = 0 /\ req'[r].answer = {}
      /\ \A p \in Pub : req'[r].rows[p] = None /\ req'[r].readings[p] = None
      /\ \/ req[r].seq = reqSeq /\ shown' = req[r].answer /\ newest' = reqSeq
         \/ UNCHANGED <<shown, newest>>
      /\ UNCHANGED <<live, unborn, ctr, ledger, loop, mem, ticked, trigger, up, del, reqSeq,
                   deletedAt, told, failures>>
  BY NoRequestFacts DEF Reply, IInv, TypeOK, Request, kernel, server
<1>2. TypeOK'
  BY <1>1, BoundAssumption DEF IInv, TypeOK, Request
<1>3. SessionsAddUp'
  BY <1>1 DEF IInv, TypeOK, SessionsAddUp, Base
<1>4. DeletedStaysOff'
  BY <1>1 DEF IInv, TypeOK, DeletedStaysOff, AnswersWithout
<1>5. RowsBehind'
  BY <1>1 DEF IInv, TypeOK, RowsBehind, Behind
<1>6. Numbered'
  BY <1>1, BoundAssumption DEF IInv, TypeOK, Numbered
<1>7. AnswersWithout'
  BY <1>1 DEF IInv, TypeOK, AnswersWithout
<1>8. LedgersBehind' /\ NothingToSave' /\ DeletionTakes' /\ DeletedGone'
  BY <1>1
  DEF IInv, TypeOK, LedgersBehind, Behind, NothingToSave, DeletionTakes, Gone,
      DeletedGone
<1> QED
  BY <1>2, <1>3, <1>4, <1>5, <1>6, <1>7, <1>8 DEF IInv

\* A request that fails leaves the page as it is.
LEMMA FailRequestSafe ==
  ASSUME IInv, NEW r \in Req, FailRequest(r)
  PROVE  IInv'
<1>1. /\ req' \in [Req -> Request] /\ \A q \in Req : q # r => req'[q] = req[q]
      /\ req'[r].pc = "free" /\ req'[r].seq = 0 /\ req'[r].answer = {}
      /\ \A p \in Pub : req'[r].rows[p] = None /\ req'[r].readings[p] = None
      /\ UNCHANGED <<live, unborn, ctr, ledger, loop, mem, ticked, trigger, up, del, reqSeq, shown, newest,
                   deletedAt, told, failures>>
  BY NoRequestFacts DEF FailRequest, IInv, TypeOK, kernel, server, page
<1>2. TypeOK'
  BY <1>1 DEF IInv, TypeOK
<1>3. SessionsAddUp'
  BY <1>1 DEF IInv, TypeOK, SessionsAddUp, Base
<1>4. RowsBehind'
  BY <1>1 DEF IInv, TypeOK, RowsBehind, Behind
<1>5. Numbered'
  BY <1>1, BoundAssumption DEF IInv, TypeOK, Numbered
<1>6. AnswersWithout'
  BY <1>1 DEF IInv, TypeOK, AnswersWithout
<1>7. /\ DeletedStaysOff' /\ LedgersBehind' /\ NothingToSave' /\ DeletionTakes'
      /\ DeletedGone'
  BY <1>1
  DEF IInv, TypeOK, DeletedStaysOff, LedgersBehind, Behind, NothingToSave,
      DeletionTakes, Gone, DeletedGone
<1> QED
  BY <1>2, <1>3, <1>4, <1>5, <1>6, <1>7 DEF IInv

\* A request that is sent has a number and no data.
Sent(n) == [NoRequest EXCEPT !.pc = "load", !.seq = n]

\* It is a request that knows of no peer.
LEMMA SentFacts ==
  ASSUME NEW n \in Nat
  PROVE  /\ Sent(n) \in Request /\ Sent(n).pc = "load" /\ Sent(n).seq = n /\ Sent(n).answer = {}
         /\ \A p \in Pub : Sent(n).rows[p] = None /\ Sent(n).readings[p] = None
  BY NoRequestFacts DEF Request, Sent

\* A new request has the next number, and nothing of any peer yet.
LEMMA LoadSafe ==
  ASSUME IInv, NEW r \in Req, Load(r)
  PROVE  IInv'
<1>1. /\ req' \in [Req -> Request] /\ \A q \in Req : q # r => req'[q] = req[q]
      /\ req[r].pc = "free" /\ req'[r].pc = "load" /\ req'[r].seq = reqSeq + 1
      /\ req'[r].answer = {} /\ \A p \in Pub : req'[r].rows[p] = None /\ req'[r].readings[p] = None
      /\ reqSeq \in Nat /\ reqSeq' = reqSeq + 1 /\ reqSeq' \in 0 .. MaxLoads /\ up
      /\ UNCHANGED <<del, deletedAt>>
      /\ UNCHANGED <<live, unborn, ctr, ledger, loop, mem, ticked, trigger, up, shown, newest,
                   told, failures>>
  <2>1. reqSeq \in Nat /\ reqSeq + 1 \in Nat /\ reqSeq + 1 \in 0 .. MaxLoads
    BY BoundAssumption DEF Load, SendRequest, IInv, TypeOK
  <2>2. /\ Sent(reqSeq + 1) \in Request /\ Sent(reqSeq + 1).pc = "load"
        /\ Sent(reqSeq + 1).seq = reqSeq + 1 /\ Sent(reqSeq + 1).answer = {}
        /\ \A p \in Pub : Sent(reqSeq + 1).rows[p] = None /\ Sent(reqSeq + 1).readings[p] = None
    BY <2>1, SentFacts
  <2>3. req' = [req EXCEPT ![r] = Sent(reqSeq + 1)]
    BY DEF Load, SendRequest, Sent
  <2>4. req' \in [Req -> Request] /\ req'[r] = Sent(reqSeq + 1) /\ \A q \in Req : q # r => req'[q] = req[q]
    BY <2>2, <2>3, OnlyRequest DEF IInv, TypeOK
  <2>5. /\ req[r].pc = "free" /\ up /\ reqSeq' = reqSeq + 1
        /\ UNCHANGED <<del, deletedAt>>
        /\ UNCHANGED <<live, unborn, ctr, ledger, loop, mem, ticked, trigger, up, shown, newest,
                     told, failures>>
    BY DEF Load, SendRequest, kernel, server
  <2> QED
    BY <2>1, <2>2, <2>4, <2>5
<1>2. TypeOK'
  BY <1>1, BoundAssumption DEF IInv, TypeOK, Request
<1>3. SessionsAddUp'
  BY <1>1 DEF IInv, TypeOK, SessionsAddUp, Base
<1>4. RowsBehind'
  BY <1>1 DEF IInv, TypeOK, RowsBehind, Behind
<1>5. Numbered'
  BY <1>1, BoundAssumption DEF IInv, TypeOK, Request, Numbered
<1>6. AnswersWithout'
  BY <1>1 DEF IInv, TypeOK, AnswersWithout
<1>7. /\ DeletedStaysOff' /\ LedgersBehind' /\ NothingToSave' /\ DeletionTakes'
      /\ DeletedGone'
  BY <1>1
  DEF IInv, TypeOK, DeletedStaysOff, LedgersBehind, Behind, NothingToSave,
      DeletionTakes, Gone, DeletedGone
<1> QED
  BY <1>2, <1>3, <1>4, <1>5, <1>6, <1>7 DEF IInv

\* A request made after a deletion has a number that no earlier one has: none that is
\* under way, and none whose answer was rendered.
LEMMA DeletedSafe ==
  ASSUME IInv, NEW r \in Req, Deleted(r)
  PROVE  IInv'
<1>1. /\ req' \in [Req -> Request] /\ \A q \in Req : q # r => req'[q] = req[q]
      /\ req[r].pc = "free" /\ req'[r].pc = "load" /\ req'[r].seq = reqSeq + 1
      /\ req'[r].answer = {} /\ \A p \in Pub : req'[r].rows[p] = None /\ req'[r].readings[p] = None
      /\ reqSeq \in Nat /\ reqSeq' = reqSeq + 1 /\ reqSeq' \in 0 .. MaxLoads /\ up
      /\ del.pc = "done" /\ del.pub \in Pub /\ del' = NoDeletion /\ Gone(del.pub)
      /\ deletedAt' = [deletedAt EXCEPT ![del.pub] = reqSeq + 1]
      /\ UNCHANGED <<live, unborn, ctr, ledger, loop, mem, ticked, trigger, up, shown, newest,
                   told, failures>>
  <2>1. reqSeq \in Nat /\ reqSeq + 1 \in Nat /\ reqSeq + 1 \in 0 .. MaxLoads
    BY BoundAssumption DEF Deleted, SendRequest, IInv, TypeOK
  <2>2. /\ Sent(reqSeq + 1) \in Request /\ Sent(reqSeq + 1).pc = "load"
        /\ Sent(reqSeq + 1).seq = reqSeq + 1 /\ Sent(reqSeq + 1).answer = {}
        /\ \A p \in Pub : Sent(reqSeq + 1).rows[p] = None /\ Sent(reqSeq + 1).readings[p] = None
    BY <2>1, SentFacts
  <2>3. req' = [req EXCEPT ![r] = Sent(reqSeq + 1)]
    BY DEF Deleted, SendRequest, Sent
  <2>4. req' \in [Req -> Request] /\ req'[r] = Sent(reqSeq + 1) /\ \A q \in Req : q # r => req'[q] = req[q]
    BY <2>2, <2>3, OnlyRequest DEF IInv, TypeOK
  <2>5. /\ req[r].pc = "free" /\ up /\ reqSeq' = reqSeq + 1 /\ del.pc = "done" /\ del' = NoDeletion
        /\ deletedAt' = [deletedAt EXCEPT ![del.pub] = reqSeq + 1]
        /\ UNCHANGED <<live, unborn, ctr, ledger, loop, mem, ticked, trigger, up, shown, newest,
                     told, failures>>
    BY DEF Deleted, SendRequest, kernel, server
  <2>6. del.pub \in Pub /\ Gone(del.pub)
    BY <2>5 DEF IInv, DeletionTakes
  <2> QED
    BY <2>1, <2>2, <2>4, <2>5, <2>6
<1>2. TypeOK'
  BY <1>1, BoundAssumption DEF IInv, TypeOK, Request, NoDeletion
<1>3. SessionsAddUp'
  BY <1>1 DEF IInv, TypeOK, SessionsAddUp, Base
<1>4. DeletedStaysOff'
  BY <1>1, BoundAssumption DEF IInv, TypeOK, DeletedStaysOff
<1>5. RowsBehind'
  BY <1>1 DEF IInv, TypeOK, RowsBehind, Behind
<1>6. DeletionTakes'
  BY <1>1 DEF DeletionTakes, NoDeletion
<1>7. DeletedGone'
  BY <1>1 DEF IInv, TypeOK, DeletedGone, Gone
<1>8. Numbered'
  BY <1>1, BoundAssumption DEF IInv, TypeOK, Request, Numbered
<1>9. AnswersWithout'
  <2> SUFFICES ASSUME NEW q \in Req, NEW p \in Pub,
                      deletedAt'[p] # 0, deletedAt'[p] <= req'[q].seq
               PROVE  /\ req'[q].rows[p] = None /\ req'[q].readings[p] = None
                      /\ p \notin req'[q].answer
    BY DEF AnswersWithout
  <2>1. CASE q = r
    BY <1>1, <2>1
  <2>2. CASE q # r
    <3>1. req'[q] = req[q] /\ req[q].seq \in Nat /\ req[q].seq <= reqSeq
      BY <1>1, <2>2 DEF IInv, TypeOK, Request, Numbered
    <3>2. p # del.pub /\ deletedAt'[p] = deletedAt[p]
      BY <1>1, <3>1 DEF IInv, TypeOK
    <3> QED
      BY <3>1, <3>2 DEF IInv, AnswersWithout
  <2> QED
    BY <2>1, <2>2
<1>10. LedgersBehind' /\ NothingToSave'
  BY <1>1 DEF IInv, TypeOK, LedgersBehind, Behind, NothingToSave
<1> QED
  BY <1>2, <1>3, <1>4, <1>5, <1>6, <1>7, <1>8, <1>9, <1>10 DEF IInv

\* The page asks for the deletion of a peer that runs.
LEMMA DeletePeerSafe ==
  ASSUME IInv, NEW p \in Pub, DeletePeer(p)
  PROVE  IInv'
<1>1. TypeOK'
  BY DEF IInv, TypeOK, DeletePeer, NoDeletion, kernel, server, page
<1>2. DeletionTakes'
  BY DEF DeletionTakes, DeletePeer, kernel
<1>3. /\ SessionsAddUp' /\ DeletedStaysOff' /\ LedgersBehind' /\ RowsBehind'
      /\ NothingToSave' /\ DeletedGone' /\ Numbered' /\ AnswersWithout'
  BY DEF IInv, TypeOK, SessionsAddUp, Base, DeletedStaysOff, LedgersBehind, Behind,
      RowsBehind, NothingToSave, DeletedGone, Gone, Numbered, AnswersWithout,
      DeletePeer, NoDeletion, kernel, server, page
<1> QED
  BY <1>1, <1>2, <1>3 DEF IInv

\* A peer that is taken off its interface is not one yet to be added.
LEMMA RemoveLiveSafe ==
  ASSUME IInv, RemoveLive
  PROVE  IInv'
<1>1. TypeOK'
  BY DEF IInv, TypeOK, RemoveLive, server, page
<1>2. DeletionTakes'
  BY DEF IInv, TypeOK, DeletionTakes, Gone, RemoveLive, server, page
<1>3. DeletedGone'
  BY DEF IInv, TypeOK, DeletedGone, Gone, RemoveLive, server, page
<1>4. /\ SessionsAddUp' /\ DeletedStaysOff' /\ LedgersBehind' /\ RowsBehind'
      /\ NothingToSave' /\ Numbered' /\ AnswersWithout'
  BY DEF IInv, TypeOK, SessionsAddUp, Base, DeletedStaysOff, LedgersBehind, Behind,
      RowsBehind, NothingToSave, Numbered, AnswersWithout, RemoveLive, server,
      page
<1> QED
  BY <1>1, <1>2, <1>3, <1>4 DEF IInv

\* No snapshot is under way when the ledger loses a peer, so none brings it back.
LEMMA ForgetPeerSafe ==
  ASSUME IInv, ForgetPeer
  PROVE  IInv'
<1>1. TypeOK'
  BY DEF IInv, TypeOK, Ledger, ForgetPeer, kernel, page
<1>2. LedgersBehind'
  BY DEF IInv, TypeOK, Ledger, LedgersBehind, Behind, ForgetPeer, kernel
<1>3. NothingToSave'
  BY NoLedgerFacts
  DEF IInv, TypeOK, NothingToSave, ForgetPeer, FlockHeld, MuHeld, kernel, page
<1>4. DeletionTakes'
  <2>1. del.pub \in Pub \ (live \cup unborn) /\ del' = [del EXCEPT !.pc = "done"]
    BY DEF ForgetPeer, IInv, DeletionTakes
  <2>2. mem = NoLedger
    BY DEF ForgetPeer, FlockHeld, MuHeld, IInv, NothingToSave
  <2> QED
    BY <2>1, <2>2, NoLedgerFacts DEF ForgetPeer, IInv, TypeOK, Ledger, DeletionTakes, Gone, kernel
<1>5. DeletedGone'
  BY DEF IInv, TypeOK, Ledger, DeletedGone, Gone, ForgetPeer, kernel, page
<1>6. /\ SessionsAddUp' /\ DeletedStaysOff' /\ RowsBehind' /\ Numbered'
      /\ AnswersWithout'
  BY NoLedgerFacts
  DEF IInv, TypeOK, SessionsAddUp, Base, DeletedStaysOff, RowsBehind, Behind,
      Numbered, AnswersWithout, ForgetPeer, FlockHeld, MuHeld, kernel, page
<1> QED
  BY <1>1, <1>2, <1>3, <1>4, <1>5, <1>6 DEF IInv

\* A server that has just started knows nothing.
LEMMA InitSafe == Init => IInv
<1> SUFFICES ASSUME Init PROVE IInv
  OBVIOUS
<1>1. TypeOK
  <2>1. /\ req \in [Req -> Request] /\ ledger \in Ledger /\ mem \in Ledger
        /\ del \in [pub : Pub \cup {None}, pc : {"none", "unlive", "forget", "done"}]
    BY NoLedgerFacts, NoRequestFacts DEF Init, NoDeletion
  <2>2. /\ ctr \in [Pub -> 0 .. MaxBytes] /\ deletedAt \in [Pub -> 0 .. MaxLoads]
        /\ reqSeq \in 0 .. MaxLoads /\ newest \in 0 .. reqSeq /\ failures \in 0 .. MaxFailures
    BY BoundAssumption DEF Init
  <2> QED
    BY <2>1, <2>2 DEF Init, TypeOK
<1>2. SessionsAddUp /\ RowsBehind /\ Numbered
  BY NoRequestFacts DEF Init, SessionsAddUp, RowsBehind, Numbered
<1>3. LedgersBehind
  BY NoLedgerFacts DEF Init, LedgersBehind, Behind
<1>4. DeletedStaysOff /\ NothingToSave /\ DeletionTakes /\ DeletedGone /\ AnswersWithout
  BY DEF Init, DeletedStaysOff, NothingToSave, DeletionTakes, DeletedGone, AnswersWithout,
         NoDeletion
<1> QED
  BY <1>1, <1>2, <1>3, <1>4 DEF IInv

\* Every step keeps the invariant.
LEMMA StepSafe == IInv /\ [Next]_vars => IInv'
<1> SUFFICES ASSUME IInv, [Next]_vars PROVE IInv'
  OBVIOUS
<1>1. ASSUME NEW p \in Pub, Attach(p) \/ Traffic(p) \/ DeletePeer(p) PROVE IInv'
  BY <1>1, AttachSafe, TrafficSafe, DeletePeerSafe
<1>2. CASE Tick \/ Snapshot
  BY <1>2, TickSafe, DumpSafe, TimeOutSafe, SaveSafe DEF Snapshot
<1>3. CASE Hang \/ FailSnapshot
  BY <1>3, HangSafe, FailSnapshotSafe
<1>4. ASSUME NEW r \in Req, Load(r) \/ Deleted(r) PROVE IInv'
  BY <1>4, LoadSafe, DeletedSafe
<1>5. ASSUME NEW r \in Req, LoadRows(r) \/ ReadLive(r) \/ Kick(r) PROVE IInv'
  BY <1>5, LoadRowsSafe, ReadLiveSafe, KickSafe
<1>6. ASSUME NEW r \in Req, Reply(r) \/ FailRequest(r) PROVE IInv'
  BY <1>6, ReplySafe, FailRequestSafe
<1>7. CASE RemoveLive \/ ForgetPeer
  BY <1>7, RemoveLiveSafe, ForgetPeerSafe
<1>8. CASE UNCHANGED vars
  BY <1>8 DEF vars, kernel, server, page, IInv, TypeOK, SessionsAddUp, Base, DeletedStaysOff,
         LedgersBehind, Behind, RowsBehind, NothingToSave, DeletionTakes, DeletedGone, Gone,
         Numbered, AnswersWithout
<1> QED
  BY <1>1, <1>2, <1>3, <1>4, <1>5, <1>6, <1>7, <1>8 DEF Next

\* The invariant holds at all times.
THEOREM InvariantHolds == Spec => []IInv
<1> QED
  BY InitSafe, StepSafe, PTL DEF Spec

\* Every variable keeps its type.
THEOREM TypeCorrect == Spec => []TypeOK
<1>1. IInv => TypeOK
  BY DEF IInv
<1> QED
  BY <1>1, InvariantHolds, PTL

\* The live counter has reached the baseline that is taken off it (server.go:132).
THEOREM SessionsNotClipped == Spec => []SessionsAddUp
<1>1. IInv => SessionsAddUp
  BY DEF IInv
<1> QED
  BY <1>1, InvariantHolds, PTL

\* A peer whose deletion the page has rendered does not come back, whatever answers
\* arrive later and in whatever order (index.html:257-263, server.go:74-97).
THEOREM DeletedStaysDeleted == Spec => []DeletedStaysOff
<1>1. IInv => DeletedStaysOff
  BY DEF IInv
<1> QED
  BY <1>1, InvariantHolds, PTL

=============================================================================
