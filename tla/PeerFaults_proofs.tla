------------------------- MODULE PeerFaults_proofs -------------------------
(***************************************************************************)
(* What addPeer and removePeer keep true in spite of failures, kills and   *)
(* restarts, each but for the kinds or the moments of them that break it,  *)
(* proved on top of the invariant of PeerOps_proofs: who runs is           *)
(* configured, who was removed stays so, nothing is stranded, addresses    *)
(* are distinct and kept, and no half peers remain.                        *)
(***************************************************************************)
EXTENDS PeerOps_proofs

\* An addPeer is undone, if at all, before its peer has run.
UndoneUnseen == Without({"restart", "file", "setLate"})

\* An interface runs what its config lists, but for a restart under an addPeer, and for
\* an undo that fails where the peer was set.
LiveInv ==
  \A i \in Iface :
    Without({"restart", "undo"}) \/ UndoneUnseen => Running(i) \subseteq PubsIn(conf[i])

\* Whatever fails, a peer runs with the address of its block or with none.
LiveAddr ==
  \A i \in Iface : \A b \in Blocks(i) :
    b.pub \in Running(i) /\ live[i][b.pub] # None => live[i][b.pub] = b.addr

\* The key of a call does not run before it is set, nor after it is taken off.
OffInv(a) ==
  LET off == job[a].pub \notin Running(job[a].iface) IN
  /\ pc[a] = "append" => off
  /\ pc[a] \in {"rewrite", "unlink", "forget"} => off \/ job[a].pub \in revived
  /\ pc[a] = "apply" /\ Without({"restart"}) => off
  /\ pc[a] = "undoConf" /\ Without({"restart", "undo"}) => off
  /\ pc[a] \in {"undoLive", "undoConf"} /\ UndoneUnseen => off /\ job[a].pub \notin ledger
  /\ pc[a] \in {"append", "apply"} /\ UndoneUnseen => job[a].pub \notin ledger

\* Only a restart sets a peer again that a removal has taken off.
RevivedInv == Without({"restart"}) => revived = {}

\* A client config is that of a block, or a removal is about to unlink it.
OfBlock(d, n, p) ==
  \E i \in Iface : DirOf[i] = d /\ \E b \in Blocks(i) : b.pub = p /\ b.name = n
Unlinking(d, n, p) ==
  \E a \in Proc : pc[a] = "unlink" /\ DirOf[job[a].iface] = d /\ job[a].name = n /\ job[a].pub = p
FilesInv ==
  \A d \in Range(DirOf), n \in Name :
    client[d][n] # None =>
      /\ client[d][n] \in made
      /\ Without({"crash", "unlink"}) =>
           OfBlock(d, n, client[d][n]) \/ Unlinking(d, n, client[d][n])

\* A key in the ledger is that of a block, or a removal is about to forget it.
LedgerInv ==
  UndoneUnseen /\ Without({"crash", "forget"}) =>
    \A p \in ledger : \/ FiledIn(p) # {}
                      \/ \E a \in Proc : pc[a] \in {"unlink", "forget"} /\ job[a].pub = p

\* The failures that leave a block behind whose peer does not run, or hide one that does.
Hiding == {"crash", "append", "rewrite", "undo", "removeLate", "read"}

\* Every block has an address of its own, and its peer runs with it unless a call is on
\* the way there or back.
RunsWith(i, b) == b.pub \in Running(i) /\ live[i][b.pub] = b.addr
BlocksRun ==
  Without(Hiding) =>
    \A i \in Iface :
      /\ AddrsOnce(conf[i])
      /\ \A b \in Blocks(i) :
           /\ b.addr # None
           /\ \/ RunsWith(i, b)
              \/ \E a \in Proc : /\ pc[a] \in {"apply", "undoLive", "undoConf", "rewrite"}
                                 /\ job[a].iface = i /\ job[a].pub = b.pub

\* The address of an addPeer that is not blind is free until it takes it.
AddrInv(a) ==
  /\ pc[a] = "append" /\ Without(Hiding) => \A b \in Blocks(job[a].iface) : b.addr # job[a].addr
  /\ pc[a] \in {"append", "apply"} /\ a \notin blind => job[a].addr \notin Taken(job[a].iface)
  /\ pc[a] = "apply" =>
       \A b \in Blocks(job[a].iface) : b.pub = job[a].pub => b.addr = job[a].addr

\* Who is configured was made, and who was made is configured, but for calls under way.
Undone == {"apply", "setLate", "file", "remove"}
MadeInv ==
  faults \subseteq Undone =>
    /\ \A i \in Iface : \A b \in Blocks(i) :
         \/ b.pub \in made
         \/ \E a \in Proc : pc[a] \in Adding /\ job[a].iface = i /\ job[a].pub = b.pub
    /\ \A p \in made : \/ p \in gone
                       \/ FiledIn(p) # {}
                       \/ \E a \in Proc : pc[a] \in {"unlink", "forget"} /\ job[a].pub = p

\* Inductive together with IInv.
FInv == /\ LiveInv /\ LiveAddr /\ FilesInv /\ LedgerInv /\ BlocksRun /\ MadeInv /\ RevivedInv
        /\ \A a \in Proc : OffInv(a) /\ AddrInv(a)
        /\ RemovedStaysRemoved

(***************************************************************************)
(* What a step of a call does to what the invariants are about, one        *)
(* formula for each way it can go.                                         *)
(***************************************************************************)
\* The step of a touches no other call, and no interface that one works on inside its lock.
Others(a) ==
  \A v \in Proc : v # a => pc'[v] = pc[v] /\ job'[v] = job[v] /\ (v \in blind' <=> v \in blind)
Frame(a, i) ==
  /\ Others(a)
  /\ \A v \in Proc : v # a /\ pc[v] \in Inside => job[v].iface # i \/ UNCHANGED <<conf, live>>
  /\ \A j \in Iface : j # i => conf'[j] = conf[j] /\ live'[j] = live[j]
Own(a, i, p) == job[a].iface = i /\ job[a].pub = p
Stays(a) == job'[a] = job[a] /\ (a \in blind' <=> a \in blind)

\* An addPeer begins, or a removePeer.
Began(a, i, p) ==
  /\ pc[a] = "idle" /\ pc'[a] = "append" /\ lock[i] = None /\ p \notin used
  /\ job'[a].iface = i /\ job'[a].pub = p
  /\ \/ faults' = faults /\ job'[a].addr \notin Taken(i)
     \/ "read" \in faults' /\ a \in blind'
  /\ UNCHANGED <<files, made, gone, revived>>
Looked(a) ==
  /\ pc[a] = "idle" /\ pc'[a] = "remove"
  /\ UNCHANGED <<files, made, gone, revived, faults>>

\* The block is appended, or part of it.
Appended(a, i, p) ==
  /\ Own(a, i, p) /\ Stays(a) /\ pc[a] = "append" /\ pc'[a] = "apply"
  /\ Blocks(i)' = Blocks(i) \cup {BlockOf(a)}
  /\ AddrsOnce(conf[i]) /\ (\A b \in Blocks(i) : b.addr # job[a].addr) => AddrsOnce(conf'[i])
  /\ UNCHANGED <<live, client, ledger, made, gone, revived, faults>>
CutShort(a, i, p) ==
  /\ Own(a, i, p) /\ pc[a] = "append" /\ pc'[a] = "idle" /\ "append" \in faults'
  /\ Blocks(i) \subseteq Blocks(i)' /\ \A b \in Blocks(i)' \ Blocks(i) : b.pub = p
  /\ UNCHANGED <<live, client, ledger, made, gone, revived>>

\* The peer is set, its client config is written.
Applied(a, i, p) ==
  /\ Own(a, i, p) /\ Stays(a) /\ pc[a] = "apply"
  /\ \/ pc'[a] = "file" /\ faults' = faults
     \/ pc'[a] = "undoLive" /\ "setLate" \in faults'
  /\ live'[i] = WithPeer(live[i], p, job[a].addr)
  /\ UNCHANGED <<conf, client, ledger, made, gone, revived>>
Written(a, i, p) ==
  /\ Own(a, i, p) /\ pc[a] = "file" /\ pc'[a] = "idle" /\ job[a].name \in Name
  /\ client' = [client EXCEPT ![DirOf[i]] = [client[DirOf[i]] EXCEPT ![job[a].name] = p]]
  /\ made' = made \cup {p}
  /\ UNCHANGED <<conf, live, ledger, gone, revived, faults>>

\* The block of a key is taken out of the config.
Dropped(i, p) ==
  /\ Blocks(i)' = {b \in Blocks(i) : b.pub # p}
  /\ AddrsOnce(conf[i]) => AddrsOnce(conf'[i])

\* The two steps of undo.
UndidLive(a, i, p) ==
  /\ Own(a, i, p) /\ Stays(a) /\ pc[a] = "undoLive" /\ pc'[a] = "undoConf"
  /\ live'[i] = WithoutPeer(live[i], p)
  /\ UNCHANGED <<conf, client, ledger, made, gone, revived, faults>>
UndidConf(a, i, p) ==
  /\ Own(a, i, p) /\ pc[a] = "undoConf" /\ pc'[a] = "idle"
  /\ Dropped(i, p)
  /\ UNCHANGED <<live, client, ledger, made, gone, revived, faults>>

\* The steps of a removal.
TookOff(a, i, p) ==
  /\ Own(a, i, p) /\ pc[a] = "remove"
  /\ \/ pc'[a] = "rewrite" /\ job'[a].iface = i /\ job'[a].pub = p /\ faults' = faults
     \/ pc'[a] = "idle" /\ "removeLate" \in faults'
  /\ live'[i] = WithoutPeer(live[i], p)
  /\ UNCHANGED <<conf, client, ledger, made, gone, revived>>
Erased(a, i, p) ==
  /\ Own(a, i, p) /\ Stays(a) /\ pc[a] = "rewrite" /\ pc'[a] = "unlink"
  /\ Dropped(i, p)
  /\ UNCHANGED <<live, client, ledger, made, gone, revived, faults>>
Unlinked(a, i, p) ==
  /\ Own(a, i, p) /\ Stays(a) /\ pc[a] = "unlink" /\ pc'[a] = "forget"
  /\ \/ /\ faults' = faults
        /\ client' = IF job[a].name = None THEN client
                     ELSE [client EXCEPT ![DirOf[i]] = [client[DirOf[i]] EXCEPT ![job[a].name] = None]]
     \/ "unlink" \in faults' /\ client' = client
  /\ UNCHANGED <<conf, live, ledger, made, gone, revived>>
Forgot(a, i, p) ==
  /\ Own(a, i, p) /\ pc[a] = "forget" /\ pc'[a] = "idle"
  /\ ledger' = ledger \ {p} /\ gone' = gone \cup {p}
  /\ revived' = {q \in revived : q = p => RunsOn(p) # {}}
  /\ UNCHANGED <<conf, live, client, made, faults>>

\* A step fails, and the call goes to undo it, or returns, or is killed.
Failed(a) ==
  /\ \/ /\ Stays(a)
        /\ \/ pc[a] = "apply" /\ pc'[a] = "undoLive" /\ "apply" \in faults'
           \/ pc[a] = "file" /\ pc'[a] = "undoLive" /\ "file" \in faults'
           \/ pc[a] = "undoLive" /\ pc'[a] = "undoConf" /\ "undo" \in faults'
     \/ /\ pc'[a] = "idle"
        /\ \/ pc[a] = "undoConf" /\ "undo" \in faults'
           \/ pc[a] = "remove" /\ "remove" \in faults'
           \/ pc[a] = "rewrite" /\ "rewrite" \in faults'
           \/ pc[a] = "forget" /\ "forget" \in faults'
           \/ "crash" \in faults'
  /\ UNCHANGED <<files, made, gone, revived>>

Moves(a, i, p) ==
  \/ Began(a, i, p) \/ Looked(a)
  \/ Appended(a, i, p) \/ CutShort(a, i, p) \/ Applied(a, i, p) \/ Written(a, i, p)
  \/ UndidLive(a, i, p) \/ UndidConf(a, i, p)
  \/ TookOff(a, i, p) \/ Erased(a, i, p) \/ Unlinked(a, i, p) \/ Forgot(a, i, p)
  \/ Failed(a)

\* Failures are never forgotten.
LEMMA FaultsGrow ==
  ASSUME [Next]_vars
  PROVE  faults \subseteq faults' /\ \A K : Without(K)' => Without(K)
<1>1. faults \subseteq faults'
  <2>1. ASSUME NEW a \in Proc, Step(a) PROVE faults \subseteq faults'
    BY <2>1 DEF Step, StartAdd, AppendBlock, applyPeer, WriteClient, UndoLive, UndoConf,
       StartRemove, RemoveLive, RemoveBlock, RemoveFiles, ForgetPeer, Crash, Fine, Breaks, ghosts
  <2> QED
    BY <2>1 DEF Next, RestartIface, Collect, Breaks, vars, ghosts
<1> QED
  BY <1>1 DEF Without

\* A call that is inside its lock, or looks for it, alone touches its interface.
LEMMA FrameFacts ==
  ASSUME IInv, NEW a \in Proc, NEW i \in Iface,
         \/ pc[a] \in Inside /\ job[a].iface = i
         \/ lock[i] = None,
         Others(a),
         \A j \in Iface : j # i => conf'[j] = conf[j] /\ live'[j] = live[j]
  PROVE  Frame(a, i)
<1>1. \A v \in Proc : v # a /\ pc[v] \in Inside => job[v].iface # i
  <2> SUFFICES ASSUME NEW v \in Proc, v # a, pc[v] \in Inside, job[v].iface = i
               PROVE  FALSE
    OBVIOUS
  <2>1. lock[i] = v
    BY DEF IInv, LockInv
  <2> QED
    BY <2>1, NoneAssumption DEF IInv, LockInv
<1> QED
  BY <1>1 DEF Frame

\* A call that goes on or returns, inside its lock or not.
LEMMA PcFacts ==
  ASSUME TypeOK, NEW a \in Proc
  PROVE  /\ Return(a) => pc'[a] = "idle"
         /\ \A l : Goto(a, l) => pc'[a] = l /\ Stays(a)
         /\ Return(a) \/ (\E l : Goto(a, l)) => Others(a)
BY DEF TypeOK, Return, Goto, Stays, Others

\* addPeer begins.
LEMMA StartAddMoves ==
  ASSUME IInv, NEW a \in Proc, NEW n \in Name, NEW i \in Iface, NEW p \in Pub, StartAdd(a, n, i, p)
  PROVE  Frame(a, i) /\ Began(a, i, p)
<1>1. /\ pc'[a] = "append" /\ job'[a].iface = i /\ job'[a].pub = p
      /\ Others(a)
      /\ \/ Fine /\ job'[a].addr \notin Taken(i)
         \/ Breaks("read") /\ a \in blind'
  BY StartAddFacts DEF IInv, Others
<1>2. pc[a] = "idle" /\ lock[i] = None /\ p \notin used /\ UNCHANGED <<files, made, gone, revived>>
  BY DEF StartAdd, LockFree
<1>3. Frame(a, i)
  BY <1>1, <1>2, FrameFacts DEF files
<1> QED
  BY <1>1, <1>2, <1>3 DEF Began, Fine, Breaks

\* A block is appended.
LEMMA AppendMoves ==
  ASSUME IInv, NEW a \in Proc, AppendBlock(a)
  PROVE  \E i \in Iface, p \in Pub : Frame(a, i) /\ (Appended(a, i, p) \/ CutShort(a, i, p))
<1>1. TypeOK /\ pc[a] = "append" /\ pc[a] \in Inside /\ pc[a] \in Adding /\ pc[a] # "idle"
      /\ UNCHANGED <<live, client, ledger, made, gone, revived>>
  BY DEF IInv, AppendBlock, Inside, Adding
<1>2. PICK i \in Iface, p \in Pub : i = job[a].iface /\ p = job[a].pub
  BY <1>1, JobTypes
<1>3. PICK s, b, part : s = conf[i] /\ b = BlockOf(a) /\ part = [b EXCEPT !.addr = None]
  OBVIOUS
<1>4. /\ s \in Seq(Block) /\ b \in Block /\ part \in Block /\ b.pub = p /\ part.pub = p
      /\ b.addr = job[a].addr
  <2>1. job[a] \in Job /\ b \in Block /\ s \in Seq(Block)
    BY <1>1, <1>2, <1>3, JobTypes
  <2> QED
    BY <1>1, <1>2, <1>3, <2>1 DEF BlockOf, Block
<1>5. conf \in [Iface -> Seq(Block)]
  BY <1>1 DEF TypeOK
<1>6. CASE AppendToConf(a, <<b>>) /\ Goto(a, "apply") /\ Fine
  <2>1. conf' = [conf EXCEPT ![i] = s \o <<b>>]
    BY <1>2, <1>3, <1>6 DEF AppendToConf
  <2>2. conf'[i] = s \o <<b>> /\ \A j \in Iface : j # i => conf'[j] = conf[j]
    BY <1>5, <2>1
  <2>3. Blocks(i)' = Blocks(i) \cup {b}
    <3>1. Range(conf'[i]) = Range(conf[i]) \cup {b}
      BY <1>3, <1>4, <2>2, AppendFacts
    <3> QED
      BY <3>1 DEF Blocks, Range
  <2>4. AddrsOnce(conf[i]) /\ (\A c \in Blocks(i) : c.addr # b.addr) => AddrsOnce(conf'[i])
    BY <1>3, <1>4, <2>2, AppendFacts DEF Blocks, Range
  <2>5. pc'[a] = "apply" /\ Stays(a) /\ Others(a)
    BY <1>1, <1>6, PcFacts
  <2>6. Frame(a, i)
    BY <1>1, <1>2, <2>2, <2>5, FrameFacts
  <2>7. Appended(a, i, p)
    BY <1>1, <1>2, <1>3, <1>4, <1>6, <2>3, <2>4, <2>5 DEF Appended, Own, Fine
  <2> QED
    BY <2>6, <2>7
<1>7. CASE /\ \E written \in { <<>>, <<part>>, <<b>> } : AppendToConf(a, written)
           /\ Return(a) /\ Breaks("append")
  <2>1. PICK r \in { s, s \o <<part>>, s \o <<b>> } : conf' = [conf EXCEPT ![i] = r]
    <3>1. s \o <<>> = s
      BY <1>4
    <3> QED
      BY <1>2, <1>3, <1>7, <3>1 DEF AppendToConf
  <2>2. conf'[i] = r /\ \A j \in Iface : j # i => conf'[j] = conf[j]
    BY <1>5, <2>1
  <2>3. Range(s) \subseteq Range(r) /\ Range(r) \subseteq Range(s) \cup {part, b}
    <3>1. Range(s \o <<b>>) = Range(s) \cup {b} /\ Range(s \o <<part>>) = Range(s) \cup {part}
      BY <1>4, AppendFacts
    <3> QED
      BY <3>1
  <2>4. Blocks(i) \subseteq Blocks(i)' /\ \A c \in Blocks(i)' \ Blocks(i) : c.pub = p
    <3>1. Blocks(i) = Range(s) /\ Blocks(i)' = Range(r)
      BY <1>3, <2>2, BlocksOfConf
    <3>2. part.pub = p /\ b.pub = p
      BY <1>3, <1>4
    <3> QED
      BY <2>3, <3>1, <3>2
  <2>5. pc'[a] = "idle" /\ Others(a)
    BY <1>1, <1>7, PcFacts
  <2>6. Frame(a, i)
    BY <1>1, <1>2, <2>2, <2>5, FrameFacts
  <2>7. CutShort(a, i, p)
    BY <1>1, <1>2, <1>7, <2>4, <2>5 DEF CutShort, Own, Breaks
  <2> QED
    BY <2>6, <2>7
<1> QED
  BY <1>3, <1>6, <1>7 DEF AppendBlock

\* A step that fails changes nothing but what the call does next.
LEMMA FailedFrame ==
  ASSUME IInv, NEW a \in Proc, pc[a] # "idle", Failed(a), Return(a) \/ \E l : Goto(a, l)
  PROVE  \E i \in Iface, p \in Pub : Frame(a, i) /\ Failed(a)
<1>1. PICK i \in Iface, p \in Pub : i = job[a].iface /\ p = job[a].pub
  BY JobTypes
<1>2. /\ Others(a)
      /\ UNCHANGED <<conf, live>>
  BY PcFacts DEF IInv, Failed, files
<1> QED
  BY <1>1, <1>2 DEF Frame

\* What the failure of a step or of the process does.
LEMMA FailedMoves ==
  ASSUME IInv, NEW a \in Proc, pc[a] # "idle", UNCHANGED <<files, made, gone, revived>>,
         \/ pc[a] = "apply" /\ Goto(a, "undoLive") /\ Breaks("apply")
         \/ pc[a] = "file" /\ Goto(a, "undoLive") /\ Breaks("file")
         \/ pc[a] = "undoLive" /\ Goto(a, "undoConf") /\ Breaks("undo")
         \/ pc[a] = "undoConf" /\ Return(a) /\ Breaks("undo")
         \/ pc[a] = "remove" /\ Return(a) /\ Breaks("remove")
         \/ pc[a] = "rewrite" /\ Return(a) /\ Breaks("rewrite")
         \/ pc[a] = "forget" /\ Return(a) /\ Breaks("forget")
         \/ Return(a) /\ Breaks("crash")
  PROVE  \E i \in Iface, p \in Pub : Frame(a, i) /\ Failed(a)
<1>1. TypeOK
  BY DEF IInv
<1>2. \A f : Breaks(f) => f \in faults'
  BY DEF Breaks
<1>3. Failed(a)
  BY <1>1, <1>2, PcFacts DEF Failed
<1> QED
  BY <1>3, FailedFrame

\* The peer is set on the running interface.
LEMMA ApplyMoves ==
  ASSUME IInv, NEW a \in Proc, applyPeer(a)
  PROVE  \E i \in Iface, p \in Pub : Frame(a, i) /\ (Applied(a, i, p) \/ Failed(a))
<1>1. /\ TypeOK /\ pc[a] = "apply" /\ pc[a] \in Inside /\ pc[a] # "idle"
      /\ UNCHANGED <<conf, client, ledger, made, gone, revived>>
  BY DEF IInv, applyPeer, Inside, Adding
<1>2. PICK i \in Iface, p \in Pub : i = job[a].iface /\ p = job[a].pub
  BY <1>1, JobTypes
<1>3. CASE /\ live' = [live EXCEPT ![job[a].iface] = WithPeer(@, job[a].pub, job[a].addr)]
           /\ \/ Goto(a, "file") /\ Fine
              \/ Goto(a, "undoLive") /\ Breaks("setLate")
  <2>1. live' = [live EXCEPT ![i] = WithPeer(live[i], p, job[a].addr)]
    BY <1>2, <1>3
  <2>2. live'[i] = WithPeer(live[i], p, job[a].addr) /\ \A j \in Iface : j # i => live'[j] = live[j]
    BY <1>1, <2>1 DEF TypeOK
  <2>3. /\ \/ pc'[a] = "file" /\ Fine
           \/ pc'[a] = "undoLive" /\ Breaks("setLate")
        /\ Stays(a) /\ Others(a)
    BY <1>1, <1>3, PcFacts
  <2>4. Frame(a, i)
    BY <1>1, <1>2, <2>2, <2>3, FrameFacts
  <2>5. Applied(a, i, p)
    BY <1>1, <1>2, <1>3, <2>2, <2>3 DEF Applied, Own, Fine, Breaks
  <2> QED
    BY <2>4, <2>5
<1>4. CASE UNCHANGED live /\ Goto(a, "undoLive") /\ Breaks("apply")
  BY <1>1, <1>4, FailedMoves DEF files
<1> QED
  BY <1>3, <1>4 DEF applyPeer

\* The client config is written.
LEMMA WriteMoves ==
  ASSUME IInv, NEW a \in Proc, WriteClient(a)
  PROVE  \E i \in Iface, p \in Pub : Frame(a, i) /\ (Written(a, i, p) \/ Failed(a))
<1>1. /\ TypeOK /\ pc[a] = "file" /\ pc[a] \in Adding /\ pc[a] \in Inside /\ pc[a] # "idle"
      /\ UNCHANGED <<conf, live, ledger, gone, revived>>
  BY DEF IInv, WriteClient, Inside, Adding
<1>2. PICK i \in Iface, p \in Pub :
        i = job[a].iface /\ p = job[a].pub /\ job[a].name \in Name /\ DirOf[i] \in Range(DirOf)
  BY <1>1, JobTypes
<1>3. CASE /\ client' = [client EXCEPT ![DirOf[job[a].iface]][job[a].name] = job[a].pub]
           /\ made' = made \cup {job[a].pub}
           /\ Return(a) /\ Fine
  <2>1. client' = [client EXCEPT ![DirOf[i]] = [client[DirOf[i]] EXCEPT ![job[a].name] = p]]
    BY <1>1, <1>2, <1>3 DEF TypeOK
  <2>2. pc'[a] = "idle" /\ Others(a)
    BY <1>1, <1>3, PcFacts
  <2>3. Frame(a, i)
    BY <1>1, <2>2 DEF Frame
  <2>4. Written(a, i, p)
    BY <1>1, <1>2, <1>3, <2>1, <2>2 DEF Written, Own, Fine
  <2> QED
    BY <2>3, <2>4
<1>4. CASE UNCHANGED <<client, made>> /\ Goto(a, "undoLive") /\ Breaks("file")
  BY <1>1, <1>4, FailedMoves DEF files
<1> QED
  BY <1>3, <1>4 DEF WriteClient

\* The steps of undo.
LEMMA UndoLiveMoves ==
  ASSUME IInv, NEW a \in Proc, UndoLive(a)
  PROVE  \E i \in Iface, p \in Pub : Frame(a, i) /\ (UndidLive(a, i, p) \/ Failed(a))
<1>1. /\ TypeOK /\ pc[a] = "undoLive" /\ pc[a] \in Inside /\ pc[a] # "idle"
      /\ UNCHANGED <<conf, client, ledger, made, gone, revived>> /\ Goto(a, "undoConf")
  BY DEF IInv, UndoLive, Inside, Adding
<1>2. PICK i \in Iface, p \in Pub : i = job[a].iface /\ p = job[a].pub
  BY <1>1, JobTypes
<1>3. CASE live' = [live EXCEPT ![job[a].iface] = WithoutPeer(@, job[a].pub)] /\ Fine
  <2>1. live' = [live EXCEPT ![i] = WithoutPeer(live[i], p)]
    BY <1>2, <1>3
  <2>2. live'[i] = WithoutPeer(live[i], p) /\ \A j \in Iface : j # i => live'[j] = live[j]
    BY <1>1, <2>1 DEF TypeOK
  <2>3. pc'[a] = "undoConf" /\ Stays(a) /\ Others(a)
    BY <1>1, PcFacts
  <2>4. Frame(a, i)
    BY <1>1, <1>2, <2>2, <2>3, FrameFacts
  <2>5. UndidLive(a, i, p)
    BY <1>1, <1>2, <1>3, <2>2, <2>3 DEF UndidLive, Own, Fine
  <2> QED
    BY <2>4, <2>5
<1>4. CASE UNCHANGED live /\ Breaks("undo")
  BY <1>1, <1>4, FailedMoves DEF files
<1> QED
  BY <1>3, <1>4 DEF UndoLive

\* Taking the block of a call's key out of its config.
LEMMA DropMoves ==
  ASSUME IInv, NEW a \in Proc, pc[a] \in {"undoConf", "rewrite"},
         conf' = [conf EXCEPT ![job[a].iface] = removePeerFromConf(@, job[a].pub)]
  PROVE  \E i \in Iface, p \in Pub :
           Own(a, i, p) /\ Dropped(i, p) /\ \A j \in Iface : j # i => conf'[j] = conf[j]
<1>1. TypeOK /\ ConfInv /\ pc[a] # "idle"
  BY DEF IInv
<1>2. PICK i \in Iface, p \in Pub : i = job[a].iface /\ p = job[a].pub /\ conf[i] \in Seq(Block)
  BY <1>1, JobTypes
<1>3. conf' = [conf EXCEPT ![i] = removePeerFromConf(conf[i], p)]
  BY <1>2
<1>4. conf'[i] = removePeerFromConf(conf[i], p) /\ \A j \in Iface : j # i => conf'[j] = conf[j]
  BY <1>1, <1>3 DEF TypeOK
<1>5. /\ Range(conf'[i]) = {b \in Range(conf[i]) : b.pub # p}
      /\ AddrsOnce(conf[i]) => AddrsOnce(conf'[i])
  BY <1>1, <1>2, <1>4, RemovalFacts DEF ConfInv
<1>6. Blocks(i)' = {b \in Blocks(i) : b.pub # p}
  BY <1>5 DEF Blocks, Range
<1> QED
  BY <1>2, <1>4, <1>5, <1>6 DEF Own, Dropped

LEMMA UndoConfMoves ==
  ASSUME IInv, NEW a \in Proc, UndoConf(a)
  PROVE  \E i \in Iface, p \in Pub : Frame(a, i) /\ (UndidConf(a, i, p) \/ Failed(a))
<1>1. /\ TypeOK /\ pc[a] = "undoConf" /\ pc[a] \in Inside /\ pc[a] # "idle"
      /\ UNCHANGED <<live, client, ledger, made, gone, revived>> /\ Return(a)
  BY DEF IInv, UndoConf, Inside, Adding
<1>2. CASE conf' = [conf EXCEPT ![job[a].iface] = removePeerFromConf(@, job[a].pub)] /\ Fine
  <2>1. PICK i \in Iface, p \in Pub :
          Own(a, i, p) /\ Dropped(i, p) /\ \A j \in Iface : j # i => conf'[j] = conf[j]
    BY <1>1, <1>2, DropMoves
  <2>2. pc'[a] = "idle" /\ Others(a)
    BY <1>1, PcFacts
  <2>3. Frame(a, i)
    BY <1>1, <2>1, <2>2, FrameFacts DEF Own
  <2>4. UndidConf(a, i, p)
    BY <1>1, <1>2, <2>1, <2>2 DEF UndidConf, Fine
  <2> QED
    BY <2>3, <2>4
<1>3. CASE UNCHANGED conf /\ Breaks("undo")
  BY <1>1, <1>3, FailedMoves DEF files
<1> QED
  BY <1>2, <1>3 DEF UndoConf

\* The steps of removePeer.
LEMMA RemoveLiveMoves ==
  ASSUME IInv, NEW a \in Proc, RemoveLive(a)
  PROVE  \E i \in Iface, p \in Pub : Frame(a, i) /\ (TookOff(a, i, p) \/ Failed(a))
<1>1. /\ TypeOK /\ pc[a] = "remove" /\ pc[a] # "idle"
      /\ UNCHANGED <<conf, client, ledger, made, gone, revived>>
  BY DEF IInv, RemoveLive
<1>2. PICK i \in Iface, p \in Pub : i = job[a].iface /\ p = job[a].pub
  BY <1>1, JobTypes
<1>3. CASE /\ live' = [live EXCEPT ![i] = WithoutPeer(@, p)]
           /\ job' = [job EXCEPT ![a].name = nameOfPeer(p)]
           /\ pc' = [pc EXCEPT ![a] = "rewrite"]
           /\ Fine /\ UNCHANGED blind
  <2>1. live' = [live EXCEPT ![i] = WithoutPeer(live[i], p)]
    BY <1>3
  <2>2. live'[i] = WithoutPeer(live[i], p) /\ \A j \in Iface : j # i => live'[j] = live[j]
    BY <1>1, <2>1 DEF TypeOK
  <2>3. /\ pc'[a] = "rewrite" /\ Others(a)
        /\ job'[a].iface = i /\ job'[a].pub = p
    BY <1>1, <1>2, <1>3, RemoveLiveFacts DEF Others
  <2>4. lock[i] = None
    BY <1>2 DEF RemoveLive, LockFree
  <2>5. Frame(a, i)
    BY <1>1, <2>2, <2>3, <2>4, FrameFacts
  <2>6. TookOff(a, i, p)
    BY <1>1, <1>2, <1>3, <2>2, <2>3 DEF TookOff, Own, Fine
  <2> QED
    BY <2>5, <2>6
<1>4. CASE UNCHANGED live /\ Return(a) /\ Breaks("remove")
  BY <1>1, <1>4, FailedMoves DEF files
<1>5. CASE live' = [live EXCEPT ![i] = WithoutPeer(@, p)] /\ Return(a) /\ Breaks("removeLate")
  <2>1. live'[i] = WithoutPeer(live[i], p) /\ \A j \in Iface : j # i => live'[j] = live[j]
    BY <1>1, <1>5 DEF TypeOK
  <2>2. pc'[a] = "idle" /\ Others(a)
    BY <1>1, <1>5, PcFacts
  <2>3. lock[i] = None
    BY <1>2 DEF RemoveLive, LockFree
  <2>4. Frame(a, i)
    BY <1>1, <2>1, <2>2, <2>3, FrameFacts
  <2>5. TookOff(a, i, p)
    BY <1>1, <1>2, <1>5, <2>1, <2>2 DEF TookOff, Own, Breaks
  <2> QED
    BY <2>4, <2>5
<1> QED
  BY <1>2, <1>3, <1>4, <1>5 DEF RemoveLive

LEMMA RemoveBlockMoves ==
  ASSUME IInv, NEW a \in Proc, RemoveBlock(a)
  PROVE  \E i \in Iface, p \in Pub : Frame(a, i) /\ (Erased(a, i, p) \/ Failed(a))
<1>1. /\ TypeOK /\ pc[a] = "rewrite" /\ pc[a] \in Inside /\ pc[a] # "idle"
      /\ UNCHANGED <<live, client, ledger, made, gone, revived>>
  BY DEF IInv, RemoveBlock, Inside, Removing
<1>2. CASE /\ conf' = [conf EXCEPT ![job[a].iface] = removePeerFromConf(@, job[a].pub)]
           /\ Goto(a, "unlink") /\ Fine
  <2>1. PICK i \in Iface, p \in Pub :
          Own(a, i, p) /\ Dropped(i, p) /\ \A j \in Iface : j # i => conf'[j] = conf[j]
    BY <1>1, <1>2, DropMoves
  <2>2. pc'[a] = "unlink" /\ Stays(a) /\ Others(a)
    BY <1>1, <1>2, PcFacts
  <2>3. Frame(a, i)
    BY <1>1, <2>1, <2>2, FrameFacts DEF Own
  <2>4. Erased(a, i, p)
    BY <1>1, <1>2, <2>1, <2>2 DEF Erased, Fine
  <2> QED
    BY <2>3, <2>4
<1>3. CASE UNCHANGED conf /\ Return(a) /\ Breaks("rewrite")
  BY <1>1, <1>3, FailedMoves DEF files
<1> QED
  BY <1>2, <1>3 DEF RemoveBlock

LEMMA RemoveFilesMoves ==
  ASSUME IInv, NEW a \in Proc, RemoveFiles(a)
  PROVE  \E i \in Iface, p \in Pub : Frame(a, i) /\ Unlinked(a, i, p)
<1>1. /\ TypeOK /\ pc[a] = "unlink" /\ pc[a] # "idle" /\ Goto(a, "forget")
      /\ UNCHANGED <<conf, live, ledger, made, gone, revived>>
  BY DEF IInv, RemoveFiles
<1>2. PICK i \in Iface, p \in Pub : i = job[a].iface /\ p = job[a].pub /\ DirOf[i] \in Range(DirOf)
  BY <1>1, JobTypes
<1>3. \/ /\ faults' = faults
         /\ client' = IF job[a].name = None THEN client
                      ELSE [client EXCEPT ![DirOf[i]] = [client[DirOf[i]] EXCEPT ![job[a].name] = None]]
      \/ "unlink" \in faults' /\ client' = client
  BY <1>1, <1>2 DEF RemoveFiles, TypeOK, Fine, Breaks
<1>4. pc'[a] = "forget" /\ Stays(a) /\ Others(a)
  BY <1>1, PcFacts
<1> QED
  BY <1>1, <1>2, <1>3, <1>4 DEF Frame, Unlinked, Own

LEMMA ForgetMoves ==
  ASSUME IInv, NEW a \in Proc, ForgetPeer(a)
  PROVE  \E i \in Iface, p \in Pub : Frame(a, i) /\ (Forgot(a, i, p) \/ Failed(a))
<1>1. /\ TypeOK /\ pc[a] = "forget" /\ pc[a] # "idle" /\ Return(a)
      /\ UNCHANGED <<conf, live, client, made>>
  BY DEF IInv, ForgetPeer
<1>2. PICK i \in Iface, p \in Pub : i = job[a].iface /\ p = job[a].pub
  BY <1>1, JobTypes
<1>3. CASE /\ ledger' = ledger \ {job[a].pub} /\ gone' = gone \cup {job[a].pub} /\ Fine
           /\ revived' = {q \in revived : q = job[a].pub => RunsOn(q) # {}}
  <2>1. pc'[a] = "idle" /\ Others(a)
    BY <1>1, PcFacts
  <2> QED
    BY <1>1, <1>2, <1>3, <2>1 DEF Frame, Forgot, Own, Fine
<1>4. CASE UNCHANGED <<ledger, gone, revived>> /\ Breaks("forget")
  BY <1>1, <1>4, FailedMoves DEF files
<1> QED
  BY <1>3, <1>4 DEF ForgetPeer

LEMMA StartRemoveMoves ==
  ASSUME IInv, NEW a \in Proc, NEW p \in Pub, StartRemove(a, p)
  PROVE  \E i \in Iface : Frame(a, i) /\ Looked(a)
<1>1. /\ TypeOK /\ pc[a] = "idle" /\ pc' = [pc EXCEPT ![a] = "remove"]
      /\ RunsOn(p) \cup FiledIn(p) # {} /\ UNCHANGED <<files, made, gone, faults, revived>>
  BY DEF IInv, StartRemove, ghosts
<1>2. PICK i \in Iface : i \in RunsOn(p) \cup FiledIn(p)
  BY <1>1 DEF RunsOn, FiledIn
<1>3. pc'[a] = "remove" /\ Others(a)
  BY <1>1 DEF TypeOK, StartRemove, Others
<1> QED
  BY <1>1, <1>2, <1>3 DEF Frame, Looked, files

\* Every step of a call moves in one of these ways.
LEMMA CallMoves ==
  ASSUME IInv, NEW a \in Proc, Step(a)
  PROVE  \E i \in Iface, p \in Pub : Frame(a, i) /\ Moves(a, i, p)
<1>1. CASE \E n \in Name, i \in Iface, p \in Pub : StartAdd(a, n, i, p)
  BY <1>1, StartAddMoves DEF Moves
<1>2. CASE \E p \in Pub : StartRemove(a, p)
  BY <1>2, StartRemoveMoves DEF Moves
<1>3. CASE Crash(a)
  BY <1>3, FailedMoves DEF Crash, Moves
<1>4. CASE AppendBlock(a)
  BY <1>4, AppendMoves DEF Moves
<1>5. CASE applyPeer(a) \/ WriteClient(a)
  BY <1>5, ApplyMoves, WriteMoves DEF Moves
<1>6. CASE UndoLive(a) \/ UndoConf(a)
  BY <1>6, UndoLiveMoves, UndoConfMoves DEF Moves
<1>7. CASE RemoveLive(a) \/ RemoveBlock(a)
  BY <1>7, RemoveLiveMoves, RemoveBlockMoves DEF Moves
<1>8. CASE RemoveFiles(a) \/ ForgetPeer(a)
  BY <1>8, RemoveFilesMoves, ForgetMoves DEF Moves
<1> QED
  BY <1>1, <1>2, <1>3, <1>4, <1>5, <1>6, <1>7, <1>8 DEF Step

(***************************************************************************)
(* Who runs is configured.                                                 *)
(***************************************************************************)
\* The keys of a config are those of its blocks.
LEMMA PubsOfBlocks ==
  ASSUME NEW i \in Iface
  PROVE  /\ PubsIn(conf[i]) = {b.pub : b \in Blocks(i)}
         /\ PubsIn(conf[i])' = {b.pub : b \in Blocks(i)'}
BY DEF PubsIn, Blocks

\* A step of another call leaves a call alone, and its interface.
LEMMA OthersKeep ==
  ASSUME IInv, NEW a \in Proc, NEW i \in Iface, Frame(a, i), NEW v \in Proc, v # a
  PROVE  /\ pc'[v] = pc[v] /\ job'[v] = job[v]
         /\ pc[v] \in Inside =>
              /\ job[v].iface \in Iface /\ job[v].pub \in Pub
              /\ conf'[job[v].iface] = conf[job[v].iface] /\ live'[job[v].iface] = live[job[v].iface]
<1>1. pc[v] \in Inside => pc[v] # "idle"
  BY DEF Inside, Adding, Removing
<1> QED
  BY <1>1, JobTypes DEF Frame, Others

\* What WithPeer and WithoutPeer make of the running peers of an interface.
LEMMA RunningFacts ==
  ASSUME IInv, NEW i \in Iface, NEW p \in Pub, NEW x
  PROVE  /\ live'[i] = WithPeer(live[i], p, x) =>
              /\ Running(i)' = Running(i) \cup {p} /\ live'[i][p] = x
              /\ \A q \in Running(i) : q # p => live'[i][q] = IF live[i][q] = x THEN None ELSE live[i][q]
         /\ live'[i] = WithoutPeer(live[i], p) =>
              /\ Running(i)' = Running(i) \ {p}
              /\ \A q \in Running(i) : q # p => live'[i][q] = live[i][q]
BY DEF Running, WithPeer, WithoutPeer

\* A call leaves the interface running what is configured.
LEMMA LiveKept ==
  ASSUME IInv, LiveInv, RevivedInv, NEW a \in Proc, OffInv(a), \A K : Without(K)' => Without(K),
         NEW i \in Iface, NEW p \in Pub, Frame(a, i), Moves(a, i, p)
  PROVE  LiveInv'
<1> USE DEF UndoneUnseen
<1>1. ASSUME Without({"restart", "undo"})' \/ UndoneUnseen'
      PROVE  Running(i)' \subseteq PubsIn(conf[i])'
  <2>1. Without({"restart", "undo"}) \/ UndoneUnseen
    BY <1>1
  <2>2. Running(i) \subseteq PubsIn(conf[i])
    BY <2>1 DEF LiveInv
  <2>3. CASE UNCHANGED <<conf, live>>
    BY <2>2, <2>3 DEF Running
  <2>4. CASE Appended(a, i, p) \/ CutShort(a, i, p)
    <3>1. live'[i] = live[i] /\ Blocks(i) \subseteq Blocks(i)'
      BY <2>4 DEF Appended, CutShort
    <3>2. PubsIn(conf[i]) \subseteq PubsIn(conf[i])'
      <4>1. /\ PubsIn(conf[i]) = {b.pub : b \in Blocks(i)}
            /\ PubsIn(conf[i])' = {b.pub : b \in Blocks(i)'}
        BY PubsOfBlocks
      <4> QED
        BY <3>1, <4>1
    <3>3. Running(i)' = Running(i)
      BY <3>1 DEF Running
    <3> QED
      BY <2>2, <3>2, <3>3
  <2>5. CASE Applied(a, i, p)
    <3>1. p \in PubsIn(conf[i]) /\ conf' = conf
      BY <2>5 DEF Applied, Own, IInv, WorksOn
    <3>2. Running(i)' = Running(i) \cup {p}
      <4> PICK x : x = job[a].addr
        OBVIOUS
      <4>1. live'[i] = WithPeer(live[i], p, x)
        BY <2>5 DEF Applied
      <4> QED
        BY <4>1, RunningFacts
    <3> QED
      BY <2>2, <3>1, <3>2
  <2>6. CASE UndidLive(a, i, p) \/ TookOff(a, i, p)
    <3>1. conf' = conf /\ Running(i)' \subseteq Running(i)
      BY <2>6, RunningFacts DEF UndidLive, TookOff
    <3> QED
      BY <2>2, <3>1
  <2>7. CASE UndidConf(a, i, p) \/ Erased(a, i, p)
    <3>1. live' = live /\ Blocks(i)' = {b \in Blocks(i) : b.pub # p}
      BY <2>7 DEF UndidConf, Erased, Dropped
    <3>2. p \notin Running(i)
      <4>1. Without({"restart"}) /\ revived = {}
        BY <2>1 DEF Without, RevivedInv
      <4> QED
        BY <2>1, <2>7, <4>1 DEF OffInv, UndidConf, Erased, Own
    <3>3. Running(i)' = Running(i)
      BY <3>1 DEF Running
    <3> QED
      BY <2>2, <3>1, <3>2, <3>3, PubsOfBlocks
  <2>8. Began(a, i, p) \/ Looked(a) \/ Failed(a) \/ Written(a, i, p) \/ Unlinked(a, i, p) \/ Forgot(a, i, p)
        => UNCHANGED <<conf, live>>
    BY DEF Began, Looked, Failed, Written, Unlinked, Forgot, files
  <2> QED
    BY <2>3, <2>4, <2>5, <2>6, <2>7, <2>8 DEF Moves
<1>2. ASSUME NEW j \in Iface, j # i, Without({"restart", "undo"})' \/ UndoneUnseen'
      PROVE  Running(j)' \subseteq PubsIn(conf[j])'
  BY <1>2 DEF Frame, LiveInv, Running
<1> QED
  BY <1>1, <1>2 DEF LiveInv

\* A call knows whether its key runs.
LEMMA OffKept ==
  ASSUME IInv, NEW a \in Proc, OffInv(a), \A K : Without(K)' => Without(K),
         NEW i \in Iface, NEW p \in Pub, Frame(a, i), Moves(a, i, p)
  PROVE  OffInv(a)'
<1> USE DEF UndoneUnseen
<1>1. CASE Began(a, i, p)
  <2>1. p \notin Running(i) /\ p \notin ledger
    BY <1>1 DEF Began, IInv, OneHome
  <2>2. p \notin Running(i)' /\ p \notin ledger' /\ job'[a].pub = p /\ job'[a].iface = i /\ pc'[a] = "append"
    BY <1>1, <2>1 DEF Began, files, Running
  <2> QED
    BY <2>2 DEF OffInv
<1>2. CASE pc'[a] \in {"idle", "remove", "file"}
  BY <1>2 DEF OffInv
<1>3. CASE Appended(a, i, p)
  BY <1>3 DEF OffInv, Appended, Own, Stays, Running
<1>4. CASE UndidLive(a, i, p)
  <2>1. p \notin Running(i)'
    BY <1>4, RunningFacts DEF UndidLive
  <2> QED
    BY <1>4, <2>1 DEF OffInv, UndidLive, Own, Stays
<1>5. CASE TookOff(a, i, p) /\ pc'[a] = "rewrite"
  <2>1. p \notin Running(i)'
    BY <1>5, RunningFacts DEF TookOff
  <2> QED
    BY <1>5, <2>1 DEF OffInv, TookOff
<1>6. CASE Erased(a, i, p) \/ Unlinked(a, i, p)
  BY <1>6 DEF OffInv, Erased, Unlinked, Own, Stays, Running
<1>7. CASE Applied(a, i, p) /\ pc'[a] = "undoLive"
  <2>1. "setLate" \in faults'
    BY <1>7 DEF Applied
  <2> QED
    BY <1>7, <2>1 DEF OffInv, Without
<1>8. CASE Failed(a) /\ pc'[a] # "idle"
  <2>1. live' = live /\ ledger' = ledger /\ Stays(a)
    BY <1>8 DEF Failed, files
  <2>2. CASE pc[a] = "apply" /\ pc'[a] = "undoLive"
    BY <2>1, <2>2 DEF OffInv, Stays, Running, Without
  <2>3. CASE pc[a] = "file" /\ pc'[a] = "undoLive" /\ "file" \in faults'
    BY <2>3 DEF OffInv, Without
  <2>4. CASE pc[a] = "undoLive" /\ pc'[a] = "undoConf" /\ "undo" \in faults'
    BY <2>1, <2>4 DEF OffInv, Stays, Running, Without
  <2> QED
    BY <1>8, <2>2, <2>3, <2>4 DEF Failed
<1>9. /\ Looked(a) => pc'[a] = "remove"
      /\ Applied(a, i, p) => pc'[a] \in {"file", "undoLive"}
      /\ TookOff(a, i, p) => pc'[a] \in {"rewrite", "idle"}
      /\ CutShort(a, i, p) \/ Written(a, i, p) \/ UndidConf(a, i, p) \/ Forgot(a, i, p) => pc'[a] = "idle"
  BY DEF Looked, Applied, TookOff, CutShort, Written, UndidConf, Forgot
<1> QED
  BY <1>1, <1>2, <1>3, <1>4, <1>5, <1>6, <1>7, <1>8, <1>9 DEF Moves

\* A step of a call sets nobody again that a removal has taken off; a removal that ends
\* forgets that its peer was, unless the peer runs.
LEMMA RevivedKept ==
  ASSUME NEW a \in Proc, NEW i \in Iface, NEW p \in Pub, Moves(a, i, p)
  PROVE  /\ revived' \subseteq revived
         /\ \A q \in revived \ revived' : RunsOn(q) = {} /\ live' = live /\ q \notin ledger'
<1>1. CASE Forgot(a, i, p)
  BY <1>1 DEF Forgot
<1>2. CASE ~Forgot(a, i, p)
  BY <1>2 DEF Moves, Began, Looked, Appended, CutShort, Applied, Written, UndidLive, UndidConf, TookOff,
     Erased, Unlinked, Failed
<1> QED
  BY <1>1, <1>2

\* The other calls know it still.
LEMMA OffKeptOthers ==
  ASSUME IInv, NEW a \in Proc, NEW v \in Proc, v # a, OffInv(v), \A K : Without(K)' => Without(K),
         NEW i \in Iface, NEW p \in Pub, Frame(a, i), Moves(a, i, p)
  PROVE  OffInv(v)'
<1>1. /\ pc'[v] = pc[v] /\ job'[v] = job[v]
      /\ pc[v] \in Inside => live'[job[v].iface] = live[job[v].iface]
  BY OthersKeep
<1>2. ledger' \subseteq ledger
  BY DEF Moves, Began, Looked, Appended, CutShort, Applied, Written, UndidLive, UndidConf, TookOff,
     Erased, Unlinked, Forgot, Failed, files
<1>3. pc[v] \in {"rewrite", "unlink", "forget"} /\ job[v].pub \in revived =>
        job[v].pub \in revived' \/ job[v].pub \notin Running(job[v].iface)'
  <2> SUFFICES ASSUME pc[v] \in {"rewrite", "unlink", "forget"}, job[v].pub \in revived,
                      job[v].pub \notin revived'
               PROVE  job[v].pub \notin Running(job[v].iface)'
    OBVIOUS
  <2>1. RunsOn(job[v].pub) = {} /\ live' = live
    BY RevivedKept
  <2>2. job[v].iface \in Iface /\ job'[v] = job[v]
    BY <1>1, JobTypes
  <2> QED
    BY <2>1, <2>2 DEF RunsOn, Running
<1>4. {"append", "apply", "rewrite", "unlink", "forget", "undoLive", "undoConf"} \subseteq Inside
  BY DEF Inside, Adding, Removing
<1> HIDE DEF Inside
<1> QED
  BY <1>1, <1>2, <1>3, <1>4 DEF OffInv, Running, UndoneUnseen

(***************************************************************************)
(* What is kept of a peer: its client config and its history.              *)
(***************************************************************************)
\* A step of a call keeps every block but those of its own key, in its own config, when it
\* undoes an addPeer or erases.
LEMMA BlocksKept ==
  ASSUME NEW a \in Proc, NEW i \in Iface, NEW p \in Pub, Frame(a, i), Moves(a, i, p),
         NEW j \in Iface, NEW b \in Blocks(j), b \notin Blocks(j)'
  PROVE  /\ j = i /\ b.pub = p /\ Own(a, i, p)
         /\ UndidConf(a, i, p) \/ Erased(a, i, p)
<1>1. conf'[j] # conf[j]
  BY DEF Blocks
<1>2. j = i
  BY <1>1 DEF Frame
<1>3. ~(Blocks(i) \subseteq Blocks(i)')
  BY <1>2
<1>4. UndidConf(a, i, p) \/ Erased(a, i, p)
  <2>1. Began(a, i, p) \/ Looked(a) \/ Failed(a) \/ Written(a, i, p) \/ Unlinked(a, i, p)
        \/ Forgot(a, i, p) \/ Applied(a, i, p) \/ UndidLive(a, i, p) \/ TookOff(a, i, p)
        => conf' = conf
    BY DEF Began, Looked, Failed, Written, Unlinked, Forgot, Applied, UndidLive, TookOff, files
  <2>2. Appended(a, i, p) \/ CutShort(a, i, p) => Blocks(i) \subseteq Blocks(i)'
    BY DEF Appended, CutShort
  <2> QED
    BY <1>1, <1>3, <2>1, <2>2 DEF Moves
<1>5. b.pub = p /\ Own(a, i, p)
  BY <1>2, <1>4 DEF UndidConf, Erased, Dropped
<1> QED
  BY <1>2, <1>4, <1>5

\* A client config that a step leaves alone stays that of a block, or a removal's.
LEMMA FileKept ==
  ASSUME IInv, FilesInv, NEW a \in Proc, \A K : Without(K)' => Without(K), Without({"crash", "unlink"})',
         NEW i \in Iface, NEW p \in Pub, Frame(a, i), Moves(a, i, p),
         NEW d \in Range(DirOf), NEW n \in Name, NEW q \in Pub, client[d][n] = q, client'[d][n] = q
  PROVE  OfBlock(d, n, q)' \/ Unlinking(d, n, q)'
<1>1. q # None /\ n # None
  BY NoneAssumption
<1>2. q \in made /\ (OfBlock(d, n, q) \/ Unlinking(d, n, q))
  BY <1>1 DEF FilesInv
<1>3. CASE OfBlock(d, n, q)
  <2>1. PICK j \in Iface : DirOf[j] = d /\ \E b \in Blocks(j) : b.pub = q /\ b.name = n
    BY <1>3 DEF OfBlock
  <2>2. PICK b \in Blocks(j) : b.pub = q /\ b.name = n
    BY <2>1
  <2>3. CASE b \in Blocks(j)'
    BY <2>1, <2>2, <2>3 DEF OfBlock
  <2>4. CASE b \notin Blocks(j)'
    <3>1. j = i /\ q = p /\ Own(a, i, p) /\ (UndidConf(a, i, p) \/ Erased(a, i, p))
      BY <2>2, <2>4, BlocksKept
    <3>2. ~UndidConf(a, i, p)
      BY <1>2, <3>1 DEF UndidConf, Own, IInv, WorksOn, Adding
    <3>3. pc[a] = "rewrite" /\ pc'[a] = "unlink" /\ job'[a] = job[a] /\ pc[a] \in Inside
      BY <3>1, <3>2 DEF Erased, Stays, Inside, Removing
    <3>4. job[a].name = n
      BY <2>2, <3>1, <3>3 DEF IInv, WorksOn, Own
    <3> QED
      BY <2>1, <3>1, <3>3, <3>4 DEF Unlinking, Own
  <2> QED
    BY <2>3, <2>4
<1>4. CASE Unlinking(d, n, q)
  <2>1. PICK v \in Proc : /\ pc[v] = "unlink" /\ DirOf[job[v].iface] = d
                          /\ job[v].name = n /\ job[v].pub = q
    BY <1>4 DEF Unlinking
  <2>2. CASE v # a
    BY <2>1, <2>2 DEF Frame, Others, Unlinking
  <2>3. CASE v = a
    <3>1. Unlinked(a, i, p)
      BY <2>1, <2>3 DEF Moves, Began, Looked, Appended, CutShort, Applied, Written, UndidLive,
         UndidConf, TookOff, Erased, Forgot, Failed, Without
    <3>2. client' = [client EXCEPT ![d] = [client[d] EXCEPT ![n] = None]]
      BY <1>1, <2>1, <2>3, <3>1 DEF Unlinked, Own, Without
    <3>3. client'[d][n] = None
      BY <3>2 DEF IInv, TypeOK
    <3> QED
      BY <1>1, <3>3
  <2> QED
    BY <2>2, <2>3
<1> QED
  BY <1>2, <1>3, <1>4

\* A call leaves no client config that is not of a block, but those it is about to unlink.
LEMMA FilesKept ==
  ASSUME IInv, FilesInv, NEW a \in Proc, \A K : Without(K)' => Without(K),
         NEW i \in Iface, NEW p \in Pub, Frame(a, i), Moves(a, i, p)
  PROVE  FilesInv'
<1> SUFFICES ASSUME NEW d \in Range(DirOf), NEW n \in Name, NEW q, q = client'[d][n], q # None
             PROVE  /\ q \in made'
                    /\ Without({"crash", "unlink"})' => OfBlock(d, n, q)' \/ Unlinking(d, n, q)'
  <2>1. PICK c : c = client'
    OBVIOUS
  <2>2. ASSUME NEW d \in Range(DirOf), NEW n \in Name, c[d][n] # None
        PROVE  /\ c[d][n] \in made'
               /\ Without({"crash", "unlink"})' => OfBlock(d, n, c[d][n])' \/ Unlinking(d, n, c[d][n])'
    BY <2>1, <2>2
  <2> QED
    BY <2>1, <2>2 DEF FilesInv, OfBlock, Unlinking
<1>1. client \in [Range(DirOf) -> [Name -> Pub \cup {None}]] /\ DirOf[i] \in Range(DirOf)
  BY IfaceAssumption DEF IInv, TypeOK
<1>2. made \subseteq made'
  BY DEF Moves, Began, Looked, Appended, CutShort, Applied, Written, UndidLive, UndidConf, TookOff,
     Erased, Unlinked, Forgot, Failed
<1>3. CASE q = client[d][n]
  <2>1. q \in Pub
    BY <1>1, <1>3
  <2>2. q \in made'
    BY <1>2, <1>3 DEF FilesInv
  <2> QED
    BY <1>3, <2>1, <2>2, FileKept
<1>4. CASE q # client[d][n]
  <2>1. Written(a, i, p) \/ Unlinked(a, i, p)
    BY <1>4 DEF Moves, Began, Looked, Appended, CutShort, Applied, UndidLive, UndidConf, TookOff,
       Erased, Forgot, Failed, files
  <2>2. CASE Unlinked(a, i, p)
    <3> PICK m : m = job[a].name
      OBVIOUS
    <3>1. \/ client' = client
          \/ client' = [client EXCEPT ![DirOf[i]] = [client[DirOf[i]] EXCEPT ![m] = None]]
      BY <2>2 DEF Unlinked
    <3>2. q \in {client[d][n], None}
      BY <1>1, <3>1
    <3> QED
      BY <1>4, <3>2
  <2>3. CASE Written(a, i, p)
    <3> PICK m \in Name : m = job[a].name
      BY <2>3 DEF Written
    <3>1. client' = [client EXCEPT ![DirOf[i]] = [client[DirOf[i]] EXCEPT ![m] = p]]
      BY <2>3 DEF Written
    <3>2. d = DirOf[i] /\ n = m /\ q = p
      BY <1>1, <1>4, <3>1
    <3>3. p \in PubsIn(conf[i]) /\ \A b \in Blocks(i) : b.name = m <=> b.pub = p
      <4>1. pc[a] = "file" /\ pc[a] \in Inside /\ WorksOn(a) /\ Own(a, i, p)
        BY <2>3 DEF Written, IInv, Inside, Adding
      <4> QED
        BY <4>1 DEF WorksOn, Own
    <3>4. PICK b \in Blocks(i) : b.pub = p /\ b.name = n
      BY <3>2, <3>3, PubsOfBlocks
    <3>5. Blocks(i)' = Blocks(i) /\ p \in made'
      BY <2>3 DEF Written, Blocks
    <3>6. OfBlock(d, n, p)'
      BY <3>2, <3>4, <3>5 DEF OfBlock
    <3> QED
      BY <3>2, <3>5, <3>6
  <2> QED
    BY <2>1, <2>2, <2>3
<1> QED
  BY <1>3, <1>4

\* The ledger knows who is configured or about to be forgotten.
LEMMA LedgerKept ==
  ASSUME IInv, LedgerInv, NEW a \in Proc, OffInv(a), \A K : Without(K)' => Without(K),
         NEW i \in Iface, NEW p \in Pub, Frame(a, i), Moves(a, i, p)
  PROVE  LedgerInv'
<1> SUFFICES ASSUME UndoneUnseen', Without({"crash", "forget"})', NEW q \in ledger'
             PROVE  \/ FiledIn(q)' # {}
                    \/ \E v \in Proc : pc'[v] \in {"unlink", "forget"} /\ job'[v].pub = q
  BY DEF LedgerInv
<1>1. /\ UndoneUnseen /\ Without({"crash", "forget"})
      /\ "crash" \notin faults' /\ "forget" \notin faults'
  BY DEF Without, UndoneUnseen
<1>2. q \in ledger
  BY DEF Moves, Began, Looked, Appended, CutShort, Applied, Written, UndidLive, UndidConf, TookOff,
     Erased, Unlinked, Forgot, Failed, files
<1>3. CASE FiledIn(q) # {}
  <2>1. PICK j \in Iface : \E b \in Blocks(j) : b.pub = q
    BY <1>3, PubsOfBlocks DEF FiledIn
  <2>2. PICK b \in Blocks(j) : b.pub = q
    BY <2>1
  <2>3. CASE b \in Blocks(j)'
    BY <2>2, <2>3, PubsOfBlocks DEF FiledIn
  <2>4. CASE b \notin Blocks(j)'
    <3>1. q = p /\ Own(a, i, p) /\ (UndidConf(a, i, p) \/ Erased(a, i, p))
      BY <2>2, <2>4, BlocksKept
    <3>2. ~UndidConf(a, i, p)
      BY <1>1, <1>2, <3>1 DEF UndidConf, Own, OffInv
    <3> QED
      BY <3>1, <3>2 DEF Erased, Stays, Own
  <2> QED
    BY <2>3, <2>4
<1>4. CASE \E v \in Proc : pc[v] \in {"unlink", "forget"} /\ job[v].pub = q
  <2>1. PICK v \in Proc : pc[v] \in {"unlink", "forget"} /\ job[v].pub = q
    BY <1>4
  <2>2. CASE v # a
    BY <2>1, <2>2 DEF Frame, Others
  <2>3. CASE v = a
    <3>1. Unlinked(a, i, p) \/ Forgot(a, i, p)
      BY <1>1, <2>1, <2>3 DEF Moves, Began, Looked, Appended, CutShort, Applied, Written, UndidLive,
         UndidConf, TookOff, Erased, Failed
    <3>2. ~Forgot(a, i, p)
      BY <2>1, <2>3 DEF Forgot, Own
    <3> QED
      BY <2>1, <2>3, <3>1, <3>2 DEF Unlinked, Stays
  <2> QED
    BY <2>2, <2>3
<1> QED
  BY <1>1, <1>2, <1>3, <1>4 DEF LedgerInv

\* A block that a step of a call adds is that of its key.
LEMMA BlocksAdded ==
  ASSUME NEW a \in Proc, NEW i \in Iface, NEW p \in Pub, Frame(a, i), Moves(a, i, p),
         NEW j \in Iface, NEW b \in Blocks(j)', b \notin Blocks(j)
  PROVE  j = i /\ (Appended(a, i, p) \/ CutShort(a, i, p)) /\ b.pub = p
<1>1. conf'[j] # conf[j]
  BY DEF Blocks
<1>2. j = i
  BY <1>1 DEF Frame
<1>3. Appended(a, i, p) \/ CutShort(a, i, p)
  <2>1. Began(a, i, p) \/ Looked(a) \/ Failed(a) \/ Written(a, i, p) \/ Unlinked(a, i, p)
        \/ Forgot(a, i, p) \/ Applied(a, i, p) \/ UndidLive(a, i, p) \/ TookOff(a, i, p)
        => conf' = conf
    BY DEF Began, Looked, Failed, Written, Unlinked, Forgot, Applied, UndidLive, TookOff, files
  <2>2. UndidConf(a, i, p) \/ Erased(a, i, p) => Blocks(i)' \subseteq Blocks(i)
    BY DEF UndidConf, Erased, Dropped
  <2> QED
    BY <1>1, <1>2, <2>1, <2>2 DEF Moves
<1>4. BlockOf(a).pub = job[a].pub
  BY DEF BlockOf
<1> QED
  BY <1>2, <1>3, <1>4 DEF Appended, CutShort, Own

\* A step of a call sets no other peer running than its own, and that with its address.
LEMMA RunningAdded ==
  ASSUME IInv, NEW a \in Proc, NEW i \in Iface, NEW p \in Pub, Frame(a, i), Moves(a, i, p),
         NEW j \in Iface, NEW q \in Running(j)', q \notin Running(j)
  PROVE  j = i /\ q = p /\ Applied(a, i, p)
<1>1. live'[j] # live[j]
  BY DEF Running
<1>2. j = i
  BY <1>1 DEF Frame
<1>3. Applied(a, i, p)
  <2>1. Began(a, i, p) \/ Looked(a) \/ Failed(a) \/ Written(a, i, p) \/ Unlinked(a, i, p)
        \/ Forgot(a, i, p) \/ Appended(a, i, p) \/ CutShort(a, i, p) \/ UndidConf(a, i, p) \/ Erased(a, i, p)
        => live' = live
    BY DEF Began, Looked, Failed, Written, Unlinked, Forgot, Appended, CutShort, UndidConf, Erased, files
  <2>2. UndidLive(a, i, p) \/ TookOff(a, i, p) => Running(i)' \subseteq Running(i)
    BY RunningFacts DEF UndidLive, TookOff
  <2> QED
    BY <1>1, <1>2, <2>1, <2>2 DEF Moves
<1>4. Running(i)' = Running(i) \cup {p}
  <2> PICK x : x = job[a].addr
    OBVIOUS
  <2>1. live'[i] = WithPeer(live[i], p, x)
    BY <1>3 DEF Applied
  <2> QED
    BY <2>1, RunningFacts
<1> QED
  BY <1>2, <1>3, <1>4

\* A step of a call writes its own key to a client config, or none.
LEMMA ClientAdded ==
  ASSUME IInv, NEW a \in Proc, NEW i \in Iface, NEW p \in Pub, Frame(a, i), Moves(a, i, p),
         NEW d \in Range(DirOf), NEW n \in Name, client'[d][n] # client[d][n]
  PROVE  client'[d][n] = None \/ (client'[d][n] = p /\ Written(a, i, p))
<1>1. client \in [Range(DirOf) -> [Name -> Pub \cup {None}]] /\ DirOf[i] \in Range(DirOf)
  BY IfaceAssumption DEF IInv, TypeOK
<1>2. Written(a, i, p) \/ Unlinked(a, i, p)
  BY DEF Moves, Began, Looked, Appended, CutShort, Applied, UndidLive, UndidConf, TookOff,
     Erased, Forgot, Failed, files
<1> PICK m : m = job[a].name
  OBVIOUS
<1>3. CASE Unlinked(a, i, p)
  <2>1. \/ client' = client
        \/ client' = [client EXCEPT ![DirOf[i]] = [client[DirOf[i]] EXCEPT ![m] = None]]
    BY <1>3 DEF Unlinked
  <2> QED
    BY <1>1, <2>1
<1>4. CASE Written(a, i, p)
  <2>1. client' = [client EXCEPT ![DirOf[i]] = [client[DirOf[i]] EXCEPT ![m] = p]]
    BY <1>4 DEF Written
  <2>2. client'[d][n] = p
    BY <1>1, <2>1
  <2> QED
    BY <1>4, <2>2
<1> QED
  BY <1>2, <1>3, <1>4

\* Who was removed stays so.
LEMMA GoneKept ==
  ASSUME IInv, FilesInv, RemovedStaysRemoved, NEW a \in Proc, OffInv(a), \A K : Without(K)' => Without(K),
         NEW i \in Iface, NEW p \in Pub, Frame(a, i), Moves(a, i, p)
  PROVE  RemovedStaysRemoved'
<1> SUFFICES ASSUME NEW q \in gone'
             PROVE  /\ FiledIn(q)' = {}
                    /\ RunsOn(q)' # {} \/ q \in ledger' => q \in revived'
                    /\ Without({"crash", "unlink"})' => \A d \in Range(DirOf), n \in Name : client'[d][n] # q
  BY DEF RemovedStaysRemoved
<1>1. ledger' \subseteq ledger
  BY DEF Moves, Began, Looked, Appended, CutShort, Applied, Written, UndidLive, UndidConf, TookOff,
     Erased, Unlinked, Forgot, Failed, files
<1>2. q \in gone \/ (q = p /\ Forgot(a, i, p))
  BY DEF Moves, Began, Looked, Appended, CutShort, Applied, Written, UndidLive, UndidConf, TookOff,
     Erased, Unlinked, Forgot, Failed, files
<1>3. CASE q \in gone
  <2>1. FiledIn(q) = {} /\ (RunsOn(q) # {} \/ q \in ledger => q \in revived)
        /\ (Without({"crash", "unlink"}) => \A d \in Range(DirOf), n \in Name : client[d][n] # q)
    BY <1>3 DEF RemovedStaysRemoved
  <2>2. pc[a] \in Adding /\ Own(a, i, p) => q # p
    BY <1>3 DEF IInv, WorksOn, Own
  <2>3. RunsOn(q)' \subseteq RunsOn(q)
    <3> SUFFICES ASSUME NEW j \in Iface, q \in Running(j)', q \notin Running(j) PROVE FALSE
      BY DEF RunsOn
    <3>1. q = p /\ Applied(a, i, p)
      BY RunningAdded
    <3> QED
      BY <2>2, <3>1 DEF Applied, Adding
  <2>4. FiledIn(q)' = {}
    <3> SUFFICES ASSUME NEW j \in Iface, NEW b \in Blocks(j)', b.pub = q PROVE FALSE
      BY PubsOfBlocks DEF FiledIn
    <3>1. b \notin Blocks(j)
      BY <2>1, PubsOfBlocks DEF FiledIn
    <3>2. (Appended(a, i, p) \/ CutShort(a, i, p)) /\ q = p
      BY <3>1, BlocksAdded
    <3> QED
      BY <2>2, <3>2 DEF Appended, CutShort, Adding
  <2>5. Without({"crash", "unlink"})' => \A d \in Range(DirOf), n \in Name : client'[d][n] # q
    <3> SUFFICES ASSUME Without({"crash", "unlink"})', NEW d \in Range(DirOf), NEW n \in Name,
                        client'[d][n] = q
                 PROVE  FALSE
      OBVIOUS
    <3>1. client[d][n] # q
      BY <2>1
    <3>2. q # None
      BY <1>3, NoneAssumption DEF IInv, TypeOK
    <3>3. q = p /\ Written(a, i, p)
      BY <3>1, <3>2, ClientAdded
    <3> QED
      BY <2>2, <3>3 DEF Written, Adding
  <2>6. RunsOn(q)' # {} \/ q \in ledger' => q \in revived'
    <3> SUFFICES ASSUME RunsOn(q)' # {} \/ q \in ledger', q \notin revived' PROVE FALSE
      OBVIOUS
    <3>1. q \in revived
      BY <1>1, <2>1, <2>3
    <3>2. RunsOn(q) = {} /\ q \notin ledger'
      BY <3>1, RevivedKept
    <3> QED
      BY <2>3, <3>2
  <2> QED
    BY <2>4, <2>5, <2>6
<1>4. CASE q = p /\ Forgot(a, i, p)
  <2>1. /\ pc[a] = "forget" /\ Own(a, i, p) /\ UNCHANGED <<conf, live, client>> /\ ledger' = ledger \ {p}
        /\ revived' = {r \in revived : r = p => RunsOn(p) # {}}
    BY <1>4 DEF Forgot
  <2>2. /\ p \in Running(i) => p \in revived
        /\ p \notin PubsIn(conf[i]) /\ At(i, p) /\ pc[a] \in Inside
    BY <2>1 DEF OffInv, Own, IInv, WorksOn, At, Inside, Removing
  <2>3. \A j \in Iface : At(j, p) => j = i
    BY <2>2 DEF IInv, OneHome
  <2>4. \A j \in Iface : (p \in Running(j) => p \in revived) /\ p \notin PubsIn(conf[j])
    BY <2>2, <2>3 DEF At
  <2>5. FiledIn(p)' = {} /\ RunsOn(p)' = RunsOn(p) /\ (RunsOn(p) # {} => p \in revived)
    BY <2>1, <2>4 DEF RunsOn, FiledIn, Running
  <2>6. ASSUME Without({"crash", "unlink"})', NEW d \in Range(DirOf), NEW n \in Name, client[d][n] = p
        PROVE  FALSE
    <3>1. OfBlock(d, n, p) \/ Unlinking(d, n, p)
      BY <2>6, NoneAssumption DEF FilesInv
    <3>2. ~OfBlock(d, n, p)
      BY <2>4, PubsOfBlocks DEF OfBlock
    <3>3. PICK v \in Proc : pc[v] = "unlink" /\ job[v].pub = p
      BY <3>1, <3>2 DEF Unlinking
    <3>4. pc[v] \in Inside /\ pc[v] # "idle"
      BY <3>3 DEF Inside, Removing
    <3>5. job[v].iface \in Iface /\ At(job[v].iface, p)
      BY <3>3, <3>4, JobTypes DEF At
    <3>6. v = a
      BY <2>1, <2>2, <2>3, <3>4, <3>5, Alone DEF IInv, Own
    <3> QED
      BY <2>1, <3>3, <3>6
  <2> QED
    BY <1>4, <2>1, <2>5, <2>6
<1> QED
  BY <1>2, <1>3, <1>4

\* Who is configured was made, and who was made is configured or removed, but for calls
\* under way.
LEMMA MadeKept ==
  ASSUME IInv, MadeInv, NEW a \in Proc, faults \subseteq faults',
         NEW i \in Iface, NEW p \in Pub, Frame(a, i), Moves(a, i, p)
  PROVE  MadeInv'
<1> SUFFICES ASSUME faults' \subseteq Undone
             PROVE  /\ \A j \in Iface : \A b \in Blocks(j)' :
                         \/ b.pub \in made'
                         \/ \E v \in Proc : pc'[v] \in Adding /\ job'[v].iface = j /\ job'[v].pub = b.pub
                    /\ \A q \in made' : \/ q \in gone'
                                        \/ FiledIn(q)' # {}
                                        \/ \E v \in Proc : pc'[v] \in {"unlink", "forget"} /\ job'[v].pub = q
  BY DEF MadeInv
<1>1. /\ faults \subseteq Undone /\ "append" \notin faults' /\ "undo" \notin faults'
      /\ "rewrite" \notin faults' /\ "forget" \notin faults' /\ "crash" \notin faults'
  BY DEF Undone
<1>2. /\ made \subseteq made' /\ gone \subseteq gone'
  BY DEF Moves, Began, Looked, Appended, CutShort, Applied, Written, UndidLive, UndidConf, TookOff,
     Erased, Unlinked, Forgot, Failed
<1>3. ~CutShort(a, i, p)
  BY <1>1 DEF CutShort
<1>4. pc[a] \in Adding =>
        \/ pc'[a] \in Adding /\ Stays(a)
        \/ Written(a, i, p) \/ UndidConf(a, i, p)
  BY <1>1, <1>3 DEF Moves, Began, Looked, Appended, Applied, UndidLive, TookOff,
     Erased, Unlinked, Forgot, Failed, Adding
<1>5. ASSUME NEW j \in Iface, NEW b \in Blocks(j)'
      PROVE  \/ b.pub \in made'
             \/ \E v \in Proc : pc'[v] \in Adding /\ job'[v].iface = j /\ job'[v].pub = b.pub
  <2>1. CASE b \notin Blocks(j)
    <3>1. j = i /\ b.pub = p /\ Appended(a, i, p)
      BY <1>3, <2>1, BlocksAdded
    <3> QED
      BY <3>1 DEF Appended, Own, Stays, Adding
  <2>2. CASE b \in Blocks(j)
    <3>1. CASE b.pub \in made
      BY <1>2, <3>1
    <3>2. CASE \E v \in Proc : pc[v] \in Adding /\ job[v].iface = j /\ job[v].pub = b.pub
      <4>1. PICK v \in Proc : pc[v] \in Adding /\ job[v].iface = j /\ job[v].pub = b.pub
        BY <3>2
      <4>2. CASE v # a
        BY <4>1, <4>2 DEF Frame, Others
      <4>3. CASE v = a /\ pc'[a] \in Adding /\ Stays(a)
        BY <4>1, <4>3 DEF Stays
      <4>4. CASE v = a /\ Written(a, i, p)
        BY <4>1, <4>4 DEF Written, Own
      <4>5. CASE v = a /\ UndidConf(a, i, p)
        BY <4>1, <4>5 DEF UndidConf, Own, Dropped
      <4> QED
        BY <1>4, <4>1, <4>2, <4>3, <4>4, <4>5
    <3> QED
      BY <1>1, <2>2, <3>1, <3>2 DEF MadeInv
  <2> QED
    BY <2>1, <2>2
<1>6. ASSUME NEW q \in made'
      PROVE  \/ q \in gone'
             \/ FiledIn(q)' # {}
             \/ \E v \in Proc : pc'[v] \in {"unlink", "forget"} /\ job'[v].pub = q
  <2>1. CASE q \notin made
    <3>1. q = p /\ Written(a, i, p)
      BY <2>1 DEF Moves, Began, Looked, Appended, CutShort, Applied, Written, UndidLive, UndidConf,
         TookOff, Erased, Unlinked, Forgot, Failed
    <3>2. p \in PubsIn(conf[i]) /\ conf' = conf
      BY <3>1 DEF Written, Own, IInv, WorksOn
    <3> QED
      BY <3>1, <3>2 DEF FiledIn
  <2>2. CASE q \in gone
    BY <1>2, <2>2
  <2>3. CASE q \in made /\ FiledIn(q) # {}
    <3>1. PICK j \in Iface : \E b \in Blocks(j) : b.pub = q
      BY <2>3, PubsOfBlocks DEF FiledIn
    <3>2. PICK b \in Blocks(j) : b.pub = q
      BY <3>1
    <3>3. CASE b \in Blocks(j)'
      BY <3>2, <3>3, PubsOfBlocks DEF FiledIn
    <3>4. CASE b \notin Blocks(j)'
      <4>1. q = p /\ Own(a, i, p) /\ (UndidConf(a, i, p) \/ Erased(a, i, p))
        BY <3>2, <3>4, BlocksKept
      <4>2. ~UndidConf(a, i, p)
        BY <2>3, <4>1 DEF UndidConf, Own, IInv, WorksOn, Adding
      <4> QED
        BY <4>1, <4>2 DEF Erased, Stays, Own
    <3> QED
      BY <3>3, <3>4
  <2>4. CASE \E v \in Proc : pc[v] \in {"unlink", "forget"} /\ job[v].pub = q
    <3>1. PICK v \in Proc : pc[v] \in {"unlink", "forget"} /\ job[v].pub = q
      BY <2>4
    <3>2. CASE v # a
      BY <3>1, <3>2 DEF Frame, Others
    <3>3. CASE v = a
      <4>1. Unlinked(a, i, p) \/ Forgot(a, i, p)
        BY <1>1, <3>1, <3>3 DEF Moves, Began, Looked, Appended, CutShort, Applied, Written, UndidLive,
           UndidConf, TookOff, Erased, Failed
      <4> QED
        BY <3>1, <3>3, <4>1 DEF Unlinked, Forgot, Stays, Own
    <3> QED
      BY <3>2, <3>3
  <2> QED
    BY <1>1, <2>1, <2>2, <2>3, <2>4 DEF MadeInv
<1> QED
  BY <1>5, <1>6

(***************************************************************************)
(* Addresses.                                                              *)
(***************************************************************************)
\* The address of an addPeer stays free until it takes it.
LEMMA AddrKept ==
  ASSUME IInv, BlocksRun, NEW a \in Proc, AddrInv(a), \A K : Without(K)' => Without(K),
         NEW i \in Iface, NEW p \in Pub, Frame(a, i), Moves(a, i, p)
  PROVE  AddrInv(a)'
<1>1. CASE Began(a, i, p)
  <2>1. /\ pc'[a] = "append" /\ job'[a].iface = i /\ conf' = conf /\ live' = live /\ lock[i] = None
        /\ ("read" \in faults' /\ a \in blind') \/ job'[a].addr \notin Taken(i)
    BY <1>1 DEF Began, files
  <2>2. ASSUME Without(Hiding)', NEW b \in Blocks(i)
        PROVE  b.addr # job'[a].addr
    <3>1. job'[a].addr \notin Taken(i) /\ Without(Hiding)
      BY <2>1, <2>2 DEF Without, Hiding
    <3>2. \A v \in Proc : pc[v] \in {"apply", "undoLive", "undoConf", "rewrite"} => job[v].iface # i
      BY <2>1, NoneAssumption DEF IInv, LockInv, Inside, Adding, Removing
    <3>3. RunsWith(i, b)
      BY <3>1, <3>2 DEF BlocksRun
    <3> QED
      BY <3>1, <3>3 DEF RunsWith, Taken
  <2>3. a \notin blind' => job'[a].addr \notin Taken(i)'
    BY <2>1 DEF Taken, Running
  <2>4. Blocks(i)' = Blocks(i)
    BY <2>1 DEF Blocks
  <2> QED
    BY <2>1, <2>2, <2>3, <2>4 DEF AddrInv
<1>2. CASE Appended(a, i, p)
  <2>1. /\ pc[a] = "append" /\ pc'[a] = "apply" /\ job'[a] = job[a] /\ Own(a, i, p) /\ live' = live
        /\ (a \in blind' <=> a \in blind)
        /\ Blocks(i)' = Blocks(i) \cup {BlockOf(a)}
    BY <1>2 DEF Appended, Stays
  <2>2. a \notin blind' => job[a].addr \notin Taken(i)'
    BY <2>1 DEF AddrInv, Own, Taken, Running
  <2>3. ASSUME NEW b \in Blocks(i)', b.pub = p
        PROVE  b.addr = job[a].addr
    <3>1. p \notin PubsIn(conf[i])
      BY <2>1 DEF IInv, WorksOn, Own
    <3>2. b = BlockOf(a)
      BY <2>1, <2>3, <3>1, PubsOfBlocks
    <3> QED
      BY <3>2 DEF BlockOf
  <2> QED
    BY <2>1, <2>2, <2>3 DEF AddrInv, Own
<1>3. pc'[a] \notin {"append", "apply"} \/ Began(a, i, p) \/ Appended(a, i, p)
  BY DEF Moves, Looked, CutShort, Applied, Written, UndidLive, UndidConf, TookOff,
     Erased, Unlinked, Forgot, Failed
<1>4. CASE pc'[a] \notin {"append", "apply"}
  BY <1>4 DEF AddrInv
<1> QED
  BY <1>1, <1>2, <1>3, <1>4

\* Other calls do not take it.
LEMMA AddrKeptOthers ==
  ASSUME IInv, NEW a \in Proc, NEW v \in Proc, v # a, AddrInv(v), \A K : Without(K)' => Without(K),
         NEW i \in Iface, Frame(a, i)
  PROVE  AddrInv(v)'
<1>1. /\ pc'[v] = pc[v] /\ job'[v] = job[v] /\ (v \in blind' <=> v \in blind)
      /\ pc[v] \in Inside =>
           conf'[job[v].iface] = conf[job[v].iface] /\ live'[job[v].iface] = live[job[v].iface]
  BY OthersKeep DEF Frame, Others
<1>2. {"append", "apply"} \subseteq Inside
  BY DEF Inside, Adding
<1> QED
  BY <1>1, <1>2 DEF AddrInv, Running, Taken, Blocks

\* Setting a peer takes nobody's address, and gives its block's.
LEMMA AppliedFacts ==
  ASSUME IInv, NEW a \in Proc, AddrInv(a), NEW i \in Iface, NEW p \in Pub, Applied(a, i, p)
  PROVE  /\ p \in Running(i)' /\ Running(i) \subseteq Running(i)'
         /\ \A b \in Blocks(i) : b.pub = p => b.addr = job[a].addr /\ live'[i][p] = b.addr
         /\ \A q \in Running(i) : q # p /\ live[i][q] # job[a].addr => live'[i][q] = live[i][q]
         /\ \E b \in Blocks(i) : b.pub = p
<1> PICK x : x = job[a].addr
  OBVIOUS
<1>1. live'[i] = WithPeer(live[i], p, x) /\ pc[a] = "apply" /\ Own(a, i, p)
  BY DEF Applied
<1>2. Running(i)' = Running(i) \cup {p} /\ live'[i][p] = x
      /\ \A q \in Running(i) : q # p => live'[i][q] = IF live[i][q] = x THEN None ELSE live[i][q]
  BY <1>1 DEF Running, WithPeer
<1>3. \A b \in Blocks(i) : b.pub = p => b.addr = x
  BY <1>1 DEF AddrInv, Own
<1>4. p \in PubsIn(conf[i])
  BY <1>1 DEF IInv, WorksOn, Own
<1> QED
  BY <1>2, <1>3, <1>4, PubsOfBlocks

\* A peer has the address of its block still, or none.
LEMMA LiveAddrKept ==
  ASSUME IInv, LiveAddr, NEW a \in Proc, OffInv(a), AddrInv(a),
         NEW i \in Iface, NEW p \in Pub, Frame(a, i), Moves(a, i, p)
  PROVE  LiveAddr'
<1> SUFFICES ASSUME NEW j \in Iface, NEW b \in Blocks(j)', b.pub \in Running(j)', live'[j][b.pub] # None
             PROVE  live'[j][b.pub] = b.addr
  BY DEF LiveAddr
<1>1. CASE b \notin Blocks(j)
  <2>1. j = i /\ b.pub = p /\ (Appended(a, i, p) \/ CutShort(a, i, p))
    BY <1>1, BlocksAdded
  <2>2. p \notin Running(i) /\ live' = live
    BY <2>1 DEF Appended, CutShort, OffInv, Own
  <2> QED
    BY <2>1, <2>2 DEF Running
<1>2. CASE b \in Blocks(j) /\ live'[j] = live[j]
  BY <1>2 DEF LiveAddr, Running
<1>3. CASE b \in Blocks(j) /\ live'[j] # live[j]
  <2>1. j = i
    BY <1>3 DEF Frame
  <2>2. Applied(a, i, p) \/ UndidLive(a, i, p) \/ TookOff(a, i, p)
    BY <1>3 DEF Moves, Began, Looked, Appended, CutShort, Written, UndidConf, Erased, Unlinked,
       Forgot, Failed, files
  <2>3. CASE Applied(a, i, p)
    <3>1. CASE b.pub = p
      BY <1>3, <2>1, <2>3, <3>1, AppliedFacts
    <3>2. CASE b.pub # p
      <4> PICK x : x = job[a].addr
        OBVIOUS
      <4>1. live'[i] = WithPeer(live[i], p, x)
        BY <2>3 DEF Applied
      <4>2. /\ Running(i)' = Running(i) \cup {p}
            /\ \A q \in Running(i) : q # p => live'[i][q] = IF live[i][q] = x THEN None ELSE live[i][q]
        BY <4>1 DEF Running, WithPeer
      <4>3. b.pub \in Running(i)
        BY <2>1, <3>2, <4>2
      <4>4. live'[i][b.pub] = live[i][b.pub]
        BY <2>1, <3>2, <4>2, <4>3
      <4> QED
        BY <1>3, <2>1, <4>3, <4>4 DEF LiveAddr
    <3> QED
      BY <3>1, <3>2
  <2>4. CASE UndidLive(a, i, p) \/ TookOff(a, i, p)
    <3>1. live'[i] = WithoutPeer(live[i], p)
      BY <2>4 DEF UndidLive, TookOff
    <3>2. b.pub \in Running(i) /\ live'[i][b.pub] = live[i][b.pub]
      BY <2>1, <3>1, RunningFacts
    <3> QED
      BY <1>3, <2>1, <3>2 DEF LiveAddr
  <2> QED
    BY <2>2, <2>3, <2>4
<1> QED
  BY <1>1, <1>2, <1>3

\* Blocks keep running with an address of their own.
LEMMA BlocksRunKept ==
  ASSUME IInv, BlocksRun, NEW a \in Proc, AddrInv(a), \A K : Without(K)' => Without(K),
         NEW i \in Iface, NEW p \in Pub, Frame(a, i), Moves(a, i, p)
  PROVE  BlocksRun'
<1> DEFINE Way == {"apply", "undoLive", "undoConf", "rewrite"}
           OnWay(j, b) == \E v \in Proc : pc[v] \in Way /\ job[v].iface = j /\ job[v].pub = b.pub
           OnWay2(j, b) == \E v \in Proc : pc'[v] \in Way /\ job'[v].iface = j /\ job'[v].pub = b.pub
<1> SUFFICES ASSUME Without(Hiding)', NEW j \in Iface
             PROVE  /\ AddrsOnce(conf'[j])
                    /\ \A b \in Blocks(j)' : b.addr # None /\ (RunsWith(j, b)' \/ OnWay2(j, b))
  BY DEF BlocksRun
<1>1. /\ AddrsOnce(conf[j])
      /\ \A b \in Blocks(j) : b.addr # None /\ (RunsWith(j, b) \/ OnWay(j, b))
  BY DEF BlocksRun
<1>2. /\ ~CutShort(a, i, p) /\ "crash" \notin faults' /\ "undo" \notin faults' /\ "rewrite" \notin faults'
      /\ "removeLate" \notin faults'
  BY DEF CutShort, Without, Hiding
<1>3. AddrsOnce(conf'[j])
  <2>1. CASE conf'[j] = conf[j]
    BY <1>1, <2>1
  <2>2. CASE conf'[j] # conf[j]
    <3>1. j = i
      BY <2>2 DEF Frame
    <3>2. Appended(a, i, p) \/ UndidConf(a, i, p) \/ Erased(a, i, p)
      BY <1>2, <2>2 DEF Moves, Began, Looked, Applied, Written, UndidLive, TookOff, Unlinked,
         Forgot, Failed, files
    <3>3. CASE Appended(a, i, p)
      <4>1. \A b \in Blocks(i) : b.addr # job[a].addr
        BY <3>3 DEF AddrInv, Appended, Own
      <4> QED
        BY <1>1, <3>1, <3>3, <4>1 DEF Appended
    <3>4. CASE UndidConf(a, i, p) \/ Erased(a, i, p)
      BY <1>1, <3>1, <3>4 DEF UndidConf, Erased, Dropped
    <3> QED
      BY <3>2, <3>3, <3>4
  <2> QED
    BY <2>1, <2>2
<1>4. ASSUME NEW b \in Blocks(j)', b \notin Blocks(j)
      PROVE  b.addr # None /\ OnWay2(j, b)
  <2>1. j = i /\ b.pub = p /\ Appended(a, i, p)
    BY <1>2, <1>4, BlocksAdded
  <2>2. b = BlockOf(a) /\ pc[a] = "append" /\ pc[a] \in Adding /\ pc[a] # "idle"
    BY <1>4, <2>1 DEF Appended, Adding
  <2>3. b.addr \in Host
    BY <2>2, JobTypes DEF BlockOf
  <2>4. pc'[a] = "apply" /\ job'[a].iface = i /\ job'[a].pub = p
    BY <2>1 DEF Appended, Own, Stays
  <2> QED
    BY <2>1, <2>3, <2>4, NoneAssumption
<1>5. ASSUME NEW b \in Blocks(j), b \in Blocks(j)', RunsWith(j, b)
      PROVE  RunsWith(j, b)' \/ OnWay2(j, b)
  <2>1. CASE live'[j] = live[j]
    BY <1>5, <2>1 DEF RunsWith, Running
  <2>2. CASE live'[j] # live[j]
    <3>1. j = i
      BY <2>2 DEF Frame
    <3>2. Applied(a, i, p) \/ UndidLive(a, i, p) \/ TookOff(a, i, p)
      BY <2>2 DEF Moves, Began, Looked, Appended, CutShort, Written, UndidConf, Erased, Unlinked,
         Forgot, Failed, files
    <3>3. CASE Applied(a, i, p)
      <4>1. PICK c \in Blocks(i) : c.pub = p
        BY <3>3, AppliedFacts
      <4>2. c.addr = job[a].addr /\ c.addr # None
        BY <1>1, <3>1, <3>3, <4>1, AppliedFacts
      <4>3. CASE b.pub = p
        BY <3>1, <3>3, <4>3, AppliedFacts DEF RunsWith
      <4>4. CASE b.pub # p
        <5>1. b.addr # c.addr
          BY <1>1, <3>1, <4>1, <4>2, <4>4 DEF AddrsOnce, Blocks
        <5>2. live'[i][b.pub] = live[i][b.pub] /\ b.pub \in Running(i)'
          BY <1>5, <3>1, <3>3, <4>2, <4>4, <5>1, AppliedFacts DEF RunsWith
        <5> QED
          BY <1>5, <3>1, <5>2 DEF RunsWith
      <4> QED
        BY <4>3, <4>4
    <3>4. CASE UndidLive(a, i, p) \/ TookOff(a, i, p)
      <4>1. live'[i] = WithoutPeer(live[i], p) /\ pc'[a] \in Way /\ job'[a].iface = i /\ job'[a].pub = p
        BY <1>2, <3>4 DEF UndidLive, TookOff, Own, Stays
      <4>2. CASE b.pub = p
        BY <3>1, <4>1, <4>2
      <4>3. CASE b.pub # p
        BY <1>5, <3>1, <4>1, <4>3, RunningFacts DEF RunsWith
      <4> QED
        BY <4>2, <4>3
    <3> QED
      BY <3>2, <3>3, <3>4
  <2> QED
    BY <2>1, <2>2
<1>6. ASSUME NEW b \in Blocks(j), b \in Blocks(j)', OnWay(j, b)
      PROVE  RunsWith(j, b)' \/ OnWay2(j, b)
  <2>1. PICK v \in Proc : pc[v] \in Way /\ job[v].iface = j /\ job[v].pub = b.pub
    BY <1>6
  <2>2. CASE v # a
    BY <2>1, <2>2 DEF Frame, Others
  <2>3. CASE v = a
    <3>1. CASE Applied(a, i, p)
      BY <1>6, <2>1, <2>3, <3>1, AppliedFacts DEF RunsWith, Applied, Own
    <3>2. CASE UndidLive(a, i, p)
      BY <2>1, <2>3, <3>2 DEF UndidLive, Stays
    <3>3. CASE UndidConf(a, i, p) \/ Erased(a, i, p)
      BY <1>6, <2>1, <2>3, <3>3 DEF UndidConf, Erased, Own, Dropped
    <3>4. CASE Failed(a)
      BY <1>2, <2>1, <2>3, <3>4 DEF Failed, Stays
    <3> QED
      BY <1>2, <2>1, <2>3, <3>1, <3>2, <3>3, <3>4 DEF Moves, Began, Looked, Appended, Written, TookOff,
         Unlinked, Forgot
  <2> QED
    BY <2>2, <2>3
<1> QED
  BY <1>1, <1>3, <1>4, <1>5, <1>6

(***************************************************************************)
(* The invariant holds.                                                    *)
(***************************************************************************)
\* A step of a call.
LEMMA FCallStep ==
  ASSUME IInv, FInv, NEW a \in Proc, Step(a)
  PROVE  FInv'
<1>1. PICK i \in Iface, p \in Pub : Frame(a, i) /\ Moves(a, i, p)
  BY CallMoves
<1>2. faults \subseteq faults' /\ \A K : Without(K)' => Without(K)
  BY FaultsGrow DEF Next
<1>3. /\ LiveInv /\ LiveAddr /\ FilesInv /\ LedgerInv /\ BlocksRun /\ MadeInv /\ RevivedInv
      /\ RemovedStaysRemoved
      /\ \A v \in Proc : OffInv(v) /\ AddrInv(v)
  BY DEF FInv
<1>4. LiveInv'
  BY <1>1, <1>2, <1>3, LiveKept
<1>5. FilesInv'
  BY <1>1, <1>2, <1>3, FilesKept
<1>6. LedgerInv'
  BY <1>1, <1>2, <1>3, LedgerKept
<1>7. BlocksRun'
  BY <1>1, <1>2, <1>3, BlocksRunKept
<1>8. MadeInv'
  BY <1>1, <1>2, <1>3, MadeKept
<1>9. RemovedStaysRemoved'
  BY <1>1, <1>2, <1>3, GoneKept
<1>10. \A v \in Proc : OffInv(v)'
  BY <1>1, <1>2, <1>3, OffKept, OffKeptOthers
<1>11. \A v \in Proc : AddrInv(v)'
  BY <1>1, <1>2, <1>3, AddrKept, AddrKeptOthers
<1>12. LiveAddr'
  BY <1>1, <1>3, LiveAddrKept
<1>13. RevivedInv'
  BY <1>1, <1>2, <1>3, RevivedKept DEF RevivedInv
<1> QED
  BY <1>4, <1>5, <1>6, <1>7, <1>8, <1>9, <1>10, <1>11, <1>12, <1>13 DEF FInv

\* What holds of the configs, the client configs, the calls and who was made holds still
\* when a step leaves them alone.
LEMMA FUnchanged ==
  ASSUME FInv, UNCHANGED <<conf, client, pc, job, made, gone>>, \A K : Without(K)' => Without(K)
  PROVE  FilesInv' /\ \A v \in Proc : Without(Hiding)' /\ pc'[v] = "append" =>
           \A b \in Blocks(job[v].iface)' : b.addr # job'[v].addr
<1>1. FilesInv /\ \A v \in Proc : AddrInv(v)
  BY DEF FInv
<1>2. FilesInv'
  BY <1>1 DEF FilesInv, OfBlock, Unlinking, Blocks
<1> QED
  BY <1>1, <1>2 DEF AddrInv, Blocks

\* An interface that restarts runs every block, with its address but where two claim it.
LEMMA RestartFacts ==
  ASSUME IInv, NEW i \in Iface, RestartIface(i)
  PROVE  /\ live'[i] = FromConf(conf[i]) /\ \A j \in Iface : j # i => live'[j] = live[j]
         /\ Running(i)' = PubsIn(conf[i])
         /\ \A b \in Blocks(i) :
              \/ live'[i][b.pub] = b.addr
              \/ /\ live'[i][b.pub] = None
                 /\ \E c \in Blocks(i) : c.pub # b.pub /\ c.addr = b.addr
<1>1. live \in [Iface -> Peers] /\ conf[i] \in Seq(Block) /\ KeysOnce(conf[i])
  BY DEF IInv, TypeOK, ConfInv, Peers
<1>2. live' = [live EXCEPT ![i] = FromConf(conf[i])]
  BY DEF RestartIface
<1>3. live'[i] = FromConf(conf[i]) /\ \A j \in Iface : j # i => live'[j] = live[j]
  BY <1>1, <1>2
<1>4. /\ DOMAIN FromConf(conf[i]) = PubsIn(conf[i])
      /\ \A b \in Range(conf[i]) :
           \/ FromConf(conf[i])[b.pub] = b.addr
           \/ /\ FromConf(conf[i])[b.pub] = None
              /\ \E c \in Range(conf[i]) : c.pub # b.pub /\ c.addr = b.addr
  BY <1>1, FromConfFacts
<1>5. Running(i)' = PubsIn(conf[i])
  BY <1>3, <1>4 DEF Running
<1> QED
  BY <1>3, <1>4, <1>5, BlocksOfConf

\* What a restart finds: nobody who was removed, but a peer that a removal has taken off
\* and not yet erased.
LEMMA FRestartStep ==
  ASSUME IInv, FInv, NEW i \in Iface, RestartIface(i)
  PROVE  FInv'
<1>1. /\ UNCHANGED <<conf, client, ledger, pc, job, made, gone>> /\ "restart" \in faults'
      /\ live' = [live EXCEPT ![i] = FromConf(conf[i])] /\ revived \subseteq revived'
  BY DEF RestartIface, Breaks
<1>2. faults \subseteq faults' /\ \A K : Without(K)' => Without(K)
  BY FaultsGrow DEF Next
<1>3. LiveInv' /\ LedgerInv' /\ MadeInv' /\ RevivedInv'
  BY <1>1 DEF LiveInv, LedgerInv, MadeInv, RevivedInv, Without, Undone, UndoneUnseen
<1>4. ASSUME NEW v \in Proc
      PROVE  AddrInv(v)'
  <2>1. AddrInv(v)
    BY DEF FInv
  <2>2. ASSUME pc[v] \in {"append", "apply"}, v \notin blind'
        PROVE  job[v].addr \notin Taken(job[v].iface)'
    <3>1. job[v].iface # i /\ v \notin blind
      BY <2>2 DEF RestartIface
    <3>2. job[v].iface \in Iface
      BY <2>2, JobTypes
    <3>3. live'[job[v].iface] = live[job[v].iface]
      BY <3>1, <3>2, RestartFacts
    <3> QED
      BY <1>1, <2>1, <2>2, <3>1, <3>3 DEF AddrInv, Taken, Running
  <2>3. Without(Hiding)' /\ pc'[v] = "append" => \A b \in Blocks(job[v].iface)' : b.addr # job'[v].addr
    BY <1>1, <1>2, FUnchanged
  <2>4. pc'[v] = "apply" =>
          \A b \in Blocks(job[v].iface)' : b.pub = job'[v].pub => b.addr = job'[v].addr
    BY <1>1, <2>1 DEF AddrInv, Blocks
  <2> QED
    BY <1>1, <2>2, <2>3, <2>4 DEF AddrInv
<1>5. BlocksRun'
  <2> SUFFICES ASSUME Without(Hiding)', NEW j \in Iface
               PROVE  /\ AddrsOnce(conf[j])
                      /\ \A b \in Blocks(j) :
                           /\ b.addr # None
                           /\ \/ RunsWith(j, b)'
                              \/ \E a \in Proc : /\ pc[a] \in {"apply", "undoLive", "undoConf", "rewrite"}
                                                 /\ job[a].iface = j /\ job[a].pub = b.pub
    BY <1>1 DEF BlocksRun, Blocks
  <2>1. /\ AddrsOnce(conf[j])
        /\ \A b \in Blocks(j) :
             /\ b.addr # None
             /\ \/ RunsWith(j, b)
                \/ \E a \in Proc : /\ pc[a] \in {"apply", "undoLive", "undoConf", "rewrite"}
                                   /\ job[a].iface = j /\ job[a].pub = b.pub
    BY <1>2 DEF FInv, BlocksRun
  <2>2. live \in [Iface -> Peers] /\ conf[i] \in Seq(Block) /\ KeysOnce(conf[i])
    BY DEF IInv, TypeOK, ConfInv, Peers
  <2>3. CASE j # i
    <3>1. live'[j] = live[j]
      BY <1>1, <2>2, <2>3
    <3> QED
      BY <2>1, <3>1 DEF RunsWith, Running
  <2>4. CASE j = i
    <3>1. live'[i] = FromConf(conf[i])
      BY RestartFacts
    <3>2. /\ FromConf(conf[i]) \in [PubsIn(conf[i]) -> Host \cup {None}]
          /\ \A b \in Range(conf[i]) : FromConf(conf[i])[b.pub] = b.addr
      BY <2>1, <2>2, <2>4, FromConfFacts
    <3>3. Running(i)' = PubsIn(conf[i])
      BY <3>1, <3>2 DEF Running
    <3>4. ASSUME NEW b \in Blocks(i) PROVE RunsWith(i, b)'
      <4>1. b \in Range(conf[i]) /\ b.pub \in PubsIn(conf[i])
        BY BlocksOfConf, PubsOfBlocks
      <4> QED
        BY <3>1, <3>2, <3>3, <4>1 DEF RunsWith
    <3> QED
      BY <2>1, <2>4, <3>4
  <2> QED
    BY <2>3, <2>4
<1>6. FilesInv'
  BY <1>1, <1>2, FUnchanged
<1>7. LiveAddr'
  <2> SUFFICES ASSUME NEW j \in Iface, NEW b \in Blocks(j), b.pub \in Running(j)', live'[j][b.pub] # None
               PROVE  live'[j][b.pub] = b.addr
    BY <1>1 DEF LiveAddr, Blocks
  <2>1. CASE j = i
    BY <2>1, RestartFacts
  <2>2. CASE j # i
    <3>1. live'[j] = live[j]
      BY <2>2, RestartFacts
    <3> QED
      BY <3>1 DEF FInv, LiveAddr, Running
  <2> QED
    BY <2>1, <2>2
<1>8. ASSUME NEW v \in Proc
      PROVE  OffInv(v)'
  <2> PICK j, p : j = job[v].iface /\ p = job[v].pub
    OBVIOUS
  <2>1. ~Without({"restart"})' /\ ~Without({"restart", "undo"})' /\ ~UndoneUnseen'
    BY <1>1 DEF Without, UndoneUnseen
  <2>2. pc[v] \in Inside => j \in Iface /\ p \in Pub /\ pc[v] # "idle"
    BY JobTypes DEF Inside, Adding, Removing
  <2>3. j \in Iface => (p \in Running(j)' => p \in Running(j) \/ (j = i /\ p \in PubsIn(conf[i])))
    BY RestartFacts DEF Running
  <2>4. j \in Iface /\ j = i => (p \in Running(j)' <=> p \in PubsIn(conf[i]))
    BY RestartFacts
  <2>5. pc[v] = "append" => p \notin Running(j)'
    <3> SUFFICES ASSUME pc[v] = "append" PROVE p \notin Running(j)'
      OBVIOUS
    <3>1. p \notin PubsIn(conf[j]) /\ p \notin Running(j) /\ pc[v] \in Inside
      BY DEF IInv, WorksOn, FInv, OffInv, Inside, Adding
    <3> QED
      BY <2>2, <2>3, <3>1
  <2>6. pc[v] \in {"unlink", "forget"} => p \notin Running(j)' \/ p \in revived'
    <3> SUFFICES ASSUME pc[v] \in {"unlink", "forget"} PROVE p \notin Running(j)' \/ p \in revived'
      OBVIOUS
    <3>1. /\ p \notin PubsIn(conf[j]) /\ (p \notin Running(j) \/ p \in revived)
          /\ pc[v] \in Inside
      BY DEF IInv, WorksOn, FInv, OffInv, Inside, Removing
    <3> QED
      BY <1>1, <2>2, <2>3, <3>1
  <2>7. pc[v] = "rewrite" => p \notin Running(j)' \/ p \in revived'
    <3> SUFFICES ASSUME pc[v] = "rewrite" PROVE p \notin Running(j)' \/ p \in revived'
      OBVIOUS
    <3>1. (p \notin Running(j) \/ p \in revived) /\ pc[v] \in Inside
      BY DEF FInv, OffInv, Inside, Removing
    <3>2. j = i /\ p \in PubsIn(conf[i]) => p \in revived'
      BY DEF RestartIface
    <3> QED
      BY <1>1, <2>2, <2>3, <3>1, <3>2
  <2> QED
    BY <1>1, <2>1, <2>5, <2>6, <2>7 DEF OffInv
<1>9. RemovedStaysRemoved'
  <2> SUFFICES ASSUME NEW q \in gone
               PROVE  /\ FiledIn(q)' = {}
                      /\ RunsOn(q)' # {} \/ q \in ledger => q \in revived'
                      /\ Without({"crash", "unlink"})' =>
                           \A d \in Range(DirOf), n \in Name : client[d][n] # q
    BY <1>1 DEF RemovedStaysRemoved
  <2>1. /\ FiledIn(q) = {} /\ (RunsOn(q) # {} \/ q \in ledger => q \in revived)
        /\ Without({"crash", "unlink"}) => \A d \in Range(DirOf), n \in Name : client[d][n] # q
    BY DEF FInv, RemovedStaysRemoved
  <2>2. FiledIn(q)' = {}
    BY <1>1, <2>1 DEF FiledIn
  <2>3. RunsOn(q)' \subseteq RunsOn(q)
    <3> SUFFICES ASSUME NEW j \in Iface, q \in Running(j)' PROVE q \in Running(j)
      BY DEF RunsOn
    <3>1. j # i
      BY <2>1, RestartFacts DEF FiledIn
    <3> QED
      BY <3>1, RestartFacts DEF Running
  <2> QED
    BY <1>1, <1>2, <2>1, <2>2, <2>3
<1> QED
  BY <1>3, <1>4, <1>5, <1>6, <1>7, <1>8, <1>9 DEF FInv

\* A snapshot sees who runs: who is configured, and neither who was removed nor whom an
\* addPeer has yet to set or has taken off.
LEMMA FCollectStep ==
  ASSUME IInv, FInv, ledger' = ledger \cup UNION {Running(i) : i \in Iface},
         UNCHANGED <<conf, live, client, calls, ghosts>>
  PROVE  FInv'
<1>1. /\ conf' = conf /\ live' = live /\ client' = client /\ pc' = pc /\ job' = job
      /\ made' = made /\ gone' = gone /\ faults' = faults /\ revived' = revived /\ blind' = blind
  BY DEF calls, ghosts
<1>2. LiveInv' /\ LiveAddr' /\ RevivedInv' /\ BlocksRun' /\ MadeInv' /\ FilesInv' /\ \A v \in Proc : AddrInv(v)'
  <2>1. LiveInv' /\ LiveAddr' /\ RevivedInv' /\ BlocksRun'
    BY <1>1 DEF FInv, LiveInv, LiveAddr, RevivedInv, UndoneUnseen, BlocksRun, RunsWith, Without,
       Running, Blocks
  <2>2. MadeInv' /\ FilesInv'
    BY <1>1 DEF FInv, MadeInv, FilesInv, OfBlock, Unlinking, Without, Blocks, FiledIn
  <2>3. ASSUME NEW v \in Proc PROVE AddrInv(v)'
    <3>1. AddrInv(v)
      BY DEF FInv
    <3> QED
      BY <1>1, <3>1 DEF AddrInv, Without, Running, Blocks, Taken
  <2> QED
    BY <2>1, <2>2, <2>3
<1>3. ASSUME NEW v \in Proc
      PROVE  OffInv(v)'
  <2>1. OffInv(v)
    BY DEF FInv
  <2>2. ASSUME pc[v] # "idle", job[v].pub \notin Running(job[v].iface), job[v].pub \notin ledger
        PROVE  job[v].pub \notin ledger'
    <3>1. PICK i \in Iface, p \in Pub : i = job[v].iface /\ p = job[v].pub
      BY <2>2, JobTypes
    <3>2. \A j \in Iface : At(j, p) => j = i
      BY <2>2, <3>1 DEF IInv, OneHome, At
    <3>3. \A j \in Iface : p \notin Running(j)
      BY <2>2, <3>1, <3>2 DEF At
    <3> QED
      BY <2>2, <3>1, <3>3
  <2>3. UndoneUnseen => Without({"restart"})
    BY DEF Without, UndoneUnseen
  <2> QED
    BY <1>1, <2>1, <2>2, <2>3 DEF OffInv, UndoneUnseen, Without, Running
<1>4. LedgerInv'
  <2> SUFFICES ASSUME UndoneUnseen, Without({"crash", "forget"}), NEW p \in ledger'
               PROVE  \/ FiledIn(p) # {}
                      \/ \E a \in Proc : pc[a] \in {"unlink", "forget"} /\ job[a].pub = p
    BY <1>1 DEF LedgerInv, UndoneUnseen, Without, FiledIn
  <2>1. CASE p \in ledger
    BY <2>1 DEF FInv, LedgerInv
  <2>2. CASE p \notin ledger
    <3>1. PICK i \in Iface : p \in Running(i)
      BY <2>2
    <3>2. p \in PubsIn(conf[i])
      BY <3>1 DEF FInv, LiveInv
    <3> QED
      BY <3>2 DEF FiledIn
  <2> QED
    BY <2>1, <2>2
<1>5. RemovedStaysRemoved'
  <2>1. \A p \in gone : RunsOn(p) # {} \/ p \in ledger' => p \in revived
    BY DEF FInv, RemovedStaysRemoved, RunsOn
  <2> QED
    BY <1>1, <2>1 DEF FInv, RemovedStaysRemoved, RunsOn, FiledIn, Running, Without
<1> QED
  BY <1>2, <1>3, <1>4, <1>5 DEF FInv

\* In the beginning there is nothing to keep.
LEMMA FInitOK == Init => FInv
<1> SUFFICES ASSUME Init PROVE FInv
  OBVIOUS
<1>1. \A i \in Iface : Running(i) = {} /\ PubsIn(conf[i]) = {} /\ Blocks(i) = {} /\ DOMAIN conf[i] = {}
  BY DEF Init, Running, PubsIn, Blocks
<1>2. \A a \in Proc : pc[a] = "idle"
  BY DEF Init
<1>3. ledger = {} /\ revived = {} /\ made = {} /\ gone = {} /\ \A d \in Range(DirOf), n \in Name : client[d][n] = None
  BY DEF Init
<1>4. \A a \in Proc : OffInv(a) /\ AddrInv(a)
  BY <1>2 DEF OffInv, AddrInv
<1>5. LiveInv /\ LiveAddr /\ RevivedInv /\ FilesInv /\ LedgerInv /\ BlocksRun /\ MadeInv /\ RemovedStaysRemoved
  BY <1>1, <1>3 DEF LiveInv, LiveAddr, RevivedInv, FilesInv, LedgerInv, BlocksRun, MadeInv, RemovedStaysRemoved, AddrsOnce
<1> QED
  BY <1>4, <1>5 DEF FInv

\* Every step keeps it.
LEMMA FNextOK == IInv /\ FInv /\ [Next]_vars => FInv'
<1> SUFFICES ASSUME IInv, FInv, [Next]_vars PROVE FInv'
  OBVIOUS
<1>1. CASE Collect
  BY <1>1, FCollectStep DEF Collect
<1>2. CASE UNCHANGED vars
  <2>1. /\ conf' = conf /\ live' = live /\ client' = client /\ ledger' = ledger /\ pc' = pc /\ job' = job
        /\ made' = made /\ gone' = gone /\ faults' = faults /\ revived' = revived /\ blind' = blind
    BY <1>2 DEF vars, files, calls, ghosts
  <2>2. LiveInv' /\ LiveAddr' /\ RevivedInv' /\ BlocksRun' /\ MadeInv' /\ FilesInv' /\ LedgerInv' /\ RemovedStaysRemoved'
    BY <2>1 DEF FInv, LiveInv, LiveAddr, RevivedInv, UndoneUnseen, BlocksRun, RunsWith, MadeInv, FilesInv, OfBlock, Unlinking,
       LedgerInv, RemovedStaysRemoved, Without, Running, Blocks, FiledIn, RunsOn
  <2>3. ASSUME NEW v \in Proc PROVE OffInv(v)' /\ AddrInv(v)'
    <3>1. OffInv(v) /\ AddrInv(v)
      BY DEF FInv
    <3>2. OffInv(v)'
      BY <2>1, <3>1 DEF OffInv, UndoneUnseen, Without, Running
    <3>3. AddrInv(v)'
      BY <2>1, <3>1 DEF AddrInv, Without, Running, Blocks, Taken
    <3> QED
      BY <3>2, <3>3
  <2> QED
    BY <2>2, <2>3 DEF FInv
<1> QED
  BY <1>1, <1>2, FCallStep, FRestartStep DEF Next

\* Both invariants hold in every reachable state.
THEOREM FaultInvariant == Spec => [](IInv /\ FInv)
BY InitOK, NextOK, FInitOK, FNextOK, PTL DEF Spec

(***************************************************************************)
(* What follows.                                                           *)
(***************************************************************************)
\* Only a peer that the server config lists runs, wherever a call is and whatever fails but
\* a step of undo, or is killed, until an interface restarts (peer_ops.go:62-83, 251-256).
THEOREM OnlyConfiguredRun == Spec => []LiveIsConfigured
<1>1. IInv /\ FInv => LiveIsConfigured
  BY DEF FInv, LiveInv, LiveIsConfigured
<1> QED
  BY <1>1, FaultInvariant, PTL

\* A peer that removePeer reported as removed is out of every config and stays so,
\* whatever fails, is killed or restarts afterwards.  It runs and is booked again only if
\* an interface went down and up between the `wg set ... remove` and the rewrite of the
\* removal itself, which reports success all the same (peer_ops.go:251-256); its client
\* config is gone, unless a removal was killed or could not unlink (peer_ops.go:257-260).
THEOREM RemovedForGood == Spec => []RemovedStaysRemoved
<1>1. IInv /\ FInv => RemovedStaysRemoved
  BY DEF FInv
<1> QED
  BY <1>1, FaultInvariant, PTL

\* No two blocks of a config have one address, until a call leaves a block behind whose
\* peer does not run or freeAddress sees nothing (peer.go:122-143).
THEOREM AddressesStayDistinct == Spec => []AddressesDistinct
<1>1. IInv /\ FInv => AddressesDistinct
  BY DEF FInv, BlocksRun, AddressesDistinct, DistinctAddresses, AddrsOnce, Hiding
<1> QED
  BY <1>1, FaultInvariant, PTL

\* Once the calls have returned, whoever has history or a client config is found by
\* removePeer (peer_ops.go:236-247).
THEOREM NothingLeftBehind == Spec => []NothingStranded
<1>1. IInv /\ FInv => NothingStranded
  <2> SUFFICES ASSUME IInv, FInv, Idle, Without(Stranding),
                      NEW p \in ledger \cup UNION {Range(client[d]) : d \in Range(DirOf)}, p # None
               PROVE  RunsOn(p) \cup FiledIn(p) # {}
    BY DEF NothingStranded
  <2>1. \A a \in Proc : pc[a] \notin {"unlink", "forget"}
    BY DEF Idle
  <2>2. CASE p \in ledger
    <3>1. UndoneUnseen /\ Without({"crash", "forget"})
      BY DEF Without, Stranding, UndoneUnseen
    <3> QED
      BY <2>1, <2>2, <3>1 DEF FInv, LedgerInv
  <2>3. CASE p \notin ledger
    <3>1. PICK d \in Range(DirOf) : p \in Range(client[d])
      BY <2>3
    <3>2. DOMAIN client[d] = Name
      BY DEF IInv, TypeOK
    <3>3. PICK n \in Name : client[d][n] = p
      BY <3>1, <3>2 DEF Range
    <3>4. Without({"crash", "unlink"})
      BY DEF Without, Stranding
    <3>5. OfBlock(d, n, p)
      BY <2>1, <3>3, <3>4 DEF FInv, FilesInv, Unlinking
    <3> QED
      BY <3>5, PubsOfBlocks DEF OfBlock, FiledIn
  <2> QED
    BY <2>2, <2>3
<1> QED
  BY <1>1, FaultInvariant, PTL

\* The failures that addPeer undoes, and a wg that refuses to remove a peer, leave no half
\* peers: once the calls have returned, what runs is what is configured, with the same
\* address, and is what was made and not removed (peer_ops.go:75-89).
THEOREM AllOrNothing == Spec => []NoHalfPeers
<1>1. IInv /\ FInv => NoHalfPeers
  <2> SUFFICES ASSUME IInv, FInv, Idle, faults \subseteq {"apply", "setLate", "file", "remove"}
               PROVE  /\ \A i \in Iface : live[i] = FromConf(conf[i])
                      /\ UNION {Running(i) : i \in Iface} = made \ gone
    BY DEF NoHalfPeers
  <2>1. Without(Hiding) /\ Without({"restart"}) /\ Without({"restart", "undo"}) /\ faults \subseteq Undone
    BY DEF Without, Hiding, Undone
  <2>2. \A a \in Proc : pc[a] = "idle" /\ "idle" \notin Adding
    BY DEF Idle, Adding
  <2>3. \A i \in Iface : Running(i) \subseteq PubsIn(conf[i])
    BY <2>1 DEF FInv, LiveInv
  <2>4. \A i \in Iface : AddrsOnce(conf[i]) /\ \A b \in Blocks(i) : RunsWith(i, b)
    BY <2>1, <2>2 DEF FInv, BlocksRun
  <2>5. \A i \in Iface : Running(i) = PubsIn(conf[i])
    <3> TAKE i \in Iface
    <3>1. PubsIn(conf[i]) = {b.pub : b \in Blocks(i)}
      BY PubsOfBlocks
    <3>2. \A b \in Blocks(i) : b.pub \in Running(i)
      BY <2>4 DEF RunsWith
    <3> QED
      BY <2>3, <3>1, <3>2
  <2>6. ASSUME NEW i \in Iface
        PROVE  live[i] = FromConf(conf[i])
    <3>1. conf[i] \in Seq(Block) /\ KeysOnce(conf[i]) /\ live[i] \in Peers
      BY DEF IInv, TypeOK, ConfInv, Peers
    <3> PICK f, g, D : f = live[i] /\ g = FromConf(conf[i]) /\ D = PubsIn(conf[i])
      OBVIOUS
    <3>2. g \in [D -> Host \cup {None}] /\ \A b \in Range(conf[i]) : g[b.pub] = b.addr
      BY <2>4, <3>1, FromConfFacts
    <3>3. f \in [D -> Host \cup {None}]
      <4>1. DOMAIN f = D
        BY <2>5 DEF Running
      <4> QED
        BY <3>1, <4>1 DEF Peers
    <3>4. \A b \in Range(conf[i]) : f[b.pub] = b.addr
      BY <2>4 DEF RunsWith, Blocks, Range
    <3>5. D = {b.pub : b \in Range(conf[i])}
      BY DEF PubsIn, Range
    <3>6. \A q \in D : f[q] = g[q]
      BY <3>2, <3>4, <3>5
    <3> QED
      BY <3>2, <3>3, <3>6
  <2>7. \A i \in Iface : \A p \in Running(i) : p \in made \ gone
    <3>1. \A i \in Iface : \A b \in Blocks(i) : b.pub \in made
      BY <2>1, <2>2 DEF FInv, MadeInv
    <3>2. \A i \in Iface : \A p \in Running(i) : p \in made
      BY <2>5, <3>1, PubsOfBlocks
    <3>3. \A i \in Iface : \A p \in gone : p \notin Running(i)
      BY <2>1 DEF FInv, RevivedInv, RemovedStaysRemoved, RunsOn
    <3> QED
      BY <3>2, <3>3
  <2>8. \A p \in made \ gone : \E i \in Iface : p \in Running(i)
    BY <2>1, <2>2, <2>5 DEF FInv, MadeInv, FiledIn
  <2>9. UNION {Running(i) : i \in Iface} = made \ gone
    BY <2>7, <2>8
  <2> QED
    BY <2>6, <2>9
<1> QED
  BY <1>1, FaultInvariant, PTL

\* Steps of calls leave running peers their addresses, but the `wg set` of an addPeer that
\* could not see that its address was in use.
LEMMA AddressKeptByCalls ==
  ASSUME IInv, FInv, NEW a \in Proc, Step(a)
  PROVE  KeepsAddress
<1> SUFFICES ASSUME NEW j \in Iface, NEW q \in Running(j), q \in DOMAIN live'[j], live[j][q] # None,
                    live'[j][q] # live[j][q]
             PROVE  TakenOver(j, q)
  BY DEF KeepsAddress
<1>1. PICK i \in Iface, p \in Pub : Frame(a, i) /\ Moves(a, i, p)
  BY CallMoves
<1>2. j = i /\ live'[j] # live[j]
  BY <1>1 DEF Frame
<1>3. Applied(a, i, p) \/ UndidLive(a, i, p) \/ TookOff(a, i, p)
  BY <1>1, <1>2 DEF Moves, Began, Looked, Appended, CutShort, Written, UndidConf, Erased, Unlinked,
     Forgot, Failed, files
<1>4. CASE Applied(a, i, p)
  <2>1. pc[a] = "apply" /\ Own(a, i, p) /\ AddrInv(a)
    BY <1>4 DEF Applied, FInv
  <2>2. q # p
    <3> SUFFICES ASSUME q = p PROVE FALSE
      OBVIOUS
    <3>1. PICK b \in Blocks(i) : b.pub = p
      BY <1>4, <2>1, AppliedFacts
    <3>2. live'[i][p] = b.addr
      BY <1>4, <2>1, <3>1, AppliedFacts
    <3>3. live[i][p] = b.addr
      BY <1>2, <3>1 DEF FInv, LiveAddr
    <3> QED
      BY <1>2, <3>2, <3>3
  <2>3. live[i][q] = job[a].addr
    BY <1>2, <1>4, <2>1, <2>2, AppliedFacts
  <2>4. job[a].addr \in Taken(i)
    BY <1>2, <2>3 DEF Taken
  <2>5. a \in blind
    BY <2>1, <2>4 DEF AddrInv, Own
  <2> QED
    BY <1>2, <2>1, <2>3, <2>5 DEF TakenOver, Own
<1>5. CASE UndidLive(a, i, p) \/ TookOff(a, i, p)
  <2>1. /\ Running(i)' = Running(i) \ {p}
        /\ \A s \in Running(i) : s # p => live'[i][s] = live[i][s]
    BY <1>5, RunningFacts DEF UndidLive, TookOff
  <2> QED
    BY <1>2, <2>1 DEF Running
<1> QED
  BY <1>3, <1>4, <1>5

\* A running peer keeps its address until it is removed, but in two cases: an addPeer
\* takes it over when freeAddress could not list the addresses in use or the interface
\* restarted between its choice and its wg set (peer.go:122-143, peer_ops.go:45-75), and
\* an interface that restarts with two blocks of one address gives it to one of them.
THEOREM AddressesKept == Spec => AddressKept
<1>1. IInv /\ FInv /\ [Next]_vars => [KeepsAddress]_vars
  <2> SUFFICES ASSUME IInv, FInv, Next
               PROVE  KeepsAddress
    OBVIOUS
  <2>1. ASSUME NEW i \in Iface, RestartIface(i)
        PROVE  KeepsAddress
    <3> SUFFICES ASSUME NEW j \in Iface, NEW q \in Running(j), q \in DOMAIN live'[j],
                        live[j][q] # None, live'[j][q] # live[j][q]
                 PROVE  ClaimedTwice(j, q)
      BY DEF KeepsAddress
    <3>1. j = i
      BY <2>1, RestartFacts
    <3>2. PICK b \in Blocks(i) : b.pub = q
      BY <2>1, <3>1, RestartFacts, PubsOfBlocks DEF Running
    <3>3. live[i][q] = b.addr
      BY <3>1, <3>2 DEF FInv, LiveAddr
    <3>4. \E c \in Blocks(i) : c.pub # q /\ c.addr = b.addr
      BY <2>1, <3>1, <3>2, <3>3, RestartFacts
    <3>5. pc' = pc
      BY <2>1 DEF RestartIface
    <3> QED
      BY <3>1, <3>3, <3>4, <3>5 DEF ClaimedTwice
  <2>2. CASE Collect
    BY <2>2 DEF Collect, KeepsAddress
  <2> QED
    BY <2>1, <2>2, AddressKeptByCalls DEF Next
<1> QED
  BY <1>1, FaultInvariant, PTL DEF Spec, AddressKept
=============================================================================
