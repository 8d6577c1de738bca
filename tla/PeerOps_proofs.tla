--------------------------- MODULE PeerOps_proofs ---------------------------
(***************************************************************************)
(* Names and client configs under addPeer and removePeer, proved for any   *)
(* keys, names, interfaces, processes and failures: the types, that no two *)
(* peers of an interface share a name, and that a peer whose config was    *)
(* handed out keeps it.                                                    *)
(***************************************************************************)
EXTENDS PeerOps, WellFoundedInduction, SequenceTheorems, TLAPS

\* Where an addPeer, and a removePeer, holds the lock of its config.
Adding   == {"append", "apply", "file", "undoLive", "undoConf"}
Removing == {"rewrite", "unlink", "forget"}
Inside   == Adding \cup Removing

\* What a call works on.
JobOK(a) ==
  /\ pc[a] # "idle" => job[a].iface \in Iface /\ job[a].pub \in used
  /\ pc[a] \in Adding => job[a].name \in Name /\ job[a].addr \in Host

\* The flock of a config is held by the one call that works on it.
LockInv == \A i \in Iface, a \in Proc : lock[i] = a <=> pc[a] \in Inside /\ job[a].iface = i

\* A key is at home on interface i: it runs or is configured there, or a call works
\* on it there.
At(i, p) == \/ p \in Running(i)
            \/ p \in PubsIn(conf[i])
            \/ \E a \in Proc : pc[a] # "idle" /\ job[a].pub = p /\ job[a].iface = i

\* No key is at home on two interfaces, and only keys that genkey returned are known.
OneHome ==
  /\ \A i, j \in Iface, p \in Pub : At(i, p) /\ At(j, p) => i = j
  /\ \A i \in Iface : Running(i) \cup PubsIn(conf[i]) \subseteq used
  /\ ledger \cup gone \subseteq used

\* No two blocks of a config are alike in some field.
KeysOnce(blocks) == \A k, l \in DOMAIN blocks : blocks[k].pub = blocks[l].pub => k = l
NamesOnce(blocks) == \A k, l \in DOMAIN blocks : blocks[k].name = blocks[l].name => k = l
AddrsOnce(blocks) ==
  \A k, l \in DOMAIN blocks : blocks[k].addr = blocks[l].addr /\ blocks[k].addr # None => k = l

ConfInv == \A i \in Iface : KeysOnce(conf[i]) /\ NamesOnce(conf[i])

\* The call of a works on the key and the name of one block: nobody else has either.
WorksOn(a) ==
  /\ pc[a] \in Adding => job[a].pub \notin made \cup gone
  /\ pc[a] = "append" => job[a].pub \notin PubsIn(conf[job[a].iface])
  /\ pc[a] \in {"apply", "file"} => job[a].pub \in PubsIn(conf[job[a].iface])
  /\ pc[a] \in {"unlink", "forget"} => job[a].pub \notin PubsIn(conf[job[a].iface])
  /\ pc[a] \in Inside =>
       \A b \in Blocks(job[a].iface) : b.name = job[a].name <=> b.pub = job[a].pub

\* The inductive invariant; the last conjunct where configs have directories of their own.
OwnDirectories == \A i, j \in Iface : DirOf[i] = DirOf[j] => i = j

IInv ==
  /\ TypeOK
  /\ \A a \in Proc : JobOK(a) /\ WorksOn(a)
  /\ LockInv /\ OneHome /\ ConfInv
  /\ OwnDirectories => ConfigOnFile

(***************************************************************************)
(* Sets of numbers, and sequences of blocks.                               *)
(***************************************************************************)
\* A set of naturals that is not empty has a least element, and Min is it.
LEMMA MinOf ==
  ASSUME NEW T \in SUBSET Nat, T # {}
  PROVE  Min(T) \in T /\ \A y \in T : Min(T) <= y
<1>1. PICK x \in T : \A y \in T : ~ (<<y, x>> \in OpToRel(<, Nat))
  BY NatLessThanWellFounded, WFMin
<1>2. \A a, b \in Nat : <<a, b>> \in OpToRel(<, Nat) <=> a < b
  BY DEF OpToRel
<1>3. \A y \in T : x <= y
  <2> TAKE y \in T
  <2>1. x \in Nat /\ y \in Nat
    OBVIOUS
  <2>2. ~(y < x)
    BY <1>1, <1>2, <2>1
  <2> QED
    BY <2>1, <2>2
<1> QED
  BY <1>3 DEF Min

\* A set of naturals with a bound that is not empty has a greatest element.
LEMMA MaxOf ==
  ASSUME NEW n \in Nat, NEW T \in SUBSET (1 .. n), T # {}
  PROVE  Max(T) \in T /\ \A y \in T : Max(T) >= y
<1> DEFINE D == {n - x : x \in T}
<1>1. \A x \in T : x \in 1 .. n /\ n - x \in Nat
  OBVIOUS
<1>2. D \in SUBSET Nat /\ D # {}
  BY <1>1
<1> HIDE DEF D
<1>3. PICK m \in D : \A y \in D : m <= y
  BY <1>2, MinOf
<1> USE DEF D
<1>4. PICK x \in T : m = n - x
  OBVIOUS
<1>5. \A y \in T : x >= y
  <2> TAKE y \in T
  <2>1. m <= n - y
    BY <1>3
  <2>2. x \in Int /\ y \in Int
    BY <1>1
  <2> HIDE DEF D
  <2> QED
    BY <1>4, <2>1, <2>2
<1> QED
  BY <1>5 DEF Max

\* Removing one element of a sequence moves those behind it up.
LEMMA RemoveAtFacts ==
  ASSUME NEW S, NEW s \in Seq(S), NEW k \in 1 .. Len(s)
  PROVE  /\ RemoveAt(s, k) \in Seq(S)
         /\ Len(RemoveAt(s, k)) = Len(s) - 1
         /\ \A j \in 1 .. Len(s) - 1 : RemoveAt(s, k)[j] = IF j < k THEN s[j] ELSE s[j + 1]
<1> DEFINE s1 == SubSeq(s, 1, k - 1)
           s2 == SubSeq(s, k + 1, Len(s))
<1>1. s1 \in Seq(S) /\ Len(s1) = k - 1 /\ \A j \in 1 .. k - 1 : s1[j] = s[j]
  OBVIOUS
<1>2. s2 \in Seq(S) /\ Len(s2) = Len(s) - k /\ \A j \in 1 .. Len(s) - k : s2[j] = s[k + j]
  OBVIOUS
<1> HIDE DEF s1, s2
<1>3. /\ s1 \o s2 \in Seq(S) /\ Len(s1 \o s2) = Len(s1) + Len(s2)
      /\ \A j \in 1 .. Len(s1) + Len(s2) :
           (s1 \o s2)[j] = IF j <= Len(s1) THEN s1[j] ELSE s2[j - Len(s1)]
  BY <1>1, <1>2, ConcatProperties
<1>4. Len(s) \in Nat /\ Len(s1) + Len(s2) = Len(s) - 1
  BY <1>1, <1>2
<1>5. ASSUME NEW j \in 1 .. Len(s) - 1
      PROVE  (s1 \o s2)[j] = IF j < k THEN s[j] ELSE s[j + 1]
  <2>1. CASE j < k
    BY <1>1, <1>3, <1>4, <2>1
  <2>2. CASE j >= k
    <3>1. j - (k - 1) \in 1 .. Len(s) - k /\ k + (j - (k - 1)) = j + 1
      BY <1>4, <2>2
    <3>2. (s1 \o s2)[j] = s2[j - (k - 1)]
      BY <1>1, <1>3, <1>4, <2>2
    <3>3. s2[j - (k - 1)] = s[k + (j - (k - 1))]
      BY <1>2, <3>1
    <3>4. ~(j < k)
      BY <1>4, <2>2
    <3> QED
      BY <3>1, <3>2, <3>3, <3>4
  <2> QED
    BY <1>4, <2>1, <2>2
<1> QED
  BY <1>3, <1>4, <1>5 DEF RemoveAt, s1, s2

\* removePeerFromConf takes out the block of its key and nothing else.
LEMMA RemovalFacts ==
  ASSUME NEW s \in Seq(Block), NEW p \in Pub
  PROVE  LET r == removePeerFromConf(s, p)
         IN  /\ r \in Seq(Block) /\ Range(r) \subseteq Range(s)
             /\ NamesOnce(s) => NamesOnce(r)
             /\ AddrsOnce(s) => AddrsOnce(r)
             /\ KeysOnce(s) => KeysOnce(r) /\ Range(r) = {b \in Range(s) : b.pub # p}
<1> DEFINE r == removePeerFromConf(s, p)
<1>1. CASE p \notin PubsIn(s)
  BY <1>1 DEF removePeerFromConf, PubsIn, Range
<1>2. CASE p \in PubsIn(s)
  <2> DEFINE I == {i \in 1 .. Len(s) : s[i].pub = p}
             k == Min(I)
  <2>1. DOMAIN s = 1 .. Len(s)
    OBVIOUS
  <2>2. I \in SUBSET Nat /\ I # {}
    BY <1>2, <2>1 DEF PubsIn
  <2>3. k \in I
    BY <2>2, MinOf
  <2>4. r = RemoveAt(s, k)
    BY <1>2, <2>2 DEF removePeerFromConf, SelectInSeq
  <2> HIDE DEF r, k
  <2>5. k \in 1 .. Len(s) /\ s[k].pub = p
    BY <2>3
  <2>6. /\ r \in Seq(Block) /\ Len(r) = Len(s) - 1 /\ DOMAIN r = 1 .. Len(s) - 1
        /\ \A j \in 1 .. Len(s) - 1 : r[j] = IF j < k THEN s[j] ELSE s[j + 1]
    <3>1. /\ RemoveAt(s, k) \in Seq(Block) /\ Len(RemoveAt(s, k)) = Len(s) - 1
          /\ \A j \in 1 .. Len(s) - 1 : RemoveAt(s, k)[j] = IF j < k THEN s[j] ELSE s[j + 1]
      BY <2>5, RemoveAtFacts
    <3>2. r \in Seq(Block) /\ Len(r) = Len(s) - 1
      BY <2>4, <3>1
    <3>3. DOMAIN r = 1 .. Len(s) - 1
      BY <3>2
    <3> QED
      BY <2>4, <3>1, <3>2, <3>3
  <2> DEFINE from(j) == IF j < k THEN j ELSE j + 1
  <2>7. \A j \in DOMAIN r : r[j] = s[from(j)] /\ from(j) \in DOMAIN s /\ from(j) # k
    BY <2>1, <2>5, <2>6
  <2>8. \A i, j \in DOMAIN r : from(i) = from(j) => i = j
    BY <2>5, <2>6
  <2>9. \A l \in DOMAIN s : l # k => \E j \in DOMAIN r : from(j) = l
    <3> SUFFICES ASSUME NEW l \in DOMAIN s, l # k
                 PROVE  \E j \in DOMAIN r : from(j) = l
      OBVIOUS
    <3>1. CASE l < k
      BY <2>1, <2>5, <2>6, <3>1
    <3>2. CASE l > k
      <4>1. l - 1 \in DOMAIN r /\ from(l - 1) = l
        BY <2>1, <2>5, <2>6, <3>2
      <4> QED
        BY <4>1
    <3> QED
      BY <2>1, <2>5, <3>1, <3>2
  <2> HIDE DEF from
  <2>10. Range(r) \subseteq Range(s)
    BY <2>7 DEF Range
  <2>11. NamesOnce(s) => NamesOnce(r)
    BY <2>7, <2>8 DEF NamesOnce
  <2>12. AddrsOnce(s) => AddrsOnce(r)
    BY <2>7, <2>8 DEF AddrsOnce
  <2>13. ASSUME KeysOnce(s)
         PROVE  KeysOnce(r) /\ Range(r) = {b \in Range(s) : b.pub # p}
    <3>1. KeysOnce(r)
      BY <2>7, <2>8, <2>13 DEF KeysOnce
    <3>2. \A l \in DOMAIN s : s[l].pub = p => l = k
      BY <2>1, <2>5, <2>13 DEF KeysOnce
    <3>3. \A j \in DOMAIN r : r[j] \in Range(s) /\ r[j].pub # p
      BY <2>7, <3>2 DEF Range
    <3>4. \A l \in DOMAIN s : s[l].pub # p => s[l] \in Range(r)
      BY <2>5, <2>7, <2>9 DEF Range
    <3>5. Range(r) = {b \in Range(s) : b.pub # p}
      BY <3>3, <3>4 DEF Range
    <3> QED
      BY <3>1, <3>5
  <2> QED
    BY <2>6, <2>10, <2>11, <2>12, <2>13 DEF r
<1> QED
  BY <1>1, <1>2

\* The keys of a config, by its blocks.
LEMMA PubsOfRange ==
  ASSUME NEW s
  PROVE  PubsIn(s) = {b.pub : b \in Range(s)}
<1>1. ASSUME NEW x \in PubsIn(s) PROVE \E b \in Range(s) : x = b.pub
  BY <1>1 DEF PubsIn, Range
<1>2. ASSUME NEW b \in Range(s) PROVE b.pub \in PubsIn(s)
  BY <1>2 DEF PubsIn, Range
<1> QED
  BY <1>1, <1>2

LEMMA PubsAmong ==
  ASSUME NEW s, NEW S, \A b \in Range(s) : b.pub \in S
  PROVE  PubsIn(s) \subseteq S
BY DEF PubsIn, Range

\* The blocks of an interface are those of its config.
LEMMA BlocksOfConf ==
  ASSUME NEW i \in Iface
  PROVE  Blocks(i) = Range(conf[i]) /\ Blocks(i)' = Range(conf'[i])
BY DEF Blocks, Range

\* Appending a block adds it and keeps blocks apart that were.
LEMMA AppendFacts ==
  ASSUME NEW s \in Seq(Block), NEW b \in Block
  PROVE  /\ s \o <<b>> \in Seq(Block) /\ Range(s \o <<b>>) = Range(s) \cup {b}
         /\ KeysOnce(s) /\ b.pub \notin PubsIn(s) => KeysOnce(s \o <<b>>)
         /\ NamesOnce(s) /\ b.name \notin NamesIn(s) => NamesOnce(s \o <<b>>)
         /\ AddrsOnce(s) /\ (\A c \in Range(s) : c.addr # b.addr) => AddrsOnce(s \o <<b>>)
         /\ s \o <<>> = s
<1> DEFINE r == s \o <<b>>
           n == Len(s) + 1
<1>1. /\ r \in Seq(Block) /\ DOMAIN r = 1 .. n /\ DOMAIN s = 1 .. Len(s) /\ n \in Nat /\ Len(s) \in Nat
      /\ r[n] = b /\ \A k \in 1 .. Len(s) : r[k] = s[k]
  OBVIOUS
<1>2. s \o <<>> = s
  OBVIOUS
<1> HIDE DEF r
<1>3. Range(r) = Range(s) \cup {b}
  BY <1>1 DEF Range
<1>4. KeysOnce(s) /\ b.pub \notin PubsIn(s) => KeysOnce(r)
  BY <1>1 DEF KeysOnce, PubsIn
<1>5. NamesOnce(s) /\ b.name \notin NamesIn(s) => NamesOnce(r)
  BY <1>1 DEF NamesOnce, NamesIn
<1>6. AddrsOnce(s) /\ (\A c \in Range(s) : c.addr # b.addr) => AddrsOnce(r)
  BY <1>1 DEF AddrsOnce, Range
<1> QED
  BY <1>1, <1>2, <1>3, <1>4, <1>5, <1>6 DEF r

\* An interface that comes up runs the keys of its config; blocks that share no key get
\* the addresses they name, but one whose address another block names too may get none.
LEMMA FromConfFacts ==
  ASSUME NEW s \in Seq(Block)
  PROVE  /\ FromConf(s) \in [PubsIn(s) -> Host \cup {None}] /\ PubsIn(s) \in SUBSET Pub
         /\ KeysOnce(s) /\ AddrsOnce(s) =>
              \A b \in Range(s) : FromConf(s)[b.pub] = b.addr
         /\ KeysOnce(s) =>
              \A b \in Range(s) :
                \/ FromConf(s)[b.pub] = b.addr
                \/ /\ FromConf(s)[b.pub] = None
                   /\ \E c \in Range(s) : c.pub # b.pub /\ c.addr = b.addr
<1> DEFINE of(p) == {k \in DOMAIN s : s[k].pub = p}
           last(p) == Max(of(p))
           claimed(k) == \E l \in k + 1 .. Len(s) : s[l].addr = s[k].addr
           f == [p \in PubsIn(s) |-> IF claimed(last(p)) THEN None ELSE s[last(p)].addr]
<1>1. DOMAIN s = 1 .. Len(s) /\ Len(s) \in Nat /\ \A k \in DOMAIN s : s[k] \in Block
  OBVIOUS
<1>2. \A p \in PubsIn(s) : last(p) \in of(p)
  <2> TAKE p \in PubsIn(s)
  <2>1. of(p) \in SUBSET (1 .. Len(s)) /\ of(p) # {}
    BY <1>1 DEF PubsIn
  <2> QED
    BY <1>1, <2>1, MaxOf
<1> HIDE DEF last
<1>3. \A p \in PubsIn(s) : last(p) \in DOMAIN s /\ s[last(p)].pub = p
  BY <1>2
<1>4. f \in [PubsIn(s) -> Host \cup {None}]
  BY <1>1, <1>3 DEF Block
<1>5. PubsIn(s) \in SUBSET Pub
  BY <1>1 DEF PubsIn, Block
<1>6. ASSUME KeysOnce(s), NEW b \in Range(s)
      PROVE  /\ AddrsOnce(s) => f[b.pub] = b.addr
             /\ \/ f[b.pub] = b.addr
                \/ f[b.pub] = None /\ \E c \in Range(s) : c.pub # b.pub /\ c.addr = b.addr
  <2>1. PICK k \in DOMAIN s : s[k] = b
    BY DEF Range
  <2>2. b.pub \in PubsIn(s)
    BY <2>1 DEF PubsIn
  <2>3. last(b.pub) = k
    BY <1>3, <1>6, <2>1, <2>2 DEF KeysOnce
  <2>4. f[b.pub] = IF claimed(k) THEN None ELSE b.addr
    BY <2>1, <2>2, <2>3
  <2>5. AddrsOnce(s) /\ claimed(k) => s[k].addr = None
    BY <1>1, <1>6, <2>1 DEF AddrsOnce
  <2>6. claimed(k) => \E c \in Range(s) : c.pub # b.pub /\ c.addr = b.addr
    <3> SUFFICES ASSUME NEW l \in k + 1 .. Len(s), s[l].addr = s[k].addr
                 PROVE  \E c \in Range(s) : c.pub # b.pub /\ c.addr = b.addr
      OBVIOUS
    <3>1. l \in DOMAIN s /\ l # k
      BY <1>1, <2>1
    <3>2. s[l] \in Range(s) /\ s[l].pub # b.pub
      BY <1>6, <2>1, <3>1 DEF KeysOnce, Range
    <3> QED
      BY <2>1, <3>2
  <2> QED
    BY <2>1, <2>4, <2>5, <2>6
<1>7. FromConf(s) = f
  BY DEF FromConf, last
<1> QED
  BY <1>4, <1>5, <1>6, <1>7

(***************************************************************************)
(* Calls and locks.                                                        *)
(***************************************************************************)
\* Two calls are never inside the lock of one config.
LEMMA Alone ==
  ASSUME LockInv, NEW a \in Proc, NEW v \in Proc, pc[a] \in Inside, pc[v] \in Inside,
         job[a].iface = job[v].iface, job[a].iface \in Iface
  PROVE  a = v
BY DEF LockInv

\* What a call works on has types, and so has the interface it works on.
LEMMA JobTypes ==
  ASSUME IInv, NEW a \in Proc, pc[a] # "idle"
  PROVE  /\ job[a] \in Job /\ job[a].iface \in Iface /\ job[a].pub \in Pub /\ job[a].pub \in used
         /\ conf[job[a].iface] \in Seq(Block) /\ Running(job[a].iface) \in SUBSET Pub
         /\ DirOf[job[a].iface] \in Range(DirOf)
         /\ pc[a] \in Adding => job[a].name \in Name /\ job[a].addr \in Host
         /\ pc[a] \in Adding => BlockOf(a) \in Block
<1>1. job[a] \in Job /\ job[a].iface \in Iface /\ job[a].pub \in used /\ used \subseteq Pub
  BY DEF IInv, JobOK, TypeOK
<1>2. conf[job[a].iface] \in Seq(Block) /\ Running(job[a].iface) \in SUBSET Pub
  BY <1>1 DEF IInv, TypeOK, Running
<1>3. pc[a] \in Adding => job[a].name \in Name /\ job[a].addr \in Host
  BY DEF IInv, JobOK
<1>4. pc[a] \in Adding => BlockOf(a) \in Block
  BY <1>1, <1>3 DEF BlockOf, Block
<1>5. DirOf[job[a].iface] \in Range(DirOf)
  BY <1>1, IfaceAssumption
<1> QED
  BY <1>1, <1>2, <1>3, <1>4, <1>5

\* A call that goes on or returns changes nothing of the others, and locks are right.
LEMMA GoesOn ==
  ASSUME IInv, NEW a \in Proc, pc[a] \in Inside, Return(a) \/ \E l \in Inside : Goto(a, l)
  PROVE  /\ pc' \in [Proc -> PCs] /\ job' \in [Proc -> Job] /\ lock' \in [Iface -> Proc \cup {None}]
         /\ blind' \subseteq Proc
         /\ \A v \in Proc : v # a => pc'[v] = pc[v] /\ job'[v] = job[v]
         /\ \/ pc'[a] = "idle" /\ job'[a] = NoJob
            \/ pc'[a] \in Inside /\ job'[a] = job[a]
         /\ LockInv'
<1>1. /\ pc \in [Proc -> PCs] /\ job \in [Proc -> Job] /\ lock \in [Iface -> Proc \cup {None}]
      /\ LockInv /\ job[a].iface \in Iface /\ blind \subseteq Proc
  BY DEF IInv, TypeOK, JobOK, Inside, Adding, Removing
<1>2. NoJob \in Job /\ "idle" \in PCs /\ "idle" \notin Inside /\ Inside \subseteq PCs
  BY DEF NoJob, Job, PCs, Inside, Adding, Removing
<1>3. CASE Return(a)
  <2>1. /\ pc' = [pc EXCEPT ![a] = "idle"] /\ job' = [job EXCEPT ![a] = NoJob]
        /\ lock' = [i \in Iface |-> IF lock[i] = a THEN None ELSE lock[i]]
        /\ blind' = blind \ {a}
    BY <1>3 DEF Return
  <2>2. LockInv'
    BY <1>1, <1>2, <2>1, NoneAssumption DEF LockInv
  <2> QED
    BY <1>1, <1>2, <2>1, <2>2
<1>4. CASE \E l \in Inside : Goto(a, l)
  <2>1. PICK l \in Inside : /\ pc' = [pc EXCEPT ![a] = l] /\ lock' = lock /\ job' = job
                            /\ blind' = blind
    BY <1>4 DEF Goto
  <2>2. LockInv'
    BY <1>1, <2>1 DEF LockInv
  <2> QED
    BY <1>1, <1>2, <2>1, <2>2
<1> QED
  BY <1>3, <1>4

\* A step of a call inside its lock that touches, of configs and interfaces, only the
\* one locked, and there only its own key.
LEMMA InsideStep ==
  ASSUME IInv, NEW a \in Proc, pc[a] \in Inside,
         Return(a) \/ \E l \in Inside : Goto(a, l), pc'[a] \in Adding => pc[a] \in Adding,
         NEW i \in Iface, i = job[a].iface, NEW p \in Pub, p = job[a].pub,
         conf' \in [Iface -> Seq(Block)],
         live' \in [Iface -> UNION {[S -> Host \cup {None}] : S \in SUBSET Pub}],
         client' \in [Range(DirOf) -> [Name -> Pub \cup {None}]],
         \A j \in Iface : j # i => conf'[j] = conf[j] /\ live'[j] = live[j],
         PubsIn(conf'[i]) \subseteq PubsIn(conf[i]) \cup {p},
         DOMAIN live'[i] \subseteq Running(i) \cup {p},
         KeysOnce(conf'[i]), NamesOnce(conf'[i]),
         ledger' \subseteq ledger, used' = used, revived' \subseteq revived, faults' \subseteq Fault,
         made' \subseteq made \cup {p}, gone' \subseteq gone \cup {p},
         WorksOn(a)', OwnDirectories => ConfigOnFile'
  PROVE  IInv'
<1>1. p \in used /\ used \subseteq Pub
  BY JobTypes DEF IInv, TypeOK, Inside, Adding, Removing
<1>2. /\ pc' \in [Proc -> PCs] /\ job' \in [Proc -> Job] /\ lock' \in [Iface -> Proc \cup {None}]
      /\ blind' \subseteq Proc
      /\ \A v \in Proc : v # a => pc'[v] = pc[v] /\ job'[v] = job[v]
      /\ \/ pc'[a] = "idle" /\ job'[a] = NoJob
         \/ pc'[a] \in Inside /\ job'[a] = job[a]
      /\ LockInv'
  BY GoesOn
<1>3. TypeOK'
  BY <1>1, <1>2 DEF IInv, TypeOK
<1>4. \A j \in Iface : ConfInv => KeysOnce(conf'[j]) /\ NamesOnce(conf'[j])
  BY DEF ConfInv
<1>5. ConfInv'
  BY <1>4 DEF IInv, ConfInv
<1>6. pc[a] # "idle"
  BY DEF Inside, Adding, Removing
<1>7. \A j \in Iface, q \in Pub : At(j, q)' => At(j, q)
  <2> SUFFICES ASSUME NEW j \in Iface, NEW q \in Pub, At(j, q)'
               PROVE  At(j, q)
    OBVIOUS
  <2>1. At(i, p)
    BY <1>6 DEF At
  <2>2. CASE q \in DOMAIN live'[j]
    BY <2>1, <2>2 DEF At, Running
  <2>3. CASE q \in PubsIn(conf'[j])
    BY <2>1, <2>3 DEF At
  <2>4. CASE \E v \in Proc : pc'[v] # "idle" /\ job'[v].pub = q /\ job'[v].iface = j
    BY <1>2, <1>6, <2>4 DEF At
  <2> QED
    BY <2>2, <2>3, <2>4 DEF At, Running
<1>8. OneHome'
  <2>1. \A j, k \in Iface, q \in Pub : At(j, q)' /\ At(k, q)' => j = k
    BY <1>7 DEF IInv, OneHome
  <2>2. \A j \in Iface : DOMAIN live'[j] \cup PubsIn(conf'[j]) \subseteq used'
    BY <1>1 DEF IInv, OneHome, Running
  <2>3. ledger' \cup gone' \subseteq used'
    BY <1>1 DEF IInv, OneHome
  <2> QED
    BY <2>1, <2>2, <2>3 DEF OneHome, Running
<1>9. ASSUME NEW v \in Proc, v # a
      PROVE  JobOK(v)' /\ WorksOn(v)'
  <2>1. pc'[v] = pc[v] /\ job'[v] = job[v] /\ JobOK(v) /\ WorksOn(v)
    BY <1>2, <1>9 DEF IInv
  <2>2. pc[v] \in Inside => job[v].iface \in Iface /\ job[v].iface # i
    BY <1>9, Alone, JobTypes DEF IInv, Inside, Adding, Removing
  <2>3. pc[v] \in Adding => job[v].pub # p
    <3> SUFFICES ASSUME pc[v] \in Adding, job[v].pub = p
                 PROVE  FALSE
      OBVIOUS
    <3>1. pc[v] # "idle" /\ pc[v] \in Inside
      BY DEF Adding, Inside
    <3>2. At(job[v].iface, p) /\ At(i, p)
      BY <1>6, <3>1 DEF At
    <3> QED
      BY <2>2, <3>1, <3>2 DEF IInv, OneHome
  <2>4. JobOK(v)'
    BY <2>1 DEF JobOK
  <2>5. pc[v] \in Inside => conf'[job[v].iface] = conf[job[v].iface]
    BY <2>2
  <2>6. WorksOn(v)'
    BY <2>1, <2>3, <2>5 DEF WorksOn, Blocks, Inside, Adding, Removing
  <2> QED
    BY <2>4, <2>6
<1>10. JobOK(a)'
  BY <1>2, <1>6 DEF IInv, JobOK, Adding
<1> QED
  BY <1>2, <1>3, <1>5, <1>8, <1>9, <1>10 DEF IInv

(***************************************************************************)
(* addPeer.                                                                *)
(***************************************************************************)
\* A call that returns works on nothing.
LEMMA ReturnWorks ==
  ASSUME TypeOK, NEW a \in Proc, Return(a)
  PROVE  WorksOn(a)' /\ pc'[a] = "idle"
BY DEF Return, TypeOK, WorksOn, Adding, Removing, Inside

\* A failure is one of those listed.
LEMMA FaultsListed ==
  ASSUME TypeOK, NEW f \in Fault, Breaks(f) \/ Fine
  PROVE  faults' \subseteq Fault
BY DEF TypeOK, Breaks, Fine

\* Appending the block of a call, whole or cut short, or nothing.
LEMMA AppendStep ==
  ASSUME IInv, NEW a \in Proc, AppendBlock(a)
  PROVE  IInv'
<1>1. TypeOK /\ WorksOn(a) /\ pc[a] = "append" /\ pc[a] \in Inside /\ pc[a] \in Adding /\ pc[a] # "idle"
  BY DEF IInv, AppendBlock, Inside, Adding
<1> PICK i \in Iface, p \in Pub : i = job[a].iface /\ p = job[a].pub
  BY <1>1, JobTypes
<1> PICK s, whole, part : s = conf[i] /\ whole = BlockOf(a) /\ part = [whole EXCEPT !.addr = None]
  OBVIOUS
<1>2. /\ i \in Iface /\ p \in Pub /\ s \in Seq(Block) /\ whole \in Block /\ part \in Block
      /\ whole.pub = p /\ part.pub = p /\ whole.name = job[a].name /\ part.name = job[a].name
  <2>1. job[a] \in Job /\ whole \in Block
    BY <1>1, JobTypes
  <2> QED
    BY <1>1, <2>1, JobTypes DEF BlockOf, Block
<1>3. /\ p \notin PubsIn(s) /\ p \notin made /\ job[a].name \notin NamesIn(s)
  <2>1. /\ p \notin PubsIn(s) /\ p \notin made
        /\ \A b \in Blocks(i) : b.name = job[a].name <=> b.pub = p
    BY <1>1 DEF WorksOn
  <2>2. \A k \in DOMAIN s : s[k] \in Blocks(i) /\ s[k].pub # p
    BY <2>1 DEF Blocks, PubsIn
  <2>3. \A k \in DOMAIN s : s[k].name # job[a].name
    BY <2>1, <2>2
  <2> QED BY <2>1, <2>3 DEF NamesIn
<1>4. KeysOnce(s) /\ NamesOnce(s)
  BY <1>2 DEF IInv, ConfInv
<1>5. UNCHANGED <<live, client, ledger, used, made, gone, revived>>
  BY DEF AppendBlock
<1>6. PICK r \in {s, s \o <<whole>>, s \o <<part>>} :
        /\ conf' = [conf EXCEPT ![i] = r]
        /\ \/ r = s \o <<whole>> /\ Goto(a, "apply") /\ Fine
           \/ Return(a) /\ Breaks("append")
  <2>1. CASE AppendToConf(a, <<whole>>) /\ Goto(a, "apply") /\ Fine
    BY <2>1 DEF AppendToConf
  <2>2. CASE /\ \E written \in { <<>>, <<part>>, <<whole>> } : AppendToConf(a, written)
             /\ Return(a) /\ Breaks("append")
    <3>1. s \o <<>> = s
      BY <1>2
    <3> QED
      BY <2>2, <3>1 DEF AppendToConf
  <2> QED
    BY <2>1, <2>2 DEF AppendBlock
<1>7. /\ r \in Seq(Block) /\ KeysOnce(r) /\ NamesOnce(r)
      /\ Range(r) \subseteq Range(s) \cup {whole, part}
      /\ r = s \o <<whole>> => Range(r) = Range(s) \cup {whole}
  <2>1. /\ s \o <<whole>> \in Seq(Block) /\ Range(s \o <<whole>>) = Range(s) \cup {whole}
        /\ KeysOnce(s \o <<whole>>) /\ NamesOnce(s \o <<whole>>)
    BY <1>2, <1>3, <1>4, AppendFacts
  <2>2. /\ s \o <<part>> \in Seq(Block) /\ Range(s \o <<part>>) = Range(s) \cup {part}
        /\ KeysOnce(s \o <<part>>) /\ NamesOnce(s \o <<part>>)
    BY <1>2, <1>3, <1>4, AppendFacts
  <2> QED
    BY <1>2, <1>4, <2>1, <2>2
<1>8. conf \in [Iface -> Seq(Block)] /\ conf'[i] = r /\ \A j \in Iface : j # i => conf'[j] = conf[j]
  BY <1>1, <1>2, <1>6 DEF TypeOK
<1>9. PubsIn(r) = {b.pub : b \in Range(r)} /\ PubsIn(s) = {b.pub : b \in Range(s)}
  BY PubsOfRange
<1>10. WorksOn(a)' /\ pc'[a] \in {"idle", "apply"}
  <2>1. CASE Return(a)
    BY <1>1, <2>1, ReturnWorks
  <2>2. CASE r = s \o <<whole>> /\ Goto(a, "apply")
    <3>1. pc'[a] = "apply" /\ job' = job
      BY <1>1, <2>2 DEF Goto, TypeOK
    <3>2. p \in PubsIn(r)
      BY <1>2, <1>7, <1>9, <2>2
    <3>3. \A b \in Range(r) : b.name = job[a].name <=> b.pub = p
      <4>1. \A b \in Range(s) : b.name = job[a].name <=> b.pub = p
        BY <1>1, BlocksOfConf DEF WorksOn
      <4> QED
        BY <1>2, <1>7, <2>2, <4>1
    <3>4. job'[a] = job[a] /\ p \notin made' \cup gone'
      BY <1>1, <1>5, <3>1 DEF WorksOn
    <3>5. WorksOn(a)'
      <4>1. Blocks(i)' = Range(r) /\ conf'[i] = r
        BY <1>8, BlocksOfConf
      <4> QED
        BY <3>1, <3>2, <3>3, <3>4, <4>1 DEF WorksOn, Adding
    <3> QED
      BY <3>1, <3>5
  <2> QED
    BY <1>6, <2>1, <2>2
<1>11. OwnDirectories => ConfigOnFile'
  <2> SUFFICES ASSUME OwnDirectories, NEW j \in Iface, NEW b \in Range(conf'[j]), b.pub \in made
               PROVE  client[DirOf[j]][b.name] = b.pub
    BY <1>5 DEF ConfigOnFile, Blocks, Range
  <2>1. b \in Range(conf[j])
    BY <1>2, <1>3, <1>7, <1>8
  <2> QED
    BY <2>1 DEF IInv, ConfigOnFile, Blocks, Range
<1>12. faults' \subseteq Fault
  BY <1>1, <1>6, FaultsListed DEF Fault
<1>13. Return(a) \/ \E l \in Inside : Goto(a, l)
  BY <1>6 DEF Inside, Adding
<1>14. PubsIn(conf'[i]) \subseteq PubsIn(conf[i]) \cup {p}
  <2>1. \A b \in Range(r) : b.pub \in PubsIn(s) \cup {p}
    BY <1>2, <1>7, <1>9
  <2>2. PubsIn(r) \subseteq PubsIn(s) \cup {p}
    BY <2>1, PubsAmong
  <2> QED
    BY <1>8, <2>2
<1>15. /\ conf' \in [Iface -> Seq(Block)]
       /\ live' \in [Iface -> UNION {[S -> Host \cup {None}] : S \in SUBSET Pub}]
       /\ client' \in [Range(DirOf) -> [Name -> Pub \cup {None}]]
  BY <1>1, <1>5, <1>6, <1>7 DEF TypeOK
<1> QED
  BY <1>1, <1>2, <1>5, <1>7, <1>8, <1>10, <1>11, <1>12, <1>13, <1>14, <1>15, InsideStep DEF Running

\* Running peers and the address of each.
Peers == UNION {[S -> Host \cup {None}] : S \in SUBSET Pub}

\* What `wg set` makes of the running peers of an interface.
LEMMA PeersFacts ==
  ASSUME NEW peers \in Peers, NEW p \in Pub, NEW x \in Host \cup {None}
  PROVE  /\ DOMAIN peers \in SUBSET Pub /\ peers \in [DOMAIN peers -> Host \cup {None}]
         /\ WithPeer(peers, p, x) \in Peers /\ DOMAIN WithPeer(peers, p, x) = DOMAIN peers \cup {p}
         /\ WithoutPeer(peers, p) \in Peers /\ DOMAIN WithoutPeer(peers, p) = DOMAIN peers \ {p}
<1>1. PICK S \in SUBSET Pub : peers \in [S -> Host \cup {None}]
  BY DEF Peers
<1>2. S \cup {p} \in SUBSET Pub /\ S \ {p} \in SUBSET Pub /\ DOMAIN peers = S
  BY <1>1
<1>3. WithPeer(peers, p, x) \in [S \cup {p} -> Host \cup {None}]
  BY <1>1, <1>2 DEF WithPeer
<1>4. WithoutPeer(peers, p) \in [S \ {p} -> Host \cup {None}]
  BY <1>1, <1>2 DEF WithoutPeer
<1> QED
  BY <1>1, <1>2, <1>3, <1>4 DEF Peers

\* A step that leaves the configs, the client configs and the ledger alone, and of the
\* running peers touches at most the call's own.
LEMMA LiveStep ==
  ASSUME IInv, NEW a \in Proc, pc[a] \in Adding,
         UNCHANGED <<conf, client, ledger, used, made, gone, revived>>, faults' \subseteq Fault,
         \/ live' = live
         \/ /\ pc[a] = "apply"
            /\ live' = [live EXCEPT ![job[a].iface] = WithPeer(@, job[a].pub, job[a].addr)]
         \/ live' = [live EXCEPT ![job[a].iface] = WithoutPeer(@, job[a].pub)],
         Return(a) \/ \E l \in {"file", "undoLive", "undoConf"} : Goto(a, l),
         Goto(a, "file") => pc[a] = "apply"
  PROVE  IInv'
<1>1. pc[a] \in Inside /\ pc[a] # "idle"
  BY DEF Inside, Adding
<1>2. PICK i \in Iface, p \in Pub, x \in Host :
        /\ i = job[a].iface /\ p = job[a].pub /\ x = job[a].addr
  BY <1>1, JobTypes
<1>3. TypeOK /\ WorksOn(a)
  BY DEF IInv
<1>4. live[i] \in Peers /\ live \in [Iface -> Peers]
  BY <1>3 DEF TypeOK, Peers
<1>5. \/ live' = live
      \/ live' = [live EXCEPT ![i] = WithPeer(live[i], p, x)]
      \/ live' = [live EXCEPT ![i] = WithoutPeer(live[i], p)]
  BY <1>2
<1>6. /\ live' \in [Iface -> Peers] /\ \A j \in Iface : j # i => live'[j] = live[j]
      /\ DOMAIN live'[i] \subseteq Running(i) \cup {p}
  <2>1. /\ WithPeer(live[i], p, x) \in Peers /\ DOMAIN WithPeer(live[i], p, x) = DOMAIN live[i] \cup {p}
        /\ WithoutPeer(live[i], p) \in Peers /\ DOMAIN WithoutPeer(live[i], p) = DOMAIN live[i] \ {p}
    BY <1>4, PeersFacts
  <2> QED
    BY <1>4, <1>5, <2>1 DEF Running
<1>7. WorksOn(a)' /\ (pc'[a] \in Adding => pc[a] \in Adding)
  <2>1. CASE Return(a)
    BY <1>3, <2>1, ReturnWorks
  <2>2. CASE \E l \in {"file", "undoLive", "undoConf"} : Goto(a, l)
    <3>1. PICK l \in {"file", "undoLive", "undoConf"} :
            /\ pc' = [pc EXCEPT ![a] = l] /\ job' = job /\ (l = "file" => pc[a] = "apply")
      BY <2>2 DEF Goto
    <3>2. pc'[a] = l
      BY <1>3, <3>1 DEF TypeOK
    <3> QED
      BY <1>1, <1>3, <3>1, <3>2 DEF WorksOn, Adding, Blocks
  <2> QED
    BY <2>1, <2>2
<1>8. OwnDirectories => ConfigOnFile'
  BY DEF IInv, ConfigOnFile, Blocks
<1>9. Return(a) \/ \E l \in Inside : Goto(a, l)
  BY DEF Inside, Adding
<1>10. /\ conf' \in [Iface -> Seq(Block)] /\ client' \in [Range(DirOf) -> [Name -> Pub \cup {None}]]
       /\ KeysOnce(conf'[i]) /\ NamesOnce(conf'[i])
  BY <1>3 DEF TypeOK, IInv, ConfInv
<1> QED
  BY <1>1, <1>2, <1>6, <1>7, <1>8, <1>9, <1>10, InsideStep DEF Peers

\* Setting the peer on the running interface.
LEMMA ApplyStep ==
  ASSUME IInv, NEW a \in Proc, applyPeer(a)
  PROVE  IInv'
<1>1. /\ TypeOK /\ pc[a] = "apply" /\ pc[a] \in Adding /\ {"apply", "setLate"} \subseteq Fault
      /\ UNCHANGED <<conf, client, ledger, used, made, gone, revived>>
  BY DEF IInv, applyPeer, Adding, Fault
<1>2. PICK l \in {"file", "undoLive"} : Goto(a, l)
  BY DEF applyPeer
<1>3. \/ live' = live
      \/ live' = [live EXCEPT ![job[a].iface] = WithPeer(@, job[a].pub, job[a].addr)]
  BY DEF applyPeer
<1>4. Fine \/ Breaks("apply") \/ Breaks("setLate")
  BY DEF applyPeer
<1>5. faults' \subseteq Fault
  BY <1>1, <1>4, FaultsListed
<1> QED
  BY <1>1, <1>2, <1>3, <1>5, LiveStep

\* Taking it off again.
LEMMA UndoLiveStep ==
  ASSUME IInv, NEW a \in Proc, UndoLive(a)
  PROVE  IInv'
<1>1. TypeOK /\ pc[a] \in Adding /\ "undo" \in Fault
  BY DEF IInv, UndoLive, Adding, Fault
<1>2. faults' \subseteq Fault
  BY <1>1, FaultsListed DEF UndoLive
<1>3. ~Goto(a, "file")
  BY <1>1 DEF UndoLive, Goto, TypeOK
<1> QED
  BY <1>1, <1>2, <1>3, LiveStep DEF UndoLive

\* Writing the client config: the file of its name is the peer's own.
LEMMA WriteClientStep ==
  ASSUME IInv, NEW a \in Proc, WriteClient(a)
  PROVE  IInv'
<1>1. TypeOK /\ WorksOn(a) /\ pc[a] \in Adding /\ pc[a] \in Inside /\ pc[a] # "idle" /\ "file" \in Fault
  BY DEF IInv, WriteClient, Adding, Fault, Inside
<1>2. faults' \subseteq Fault /\ UNCHANGED <<conf, live, ledger, used, gone, revived>>
  BY <1>1, FaultsListed DEF WriteClient
<1>3. CASE UNCHANGED <<client, made>> /\ Goto(a, "undoLive")
  <2>1. ~Goto(a, "file")
    BY <1>1, <1>3 DEF Goto, TypeOK
  <2> QED
    BY <1>1, <1>2, <1>3, <2>1, LiveStep
<1>4. CASE /\ client' = [client EXCEPT ![DirOf[job[a].iface]][job[a].name] = job[a].pub]
           /\ made' = made \cup {job[a].pub}
           /\ Return(a)
  <2>1. PICK i \in Iface, p \in Pub, n \in Name :
          /\ i = job[a].iface /\ p = job[a].pub /\ n = job[a].name /\ DirOf[i] \in Range(DirOf)
    BY <1>1, JobTypes
  <2>2. /\ client \in [Range(DirOf) -> [Name -> Pub \cup {None}]]
        /\ client' = [client EXCEPT ![DirOf[i]] = [client[DirOf[i]] EXCEPT ![n] = p]]
    BY <1>1, <1>4, <2>1 DEF TypeOK
  <2>3. client' \in [Range(DirOf) -> [Name -> Pub \cup {None}]]
    BY <2>1, <2>2
  <2>4. WorksOn(a)' /\ pc'[a] = "idle"
    BY <1>1, <1>4, ReturnWorks
  <2>5. ASSUME OwnDirectories, NEW j \in Iface, NEW b \in Range(conf[j]), b.pub \in made'
        PROVE  client'[DirOf[j]][b.name] = b.pub
    <3>1. DirOf[j] \in Range(DirOf) /\ b.name \in Name
      <4>1. conf[j] \in Seq(Block)
        BY <1>1 DEF TypeOK
      <4>2. b \in Block
        BY <4>1 DEF Range
      <4> QED
        BY <4>2, IfaceAssumption DEF Block
    <3>2. CASE b.pub = p
      <4>1. j = i
        <5>1. At(j, p) /\ At(i, p)
          BY <1>1, <2>1, <3>2 DEF At, PubsIn, Range
        <5> QED
          BY <5>1 DEF IInv, OneHome
      <4>2. b.name = n
        BY <1>1, <2>1, <3>2, <4>1 DEF WorksOn, Blocks, Range
      <4> QED
        BY <2>1, <2>2, <3>2, <4>1, <4>2
    <3>3. CASE b.pub # p
      <4>1. client[DirOf[j]][b.name] = b.pub
        BY <1>4, <2>1, <2>5, <3>3 DEF IInv, ConfigOnFile, Blocks, Range
      <4>2. j = i => b.name # n
        BY <1>1, <2>1, <3>3 DEF WorksOn, Blocks, Range
      <4>3. j # i => DirOf[j] # DirOf[i]
        BY <2>5 DEF OwnDirectories
      <4> QED
        BY <2>1, <2>2, <3>1, <4>1, <4>2, <4>3
    <3> QED
      BY <3>2, <3>3
  <2>6. OwnDirectories => ConfigOnFile'
    BY <1>2, <2>5 DEF ConfigOnFile, Blocks, Range
  <2>7. /\ conf' \in [Iface -> Seq(Block)]
        /\ live' \in [Iface -> UNION {[S -> Host \cup {None}] : S \in SUBSET Pub}]
        /\ KeysOnce(conf'[i]) /\ NamesOnce(conf'[i])
    BY <1>1, <1>2 DEF TypeOK, IInv, ConfInv
  <2>8. "idle" \notin Adding
    BY DEF Adding
  <2> QED
    BY <1>1, <1>2, <1>4, <2>1, <2>3, <2>4, <2>6, <2>7, <2>8, InsideStep DEF Running
<1> QED
  BY <1>3, <1>4 DEF WriteClient

(***************************************************************************)
(* Steps that take a block out of a config, and removePeer.                *)
(***************************************************************************)
\* Taking the call's own block out of its config.
LEMMA DropStep ==
  ASSUME IInv, NEW a \in Proc, pc[a] \in {"undoConf", "rewrite"},
         conf' = [conf EXCEPT ![job[a].iface] = removePeerFromConf(@, job[a].pub)],
         UNCHANGED <<live, client, ledger, used, made, gone, revived, faults>>,
         Return(a) \/ (pc[a] = "rewrite" /\ Goto(a, "unlink"))
  PROVE  IInv'
<1>1. TypeOK /\ WorksOn(a) /\ pc[a] \in Inside /\ pc[a] # "idle"
  BY DEF IInv, Adding, Removing, Inside
<1>2. PICK i \in Iface, p \in Pub :
        /\ i = job[a].iface /\ p = job[a].pub /\ conf[i] \in Seq(Block)
  BY <1>1, JobTypes
<1>3. PICK r : r = removePeerFromConf(conf[i], p)
  OBVIOUS
<1>4. KeysOnce(conf[i]) /\ NamesOnce(conf[i])
  BY DEF IInv, ConfInv
<1>5. /\ r \in Seq(Block) /\ NamesOnce(r) /\ KeysOnce(r)
      /\ Range(r) = {b \in Range(conf[i]) : b.pub # p}
  BY <1>2, <1>3, <1>4, RemovalFacts
<1>6. /\ conf \in [Iface -> Seq(Block)] /\ conf'[i] = r /\ \A j \in Iface : j # i => conf'[j] = conf[j]
      /\ conf' \in [Iface -> Seq(Block)]
  BY <1>1, <1>2, <1>3, <1>5 DEF TypeOK
<1>7. PubsIn(r) \subseteq PubsIn(conf[i]) /\ p \notin PubsIn(r)
  BY <1>5 DEF PubsIn, Range
<1>8. WorksOn(a)' /\ (pc'[a] \in Adding => pc[a] \in Adding)
  <2>1. CASE Return(a)
    BY <1>1, <2>1, ReturnWorks DEF Adding
  <2>2. CASE pc[a] = "rewrite" /\ Goto(a, "unlink")
    <3>1. pc'[a] = "unlink" /\ job' = job
      BY <1>1, <2>2 DEF Goto, TypeOK
    <3>2. \A b \in Range(r) : b.name = job[a].name <=> b.pub = p
      BY <1>1, <1>2, <1>5 DEF WorksOn, Blocks, Range
    <3> QED
      BY <1>2, <1>6, <1>7, <3>1, <3>2 DEF WorksOn, Blocks, Range, Adding
  <2> QED
    BY <2>1, <2>2
<1>9. OwnDirectories => ConfigOnFile'
  <2>1. \A j \in Iface : Range(conf'[j]) \subseteq Range(conf[j])
    BY <1>5, <1>6
  <2> QED
    BY <2>1 DEF IInv, ConfigOnFile, Blocks, Range
<1>10. Return(a) \/ \E l \in Inside : Goto(a, l)
  BY DEF Inside, Removing
<1>11. /\ live' \in [Iface -> UNION {[S -> Host \cup {None}] : S \in SUBSET Pub}]
       /\ client' \in [Range(DirOf) -> [Name -> Pub \cup {None}]]
       /\ faults' \subseteq Fault
  BY <1>1 DEF TypeOK
<1> QED
  BY <1>1, <1>2, <1>5, <1>6, <1>7, <1>8, <1>9, <1>10, <1>11, InsideStep DEF Running

\* A call inside its lock that returns without touching anything but what failed.
LEMMA GiveUpStep ==
  ASSUME IInv, NEW a \in Proc, pc[a] \in Inside, Return(a),
         UNCHANGED <<files, used, made, revived>>,
         gone' \subseteq gone \cup {job[a].pub}, faults' \subseteq Fault
  PROVE  IInv'
<1>1. TypeOK /\ pc[a] # "idle"
  BY DEF IInv, Adding, Removing, Inside
<1>2. PICK i \in Iface, p \in Pub : i = job[a].iface /\ p = job[a].pub
  BY <1>1, JobTypes
<1>3. WorksOn(a)' /\ pc'[a] = "idle" /\ "idle" \notin Adding
  BY <1>1, ReturnWorks DEF Adding
<1>4. OwnDirectories => ConfigOnFile'
  BY DEF IInv, ConfigOnFile, Blocks, files
<1>5. /\ conf' \in [Iface -> Seq(Block)] /\ KeysOnce(conf'[i]) /\ NamesOnce(conf'[i])
      /\ live' \in [Iface -> UNION {[S -> Host \cup {None}] : S \in SUBSET Pub}]
      /\ client' \in [Range(DirOf) -> [Name -> Pub \cup {None}]]
      /\ conf' = conf /\ live' = live /\ ledger' = ledger
  BY <1>1 DEF TypeOK, files, IInv, ConfInv
<1> QED
  BY <1>1, <1>2, <1>3, <1>4, <1>5, InsideStep DEF Running

\* The second step of undo, done or not.
LEMMA UndoConfStep ==
  ASSUME IInv, NEW a \in Proc, UndoConf(a)
  PROVE  IInv'
<1>1. TypeOK /\ pc[a] = "undoConf" /\ pc[a] \in Inside /\ "undo" \in Fault
  BY DEF IInv, UndoConf, Adding, Inside, Fault
<1>2. Return(a) /\ UNCHANGED <<live, client, ledger, used, made, gone, revived>>
  BY DEF UndoConf
<1>3. CASE /\ conf' = [conf EXCEPT ![job[a].iface] = removePeerFromConf(@, job[a].pub)]
           /\ Fine
  BY <1>1, <1>2, <1>3, DropStep DEF Fine
<1>4. CASE UNCHANGED conf /\ Breaks("undo")
  <2>1. faults' \subseteq Fault
    BY <1>1, <1>4, FaultsListed
  <2> QED
    BY <1>1, <1>2, <1>4, <2>1, GiveUpStep DEF files
<1> QED
  BY <1>3, <1>4 DEF UndoConf

\* Erasing the block of a removed peer, done or not.
LEMMA RemoveBlockStep ==
  ASSUME IInv, NEW a \in Proc, RemoveBlock(a)
  PROVE  IInv'
<1>1. TypeOK /\ pc[a] = "rewrite" /\ pc[a] \in Inside /\ "rewrite" \in Fault
  BY DEF IInv, RemoveBlock, Removing, Inside, Fault
<1>2. UNCHANGED <<live, client, ledger, used, made, gone, revived>>
  BY DEF RemoveBlock
<1>3. CASE /\ conf' = [conf EXCEPT ![job[a].iface] = removePeerFromConf(@, job[a].pub)]
           /\ Goto(a, "unlink") /\ Fine
  BY <1>1, <1>2, <1>3, DropStep DEF Fine
<1>4. CASE UNCHANGED conf /\ Return(a) /\ Breaks("rewrite")
  <2>1. faults' \subseteq Fault
    BY <1>1, <1>4, FaultsListed
  <2> QED
    BY <1>1, <1>2, <1>4, <2>1, GiveUpStep DEF files
<1> QED
  BY <1>3, <1>4 DEF RemoveBlock

\* Unlinking the client config, done or not: no block that is left has its name.
LEMMA RemoveFilesStep ==
  ASSUME IInv, NEW a \in Proc, RemoveFiles(a)
  PROVE  IInv'
<1>1. /\ TypeOK /\ WorksOn(a) /\ pc[a] = "unlink" /\ pc[a] \in Inside /\ pc[a] # "idle"
      /\ UNCHANGED <<conf, live, ledger, used, made, gone, revived>> /\ Goto(a, "forget")
      /\ "unlink" \in Fault
  BY DEF IInv, RemoveFiles, Removing, Inside, Fault
<1>2. PICK i \in Iface, p \in Pub :
        /\ i = job[a].iface /\ p = job[a].pub /\ job[a] \in Job /\ DirOf[i] \in Range(DirOf)
  BY <1>1, JobTypes
<1>3. PICK n \in Name \cup {None} : n = job[a].name
  BY <1>2 DEF Job
<1>4. client \in [Range(DirOf) -> [Name -> Pub \cup {None}]]
  BY <1>1 DEF TypeOK
<1>5. \/ client' = client
      \/ /\ n # None
         /\ client' = [client EXCEPT ![DirOf[i]] = [client[DirOf[i]] EXCEPT ![n] = None]]
  BY <1>2, <1>3, <1>4 DEF RemoveFiles
<1>6. client' \in [Range(DirOf) -> [Name -> Pub \cup {None}]]
  BY <1>2, <1>3, <1>4, <1>5
<1>7. pc'[a] = "forget" /\ job' = job
  BY <1>1 DEF Goto, TypeOK
<1>8. WorksOn(a)'
  BY <1>1, <1>7 DEF WorksOn, Blocks, Adding, Inside
<1>9. ASSUME OwnDirectories, NEW j \in Iface, NEW b \in Range(conf[j]), b.pub \in made
      PROVE  client'[DirOf[j]][b.name] = b.pub
  <2>1. client[DirOf[j]][b.name] = b.pub
    BY <1>9 DEF IInv, ConfigOnFile, Blocks, Range
  <2>2. b.name \in Name /\ DirOf[j] \in Range(DirOf)
    <3>1. conf[j] \in Seq(Block)
      BY <1>1 DEF TypeOK
    <3>2. b \in Block
      BY <3>1 DEF Range
    <3> QED
      BY <3>2, IfaceAssumption DEF Block
  <2>3. j = i => b.name # n
    <3> SUFFICES ASSUME j = i PROVE b.name # n
      OBVIOUS
    <3>1. b.pub # p
      BY <1>1, <1>2 DEF WorksOn, PubsIn, Range
    <3> QED
      BY <1>1, <1>2, <1>3, <3>1 DEF WorksOn, Blocks, Range
  <2>4. j # i => DirOf[j] # DirOf[i]
    BY <1>9 DEF OwnDirectories
  <2> QED
    BY <1>2, <1>3, <1>4, <1>5, <2>1, <2>2, <2>3, <2>4
<1>10. OwnDirectories => ConfigOnFile'
  BY <1>1, <1>9 DEF ConfigOnFile, Blocks, Range
<1>11. /\ conf' \in [Iface -> Seq(Block)] /\ KeysOnce(conf'[i]) /\ NamesOnce(conf'[i])
       /\ live' \in [Iface -> UNION {[S -> Host \cup {None}] : S \in SUBSET Pub}]
       /\ conf' = conf /\ live' = live /\ ledger' = ledger /\ used' = used /\ made' = made /\ gone' = gone
       /\ revived' = revived
  BY <1>1 DEF TypeOK, IInv, ConfInv
<1>12. (\E l \in Inside : Goto(a, l)) /\ pc'[a] \notin Adding
  BY <1>1, <1>7 DEF Inside, Removing, Adding
<1>13. faults' \subseteq Fault
  BY <1>1, FaultsListed DEF RemoveFiles
<1> QED
  BY <1>1, <1>2, <1>6, <1>8, <1>10, <1>11, <1>12, <1>13, InsideStep DEF Running

\* The ledger forgets the peer, or cannot be written.
LEMMA ForgetStep ==
  ASSUME IInv, NEW a \in Proc, ForgetPeer(a)
  PROVE  IInv'
<1>1. /\ TypeOK /\ pc[a] \in Inside /\ pc[a] # "idle" /\ "forget" \in Fault
      /\ Return(a) /\ UNCHANGED <<conf, live, client, used, made>>
  BY DEF IInv, ForgetPeer, Removing, Inside, Fault
<1>2. PICK i \in Iface, p \in Pub : i = job[a].iface /\ p = job[a].pub
  BY <1>1, JobTypes
<1>3. WorksOn(a)' /\ pc'[a] = "idle" /\ "idle" \notin Adding
  BY <1>1, ReturnWorks DEF Adding
<1>4. faults' \subseteq Fault
  BY <1>1, FaultsListed DEF ForgetPeer
<1>5. ledger' \subseteq ledger /\ gone' \subseteq gone \cup {p} /\ revived' \subseteq revived
  BY <1>2 DEF ForgetPeer
<1>6. OwnDirectories => ConfigOnFile'
  BY <1>1 DEF IInv, ConfigOnFile, Blocks
<1>7. /\ conf' \in [Iface -> Seq(Block)] /\ KeysOnce(conf'[i]) /\ NamesOnce(conf'[i])
      /\ live' \in [Iface -> UNION {[S -> Host \cup {None}] : S \in SUBSET Pub}]
      /\ client' \in [Range(DirOf) -> [Name -> Pub \cup {None}]]
  BY <1>1 DEF TypeOK, IInv, ConfInv
<1> QED
  BY <1>1, <1>2, <1>3, <1>4, <1>5, <1>6, <1>7, InsideStep DEF Running

(***************************************************************************)
(* Calls that begin, and what happens around the calls.                    *)
(***************************************************************************)
\* The lowest free host is a free host.
LEMMA FreeFacts ==
  ASSUME NEW taken, Host \ taken # {}
  PROVE  freeAddress(taken) \in Host \ taken
<1>1. Host \ taken \in SUBSET Nat
  BY HostAssumption DEF Host
<1> QED
  BY <1>1, MinOf DEF freeAddress

\* What a step that begins an addPeer does.
LEMMA StartAddFacts ==
  ASSUME TypeOK, NEW a \in Proc, NEW n \in Name, NEW i \in Iface, NEW p \in Pub, StartAdd(a, n, i, p)
  PROVE  /\ pc' = [pc EXCEPT ![a] = "append"] /\ pc'[a] = "append"
         /\ \A v \in Proc : v # a => pc'[v] = pc[v] /\ job'[v] = job[v]
         /\ job'[a] \in Job /\ job' \in [Proc -> Job]
         /\ job'[a].iface = i /\ job'[a].name = n /\ job'[a].pub = p /\ job'[a].addr \in Host
         /\ lock' = [lock EXCEPT ![i] = a] /\ faults' \subseteq Fault
         /\ \/ Fine /\ blind' = blind /\ job'[a].addr \notin Taken(i)
            \/ Breaks("read") /\ blind' = blind \cup {a}
<1>1. /\ pc \in [Proc -> PCs] /\ job \in [Proc -> Job]
      /\ pc' = [pc EXCEPT ![a] = "append"] /\ lock' = [lock EXCEPT ![i] = a]
  BY DEF TypeOK, StartAdd
<1>2. PICK taken \in {Taken(i), {}} :
        /\ Host \ taken # {}
        /\ IF taken = Taken(i) THEN Fine /\ UNCHANGED blind
           ELSE Breaks("read") /\ blind' = blind \cup {a}
        /\ job' = [job EXCEPT ![a] = [ iface |-> i, name |-> n,
                                       pub |-> p, addr |-> freeAddress(taken) ]]
  BY DEF StartAdd
<1>3. PICK x : x = freeAddress(taken)
  OBVIOUS
<1>4. x \in Host \ taken
  BY <1>2, <1>3, FreeFacts
<1>5. job' = [job EXCEPT ![a] = [iface |-> i, name |-> n, pub |-> p, addr |-> x]]
  BY <1>2, <1>3
<1>6. [iface |-> i, name |-> n, pub |-> p, addr |-> x] \in Job
  BY <1>4 DEF Job
<1>7. "read" \in Fault
  BY DEF Fault
<1>8. faults' \subseteq Fault
  BY <1>2, <1>7, FaultsListed
<1>9. \/ Fine /\ blind' = blind /\ x \notin Taken(i)
      \/ Breaks("read") /\ blind' = blind \cup {a}
  BY <1>2, <1>4
<1>10. job'[a] = [iface |-> i, name |-> n, pub |-> p, addr |-> x] /\ pc'[a] = "append"
  BY <1>1, <1>5
<1>11. job' \in [Proc -> Job] /\ \A v \in Proc : v # a => pc'[v] = pc[v] /\ job'[v] = job[v]
  BY <1>1, <1>5, <1>6
<1>12. /\ job'[a] \in Job /\ job'[a].iface = i /\ job'[a].name = n
       /\ job'[a].pub = p /\ job'[a].addr = x
  BY <1>6, <1>10
<1> QED
  BY <1>1, <1>4, <1>8, <1>9, <1>10, <1>11, <1>12

\* A call that takes the free lock of a config.
LEMMA TakesLock ==
  ASSUME TypeOK, LockInv, NEW a \in Proc, NEW i \in Iface, lock[i] = None,
         pc[a] \notin Inside, pc'[a] \in Inside, job'[a].iface = i,
         \A v \in Proc : v # a => pc'[v] = pc[v] /\ job'[v] = job[v],
         lock' = [lock EXCEPT ![i] = a]
  PROVE  LockInv'
<1>1. \A v \in Proc : v # a => ~(pc[v] \in Inside /\ job[v].iface = i)
  BY NoneAssumption DEF LockInv
<1>2. lock'[i] = a /\ \A j \in Iface : j # i => lock'[j] = lock[j]
  BY DEF TypeOK
<1>3. \A j \in Iface : j # i => lock[j] # a
  BY DEF LockInv
<1>4. \A j \in Iface, v \in Proc : lock'[j] = v <=> pc'[v] \in Inside /\ job'[v].iface = j
  <2> TAKE j \in Iface, v \in Proc
  <2>1. CASE v = a
    BY <1>2, <1>3, <2>1
  <2>2. CASE v # a
    BY <1>1, <1>2, <2>2 DEF LockInv
  <2> QED
    BY <2>1, <2>2
<1> QED
  BY <1>4 DEF LockInv

\* A new key under a new name.
LEMMA StartAddStep ==
  ASSUME IInv, NEW a \in Proc, NEW n \in Name, NEW i \in Iface, NEW p \in Pub, StartAdd(a, n, i, p)
  PROVE  IInv'
<1>1. TypeOK /\ LockInv /\ OneHome /\ ConfInv
  BY DEF IInv
<1>2. /\ pc[a] = "idle" /\ lock[i] = None /\ p \notin used /\ ~NameTaken(n, i)
      /\ UNCHANGED <<conf, live, client, ledger, made, gone, revived>> /\ used' = used \cup {p}
  BY DEF StartAdd, LockFree, files
<1>3. /\ pc' = [pc EXCEPT ![a] = "append"] /\ pc'[a] = "append"
      /\ \A v \in Proc : v # a => pc'[v] = pc[v] /\ job'[v] = job[v]
      /\ job'[a] \in Job /\ job' \in [Proc -> Job]
      /\ job'[a].iface = i /\ job'[a].name = n /\ job'[a].pub = p /\ job'[a].addr \in Host
      /\ lock' = [lock EXCEPT ![i] = a] /\ faults' \subseteq Fault
      /\ blind' \subseteq blind \cup {a}
  BY <1>1, StartAddFacts
<1>4. TypeOK'
  BY <1>1, <1>2, <1>3 DEF TypeOK, PCs
<1>5. \A j \in Iface, q \in Pub : At(j, q)' => At(j, q) \/ (j = i /\ q = p)
  BY <1>2, <1>3 DEF At, Running
<1>6. \A j \in Iface : ~At(j, p)
  BY <1>1, <1>2 DEF At, OneHome, IInv, JobOK
<1>7. OneHome'
  <2>1. \A j, k \in Iface, q \in Pub : At(j, q)' /\ At(k, q)' => j = k
    BY <1>1, <1>5, <1>6 DEF OneHome
  <2>2. \A j \in Iface : Running(j)' \cup PubsIn(conf'[j]) \subseteq used'
    BY <1>1, <1>2 DEF OneHome, Running
  <2>3. ledger' \cup gone' \subseteq used'
    BY <1>1, <1>2 DEF OneHome
  <2> QED
    BY <2>1, <2>2, <2>3 DEF OneHome
<1>8. LockInv'
  <2>1. pc[a] \notin Inside /\ pc'[a] \in Inside
    BY <1>2, <1>3 DEF Inside, Adding, Removing
  <2> QED
    BY <1>1, <1>2, <1>3, <2>1, TakesLock
<1>9. ConfInv' /\ (OwnDirectories => ConfigOnFile')
  BY <1>1, <1>2 DEF IInv, ConfInv, ConfigOnFile, Blocks
<1>10. JobOK(a)'
  BY <1>2, <1>3 DEF JobOK
<1>11. WorksOn(a)'
  <2>1. p \notin made' \cup gone' /\ p \notin PubsIn(conf[i])
    BY <1>1, <1>2 DEF TypeOK, OneHome
  <2>2. n \notin NamesIn(conf[i])
    BY <1>2 DEF NameTaken
  <2>3. \A b \in Blocks(i) : b.name # n /\ b.pub # p
    BY <2>1, <2>2 DEF Blocks, NamesIn, PubsIn
  <2> QED
    BY <1>2, <1>3, <2>1, <2>3 DEF WorksOn, Blocks
<1>12. ASSUME NEW v \in Proc, v # a
       PROVE  JobOK(v)' /\ WorksOn(v)'
  <2>1. pc'[v] = pc[v] /\ job'[v] = job[v] /\ JobOK(v) /\ WorksOn(v)
    BY <1>3, <1>12 DEF IInv
  <2> QED
    BY <1>2, <2>1 DEF JobOK, WorksOn, Blocks
<1> QED
  BY <1>4, <1>7, <1>8, <1>9, <1>10, <1>11, <1>12 DEF IInv

\* A step that changes no config, no file and no lock, sets no peer, and changes one call
\* at most, outside its lock, whose key is at home where it goes.
LEMMA OutsideStep ==
  ASSUME IInv, NEW a \in Proc, pc[a] \in {"idle", "remove"}, pc'[a] \in {"idle", "remove"},
         pc' \in [Proc -> PCs], job' \in [Proc -> Job], faults' \subseteq Fault,
         \A v \in Proc : v # a => pc'[v] = pc[v] /\ job'[v] = job[v],
         live' \in [Iface -> Peers], \A j \in Iface : Running(j)' \subseteq Running(j),
         UNCHANGED <<conf, client, ledger, lock, used, made, gone, revived>>, blind' \subseteq blind,
         pc'[a] # "idle" => /\ job'[a].iface \in Iface /\ job'[a].pub \in used
                            /\ At(job'[a].iface, job'[a].pub)
  PROVE  IInv'
<1>1. TypeOK /\ LockInv /\ OneHome
  BY DEF IInv
<1>2. TypeOK'
  BY <1>1 DEF TypeOK, Peers
<1>3. \A j \in Iface, q \in Pub : At(j, q)' => At(j, q)
  BY DEF At
<1>4. OneHome'
  BY <1>1, <1>3 DEF OneHome
<1>5. LockInv'
  <2>1. pc[a] \notin Inside /\ pc'[a] \notin Inside
    BY DEF Inside, Adding, Removing
  <2> QED
    BY <1>1, <2>1 DEF LockInv
<1>6. ConfInv' /\ (OwnDirectories => ConfigOnFile')
  BY DEF IInv, ConfInv, ConfigOnFile, Blocks
<1>7. \A v \in Proc : JobOK(v)' /\ WorksOn(v)'
  <2> TAKE v \in Proc
  <2>1. CASE v = a
    BY <2>1 DEF JobOK, WorksOn, Adding, Removing, Inside
  <2>2. CASE v # a
    <3>1. pc'[v] = pc[v] /\ job'[v] = job[v] /\ JobOK(v) /\ WorksOn(v)
      BY <2>2 DEF IInv
    <3> QED
      BY <3>1 DEF JobOK, WorksOn, Blocks
  <2> QED
    BY <2>1, <2>2
<1> QED
  BY <1>2, <1>4, <1>5, <1>6, <1>7 DEF IInv

\* A removal looks its peer up where it is at home.
LEMMA StartRemoveStep ==
  ASSUME IInv, NEW a \in Proc, NEW p \in Pub, StartRemove(a, p)
  PROVE  IInv'
<1>1. TypeOK /\ OneHome /\ pc[a] = "idle" /\ UNCHANGED <<files, lock, blind, ghosts>>
      /\ pc' = [pc EXCEPT ![a] = "remove"] /\ RunsOn(p) \cup FiledIn(p) # {}
  BY DEF IInv, StartRemove
<1>2. PICK i : /\ i = IF RunsOn(p) # {} THEN Min(RunsOn(p)) ELSE Min(FiledIn(p))
               /\ job' = [job EXCEPT ![a] = [NoJob EXCEPT !.pub = p, !.iface = i]]
  BY DEF StartRemove
<1>3. RunsOn(p) \in SUBSET Nat /\ FiledIn(p) \in SUBSET Nat
  BY IfaceAssumption DEF RunsOn, FiledIn
<1>4. i \in RunsOn(p) \cup FiledIn(p)
  BY <1>1, <1>2, <1>3, MinOf
<1>5. i \in Iface /\ At(i, p) /\ p \in used
  BY <1>1, <1>4 DEF RunsOn, FiledIn, At, OneHome
<1>6. [NoJob EXCEPT !.pub = p, !.iface = i] \in Job
  BY <1>5 DEF NoJob, Job
<1>7. pc \in [Proc -> PCs] /\ job \in [Proc -> Job]
  BY <1>1 DEF TypeOK
<1>8. /\ pc'[a] = "remove" /\ pc' \in [Proc -> PCs] /\ job' \in [Proc -> Job]
      /\ job'[a].iface = i /\ job'[a].pub = p
      /\ \A v \in Proc : v # a => pc'[v] = pc[v] /\ job'[v] = job[v]
  BY <1>1, <1>2, <1>6, <1>7 DEF PCs, NoJob
<1>9. faults' \subseteq Fault /\ UNCHANGED <<conf, client, ledger, used, made, gone, revived>>
  BY <1>1 DEF TypeOK, ghosts, files
<1>10. live' \in [Iface -> Peers] /\ \A j \in Iface : Running(j)' \subseteq Running(j)
  BY <1>1 DEF TypeOK, Peers, Running, files
<1> QED
  BY <1>1, <1>5, <1>8, <1>9, <1>10, OutsideStep

\* A removal that returns with the first of its steps, which may have taken its peer off.
LEMMA TurnBackStep ==
  ASSUME IInv, NEW a \in Proc, pc[a] = "remove", Return(a),
         \/ live' = live
         \/ live' = [live EXCEPT ![job[a].iface] = WithoutPeer(@, job[a].pub)],
         UNCHANGED <<conf, client, ledger, used, made, gone, revived>>, faults' \subseteq Fault
  PROVE  IInv'
<1>1. TypeOK /\ LockInv /\ pc[a] \notin Inside
  BY DEF IInv, Inside, Adding, Removing
<1>2. /\ pc' = [pc EXCEPT ![a] = "idle"] /\ job' = [job EXCEPT ![a] = NoJob]
      /\ lock' = [i \in Iface |-> IF lock[i] = a THEN None ELSE lock[i]] /\ blind' \subseteq blind
  BY DEF Return
<1>3. NoJob \in Job /\ "idle" \in PCs /\ pc \in [Proc -> PCs] /\ job \in [Proc -> Job]
      /\ lock \in [Iface -> Proc \cup {None}]
  BY <1>1 DEF NoJob, Job, PCs, TypeOK
<1>4. lock' = lock
  <2>1. \A i \in Iface : lock[i] # a
    BY <1>1 DEF LockInv
  <2> QED
    BY <1>2, <1>3, <2>1
<1>5. /\ pc'[a] = "idle" /\ pc' \in [Proc -> PCs] /\ job' \in [Proc -> Job]
      /\ \A v \in Proc : v # a => pc'[v] = pc[v] /\ job'[v] = job[v]
  BY <1>2, <1>3
<1>6. live' \in [Iface -> Peers] /\ \A j \in Iface : Running(j)' \subseteq Running(j)
  <2>1. live \in [Iface -> Peers] /\ None \in Host \cup {None}
    BY <1>1 DEF TypeOK, Peers
  <2>2. PICK i \in Iface, p \in Pub : i = job[a].iface /\ p = job[a].pub
    BY JobTypes
  <2>3. live[i] \in Peers
    BY <2>1
  <2>4. WithoutPeer(live[i], p) \in Peers /\ DOMAIN WithoutPeer(live[i], p) = DOMAIN live[i] \ {p}
    BY <2>1, <2>3, PeersFacts
  <2>5. live' = live \/ live' = [live EXCEPT ![i] = WithoutPeer(live[i], p)]
    BY <2>2
  <2> QED
    BY <2>1, <2>4, <2>5 DEF Running
<1> QED
  BY <1>2, <1>4, <1>5, <1>6, OutsideStep

\* What a removal that has taken its lock has done.
LEMMA RemoveLiveFacts ==
  ASSUME IInv, NEW a \in Proc, pc[a] = "remove",
         job' = [job EXCEPT ![a].name = nameOfPeer(job[a].pub)],
         pc' = [pc EXCEPT ![a] = "rewrite"]
  PROVE  /\ pc'[a] = "rewrite" /\ pc' \in [Proc -> PCs] /\ job' \in [Proc -> Job]
         /\ \A v \in Proc : v # a => pc'[v] = pc[v] /\ job'[v] = job[v]
         /\ job'[a].iface = job[a].iface /\ job'[a].pub = job[a].pub
         /\ \A b \in Blocks(job[a].iface) : b.name = job'[a].name <=> b.pub = job[a].pub
<1>1. TypeOK /\ OneHome /\ ConfInv /\ pc[a] # "idle"
  BY DEF IInv
<1>2. PICK i \in Iface, p \in Pub : i = job[a].iface /\ p = job[a].pub
  BY <1>1, JobTypes
<1>3. PICK n : n = nameOfPeer(p)
  OBVIOUS
<1>4. (n = None /\ NamesOf(p) = {}) \/ n \in NamesOf(p)
  BY <1>3 DEF nameOfPeer
<1>5. n \in Name \cup {None}
  BY <1>4 DEF NamesOf
<1>6. pc \in [Proc -> PCs] /\ job \in [Proc -> Job] /\ job[a] \in Job
  BY <1>1 DEF TypeOK
<1>7. job' = [job EXCEPT ![a] = [job[a] EXCEPT !.name = n]] /\ [job[a] EXCEPT !.name = n] \in Job
  BY <1>2, <1>3, <1>5, <1>6 DEF Job
<1>8. /\ pc'[a] = "rewrite" /\ pc' \in [Proc -> PCs] /\ job' \in [Proc -> Job]
      /\ \A v \in Proc : v # a => pc'[v] = pc[v] /\ job'[v] = job[v]
  BY <1>6, <1>7 DEF PCs
<1>9. job'[a].iface = i /\ job'[a].pub = p /\ job'[a].name = n
  BY <1>2, <1>6, <1>7 DEF Job
<1>10. ASSUME NEW k \in DOMAIN conf[i]
       PROVE  conf[i][k].name = n <=> conf[i][k].pub = p
  <2>1. conf[i][k] \in Block
    BY <1>1 DEF TypeOK
  <2>2. CASE n = None /\ NamesOf(p) = {}
    BY <2>1, <2>2, NoneAssumption DEF NamesOf, Block
  <2>3. CASE n \in NamesOf(p)
    <3>1. PICK j \in Iface : \E l \in DOMAIN conf[j] : conf[j][l].pub = p /\ conf[j][l].name = n
      BY <2>3 DEF NamesOf
    <3>2. PICK l \in DOMAIN conf[j] : conf[j][l].pub = p /\ conf[j][l].name = n
      BY <3>1
    <3>3. At(j, p) /\ At(i, p)
      BY <1>1, <1>2, <3>2 DEF At, PubsIn
    <3>4. j = i
      BY <1>1, <3>3 DEF OneHome
    <3> QED
      BY <1>1, <3>2, <3>4 DEF ConfInv, KeysOnce, NamesOnce
  <2> QED
    BY <1>4, <2>2, <2>3
<1>11. \A b \in Blocks(i) : b.name = n <=> b.pub = p
  BY <1>10 DEF Blocks
<1> QED
  BY <1>2, <1>8, <1>9, <1>11

\* Taking the peer off the running interface, under the lock.
LEMMA RemoveLiveStep ==
  ASSUME IInv, NEW a \in Proc, RemoveLive(a)
  PROVE  IInv'
<1>1. /\ TypeOK /\ OneHome /\ LockInv /\ pc[a] = "remove" /\ {"remove", "removeLate"} \subseteq Fault
      /\ pc[a] # "idle" /\ pc[a] \notin Inside
      /\ UNCHANGED <<conf, client, ledger, used, made, gone, revived>>
  BY DEF IInv, RemoveLive, Fault, Inside, Adding, Removing
<1>2. PICK i \in Iface, p \in Pub : i = job[a].iface /\ p = job[a].pub
  BY <1>1, JobTypes
<1>3. CASE /\ live' \in {live, [live EXCEPT ![i] = WithoutPeer(@, p)]}
           /\ Return(a) /\ (Breaks("remove") \/ Breaks("removeLate"))
  <2>1. faults' \subseteq Fault
    BY <1>1, <1>3, FaultsListed
  <2> QED
    BY <1>1, <1>2, <1>3, <2>1, TurnBackStep
<1>4. CASE /\ live' = [live EXCEPT ![i] = WithoutPeer(@, p)]
           /\ job' = [job EXCEPT ![a].name = nameOfPeer(p)]
           /\ lock' = [lock EXCEPT ![i] = a]
           /\ pc' = [pc EXCEPT ![a] = "rewrite"]
           /\ Fine /\ UNCHANGED blind
  <2>1. /\ pc'[a] = "rewrite" /\ pc' \in [Proc -> PCs] /\ job' \in [Proc -> Job]
        /\ \A v \in Proc : v # a => pc'[v] = pc[v] /\ job'[v] = job[v]
        /\ job'[a].iface = i /\ job'[a].pub = p
        /\ \A b \in Blocks(i) : b.name = job'[a].name <=> b.pub = p
    BY <1>1, <1>2, <1>4, RemoveLiveFacts
  <2>2. live \in [Iface -> Peers] /\ None \in Host \cup {None}
    BY <1>1 DEF TypeOK, Peers
  <2>3. live[i] \in Peers
    BY <2>2
  <2>4. /\ WithoutPeer(live[i], p) \in Peers
        /\ DOMAIN WithoutPeer(live[i], p) = DOMAIN live[i] \ {p}
    BY <2>3, <2>2, PeersFacts
  <2>5. live' = [live EXCEPT ![i] = WithoutPeer(live[i], p)]
    BY <1>4
  <2>6. live' \in [Iface -> Peers] /\ \A j \in Iface : DOMAIN live'[j] \subseteq Running(j)
    BY <2>2, <2>4, <2>5 DEF Running
  <2>7. lock' \in [Iface -> Proc \cup {None}]
    BY <1>1, <1>4 DEF TypeOK
  <2>8. TypeOK'
    BY <1>1, <1>4, <2>1, <2>6, <2>7 DEF TypeOK, Peers, Fine
  <2>9. \A j \in Iface, q \in Pub : At(j, q)' => At(j, q)
    BY <1>1, <1>2, <2>1, <2>6 DEF At, Running
  <2>10. OneHome'
    BY <1>1, <2>6, <2>9 DEF OneHome, Running
  <2>11. LockInv'
    <3>1. pc'[a] \in Inside /\ lock[i] = None
      BY <1>2, <2>1 DEF Inside, Removing, RemoveLive, LockFree
    <3> QED
      BY <1>1, <1>4, <2>1, <3>1, TakesLock
  <2>12. ConfInv' /\ (OwnDirectories => ConfigOnFile')
    BY <1>1 DEF IInv, ConfInv, ConfigOnFile, Blocks
  <2>13. JobOK(a)' /\ WorksOn(a)'
    <3>1. p \in used
      BY <1>1, <1>2 DEF IInv, JobOK
    <3> QED
      BY <1>1, <2>1, <3>1 DEF JobOK, WorksOn, Blocks, Adding
  <2>14. ASSUME NEW v \in Proc, v # a
         PROVE  JobOK(v)' /\ WorksOn(v)'
    <3>1. pc'[v] = pc[v] /\ job'[v] = job[v] /\ JobOK(v) /\ WorksOn(v)
      BY <2>1, <2>14 DEF IInv
    <3> QED
      BY <1>1, <3>1 DEF JobOK, WorksOn, Blocks
  <2> QED
    BY <2>8, <2>10, <2>11, <2>12, <2>13, <2>14 DEF IInv
<1> QED
  BY <1>2, <1>3, <1>4 DEF RemoveLive

\* The process of a call is killed.
LEMMA CrashStep ==
  ASSUME IInv, NEW a \in Proc, Crash(a)
  PROVE  IInv'
<1>1. /\ TypeOK /\ "crash" \in Fault /\ Return(a) /\ Breaks("crash")
      /\ UNCHANGED <<files, used, made, gone, revived>> /\ pc[a] # "idle" /\ pc[a] \in PCs
  BY DEF IInv, Crash, Fault, TypeOK
<1>2. faults' \subseteq Fault
  BY <1>1, FaultsListed
<1>3. CASE pc[a] \in Inside
  BY <1>1, <1>2, <1>3, GiveUpStep
<1>4. CASE pc[a] = "remove"
  BY <1>1, <1>2, <1>4, TurnBackStep DEF files
<1> QED
  BY <1>1, <1>3, <1>4 DEF PCs, Inside, Adding, Removing

\* Steps that leave the configs, their files and the calls alone.
LEMMA AroundStep ==
  ASSUME IInv, UNCHANGED <<conf, client, lock, pc, job, used, made, gone>>,
         blind' \subseteq Proc, revived' \subseteq Pub,
         live' \in [Iface -> Peers], \A i \in Iface : Running(i)' \subseteq Running(i) \cup PubsIn(conf[i]),
         ledger' \subseteq used, faults' \subseteq Fault
  PROVE  IInv'
<1>1. TypeOK /\ OneHome
  BY DEF IInv
<1>2. TypeOK'
  BY <1>1 DEF TypeOK, Peers
<1>3. \A j \in Iface, q \in Pub : At(j, q)' => At(j, q)
  BY DEF At
<1>4. OneHome'
  BY <1>1, <1>3 DEF OneHome
<1>5. LockInv' /\ ConfInv' /\ (OwnDirectories => ConfigOnFile')
  BY DEF IInv, LockInv, ConfInv, ConfigOnFile, Blocks
<1>6. \A v \in Proc : JobOK(v)' /\ WorksOn(v)'
  BY DEF IInv, JobOK, WorksOn, Blocks
<1> QED
  BY <1>2, <1>4, <1>5, <1>6 DEF IInv

\* An interface comes up again with its config.
LEMMA RestartStep ==
  ASSUME IInv, NEW i \in Iface, RestartIface(i)
  PROVE  IInv'
<1>1. /\ TypeOK /\ OneHome /\ "restart" \in Fault /\ Breaks("restart")
      /\ UNCHANGED <<conf, client, ledger, lock, pc, job, used, made, gone>>
      /\ live' = [live EXCEPT ![i] = FromConf(conf[i])] /\ conf[i] \in Seq(Block)
  BY DEF IInv, RestartIface, Fault, TypeOK
<1>2. FromConf(conf[i]) \in [PubsIn(conf[i]) -> Host \cup {None}] /\ PubsIn(conf[i]) \in SUBSET Pub
  BY <1>1, FromConfFacts
<1>3. FromConf(conf[i]) \in Peers /\ DOMAIN FromConf(conf[i]) = PubsIn(conf[i])
  BY <1>2 DEF Peers
<1>4. live \in [Iface -> Peers]
  BY <1>1 DEF TypeOK, Peers
<1>5. live' \in [Iface -> Peers] /\ \A j \in Iface : Running(j)' \subseteq Running(j) \cup PubsIn(conf[j])
  BY <1>1, <1>3, <1>4 DEF Running
<1>6. faults' \subseteq Fault /\ ledger' \subseteq used
  BY <1>1, FaultsListed DEF OneHome
<1>7. blind' \subseteq Proc /\ revived' \subseteq Pub
  BY <1>1, <1>2 DEF TypeOK, RestartIface
<1> QED
  BY <1>1, <1>5, <1>6, <1>7, AroundStep

\* A snapshot takes every running peer into the ledger.
LEMMA CollectStep ==
  ASSUME IInv, Collect
  PROVE  IInv'
<1>1. TypeOK /\ OneHome /\ UNCHANGED <<conf, live, client, calls, ghosts>>
  BY DEF IInv, Collect
<1>2. ledger' \subseteq used
  BY <1>1 DEF Collect, OneHome
<1>3. /\ live' \in [Iface -> Peers] /\ faults' \subseteq Fault
      /\ blind' \subseteq Proc /\ revived' \subseteq Pub
      /\ \A j \in Iface : Running(j)' = Running(j)
      /\ UNCHANGED <<conf, client, lock, pc, job, used, made, gone>>
  BY <1>1 DEF TypeOK, Peers, Running, ghosts, calls
<1> QED
  BY <1>1, <1>2, <1>3, AroundStep

(***************************************************************************)
(* The invariant holds, and what follows.                                  *)
(***************************************************************************)
\* In the beginning there are no peers and no calls.
LEMMA InitOK == Init => IInv
<1> SUFFICES ASSUME Init PROVE IInv
  OBVIOUS
<1>1. TypeOK
  <2>1. <<>> \in Seq(Block) /\ NoJob \in Job /\ "idle" \in PCs
    BY DEF NoJob, Job, PCs
  <2>2. <<>> \in [{} -> Host \cup {None}] /\ {} \in SUBSET Pub
    OBVIOUS
  <2>3. live \in [Iface -> UNION {[S -> Host \cup {None}] : S \in SUBSET Pub}]
    BY <2>2 DEF Init
  <2>4. conf \in [Iface -> Seq(Block)]
    BY <2>1 DEF Init
  <2> QED
    BY <2>1, <2>3, <2>4 DEF Init, TypeOK
<1>2. \A i \in Iface : Running(i) = {} /\ PubsIn(conf[i]) = {} /\ Blocks(i) = {} /\ DOMAIN conf[i] = {}
  BY DEF Init, Running, PubsIn, Blocks
<1>3. \A a \in Proc : pc[a] = "idle" /\ JobOK(a) /\ WorksOn(a)
  BY DEF Init, JobOK, WorksOn, Adding, Removing, Inside
<1>4. LockInv
  BY NoneAssumption DEF Init, LockInv, Adding, Removing, Inside
<1>5. OneHome
  BY <1>2, <1>3 DEF OneHome, At, Init
<1>6. ConfInv /\ ConfigOnFile
  BY <1>2 DEF ConfInv, KeysOnce, NamesOnce, ConfigOnFile
<1> QED
  BY <1>1, <1>3, <1>4, <1>5, <1>6 DEF IInv

\* Every step of the specification keeps the invariant.
LEMMA NextOK == IInv /\ [Next]_vars => IInv'
<1> SUFFICES ASSUME IInv, [Next]_vars PROVE IInv'
  OBVIOUS
<1>1. ASSUME NEW a \in Proc, Step(a) PROVE IInv'
  <2>1. CASE \E n \in Name, i \in Iface, p \in Pub : StartAdd(a, n, i, p)
    BY <2>1, StartAddStep
  <2>2. CASE \E p \in Pub : StartRemove(a, p)
    BY <2>2, StartRemoveStep
  <2> QED
    BY <1>1, <2>1, <2>2, AppendStep, ApplyStep, WriteClientStep, UndoLiveStep, UndoConfStep,
       RemoveLiveStep, RemoveBlockStep, RemoveFilesStep, ForgetStep, CrashStep DEF Step
<1>2. CASE UNCHANGED vars
  <2>1. /\ UNCHANGED <<conf, client, lock, pc, job, used, made, gone>> /\ live' = live /\ ledger' = ledger
        /\ faults' = faults /\ blind' = blind /\ revived' = revived
    BY <1>2 DEF vars, files, calls, ghosts
  <2>2. /\ live \in [Iface -> Peers] /\ ledger \subseteq used /\ faults \subseteq Fault
        /\ blind \subseteq Proc /\ revived \subseteq Pub
    BY DEF IInv, TypeOK, OneHome, Peers
  <2> QED
    BY <2>1, <2>2, AroundStep DEF Running
<1> QED
  BY <1>1, <1>2, RestartStep, CollectStep DEF Next

\* The invariant of addPeer and removePeer holds in every reachable state.
THEOREM InvariantHolds == Spec => []IInv
BY InitOK, NextOK, PTL DEF Spec

\* Every variable keeps its type.
THEOREM TypeCorrect == Spec => []TypeOK
<1>1. IInv => TypeOK
  BY DEF IInv
<1> QED
  BY <1>1, InvariantHolds, PTL

\* No interface ever has two peers of one name: the names are read and the block is
\* appended under one lock, and a block goes by its key (peer_ops.go:20-40).
THEOREM NamesStayDistinct == Spec => []NamesDistinct
<1>1. IInv => NamesDistinct
  BY DEF IInv, ConfInv, NamesOnce, NamesDistinct
<1> QED
  BY <1>1, InvariantHolds, PTL

\* Where every config has a directory of its own, a peer whose config was handed out has
\* it on file for as long as the server config lists it, whatever calls, failures, crashes
\* and restarts come in between (peer_ops.go:39, 86, 254-260).
THEOREM ConfigsKept ==
  ASSUME OwnDirectories
  PROVE  Spec => []ConfigOnFile
<1>1. IInv => ConfigOnFile
  BY DEF IInv
<1> QED
  BY <1>1, InvariantHolds, PTL
=============================================================================
