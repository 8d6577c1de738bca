------------------------------ MODULE PeerOps ------------------------------
(***************************************************************************)
(* Adding and removing peers (peer_ops.go): addPeer and removePeer, called *)
(* from the page and from the command line, by several processes at once.  *)
(*                                                                         *)
(* A peer lives in four places that no transaction spans: a block of the   *)
(* interface's server config, the running interface, a client config with  *)
(* the only copy of its private key, and the usage ledger.  Every step     *)
(* between two of them can fail, and the process can die there.            *)
(***************************************************************************)
EXTENDS Integers, FiniteSets, FiniteSetsExt, Sequences, SequencesExt

CONSTANTS
  Pub,        \* keys that genkey may return
  Name,       \* names a peer may be given
  Iface,      \* interfaces, numbered in the order wgInterfaces lists them
  DirOf,      \* the directory of an interface's config and of its clients' configs
  LastHost,   \* bound: the last host of a subnet (254 in the code)
  Proc,       \* concurrent calls of addPeer and removePeer
  MaxFaults,  \* bound: kinds of failure in one behaviour
  None        \* no such thing

\* .1 is the server.
Host == 2 .. LastHost

\* What can go wrong, each at the call it is named for.
Fault == { "crash",     \* the process is killed
           "restart",   \* an interface goes down and up again
           "read",      \* freeAddress cannot list the addresses in use
           "append",    \* the block reaches the server config only in part
           "apply",     \* wg set fails for a new peer
           "setLate",   \* it is killed by its time limit when the peer was set already
           "file",      \* its client config cannot be written
           "undo",      \* a step of undo fails, which undo ignores
           "remove",    \* wg set ... remove fails
           "removeLate",\* it is killed by its time limit when the peer was off already
           "rewrite",   \* the server config cannot be rewritten
           "unlink",    \* a client config cannot be unlinked, which removePeer ignores
           "forget" }   \* the ledger cannot be written

ASSUME HostAssumption == LastHost \in Nat
ASSUME IfaceAssumption == Iface \subseteq Nat /\ DirOf \in [Iface -> Range(DirOf)]
ASSUME NoneAssumption == None \notin Pub \cup Name \cup Iface \cup Host \cup Proc
ASSUME FaultBound == MaxFaults \in Nat

VARIABLES
  conf,    \* conf[i]: the [Peer] blocks of interface i's server config, in order
  live,    \* live[i]: the running peers of i and the address of each
  client,  \* client[d]: the client configs in directory d: name -> key it is for
  ledger,  \* keys the usage ledger knows
  lock,    \* lock[i]: who holds the flock of i's server config
  pc,      \* how far a call has come
  job,     \* what it works on
  \* what no program sees
  used,    \* keys genkey has returned
  made,    \* keys whose addPeer returned the client config
  gone,    \* keys whose removePeer returned no error
  revived, \* keys a restart has set again between their wg set ... remove and the rewrite
  blind,   \* calls that chose their address without seeing every one now in use
  faults   \* the kinds of failure there have been

files == <<conf, live, client, ledger>>
calls == <<lock, pc, job, blind>>
ghosts == <<used, made, gone, revived, faults>>
vars  == <<files, calls, ghosts>>

\* A block that was cut short has lost its AllowedIPs line.
Block == [pub : Pub, name : Name, addr : Host \cup {None}]

Job == [ iface : Iface \cup {None}, name : Name \cup {None},
         pub : Pub \cup {None}, addr : Host \cup {None} ]
NoJob == [iface |-> None, name |-> None, pub |-> None, addr |-> None]

PCs == { "idle", "append", "apply", "file", "undoLive", "undoConf",
         "remove", "rewrite", "unlink", "forget" }

PubsIn(blocks)  == {blocks[k].pub : k \in DOMAIN blocks}
NamesIn(blocks) == {blocks[k].name : k \in DOMAIN blocks}

\* live[i] is a function on the running peers; None is a peer without address.
Running(i) == DOMAIN live[i]

TypeOK ==
  /\ conf \in [Iface -> Seq(Block)]
  /\ live \in [Iface -> UNION {[S -> Host \cup {None}] : S \in SUBSET Pub}]
  /\ client \in [Range(DirOf) -> [Name -> Pub \cup {None}]]
  /\ ledger \subseteq Pub
  /\ lock \in [Iface -> Proc \cup {None}]
  /\ pc \in [Proc -> PCs]
  /\ job \in [Proc -> Job]
  /\ used \subseteq Pub /\ made \subseteq used /\ gone \subseteq Pub /\ revived \subseteq Pub
  /\ blind \subseteq Proc
  /\ faults \subseteq Fault

Init ==
  /\ conf = [i \in Iface |-> <<>>]
  /\ live = [i \in Iface |-> <<>>]
  /\ client = [d \in Range(DirOf) |-> [n \in Name |-> None]]
  /\ ledger = {}
  /\ lock = [i \in Iface |-> None]
  /\ pc = [a \in Proc |-> "idle"]
  /\ job = [a \in Proc |-> NoJob]
  /\ used = {} /\ made = {} /\ gone = {} /\ revived = {} /\ blind = {} /\ faults = {}

(***************************************************************************)
(* What the tools and the kernel do.                                       *)
(***************************************************************************)
\* `wg set peer p allowed-ips a`: an address belongs to one peer of an
\* interface, so whoever had it loses it.
WithPeer(peers, p, a) ==
  [q \in DOMAIN peers \cup {p} |-> IF q = p THEN a
                                   ELSE IF peers[q] = a THEN None
                                   ELSE peers[q]]

WithoutPeer(peers, p) == [q \in DOMAIN peers \ {p} |-> peers[q]]

\* An interface that comes up applies its config from top to bottom, as a series of
\* WithPeer: a key gets the address of its last block, unless a later block claims it.
FromConf(blocks) ==
  LET last(p)    == Max({k \in DOMAIN blocks : blocks[k].pub = p})
      claimed(k) == \E l \in k + 1 .. Len(blocks) : blocks[l].addr = blocks[k].addr
  IN  [p \in PubsIn(blocks) |-> IF claimed(last(p)) THEN None ELSE blocks[last(p)].addr]

\* Bugs: the end of the block is missed; the block after it goes.
RestDropped(blocks, p) ==
  IF p \notin PubsIn(blocks) THEN blocks
  ELSE SubSeq(blocks, 1, SelectInSeq(blocks, LAMBDA b : b.pub = p) - 1)
NextDropped(blocks, p) ==
  LET k == SelectInSeq(blocks, LAMBDA b : b.pub = p) IN
  IF k + 1 \in DOMAIN blocks THEN RemoveAt(blocks, k + 1) ELSE blocks

\* removePeerFromConf drops the first block that mentions the key.
removePeerFromConf(blocks, p) ==
  IF p \notin PubsIn(blocks) THEN blocks
  ELSE RemoveAt(blocks, SelectInSeq(blocks, LAMBDA b : b.pub = p))

\* The lowest host no running peer of i has; freeAddress does not look at the
\* config, and when the tool fails it takes every host for free.
Taken(i) == {live[i][p] : p \in Running(i)}
\* Bugs: the next address by count; the server's address counts as free.
NextByCount(taken) == Cardinality(taken) + 2
FromOne(taken) == Min((1 .. LastHost) \ taken)
freeAddress(taken) == Min(Host \ taken)

\* Some kind of failure f happens, within the bound.
Breaks(f) == /\ Cardinality(faults \cup {f}) <= MaxFaults
             /\ faults' = faults \cup {f}

Fine == UNCHANGED faults

Goto(a, l) == pc' = [pc EXCEPT ![a] = l] /\ UNCHANGED <<lock, job, blind>>

\* The call returns: withLock lets go of the config.
Return(a) == /\ pc' = [pc EXCEPT ![a] = "idle"]
             /\ job' = [job EXCEPT ![a] = NoJob]
             /\ lock' = [i \in Iface |-> IF lock[i] = a THEN None ELSE lock[i]]
             /\ blind' = blind \ {a}

(***************************************************************************)
(* addPeer.                                                                *)
(***************************************************************************)
\* Bug: the lock is not waited for.
NoLock(i) == TRUE
LockFree(i) == lock[i] = None

\* Bug: only the client configs are looked at.
FileTaken(n, i) == client[DirOf[i]][n] # None
\* The name is in some config, or its client config exists beside i's.
NameTaken(n, i) == \/ \E j \in Iface : n \in NamesIn(conf[j])
                   \/ client[DirOf[i]][n] # None

\* Under the lock of i's config: the name is free, an address is found, a key is
\* made.  What describeIface read before the lock does not change, so the call
\* begins here.  A call that fails here (the name or every address is taken, a
\* tool fails) returns having touched nothing, and so is no step.
StartAdd(a, n, i, p) ==
  /\ pc[a] = "idle"
  /\ LockFree(i)
  /\ ~NameTaken(n, i)
  /\ p \in Pub \ used
  /\ \E taken \in {Taken(i), {}} :
       /\ Host \ taken # {}
       /\ IF taken = Taken(i) THEN Fine /\ UNCHANGED blind
          ELSE Breaks("read") /\ blind' = blind \cup {a}
       /\ job' = [job EXCEPT ![a] = [ iface |-> i, name |-> n,
                                      pub |-> p, addr |-> freeAddress(taken) ]]
  /\ lock' = [lock EXCEPT ![i] = a]
  /\ pc' = [pc EXCEPT ![a] = "append"]
  /\ used' = used \cup {p}
  /\ UNCHANGED <<files, made, gone, revived>>

BlockOf(a) == [pub |-> job[a].pub, name |-> job[a].name, addr |-> job[a].addr]

AppendToConf(a, blocks) == conf' = [conf EXCEPT ![job[a].iface] = @ \o blocks]

\* The block is appended.  When that fails, the call returns at once and what
\* was written stays: nothing, a part, or (when close fails) all of it.
AppendBlock(a) ==
  /\ pc[a] = "append"
  /\ \/ AppendToConf(a, <<BlockOf(a)>>) /\ Goto(a, "apply") /\ Fine
     \/ /\ \E written \in { <<>>, <<[BlockOf(a) EXCEPT !.addr = None]>>, <<BlockOf(a)>> } :
             AppendToConf(a, written)
        /\ Return(a) /\ Breaks("append")
  /\ UNCHANGED <<live, client, ledger, used, made, gone, revived>>

applyPeer(a) ==
  /\ pc[a] = "apply"
  /\ \/ /\ live' = [live EXCEPT ![job[a].iface] = WithPeer(@, job[a].pub, job[a].addr)]
        /\ \/ Goto(a, "file") /\ Fine
           \/ Goto(a, "undoLive") /\ Breaks("setLate")
     \/ UNCHANGED live /\ Goto(a, "undoLive") /\ Breaks("apply")
  /\ UNCHANGED <<conf, client, ledger, used, made, gone, revived>>

WriteClient(a) ==
  /\ pc[a] = "file"
  /\ \/ /\ client' = [client EXCEPT ![DirOf[job[a].iface]][job[a].name] = job[a].pub]
        /\ made' = made \cup {job[a].pub}
        /\ Return(a) /\ Fine
     \/ UNCHANGED <<client, made>> /\ Goto(a, "undoLive") /\ Breaks("file")
  /\ UNCHANGED <<conf, live, ledger, used, gone, revived>>

\* Bug: a failed call undoes the running interface only.
UndoNothing(a) ==
  /\ pc[a] = "undoConf"
  /\ Return(a)
  /\ UNCHANGED <<files, ghosts>>

\* undo ignores the errors of its two steps.
UndoLive(a) ==
  /\ pc[a] = "undoLive"
  /\ \/ live' = [live EXCEPT ![job[a].iface] = WithoutPeer(@, job[a].pub)] /\ Fine
     \/ UNCHANGED live /\ Breaks("undo")
  /\ Goto(a, "undoConf")
  /\ UNCHANGED <<conf, client, ledger, used, made, gone, revived>>

UndoConf(a) ==
  /\ pc[a] = "undoConf"
  /\ \/ conf' = [conf EXCEPT ![job[a].iface] = removePeerFromConf(@, job[a].pub)] /\ Fine
     \/ UNCHANGED conf /\ Breaks("undo")
  /\ Return(a)
  /\ UNCHANGED <<live, client, ledger, used, made, gone, revived>>

(***************************************************************************)
(* removePeer.                                                             *)
(***************************************************************************)
RunsOn(p) == {i \in Iface : p \in Running(i)}
FiledIn(p) == {i \in Iface : p \in PubsIn(conf[i])}

\* The interface is the one that runs the peer, else the first whose config has
\* it; a key that neither knows is an error, whatever the ledger holds.
StartRemove(a, p) ==
  /\ pc[a] = "idle"
  /\ RunsOn(p) \cup FiledIn(p) # {}
  /\ pc' = [pc EXCEPT ![a] = "remove"]
  /\ job' = [job EXCEPT ![a] =
       [NoJob EXCEPT !.pub = p,
                     !.iface = IF RunsOn(p) # {} THEN Min(RunsOn(p)) ELSE Min(FiledIn(p))]]
  /\ UNCHANGED <<files, lock, blind, ghosts>>

\* The name some config has for p.
NamesOf(p) == {n \in Name : \E i \in Iface : \E k \in DOMAIN conf[i] :
                              conf[i][k].pub = p /\ conf[i][k].name = n}
nameOfPeer(p) == IF NamesOf(p) = {} THEN None ELSE CHOOSE n \in NamesOf(p) : TRUE

\* Under the lock of the config: its name, and off the running interface.
RemoveLive(a) ==
  LET i == job[a].iface
      p == job[a].pub IN
  /\ pc[a] = "remove"
  /\ LockFree(i)
  /\ \/ /\ live' = [live EXCEPT ![i] = WithoutPeer(@, p)]
        /\ job' = [job EXCEPT ![a].name = nameOfPeer(p)]
        /\ lock' = [lock EXCEPT ![i] = a]
        /\ pc' = [pc EXCEPT ![a] = "rewrite"]
        /\ Fine /\ UNCHANGED blind
     \/ live' = [live EXCEPT ![i] = WithoutPeer(@, p)] /\ Return(a) /\ Breaks("removeLate")
     \/ UNCHANGED live /\ Return(a) /\ Breaks("remove")
  /\ UNCHANGED <<conf, client, ledger, used, made, gone, revived>>

RemoveBlock(a) ==
  /\ pc[a] = "rewrite"
  /\ \/ /\ conf' = [conf EXCEPT ![job[a].iface] = removePeerFromConf(@, job[a].pub)]
        /\ Goto(a, "unlink") /\ Fine
     \/ UNCHANGED conf /\ Return(a) /\ Breaks("rewrite")
  /\ UNCHANGED <<live, client, ledger, used, made, gone, revived>>

\* The client config and its QR image go by name; that they cannot is ignored.
RemoveFiles(a) ==
  /\ pc[a] = "unlink"
  /\ \/ /\ client' = IF job[a].name = None THEN client
                     ELSE [client EXCEPT ![DirOf[job[a].iface]][job[a].name] = None]
        /\ Fine
     \/ UNCHANGED client /\ Breaks("unlink")
  /\ Goto(a, "forget")
  /\ UNCHANGED <<conf, live, ledger, used, made, gone, revived>>

\* forgetPeer, in detail in Collector.
ForgetPeer(a) ==
  /\ pc[a] = "forget"
  /\ \/ /\ ledger' = ledger \ {job[a].pub} /\ gone' = gone \cup {job[a].pub} /\ Fine
        /\ revived' = {p \in revived : p = job[a].pub => RunsOn(p) # {}}
     \/ UNCHANGED <<ledger, gone, revived>> /\ Breaks("forget")
  /\ Return(a)
  /\ UNCHANGED <<conf, live, client, used, made>>

(***************************************************************************)
(* Around the calls.                                                       *)
(***************************************************************************)
Crash(a) ==
  /\ pc[a] # "idle"
  /\ Return(a)
  /\ Breaks("crash")
  /\ UNCHANGED <<files, used, made, gone, revived>>

\* It finds again a peer that a removal has taken off and not yet out of the config, and
\* addresses in use that an addPeer under way did not see.
RestartIface(i) ==
  /\ live[i] # FromConf(conf[i])
  /\ live' = [live EXCEPT ![i] = FromConf(conf[i])]
  /\ revived' = revived \cup {p \in PubsIn(conf[i]) : \E a \in Proc :
                   pc[a] = "rewrite" /\ job[a].iface = i /\ job[a].pub = p}
  /\ blind' = blind \cup {a \in Proc : pc[a] \in {"append", "apply"} /\ job[a].iface = i}
  /\ Breaks("restart")
  /\ UNCHANGED <<conf, client, ledger, lock, pc, job, used, made, gone>>

\* A snapshot takes every running peer into the ledger.
Collect ==
  /\ ledger' = ledger \cup UNION {Running(i) : i \in Iface}
  /\ ledger' # ledger
  /\ UNCHANGED <<conf, live, client, calls, ghosts>>

Step(a) == \/ \E n \in Name, i \in Iface, p \in Pub : StartAdd(a, n, i, p)
           \/ AppendBlock(a) \/ applyPeer(a) \/ WriteClient(a)
           \/ UndoLive(a) \/ UndoConf(a)
           \/ \E p \in Pub : StartRemove(a, p)
           \/ RemoveLive(a) \/ RemoveBlock(a) \/ RemoveFiles(a) \/ ForgetPeer(a)
           \/ Crash(a)

Next == \/ \E a \in Proc : Step(a)
        \/ \E i \in Iface : RestartIface(i)
        \/ Collect

Spec == Init /\ [][Next]_vars

(***************************************************************************)
(* What addPeer and removePeer promise.                                    *)
(***************************************************************************)
Idle == \A a \in Proc : pc[a] = "idle"
Without(kinds) == faults \cap kinds = {}
Blocks(i) == {conf[i][k] : k \in DOMAIN conf[i]}

\* No interface has two peers of one name, whatever fails: the names and the
\* append are under one lock (peer_ops.go:20-24).
NamesDistinct ==
  \A i \in Iface : \A k, l \in DOMAIN conf[i] :
    conf[i][k].name = conf[i][l].name => k = l

\* "a peer called %q already exists" (peer_ops.go:33-38): nor have two
\* interfaces.  The lock is that of one config.
UniqueNames ==
  \A i, j \in Iface : i # j => NamesIn(conf[i]) \cap NamesIn(conf[j]) = {}

\* A peer whose config was handed out has it on file, under its name, for as
\* long as the server config lists it: no other call overwrites or unlinks the
\* only copy of its private key (peer_ops.go:39, 86, 254-260).
ConfigOnFile ==
  \A i \in Iface : \A b \in Blocks(i) :
    b.pub \in made => client[DirOf[i]][b.name] = b.pub

\* "or two adds hand out the same address" (peer_ops.go:19): no two blocks of a
\* config have one address...
DistinctAddresses ==
  \A i \in Iface : \A k, l \in DOMAIN conf[i] :
    conf[i][k].addr = conf[i][l].addr /\ conf[i][k].addr # None => k = l

\* ...unless some call left a block behind for a peer that does not run, which
\* freeAddress cannot see, or freeAddress saw nothing (peer.go:122-143).
AddressesDistinct ==
  Without({"crash", "append", "rewrite", "undo", "removeLate", "read"}) => DistinctAddresses

\* Only a peer the server config lists is let in: the config is written before
\* the interface and erased after it, so a crash between the two leaves no
\* peer running that a restart would drop (peer_ops.go:62-83, 251-256).
LiveIsConfigured ==
  Without({"restart", "undo"}) => \A i \in Iface : Running(i) \subseteq PubsIn(conf[i])

\* A peer that removePeer reported as removed is out of every config, whatever
\* fails, and nothing sets it or books it again, but for one window that the code
\* leaves open: an interface that goes down and up after its `wg set ... remove`
\* and before the rewrite of its config sets the peer again (peer_ops.go:251-256).
\* The removal reports success all the same, the peer is let in until the next
\* restart, and the next snapshot books it.  The peer's own config goes by its name,
\* which a removal that takes over from a killed one cannot look up, and stays if it
\* cannot be unlinked, which is ignored (peer_ops.go:257-260).
RemovedStaysRemoved ==
  \A p \in gone :
    /\ FiledIn(p) = {}
    /\ RunsOn(p) # {} \/ p \in ledger => p \in revived
    /\ Without({"crash", "unlink"}) => \A d \in Range(DirOf), n \in Name : client[d][n] # p

\* Once every call has returned there are no half peers: what runs is what is
\* configured, with the same address, and has its config on file; what was made
\* and is not there was removed.  The failures addPeer undoes leave nothing
\* (peer_ops.go:75-89).
NoHalfPeers ==
  Idle /\ faults \subseteq {"apply", "setLate", "file", "remove"} =>
    /\ \A i \in Iface : live[i] = FromConf(conf[i])
    /\ UNION {Running(i) : i \in Iface} = made \ gone

\* What is kept of a peer can be removed: once the calls have returned, whoever has
\* history or a client config is found by removePeer, which looks a peer up on the
\* interfaces and in their configs only (peer_ops.go:236-247).  A removal that
\* stops short of the ledger or cannot unlink, an interface that restarts under one,
\* and an add that is undone after a snapshot has seen its peer do leave something
\* for good.
Stranding == {"crash", "restart", "setLate", "file", "unlink", "forget"}
NothingStranded ==
  Idle /\ Without(Stranding) =>
    \A p \in ledger \cup UNION {Range(client[d]) : d \in Range(DirOf)} :
      p # None => RunsOn(p) \cup FiledIn(p) # {}

\* A running peer keeps its address until it is removed (peer.go:122-143), but in
\* two cases.  An addPeer takes it over if freeAddress could not list the addresses
\* in use, whose error it ignores (peer.go:125), or if the interface restarted
\* between its choice and its wg set.  And an interface that restarts with two
\* blocks of one address in its config gives it to the later one.
TakenOver(i, p) ==
  \E a \in blind : pc[a] = "apply" /\ job[a].iface = i /\ job[a].addr = live[i][p]
ClaimedTwice(i, p) ==
  UNCHANGED pc /\ \E b \in Blocks(i) : b.pub # p /\ b.addr = live[i][p]
KeepsAddress ==
  \A i \in Iface : \A p \in Running(i) \cap DOMAIN live'[i] :
    live[i][p] # None /\ live'[i][p] # live[i][p] => TakenOver(i, p) \/ ClaimedTwice(i, p)
AddressKept == [][KeepsAddress]_vars

\* "claims the lowest unused address in the interface's subnet" (README.md:103): the
\* address a new peer is about to get is that of no other running one.  freeAddress
\* takes every address for unused when the tool cannot list them (peer.go:125).
ClaimsUnusedAddress ==
  \A a \in Proc : pc[a] \in {"append", "apply"} =>
    \A p \in Running(job[a].iface) \ {job[a].pub} : live[job[a].iface][p] # job[a].addr
=============================================================================
