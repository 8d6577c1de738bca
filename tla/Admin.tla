------------------------------- MODULE Admin -------------------------------
(***************************************************************************)
(* The administration of peers, one call after another, over configs that  *)
(* people edit and rename as well (peer_cmd.go, peer_ops.go, names.go):    *)
(* which interface a call picks, which names it finds, which text and      *)
(* which files it takes for a peer's.  Failures and calls that overlap are *)
(* in PeerOps, where a config is its blocks.                               *)
(***************************************************************************)
EXTENDS Confs, FiniteSets, FiniteSetsExt

CONSTANTS
  Iface,     \* interfaces, numbered in the order wgInterfaces lists them
  Kind,      \* the kind of each: "wg" or "awg"
  Styles,    \* blocks people write: <<header, comment inside, comment behind>>
  MaxEdits   \* bound: edits by hand

ASSUME IfaceAssumption ==
  Iface \subseteq Nat /\ IsFiniteSet(Iface) /\ Kind \in [Iface -> {"wg", "awg"}]
ASSUME AddrAssumption == Addr \subseteq Nat
ASSUME EditsAssumption == MaxEdits \in Nat
\* Whatever the header, a name stands inside the block and a note about a peer behind.
ASSUME StylesAssumption ==
  Styles \subseteq {"[peer]", "[peer] #"} \X (Name \cup {None}) \X (Pub \cup {None})

VARIABLES
  conf,     \* conf[i]: the lines of interface i's server config
  up,       \* interfaces that are up
  live,     \* live[i]: the peers that run on i and the address of each
  client,   \* client[i]: client configs beside conf[i], by file name
  names,    \* the names file
  edits     \* edits by hand so far

vars == <<conf, up, live, client, names, edits>>

NoFiles == [f \in Name |-> None]

TypeOK ==
  /\ conf \in [Iface -> Seq(Line)]
  /\ up \subseteq Iface
  /\ \A i \in Iface : live[i] \in [DOMAIN live[i] -> Addr \cup {None}] /\ DOMAIN live[i] \subseteq Pub
  /\ client \in [Iface -> [Name -> [pub : Pub, addr : Addr] \cup {None}]]
  /\ names \in [Pub -> Name \cup {None}]
  /\ edits \in 0 .. MaxEdits

Init ==
  /\ conf = [i \in Iface |-> <<L("[interface]", None)>>]
  /\ up \in (SUBSET Iface) \ {{}}
  /\ live = [i \in Iface |-> <<>>]
  /\ client = [i \in Iface |-> NoFiles]
  /\ names = NoNames
  /\ edits = 0

(***************************************************************************)
(* What a call finds out before it does anything.                          *)
(***************************************************************************)
\* The tools list what is up.
wgInterfaces == up

ifaceOfKind(kind) == LET is == {i \in wgInterfaces : Kind[i] = kind} IN IF is = {} THEN None ELSE Min(is)

\* The interface `peer add` creates on: of the kind asked for, else the only one,
\* else awg before wg.
pickIface(kind) ==
  IF kind # None THEN ifaceOfKind(kind)
  ELSE IF Cardinality(wgInterfaces) = 1 THEN Min(wgInterfaces)
  ELSE IF ifaceOfKind("awg") # None THEN ifaceOfKind("awg") ELSE ifaceOfKind("wg")

\* Names by key: of the configs of what is up, the later interface first, and of
\* the names file before them all.
resolveNames ==
  [p \in Pub |->
     LET named == {i \in wgInterfaces : namesFromConfig(conf[i])[p] # None} IN
     IF names[p] # None THEN names[p]
     ELSE IF named = {} THEN None ELSE namesFromConfig(conf[Max(named)])[p]]

nameOfPeer(p) == resolveNames[p]

\* The key that `peer rm` takes a key or a name for; None is an error.
resolvePeer(want) ==
  LET hits == {p \in Pub : resolveNames[p] = want} IN
  IF want \in Pub /\ resolveNames[want] # None THEN want
  ELSE IF Cardinality(hits) = 1 THEN CHOOSE p \in hits : TRUE ELSE None

ifaceHoldingPeer(p) ==
  LET is == {i \in wgInterfaces : Has(conf[i], LAMBDA l : Mentions(l, p))} IN
  IF is = {} THEN None ELSE Min(is)

\* The interface that runs p, as liveState finds it, else the one whose config
\* mentions it.
ifaceOf(p) ==
  LET is == {i \in wgInterfaces : p \in DOMAIN live[i]} IN
  IF is = {} THEN ifaceHoldingPeer(p) ELSE Min(is)

clientConfWithAddress(i, a) ==
  IF a = None THEN {} ELSE {f \in Name : client[i][f] # None /\ client[i][f].addr = a}

\* The stored client configs that peerFiles may answer with for p.
peerFiles(p) ==
  LET i == ifaceHoldingPeer(p)
      n == nameOfPeer(p) IN
  IF i = None THEN {}
  ELSE IF n \in Name /\ client[i][n] # None THEN {client[i][n]}
  ELSE {client[i][f] : f \in clientConfWithAddress(i, peerAddressIn(conf[i], p))}

(***************************************************************************)
(* Calls.                                                                  *)
(***************************************************************************)
Taken(i) == {live[i][p] : p \in DOMAIN live[i]}

\* Bug: the server's address counts as free.
FromOne(i) == Min((Addr \cup {1}) \ Taken(i))
freeAddress(i) == Min(Addr \ Taken(i))

\* addPeer, of a key nobody has seen.
addPeer(n, i, p) ==
  LET a == freeAddress(i) IN
  /\ i # None /\ Addr \ Taken(i) # {}
  /\ \A q \in Pub : resolveNames[q] # n
  /\ client[i][n] = None
  /\ \A j \in Iface : /\ ~Has(conf[j], LAMBDA l : Mentions(l, p))
                      /\ p \notin DOMAIN live[j]
                      /\ \A f \in Name : client[j][f] # None => client[j][f].pub # p
  /\ conf' = [conf EXCEPT ![i] = @ \o newBlock(p, n, a)]
  /\ live' = [live EXCEPT ![i] = [q \in DOMAIN @ \cup {p} |-> IF q = p THEN a ELSE @[q]]]
  /\ client' = [client EXCEPT ![i][n] = [pub |-> p, addr |-> a]]
  /\ UNCHANGED <<up, names, edits>>

\* removePeer.
removePeer(p) ==
  LET i == ifaceOf(p)
      n == nameOfPeer(p) IN
  /\ UNCHANGED <<up, names, edits>>
  /\ i # None
  /\ live' = [live EXCEPT ![i] = [q \in DOMAIN @ \ {p} |-> @[q]]]
  /\ conf' = [conf EXCEPT ![i] = removePeerFromConf(@, p)]
  /\ client' = IF n \in Name THEN [client EXCEPT ![i][n] = None] ELSE client

\* The page names the interface's kind, and the key to remove.
PostPeer(n, kind, p) == addPeer(n, ifaceOfKind(kind), p)
DeletePeer(p) == removePeer(p)

\* `peer add` and `peer rm`.
peerAddCmd(n, kind, p) == addPeer(n, pickIface(kind), p)
peerRemoveCmd(want) == resolvePeer(want) # None /\ removePeer(resolvePeer(want))

(***************************************************************************)
(* People.                                                                 *)
(***************************************************************************)
Comment(c) == IF c = None THEN <<>> ELSE <<L("#", c)>>
Written(p, a, s) == <<L(s[1], None)>> \o Comment(s[2])
                    \o <<L("PublicKey", p), L("AllowedIPs", a)>> \o Comment(s[3])

Edit == edits < MaxEdits /\ edits' = edits + 1

\* People keep names apart: n is no name, file or comment of a peer but p.
Unused(n, p) ==
  /\ \A q \in Pub \ {p} : names[q] # n
  /\ \A i \in Iface : /\ L("#", n) \notin Range(conf[i])
                      /\ client[i][n] = None

\* Neither does p go back to the name in its block where the file of that name has
\* become another's.
OwnAgain(p) ==
  \A i \in Iface : LET n == namesFromConfig(conf[i])[p] IN
    n \in Name /\ client[i][n] # None => client[i][n].pub = p

\* A block in some style, whose client config was stored under some name, or not.
WriteBlock(i, p, a, s, f) ==
  /\ Edit
  /\ \A j \in Iface : SectionsOf(conf[j], p) = {}
  /\ a \notin Range(wgPeers(conf[i]))
  /\ \A n \in {s[2], f} \cap Name : Unused(n, p)
  /\ conf' = [conf EXCEPT ![i] = @ \o Written(p, a, s)]
  /\ client' = IF f = None THEN client ELSE [client EXCEPT ![i][f] = [pub |-> p, addr |-> a]]
  /\ UNCHANGED <<up, live, names>>

Rename(p, n) ==
  /\ Edit
  /\ IF n # None THEN Unused(n, p) ELSE OwnAgain(p)
  /\ names[p] # n
  /\ names' = [names EXCEPT ![p] = n]
  /\ UNCHANGED <<conf, up, live, client>>

\* An interface goes down, or comes up with what its config says.
Down(i) ==
  /\ i \in up
  /\ up' = up \ {i}
  /\ live' = [live EXCEPT ![i] = <<>>]
  /\ UNCHANGED <<conf, client, names, edits>>

Up(i) ==
  /\ i \notin up
  /\ up' = up \cup {i}
  /\ live' = [live EXCEPT ![i] = wgPeers(conf[i])]
  /\ UNCHANGED <<conf, client, names, edits>>

People == \/ \E i \in Iface, p \in Pub, a \in Addr, s \in Styles, f \in Name \cup {None} :
               WriteBlock(i, p, a, s, f)
          \/ \E p \in Pub, n \in Name \cup {None} : Rename(p, n)
          \/ \E i \in Iface : Up(i) \/ Down(i)

Next == \/ \E n \in Name, kind \in {"wg", "awg"}, p \in Pub : PostPeer(n, kind, p)
        \/ \E p \in Pub : DeletePeer(p)
        \/ \E n \in Name, kind \in {"wg", "awg", None}, p \in Pub : peerAddCmd(n, kind, p)
        \/ \E want \in Name \cup Pub : peerRemoveCmd(want)
        \/ People

Spec == Init /\ [][Next]_vars

(***************************************************************************)
(* Properties.                                                             *)
(***************************************************************************)
Peers(i) == DOMAIN wgPeers(conf[i])

\* The header of p's block stands alone on its line, as createPeer writes it.
Plain(i, p) == \A k \in SectionsOf(conf[i], p) : conf[i][k].kind = "[peer]"

\* The comment of p's own block.
OwnName(i, p) ==
  LET block == Section(conf[i], Max(SectionsOf(conf[i], p)))
      cs == {k \in DOMAIN block : /\ block[k].kind = "#"
                                  /\ \E j \in DOMAIN block : j > k /\ block[j].kind = "PublicKey"}
  IN IF cs = {} THEN None ELSE block[Max(cs)].val

\* names_test.go:37, "a stray comment cannot leak onto the next peer": whatever
\* people wrote and removals left, a peer has the name in its own block or none.
NamesAreOwn ==
  \A i \in Iface : LET found == namesFromConfig(conf[i]) IN
    \A p \in Peers(i) : Plain(i, p) => found[p] = OwnName(i, p)

\* p is a peer of one interface at most, and no comment mentions it: the comment
\* would be taken for its block.
Clear(p) ==
  /\ Cardinality({i \in Iface : p \in Peers(i) \cup DOMAIN live[i]}) <= 1
  /\ \A i \in Iface : L("#", p) \notin Range(conf[i])

\* "removePeer erases the peer from the interface, the config, its files and the
\* ledger" (peer_ops.go:234): what is gone does not come back when the interface
\* is restarted.
ConfigErased ==
  [][\A p \in Pub : removePeer(p) /\ Clear(p) => \A i \in up : p \notin DOMAIN wgPeers(conf'[i])]_vars

\* From the configs and the files, p goes and nobody else.
RemovesOnly(p) ==
  \A i \in Iface :
    LET before == wgPeers(conf[i])
        after  == wgPeers(conf'[i])
        namesBefore == namesFromConfig(conf[i])
        namesAfter  == namesFromConfig(conf'[i])
    IN  /\ DOMAIN after = DOMAIN before \ (IF i \in up THEN {p} ELSE {})
        /\ \A q \in DOMAIN after :
             /\ before[q] \in {None, after[q]}
             /\ namesAfter[q] = namesBefore[q]
             /\ \A f \in Name : client[i][f] # None /\ client[i][f].pub = q => client'[i][f] = client[i][f]

\* A removal drops the peer's block, "leaving the rest untouched" (peer_ops.go:287):
\* the others keep address, name and files, wherever p stood and whatever people
\* wrote around it.
RemovesExactly == [][\A p \in Pub : removePeer(p) /\ Clear(p) => RemovesOnly(p)]_vars

\* Who has which address.
Given(i) == {<<p, wgPeers(conf[i])[p]>> : p \in Peers(i)}

\* "a peer filed under another name still had to be given the address the server
\* hands it" (peer_ops.go:167): nobody is handed a config that works for another
\* peer, as long as the server config gives no address twice.
ServesOwnConfig ==
  \A i \in Iface :
    None \notin Range(wgPeers(conf[i])) =>
      \A p \in Peers(i) : Clear(p) =>
        \A c \in peerFiles(p) : c.pub = p \/ <<c.pub, c.addr>> \notin Given(i)
=============================================================================
