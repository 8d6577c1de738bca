------------------------------- MODULE Confs -------------------------------
(***************************************************************************)
(* Server configs as text (names.go, peer_ops.go): the programs that edit  *)
(* and read them go line by line and know no grammar, while `wg` parses    *)
(* them.  People edit them too.                                            *)
(***************************************************************************)
EXTENDS Integers, Sequences, SequencesExt

CONSTANTS
  Pub,    \* public keys
  Name,   \* names in comments
  Addr,   \* addresses
  None    \* nothing

ASSUME NoneAssumption == None \notin Pub \cup Name \cup Addr

\* A key is neither a name nor an address.
ASSUME KeyAssumption == Pub \cap (Name \cup Addr) = {}

(***************************************************************************)
(* A line, by what the programs tell apart; val is the name of a comment,  *)
(* the key it mentions, or the value of a setting.                         *)
(***************************************************************************)
Line == [kind : {"[peer]"},     val : {None}]         \* nothing else on the line
        \cup [kind : {"[peer] #"},  val : {None}]     \* a comment behind the header
        \cup [kind : {"[interface]", ""}, val : {None}]
        \cup [kind : {"#"}, val : Name \cup Pub \cup {None}]
        \cup [kind : {"PublicKey"},  val : Pub]
        \cup [kind : {"AllowedIPs"}, val : Addr]

L(kind, val) == [kind |-> kind, val |-> val]

\* Lines that begin with "[".
OpensSection(l) == l.kind \in {"[peer]", "[peer] #", "[interface]"}
Mentions(l, p) == l.val = p

\* The block createPeer appends.
newBlock(p, n, a) == << L("", None), L("[peer]", None), L("#", n), L("PublicKey", p), L("AllowedIPs", a) >>

(***************************************************************************)
(* The line machines of the code.                                          *)
(***************************************************************************)
NoNames == [p \in Pub |-> None]

\* Bug: a header forgets nothing.
ScanOn(s, l) ==
  CASE l.kind = "#" /\ l.val # None -> [s EXCEPT !.comment = l.val]
    [] l.kind = "PublicKey" -> [comment |-> None,
         names |-> IF s.comment = None THEN s.names ELSE [s.names EXCEPT ![l.val] = s.comment]]
    [] OTHER -> s

\* One line of namesFromConfig: a comment is remembered until a key takes it or a
\* header drops it.
Scan(s, l) ==
  CASE l.kind = "#" /\ l.val # None -> [s EXCEPT !.comment = l.val]
    [] l.kind = "[peer]" -> [s EXCEPT !.comment = None]
    [] l.kind = "PublicKey" -> [comment |-> None,
         names |-> IF s.comment = None THEN s.names ELSE [s.names EXCEPT ![l.val] = s.comment]]
    [] OTHER -> s

namesFromConfig(lines) == FoldLeft(Scan, [comment |-> None, names |-> NoNames], lines).names

\* The first line after k that opens a section, or the end.
NextSection(lines, k) ==
  Min({Len(lines) + 1} \cup {j \in k + 1 .. Len(lines) : OpensSection(lines[j])})

\* The lines of the section that line k opens.
Section(lines, k) == SubSeq(lines, k, NextSection(lines, k) - 1)

Has(lines, P(_)) == \E k \in DOMAIN lines : P(lines[k])

\* The headers removePeerFromConf knows, of a section that mentions p.
HeadersOf(lines, p) ==
  {k \in DOMAIN lines : /\ lines[k].kind = "[peer]"
                        /\ Has(Section(lines, k), LAMBDA l : Mentions(l, p))}

\* lines without those from start up to end, and without the blank ones above.
Cut(lines, start, end) ==
  SubSeq(lines, 1, Max({0} \cup {j \in 1 .. start - 1 : lines[j].kind # ""}))
  \o SubSeq(lines, end, Len(lines))

\* Bug: the line the block ends with goes too.
dropWithHeader(lines, p) ==
  IF HeadersOf(lines, p) = {} THEN lines
  ELSE LET start == Min(HeadersOf(lines, p)) IN Cut(lines, start, NextSection(lines, start) + 1)

\* The first such section goes.
removePeerFromConf(lines, p) ==
  IF HeadersOf(lines, p) = {} THEN lines
  ELSE LET start == Min(HeadersOf(lines, p)) IN Cut(lines, start, NextSection(lines, start))

\* The first setting of a kind, as confValue finds it.
confValue(lines, kind) ==
  LET ks == {k \in DOMAIN lines : lines[k].kind = kind} IN
  IF ks = {} THEN None ELSE lines[Min(ks)].val

\* Bug: the address is the first of the file.
firstAddressIn(lines, p) ==
  IF Has(lines, LAMBDA l : Mentions(l, p)) THEN confValue(lines, "AllowedIPs") ELSE None

\* The address in the first section that mentions p and has one; what precedes
\* the first header is a section too.
peerAddressIn(lines, p) ==
  LET starts == {k \in {1} \cup {k \in DOMAIN lines : OpensSection(lines[k])} :
                   /\ Has(Section(lines, k), LAMBDA l : Mentions(l, p))
                   /\ confValue(Section(lines, k), "AllowedIPs") # None}
  IN IF starts = {} THEN None ELSE confValue(Section(lines, Min(starts)), "AllowedIPs")

(***************************************************************************)
(* What `wg` makes of the same text: comments are gone before it is parsed. *)
(***************************************************************************)
PeerHeaders(lines) == {k \in DOMAIN lines : lines[k].kind \in {"[peer]", "[peer] #"}}

\* The sections that declare p.
SectionsOf(lines, p) ==
  {k \in PeerHeaders(lines) : confValue(Section(lines, k), "PublicKey") = p}

\* An address belongs to the last peer that claims it.
wgPeers(lines) ==
  LET peers == {p \in Pub : SectionsOf(lines, p) # {}}
      at == [p \in peers |-> Max(SectionsOf(lines, p))]
      claimed == [p \in peers |-> confValue(Section(lines, at[p]), "AllowedIPs")]
  IN [p \in peers |-> IF \E q \in peers : claimed[q] = claimed[p] /\ at[q] > at[p]
                      THEN None ELSE claimed[p]]
=============================================================================
