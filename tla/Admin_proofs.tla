---------------------------- MODULE Admin_proofs ----------------------------
(***************************************************************************)
(* What the line machines make of a server config, for any peers, names,   *)
(* addresses and interfaces and any number of edits by hand: they agree    *)
(* with `wg` on whose lines are whose, a removal takes the peer's lines    *)
(* and no others, and what is served by name is the peer's own.            *)
(***************************************************************************)
EXTENDS Admin, TLAPS, FiniteSetTheorems, SequenceTheorems, WellFoundedInduction

(***************************************************************************)
(* Sets of numbers.                                                        *)
(***************************************************************************)
\* A set of naturals that is not empty has a least element, and Min is it.
LEMMA MinOf ==
  ASSUME NEW T \in SUBSET Nat, T # {}
  PROVE  Min(T) \in T /\ \A y \in T : Min(T) <= y
<1>1. PICK x \in T : \A y \in T : ~ (<<y, x>> \in OpToRel(<, Nat))
  BY NatLessThanWellFounded, WFMin
<1>2. \A a, b \in Nat : <<a, b>> \in OpToRel(<, Nat) <=> a < b
  BY DEF OpToRel
<1>3. \A y \in T : x <= y
  <2> TAKE y \in T
  <2>1. x \in Nat /\ y \in Nat
    OBVIOUS
  <2>2. ~(y < x)
    BY <1>1, <1>2, <2>1
  <2> QED BY <2>1, <2>2
<1> QED BY <1>3 DEF Min

\* The least element is the one that is below the others.
LEMMA MinIs ==
  ASSUME NEW T \in SUBSET Nat, NEW x \in T, \A y \in T : x <= y
  PROVE  Min(T) = x
<1>1. Min(T) \in T /\ Min(T) <= x
  BY MinOf
<1>2. x <= Min(T) /\ x \in Nat /\ Min(T) \in Nat
  BY <1>1
<1> QED BY <1>1, <1>2

\* Likewise for the greatest element of a bounded set.
LEMMA MaxOf ==
  ASSUME NEW n \in Nat, NEW T \in SUBSET (0 .. n), T # {}
  PROVE  Max(T) \in T /\ \A y \in T : Max(T) >= y
<1> DEFINE D == {n - x : x \in T}
<1>1. \A x \in T : x \in 0 .. n /\ n - x \in Nat
  OBVIOUS
<1>2. D \in SUBSET Nat /\ D # {}
  BY <1>1
<1> HIDE DEF D
<1>3. PICK m \in D : \A y \in D : m <= y
  BY <1>2, MinOf
<1> USE DEF D
<1>4. PICK x \in T : m = n - x
  OBVIOUS
<1>5. \A y \in T : x >= y
  <2> TAKE y \in T
  <2>1. m <= n - y
    BY <1>3
  <2>2. x \in Int /\ y \in Int
    BY <1>1
  <2> HIDE DEF D
  <2> QED BY <1>4, <2>1, <2>2
<1> QED BY <1>5 DEF Max

LEMMA MaxIs ==
  ASSUME NEW n \in Nat, NEW T \in SUBSET (0 .. n), NEW x \in T, \A y \in T : x >= y
  PROVE  Max(T) = x
<1>1. Max(T) \in T /\ Max(T) >= x
  BY MaxOf
<1>2. x >= Max(T) /\ x \in 0 .. n /\ Max(T) \in 0 .. n
  BY <1>1
<1> QED BY <1>1, <1>2

(***************************************************************************)
(* The states of the machine that reads names, line after line.            *)
(***************************************************************************)
Start == [comment |-> None, names |-> NoNames]

\* g is the recursive function that the fold over the lines of S is the value of.
Rec(lines, S, g) ==
  g = [s \in SUBSET S |-> IF s = {} THEN Start ELSE Scan(g[s \ {Max(s)}], lines[Max(s)])]

LEMMA NamesAreFolded ==
  ASSUME NEW lines
  PROVE  namesFromConfig(lines)
           = (CHOOSE g : Rec(lines, DOMAIN lines, g))[DOMAIN lines].names
BY DEF namesFromConfig, FoldLeft, MapThenFoldSet, Rec, Start

\* What holds of a set of numbers whenever it holds of its proper subsets, holds.
LEMMA SubsetInduction ==
  ASSUME NEW n \in Nat, NEW C,
         \A T \in SUBSET (1 .. n) : (\A U \in SUBSET T : U # T => U \in C) => T \in C
  PROVE  \A T \in SUBSET (1 .. n) : T \in C
<1> DEFINE S == 1 .. n
           B == {T \in SUBSET S : T \notin C}
<1>1. SUFFICES ASSUME B # {}
               PROVE  FALSE
  OBVIOUS
<1>2. IsFiniteSet(S)
  BY FS_Interval
<1>3. B \subseteq FiniteSubsetsOf(S)
  BY <1>2, FS_Subset DEF FiniteSubsetsOf
<1>4. PICK T \in B : \A U \in B : ~(<<U, T>> \in StrictSubsetOrdering(S))
  <2>1. IsWellFoundedOn(StrictSubsetOrdering(S), FiniteSubsetsOf(S))
    BY <1>2, FS_StrictSubsetOrderingWellFounded
  <2> HIDE DEF B, S
  <2> QED BY <1>1, <1>3, <2>1, WFMin
<1>5. \A U \in SUBSET T : U # T => U \in C
  BY <1>4 DEF StrictSubsetOrdering
<1> QED BY <1>4, <1>5

\* The numbers of the first n lines.
Upto(n) == 1 .. n

LEMMA RecUnique ==
  ASSUME NEW lines, NEW n \in Nat, NEW S, NEW T, NEW g, NEW h,
         Rec(lines, S, g), Rec(lines, T, h),
         NEW U \in SUBSET Upto(n), U \subseteq S, U \subseteq T
  PROVE  g[U] = h[U]
<1> USE DEF Upto
<1> DEFINE C == {V \in SUBSET (1 .. n) : V \subseteq U => g[V] = h[V]}
<1>1. ASSUME NEW V \in SUBSET (1 .. n), \A W \in SUBSET V : W # V => W \in C, V \subseteq U
      PROVE  g[V] = h[V]
  <2> DEFINE c == Max(V)
  <2>1. V \in SUBSET S /\ V \in SUBSET T
    BY <1>1
  <2>2. g[V] = IF V = {} THEN Start ELSE Scan(g[V \ {c}], lines[c])
    BY <2>1 DEF Rec
  <2>3. h[V] = IF V = {} THEN Start ELSE Scan(h[V \ {c}], lines[c])
    BY <2>1 DEF Rec
  <2>4. V # {} => c \in V
    <3>1. V \in SUBSET (0 .. n)
      OBVIOUS
    <3> QED BY <3>1, MaxOf
  <2> HIDE DEF c
  <2>5. V # {} => g[V \ {c}] = h[V \ {c}]
    BY <1>1, <2>4
  <2> QED BY <2>2, <2>3, <2>5
<1>2. \A V \in SUBSET (1 .. n) : (\A W \in SUBSET V : W # V => W \in C) => V \in C
  BY <1>1
<1> HIDE DEF C
<1>3. U \in C
  BY <1>2, SubsetInduction
<1> QED BY <1>3 DEF C

LEMMA RecExists ==
  ASSUME NEW lines, NEW n \in Nat
  PROVE  \E g : Rec(lines, 1 .. n, g)
<1> DEFINE S == 1 .. n
           C == {T \in SUBSET S : \E g : Rec(lines, T, g)}
           G(T) == CHOOSE g : Rec(lines, T, g)
           c(T) == Max(T)
<1>1. ASSUME NEW T \in SUBSET S, \A U \in SUBSET T : U # T => U \in C
      PROVE  T \in C
  <2>1. \A U \in SUBSET T : U # T => Rec(lines, U, G(U))
    BY <1>1
  <2>2. \A U \in SUBSET T : U # {} => c(U) \in U
    <3>1. SUBSET T \subseteq SUBSET (0 .. n)
      OBVIOUS
    <3> QED BY <3>1, MaxOf
  <2> HIDE DEF C, c
  <2>3. ASSUME NEW U \in SUBSET T, U # T, U # {}
        PROVE  G(U)[U] = Scan(G(U \ {c(U)})[U \ {c(U)}], lines[c(U)])
    <3>1. G(U)[U] = Scan(G(U)[U \ {c(U)}], lines[c(U)])
      <4>1. Rec(lines, U, G(U))
        BY <2>1, <2>3
      <4> HIDE DEF G
      <4> QED BY <2>3, <4>1 DEF Rec, c
    <3>2. U \ {c(U)} # T /\ U \ {c(U)} \in SUBSET T /\ U \ {c(U)} \subseteq U
      BY <2>3
    <3>3. Rec(lines, U, G(U)) /\ Rec(lines, U \ {c(U)}, G(U \ {c(U)}))
      BY <2>1, <2>3, <3>2
    <3>4. U \ {c(U)} \in SUBSET Upto(n)
      BY <3>2 DEF Upto
    <3> HIDE DEF G
    <3>5. G(U)[U \ {c(U)}] = G(U \ {c(U)})[U \ {c(U)}]
      BY <3>2, <3>3, <3>4, RecUnique
    <3> QED BY <3>1, <3>5, Zenon
  <2>4. T # {} => G({})[{}] = Start
    <3> SUFFICES ASSUME T # {}
                 PROVE  G({})[{}] = Start
      OBVIOUS
    <3>1. Rec(lines, {}, G({}))
      BY <2>1
    <3> QED BY <3>1 DEF Rec
  <2> HIDE DEF G
  <2> DEFINE v(s) == IF s = {} THEN Start ELSE Scan(G(s \ {c(s)})[s \ {c(s)}], lines[c(s)])
             g == [s \in SUBSET T |-> v(s)]
  <2>5. ASSUME NEW s \in SUBSET T, s # {}
        PROVE  G(s \ {c(s)})[s \ {c(s)}] = v(s \ {c(s)})
    <3>1. s \ {c(s)} \in SUBSET T /\ s \ {c(s)} # T
      BY <2>2, <2>5
    <3>2. T # {}
      BY <2>5
    <3> QED BY <2>3, <2>4, <3>1, <3>2
  <2>6. \A s \in SUBSET T : g[s] = v(s)
    OBVIOUS
  <2> HIDE DEF g
  <2>7. \A s \in SUBSET T : v(s) = IF s = {} THEN Start ELSE Scan(g[s \ {c(s)}], lines[c(s)])
    BY <2>5, <2>6
  <2>8. g = [s \in SUBSET T |-> IF s = {} THEN Start ELSE Scan(g[s \ {c(s)}], lines[c(s)])]
    <3> HIDE DEF v
    <3>1. g = [s \in SUBSET T |-> v(s)]
      BY DEF g
    <3> QED BY <2>7, <3>1
  <2>9. Rec(lines, T, g)
    BY <2>8 DEF Rec, c
  <2> QED BY <2>9 DEF C
<1>2. S \in SUBSET (1 .. n) /\ \A T \in SUBSET (1 .. n) : (\A U \in SUBSET T : U # T => U \in C) => T \in C
  BY <1>1
<1> HIDE DEF C
<1>3. S \in C
  BY <1>2, SubsetInduction
<1> QED BY <1>3 DEF C

\* The states of the machine: st[k] is that behind line k.
States(lines, st) ==
  /\ st[0] = Start
  /\ \A k \in 1 .. Len(lines) : st[k] = Scan(st[k - 1], lines[k])
  /\ namesFromConfig(lines) = st[Len(lines)].names

LEMMA StatesExist ==
  ASSUME NEW lines \in Seq(Line)
  PROVE  \E st : States(lines, st)
<1> DEFINE n == Len(lines)
           g == CHOOSE g : Rec(lines, 1 .. n, g)
           st == [k \in 0 .. n |-> g[1 .. k]]
<1>1. n \in Nat /\ DOMAIN lines = 1 .. n
  OBVIOUS
<1>2. Rec(lines, 1 .. n, g)
  BY <1>1, RecExists
<1>3. namesFromConfig(lines) = g[1 .. n].names
  BY <1>1, NamesAreFolded
<1> HIDE DEF g, n
<1>4. st[0] = Start
  <2>1. g[{}] = Start
    BY <1>2 DEF Rec
  <2> QED BY <1>1, <2>1
<1>5. ASSUME NEW k \in 1 .. n
      PROVE  st[k] = Scan(st[k - 1], lines[k])
  <2>1. 1 .. k \in SUBSET (1 .. n) /\ 1 .. k # {} /\ (1 .. k) \ {k} = 1 .. k - 1
    BY <1>1
  <2>2. Max(1 .. k) = k
    <3>1. k \in Nat /\ 1 .. k \in SUBSET (0 .. k) /\ k \in 1 .. k /\ \A y \in 1 .. k : k >= y
      BY <1>1
    <3> QED BY <3>1, MaxIs
  <2>3. g[1 .. k] = Scan(g[(1 .. k) \ {k}], lines[k])
    BY <1>2, <2>1, <2>2 DEF Rec
  <2>4. k \in 0 .. n /\ k - 1 \in 0 .. n
    BY <1>1
  <2>5. g[(1 .. k) \ {k}] = g[1 .. k - 1]
    BY <2>1, Zenon
  <2> QED BY <2>3, <2>4, <2>5
<1>6. n \in 0 .. n
  BY <1>1
<1> HIDE DEF st
<1>7. st[n].names = g[1 .. n].names
  BY <1>6 DEF st
<1> QED BY <1>3, <1>4, <1>5, <1>7 DEF States, n

(***************************************************************************)
(* The shape of a server config.                                           *)
(***************************************************************************)
Header(l)   == l.kind \in {"[peer]", "[peer] #"}
Blank(l)    == l.kind = ""
Remarked(l) == l.kind = "[peer] #"
NameLine(l) == l.kind = "#" /\ l.val \in Name
NoteLine(l) == l.kind = "#" /\ l.val \in Pub

\* A block may end with line l.
Ends(l) == l.kind \in {"[interface]", "AllowedIPs"} \/ NoteLine(l)

\* Line b stands below line a.
Follows(a, b) ==
  \/ Ends(a) /\ (Blank(b) \/ Header(b))
  \/ Blank(a) /\ b.kind = "[peer]"
  \/ Header(a) /\ (NameLine(b) \/ b.kind = "PublicKey")
  \/ NameLine(a) /\ b.kind = "PublicKey"
  \/ a.kind = "PublicKey" /\ b.kind = "AllowedIPs"
  \/ a.kind = "AllowedIPs" /\ NoteLine(b)

\* Line x declares key p.
Declares(s, p, x) == x \in DOMAIN s /\ s[x] = L("PublicKey", p)

\* The lines of a config: what programs write and people write, whatever was
\* removed from it; no key is declared twice.
Shape(s) ==
  /\ s \in Seq(Line)
  /\ Len(s) > 0
  /\ \A k \in 1 .. Len(s) : s[k].kind = "[interface]" <=> k = 1
  /\ \A k \in 1 .. Len(s) - 1 : Follows(s[k], s[k + 1])
  /\ Ends(s[Len(s)])
  /\ \A p \in Pub, x, y \in 1 .. Len(s) : Declares(s, p, x) /\ Declares(s, p, y) => x = y

\* The line of the header above the key in line x.
HeadOf(s, x) == IF s[x - 1].kind = "#" THEN x - 2 ELSE x - 1

\* The block of p names it n.
Named(s, p, n) == \E x \in 1 .. Len(s) : Declares(s, p, x) /\ s[x - 1] = L("#", n)

(***************************************************************************)
(* The inductive invariant.                                                *)
(***************************************************************************)
\* A key is declared in one config at most.
OneConfig == \A i, j \in Iface, p \in Pub, x, y \in Nat :
               Declares(conf[i], p, x) /\ Declares(conf[j], p, y) => i = j

\* The file of the name that the names file has for p, or else its block, is p's.
FilesAreOwn ==
  \A i \in Iface, p \in Pub, n \in Name :
    /\ names[p] = n \/ (names[p] = None /\ Named(conf[i], p, n))
    /\ client[i][n] # None
    => client[i][n].pub = p

AdminInv ==
  /\ TypeOK /\ live = [i \in Iface |-> live[i]]
  /\ \A i \in Iface : Shape(conf[i])
  /\ OneConfig /\ FilesAreOwn

(***************************************************************************)
(* Blocks.                                                                 *)
(***************************************************************************)
Kinds == {"[peer]", "[peer] #", "[interface]", "#", "PublicKey", "AllowedIPs"}

LEMMA BlankFacts ==
  ASSUME NEW l, Blank(l)
  PROVE  l.kind \notin Kinds
BY DEF Blank, Kinds

LEMMA LineFacts ==
  ASSUME NEW l \in Line
  PROVE  /\ l = L(l.kind, l.val) /\ (l.kind \in Kinds \/ Blank(l))
         /\ l.kind = "PublicKey" => l.val \in Pub
         /\ l.kind = "AllowedIPs" => l.val \in Addr
         /\ l.kind = "#" => l.val \in Name \cup Pub \cup {None}
         /\ l.kind \in {"[peer]", "[peer] #", "[interface]"} \/ Blank(l) => l.val = None
BY DEF Line, L, Kinds, Blank

\* What stands above a line, and what below.
LEMMA FollowsFacts ==
  ASSUME NEW a, NEW b, Follows(a, b)
  PROVE  /\ b.kind = "PublicKey" => Header(a) \/ NameLine(a)
         /\ NameLine(b) => Header(a)
         /\ Blank(b) => Ends(a)
         /\ b.kind = "[peer]" => Ends(a) \/ Blank(a)
         /\ a.kind = "PublicKey" => b.kind = "AllowedIPs"
         /\ NameLine(a) => b.kind = "PublicKey"
         /\ Header(a) => b.kind = "PublicKey" \/ NameLine(b)
<1> USE KeyAssumption DEF Follows, Ends, Header, NameLine, NoteLine, Kinds
<1>1. Blank(a) => a.kind \notin Kinds
  BY BlankFacts
<1>2. Blank(b) => b.kind \notin Kinds
  BY BlankFacts
<1>3. b.kind = "PublicKey" => Header(a) \/ NameLine(a)
  BY <1>2
<1>4. NameLine(b) => Header(a)
  BY <1>2
<1>5. Blank(b) => Ends(a)
  BY <1>2
<1>6. b.kind = "[peer]" => Ends(a) \/ Blank(a)
  OBVIOUS
<1>7. a.kind = "PublicKey" => b.kind = "AllowedIPs"
  BY <1>1
<1>8. NameLine(a) => b.kind = "PublicKey"
  BY <1>1
<1>9. Header(a) => b.kind = "PublicKey" \/ NameLine(b)
  BY <1>1
<1> QED BY <1>3, <1>4, <1>5, <1>6, <1>7, <1>8, <1>9

LEMMA ShapeFacts ==
  ASSUME NEW s, Shape(s)
  PROVE  /\ Len(s) \in Nat /\ 1 \in 1 .. Len(s) /\ DOMAIN s = 1 .. Len(s)
         /\ \A k \in 1 .. Len(s) : s[k] \in Line /\ (Header(s[k]) => k # 1)
<1>1. Len(s) \in Nat /\ 1 \in 1 .. Len(s) /\ DOMAIN s = 1 .. Len(s) /\ \A k \in 1 .. Len(s) : s[k] \in Line
  BY DEF Shape
<1>2. s[1].kind = "[interface]"
  BY <1>1 DEF Shape
<1>3. ~Header(s[1])
  BY <1>2 DEF Header
<1> QED BY <1>1, <1>3

\* Above a key stand its header and, between them, its name or nothing; below it
\* stands its address.
LEMMA KeyBlock ==
  ASSUME NEW s, Shape(s), NEW p \in Pub, NEW x, Declares(s, p, x)
  PROVE  /\ x \in 1 .. Len(s) /\ s[x].kind = "PublicKey" /\ s[x].val = p
         /\ HeadOf(s, x) \in 2 .. x - 1 /\ Header(s[HeadOf(s, x)])
         /\ \A j \in HeadOf(s, x) + 1 .. x - 1 : j = x - 1 /\ NameLine(s[j])
         /\ s[x - 1].kind = "#" => HeadOf(s, x) = x - 2 /\ NameLine(s[x - 1])
         /\ s[x - 1].kind # "#" => HeadOf(s, x) = x - 1
         /\ x + 1 \in 1 .. Len(s) /\ s[x + 1].kind = "AllowedIPs" /\ s[x + 1].val \in Addr
<1>1. /\ x \in 1 .. Len(s) /\ s[x].kind = "PublicKey" /\ s[x].val = p
      /\ Len(s) \in Nat /\ \A k \in 1 .. Len(s) : s[k] \in Line
  BY ShapeFacts DEF Declares, L
<1>2. x # 1 /\ x # Len(s) /\ x - 1 \in 1 .. Len(s) - 1
  <2>1. x # 1 /\ x # Len(s)
    BY <1>1 DEF Shape, Ends, NoteLine
  <2> QED BY <1>1, <2>1
<1>3. Header(s[x - 1]) \/ NameLine(s[x - 1])
  <2>1. Follows(s[x - 1], s[x - 1 + 1]) /\ x - 1 + 1 = x
    BY <1>1, <1>2 DEF Shape
  <2>2. Follows(s[x - 1], s[x])
    BY <2>1
  <2> QED BY <1>1, <2>2, FollowsFacts
<1>4. x + 1 \in 1 .. Len(s) /\ s[x + 1].kind = "AllowedIPs" /\ s[x + 1].val \in Addr
  <2>1. x \in 1 .. Len(s) - 1 /\ x + 1 \in 1 .. Len(s)
    BY <1>1, <1>2
  <2>2. Follows(s[x], s[x + 1])
    BY <2>1 DEF Shape
  <2>3. s[x + 1].kind = "AllowedIPs"
    BY <1>1, <2>2, FollowsFacts
  <2> QED BY <1>1, <2>1, <2>3, LineFacts
<1>5. CASE s[x - 1].kind # "#"
  <2>1. HeadOf(s, x) = x - 1 /\ Header(s[x - 1])
    BY <1>3, <1>5 DEF HeadOf, NameLine
  <2>2. x - 1 # 1
    BY <1>2, <2>1, ShapeFacts
  <2> QED BY <1>1, <1>2, <1>4, <1>5, <2>1, <2>2
<1>6. CASE s[x - 1].kind = "#"
  <2>1. HeadOf(s, x) = x - 2 /\ NameLine(s[x - 1])
    BY <1>3, <1>6 DEF HeadOf, Header
  <2>2. x - 1 # 1
    BY <1>1, <1>2, <1>6 DEF Shape
  <2>3. x - 2 \in 1 .. Len(s) - 1 /\ x - 2 + 1 = x - 1
    BY <1>1, <1>2, <2>2
  <2>4. Follows(s[x - 2], s[x - 1])
    <3>1. Follows(s[x - 2], s[x - 2 + 1])
      BY <2>3 DEF Shape
    <3> QED BY <2>3, <3>1
  <2>5. Header(s[x - 2])
    BY <2>1, <2>4, FollowsFacts
  <2>6. x - 2 # 1
    BY <2>3, <2>5, ShapeFacts
  <2> QED BY <1>1, <1>2, <1>4, <1>6, <2>1, <2>2, <2>3, <2>5, <2>6
<1> QED BY <1>5, <1>6

\* Below a header stands a key.
LEMMA HeaderBlock ==
  ASSUME NEW s, Shape(s), NEW h \in 1 .. Len(s), Header(s[h])
  PROVE  \E p \in Pub, x \in 1 .. Len(s) : Declares(s, p, x) /\ HeadOf(s, x) = h
<1>1. Len(s) \in Nat /\ DOMAIN s = 1 .. Len(s) /\ \A k \in 1 .. Len(s) : s[k] \in Line
  BY ShapeFacts
<1>2. h # Len(s)
  BY <1>1 DEF Shape, Ends, NoteLine, Header
<1>3. h + 1 \in 1 .. Len(s) /\ Follows(s[h], s[h + 1])
  BY <1>1, <1>2 DEF Shape
<1>4. s[h + 1].kind = "PublicKey" \/ NameLine(s[h + 1])
  BY <1>3, FollowsFacts
<1>5. ASSUME NEW x \in 1 .. Len(s), s[x].kind = "PublicKey"
      PROVE  s[x].val \in Pub /\ Declares(s, s[x].val, x)
  BY <1>1, <1>5, LineFacts DEF Declares
<1>6. CASE s[h + 1].kind = "PublicKey"
  <2>1. h + 1 - 1 = h
    BY <1>1
  <2>2. s[h].kind # "#"
    BY DEF Header
  <2>3. HeadOf(s, h + 1) = h
    BY <2>1, <2>2 DEF HeadOf
  <2> QED BY <1>3, <1>5, <1>6, <2>3
<1>7. CASE NameLine(s[h + 1])
  <2>1. h + 1 # Len(s)
    BY <1>1, <1>3, <1>7, KeyAssumption DEF Shape, Ends, NoteLine, NameLine
  <2> DEFINE n == Len(s)
  <2>2. n \in Nat /\ h \in 1 .. n /\ h + 1 \in 1 .. n /\ h + 1 # n
    BY <1>1, <1>3, <2>1
  <2> HIDE DEF n
  <2>3. h + 1 \in 1 .. n - 1 /\ h + 1 + 1 = h + 2 /\ h + 2 \in 1 .. n
    BY <2>2
  <2>4. h + 1 \in 1 .. Len(s) - 1 /\ h + 1 + 1 = h + 2 /\ h + 2 \in 1 .. Len(s)
    BY <2>3 DEF n
  <2>5. Follows(s[h + 1], s[h + 2])
    BY <2>4 DEF Shape
  <2>6. s[h + 2].kind = "PublicKey"
    BY <1>7, <2>5, FollowsFacts
  <2>7. h + 2 - 1 = h + 1 /\ h + 2 - 2 = h
    BY <1>1
  <2>8. HeadOf(s, h + 2) = h
    BY <1>7, <2>7 DEF HeadOf, NameLine
  <2> QED BY <1>5, <2>4, <2>6, <2>8
<1> QED BY <1>4, <1>6, <1>7

(***************************************************************************)
(* Sections.                                                               *)
(***************************************************************************)
\* A section ends before the next line that opens one.
LEMMA NextIs ==
  ASSUME NEW s \in Seq(Line), NEW k \in 1 .. Len(s)
  PROVE  /\ NextSection(s, k) \in k + 1 .. Len(s) + 1
         /\ \A j \in k + 1 .. NextSection(s, k) - 1 : ~OpensSection(s[j])
         /\ NextSection(s, k) <= Len(s) => OpensSection(s[NextSection(s, k)])
<1> DEFINE J == {Len(s) + 1} \cup {j \in k + 1 .. Len(s) : OpensSection(s[j])}
           m == Min(J)
<1>1. Len(s) \in Nat /\ J \in SUBSET Nat /\ J # {}
  OBVIOUS
<1>2. m \in J /\ \A y \in J : m <= y
  <2> HIDE DEF J
  <2> QED BY <1>1, MinOf
<1>3. NextSection(s, k) = m
  BY DEF NextSection
<1> HIDE DEF m
<1>4. m \in k + 1 .. Len(s) + 1 /\ (m <= Len(s) => OpensSection(s[m]))
  BY <1>1, <1>2
<1>5. ASSUME NEW j \in k + 1 .. m - 1, OpensSection(s[j])
      PROVE  FALSE
  <2>1. j \in J
    BY <1>1, <1>4, <1>5
  <2> HIDE DEF J
  <2> QED BY <1>1, <1>2, <1>4, <2>1
<1> QED BY <1>3, <1>4, <1>5

LEMMA SectionIs ==
  ASSUME NEW s \in Seq(Line), NEW k \in 1 .. Len(s)
  PROVE  /\ Section(s, k) \in Seq(Line)
         /\ Len(Section(s, k)) = NextSection(s, k) - k
         /\ DOMAIN Section(s, k) = 1 .. NextSection(s, k) - k
         /\ \A j \in 1 .. NextSection(s, k) - k : Section(s, k)[j] = s[k + j - 1]
<1> DEFINE n == NextSection(s, k)
<1>1. n \in k + 1 .. Len(s) + 1 /\ Len(s) \in Nat
  BY NextIs
<1> HIDE DEF n
<1>2. k \in Int /\ n - 1 \in Int /\ \A j \in k .. n - 1 : s[j] \in Line
  BY <1>1
<1>3. /\ SubSeq(s, k, n - 1) \in Seq(Line)
      /\ Len(SubSeq(s, k, n - 1)) = IF k <= n - 1 THEN n - 1 - k + 1 ELSE 0
      /\ \A j \in 1 .. n - 1 - k + 1 : SubSeq(s, k, n - 1)[j] = s[k + j - 1]
  BY <1>2, SubSeqProperties
<1>4. k <= n - 1 /\ n - 1 - k + 1 = n - k
  BY <1>1
<1> DEFINE t == SubSeq(s, k, n - 1)
<1>5. t \in Seq(Line) /\ Len(t) = n - k /\ \A j \in 1 .. n - k : t[j] = s[k + j - 1]
  BY <1>3, <1>4
<1> HIDE DEF t
<1>6. DOMAIN t = 1 .. n - k
  BY <1>5
<1> QED BY <1>5, <1>6 DEF Section, n, t

\* The first setting of a section is where it first occurs.
LEMMA ConfValueIs ==
  ASSUME NEW s \in Seq(Line), NEW k \in 1 .. Len(s), NEW kind,
         NEW y \in k .. NextSection(s, k) - 1, s[y].kind = kind,
         \A j \in k .. y - 1 : s[j].kind # kind
  PROVE  confValue(Section(s, k), kind) = s[y].val
<1> DEFINE t == Section(s, k)
           n == NextSection(s, k)
           K == {j \in DOMAIN t : t[j].kind = kind}
           m == y - k + 1
<1>1. /\ DOMAIN t = 1 .. n - k /\ n \in k + 1 .. Len(s) + 1 /\ Len(s) \in Nat
      /\ \A j \in 1 .. n - k : t[j] = s[k + j - 1]
  BY SectionIs, NextIs
<1> HIDE DEF t, n
<1>2. m \in 1 .. n - k /\ k + m - 1 = y
  BY <1>1 DEF n
<1>3. m \in K /\ K \in SUBSET Nat
  BY <1>1, <1>2
<1>4. ASSUME NEW j \in K
      PROVE  m <= j
  <2>1. j \in 1 .. n - k /\ s[k + j - 1].kind = kind
    BY <1>1
  <2>2. ~(k + j - 1 \in k .. y - 1)
    BY <2>1
  <2> QED BY <1>1, <1>2, <2>1, <2>2
<1> HIDE DEF K, m
<1>5. Min(K) = m
  BY <1>3, <1>4, MinIs
<1>6. t[m] = s[y]
  BY <1>1, <1>2
<1>7. K # {}
  BY <1>3
<1>8. confValue(t, kind) = t[m].val
  BY <1>5, <1>7 DEF confValue, K
<1> QED BY <1>6, <1>8 DEF t

\* A setting a section does not have.
LEMMA ConfValueNone ==
  ASSUME NEW s \in Seq(Line), NEW k \in 1 .. Len(s), NEW kind,
         \A j \in k .. NextSection(s, k) - 1 : s[j].kind # kind
  PROVE  confValue(Section(s, k), kind) = None
<1> DEFINE t == Section(s, k)
           n == NextSection(s, k)
           K == {j \in DOMAIN t : t[j].kind = kind}
<1>1. /\ DOMAIN t = 1 .. n - k /\ n \in k + 1 .. Len(s) + 1 /\ Len(s) \in Nat
      /\ \A j \in 1 .. n - k : t[j] = s[k + j - 1]
  BY SectionIs, NextIs
<1>2. \A j \in k .. n - 1 : s[j].kind # kind
  OBVIOUS
<1> HIDE DEF t, n
<1>3. ASSUME NEW j \in K
      PROVE  FALSE
  <2>1. j \in 1 .. n - k /\ s[k + j - 1].kind = kind
    BY <1>1
  <2>2. k + j - 1 \in k .. n - 1
    BY <1>1, <2>1
  <2> QED BY <1>2, <2>1, <2>2
<1>4. K = {}
  BY <1>3
<1> QED BY <1>4 DEF confValue, K, t

\* The section of a key's header holds the key and its address, and no other key
\* or address.
LEMMA KeySection ==
  ASSUME NEW s, Shape(s), NEW p \in Pub, NEW x, Declares(s, p, x)
  PROVE  LET h == HeadOf(s, x) IN
         /\ h \in 1 .. Len(s) /\ x \in h + 1 .. NextSection(s, h) - 2
         /\ confValue(Section(s, h), "PublicKey") = p
         /\ confValue(Section(s, h), "AllowedIPs") = s[x + 1].val
<1> DEFINE h == HeadOf(s, x)
           n == NextSection(s, h)
<1>1. /\ x \in 1 .. Len(s) /\ s[x].kind = "PublicKey" /\ s[x].val = p
      /\ h \in 2 .. x - 1 /\ Header(s[h])
      /\ \A j \in h + 1 .. x - 1 : NameLine(s[j])
      /\ x + 1 \in 1 .. Len(s) /\ s[x + 1].kind = "AllowedIPs"
      /\ Len(s) \in Nat /\ s \in Seq(Line)
  BY KeyBlock, ShapeFacts DEF Shape
<1> HIDE DEF h
<1>2. h \in 1 .. Len(s)
  BY <1>1
<1>3. /\ n \in h + 1 .. Len(s) + 1
      /\ n <= Len(s) => OpensSection(s[n])
  BY <1>1, <1>2, NextIs
<1> HIDE DEF n
<1>4. n > x + 1
  <2>1. \A j \in h + 1 .. x + 1 : ~OpensSection(s[j])
    <3> SUFFICES ASSUME NEW j \in h + 1 .. x + 1
                 PROVE  s[j].kind \in {"#", "PublicKey", "AllowedIPs"}
      BY DEF OpensSection
    <3>1. j \in h + 1 .. x - 1 \/ j = x \/ j = x + 1
      BY <1>1
    <3> QED BY <1>1, <3>1 DEF NameLine
  <2>2. n \notin h + 1 .. x + 1
    BY <1>1, <1>3, <2>1
  <2> QED BY <1>1, <1>3, <2>2
<1>5. x \in h .. n - 1 /\ x + 1 \in h .. n - 1 /\ x \in h + 1 .. n - 2
  BY <1>1, <1>3, <1>4
<1>6. \A j \in h .. x - 1 : s[j].kind \in {"[peer]", "[peer] #", "#"}
  <2> SUFFICES ASSUME NEW j \in h .. x - 1
               PROVE  s[j].kind \in {"[peer]", "[peer] #", "#"}
    OBVIOUS
  <2>1. j = h \/ j \in h + 1 .. x - 1
    BY <1>1
  <2> QED BY <1>1, <2>1 DEF NameLine, Header
<1>7. \A j \in h .. x + 1 - 1 : s[j].kind # "AllowedIPs"
  <2> SUFFICES ASSUME NEW j \in h .. x + 1 - 1
               PROVE  s[j].kind # "AllowedIPs"
    OBVIOUS
  <2>1. j = x \/ j \in h .. x - 1
    BY <1>1
  <2> QED BY <1>1, <1>6, <2>1
<1>8. \A j \in h .. x - 1 : s[j].kind # "PublicKey"
  BY <1>6
<1>9. confValue(Section(s, h), "PublicKey") = s[x].val
  BY <1>1, <1>2, <1>5, <1>8, ConfValueIs DEF n
<1>10. confValue(Section(s, h), "AllowedIPs") = s[x + 1].val
  BY <1>1, <1>2, <1>5, <1>7, ConfValueIs DEF n
<1> QED BY <1>1, <1>2, <1>5, <1>9, <1>10 DEF h, n

\* `wg` finds a peer where its key is declared.
LEMMA SectionsAre ==
  ASSUME NEW s, Shape(s), NEW p \in Pub
  PROVE  /\ \A x : Declares(s, p, x) => SectionsOf(s, p) = {HeadOf(s, x)}
         /\ (\A x \in 1 .. Len(s) : ~Declares(s, p, x)) => SectionsOf(s, p) = {}
<1>1. DOMAIN s = 1 .. Len(s) /\ s \in Seq(Line)
  BY ShapeFacts DEF Shape
<1>2. ASSUME NEW h \in SectionsOf(s, p)
      PROVE  \E x \in 1 .. Len(s) : Declares(s, p, x) /\ HeadOf(s, x) = h
  <2>1. h \in 1 .. Len(s) /\ Header(s[h]) /\ confValue(Section(s, h), "PublicKey") = p
    BY <1>1, <1>2 DEF SectionsOf, PeerHeaders, Header
  <2>2. PICK q \in Pub, x \in 1 .. Len(s) : Declares(s, q, x) /\ HeadOf(s, x) = h
    BY <2>1, HeaderBlock
  <2>3. confValue(Section(s, h), "PublicKey") = q
    BY <2>2, KeySection
  <2> QED BY <2>1, <2>2, <2>3
<1>3. ASSUME NEW x, Declares(s, p, x)
      PROVE  HeadOf(s, x) \in SectionsOf(s, p)
  <2>1. /\ HeadOf(s, x) \in 1 .. Len(s) /\ Header(s[HeadOf(s, x)])
        /\ confValue(Section(s, HeadOf(s, x)), "PublicKey") = p
    BY <1>3, KeyBlock, KeySection
  <2> QED BY <1>1, <2>1 DEF SectionsOf, PeerHeaders, Header
<1>4. ASSUME NEW x, Declares(s, p, x)
      PROVE  SectionsOf(s, p) = {HeadOf(s, x)}
  <2>1. \A y \in 1 .. Len(s) : Declares(s, p, y) => y = x
    BY <1>1, <1>4 DEF Shape, Declares
  <2>2. \A h \in SectionsOf(s, p) : h = HeadOf(s, x)
    BY <1>2, <2>1
  <2>3. HeadOf(s, x) \in SectionsOf(s, p)
    BY <1>3, <1>4
  <2> QED BY <2>2, <2>3
<1>5. ASSUME \A x \in 1 .. Len(s) : ~Declares(s, p, x)
      PROVE  SectionsOf(s, p) = {}
  BY <1>2, <1>5
<1> QED BY <1>4, <1>5

\* Headers are in the order of the keys below them.
LEMMA HeadOrder ==
  ASSUME NEW s, Shape(s), NEW p \in Pub, NEW q \in Pub, NEW x, NEW y,
         Declares(s, p, x), Declares(s, q, y)
  PROVE  HeadOf(s, y) > HeadOf(s, x) <=> y > x
<1> DEFINE g == HeadOf(s, x)
           h == HeadOf(s, y)
<1>1. /\ x \in 1 .. Len(s) /\ s[x].kind = "PublicKey" /\ g \in 2 .. x - 1
      /\ \A j \in g + 1 .. x - 1 : s[j].kind = "#"
  BY KeyBlock DEF NameLine
<1>2. /\ y \in 1 .. Len(s) /\ s[y].kind = "PublicKey" /\ h \in 2 .. y - 1
      /\ \A j \in h + 1 .. y - 1 : s[j].kind = "#"
  BY KeyBlock DEF NameLine
<1>3. s[g].kind # "PublicKey" /\ s[h].kind # "PublicKey"
  BY KeyBlock DEF Header
<1>4. Len(s) \in Nat
  BY ShapeFacts
<1> HIDE DEF g, h
<1>5. y > x => h > x
  <2>1. x \notin h + 1 .. y - 1 /\ x # h
    BY <1>1, <1>2, <1>3
  <2> QED BY <1>1, <1>2, <1>4, <2>1
<1>6. x > y => g > y
  <2>1. y \notin g + 1 .. x - 1 /\ y # g
    BY <1>1, <1>2, <1>3
  <2> QED BY <1>1, <1>2, <1>4, <2>1
<1>7. x = y => g = h
  BY DEF g, h
<1>8. h > g <=> y > x
  BY <1>1, <1>2, <1>4, <1>5, <1>6, <1>7
<1> QED BY <1>8 DEF g, h

\* `wg` gives a peer the address below its key, unless a later block claims it.
LEMMA WgPeers ==
  ASSUME NEW s, Shape(s)
  PROVE  /\ DOMAIN wgPeers(s) = {p \in Pub : \E x \in 1 .. Len(s) : Declares(s, p, x)}
         /\ \A p \in Pub, x \in 1 .. Len(s) : Declares(s, p, x) =>
              wgPeers(s)[p] = IF \E q \in Pub, y \in 1 .. Len(s) :
                                   Declares(s, q, y) /\ s[y + 1].val = s[x + 1].val /\ y > x
                              THEN None ELSE s[x + 1].val
<1> DEFINE peers == {p \in Pub : SectionsOf(s, p) # {}}
           pos == [p \in peers |-> Max(SectionsOf(s, p))]
           claimed == [p \in peers |-> confValue(Section(s, pos[p]), "AllowedIPs")]
<1>1. wgPeers(s) = [p \in peers |-> IF \E q \in peers : claimed[q] = claimed[p] /\ pos[q] > pos[p]
                                     THEN None ELSE claimed[p]]
  BY DEF wgPeers
<1>2. peers = {p \in Pub : \E x \in 1 .. Len(s) : Declares(s, p, x)}
  BY SectionsAre
<1>3. ASSUME NEW p \in Pub, NEW x \in 1 .. Len(s), Declares(s, p, x)
      PROVE  p \in peers /\ pos[p] = HeadOf(s, x) /\ claimed[p] = s[x + 1].val
  <2>1. p \in peers /\ SectionsOf(s, p) = {HeadOf(s, x)}
    BY <1>3, SectionsAre
  <2>2. HeadOf(s, x) \in Nat
    BY <1>3, KeySection
  <2>3. Max({HeadOf(s, x)}) = HeadOf(s, x)
    <3> DEFINE h == HeadOf(s, x)
    <3>1. h \in Nat /\ {h} \in SUBSET (0 .. h) /\ h \in {h} /\ \A y \in {h} : h >= y
      BY <2>2
    <3> HIDE DEF h
    <3>2. Max({h}) = h
      BY <3>1, MaxIs
    <3> QED BY <3>2 DEF h
  <2>4. pos[p] = HeadOf(s, x)
    BY <2>1, <2>3
  <2>5. claimed[p] = confValue(Section(s, pos[p]), "AllowedIPs")
    BY <2>1
  <2> HIDE DEF pos, claimed
  <2>6. claimed[p] = s[x + 1].val
    BY <1>3, <2>4, <2>5, KeySection
  <2> QED BY <2>1, <2>4, <2>6
<1>4. ASSUME NEW p \in Pub, NEW x \in 1 .. Len(s), Declares(s, p, x)
      PROVE  wgPeers(s)[p] = IF \E q \in Pub, y \in 1 .. Len(s) :
                                   Declares(s, q, y) /\ s[y + 1].val = s[x + 1].val /\ y > x
                              THEN None ELSE s[x + 1].val
  <2>1. p \in peers
    BY <1>3, <1>4
  <2>2. wgPeers(s)[p] = IF \E q \in peers : claimed[q] = claimed[p] /\ pos[q] > pos[p]
                        THEN None ELSE claimed[p]
    BY <1>1, <2>1
  <2> HIDE DEF pos, claimed, peers
  <2>3. ASSUME NEW q \in peers, claimed[q] = claimed[p], pos[q] > pos[p]
        PROVE  \E y \in 1 .. Len(s) : Declares(s, q, y) /\ s[y + 1].val = s[x + 1].val /\ y > x
    <3>1. PICK y \in 1 .. Len(s) : Declares(s, q, y)
      BY <1>2
    <3>2. q \in Pub
      BY <1>2
    <3>3. pos[q] = HeadOf(s, y) /\ claimed[q] = s[y + 1].val
      BY <1>3, <3>1, <3>2
    <3>4. pos[p] = HeadOf(s, x) /\ claimed[p] = s[x + 1].val
      BY <1>3, <1>4
    <3>5. y > x
      BY <1>4, <2>3, <3>1, <3>2, <3>3, <3>4, HeadOrder
    <3> QED BY <2>3, <3>1, <3>3, <3>4, <3>5
  <2>4. ASSUME NEW q \in Pub, NEW y \in 1 .. Len(s),
               Declares(s, q, y), s[y + 1].val = s[x + 1].val, y > x
        PROVE  q \in peers /\ claimed[q] = claimed[p] /\ pos[q] > pos[p]
    <3>1. q \in peers /\ pos[q] = HeadOf(s, y) /\ claimed[q] = s[y + 1].val
      BY <1>3, <2>4
    <3>2. pos[p] = HeadOf(s, x) /\ claimed[p] = s[x + 1].val
      BY <1>3, <1>4
    <3>3. HeadOf(s, y) > HeadOf(s, x)
      BY <1>4, <2>4, HeadOrder
    <3> QED BY <2>4, <3>1, <3>2, <3>3
  <2>5. claimed[p] = s[x + 1].val
    BY <1>3, <1>4
  <2>6. peers \subseteq Pub
    BY <1>2
  <2>7. (\E q \in peers : claimed[q] = claimed[p] /\ pos[q] > pos[p])
          <=> \E q \in Pub, y \in 1 .. Len(s) :
                Declares(s, q, y) /\ s[y + 1].val = s[x + 1].val /\ y > x
    BY <2>3, <2>4, <2>6
  <2> QED BY <2>2, <2>5, <2>7
<1> QED BY <1>1, <1>2, <1>4

(***************************************************************************)
(* Names.                                                                  *)
(***************************************************************************)
\* Induction along the lines of a config.
LEMMA Stepwise ==
  ASSUME NEW n \in Nat, NEW C, 0 \in C, \A k \in 0 .. n - 1 : k \in C => k + 1 \in C
  PROVE  \A k \in 0 .. n : k \in C
<1> DEFINE B == {k \in 0 .. n : k \notin C}
           m == Min(B)
<1>1. SUFFICES ASSUME B # {}
               PROVE  FALSE
  OBVIOUS
<1>2. B \in SUBSET Nat
  OBVIOUS
<1>3. m \in B /\ \A y \in B : m <= y
  <2> HIDE DEF B
  <2> QED BY <1>1, <1>2, MinOf
<1> HIDE DEF m
<1>4. m \in 0 .. n /\ m # 0
  BY <1>3
<1>5. m - 1 \in 0 .. n - 1 /\ m - 1 + 1 = m /\ m - 1 \in 0 .. n
  BY <1>4
<1>6. m - 1 \in C
  BY <1>3, <1>4, <1>5
<1> QED BY <1>3, <1>5, <1>6

Words == Name \cup Pub \cup {None}

\* What the machine knows behind line k: a name it remembers stands in that line,
\* and the peers above it have the names in their blocks.
Knows(s, st, k) ==
  /\ st[k] = [comment |-> st[k].comment, names |-> st[k].names]
  /\ st[k].comment \in Words /\ st[k].names \in [Pub -> Words]
  /\ k > 0 /\ s[k].kind = "[peer]" => st[k].comment = None
  /\ k > 0 /\ NameLine(s[k]) => st[k].comment = s[k].val
  /\ st[k].comment \in Name => k > 0 /\ s[k] = L("#", st[k].comment)
  /\ \A p \in Pub : st[k].names[p] # None => \E x \in 1 .. k : Declares(s, p, x)
  /\ \A p \in Pub, x \in 1 .. k : Declares(s, p, x) =>
       /\ s[x - 1].kind = "#" => st[k].names[p] = s[x - 1].val
       /\ s[x - 1].kind = "[peer]" => st[k].names[p] = None
       /\ st[k].names[p] \in Name => s[x - 1] = L("#", st[k].names[p])

LEMMA KnowsAll ==
  ASSUME NEW s, Shape(s), NEW st, States(s, st)
  PROVE  Knows(s, st, Len(s))
<1> DEFINE n == Len(s)
           C == {k \in 0 .. n : Knows(s, st, k)}
<1>1. n \in Nat /\ \A k \in 1 .. n : s[k] \in Line
  BY ShapeFacts
<1>2. Knows(s, st, 0)
  <2>1. st[0] = [comment |-> None, names |-> NoNames]
    BY DEF States, Start
  <2>2. st[0].comment = None /\ st[0].names = [p \in Pub |-> None]
    BY <2>1 DEF NoNames
  <2> QED BY <2>1, <2>2, NoneAssumption DEF Knows, Words
<1>3. ASSUME NEW k \in 0 .. n - 1, Knows(s, st, k)
      PROVE  Knows(s, st, k + 1)
  <2> DEFINE l == s[k + 1]
             c == st[k].comment
             N == st[k].names
             d == st[k + 1].comment
             M == st[k + 1].names
  <2>1. k + 1 \in 1 .. n /\ k + 1 - 1 = k /\ k + 1 > 0
    BY <1>1
  <2>2. l \in Line
    BY <1>1, <2>1, LineFacts
  <2>3. st[k] = [comment |-> c, names |-> N] /\ c \in Words /\ N \in [Pub -> Words]
    BY <1>3 DEF Knows
  <2>4. st[k + 1] = Scan(st[k], l)
    BY <2>1 DEF States
  <2> HIDE DEF c, N
  <2>5. l.kind = "#" /\ l.val # None =>
          st[k + 1] = [comment |-> l.val, names |-> N] /\ l.val \in Words
    <3> SUFFICES ASSUME l.kind = "#", l.val # None
                 PROVE  st[k + 1] = [comment |-> l.val, names |-> N] /\ l.val \in Words
      OBVIOUS
    <3>1. l.val \in Words
      BY <2>2, LineFacts DEF Words
    <3>2. st[k + 1] = [st[k] EXCEPT !.comment = l.val]
      BY <2>4 DEF Scan
    <3> QED BY <2>3, <3>1, <3>2
  <2>6. l.kind = "[peer]" => st[k + 1] = [comment |-> None, names |-> N]
    BY <2>3, <2>4 DEF Scan
  <2>7. l.kind = "PublicKey" =>
          /\ l.val \in Pub
          /\ st[k + 1] = [comment |-> None,
                          names |-> IF c = None THEN N ELSE [N EXCEPT ![l.val] = c]]
    <3> SUFFICES ASSUME l.kind = "PublicKey"
                 PROVE  /\ l.val \in Pub
                        /\ st[k + 1] = [comment |-> None,
                                        names |-> IF c = None THEN N ELSE [N EXCEPT ![l.val] = c]]
      OBVIOUS
    <3>1. l.val \in Pub
      BY <2>2, LineFacts
    <3>2. st[k + 1] = [comment |-> None,
                       names |-> IF st[k].comment = None THEN st[k].names
                                 ELSE [st[k].names EXCEPT ![l.val] = st[k].comment]]
      BY <2>4 DEF Scan
    <3>3. st[k].comment = c /\ st[k].names = N
      BY DEF c, N
    <3> QED BY <3>1, <3>2, <3>3, Zenon
  <2>8. ~(l.kind = "#" /\ l.val # None) /\ l.kind \notin {"[peer]", "PublicKey"} =>
          st[k + 1] = [comment |-> c, names |-> N]
    BY <2>3, <2>4 DEF Scan
  <2> HIDE DEF l
  <2>9. /\ st[k + 1] = [comment |-> d, names |-> M]
        /\ d \in Words /\ M \in [Pub -> Words]
    <3>1. CASE l.kind = "#" /\ l.val # None
      BY <2>3, <2>5, <3>1
    <3>2. CASE l.kind = "[peer]"
      BY <2>3, <2>6, <3>2 DEF Words
    <3>3. CASE l.kind = "PublicKey"
      <4>1. [N EXCEPT ![l.val] = c] \in [Pub -> Words] /\ None \in Words
        BY <2>3 DEF Words
      <4> QED BY <2>3, <2>7, <3>3, <4>1
    <3>4. CASE ~(l.kind = "#" /\ l.val # None) /\ l.kind \notin {"[peer]", "PublicKey"}
      BY <2>3, <2>8, <3>4
    <3> QED BY <3>1, <3>2, <3>3, <3>4
  <2>10. /\ l.kind = "[peer]" => d = None
         /\ NameLine(l) => d = l.val
    BY <2>5, <2>6, NoneAssumption DEF NameLine
  <2>11. d \in Name => l = L("#", d)
    <3> SUFFICES ASSUME d \in Name
                 PROVE  l = L("#", d)
      OBVIOUS
    <3>1. d # None
      BY NoneAssumption
    <3>2. CASE l.kind = "#" /\ l.val # None
      <4>1. st[k + 1].comment = l.val
        BY <2>5, <3>2
      <4>2. d = l.val
        BY <4>1
      <4> HIDE DEF d
      <4> QED BY <2>2, <3>2, <4>2, LineFacts
    <3>3. CASE ~(l.kind = "#" /\ l.val # None)
      <4>1. l.kind \notin {"[peer]", "PublicKey"} /\ d = c
        BY <2>6, <2>7, <2>8, <3>1, <3>3
      <4>2. k > 0 /\ s[k] = L("#", c)
        BY <1>3, <4>1 DEF Knows, c
      <4>3. k \in 1 .. n - 1 /\ NameLine(s[k])
        BY <1>1, <4>1, <4>2 DEF NameLine, L
      <4>4. Follows(s[k], l)
        BY <4>3 DEF Shape, l
      <4>5. l.kind = "PublicKey"
        BY <4>3, <4>4, FollowsFacts
      <4> QED BY <4>1, <4>5
    <3> QED BY <3>2, <3>3
  <2>12. l.kind # "PublicKey" => M = N
    BY <2>5, <2>6, <2>8
  <2>13. \A p \in Pub : l # L("PublicKey", p) => M[p] = N[p]
    <3> TAKE p \in Pub
    <3> HAVE l # L("PublicKey", p)
    <3>1. CASE l.kind = "PublicKey"
      <4>1. l.val # p /\ l.val \in Pub
        BY <2>2, <2>7, <3>1, LineFacts
      <4>2. M = IF c = None THEN N ELSE [N EXCEPT ![l.val] = c]
        BY <2>7, <3>1
      <4> QED BY <2>3, <4>1, <4>2
    <3> QED BY <2>12, <3>1
  <2>14. ASSUME NEW p \in Pub, l = L("PublicKey", p)
         PROVE  M[p] = c /\ Declares(s, p, k + 1)
    <3>1. l.kind = "PublicKey" /\ l.val = p
      BY <2>14 DEF L
    <3>2. Declares(s, p, k + 1)
      BY <2>1, <2>14, ShapeFacts DEF Declares, l
    <3>3. N[p] = None
      <4> SUFFICES ASSUME N[p] # None
                   PROVE  FALSE
        OBVIOUS
      <4>1. PICK x \in 1 .. k : Declares(s, p, x)
        BY <1>3 DEF Knows, N
      <4>2. x \in 1 .. n /\ x # k + 1
        BY <1>1
      <4> QED BY <2>1, <3>2, <4>1, <4>2 DEF Shape
    <3>4. M = IF c = None THEN N ELSE [N EXCEPT ![p] = c]
      BY <2>7, <3>1
    <3> QED BY <2>3, <3>2, <3>3, <3>4
  <2>15. ASSUME NEW p \in Pub, M[p] # None
         PROVE  \E x \in 1 .. k + 1 : Declares(s, p, x)
    <3>1. CASE l = L("PublicKey", p)
      BY <2>1, <2>14, <3>1
    <3>2. CASE l # L("PublicKey", p)
      <4>1. N[p] # None
        BY <2>13, <2>15, <3>2
      <4>2. PICK x \in 1 .. k : Declares(s, p, x)
        BY <1>3, <4>1 DEF Knows, N
      <4>3. x \in 1 .. k + 1
        BY <2>1
      <4> QED BY <4>2, <4>3
    <3> QED BY <3>1, <3>2
  <2>16. ASSUME NEW p \in Pub, NEW x \in 1 .. k + 1, Declares(s, p, x)
         PROVE  /\ s[x - 1].kind = "#" => M[p] = s[x - 1].val
                /\ s[x - 1].kind = "[peer]" => M[p] = None
                /\ M[p] \in Name => s[x - 1] = L("#", M[p])
    <3>1. CASE x = k + 1
      <4>1. l = L("PublicKey", p)
        BY <2>16, <3>1 DEF Declares, l
      <4>2. M[p] = c /\ Declares(s, p, k + 1)
        BY <2>14, <4>1
      <4>3. x - 1 = k /\ k > 0
        <5>1. x - 1 \in 1 .. x - 1
          BY <2>16, KeyBlock
        <5> QED BY <2>1, <3>1, <5>1
      <4>4. s[k].kind = "#" => NameLine(s[k])
        BY <2>16, <4>3, KeyBlock
      <4>5. /\ s[k].kind = "[peer]" => c = None
            /\ NameLine(s[k]) => c = s[k].val
            /\ c \in Name => s[k] = L("#", c)
        BY <1>3, <4>3 DEF Knows, c
      <4> QED BY <4>2, <4>3, <4>4, <4>5
    <3>2. CASE x # k + 1
      <4>1. x \in 1 .. k
        BY <2>1, <3>2
      <4>2. l # L("PublicKey", p)
        <5> SUFFICES ASSUME l = L("PublicKey", p)
                     PROVE  FALSE
          OBVIOUS
        <5>1. Declares(s, p, k + 1) /\ x \in 1 .. n
          BY <2>1, <2>14, <4>1
        <5> QED BY <2>1, <2>16, <3>2, <5>1 DEF Shape
      <4>3. M[p] = N[p]
        BY <2>13, <4>2
      <4> HIDE DEF M
      <4>4. /\ s[x - 1].kind = "#" => N[p] = s[x - 1].val
            /\ s[x - 1].kind = "[peer]" => N[p] = None
            /\ N[p] \in Name => s[x - 1] = L("#", N[p])
        BY <1>3, <2>16, <4>1 DEF Knows, N
      <4> QED BY <4>3, <4>4
    <3> QED BY <3>1, <3>2
  <2> QED BY <2>1, <2>9, <2>10, <2>11, <2>15, <2>16 DEF Knows, l
<1>4. 0 \in C /\ \A k \in 0 .. n - 1 : k \in C => k + 1 \in C
  BY <1>1, <1>2, <1>3
<1> HIDE DEF C
<1>5. n \in 0 .. n
  BY <1>1
<1> HIDE DEF n
<1>6. n \in C
  BY <1>1, <1>4, <1>5, Stepwise
<1> QED BY <1>6 DEF C, n

\* The name that namesFromConfig finds for a peer is that in its block; without
\* one there it finds none for a peer whose header stands alone.
LEMMA NamesRead ==
  ASSUME NEW s, Shape(s)
  PROVE  /\ namesFromConfig(s) \in [Pub -> Words]
         /\ \A p \in Pub : namesFromConfig(s)[p] # None => \E x \in 1 .. Len(s) : Declares(s, p, x)
         /\ \A p \in Pub, x \in 1 .. Len(s) : Declares(s, p, x) =>
              /\ s[x - 1].kind = "#" => namesFromConfig(s)[p] = s[x - 1].val
              /\ s[x - 1].kind = "[peer]" => namesFromConfig(s)[p] = None
              /\ namesFromConfig(s)[p] \in Name => s[x - 1] = L("#", namesFromConfig(s)[p])
<1>1. PICK st : States(s, st)
  BY StatesExist DEF Shape
<1>2. namesFromConfig(s) = st[Len(s)].names
  BY <1>1 DEF States
<1>3. Knows(s, st, Len(s))
  BY <1>1, KnowsAll
<1> DEFINE N == st[Len(s)].names
<1>4. /\ N \in [Pub -> Words]
      /\ \A p \in Pub : N[p] # None => \E x \in 1 .. Len(s) : Declares(s, p, x)
      /\ \A p \in Pub, x \in 1 .. Len(s) : Declares(s, p, x) =>
           /\ s[x - 1].kind = "#" => N[p] = s[x - 1].val
           /\ s[x - 1].kind = "[peer]" => N[p] = None
           /\ N[p] \in Name => s[x - 1] = L("#", N[p])
  BY <1>3 DEF Knows
<1> HIDE DEF N
<1> QED BY <1>2, <1>4 DEF N

\* A section that holds a key begins with the key's header.
LEMMA InSection ==
  ASSUME NEW s, Shape(s), NEW p \in Pub, NEW x, Declares(s, p, x),
         NEW k \in 1 .. Len(s), OpensSection(s[k]), x \in k .. NextSection(s, k) - 1
  PROVE  k = HeadOf(s, x)
<1> DEFINE h == HeadOf(s, x)
           n == NextSection(s, k)
<1>1. /\ x \in 1 .. Len(s) /\ s[x].kind = "PublicKey" /\ h \in 2 .. x - 1 /\ Header(s[h])
      /\ \A j \in h + 1 .. x - 1 : s[j].kind = "#"
  <2>1. /\ x \in 1 .. Len(s) /\ s[x].kind = "PublicKey"
        /\ HeadOf(s, x) \in 2 .. x - 1 /\ Header(s[HeadOf(s, x)])
        /\ \A j \in HeadOf(s, x) + 1 .. x - 1 : j = x - 1 /\ NameLine(s[j])
    BY KeyBlock
  <2>2. h = HeadOf(s, x)
    OBVIOUS
  <2> HIDE DEF h, n
  <2> QED BY <2>1, <2>2, Zenon DEF NameLine
<1>2. Len(s) \in Nat /\ n \in k + 1 .. Len(s) + 1 /\ \A j \in k + 1 .. n - 1 : ~OpensSection(s[j])
  BY NextIs, ShapeFacts DEF Shape
<1>3. x \in k .. n - 1
  OBVIOUS
<1> HIDE DEF h, n
<1>4. ~(k > h)
  <2> SUFFICES ASSUME k > h
               PROVE  FALSE
    OBVIOUS
  <2>1. k \in h + 1 .. x - 1 \/ k = x
    BY <1>1, <1>2, <1>3
  <2> QED BY <1>1, <2>1 DEF OpensSection
<1>5. ~(k < h)
  <2> SUFFICES ASSUME k < h
               PROVE  FALSE
    OBVIOUS
  <2>1. h \in k + 1 .. n - 1
    BY <1>1, <1>2, <1>3
  <2> QED BY <1>1, <1>2, <2>1 DEF OpensSection, Header
<1>6. k = h
  BY <1>1, <1>2, <1>4, <1>5
<1> QED BY <1>6 DEF h

\* A section holds one key.
LEMMA OnlyKey ==
  ASSUME NEW s, Shape(s), NEW p \in Pub, NEW x, Declares(s, p, x),
         NEW y \in HeadOf(s, x) .. NextSection(s, HeadOf(s, x)) - 1, s[y].kind = "PublicKey"
  PROVE  y = x
<1> DEFINE h == HeadOf(s, x)
           n == NextSection(s, h)
<1>1. /\ h \in 1 .. Len(s) /\ Header(s[h]) /\ x \in 1 .. Len(s)
  BY KeyBlock, KeySection
<1>2. n \in h + 1 .. Len(s) + 1 /\ Len(s) \in Nat /\ \A k \in 1 .. Len(s) : s[k] \in Line
  BY <1>1, NextIs, ShapeFacts DEF Shape
<1>3. y \in h .. n - 1
  OBVIOUS
<1>4. OpensSection(s[h])
  BY <1>1 DEF Header, OpensSection
<1> HIDE DEF n
<1>5. y \in 1 .. Len(s)
  <2> HIDE DEF h
  <2> QED BY <1>1, <1>2, <1>3
<1>6. PICK q \in Pub : s[y] = L("PublicKey", q)
  BY <1>2, <1>5, LineFacts
<1>7. Declares(s, q, y)
  BY <1>5, <1>6, ShapeFacts DEF Declares
<1>8. HeadOf(s, y) = h
  <2>1. y \in h .. NextSection(s, h) - 1
    OBVIOUS
  <2> HIDE DEF h
  <2> QED BY <1>1, <1>4, <1>7, <2>1, InSection
<1>9. h \in Int /\ x \in Int /\ y \in Int
  BY <1>1, <1>2, <1>5
<1>10. ~(y > x) /\ ~(x > y)
  BY <1>7, <1>8, <1>9, HeadOrder
<1> QED BY <1>9, <1>10

\* Where no comment mentions a peer, only the line that declares it does.
LEMMA OnlyMention ==
  ASSUME NEW s, Shape(s), NEW p \in Pub, L("#", p) \notin Range(s),
         NEW k \in 1 .. Len(s), Mentions(s[k], p)
  PROVE  Declares(s, p, k)
<1>1. DOMAIN s = 1 .. Len(s) /\ s[k] \in Line /\ s[k].val = p
  BY ShapeFacts DEF Mentions
<1>2. s[k] # L("#", p)
  BY <1>1 DEF Range
<1>3. s[k].kind = "PublicKey"
  BY <1>1, <1>2, LineFacts, KeyAssumption, NoneAssumption DEF Kinds
<1> QED BY <1>1, <1>3, LineFacts DEF Declares

\* The name in the block of a key.
NameOf(s, x) == IF s[x - 1].kind = "#" THEN s[x - 1].val ELSE None

LEMMA OwnNameIs ==
  ASSUME NEW i \in Iface, Shape(conf[i]), NEW p \in Pub, NEW x, Declares(conf[i], p, x)
  PROVE  OwnName(i, p) = NameOf(conf[i], x)
<1> DEFINE s == conf[i]
           h == HeadOf(s, x)
           n == NextSection(s, h)
           t == Section(s, h)
           cs == {k \in DOMAIN t : /\ t[k].kind = "#"
                                   /\ \E j \in DOMAIN t : j > k /\ t[j].kind = "PublicKey"}
<1>1. /\ h \in 1 .. Len(s) /\ x \in h + 1 .. n - 2
      /\ x \in 1 .. Len(s) /\ s[x].kind = "PublicKey"
      /\ \A j \in h + 1 .. x - 1 : j = x - 1 /\ NameLine(s[j])
      /\ Header(s[h])
      /\ s[x - 1].kind = "#" => h = x - 2 /\ NameLine(s[x - 1])
      /\ s[x - 1].kind # "#" => h = x - 1
  BY KeyBlock, KeySection
<1>2. /\ Len(s) \in Nat /\ n \in h + 1 .. Len(s) + 1
      /\ DOMAIN t = 1 .. n - h /\ \A j \in 1 .. n - h : t[j] = s[h + j - 1]
  BY <1>1, NextIs, SectionIs, ShapeFacts DEF Shape
<1> HIDE DEF n, t, h, s
<1>3. h \in Int /\ n \in Int /\ x \in Int
  BY <1>1, <1>2
<1>4. ASSUME NEW j \in 1 .. n - h, t[j].kind = "PublicKey"
      PROVE  h + j - 1 = x
  <2>1. s[h + j - 1].kind = "PublicKey"
    BY <1>2, <1>4
  <2>2. h + j - 1 \in h .. n - 1
    BY <1>3
  <2> QED BY <2>1, <2>2, OnlyKey DEF s, h, n
<1> USE DEF n, t, h, s
<1>5. OwnName(i, p) = IF cs = {} THEN None ELSE t[Max(cs)].val
  <2>1. SectionsOf(s, p) = {h}
    BY SectionsAre
  <2>2. Max({h}) = h
    <3>1. h \in Nat /\ {h} \in SUBSET (0 .. h) /\ h \in {h} /\ \A y \in {h} : h >= y
      BY <1>1
    <3> HIDE DEF h
    <3> QED BY <3>1, MaxIs
  <2>3. Max(SectionsOf(s, p)) = h
    BY <2>1, <2>2, Zenon
  <2>4. Section(conf[i], Max(SectionsOf(conf[i], p))) = t
    BY <2>3, Zenon
  <2> HIDE DEF t
  <2> QED BY <2>4 DEF OwnName
<1> HIDE DEF n, t, h, s
<1>6. CASE s[x - 1].kind = "#"
  <2>1. h = x - 2 /\ 2 \in 1 .. n - h /\ 3 \in 1 .. n - h
    BY <1>1, <1>2, <1>6
  <2>2. t[2] = s[x - 1] /\ t[3] = s[x]
    <3>1. h + 2 - 1 = x - 1 /\ h + 3 - 1 = x
      BY <1>1, <2>1
    <3> QED BY <1>2, <2>1, <3>1
  <2>3. 2 \in cs
    <3>1. 2 \in DOMAIN t /\ 3 \in DOMAIN t /\ t[2].kind = "#" /\ t[3].kind = "PublicKey" /\ 3 > 2
      BY <1>1, <1>2, <1>6, <2>1, <2>2
    <3> QED BY <3>1
  <2>4. \A k \in cs : k \in 1 .. 2
    <3> TAKE k \in cs
    <3>1. PICK j \in 1 .. n - h : j > k /\ t[j].kind = "PublicKey"
      BY <1>2
    <3>2. h + j - 1 = x /\ k \in 1 .. n - h
      BY <1>2, <1>4, <3>1
    <3> HIDE DEF cs
    <3> QED BY <1>3, <2>1, <3>1, <3>2
  <2> HIDE DEF cs
  <2>5. Max(cs) = 2
    <3>1. cs \in SUBSET (0 .. 2) /\ \A y \in cs : 2 >= y
      BY <2>4
    <3> QED BY <2>3, <3>1, MaxIs
  <2>6. OwnName(i, p) = s[x - 1].val
    BY <1>5, <2>2, <2>3, <2>5
  <2> QED BY <1>6, <2>6 DEF NameOf, s
<1>7. CASE s[x - 1].kind # "#"
  <2>1. h = x - 1
    BY <1>1, <1>7
  <2>2. ASSUME NEW k \in cs
        PROVE  FALSE
    <3>1. PICK j \in DOMAIN t : j > k /\ t[j].kind = "PublicKey"
      OBVIOUS
    <3>2. k \in 1 .. n - h /\ j \in 1 .. n - h /\ t[k].kind = "#"
      BY <1>2
    <3>3. k = 1
      BY <1>1, <1>2, <1>4, <2>1, <3>1, <3>2
    <3>4. t[1] = s[h]
      <4>1. h + 1 - 1 = h
        BY <1>1
      <4> QED BY <1>2, <3>2, <3>3, <4>1
    <3> QED BY <1>1, <3>2, <3>3, <3>4 DEF Header
  <2>3. cs = {}
    BY <2>2
  <2> HIDE DEF cs
  <2> QED BY <1>5, <1>7, <2>3 DEF NameOf, s
<1> QED BY <1>6, <1>7

\* Whose header stands alone has the name in its block.
LEMMA OwnNames ==
  ASSUME AdminInv
  PROVE  NamesAreOwn
<1> SUFFICES ASSUME NEW i \in Iface, NEW p \in Peers(i), Plain(i, p)
             PROVE  namesFromConfig(conf[i])[p] = OwnName(i, p)
  BY DEF NamesAreOwn
<1> DEFINE s == conf[i]
<1>1. Shape(s)
  BY DEF AdminInv
<1>2. p \in Pub /\ \E x \in 1 .. Len(s) : Declares(s, p, x)
  BY <1>1, WgPeers DEF Peers
<1>3. PICK x \in 1 .. Len(s) : Declares(s, p, x)
  BY <1>2
<1>4. s[HeadOf(s, x)].kind = "[peer]"
  BY <1>1, <1>2, <1>3, SectionsAre DEF Plain
<1>5. OwnName(i, p) = NameOf(s, x)
  BY <1>1, <1>2, <1>3, OwnNameIs
<1>6. /\ s[x - 1].kind = "#" => namesFromConfig(s)[p] = s[x - 1].val
      /\ s[x - 1].kind = "[peer]" => namesFromConfig(s)[p] = None
  BY <1>1, <1>2, <1>3, NamesRead
<1>7. s[x - 1].kind # "#" => HeadOf(s, x) = x - 1
  BY DEF HeadOf
<1> HIDE DEF s
<1>8. namesFromConfig(s)[p] = NameOf(s, x)
  BY <1>4, <1>6, <1>7 DEF NameOf
<1> QED BY <1>5, <1>8 DEF s

(***************************************************************************)
(* A block more.                                                           *)
(***************************************************************************)
\* Block b declares p in line y, and nothing else.
Block(b, p, y) ==
  /\ b \in Seq(Line) /\ y \in 2 .. Len(b)
  /\ Blank(b[1]) \/ Header(b[1])
  /\ \A k \in 1 .. Len(b) : b[k].kind # "[interface]"
  /\ \A k \in 1 .. Len(b) - 1 : Follows(b[k], b[k + 1])
  /\ Ends(b[Len(b)])
  /\ \A k \in 1 .. Len(b) : b[k].kind = "PublicKey" <=> k = y
  /\ b[y] = L("PublicKey", p)

LEMMA Appended ==
  ASSUME NEW s, Shape(s), NEW p \in Pub, \A x : ~Declares(s, p, x),
         NEW b, NEW y, Block(b, p, y)
  PROVE  /\ Shape(s \o b)
         /\ \A q \in Pub : \A x : Declares(s \o b, q, x) <=> Declares(s, q, x) \/ (q = p /\ x = Len(s) + y)
         /\ \A q \in Pub : \A n : Named(s \o b, q, n) <=> Named(s, q, n) \/ (q = p /\ b[y - 1] = L("#", n))
<1> DEFINE t == s \o b
           n == Len(s)
           m == Len(b)
<1>1. /\ n \in Nat /\ n > 0 /\ DOMAIN s = 1 .. n /\ \A k \in 1 .. n : s[k] \in Line
      /\ s \in Seq(Line) /\ b \in Seq(Line) /\ y \in 2 .. m
  BY ShapeFacts DEF Shape, Block
<1>2. m \in Nat /\ DOMAIN b = 1 .. m /\ y \in 2 .. m /\ \A k \in 1 .. m : b[k] \in Line
  BY <1>1
<1>3. /\ t \in Seq(Line) /\ Len(t) = n + m
      /\ \A k \in 1 .. n : t[k] = s[k]
      /\ \A k \in n + 1 .. n + m : t[k] = b[k - n]
  BY <1>1, <1>2
<1>4. DOMAIN t = 1 .. n + m
  BY <1>1, <1>2, <1>3
<1> HIDE DEF t
<1>5. /\ \A k \in 1 .. n : s[k].kind = "[interface]" <=> k = 1
      /\ \A k \in 1 .. n - 1 : Follows(s[k], s[k + 1])
      /\ Ends(s[n])
  BY DEF Shape
<1>6. /\ Blank(b[1]) \/ Header(b[1])
      /\ \A k \in 1 .. m : b[k].kind # "[interface]"
      /\ \A k \in 1 .. m - 1 : Follows(b[k], b[k + 1])
      /\ Ends(b[m])
      /\ \A k \in 1 .. m : b[k].kind = "PublicKey" <=> k = y
      /\ b[y] = L("PublicKey", p)
  BY DEF Block
<1> HIDE DEF n, m
<1>7. \A k \in n + 1 .. n + m : k - n \in 1 .. m
  BY <1>1, <1>2
<1>8. \A q \in Pub : \A x : Declares(t, q, x) <=> Declares(s, q, x) \/ (q = p /\ x = n + y)
  <2> TAKE q \in Pub
  <2> TAKE x
  <2>1. CASE x \in 1 .. n
    <3>1. x # n + y /\ x \in 1 .. n + m
      BY <1>1, <1>2, <2>1
    <3> QED BY <1>1, <1>3, <1>4, <2>1, <3>1 DEF Declares
  <2>2. CASE x \in n + 1 .. n + m
    <3>1. x - n \in 1 .. m /\ (x - n = y <=> x = n + y) /\ x \notin 1 .. n /\ x \in 1 .. n + m
      BY <1>1, <1>2, <2>2
    <3>2. b[x - n] = L("PublicKey", q) <=> q = p /\ x - n = y
      <4>1. b[x - n] = L("PublicKey", q) => b[x - n].kind = "PublicKey" /\ b[x - n].val = q
        BY DEF L
      <4>2. b[y].val = p
        <5>1. b[y] = L("PublicKey", p)
          BY <1>6
        <5> QED BY <5>1 DEF L
      <4>3. ASSUME b[x - n] = L("PublicKey", q)
            PROVE  q = p /\ x - n = y
        <5>1. x - n = y
          BY <1>6, <3>1, <4>1, <4>3
        <5> QED BY <4>1, <4>2, <4>3, <5>1
      <4> QED BY <1>6, <4>3
    <3> QED BY <1>1, <1>3, <1>4, <2>2, <3>1, <3>2 DEF Declares
  <2>3. CASE x \notin 1 .. n /\ x \notin n + 1 .. n + m
    <3>1. x \notin 1 .. n + m /\ x # n + y
      BY <1>1, <1>2, <2>3
    <3> QED BY <1>1, <1>4, <2>3, <3>1 DEF Declares
  <2> QED BY <2>1, <2>2, <2>3
<1>9. Shape(t)
  <2>1. Len(t) > 0
    BY <1>1, <1>2, <1>3
  <2>2. \A k \in 1 .. Len(t) : t[k].kind = "[interface]" <=> k = 1
    <3> TAKE k \in 1 .. Len(t)
    <3>1. CASE k \in 1 .. n
      BY <1>3, <1>5, <3>1
    <3>2. CASE k \in n + 1 .. n + m
      <4>1. k # 1
        BY <1>1, <3>2
      <4> QED BY <1>3, <1>6, <1>7, <3>2, <4>1
    <3> QED BY <1>1, <1>2, <1>3, <3>1, <3>2
  <2>3. \A k \in 1 .. Len(t) - 1 : Follows(t[k], t[k + 1])
    <3> TAKE k \in 1 .. Len(t) - 1
    <3>1. CASE k \in 1 .. n - 1
      <4>1. k \in 1 .. n /\ k + 1 \in 1 .. n
        BY <1>1, <3>1
      <4> QED BY <1>3, <1>5, <3>1, <4>1
    <3>2. CASE k = n
      <4>1. k \in 1 .. n /\ k + 1 \in n + 1 .. n + m /\ k + 1 - n = 1
        BY <1>1, <1>2, <3>2
      <4>2. t[k] = s[n] /\ t[k + 1] = b[1]
        BY <1>3, <3>2, <4>1
      <4> QED BY <1>5, <1>6, <4>2 DEF Follows
    <3>3. CASE k \in n + 1 .. n + m - 1
      <4>1. /\ k \in n + 1 .. n + m /\ k + 1 \in n + 1 .. n + m
            /\ k - n \in 1 .. m - 1 /\ k + 1 - n = k - n + 1
        BY <1>1, <1>2, <3>3
      <4>2. t[k] = b[k - n] /\ t[k + 1] = b[k - n + 1]
        BY <1>1, <1>2, <1>3, <4>1
      <4>3. Follows(b[k - n], b[k - n + 1])
        BY <1>6, <4>1
      <4> QED BY <4>2, <4>3
    <3> QED BY <1>1, <1>2, <1>3, <3>1, <3>2, <3>3
  <2>4. Ends(t[Len(t)])
    <3> PICK k : k = Len(t)
      OBVIOUS
    <3>1. k \in n + 1 .. n + m /\ k - n = m
      BY <1>1, <1>2, <1>3
    <3>2. \A j \in n + 1 .. n + m : t[j] = b[j - n]
      BY <1>3
    <3>3. t[k] = b[k - n]
      BY <3>1, <3>2
    <3> QED BY <1>6, <3>1, <3>3, Zenon
  <2>5. \A q \in Pub, x, z \in 1 .. Len(t) : Declares(t, q, x) /\ Declares(t, q, z) => x = z
    <3> TAKE q \in Pub, x, z \in 1 .. Len(t)
    <3> HAVE Declares(t, q, x) /\ Declares(t, q, z)
    <3>1. CASE q = p
      BY <1>8, <3>1
    <3>2. CASE q # p
      <4>1. Declares(s, q, x) /\ Declares(s, q, z) /\ x \in 1 .. Len(s) /\ z \in 1 .. Len(s)
        BY <1>1, <1>8, <3>2 DEF Declares, n
      <4> QED BY <4>1 DEF Shape
    <3> QED BY <3>1, <3>2
  <2> QED BY <1>3, <2>1, <2>2, <2>3, <2>4, <2>5 DEF Shape
<1>10. \A q \in Pub : \A w : Named(t, q, w) <=> Named(s, q, w) \/ (q = p /\ b[y - 1] = L("#", w))
  <2> TAKE q \in Pub
  <2> TAKE w
  <2>1. \A x : Declares(s, q, x) => x \in 1 .. Len(s) /\ x \in 1 .. Len(t) /\ t[x - 1] = s[x - 1]
    <3> TAKE x
    <3> HAVE Declares(s, q, x)
    <3>1. x \in 1 .. n /\ HeadOf(s, x) \in 2 .. x - 1
      BY KeyBlock DEF n
    <3>2. x - 1 \in 1 .. n /\ x \in 1 .. n + m
      BY <1>1, <1>2, <3>1
    <3> QED BY <1>3, <3>1, <3>2 DEF n
  <2>2. PICK z : z = n + y
    OBVIOUS
  <2>3. \A x : Declares(t, q, x) <=> Declares(s, q, x) \/ (q = p /\ x = z)
    BY <1>8, <2>2
  <2>4. z \in 1 .. Len(t) /\ t[z - 1] = b[y - 1]
    <3>1. z - 1 \in n + 1 .. n + m /\ z - 1 - n = y - 1 /\ z \in 1 .. n + m
      BY <1>1, <1>2, <2>2
    <3>2. t[z - 1] = b[z - 1 - n]
      BY <1>3, <3>1
    <3> QED BY <1>3, <3>1, <3>2
  <2>5. Named(s, q, w) => Named(t, q, w)
    BY <2>3, <2>1 DEF Named
  <2>6. q = p /\ b[y - 1] = L("#", w) => Named(t, q, w)
    <3> SUFFICES ASSUME q = p, b[y - 1] = L("#", w)
                 PROVE  Named(t, q, w)
      OBVIOUS
    <3>1. Declares(t, q, z) /\ z \in 1 .. Len(t)
      BY <2>3, <2>4
    <3>2. t[z - 1] = L("#", w)
      BY <2>4
    <3> QED BY <3>1, <3>2 DEF Named
  <2>7. ASSUME Named(t, q, w)
        PROVE  Named(s, q, w) \/ (q = p /\ b[y - 1] = L("#", w))
    <3>1. PICK x \in 1 .. Len(t) : Declares(t, q, x) /\ t[x - 1] = L("#", w)
      BY <2>7 DEF Named
    <3>2. CASE Declares(s, q, x)
      <4>1. x \in 1 .. Len(s) /\ s[x - 1] = L("#", w)
        BY <2>1, <3>1, <3>2
      <4> QED BY <3>2, <4>1 DEF Named
    <3>3. CASE q = p /\ x = z
      <4>1. t[x - 1] = b[y - 1]
        BY <2>4, <3>3
      <4> QED BY <3>1, <3>3, <4>1
    <3>4. Declares(s, q, x) \/ (q = p /\ x = z)
      BY <2>3, <3>1
    <3> QED BY <3>2, <3>3, <3>4
  <2> QED BY <2>5, <2>6, <2>7
<1> HIDE DEF t
<1>11. /\ Shape(t)
       /\ \A q \in Pub : \A x : Declares(t, q, x) <=> Declares(s, q, x) \/ (q = p /\ x = Len(s) + y)
       /\ \A q \in Pub : \A w : Named(t, q, w) <=> Named(s, q, w) \/ (q = p /\ b[y - 1] = L("#", w))
  BY <1>8, <1>9, <1>10 DEF n
<1> QED BY <1>11 DEF t

(***************************************************************************)
(* A block less.                                                           *)
(***************************************************************************)
\* The line that was in place of line y, had those between a and e not been cut.
Was(a, e, y) == IF y <= a THEN y ELSE y + (e - a - 1)

\* s loses its lines between a and e, and is t.
Loses(s, t, a, e) ==
  /\ a \in 1 .. Len(s) /\ e \in a + 1 .. Len(s) + 1
  /\ t \in Seq(Line) /\ Len(t) = a + (Len(s) - e + 1)
  /\ \A y \in 1 .. Len(t) : t[y] = s[Was(a, e, y)]

LEMMA CutIs ==
  ASSUME NEW s, Shape(s), NEW h \in 1 .. Len(s), s[h].kind = "[peer]"
  PROVE  \E a \in 1 .. h - 1 :
           /\ Loses(s, Cut(s, h, NextSection(s, h)), a, NextSection(s, h))
           /\ Ends(s[a]) /\ \A j \in a + 1 .. h - 1 : Blank(s[j])
<1> DEFINE n == Len(s)
           e == NextSection(s, h)
<1>1. n \in Nat /\ h \in 1 .. n /\ \A k \in 1 .. n : s[k] \in Line
  BY ShapeFacts
<1>2. e \in h + 1 .. n + 1
  BY NextIs DEF Shape
<1>3. h # 1
  BY ShapeFacts DEF Header
<1>4. s[1].kind = "[interface]" /\ \A k \in 1 .. n - 1 : Follows(s[k], s[k + 1])
  BY <1>1 DEF Shape
<1> HIDE DEF n, e
<1> DEFINE J == {0} \cup {j \in 1 .. h - 1 : ~Blank(s[j])}
           a == Max(J)
           t == Cut(s, h, e)
<1>5. n \in Int /\ h \in Int /\ 1 < h /\ h <= n
  <2>1. n \in Nat /\ h \in 1 .. n
    BY <1>1
  <2> QED BY <1>3, <2>1
<1>6. 1 \in J
  <2>1. 1 \in 1 .. h - 1
    BY <1>5
  <2>2. ~Blank(s[1])
    BY <1>4, BlankFacts DEF Kinds
  <2> QED BY <2>1, <2>2
<1>7. a \in J /\ \A j \in J : a >= j
  <2>1. h - 1 \in Nat /\ \A j \in J : j \in 0 .. h - 1
    BY <1>5
  <2> HIDE DEF J
  <2> QED BY <1>6, <2>1, MaxOf
<1> HIDE DEF a, J
<1>8. a \in 1 .. h - 1 /\ ~Blank(s[a])
  <2>1. a # 0
    BY <1>6, <1>7
  <2> QED BY <1>7, <2>1 DEF J
<1>9. \A j \in a + 1 .. h - 1 : Blank(s[j])
  <2> SUFFICES ASSUME NEW j \in a + 1 .. h - 1, ~Blank(s[j])
               PROVE  FALSE
    OBVIOUS
  <2>1. j \in J
    <3>1. j \in 1 .. h - 1
      BY <1>5, <1>8
    <3> QED BY <3>1 DEF J
  <2>2. a >= j
    BY <1>7, <2>1
  <2> QED BY <1>5, <1>8, <2>2
<1>10. Ends(s[a])
  <2>1. a \in 1 .. n - 1 /\ a + 1 \in 1 .. n
    BY <1>5, <1>8
  <2>2. Follows(s[a], s[a + 1])
    BY <1>4, <2>1
  <2>3. Blank(s[a + 1]) \/ s[a + 1].kind = "[peer]"
    <3>1. a + 1 = h \/ a + 1 \in a + 1 .. h - 1
      BY <1>5, <1>8
    <3>2. s[h].kind = "[peer]"
      OBVIOUS
    <3> QED BY <1>9, <3>1, <3>2
  <2> QED BY <1>8, <2>2, <2>3, FollowsFacts
<1> DEFINE u == SubSeq(s, 1, a)
           v == SubSeq(s, e, n)
<1>11. t = u \o v
  BY DEF Cut, a, J, n, Blank
<1>12. u \in Seq(Line) /\ Len(u) = a /\ \A j \in 1 .. a : u[j] = s[j]
  <2>1. a \in Int /\ 1 \in Int /\ \A j \in 1 .. a : s[j] \in Line
    <3>1. \A j \in 1 .. a : j \in 1 .. n
      BY <1>5, <1>8
    <3> QED BY <1>1, <1>8, <3>1
  <2>2. /\ u \in Seq(Line) /\ Len(u) = IF 1 <= a THEN a - 1 + 1 ELSE 0
        /\ \A j \in 1 .. a - 1 + 1 : u[j] = s[1 + j - 1]
    BY <2>1, SubSeqProperties
  <2> HIDE DEF u
  <2>3. a - 1 + 1 = a /\ 1 <= a /\ \A j \in 1 .. a : 1 + j - 1 = j
    BY <1>5, <1>8
  <2> QED BY <2>2, <2>3
<1>13. v \in Seq(Line) /\ Len(v) = n - e + 1 /\ \A j \in 1 .. n - e + 1 : v[j] = s[e + j - 1]
  <2>1. e \in Int /\ n \in Int /\ \A j \in e .. n : s[j] \in Line
    <3>1. e \in Int /\ n \in Int /\ \A j \in e .. n : j \in 1 .. n
      BY <1>5, <1>2
    <3> QED BY <1>1, <3>1
  <2>2. /\ v \in Seq(Line) /\ Len(v) = IF e <= n THEN n - e + 1 ELSE 0
        /\ \A j \in 1 .. n - e + 1 : v[j] = s[e + j - 1]
    BY <2>1, SubSeqProperties
  <2> HIDE DEF v
  <2>3. (IF e <= n THEN n - e + 1 ELSE 0) = n - e + 1
    BY <1>5, <1>2
  <2> QED BY <2>2, <2>3
<1> HIDE DEF u, v, t
<1>14. t \in Seq(Line) /\ Len(t) = a + (n - e + 1)
  <2>1. t \in Seq(Line) /\ Len(t) = Len(u) + Len(v)
    <3>1. u \in Seq(Line) /\ v \in Seq(Line)
      BY <1>12, <1>13
    <3>2. u \o v \in Seq(Line) /\ Len(u \o v) = Len(u) + Len(v)
      BY <3>1, ConcatProperties
    <3> QED BY <1>11, <3>2
  <2> QED BY <1>12, <1>13, <2>1
<1>15. ASSUME NEW y \in 1 .. Len(t)
       PROVE  t[y] = s[Was(a, e, y)]
  <2>1. a \in Int /\ n \in Int /\ e \in Int /\ y \in Int /\ y \in 1 .. a + (n - e + 1)
    BY <1>5, <1>2, <1>8, <1>14
  <2>2. CASE y <= a
    <3>1. y \in 1 .. a
      BY <2>1, <2>2
    <3>2. t[y] = u[y]
      BY <1>11, <1>12, <1>13, <3>1
    <3> QED BY <1>12, <2>2, <3>1, <3>2 DEF Was
  <2>3. CASE ~(y <= a)
    <3>1. y - a \in 1 .. n - e + 1 /\ e + (y - a) - 1 = y + (e - a - 1)
      BY <2>1, <2>3
    <3>2. t[y] = v[y - a]
      BY <1>11, <1>12, <1>13, <2>1, <2>3
    <3>3. v[y - a] = s[e + (y - a) - 1]
      BY <1>13, <3>1
    <3>4. s[e + (y - a) - 1] = s[y + (e - a - 1)]
      BY <3>1, Zenon
    <3>5. Was(a, e, y) = y + (e - a - 1)
      BY <2>3 DEF Was
    <3> QED BY <3>2, <3>3, <3>4, <3>5
  <2> QED BY <2>2, <2>3
<1>16. a \in 1 .. n /\ e \in a + 1 .. n + 1
  BY <1>5, <1>2, <1>8
<1>17. Loses(s, t, a, e)
  BY <1>14, <1>15, <1>16 DEF Loses, n
<1> QED BY <1>8, <1>9, <1>10, <1>17 DEF t, e

\* The lines that are left keep their order, and stand next to each other as before
\* but for the cut.
InOrder(s, t, a, e) ==
  /\ \A y \in 1 .. Len(t) : Was(a, e, y) \in 1 .. Len(s) /\ Was(a, e, y) \notin a + 1 .. e - 1
  /\ \A y \in 1 .. Len(t) - 1 : y # a => Was(a, e, y + 1) = Was(a, e, y) + 1
  /\ Was(a, e, a) = a /\ Was(a, e, a + 1) = e
  /\ \A y, z \in 1 .. Len(t) : y < z <=> Was(a, e, y) < Was(a, e, z)
  /\ \A x \in 1 .. Len(s) :
       x \notin a + 1 .. e - 1 => \E y \in 1 .. Len(t) : Was(a, e, y) = x

LEMMA WasFacts ==
  ASSUME NEW s, NEW t, NEW a, NEW e, Len(s) \in Nat, Loses(s, t, a, e)
  PROVE  InOrder(s, t, a, e)
<1> DEFINE n == Len(s)
           m == Len(t)
<1>1. /\ n \in Int /\ a \in Int /\ e \in Int /\ 1 <= a /\ a < e /\ e <= n + 1
  BY DEF Loses
<1>2. m = a + (n - e + 1)
  BY DEF Loses
<1> HIDE DEF n, m
<1>3. \A y \in 1 .. m : Was(a, e, y) \in 1 .. n /\ Was(a, e, y) \notin a + 1 .. e - 1
  BY <1>1, <1>2 DEF Was
<1>4. \A y \in 1 .. m - 1 : y # a => Was(a, e, y + 1) = Was(a, e, y) + 1
  BY <1>1, <1>2 DEF Was
<1>5. Was(a, e, a) = a /\ Was(a, e, a + 1) = e
  BY <1>1 DEF Was
<1>6. \A y, z \in 1 .. m : y < z <=> Was(a, e, y) < Was(a, e, z)
  BY <1>1, <1>2 DEF Was
<1>7. ASSUME NEW x \in 1 .. n, x \notin a + 1 .. e - 1
      PROVE  \E y \in 1 .. m : Was(a, e, y) = x
  <2>1. CASE x <= a
    <3>1. x \in 1 .. m /\ Was(a, e, x) = x
      BY <1>1, <1>2, <2>1 DEF Was
    <3> QED BY <3>1
  <2>2. CASE x >= e
    <3>1. x - (e - a - 1) \in 1 .. m /\ Was(a, e, x - (e - a - 1)) = x
      BY <1>1, <1>2, <2>2 DEF Was
    <3> QED BY <3>1
  <2> QED BY <1>1, <1>7, <2>1, <2>2
<1> QED BY <1>3, <1>4, <1>5, <1>6, <1>7 DEF InOrder, n, m

\* Without a section whose header stands alone, and the blank lines above it, a
\* config is one still: its other peers are declared as before.
LEMMA Lost ==
  ASSUME NEW s, Shape(s), NEW h \in 1 .. Len(s), s[h].kind = "[peer]",
         NEW a \in 1 .. h - 1, Ends(s[a]), \A j \in a + 1 .. h - 1 : Blank(s[j]),
         NEW e, e = NextSection(s, h), NEW t, Loses(s, t, a, e)
  PROVE  /\ Shape(t)
         /\ \A q \in Pub, y \in 1 .. Len(t) : Declares(t, q, y) =>
              /\ Declares(s, q, Was(a, e, y)) /\ Was(a, e, y) \notin h .. e - 1
              /\ t[y - 1] = s[Was(a, e, y) - 1] /\ t[y + 1] = s[Was(a, e, y) + 1]
         /\ \A q \in Pub, x \in 1 .. Len(s) : Declares(s, q, x) /\ x \notin h .. e - 1 =>
              \E y \in 1 .. Len(t) : Declares(t, q, y) /\ Was(a, e, y) = x
         /\ \A y, z \in 1 .. Len(t) : y < z <=> Was(a, e, y) < Was(a, e, z)
<1> DEFINE n == Len(s)
           m == Len(t)
           W(y) == Was(a, e, y)
<1>1. n \in Nat /\ DOMAIN s = 1 .. n /\ h \in 1 .. n /\ \A k \in 1 .. n : s[k] \in Line
  BY ShapeFacts
<1>2. e \in h + 1 .. n + 1 /\ (e <= n => OpensSection(s[e]))
  BY NextIs DEF Shape
<1>3. /\ t \in Seq(Line) /\ m = a + (n - e + 1) /\ a \in 1 .. n /\ e \in a + 1 .. n + 1
      /\ \A y \in 1 .. m : t[y] = s[W(y)]
  BY DEF Loses
<1>4. m \in Nat /\ DOMAIN t = 1 .. m
  BY <1>3
<1>5. /\ \A k \in 1 .. n : s[k].kind = "[interface]" <=> k = 1
      /\ \A k \in 1 .. n - 1 : Follows(s[k], s[k + 1])
      /\ Ends(s[n])
      /\ \A q \in Pub, x, z \in 1 .. n : Declares(s, q, x) /\ Declares(s, q, z) => x = z
  BY DEF Shape
<1> HIDE DEF n, m, W
<1>6. /\ \A y \in 1 .. m : W(y) \in 1 .. n /\ W(y) \notin a + 1 .. e - 1
      /\ \A y \in 1 .. m - 1 : y # a => W(y + 1) = W(y) + 1
      /\ W(a) = a /\ W(a + 1) = e
      /\ \A y, z \in 1 .. m : y < z <=> W(y) < W(z)
      /\ \A x \in 1 .. n : x \notin a + 1 .. e - 1 => \E y \in 1 .. m : W(y) = x
  <2>1. Len(s) \in Nat
    BY <1>1 DEF n
  <2>2. InOrder(s, t, a, e)
    BY <2>1, WasFacts, Zenon
  <2> QED BY <2>2, Zenon DEF InOrder, W, n, m
<1>7. /\ a \in Int /\ e \in Int /\ h \in Int /\ 1 <= a /\ a < h /\ h < e /\ e <= n + 1
  BY <1>1, <1>2
<1>8. ASSUME NEW q \in Pub, NEW y \in 1 .. m, Declares(t, q, y)
      PROVE  Declares(s, q, W(y)) /\ y # a
  <2>1. t[y] = s[W(y)] /\ W(y) \in 1 .. n
    BY <1>3, <1>6
  <2>2. Declares(s, q, W(y))
    BY <1>1, <1>8, <2>1 DEF Declares
  <2>3. y # a
    <3>1. s[W(y)].kind = "PublicKey"
      BY <2>2 DEF Declares, L
    <3>2. s[a].kind # "PublicKey"
      BY DEF Ends, NoteLine
    <3> QED BY <1>6, <3>1, <3>2
  <2> QED BY <2>2, <2>3
<1>9. Shape(t)
  <2>1. m > 0
    BY <1>1, <1>3, <1>7
  <2>2. \A k \in 1 .. m : t[k].kind = "[interface]" <=> k = 1
    <3> TAKE k \in 1 .. m
    <3>1. W(1) = 1
      BY <1>7 DEF W, Was
    <3>2. k # 1 => W(k) # 1
      <4>1. 1 \in 1 .. m /\ (k # 1 => 1 < k)
        BY <1>4, <2>1
      <4>2. \A y, z \in 1 .. m : y < z <=> W(y) < W(z)
        BY <1>6, Zenon
      <4>3. k # 1 => W(1) < W(k)
        BY <4>1, <4>2, Zenon
      <4> QED BY <3>1, <4>3
    <3>3. t[k] = s[W(k)] /\ W(k) \in 1 .. n
      BY <1>3, <1>6
    <3>4. t[k].kind = "[interface]" <=> W(k) = 1
      <4>1. \A j \in 1 .. n : s[j].kind = "[interface]" <=> j = 1
        BY <1>5
      <4> QED BY <3>3, <4>1
    <3> QED BY <3>1, <3>2, <3>4
  <2>3. \A k \in 1 .. m - 1 : Follows(t[k], t[k + 1])
    <3> TAKE k \in 1 .. m - 1
    <3>1. k \in 1 .. m /\ k + 1 \in 1 .. m
      BY <1>4
    <3>2. t[k] = s[W(k)] /\ t[k + 1] = s[W(k + 1)]
      BY <1>3, <3>1
    <3>3. CASE k = a
      <4>1. t[k] = s[a] /\ t[k + 1] = s[e]
        BY <1>6, <3>2, <3>3
      <4>2. e \in 1 .. n /\ e # 1
        <5>1. m = a + (n - e + 1) /\ a + 1 \in 1 .. m /\ m \in Int
          BY <1>3, <1>4, <3>1, <3>3
        <5>2. a + 1 <= a + (n - e + 1) /\ n \in Int
          BY <1>1, <1>7, <5>1
        <5>3. a \in Int /\ e \in Int /\ 1 < e
          BY <1>7
        <5>4. e <= n
          BY <5>2, <5>3
        <5> QED BY <5>2, <5>3, <5>4
      <4>3. OpensSection(s[e]) /\ s[e].kind # "[interface]"
        BY <1>2, <1>5, <4>2
      <4>4. Header(s[e])
        BY <4>3 DEF OpensSection, Header
      <4>5. Follows(s[a], s[e])
        BY <4>4 DEF Follows
      <4> QED BY <4>1, <4>5
    <3>4. CASE k # a
      <4>1. W(k + 1) = W(k) + 1
        BY <1>6, <3>4
      <4>2. W(k) \in 1 .. n /\ W(k + 1) \in 1 .. n
        BY <1>6, <3>1
      <4>3. W(k) \in 1 .. n - 1
        BY <1>1, <4>1, <4>2
      <4>4. Follows(s[W(k)], s[W(k) + 1])
        BY <1>5, <4>3
      <4> QED BY <3>2, <4>1, <4>4
    <3> QED BY <3>3, <3>4
  <2>4. Ends(t[m])
    <3>1. CASE e = n + 1
      <4>1. m = a /\ m \in 1 .. m
        BY <1>1, <1>3, <1>7, <3>1
      <4>2. t[m] = s[a]
        BY <1>3, <1>6, <4>1
      <4> QED BY <4>2
    <3>2. CASE e # n + 1
      <4>1. m \in 1 .. m
        BY <1>4, <2>1
      <4>2. W(m) = n
        <5>1. m = a + (n - e + 1) /\ n \in Int
          BY <1>1, <1>3
        <5>2. m > a /\ m + (e - a - 1) = n
          <6>1. e < n + 1
            BY <1>7, <3>2, <5>1
          <6> QED BY <1>7, <5>1, <6>1
        <5>3. ~(m <= a)
          BY <1>4, <1>7, <5>2
        <5> QED BY <5>2, <5>3 DEF W, Was
      <4>3. t[m] = s[n]
        BY <1>3, <4>1, <4>2
      <4> QED BY <1>5, <4>3
    <3> QED BY <3>1, <3>2
  <2>5. \A q \in Pub, x, z \in 1 .. m : Declares(t, q, x) /\ Declares(t, q, z) => x = z
    <3> TAKE q \in Pub, x, z \in 1 .. m
    <3> HAVE Declares(t, q, x) /\ Declares(t, q, z)
    <3>1. W(x) = W(z)
      <4>1. Declares(s, q, W(x)) /\ Declares(s, q, W(z))
        BY <1>8
      <4>2. W(x) \in 1 .. n /\ W(z) \in 1 .. n
        BY <1>6
      <4> QED BY <1>5, <4>1, <4>2
    <3>2. ~(x < z) /\ ~(z < x)
      <4>1. W(x) \in Int
        BY <1>6
      <4> QED BY <1>6, <3>1, <4>1
    <3> QED BY <1>4, <3>2
  <2> QED BY <1>3, <2>1, <2>2, <2>3, <2>4, <2>5 DEF Shape, m
<1>10. ASSUME NEW q \in Pub, NEW y \in 1 .. m, Declares(t, q, y)
       PROVE  /\ Declares(s, q, W(y)) /\ W(y) \notin h .. e - 1
              /\ t[y - 1] = s[W(y) - 1] /\ t[y + 1] = s[W(y) + 1]
  <2>1. Declares(s, q, W(y)) /\ y # a
    BY <1>8, <1>10
  <2>2. W(y) \in 1 .. n /\ W(y) \notin h .. e - 1
    BY <1>6, <1>7
  <2>3. y - 1 \in 1 .. m /\ y + 1 \in 1 .. m /\ y - 1 \in 1 .. m - 1 /\ y \in 1 .. m - 1
    <3>1. HeadOf(t, y) \in 2 .. y - 1 /\ y + 1 \in 1 .. Len(t)
      BY <1>9, <1>10, KeyBlock
    <3> QED BY <1>4, <3>1 DEF m
  <2>4. t[y + 1] = s[W(y) + 1]
    <3>1. W(y + 1) = W(y) + 1 /\ t[y + 1] = s[W(y + 1)]
      BY <1>3, <1>6, <2>1, <2>3
    <3> QED BY <3>1
  <2>5. t[y - 1] = s[W(y) - 1]
    <3>1. y - 1 + 1 = y
      BY <2>3
    <3>2. y - 1 # a
      <4> SUFFICES ASSUME y - 1 = a
                   PROVE  FALSE
        OBVIOUS
      <4>1. y = a + 1
        BY <1>7, <2>3
      <4>2. W(y) = e
        BY <1>6, <4>1
      <4>3. OpensSection(s[e])
        BY <1>2, <2>2, <4>2
      <4>4. s[e].kind = "PublicKey"
        BY <2>1, <4>2 DEF Declares, L
      <4> QED BY <4>3, <4>4 DEF OpensSection
    <3>3. W(y - 1 + 1) = W(y - 1) + 1
      BY <1>6, <2>3, <3>2
    <3>4. W(y) = W(y - 1) + 1
      BY <3>1, <3>3, Zenon
    <3>5. W(y - 1) \in Int /\ W(y) \in Int
      BY <1>6, <2>2, <2>3
    <3>6. W(y - 1) = W(y) - 1
      BY <3>4, <3>5
    <3> QED BY <1>3, <2>3, <3>6
  <2> QED BY <2>1, <2>2, <2>4, <2>5
<1>11. ASSUME NEW q \in Pub, NEW x \in 1 .. n, Declares(s, q, x), x \notin h .. e - 1
       PROVE  \E y \in 1 .. m : Declares(t, q, y) /\ W(y) = x
  <2>1. x \notin a + 1 .. e - 1
    <3> SUFFICES ASSUME x \in a + 1 .. e - 1
                 PROVE  FALSE
      OBVIOUS
    <3>1. x \in a + 1 .. h - 1
      BY <1>7, <1>11
    <3>2. Blank(s[x]) /\ s[x].kind = "PublicKey"
      BY <1>11, <3>1 DEF Declares, L
    <3> QED BY <3>2, BlankFacts DEF Kinds
  <2>2. PICK y \in 1 .. m : W(y) = x
    BY <1>6, <2>1
  <2>3. t[y] = s[x]
    BY <1>3, <2>2
  <2>4. Declares(t, q, y)
    BY <1>4, <1>11, <2>3 DEF Declares
  <2> QED BY <2>2, <2>4
<1>12. \A y, z \in 1 .. m : y < z <=> W(y) < W(z)
  BY <1>6
<1> QED BY <1>9, <1>10, <1>11, <1>12 DEF W, n, m

\* What a config declares has the line above it and the line below it in the other
\* as well, and its peers stand in the order they have there.
Kept(s, t, W) ==
  /\ \A q \in Pub, y \in 1 .. Len(t) : Declares(t, q, y) =>
       Declares(s, q, W[y]) /\ t[y - 1] = s[W[y] - 1] /\ t[y + 1] = s[W[y] + 1]
  /\ \A y, z \in 1 .. Len(t) : y < z <=> W[y] < W[z]

\* What a removal leaves of a config.
LEMMA Removed ==
  ASSUME NEW s, Shape(s), NEW p
  PROVE  LET t == removePeerFromConf(s, p) IN
         /\ Shape(t)
         /\ \E W : /\ Kept(s, t, W)
                   /\ \A q \in Pub, x \in 1 .. Len(s) : Declares(s, q, x) =>
                        \/ \E y \in 1 .. Len(t) : Declares(t, q, y) /\ W[y] = x
                        \/ HeadersOf(s, p) # {} /\ x \in Min(HeadersOf(s, p)) ..
                                                    NextSection(s, Min(HeadersOf(s, p))) - 1
                   /\ \A q \in Pub, y \in 1 .. Len(t) : Declares(t, q, y) /\ HeadersOf(s, p) # {} =>
                        W[y] \notin Min(HeadersOf(s, p)) .. NextSection(s, Min(HeadersOf(s, p))) - 1
<1> DEFINE H == HeadersOf(s, p)
           h == Min(H)
           e == NextSection(s, h)
           t == removePeerFromConf(s, p)
<1>1. CASE H = {}
  <2>1. t = s
    BY <1>1 DEF removePeerFromConf
  <2> DEFINE W == [y \in 1 .. Len(s) |-> y]
  <2>2. \A y \in 1 .. Len(s) : W[y] = y
    OBVIOUS
  <2> HIDE DEF W, t, H
  <2>3. Kept(s, s, W)
    BY <2>2 DEF Kept
  <2>4. \A q \in Pub, x \in 1 .. Len(s) : Declares(s, q, x) =>
          \E y \in 1 .. Len(s) : Declares(s, q, y) /\ W[y] = x
    BY <2>2
  <2>5. /\ Shape(s)
        /\ \E V : /\ Kept(s, s, V)
                  /\ \A q \in Pub, x \in 1 .. Len(s) : Declares(s, q, x) =>
                       \E y \in 1 .. Len(s) : Declares(s, q, y) /\ V[y] = x
    BY <2>3, <2>4
  <2> QED BY <1>1, <2>1, <2>5 DEF t, H
<1>2. CASE H # {}
  <2>1. H \in SUBSET (1 .. Len(s)) /\ \A k \in H : s[k].kind = "[peer]"
    BY ShapeFacts DEF HeadersOf
  <2>2. h \in 1 .. Len(s) /\ s[h].kind = "[peer]"
    <3> HIDE DEF H
    <3>1. H \in SUBSET Nat
      BY <2>1
    <3>2. h \in H
      BY <1>2, <3>1, MinOf
    <3> QED BY <2>1, <3>2
  <2>3. t = Cut(s, h, e)
    BY <1>2 DEF removePeerFromConf
  <2> HIDE DEF t, H, h
  <2>4. PICK a \in 1 .. h - 1 :
          /\ Loses(s, t, a, e)
          /\ Ends(s[a]) /\ \A j \in a + 1 .. h - 1 : Blank(s[j])
    BY <2>2, <2>3, CutIs
  <2> DEFINE W == [y \in 1 .. Len(t) |-> Was(a, e, y)]
  <2>5. \A y \in 1 .. Len(t) : W[y] = Was(a, e, y)
    OBVIOUS
  <2> HIDE DEF W, e
  <2>6. /\ Shape(t)
        /\ \A q \in Pub, y \in 1 .. Len(t) : Declares(t, q, y) =>
             /\ Declares(s, q, Was(a, e, y)) /\ Was(a, e, y) \notin h .. e - 1
             /\ t[y - 1] = s[Was(a, e, y) - 1] /\ t[y + 1] = s[Was(a, e, y) + 1]
        /\ \A q \in Pub, x \in 1 .. Len(s) : Declares(s, q, x) /\ x \notin h .. e - 1 =>
             \E y \in 1 .. Len(t) : Declares(t, q, y) /\ Was(a, e, y) = x
        /\ \A y, z \in 1 .. Len(t) : y < z <=> Was(a, e, y) < Was(a, e, z)
    <3>1. e = NextSection(s, h)
      BY DEF e
    <3> QED BY <2>2, <2>4, <3>1, Lost
  <2>7. Kept(s, t, W)
    BY <2>5, <2>6 DEF Kept
  <2>8. \A q \in Pub, x \in 1 .. Len(s) : Declares(s, q, x) =>
          (\E y \in 1 .. Len(t) : Declares(t, q, y) /\ W[y] = x) \/ x \in h .. e - 1
    BY <2>5, <2>6
  <2>9. \A q \in Pub, y \in 1 .. Len(t) : Declares(t, q, y) => W[y] \notin h .. e - 1
    BY <2>5, <2>6
  <2>10. /\ Shape(t)
         /\ \E V : /\ Kept(s, t, V)
                   /\ \A q \in Pub, x \in 1 .. Len(s) : Declares(s, q, x) =>
                        (\E y \in 1 .. Len(t) : Declares(t, q, y) /\ V[y] = x) \/ x \in h .. e - 1
                   /\ \A q \in Pub, y \in 1 .. Len(t) : Declares(t, q, y) => V[y] \notin h .. e - 1
    BY <2>6, <2>7, <2>8, <2>9
  <2> QED BY <1>2, <2>10, Zenon DEF t, e, h, H
<1> QED BY <1>1, <1>2

\* The other peers of a config keep their names, and their addresses unless a peer
\* that is gone had claimed them.
LEMMA Spared ==
  ASSUME NEW s, Shape(s), NEW t, Shape(t), NEW W, Kept(s, t, W),
         NEW q \in Pub, NEW y \in 1 .. Len(t), Declares(t, q, y)
  PROVE  /\ q \in DOMAIN wgPeers(s) /\ q \in DOMAIN wgPeers(t)
         /\ wgPeers(s)[q] \in {None, wgPeers(t)[q]}
         /\ Declares(s, q, W[y]) /\ W[y] \in 1 .. Len(s) /\ NameOf(t, y) = NameOf(s, W[y])
<1>1. \A r \in Pub, z \in 1 .. Len(t) : Declares(t, r, z) =>
        /\ Declares(s, r, W[z]) /\ W[z] \in 1 .. Len(s)
        /\ t[z - 1] = s[W[z] - 1] /\ t[z + 1] = s[W[z] + 1]
  BY ShapeFacts DEF Kept, Declares
<1>2. Declares(s, q, W[y]) /\ W[y] \in 1 .. Len(s)
  BY <1>1
<1>3. q \in DOMAIN wgPeers(s) /\ q \in DOMAIN wgPeers(t)
  BY <1>2, WgPeers
<1>4. wgPeers(s)[q] \in {None, wgPeers(t)[q]}
  <2> SUFFICES ASSUME wgPeers(s)[q] # None
               PROVE  wgPeers(s)[q] = wgPeers(t)[q]
    OBVIOUS
  <2>1. wgPeers(s)[q] = IF \E r \in Pub, z \in 1 .. Len(s) :
                             Declares(s, r, z) /\ s[z + 1].val = s[W[y] + 1].val /\ z > W[y]
                        THEN None ELSE s[W[y] + 1].val
    BY <1>2, WgPeers
  <2>2. wgPeers(t)[q] = IF \E r \in Pub, z \in 1 .. Len(t) :
                             Declares(t, r, z) /\ t[z + 1].val = t[y + 1].val /\ z > y
                        THEN None ELSE t[y + 1].val
    BY WgPeers
  <2>3. t[y + 1] = s[W[y] + 1]
    BY <1>1
  <2>4. ASSUME NEW r \in Pub, NEW z \in 1 .. Len(t),
               Declares(t, r, z), t[z + 1].val = t[y + 1].val, z > y
        PROVE  FALSE
    <3>1. /\ Declares(s, r, W[z]) /\ W[z] \in 1 .. Len(s)
          /\ s[W[z] + 1].val = s[W[y] + 1].val
      BY <1>1, <2>3, <2>4
    <3>2. W[z] > W[y]
      <4>1. Len(t) \in Nat
        BY ShapeFacts
      <4>2. y < z
        BY <2>4, <4>1
      <4>3. W[y] < W[z]
        BY <4>2 DEF Kept
      <4>4. W[y] \in Int /\ W[z] \in Int
        BY <1>2, <3>1
      <4> QED BY <4>3, <4>4
    <3> QED BY <2>1, <3>1, <3>2
  <2> QED BY <2>1, <2>2, <2>3, <2>4
<1>5. NameOf(t, y) = NameOf(s, W[y])
  BY <1>1 DEF NameOf
<1> QED BY <1>2, <1>3, <1>4, <1>5

\* A section mentions a peer where it declares it, as long as no comment does.
LEMMA SectionMentions ==
  ASSUME NEW s, Shape(s), NEW p \in Pub, L("#", p) \notin Range(s), NEW k \in 1 .. Len(s)
  PROVE  Has(Section(s, k), LAMBDA l : Mentions(l, p))
           <=> \E x \in k .. NextSection(s, k) - 1 : Declares(s, p, x)
<1> DEFINE n == NextSection(s, k)
           u == Section(s, k)
<1>1. /\ Len(s) \in Nat /\ n \in k + 1 .. Len(s) + 1
      /\ DOMAIN u = 1 .. n - k /\ \A j \in 1 .. n - k : u[j] = s[k + j - 1]
  BY NextIs, SectionIs, ShapeFacts DEF Shape
<1>2. k \in 1 .. Len(s)
  OBVIOUS
<1> HIDE DEF n, u
<1>3. ASSUME NEW j \in DOMAIN u, Mentions(u[j], p)
      PROVE  \E x \in k .. n - 1 : Declares(s, p, x)
  <2>1. /\ j \in 1 .. n - k /\ k + j - 1 \in 1 .. Len(s) /\ k + j - 1 \in k .. n - 1
    BY <1>1, <1>2
  <2>2. Mentions(s[k + j - 1], p)
    BY <1>1, <1>3, <2>1
  <2>3. Declares(s, p, k + j - 1)
    BY <2>1, <2>2, OnlyMention
  <2> QED BY <2>1, <2>3
<1>4. ASSUME NEW x \in k .. n - 1, Declares(s, p, x)
      PROVE  \E j \in DOMAIN u : Mentions(u[j], p)
  <2>1. x - k + 1 \in 1 .. n - k /\ k + (x - k + 1) - 1 = x
    BY <1>1, <1>2
  <2>2. u[x - k + 1] = s[x]
    BY <1>1, <2>1
  <2>3. s[x].val = p
    BY <1>4 DEF Declares, L
  <2> QED BY <1>1, <2>1, <2>2, <2>3 DEF Mentions
<1>5. Has(u, LAMBDA l : Mentions(l, p)) <=> \E j \in DOMAIN u : Mentions(u[j], p)
  BY DEF Has
<1>6. Has(u, LAMBDA l : Mentions(l, p)) <=> \E x \in k .. n - 1 : Declares(s, p, x)
  BY <1>3, <1>4, <1>5
<1> QED BY <1>6 DEF u, n

\* The header that a removal looks for is that above the key, if it stands alone.
LEMMA HeadersAre ==
  ASSUME NEW s, Shape(s), NEW p \in Pub, L("#", p) \notin Range(s)
  PROVE  /\ \A x : Declares(s, p, x) =>
              HeadersOf(s, p) = IF s[HeadOf(s, x)].kind = "[peer]" THEN {HeadOf(s, x)} ELSE {}
         /\ (\A x \in 1 .. Len(s) : ~Declares(s, p, x)) => HeadersOf(s, p) = {}
<1>1. DOMAIN s = 1 .. Len(s)
  BY ShapeFacts
<1>2. ASSUME NEW k \in HeadersOf(s, p)
      PROVE  \E x \in 1 .. Len(s) : Declares(s, p, x) /\ k = HeadOf(s, x) /\ s[k].kind = "[peer]"
  <2>1. k \in 1 .. Len(s) /\ s[k].kind = "[peer]" /\ Has(Section(s, k), LAMBDA l : Mentions(l, p))
    BY <1>1 DEF HeadersOf
  <2>2. PICK x \in k .. NextSection(s, k) - 1 : Declares(s, p, x)
    BY <2>1, SectionMentions
  <2>3. OpensSection(s[k])
    BY <2>1 DEF OpensSection
  <2>4. x \in 1 .. Len(s)
    BY <1>1, <2>2 DEF Declares
  <2> QED BY <2>1, <2>2, <2>3, <2>4, InSection
<1>3. ASSUME NEW x, Declares(s, p, x), s[HeadOf(s, x)].kind = "[peer]"
      PROVE  HeadOf(s, x) \in HeadersOf(s, p)
  <2> DEFINE h == HeadOf(s, x)
  <2>1. h \in 1 .. Len(s) /\ x \in h + 1 .. NextSection(s, h) - 2
    BY <1>3, KeySection
  <2>2. NextSection(s, h) \in h + 1 .. Len(s) + 1
    BY <2>1, NextIs DEF Shape
  <2>3. x \in h .. NextSection(s, h) - 1
    BY <2>1, <2>2
  <2>4. Has(Section(s, h), LAMBDA l : Mentions(l, p))
    BY <1>3, <2>1, <2>3, SectionMentions
  <2> QED BY <1>1, <1>3, <2>1, <2>4 DEF HeadersOf
<1>4. ASSUME NEW x, Declares(s, p, x)
      PROVE  HeadersOf(s, p) = IF s[HeadOf(s, x)].kind = "[peer]" THEN {HeadOf(s, x)} ELSE {}
  <2>1. \A y \in 1 .. Len(s) : Declares(s, p, y) => y = x
    BY <1>1, <1>4 DEF Shape, Declares
  <2>2. \A k \in HeadersOf(s, p) : k = HeadOf(s, x) /\ s[k].kind = "[peer]"
    BY <1>2, <2>1
  <2> QED BY <1>3, <1>4, <2>2
<1> QED BY <1>2, <1>4

(***************************************************************************)
(* What a call finds out.                                                  *)
(***************************************************************************)
\* The least element of a set of interfaces, if there is one, is in it.
LEMMA MinIface ==
  ASSUME NEW T \in SUBSET Iface, T # {}
  PROVE  Min(T) \in T
<1>1. T \in SUBSET Nat
  BY IfaceAssumption
<1> QED BY <1>1, MinOf

LEMMA IfacesUp ==
  ASSUME up \subseteq Iface
  PROVE  /\ \A kind : ifaceOfKind(kind) \in up \cup {None} /\ pickIface(kind) \in up \cup {None}
         /\ \A p : ifaceOf(p) \in up \cup {None} /\ ifaceHoldingPeer(p) \in up \cup {None}
<1>1. \A kind : ifaceOfKind(kind) \in up \cup {None}
  BY MinIface DEF ifaceOfKind, wgInterfaces
<1>2. \A kind : pickIface(kind) \in up \cup {None}
  <2>1. Cardinality(up) = 1 => up # {}
    BY FS_EmptySet
  <2>2. Cardinality(up) = 1 => Min(up) \in up
    BY <2>1, MinIface
  <2> QED BY <1>1, <2>2 DEF pickIface, wgInterfaces
<1>3. \A p : ifaceHoldingPeer(p) \in up \cup {None}
  <2> TAKE p
  <2> DEFINE T == {i \in up : Has(conf[i], LAMBDA l : Mentions(l, p))}
  <2>1. T \in SUBSET Iface /\ T \subseteq up
    OBVIOUS
  <2>2. ifaceHoldingPeer(p) = IF T = {} THEN None ELSE Min(T)
    BY DEF ifaceHoldingPeer, wgInterfaces
  <2> HIDE DEF T
  <2> QED BY <2>1, <2>2, MinIface
<1>4. \A p : ifaceOf(p) \in up \cup {None}
  BY <1>3, MinIface DEF ifaceOf, wgInterfaces
<1> QED BY <1>1, <1>2, <1>3, <1>4

\* A name that the names file does not have is that of the one config that has it.
LEMMA NamedIs ==
  ASSUME AdminInv, NEW p \in Pub, names[p] = None,
         NEW i \in up, namesFromConfig(conf[i])[p] # None
  PROVE  resolveNames[p] = namesFromConfig(conf[i])[p]
<1> DEFINE T == {j \in wgInterfaces : namesFromConfig(conf[j])[p] # None}
<1>1. up \subseteq Iface /\ i \in Iface /\ i \in Nat
  BY IfaceAssumption DEF AdminInv, TypeOK
<1>2. ASSUME NEW j \in T
      PROVE  j = i
  <2>1. j \in Iface /\ i \in Iface /\ namesFromConfig(conf[j])[p] # None
    BY <1>1, <1>2 DEF wgInterfaces
  <2>2. Shape(conf[j]) /\ Shape(conf[i])
    BY <2>1 DEF AdminInv
  <2>3. PICK x \in 1 .. Len(conf[j]) : Declares(conf[j], p, x)
    BY <2>1, <2>2, NamesRead
  <2>4. PICK y \in 1 .. Len(conf[i]) : Declares(conf[i], p, y)
    BY <2>2, NamesRead
  <2>5. x \in Nat /\ y \in Nat
    BY <2>2, ShapeFacts
  <2> QED BY <2>1, <2>3, <2>4, <2>5 DEF AdminInv, OneConfig
<1>3. i \in T
  BY DEF wgInterfaces
<1> HIDE DEF T
<1>4. T \in SUBSET (0 .. i) /\ \A y \in T : i >= y
  BY <1>1, <1>2
<1>5. Max(T) = i
  BY <1>1, <1>3, <1>4, MaxIs
<1>6. resolveNames[p] = namesFromConfig(conf[Max(T)])[p]
  BY <1>3 DEF resolveNames, T
<1> QED BY <1>5, <1>6, Zenon

\* The name of a peer is that in the names file or, without one, that in its block.
LEMMA NameOfIs ==
  ASSUME AdminInv, NEW p \in Pub, NEW n \in Name
  PROVE  /\ resolveNames[p] = n =>
              \/ names[p] = n
              \/ names[p] = None /\ \E i \in up : Named(conf[i], p, n)
         /\ names[p] = n => resolveNames[p] = n
         /\ \A i \in up : names[p] = None /\ Named(conf[i], p, n) => resolveNames[p] = n
<1>1. n # None /\ up \subseteq Iface /\ \A i \in up : Shape(conf[i])
  BY NoneAssumption DEF AdminInv, TypeOK
<1>2. names[p] # None => resolveNames[p] = names[p]
  BY DEF resolveNames
<1>3. ASSUME names[p] = None, resolveNames[p] # None
      PROVE  \E i \in up : namesFromConfig(conf[i])[p] # None
  BY <1>3 DEF resolveNames, wgInterfaces
<1>4. ASSUME names[p] = None, resolveNames[p] = n
      PROVE  \E i \in up : Named(conf[i], p, n)
  <2>1. PICK i \in up : namesFromConfig(conf[i])[p] # None
    BY <1>1, <1>3, <1>4
  <2>2. namesFromConfig(conf[i])[p] = n
    BY <1>4, <2>1, NamedIs
  <2>3. PICK x \in 1 .. Len(conf[i]) : Declares(conf[i], p, x)
    BY <1>1, <2>1, NamesRead
  <2>4. conf[i][x - 1] = L("#", n)
    BY <1>1, <2>2, <2>3, NamesRead
  <2> QED BY <2>3, <2>4 DEF Named
<1>5. ASSUME NEW i \in up, names[p] = None, Named(conf[i], p, n)
      PROVE  resolveNames[p] = n
  <2>1. PICK x \in 1 .. Len(conf[i]) : Declares(conf[i], p, x) /\ conf[i][x - 1] = L("#", n)
    BY <1>5 DEF Named
  <2>2. conf[i][x - 1].kind = "#" /\ conf[i][x - 1].val = n
    BY <2>1 DEF L
  <2>3. namesFromConfig(conf[i])[p] = n
    BY <1>1, <2>1, <2>2, NamesRead
  <2> QED BY <1>1, <1>5, <2>3, NamedIs
<1> QED BY <1>1, <1>2, <1>4, <1>5

LEMMA WgType ==
  ASSUME NEW s, Shape(s)
  PROVE  wgPeers(s) \in [DOMAIN wgPeers(s) -> Addr \cup {None}] /\ DOMAIN wgPeers(s) \subseteq Pub
<1> DEFINE w == wgPeers(s)
<1>1. \E e : w = [p \in DOMAIN w |-> e[p]]
  <2> DEFINE peers == {p \in Pub : SectionsOf(s, p) # {}}
             pos == [p \in peers |-> Max(SectionsOf(s, p))]
             claimed == [p \in peers |-> confValue(Section(s, pos[p]), "AllowedIPs")]
  <2>1. w = [p \in peers |-> IF \E q \in peers : claimed[q] = claimed[p] /\ pos[q] > pos[p]
                              THEN None ELSE claimed[p]]
    BY DEF wgPeers
  <2> HIDE DEF peers, pos, claimed, w
  <2>2. w = [p \in DOMAIN w |-> w[p]]
    BY <2>1
  <2> QED BY <2>2
<1>2. DOMAIN w \subseteq Pub
  BY WgPeers
<1>3. ASSUME NEW p \in DOMAIN w
      PROVE  w[p] \in Addr \cup {None}
  <2>1. p \in Pub
    BY <1>2
  <2>2. PICK x \in 1 .. Len(s) : Declares(s, p, x)
    BY <2>1, WgPeers
  <2>3. w[p] \in {None, s[x + 1].val}
    BY <2>1, <2>2, WgPeers
  <2>4. s[x + 1].val \in Addr
    BY <2>1, <2>2, KeyBlock
  <2> QED BY <2>3, <2>4
<1> HIDE DEF w
<1>4. w \in [DOMAIN w -> Addr \cup {None}]
  BY <1>1, <1>3
<1> QED BY <1>2, <1>4 DEF w

\* Sequences one behind the other.
LEMMA Joined ==
  ASSUME NEW S, NEW u \in Seq(S), NEW v \in Seq(S), NEW w \in Seq(S),
         Len(w) = Len(u) + Len(v),
         \A k \in 1 .. Len(w) : w[k] = IF k <= Len(u) THEN u[k] ELSE v[k - Len(u)]
  PROVE  u \o v = w
<1>1. /\ u \o v \in Seq(S) /\ Len(u \o v) = Len(w)
      /\ \A k \in 1 .. Len(w) : (u \o v)[k] = w[k]
  BY ConcatProperties
<1> QED BY <1>1, SeqEqual

\* Tuples one behind the other.
LEMMA JoinedTuples ==
  /\ \A x, y \in Line : <<x>> \o <<y>> = <<x, y>>
  /\ \A x, y, z \in Line : <<x>> \o <<y, z>> = <<x, y, z>>
  /\ \A x, y, z, w \in Line : <<x, y>> \o <<z, w>> = <<x, y, z, w>>
  /\ \A x, y, z, w \in Line : <<x, y, z>> \o <<w>> = <<x, y, z, w>>
<1>1. \A x, y \in Line : <<x>> \o <<y>> = <<x, y>>
  <2> TAKE x, y \in Line
  <2> DEFINE a == <<x>> b == <<y>> c == <<x, y>>
  <2>1. a \in Seq(Line) /\ b \in Seq(Line) /\ c \in Seq(Line) /\ Len(a) = 1 /\ Len(b) = 1 /\ Len(c) = 2
    OBVIOUS
  <2>2. a[1] = x /\ b[1] = y /\ c[1] = x /\ c[2] = y
    OBVIOUS
  <2> HIDE DEF a, b, c
  <2>3. Len(c) = Len(a) + Len(b) /\ \A k \in 1 .. Len(c) : c[k] = IF k <= Len(a) THEN a[k] ELSE b[k - Len(a)]
    BY <2>1, <2>2
  <2>4. a \o b = c
    BY <2>1, <2>3, Joined, Zenon
  <2> QED BY <2>4, Zenon DEF a, b, c
<1>2. \A x, y, z \in Line : <<x>> \o <<y, z>> = <<x, y, z>>
  <2> TAKE x, y, z \in Line
  <2> DEFINE a == <<x>> b == <<y, z>> c == <<x, y, z>>
  <2>1. a \in Seq(Line) /\ b \in Seq(Line) /\ c \in Seq(Line) /\ Len(a) = 1 /\ Len(b) = 2 /\ Len(c) = 3
    OBVIOUS
  <2>2. a[1] = x /\ b[1] = y /\ b[2] = z /\ c[1] = x /\ c[2] = y /\ c[3] = z
    OBVIOUS
  <2> HIDE DEF a, b, c
  <2>3. Len(c) = Len(a) + Len(b) /\ \A k \in 1 .. Len(c) : c[k] = IF k <= Len(a) THEN a[k] ELSE b[k - Len(a)]
    BY <2>1, <2>2
  <2>4. a \o b = c
    BY <2>1, <2>3, Joined, Zenon
  <2> QED BY <2>4, Zenon DEF a, b, c
<1>3. \A x, y, z, w \in Line : <<x, y>> \o <<z, w>> = <<x, y, z, w>>
  <2> TAKE x, y, z, w \in Line
  <2> DEFINE a == <<x, y>> b == <<z, w>> c == <<x, y, z, w>>
  <2>1. a \in Seq(Line) /\ b \in Seq(Line) /\ c \in Seq(Line) /\ Len(a) = 2 /\ Len(b) = 2 /\ Len(c) = 4
    OBVIOUS
  <2>2. a[1] = x /\ a[2] = y /\ b[1] = z /\ b[2] = w /\ c[1] = x /\ c[2] = y /\ c[3] = z /\ c[4] = w
    OBVIOUS
  <2> HIDE DEF a, b, c
  <2>3. Len(c) = Len(a) + Len(b) /\ \A k \in 1 .. Len(c) : c[k] = IF k <= Len(a) THEN a[k] ELSE b[k - Len(a)]
    BY <2>1, <2>2
  <2>4. a \o b = c
    BY <2>1, <2>3, Joined, Zenon
  <2> QED BY <2>4, Zenon DEF a, b, c
<1>4. \A x, y, z, w \in Line : <<x, y, z>> \o <<w>> = <<x, y, z, w>>
  <2> TAKE x, y, z, w \in Line
  <2> DEFINE a == <<x, y, z>> b == <<w>> c == <<x, y, z, w>>
  <2>1. a \in Seq(Line) /\ b \in Seq(Line) /\ c \in Seq(Line) /\ Len(a) = 3 /\ Len(b) = 1 /\ Len(c) = 4
    OBVIOUS
  <2>2. a[1] = x /\ a[2] = y /\ a[3] = z /\ b[1] = w /\ c[1] = x /\ c[2] = y /\ c[3] = z /\ c[4] = w
    OBVIOUS
  <2> HIDE DEF a, b, c
  <2>3. Len(c) = Len(a) + Len(b) /\ \A k \in 1 .. Len(c) : c[k] = IF k <= Len(a) THEN a[k] ELSE b[k - Len(a)]
    BY <2>1, <2>2
  <2>4. a \o b = c
    BY <2>1, <2>3, Joined, Zenon
  <2> QED BY <2>4, Zenon DEF a, b, c
<1> QED BY <1>1, <1>2, <1>3, <1>4
\* A block as programs write it.
LEMMA AddedBlock ==
  ASSUME NEW p \in Pub, NEW o \in Line, NEW g \in Line, NEW m \in Line, NEW a \in Line,
         Blank(o), g.kind = "[peer]", NameLine(m), a.kind = "AllowedIPs"
  PROVE  Block(<<o, g, m, L("PublicKey", p), a>>, p, 4)
<1> DEFINE k == L("PublicKey", p)
           b == <<o, g, m, k, a>>
<1>1. k \in Line /\ k.kind = "PublicKey"
  BY DEF Line, L
<1>2. b \in Seq(Line) /\ Len(b) = 5
  BY <1>1
<1>3. b[1] = o /\ b[2] = g /\ b[3] = m /\ b[4] = k /\ b[5] = a
  OBVIOUS
<1> HIDE DEF b, k
<1>4. /\ Follows(o, g)
      /\ Follows(g, m)
      /\ Follows(m, k)
      /\ Follows(k, a)
  BY <1>1 DEF Follows, Header, NameLine, NoteLine, Ends
<1>5. o.kind # "PublicKey" /\ g.kind # "PublicKey" /\ m.kind # "PublicKey" /\ a.kind # "PublicKey"
      /\ o.kind # "[interface]" /\ g.kind # "[interface]" /\ m.kind # "[interface]" /\ k.kind # "[interface]" /\ a.kind # "[interface]"
  BY <1>1, BlankFacts DEF Header, NameLine, NoteLine, Kinds
<1>6. \A i \in 1 .. Len(b) : b[i].kind # "[interface]"
  BY <1>2, <1>3, <1>5
<1>7. \A i \in 1 .. Len(b) - 1 : Follows(b[i], b[i + 1])
  <2>1. \A i \in 1 .. Len(b) - 1 : (i = 1 /\ i + 1 = 2) \/ (i = 2 /\ i + 1 = 3) \/ (i = 3 /\ i + 1 = 4) \/ (i = 4 /\ i + 1 = 5)
    BY <1>2
  <2> QED BY <1>3, <1>4, <2>1
<1>8. \A i \in 1 .. Len(b) : b[i].kind = "PublicKey" <=> i = 4
  <2>1. \A i \in 1 .. Len(b) : i = 1 \/ i = 2 \/ i = 3 \/ i = 4 \/ i = 5
    BY <1>2
  <2> QED BY <1>1, <1>3, <1>5, <2>1
<1>9. Ends(b[Len(b)]) /\ Blank(b[1])
  BY <1>2, <1>3 DEF Ends
<1>10. Block(b, p, 4)
  <2>1. b[4] = L("PublicKey", p) /\ 4 \in 2 .. Len(b)
    BY <1>2, <1>3 DEF k
  <2> QED BY <1>2, <1>6, <1>7, <1>8, <1>9, <2>1 DEF Block
<1> QED BY <1>10 DEF b, k

\* Blocks as people write them: the key and its address,
LEMMA BareBlock ==
  ASSUME NEW p \in Pub, NEW h \in Line, NEW a \in Line,
         Header(h), a.kind = "AllowedIPs"
  PROVE  Block(<<h, L("PublicKey", p), a>>, p, 2)
<1> DEFINE k == L("PublicKey", p)
           b == <<h, k, a>>
<1>1. k \in Line /\ k.kind = "PublicKey"
  BY DEF Line, L
<1>2. b \in Seq(Line) /\ Len(b) = 3
  BY <1>1
<1>3. b[1] = h /\ b[2] = k /\ b[3] = a
  OBVIOUS
<1> HIDE DEF b, k
<1>4. /\ Follows(h, k) /\ Follows(k, a)
  BY <1>1 DEF Follows, Header, NameLine, NoteLine, Ends
<1>5. h.kind # "PublicKey" /\ a.kind # "PublicKey"
      /\ h.kind # "[interface]" /\ k.kind # "[interface]" /\ a.kind # "[interface]"
  BY <1>1 DEF Header, NameLine, NoteLine, Kinds
<1>6. \A i \in 1 .. Len(b) : b[i].kind # "[interface]"
  BY <1>2, <1>3, <1>5
<1>7. \A i \in 1 .. Len(b) - 1 : Follows(b[i], b[i + 1])
  <2>1. \A i \in 1 .. Len(b) - 1 : (i = 1 /\ i + 1 = 2) \/ (i = 2 /\ i + 1 = 3)
    BY <1>2
  <2> QED BY <1>3, <1>4, <2>1
<1>8. \A i \in 1 .. Len(b) : b[i].kind = "PublicKey" <=> i = 2
  <2>1. \A i \in 1 .. Len(b) : i = 1 \/ i = 2 \/ i = 3
    BY <1>2
  <2> QED BY <1>1, <1>3, <1>5, <2>1
<1>9. Ends(b[Len(b)]) /\ Header(b[1])
  BY <1>2, <1>3 DEF Ends
<1>10. Block(b, p, 2)
  <2>1. b[2] = L("PublicKey", p) /\ 2 \in 2 .. Len(b)
    BY <1>2, <1>3 DEF k
  <2> QED BY <1>2, <1>6, <1>7, <1>8, <1>9, <2>1 DEF Block
<1> QED BY <1>10 DEF b, k

\* a name above them,
LEMMA NamedBlock ==
  ASSUME NEW p \in Pub, NEW h \in Line, NEW m \in Line, NEW a \in Line,
         Header(h), NameLine(m), a.kind = "AllowedIPs"
  PROVE  Block(<<h, m, L("PublicKey", p), a>>, p, 3)
<1> DEFINE k == L("PublicKey", p)
           b == <<h, m, k, a>>
<1>1. k \in Line /\ k.kind = "PublicKey"
  BY DEF Line, L
<1>2. b \in Seq(Line) /\ Len(b) = 4
  BY <1>1
<1>3. b[1] = h /\ b[2] = m /\ b[3] = k /\ b[4] = a
  OBVIOUS
<1> HIDE DEF b, k
<1>4. /\ Follows(h, m)
      /\ Follows(m, k)
      /\ Follows(k, a)
  BY <1>1 DEF Follows, Header, NameLine, NoteLine, Ends
<1>5. h.kind # "PublicKey" /\ m.kind # "PublicKey" /\ a.kind # "PublicKey"
      /\ h.kind # "[interface]" /\ m.kind # "[interface]" /\ k.kind # "[interface]" /\ a.kind # "[interface]"
  BY <1>1 DEF Header, NameLine, NoteLine, Kinds
<1>6. \A i \in 1 .. Len(b) : b[i].kind # "[interface]"
  BY <1>2, <1>3, <1>5
<1>7. \A i \in 1 .. Len(b) - 1 : Follows(b[i], b[i + 1])
  <2>1. \A i \in 1 .. Len(b) - 1 : (i = 1 /\ i + 1 = 2) \/ (i = 2 /\ i + 1 = 3) \/ (i = 3 /\ i + 1 = 4)
    BY <1>2
  <2> QED BY <1>3, <1>4, <2>1
<1>8. \A i \in 1 .. Len(b) : b[i].kind = "PublicKey" <=> i = 3
  <2>1. \A i \in 1 .. Len(b) : i = 1 \/ i = 2 \/ i = 3 \/ i = 4
    BY <1>2
  <2> QED BY <1>1, <1>3, <1>5, <2>1
<1>9. Ends(b[Len(b)]) /\ Header(b[1])
  BY <1>2, <1>3 DEF Ends
<1>10. Block(b, p, 3)
  <2>1. b[3] = L("PublicKey", p) /\ 3 \in 2 .. Len(b)
    BY <1>2, <1>3 DEF k
  <2> QED BY <1>2, <1>6, <1>7, <1>8, <1>9, <2>1 DEF Block
<1> QED BY <1>10 DEF b, k

\* a note below,
LEMMA NotedBlock ==
  ASSUME NEW p \in Pub, NEW h \in Line, NEW a \in Line, NEW c \in Line,
         Header(h), a.kind = "AllowedIPs", NoteLine(c)
  PROVE  Block(<<h, L("PublicKey", p), a, c>>, p, 2)
<1> DEFINE k == L("PublicKey", p)
           b == <<h, k, a, c>>
<1>1. k \in Line /\ k.kind = "PublicKey"
  BY DEF Line, L
<1>2. b \in Seq(Line) /\ Len(b) = 4
  BY <1>1
<1>3. b[1] = h /\ b[2] = k /\ b[3] = a /\ b[4] = c
  OBVIOUS
<1> HIDE DEF b, k
<1>4. /\ Follows(h, k)
      /\ Follows(k, a)
      /\ Follows(a, c)
  BY <1>1 DEF Follows, Header, NameLine, NoteLine, Ends
<1>5. h.kind # "PublicKey" /\ a.kind # "PublicKey" /\ c.kind # "PublicKey"
      /\ h.kind # "[interface]" /\ k.kind # "[interface]" /\ a.kind # "[interface]" /\ c.kind # "[interface]"
  BY <1>1 DEF Header, NameLine, NoteLine, Kinds
<1>6. \A i \in 1 .. Len(b) : b[i].kind # "[interface]"
  BY <1>2, <1>3, <1>5
<1>7. \A i \in 1 .. Len(b) - 1 : Follows(b[i], b[i + 1])
  <2>1. \A i \in 1 .. Len(b) - 1 : (i = 1 /\ i + 1 = 2) \/ (i = 2 /\ i + 1 = 3) \/ (i = 3 /\ i + 1 = 4)
    BY <1>2
  <2> QED BY <1>3, <1>4, <2>1
<1>8. \A i \in 1 .. Len(b) : b[i].kind = "PublicKey" <=> i = 2
  <2>1. \A i \in 1 .. Len(b) : i = 1 \/ i = 2 \/ i = 3 \/ i = 4
    BY <1>2
  <2> QED BY <1>1, <1>3, <1>5, <2>1
<1>9. Ends(b[Len(b)]) /\ Header(b[1])
  BY <1>2, <1>3 DEF Ends
<1>10. Block(b, p, 2)
  <2>1. b[2] = L("PublicKey", p) /\ 2 \in 2 .. Len(b)
    BY <1>2, <1>3 DEF k
  <2> QED BY <1>2, <1>6, <1>7, <1>8, <1>9, <2>1 DEF Block
<1> QED BY <1>10 DEF b, k

\* or both.
LEMMA FullBlock ==
  ASSUME NEW p \in Pub, NEW h \in Line, NEW m \in Line, NEW a \in Line, NEW c \in Line,
         Header(h), NameLine(m), a.kind = "AllowedIPs", NoteLine(c)
  PROVE  Block(<<h, m, L("PublicKey", p), a, c>>, p, 3)
<1> DEFINE k == L("PublicKey", p)
           b == <<h, m, k, a, c>>
<1>1. k \in Line /\ k.kind = "PublicKey"
  BY DEF Line, L
<1>2. b \in Seq(Line) /\ Len(b) = 5
  BY <1>1
<1>3. b[1] = h /\ b[2] = m /\ b[3] = k /\ b[4] = a /\ b[5] = c
  OBVIOUS
<1> HIDE DEF b, k
<1>4. /\ Follows(h, m)
      /\ Follows(m, k)
      /\ Follows(k, a)
      /\ Follows(a, c)
  BY <1>1 DEF Follows, Header, NameLine, NoteLine, Ends
<1>5. h.kind # "PublicKey" /\ m.kind # "PublicKey" /\ a.kind # "PublicKey" /\ c.kind # "PublicKey"
      /\ h.kind # "[interface]" /\ m.kind # "[interface]" /\ k.kind # "[interface]" /\ a.kind # "[interface]" /\ c.kind # "[interface]"
  BY <1>1 DEF Header, NameLine, NoteLine, Kinds
<1>6. \A i \in 1 .. Len(b) : b[i].kind # "[interface]"
  BY <1>2, <1>3, <1>5
<1>7. \A i \in 1 .. Len(b) - 1 : Follows(b[i], b[i + 1])
  <2>1. \A i \in 1 .. Len(b) - 1 : (i = 1 /\ i + 1 = 2) \/ (i = 2 /\ i + 1 = 3) \/ (i = 3 /\ i + 1 = 4) \/ (i = 4 /\ i + 1 = 5)
    BY <1>2
  <2> QED BY <1>3, <1>4, <2>1
<1>8. \A i \in 1 .. Len(b) : b[i].kind = "PublicKey" <=> i = 3
  <2>1. \A i \in 1 .. Len(b) : i = 1 \/ i = 2 \/ i = 3 \/ i = 4 \/ i = 5
    BY <1>2
  <2> QED BY <1>1, <1>3, <1>5, <2>1
<1>9. Ends(b[Len(b)]) /\ Header(b[1])
  BY <1>2, <1>3 DEF Ends
<1>10. Block(b, p, 3)
  <2>1. b[3] = L("PublicKey", p) /\ 3 \in 2 .. Len(b)
    BY <1>2, <1>3 DEF k
  <2> QED BY <1>2, <1>6, <1>7, <1>8, <1>9, <2>1 DEF Block
<1> QED BY <1>10 DEF b, k

\* What `peer add` appends declares its peer under its name,
LEMMA NewBlock ==
  ASSUME NEW p \in Pub, NEW n \in Name, NEW a \in Addr
  PROVE  /\ Block(newBlock(p, n, a), p, 4)
         /\ \A w : newBlock(p, n, a)[3] = L("#", w) <=> w = n
         /\ \A k \in 1 .. 5 : ~Remarked(newBlock(p, n, a)[k])
<1> DEFINE o == L("", None)
           g == L("[peer]", None)
           m == L("#", n)
           i == L("AllowedIPs", a)
<1>1. /\ o \in Line /\ g \in Line /\ m \in Line /\ i \in Line
  BY DEF L, Line
<1>2. Blank(o) /\ \A j \in {o, g, m, i, L("PublicKey", p)} : ~Remarked(j)
  BY DEF L, Blank, Remarked
<1>3. g.kind = "[peer]" /\ NameLine(m) /\ i.kind = "AllowedIPs" /\ m.kind = "#"
  BY DEF L, NameLine
<1>4. newBlock(p, n, a) = <<o, g, m, L("PublicKey", p), i>>
  BY DEF newBlock
<1> HIDE DEF o, g, i
<1>5. \A w : m = L("#", w) <=> w = n
  <2>1. m.val = n /\ \A w : L("#", w).val = w
    BY DEF L
  <2> QED BY <2>1
<1> HIDE DEF m
<1>6. Block(<<o, g, m, L("PublicKey", p), i>>, p, 4)
  BY <1>1, <1>2, <1>3, AddedBlock
<1> DEFINE k == L("PublicKey", p)
           b == <<o, g, m, k, i>>
<1>7. k.kind = "PublicKey"
  BY DEF L
<1> HIDE DEF k
<1>8. b[1] = o /\ b[2] = g /\ b[3] = m /\ b[4] = k /\ b[5] = i
  OBVIOUS
<1> HIDE DEF b
<1>9. \A w : b[3] = L("#", w) <=> w = n
  BY <1>5, <1>8
<1>10. \A j \in 1 .. 5 : ~Remarked(b[j])
  <2>1. \A j \in 1 .. 5 : j = 1 \/ j = 2 \/ j = 3 \/ j = 4 \/ j = 5
    OBVIOUS
  <2> QED BY <1>2, <1>8, <2>1 DEF k
<1>11. newBlock(p, n, a) = b
  BY <1>4 DEF b, k
<1> QED BY <1>6, <1>9, <1>10, <1>11 DEF b, k

\* and what people write under the name they give it, if any.
LEMMA WrittenBlock ==
  ASSUME NEW p \in Pub, NEW a \in Addr, NEW s \in Styles
  PROVE  \E y : /\ Block(Written(p, a, s), p, y)
                /\ \A n \in Name : Written(p, a, s)[y - 1] = L("#", n) => s[2] = n
                /\ s[1] = "[peer]" => \A k \in 1 .. Len(Written(p, a, s)) :
                                        ~Remarked(Written(p, a, s)[k])
<1> DEFINE h == L(s[1], None)
           m == L("#", s[2])
           k == L("PublicKey", p)
           i == L("AllowedIPs", a)
           c == L("#", s[3])
<1>1. s[1] \in {"[peer]", "[peer] #"} /\ s[2] \in Name \cup {None} /\ s[3] \in Pub \cup {None}
  BY StylesAssumption
<1>2. /\ h \in Line /\ m \in Line /\ k \in Line /\ i \in Line /\ c \in Line
  BY <1>1 DEF L, Line
<1>3. /\ Header(h) /\ h.kind = s[1] /\ i.kind = "AllowedIPs" /\ k.kind = "PublicKey"
      /\ m.kind = "#" /\ c.kind = "#" /\ m.val = s[2]
      /\ s[2] # None => NameLine(m)
      /\ s[3] # None => NoteLine(c)
      /\ ~Remarked(m) /\ ~Remarked(k) /\ ~Remarked(i) /\ ~Remarked(c)
      /\ s[1] = "[peer]" => ~Remarked(h)
  BY <1>1 DEF L, Header, NameLine, NoteLine, Remarked
<1>4. \A n : (m = L("#", n) => s[2] = n) /\ h # L("#", n)
  <2>1. \A n : L("#", n).kind = "#" /\ L("#", n).val = n
    BY DEF L
  <2>2. h.kind # "#"
    BY <1>3 DEF Header
  <2> HIDE DEF h, m
  <2> QED BY <1>3, <2>1, <2>2
<1>5. Written(p, a, s) = <<h>> \o (IF s[2] = None THEN <<>> ELSE <<m>>) \o <<k, i>>
                               \o (IF s[3] = None THEN <<>> ELSE <<c>>)
  BY DEF Written, Comment
<1> DEFINE b == Written(p, a, s)
<1> HIDE DEF h, m, i, c, b
<1> HIDE DEF k
<1>6. <<h>> \o <<>> = <<h>> /\ <<h, k, i>> \o <<>> = <<h, k, i>> /\ <<h, m, k, i>> \o <<>> = <<h, m, k, i>>
  <2>1. <<h>> \in Seq(Line) /\ <<h, k, i>> \in Seq(Line) /\ <<h, m, k, i>> \in Seq(Line)
    BY <1>2
  <2>2. \A u \in Seq(Line) : u \o <<>> = u
    BY ConcatEmptySeq, Zenon
  <2> QED BY <2>1, <2>2, Zenon
<1>7. /\ <<h>> \o <<m>> = <<h, m>>
      /\ <<h>> \o <<k, i>> = <<h, k, i>>
      /\ <<h, m>> \o <<k, i>> = <<h, m, k, i>>
      /\ <<h, k, i>> \o <<c>> = <<h, k, i, c>>
      /\ <<h, m, k, i>> \o <<c>> = <<h, m, k, i, c>>
  <2>1. <<h>> \o <<m>> = <<h, m>>
    <3>1. \A x, y \in Line : <<x>> \o <<y>> = <<x, y>>
      BY JoinedTuples, Zenon
    <3>2. h \in Line /\ m \in Line
      BY <1>2
    <3> QED BY <3>1, <3>2, Zenon
  <2>2. <<h>> \o <<k, i>> = <<h, k, i>>
    <3>1. \A x, y, z \in Line : <<x>> \o <<y, z>> = <<x, y, z>>
      BY JoinedTuples, Zenon
    <3>2. h \in Line /\ k \in Line /\ i \in Line
      BY <1>2
    <3> QED BY <3>1, <3>2, Zenon
  <2>3. <<h, m>> \o <<k, i>> = <<h, m, k, i>>
    <3>1. \A x, y, z, w \in Line : <<x, y>> \o <<z, w>> = <<x, y, z, w>>
      BY JoinedTuples, Zenon
    <3>2. h \in Line /\ m \in Line /\ k \in Line /\ i \in Line
      BY <1>2
    <3>3. \A z, w \in Line : <<h, m>> \o <<z, w>> = <<h, m, z, w>>
      BY <3>1, <3>2, Zenon
    <3> QED BY <3>2, <3>3, Zenon
  <2>4. <<h, k, i>> \o <<c>> = <<h, k, i, c>>
    <3>1. \A x, y, z, w \in Line : <<x, y, z>> \o <<w>> = <<x, y, z, w>>
      BY JoinedTuples, Zenon
    <3>2. h \in Line /\ k \in Line /\ i \in Line /\ c \in Line
      BY <1>2
    <3>3. \A z, w \in Line : <<h, k, z>> \o <<w>> = <<h, k, z, w>>
      BY <3>1, <3>2, Zenon
    <3> QED BY <3>2, <3>3, Zenon
  <2>5. <<h, m, k, i>> \o <<c>> = <<h, m, k, i, c>>
    <3> DEFINE u == <<h, m, k, i>>
               v == <<c>>
               w == <<h, m, k, i, c>>
    <3>1. u \in Seq(Line) /\ v \in Seq(Line) /\ w \in Seq(Line) /\ Len(u) = 4 /\ Len(v) = 1 /\ Len(w) = 5
      BY <1>2
    <3>2. /\ u[1] = h /\ u[2] = m /\ u[3] = k /\ u[4] = i /\ v[1] = c
          /\ w[1] = h /\ w[2] = m /\ w[3] = k /\ w[4] = i /\ w[5] = c
      OBVIOUS
    <3> HIDE DEF u, v, w
    <3>3. Len(w) = Len(u) + Len(v) /\ \A j \in 1 .. Len(w) : w[j] = IF j <= Len(u) THEN u[j] ELSE v[j - Len(u)]
      BY <3>1, <3>2
    <3>4. u \o v = w
      BY <3>1, <3>3, Joined, Zenon
    <3> QED BY <3>4, Zenon DEF u, v, w
  <2> QED BY <2>1, <2>2, <2>3, <2>4, <2>5
<1>8. CASE s[2] = None
  <2>1. CASE s[3] = None
    <3>1. /\ <<h>> \o <<k, i>> = <<h, k, i>>
      BY <1>7
    <3>2. b = <<h, k, i>>
      BY <1>5, <1>6, <1>8, <2>1, <3>1, Zenon DEF b
    <3>3. Block(<<h, k, i>>, p, 2)
      BY <1>2, <1>3, BareBlock, <1>8, <2>1 DEF k
    <3> DEFINE d == <<h, k, i>>
    <3>4. Len(d) = 3 /\ d[1] = h /\ d[2] = k /\ d[3] = i
      OBVIOUS
    <3> HIDE DEF d
    <3>5. \A n \in Name : d[2 - 1] = L("#", n) => s[2] = n
      BY <1>4, <3>4
    <3>6. s[1] = "[peer]" => \A j \in 1 .. Len(d) : ~Remarked(d[j])
      <4>1. \A j \in 1 .. Len(d) : j = 1 \/ j = 2 \/ j = 3
        BY <3>4
      <4> QED BY <1>3, <3>4, <4>1
    <3>7. b = d /\ Block(d, p, 2)
      BY <3>2, <3>3 DEF d
    <3>8. /\ Block(b, p, 2)
          /\ \A n \in Name : b[2 - 1] = L("#", n) => s[2] = n
          /\ s[1] = "[peer]" => \A j \in 1 .. Len(b) : ~Remarked(b[j])
      BY <3>5, <3>6, <3>7, Zenon
    <3> QED BY <3>8, Zenon DEF b
  <2>2. CASE s[3] # None
    <3>1. /\ <<h>> \o <<k, i>> = <<h, k, i>>
          /\ <<h, k, i>> \o <<c>> = <<h, k, i, c>>
      BY <1>7
    <3>2. b = <<h, k, i, c>>
      BY <1>5, <1>6, <1>8, <2>2, <3>1, Zenon DEF b
    <3>3. Block(<<h, k, i, c>>, p, 2)
      BY <1>2, <1>3, NotedBlock, <1>8, <2>2 DEF k
    <3> DEFINE d == <<h, k, i, c>>
    <3>4. Len(d) = 4 /\ d[1] = h /\ d[2] = k /\ d[3] = i /\ d[4] = c
      OBVIOUS
    <3> HIDE DEF d
    <3>5. \A n \in Name : d[2 - 1] = L("#", n) => s[2] = n
      BY <1>4, <3>4
    <3>6. s[1] = "[peer]" => \A j \in 1 .. Len(d) : ~Remarked(d[j])
      <4>1. \A j \in 1 .. Len(d) : j = 1 \/ j = 2 \/ j = 3 \/ j = 4
        BY <3>4
      <4> QED BY <1>3, <3>4, <4>1
    <3>7. b = d /\ Block(d, p, 2)
      BY <3>2, <3>3 DEF d
    <3>8. /\ Block(b, p, 2)
          /\ \A n \in Name : b[2 - 1] = L("#", n) => s[2] = n
          /\ s[1] = "[peer]" => \A j \in 1 .. Len(b) : ~Remarked(b[j])
      BY <3>5, <3>6, <3>7, Zenon
    <3> QED BY <3>8, Zenon DEF b
  <2> QED BY <2>1, <2>2
<1>9. CASE s[2] # None
  <2>1. CASE s[3] = None
    <3>1. /\ <<h>> \o <<m>> = <<h, m>>
          /\ <<h, m>> \o <<k, i>> = <<h, m, k, i>>
      BY <1>7
    <3>2. b = <<h, m, k, i>>
      BY <1>5, <1>6, <1>9, <2>1, <3>1, Zenon DEF b
    <3>3. Block(<<h, m, k, i>>, p, 3)
      BY <1>2, <1>3, NamedBlock, <1>9, <2>1 DEF k
    <3> DEFINE d == <<h, m, k, i>>
    <3>4. Len(d) = 4 /\ d[1] = h /\ d[2] = m /\ d[3] = k /\ d[4] = i
      OBVIOUS
    <3> HIDE DEF d
    <3>5. \A n \in Name : d[3 - 1] = L("#", n) => s[2] = n
      BY <1>4, <3>4
    <3>6. s[1] = "[peer]" => \A j \in 1 .. Len(d) : ~Remarked(d[j])
      <4>1. \A j \in 1 .. Len(d) : j = 1 \/ j = 2 \/ j = 3 \/ j = 4
        BY <3>4
      <4> QED BY <1>3, <3>4, <4>1
    <3>7. b = d /\ Block(d, p, 3)
      BY <3>2, <3>3 DEF d
    <3>8. /\ Block(b, p, 3)
          /\ \A n \in Name : b[3 - 1] = L("#", n) => s[2] = n
          /\ s[1] = "[peer]" => \A j \in 1 .. Len(b) : ~Remarked(b[j])
      BY <3>5, <3>6, <3>7, Zenon
    <3> QED BY <3>8, Zenon DEF b
  <2>2. CASE s[3] # None
    <3>1. /\ <<h>> \o <<m>> = <<h, m>>
          /\ <<h, m>> \o <<k, i>> = <<h, m, k, i>>
          /\ <<h, m, k, i>> \o <<c>> = <<h, m, k, i, c>>
      BY <1>7
    <3>2. b = <<h, m, k, i, c>>
      BY <1>5, <1>6, <1>9, <2>2, <3>1, Zenon DEF b
    <3>3. Block(<<h, m, k, i, c>>, p, 3)
      BY <1>2, <1>3, FullBlock, <1>9, <2>2 DEF k
    <3> DEFINE d == <<h, m, k, i, c>>
    <3>4. Len(d) = 5 /\ d[1] = h /\ d[2] = m /\ d[3] = k /\ d[4] = i /\ d[5] = c
      OBVIOUS
    <3> HIDE DEF d
    <3>5. \A n \in Name : d[3 - 1] = L("#", n) => s[2] = n
      BY <1>4, <3>4
    <3>6. s[1] = "[peer]" => \A j \in 1 .. Len(d) : ~Remarked(d[j])
      <4>1. \A j \in 1 .. Len(d) : j = 1 \/ j = 2 \/ j = 3 \/ j = 4 \/ j = 5
        BY <3>4
      <4> QED BY <1>3, <3>4, <4>1
    <3>7. b = d /\ Block(d, p, 3)
      BY <3>2, <3>3 DEF d
    <3>8. /\ Block(b, p, 3)
          /\ \A n \in Name : b[3 - 1] = L("#", n) => s[2] = n
          /\ s[1] = "[peer]" => \A j \in 1 .. Len(b) : ~Remarked(b[j])
      BY <3>5, <3>6, <3>7, Zenon
    <3> QED BY <3>8, Zenon DEF b
  <2> QED BY <2>1, <2>2
<1> QED BY <1>8, <1>9

(***************************************************************************)
(* The invariant holds, and every step keeps it.                           *)
(***************************************************************************)
LEMMA AdminStart ==
  ASSUME Init
  PROVE  AdminInv
<1> DEFINE l == L("[interface]", None)
           s == <<l>>
<1>1. l \in Line /\ l.kind = "[interface]"
  BY DEF L, Line
<1> HIDE DEF l
<1>2. s \in Seq(Line) /\ Len(s) = 1 /\ s[1] = l
  BY <1>1
<1> HIDE DEF s
<1>3. Shape(s)
  <2>1. \A p \in Pub, x \in 1 .. Len(s) : ~Declares(s, p, x)
    BY <1>1, <1>2 DEF Declares, L
  <2>2. \A k \in 1 .. Len(s) : s[k].kind = "[interface]" <=> k = 1
    BY <1>1, <1>2
  <2>3. Ends(s[Len(s)])
    BY <1>1, <1>2 DEF Ends
  <2> QED BY <1>2, <2>1, <2>2, <2>3 DEF Shape
<1>4. \A i \in Iface : conf[i] = s
  BY DEF Init, s, l
<1>5. TypeOK
  <2>1. conf = [i \in Iface |-> s]
    BY DEF Init, s, l
  <2>2. conf \in [Iface -> Seq(Line)]
    BY <1>2, <2>1
  <2>3. up \subseteq Iface
    BY DEF Init
  <2>4. \A i \in Iface : live[i] = <<>>
    BY DEF Init
  <2>5. \A i \in Iface : live[i] \in [DOMAIN live[i] -> Addr \cup {None}] /\ DOMAIN live[i] \subseteq Pub
    <3>1. DOMAIN <<>> = {} /\ <<>> \in [{} -> Addr \cup {None}]
      OBVIOUS
    <3> QED BY <2>4, <3>1
  <2>6. client \in [Iface -> [Name -> [pub : Pub, addr : Addr] \cup {None}]]
    BY DEF Init, NoFiles
  <2>7. names \in [Pub -> Name \cup {None}]
    BY DEF Init, NoNames
  <2>8. edits \in 0 .. MaxEdits
    BY EditsAssumption DEF Init
  <2> QED BY <2>2, <2>3, <2>5, <2>6, <2>7, <2>8 DEF TypeOK
<1>6. live = [i \in Iface |-> live[i]]
  BY DEF Init
<1>7. OneConfig
  <2>1. \A i \in Iface, p \in Pub, x \in Nat : ~Declares(conf[i], p, x)
    BY <1>1, <1>2, <1>4 DEF Declares, L
  <2> QED BY <2>1 DEF OneConfig
<1>8. FilesAreOwn
  BY DEF Init, NoFiles, FilesAreOwn
<1> QED BY <1>3, <1>4, <1>5, <1>6, <1>7, <1>8 DEF AdminInv

\* Another interface's lines are as before, and so are its types.
LEMMA ConfType ==
  ASSUME AdminInv, NEW i \in Iface, NEW t, Shape(t), conf' = [conf EXCEPT ![i] = t]
  PROVE  /\ conf' \in [Iface -> Seq(Line)]
         /\ \A j \in Iface : conf'[j] = IF j = i THEN t ELSE conf[j]
         /\ \A j \in Iface : Shape(conf'[j])
<1>1. conf \in [Iface -> Seq(Line)] /\ \A j \in Iface : Shape(conf[j])
  BY DEF AdminInv, TypeOK
<1>2. t \in Seq(Line)
  BY DEF Shape
<1>3. conf' \in [Iface -> Seq(Line)] /\ \A j \in Iface : conf'[j] = IF j = i THEN t ELSE conf[j]
  BY <1>1, <1>2
<1>4. \A j \in Iface : Shape(conf'[j])
  BY <1>1, <1>3
<1> QED BY <1>3, <1>4

\* The names in the blocks are those there were, but m may name p in config i.
NamesGrow(i, p, m) ==
  \A j \in Iface, q \in Pub, n \in Name : Named(conf'[j], q, n) =>
    Named(conf[j], q, n) \/ (j = i /\ q = p /\ m = L("#", n))

\* One peer more in one config, that no other declares.
LEMMA OneMore ==
  ASSUME AdminInv, NEW i \in Iface, NEW p \in Pub, NEW b, NEW y, Block(b, p, y),
         \A j \in Iface : \A x : ~Declares(conf[j], p, x),
         conf' = [conf EXCEPT ![i] = @ \o b]
  PROVE  /\ conf' \in [Iface -> Seq(Line)] /\ \A j \in Iface : Shape(conf'[j])
         /\ OneConfig' /\ NamesGrow(i, p, b[y - 1])
<1> DEFINE t == conf[i] \o b
<1>1. Shape(conf[i])
  BY DEF AdminInv
<1>2. /\ Shape(t)
      /\ \A q \in Pub : \A x : Declares(t, q, x) <=> Declares(conf[i], q, x) \/ (q = p /\ x = Len(conf[i]) + y)
      /\ \A q \in Pub : \A n : Named(t, q, n) <=> Named(conf[i], q, n) \/ (q = p /\ b[y - 1] = L("#", n))
  BY <1>1, Appended
<1>3. conf' = [conf EXCEPT ![i] = t]
  OBVIOUS
<1> HIDE DEF t
<1>4. /\ conf' \in [Iface -> Seq(Line)]
      /\ \A j \in Iface : conf'[j] = IF j = i THEN t ELSE conf[j]
      /\ \A j \in Iface : Shape(conf'[j])
  BY <1>2, <1>3, ConfType
<1>5. OneConfig'
  <2> SUFFICES ASSUME NEW j \in Iface, NEW k \in Iface, NEW q \in Pub, NEW x \in Nat, NEW z \in Nat,
                      Declares(conf'[j], q, x), Declares(conf'[k], q, z)
               PROVE  j = k
    BY DEF OneConfig, Declares
  <2>1. Declares(conf[j], q, x) \/ (j = i /\ q = p)
    BY <1>2, <1>4
  <2>2. Declares(conf[k], q, z) \/ (k = i /\ q = p)
    BY <1>2, <1>4
  <2>3. CASE q = p
    BY <2>1, <2>2, <2>3
  <2>4. CASE q # p
    BY <2>1, <2>2, <2>4 DEF AdminInv, OneConfig
  <2> QED BY <2>3, <2>4
<1>6. NamesGrow(i, p, b[y - 1])
  BY <1>2, <1>4 DEF NamesGrow
<1> QED BY <1>4, <1>5, <1>6

\* What administrators and people do keeps the invariant: `peer add`,
LEMMA AddKeeps ==
  ASSUME AdminInv, NEW n \in Name, NEW i \in up, NEW p \in Pub, addPeer(n, i, p)
  PROVE  AdminInv'
<1>1. i \in Iface
  BY DEF AdminInv, TypeOK
<1>2. PICK a \in Addr : a = freeAddress(i)
  <2>1. Addr \ Taken(i) # {}
    BY DEF addPeer
  <2>2. Addr \ Taken(i) \in SUBSET Nat
    BY AddrAssumption
  <2> QED BY <2>1, <2>2, MinOf DEF freeAddress
<1>3. PICK b, y : /\ b = newBlock(p, n, a) /\ Block(b, p, y)
                  /\ \A w : b[y - 1] = L("#", w) <=> w = n
  <2> PICK c : c = newBlock(p, n, a)
    OBVIOUS
  <2>1. Block(c, p, 4) /\ c[4 - 1] = c[3]
    BY <1>2, NewBlock
  <2>2. \A w : c[3] = L("#", w) <=> w = n
    BY <1>2, NewBlock
  <2>3. \A w : c[4 - 1] = L("#", w) <=> w = n
    BY <2>1, <2>2, Zenon
  <2> WITNESS c, 4
  <2> QED BY <2>1, <2>3
<1>4. /\ \A q \in Pub : resolveNames[q] # n
      /\ client[i][n] = None
      /\ \A j \in Iface : ~Has(conf[j], LAMBDA l : Mentions(l, p))
      /\ conf' = [conf EXCEPT ![i] = @ \o b]
      /\ live' = [live EXCEPT ![i] = [q \in DOMAIN @ \cup {p} |-> IF q = p THEN a ELSE @[q]]]
      /\ client' = [client EXCEPT ![i][n] = [pub |-> p, addr |-> a]]
      /\ up' = up /\ names' = names /\ edits' = edits
  BY <1>2, <1>3 DEF addPeer
<1>5. \A j \in Iface : \A x : ~Declares(conf[j], p, x)
  BY <1>4 DEF Has, Mentions, Declares, L
<1>6. /\ conf' \in [Iface -> Seq(Line)] /\ \A j \in Iface : Shape(conf'[j])
      /\ OneConfig'
      /\ \A j \in Iface, q \in Pub, w \in Name : Named(conf'[j], q, w) =>
           Named(conf[j], q, w) \/ (j = i /\ q = p /\ w = n)
  <2>1. conf' = [conf EXCEPT ![i] = @ \o b]
    BY <1>4
  <2>2. Block(b, p, y)
    BY <1>3
  <2>3. /\ conf' \in [Iface -> Seq(Line)] /\ \A j \in Iface : Shape(conf'[j])
        /\ OneConfig' /\ NamesGrow(i, p, b[y - 1])
    BY <1>1, <1>5, <2>1, <2>2, OneMore, Zenon
  <2>4. \A w \in Name : b[y - 1] = L("#", w) => w = n
    BY <1>3, Zenon
  <2>5. \A j \in Iface, q \in Pub, w \in Name : Named(conf'[j], q, w) =>
          Named(conf[j], q, w) \/ (j = i /\ q = p /\ w = n)
    BY <2>3, <2>4 DEF NamesGrow
  <2> QED BY <2>3, <2>5
<1>7. /\ client \in [Iface -> [Name -> [pub : Pub, addr : Addr] \cup {None}]]
      /\ names \in [Pub -> Name \cup {None}] /\ up \subseteq Iface /\ edits \in 0 .. MaxEdits
      /\ live = [j \in Iface |-> live[j]]
      /\ \A j \in Iface : live[j] \in [DOMAIN live[j] -> Addr \cup {None}] /\ DOMAIN live[j] \subseteq Pub
  BY DEF AdminInv, TypeOK
<1>8. /\ client' \in [Iface -> [Name -> [pub : Pub, addr : Addr] \cup {None}]]
      /\ \A j \in Iface, w \in Name :
           client'[j][w] = IF j = i /\ w = n THEN [pub |-> p, addr |-> a] ELSE client[j][w]
  BY <1>1, <1>4, <1>7
<1>9. /\ live' = [j \in Iface |-> live'[j]]
      /\ \A j \in Iface : live'[j] \in [DOMAIN live'[j] -> Addr \cup {None}] /\ DOMAIN live'[j] \subseteq Pub
  <2> DEFINE m == [q \in DOMAIN live[i] \cup {p} |-> IF q = p THEN a ELSE live[i][q]]
  <2>1. live' = [live EXCEPT ![i] = m]
    BY <1>4
  <2>2. m \in [DOMAIN m -> Addr \cup {None}] /\ DOMAIN m \subseteq Pub
    BY <1>1, <1>7
  <2> HIDE DEF m
  <2>3. \A j \in Iface : live'[j] = IF j = i THEN m ELSE live[j]
    BY <1>7, <2>1
  <2>4. live' = [j \in Iface |-> live'[j]]
    BY <1>7, <2>1
  <2>5. \A j \in Iface : live'[j] \in [DOMAIN live'[j] -> Addr \cup {None}] /\ DOMAIN live'[j] \subseteq Pub
    BY <1>7, <2>2, <2>3
  <2> QED BY <2>4, <2>5
<1>10. TypeOK'
  BY <1>4, <1>6, <1>7, <1>8, <1>9 DEF TypeOK
<1>11. FilesAreOwn'
  <2> SUFFICES ASSUME NEW j \in Iface, NEW q \in Pub, NEW w \in Name,
                      names[q] = w \/ (names[q] = None /\ Named(conf'[j], q, w)),
                      client'[j][w] # None
               PROVE  client'[j][w].pub = q
    BY <1>4 DEF FilesAreOwn
  <2>1. CASE ~(j = i /\ w = n)
    <3>1. names[q] = w \/ (names[q] = None /\ Named(conf[j], q, w))
      BY <1>6, <2>1
    <3>2. client'[j][w] = client[j][w]
      BY <1>8, <2>1
    <3> QED BY <3>1, <3>2 DEF AdminInv, FilesAreOwn
  <2>2. CASE j = i /\ w = n
    <3>1. client'[j][w].pub = p
      BY <1>8, <2>2
    <3>2. q = p
      <4> SUFFICES ASSUME q # p
                   PROVE  FALSE
        OBVIOUS
      <4>1. names[q] = n \/ (names[q] = None /\ Named(conf[i], q, n))
        BY <1>6, <2>2
      <4>2. resolveNames[q] = n
        BY <4>1, NameOfIs
      <4> QED BY <1>4, <4>2
    <3> QED BY <3>1, <3>2
  <2> QED BY <2>1, <2>2
<1> QED BY <1>6, <1>9, <1>10, <1>11 DEF AdminInv

\* a block written by hand,
LEMMA WriteKeeps ==
  ASSUME AdminInv, NEW i \in Iface, NEW p \in Pub, NEW a \in Addr, NEW s \in Styles,
         NEW f \in Name \cup {None}, WriteBlock(i, p, a, s, f)
  PROVE  AdminInv'
<1>1. /\ edits < MaxEdits /\ edits' = edits + 1
      /\ \A j \in Iface : SectionsOf(conf[j], p) = {}
      /\ \A n \in {s[2], f} \cap Name : Unused(n, p)
      /\ conf' = [conf EXCEPT ![i] = @ \o Written(p, a, s)]
      /\ client' = IF f = None THEN client ELSE [client EXCEPT ![i][f] = [pub |-> p, addr |-> a]]
      /\ up' = up /\ live' = live /\ names' = names
  BY DEF WriteBlock, Edit
<1>2. PICK b, y : /\ b = Written(p, a, s) /\ Block(b, p, y)
                  /\ \A n \in Name : b[y - 1] = L("#", n) => s[2] = n
  <2>1. PICK y : /\ Block(Written(p, a, s), p, y)
                 /\ \A n \in Name : Written(p, a, s)[y - 1] = L("#", n) => s[2] = n
    BY WrittenBlock, Zenon
  <2> WITNESS Written(p, a, s), y
  <2> QED BY <2>1
<1>3. \A j \in Iface : \A x : ~Declares(conf[j], p, x)
  <2> SUFFICES ASSUME NEW j \in Iface, NEW x, Declares(conf[j], p, x)
               PROVE  FALSE
    OBVIOUS
  <2>1. Shape(conf[j])
    BY DEF AdminInv
  <2>2. SectionsOf(conf[j], p) = {HeadOf(conf[j], x)}
    BY <2>1, SectionsAre
  <2> QED BY <1>1, <2>2
<1>4. /\ conf' \in [Iface -> Seq(Line)] /\ \A j \in Iface : Shape(conf'[j])
      /\ OneConfig' /\ NamesGrow(i, p, b[y - 1])
  <2>1. conf' = [conf EXCEPT ![i] = @ \o b] /\ Block(b, p, y)
    BY <1>1, <1>2
  <2> QED BY <1>3, <2>1, OneMore, Zenon
<1>5. /\ client \in [Iface -> [Name -> [pub : Pub, addr : Addr] \cup {None}]]
      /\ names \in [Pub -> Name \cup {None}] /\ up \subseteq Iface /\ edits \in 0 .. MaxEdits
      /\ live = [j \in Iface |-> live[j]]
      /\ \A j \in Iface : live[j] \in [DOMAIN live[j] -> Addr \cup {None}] /\ DOMAIN live[j] \subseteq Pub
  BY DEF AdminInv, TypeOK
<1>6. /\ client' \in [Iface -> [Name -> [pub : Pub, addr : Addr] \cup {None}]]
      /\ \A j \in Iface, w \in Name :
           client'[j][w] = IF j = i /\ w = f THEN [pub |-> p, addr |-> a] ELSE client[j][w]
  <2>1. CASE f = None
    <3>1. None \notin Name
      BY NoneAssumption
    <3> QED BY <1>1, <1>5, <2>1, <3>1
  <2>2. CASE f # None
    <3>1. f \in Name /\ client' = [client EXCEPT ![i][f] = [pub |-> p, addr |-> a]]
      BY <1>1, <2>2
    <3> QED BY <1>5, <3>1
  <2> QED BY <2>1, <2>2
<1>7. edits' \in 0 .. MaxEdits
  BY <1>1, <1>5, EditsAssumption
<1>8. TypeOK'
  BY <1>1, <1>4, <1>5, <1>6, <1>7 DEF TypeOK
<1>9. FilesAreOwn'
  <2> SUFFICES ASSUME NEW j \in Iface, NEW q \in Pub, NEW w \in Name,
                      names[q] = w \/ (names[q] = None /\ Named(conf'[j], q, w)),
                      client'[j][w] # None
               PROVE  client'[j][w].pub = q
    BY <1>1 DEF FilesAreOwn
  <2>1. Named(conf'[j], q, w) =>
          Named(conf[j], q, w) \/ (j = i /\ q = p /\ s[2] = w)
    BY <1>2, <1>4 DEF NamesGrow
  <2>2. CASE j = i /\ w = f
    <3>1. Unused(w, p)
      BY <1>1, <2>2
    <3>2. client'[j][w].pub = p
      BY <1>6, <2>2
    <3>3. CASE Named(conf[j], q, w)
      <4>1. L("#", w) \in Range(conf[j])
        <5>1. PICK x \in 1 .. Len(conf[j]) : Declares(conf[j], q, x) /\ conf[j][x - 1] = L("#", w)
          BY <3>3 DEF Named
        <5>2. x - 1 \in DOMAIN conf[j]
          <6>1. Shape(conf[j])
            BY DEF AdminInv
          <6>2. HeadOf(conf[j], x) \in 2 .. x - 1
            BY <5>1, <6>1, KeyBlock
          <6>3. Len(conf[j]) \in Nat /\ DOMAIN conf[j] = 1 .. Len(conf[j])
            BY <6>1, ShapeFacts
          <6> QED BY <6>2, <6>3
        <5> QED BY <5>1, <5>2 DEF Range
      <4> QED BY <3>1, <4>1 DEF Unused
    <3>4. CASE names[q] = w
      BY <3>1, <3>2, <3>4 DEF Unused
    <3> QED BY <2>1, <3>2, <3>3, <3>4
  <2>3. CASE ~(j = i /\ w = f)
    <3>1. client'[j][w] = client[j][w]
      BY <1>6, <2>3
    <3>2. CASE j = i /\ q = p /\ s[2] = w
      <4>1. client[i][w] = None
        BY <1>1, <3>2 DEF Unused
      <4> QED BY <3>1, <3>2, <4>1
    <3>3. CASE names[q] = w \/ (names[q] = None /\ Named(conf[j], q, w))
      BY <3>1, <3>3 DEF AdminInv, FilesAreOwn
    <3> QED BY <2>1, <3>2, <3>3
  <2> QED BY <2>2, <2>3
<1> QED BY <1>1, <1>4, <1>5, <1>8, <1>9 DEF AdminInv

\* a name taken or given up,
LEMMA RenameKeeps ==
  ASSUME AdminInv, NEW p \in Pub, NEW n \in Name \cup {None}, Rename(p, n)
  PROVE  AdminInv'
<1>1. /\ edits < MaxEdits /\ edits' = edits + 1
      /\ IF n # None THEN Unused(n, p) ELSE OwnAgain(p)
      /\ names' = [names EXCEPT ![p] = n]
      /\ conf' = conf /\ up' = up /\ live' = live /\ client' = client
  BY DEF Rename, Edit
<1>2. names \in [Pub -> Name \cup {None}] /\ edits \in 0 .. MaxEdits
  BY DEF AdminInv, TypeOK
<1>3. /\ names' \in [Pub -> Name \cup {None}]
      /\ \A q \in Pub : names'[q] = IF q = p THEN n ELSE names[q]
  BY <1>1, <1>2
<1>4. edits' \in 0 .. MaxEdits
  BY <1>1, <1>2, EditsAssumption
<1>5. TypeOK'
  BY <1>1, <1>3, <1>4 DEF AdminInv, TypeOK
<1>6. FilesAreOwn'
  <2> SUFFICES ASSUME NEW j \in Iface, NEW q \in Pub, NEW w \in Name,
                      names'[q] = w \/ (names'[q] = None /\ Named(conf[j], q, w)),
                      client[j][w] # None
               PROVE  client[j][w].pub = q
    BY <1>1 DEF FilesAreOwn
  <2>1. None \notin Name
    BY NoneAssumption
  <2>2. CASE q # p
    BY <1>3, <2>2 DEF AdminInv, FilesAreOwn
  <2>3. CASE q = p /\ n # None
    <3>1. n = w /\ Unused(n, p)
      BY <1>1, <1>3, <2>3
    <3>2. client[j][w] = None
      BY <3>1 DEF Unused
    <3> QED BY <3>2
  <2>4. CASE q = p /\ n = None
    <3>1. Named(conf[j], p, w) /\ OwnAgain(p)
      BY <1>1, <1>3, <2>1, <2>4
    <3>2. namesFromConfig(conf[j])[p] = w
      <4>1. PICK x \in 1 .. Len(conf[j]) : Declares(conf[j], p, x) /\ conf[j][x - 1] = L("#", w)
        BY <3>1 DEF Named
      <4>2. conf[j][x - 1].kind = "#" /\ conf[j][x - 1].val = w
        BY <4>1 DEF L
      <4>3. Shape(conf[j])
        BY DEF AdminInv
      <4> QED BY <4>1, <4>2, <4>3, NamesRead
    <3> QED BY <2>4, <3>1, <3>2 DEF OwnAgain
  <2> QED BY <2>2, <2>3, <2>4
<1>7. OneConfig' /\ \A i \in Iface : Shape(conf'[i])
  BY <1>1 DEF AdminInv, OneConfig, Declares
<1> QED BY <1>1, <1>5, <1>6, <1>7 DEF AdminInv

\* an interface that goes down or comes up.
LEMMA UpDownKeeps ==
  ASSUME AdminInv, NEW i \in Iface, Up(i) \/ Down(i)
  PROVE  AdminInv'
<1>1. PICK m : /\ live' = [live EXCEPT ![i] = m]
               /\ m \in [DOMAIN m -> Addr \cup {None}] /\ DOMAIN m \subseteq Pub
  <2>1. CASE Up(i)
    <3>1. Shape(conf[i])
      BY DEF AdminInv
    <3>2. live' = [live EXCEPT ![i] = wgPeers(conf[i])]
      BY <2>1 DEF Up
    <3> QED BY <3>1, <3>2, WgType, Zenon
  <2>2. CASE Down(i)
    <3>1. live' = [live EXCEPT ![i] = <<>>]
      BY <2>2 DEF Down
    <3>2. <<>> \in [DOMAIN <<>> -> Addr \cup {None}] /\ DOMAIN <<>> \subseteq Pub
      OBVIOUS
    <3> QED BY <3>1, <3>2
  <2> QED BY <2>1, <2>2
<1>2. conf' = conf /\ client' = client /\ names' = names /\ edits' = edits
  BY DEF Up, Down
<1>3. up' \subseteq Iface
  BY DEF Up, Down, AdminInv, TypeOK
<1>4. live = [j \in Iface |-> live[j]]
  BY DEF AdminInv
<1>5. live' = [j \in Iface |-> live'[j]] /\ \A j \in Iface : live'[j] = IF j = i THEN m ELSE live[j]
  BY <1>1, <1>4
<1>6. \A j \in Iface : live'[j] \in [DOMAIN live'[j] -> Addr \cup {None}] /\ DOMAIN live'[j] \subseteq Pub
  <2>1. \A j \in Iface : live[j] \in [DOMAIN live[j] -> Addr \cup {None}] /\ DOMAIN live[j] \subseteq Pub
    BY DEF AdminInv, TypeOK
  <2> QED BY <1>1, <1>5, <2>1
<1>7. TypeOK'
  BY <1>2, <1>3, <1>6 DEF AdminInv, TypeOK
<1>8. FilesAreOwn' /\ OneConfig' /\ \A j \in Iface : Shape(conf'[j])
  BY <1>2 DEF AdminInv, OneConfig, FilesAreOwn, Declares, Named
<1> QED BY <1>5, <1>7, <1>8 DEF AdminInv

\* A removal keeps it as well: what is left of the config was there before.
LEMMA RemoveKeeps ==
  ASSUME AdminInv, NEW p \in Pub, removePeer(p)
  PROVE  AdminInv'
<1>1. PICK i \in Iface :
        /\ live' = [live EXCEPT ![i] = [q \in DOMAIN @ \ {p} |-> @[q]]]
        /\ conf' = [conf EXCEPT ![i] = removePeerFromConf(@, p)]
        /\ client' = IF nameOfPeer(p) \in Name THEN [client EXCEPT ![i][nameOfPeer(p)] = None] ELSE client
        /\ up' = up /\ names' = names /\ edits' = edits
  <2>1. up \subseteq Iface
    BY DEF AdminInv, TypeOK
  <2>2. ifaceOf(p) \in up
    BY <2>1, IfacesUp DEF removePeer
  <2>3. ifaceOf(p) \in Iface
    BY <2>1, <2>2
  <2> WITNESS ifaceOf(p) \in Iface
  <2> QED BY DEF removePeer
<1>2. Shape(conf[i])
  BY DEF AdminInv
<1>3. PICK t, W : t = removePeerFromConf(conf[i], p) /\ Shape(t) /\ Kept(conf[i], t, W)
  <2> DEFINE u == removePeerFromConf(conf[i], p)
  <2>1. Shape(u) /\ \E W : Kept(conf[i], u, W)
    BY <1>2, Removed, Zenon
  <2> QED BY <2>1, Zenon
<1>4. conf' = [conf EXCEPT ![i] = t]
  BY <1>1, <1>3
<1>5. /\ conf' \in [Iface -> Seq(Line)]
      /\ \A j \in Iface : conf'[j] = IF j = i THEN t ELSE conf[j]
      /\ \A j \in Iface : Shape(conf'[j])
  BY <1>3, <1>4, ConfType, Zenon
<1>6. \A j \in Iface : \A q \in Pub : \A x : Declares(conf'[j], q, x) =>
        \E y \in Nat : Declares(conf[j], q, y) /\ conf'[j][x - 1] = conf[j][y - 1]
  <2> SUFFICES ASSUME NEW j \in Iface, NEW q \in Pub, NEW x, Declares(conf'[j], q, x)
               PROVE  \E y \in Nat : Declares(conf[j], q, y) /\ conf'[j][x - 1] = conf[j][y - 1]
    OBVIOUS
  <2>1. CASE j = i
    <3>1. Declares(t, q, x) /\ x \in 1 .. Len(t) /\ conf'[j] = t
      BY <1>3, <1>5, <2>1, ShapeFacts DEF Declares
    <3>2. Declares(conf[i], q, W[x]) /\ t[x - 1] = conf[i][W[x] - 1]
      BY <1>3, <3>1 DEF Kept
    <3>3. W[x] \in Nat
      BY <1>2, <3>2, ShapeFacts DEF Declares
    <3> QED BY <2>1, <3>1, <3>2, <3>3
  <2>2. CASE j # i
    <3>1. conf'[j] = conf[j] /\ Shape(conf[j])
      BY <1>5, <2>2 DEF AdminInv
    <3>2. x \in Nat
      BY <3>1, ShapeFacts DEF Declares
    <3> QED BY <3>1, <3>2
  <2> QED BY <2>1, <2>2
<1>7. OneConfig'
  <2> SUFFICES ASSUME NEW j \in Iface, NEW k \in Iface, NEW q \in Pub, NEW x \in Nat, NEW z \in Nat,
                      Declares(conf'[j], q, x), Declares(conf'[k], q, z)
               PROVE  j = k
    BY DEF OneConfig, Declares
  <2>1. PICK y1 \in Nat : Declares(conf[j], q, y1)
    BY <1>6
  <2>2. PICK y2 \in Nat : Declares(conf[k], q, y2)
    BY <1>6
  <2> QED BY <2>1, <2>2, Zenon DEF AdminInv, OneConfig
<1>8. /\ client \in [Iface -> [Name -> [pub : Pub, addr : Addr] \cup {None}]]
      /\ names \in [Pub -> Name \cup {None}] /\ up \subseteq Iface /\ edits \in 0 .. MaxEdits
      /\ live = [j \in Iface |-> live[j]]
      /\ \A j \in Iface : live[j] \in [DOMAIN live[j] -> Addr \cup {None}] /\ DOMAIN live[j] \subseteq Pub
  BY DEF AdminInv, TypeOK
<1>9. /\ client' \in [Iface -> [Name -> [pub : Pub, addr : Addr] \cup {None}]]
      /\ \A j \in Iface, w \in Name : client'[j][w] # None => client'[j][w] = client[j][w]
  <2>1. CASE nameOfPeer(p) \in Name
    BY <1>1, <1>8, <2>1
  <2>2. CASE nameOfPeer(p) \notin Name
    BY <1>1, <1>8, <2>2
  <2> QED BY <2>1, <2>2
<1>10. /\ live' = [j \in Iface |-> live'[j]]
       /\ \A j \in Iface : live'[j] \in [DOMAIN live'[j] -> Addr \cup {None}] /\ DOMAIN live'[j] \subseteq Pub
  <2> DEFINE m == [q \in DOMAIN live[i] \ {p} |-> live[i][q]]
  <2>1. live' = [live EXCEPT ![i] = m]
    BY <1>1
  <2>2. m \in [DOMAIN m -> Addr \cup {None}] /\ DOMAIN m \subseteq Pub
    BY <1>8
  <2> HIDE DEF m
  <2>3. \A j \in Iface : live'[j] = IF j = i THEN m ELSE live[j]
    BY <1>8, <2>1
  <2>4. live' = [j \in Iface |-> live'[j]]
    BY <1>8, <2>1
  <2>5. \A j \in Iface : live'[j] \in [DOMAIN live'[j] -> Addr \cup {None}] /\ DOMAIN live'[j] \subseteq Pub
    BY <1>8, <2>2, <2>3
  <2> QED BY <2>4, <2>5
<1>11. TypeOK'
  BY <1>1, <1>5, <1>8, <1>9, <1>10 DEF TypeOK
<1>12. FilesAreOwn'
  <2> SUFFICES ASSUME NEW j \in Iface, NEW q \in Pub, NEW w \in Name,
                      names[q] = w \/ (names[q] = None /\ Named(conf'[j], q, w)),
                      client'[j][w] # None
               PROVE  client'[j][w].pub = q
    BY <1>1 DEF FilesAreOwn
  <2>1. ASSUME Named(conf'[j], q, w)
        PROVE  Named(conf[j], q, w)
    <3>1. \A y : Declares(conf[j], q, y) => y \in 1 .. Len(conf[j])
      <4>1. Shape(conf[j])
        BY DEF AdminInv
      <4> QED BY <4>1, ShapeFacts DEF Declares
    <3>2. PICK x \in 1 .. Len(conf'[j]) : Declares(conf'[j], q, x) /\ conf'[j][x - 1] = L("#", w)
      BY <2>1 DEF Named
    <3>3. PICK y \in Nat : Declares(conf[j], q, y) /\ conf'[j][x - 1] = conf[j][y - 1]
      <4>1. \A z : Declares(conf'[j], q, z) =>
              \E y \in Nat : Declares(conf[j], q, y) /\ conf'[j][z - 1] = conf[j][y - 1]
        BY <1>6
      <4>2. Declares(conf'[j], q, x)
        BY <3>2
      <4> QED BY <4>1, <4>2, Zenon
    <3>4. Declares(conf[j], q, y) /\ conf[j][y - 1] = L("#", w)
      BY <3>2, <3>3, Zenon
    <3> QED BY <3>1, <3>4 DEF Named
  <2>2. client'[j][w] = client[j][w]
    BY <1>9
  <2> QED BY <2>1, <2>2 DEF AdminInv, FilesAreOwn
<1> QED BY <1>5, <1>7, <1>10, <1>11, <1>12 DEF AdminInv

\* A call removes a key, and creates on an interface that is up.
LEMMA Calls ==
  ASSUME AdminInv
  PROVE  /\ \A want : resolvePeer(want) # None => resolvePeer(want) \in Pub
         /\ \A kind : \A n, p : addPeer(n, ifaceOfKind(kind), p) => ifaceOfKind(kind) \in up
         /\ \A kind : \A n, p : addPeer(n, pickIface(kind), p) => pickIface(kind) \in up
<1>1. ASSUME NEW want, resolvePeer(want) # None
      PROVE  resolvePeer(want) \in Pub
  <2> DEFINE hits == {p \in Pub : resolveNames[p] = want}
  <2>1. CASE want \in Pub /\ resolveNames[want] # None
    BY <2>1 DEF resolvePeer
  <2>2. CASE ~(want \in Pub /\ resolveNames[want] # None)
    <3>1. resolvePeer(want) = IF Cardinality(hits) = 1 THEN CHOOSE p \in hits : TRUE ELSE None
      BY <2>2 DEF resolvePeer
    <3> HIDE DEF hits
    <3>2. Cardinality(hits) = 1
      BY <1>1, <3>1
    <3>3. hits # {}
      BY <3>2, FS_EmptySet
    <3>4. resolvePeer(want) \in hits
      BY <3>1, <3>2, <3>3
    <3> QED BY <3>4 DEF hits
  <2> QED BY <2>1, <2>2
<1>2. up \subseteq Iface
  BY DEF AdminInv, TypeOK
<1>3. /\ \A kind : ifaceOfKind(kind) # None => ifaceOfKind(kind) \in up
      /\ \A kind : pickIface(kind) # None => pickIface(kind) \in up
  BY <1>2, IfacesUp
<1>4. \A i : \A n, p : addPeer(n, i, p) => i # None
  BY DEF addPeer
<1> QED BY <1>1, <1>3, <1>4

LEMMA AdminStep ==
  ASSUME AdminInv, [Next]_vars
  PROVE  AdminInv'
<1>1. CASE \E n \in Name, kind \in {"wg", "awg"}, p \in Pub : PostPeer(n, kind, p)
  <2>1. PICK n \in Name, kind \in {"wg", "awg"}, p \in Pub : addPeer(n, ifaceOfKind(kind), p)
    BY <1>1 DEF PostPeer
  <2>2. ifaceOfKind(kind) \in up
    BY <2>1, Calls
  <2> QED BY <2>1, <2>2, AddKeeps
<1>2. CASE \E p \in Pub : DeletePeer(p)
  BY <1>2, RemoveKeeps DEF DeletePeer
<1>3. CASE \E n \in Name, kind \in {"wg", "awg", None}, p \in Pub : peerAddCmd(n, kind, p)
  <2>1. PICK n \in Name, kind \in {"wg", "awg", None}, p \in Pub : addPeer(n, pickIface(kind), p)
    BY <1>3 DEF peerAddCmd
  <2>2. pickIface(kind) \in up
    BY <2>1, Calls
  <2> QED BY <2>1, <2>2, AddKeeps
<1>4. CASE \E want \in Name \cup Pub : peerRemoveCmd(want)
  <2>1. PICK want \in Name \cup Pub : resolvePeer(want) # None /\ removePeer(resolvePeer(want))
    BY <1>4 DEF peerRemoveCmd
  <2>2. resolvePeer(want) \in Pub
    BY <2>1, Calls
  <2> QED BY <2>1, <2>2, RemoveKeeps
<1>5. CASE People
  <2>1. CASE \E i \in Iface, p \in Pub, a \in Addr, s \in Styles, f \in Name \cup {None} :
               WriteBlock(i, p, a, s, f)
    BY <2>1, WriteKeeps
  <2>2. CASE \E p \in Pub, n \in Name \cup {None} : Rename(p, n)
    BY <2>2, RenameKeeps
  <2>3. CASE \E i \in Iface : Up(i) \/ Down(i)
    BY <2>3, UpDownKeeps
  <2> QED BY <1>5, <2>1, <2>2, <2>3 DEF People
<1>6. CASE UNCHANGED vars
  BY <1>6 DEF vars, AdminInv, TypeOK, OneConfig, FilesAreOwn, Declares, Named
<1> QED BY <1>1, <1>2, <1>3, <1>4, <1>5, <1>6 DEF Next

(***************************************************************************)
(* The theorems.                                                           *)
(***************************************************************************)
\* Every config keeps its shape, no key is declared twice, and the file of the name
\* a peer goes by is the peer's, whatever people edit between the calls of
\* createPeer, removePeer and the renaming of peers.
THEOREM AdminInvariant == Spec => []AdminInv
<1>1. Init => AdminInv
  BY AdminStart
<1>2. AdminInv /\ [Next]_vars => AdminInv'
  BY AdminStep
<1> QED BY <1>1, <1>2, PTL DEF Spec

\* The lines, live peers, files and names are of their types.
THEOREM AdminTypes == Spec => []TypeOK
<1>1. AdminInv => TypeOK
  BY DEF AdminInv
<1> QED BY <1>1, AdminInvariant, PTL

\* namesFromConfig gives a peer the name in its own block or none, for any peers and
\* configs and any number of edits by hand: no comment leaks onto the next peer.
THEOREM NamesAreAlwaysOwn == Spec => []NamesAreOwn
<1>1. AdminInv => NamesAreOwn
  BY OwnNames
<1> QED BY <1>1, AdminInvariant, PTL

(***************************************************************************)
(* What a peer is answered with.                                           *)
(***************************************************************************)
\* The address looked up for a peer is the one in its block.
LEMMA AddressIs ==
  ASSUME NEW s, Shape(s), NEW p \in Pub, L("#", p) \notin Range(s), NEW x, Declares(s, p, x)
  PROVE  peerAddressIn(s, p) = s[x + 1].val /\ s[x + 1].val # None
<1> DEFINE opens == {1} \cup {k \in DOMAIN s : OpensSection(s[k])}
           starts == {k \in opens : /\ Has(Section(s, k), LAMBDA l : Mentions(l, p))
                                    /\ confValue(Section(s, k), "AllowedIPs") # None}
           h == HeadOf(s, x)
<1>1. DOMAIN s = 1 .. Len(s) /\ Len(s) \in Nat /\ 1 \in 1 .. Len(s)
  BY ShapeFacts
<1>2. x \in 1 .. Len(s) /\ h \in 2 .. x - 1 /\ Header(s[h]) /\ s[x + 1].val \in Addr
  BY KeyBlock
<1>3. s[x + 1].val # None
  BY <1>2, NoneAssumption
<1>4. h \in 1 .. Len(s) /\ confValue(Section(s, h), "AllowedIPs") = s[x + 1].val
  BY KeySection
<1>5. x \in h .. NextSection(s, h) - 1
  <2>1. x \in h + 1 .. NextSection(s, h) - 2
    BY KeySection
  <2>2. NextSection(s, h) \in Int
    BY <1>4, NextIs DEF Shape
  <2> QED BY <1>1, <1>4, <2>1, <2>2
<1> HIDE DEF h
<1>6. OpensSection(s[h])
  BY <1>2 DEF Header, OpensSection
<1>7. OpensSection(s[1])
  BY <1>1 DEF OpensSection, Shape
<1>8. h \in starts
  <2>1. Has(Section(s, h), LAMBDA l : Mentions(l, p))
    BY <1>4, <1>5, SectionMentions
  <2> QED BY <1>1, <1>3, <1>4, <1>6, <2>1
<1>9. \A k \in starts : k = h
  <2> SUFFICES ASSUME NEW k \in starts
               PROVE  k = h
    OBVIOUS
  <2>1. k \in 1 .. Len(s) /\ OpensSection(s[k]) /\ Has(Section(s, k), LAMBDA l : Mentions(l, p))
    BY <1>1, <1>7
  <2>2. PICK y \in k .. NextSection(s, k) - 1 : Declares(s, p, y)
    BY <2>1, SectionMentions
  <2>3. y \in 1 .. Len(s)
    BY <1>1, <2>2 DEF Declares
  <2>4. y = x
    BY <1>2, <2>2, <2>3 DEF Shape
  <2>5. x \in k .. NextSection(s, k) - 1
    BY <2>2, <2>4
  <2> QED BY <2>1, <2>5, InSection DEF h
<1>10. peerAddressIn(s, p) = IF starts = {} THEN None ELSE confValue(Section(s, Min(starts)), "AllowedIPs")
  BY DEF peerAddressIn
<1> HIDE DEF starts
<1>11. Min(starts) = h
  <2>1. starts \in SUBSET Nat
    BY <1>1, <1>4, <1>9
  <2>2. \A y \in starts : h <= y
    BY <1>4, <1>9
  <2> QED BY <1>8, <2>1, <2>2, MinIs
<1>12. peerAddressIn(s, p) = confValue(Section(s, h), "AllowedIPs")
  BY <1>8, <1>10, <1>11
<1> QED BY <1>3, <1>4, <1>12

\* No two peers hold an address.
LEMMA OneHolder ==
  ASSUME NEW s, Shape(s), NEW p \in Pub, NEW q \in Pub, NEW x, NEW y,
         Declares(s, p, x), Declares(s, q, y),
         wgPeers(s)[p] # None, wgPeers(s)[q] = s[x + 1].val, s[x + 1].val # None
  PROVE  p = q
<1>1. x \in 1 .. Len(s) /\ y \in 1 .. Len(s) /\ s[x].val = p /\ s[y].val = q /\ Len(s) \in Nat
  BY KeyBlock, ShapeFacts
<1>2. wgPeers(s)[q] = s[y + 1].val
  BY <1>1, WgPeers
<1>3. s[y + 1].val = s[x + 1].val
  BY <1>2
<1>4. ~(y > x)
  BY <1>1, <1>3, WgPeers
<1>5. ~(x > y)
  BY <1>1, <1>3, WgPeers
<1>6. x = y
  BY <1>1, <1>4, <1>5
<1> QED BY <1>1, <1>6

\* A peer that no comment mentions is held where it is declared.
LEMMA Holding ==
  ASSUME AdminInv, NEW p \in Pub, \A j \in Iface : L("#", p) \notin Range(conf[j]),
         NEW i \in Iface, NEW x, Declares(conf[i], p, x), ifaceHoldingPeer(p) # None
  PROVE  ifaceHoldingPeer(p) = i
<1> DEFINE is == {j \in up : Has(conf[j], LAMBDA l : Mentions(l, p))}
<1>1. ifaceHoldingPeer(p) = IF is = {} THEN None ELSE Min(is)
  BY DEF ifaceHoldingPeer, wgInterfaces
<1>2. up \subseteq Iface
  BY DEF AdminInv, TypeOK
<1>3. \A j \in is : j = i
  <2> SUFFICES ASSUME NEW j \in is
               PROVE  j = i
    OBVIOUS
  <2>1. Shape(conf[j]) /\ j \in Iface /\ Shape(conf[i])
    BY <1>2 DEF AdminInv
  <2>2. PICK k \in 1 .. Len(conf[j]) : Mentions(conf[j][k], p)
    BY <2>1, ShapeFacts DEF Has
  <2>3. Declares(conf[j], p, k)
    BY <2>1, <2>2, OnlyMention
  <2>4. x \in Nat /\ k \in Nat
    BY <2>1, ShapeFacts DEF Declares
  <2> QED BY <2>1, <2>3, <2>4 DEF AdminInv, OneConfig
<1> HIDE DEF is
<1>4. is # {}
  BY <1>1
<1>5. is \in SUBSET Iface
  BY <1>2 DEF is
<1>6. Min(is) \in is
  BY <1>4, <1>5, MinIface
<1> QED BY <1>1, <1>3, <1>4, <1>6

\* The file of the name a peer goes by is the peer's.
LEMMA FileOfName ==
  ASSUME AdminInv, NEW p \in Pub, NEW i \in Iface, NEW x, Declares(conf[i], p, x),
         NEW n \in Name, nameOfPeer(p) = n, client[i][n] # None
  PROVE  client[i][n].pub = p
<1>1. resolveNames[p] = n /\ up \subseteq Iface
  BY DEF nameOfPeer, AdminInv, TypeOK
<1>2. CASE names[p] = n
  BY <1>2 DEF AdminInv, FilesAreOwn
<1>3. CASE names[p] = None /\ \E j \in up : Named(conf[j], p, n)
  <2>1. PICK j \in up : Named(conf[j], p, n)
    BY <1>3
  <2>2. j \in Iface /\ Shape(conf[i]) /\ Shape(conf[j])
    BY <1>1 DEF AdminInv
  <2>3. PICK y \in 1 .. Len(conf[j]) : Declares(conf[j], p, y)
    BY <2>1 DEF Named
  <2>4. x \in Nat /\ y \in Nat
    BY <2>2, ShapeFacts DEF Declares
  <2>5. j = i
    BY <2>2, <2>3, <2>4 DEF AdminInv, OneConfig
  <2> QED BY <1>3, <2>1, <2>5 DEF AdminInv, FilesAreOwn
<1> QED BY <1>1, <1>2, <1>3, NameOfIs

LEMMA OwnConfigs ==
  ASSUME AdminInv
  PROVE  ServesOwnConfig
<1> SUFFICES ASSUME NEW i \in Iface, None \notin Range(wgPeers(conf[i])),
                    NEW p \in Peers(i), Clear(p), NEW c \in peerFiles(p),
                    <<c.pub, c.addr>> \in Given(i)
             PROVE  c.pub = p
  BY DEF ServesOwnConfig
<1> DEFINE s == conf[i]
<1>1. Shape(s)
  BY DEF AdminInv
<1>2. p \in Pub /\ \E x \in 1 .. Len(s) : Declares(s, p, x)
  BY <1>1, WgPeers DEF Peers
<1>3. PICK x \in 1 .. Len(s) : Declares(s, p, x)
  BY <1>2
<1>4. \A j \in Iface : L("#", p) \notin Range(conf[j])
  BY DEF Clear
<1>5. ifaceHoldingPeer(p) # None
  BY DEF peerFiles
<1>6. ifaceHoldingPeer(p) = i
  BY <1>2, <1>3, <1>4, <1>5, Holding
<1>7. CASE nameOfPeer(p) \in Name /\ client[i][nameOfPeer(p)] # None
  <2>1. c = client[i][nameOfPeer(p)]
    BY <1>5, <1>6, <1>7 DEF peerFiles
  <2> QED BY <1>2, <1>3, <1>7, <2>1, FileOfName
<1>8. CASE ~(nameOfPeer(p) \in Name /\ client[i][nameOfPeer(p)] # None)
  <2>1. c \in {client[i][f] : f \in clientConfWithAddress(i, peerAddressIn(s, p))}
    BY <1>5, <1>6, <1>8 DEF peerFiles
  <2>2. c.addr = peerAddressIn(s, p)
    BY <2>1 DEF clientConfWithAddress
  <2>3. c.addr = s[x + 1].val /\ s[x + 1].val # None
    BY <1>1, <1>2, <1>3, <1>4, <2>2, AddressIs
  <2>4. c.pub \in Peers(i) /\ wgPeers(s)[c.pub] = c.addr
    <3>1. PICK q \in Peers(i) : <<c.pub, c.addr>> = <<q, wgPeers(s)[q]>>
      BY DEF Given
    <3> QED BY <3>1
  <2>5. wgPeers(s)[p] # None
    BY DEF Peers, Range
  <2>6. c.pub \in Pub /\ \E y \in 1 .. Len(s) : Declares(s, c.pub, y)
    <3>1. c.pub \in DOMAIN wgPeers(s) /\ Shape(s)
      BY <1>1, <2>4 DEF Peers
    <3> HIDE DEF s
    <3>2. DOMAIN wgPeers(s) = {q \in Pub : \E y \in 1 .. Len(s) : Declares(s, q, y)}
      BY <3>1, WgPeers
    <3> QED BY <3>1, <3>2, Zenon
  <2>7. PICK y \in 1 .. Len(s) : Declares(s, c.pub, y)
    BY <2>6
  <2>8. wgPeers(s)[c.pub] = s[x + 1].val
    BY <2>3, <2>4
  <2> HIDE DEF s
  <2> QED BY <1>1, <1>2, <1>3, <2>3, <2>5, <2>6, <2>7, <2>8, OneHolder
<1> QED BY <1>7, <1>8

\* peerFiles hands nobody a config that works for another peer of the interface,
\* whatever people wrote, renamed and removed before.
THEOREM ConfigsServedAreOwn == Spec => []ServesOwnConfig
<1>1. AdminInv => ServesOwnConfig
  BY OwnConfigs
<1> QED BY <1>1, AdminInvariant, PTL

(***************************************************************************)
(* What a removal erases.  Headers must stand alone on their lines: the    *)
(* run headers shows why.                                                  *)
(***************************************************************************)
HeadersAlone == \A s \in Styles : s[1] = "[peer]"

NoRemarks(s) == \A k \in 1 .. Len(s) : ~Remarked(s[k])
PlainInv == AdminInv /\ \A i \in Iface : NoRemarks(conf[i])

\* A removal adds no line.
LEMMA LinesLeft ==
  ASSUME NEW s, Shape(s), NEW p
  PROVE  LET t == removePeerFromConf(s, p) IN
         \A y \in 1 .. Len(t) : \E x \in 1 .. Len(s) : t[y] = s[x]
<1> DEFINE H == HeadersOf(s, p)
           h == Min(H)
           e == NextSection(s, h)
           t == removePeerFromConf(s, p)
<1>1. CASE H = {}
  <2>1. t = s
    BY <1>1 DEF removePeerFromConf
  <2> HIDE DEF t
  <2> QED BY <2>1 DEF t
<1>2. CASE H # {}
  <2>1. H \in SUBSET (1 .. Len(s)) /\ \A k \in H : s[k].kind = "[peer]"
    BY ShapeFacts DEF HeadersOf
  <2> HIDE DEF H
  <2>2. h \in 1 .. Len(s) /\ s[h].kind = "[peer]"
    <3>1. H \in SUBSET Nat
      BY <2>1
    <3>2. h \in H
      BY <1>2, <3>1, MinOf
    <3> QED BY <2>1, <3>2
  <2>3. t = Cut(s, h, e)
    BY <1>2 DEF removePeerFromConf, H
  <2> HIDE DEF t, h
  <2>4. PICK a \in 1 .. h - 1 : Loses(s, t, a, e)
    BY <2>2, <2>3, CutIs
  <2>5. Len(s) \in Nat
    BY ShapeFacts
  <2> HIDE DEF e
  <2>6. \A y \in 1 .. Len(t) : Was(a, e, y) \in 1 .. Len(s)
    BY <2>4, <2>5, WasFacts DEF InOrder
  <2>7. \A y \in 1 .. Len(t) : t[y] = s[Was(a, e, y)]
    BY <2>4 DEF Loses
  <2>8. \A y \in 1 .. Len(t) : \E x \in 1 .. Len(s) : t[y] = s[x]
    BY <2>6, <2>7, Zenon
  <2> QED BY <2>8 DEF t
<1> QED BY <1>1, <1>2

\* Nor do the lines of a block, written plainly, put a remark behind a header.
LEMMA StillPlain ==
  ASSUME NEW s, Shape(s), NoRemarks(s), NEW p \in Pub, NEW b, NEW y, Block(b, p, y),
         \A k \in 1 .. Len(b) : ~Remarked(b[k])
  PROVE  NoRemarks(s \o b)
<1>1. s \in Seq(Line) /\ b \in Seq(Line)
  BY DEF Shape, Block
<1>2. /\ Len(s \o b) = Len(s) + Len(b) /\ Len(s) \in Nat /\ Len(b) \in Nat
      /\ \A k \in 1 .. Len(s \o b) : (s \o b)[k] = IF k <= Len(s) THEN s[k] ELSE b[k - Len(s)]
  BY <1>1
<1>3. ASSUME NEW k \in 1 .. Len(s \o b)
      PROVE  ~Remarked((s \o b)[k])
  <2>1. CASE k <= Len(s)
    <3>1. k \in 1 .. Len(s) /\ (s \o b)[k] = s[k]
      BY <1>2, <2>1
    <3> QED BY <3>1 DEF NoRemarks
  <2>2. CASE ~(k <= Len(s))
    <3>1. k - Len(s) \in 1 .. Len(b) /\ (s \o b)[k] = b[k - Len(s)]
      BY <1>2, <2>2
    <3> QED BY <3>1
  <2> QED BY <2>1, <2>2
<1> QED BY <1>3 DEF NoRemarks

LEMMA PlainStep ==
  ASSUME HeadersAlone, PlainInv, [Next]_vars
  PROVE  PlainInv'
<1>1. AdminInv /\ AdminInv' /\ \A i \in Iface : Shape(conf[i]) /\ NoRemarks(conf[i])
  BY AdminStep DEF PlainInv, AdminInv
<1>2. ASSUME NEW i \in Iface, NEW t, NoRemarks(t), conf' = [conf EXCEPT ![i] = t]
      PROVE  \A j \in Iface : NoRemarks(conf'[j])
  <2>1. conf \in [Iface -> Seq(Line)]
    BY <1>1 DEF AdminInv, TypeOK
  <2>2. \A j \in Iface : conf'[j] = IF j = i THEN t ELSE conf[j]
    BY <1>2, <2>1
  <2> QED BY <1>1, <1>2, <2>2
<1>3. ASSUME NEW n \in Name, NEW i \in up, NEW p \in Pub, addPeer(n, i, p)
      PROVE  \A j \in Iface : NoRemarks(conf'[j])
  <2>1. i \in Iface
    BY <1>1 DEF AdminInv, TypeOK
  <2>2. PICK a \in Addr : a = freeAddress(i)
    <3>1. Addr \ Taken(i) # {}
      BY <1>3 DEF addPeer
    <3>2. Addr \ Taken(i) \in SUBSET Nat
      BY AddrAssumption
    <3> QED BY <3>1, <3>2, MinOf DEF freeAddress
  <2>3. conf' = [conf EXCEPT ![i] = @ \o newBlock(p, n, a)]
    BY <1>3, <2>2 DEF addPeer
  <2>4. Len(newBlock(p, n, a)) = 5
    BY DEF newBlock
  <2>5. Block(newBlock(p, n, a), p, 4) /\ \A k \in 1 .. 5 : ~Remarked(newBlock(p, n, a)[k])
    BY <2>2, NewBlock
  <2>6. NoRemarks(conf[i] \o newBlock(p, n, a))
    BY <1>1, <2>1, <2>4, <2>5, StillPlain
  <2> QED BY <1>2, <2>1, <2>3, <2>6
<1>4. ASSUME NEW p \in Pub, removePeer(p)
      PROVE  \A j \in Iface : NoRemarks(conf'[j])
  <2>1. up \subseteq Iface
    BY <1>1 DEF AdminInv, TypeOK
  <2>2. ifaceOf(p) \in up
    BY <1>4, <2>1, IfacesUp DEF removePeer
  <2>3. PICK i \in Iface : conf' = [conf EXCEPT ![i] = removePeerFromConf(@, p)]
    BY <1>4, <2>1, <2>2 DEF removePeer
  <2> DEFINE t == removePeerFromConf(conf[i], p)
  <2>4. \A y \in 1 .. Len(t) : \E x \in 1 .. Len(conf[i]) : t[y] = conf[i][x]
    BY <1>1, LinesLeft
  <2> HIDE DEF t
  <2>5. NoRemarks(t)
    BY <1>1, <2>4 DEF NoRemarks
  <2>6. conf' = [conf EXCEPT ![i] = t]
    BY <2>3 DEF t
  <2> QED BY <1>2, <2>5, <2>6
<1>5. CASE \E n \in Name, kind \in {"wg", "awg"}, p \in Pub : PostPeer(n, kind, p)
  <2>1. PICK n \in Name, kind \in {"wg", "awg"}, p \in Pub : addPeer(n, ifaceOfKind(kind), p)
    BY <1>5 DEF PostPeer
  <2>2. ifaceOfKind(kind) \in up
    BY <1>1, <2>1, Calls
  <2> QED BY <1>1, <1>3, <2>1, <2>2 DEF PlainInv
<1>6. CASE \E p \in Pub : DeletePeer(p)
  BY <1>1, <1>4, <1>6 DEF DeletePeer, PlainInv
<1>7. CASE \E n \in Name, kind \in {"wg", "awg", None}, p \in Pub : peerAddCmd(n, kind, p)
  <2>1. PICK n \in Name, kind \in {"wg", "awg", None}, p \in Pub : addPeer(n, pickIface(kind), p)
    BY <1>7 DEF peerAddCmd
  <2>2. pickIface(kind) \in up
    BY <1>1, <2>1, Calls
  <2> QED BY <1>1, <1>3, <2>1, <2>2 DEF PlainInv
<1>8. CASE \E want \in Name \cup Pub : peerRemoveCmd(want)
  <2>1. PICK want \in Name \cup Pub : resolvePeer(want) # None /\ removePeer(resolvePeer(want))
    BY <1>8 DEF peerRemoveCmd
  <2>2. resolvePeer(want) \in Pub
    BY <1>1, <2>1, Calls
  <2> QED BY <1>1, <1>4, <2>1, <2>2 DEF PlainInv
<1>9. CASE People
  <2>1. ASSUME \E i \in Iface, p \in Pub, a \in Addr, s \in Styles, f \in Name \cup {None} :
                 WriteBlock(i, p, a, s, f)
        PROVE  \A j \in Iface : NoRemarks(conf'[j])
    <3>1. PICK i \in Iface, p \in Pub, a \in Addr, s \in Styles :
            conf' = [conf EXCEPT ![i] = @ \o Written(p, a, s)]
      BY <2>1 DEF WriteBlock
    <3>2. PICK y : /\ Block(Written(p, a, s), p, y)
                   /\ s[1] = "[peer]" => \A k \in 1 .. Len(Written(p, a, s)) : ~Remarked(Written(p, a, s)[k])
      BY <3>1, WrittenBlock, Zenon
    <3>3. s[1] = "[peer]"
      BY <3>1 DEF HeadersAlone
    <3>4. NoRemarks(conf[i] \o Written(p, a, s))
      BY <1>1, <3>1, <3>2, <3>3, StillPlain
    <3> QED BY <1>2, <3>1, <3>4
  <2>2. ASSUME \/ \E p \in Pub, n \in Name \cup {None} : Rename(p, n)
               \/ \E i \in Iface : Up(i) \/ Down(i)
        PROVE  \A j \in Iface : NoRemarks(conf'[j])
    <3>1. conf' = conf
      BY <2>2 DEF Rename, Up, Down
    <3> QED BY <1>1, <3>1
  <2>3. \A j \in Iface : NoRemarks(conf'[j])
    BY <1>9, <2>1, <2>2 DEF People
  <2> QED BY <1>1, <2>3 DEF PlainInv
<1>10. CASE UNCHANGED vars
  <2>1. conf' = conf
    BY <1>10 DEF vars
  <2> QED BY <1>1, <2>1 DEF PlainInv
<1> QED BY <1>5, <1>6, <1>7, <1>8, <1>9, <1>10 DEF Next

\* The members of a set that has one at most are equal.
LEMMA AtMostOne ==
  ASSUME NEW T, IsFiniteSet(T), Cardinality(T) <= 1, NEW x \in T, NEW y \in T
  PROVE  x = y
<1>1. IsFiniteSet(T \ {x}) /\ Cardinality(T \ {x}) = Cardinality(T) - 1
  BY FS_RemoveElement
<1>2. Cardinality(T) \in Nat /\ Cardinality(T \ {x}) \in Nat
  BY <1>1, FS_CardinalityType
<1>3. Cardinality(T \ {x}) = 0
  BY <1>1, <1>2
<1>4. T \ {x} = {}
  BY <1>1, <1>3, FS_EmptySet
<1> QED BY <1>4

LEMMA OneIface ==
  ASSUME NEW p \in Pub, Clear(p), NEW i \in Iface, NEW j \in Iface,
         p \in Peers(i) \cup DOMAIN live[i], p \in Peers(j) \cup DOMAIN live[j]
  PROVE  i = j
<1> DEFINE T == {k \in Iface : p \in Peers(k) \cup DOMAIN live[k]}
<1>1. Cardinality(T) <= 1
  BY DEF Clear
<1>2. IsFiniteSet(T)
  BY IfaceAssumption, FS_Subset
<1>3. i \in T /\ j \in T
  OBVIOUS
<1> HIDE DEF T
<1> QED BY <1>1, <1>2, <1>3, AtMostOne

\* A removal goes to the interface that declares the peer.
LEMMA FoundAt ==
  ASSUME AdminInv, NEW p \in Pub, Clear(p), NEW i \in Iface, p \in Peers(i), ifaceOf(p) # None
  PROVE  ifaceOf(p) = i
<1> DEFINE is == {j \in up : p \in DOMAIN live[j]}
<1>1. ifaceOf(p) = IF is = {} THEN ifaceHoldingPeer(p) ELSE Min(is)
  BY DEF ifaceOf, wgInterfaces
<1>2. up \subseteq Iface /\ Shape(conf[i])
  BY DEF AdminInv, TypeOK
<1>3. \A j \in is : j = i
  BY <1>2, OneIface
<1>4. CASE is = {}
  <2>1. \E x \in 1 .. Len(conf[i]) : Declares(conf[i], p, x)
    BY <1>2, WgPeers DEF Peers
  <2>2. PICK x \in 1 .. Len(conf[i]) : Declares(conf[i], p, x)
    BY <2>1
  <2>3. \A j \in Iface : L("#", p) \notin Range(conf[j])
    BY DEF Clear
  <2>4. ifaceOf(p) = ifaceHoldingPeer(p)
    BY <1>1, <1>4
  <2> QED BY <2>2, <2>3, <2>4, Holding
<1>5. CASE is # {}
  <2>1. is \in SUBSET Iface
    BY <1>2
  <2> HIDE DEF is
  <2>2. Min(is) \in is
    BY <1>5, <2>1, MinIface
  <2> QED BY <1>1, <1>3, <1>5, <2>2
<1> QED BY <1>4, <1>5

\* The file that goes with a peer is the peer's.
LEMMA FoundFile ==
  ASSUME AdminInv, NEW p \in Pub, Clear(p), NEW i \in Iface, ifaceOf(p) = i, ifaceOf(p) # None,
         NEW n \in Name, nameOfPeer(p) = n, client[i][n] # None
  PROVE  client[i][n].pub = p
<1>1. resolveNames[p] = n /\ up \subseteq Iface
  BY DEF nameOfPeer, AdminInv, TypeOK
<1>2. CASE names[p] = n
  BY <1>2 DEF AdminInv, FilesAreOwn
<1>3. CASE names[p] = None /\ \E j \in up : Named(conf[j], p, n)
  <2>1. PICK j \in up : Named(conf[j], p, n)
    BY <1>3
  <2>2. j \in Iface /\ Shape(conf[j])
    BY <1>1 DEF AdminInv
  <2>3. \E y \in 1 .. Len(conf[j]) : Declares(conf[j], p, y)
    BY <2>1 DEF Named
  <2>4. p \in Peers(j)
    BY <2>2, <2>3, WgPeers DEF Peers
  <2>5. j = i
    BY <2>2, <2>4, FoundAt
  <2> QED BY <1>3, <2>1, <2>5 DEF AdminInv, FilesAreOwn
<1> QED BY <1>1, <1>2, <1>3, NameOfIs

\* In a config without remarks a peer has the name in its block.
LEMMA ReadName ==
  ASSUME NEW s, Shape(s), NoRemarks(s), NEW p \in Pub, NEW x, Declares(s, p, x)
  PROVE  namesFromConfig(s)[p] = NameOf(s, x)
<1>1. x \in 1 .. Len(s) /\ HeadOf(s, x) \in 2 .. x - 1 /\ Header(s[HeadOf(s, x)]) /\ Len(s) \in Nat
  BY KeyBlock, ShapeFacts
<1>2. CASE s[x - 1].kind = "#"
  BY <1>1, <1>2, NamesRead DEF NameOf
<1>3. CASE s[x - 1].kind # "#"
  <2>1. HeadOf(s, x) = x - 1 /\ x - 1 \in 1 .. Len(s)
    BY <1>1, <1>3 DEF HeadOf
  <2>2. Header(s[x - 1]) /\ ~Remarked(s[x - 1])
    BY <1>1, <2>1 DEF NoRemarks
  <2>3. s[x - 1].kind = "[peer]"
    BY <2>2 DEF Header, Remarked
  <2> QED BY <1>1, <1>3, <2>3, NamesRead DEF NameOf
<1> QED BY <1>2, <1>3

\* What a removal takes from a config without remarks, and what it leaves.
LEMMA OneLess ==
  ASSUME NEW s, Shape(s), NoRemarks(s), NEW p \in Pub, L("#", p) \notin Range(s),
         NEW t, t = removePeerFromConf(s, p)
  PROVE  /\ DOMAIN wgPeers(t) = DOMAIN wgPeers(s) \ {p}
         /\ \A q \in DOMAIN wgPeers(t) :
              /\ wgPeers(s)[q] \in {None, wgPeers(t)[q]}
              /\ namesFromConfig(t)[q] = namesFromConfig(s)[q]
<1> DEFINE H == HeadersOf(s, p)
           e == NextSection(s, Min(H)) - 1
<1>1. Shape(t)
  BY Removed
<1>2. NoRemarks(t)
  <2>1. \A y \in 1 .. Len(t) : \E x \in 1 .. Len(s) : t[y] = s[x]
    BY LinesLeft
  <2> QED BY <2>1 DEF NoRemarks
<1>3. /\ DOMAIN wgPeers(t) = {q \in Pub : \E y \in 1 .. Len(t) : Declares(t, q, y)}
      /\ DOMAIN wgPeers(s) = {q \in Pub : \E x \in 1 .. Len(s) : Declares(s, q, x)}
  BY <1>1, WgPeers, Zenon
<1>4. PICK W : /\ Kept(s, t, W)
               /\ \A q \in Pub, x \in 1 .. Len(s) : Declares(s, q, x) =>
                    \/ \E y \in 1 .. Len(t) : Declares(t, q, y) /\ W[y] = x
                    \/ H # {} /\ x \in Min(H) .. e
               /\ \A q \in Pub, y \in 1 .. Len(t) : Declares(t, q, y) /\ H # {} =>
                    W[y] \notin Min(H) .. e
  BY Removed, Zenon
<1>5. ASSUME NEW q \in DOMAIN wgPeers(t)
      PROVE  /\ q # p
             /\ q \in DOMAIN wgPeers(s)
             /\ wgPeers(s)[q] \in {None, wgPeers(t)[q]}
             /\ namesFromConfig(t)[q] = namesFromConfig(s)[q]
  <2>1. PICK y \in 1 .. Len(t) : q \in Pub /\ Declares(t, q, y)
    BY <1>3
  <2>2. /\ q \in DOMAIN wgPeers(s)
        /\ wgPeers(s)[q] \in {None, wgPeers(t)[q]}
        /\ Declares(s, q, W[y]) /\ W[y] \in 1 .. Len(s) /\ NameOf(t, y) = NameOf(s, W[y])
    BY <1>1, <1>4, <2>1, Spared
  <2>3. namesFromConfig(t)[q] = NameOf(t, y) /\ namesFromConfig(s)[q] = NameOf(s, W[y])
    BY <1>1, <1>2, <2>1, <2>2, ReadName
  <2>4. ASSUME q = p
        PROVE  FALSE
    <3>1. Declares(s, p, W[y])
      BY <2>2, <2>4
    <3> DEFINE x == W[y]
               h == HeadOf(s, x)
    <3>2. s[h].kind = "[peer]"
      <4>1. h \in 1 .. Len(s) /\ Header(s[h])
        BY <3>1, KeyBlock, KeySection
      <4>2. ~Remarked(s[h])
        BY <4>1 DEF NoRemarks
      <4> QED BY <4>1, <4>2 DEF Header, Remarked
    <3>3. H = {h}
      BY <3>1, <3>2, HeadersAre
    <3>4. h \in 1 .. Len(s) /\ x \in h + 1 .. NextSection(s, h) - 2
      BY <3>1, KeySection
    <3>5. NextSection(s, h) \in Int
      BY <3>4, NextIs DEF Shape
    <3>6. Min(H) = h
      <4> HIDE DEF h, H
      <4>1. H \in SUBSET Nat /\ h \in H /\ \A z \in H : h <= z
        BY <3>3, <3>4
      <4> QED BY <4>1, MinIs
    <3> HIDE DEF h
    <3>7. x \in Min(H) .. e
      <4>1. e = NextSection(s, h) - 1
        BY <3>6
      <4> HIDE DEF e, H, x
      <4> QED BY <3>4, <3>5, <3>6, <4>1
    <3>8. H # {}
      BY <3>3
    <3> QED BY <1>4, <2>1, <3>7, <3>8
  <2> QED BY <2>2, <2>3, <2>4
<1>6. ASSUME NEW q \in DOMAIN wgPeers(s), q # p
      PROVE  q \in DOMAIN wgPeers(t)
  <2>1. PICK x \in 1 .. Len(s) : q \in Pub /\ Declares(s, q, x)
    BY <1>3
  <2>2. CASE \E y \in 1 .. Len(t) : Declares(t, q, y)
    BY <1>3, <2>1, <2>2
  <2>3. CASE H # {} /\ x \in Min(H) .. e
    <3>1. PICK z \in 1 .. Len(s) : Declares(s, p, z)
      BY <2>3, HeadersAre
    <3>2. H \subseteq {HeadOf(s, z)}
      BY <3>1, HeadersAre
    <3>3. H = {HeadOf(s, z)}
      BY <2>3, <3>2
    <3> DEFINE h == HeadOf(s, z)
    <3>4. Min(H) = h
      <4>1. h \in 1 .. Len(s)
        BY <3>1, KeySection
      <4> HIDE DEF h
      <4>2. H = {h}
        BY <3>3 DEF h
      <4> HIDE DEF H
      <4>3. H \in SUBSET Nat /\ h \in H /\ \A j \in H : h <= j
        BY <4>1, <4>2
      <4> QED BY <4>3, MinIs
    <3>5. x \in HeadOf(s, z) .. NextSection(s, HeadOf(s, z)) - 1
      BY <2>3, <3>4
    <3>6. s[x].kind = "PublicKey" /\ s[x].val = q /\ s[z].val = p
      BY <2>1, <3>1 DEF Declares, L
    <3>7. x = z
      BY <3>1, <3>5, <3>6, OnlyKey
    <3> QED BY <1>6, <3>6, <3>7
  <2> QED BY <1>4, <2>1, <2>2, <2>3
<1> QED BY <1>5, <1>6

LEMMA Cleared ==
  ASSUME PlainInv, NEW p \in Pub, Clear(p), removePeer(p)
  PROVE  RemovesOnly(p)
<1> DEFINE k == ifaceOf(p)
           n == nameOfPeer(p)
<1>1. AdminInv /\ up \subseteq Iface /\ \A i \in Iface : Shape(conf[i]) /\ NoRemarks(conf[i])
  BY DEF PlainInv, AdminInv, TypeOK
<1>2. /\ k # None
      /\ conf' = [conf EXCEPT ![k] = removePeerFromConf(@, p)]
      /\ client' = IF n \in Name THEN [client EXCEPT ![k][n] = None] ELSE client
  BY DEF removePeer
<1>3. k \in up /\ k \in Iface
  BY <1>1, <1>2, IfacesUp
<1>4. \A i \in Iface : L("#", p) \notin Range(conf[i])
  BY DEF Clear
<1>5. \A i \in Iface : p \in Peers(i) => i = k
  BY <1>1, <1>2, FoundAt
<1>6. n \in Name /\ client[k][n] # None => client[k][n].pub = p
  BY <1>1, <1>2, <1>3, FoundFile
<1> HIDE DEF k, n
<1>7. \A i \in Iface : conf'[i] = IF i = k THEN removePeerFromConf(conf[i], p) ELSE conf[i]
  BY <1>1, <1>2 DEF AdminInv, TypeOK
<1>8. \A i \in Iface, f \in Name : i # k \/ f # n => client'[i][f] = client[i][f]
  BY <1>1, <1>2 DEF AdminInv, TypeOK
<1>9. ASSUME NEW i \in Iface
      PROVE  /\ DOMAIN wgPeers(conf'[i]) = DOMAIN wgPeers(conf[i]) \ (IF i \in up THEN {p} ELSE {})
             /\ \A q \in DOMAIN wgPeers(conf'[i]) :
                  /\ q # p
                  /\ wgPeers(conf[i])[q] \in {None, wgPeers(conf'[i])[q]}
                  /\ namesFromConfig(conf'[i])[q] = namesFromConfig(conf[i])[q]
  <2>1. CASE i = k
    <3>1. PICK t : t = removePeerFromConf(conf[i], p)
      OBVIOUS
    <3>2. /\ Shape(conf[i]) /\ NoRemarks(conf[i]) /\ L("#", p) \notin Range(conf[i])
          /\ conf'[i] = t
      BY <1>1, <1>4, <1>7, <2>1, <3>1
    <3>3. /\ DOMAIN wgPeers(t) = DOMAIN wgPeers(conf[i]) \ {p}
          /\ \A q \in DOMAIN wgPeers(t) :
               /\ wgPeers(conf[i])[q] \in {None, wgPeers(t)[q]}
               /\ namesFromConfig(t)[q] = namesFromConfig(conf[i])[q]
      BY <3>1, <3>2, OneLess
    <3>4. /\ DOMAIN wgPeers(conf'[i]) = DOMAIN wgPeers(conf[i]) \ {p}
          /\ \A q \in DOMAIN wgPeers(conf'[i]) :
               /\ wgPeers(conf[i])[q] \in {None, wgPeers(conf'[i])[q]}
               /\ namesFromConfig(conf'[i])[q] = namesFromConfig(conf[i])[q]
      BY <3>2, <3>3, Zenon
    <3>5. (IF i \in up THEN {p} ELSE {}) = {p}
      BY <1>3, <2>1
    <3> QED BY <3>4, <3>5
  <2>2. CASE i # k
    <3>1. conf'[i] = conf[i]
      BY <1>7, <2>2
    <3>2. p \notin DOMAIN wgPeers(conf[i])
      BY <1>5, <2>2 DEF Peers
    <3> QED BY <3>1, <3>2
  <2> QED BY <2>1, <2>2
<1>10. ASSUME NEW i \in Iface, NEW q \in DOMAIN wgPeers(conf'[i]), NEW f \in Name,
              client[i][f] # None, client[i][f].pub = q
       PROVE  client'[i][f] = client[i][f]
  <2>1. q # p
    BY <1>9
  <2>2. i # k \/ f # n
    BY <1>6, <1>10, <2>1
  <2> QED BY <1>8, <2>2
<1> QED BY <1>9, <1>10 DEF RemovesOnly

LEMMA PlainInvariant ==
  ASSUME HeadersAlone
  PROVE  Spec => []PlainInv
<1>1. Init => PlainInv
  <2> SUFFICES ASSUME Init
               PROVE  PlainInv
    OBVIOUS
  <2>1. \A i \in Iface : conf[i] = <<L("[interface]", None)>>
    BY DEF Init
  <2>2. ~Remarked(L("[interface]", None))
    BY DEF Remarked, L
  <2>3. \A i \in Iface : NoRemarks(conf[i])
    BY <2>1, <2>2 DEF NoRemarks
  <2> QED BY <2>3, AdminStart DEF PlainInv
<1>2. PlainInv /\ [Next]_vars => PlainInv'
  BY PlainStep
<1> QED BY <1>1, <1>2, PTL DEF Spec

\* removePeer leaves the other peers their blocks, addresses, names and files, for any
\* peers and interfaces and any number of edits, as long as headers stand alone.
THEOREM RemovalsAreExact ==
  ASSUME HeadersAlone
  PROVE  Spec => RemovesExactly
<1>1. PlainInv /\ [Next]_vars => [\A p \in Pub : removePeer(p) /\ Clear(p) => RemovesOnly(p)]_vars
  BY Cleared
<1> QED BY <1>1, PlainInvariant, PTL DEF Spec, RemovesExactly

\* and what removePeer took from the configs does not come back with a restart.
THEOREM RemovedStaysAway ==
  ASSUME HeadersAlone
  PROVE  Spec => ConfigErased
<1>1. ASSUME PlainInv, NEW p \in Pub, removePeer(p), Clear(p), NEW i \in up
      PROVE  p \notin DOMAIN wgPeers(conf'[i])
  <2>1. i \in Iface
    BY <1>1 DEF PlainInv, AdminInv, TypeOK
  <2>2. RemovesOnly(p)
    BY <1>1, Cleared
  <2>3. DOMAIN wgPeers(conf'[i]) = DOMAIN wgPeers(conf[i]) \ {p}
    BY <1>1, <2>1, <2>2 DEF RemovesOnly
  <2> QED BY <2>3
<1>2. PlainInv /\ [Next]_vars =>
        [\A p \in Pub : removePeer(p) /\ Clear(p) => \A i \in up : p \notin DOMAIN wgPeers(conf'[i])]_vars
  BY <1>1
<1> QED BY <1>2, PlainInvariant, PTL DEF Spec, ConfigErased
=============================================================================
