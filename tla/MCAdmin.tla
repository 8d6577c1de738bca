------------------------------ MODULE MCAdmin ------------------------------
(* Admin on small instances. *)
EXTENDS Admin, TLC

\* wgInterfaces asks awg first.
TwoKinds == <<"awg", "wg">>
BothIfaces == {1, 2}
Hosts == {2, 3}

\* A name inside the block, or not; behind it nothing, or a note about some peer.
Notes == ({None} \cup Name) \X ({None} \cup Pub)
PlainStyles == {<<"[peer]", n[1], n[2]>> : n \in Notes}

\* `wg` takes a comment behind a header as well.
InlineStyles == {<<"[peer] #", n[1], n[2]>> : n \in Notes}

NameSymmetry == Permutations(Pub) \cup Permutations(Name)
=============================================================================
