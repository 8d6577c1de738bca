----------------------------- MODULE MCPeerOps -----------------------------
(***************************************************************************)
(* PeerOps on a small server for TLC.                                      *)
(***************************************************************************)
EXTENDS PeerOps, TLC

\* A wg and an awg interface, whose configs are in directories of their own, or
\* two of a kind, whose configs are side by side.
TwoInterfaces == {1, 2}
OwnDirs    == [i \in Iface |-> i]
SharedDir  == [i \in Iface |-> 1]

CallSymmetry == Permutations(Proc) \cup Permutations(Pub) \cup Permutations(Name)
=============================================================================
