-------------------------- MODULE MCBlockPipeline --------------------------
(* Instances of BlockPipeline for TLC. *)
EXTENDS BlockPipeline, TLC

\* Every peer has every piece; no peer grants Allowed Fast pieces.
EveryPiece == [p \in Peers |-> Pieces]
NoPiece == [p \in Peers |-> {}]

\* The first block of one piece has a known v2 leaf hash.
OneHashed == {<<CHOOSE i \in Pieces : TRUE, 0>>}

Symmetry == Permutations(Pieces)
=============================================================================
