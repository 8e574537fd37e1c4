---------------------------- MODULE BlockStorage ----------------------------
(***************************************************************************)
(* The effect of the io_traits::BlockStorage operations as the download    *)
(* code sees them: a map of dirty (cached, unflushed) blocks over a map of *)
(* blocks on disk.  A clean cached block equals its disk copy, so the      *)
(* clean part of the cache does not show here.  Block contents are reduced *)
(* to what a hash check tells apart.                                       *)
(***************************************************************************)

Content == {"none", "good", "bad"}

\* read_block: the cache first, the file for what the cache does not cover.
ReadBlock(dirty, disk, b) == IF dirty[b] # "none" THEN dirty[b] ELSE disk[b]

\* The dirty map after every dirty block was written out and marked clean.
NoDirty(dirty) == [b \in DOMAIN dirty |-> "none"]


\* The disk after the dirty blocks in S were written out.
WrittenOut(dirty, disk, S) ==
    [b \in DOMAIN disk |-> IF b \in S THEN ReadBlock(dirty, disk, b) ELSE disk[b]]

\* discard_range: cached copies go, whatever a flush put on disk stays.
Discarded(dirty, S) == [b \in DOMAIN dirty |-> IF b \in S THEN "none" ELSE dirty[b]]
=============================================================================
