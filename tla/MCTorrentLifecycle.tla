------------------------- MODULE MCTorrentLifecycle -------------------------
(* Instances of TorrentLifecycle for TLC. *)
EXTENDS TorrentLifecycle

\* Every worker connects to the same address.
OneAddress == [w \in Workers |-> "a"]

\* One worker has an address of its own, the others share one.
TwoAddresses ==
    LET lone == CHOOSE w \in Workers : TRUE
    IN  [w \in Workers |-> IF w = lone THEN "b" ELSE "a"]
=============================================================================
