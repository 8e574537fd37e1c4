------------------------- MODULE ContextTypeProofs --------------------------
(* Facts about blocks, storage, blame and the request choices, and the     *)
(* types of the context: what a verdict or a received block leaves is      *)
(* well formed, for every instance of the pipeline.                        *)
EXTENDS BlockPipeline, TLAPS, FiniteSetTheorems

-----------------------------------------------------------------------------
(* Facts about blocks, storage and blame.                                  *)

\* What the leaves need of the assumption on the constants.
LEMMA LimitFacts ==
    /\ MaxOutstanding \in Nat \ {0} /\ BlacklistScore \in Nat \ {0}
    /\ BlocksPerPiece \in Nat \ {0} /\ MaxEntries \in Nat \ {0}
    /\ IsFiniteSet(Pieces) /\ InitialLocal \subseteq Pieces
    /\ RemotePieces \in [Peers -> SUBSET Pieces]
  BY ConstantsAssumption

\* Which blocks belong to which piece.
LEMMA BlockFacts ==
    /\ \A b \in Blocks : PieceOf(b) \in Pieces
    /\ \A i \in Pieces : BlocksOf(i) \subseteq Blocks
    /\ \A i \in Pieces, b \in Blocks : b \in BlocksOf(i) <=> PieceOf(b) = i
    /\ \A i \in Pieces, n \in BlockIdx : <<i, n>> \in BlocksOf(i) /\ <<i, n>> \in Blocks
  BY DEF Blocks, BlocksOf, PieceOf

\* The storage operators return maps of blocks to contents.
LEMMA StorageType ==
    ASSUME NEW d \in [Blocks -> Content], NEW k \in [Blocks -> Content]
    PROVE  /\ \A b \in Blocks : ReadBlock(d, k, b) \in Content
           /\ NoDirty(d) \in [Blocks -> Content]
           /\ \A S : WrittenOut(d, k, S) \in [Blocks -> Content]
           /\ \A S : Discarded(d, S) \in [Blocks -> Content]
  BY DEF ReadBlock, NoDirty, WrittenOut, Discarded, Content

\* Writing dirty blocks out, all of them or only some, changes no read.
LEMMA WriteOutReads ==
    ASSUME NEW d \in [Blocks -> Content], NEW k \in [Blocks -> Content], NEW b \in Blocks
    PROVE  /\ ReadBlock(NoDirty(d), WrittenOut(d, k, Blocks), b) = ReadBlock(d, k, b)
           /\ \A S : ReadBlock(d, WrittenOut(d, k, S), b) = ReadBlock(d, k, b)
  BY DEF ReadBlock, NoDirty, WrittenOut

\* Counting the blocks a source supplied yields a natural number.
LEMMA BlamedType ==
    ASSUME NEW sources, NEW q
    PROVE  Blamed(sources, q) \in Nat
<1>1. IsFiniteSet(BlockIdx)
  BY LimitFacts, FS_Interval DEF BlockIdx
<1>2. IsFiniteSet({n \in BlockIdx : sources[n] = q})
  BY <1>1, FS_Subset
<1> QED
  BY <1>2, FS_CardinalityType DEF Blamed

\* A new score is in range, and is the old one for a source not blamed.
LEMMA ScoreType ==
    ASSUME ContextType, NEW sources, NEW q \in Sources
    PROVE  /\ Score(sources, q) \in 0 .. BlacklistScore
           /\ Blamed(sources, q) = 0 => Score(sources, q) = bad_peer_scores[q]
<1>1. bad_peer_scores[q] \in 0 .. BlacklistScore
  BY DEF ContextType
<1>2. Blamed(sources, q) \in Nat
  BY BlamedType
<1> QED
  BY <1>1, <1>2, LimitFacts DEF Score

\* The request lists and their expired part are finite.
LEMMA EntryFinite ==
    ASSUME NEW S \in SUBSET Entry
    PROVE  Cardinality(S) \in Nat
<1>1. IsFiniteSet(BlockIdx) /\ IsFiniteSet(1 .. MaxEntries)
  BY LimitFacts, FS_Interval DEF BlockIdx
<1>2. IsFiniteSet(Blocks)
  BY <1>1, LimitFacts, FS_Product DEF Blocks
<1>3. IsFiniteSet(Entry)
  BY <1>1, <1>2, FS_Product, ZenonT(30) DEF Entry
<1> QED
  BY <1>3, FS_Subset, FS_CardinalityType

-----------------------------------------------------------------------------
(* Type correctness.  VerdictType is the part of ContextType that a        *)
(* verdict on a piece writes, BufferType the part that an arriving block   *)
(* writes besides.                                                         *)

VerdictType ==
    /\ bitfield \subseteq Pieces /\ pieces_missing \subseteq Pieces
    /\ total_downloaded \in Nat /\ status \in {"Downloading", "Seeding"}
    /\ requested_blocks \subseteq Blocks
    /\ bad_peer_scores \in [Sources -> 0 .. BlacklistScore] /\ peer_swarm \subseteq Peers
    /\ dirty \in [Blocks -> Content] /\ disk \in [Blocks -> Content]

BufferType ==
    /\ block_source \in [Blocks -> Sources \cup {None}]
    /\ staged \in [Blocks -> Seq(Peers)]
    /\ committed \subseteq Blocks /\ preempted \subseteq Blocks
    /\ pieces_verifying \subseteq Pieces /\ jobs \in [Slots -> Job \cup {None}]

\* A fresh job is well formed.
LEMMA JobType ==
    ASSUME NEW i \in Pieces, NEW sources \in [BlockIdx -> Sources]
    PROVE  [piece |-> i, sources |-> sources, verdict |-> "queued"] \in Job
  BY DEF Job

\* The two parts make up ContextType.
LEMMA ContextSplit == ContextType <=> VerdictType /\ BufferType
  BY DEF ContextType, VerdictType, BufferType

\* A flush, failing or not, leaves well-formed storage.
LEMMA FlushType ==
    ASSUME NEW d \in [Blocks -> Content], NEW k \in [Blocks -> Content],
           FlushIgnoringErrors(d, k)
    PROVE  dirty' \in [Blocks -> Content] /\ disk' \in [Blocks -> Content]
  BY StorageType DEF FlushIgnoringErrors

\* A valid verdict keeps the types.
LEMMA PieceValidType ==
    ASSUME ContextType, NEW d \in [Blocks -> Content], NEW k \in [Blocks -> Content],
           NEW i \in Pieces, PieceValid(d, k, i)
    PROVE  VerdictType'
<1>1. dirty' \in [Blocks -> Content] /\ disk' \in [Blocks -> Content]
  BY FlushType DEF PieceValid
<1>2. bad_peer_scores' \in [Sources -> 0 .. BlacklistScore] /\ peer_swarm' \subseteq Peers
  BY DEF ContextType, PieceValid, blame
<1>3. total_downloaded' \in Nat
  BY DEF ContextType, PieceValid
<1>4. status' \in {"Downloading", "Seeding"}
  BY DEF ContextType, PieceValid
<1> QED
  BY <1>1, <1>2, <1>3, <1>4 DEF ContextType, VerdictType, PieceValid

\* A corrupt verdict keeps the types.
LEMMA PieceCorruptType ==
    ASSUME ContextType, NEW d \in [Blocks -> Content], NEW k \in [Blocks -> Content],
           NEW i \in Pieces, NEW sources, PieceCorrupt(d, k, i, sources)
    PROVE  VerdictType'
<1>1. dirty' \in [Blocks -> Content] /\ disk' \in [Blocks -> Content]
  BY StorageType DEF PieceCorrupt
<1>2. bad_peer_scores' \in [Sources -> 0 .. BlacklistScore]
  BY ScoreType DEF PieceCorrupt
<1> QED
  BY <1>1, <1>2 DEF ContextType, VerdictType, PieceCorrupt

\* The staging cache keeps its type when a block arrives or completes a piece.
LEMMA StagingType ==
    ASSUME ContextType, NEW b \in Blocks,
           BlockArrives(b) \/ StagingCleared(PieceOf(b))
    PROVE  /\ staged' \in [Blocks -> Seq(Peers)]
           /\ committed' \subseteq Blocks /\ preempted' \subseteq Blocks
<1>1. <<>> \in Seq(Peers)
  OBVIOUS
<1>2. CASE BlockArrives(b)
  BY <1>1, <1>2, ZenonT(30) DEF BlockArrives, ContextType, staging
<1>3. CASE StagingCleared(PieceOf(b))
  BY <1>1, <1>3, ZenonT(30) DEF StagingCleared, ContextType, staging
<1> QED
  BY <1>2, <1>3

\* What a completed piece hands to its verdict is well formed.
LEMMA CompletionType ==
    ASSUME ContextType, NEW src \in Sources, NEW b \in Blocks, NEW v \in Content,
           Completes(src, b)
    PROVE  /\ BufferWith(src, b) \in [Blocks -> Sources \cup {None}]
           /\ [n \in BlockIdx |-> BufferWith(src, b)[<<PieceOf(b), n>>]] \in [BlockIdx -> Sources]
<1>1. BufferWith(src, b) \in [Blocks -> Sources \cup {None}]
  BY DEF BufferWith, ContextType
<1>2. \A n \in BlockIdx : BufferWith(src, b)[<<PieceOf(b), n>>] \in Sources
  BY <1>1, BlockFacts DEF Completes
<1> QED
  BY <1>1, <1>2

\* A block that is absorbed, refused, stored or completes its piece leaves the
\* context well formed.
LEMMA TakeBlockType ==
    ASSUME TypeOK, NEW src \in Sources, NEW b \in Blocks, NEW v \in Content, NEW r,
           TakeBlock(src, b, v, r)
    PROVE  ContextType'
<1> USE DEF TypeOK
<1>0. DirtyWith(b, v) \in [Blocks -> Content] /\ dirty \in [Blocks -> Content]
                                              /\ disk \in [Blocks -> Content]
  BY DEF DirtyWith, ContextType
<1>1. CASE AbsorbBlock(b, r)
  BY <1>1 DEF AbsorbBlock, ContextType, accounting, staging, verification, blame, store
<1>2. CASE RefuseBlock(b, v, r)
  <2>1. dirty' \in [Blocks -> Content] /\ disk' \in [Blocks -> Content]
    <3>1. CASE UNCHANGED store
      BY <3>1, <1>0 DEF store
    <3>2. CASE ~UNCHANGED store
      <4>1. dirty' = [dirty EXCEPT ![b] = v]
        BY <3>2, <1>2 DEF RefuseBlock
      <4>2. dirty' \in [Blocks -> Content]
        BY <4>1, <1>0
      <4>3. PICK S : disk' = WrittenOut(dirty', disk, S)
        BY <3>2, <1>2 DEF RefuseBlock
      <4>4. WrittenOut(dirty', disk, S) \in [Blocks -> Content]
        BY <4>2, <1>0, StorageType
      <4> QED
        BY <4>2, <4>3, <4>4
    <3> QED
      BY <3>1, <3>2
  <2>2. /\ staged' \in [Blocks -> Seq(Peers)]
        /\ committed' \subseteq Blocks /\ preempted' \subseteq Blocks
    BY <1>2, StagingType DEF RefuseBlock
  <2> QED
    BY <2>1, <2>2, <1>2 DEF RefuseBlock, ContextType, accounting, verification, blame
<1>3. CASE StoreBlock(src, b, v, r)
  <2>1. dirty' \in [Blocks -> Content] /\ disk' \in [Blocks -> Content]
    <3>1. /\ NoDirty(dirty) \in [Blocks -> Content]
          /\ WrittenOut(DirtyWith(b, v), disk, Blocks) \in [Blocks -> Content]
      BY <1>0, StorageType, ZenonT(30)
    <3> QED
      BY <1>0, <1>3, <3>1 DEF StoreBlock
  <2>2. /\ staged' \in [Blocks -> Seq(Peers)]
        /\ committed' \subseteq Blocks /\ preempted' \subseteq Blocks
    BY <1>3, StagingType DEF StoreBlock
  <2>3. block_source' \in [Blocks -> Sources \cup {None}]
    BY <1>3 DEF StoreBlock, BufferWith, ContextType
  <2> QED
    BY <2>1, <2>2, <2>3, <1>3 DEF StoreBlock, ContextType, accounting, verification, blame
<1>4. CASE CompletePiece(src, b, v, r)
  <2> DEFINE i == PieceOf(b)
             sources == [n \in BlockIdx |-> BufferWith(src, b)[<<i, n>>]]
  <2>1. i \in Pieces /\ sources \in [BlockIdx -> Sources]
    BY <1>4, BlockFacts, CompletionType, ZenonT(30) DEF CompletePiece
  <2>2. PICK d \in [Blocks -> Content], k \in [Blocks -> Content] :
           \/ SubmitJob(i, sources) /\ dirty' = d /\ disk' = k
           \/ VerifyInPlace(src, d, k, i, sources, r)
    <3>1. PICK evict \in Evictions(b) :
             LET d == IF evict THEN NoDirty(dirty) ELSE DirtyWith(b, v)
                 k == IF evict THEN WrittenOut(DirtyWith(b, v), disk, Blocks) ELSE disk
             IN  \/ SubmitJob(i, sources) /\ r = "ok" /\ dirty' = d /\ disk' = k
                 \/ VerifyInPlace(src, d, k, i, sources, r)
      BY <1>4, ZenonT(30) DEF CompletePiece
    <3>2. /\ (IF evict THEN NoDirty(dirty) ELSE DirtyWith(b, v)) \in [Blocks -> Content]
          /\ (IF evict THEN WrittenOut(DirtyWith(b, v), disk, Blocks) ELSE disk)
                 \in [Blocks -> Content]
      BY <1>0, StorageType, ZenonT(30)
    <3> QED
      BY <3>1, <3>2, ZenonT(30)
  <2>3. /\ staged' \in [Blocks -> Seq(Peers)]
        /\ committed' \subseteq Blocks /\ preempted' \subseteq Blocks
    BY <1>4, StagingType, ZenonT(30) DEF CompletePiece
  <2>4. block_source' \in [Blocks -> Sources \cup {None}]
    BY <1>4, ZenonT(30) DEF CompletePiece, ContextType
  <2> HIDE DEF i, sources
  <2>5. CASE SubmitJob(i, sources) /\ dirty' = d /\ disk' = k
    <3>1. [piece |-> i, sources |-> sources, verdict |-> "queued"] \in Job
      BY <2>1, JobType, ZenonT(30)
    <3>2. jobs' \in [Slots -> Job \cup {None}]
      BY <3>1, <2>5, ZenonT(30) DEF SubmitJob, ContextType
    <3> QED
      BY <2>1, <2>3, <2>4, <2>5, <3>2, ZenonT(30) DEF SubmitJob, ContextType, accounting, blame
  <2>6. CASE VerifyInPlace(src, d, k, i, sources, r)
    <3>1. VerdictType'
      BY <2>1, <2>6, PieceValidType, PieceCorruptType, SMTT(30) DEF VerifyInPlace
    <3>2. BufferType'
      BY <2>3, <2>4, <2>6 DEF VerifyInPlace, BufferType, ContextType
    <3>3. (VerdictType /\ BufferType)'
      BY <3>1, <3>2
    <3> QED
      BY <3>3 DEF VerdictType, BufferType, ContextType
  <2> QED
    BY <2>2, <2>5, <2>6
<1> QED
  BY <1>1, <1>2, <1>3, <1>4 DEF TakeBlock

\* process_piece_block keeps the context well formed, whatever it is handed.
LEMMA ProcessPieceBlockType ==
    ASSUME TypeOK, NEW src \in Sources, NEW b \in Blocks, NEW v, NEW r,
           ProcessPieceBlock(src, b, v, r)
    PROVE  ContextType'
<1>1. CASE RejectArguments(v, r)
  BY <1>1 DEF RejectArguments, TypeOK, ContextType, accounting, staging, verification, blame,
     store
<1>2. CASE v \in Content /\ TakeBlock(src, b, v, r)
  BY <1>2, TakeBlockType
<1> QED
  BY <1>1, <1>2 DEF ProcessPieceBlock

\* A requested block is a block of the torrent.
LEMMA ChoicesAreBlocks ==
    ASSUME TypeOK, NEW p \in Peers
    PROVE  /\ \A S : StandardChoices(p, S) \subseteq Blocks
           /\ \A overdue \in SUBSET Blocks : EndgameSelection(p, overdue) \subseteq Blocks
           /\ \A i \in Pieces : Lowest(Pending(i)) \subseteq Blocks
<1>1. \A i \in Pieces : Pending(i) \subseteq Blocks /\ EndgameOpen(p, i) \subseteq Blocks
  BY BlockFacts DEF Pending, EndgameOpen
<1>2. RemotePieces[p] \subseteq Pieces
  BY LimitFacts
<1> QED
  BY <1>1, <1>2 DEF StandardChoices, EndgameSelection, EndgameChoices, Preemptible, Lowest
=============================================================================
