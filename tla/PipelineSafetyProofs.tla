------------------------ MODULE PipelineSafetyProofs ------------------------
(***************************************************************************)
(* Safety of the download pipeline for every instance.  A piece in the     *)
(* bitfield reads back intact when pieces are verified in place: the       *)
(* invariant is LocalIntact with the fact that no background job exists.   *)
(* A blacklisted peer is out of the swarm: BlacklistedOut is inductive     *)
(* beside the type invariant.                                              *)
(***************************************************************************)
EXTENDS BlockPipelineProofs

NoJobs == \A s \in Slots : jobs[s] = None

\* Every piece of the bitfield is intact in storage (d, k).
LocalIntactIn(d, k) == \A j \in bitfield : Intact(d, k, j)

-----------------------------------------------------------------------------
\* Storage that reads the same outside piece i keeps the other pieces intact.
LEMMA IntactElsewhere ==
    ASSUME TypeOK, NEW d, NEW k, NEW d2, NEW k2, NEW i \in Pieces, i \notin bitfield,
           LocalIntactIn(d, k),
           \A c \in Blocks : PieceOf(c) # i => ReadBlock(d2, k2, c) = ReadBlock(d, k, c)
    PROVE  LocalIntactIn(d2, k2)
<1> SUFFICES ASSUME NEW j \in bitfield, NEW c \in BlocksOf(j)
             PROVE  ReadBlock(d2, k2, c) = "good"
  BY DEF LocalIntactIn, Intact
<1>1. j \in Pieces /\ j # i
  BY DEF TypeOK, ContextType
<1>2. c \in Blocks /\ PieceOf(c) = j
  BY <1>1, BlockFacts
<1>3. ReadBlock(d, k, c) = "good"
  BY DEF LocalIntactIn, Intact
<1> QED
  BY <1>1, <1>2, <1>3

\* A flush, failing or not, changes no read.
LEMMA FlushReads ==
    ASSUME NEW d \in [Blocks -> Content], NEW k \in [Blocks -> Content],
           FlushIgnoringErrors(d, k), NEW c \in Blocks
    PROVE  ReadBlock(dirty', disk', c) = ReadBlock(d, k, c)
<1>1. CASE dirty' = NoDirty(d) /\ disk' = WrittenOut(d, k, Blocks)
  BY <1>1, WriteOutReads
<1>2. CASE dirty' = d /\ \E S \in SUBSET {b \in Blocks : d[b] # "none"} : disk' = WrittenOut(d, k, S)
  <2>1. PICK S \in SUBSET {b \in Blocks : d[b] # "none"} : disk' = WrittenOut(d, k, S)
    BY <1>2
  <2>2. ReadBlock(d, WrittenOut(d, k, S), c) = ReadBlock(d, k, c)
    BY WriteOutReads
  <2> QED
    BY <1>2, <2>1, <2>2
<1> QED
  BY <1>1, <1>2 DEF FlushIgnoringErrors

\* A piece found intact joins the bitfield and stays intact through the flush.
LEMMA ValidKeepsIntact ==
    ASSUME TypeOK, NEW d \in [Blocks -> Content], NEW k \in [Blocks -> Content],
           NEW i \in Pieces, LocalIntactIn(d, k), Intact(d, k, i), PieceValid(d, k, i)
    PROVE  LocalIntact'
<1>1. bitfield' = bitfield \cup {i} /\ bitfield' \subseteq Pieces
  BY DEF PieceValid, TypeOK, ContextType
<1>2. ASSUME NEW j \in bitfield', NEW c \in BlocksOf(j)
      PROVE  ReadBlock(dirty', disk', c) = "good"
  <2>1. ReadBlock(d, k, c) = "good"
    BY <1>1 DEF LocalIntactIn, Intact
  <2>2. c \in Blocks
    BY <1>1, BlockFacts
  <2> QED
    BY <2>1, <2>2, FlushReads DEF PieceValid
<1> QED
  BY <1>2 DEF LocalIntact, Intact

\* Discarding a corrupt piece that is not local spoils no local piece.
LEMMA CorruptKeepsIntact ==
    ASSUME TypeOK, NEW d \in [Blocks -> Content], NEW k \in [Blocks -> Content],
           NEW i \in Pieces, i \notin bitfield, NEW sources,
           LocalIntactIn(d, k), PieceCorrupt(d, k, i, sources)
    PROVE  LocalIntact'
<1>1. \A c \in Blocks : PieceOf(c) # i => ReadBlock(dirty', disk', c) = ReadBlock(d, k, c)
  BY BlockFacts DEF PieceCorrupt, Discarded, ReadBlock
<1>2. LocalIntactIn(dirty', disk')
  BY <1>1, IntactElsewhere
<1> QED
  BY <1>2 DEF LocalIntactIn, LocalIntact, PieceCorrupt

-----------------------------------------------------------------------------
\* Storing a block of a piece that is not local, with or without eviction or
\* a failed write-out, changes no read of another piece.
LEMMA StoreReadsElsewhere ==
    ASSUME TypeOK, NEW b \in Blocks, NEW v \in Content, NEW c \in Blocks,
           PieceOf(c) # PieceOf(b)
    PROVE  LET d == DirtyWith(b, v)
           IN  /\ ReadBlock(d, disk, c) = ReadBlock(dirty, disk, c)
               /\ ReadBlock(NoDirty(dirty), WrittenOut(d, disk, Blocks), c)
                      = ReadBlock(dirty, disk, c)
<1> USE DEF TypeOK, ContextType
<1>1. DirtyWith(b, v) \in [Blocks -> Content] /\ DirtyWith(b, v)[c] = dirty[c]
  BY DEF DirtyWith
<1>2. NoDirty(dirty) = NoDirty(DirtyWith(b, v))
  BY <1>1 DEF NoDirty
<1>3. ReadBlock(DirtyWith(b, v), disk, c) = ReadBlock(dirty, disk, c)
  BY <1>1 DEF ReadBlock
<1>4. ReadBlock(NoDirty(DirtyWith(b, v)), WrittenOut(DirtyWith(b, v), disk, Blocks), c)
         = ReadBlock(DirtyWith(b, v), disk, c)
  BY <1>1, WriteOutReads, ZenonT(30)
<1> QED
  BY <1>2, <1>3, <1>4

\* A block that passed the argument checks keeps the local pieces intact when
\* verification is in place.
LEMMA TakeBlockKeepsIntact ==
    ASSUME ~AsyncVerification, TypeOK, LocalIntact, NoJobs,
           NEW src \in Sources, NEW b \in Blocks, NEW v \in Content, NEW r,
           TakeBlock(src, b, v, r)
    PROVE  LocalIntact' /\ NoJobs'
<1>0. LocalIntactIn(dirty, disk)
  BY DEF LocalIntact, LocalIntactIn
<1>t. dirty \in [Blocks -> Content] /\ disk \in [Blocks -> Content] /\ PieceOf(b) \in Pieces
  BY BlockFacts DEF TypeOK, ContextType
<1>1. CASE AbsorbBlock(b, r)
  BY <1>1 DEF AbsorbBlock, LocalIntact, NoJobs, Intact, accounting, verification, store
<1>2. CASE RefuseBlock(b, v, r)
  <2>1. PieceOf(b) \notin bitfield
    BY <1>2 DEF RefuseBlock, Absorbed
  <2>2. ASSUME NEW c \in Blocks, PieceOf(c) # PieceOf(b)
        PROVE  ReadBlock(dirty', disk', c) = ReadBlock(dirty, disk, c)
    <3>1. CASE UNCHANGED store
      BY <3>1 DEF store
    <3>2. CASE ~UNCHANGED store
      <4>1. dirty' = [dirty EXCEPT ![b] = v] /\ \E S : disk' = WrittenOut(dirty', disk, S)
        BY <1>2, <3>2 DEF RefuseBlock
      <4>2. PICK S : disk' = WrittenOut(dirty', disk, S)
        BY <4>1
      <4>3. dirty' \in [Blocks -> Content] /\ dirty'[c] = dirty[c]
        BY <1>t, <2>2, <4>1
      <4>4. ReadBlock(dirty', WrittenOut(dirty', disk, S), c) = ReadBlock(dirty', disk, c)
        BY <1>t, <4>3, WriteOutReads
      <4> QED
        BY <4>2, <4>3, <4>4 DEF ReadBlock
    <3> QED
      BY <3>1, <3>2
  <2>3. LocalIntactIn(dirty', disk')
    BY <1>0, <1>t, <2>1, <2>2, IntactElsewhere
  <2> QED
    BY <1>2, <2>3 DEF RefuseBlock, LocalIntact, LocalIntactIn, NoJobs, accounting, verification
<1>3. CASE StoreBlock(src, b, v, r)
  <2>1. PieceOf(b) \notin bitfield
    BY <1>3 DEF StoreBlock, Absorbed
  <2>2. ASSUME NEW c \in Blocks, PieceOf(c) # PieceOf(b)
        PROVE  ReadBlock(dirty', disk', c) = ReadBlock(dirty, disk, c)
    BY <1>3, <2>2, StoreReadsElsewhere DEF StoreBlock
  <2>3. LocalIntactIn(dirty', disk')
    BY <1>0, <1>t, <2>1, <2>2, IntactElsewhere
  <2> QED
    BY <1>3, <2>3 DEF StoreBlock, LocalIntact, LocalIntactIn, NoJobs, accounting, verification
<1>4. CASE CompletePiece(src, b, v, r)
  <2> DEFINE i == PieceOf(b)
             sources == [n \in BlockIdx |-> BufferWith(src, b)[<<i, n>>]]
  <2>1. i \notin bitfield
    BY <1>4, SMTT(30) DEF CompletePiece, Absorbed
  <2>2. PICK evict \in BOOLEAN :
           LET d == IF evict THEN NoDirty(dirty) ELSE DirtyWith(b, v)
               k == IF evict THEN WrittenOut(DirtyWith(b, v), disk, Blocks) ELSE disk
           IN  VerifyInPlace(src, d, k, i, sources, r)
    BY <1>4, ZenonT(30) DEF CompletePiece, SubmitJob, PoolAccepts, Evictions
  <2> DEFINE d == IF evict THEN NoDirty(dirty) ELSE DirtyWith(b, v)
             k == IF evict THEN WrittenOut(DirtyWith(b, v), disk, Blocks) ELSE disk
  <2>3. d \in [Blocks -> Content] /\ k \in [Blocks -> Content]
    <3>1. DirtyWith(b, v) \in [Blocks -> Content]
      BY <1>t DEF DirtyWith
    <3> QED
      BY <1>t, <3>1, StorageType
  <2>4. \A c \in Blocks : PieceOf(c) # i => ReadBlock(d, k, c) = ReadBlock(dirty, disk, c)
    BY StoreReadsElsewhere
  <2>5. VerifyInPlace(src, d, k, i, sources, r)
    BY <2>2
  <2> HIDE DEF d, k, sources
  <2>6. LocalIntactIn(d, k)
    BY <1>0, <1>t, <2>1, <2>4, IntactElsewhere
  <2>7. \/ Intact(d, k, i) /\ PieceValid(d, k, i)
        \/ PieceCorrupt(d, k, i, sources)
    BY <2>5 DEF VerifyInPlace, Verdicts
  <2>8. LocalIntact'
    BY <1>t, <2>1, <2>3, <2>6, <2>7, ValidKeepsIntact, CorruptKeepsIntact
  <2> QED
    BY <2>5, <2>8 DEF VerifyInPlace, NoJobs
<1> QED
  BY <1>1, <1>2, <1>3, <1>4 DEF TakeBlock

-----------------------------------------------------------------------------
\* A step that touches neither bitfield, storage nor jobs keeps the invariant.
LEMMA UntouchedIntact ==
    ASSUME LocalIntact, NoJobs, UNCHANGED <<bitfield, dirty, disk, jobs>>
    PROVE  LocalIntact' /\ NoJobs'
  BY DEF LocalIntact, NoJobs, Intact

\* process_piece_block keeps the local pieces intact when it verifies in place.
LEMMA ProcessKeepsIntact ==
    ASSUME ~AsyncVerification, TypeOK, LocalIntact, NoJobs,
           NEW src \in Sources, NEW b \in Blocks, NEW v, NEW r,
           ProcessPieceBlock(src, b, v, r)
    PROVE  LocalIntact' /\ NoJobs'
<1>1. CASE RejectArguments(v, r)
  BY <1>1, UntouchedIntact DEF RejectArguments, accounting, verification, store
<1>2. CASE v \in Content /\ TakeBlock(src, b, v, r)
  BY <1>2, TakeBlockKeepsIntact
<1> QED
  BY <1>1, <1>2 DEF ProcessPieceBlock

\* Every step keeps the local pieces intact when verification is in place.
LEMMA IntactStep ==
    ASSUME ~AsyncVerification, TypeOK, LocalIntact, NoJobs, [Next]_vars
    PROVE  LocalIntact' /\ NoJobs'
<1> USE DEF accounting, verification, store
<1>0. Queued = {} /\ Finished = {}
  BY DEF NoJobs, Queued, Finished
<1>1. ASSUME NEW p \in Peers, Connect(p) \/ SessionFails(p)
      PROVE  LocalIntact' /\ NoJobs'
  BY <1>1, UntouchedIntact DEF Connect, SessionFails
<1>2. ASSUME NEW p \in Peers, RequestSteps(p)
      PROVE  LocalIntact' /\ NoJobs'
  <2>1. UNCHANGED <<bitfield, dirty, disk, jobs>>
    BY <1>2, ZenonT(30) DEF RequestSteps, RequestStandard, RequestEndgame, RequestFast,
       RequestNothing, RequestSent, RequestFailed, Reserve
  <2> QED
    BY <2>1, UntouchedIntact, SMTT(30)
<1>3. ASSUME NEW p \in Peers, SessionSteps(p)
      PROVE  LocalIntact' /\ NoJobs'
  <2>1. RequestSteps(p) \/ UNCHANGED <<bitfield, dirty, disk, jobs>>
    BY <1>0, <1>3, ZenonT(30) DEF SessionSteps, SessionExits, ReadNothing, ExpireRequests,
       ReleaseExpired, DrainResult, DrainDone
  <2> QED
    BY <1>2, <2>1, UntouchedIntact, SMTT(30)
<1>4. ASSUME NEW p \in Peers, MessageSteps(p)
      PROVE  LocalIntact' /\ NoJobs'
  <2>1. ASSUME NEW b \in Blocks, NEW v \in Payloads(p), HandlePiece(p, b, v)
        PROVE  LocalIntact' /\ NoJobs'
    <3>1. PICK r : ProcessPieceBlock(p, b, v, r)
      BY <2>1 DEF HandlePiece
    <3>2. p \in Sources
      BY DEF Sources
    <3> QED
      BY <3>1, <3>2, ProcessKeepsIntact
  <2>2. ASSUME NEW b \in Blocks, HandleReject(p, b) PROVE LocalIntact' /\ NoJobs'
    BY <2>2, UntouchedIntact DEF HandleReject
  <2>3. ASSUME NEW choke \in BOOLEAN, HandleChoking(p, choke) PROVE LocalIntact' /\ NoJobs'
    BY <2>3, UntouchedIntact DEF HandleChoking
  <2> QED
    BY <1>4, <2>1, <2>2, <2>3 DEF MessageSteps
<1>5. ASSUME NEW s \in Slots, WorkerHash(s) PROVE LocalIntact' /\ NoJobs'
  BY <1>0, <1>5 DEF WorkerHash
<1>6. CASE WebSeedSteps
  <2>1. ASSUME NEW m \in Mirrors, NEW v \in Payloads(m), WebSeedBlock(m, v)
        PROVE  LocalIntact' /\ NoJobs'
    <3>1. PICK r : ProcessPieceBlock(m, ws_block, v, r)
      BY <2>1 DEF WebSeedBlock
    <3>2. m \in Sources /\ ws_block \in Blocks
      BY <2>1 DEF WebSeedBlock, Sources, TypeOK, ThreadType
    <3> QED
      BY <3>1, <3>2, ProcessKeepsIntact
  <2>2. CASE WebSeedReserve \/ WebSeedRelease
    BY <2>2, UntouchedIntact DEF WebSeedReserve, WebSeedRelease
  <2>3. ASSUME NEW m \in Mirrors, WebSeedMirrorFails(m) PROVE LocalIntact' /\ NoJobs'
    BY <2>3, UntouchedIntact DEF WebSeedMirrorFails
  <2> QED
    BY <1>6, <2>1, <2>2, <2>3 DEF WebSeedSteps
<1>7. CASE UNCHANGED vars
  BY <1>7, UntouchedIntact DEF vars
<1> QED
  BY <1>1, <1>3, <1>4, <1>5, <1>6, <1>7 DEF Next

\* A piece announced and served is intact: with verification in place, no
\* late, duplicate or corrupt block, no eviction, discard or failed flush
\* spoils a piece of the bitfield, for any number of peers, mirrors, pieces
\* and blocks, with or without disk and socket errors.
THEOREM LocalPiecesIntact ==
    ASSUME ~AsyncVerification
    PROVE  Spec => []LocalIntact
<1>1. Init => LocalIntact /\ NoJobs
  <2> SUFFICES ASSUME Init PROVE LocalIntact /\ NoJobs
    OBVIOUS
  <2>1. ASSUME NEW i \in bitfield, NEW b \in BlocksOf(i)
        PROVE  ReadBlock(dirty, disk, b) = "good"
    <3>1. i \in Pieces /\ i \in InitialLocal
      BY LimitFacts DEF Init
    <3>2. b \in Blocks /\ PieceOf(b) = i
      BY <3>1, BlockFacts
    <3> QED
      BY <3>1, <3>2 DEF Init, ReadBlock
  <2> QED
    BY <2>1 DEF Init, LocalIntact, Intact, NoJobs
<1>2. TypeOK /\ LocalIntact /\ NoJobs /\ [Next]_vars => LocalIntact' /\ NoJobs'
  BY IntactStep
<1> QED
  BY <1>1, <1>2, TypeCorrect, PTL DEF Spec

-----------------------------------------------------------------------------
\* A corrupt verdict blames its sources and removes the blacklisted ones in
\* one critical section.
LEMMA CorruptOusts ==
    ASSUME TypeOK, BlacklistedOut, NEW d, NEW k, NEW i, NEW sources,
           PieceCorrupt(d, k, i, sources)
    PROVE  BlacklistedOut'
<1> SUFFICES ASSUME NEW p \in peer_swarm' PROVE bad_peer_scores'[p] < BlacklistScore
  BY DEF BlacklistedOut
<1>1. p \in peer_swarm /\ p \notin Ousted(sources) /\ p \in Sources
  BY DEF PieceCorrupt, TypeOK, ContextType, Sources
<1>2. bad_peer_scores'[p] = Score(sources, p)
  BY <1>1 DEF PieceCorrupt
<1>3. /\ Score(sources, p) \in 0 .. BlacklistScore
      /\ Blamed(sources, p) \in Nat
      /\ Blamed(sources, p) = 0 => Score(sources, p) = bad_peer_scores[p]
  BY <1>1, ScoreType, BlamedType DEF TypeOK
<1>4. CASE Blamed(sources, p) = 0
  BY <1>1, <1>2, <1>3, <1>4 DEF BlacklistedOut
<1>5. CASE Blamed(sources, p) > 0
  BY <1>1, <1>2, <1>3, <1>5, LimitFacts, SMTT(30) DEF Ousted
<1> QED
  BY <1>3, <1>4, <1>5

\* A received block keeps the blacklisted out.
LEMMA ProcessOusts ==
    ASSUME TypeOK, BlacklistedOut, NEW src, NEW b, NEW v, NEW r,
           ProcessPieceBlock(src, b, v, r)
    PROVE  BlacklistedOut'
<1> USE DEF blame
<1>1. CASE UNCHANGED blame
  BY <1>1 DEF BlacklistedOut
<1>2. CASE CompletePiece(src, b, v, r)
  <2>1. \E d, k, sources : VerifyInPlace(src, d, k, PieceOf(b), sources, r) \/ UNCHANGED blame
    BY <1>2, ZenonT(30) DEF CompletePiece, SubmitJob
  <2>2. PICK d, k, sources : VerifyInPlace(src, d, k, PieceOf(b), sources, r) \/ UNCHANGED blame
    BY <2>1
  <2>3. PieceCorrupt(d, k, PieceOf(b), sources) \/ UNCHANGED blame
    BY <2>2 DEF VerifyInPlace, PieceValid
  <2> QED
    BY <1>1, <2>3, CorruptOusts, SMTT(30)
<1> QED
  BY <1>1, <1>2, ZenonT(30) DEF ProcessPieceBlock, RejectArguments, TakeBlock, AbsorbBlock,
     RefuseBlock, StoreBlock

\* Every step keeps the blacklisted out.
LEMMA BlacklistStep ==
    ASSUME TypeOK, BlacklistedOut, [Next]_vars
    PROVE  BlacklistedOut'
<1> USE DEF blame
<1>1. CASE UNCHANGED blame
  BY <1>1 DEF BlacklistedOut
<1>2. ASSUME NEW p \in Peers, Connect(p) PROVE BlacklistedOut'
  BY <1>2 DEF BlacklistedOut, Connect
<1>3. ASSUME NEW p \in Peers, SessionSteps(p) PROVE BlacklistedOut'
  <2>1. CASE SessionExits(p)
    BY <2>1, ZenonT(30) DEF BlacklistedOut, SessionExits
  <2>2. ASSUME NEW s \in Slots, DrainResult(p, s) PROVE BlacklistedOut'
    <3>1. PieceCorrupt(dirty, disk, jobs[s].piece, jobs[s].sources) \/ UNCHANGED blame
      BY <2>2, ZenonT(30) DEF DrainResult, PieceValid
    <3> QED
      BY <1>1, <3>1, CorruptOusts, SMTT(30)
  <2>3. CASE RequestSteps(p)
    BY <1>1, <2>3, ZenonT(30) DEF RequestSteps, RequestStandard, RequestEndgame, RequestFast,
       RequestNothing, RequestSent, RequestFailed, Reserve
  <2> QED
    BY <1>1, <1>3, <2>1, <2>2, <2>3, SMTT(30) DEF SessionSteps, ReadNothing, ExpireRequests,
       ReleaseExpired, DrainDone
<1>4. ASSUME NEW p \in Peers, MessageSteps(p) PROVE BlacklistedOut'
  BY <1>1, <1>4, ProcessOusts DEF MessageSteps, HandlePiece, HandleReject, HandleChoking
<1>5. CASE WebSeedSteps
  BY <1>1, <1>5, ProcessOusts DEF WebSeedSteps, WebSeedReserve, WebSeedRelease,
     WebSeedMirrorFails, WebSeedBlock
<1> QED
  BY <1>1, <1>2, <1>3, <1>4, <1>5 DEF Next, SessionFails, WorkerHash, vars

\* A blacklisted peer is out of the swarm and stays out: whichever session,
\* mirror or background result reported it, for any number of peers and any
\* limit, it neither stays registered nor registers again.
THEOREM BlacklistedStayOut == Spec => []BlacklistedOut
<1>1. Init => BlacklistedOut
  BY DEF Init, BlacklistedOut
<1>2. TypeOK /\ BlacklistedOut /\ [Next]_vars => BlacklistedOut'
  BY BlacklistStep
<1> QED
  BY <1>1, <1>2, TypeCorrect, PTL DEF Spec
=============================================================================
