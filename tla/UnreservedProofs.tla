-------------------------- MODULE UnreservedProofs --------------------------
(***************************************************************************)
(* No block of a local piece is reserved, for every instance of the        *)
(* pipeline: any peers and mirrors, in place or background verification,   *)
(* adaptive endgame or not, with or without faults.                        *)
(***************************************************************************)
EXTENDS BlockPipelineProofs

\* No block of a local piece is reserved.
LocalUnreserved == \A b \in requested_blocks : PieceOf(b) \notin bitfield

-----------------------------------------------------------------------------
(* LocalUnreserved is inductive: choices are blocks of missing pieces, and *)
(* a piece that becomes local is cleared in the same critical section.     *)

\* What is chosen belongs to a piece that is not local.
LEMMA ChoicesAreMissing ==
    ASSUME TypeOK, NEW p \in Peers
    PROVE  /\ \A S : \A b \in StandardChoices(p, S) : PieceOf(b) \notin bitfield
           /\ \A overdue : \A b \in EndgameSelection(p, overdue) : PieceOf(b) \notin bitfield
<1>1. \A i : \A b \in BlocksOf(i) : PieceOf(b) = i
  BY DEF BlocksOf, PieceOf
<1>2. \A i : \A b \in Lowest(Pending(i)) : PieceOf(b) = i
  BY <1>1 DEF Lowest, Pending
<1>3. \A i : \A b \in Lowest(EndgameOpen(p, i)) : PieceOf(b) = i
  BY <1>1 DEF Lowest, EndgameOpen
<1>4. \A S : \A b \in StandardChoices(p, S) : PieceOf(b) \notin bitfield
  BY <1>2 DEF StandardChoices
<1>5. \A b \in EndgameChoices(p) : PieceOf(b) \notin bitfield
  BY <1>3 DEF EndgameChoices
<1>6. \A overdue : \A b \in Preemptible(p, overdue) : PieceOf(b) \notin bitfield
  BY DEF Preemptible
<1> QED
  BY <1>4, <1>5, <1>6 DEF EndgameSelection

\* A verdict on piece i clears the requests of i and touches no other.
Cleared(i) ==
    /\ requested_blocks' = requested_blocks \ BlocksOf(i)
    /\ bitfield' \subseteq bitfield \cup {i}

\* Both verdicts do that.
LEMMA VerdictClears ==
    ASSUME NEW d, NEW k, NEW i, NEW sources,
           PieceValid(d, k, i) \/ PieceCorrupt(d, k, i, sources)
    PROVE  Cleared(i)
  BY DEF PieceValid, PieceCorrupt, Cleared

\* A block handed to the context leaves the reservations alone, or clears those
\* of its piece after a verdict in place.
LEMMA ProcessClears ==
    ASSUME NEW src, NEW b, NEW v, NEW r, ProcessPieceBlock(src, b, v, r)
    PROVE  Cleared(PieceOf(b)) \/ UNCHANGED <<requested_blocks, bitfield>>
<1>1. CASE CompletePiece(src, b, v, r)
  <2>1. \E d, k, sources : \/ VerifyInPlace(src, d, k, PieceOf(b), sources, r)
                          \/ SubmitJob(PieceOf(b), sources)
    BY <1>1 DEF CompletePiece
  <2>2. ASSUME NEW d, NEW k, NEW sources, VerifyInPlace(src, d, k, PieceOf(b), sources, r)
        PROVE  Cleared(PieceOf(b))
    BY <2>2, VerdictClears DEF VerifyInPlace
  <2>3. ASSUME NEW sources, SubmitJob(PieceOf(b), sources)
        PROVE  UNCHANGED <<requested_blocks, bitfield>>
    BY <2>3 DEF SubmitJob, accounting
  <2> QED
    BY <2>1, <2>2, <2>3
<1>2. CASE RejectArguments(v, r) \/ AbsorbBlock(b, r)
  BY <1>2 DEF RejectArguments, AbsorbBlock, accounting
<1>3. CASE RefuseBlock(b, v, r)
  BY <1>3 DEF RefuseBlock, accounting
<1>4. CASE StoreBlock(src, b, v, r)
  BY <1>4 DEF StoreBlock, accounting
<1> QED
  BY <1>1, <1>2, <1>3, <1>4 DEF ProcessPieceBlock, TakeBlock

\* Clearing a piece that becomes local keeps the invariant.
LEMMA ClearedUnreserved ==
    ASSUME TypeOK, LocalUnreserved, NEW i \in Pieces, Cleared(i)
    PROVE  LocalUnreserved'
<1> SUFFICES ASSUME NEW b \in requested_blocks' PROVE PieceOf(b) \notin bitfield'
  BY DEF LocalUnreserved
<1>1. b \in Blocks /\ b \in requested_blocks /\ b \notin BlocksOf(i)
  BY DEF Cleared, TypeOK, ContextType
<1>2. PieceOf(b) # i
  BY <1>1, BlockFacts
<1> QED
  BY <1>1, <1>2 DEF Cleared, LocalUnreserved

\* Reserving a block of a missing piece, or releasing some, keeps it.
LEMMA ReleaseUnreserved ==
    ASSUME LocalUnreserved, UNCHANGED bitfield,
           \A b \in requested_blocks' : b \in requested_blocks \/ PieceOf(b) \notin bitfield
    PROVE  LocalUnreserved'
  BY DEF LocalUnreserved

\* Every step keeps it.
LEMMA UnreservedStep ==
    ASSUME TypeOK, LocalUnreserved, [Next]_vars
    PROVE  LocalUnreserved'
<1> USE DEF accounting
<1>1. ASSUME NEW p \in Peers, Connect(p) \/ SessionFails(p) PROVE LocalUnreserved'
  BY <1>1, ReleaseUnreserved DEF Connect, SessionFails
<1>2. ASSUME NEW p \in Peers, RequestSteps(p) PROVE LocalUnreserved'
  <2>1. CASE RequestStandard(p) \/ RequestFast(p)
    BY <2>1, ChoicesAreMissing, ReleaseUnreserved DEF RequestStandard, RequestFast, Reserve
  <2>2. CASE RequestEndgame(p)
    BY <2>2, ChoicesAreMissing, ReleaseUnreserved DEF RequestEndgame, Reserve
  <2>3. CASE RequestNothing(p) \/ RequestSent(p) \/ RequestFailed(p)
    BY <2>3, ReleaseUnreserved DEF RequestNothing, RequestSent, RequestFailed
  <2> QED
    BY <1>2, <2>1, <2>2, <2>3 DEF RequestSteps
<1>3. ASSUME NEW p \in Peers, NEW s \in Slots, DrainResult(p, s) PROVE LocalUnreserved'
  <2>1. jobs[s].piece \in Pieces
    BY <1>3 DEF DrainResult, Finished, TypeOK, ContextType, Job
  <2>2. Cleared(jobs[s].piece)
    BY <1>3, VerdictClears DEF DrainResult
  <2> QED
    BY <2>1, <2>2, ClearedUnreserved
<1>4. ASSUME NEW p \in Peers,
             \/ SessionExits(p) \/ ReadNothing(p) \/ ExpireRequests(p)
             \/ ReleaseExpired(p) \/ DrainDone(p)
      PROVE  LocalUnreserved'
  BY <1>4, ReleaseUnreserved DEF SessionExits, ReadNothing, ExpireRequests, ReleaseExpired,
     DrainDone
<1>5. ASSUME NEW src, NEW b \in Blocks, NEW v, NEW r, ProcessPieceBlock(src, b, v, r)
      PROVE  LocalUnreserved'
  <2>1. PieceOf(b) \in Pieces
    BY BlockFacts
  <2> QED
    BY <1>5, <2>1, ProcessClears, ClearedUnreserved, ReleaseUnreserved
<1>6. ASSUME NEW p \in Peers, MessageSteps(p) PROVE LocalUnreserved'
  BY <1>5, <1>6, ReleaseUnreserved DEF MessageSteps, HandlePiece, HandleReject, HandleChoking
<1>7. ASSUME NEW s \in Slots, WorkerHash(s) PROVE LocalUnreserved'
  BY <1>7, ReleaseUnreserved DEF WorkerHash
<1>8. CASE WebSeedSteps
  <2>1. CASE WebSeedReserve
    <3>1. PICK i \in Pieces \ bitfield : \E b \in Lowest(Pending(i)) :
             requested_blocks' = requested_blocks \cup {b}
      BY <2>1 DEF WebSeedReserve
    <3>2. \A b \in Lowest(Pending(i)) : PieceOf(b) = i
      BY DEF Lowest, Pending, BlocksOf, PieceOf
    <3> QED
      BY <2>1, <3>1, <3>2, ReleaseUnreserved DEF WebSeedReserve
  <2>2. CASE WebSeedRelease
    BY <2>2, ReleaseUnreserved DEF WebSeedRelease
  <2>3. ASSUME NEW m \in Mirrors, WebSeedMirrorFails(m) PROVE LocalUnreserved'
    BY <2>3, ReleaseUnreserved DEF WebSeedMirrorFails
  <2>4. ASSUME NEW m \in Mirrors, NEW v, WebSeedBlock(m, v) PROVE LocalUnreserved'
    <3>1. ws_block \in Blocks
      BY <2>4 DEF WebSeedBlock, TypeOK, ThreadType
    <3> QED
      BY <1>5, <2>4, <3>1 DEF WebSeedBlock
  <2> QED
    BY <1>8, <2>1, <2>2, <2>3, <2>4 DEF WebSeedSteps
<1>9. CASE UNCHANGED vars
  BY <1>9, ReleaseUnreserved DEF vars
<1> QED
  BY <1>1, <1>2, <1>3, <1>4, <1>6, <1>7, <1>8, <1>9 DEF Next, SessionSteps

\* LocalUnreserved holds throughout: no step reserves a block of a local piece,
\* and mark_piece_local clears what was reserved of it.
THEOREM LocalPiecesUnreserved == Spec => []LocalUnreserved
<1>1. Init => LocalUnreserved
  BY DEF Init, LocalUnreserved
<1>2. TypeOK /\ LocalUnreserved /\ [Next]_vars => LocalUnreserved'
  BY UnreservedStep
<1> QED
  BY <1>1, <1>2, TypeCorrect, PTL DEF Spec
=============================================================================
