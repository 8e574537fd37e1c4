------------------------- MODULE ReservationProofs --------------------------
(***************************************************************************)
(* Which steps orphan a reservation, for every instance of the pipeline:   *)
(* any peers and mirrors, in place or background verification, adaptive    *)
(* endgame or not, with or without faults.  The argument needs, besides    *)
(* the session invariant, that no block of a local piece is reserved: only *)
(* then does absorbing a late block of a local piece leave nothing behind. *)
(***************************************************************************)
EXTENDS ReservationSteps

\* A Reject releases the block it names.
LEMMA OrphanReject ==
    ASSUME TypeOK, NEW p \in Peers, NEW b \in Blocks, HandleReject(p, b)
    PROVE  OrphanStep
<1>1. OthersHold(p)
  BY DEF HandleReject, OthersHold, TypeOK, ThreadType, verification, webseed
<1>2. /\ reserved_blocks'[p] = Without(reserved_blocks[p], b)
      /\ UNCHANGED <<sending, expired>> /\ requested_blocks' = requested_blocks \ {b}
  BY DEF HandleReject, TypeOK, ThreadType
<1>3. ASSUME NEW c \in requested_blocks', Holds(p, c) PROVE Holds(p, c)'
  BY <1>2, <1>3 DEF Holds, Asked, BlocksIn, Without
<1> QED
  BY <1>1, <1>2, <1>3, OneHolder

\* A drained verdict ends the hold of the verifier together with the
\* reservations of the piece.
LEMMA OrphanDrain ==
    ASSUME TypeOK, NEW p \in Peers, NEW s \in Slots, DrainResult(p, s)
    PROVE  OrphanStep
<1> DEFINE i == jobs[s].piece
<1>1. i \in Pieces
  BY DEF DrainResult, Finished, TypeOK, ContextType, Job
<1>2. requested_blocks' = requested_blocks \ BlocksOf(i)
  <2>1. Cleared(i)
    BY VerdictClears, ZenonT(30) DEF DrainResult
  <2> QED
    BY <2>1 DEF Cleared
<1>3. /\ UNCHANGED <<block_source, reserved_blocks, sending, expired, ws_block>>
      /\ pieces_verifying' = pieces_verifying \ {i}
  BY DEF DrainResult, session, webseed
<1> SUFFICES ASSUME NEW c \in requested_blocks', Owned(c) PROVE Owned(c)'
  BY <1>2 DEF OrphanStep
<1>4. c \in Blocks /\ c \notin BlocksOf(i)
  BY <1>2 DEF TypeOK, ContextType
<1>5. PieceOf(c) # i
  BY <1>1, <1>4, BlockFacts
<1> QED
  BY <1>3, <1>5, SMTT(30) DEF Owned, Asked, BlocksIn

\* The WebSeed thread: what it reserves it holds, until a mirror's copy is
\* taken or the reservation is released.
LEMMA OrphanWebSeed ==
    ASSUME TypeOK, LocalUnreserved, WebSeedSteps
    PROVE  OrphanStep
<1>1. CASE WebSeedReserve
  <2>1. PICK b : ws_block' = b /\ requested_blocks' = requested_blocks \cup {b}
    BY <1>1 DEF WebSeedReserve
  <2>2. /\ UNCHANGED <<reserved_blocks, sending, expired, block_source, pieces_verifying>>
        /\ ws_block = None
    BY <1>1 DEF WebSeedReserve, session, verification
  <2>3. None \notin Blocks
    BY ConstantsAssumption
  <2> SUFFICES ASSUME NEW c \in requested_blocks', c # b, Owned(c) PROVE Owned(c)'
    BY <2>1 DEF OrphanStep, Owned
  <2>4. ws_block # c
    BY <2>1, <2>2, <2>3, SMTT(30) DEF TypeOK, ContextType
  <2> QED
    BY <2>2, <2>4 DEF Owned, Asked, BlocksIn
<1>2. CASE WebSeedRelease
  BY <1>2, ZenonT(30) DEF WebSeedRelease, OrphanStep, Owned, Asked, BlocksIn, session, verification
<1>3. ASSUME NEW m \in Mirrors, WebSeedMirrorFails(m) PROVE OrphanStep
  BY <1>3, SameOwners, SMTT(30) DEF WebSeedMirrorFails, session, verification
<1>4. ASSUME NEW m \in Mirrors, NEW v, WebSeedBlock(m, v) PROVE OrphanStep
  <2>1. PICK r \in {"ok", "err"} :
           /\ ProcessPieceBlock(m, ws_block, v, r)
           /\ ws_block' = IF r = "ok" THEN None ELSE ws_block
    BY <1>4 DEF WebSeedBlock
  <2>2. UNCHANGED <<reserved_blocks, sending, expired>> /\ ws_block \in Blocks /\ m \in Sources
    BY <1>4 DEF WebSeedBlock, session, Sources, TypeOK, ThreadType
  <2>3. ASSUME NEW c \in requested_blocks'
        PROVE  /\ c \in requested_blocks
               /\ ContextHolds(c) => ContextHolds(c)'
               /\ c = ws_block => \/ ContextHolds(c)'
                                  \/ r = "err"
                                  \/ c \in committed /\ block_source[c] = None
    BY <2>1, <2>2, ProcessHolds
  <2> SUFFICES ASSUME NEW c \in requested_blocks', Owned(c), ~Owned(c)'
               PROVE  c \in committed /\ block_source[c] = None
    BY <2>3 DEF OrphanStep
  <2>4. ~ContextHolds(c)' /\ ~ContextHolds(c) /\ ws_block' # c
    BY <2>3 DEF Owned, ContextHolds
  <2>5. \A q \in Peers : ~Holds(q, c)
    BY <2>2 DEF Owned, Holds, Asked, BlocksIn
  <2>6. ws_block = c
    BY <2>4, <2>5 DEF Owned, Holds, ContextHolds
  <2> QED
    BY <2>1, <2>3, <2>4, <2>6, ZenonT(30)
<1> QED
  BY <1>1, <1>2, <1>3, <1>4 DEF WebSeedSteps

-----------------------------------------------------------------------------
\* Every step orphans a reservation in the stated ways only.
LEMMA OrphanStepHolds ==
    ASSUME Shape, LocalUnreserved, Next
    PROVE  OrphanStep
<1>0. TypeOK /\ SessionConsistent
  BY DEF Shape
<1>1. ASSUME NEW p \in Peers,
             \/ SessionFails(p) \/ ReadNothing(p) \/ DrainDone(p)
             \/ \E choke \in BOOLEAN : HandleChoking(p, choke)
      PROVE  OrphanStep
  BY <1>1, SameOwners DEF SessionFails, ReadNothing, DrainDone, HandleChoking, session,
     verification, webseed
<1>2. ASSUME NEW p \in Peers, SessionSteps(p) \/ Connect(p) PROVE OrphanStep
  BY <1>0, <1>1, <1>2, OrphanConnect, OrphanTimeout, OrphanRequest, OrphanDrain
     DEF SessionSteps
<1>3. ASSUME NEW p \in Peers, MessageSteps(p) PROVE OrphanStep
  BY <1>0, <1>1, <1>3, OrphanPiece, OrphanReject DEF MessageSteps
<1>4. ASSUME NEW s \in Slots, WorkerHash(s) PROVE OrphanStep
  BY <1>4, SameOwners DEF WorkerHash, session, webseed
<1> QED
  BY <1>0, <1>1, <1>2, <1>3, <1>4, OrphanWebSeed DEF Next

\* Whatever the peers, mirrors and settings, a reservation loses its last owner
\* only when the session that dealt with the block fails over it or the staging
\* cache absorbs a block whose earlier copy was refused: timeouts, rejects,
\* exits, blame, cancelled and stolen requests and failing mirrors release or
\* hand over what they held.
THEOREM ReservationsOrphanedOnlyByFailure == Spec => OrphanedOnlyByFailure
<1>1. Shape /\ LocalUnreserved /\ [Next]_vars => [OrphanStep]_vars
  BY OrphanStepHolds
<1>2. Spec => [][OrphanStep]_vars
  BY <1>1, ShapeInit, ShapeStep, LocalPiecesUnreserved, PTL DEF Spec
<1> QED
  BY <1>2 DEF OrphanedOnlyByFailure, OrphanStep
=============================================================================
