-------------------------- MODULE ReservationSteps --------------------------
(***************************************************************************)
(* What the steps of a session do to the owners of the reservations:       *)
(* connecting, leaving, timing out, requesting, receiving a block.         *)
(***************************************************************************)
EXTENDS UnreservedProofs

-----------------------------------------------------------------------------
(* The owners of a reservation: a session, the WebSeed thread, the context.*)

Holds(p, b) == Asked(p, b) \/ sending[p] = b \/ b \in BlocksIn(expired[p])

ContextHolds(b) == block_source[b] # None \/ PieceOf(b) \in pieces_verifying

\* What OrphanedOnlyByFailure says of a step.
OrphanStep ==
    \A b \in requested_blocks' :
        \/ Owned(b)'
        \/ b \in requested_blocks /\ ~Owned(b)
        \/ \E p \in Peers : FailsOver(p, b)
        \/ b \in committed /\ block_source[b] = None

\* The threads other than p, and the context, hold what they held.
OthersHold(p) ==
    /\ \A q \in Peers \ {p} : /\ reserved_blocks'[q] = reserved_blocks[q]
                              /\ sending'[q] = sending[q] /\ expired'[q] = expired[q]
    /\ UNCHANGED <<ws_block, block_source, pieces_verifying>>

\* A step that changes no owner and no reservation.
LEMMA SameOwners ==
    ASSUME UNCHANGED <<requested_blocks, reserved_blocks, sending, expired, ws_block,
                       block_source, pieces_verifying>>
    PROVE  OrphanStep
  BY DEF OrphanStep, Owned, Asked, BlocksIn

\* A step of one session: each block still reserved is one it holds now, or one
\* it did not hold, or one it fails over.
LEMMA OneHolder ==
    ASSUME NEW p \in Peers, OthersHold(p),
           \A b \in requested_blocks' :
               Holds(p, b)' \/ (b \in requested_blocks /\ (Holds(p, b) => FailsOver(p, b)))
    PROVE  OrphanStep
<1> SUFFICES ASSUME NEW b \in requested_blocks', ~Owned(b)', Owned(b), b \in requested_blocks
             PROVE  FailsOver(p, b)
  BY DEF OrphanStep, Holds, Owned
<1>1. ~Holds(p, b)'
  BY DEF Owned, Holds
<1>2. \A q \in Peers \ {p} : ~Holds(q, b)
  BY DEF Owned, Holds, OthersHold, Asked, BlocksIn
<1>3. ws_block # b /\ ~ContextHolds(b)
  BY DEF Owned, ContextHolds, OthersHold
<1>4. Holds(p, b)
  BY <1>2, <1>3 DEF Owned, Holds, ContextHolds
<1> QED
  BY <1>1, <1>4

\* Connecting and leaving: an idle session holds nothing, and one that leaves
\* releases its list.
LEMMA OrphanConnect ==
    ASSUME TypeOK, SessionConsistent, NEW p \in Peers, Connect(p) \/ SessionExits(p)
    PROVE  OrphanStep
<1>0. PhaseFits(p)
  BY DEF SessionConsistent
<1>1. OthersHold(p)
  BY DEF Connect, SessionExits, OthersHold, TypeOK, ThreadType, verification, webseed
<1>2. ASSUME NEW b \in requested_blocks' PROVE b \in requested_blocks /\ ~Holds(p, b)
  <2>1. b \in Blocks /\ b # None /\ sending[p] = None /\ expired[p] = {}
    BY <1>0, <1>2, ConstantsAssumption
       DEF Connect, SessionExits, PhaseFits, TypeOK, ContextType
  <2>2. ~Asked(p, b) /\ b \in requested_blocks
    BY <1>0, <1>2 DEF Connect, SessionExits, PhaseFits, Asked, BlocksIn
  <2> QED
    BY <2>1, <2>2 DEF Holds, BlocksIn
<1> QED
  BY <1>1, <1>2, OneHolder

\* The two phases of a timeout: entries move to expired, then are released.
LEMMA OrphanTimeout ==
    ASSUME TypeOK, SessionConsistent, NEW p \in Peers, ExpireRequests(p) \/ ReleaseExpired(p)
    PROVE  OrphanStep
<1>0. PhaseFits(p)
  BY DEF SessionConsistent
<1>1. CASE ExpireRequests(p)
  <2>1. PICK S \in SUBSET reserved_blocks[p] :
           /\ reserved_blocks' = [reserved_blocks EXCEPT ![p] = @ \ S]
           /\ expired' = [expired EXCEPT ![p] = S]
    BY <1>1, ZenonT(30) DEF ExpireRequests
  <2>2. OthersHold(p)
    BY <1>1, <2>1 DEF ExpireRequests, OthersHold, TypeOK, ThreadType, verification, webseed
  <2>3. /\ reserved_blocks'[p] = reserved_blocks[p] \ S /\ expired'[p] = S
        /\ sending'[p] = sending[p] /\ expired[p] = {}
    BY <1>0, <1>1, <2>1 DEF ExpireRequests, PhaseFits, TypeOK, ThreadType
  <2>4. \A b : Holds(p, b) => Holds(p, b)'
    BY <2>3 DEF Holds, Asked, BlocksIn
  <2>5. UNCHANGED requested_blocks
    BY <1>1 DEF ExpireRequests
  <2> QED
    BY <2>2, <2>4, <2>5, OneHolder
<1>2. CASE ReleaseExpired(p)
  <2>1. OthersHold(p)
    BY <1>2 DEF ReleaseExpired, OthersHold, TypeOK, ThreadType, verification, webseed
  <2>2. /\ reserved_blocks'[p] = reserved_blocks[p] /\ sending'[p] = sending[p]
        /\ requested_blocks' = requested_blocks \ BlocksIn(expired[p])
    BY <1>2 DEF ReleaseExpired
  <2>3. \A b \in requested_blocks' : b \in requested_blocks /\ (Holds(p, b) => Holds(p, b)')
    BY <2>2 DEF Holds, Asked, BlocksIn
  <2> QED
    BY <2>1, <2>3, OneHolder
<1> QED
  BY <1>1, <1>2

\* Requesting: the block reserved is the one being sent, then the one listed;
\* a failed write is the session's own failure.
LEMMA OrphanRequest ==
    ASSUME TypeOK, SessionConsistent, NEW p \in Peers, RequestSteps(p)
    PROVE  OrphanStep
<1>0. PhaseFits(p)
  BY DEF SessionConsistent
<1>1. ASSUME NEW b, pc[p] = "request", Reserve(p, b) PROVE OrphanStep
  <2>1. OthersHold(p)
    BY <1>1 DEF Reserve, OthersHold, TypeOK, ThreadType, verification, webseed
  <2>2. /\ reserved_blocks'[p] = reserved_blocks[p] /\ expired'[p] = expired[p]
        /\ sending'[p] = b /\ sending[p] = None
        /\ requested_blocks' = requested_blocks \cup {b}
    BY <1>0, <1>1 DEF Reserve, PhaseFits, TypeOK, ThreadType
  <2>3. ASSUME NEW c \in requested_blocks' PROVE Holds(p, c)' \/ (c \in requested_blocks /\ ~Holds(p, c))
    <3>1. CASE c = b
      BY <2>2, <3>1 DEF Holds
    <3>2. CASE c # b
      <4>1. c \in Blocks /\ c # None
        BY <2>2, <3>2, ConstantsAssumption, ZenonT(30) DEF TypeOK, ContextType
      <4> QED
        BY <2>2, <3>2, <4>1, SMTT(30) DEF Holds, Asked, BlocksIn
    <3> QED
      BY <3>1, <3>2
  <2> QED
    BY <2>1, <2>3, OneHolder
<1>2. CASE RequestStandard(p) \/ RequestFast(p) \/ RequestEndgame(p)
  BY <1>1, <1>2 DEF RequestStandard, RequestFast, RequestEndgame, MayRequest
<1>3. CASE RequestNothing(p)
  BY <1>3, SameOwners, ZenonT(30) DEF RequestNothing, verification, session, webseed
<1>4. CASE RequestSent(p)
  <2>1. OthersHold(p)
    BY <1>4 DEF RequestSent, OthersHold, TypeOK, ThreadType, verification, webseed
  <2>2. PICK n : reserved_blocks' = [reserved_blocks EXCEPT ![p] = @ \cup {<<sending[p], n>>}]
    BY <1>4, ZenonT(30) DEF RequestSent
  <2>3. /\ reserved_blocks'[p] = reserved_blocks[p] \cup {<<sending[p], n>>}
        /\ expired'[p] = expired[p] /\ UNCHANGED requested_blocks
    BY <1>4, <2>2 DEF RequestSent, TypeOK, ThreadType
  <2>4. ASSUME NEW b, Holds(p, b) PROVE Holds(p, b)'
    <3>1. CASE Asked(p, b)
      BY <2>3, <3>1 DEF Holds, Asked, BlocksIn
    <3>2. CASE sending[p] = b
      <4>1. <<b, n>> \in reserved_blocks'[p] /\ <<b, n>>[1] = b
        BY <2>3, <3>2
      <4>2. Asked(p, b)'
        BY <4>1 DEF Asked, BlocksIn
      <4> QED
        BY <4>2 DEF Holds
    <3>3. CASE b \in BlocksIn(expired[p])
      BY <2>3, <3>3 DEF Holds, BlocksIn
    <3> QED
      BY <2>4, <3>1, <3>2, <3>3 DEF Holds
  <2> QED
    BY <2>1, <2>3, <2>4, OneHolder
<1>5. CASE RequestFailed(p)
  <2>1. OthersHold(p)
    BY <1>5 DEF RequestFailed, OthersHold, TypeOK, ThreadType, verification, webseed
  <2>2. /\ reserved_blocks'[p] = reserved_blocks[p] /\ expired'[p] = expired[p]
        /\ pc'[p] = "exit" /\ UNCHANGED <<requested_blocks, bad_peer_scores>>
    BY <1>5 DEF RequestFailed, Goto, TypeOK, ThreadType, blame
  <2>3. \A b : Holds(p, b) => Holds(p, b)' \/ FailsOver(p, b)
    BY <2>2 DEF Holds, FailsOver, Asked, BlocksIn
  <2> QED
    BY <2>1, <2>2, <2>3, OneHolder
<1> QED
  BY <1>2, <1>3, <1>4, <1>5 DEF RequestSteps

-----------------------------------------------------------------------------
(* A block handed to the context.                                          *)

\* What process_piece_block leaves reserved: it takes nothing from the context's
\* hold on other blocks, and block b itself is then held by the context, or was
\* refused with nobody blamed, or is one the staging cache takes for committed
\* although no buffer has it.
LEMMA ProcessHolds ==
    ASSUME TypeOK, LocalUnreserved, NEW src \in Sources, NEW b \in Blocks, NEW v, NEW r,
           ProcessPieceBlock(src, b, v, r), NEW c \in requested_blocks'
    PROVE  /\ c \in requested_blocks
           /\ ContextHolds(c) => ContextHolds(c)'
           /\ c = b => \/ ContextHolds(b)'
                       \/ r = "err" /\ UNCHANGED bad_peer_scores
                       \/ b \in committed /\ block_source[b] = None
<1> USE DEF ContextHolds
<1>0. c \in requested_blocks /\ c \in Blocks
  BY ProcessClears DEF Cleared, TypeOK, ContextType
<1>n. None \notin Sources
  BY ConstantsAssumption
<1>1. CASE RejectArguments(v, r)
  BY <1>0, <1>1 DEF RejectArguments, verification, blame
<1>2. CASE AbsorbBlock(b, r)
  <2>1. UNCHANGED <<requested_blocks, block_source, pieces_verifying>>
    BY <1>2 DEF AbsorbBlock, verification
  <2>2. c = b => b \in committed
    BY <1>0, <1>2 DEF AbsorbBlock, Absorbed, LocalUnreserved
  <2> QED
    BY <1>0, <2>1, <2>2
<1>3. CASE RefuseBlock(b, v, r)
  BY <1>0, <1>3 DEF RefuseBlock, verification, blame
<1>4. CASE StoreBlock(src, b, v, r)
  <2>1. block_source' = BufferWith(src, b) /\ UNCHANGED pieces_verifying
    BY <1>4 DEF StoreBlock, verification
  <2>2. block_source'[b] # None /\ (c # b => block_source'[c] = block_source[c])
    BY <1>0, <1>n, <2>1, SMTT(30) DEF BufferWith, TypeOK, ContextType
  <2> QED
    BY <1>0, <2>1, <2>2, ZenonT(30)
<1>5. CASE CompletePiece(src, b, v, r)
  <2> DEFINE i == PieceOf(b)
  <2>0. i \in Pieces /\ (c \in BlocksOf(i) <=> PieceOf(c) = i) /\ b \in BlocksOf(i)
    BY <1>0, BlockFacts
  <2>1. block_source'[c] = IF c \in BlocksOf(i) THEN None ELSE block_source[c]
    BY <1>0, <1>5, ZenonT(30) DEF CompletePiece
  <2>2. \E d, k, sources : SubmitJob(i, sources) \/ VerifyInPlace(src, d, k, i, sources, r)
    BY <1>5, ZenonT(30) DEF CompletePiece
  <2>3. ASSUME NEW sources, SubmitJob(i, sources)
        PROVE  pieces_verifying' = pieces_verifying \cup {i}
    BY <2>3 DEF SubmitJob
  <2>4. ASSUME NEW d, NEW k, NEW sources, VerifyInPlace(src, d, k, i, sources, r)
        PROVE  /\ c \notin BlocksOf(i)
               /\ pieces_verifying \ {i} \subseteq pieces_verifying'
    <3>1. requested_blocks' = requested_blocks \ BlocksOf(i)
      BY <2>4, VerdictClears, ZenonT(30) DEF VerifyInPlace, Cleared
    <3> QED
      BY <2>4, <3>1 DEF VerifyInPlace
  <2>5. \/ pieces_verifying' = pieces_verifying \cup {i}
        \/ c \notin BlocksOf(i) /\ pieces_verifying \ {i} \subseteq pieces_verifying'
    BY <2>2, <2>3, <2>4, SMTT(30)
  <2> QED
    BY <1>0, <2>0, <2>1, <2>5, ZenonT(30)
<1> QED
  BY <1>1, <1>2, <1>3, <1>4, <1>5, ZenonT(30) DEF ProcessPieceBlock, TakeBlock

\* A Piece message: its entry leaves the list of p before the block is judged.
LEMMA OrphanPiece ==
    ASSUME TypeOK, LocalUnreserved, NEW p \in Peers, NEW b \in Blocks, NEW v,
           HandlePiece(p, b, v)
    PROVE  OrphanStep
<1>1. PICK r \in {"ok", "err", "stuck"} :
         /\ ProcessPieceBlock(p, b, v, r)
         /\ Goto(p, CASE r = "ok" -> "drain" [] r = "err" -> "exit" [] r = "stuck" -> "stuck")
  BY DEF HandlePiece
<1>2. /\ \A q \in Peers \ {p} : reserved_blocks'[q] = reserved_blocks[q]
      /\ reserved_blocks'[p] = Without(reserved_blocks[p], b)
      /\ UNCHANGED <<sending, expired, ws_block>>
  BY DEF HandlePiece, TypeOK, ThreadType, webseed
<1>3. r = "err" => pc'[p] = "exit"
  BY <1>1 DEF Goto, TypeOK, ThreadType
<1>4. ~Asked(p, b)' /\ \A c : c # b /\ Asked(p, c) => Asked(p, c)'
  BY <1>2 DEF Asked, BlocksIn, Without
<1>5. p \in Sources
  BY DEF Sources
<1> SUFFICES ASSUME NEW c \in requested_blocks', ~Owned(c)', Owned(c)
             PROVE  \/ FailsOver(p, c)
                    \/ c \in committed /\ block_source[c] = None
  BY <1>1, <1>5, ProcessHolds DEF OrphanStep
<1>6. /\ ContextHolds(c) => ContextHolds(c)'
      /\ c = b => \/ ContextHolds(b)'
                  \/ r = "err" /\ UNCHANGED bad_peer_scores
                  \/ b \in committed /\ block_source[b] = None
  BY <1>1, <1>5, ProcessHolds
<1>7. ~ContextHolds(c)' /\ ~ContextHolds(c) /\ ws_block # c
  BY <1>2, <1>6, ZenonT(30) DEF Owned, ContextHolds
<1>8. \A q \in Peers : sending[q] # c /\ c \notin BlocksIn(expired[q])
  BY <1>2, ZenonT(30) DEF Owned, BlocksIn
<1>9. \A q \in Peers \ {p} : ~Asked(q, c)
  BY <1>2, ZenonT(30) DEF Owned, Asked, BlocksIn
<1>10. Asked(p, c)
  BY <1>7, <1>8, <1>9 DEF Owned, ContextHolds
<1>11. c = b
  BY <1>4, <1>10 DEF Owned
<1> QED
  BY <1>3, <1>4, <1>6, <1>7, <1>10, <1>11 DEF FailsOver
=============================================================================
