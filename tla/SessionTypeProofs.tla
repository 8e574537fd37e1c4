------------------------- MODULE SessionTypeProofs --------------------------
(* Every action of a session, of the verification pool and of the WebSeed  *)
(* thread keeps the types, for every instance of the pipeline.             *)
EXTENDS ContextTypeProofs

\* Session and WebSeed steps that leave the context alone keep the types.
LEMMA TypeSession ==
    ASSUME TypeOK, NEW p \in Peers,
           \/ Connect(p) \/ SessionFails(p) \/ SessionExits(p) \/ ReadNothing(p)
           \/ ExpireRequests(p) \/ ReleaseExpired(p)
    PROVE  TypeOK'
<1> USE DEF TypeOK, ContextType, ThreadType, Phases, Goto, accounting, staging, verification,
            store, blame, session, webseed
<1>1. CASE Connect(p)
  BY <1>1 DEF Connect
<1>2. CASE SessionFails(p)
  BY <1>2 DEF SessionFails
<1>3. CASE SessionExits(p)
  BY <1>3 DEF SessionExits
<1>4. CASE ReadNothing(p)
  BY <1>4 DEF ReadNothing
<1>5. CASE ExpireRequests(p)
  <2>1. Budget(outstanding[p]) \in Nat
    BY LimitFacts DEF Budget
  <2>2. PICK S \in SUBSET reserved_blocks[p] :
           /\ reserved_blocks' = [reserved_blocks EXCEPT ![p] = @ \ S]
           /\ expired' = [expired EXCEPT ![p] = S]
    BY <1>5, ZenonT(30) DEF ExpireRequests
  <2>3. reserved_blocks' \in [Peers -> SUBSET Entry] /\ expired' \in [Peers -> SUBSET Entry]
    BY <2>2
  <2>4. to_send' \in [Peers -> Nat]
    BY <1>5, <2>1 DEF ExpireRequests
  <2>5. pc' \in [Peers -> Phases]
    <3>1. pc \in [Peers -> Phases]
      OBVIOUS
    <3> HIDE DEF TypeOK
    <3> QED
      BY <1>5, <3>1 DEF ExpireRequests
  <2> QED
    BY <1>5, <2>3, <2>4, <2>5 DEF ExpireRequests
<1>6. CASE ReleaseExpired(p)
  <2>1. Cardinality(expired[p]) \in Nat
    BY EntryFinite
  <2>2. outstanding' \in [Peers -> Nat] /\ to_send' \in [Peers -> Nat]
    <3>1. outstanding \in [Peers -> Nat] /\ to_send \in [Peers -> Nat]
      OBVIOUS
    <3> HIDE DEF TypeOK
    <3> QED
      BY <1>6, <2>1, <3>1, LimitFacts DEF ReleaseExpired, Budget
  <2> QED
    BY <1>6, <2>2 DEF ReleaseExpired
<1> HIDE DEF TypeOK
<1> QED
  BY <1>1, <1>2, <1>3, <1>4, <1>5, <1>6

\* Choosing a block and writing the Request keep the types.
LEMMA TypeRequest ==
    ASSUME TypeOK, SessionConsistent, NEW p \in Peers, RequestSteps(p)
    PROVE  TypeOK'
<1> USE DEF TypeOK, ContextType, ThreadType, Phases, Goto, accounting, staging, verification,
            store, blame, session, webseed
<1>1. CASE RequestStandard(p)
  <2>1. PICK b \in Blocks : Reserve(p, b)
    <3> HIDE DEF TypeOK
    <3> QED
      BY <1>1, ChoicesAreBlocks DEF RequestStandard
  <2> QED
    BY <1>1, <2>1 DEF RequestStandard, Reserve
<1>2. CASE RequestEndgame(p)
  <2>0. PICK overdue \in SUBSET Stallable :
           /\ preempted' = preempted \cup overdue
           /\ \E b \in EndgameSelection(p, overdue) :
                /\ Reserve(p, b)
                /\ staged' = IF AdaptiveEndgame THEN StageRequest(b, p) ELSE staged
    BY <1>2, ZenonT(30) DEF RequestEndgame
  <2>1. PICK b \in EndgameSelection(p, overdue) :
           /\ Reserve(p, b)
           /\ staged' = IF AdaptiveEndgame THEN StageRequest(b, p) ELSE staged
    BY <2>0
  <2>2. overdue \subseteq Blocks
    BY DEF Stallable
  <2>3. b \in Blocks
    BY <2>2, ChoicesAreBlocks, ZenonT(30)
  <2>4. staged' \in [Blocks -> Seq(Peers)]
    <3>1. Append(staged[b], p) \in Seq(Peers)
      BY <2>3
    <3> QED
      BY <2>1, <2>3, <3>1 DEF StageRequest
  <2> QED
    BY <2>0, <2>1, <2>2, <2>3, <2>4 DEF Reserve
<1>3. CASE RequestFast(p)
  <2>1. PICK b \in Blocks : Reserve(p, b)
    <3> HIDE DEF TypeOK
    <3> QED
      BY <1>3, ChoicesAreBlocks DEF RequestFast
  <2> QED
    BY <1>3, <2>1 DEF RequestFast, Reserve
<1>4. CASE RequestNothing(p)
  <2>1. preempted' \subseteq Blocks
    BY <1>4 DEF RequestNothing, Stallable
  <2> QED
    BY <1>4, <2>1 DEF RequestNothing
<1>5. CASE RequestSent(p)
  <2>1. PICK n \in 1 .. MaxEntries :
           reserved_blocks' = [reserved_blocks EXCEPT ![p] = @ \cup {<<sending[p], n>>}]
    BY <1>5, ZenonT(30) DEF RequestSent
  <2>2. sending[p] \in Blocks /\ to_send[p] > 0
    BY <1>5 DEF RequestSent, SessionConsistent, PhaseFits
  <2>3. <<sending[p], n>> \in Entry
    BY <2>2 DEF Entry
  <2>4. reserved_blocks' \in [Peers -> SUBSET Entry]
    BY <2>1, <2>3, ZenonT(30)
  <2>5. outstanding' \in [Peers -> Nat] /\ to_send' \in [Peers -> Nat]
    BY <1>5, <2>2 DEF RequestSent
  <2> QED
    BY <1>5, <2>4, <2>5, ZenonT(30) DEF RequestSent
<1>6. CASE RequestFailed(p)
  BY <1>6 DEF RequestFailed
<1> HIDE DEF TypeOK
<1> QED
  BY <1>1, <1>2, <1>3, <1>4, <1>5, <1>6 DEF RequestSteps

\* Handling a message, applying results, hashing and the WebSeed thread keep
\* the types.
LEMMA TypeMessage ==
    ASSUME TypeOK, NEW p \in Peers, MessageSteps(p)
    PROVE  TypeOK'
<1>1. ASSUME NEW b \in Blocks, NEW v \in Payloads(p), HandlePiece(p, b, v) PROVE TypeOK'
  <2>1. PICK r \in {"ok", "err", "stuck"} :
           /\ ProcessPieceBlock(p, b, v, r)
           /\ Goto(p, CASE r = "ok" -> "drain" [] r = "err" -> "exit" [] r = "stuck" -> "stuck")
    BY <1>1 DEF HandlePiece
  <2>2. p \in Sources
    BY DEF Sources
  <2>3. ContextType'
    BY <2>1, <2>2, ProcessPieceBlockType
  <2>4. pc' \in [Peers -> Phases]
    BY <2>1 DEF Goto, TypeOK, ThreadType, Phases
  <2>5. outstanding' \in [Peers -> Nat]
    BY <1>1 DEF HandlePiece, Dec, TypeOK, ThreadType
  <2>6. reserved_blocks' \in [Peers -> SUBSET Entry]
    BY <1>1 DEF HandlePiece, Without, TypeOK, ThreadType
  <2>7. ThreadType'
    BY <1>1, <2>4, <2>5, <2>6 DEF HandlePiece, TypeOK, ThreadType, webseed
  <2> QED
    BY <2>3, <2>7 DEF TypeOK
<1>2. ASSUME NEW b \in Blocks, HandleReject(p, b) PROVE TypeOK'
  <2>1. outstanding' \in [Peers -> Nat]
    BY <1>2 DEF HandleReject, Dec, TypeOK, ThreadType
  <2>2. reserved_blocks' \in [Peers -> SUBSET Entry]
    BY <1>2 DEF HandleReject, Without, TypeOK, ThreadType
  <2> QED
    BY <1>2, <2>1, <2>2 DEF HandleReject, Goto, Phases, TypeOK, ContextType, ThreadType,
       accounting, staging, verification, store, blame, webseed
<1>3. ASSUME NEW choke \in BOOLEAN, HandleChoking(p, choke) PROVE TypeOK'
  BY <1>3 DEF HandleChoking, Goto, Phases, TypeOK, ContextType, ThreadType,
     accounting, staging, verification, store, blame, webseed
<1> QED
  BY <1>1, <1>2, <1>3 DEF MessageSteps

\* Applying verification results keeps the types.
LEMMA TypeDrain ==
    ASSUME TypeOK, NEW p \in Peers, (\E s \in Slots : DrainResult(p, s)) \/ DrainDone(p)
    PROVE  TypeOK'
<1>1. ASSUME NEW s \in Slots, DrainResult(p, s) PROVE TypeOK'
  <2>1. jobs[s] \in Job /\ jobs[s].piece \in Pieces
    BY <1>1 DEF DrainResult, Finished, TypeOK, ContextType, Job
  <2>2. dirty \in [Blocks -> Content] /\ disk \in [Blocks -> Content]
    BY DEF TypeOK, ContextType
  <2>3. VerdictType'
    BY <1>1, <2>1, <2>2, PieceValidType, PieceCorruptType DEF DrainResult, TypeOK
  <2>4. BufferType'
    BY <1>1 DEF DrainResult, TypeOK, ContextType, BufferType, staging
  <2>5. ContextType'
    BY <2>3, <2>4 DEF VerdictType, BufferType, ContextType
  <2>6. ThreadType'
    BY <1>1 DEF DrainResult, Goto, Phases, TypeOK, ThreadType, session, webseed
  <2> QED
    BY <2>5, <2>6 DEF TypeOK
<1>2. CASE DrainDone(p)
  BY <1>2 DEF DrainDone, Goto, Phases, TypeOK, ContextType, ThreadType, accounting, staging,
     verification, store, blame, session, webseed
<1> QED
  BY <1>1, <1>2

\* Hashing a queued piece keeps the types.
LEMMA TypeHash ==
    ASSUME TypeOK, NEW s \in Slots, WorkerHash(s)
    PROVE  TypeOK'
<1>1. jobs[s] \in Job
  BY DEF WorkerHash, Queued, TypeOK, ContextType
<1>2. PICK verdict \in {"valid", "corrupt"} : jobs' = [jobs EXCEPT ![s].verdict = verdict]
  BY ZenonT(30) DEF WorkerHash, Verdicts
<1>3. [jobs[s] EXCEPT !.verdict = verdict] \in Job
  BY <1>1 DEF Job
<1>4. jobs' \in [Slots -> Job \cup {None}]
  BY <1>2, <1>3 DEF TypeOK, ContextType
<1> QED
  BY <1>4 DEF WorkerHash, TypeOK, ContextType, ThreadType, accounting, staging, store, blame,
     session, webseed

\* The WebSeed thread keeps the types.
LEMMA TypeWebSeed ==
    ASSUME TypeOK, WebSeedSteps
    PROVE  TypeOK'
<1>1. CASE WebSeedReserve
  <2>1. PICK i \in Pieces \ bitfield : \E b \in Lowest(Pending(i)) :
           ws_block' = b /\ requested_blocks' = requested_blocks \cup {b}
    BY <1>1 DEF WebSeedReserve
  <2>2. Lowest(Pending(i)) \subseteq Blocks
    BY BlockFacts DEF Lowest, Pending
  <2> QED
    BY <1>1, <2>1, <2>2 DEF WebSeedReserve, TypeOK, ContextType, ThreadType, accounting,
       staging, verification, store, blame, session
<1>2. CASE WebSeedRelease
  BY <1>2 DEF WebSeedRelease, TypeOK, ContextType, ThreadType, accounting, staging,
     verification, store, blame, session
<1>3. ASSUME NEW m \in Mirrors, WebSeedMirrorFails(m) PROVE TypeOK'
  BY <1>3 DEF WebSeedMirrorFails, TypeOK, ContextType, ThreadType, accounting, staging,
     verification, store, blame, session
<1>4. ASSUME NEW m \in Mirrors, NEW v \in Payloads(m), WebSeedBlock(m, v) PROVE TypeOK'
  <2>1. m \in Sources /\ ws_block \in Blocks
    BY <1>4 DEF WebSeedBlock, Sources, TypeOK, ThreadType
  <2>2. ContextType'
    BY <1>4, <2>1, ProcessPieceBlockType DEF WebSeedBlock
  <2>3. ThreadType'
    BY <1>4, <2>1 DEF WebSeedBlock, TypeOK, ThreadType, session
  <2> QED
    BY <2>2, <2>3 DEF TypeOK
<1> QED
  BY <1>1, <1>2, <1>3, <1>4 DEF WebSeedSteps
=============================================================================
