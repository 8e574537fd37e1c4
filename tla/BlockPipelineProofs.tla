------------------------ MODULE BlockPipelineProofs -------------------------
(* Type correctness and the session invariant of the download pipeline,    *)
(* for every number of peers, mirrors, pieces and blocks, and for every    *)
(* setting of the limits.                                                  *)
EXTENDS SessionTypeProofs

-----------------------------------------------------------------------------
(* The session invariant: each step concerns one session.                  *)

OthersSame(p) ==
    \A q \in Peers \ {p} :
        /\ pc'[q] = pc[q] /\ sending'[q] = sending[q] /\ to_send'[q] = to_send[q]
        /\ expired'[q] = expired[q] /\ reserved_blocks'[q] = reserved_blocks[q]
        /\ outstanding'[q] = outstanding[q]

\* It is enough to look at the session that moves.
LEMMA OneSession ==
    ASSUME SessionConsistent, NEW p \in Peers, OthersSame(p), PhaseFits(p)'
    PROVE  SessionConsistent'
<1>1. ASSUME NEW q \in Peers, q # p PROVE PhaseFits(q)'
  BY <1>1 DEF SessionConsistent, OthersSame, PhaseFits
<1> QED
  BY <1>1 DEF SessionConsistent

\* Budget never grants more than the counter leaves.
LEMMA BudgetBound ==
    ASSUME NEW n \in Nat
    PROVE  Budget(n) \in Nat /\ (n <= MaxOutstanding => n + Budget(n) <= MaxOutstanding)
  BY LimitFacts DEF Budget

\* Connecting, failing, leaving and the timeout check.
LEMMA ConsistentSession ==
    ASSUME TypeOK, SessionConsistent, NEW p \in Peers,
           \/ Connect(p) \/ SessionFails(p) \/ SessionExits(p) \/ ReadNothing(p)
           \/ ExpireRequests(p) \/ ReleaseExpired(p)
    PROVE  SessionConsistent'
<1> USE DEF TypeOK, ThreadType, Goto, session
<1>0. PhaseFits(p)
  BY DEF SessionConsistent
<1>1. CASE Connect(p)
  BY <1>0, <1>1, OneSession, LimitFacts DEF Connect, OthersSame, PhaseFits
<1>2. CASE SessionFails(p)
  BY <1>0, <1>2, OneSession DEF SessionFails, OthersSame, PhaseFits
<1>3. CASE SessionExits(p)
  BY <1>0, <1>3, OneSession DEF SessionExits, OthersSame, PhaseFits
<1>4. CASE ReadNothing(p)
  BY <1>0, <1>4, OneSession DEF ReadNothing, OthersSame, PhaseFits
<1>5. CASE ExpireRequests(p)
  <2>1. OthersSame(p)
    BY <1>5 DEF ExpireRequests, OthersSame
  <2>2. outstanding[p] \in Nat
    OBVIOUS
  <2>3. PhaseFits(p)'
    BY <1>0, <1>5, <2>2, BudgetBound DEF ExpireRequests, PhaseFits
  <2> QED
    BY <2>1, <2>3, OneSession
<1>6. CASE ReleaseExpired(p)
  <2>1. OthersSame(p)
    BY <1>6 DEF ReleaseExpired, OthersSame
  <2>2. Cardinality(expired[p]) \in Nat
    BY EntryFinite
  <2>3. /\ outstanding'[p] \in Nat /\ outstanding'[p] <= MaxOutstanding
        /\ to_send'[p] = Budget(outstanding'[p])
    BY <1>0, <1>6, <2>2, LimitFacts DEF ReleaseExpired, PhaseFits
  <2>4. outstanding'[p] + to_send'[p] <= MaxOutstanding
    BY <2>3, BudgetBound
  <2>5. PhaseFits(p)'
    BY <1>0, <1>6, <2>3, <2>4 DEF ReleaseExpired, PhaseFits
  <2> QED
    BY <2>1, <2>5, OneSession
<1> QED
  BY <1>1, <1>2, <1>3, <1>4, <1>5, <1>6

\* Requesting.
LEMMA ConsistentRequest ==
    ASSUME TypeOK, SessionConsistent, NEW p \in Peers, RequestSteps(p)
    PROVE  SessionConsistent'
<1> USE DEF TypeOK, ThreadType, Goto, session
<1>0. PhaseFits(p)
  BY DEF SessionConsistent
<1>1. ASSUME NEW b \in Blocks, MayRequest(p), Reserve(p, b) PROVE SessionConsistent'
  <2>1. OthersSame(p)
    BY <1>1 DEF Reserve, OthersSame
  <2>2. PhaseFits(p)'
    BY <1>0, <1>1 DEF MayRequest, Reserve, PhaseFits
  <2> QED
    BY <2>1, <2>2, OneSession
<1>2. CASE RequestStandard(p) \/ RequestFast(p)
  BY <1>1, <1>2, ChoicesAreBlocks DEF RequestStandard, RequestFast
<1>3. CASE RequestEndgame(p)
  <2>1. PICK overdue \in SUBSET Stallable : \E b \in EndgameSelection(p, overdue) : Reserve(p, b)
    BY <1>3 DEF RequestEndgame
  <2>2. overdue \in SUBSET Blocks
    BY DEF Stallable
  <2>3. \E b \in Blocks : Reserve(p, b)
    BY <2>1, <2>2, ChoicesAreBlocks
  <2> QED
    BY <1>1, <1>3, <2>3 DEF RequestEndgame
<1>4. CASE RequestNothing(p)
  BY <1>0, <1>4, OneSession DEF RequestNothing, OthersSame, PhaseFits
<1>5. CASE RequestSent(p)
  <2>1. OthersSame(p)
    BY <1>5 DEF RequestSent, OthersSame
  <2>2. PhaseFits(p)'
    BY <1>0, <1>5, LimitFacts DEF RequestSent, PhaseFits
  <2> QED
    BY <2>1, <2>2, OneSession
<1>6. CASE RequestFailed(p)
  BY <1>0, <1>6, OneSession DEF RequestFailed, OthersSame, PhaseFits
<1> QED
  BY <1>2, <1>3, <1>4, <1>5, <1>6 DEF RequestSteps

\* Messages and results.
LEMMA ConsistentMessage ==
    ASSUME TypeOK, SessionConsistent, NEW p \in Peers,
           MessageSteps(p) \/ (\E s \in Slots : DrainResult(p, s)) \/ DrainDone(p)
    PROVE  SessionConsistent'
<1> USE DEF TypeOK, ThreadType, Goto, session
<1>0. PhaseFits(p)
  BY DEF SessionConsistent
<1>1. ASSUME NEW b \in Blocks, NEW v, HandlePiece(p, b, v) PROVE SessionConsistent'
  <2>1. PICK phase \in {"drain", "exit", "stuck"} : Goto(p, phase)
    BY <1>1, ZenonT(30) DEF HandlePiece
  <2>2. OthersSame(p)
    BY <1>1, <2>1 DEF HandlePiece, OthersSame
  <2>3. outstanding'[p] <= MaxOutstanding
    BY <1>0, <1>1, LimitFacts DEF HandlePiece, Dec, PhaseFits
  <2>4. PhaseFits(p)'
    BY <1>0, <1>1, <2>1, <2>3 DEF HandlePiece, PhaseFits
  <2> QED
    BY <2>2, <2>4, OneSession
<1>2. ASSUME NEW b \in Blocks, HandleReject(p, b) PROVE SessionConsistent'
  <2>1. OthersSame(p)
    BY <1>2 DEF HandleReject, OthersSame
  <2>2. outstanding'[p] <= MaxOutstanding
    BY <1>0, <1>2, LimitFacts DEF HandleReject, Dec, PhaseFits
  <2>3. PhaseFits(p)'
    BY <1>0, <1>2, <2>2 DEF HandleReject, PhaseFits
  <2> QED
    BY <2>1, <2>3, OneSession
<1>3. ASSUME NEW choke \in BOOLEAN, HandleChoking(p, choke) PROVE SessionConsistent'
  BY <1>0, <1>3, OneSession DEF HandleChoking, OthersSame, PhaseFits
<1>4. ASSUME NEW s \in Slots, DrainResult(p, s) PROVE SessionConsistent'
  BY <1>0, <1>4, OneSession DEF DrainResult, OthersSame, PhaseFits
<1>5. CASE DrainDone(p)
  BY <1>0, <1>5, OneSession DEF DrainDone, OthersSame, PhaseFits
<1> QED
  BY <1>1, <1>2, <1>3, <1>4, <1>5 DEF MessageSteps

-----------------------------------------------------------------------------
(* The two invariants together are inductive.                              *)

Shape == TypeOK /\ SessionConsistent

\* Shape holds initially.
LEMMA ShapeInit == Init => Shape
<1> SUFFICES ASSUME Init PROVE Shape
  OBVIOUS
<1>1. IsFiniteSet(InitialLocal)
  BY LimitFacts, FS_Subset
<1>2. Cardinality(InitialLocal) \in Nat
  BY <1>1, FS_CardinalityType
<1>3. ContextType
  BY <1>2, LimitFacts DEF Init, ContextType, Content
<1>4. ThreadType
  BY DEF Init, ThreadType, Phases
<1>5. SessionConsistent
  BY LimitFacts DEF Init, SessionConsistent, PhaseFits
<1> QED
  BY <1>3, <1>4, <1>5 DEF Shape, TypeOK

\* Every step keeps it.
LEMMA ShapeStep == Shape /\ [Next]_vars => Shape'
<1> SUFFICES ASSUME TypeOK, SessionConsistent, [Next]_vars PROVE TypeOK' /\ SessionConsistent'
  BY DEF Shape
<1>1. ASSUME NEW p \in Peers, Connect(p) \/ SessionFails(p) \/ SessionSteps(p) \/ MessageSteps(p)
      PROVE  TypeOK' /\ SessionConsistent'
  BY <1>1, TypeSession, TypeRequest, TypeMessage, TypeDrain, ConsistentSession,
     ConsistentRequest, ConsistentMessage DEF SessionSteps
<1>2. ASSUME NEW s \in Slots, WorkerHash(s) PROVE TypeOK' /\ SessionConsistent'
  BY <1>2, TypeHash, ZenonT(30) DEF WorkerHash, SessionConsistent, PhaseFits, session
<1>3. CASE WebSeedSteps
  <2>1. UNCHANGED <<pc, session>>
    BY <1>3 DEF WebSeedSteps, WebSeedReserve, WebSeedRelease, WebSeedMirrorFails, WebSeedBlock
  <2> QED
    BY <1>3, <2>1, TypeWebSeed DEF SessionConsistent, PhaseFits, session
<1>4. CASE UNCHANGED vars
  <2>1. TypeOK'
    BY <1>4 DEF vars, TypeOK, ContextType, ThreadType, accounting, staging, verification,
       store, blame, session, webseed
  <2> QED
    BY <1>4, <2>1 DEF vars, SessionConsistent, PhaseFits, session
<1> QED
  BY <1>1, <1>2, <1>3, <1>4 DEF Next

\* Every reachable state of the pipeline is well formed.
THEOREM TypeCorrect == Spec => []TypeOK
<1>1. Shape => TypeOK
  BY DEF Shape
<1> QED
  BY <1>1, ShapeInit, ShapeStep, PTL DEF Spec

\* Every session's request list, counter and phase agree, and the pipeline
\* limit holds.
THEOREM SessionsConsistent == Spec => []SessionConsistent
<1>1. Shape => SessionConsistent
  BY DEF Shape
<1> QED
  BY <1>1, ShapeInit, ShapeStep, PTL DEF Spec
=============================================================================
