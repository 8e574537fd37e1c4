----------------------- MODULE TorrentLifecycleProofs -----------------------
(* The safety properties of TorrentLifecycle, for every number of workers, *)
(* reannounce loops and pieces.                                            *)
EXTENDS TorrentLifecycle, TLAPS

\* Every behaviour of the session keeps the shape of its state.
THEOREM LifecycleTypeCorrect == Spec => []TypeOK
<1>1. Init => TypeOK
  BY LifecycleAssumption, ZenonT(30) DEF Init, TypeOK, Statuses, WorkerPhases
<1>2. TypeOK /\ [Next]_vars => TypeOK'
  <2> SUFFICES ASSUME TypeOK, [Next]_vars PROVE TypeOK'
    OBVIOUS
  <2> USE LifecycleAssumption DEF TypeOK, Statuses, WorkerPhases, state, threads, spawners, call
  <2>1. CASE StartDownload
    BY <2>1, ZenonT(30) DEF StartDownload, SpawnThreads
  <2>2. CASE StartSeeding
    BY <2>2, ZenonT(30) DEF StartSeeding, SpawnThreads
  <2>3. CASE Pause
    BY <2>3 DEF Pause
  <2>4. CASE Resume
    BY <2>4, ZenonT(30) DEF Resume
  <2>5. CASE Stop
    BY <2>5 DEF Stop
  <2>6. CASE StopEnds
    BY <2>6 DEF StopEnds
  <2>7. CASE JoinTakes
    BY <2>7 DEF JoinTakes
  <2>8. CASE JoinReturn \/ StatsReads \/ StatsReturns
    BY <2>8, ZenonT(30) DEF JoinReturn, StatsReads, StatsReturns
  <2>9. ASSUME NEW w \in Workers, ConnectPeer(w) \/ DispatchPeer(w)
        PROVE TypeOK'
    BY <2>9, ZenonT(30) DEF ConnectPeer, DispatchPeer, Spawn
  <2>10. ASSUME NEW w \in Workers, Handshake(w) PROVE TypeOK'
    BY <2>10 DEF Handshake, GoTo
  <2>11. ASSUME NEW w \in Workers, LoopTop(w) PROVE TypeOK'
    BY <2>11 DEF LoopTop, GoTo
  <2>12. ASSUME NEW w \in Workers, HandleMessage(w) PROVE TypeOK'
    <3>1. worker' \in [Workers -> WorkerPhases]
      BY <2>12 DEF HandleMessage, GoTo
    <3>2. missing' \in 0 .. MaxPieces
      BY <2>12 DEF HandleMessage
    <3>3. status' \in Statuses /\ paused' \in BOOLEAN
      BY <2>12 DEF HandleMessage
    <3>4. download_finished' \in BOOLEAN
      BY <2>12, ZenonT(30) DEF HandleMessage
    <3> QED
      BY <2>12, <3>1, <3>2, <3>3, <3>4 DEF HandleMessage
  <2>13. ASSUME NEW w \in Workers, WorkerExit(w) PROVE TypeOK'
    BY <2>13 DEF WorkerExit, GoTo, EntriesAt
  <2>14. ASSUME NEW a \in Announcers, AnnouncerSteps(a) PROVE TypeOK'
    BY <2>14 DEF AnnouncerSteps, AnnounceWait, AnnounceDone, AnnounceSpawn, Spawn
  <2>15. CASE UNCHANGED vars
    BY <2>15 DEF vars
  <2> QED
    BY <2>1, <2>2, <2>3, <2>4, <2>5, <2>6, <2>7, <2>8, <2>9, <2>10, <2>11, <2>12, <2>13,
       <2>14, <2>15 DEF Next, CallSteps, WorkerSteps
<1> QED
  BY <1>1, <1>2, PTL DEF Spec

\* A session with nothing missing is never left in Downloading: start and
\* resume look at what is complete, and so does the piece that completes it.
THEOREM NoMissedCompletion == Spec => []CompletionNotMissed
<1>1. Init => CompletionNotMissed
  BY DEF Init, CompletionNotMissed
<1>2. TypeOK /\ CompletionNotMissed /\ [Next]_vars => CompletionNotMissed'
  <2> SUFFICES ASSUME TypeOK, CompletionNotMissed, [Next]_vars PROVE CompletionNotMissed'
    OBVIOUS
  <2> USE DEF CompletionNotMissed, state
  <2>1. CASE StartDownload
    BY <2>1 DEF StartDownload
  <2>2. CASE StartSeeding \/ Pause \/ Resume \/ Stop \/ StopEnds
    BY <2>2 DEF StartSeeding, Pause, Resume, Stop, StopEnds
  <2>3. CASE JoinTakes \/ JoinReturn \/ StatsReads \/ StatsReturns
    BY <2>3 DEF JoinTakes, JoinReturn, StatsReads, StatsReturns
  <2>4. ASSUME NEW w \in Workers, ConnectPeer(w) \/ DispatchPeer(w) PROVE CompletionNotMissed'
    BY <2>4 DEF ConnectPeer, DispatchPeer
  <2>5. ASSUME NEW w \in Workers, WorkerSteps(w) PROVE CompletionNotMissed'
    BY <2>5 DEF WorkerSteps, Handshake, LoopTop, HandleMessage, WorkerExit
  <2>6. ASSUME NEW a \in Announcers, AnnouncerSteps(a) PROVE CompletionNotMissed'
    BY <2>6 DEF AnnouncerSteps, AnnounceWait, AnnounceDone, AnnounceSpawn
  <2>7. CASE UNCHANGED vars
    BY <2>7 DEF vars
  <2> QED
    BY <2>1, <2>2, <2>3, <2>4, <2>5, <2>6, <2>7 DEF Next, CallSteps
<1> QED
  BY <1>1, <1>2, LifecycleTypeCorrect, PTL DEF Spec

-----------------------------------------------------------------------------
\* A worker registers its peer only once it is past the handshake, and nothing
\* sends it back.
RegisteredHasRun == \A w \in peer_swarm : worker[w] \in {"top", "busy", "exit", "done"}

\* Every step keeps it.
LEMMA RegisteredStep ==
    ASSUME TypeOK, RegisteredHasRun, [Next]_vars
    PROVE  RegisteredHasRun'
<1> USE DEF TypeOK, RegisteredHasRun, threads
<1>1. CASE CallSteps \/ StopEnds
  BY <1>1 DEF CallSteps, StartDownload, StartSeeding, Pause, Resume, Stop, StatsReads, StopEnds
<1>2. CASE JoinTakes \/ JoinReturn \/ StatsReturns
  BY <1>2 DEF JoinTakes, JoinReturn, StatsReturns
<1>3. ASSUME NEW w \in Workers, Spawn(w) PROVE RegisteredHasRun'
  BY <1>3 DEF Spawn
<1>4. ASSUME NEW w \in Workers, ConnectPeer(w) \/ DispatchPeer(w) PROVE RegisteredHasRun'
  BY <1>3, <1>4 DEF ConnectPeer, DispatchPeer
<1>5. ASSUME NEW w \in Workers, Handshake(w) \/ LoopTop(w) PROVE RegisteredHasRun'
  BY <1>5 DEF Handshake, LoopTop, GoTo
<1>6. ASSUME NEW w \in Workers, HandleMessage(w) \/ WorkerExit(w) PROVE RegisteredHasRun'
  BY <1>6 DEF HandleMessage, WorkerExit, EntriesAt, GoTo
<1>7. ASSUME NEW a \in Announcers, AnnouncerSteps(a) PROVE RegisteredHasRun'
  BY <1>3, <1>7 DEF AnnouncerSteps, AnnounceWait, AnnounceDone, AnnounceSpawn
<1>8. CASE UNCHANGED vars
  BY <1>8 DEF vars
<1> QED
  BY <1>1, <1>2, <1>4, <1>5, <1>6, <1>7, <1>8 DEF Next, WorkerSteps

\* No entry outlives its worker by this step, unless stats() holds the lock.
EntryStep ==
    \A w \in peer_swarm' :
        worker'[w] = "done" => \/ w \in peer_swarm /\ worker[w] = "done"
                              \/ api = "stats"

\* A worker finishes in Handshake, with nothing registered, or in WorkerExit,
\* which takes out what is registered at its address; every other step
\* finishes no worker and registers no finished one.
LEMMA EntryStepHolds ==
    ASSUME TypeOK, RegisteredHasRun, [Next]_vars
    PROVE  EntryStep
<1> USE DEF TypeOK, EntryStep, threads
<1>1. CASE CallSteps \/ StopEnds
  BY <1>1 DEF CallSteps, StartDownload, StartSeeding, Pause, Resume, Stop, StatsReads, StopEnds
<1>2. CASE JoinTakes \/ JoinReturn \/ StatsReturns
  BY <1>2 DEF JoinTakes, JoinReturn, StatsReturns
<1>3. ASSUME NEW w \in Workers, Spawn(w) PROVE EntryStep
  BY <1>3 DEF Spawn
<1>4. ASSUME NEW w \in Workers, ConnectPeer(w) \/ DispatchPeer(w) PROVE EntryStep
  BY <1>3, <1>4 DEF ConnectPeer, DispatchPeer
<1>5. ASSUME NEW w \in Workers, Handshake(w) PROVE EntryStep
  BY <1>5 DEF Handshake, GoTo, RegisteredHasRun
<1>6. ASSUME NEW w \in Workers, LoopTop(w) \/ HandleMessage(w) PROVE EntryStep
  BY <1>6 DEF LoopTop, HandleMessage, GoTo
<1>7. ASSUME NEW w \in Workers, WorkerExit(w) PROVE EntryStep
  BY <1>7 DEF WorkerExit, EntriesAt, GoTo
<1>8. ASSUME NEW a \in Announcers, AnnouncerSteps(a) PROVE EntryStep
  BY <1>3, <1>8 DEF AnnouncerSteps, AnnounceWait, AnnounceDone, AnnounceSpawn
<1>9. CASE UNCHANGED vars
  BY <1>9 DEF vars
<1> QED
  BY <1>1, <1>2, <1>4, <1>5, <1>6, <1>7, <1>8, <1>9 DEF Next, WorkerSteps

\* The swarm keeps the entry of a finished worker only where remove_peer found
\* the lock taken by stats(): for any number of workers, any addresses they
\* share, and whenever stop clears the swarm.
THEOREM EntriesOutliveOnlyInStats == Spec => EntryOutlivesOnlyInStats
<1>1. Init => RegisteredHasRun
  BY ZenonT(30) DEF Init, RegisteredHasRun
<1>2. TypeOK /\ RegisteredHasRun /\ [Next]_vars => RegisteredHasRun'
  BY RegisteredStep
<1>3. TypeOK /\ RegisteredHasRun /\ [Next]_vars => [EntryStep]_vars
  BY EntryStepHolds
<1>4. Spec => [][EntryStep]_vars
  BY <1>1, <1>2, <1>3, LifecycleTypeCorrect, PTL DEF Spec
<1> QED
  BY <1>4 DEF EntryOutlivesOnlyInStats, EntryStep
=============================================================================
