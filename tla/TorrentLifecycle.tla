-------------------------- MODULE TorrentLifecycle --------------------------
(***************************************************************************)
(* The life of a TorrentSession: the calls of the application (start,      *)
(* pause, resume, stop, join, stats), the peer worker threads they govern, *)
(* and the two threads that spawn further workers, the candidate           *)
(* dispatcher of start_download and the reannounce loop.  The calls that   *)
(* change the session take &mut self, so no two calls overlap; the threads *)
(* run between any two of their steps.  What a worker downloads is reduced *)
(* to the number of wanted pieces that are still missing.                  *)
(***************************************************************************)
EXTENDS Naturals

CONSTANTS
    Workers,     \* bound: peer worker threads spawned in a behaviour
    Address,     \* Address[w]: the IP address worker w connects to
    Announcers,  \* bound: reannounce loops started in a behaviour
    MaxPieces    \* bound: wanted pieces missing at the start

ASSUME LifecycleAssumption == MaxPieces \in Nat

VARIABLES
    status,             \* status and atomic_status, always written together
    paused,             \* the paused event
    download_finished,  \* the download_finished event, never reset
    missing,            \* wanted pieces that are not local
    worker,             \* phase of each worker thread
    peer_workers,       \* the join handles the session keeps
    peer_swarm,         \* the swarm's entries, by the worker that registered them
    dispatching,        \* a dispatcher of peer candidates runs
    announcer,          \* phase of each reannounce loop
    api,                \* where the call in progress stands
    joining,            \* handles join_peer_workers took
    halted              \* join_peer_workers returned, nothing was started since

state == <<status, paused, download_finished, missing>>
threads == <<worker, peer_workers, peer_swarm>>
spawners == <<dispatching, announcer>>
call == <<api, joining, halted>>
vars == <<state, threads, spawners, call>>

Statuses == {"Initialised", "Seeding", "Downloading", "Paused", "Ended"}
WorkerPhases == {"none", "handshake", "top", "busy", "exit", "done"}

Init ==
    /\ status = "Initialised" /\ paused = FALSE /\ download_finished = FALSE
    /\ missing \in 0 .. MaxPieces
    /\ worker = [w \in Workers |-> "none"] /\ peer_workers = {} /\ peer_swarm = {}
    /\ dispatching = FALSE /\ announcer = [a \in Announcers |-> "none"]
    /\ api = "idle" /\ joining = {} /\ halted = FALSE

-----------------------------------------------------------------------------
(* Calls of the application.  A call that returns an error changes nothing.*)

\* The threads start_download spawns (a reannounce loop while the bound lasts).
SpawnThreads ==
    /\ dispatching' = TRUE
    /\ IF \E a \in Announcers : announcer[a] = "none"
       THEN \E a \in Announcers : /\ announcer[a] = "none"
                                  /\ announcer' = [announcer EXCEPT ![a] = "waiting"]
       ELSE UNCHANGED announcer
    /\ halted' = FALSE

\* start_download: start_downloading unless already seeding.
StartDownload ==
    /\ api = "idle" /\ status \notin {"Downloading", "Ended"}
    /\ IF status = "Seeding" THEN UNCHANGED state
       ELSE /\ status' = IF missing = 0 THEN "Seeding" ELSE "Downloading"
            /\ download_finished' = (download_finished \/ missing = 0)
            /\ UNCHANGED <<paused, missing>>
    /\ SpawnThreads
    /\ UNCHANGED <<threads, api, joining>>

\* start_seeding: the status is overwritten whatever it was.
StartSeeding ==
    /\ api = "idle"
    /\ status' = "Seeding" /\ download_finished' = TRUE
    /\ SpawnThreads
    /\ UNCHANGED <<paused, missing, threads, api, joining>>

Pause ==
    /\ api = "idle" /\ status \in {"Downloading", "Seeding"}
    /\ status' = "Paused" /\ paused' = TRUE
    /\ UNCHANGED <<download_finished, missing, threads, spawners, call>>

\* Mutant: resume does not look at what completed meanwhile.
ResumeDownloading ==
    /\ api = "idle" /\ status = "Paused"
    /\ status' = "Downloading" /\ paused' = FALSE
    /\ UNCHANGED <<download_finished, missing, threads, spawners, call>>

Resume ==
    /\ api = "idle" /\ status = "Paused"
    /\ status' = IF missing = 0 THEN "Seeding" ELSE "Downloading"
    /\ paused' = FALSE
    /\ UNCHANGED <<download_finished, missing, threads, spawners, call>>

\* stop, and join_peer_workers of a session that has not ended: first
\* disconnect_all_peers, with the context unlocked afterwards.
Stop ==
    /\ api = "idle"
    /\ peer_swarm' = {}
    /\ \/ api' = "stop"
       \/ status # "Ended" /\ api' = "join_stop"
    /\ UNCHANGED <<state, worker, peer_workers, spawners, joining, halted>>

\* The rest of stop: the context ends, waiters are woken.
StopEnds ==
    /\ api \in {"stop", "join_stop"}
    /\ status' = "Ended" /\ download_finished' = TRUE
    /\ api' = IF api = "stop" THEN "idle" ELSE "join_take"
    /\ UNCHANGED <<paused, missing, threads, spawners, joining, halted>>

\* join_peer_workers takes the handles ...
JoinTakes ==
    /\ api = "join_take" \/ (api = "idle" /\ status = "Ended")
    /\ joining' = peer_workers /\ peer_workers' = {}
    /\ api' = "join"
    /\ UNCHANGED <<state, worker, peer_swarm, spawners, halted>>

\* ... and returns when every thread of them has finished.
JoinReturn ==
    /\ api = "join" /\ \A w \in joining : worker[w] = "done"
    /\ api' = "idle" /\ joining' = {} /\ halted' = TRUE
    /\ UNCHANGED <<state, threads, spawners>>

\* stats() reads the swarm, with its lock held and the context not locked ...
StatsReads ==
    /\ api = "idle" /\ api' = "stats"
    /\ UNCHANGED <<state, threads, spawners, joining, halted>>

\* ... and returns.
StatsReturns ==
    /\ api = "stats" /\ api' = "idle"
    /\ UNCHANGED <<state, threads, spawners, joining, halted>>

\* A worker thread starts and its handle is kept.
Spawn(w) ==
    /\ worker[w] = "none"
    /\ worker' = [worker EXCEPT ![w] = "handshake"]
    /\ peer_workers' = peer_workers \cup {w}
    /\ UNCHANGED peer_swarm

\* connect_and_download_peer: no look at the status.
ConnectPeer(w) ==
    /\ api = "idle" /\ Spawn(w)
    /\ halted' = FALSE
    /\ UNCHANGED <<state, spawners, api, joining>>

-----------------------------------------------------------------------------
(* Threads that spawn workers.                                             *)

\* The dispatcher checks the status and spawns under one context lock.
DispatchPeer(w) ==
    /\ dispatching /\ status \notin {"Ended", "Paused"} /\ Spawn(w)
    /\ UNCHANGED <<state, spawners, call>>

\* The reannounce loop looks at the status, then announces with no lock held.
AnnounceWait(a) ==
    /\ announcer[a] = "waiting"
    /\ announcer' = [announcer EXCEPT ![a] = IF status = "Ended" THEN "stopped" ELSE "announcing"]
    /\ UNCHANGED <<state, threads, dispatching, call>>

\* A worker for a peer of the answer, whatever happened to the status.
AnnounceSpawn(a, w) ==
    /\ announcer[a] = "announcing" /\ Spawn(w)
    /\ UNCHANGED <<state, spawners, call>>

AnnounceDone(a) ==
    /\ announcer[a] = "announcing"
    /\ announcer' = [announcer EXCEPT ![a] = "waiting"]
    /\ UNCHANGED <<state, threads, dispatching, call>>

-----------------------------------------------------------------------------
(* Worker threads: handle_peer_session and run_peer_loop.                  *)

GoTo(w, phase) == worker' = [worker EXCEPT ![w] = phase]

\* The swarm's entries for the address of w.
EntriesAt(w) == {v \in peer_swarm : Address[v] = Address[w]}

\* The handshake fails or add_peer refuses, or the peer joins the swarm, ended
\* or not.  add_peer refuses an address that is registered, and waits for the
\* swarm's lock.
Handshake(w) ==
    /\ worker[w] = "handshake"
    /\ \/ GoTo(w, "done") /\ UNCHANGED peer_swarm
       \/ /\ EntriesAt(w) = {} /\ api # "stats"
          /\ GoTo(w, "top") /\ peer_swarm' = peer_swarm \cup {w}
    /\ UNCHANGED <<state, peer_workers, spawners, call>>

\* Mutant: a paused worker waits for resume before it looks at the status.
LoopTopPauseFirst(w) ==
    /\ worker[w] = "top"
    /\ IF paused THEN UNCHANGED worker
       ELSE IF status = "Ended" THEN GoTo(w, "exit") ELSE GoTo(w, "busy")
    /\ UNCHANGED <<state, peer_workers, peer_swarm, spawners, call>>

\* The loop's first checks: ended, then paused (sleep and look again).
LoopTop(w) ==
    /\ worker[w] = "top"
    /\ \/ status = "Ended" /\ GoTo(w, "exit")
       \/ status # "Ended" /\ ~paused /\ GoTo(w, "busy")
    /\ UNCHANGED <<state, peer_workers, peer_swarm, spawners, call>>

\* Mutant: a piece that was complete already is counted as newly complete.
HandleMessageCountsAgain(w) ==
    /\ worker[w] = "busy" /\ GoTo(w, "top")
    /\ missing' = missing - 1
    /\ UNCHANGED <<status, paused, download_finished, peer_workers, peer_swarm, spawners, call>>

\* A message is read and handled, or reading fails.  It may complete a piece,
\* even if the session was paused or stopped meanwhile: try_complete_download.
HandleMessage(w) ==
    /\ worker[w] = "busy"
    /\ \/ GoTo(w, "top") /\ UNCHANGED state
       \/ GoTo(w, "exit") /\ UNCHANGED state
       \/ /\ GoTo(w, "top") /\ missing > 0
          /\ missing' = missing - 1
          /\ IF status = "Downloading" /\ missing' = 0
             THEN status' = "Seeding" /\ download_finished' = TRUE
             ELSE UNCHANGED <<status, download_finished>>
          /\ UNCHANGED paused
    /\ UNCHANGED <<peer_workers, peer_swarm, spawners, call>>

\* Mutant: a worker of a session that has ended leaves its entry to stop.
WorkerExitTrustsStop(w) ==
    /\ worker[w] = "exit" /\ GoTo(w, "done")
    /\ peer_swarm' = IF api = "stats" \/ status = "Ended" THEN peer_swarm
                     ELSE peer_swarm \ EntriesAt(w)
    /\ UNCHANGED <<state, peer_workers, spawners, call>>

\* After the loop: remove_peer takes out whatever is registered at the address,
\* unless the swarm's lock is taken: then the entry stays.
WorkerExit(w) ==
    /\ worker[w] = "exit" /\ GoTo(w, "done")
    /\ peer_swarm' = IF api = "stats" THEN peer_swarm ELSE peer_swarm \ EntriesAt(w)
    /\ UNCHANGED <<state, peer_workers, spawners, call>>

-----------------------------------------------------------------------------
CallSteps == StartDownload \/ StartSeeding \/ Pause \/ Resume \/ Stop \/ StatsReads

CallProgress == StopEnds \/ (api = "join_take" /\ JoinTakes) \/ JoinReturn \/ StatsReturns

WorkerSteps(w) == Handshake(w) \/ LoopTop(w) \/ HandleMessage(w) \/ WorkerExit(w)

AnnouncerSteps(a) ==
    AnnounceWait(a) \/ AnnounceDone(a) \/ \E w \in Workers : AnnounceSpawn(a, w)

Next ==
    \/ CallSteps \/ StopEnds \/ JoinTakes \/ JoinReturn \/ StatsReturns
    \/ \E w \in Workers : ConnectPeer(w) \/ DispatchPeer(w) \/ WorkerSteps(w)
    \/ \E a \in Announcers : AnnouncerSteps(a)

Spec == Init /\ [][Next]_vars

\* A call in progress and every thread keep running: reads and announces have
\* timeouts, sleeps end.
Fairness ==
    /\ WF_vars(CallProgress)
    /\ \A w \in Workers : WF_vars(WorkerSteps(w))
    /\ \A a \in Announcers : WF_vars(AnnounceWait(a)) /\ WF_vars(AnnounceDone(a))

FairSpec == Spec /\ Fairness

-----------------------------------------------------------------------------
(* Properties                                                              *)

\* The shape of the state.
TypeOK ==
    /\ status \in Statuses /\ paused \in BOOLEAN /\ download_finished \in BOOLEAN
    /\ missing \in 0 .. MaxPieces
    /\ worker \in [Workers -> WorkerPhases]
    /\ peer_workers \subseteq Workers /\ peer_swarm \subseteq Workers
    /\ dispatching \in BOOLEAN
    /\ announcer \in [Announcers -> {"none", "waiting", "announcing", "stopped"}]
    /\ api \in {"idle", "stop", "join_stop", "join_take", "join", "stats"}
    /\ joining \subseteq Workers /\ halted \in BOOLEAN

\* Completion is never missed: a session with nothing missing does not stay in
\* Downloading, also when the last piece came in while it was paused.
CompletionNotMissed == ~(status = "Downloading" /\ missing = 0)

\* An entry of the swarm outlives the worker that registered it only when
\* remove_peer met the lock that stats() holds: not because stop cleared the
\* swarm first, because the worker registered after stop, or because another
\* worker of the same address came or went in between.
EntryOutlivesOnlyInStats ==
    [][\A w \in peer_swarm' :
          worker'[w] = "done" => \/ w \in peer_swarm /\ worker[w] = "done"
                                \/ api = "stats"]_vars

\* join_peer_workers returns: no worker keeps spinning, paused or not.
JoinReturns == (api = "join") ~> (api = "idle")

\* A stopped session empties its swarm for good, although stop disconnects the
\* peers before it sets Ended and workers may register in between or later:
\* provided that stats() does not read the swarm while a worker leaves it.
SwarmDrains ==
    <>[](status = "Ended") /\ [](api = "stats" => \A w \in Workers : worker[w] # "exit")
        => <>[](peer_swarm = {})

\* Seeding means the download_finished event was signalled.
SeedingSignalled == status = "Seeding" => download_finished

\* After join_peer_workers no worker thread is running.
NoWorkerAfterJoin == halted => \A w \in Workers : worker[w] \in {"none", "done"}
=============================================================================
