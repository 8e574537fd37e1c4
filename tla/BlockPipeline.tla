--------------------------- MODULE BlockPipeline ---------------------------
(***************************************************************************)
(* The download pipeline of one torrent: peer sessions (worker.rs) reserve *)
(* blocks in the shared TorrentContext, send requests, time them out, and  *)
(* hand received blocks to process_piece_block, which stores them, verifies*)
(* a completed piece (in place, or in the background pool) and blames the  *)
(* sources of a corrupt one.  A WebSeed thread competes for the same       *)
(* reservations.  Every action is one critical section of the code: what a *)
(* thread does between taking and dropping the context lock.               *)
(***************************************************************************)
EXTENDS Naturals, FiniteSets, Sequences, BlockStorage

CONSTANTS
    Peers,              \* remote peers, one session each, identified by IP
    Mirrors,            \* WebSeed URLs ({}: no WebSeed thread)
    Faulty,             \* the sources that may send corrupt or malformed blocks
    Pieces,             \* piece indices of the torrent, all wanted
    BlocksPerPiece,     \* blocks in a piece
    RemotePieces,       \* RemotePieces[p]: pieces peer p advertised
    AllowedFast,        \* AllowedFast[p]: pieces p serves while choking
    HashedBlocks,       \* blocks whose v2 leaf hash or proof is registered
    InitialLocal,       \* pieces found complete on disk at start
    MaximumSwarmSize,   \* maximum_swarm_size: entries the swarm may hold
    MaxOutstanding,     \* pipelined requests per peer (10 in send_block_requests)
    EndgameThreshold,   \* ENDGAME_THRESHOLD, 5 in the code
    MaxClones,          \* endgame_max_clones_per_block, 2 by default
    BlacklistScore,     \* bad blocks that blacklist a peer, 3 in the code
    AdaptiveEndgame,    \* config.enable_adaptive_endgame
    AsyncVerification,  \* config.enable_async_verification
    QueueCapacity,      \* verification pool queue capacity
    Slots,              \* bound: verification jobs and results kept at a time
    MaxEntries,         \* bound: entries of one block in one reserved_blocks
    SendFaults,         \* TRUE if writing a Request may fail
    StorageFaults,      \* TRUE if a disk write may fail
    SmallCache,         \* TRUE if a write may overflow the cache and flush it
    None                \* no block, no source, no job

BlockIdx == 0 .. (BlocksPerPiece - 1)
Blocks == Pieces \X BlockIdx
Sources == Peers \cup Mirrors
PieceOf(b) == b[1]
BlocksOf(i) == {i} \X BlockIdx

\* Entries of a peer's request list; the number tells entries of a block apart.
Entry == Blocks \X (1 .. MaxEntries)

Job == [piece : Pieces, sources : [BlockIdx -> Sources],
        verdict : {"queued", "valid", "corrupt"}]

ASSUME ConstantsAssumption ==
    /\ BlocksPerPiece \in Nat \ {0}
    /\ IsFiniteSet(Pieces)
    /\ Peers \cap Mirrors = {}
    /\ None \notin Blocks /\ None \notin Sources /\ None \notin Job
    /\ Faulty \subseteq Sources /\ InitialLocal \subseteq Pieces
    /\ InitialLocal # Pieces
    /\ RemotePieces \in [Peers -> SUBSET Pieces]
    /\ AllowedFast \in [Peers -> SUBSET Pieces]
    /\ HashedBlocks \subseteq Blocks
    /\ MaximumSwarmSize \in Nat \ {0}
    /\ MaxOutstanding \in Nat \ {0} /\ EndgameThreshold \in Nat
    /\ MaxClones \in Nat \ {0} /\ BlacklistScore \in Nat \ {0}
    /\ QueueCapacity \in Nat \ {0} /\ MaxEntries \in Nat \ {0}
    /\ {AdaptiveEndgame, AsyncVerification, SendFaults, StorageFaults, SmallCache}
           \subseteq BOOLEAN

VARIABLES
    bitfield,          \* pieces verified and local
    pieces_missing,    \* the complementary bitmap the code also keeps
    total_downloaded,  \* total_bytes_downloaded, in whole pieces
    status,            \* Downloading or Seeding; the rest is in TorrentLifecycle
    requested_blocks,  \* assembler: blocks reserved by anyone
    block_source,      \* piece buffers: who supplied a buffered block
    staged,            \* endgame staging: block -> sequence of sources
    committed,         \* endgame staging: blocks that already arrived
    preempted,         \* endgame staging: blocks marked as stragglers
    pieces_verifying,  \* pieces queued for background verification
    jobs,              \* slot -> verification job or finished result
    bad_peer_scores,   \* source -> bad blocks, saturating at BlacklistScore
    peer_swarm,        \* peers registered in the swarm
    dirty, disk,       \* block storage, see BlockStorage
    pc,                \* phase of each peer session
    unchoked,          \* peers that unchoked us (peer_choking event set)
    reserved_blocks,   \* peer -> entries of its request list
    outstanding,       \* peer -> outstanding_requests_count
    to_send,           \* peer -> requests send_block_requests may still issue
    sending,           \* peer -> block reserved whose Request is being written
    expired,           \* peer -> timed-out entries not yet released
    ws_block,          \* WebSeed thread: the block it reserved
    ws_tried           \* WebSeed thread: mirrors already tried for it

accounting == <<bitfield, pieces_missing, total_downloaded, status>>
staging == <<staged, committed, preempted>>
verification == <<pieces_verifying, jobs>>
store == <<dirty, disk>>
blame == <<bad_peer_scores, peer_swarm>>
session == <<unchoked, reserved_blocks, outstanding, to_send, sending, expired>>
webseed == <<ws_block, ws_tried>>
vars == <<accounting, requested_blocks, block_source, staging, verification,
          blame, store, pc, session, webseed>>

Init ==
    /\ bitfield = InitialLocal
    /\ pieces_missing = Pieces \ InitialLocal
    /\ total_downloaded = Cardinality(InitialLocal)
    /\ status = "Downloading"
    /\ requested_blocks = {}
    /\ block_source = [b \in Blocks |-> None]
    /\ staged = [b \in Blocks |-> <<>>] /\ committed = {} /\ preempted = {}
    /\ pieces_verifying = {} /\ jobs = [s \in Slots |-> None]
    /\ bad_peer_scores = [q \in Sources |-> 0] /\ peer_swarm = {}
    /\ dirty = [b \in Blocks |-> "none"]
    /\ disk = [b \in Blocks |-> IF PieceOf(b) \in InitialLocal THEN "good" ELSE "none"]
    /\ pc = [p \in Peers |-> "idle"]
    /\ unchoked = {}
    /\ reserved_blocks = [p \in Peers |-> {}]
    /\ outstanding = [p \in Peers |-> 0] /\ to_send = [p \in Peers |-> 0]
    /\ sending = [p \in Peers |-> None] /\ expired = [p \in Peers |-> {}]
    /\ ws_block = None /\ ws_tried = {}

-----------------------------------------------------------------------------
(* The context lock and the session phases.                                *)

\* Thread p may enter a critical section of the context: nobody else holds
\* the lock across steps (while applying a batch of verification results, or
\* blocked for ever inside report_bad_peer).
CtxFree(p) == \A q \in Peers \ {p} : pc[q] \notin {"draining", "stuck"}

\* The blocks of a set of entries; block b in the request list of p; the list
\* without the entries of b.
BlocksIn(entries) == {e[1] : e \in entries}
Asked(p, b) == b \in BlocksIn(reserved_blocks[p])
Without(entries, b) == {e \in entries : e[1] # b}

Goto(p, phase) == pc' = [pc EXCEPT ![p] = phase]

\* Mutant: the blacklist is not looked at.
ConnectUnchecked(p) ==
    /\ pc[p] = "idle" /\ CtxFree(p)
    /\ p \notin peer_swarm /\ Cardinality(peer_swarm) < MaximumSwarmSize
    /\ peer_swarm' = peer_swarm \cup {p}
    /\ reserved_blocks' = [reserved_blocks EXCEPT ![p] = {}]
    /\ outstanding' = [outstanding EXCEPT ![p] = 0]
    /\ unchoked' = unchoked \ {p}
    /\ Goto(p, "read")
    /\ UNCHANGED <<accounting, requested_blocks, block_source, staging, verification,
                   bad_peer_scores, store, to_send, sending, expired, webseed>>

\* handle_peer_session up to run_peer_loop: the blacklist, and add_peer, which
\* refuses an address that is registered already and a full swarm.  The return
\* for an address on the manager's dead list is a delay: it changes nothing, the
\* entry lapses after 600 s, and Connect may come as late as that.
Connect(p) ==
    /\ pc[p] = "idle" /\ CtxFree(p)
    /\ bad_peer_scores[p] < BlacklistScore
    /\ p \notin peer_swarm /\ Cardinality(peer_swarm) < MaximumSwarmSize
    /\ peer_swarm' = peer_swarm \cup {p}
    /\ reserved_blocks' = [reserved_blocks EXCEPT ![p] = {}]
    /\ outstanding' = [outstanding EXCEPT ![p] = 0]
    /\ unchoked' = unchoked \ {p}
    /\ Goto(p, "read")
    /\ UNCHANGED <<accounting, requested_blocks, block_source, staging, verification,
                   bad_peer_scores, store, to_send, sending, expired, webseed>>

\* A read error, a failed action, or the 120 s idle timeout (tested after the
\* request timeouts) ends the loop.
SessionFails(p) ==
    /\ pc[p] \in {"read", "drain", "request"}
    /\ Goto(p, "exit")
    /\ UNCHANGED <<accounting, requested_blocks, block_source, staging, verification,
                   blame, store, session, webseed>>

\* handle_peer_session after the loop: release what the request list still
\* holds, then remove_peer.  It only tries for the swarm's write lock: while
\* the application reads the swarm in stats(), which does not take the context
\* lock, the peer stays registered.
SessionExits(p) ==
    /\ pc[p] = "exit" /\ CtxFree(p)
    /\ requested_blocks' = requested_blocks \ BlocksIn(reserved_blocks[p])
    /\ reserved_blocks' = [reserved_blocks EXCEPT ![p] = {}]
    /\ peer_swarm' \in {peer_swarm \ {p}, peer_swarm}
    /\ Goto(p, "idle")
    /\ UNCHANGED <<accounting, block_source, staging, verification, bad_peer_scores, store,
                   unchoked, outstanding, to_send, sending, expired, webseed>>

\* Nothing to read (WouldBlock): straight to the timeout check, no draining.
ReadNothing(p) ==
    /\ pc[p] = "read"
    /\ Goto(p, "expire")
    /\ UNCHANGED <<accounting, requested_blocks, block_source, staging, verification,
                   blame, store, session, webseed>>

-----------------------------------------------------------------------------
(* Requesting: check_request_timeouts and send_block_requests.             *)

\* Mutant: the snapshot of the counter is ignored.
BudgetUnlimited(n) == MaxOutstanding

\* The requests a fresh snapshot of the outstanding counter allows.
Budget(n) == IF n >= MaxOutstanding THEN 0 ELSE MaxOutstanding - n

\* Mutant: saturating_sub as a plain subtraction.
DecWrapping(n) == n - 1

Dec(n) == IF n = 0 THEN 0 ELSE n - 1

\* First phase of check_request_timeouts, under the peer lock only: entries
\* older than 15 s leave the list.
ExpireRequests(p) ==
    /\ pc[p] = "expire"
    /\ \E S \in SUBSET reserved_blocks[p] :
         /\ reserved_blocks' = [reserved_blocks EXCEPT ![p] = @ \ S]
         /\ expired' = [expired EXCEPT ![p] = S]
         /\ IF S = {} THEN /\ Goto(p, "request")
                           /\ to_send' = [to_send EXCEPT ![p] = Budget(outstanding[p])]
                      ELSE Goto(p, "release") /\ UNCHANGED to_send
    /\ UNCHANGED <<accounting, requested_blocks, block_source, staging, verification,
                   blame, store, unchoked, outstanding, sending, webseed>>

\* Mutant: a timed-out request is forgotten, its reservation is not released.
ReleaseExpiredForgets(p) ==
    /\ pc[p] = "release" /\ CtxFree(p)
    /\ expired' = [expired EXCEPT ![p] = {}]
    /\ outstanding' = [outstanding EXCEPT ![p] = 0]
    /\ to_send' = [to_send EXCEPT ![p] = Budget(0)]
    /\ Goto(p, "request")
    /\ UNCHANGED <<accounting, requested_blocks, block_source, staging, verification, blame,
                   store, unchoked, reserved_blocks, sending, webseed>>

\* Second phase, under both locks: release the reservations.
ReleaseExpired(p) ==
    /\ pc[p] = "release" /\ CtxFree(p)
    /\ requested_blocks' = requested_blocks \ BlocksIn(expired[p])
    /\ expired' = [expired EXCEPT ![p] = {}]
    /\ LET k == Cardinality(expired[p])
           n == IF outstanding[p] > k THEN outstanding[p] - k ELSE 0
       IN  /\ outstanding' = [outstanding EXCEPT ![p] = n]
           /\ to_send' = [to_send EXCEPT ![p] = Budget(n)]
    /\ Goto(p, "request")
    /\ UNCHANGED <<accounting, block_source, staging, verification, blame, store,
                   unchoked, reserved_blocks, sending, webseed>>

\* is_endgame: few pieces are missing.
IsEndgame == Cardinality(Pieces \ bitfield) <= EndgameThreshold

\* The lowest-numbered block of a set of blocks of one piece, as a set.
Lowest(S) == {b \in S : \A c \in S : b[2] <= c[2]}

\* next_pending_block: blocks of piece i without a reservation.
Pending(i) == BlocksOf(i) \ requested_blocks

\* Standard mode over a set of pieces.  Which of several eligible pieces comes
\* first (suggestion, priority, rarity, index) is left open.
StandardChoices(p, pieces) ==
    UNION {Lowest(Pending(i)) : i \in (pieces \cap RemotePieces[p]) \ bitfield}

\* can_clone_block
CanClone(b) == b \notin committed /\ Len(staged[b]) < MaxClones

\* Endgame mode: blocks of piece i that peer p may be asked for once more.
EndgameOpen(p, i) ==
    {b \in BlocksOf(i) : /\ block_source[b] = None
                         /\ ~Asked(p, b)
                         /\ AdaptiveEndgame => CanClone(b)}

EndgameChoices(p) == UNION {Lowest(EndgameOpen(p, i)) : i \in RemotePieces[p] \ bitfield}

\* detect_stalled_blocks: those that may be found overdue now.
Stallable == IF AdaptiveEndgame
             THEN {b \in Blocks : /\ staged[b] # <<>> /\ Len(staged[b]) < MaxClones
                                  /\ b \notin preempted}
             ELSE {}

\* Of the blocks found overdue, those whose clone peer p can take.
Preemptible(p, overdue) ==
    {b \in overdue : /\ Head(staged[b]) # p
                     /\ PieceOf(b) \in RemotePieces[p] \ bitfield
                     /\ ~Asked(p, b)}

\* Every overdue block is marked preempted; only one request comes of it.
EndgameSelection(p, overdue) ==
    IF Preemptible(p, overdue) # {} THEN Preemptible(p, overdue) ELSE EndgameChoices(p)

\* stage_request
StageRequest(b, p) ==
    IF \E n \in 1 .. Len(staged[b]) : staged[b][n] = p
    THEN staged
    ELSE [staged EXCEPT ![b] = Append(@, p)]

\* Session p may ask for another block now (to_send, status, unchoked or fast).
MayRequest(p) ==
    /\ pc[p] = "request" /\ CtxFree(p)
    /\ to_send[p] > 0 /\ status = "Downloading"

\* The block is reserved under the locks; the Request is written after them.
Reserve(p, b) ==
    /\ \E n \in 1 .. MaxEntries : <<b, n>> \notin reserved_blocks[p]
    /\ requested_blocks' = requested_blocks \cup {b}
    /\ sending' = [sending EXCEPT ![p] = b]
    /\ Goto(p, "writing")
    /\ UNCHANGED <<accounting, block_source, verification, blame, store, committed,
                   unchoked, reserved_blocks, outstanding, to_send, expired, webseed>>

\* next_block_request_for_peer, standard mode.
RequestStandard(p) ==
    /\ MayRequest(p) /\ p \in unchoked /\ ~IsEndgame
    /\ \E b \in StandardChoices(p, Pieces) : Reserve(p, b)
    /\ UNCHANGED <<staged, preempted>>

\* next_block_request_for_peer, endgame mode.
RequestEndgame(p) ==
    /\ MayRequest(p) /\ p \in unchoked /\ IsEndgame
    /\ \E overdue \in SUBSET Stallable :
         /\ preempted' = preempted \cup overdue
         /\ \E b \in EndgameSelection(p, overdue) :
              /\ Reserve(p, b)
              /\ staged' = IF AdaptiveEndgame THEN StageRequest(b, p) ELSE staged

\* next_allowed_fast_block_request_for_peer: asked while choked.
RequestFast(p) ==
    /\ MayRequest(p) /\ p \notin unchoked
    /\ \E b \in StandardChoices(p, AllowedFast[p]) : Reserve(p, b)
    /\ UNCHANGED <<staged, preempted>>

\* Nothing (more) to ask for: back to reading.
RequestNothing(p) ==
    /\ pc[p] = "request" /\ CtxFree(p)
    /\ \/ (to_send[p] = 0 \/ status # "Downloading") /\ UNCHANGED preempted
       \/ /\ MayRequest(p) /\ p \notin unchoked
          /\ StandardChoices(p, AllowedFast[p]) = {} /\ UNCHANGED preempted
       \/ /\ MayRequest(p) /\ p \in unchoked /\ ~IsEndgame
          /\ StandardChoices(p, Pieces) = {} /\ UNCHANGED preempted
       \/ /\ MayRequest(p) /\ p \in unchoked /\ IsEndgame
          /\ \E overdue \in SUBSET Stallable :
               /\ EndgameSelection(p, overdue) = {}
               /\ preempted' = preempted \cup overdue
    /\ Goto(p, "read")
    /\ UNCHANGED <<accounting, requested_blocks, block_source, staged, committed,
                   verification, blame, store, session, webseed>>

\* The Request went out: only now does it enter the peer's request list.
RequestSent(p) ==
    /\ pc[p] = "writing"
    /\ \E n \in 1 .. MaxEntries :
         /\ <<sending[p], n>> \notin reserved_blocks[p]
         /\ \A m \in 1 .. (n - 1) : <<sending[p], m>> \in reserved_blocks[p]
         /\ reserved_blocks' = [reserved_blocks EXCEPT ![p] = @ \cup {<<sending[p], n>>}]
    /\ outstanding' = [outstanding EXCEPT ![p] = @ + 1]
    /\ to_send' = [to_send EXCEPT ![p] = @ - 1]
    /\ sending' = [sending EXCEPT ![p] = None]
    /\ Goto(p, "request")
    /\ UNCHANGED <<accounting, requested_blocks, block_source, staging, verification,
                   blame, store, unchoked, expired, webseed>>

\* Writing the Request failed: the session ends with the block still reserved
\* in the context and in no request list.
RequestFailed(p) ==
    /\ pc[p] = "writing" /\ SendFaults
    /\ sending' = [sending EXCEPT ![p] = None]
    /\ Goto(p, "exit")
    /\ UNCHANGED <<accounting, requested_blocks, block_source, staging, verification, blame,
                   store, unchoked, reserved_blocks, outstanding, to_send, expired, webseed>>

-----------------------------------------------------------------------------
(* What a verdict on a piece does to the context.  d and k are the dirty   *)
(* and disk maps at the time of the verdict.                               *)

Intact(d, k, i) == \A b \in BlocksOf(i) : ReadBlock(d, k, b) = "good"

\* A hash check over storage; a failing read counts as a mismatch.
Verdicts(d, k, i) ==
    (IF Intact(d, k, i) THEN {"valid"} ELSE {"corrupt"})
        \cup (IF StorageFaults THEN {"corrupt"} ELSE {})

\* storage.flush() with its error ignored: all dirty blocks of every piece are
\* written, or some of them and all stay dirty.
FlushIgnoringErrors(d, k) ==
    \/ dirty' = NoDirty(d) /\ disk' = WrittenOut(d, k, Blocks)
    \/ /\ StorageFaults
       /\ dirty' = d
       /\ \E S \in SUBSET {b \in Blocks : d[b] # "none"} : disk' = WrittenOut(d, k, S)

\* Mutant: the bytes of a piece are added whether or not it was local.
PieceValidCountsAgain(d, k, i) ==
    /\ FlushIgnoringErrors(d, k)
    /\ total_downloaded' = total_downloaded + 1
    /\ bitfield' = bitfield \cup {i}
    /\ pieces_missing' = pieces_missing \ {i}
    /\ status' = IF status = "Downloading" /\ Pieces \subseteq bitfield' THEN "Seeding" ELSE status
    /\ requested_blocks' = requested_blocks \ BlocksOf(i)
    /\ UNCHANGED blame

\* Mutant: completion is tested before the bitfield is updated.
PieceValidTestsEarly(d, k, i) ==
    /\ FlushIgnoringErrors(d, k)
    /\ total_downloaded' = IF i \in bitfield THEN total_downloaded ELSE total_downloaded + 1
    /\ bitfield' = bitfield \cup {i}
    /\ pieces_missing' = pieces_missing \ {i}
    /\ status' = IF status = "Downloading" /\ Pieces \subseteq bitfield THEN "Seeding" ELSE status
    /\ requested_blocks' = requested_blocks \ BlocksOf(i)
    /\ UNCHANGED blame

\* flush, update_bitfield_status(true), try_complete_download,
\* clear_piece_requests.
PieceValid(d, k, i) ==
    /\ FlushIgnoringErrors(d, k)
    /\ total_downloaded' = IF i \in bitfield THEN total_downloaded ELSE total_downloaded + 1
    /\ bitfield' = bitfield \cup {i}
    /\ pieces_missing' = pieces_missing \ {i}
    /\ status' = IF status = "Downloading" /\ Pieces \subseteq bitfield' THEN "Seeding" ELSE status
    /\ requested_blocks' = requested_blocks \ BlocksOf(i)
    /\ UNCHANGED blame

\* report_bad_peer, once for every block a source supplied.
Blamed(sources, q) == Cardinality({n \in BlockIdx : sources[n] = q})

Score(sources, q) ==
    LET n == bad_peer_scores[q] + Blamed(sources, q)
    IN  IF n > BlacklistScore THEN BlacklistScore ELSE n

Ousted(sources) ==
    {q \in peer_swarm : Blamed(sources, q) > 0 /\ Score(sources, q) >= BlacklistScore}

\* Mutant: the requests of the corrupt piece are not cleared.
PieceCorruptKeepsRequests(d, k, i, sources) ==
    /\ dirty' = Discarded(d, BlocksOf(i)) /\ disk' = k
    /\ bad_peer_scores' = [q \in Sources |-> Score(sources, q)]
    /\ peer_swarm' = peer_swarm \ Ousted(sources)
    /\ pieces_missing' = pieces_missing \cup {i}
    /\ UNCHANGED <<bitfield, total_downloaded, status, requested_blocks>>

\* clear_piece_requests, discard_range, report_bad_peer for every source,
\* mark_piece_missing; the local bit is not touched.
PieceCorrupt(d, k, i, sources) ==
    /\ dirty' = Discarded(d, BlocksOf(i)) /\ disk' = k
    /\ bad_peer_scores' = [q \in Sources |-> Score(sources, q)]
    /\ peer_swarm' = peer_swarm \ Ousted(sources)
    /\ pieces_missing' = pieces_missing \cup {i}
    /\ requested_blocks' = requested_blocks \ BlocksOf(i)
    /\ UNCHANGED <<bitfield, total_downloaded, status>>

-----------------------------------------------------------------------------
(* process_piece_block(src, b, v) and its outcome r: "ok", "err", or       *)
(* "stuck" when report_bad_peer locks the peer its caller already holds.   *)

\* The argument checks come first: an invalid piece index, a begin that is not
\* aligned, or a block that runs past the end of its piece.
RejectArguments(v, r) ==
    /\ v = "malformed" /\ r = "err"
    /\ UNCHANGED <<accounting, requested_blocks, block_source, staging, verification,
                   blame, store>>

\* on_block_arrived for a block not committed before.
BlockArrives(b) ==
    IF AdaptiveEndgame
    THEN /\ committed' = committed \cup {b}
         /\ staged' = [staged EXCEPT ![b] = <<>>]
         /\ preempted' = preempted \ {b}
    ELSE UNCHANGED staging

\* on_block_arrived, then clear_piece because the block completed its piece.
StagingCleared(i) ==
    IF AdaptiveEndgame
    THEN /\ committed' = committed \ BlocksOf(i)
         /\ staged' = [b \in Blocks |-> IF b \in BlocksOf(i) THEN <<>> ELSE staged[b]]
         /\ preempted' = preempted \ BlocksOf(i)
    ELSE UNCHANGED staging

\* Mutant: blocks of a local piece are not turned away.
AbsorbedInEndgame(b) == AdaptiveEndgame /\ b \in committed

\* The piece is local, or the adaptive endgame saw the block before.
Absorbed(b) == PieceOf(b) \in bitfield \/ (AdaptiveEndgame /\ b \in committed)

\* verify_v2_block fails for a block whose leaf hash is known.
V2Rejects(b, v) == block_source[b] = None /\ b \in HashedBlocks /\ v = "bad"

AbsorbBlock(b, r) ==
    /\ Absorbed(b) /\ r = "ok"
    /\ UNCHANGED <<accounting, requested_blocks, block_source, staging, verification,
                   blame, store>>

\* The block is refused after the staging cache took it for committed: by its
\* v2 hash, or because write_block (cached, then evicting) failed.
RefuseBlock(b, v, r) ==
    /\ ~Absorbed(b) /\ block_source[b] = None /\ r = "err"
    /\ BlockArrives(b)
    /\ \/ V2Rejects(b, v) /\ UNCHANGED store
       \/ /\ StorageFaults /\ ~V2Rejects(b, v)
          /\ dirty' = [dirty EXCEPT ![b] = v]
          /\ \E S \in SUBSET {c \in Blocks : dirty'[c] # "none"} :
               disk' = WrittenOut(dirty', disk, S)
    /\ UNCHANGED <<accounting, requested_blocks, block_source, verification, blame>>

\* The piece buffer and the storage after an accepted block; a block the
\* buffer already has is not written again.
BufferWith(src, b) == IF block_source[b] = None THEN [block_source EXCEPT ![b] = src] ELSE block_source
DirtyWith(b, v) == IF block_source[b] = None THEN [dirty EXCEPT ![b] = v] ELSE dirty
Evictions(b) == IF SmallCache /\ block_source[b] = None THEN BOOLEAN ELSE {FALSE}
Completes(src, b) == \A c \in BlocksOf(PieceOf(b)) : BufferWith(src, b)[c] # None

StoreBlock(src, b, v, r) ==
    /\ ~Absorbed(b) /\ ~V2Rejects(b, v) /\ ~Completes(src, b) /\ r = "ok"
    /\ BlockArrives(b)
    /\ block_source' = BufferWith(src, b)
    /\ \E evict \in Evictions(b) :
         IF evict THEN /\ dirty' = NoDirty(dirty)
                       /\ disk' = WrittenOut(DirtyWith(b, v), disk, Blocks)
                  ELSE dirty' = DirtyWith(b, v) /\ UNCHANGED disk
    /\ UNCHANGED <<accounting, requested_blocks, verification, blame>>

Queued == {s \in Slots : jobs[s] # None /\ jobs[s].verdict = "queued"}
Finished == {s \in Slots : jobs[s] # None /\ jobs[s].verdict # "queued"}
PoolAccepts == AsyncVerification /\ Cardinality(Queued) < QueueCapacity

\* mark_piece_verifying and submit; the requests stay reserved.
SubmitJob(i, sources) ==
    /\ PoolAccepts
    /\ pieces_verifying' = pieces_verifying \cup {i}
    /\ \E s \in {t \in Slots : jobs[t] = None} :
         jobs' = [jobs EXCEPT ![s] = [piece |-> i, sources |-> sources, verdict |-> "queued"]]
    /\ UNCHANGED <<accounting, requested_blocks, blame>>

\* Mutant: a refused submission leaves the piece marked as verifying.
VerifyInPlaceMarked(src, d, k, i, sources, r) ==
    /\ ~PoolAccepts
    /\ pieces_verifying' = IF AsyncVerification THEN pieces_verifying \cup {i} ELSE pieces_verifying
    /\ UNCHANGED jobs
    /\ \E verdict \in Verdicts(d, k, i) :
         \/ verdict = "valid" /\ PieceValid(d, k, i) /\ r = "ok"
         \/ /\ verdict = "corrupt" /\ PieceCorrupt(d, k, i, sources)
            /\ r = IF src \in Ousted(sources) THEN "stuck" ELSE "err"

\* Verification in place: no pool, or its queue is full (the piece is then
\* unmarked again, even if an earlier job of it is still queued).  A session
\* that is stuck keeps the context locked: nobody sees what it left undone.
VerifyInPlace(src, d, k, i, sources, r) ==
    /\ ~PoolAccepts
    /\ pieces_verifying' = IF AsyncVerification THEN pieces_verifying \ {i} ELSE pieces_verifying
    /\ UNCHANGED jobs
    /\ \E verdict \in Verdicts(d, k, i) :
         \/ verdict = "valid" /\ PieceValid(d, k, i) /\ r = "ok"
         \/ /\ verdict = "corrupt" /\ PieceCorrupt(d, k, i, sources)
            /\ r = IF src \in Ousted(sources) THEN "stuck" ELSE "err"

CompletePiece(src, b, v, r) ==
    LET i == PieceOf(b)
        sources == [n \in BlockIdx |-> BufferWith(src, b)[<<i, n>>]]
    IN  /\ ~Absorbed(b) /\ ~V2Rejects(b, v) /\ Completes(src, b)
        /\ StagingCleared(i)
        /\ block_source' = [c \in Blocks |-> IF c \in BlocksOf(i) THEN None ELSE block_source[c]]
        /\ \E evict \in Evictions(b) :
             LET d == IF evict THEN NoDirty(dirty) ELSE DirtyWith(b, v)
                 k == IF evict THEN WrittenOut(DirtyWith(b, v), disk, Blocks) ELSE disk
             IN  \/ SubmitJob(i, sources) /\ r = "ok" /\ dirty' = d /\ disk' = k
                 \/ VerifyInPlace(src, d, k, i, sources, r)

\* process_piece_block after the argument checks.
TakeBlock(src, b, v, r) ==
    \/ AbsorbBlock(b, r)
    \/ RefuseBlock(b, v, r)
    \/ StoreBlock(src, b, v, r)
    \/ CompletePiece(src, b, v, r)

ProcessPieceBlock(src, b, v, r) ==
    \/ RejectArguments(v, r)
    \/ v \in Content /\ TakeBlock(src, b, v, r)

-----------------------------------------------------------------------------
(* Peer messages: read, dispatched under both locks, then results drained. *)

\* What a source may send as a block.  The length of a mirror's answer is
\* checked before it is handed on.
Payloads(q) ==
    {"good"} \cup (IF q \in Faulty THEN {"bad"} ELSE {})
             \cup (IF q \in Faulty \cap Peers THEN {"malformed"} ELSE {})

\* handle_peer_message, Piece: any block is accepted, asked for or not.  The
\* entry that begin rounds down to leaves the list before the block is looked
\* at; b is then the block that was named, in the list or not.
HandlePiece(p, b, v) ==
    /\ pc[p] = "read" /\ CtxFree(p)
    /\ reserved_blocks' = [reserved_blocks EXCEPT ![p] = Without(@, b)]
    /\ outstanding' = [outstanding EXCEPT ![p] = Dec(@)]
    /\ \E r \in {"ok", "err", "stuck"} :
         /\ ProcessPieceBlock(p, b, v, r)
         /\ Goto(p, CASE r = "ok" -> "drain" [] r = "err" -> "exit" [] r = "stuck" -> "stuck")
    /\ UNCHANGED <<unchoked, to_send, sending, expired, webseed>>

\* handle_peer_message, Reject: released whether or not it was p's request.
HandleReject(p, b) ==
    /\ pc[p] = "read" /\ CtxFree(p)
    /\ reserved_blocks' = [reserved_blocks EXCEPT ![p] = Without(@, b)]
    /\ outstanding' = [outstanding EXCEPT ![p] = Dec(@)]
    /\ requested_blocks' = requested_blocks \ {b}
    /\ Goto(p, "drain")
    /\ UNCHANGED <<accounting, block_source, staging, verification, blame, store,
                   unchoked, to_send, sending, expired, webseed>>

\* handle_peer_message, Choke, Unchoke and the messages that change nothing here.
HandleChoking(p, choke) ==
    /\ pc[p] = "read" /\ CtxFree(p)
    /\ unchoked' = IF choke THEN unchoked \ {p} ELSE unchoked \cup {p}
    /\ Goto(p, "drain")
    /\ UNCHANGED <<accounting, requested_blocks, block_source, staging, verification, blame,
                   store, reserved_blocks, outstanding, to_send, sending, expired, webseed>>

\* apply_piece_verification_result for one result of the batch; the context
\* stays locked until the batch is done.
DrainResult(p, s) ==
    /\ pc[p] \in {"drain", "draining"} /\ CtxFree(p)
    /\ s \in Finished
    /\ LET i == jobs[s].piece
       IN  /\ \/ jobs[s].verdict = "valid" /\ PieceValid(dirty, disk, i)
              \/ jobs[s].verdict = "corrupt" /\ PieceCorrupt(dirty, disk, i, jobs[s].sources)
           /\ pieces_verifying' = pieces_verifying \ {i}
    /\ jobs' = [jobs EXCEPT ![s] = None]
    /\ Goto(p, "draining")
    /\ UNCHANGED <<block_source, staging, session, webseed>>

\* The batch is over; a piece hashed but not drained had not been sent yet.
DrainDone(p) ==
    /\ pc[p] \in {"drain", "draining"} /\ CtxFree(p)
    /\ Goto(p, "expire")
    /\ UNCHANGED <<accounting, requested_blocks, block_source, staging, verification,
                   blame, store, session, webseed>>

\* execute_verification_job on a worker thread: storage is read with no lock
\* of the context held.
WorkerHash(s) ==
    /\ s \in Queued
    /\ \E verdict \in Verdicts(dirty, disk, jobs[s].piece) :
         jobs' = [jobs EXCEPT ![s].verdict = verdict]
    /\ UNCHANGED <<accounting, requested_blocks, block_source, staging, pieces_verifying,
                   blame, store, pc, session, webseed>>

-----------------------------------------------------------------------------
(* start_webseed_loop                                                      *)

CtxFreeForWebSeed == \A q \in Peers : pc[q] \notin {"draining", "stuck"}

\* Reserve the next pending block of a missing piece (the first such piece in
\* the code; left open here, like the choices of the peers).
WebSeedReserve ==
    /\ Mirrors # {} /\ ws_block = None /\ status = "Downloading" /\ CtxFreeForWebSeed
    /\ \E i \in Pieces \ bitfield : \E b \in Lowest(Pending(i)) :
         ws_block' = b /\ requested_blocks' = requested_blocks \cup {b}
    /\ ws_tried' = {}
    /\ UNCHANGED <<accounting, block_source, staging, verification, blame, store, pc, session>>

\* Mirror m answered; on an error the next mirror is tried.
WebSeedBlock(m, v) ==
    /\ ws_block # None /\ m \notin ws_tried /\ CtxFreeForWebSeed
    /\ \E r \in {"ok", "err"} :
         /\ ProcessPieceBlock(m, ws_block, v, r)
         /\ ws_block' = IF r = "ok" THEN None ELSE ws_block
         /\ ws_tried' = IF r = "ok" THEN {} ELSE ws_tried \cup {m}
    /\ UNCHANGED <<pc, session>>

WebSeedMirrorFails(m) ==
    /\ ws_block # None /\ m \notin ws_tried
    /\ ws_tried' = ws_tried \cup {m}
    /\ UNCHANGED <<accounting, requested_blocks, block_source, staging, verification, blame,
                   store, pc, session, ws_block>>

\* Mutant: the reservation survives the failure of every mirror.
WebSeedReleaseKeeps ==
    /\ ws_block # None /\ ws_tried = Mirrors /\ CtxFreeForWebSeed
    /\ ws_block' = None /\ ws_tried' = {}
    /\ UNCHANGED <<accounting, requested_blocks, block_source, staging, verification, blame,
                   store, pc, session>>

\* No mirror delivered: the reservation is released.
WebSeedRelease ==
    /\ ws_block # None /\ ws_tried = Mirrors /\ CtxFreeForWebSeed
    /\ requested_blocks' = requested_blocks \ {ws_block}
    /\ ws_block' = None /\ ws_tried' = {}
    /\ UNCHANGED <<accounting, block_source, staging, verification, blame, store, pc, session>>

-----------------------------------------------------------------------------
RequestSteps(p) ==
    \/ RequestStandard(p) \/ RequestEndgame(p) \/ RequestFast(p) \/ RequestNothing(p)
    \/ RequestSent(p) \/ RequestFailed(p)

SessionSteps(p) ==
    \/ SessionExits(p) \/ ReadNothing(p) \/ ExpireRequests(p) \/ ReleaseExpired(p)
    \/ RequestSteps(p)
    \/ (\E s \in Slots : DrainResult(p, s)) \/ DrainDone(p)

MessageSteps(p) ==
    \/ \E b \in Blocks : \E v \in Payloads(p) : HandlePiece(p, b, v)
    \/ \E b \in Blocks : HandleReject(p, b)
    \/ \E choke \in BOOLEAN : HandleChoking(p, choke)

WebSeedSteps ==
    \/ WebSeedReserve \/ WebSeedRelease
    \/ \E m \in Mirrors : WebSeedMirrorFails(m) \/ (\E v \in Payloads(m) : WebSeedBlock(m, v))

Next ==
    \/ \E p \in Peers : Connect(p) \/ SessionFails(p) \/ SessionSteps(p) \/ MessageSteps(p)
    \/ \E s \in Slots : WorkerHash(s)
    \/ WebSeedSteps

Spec == Init /\ [][Next]_vars

-----------------------------------------------------------------------------
(* Fairness: session threads keep running; a peer that stays connected and *)
(* is asked again and again eventually unchokes and answers.               *)

Answer(p, b) == Asked(p, b) /\ HandlePiece(p, b, "good")

Fairness ==
    /\ \A p \in Peers : /\ WF_vars(Connect(p)) /\ WF_vars(SessionSteps(p))
                        /\ SF_vars(p \notin unchoked /\ HandleChoking(p, FALSE))
                        /\ \A b \in Blocks : SF_vars(Answer(p, b))
    /\ \A s \in Slots : WF_vars(WorkerHash(s))

FairSpec == Spec /\ Fairness

-----------------------------------------------------------------------------
(* Properties                                                              *)

Phases == {"idle", "read", "drain", "draining", "expire", "release", "request",
           "writing", "exit", "stuck"}

ContextType ==
    /\ bitfield \subseteq Pieces /\ pieces_missing \subseteq Pieces
    /\ total_downloaded \in Nat /\ status \in {"Downloading", "Seeding"}
    /\ requested_blocks \subseteq Blocks
    /\ block_source \in [Blocks -> Sources \cup {None}]
    /\ staged \in [Blocks -> Seq(Peers)]
    /\ committed \subseteq Blocks /\ preempted \subseteq Blocks
    /\ pieces_verifying \subseteq Pieces /\ jobs \in [Slots -> Job \cup {None}]
    /\ bad_peer_scores \in [Sources -> 0 .. BlacklistScore] /\ peer_swarm \subseteq Peers
    /\ dirty \in [Blocks -> Content] /\ disk \in [Blocks -> Content]

ThreadType ==
    /\ pc \in [Peers -> Phases] /\ unchoked \subseteq Peers
    /\ reserved_blocks \in [Peers -> SUBSET Entry]
    /\ outstanding \in [Peers -> Nat] /\ to_send \in [Peers -> Nat]
    /\ sending \in [Peers -> Blocks \cup {None}]
    /\ expired \in [Peers -> SUBSET Entry]
    /\ ws_block \in Blocks \cup {None} /\ ws_tried \subseteq Mirrors

\* The shape of the state: of the shared context and of the threads.
TypeOK == ContextType /\ ThreadType

\* A piece in the bitfield (announced with Have, served to peers) reads back
\* intact: no later block, flush, eviction or discard spoils it.
LocalIntact == \A i \in bitfield : Intact(dirty, disk, i)


\* Who will still release or satisfy the reservation of block b.
Owned(b) ==
    \/ \E p \in Peers : Asked(p, b) \/ sending[p] = b \/ b \in BlocksIn(expired[p])
    \/ ws_block = b
    \/ block_source[b] # None
    \/ PieceOf(b) \in pieces_verifying

\* No reservation is orphaned: a reserved block was received, is being
\* verified, or sits in a request list that a timeout or exit will release.
ReservationOwned == \A b \in requested_blocks : Owned(b)

\* Session p ends over block b, and nobody is blamed: writing its Request failed,
\* or what p sent was malformed or refused after its entry had left the list.
FailsOver(p, b) ==
    /\ pc'[p] = "exit" /\ UNCHANGED bad_peer_scores
    /\ sending[p] = b \/ (Asked(p, b) /\ ~Asked(p, b)')

\* A reservation loses its last owner in two ways only: the session that dealt
\* with the block failed over it, or the staging cache absorbed the block
\* because an earlier copy of it, refused, counts as committed.  No timeout,
\* reject, lost connection, blame, stolen or cancelled request, late answer or
\* mirror that gives up orphans a block.
OrphanedOnlyByFailure ==
    [][\A b \in requested_blocks' :
          \/ Owned(b)'
          \/ b \in requested_blocks /\ ~Owned(b)
          \/ \E p \in Peers : FailsOver(p, b)
          \/ b \in committed /\ block_source[b] = None]_vars

\* A block the adaptive staging cache takes for committed is in a piece buffer:
\* what on_block_arrived absorbs from then on are redundant copies.
CommittedIsBuffered == \A b \in committed : block_source[b] # None

\* A blacklisted peer is out of the swarm and stays out, whichever thread
\* reported it and whatever its own session was doing.
BlacklistedOut == \A p \in peer_swarm : bad_peer_scores[p] < BlacklistScore

\* A piece judged valid twice (two background jobs, or a job and an in-place
\* check) is counted once in total_bytes_downloaded.
PiecesCountedOnce == total_downloaded = Cardinality(bitfield)

\* A piece marked as verifying has a job or a result that will unmark it.
VerifyingHasJob ==
    \A i \in pieces_verifying : \E s \in Slots : jobs[s] # None /\ jobs[s].piece = i

\* The last verdict is never missed: the torrent seeds exactly when every
\* piece is local.
SeedingIffComplete == status = "Seeding" <=> bitfield = Pieces

PhaseFits(p) ==
    /\ pc[p] = "writing" => sending[p] \in Blocks /\ to_send[p] > 0
    /\ pc[p] # "writing" => sending[p] = None
    /\ pc[p] # "release" => expired[p] = {}
    /\ pc[p] = "idle" => reserved_blocks[p] = {}
    /\ outstanding[p] <= MaxOutstanding
    /\ pc[p] \in {"request", "writing"} => outstanding[p] + to_send[p] <= MaxOutstanding

\* What a session keeps between its critical sections fits its phase: a block
\* is in flight to the socket only while a Request is written, timed-out
\* entries exist only until they are released, an idle session holds nothing,
\* and neither the counter nor what the running send_block_requests may add to
\* it exceeds the pipeline limit.
SessionConsistent == \A p \in Peers : PhaseFits(p)

\* No session waits for a lock it holds itself.
NoSelfDeadlock == \A p \in Peers : pc[p] # "stuck"

\* What a bad network does to a session.
Disturbance ==
    \E p \in Peers : \/ SessionFails(p) \/ RequestFailed(p)
                     \/ p \in unchoked /\ HandleChoking(p, TRUE)
                     \/ \E b \in requested_blocks : HandleReject(p, b)
                     \/ ExpireRequests(p) /\ expired'[p] # {}

\* remove_peer failed for p: it has no session and add_peer refuses a new one.
Stranded(p) == pc[p] = "idle" /\ p \in peer_swarm

\* Whatever timeouts, rejects, chokes and lost connections came before, once
\* they stop and the peers answer what they are asked, the download completes,
\* as long as one peer that has the pieces is not left stranded in the swarm.
RecoversAndCompletes ==
    <>[][~Disturbance]_vars /\ <>[](\E p \in Peers : ~Stranded(p))
        => <>(status = "Seeding")
=============================================================================
