------------------------------- MODULE SyncModes -------------------------------
(***************************************************************************)
(* How a node that starts gets from ConsensusMode::Sync to Live            *)
(* (state/src/lib.rs, state/src/statesync.rs, the Sync branch of           *)
(* state/src/consensus.rs): it fetches the last 2 * execution_delay blocks *)
(* up to its root with block sync, has the execution state of the root's   *)
(* delayed block synced unless it has executed that block, and meanwhile   *)
(* listens to proposals: when they show a finalized block too far ahead it *)
(* starts again with that block as root.                                   *)
(*                                                                         *)
(* The actors are KinetState, block sync, the loopback executor that       *)
(* brings back the events KinetState sends itself, and the state-sync      *)
(* executor with its thread (statesync-executor/src), which is told a      *)
(* target and reports DoneSync over two channels.  ParentExecutor decides  *)
(* whose event is handled next (updaters/src/parent.rs).                   *)
(*                                                                         *)
(* Blocks are the sequence numbers of the finalized chain, 0 the genesis   *)
(* block.  The proposal of block s carries the QC of s - 1.                *)
(***************************************************************************)
EXTENDS Integers, Sequences, FiniteSets

CONSTANTS
    execution_delay,
    resync_threshold,   \* statesync_to_live_threshold
    Roots,              \* roots the node may find in its forkpoint
    Gaps,               \* blocks s whose QC does not commit: a round is between s - 2 and s - 1
    MaxSeq              \* bound: the last block proposed

\* The thresholds of the node binary are 600 blocks, the delay is 3.  A root
\* whose chain is shorter than the blocks asked for cannot be completed.
ASSUME SyncModesAssumption ==
    /\ {execution_delay, resync_threshold} \subseteq Nat \ {0}
    /\ execution_delay <= resync_threshold
    /\ MaxSeq \in Nat
    /\ Gaps \subseteq Nat
    /\ Roots \subseteq {0} \cup (2 * execution_delay .. MaxSeq)

VARIABLES
    node,        \* ConsensusMode, with its BlockBuffer
    wanted,      \* ranges that block sync is fetching for the node
    loopback,    \* events KinetState sent itself, in order
    client,      \* StateSyncExecutor: whether it is Live, and its last target
    new_targets, \* targets on their way to the state-sync thread
    targets,     \* current_target and next_target of the thread
    done,        \* DoneSync targets on their way back
    executed,    \* the last block whose state is in the database
    panicked

vars == <<node, wanted, loopback, client, new_targets, targets, done, executed, panicked>>

NoTarget == 0      \* genesis is in the database and never a target
min_num_blocks == 2 * execution_delay

RequestSync(root, qc) == [kind |-> "RequestSync", root |-> root, qc |-> qc]
BlockSync(range) == [kind |-> "BlockSync", range |-> range]
Blocks(range) == range.last - range.num + 1 .. range.last

-----------------------------------------------------------------------------
(* BlockBuffer.                                                            *)

\* root_seq_num is Some: the root block itself is there.
RootKnown(s) == s.root = 0 \/ s.root \in s.full

\* root_parent_chain
Chain(s) == {b \in 1..s.root : b..s.root \subseteq s.full}

\* needs_blocksync: the range to ask for, if any.
NeedsBlocksync(s) ==
    LET have == Cardinality(Chain(s))
    IN  IF s.root = 0 \/ have >= min_num_blocks THEN {}
        ELSE {[last |-> s.root - have, num |-> min_num_blocks - have]}

\* re_root
ReRoot(s, root) ==
    [s EXCEPT !.full = {b \in @ : b + min_num_blocks >= root}
                         \cup {b \in {s.proposals[i] : i \in DOMAIN s.proposals} : b <= root},
              !.headers = {b \in @ : b >= root},
              !.root = root]

\* handle_proposal, the part that stores block b.
Buffer(s, b) ==
    LET all == Append(s.proposals, b)
    IN  [s EXCEPT !.headers = @ \cup {b},
                  !.proposals = IF Len(all) > resync_threshold THEN Tail(all) ELSE all]

\* handle_proposal, the part that finds a new root: the QC of b commits b - 2,
\* which is too far ahead.
FindsNewRoot(s, b) ==
    /\ {b - 1, b - 2} \subseteq s.headers
    /\ b \notin Gaps
    /\ b - 2 > s.root + resync_threshold

-----------------------------------------------------------------------------
(* KinetState.  A handler maps the node's state, which carries the commands *)
(* of the step, to the next.                                                *)

\* The target of state sync: the block whose state the root carries.
Target(s) == IF s.root > execution_delay THEN s.root - execution_delay ELSE 0

\* maybe_start_consensus once the database is synced.
StartWhenSynced(s) ==
    IF NeedsBlocksync(s) # {} THEN [s EXCEPT !.want = NeedsBlocksync(s)]
    ELSE [s EXCEPT !.mode = "Live", !.start = TRUE]

\* Mutant: DoneSync of a target that was given up is taken for the current one.
DoneSync_AnyTarget(s, n) ==
    IF s.mode = "Live" THEN [s EXCEPT !.panic = TRUE]
    ELSE IF ~RootKnown(s) \/ s.db # "Started" THEN s
    ELSE StartWhenSynced([s EXCEPT !.db = "Done"])

\* The handler of StateSyncEvent::DoneSync(n).
DoneSync(s, n) ==
    IF s.mode = "Live" \/ s.db = "Done" THEN [s EXCEPT !.panic = TRUE]
    ELSE IF ~RootKnown(s) \/ n < Target(s) THEN s
    ELSE IF n # Target(s) \/ s.db # "Started" THEN [s EXCEPT !.panic = TRUE]
    ELSE StartWhenSynced([s EXCEPT !.db = "Done"])

\* maybe_start_consensus; a delayed block that was executed needs no state sync.
MaybeStartConsensus(s) ==
    IF NeedsBlocksync(s) # {} THEN [s EXCEPT !.want = NeedsBlocksync(s)]
    ELSE IF s.db = "Done" THEN StartWhenSynced(s)
    ELSE IF s.db = "Started" THEN s
    ELSE IF Target(s) <= executed THEN DoneSync([s EXCEPT !.db = "Started"], Target(s))
    ELSE [s EXCEPT !.db = "Started", !.sync = {Target(s)}]

\* Mutant: the database is taken to be on its way to the new root's state.
NewTarget_KeepsStatus(s, root, qc) ==
    IF s.mode = "Live" THEN [s EXCEPT !.panic = TRUE]
    ELSE MaybeStartConsensus([ReRoot(s, root) EXCEPT !.high = qc, !.updating_target = FALSE])

\* The handler of StateSyncEvent::RequestSync.
NewTarget(s, root, qc) ==
    IF s.mode = "Live" THEN [s EXCEPT !.panic = TRUE]
    ELSE MaybeStartConsensus([ReRoot(s, root) EXCEPT !.high = qc, !.db = "Waiting", !.updating_target = FALSE])

\* The handler of StateSyncEvent::BlockSync; a block above the root is dropped.
BlocksFound(s, blocks) ==
    IF s.mode = "Live" THEN s
    ELSE MaybeStartConsensus([s EXCEPT !.full = @ \cup {b \in blocks : RootKnown(s) => b <= s.root}])

-----------------------------------------------------------------------------
\* A node that starts, before maybe_start_consensus; high is the block that its
\* high certificate is for.
Fresh(root) ==
    [mode |-> "Sync", root |-> root, high |-> IF root = 0 THEN 0 ELSE root + 1, db |-> "Waiting",
     updating_target |-> FALSE, full |-> {}, headers |-> {}, proposals |-> <<>>,
     want |-> {}, sync |-> {}, start |-> FALSE, panic |-> FALSE]

Quiet(s) == [s EXCEPT !.want = {}, !.sync = {}, !.start = FALSE]

\* The start with root, with a database that may lag behind it.
Init ==
    \E root \in Roots :
        /\ executed \in 0..root
        /\ LET s == MaybeStartConsensus(Fresh(root))
           IN  /\ node = Quiet(s)
               /\ wanted = s.want
               /\ client = [live |-> s.start, target |-> NoTarget]
        /\ loopback = <<>> /\ new_targets = <<>> /\ done = <<>>
        /\ targets = [current |-> NoTarget, next |-> NoTarget]
        /\ panicked = FALSE

\* The commands of a step: block sync is asked (an open range is not asked for
\* twice), update_target asserts that targets grow, and StartExecution makes
\* the executor Live and drops the client with its channels.
Step(s, back) ==
    /\ ~panicked
    /\ node' = Quiet(s)
    /\ wanted' = wanted \cup s.want
    /\ client' = [live |-> client.live \/ s.start,
                  target |-> IF s.sync = {} THEN client.target ELSE CHOOSE n \in s.sync : TRUE]
    /\ new_targets' = IF s.sync = {} THEN new_targets ELSE Append(new_targets, CHOOSE n \in s.sync : TRUE)
    /\ done' = IF s.start THEN <<>> ELSE back
    /\ panicked' = (\/ s.panic
                    \/ s.start /\ client.live
                    \/ \E n \in s.sync : client.live \/ n <= client.target)

\* Mutant: any executor's events may be taken first.
LoopbackIsPolledFirst_Not == TRUE

\* ParentExecutor::poll_next: the router and the state-sync executor are polled
\* when the loopback executor has nothing; the ledger is polled before it.
LoopbackIsPolledFirst == loopback = <<>>

\* A verified proposal of block b arrives from the router while syncing.
HandleProposal(b) ==
    /\ ~panicked /\ LoopbackIsPolledFirst
    /\ node.mode = "Sync"
    /\ RootKnown(node) /\ b >= node.root
    /\ LET s == Buffer(node, b)
           resync == FindsNewRoot(s, b) /\ ~s.updating_target
       IN  /\ node' = [s EXCEPT !.updating_target = @ \/ resync]
           /\ loopback' = IF resync THEN Append(loopback, RequestSync(b - 2, b - 1)) ELSE loopback
    /\ UNCHANGED <<wanted, client, new_targets, targets, done, executed, panicked>>

\* Block sync has fetched a range, with the last part from the ledger or from a
\* peer; nobody has the genesis block.
BlocksArrive(range) ==
    /\ ~panicked
    /\ range \in wanted /\ range.num <= range.last
    /\ wanted' = wanted \ {range}
    /\ loopback' = Append(loopback, BlockSync(range))
    /\ UNCHANGED <<node, client, new_targets, targets, done, executed, panicked>>

HandleLoopback ==
    /\ loopback # <<>>
    /\ LET e == Head(loopback)
       IN  Step(IF e.kind = "RequestSync" THEN NewTarget(node, e.root, e.qc)
                ELSE BlocksFound(node, Blocks(e.range)), done)
    /\ loopback' = Tail(loopback)
    /\ UNCHANGED <<targets, executed>>

\* The event that StateSyncExecutor::poll_next takes from the thread's channel.
HandleDoneSync ==
    /\ LoopbackIsPolledFirst
    /\ ~client.live /\ done # <<>>
    /\ Step(DoneSync(node, Head(done)), Tail(done))
    /\ UNCHANGED <<loopback, targets, executed>>

\* The thread receives UpdateTarget.
ThreadReceives ==
    /\ ~panicked
    /\ new_targets # <<>>
    /\ new_targets' = Tail(new_targets)
    /\ targets' = IF targets.current = NoTarget THEN [targets EXCEPT !.current = Head(new_targets)]
                  ELSE [targets EXCEPT !.next = Head(new_targets)]
    /\ UNCHANGED <<node, wanted, loopback, client, done, executed, panicked>>

\* DoneSync is sent only when there is no next target; the send fails when the
\* executor has dropped its end.
ThreadReports ==
    /\ done' = IF targets.next = NoTarget THEN Append(done, targets.current) ELSE done
    /\ panicked' = (client.live /\ targets.next = NoTarget)

\* The thread has the state of its target: has_reached_target, finalize.
ThreadReachesTarget ==
    /\ ~panicked
    /\ targets.current # NoTarget
    /\ executed' = targets.current
    /\ targets' = [current |-> targets.next, next |-> NoTarget]
    /\ ThreadReports
    /\ UNCHANGED <<node, wanted, loopback, client, new_targets>>

Ranges == [last : 0..MaxSeq, num : 1..min_num_blocks]

Next ==
    \/ \E b \in 1..MaxSeq : HandleProposal(b)
    \/ \E range \in Ranges : BlocksArrive(range)
    \/ HandleLoopback \/ HandleDoneSync
    \/ ThreadReceives \/ ThreadReachesTarget

\* Block sync gets what it asks for, the thread receives what it is sent and
\* gets the state from its peers, and no executor's events are left for ever.
Fairness ==
    /\ \A range \in Ranges : WF_vars(BlocksArrive(range))
    /\ WF_vars(HandleLoopback) /\ WF_vars(HandleDoneSync)
    /\ WF_vars(ThreadReceives) /\ WF_vars(ThreadReachesTarget)

Spec == Init /\ [][Next]_vars /\ Fairness

-----------------------------------------------------------------------------
(* What must hold.                                                         *)

\* No assertion or unreachable! is met in KinetState, the state-sync executor
\* or its thread: DoneSync is for the current target, RequestSync does not
\* reach a node that went live, targets grow, and nobody sends into a dropped
\* channel.
NeverPanics == ~panicked

\* A node goes live with all it needs: the blocks that validation looks back
\* at, the state of the delayed block of the root it ended up with, and a
\* state-sync thread that has nothing left to do when execution takes over the
\* database.
StartsOnSyncedState ==
    node.mode = "Live" =>
        /\ node.root = 0 \/ node.root - min_num_blocks + 1 .. node.root \subseteq node.full
        /\ executed >= Target(node)
        /\ targets.current = NoTarget /\ new_targets = <<>>

\* However often the root moves on, the node goes live in the end.
GoesLive == <>(node.mode = "Live")
=============================================================================
