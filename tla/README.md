# A TLA+ verification of kinet

kinet is a Rust node of a BFT block chain in the style of MonadBFT: a pipelined
two-phase protocol in which a quorum certificate (QC) of round *r + 1* for a block
whose header holds the QC of round *r* commits the parent, rounds that fail end with
a timeout certificate (TC), and a *tip* that was voted for and not certified is either
reproposed or explicitly dropped with a no-endorsement certificate (NEC).  This
directory holds TLA+ modules translated from the source, the TLC models that check
them, and TLAPS proofs of the main results for every value of the parameters.

Paths below are relative to `src/`.

## 1. Inventory

The consensus process is a single-threaded state machine (`state/src/lib.rs`,
`KinetState::update`): an event goes in, commands come out, and executors
(`updaters/`) carry them out concurrently.  What is hard therefore sits *between*
events: messages of many nodes in any order, timers that were replaced after they ran
out, a crash between two commands, and several collectors whose rounds move
independently.

| Component | State | Operations | Talks to | What is hard | What makes it correct |
|---|---|---|---|---|---|
| `Safety` (`consensus/src/validation/safety.rs`) | highest vote, no-endorsement and proposal rounds, high tip, round of the highest QC | `process_certificate`, `vote`, `no_endorse`, `timeout`, `propose` | called by the Pacemaker and by every handler | the order of vote, no-endorsement and timeout in one round; restart | one QC per round; an NEC and a QC of a round agree; no assertion fails |
| Certificate checks (`consensus/src/validation/signing.rs`, `consensus-types/`) | none | `verify_qc`, `verify_tc`, `verify_tip`, `verify_nec`, `well_formed_*` | before every handler | which combinations of certificates a faulty sender may still put together | what verifies was signed by a supermajority, and extends what it must |
| `Pacemaker` (`consensus/src/pacemaker.rs`) | high certificate, phase, pending timeouts, invalid senders, round timer | `process_certificate`, `process_local_timeout`, `process_remote_timeout` | Safety, timers, router | lost timeouts, bad signatures, nodes in different rounds | every TC is backed; the timer is always armed; nodes do not get stuck |
| `VoteState` (`consensus/src/vote_state.rs`) | pending votes per round and block, invalid voters, earliest round | `process_vote`, `start_new_round` | `handle_vote_message`, `process_qc` | duplicates, future votes, bad signatures found late, rounds moved by a TC | one well-signed QC per round, never starved |
| Vote pacing (`consensus-state/src/lib.rs`, `updaters/src/timer.rs`) | `scheduled_vote`, vote timer | `try_vote`, `handle_vote_timer`, `send_vote_and_reset_timer` | timers, router | late timer events, a vote still waiting in the next round | votes leave in order, once, and do leave |
| `ConsensusState` handlers (`consensus-state/src/lib.rs`) | the above, the block tree, block sync requests | one handler per message, `process_qc`, `process_tc`, `try_commit`, `try_propose` | everything | several collectors advanced by one message | the properties of the parts |
| `NoEndorsementState` (`consensus/src/no_endorsement_state.rs`) | as VoteState, keyed by the tip's QC round | `process_no_endorsement`, `start_new_round`, `get_nec` | handlers, `try_propose` | as VoteState | one NEC per round and tip QC |
| Validator set (`validator/src/validator_set.rs`, `weighted_round_robin.rs`) | stakes | `create`, `has_super_majority_votes`, `has_honest_vote`, `get_leader` | every check | integer division, modulo bias | quorums share an honest member, the honest ones are a quorum, leaders are drawn by stake |
| Epochs (`validator/src/epoch_manager.rs`, `updaters/src/triedb_val_set.rs`, `config_file.rs`) | start rounds, validator sets, forkpoint and validators.toml | `schedule_epoch_start`, `checkpoint`, `write_checkpoint`, `write_validator_set`, `Forkpoint::validate` | commits, KinetState, files | boundary blocks committed twice, crash between two files, a reader thread that lags | start rounds agree, a live node can restart, validators arrive |
| `BlockTree` (`blocktree/`) | root, entries, coherency | `add`, `prune`, `try_update_coherency`, `maybe_fill_path_to_root` | handlers, block policy | pruning while other branches grow, blocks before their parents | no expect fails; finalized blocks are one chain; what can be committed is; gaps are requested |
| `BlockSync` (`blocksync/`, `state/src/blocksync.rs`) | requests for headers and payloads of self and peers, slots in flight, timers | requests, responses, cancellation, timeouts, service of peers | handlers, router, ledger | late, duplicated and unsolicited answers, retries, a shared slot limit, a mode switch | the slot count is exact; nothing that is missing is unasked; no open request is stranded |
| `KinetState` (`state/`) | sync mode, block buffer, forkpoint | `update`, `maybe_start_consensus`, `RequestSync`, `DoneSync`, checkpoints | all child states, loopback, state-sync executor | the root moves while blocks and state are being fetched; crash before the forkpoint is written | goes live, on a synced state, without meeting an assertion |
| State-sync client (`statesync-executor/src/client/`) | peers and their versions, pending and in-flight requests, chunks held, the thread's targets | `queue_request`, `poll`, `handle_response`, `handle_bad_version`, `handle_not_whitelisted`, `update_target` | `KinetState`, router, the database thread | lost, repeated and mixed chunks of several sessions, retries, two channels | what is finished is complete, of one peer and target; the target is reported |
| State-sync server, ledger, execution reads | | IPC and database reads | execution process | external process | not modelled |
| Block policy, fee market (`eth-block-policy/`, `tfm/`) | account balances and nonces of uncommitted blocks | `check_coherency`, `update_committed_block` | block tree | stale state reads | an included transaction can pay |
| Transaction pool, RaptorCast, wireauth, data plane, peer discovery and scoring, RPC, archive, cryptography, tools | | | | | listed in `PROJECT.json` with the reason they are left out |

The hazards this list leads to, each at its line and with the property that would
catch it, are in `PROJECT.json`.

## 2. Modules

| Module | Models | State | Actions |
|---|---|---|---|
| `CertificateCollector` | the abstract promise of a signature collector: certificates of supermajorities, of increasing rounds | floor, certificates | `Certify`, `GiveUp` |
| `VoteState` | the QC collector of one node with `handle_vote_message`, `process_qc` and `process_tc`; implements `CertificateCollector` | current and earliest round, buckets of signatures, invalid voters | `HandleVoteMessage`, `ProcessQC`, `ProcessTC` |
| `NoEndorsementState` | the NEC collector with its handlers; implements `CertificateCollector` | the same, buckets per tip QC round, stored NECs | `HandleNoEndorsementMessage`, `ProcessQC`, `ProcessTC` |
| `ValidatorSet` | the stakes of an epoch, thresholds and leader election | stakes, total, result of `create` | `Create`, `Finish` |
| `KinetBFT` | all honest validators' `Safety` and high certificate, and what every certificate check accepts | `node`, everything that honest validators ever signed, and the certificates each has checkpointed | one per handler: `HandleQC`, `HandleTC`, `HandleProposal`, `HandleProposalWithTC`, `LocalTimeout`, `HandleTimeoutWithTC`, `HandleRoundRecovery`, `Restart` |
| `VotePacing` | `scheduled_vote` and the vote timer of one node | rounds, scheduled vote, running timer, undelivered timer events | `TryVote`, `HandleVoteTimer`, `TimerExpires`, `EnterRound`, `Timeout` |
| `Pacemaker` | timeouts of several nodes over a lossy network | each node's pacemaker and round timer, messages in flight | `HandleTimeoutExpiry`, `HandleCertificate`, `Deliver`, `DeliverFaulty`, `Lose` |
| `BlockTree` | one node's block tree, commits, coherency and block requests | `node` (root, tree, coherent, children, high certificate, requests, what the ledger was sent), the block sync loop | `HandleProposal`, `HandleQC`, `HandleTC`, `HandleNEC`, `HandleBlockSync`, `AddSynced` |
| `Epochs` | one node's epochs across commits, crashes and restarts | start rounds, sets, updater requests, queued file writes, the two files | `HandleCertificate`, `UpdateValidators`, `StartConsensus`, `RequestSync`, `ExecConfigFile`, `Crash`, `Start` |
| `BlockSync` | block sync of one node, for itself and for peers | requests and their targets, slots, fetches, timers and undelivered timer events, peers that wait | one per event: self request, cancellation, ledger and peer response, timer, peers' requests |
| `SyncModes` | from `ConsensusMode::Sync` to `Live`: KinetState, loopback, state-sync executor and its thread composed | block buffer, database status, open ranges, loopback queue, both channels, the thread's targets | `HandleProposal`, `BlocksArrive`, `HandleLoopback`, `HandleDoneSync`, `ThreadReceives`, `ThreadReachesTarget` |
| `StateSyncClient` | the client of state sync and its database thread | `OutboundRequests`, both channels, the thread | `SetTarget`, `QueueRequest`, `TakeDoneSync`, `SendRequest`, `RetryRequest`, `HandleResponse`, `HandleBadVersion`, `HandleNotWhitelisted`, `HandleExpandUpstreamPeers`, `ThreadUpdateTarget`, `ThreadApplies` |
| `*Proofs` | theorems and their proofs; `ValidatorProofs` is about `ValidatorSet` and `Epochs`, `PacemakerProofs` about `Pacemaker` and `VotePacing`, `StateSyncProofs` about `SyncModes` and `StateSyncClient` | | |
| `MC*` | instances for TLC | | |

**How certificates are modelled in `KinetBFT`.**  A certificate is not a message: it
exists as soon as enough signatures exist, a faulty validator's signature always does,
and a handler may be given any certificate that verifies, at any time.  Delay, loss,
duplication and reordering, equivocating and withholding leaders and selective
forwarding are thereby all behaviours of the model, and no property rests on a leader
being honest.  Blocks are constants with their round and the QC in their header;
`ChainAssumption` states what the header checks guarantee of them.  A validator holds a
block as coherent or not: the model lets it vote for any valid block, and no-endorse
any tip.

**Handlers that do several things.**  `handle_proposal_message` first processes the
certificates of the proposal and may then vote: `VoteForProposal` is evaluated in the
state after those certificates.  `handle_timeout_message` processes the QC of the high
extend, then may time out the round it is in and leave it by the TC that the timeout
carries (`HandleTimeoutWithTC`).  A timeout that carries a vote for the high tip adds
the vote and the timeout in one step (`SendTimeout`).

**Restart.**  `Safety::new` marks the current round as voted and no-endorsed and drops
the high tip; once in sync, the node times out the round it starts in
(`state/src/lib.rs`, end of `maybe_start_consensus`).  `Restart` does both.  The messages
of a step go out before its checkpoint is written, and nothing is fsynced
(`state/src/lib.rs:1053`), so `Restart` takes any certificate that was checkpointed since
the last start (`forkpoints`), any number of times.  A node that restarts from an older
one than it held may sign a round a second time; it is recorded in `behind`.

**Pacing.**  The vote timer's event carries a round which `handle_vote_timer` ignores;
starting a timer aborts the one that is running, but not an event that is already on
its way.  `expired` holds those.

**Pacemaker.**  `timed_out` and the rounds of the nodes say which certificates can
exist; a message to another node is lost by `Lose` at any time, any number of times.
The timeout of a node is also delivered to itself, from a queue inside its router
(`raptorcast/src/lib.rs`, `enqueue_message_to_self`), and is not lost.  A TC verifies the
signatures in groups of timeouts that report the same, and stops at the first group with
a bad one: `WithoutInvalid` removes the bad senders group by group, in any order, for as
long as a supermajority is left.  Messages of a
round that the receiver has left are removed from the network at once, as
handle_timeout_message ignores them.

**Block tree.**  The handlers call each other's parts in a fixed order, so each part is
an operator from state to state (`Add`, `MarkCoherent`, `Prune`, `TryCommit`,
`RequestMissing`, ...) and a handler is their composition.  What the environment decides
while a handler runs is `Env`: the blocks that pass `check_coherency` then (execution
may lag behind for any time; within one handler the answers do not change; the verdict
itself, of `eth-block-policy/`, is arbitrary), and whether and what a leader tries to
extend.  The children lists are kept as the code keeps them and not derived from the
tree.  A failed `expect` or `assert` sets `status` to `panic`; the deliberate stop for
state sync is `statesync`.  `Proposal` is what `well_formed_proposal` accepts: without a
TC, or under a TC without a tip, a block may be numbered ahead of the round it is
proposed in.  The loop of `handle_block_sync` is one step per block with every other
handler disabled.  The certificates there can be are constants: `FinalityAssumption` and
`CertificateAssumption` are what this module takes from voting (one QC per round, a
committing QC binds later certificates, nobody votes for a block before its round or for
an invalid one).  `KinetBFTProofs` proves the one QC per round for
behaviours without a restart from an old forkpoint (with one, it says who must have
signed twice), and `FinalityAssumption` as `CommitsAreFinal` under the conditions of section 4; section 5
is about votes before a block's round.

**Collectors.**  A signature is good or bad, and which it is becomes known only when the
bucket reaches a supermajority.  `ImplementsCollector` instantiates
`CertificateCollector` with the collector's earliest round as floor and its
certificates with their good signers as certificates: one certificate of a round, all
of its signatures good, and a round that was given up never comes back.

**Validator set.**  `create` is modelled turn by turn, with its errors.  Node ids are
numbers, in the order that leader election walks through them.  The random word of
leader election is taken over its whole range 0..`MaxWord`; U256 products that overflow
are out of the model's range, as no stake comes near them.

**Epochs.**  The chain is given: its rounds are chosen in Init, with every boundary block
committed before the epoch it schedules (`IsChain`), which is what consensus
guarantees the node.  An event loop step and the executors' writes are separate: the
commands of a step wait in `writes` and are carried out one at a time, and `Crash` may
come between any two.  `HandleCertificate` also stands for blocks that block sync brings
while the certificate stays, and looks up the leader of the round, which panics without
the validators of its epoch.  A validator set is its epoch; reading it from the execution
state (`read_valset_at_block`) is external and comes at any time.  `Panic` records
which assertion or expect stopped the process.

**Block sync.**  A handler maps the component's state, which carries the commands of the
step, to the next.  The ledger answers each fetch once, with or without the block; a
peer may send an answer to any request, asked or not, valid, invalid or refusing.  A
timer that fires after its request was retried leaves its event in `expired`.  The
payload cache (block tree or block buffer) changes at any time.  A peer's request for
headers is answered from the block tree as far back as it goes, and the ledger is asked
for the rest; only the cached headers are kept meanwhile (`WaitFor`), and the answer's
range is recomputed from them and the ledger's part (`RequestedRange`), as in the code.
Ranges are numbers on one chain, and headers are sequences of them.  That the current
epoch has validators, and that a validator has another one to ask, is assumed: `pick_peer`
panics otherwise.

**Sync modes.**  Blocks are the sequence numbers of the finalized chain.  What a step of
KinetState sends itself comes back through the loopback queue, and `ParentExecutor`
polls that queue before the router and before state sync (`LoopbackIsPolledFirst`):
the properties rest on this order, as the mutant of `NeverPanics` shows.

**State-sync client.**  The state is a few prefixes of a few chunks.  Any chunk of any
request that was ever sent may arrive at any time, any number of times, in any session;
timeouts fire at any time.  `Answering` holds the peers that keep answering; the others
may answer too.  A peer that objects to a version names the oldest and the newest it
speaks: it is dropped if ours is not among them, and asked in its newest otherwise, also
when that is newer than ours (`BadVersion`).  `client_panicked` tells the assertions
from the expect of `insert_request`.

## 3. Runs

| Run | Instance | Result |
|---|---|---|
| `vote_state` | 4 validators of equal stake, 1 faulty, 2 blocks, 2 rounds, window 1 | never starved; refines `CertificateCollector` |
| `no_endorsements` | the same validators, 2 tip QC rounds | the assertion holds, NECs are served; refines `CertificateCollector` |
| `validator_set` | every set of up to 4 validators with stakes up to 3 | intersection, honest quorum, fair election |
| `voting` | 4 validators, 1 faulty; genesis, a block, its child and a fresh competitor; 2 rounds, one validator that restarts | 4 properties hold (128,388 states) |
| `vote_pacing` | one node, 5 rounds | 4 properties hold (403 states) |
| `pacemaker` | 2 nodes and a faulty validator, 3 rounds, fairness | 5 properties hold (43,848 states) |
| `tree` | one node that leads rounds 2 and 5; two blocks of round 1, a chain of two on the reproposed one, a block numbered ahead, an invalid tip | 4 properties hold (83,425 states) |
| `epochs` | epochs of 5 blocks, 2 boundaries, 3 starts, fairness | 4 properties hold (109,122 states) |
| `blocksync` | two overlapping ranges, one slot, one peer that asks twice | 5 properties hold (742,503 states) |
| `sync_modes` | genesis or a forkpoint, 10 blocks, the root may move twice, fairness | 3 properties hold (54,202 states) |
| `statesync_client` | 1 prefix of 2 chunks, 2 peers, 2 targets, 2 sessions, fairness | 3 properties hold (222,654 states) |
| `restart` | `voting` without the fresh block | `RestartKeepsCommits` is violated |

**Bounds.**  Four equal validators with one faulty is the smallest set in which
supermajorities are proper subsets and a faulty member can complete two different ones.
Two rounds hold a block, its child's committing QC, the TC and the NEC of the committing
round; the proofs of section 4 lift the results to any number of rounds, blocks and
validators.  `MCBound` of `voting` does not combine a restart with no-endorsements or
votes for the fresh block, nor a restart from an old forkpoint with timeouts of the
second round; the proofs have no such bound.  One restarting validator is enough:
together with the faulty one it is all that two supermajorities of four share, and the
run reaches two QCs of one round by such a restart.  In `Pacemaker` the stakes 2, 2, 1
make every quorum need both nodes, which is the hard case for liveness, and three rounds
let a node fall two rounds behind; with one faulty sender there is only one group to
remove, several are covered by the proof alone.  In `BlockTree` the blocks and
certificates bound the run: the fork is the shortest one in which a QC is newer than its
block, and every order of arrival, duplicate and moment of coherency is covered. Epochs
of five blocks are the shortest in which the next epoch starts after the blocks that a
restart commits again and before the next boundary; three starts let a node crash while
it is starting.  In `BlockSync` two ranges that share a block compete for one payload
slot, which is where cancellation, completion from the cache and mode switches can lose
a slot or a request; two requests of one peer, both of which leave the same part to the
ledger, are combined with at most one of the node's own (`MCBound`).  In `SyncModes` ten
blocks are enough for two re-roots, the second while the thread works for the first, and
one gap in the rounds keeps a QC from committing.  In `StateSyncClient` two chunks can
be swapped, two nonces are two sessions, two targets let the target move, and one of the
peers is silent, refuses, or turns up late; `MaxQueued` keeps retries from running ahead
of the thread. Deadlock is not checked: every model ends at a bound, at a deliberate
stop for state sync, or once the node is live.

**Symmetry** is used for validators (and the two blocks of `vote_state`) in runs
that check safety only.

**Fairness.**  `VotePacing` assumes that a running timer expires and that its event is
handled: timers are tokio tasks, and events are taken from a stream that is polled for
ever.  `Pacemaker` assumes weak fairness of the round timer and of what a node sends
itself, and strong fairness of delivery between each pair of nodes: a message that is
sent again and again arrives in the end, while any single one may be lost.  Nothing is
assumed of certificates, of proposals or of faulty validators.  `Epochs` assumes that
the updater's thread ends its wait (execution catches up) and that the executors are
run.  `SyncModes` assumes that block sync and state sync get what they ask for and that
no executor starves; ParentExecutor polls in a fixed order, so a router that always
has a message would starve state sync, which the assumption excludes.
`StateSyncClient` assumes that threads run, that timeouts fire, and that a peer in
`Answering` that is asked for a chunk again and again gets it through (strong
fairness for each chunk).

**What the runs do not say.**  `CommitBindsTC` is about the TCs of the round of the
committing QC.  That later rounds keep extending the committed block (finality) needs
more rounds than TLC enumerates here; it is proved (section 4).  `LiveNodeCanRestart`
begins with the first checkpoint after a start.  `SyncCompletes` leaves out that no
trusted peer answers any more, that a prefix is bound to a silent peer, and the panic of
`insert_request` (section 5).  A peer that is not dropped for it objects only to a
request in the version on record, naming an older one or one it was not asked in:
repeated and late objections, which the code answers by resetting `last_timeout` again,
are left out.  `HonestQuorumAdvances` counts the votes that were accepted: those beyond
`FUTURE_VOTE_BOUND` are dropped, and nothing is said of them.  `ValidatorsArrive` is
about epochs that are scheduled (section 5).  Liveness of block sync is not checked: the
instance with fairness is too large.  Type invariants are proved and not model-checked.

## 4. Proofs

All proofs are for arbitrary constants that satisfy the named assumptions:
supermajorities share an honest validator and are closed under supersets
(`BFTAssumption`), blocks have a header QC of an earlier round (`ChainAssumption`), the
certificates a block tree may meet are those that voting produces
(`CertificateAssumption`, `FinalityAssumption`), and the ranges and limits of block sync
are numbers of blocks, with a value for "no peer" that is no peer
(`BlockSyncAssumption`); the next epoch starts later than the blocks that a start
commits again reach and before the next boundary (`EpochAssumption`), a node is
re-rooted only past the execution delay and starts from genesis or from a root with
enough blocks below it (`SyncModesAssumption`), and the numbers of prefixes, chunks and
requests are positive (`StateSyncClientAssumption`, which also says that the value
`NoPeer`, the `None` of the prefix table, is no peer). Invariants that need induction
over data (along parents, over finite sets, over rounds) get it from the
well-foundedness of the naturals: the least counterexample is refuted.

* `VoteStateProofs`: type correctness, `OneQCPerRound`, `EarliestRoundMonotone`,
  `QCWellSigned`, `HonestQuorumAdvances`, and that the specification implements
  `CertificateCollector`.  The strengthening (`VoteStateInv`, with `CollectorBehind`):
  the earliest round is never ahead of the current one, and every QC created so far is
  of a round before the earliest one; for starvation, that a node is called invalid
  only for a bad signature.
* `NoEndorsementStateProofs`: type correctness, `NeverPanics`, `HonestNECServed` and the
  same refinement.
* `ValidatorProofs`, the validator set: for every additive measure of stake, the
  thresholds as the code rounds them make two supermajorities share a member outside any
  set of less than a third of the stake (`SupermajoritiesShareHonest`), what
  `has_honest_vote` accepts is not faulty throughout (`HonestVoteIsHonest`), and the
  others are a supermajority (`HonestReachQuorum`).  This is what the assumptions on
  `Supermajority` in the other modules rest on.  That the stakes as the code sums them
  are such a measure is proved by induction over finite sets (`SumAdditive`,
  `WeightAdditive`), and `Built` says that `create` keeps `total_stake` equal to the sum
  of what it inserted.  Together: `QuorumsShareHonest` and `HonestAreEnough` for every
  set that `create` returns. `LeadersByStake`: the words that are accepted are a whole
  multiple of the total stake (`WholeMultiple`), so each residue is hit equally often
  (`ShareCount`), and the residues that elect a member are an interval as long as its
  stake (`LeaderOfIndexIs`).
* `ValidatorProofs`, epochs: `EpochStartsAgree`, `CheckpointIsUsable` and
  `LiveNodeCanRestart`.  None is inductive: whether the next commit can take a checkpoint
  depends on what the node knows of the epoch its certificate is in, and whether the next
  write leaves the files usable depends on the writes still queued and on the last set
  written.  `EpochsInv` therefore says that a running node knows the epochs *lo..hi* and
  the validators of *lo..v*, with *hi* at most one ahead (`ViewOK`), that its root and high
  certificate are of epochs in that window, which commands the config-file executor
  may still have to carry out (`Pending`), that validators.toml holds the last two sets
  written (`FilesOK`), and that the forkpoint on disk and the one on its way list the epoch
  of their root, perhaps the next one, and the one of their high certificate
  (`ForkpointOK`).  What is known of the chain is only that rounds grow (`ChainOK`); a start
  commits at most one boundary block again (`EpochStartDelay > 2 * ExecutionDelay` and an
  epoch is longer), and a certificate that can be checked is of an epoch whose validators
  are there.
* `StateSyncProofs`, from Sync to Live: `NeverPanics` and `StartsOnSyncedState`.
  `SyncModesInv` says how far the node is (`Progress`: it waits for blocks with no target
  or an older one, it has told the thread the target of its root, or it is live with the
  blocks and the state), that the thread's two targets and those on their way to it
  increase and are newer than the last block executed, while reports that wait are not
  (`Targets`), that a `RequestSync` can only be at the head of the loopback queue and goes
  more than the threshold past the root, and that a live node has no target and no report
  under way.  The order in which `ParentExecutor` polls is what makes the part about the
  loopback queue inductive.
* `StateSyncProofs`, the client: `AssertionsHold` and `FinishedIsComplete`.  `StateSyncInv`
  follows a chunk from the request to the database.  What is asked is of the thread's
  target and of a prefix that is not finished, once, and nothing is left of it when
  `DoneSync` is on its way (`AsksOK`); every chunk in the channel comes from the peer its
  prefix is bound to, after all the chunks before it were applied or are ahead of it in
  the channel, and nothing of a prefix follows its last chunk (`ChunksOK`); the chunks
  below the `response_index` of a request in flight were all handed over.  A retry starts
  again from chunk 0, so a chunk may be applied twice, which `FinishedIsComplete` allows
  and the invariant has to: it speaks of the chunks before each one, not of their number.
  `ResponseIs` is what `apply_response` hands over: a run of chunks without a gap.
* `KinetBFTProofs`: `IInv` says of each validator (`Consistent`) that its recorded
  rounds bound what it signed (`SignedBelow`), that its high tip is a block it voted for
  and is newer than its highest QC (`VotedTip`, `TipVoted`), that a no-endorsement of
  its latest round is remembered (`NERemembered`) and that a timeout of its current
  round reports what it would report again (`Reported`); and of what was signed, that
  the votes of a validator in a round are for one block (`UniqueVotes`), unless it is in
  `behind`, that a validator that voted for a block right after its QC and times that
  round out reports that block (`CommitVoteReported`), and that a vote and a
  no-endorsement of a validator in one round rest on the same QC (`NEVotesAgree`), again
  unless it is in `behind`.  What bounds the signatures of a validator is lost by a
  restart from an old forkpoint, so those parts are stated for the others; that no
  recorded round is ahead of the current one (`RoundsOK`), which gives
  `NeverVotesAhead`, holds of all.  Each handler is proved to preserve it from four
  lemmas about the state changes (certificate, vote, timeout, no-endorsement), which is
  how the code composes them too.  From it: `OneQCPerRound` by intersection (if two
  blocks are certified, every honest validator common to the two supermajorities voted
  for both, and is therefore in `behind`); `QCAndNECAgree`, because a common validator
  outside `behind` signed both and either order forces the same QC; `CommitBindsTC`,
  because a common validator of the committing QC and the TC reported a tip or QC of
  rank at least that of the block it voted for; and `NeverVotesAhead`.
* Finality, also in `KinetBFTProofs`: `CommitsAreFinal` (`CommittedStays`: every QC of
  the round of a committed block or of a later one is for a block that extends it, and
  every TC of a later round asks to build on it) and `CommitsNeverFork` (`CommitsAgree`:
  any two committed blocks are on one chain).  Both are for behaviours that stay
  `Steady`: nobody restarts, nobody votes for a block before its round, and a node
  without a high tip still holds the highest QC it has seen as part of its high
  certificate.  The first is what the run `restart` shows to be needed, the others are
  in section 5.  The inductive invariant `FInv` cannot wait for the committing QC to
  exist: it speaks of every block *b* that *may still* get it (`MayCommit`: the
  validators that voted for *b* right after its QC, or have not voted that far, are a
  supermajority with the faulty ones).  For such a block each validator that cast that
  vote votes, in later rounds, only for blocks on something that extends *b*'s parent
  and rank no lower than *b*, reports nothing that ranks lower, and holds nothing worse
  (`KeepsCommit`); and a no-endorsement of a later round names a QC that extends *b*'s
  parent (`NEsKeep`).  From it every certificate of a later round is bound, by a common
  validator (`LaterQCExtends`, `LaterTimeoutRanks`), and the tip of a TC through
  whichever of the three justifications `verify_tip` accepted (`LaterTCExtends`); which
  in turn is what the next vote and the next no-endorsement need.
* `BlockTreeProofs`: `NeverPanics`, `FinalizedChain`, `NothingCommittableLeft` and
  `GapRequested`.  `TreeInv` says that the blocks of the tree are newer than the root
  (`AboveRoot`), that children lists are the parent links of the tree (`ChildrenInTree`,
  `ChildrenFound`), that a coherent block which extends the root has a coherent path to it
  (`CoherentPaths`), that the root was committed by a QC the node has seen
  (`RootCertified`), that the header QCs of the tree and of what was requested are not
  newer than the high certificate (`HeadersSeen`, `RequestsSeen`), and that what the ledger
  was sent is the chain up to the root.  `NodeInv` adds what holds when a handler ends:
  nothing committable is left, and the newest missing ancestor is requested.  The
  `...Keeps` lemmas say what each part of a handler leaves alone, so that a request made
  in one part is still there at the end.
* `BlockSyncProofs`: `InFlightExact`, `ModeMatches`, `MissingIsRequested`,
  `NoRequestForgotten` and `AnswersWhatWasAsked`.  A handler is a function of the state,
  and `Good` is what every intermediate state satisfies (types and mode, the counter,
  the requests of what ranges lack); `Tracks` is what an intermediate state still owes
  to the requests that were open before: a timer or a lookup started in the step, or the
  old addressee with its old timer.  `IInv` adds that no payload waits while a slot is
  free, and strengthens `NoRequestForgotten`: a request without a timer is addressed to
  the own ledger and being looked up there.  Of peers it says (`ServedOK`) that each one
  that waits asked for the range that its entry will be recomputed to, and that the ledger's
  part and the cached headers are that range in order (`EntryOK`); `CachedCompletes` is the
  arithmetic of it.
* `PacemakerProofs` (`PacemakerInv`: `GoodState`, `GoodMessage`, `PendingSigned`): every
  collected good signature and every message in flight is of a node that did time that
  round out, and carries the certificate of the round before; this gives `NeverPanics`,
  `TCsAreBacked`, `NeverSitsOnQuorum` and `RoundTimerArmed`.
* `PacemakerProofs`, vote pacing (`PacingInv`: `ReadyIsNewest`, `SentIsRecorded`): the
  scheduled vote is never of a round after the highest vote and all votes sent are of
  earlier rounds than a scheduled one, which gives `VoteNeverPanics` and `SentInOrder`;
  `TimerArmed` is inductive.

Every safety invariant and every refinement that a passing run checks is thereby a
theorem, for every value of the bounds (`MaxRound`, `MaxSeq`, `MaxTarget`, `MaxQueued`,
`MaxStarts`, ...).  Only model-checked are the liveness properties
(`RoundsAreReached`, `ReadyVoteLeaves`, `ValidatorsArrive`, `GoesLive`, `SyncCompletes`), as
fairness and `ENABLED` are out of the prover's reach.

## 5. Findings and observations

**A restart forgets a tip that a commit depends on** (run `restart`).  The comment at
`consensus-state/src/lib.rs:294` says that starting without the last high tip is safe
and that "at worst, tip gets reverted".  In the model one restarted validator is
enough for a TC of a committing round to carry an extend that leaves the committed
block out, although it restarts from its latest forkpoint.  Without restarts
`CommitBindsTC` holds and is proved.

What follows was met while modelling; it has no run of its own.

* The comment on the checkpoint (`state/src/lib.rs:1058`) says that it takes "f+1 nodes"
  that crash before the write.  That count includes the faulty ones: with *f* faulty
  validators a single honest one that restarts from an older forkpoint, and votes a second
  time in its round, is enough for two QCs of that round.  `OneQCPerRound` says exactly how
  many it takes (`BreaksQuorum`).
* `InFlightRequest::apply_response` compares nonces only with the chunks it holds
  (`statesync-executor/src/client/outbound_requests.rs:112`).  After chunk 0 of a new
  session has been handed over, a late chunk 1 of a session that was given up is taken:
  a prefix may be finished with chunks of several sessions of its peer.
  `FinishedIsComplete` says that no chunk is missing and that they are of one peer and
  target, not of one session.
* Two requests of one peer that leave the same part to the ledger share one entry; the
  later one replaces the earlier (`blocksync/src/blocksync.rs:419`), which goes unanswered
  until the peer's timeout.

* A block can be voted for before its own round: no check on the path of a proposal
  that follows its QC directly (`consensus/src/validation/signing.rs:466`) compares
  `block_round` with the round of the proposal.  `QCAndNECAgree` is therefore stated,
  and proved, for behaviours without such a vote (`NoVoteBeforeBlockRound`).
* `Pacemaker::process_certificate` (`consensus/src/pacemaker.rs:211`) replaces the high
  certificate by a TC of a later round also when the QC in the TC is older than the one
  it had; Safety then remembers the round of that QC, not the QC.  A node without a high
  tip reports the QC of its high certificate.  Finality is therefore proved for
  behaviours in which no node is in this situation (the last part of `Steady`); for the
  others nothing is claimed.
* `prune` keeps every block whose header QC is not older than the new root
  (`blocktree/src/blocktree.rs:190`); after an equivocation a block off the committed
  chain can stay.  It has no path to the root, and a later prune removes it.
* A node that restarts with a boundary block among the last 2 * execution_delay blocks
  and the next epoch's validators already in its forkpoint receives them a second
  time.  `ValidatorsEpochMapping::insert` allows for it, the assertion of
  `ConfigFile::write_validator_set` (`updaters/src/config_file.rs:188`) does not: the
  model's panic `epoch_not_next`.
* A node whose root is more than 2 * execution_delay blocks past a boundary block, and
  whose forkpoint does not list the next epoch yet, neither schedules that epoch nor
  asks for its validators after a restart or a re-root past the boundary.
* At start the sets of a forkpoint with two epochs are written to validators.toml one
  after the other; a crash in between leaves a file without the second
  (`updaters/src/config_file.rs:183`).  `LiveNodeCanRestart` is about live nodes.
* `OutboundRequests::choose_peer` returns the peer that a prefix is bound to even after
  that peer was removed; the expect of `insert_request` then fails.  A prefix bound to
  a peer that falls silent is retried with that peer only.
* A root of fewer than 2 * execution_delay blocks, other than genesis, cannot satisfy
  `needs_blocksync`, as nobody has the genesis block (`Roots` of `SyncModes` leaves it
  out).

## 6. Plan

Done: the voting rules, the collectors and their abstract specification, the validator
set, vote pacing, the pacemaker, the block tree and the commit path, epochs and their
files, block sync, the sync modes and the state-sync client, each with proofs of its
safety properties.

1. Finality without the last part of `Steady`: whether a QC that a node no longer holds
   can still be needed.
2. The head that is announced to execution (`get_canonical_coherent_tip`).
3. The order of the disk writes of `Epochs` composed with `KinetBFT`, which lets any
   checkpointed certificate be the one that is found at a restart.

**Not modelled.**  Most of the repository's lines are outside the consensus process.
Cryptography, erasure coding, encodings and key stores compute over byte buffers, which
TLC cannot enumerate; RPC, archive, tools, tests and simulators change no state of the
protocol; data plane, wireauth, RaptorCast and peer discovery are, to the modules here,
a network that loses, repeats and reorders messages, which the modules assume of it
anyway; block policy, fee market and transaction pool decide whether a block is
coherent, which the modules take as an arbitrary answer; the server side of state sync
passes requests to the execution process.  `PROJECT.json` lists each with its reason.
