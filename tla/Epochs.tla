--------------------------------- MODULE Epochs ---------------------------------
(***************************************************************************)
(* One node's view of epochs across commits, crashes and restarts.  The    *)
(* boundary block of an epoch, when it is committed, fixes the start round *)
(* of the next one (EpochManager) and asks the validator-set updater for   *)
(* its validators; the answer comes when execution has finalized that      *)
(* block.  Both end up in two files, the forkpoint and validators.toml,    *)
(* which the config-file executor writes one after the other and from      *)
(* which the node starts again.  Starting commits the last 2 *             *)
(* ExecutionDelay blocks once more; while it syncs, the node may be moved  *)
(* to a newer root.                                                        *)
(*                                                                         *)
(* The chain is given: the node follows what the others have agreed on.    *)
(***************************************************************************)
EXTENDS Integers, Sequences, FiniteSets, FiniteSetsExt

CONSTANTS
    EpochLength,        \* blocks of an epoch
    EpochStartDelay,    \* rounds from the boundary block to the next epoch
    ExecutionDelay,     \* consensus_config.execution_delay
    ResyncThreshold,    \* BlockBuffer::resync_threshold
    StakingActivation,  \* first epoch whose validators are read from the state
    MaxSeq,             \* bound: the last committed block
    MaxRound,           \* bound: the last round
    MaxStarts           \* bound: starts of the node

ASSUME EpochAssumption ==
    /\ {EpochLength, ExecutionDelay, StakingActivation, MaxSeq, MaxRound, MaxStarts} \subseteq Nat \ {0}
    /\ ResyncThreshold \in Nat
    /\ EpochStartDelay \in 2 * ExecutionDelay + 1 .. EpochLength - 1

Seqs == 0..MaxSeq
Rounds == 0..MaxRound

VARIABLES
    chain,     \* the round of every committed block
    node,      \* the consensus process: status, root, round of the high
               \* certificate, EpochManager::epoch_starts, epochs of
               \* val_epoch_map, last_validator_set; history: it has written a
               \* forkpoint since it started
    requests,  \* epochs asked of the validator-set updater, oldest first
    writes,    \* commands the config-file executor has not carried out yet
    disk,      \* the forkpoint and the epochs of validators.toml
    started    \* starts of the node so far

vars == <<chain, node, requests, writes, disk, started>>

-----------------------------------------------------------------------------
(* SeqNum and what the chain fixes.                                        *)

\* SeqNum::to_epoch: the epoch a sequence number belongs to.
to_epoch(n) == (n \div EpochLength) + 1

\* SeqNum::is_boundary_block
is_boundary_block(n) == n % EpochLength = EpochLength - 1

\* SeqNum::get_locked_epoch: the epoch whose validators a boundary block fixes.
get_locked_epoch(n) == to_epoch(n) + 1

\* The boundary block that fixes epoch e, and what it fixes.
Boundary(e) == (e - 1) * EpochLength - 1
EpochStart(e) == IF e = 1 THEN 0 ELSE chain[Boundary(e)] + EpochStartDelay
ChainEpochs == {e \in 1..to_epoch(MaxSeq) + 1 : e = 1 \/ Boundary(e) <= MaxSeq}
EpochOf(r) == Max({e \in ChainEpochs : EpochStart(e) <= r})

\* A chain the validators can have agreed on: every boundary block is committed
\* (by two blocks of consecutive rounds) before the epoch it schedules begins.
IsChain(c) ==
    \A n \in Seqs : is_boundary_block(n) =>
        \E k \in n..MaxSeq - 1 : c[k + 1] = c[k] + 1 /\ c[k + 1] < c[n] + EpochStartDelay

-----------------------------------------------------------------------------
(* The process.                                                            *)

Panic(s, why) == [s EXCEPT !.status = why]

\* EpochManager::get_epoch: the last known epoch that has started by round r.
get_epoch(s, r) == Max({e \in DOMAIN s.starts : s.starts[e] <= r})

\* The node can check a certificate of round r: it takes the round for the
\* epoch the others signed it in, and has that epoch's validators.
CanVerify(s, r) == get_epoch(s, r) = EpochOf(r) /\ EpochOf(r) \in s.vals

\* The epochs that the blocks from..to lock.
LockedBy(from, to) == {get_locked_epoch(n) : n \in {k \in from..to : is_boundary_block(k)}}

\* Mutant: the start is counted from the round of the certificate at hand.
schedule_epoch_start_OwnRound(s, from, to) ==
    LET due == [e \in LockedBy(from, to) |-> s.high + EpochStartDelay]
    IN  IF \E e \in DOMAIN due \cap DOMAIN s.starts : due[e] # s.starts[e]
        THEN Panic(s, "conflicting_start")
        ELSE [s EXCEPT !.starts = [e \in DOMAIN @ \cup DOMAIN due |-> IF e \in DOMAIN @ THEN @[e] ELSE due[e]]]

\* EpochManager::schedule_epoch_start and insert_epoch_start, for the blocks
\* from..to in turn.
schedule_epoch_start(s, from, to) ==
    LET due == [e \in LockedBy(from, to) |-> chain[Boundary(e)] + EpochStartDelay]
    IN  IF \E e \in DOMAIN due \cap DOMAIN s.starts : due[e] # s.starts[e]
        THEN Panic(s, "conflicting_start")
        ELSE [s EXCEPT !.starts = [e \in DOMAIN @ \cup DOMAIN due |-> IF e \in DOMAIN @ THEN @[e] ELSE due[e]]]

\* Mutant: the next epoch is left out.
checkpoint_BaseOnly(s) ==
    LET base == EpochOf(chain[s.root])
        locked == {e \in {base} : e \in s.vals /\ e \in DOMAIN s.starts}
    IN  [possible |-> base \in locked, root |-> s.root, high |-> s.high, sets |-> [e \in locked |-> s.starts[e]]]

\* ConsensusStateWrapper::checkpoint: the epoch of the root and, when it is
\* scheduled and its validators are known, the one after.
checkpoint(s) ==
    LET base == EpochOf(chain[s.root])
        locked == {e \in {base, base + 1} : e \in s.vals /\ e \in DOMAIN s.starts}
    IN  [possible |-> base \in locked, root |-> s.root, high |-> s.high, sets |-> [e \in locked |-> s.starts[e]]]

\* Mutant: the updater does not hear of the first of the committed blocks.
NotifyFinalized_Late(from, to) == requests \cup LockedBy(from + 1, to)

\* ValSetUpdater::exec of NotifyFinalized for the blocks from..to.  Epochs are
\* asked for in increasing order and answered in that order.
NotifyFinalized(from, to) == requests \cup LockedBy(from, to)

\* Commands of the config-file executor.
WriteForkpoint(c) == [file |-> "forkpoint", root |-> c.root, high |-> c.high, sets |-> c.sets]
WriteValidators(e) == [file |-> "validators", epoch |-> e]

-----------------------------------------------------------------------------
(* Events of a running process.  Its loop handles an event and has the     *)
(* executors carry out its commands before it takes the next one.          *)

Idle(status) == node.status = status /\ writes = <<>>

\* A certificate of a newer round arrives, or block sync brings blocks while the
\* certificate stays, and the node commits the blocks up to n.  It looks up the
\* leader of its round, whose epoch's validators it must have by then, and entering
\* a round or committing takes a checkpoint.
HandleCertificate(r, n) ==
    /\ Idle("live")
    /\ r > node.high \/ (r = node.high /\ n > node.root)
    /\ CanVerify(node, r)
    /\ n >= node.root
    /\ chain[n] < r
    /\ LET s == schedule_epoch_start([node EXCEPT !.high = r, !.root = n], node.root + 1, n)
           c == checkpoint(s)
           leader_known == get_epoch(s, r + 1) \in s.vals
       IN  IF s.status = "live" /\ ~(leader_known /\ c.possible)
           THEN /\ node' = Panic(s, IF leader_known THEN "no_base_epoch" ELSE "no_leader")
                /\ UNCHANGED <<requests, writes>>
           ELSE /\ node' = s
                /\ writes' = <<WriteForkpoint(c)>>
                /\ requests' = NotifyFinalized(node.root + 1, n)
    /\ UNCHANGED <<chain, disk, started>>

\* The updater has the validators of the oldest request: read by its thread
\* once execution has finalized the boundary block, or from validators.toml.
\* KinetState has them recorded and written.
UpdateValidators ==
    /\ Idle("live") \/ Idle("sync")
    /\ requests # {}
    /\ LET e == Min(requests)
       IN  /\ requests' = requests \ {e}
           /\ IF e < StakingActivation /\ e \notin disk.file
              THEN node' = Panic(node, "no_validators") /\ UNCHANGED writes
              ELSE /\ node' = [node EXCEPT !.vals = @ \cup {e}]
                   /\ writes' = <<WriteValidators(e)>>
    /\ UNCHANGED <<chain, disk, started>>

\* maybe_start_consensus, when the blocks and the state are there: the last
\* blocks up to the root are committed again.
StartConsensus ==
    /\ Idle("sync")
    /\ LET from == Max({1, node.root - 2 * ExecutionDelay + 1})
       IN  /\ node' = schedule_epoch_start([node EXCEPT !.status = "live"], from, node.root)
           /\ requests' = NotifyFinalized(from, node.root)
    /\ UNCHANGED <<chain, writes, disk, started>>

\* StateSyncEvent::RequestSync: proposals show a finalized block n far ahead.
RequestSync(r, n) ==
    /\ Idle("sync")
    /\ r > node.high
    /\ CanVerify(node, r)
    /\ n > node.root + ResyncThreshold
    /\ chain[n] < r
    /\ node' = [node EXCEPT !.high = r, !.root = n]
    /\ UNCHANGED <<chain, requests, writes, disk, started>>

\* Mutant: the older of the two sets is not kept.
write_validator_set_NewestOnly(e) ==
    /\ node' = IF node.last \in {0, e - 1} THEN [node EXCEPT !.last = e]
               ELSE Panic(node, "epoch_not_next")
    /\ disk' = IF node.last \in {0, e - 1} /\ e >= StakingActivation
               THEN [disk EXCEPT !.file = {e}]
               ELSE disk

\* ConfigFile::write_validator_set: the set and the one before it, which must
\* be the previous epoch's, replace validators.toml.
write_validator_set(e) ==
    /\ node' = IF node.last \in {0, e - 1} THEN [node EXCEPT !.last = e]
               ELSE Panic(node, "epoch_not_next")
    /\ disk' = IF node.last \in {0, e - 1} /\ e >= StakingActivation
               THEN [disk EXCEPT !.file = {node.last, e} \ {0}]
               ELSE disk

\* ConfigFile::write_checkpoint: the file is replaced by a rename.
write_checkpoint(w) ==
    /\ disk' = [disk EXCEPT !.forkpoint = [root |-> w.root, high |-> w.high, sets |-> w.sets]]
    /\ node' = [node EXCEPT !.saved = TRUE]

\* ConfigFile::exec carries out the next command.
ExecConfigFile ==
    /\ node.status \in {"sync", "live"}
    /\ writes # <<>>
    /\ writes' = Tail(writes)
    /\ \/ Head(writes).file = "validators" /\ write_validator_set(Head(writes).epoch)
       \/ Head(writes).file = "forkpoint" /\ write_checkpoint(Head(writes))
    /\ UNCHANGED <<chain, requests, started>>

-----------------------------------------------------------------------------
(* Crash and restart.                                                      *)

\* The process dies, with it what was not written.
Crash ==
    /\ node.status \in {"sync", "live"}
    /\ node' = Panic(node, "down")
    /\ UNCHANGED <<chain, requests, writes, disk, started>>

\* Forkpoint::validate: one or two epochs in a row with increasing starts, and
\* a high certificate that one of them signed.
validate(f) ==
    /\ Cardinality(DOMAIN f.sets) \in 1..2
    /\ \A e1, e2 \in DOMAIN f.sets : e1 < e2 => e2 = e1 + 1 /\ f.sets[e1] < f.sets[e2]
    /\ EpochOf(f.high) \in DOMAIN f.sets

\* node/src/main.rs and KinetStateBuilder::build: the validators of every
\* locked epoch come from validators.toml and are handed to the same handler
\* as an update, in order.
Start ==
    /\ node.status \notin {"sync", "live"}
    /\ started < MaxStarts
    /\ started' = started + 1
    /\ requests' = {}
    /\ LET f == disk.forkpoint
           locked == DOMAIN f.sets
           s == [status |-> "sync", root |-> f.root, high |-> f.high, starts |-> f.sets,
                 vals |-> locked, last |-> 0, saved |-> FALSE]
           old == Min(locked)
       IN  IF ~(locked \subseteq disk.file)
           THEN node' = Panic(node, "no_validators") /\ writes' = <<>>
           ELSE IF ~validate(f)
           THEN node' = Panic(node, "invalid_forkpoint") /\ writes' = <<>>
           ELSE /\ node' = s
                /\ writes' = IF locked = {old} THEN <<WriteValidators(old)>>
                             ELSE <<WriteValidators(old), WriteValidators(old + 1)>>
    /\ UNCHANGED <<chain, disk>>

-----------------------------------------------------------------------------
\* The first start, from genesis.  Validators.toml holds the validators of
\* every epoch before staking is activated.
Init ==
    /\ \E R \in kSubset(MaxSeq, 1..MaxRound) :
         chain = [n \in Seqs |-> CHOOSE r \in R \cup {0} : Cardinality({x \in R \cup {0} : x < r}) = n]
    /\ IsChain(chain)
    /\ disk = [forkpoint |-> [root |-> 0, high |-> 0, sets |-> [e \in {1} |-> 0]],
               file |-> 1..Max({1, StakingActivation - 1})]
    /\ node = [status |-> "down", root |-> 0, high |-> 0, starts |-> [e \in {1} |-> 0], vals |-> {1}, last |-> 0,
             saved |-> FALSE]
    /\ requests = {}
    /\ writes = <<>>
    /\ started = 0

Next ==
    \/ \E r \in Rounds, n \in Seqs : HandleCertificate(r, n) \/ RequestSync(r, n)
    \/ UpdateValidators
    \/ StartConsensus
    \/ ExecConfigFile
    \/ Crash
    \/ Start

\* The loop polls all event sources, the updater's thread ends its wait once
\* execution has caught up, and a synced node starts consensus.
Fairness ==
    /\ WF_vars(UpdateValidators)
    /\ WF_vars(ExecConfigFile)
    /\ WF_vars(StartConsensus)

Spec == Init /\ [][Next]_vars /\ Fairness

-----------------------------------------------------------------------------
(* What must hold.                                                         *)

Running == node.status \in {"sync", "live"}

\* Every start round the node knows or has written is the one the chain fixes,
\* however often its boundary block was committed; so insert_epoch_start's
\* assertion "Conflicting epoch start round" never fails.
EpochStartsAgree ==
    /\ \A e \in DOMAIN node.starts : node.starts[e] = EpochStart(e)
    /\ \A e \in DOMAIN disk.forkpoint.sets : disk.forkpoint.sets[e] = EpochStart(e)
    /\ node.status # "conflicting_start"

\* A running node always has the validators of its root's epoch, so checkpoint
\* never fails its expect; and every forkpoint a node is started from passes
\* Forkpoint::validate.
CheckpointIsUsable == node.status \notin {"no_base_epoch", "invalid_forkpoint"}

\* From its first checkpoint on, whatever instant a live node dies at,
\* validators.toml has the validators of every epoch the forkpoint lists.
LiveNodeCanRestart == node.status = "live" /\ node.saved => DOMAIN disk.forkpoint.sets \subseteq disk.file

\* An epoch that a node has scheduled gets its validators, unless the node dies
\* first: each commit of a boundary block that schedules also asks for them.
ValidatorsArrive ==
    \A e \in 1..to_epoch(MaxSeq) + 1 :
        (Running /\ e \in DOMAIN node.starts) ~> (e \in node.vals \/ ~Running)
=============================================================================
