------------------------------- MODULE BlockTree -------------------------------
(***************************************************************************)
(* The block tree of one node (blocktree/src/blocktree.rs, tree.rs) driven *)
(* by the handlers of consensus-state/src/lib.rs: proposals, certificates  *)
(* and block sync responses arrive in any order, are repeated or never     *)
(* come; blocks become coherent when execution has caught up, which may be *)
(* long after they are certified; certified blocks are committed and the   *)
(* tree is pruned; what is missing between the root and the highest QC is  *)
(* requested.                                                              *)
(*                                                                         *)
(* The certificates the network can produce are constants.  What voting    *)
(* guarantees about them is FinalityAssumption.                            *)
(***************************************************************************)
EXTENDS Integers, FiniteSets

CONSTANTS
    Block, GENESIS,      \* block identifiers
    block_round,         \* block -> the round it was first proposed in
    qc_round, parent,    \* block -> round and block of the QC in its header
    ancestors,           \* block -> itself and everything it extends
    Invalid,             \* the blocks that block_validator.validate refuses
    NoTip, NoTC,         \* stand for an absent tip and an absent TC
    QC, TC,              \* the certificates that other nodes may send
    OwnRounds,           \* the rounds of which this node is the leader
    live_to_statesync_threshold

\* RoundCertificate: a QC has the round of the QC it holds, a TC a later one.
CertificateType ==
    [round : Nat, qc_round : Nat, qc_block : Block, tip : Block \cup {NoTip}]
HeaderQC(b) ==
    [round |-> qc_round[b], qc_round |-> qc_round[b], qc_block |-> parent[b], tip |-> NoTip]
GenesisQC == [round |-> 0, qc_round |-> 0, qc_block |-> GENESIS, tip |-> NoTip]
AllQCs == QC \cup {GenesisQC} \cup {HeaderQC(b) : b \in Block \ {GENESIS}}

ASSUME ChainAssumption ==
    /\ GENESIS \in Block
    /\ NoTip \notin Block
    /\ NoTC \notin TC
    /\ block_round \in [Block -> Nat]
    /\ qc_round \in [Block -> Nat]
    /\ parent \in [Block -> Block]
    /\ ancestors \in [Block -> SUBSET Block]
    /\ \A b \in Block : IsFiniteSet(ancestors[b])
    /\ \A b \in Block \ {GENESIS} :
          /\ qc_round[b] < block_round[b]
          /\ b \notin ancestors[parent[b]]
          /\ ancestors[b] = {b} \cup ancestors[parent[b]]
    /\ block_round[GENESIS] = 0 /\ qc_round[GENESIS] = 0
    /\ ancestors[GENESIS] = {GENESIS}
    /\ OwnRounds \subseteq Nat
    /\ live_to_statesync_threshold \in Nat

\* What a verified certificate looks like.  Nobody votes for a block before its
\* own round, and honest validators vote for valid blocks only.
ASSUME CertificateAssumption ==
    /\ QC \subseteq CertificateType /\ TC \subseteq CertificateType
    /\ \A q \in AllQCs :
          /\ q.round = q.qc_round /\ q.tip = NoTip
          /\ block_round[q.qc_block] <= q.round
          /\ ancestors[q.qc_block] \cap Invalid = {}
    /\ \A t \in TC :
          /\ t.qc_round < t.round
          /\ \E q \in AllQCs : q.qc_round = t.qc_round /\ q.qc_block = t.qc_block
          /\ t.tip # NoTip => /\ t.tip # GENESIS
                              /\ t.qc_round = qc_round[t.tip] /\ t.qc_block = parent[t.tip]
                              /\ block_round[t.tip] <= t.round

\* What voting guarantees: one block per round is certified; and if b has the QC of
\* the round after the one in its header, every certificate of that round or a later
\* one is for b's parent or for something that extends it.
ASSUME FinalityAssumption ==
    /\ \A q1, q2 \in AllQCs : q1.round = q2.round => q1.qc_block = q2.qc_block
    /\ \A q \in AllQCs, c \in AllQCs \cup TC :
          LET b == q.qc_block IN
          b # GENESIS /\ q.round = qc_round[b] + 1 /\ c.round > qc_round[b]
              => parent[b] \in ancestors[c.qc_block]

\* ProposalMessage::well_formed_proposal: a block that follows its QC directly; or
\* one on the QC that the TC of the round before extends, a new block or the TC's
\* tip if it has one.  Without such a tip the block's own round is not looked at.
Proposal ==
    { p \in [block : Block \ {GENESIS}, round : {qc_round[b] + 1 : b \in Block} \cup {t.round + 1 : t \in TC},
             tc : TC \cup {NoTC}] :
        IF p.tc = NoTC
        THEN p.round = qc_round[p.block] + 1
        ELSE /\ p.round = p.tc.round + 1
             /\ p.round # qc_round[p.block] + 1
             /\ p.tc.qc_round = qc_round[p.block]
             /\ p.tc.tip \in {NoTip, p.block} \/ block_round[p.block] = p.round }

-----------------------------------------------------------------------------
VARIABLES
    node,   \* the parts of ConsensusState that this module is about
    sync    \* the block sync response that handle_block_sync is working on

vars == <<node, sync>>

\* A request of block sync: the blocks of its BlockRange, under the last one's id.
RequestType == [id : Block, blocks : SUBSET Block, cancel_round : Nat]

NodeState ==
    [ root      : Block,
      tree      : SUBSET Block,               \* the blocks with an entry
      coherent  : SUBSET Block,               \* those with is_coherent
      children  : [Block -> SUBSET Block],    \* children_blocks of entries and root
      high      : CertificateType,            \* the pacemaker's high_certificate
      requests  : SUBSET RequestType,         \* block_sync_requests
      handled   : SUBSET Nat,                 \* Safety's handled_proposals, not bounded here
      announced : SUBSET Block,               \* sent to the ledger as Proposed
      committed : SUBSET Block,               \* sent to the ledger as Finalized
      status    : {"live", "statesync", "panic"} ]  \* how the process goes on

CurrentRound(s) == s.high.round + 1

\* An expect or an assert fails.
Panic(s) == [s EXCEPT !.status = "panic"]

-----------------------------------------------------------------------------
(* BlockTree *)

\* The blocks after block a on the way from a to b.
PathAfter(a, b) == {x \in ancestors[b] : a \in ancestors[x] /\ x # a}

\* get_blocks_on_path_from_root, when it returns a path.
HasPath(s, b) == s.root \in ancestors[b] /\ PathAfter(s.root, b) \subseteq s.tree

\* is_coherent
IsCoherent(s, b) == b = s.root \/ b \in s.coherent

\* Mutant: only blocks that are in the tree are refused.
IsValidToInsert_AnyRound(s, b) == b \notin s.tree

\* is_valid_to_insert
IsValidToInsert(s, b) == b \notin s.tree /\ block_round[b] > block_round[s.root]

\* Mutant: a block that arrives after its children does not find them.
Add_NoScan(s, b) ==
    IF ~IsValidToInsert(s, b) THEN s
    ELSE [ s EXCEPT
           !.tree = @ \cup {b},
           !.children = [a \in Block |->
               IF a = parent[b] /\ a \in s.tree \cup {s.root} THEN @[a] \cup {b} ELSE @[a]] ]

\* add, Tree::insert: the entry finds the children that came before it, and is
\* added to the children of its parent if that is there.
Add(s, b) ==
    IF ~IsValidToInsert(s, b) THEN s
    ELSE [ s EXCEPT
           !.tree = @ \cup {b},
           !.children = [a \in Block |->
               IF a = b THEN {c \in s.tree : parent[c] = b}
               ELSE IF a = parent[b] /\ a \in s.tree \cup {s.root} THEN @[a] \cup {b}
               ELSE @[a]] ]

\* The blocks that a search from a over children_blocks comes to, if it goes on
\* from those in through only.
Reached(s, a, through) ==
    { b \in Block : a \in ancestors[b] /\
        \A x \in PathAfter(a, b) : x \in s.children[parent[x]] /\ parent[x] \in through }

\* try_update_coherency of the tree; ok are the blocks for which check_coherency
\* succeeds at this time.  It starts at the first block of the path that is not
\* coherent and goes on from blocks that become so.
MarkCoherent(s, b, ok) ==
    IF ~HasPath(s, b) \/ PathAfter(s.root, b) \subseteq s.coherent THEN s
    ELSE LET todo  == PathAfter(s.root, b) \ s.coherent
             first == CHOOSE x \in todo : \A y \in todo : x \in ancestors[y]
             seen  == Reached(s, first, ok)
         IN  IF \E x \in seen : ~HasPath(s, x) THEN Panic(s)
             ELSE [ s EXCEPT !.coherent = @ \cup (seen \cap ok),
                             !.announced = @ \cup (seen \cap ok) ]

\* prune: everything from the root to b is committed; of the rest, the blocks stay
\* whose header QC is not older than b.
Prune(s, b) ==
    LET path == PathAfter(s.root, b)
        keep == {x \in s.tree \ path : qc_round[x] >= block_round[b]}
    IN  IF b = s.root THEN s
        ELSE IF ~HasPath(s, b) \/ ~(path \subseteq s.coherent) THEN Panic(s)
        ELSE [ s EXCEPT
               !.root = b, !.tree = keep, !.coherent = @ \cap keep,
               !.children = [x \in Block |-> IF x \in keep \cup {b} THEN @[x] ELSE {}],
               !.committed = @ \cup path ]

-----------------------------------------------------------------------------
(* ConsensusState *)

\* Mutant: whether the block to commit is coherent is not checked.
TryCommit_Unchecked(s, r, b) ==
    IF b \in s.tree /\ r = qc_round[b] + 1 THEN Prune(s, parent[b]) ELSE s

\* try_commit with the QC of round r for block b; get_committable_id.
TryCommit(s, r, b) ==
    IF b \in s.tree /\ r = qc_round[b] + 1 /\ IsCoherent(s, parent[b])
    THEN Prune(s, parent[b]) ELSE s

\* get_high_committable_qc: the blocks under the root whose header QC commits
\* something new that is coherent.
Committable(s) ==
    { b \in Reached(s, s.root, Block) \ {s.root} :
        /\ parent[b] \in s.tree
        /\ qc_round[b] = qc_round[parent[b]] + 1
        /\ parent[parent[b]] # s.root
        /\ IsCoherent(s, parent[parent[b]]) }

\* The highest one is then given to try_commit.
CommitHigh(s) ==
    IF ~(Reached(s, s.root, Block) \subseteq s.tree \cup {s.root}) THEN Panic(s)
    ELSE IF Committable(s) = {} THEN s
    ELSE LET b == CHOOSE x \in Committable(s) :
                      \A y \in Committable(s) : qc_round[y] <= qc_round[x]
         IN  TryCommit(s, qc_round[b], parent[b])

\* try_update_coherency
UpdateCoherency(s, b, ok) == CommitHigh(MarkCoherent(s, b, ok))

\* maybe_fill_path_to_root: the newest ancestor of the highest QC's block that is
\* not there, unless that is the root.
Missing(s) ==
    LET unknown == ancestors[s.high.qc_block] \ s.tree
        newest  == CHOOSE x \in unknown : unknown \subseteq ancestors[x]
    IN  IF block_round[s.root] >= s.high.qc_round THEN {}
        ELSE {newest} \ {s.root}

\* get_seq_num
Height(b) == Cardinality(ancestors[b]) - 1

\* The BlockRange for it: that block alone if it is the one with the QC, otherwise
\* all of its ancestors that are above the height of the root.
BlockRange(s, b) ==
    IF b = s.high.qc_block THEN {b}
    ELSE {b} \cup {x \in ancestors[b] : Height(x) > Height(s.root)}

Requested(s, b) == \E q \in s.requests : q.id = b
Request(s, b, blocks, cancel_round) ==
    IF Requested(s, b) THEN s
    ELSE [s EXCEPT !.requests = @ \cup {[id |-> b, blocks |-> blocks, cancel_round |-> cancel_round]}]

\* request_blocks_if_missing_ancestor
RequestMissing(s) ==
    IF Missing(s) = {} THEN s
    ELSE LET b == CHOOSE x \in Missing(s) : TRUE
         IN  Request(s, b, BlockRange(s, b), s.high.qc_round)

\* request_tip_if_missing
RequestTip(s) ==
    IF s.high.tip = NoTip \/ s.high.tip \in s.tree THEN s
    ELSE Request(s, s.high.tip, {s.high.tip}, block_round[s.high.tip])

\* What the environment decides while a handler runs: the blocks that pass
\* check_coherency (which is asked about a block only after its parent passed), and
\* what a leader tries to extend, if is_safe_to_propose lets it (the QC instead of a
\* TC's tip needs an NEC).
Env(s, bs) ==
    [ ok     : {o \in SUBSET ((s.tree \cup bs) \ s.coherent) :
                   \A x \in o : ancestors[x] \subseteq o \cup s.coherent \cup ancestors[s.root]},
      extend : IF OwnRounds = {} THEN {"none"} ELSE {"none", "tip", "qc"} ]

\* try_propose up to the proposal itself.
TryPropose(s, e) ==
    IF CurrentRound(s) \notin OwnRounds THEN s
    ELSE LET t == RequestTip(s) IN
         CASE e.extend = "tip" /\ t.high.tip # NoTip ->
                LET u == UpdateCoherency(t, t.high.tip, e.ok)
                IN  IF t.high.tip = u.root THEN Panic(u) ELSE u
           [] e.extend = "qc" ->
                LET u == UpdateCoherency(t, t.high.qc_block, e.ok)
                IN  IF IsCoherent(u, t.high.qc_block) /\ ~HasPath(u, t.high.qc_block)
                    THEN Panic(u) ELSE u
           [] OTHER -> t

\* process_qc cancels the requests that the root has overtaken.
CancelObsolete(s) ==
    [s EXCEPT !.requests = {q \in @ : q.cancel_round > block_round[s.root]}]

\* maybe_statesync: the process is stopped on purpose, to start again with a state
\* sync, when the block of the highest QC is too far above the root.  What the
\* handler would do afterwards does not matter any more.
MaybeStateSync(s) ==
    LET b == s.high.qc_block IN
    IF /\ b \in s.tree \cup {s.root} /\ s.status = "live"
       /\ Height(s.root) + live_to_statesync_threshold <= Height(b)
    THEN [s EXCEPT !.status = "statesync"] ELSE s

\* process_qc.  The Voted command and update_proposed_head, which tell the ledger
\* what to execute next and are not read by consensus, are left out.
ProcessQC(s, c, e) ==
    IF c.round < CurrentRound(s) THEN s
    ELSE LET t == MaybeStateSync(CancelObsolete(TryCommit(s, c.round, c.qc_block)))
         IN  TryPropose(RequestMissing([t EXCEPT !.high = c]), e)

\* process_tc
ProcessTC(s, c, e) ==
    IF c.round < CurrentRound(s) THEN s ELSE TryPropose([s EXCEPT !.high = c], e)

\* Mutant: what the new block is missing is not requested.
AddAndCommit_NoRequest(s, b, e) ==
    MaybeStateSync(TryPropose(UpdateCoherency(Add(s, b), b, e.ok), e))

\* try_add_and_commit_blocktree (try_vote reads the tree only).
AddAndCommit(s, b, e) ==
    RequestMissing(MaybeStateSync(TryPropose(UpdateCoherency(Add(s, b), b, e.ok), e)))

-----------------------------------------------------------------------------
\* ConsensusState::new with the high certificate of the forkpoint, and the request
\* at the end of KinetState's start of consensus.
Start(c) ==
    [ root |-> GENESIS, tree |-> {}, coherent |-> {}, children |-> [b \in Block |-> {}],
      high |-> c, requests |-> {}, handled |-> {}, announced |-> {GENESIS},
      committed |-> {GENESIS}, status |-> "live" ]

Idle == [id |-> NoTip, rest |-> {}]

Init ==
    /\ \E c \in {GenesisQC} \cup QC \cup TC : node = RequestMissing(Start(c))
    /\ sync = Idle

\* handle_proposal_message.  A message that is not from the leader of its round
\* leaves its certificates only.
HandleProposal(p) ==
    /\ p.round > block_round[node.root]
    /\ \E from_leader \in BOOLEAN, e \in Env(node, {p.block}) :
        LET s == ProcessQC(node, HeaderQC(p.block), e)
            t == IF p.tc = NoTC THEN s ELSE ProcessTC(s, p.tc, e)
            u == [t EXCEPT !.handled = @ \cup {p.round}]
        IN  node' = IF p.round > CurrentRound(t) \/ ~from_leader \/ p.round \in t.handled THEN t
                    ELSE IF p.block \in Invalid THEN u
                    ELSE AddAndCommit(u, p.block, e)
    /\ UNCHANGED sync

\* A QC or TC of an advance round, timeout, vote or round recovery message, or one
\* that was just built from votes or timeouts.
HandleQC(c) ==
    /\ \E e \in Env(node, {}) : node' = ProcessQC(node, c, e)
    /\ UNCHANGED sync

HandleTC(c) ==
    /\ \E e \in Env(node, {}) : node' = ProcessTC(node, c, e)
    /\ UNCHANGED sync

\* handle_no_endorsement_message when the NEC is complete.
HandleNEC ==
    /\ node.high.tip # NoTip
    /\ \E e \in Env(node, {}) : node' = TryPropose(node, [e EXCEPT !.extend = "qc"])
    /\ UNCHANGED sync

\* handle_block_sync: the response to a request that is still there.
HandleBlockSync(q) ==
    /\ sync' = [id |-> q.id, rest |-> q.blocks]
    /\ UNCHANGED node

\* Its loop, oldest block first; no other handler runs until it has ended and the
\* request is removed.
AddSynced ==
    \E b \in sync.rest : \E e \in Env(node, {b}) :
        LET refused == IsValidToInsert(node, b) /\ b \in Invalid
            s       == IF IsValidToInsert(node, b) /\ ~refused
                       THEN AddAndCommit(node, b, e) ELSE node
            rest    == IF refused THEN {} ELSE sync.rest \ {b}
        IN  /\ \A x \in sync.rest : b \in ancestors[x]
            /\ IF rest = {}
               THEN /\ sync' = Idle
                    /\ node' = [s EXCEPT !.requests = {q \in @ : q.id # sync.id}]
               ELSE sync' = [sync EXCEPT !.rest = rest] /\ node' = s

Next ==
    /\ node.status = "live"
    /\ \/ /\ sync = Idle
          /\ \/ \E p \in Proposal : HandleProposal(p)
             \/ \E c \in QC : HandleQC(c)
             \/ \E c \in TC : HandleTC(c)
             \/ HandleNEC
             \/ \E q \in node.requests : HandleBlockSync(q)
       \/ sync # Idle /\ AddSynced

Spec == Init /\ [][Next]_vars

-----------------------------------------------------------------------------
(* What must hold.                                                         *)

\* None of the expects and asserts of prune, try_update_coherency,
\* get_high_committable_qc and try_propose fails: children lists name blocks of
\* the tree, and a coherent block that is committed or extended has a path to the
\* root, however late blocks, certificates and execution results come.
NeverPanics == node.status # "panic"

\* prune: what the ledger gets as finalized is the chain up to the root without a
\* gap, and no block comes back into the tree to be finalized again.
FinalizedChain ==
    /\ node.committed = ancestors[node.root]
    /\ node.committed \cap node.tree = {}

\* get_high_committable_qc: whenever a block under the root holds a QC that commits
\* a coherent block, that block is committed by the time the handler ends, also if
\* the blocks came in reverse order.
NothingCommittableLeft ==
    ~\E b \in node.tree :
        /\ HasPath(node, b)
        /\ parent[b] \in node.tree /\ parent[parent[b]] \in node.coherent
        /\ qc_round[b] = qc_round[parent[b]] + 1

\* request_blocks_if_missing_ancestor, handle_block_sync: while the blocks between
\* the root and the highest QC are not all there, the newest missing one has been
\* requested; neither pruning nor the end of another request loses that.
GapRequested ==
    node.high.round = node.high.qc_round => \A b \in Missing(node) : Requested(node, b)
=============================================================================
