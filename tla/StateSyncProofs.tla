--------------------------- MODULE StateSyncProofs ---------------------------
(***************************************************************************)
(* From ConsensusMode::Sync to Live (SyncModes) and the client of state    *)
(* sync with its thread (StateSyncClient): their assertions hold, a node   *)
(* goes live on a synced state, and what the client finishes is complete,  *)
(* for any delay and threshold, any chain of roots, and any number of      *)
(* prefixes, chunks, peers, sessions and targets.                          *)
(***************************************************************************)
EXTENDS SyncModes, StateSyncClient, FiniteSetTheorems, TLAPS

-----------------------------------------------------------------------------
(* From Sync to Live.                                                      *)

\* Events that KinetState sends itself.
Events ==
    [kind : {"RequestSync"}, root : Nat, qc : Int] \cup [kind : {"BlockSync"}, range : Ranges]

\* The node's state between two steps: a record without commands.
Rests(s) ==
    /\ s = [mode |-> s.mode, root |-> s.root, high |-> s.high, db |-> s.db,
            updating_target |-> s.updating_target, full |-> s.full, headers |-> s.headers,
            proposals |-> s.proposals, want |-> s.want, sync |-> s.sync, start |-> s.start,
            panic |-> s.panic]
    /\ s.want = {} /\ s.sync = {} /\ s.start = FALSE /\ s.panic = FALSE
    /\ s.root \in Nat

\* How far the node is, with the last target sent to the thread and the last
\* block executed: it waits for its blocks with no target or an older one, or it
\* has them and waits for the state of its root's delayed block, or it is live
\* and has both.
Progress(s, last, ran) ==
    \/ s.mode = "Sync" /\ s.db = "Waiting" /\ (last = NoTarget \/ last < Target(s))
    \/ s.mode = "Sync" /\ s.db = "Started" /\ NeedsBlocksync(s) = {} /\ last = Target(s)
    \/ s.mode = "Live" /\ NeedsBlocksync(s) = {} /\ Target(s) <= ran

\* The targets under way are newer than the state in the database and come in
\* increasing order, up to the last one that was sent; those reported are in it.
Targets(queue, th, back, ran, last) ==
    /\ queue \in Seq(Nat) /\ back \in Seq(Nat) /\ ran \in Nat /\ last \in Nat
    /\ th \in [current : Nat, next : Nat]
    /\ th.current = NoTarget => th.next = NoTarget
    /\ \A x \in {th.current, th.next} : x # NoTarget => ran < x /\ x <= last
    /\ th.next # NoTarget => th.current < th.next
    /\ \A i \in 1..Len(queue) : ran < queue[i] /\ queue[i] <= last /\ th.current < queue[i] /\ th.next < queue[i]
    /\ \A i, j \in 1..Len(queue) : i < j => queue[i] < queue[j]
    /\ \A i \in 1..Len(back) : back[i] # NoTarget /\ back[i] <= ran /\ back[i] <= last
    /\ last # NoTarget => ran <= last

SyncModesInv ==
    /\ ~panicked
    /\ Rests(node)
    /\ client = [live |-> client.live, target |-> client.target]
    /\ client.live <=> node.mode = "Live"
    /\ loopback \in Seq(Events)
    /\ \A i \in 1..Len(loopback) : loopback[i].kind = "RequestSync" =>
         i = 1 /\ node.mode = "Sync" /\ loopback[i].root > node.root + resync_threshold
    /\ Progress(node, client.target, executed)
    /\ Targets(new_targets, targets, done, executed, client.target)
    /\ node.mode = "Live" => new_targets = <<>> /\ targets.current = NoTarget /\ done = <<>>

-----------------------------------------------------------------------------
(* Blocks and targets.                                                     *)

\* The constants are numbers, and a node is re-rooted only past the execution delay.
LEMMA SyncConstants ==
    /\ execution_delay \in Nat \ {0} /\ resync_threshold \in Nat /\ MaxSeq \in Nat
    /\ execution_delay <= resync_threshold
    /\ min_num_blocks \in Nat \ {0} /\ min_num_blocks = 2 * execution_delay
    /\ Roots \subseteq Nat
  BY SyncModesAssumption DEF min_num_blocks

\* A root far enough ahead has a later target.
LEMMA TargetIs ==
    ASSUME NEW s, s.root \in Nat
    PROVE  /\ Target(s) \in Nat /\ Target(s) <= s.root
           /\ \A u : u.root = s.root => Target(u) = Target(s)
           /\ \A u : u.root \in Nat /\ u.root > s.root + resync_threshold => Target(s) < Target(u)
  BY SyncConstants DEF Target

\* The part of the parent chain that is there is finite.
LEMMA ChainIs ==
    ASSUME NEW s, s.root \in Nat
    PROVE  IsFiniteSet(Chain(s)) /\ Cardinality(Chain(s)) \in Nat /\ Chain(s) \subseteq 1..s.root
  <1>1. Chain(s) \subseteq 1..s.root
    BY DEF Chain
  <1>2. IsFiniteSet(1..s.root)
    BY FS_Interval
  <1>3. IsFiniteSet(Chain(s))
    BY <1>1, <1>2, FS_Subset
  <1> QED
    BY <1>1, <1>3, FS_CardinalityType

\* When nothing has to be fetched, the last blocks up to the root are all there.
LEMMA BlocksAreThere ==
    ASSUME NEW s, s.root \in Nat, NeedsBlocksync(s) = {}, s.root # 0
    PROVE  s.root - min_num_blocks + 1 .. s.root \subseteq s.full
  <1>1. Cardinality(Chain(s)) >= min_num_blocks
    BY DEF NeedsBlocksync
  <1>2. IsFiniteSet(Chain(s)) /\ Cardinality(Chain(s)) \in Nat /\ Chain(s) \subseteq 1..s.root
    BY ChainIs
  <1> SUFFICES ASSUME NEW x \in s.root - min_num_blocks + 1 .. s.root, x \notin s.full PROVE FALSE
    OBVIOUS
  <1>3. min_num_blocks \in Nat /\ x \in Int /\ x <= s.root /\ x >= s.root - min_num_blocks + 1
    BY SyncConstants
  <1>4. Chain(s) \subseteq x + 1 .. s.root
    <2>1. ASSUME NEW b \in Chain(s) PROVE b \in x + 1 .. s.root
      <3>1. b \in 1..s.root /\ b..s.root \subseteq s.full
        BY DEF Chain
      <3>2. ~(b <= x)
        <4> SUFFICES ASSUME b <= x PROVE FALSE
          OBVIOUS
        <4>1. x \in b..s.root
          BY <1>3, <3>1
        <4> QED
          BY <3>1, <4>1
      <3> QED
        BY <1>3, <3>1, <3>2
    <2> QED
      BY <2>1
  <1>5. x + 1 \in Int /\ s.root \in Int
    BY <1>3
  <1>6. /\ IsFiniteSet(x + 1 .. s.root)
        /\ Cardinality(x + 1 .. s.root) = IF x + 1 > s.root THEN 0 ELSE s.root - (x + 1) + 1
    BY <1>5, FS_Interval
  <1>7. Cardinality(Chain(s)) <= Cardinality(x + 1 .. s.root)
    BY <1>4, <1>6, FS_Subset
  <1>8. Cardinality(x + 1 .. s.root) < min_num_blocks /\ Cardinality(x + 1 .. s.root) \in Nat
    BY <1>3, <1>6, SyncConstants
  <1> QED
    BY <1>1, <1>2, <1>3, <1>7, <1>8

\* A buffer that lacks no block has its root.
LEMMA RootIsThere ==
    ASSUME NEW s, s.root \in Nat, NeedsBlocksync(s) = {}
    PROVE  RootKnown(s)
  <1>1. CASE s.root = 0
    BY <1>1 DEF RootKnown
  <1>2. CASE s.root # 0
    <2>1. s.root - min_num_blocks + 1 .. s.root \subseteq s.full
      BY <1>2, BlocksAreThere
    <2>2. s.root \in s.root - min_num_blocks + 1 .. s.root
      BY SyncConstants
    <2> QED
      BY <2>1, <2>2 DEF RootKnown
  <1> QED
    BY <1>1, <1>2

\* More blocks never make a range missing.
LEMMA MoreBlocks ==
    ASSUME NEW s, s.root \in Nat, NeedsBlocksync(s) = {}, NEW u, u.root = s.root, s.full \subseteq u.full
    PROVE  NeedsBlocksync(u) = {}
  <1>1. CASE s.root = 0
    BY <1>1 DEF NeedsBlocksync
  <1>2. CASE s.root # 0
    <2>1. Cardinality(Chain(s)) >= min_num_blocks
      BY <1>2 DEF NeedsBlocksync
    <2>2. Chain(s) \subseteq Chain(u)
      BY DEF Chain
    <2>3. IsFiniteSet(Chain(u)) /\ Cardinality(Chain(u)) \in Nat /\ Cardinality(Chain(s)) \in Nat
      BY ChainIs
    <2>4. Cardinality(Chain(s)) <= Cardinality(Chain(u))
      BY <2>2, <2>3, FS_Subset
    <2>5. Cardinality(Chain(u)) >= min_num_blocks
      BY <2>1, <2>3, <2>4, SyncConstants
    <2> QED
      BY <2>5 DEF NeedsBlocksync
  <1> QED
    BY <1>1, <1>2

-----------------------------------------------------------------------------
(* KinetState.                                                             *)

\* What a handler may leave behind: the same mode without a command but for
\* blocks; a target for state sync; or the node goes live.
Outcome(s, u) ==
    /\ u = [mode |-> u.mode, root |-> u.root, high |-> u.high, db |-> u.db,
            updating_target |-> u.updating_target, full |-> u.full, headers |-> u.headers,
            proposals |-> u.proposals, want |-> u.want, sync |-> u.sync, start |-> u.start,
            panic |-> u.panic]
    /\ u.panic = FALSE /\ u.root = s.root /\ u.full = s.full
    /\ \/ u.mode = s.mode /\ u.db = s.db /\ u.sync = {} /\ u.start = FALSE
       \/ /\ s.mode = "Sync" /\ s.db = "Waiting" /\ NeedsBlocksync(s) = {} /\ executed < Target(s)
          /\ u.mode = "Sync" /\ u.db = "Started" /\ u.sync = {Target(s)} /\ u.start = FALSE
       \/ /\ s.mode = "Sync" /\ NeedsBlocksync(s) = {} /\ Target(s) <= executed
          /\ u.mode = "Live" /\ u.sync = {} /\ u.start = TRUE

\* What is missing depends on the root and the blocks held only.
LEMMA NeedsSame ==
    ASSUME NEW s, NEW u, u.root = s.root, u.full = s.full
    PROVE  NeedsBlocksync(u) = NeedsBlocksync(s) /\ Target(u) = Target(s) /\ (RootKnown(u) <=> RootKnown(s))
  <1>1. Chain(u) = Chain(s)
    BY DEF Chain
  <1> QED
    BY <1>1 DEF NeedsBlocksync, Target, RootKnown

\* maybe_start_consensus asks for blocks, waits, tells the thread a target, or goes live.
LEMMA MaybeStarts ==
    ASSUME NEW s, Rests(s), s.mode = "Sync", s.db \in {"Waiting", "Started"}, executed \in Nat,
           s.db = "Started" => NeedsBlocksync(s) = {},
           NEW u, u = MaybeStartConsensus(s)
    PROVE  Outcome(s, u)
  <1>1. CASE NeedsBlocksync(s) # {}
    <2>1. u = [s EXCEPT !.want = NeedsBlocksync(s)]
      BY <1>1 DEF MaybeStartConsensus
    <2> QED
      BY <2>1 DEF Rests, Outcome
  <1>2. CASE NeedsBlocksync(s) = {} /\ s.db = "Started"
    <2>1. u = s
      BY <1>2 DEF MaybeStartConsensus
    <2> QED
      BY <2>1 DEF Rests, Outcome
  <1>3. CASE NeedsBlocksync(s) = {} /\ s.db = "Waiting" /\ Target(s) <= executed
    <2>1. PICK t : t = [s EXCEPT !.db = "Started"]
      OBVIOUS
    <2>2. u = DoneSync(t, Target(s))
      BY <1>3, <2>1 DEF MaybeStartConsensus
    <2>3. t.mode = "Sync" /\ t.db = "Started" /\ t.root = s.root /\ t.full = s.full
      BY <2>1 DEF Rests
    <2>4. RootKnown(t) /\ Target(t) = Target(s) /\ Target(s) \in Nat
      BY <1>3, <2>3, NeedsSame, RootIsThere, TargetIs DEF Rests
    <2>5. PICK x : x = [t EXCEPT !.db = "Done"]
      OBVIOUS
    <2>6. u = StartWhenSynced(x)
      BY <2>2, <2>3, <2>4, <2>5 DEF DoneSync
    <2>7. x = [s EXCEPT !.db = "Done"]
      BY <2>1, <2>5 DEF Rests
    <2>8. NeedsBlocksync(x) = {}
      <3>1. x.root = s.root /\ x.full = s.full
        BY <2>7 DEF Rests
      <3> QED
        BY <1>3, <3>1, NeedsSame
    <2>9. u = [x EXCEPT !.mode = "Live", !.start = TRUE]
      BY <2>6, <2>8 DEF StartWhenSynced
    <2> QED
      BY <1>3, <2>7, <2>9 DEF Rests, Outcome
  <1>4. CASE NeedsBlocksync(s) = {} /\ s.db = "Waiting" /\ ~(Target(s) <= executed)
    <2>1. u = [s EXCEPT !.db = "Started", !.sync = {Target(s)}]
      BY <1>4 DEF MaybeStartConsensus
    <2>2. executed < Target(s)
      BY <1>4, TargetIs DEF Rests
    <2> QED
      BY <1>4, <2>1, <2>2 DEF Rests, Outcome
  <1> QED
    BY <1>1, <1>2, <1>3, <1>4

-----------------------------------------------------------------------------
(* The channels.                                                           *)

\* A newer target is sent.
LEMMA TargetSent ==
    ASSUME NEW queue, NEW th, NEW back, NEW ran, NEW last, Targets(queue, th, back, ran, last),
           NEW n \in Nat, last < n, ran < n
    PROVE  Targets(Append(queue, n), th, back, ran, n)
  <1>1. /\ queue \in Seq(Nat) /\ back \in Seq(Nat) /\ ran \in Nat /\ last \in Nat
        /\ th \in [current : Nat, next : Nat]
        /\ th.current \in Nat /\ th.next \in Nat
        /\ th.current = NoTarget => th.next = NoTarget
        /\ \A x \in {th.current, th.next} : x # NoTarget => ran < x /\ x <= last
        /\ th.next # NoTarget => th.current < th.next
        /\ \A i \in 1..Len(queue) : ran < queue[i] /\ queue[i] <= last /\ th.current < queue[i] /\ th.next < queue[i]
        /\ \A i, j \in 1..Len(queue) : i < j => queue[i] < queue[j]
        /\ \A i \in 1..Len(back) : back[i] # NoTarget /\ back[i] <= ran /\ back[i] <= last
    BY DEF Targets
  <1>2. PICK q : q = Append(queue, n)
    OBVIOUS
  <1>3. /\ q \in Seq(Nat) /\ Len(q) = Len(queue) + 1 /\ q[Len(queue) + 1] = n /\ Len(queue) \in Nat
        /\ \A i \in 1..Len(queue) : q[i] = queue[i] /\ queue[i] \in Nat
    BY <1>1, <1>2
  <1>4. th.current < n /\ th.next < n
    BY <1>1 DEF NoTarget
  <1>5. \A i \in 1..Len(q) : i \in 1..Len(queue) \/ i = Len(queue) + 1
    BY <1>3
  <1>6. ASSUME NEW i \in 1..Len(q)
        PROVE  ran < q[i] /\ q[i] <= n /\ th.current < q[i] /\ th.next < q[i]
    <2>1. CASE i \in 1..Len(queue)
      <3>1. ran < queue[i] /\ queue[i] <= last /\ th.current < queue[i] /\ th.next < queue[i]
        BY <1>1, <2>1
      <3>2. q[i] = queue[i] /\ queue[i] \in Nat
        BY <1>3, <2>1
      <3>3. queue[i] <= n
        BY <1>1, <3>1, <3>2
      <3> QED
        BY <3>1, <3>2, <3>3
    <2>2. CASE i = Len(queue) + 1
      <3>1. q[i] = n
        BY <1>3, <2>2
      <3> QED
        BY <1>4, <3>1
    <2> QED
      BY <1>5, <2>1, <2>2
  <1>7. ASSUME NEW i \in 1..Len(q), NEW j \in 1..Len(q), i < j
        PROVE  q[i] < q[j]
    <2>1. i \in 1..Len(queue)
      BY <1>3, <1>7
    <2>2. q[i] = queue[i] /\ queue[i] \in Nat /\ queue[i] <= last
      BY <1>1, <1>3, <2>1
    <2>3. CASE j \in 1..Len(queue)
      BY <1>1, <1>3, <1>7, <2>1, <2>2, <2>3
    <2>4. CASE j = Len(queue) + 1
      <3>1. q[j] = n
        BY <1>3, <2>4
      <3> QED
        BY <1>1, <2>2, <3>1
    <2> QED
      BY <1>5, <2>3, <2>4
  <1>8. \A i \in 1..Len(back) : back[i] # NoTarget /\ back[i] <= ran /\ back[i] <= n
    <2>1. \A i \in 1..Len(back) : back[i] \in Nat
      BY <1>1
    <2> QED
      BY <1>1, <2>1
  <1>9. \A x \in {th.current, th.next} : x # NoTarget => ran < x /\ x <= n
    BY <1>1
  <1>10. Targets(q, th, back, ran, n)
    BY <1>1, <1>3, <1>6, <1>7, <1>8, <1>9 DEF Targets
  <1> QED
    BY <1>2, <1>10

\* A state as new as the last target leaves the thread with nothing to do.
LEMMA NothingUnderWay ==
    ASSUME NEW queue, NEW th, NEW back, NEW ran, NEW last, Targets(queue, th, back, ran, last),
           last = NoTarget \/ last <= ran
    PROVE  queue = <<>> /\ th.current = NoTarget /\ th.next = NoTarget
  <1>1. /\ queue \in Seq(Nat) /\ ran \in Nat /\ last \in Nat
        /\ th.current \in Nat /\ th.next \in Nat
        /\ \A x \in {th.current, th.next} : x # NoTarget => ran < x /\ x <= last
        /\ \A i \in 1..Len(queue) : ran < queue[i] /\ queue[i] <= last
    BY DEF Targets
  <1>2. th.current = NoTarget /\ th.next = NoTarget
    BY <1>1 DEF NoTarget
  <1>3. ~(Len(queue) >= 1)
    <2> SUFFICES ASSUME Len(queue) >= 1 PROVE FALSE
      OBVIOUS
    <2>1. 1 \in 1..Len(queue) /\ queue[1] \in Nat
      BY <1>1
    <2>2. ran < queue[1] /\ queue[1] <= last
      BY <1>1, <2>1
    <2> QED
      BY <1>1, <2>1, <2>2 DEF NoTarget
  <1>4. queue = <<>>
    BY <1>1, <1>3
  <1> QED
    BY <1>2, <1>4

\* A DoneSync that is taken is for a target whose state is in the database.
LEMMA ReportTaken ==
    ASSUME NEW queue, NEW th, NEW back, NEW ran, NEW last, Targets(queue, th, back, ran, last), back # <<>>
    PROVE  /\ Targets(queue, th, Tail(back), ran, last)
           /\ Head(back) \in Nat /\ Head(back) # NoTarget /\ Head(back) <= ran /\ Head(back) <= last
  <1>1. back \in Seq(Nat) /\ \A i \in 1..Len(back) : back[i] # NoTarget /\ back[i] <= ran /\ back[i] <= last
    BY DEF Targets
  <1>2. PICK t : t = Tail(back)
    OBVIOUS
  <1>3. /\ t \in Seq(Nat) /\ Len(t) = Len(back) - 1 /\ Len(back) \in Nat /\ Len(back) >= 1
        /\ \A i \in 1..Len(t) : t[i] = back[i + 1]
        /\ Head(back) = back[1] /\ back[1] \in Nat
    BY <1>1, <1>2
  <1>4. \A i \in 1..Len(t) : i + 1 \in 1..Len(back)
    BY <1>3
  <1>5. \A i \in 1..Len(t) : t[i] # NoTarget /\ t[i] <= ran /\ t[i] <= last
    BY <1>1, <1>3, <1>4
  <1>6. Targets(queue, th, t, ran, last)
    BY <1>3, <1>5 DEF Targets
  <1>7. 1 \in 1..Len(back)
    BY <1>3
  <1> QED
    BY <1>1, <1>2, <1>3, <1>6, <1>7

\* The reports may be dropped, as StartExecution does.
LEMMA NoReports ==
    ASSUME NEW queue, NEW th, NEW back, NEW ran, NEW last, Targets(queue, th, back, ran, last)
    PROVE  Targets(queue, th, <<>>, ran, last)
  <1>1. <<>> \in Seq(Nat) /\ Len(<<>>) = 0
    OBVIOUS
  <1> QED
    BY <1>1 DEF Targets

\* A step of KinetState: no assertion fails, and the invariant is kept.
LEMMA StepKeeps ==
    ASSUME SyncModesInv, NEW s, Rests(s), s.mode = node.mode, Progress(s, client.target, executed),
           NEW u, Outcome(s, u), NEW back, Targets(new_targets, targets, back, executed, client.target),
           node.mode = "Live" => back = <<>>,
           Step(u, back), UNCHANGED <<targets, executed>>,
           loopback' \in Seq(Events), \A i \in 1..Len(loopback') : loopback'[i].kind # "RequestSync"
    PROVE  SyncModesInv'
  <1>1. /\ client = [live |-> client.live, target |-> client.target] /\ (client.live <=> node.mode = "Live")
        /\ node.mode = "Live" => new_targets = <<>> /\ targets.current = NoTarget
        /\ executed \in Nat /\ client.target \in Nat /\ targets.current \in Nat
    BY DEF SyncModesInv, Targets
  <1>2. /\ node' = Quiet(u)
        /\ client' = [live |-> client.live \/ u.start,
                      target |-> IF u.sync = {} THEN client.target ELSE CHOOSE n \in u.sync : TRUE]
        /\ new_targets' = IF u.sync = {} THEN new_targets ELSE Append(new_targets, CHOOSE n \in u.sync : TRUE)
        /\ done' = IF u.start THEN <<>> ELSE back
        /\ panicked' = (\/ u.panic
                        \/ u.start /\ client.live
                        \/ \E n \in u.sync : client.live \/ n <= client.target)
        /\ targets' = targets /\ executed' = executed
    BY DEF Step
  <1>3. /\ Rests(node') /\ node'.mode = u.mode /\ node'.db = u.db /\ node'.root = s.root /\ node'.full = s.full
    BY <1>2 DEF Rests, Outcome, Quiet
  <1>4. NeedsBlocksync(node') = NeedsBlocksync(s) /\ Target(node') = Target(s) /\ Target(s) \in Nat
    BY <1>3, NeedsSame, TargetIs DEF Rests
  <1>5. u.panic = FALSE
    BY DEF Outcome
  <1>6. s.mode \in {"Sync", "Live"}
    BY DEF Progress
  <1>7. CASE u.mode = s.mode /\ u.db = s.db /\ u.sync = {} /\ u.start = FALSE
    <2>1. /\ client'.target = client.target /\ (client'.live <=> client.live)
          /\ client' = [live |-> client'.live, target |-> client'.target]
          /\ new_targets' = new_targets /\ done' = back /\ ~panicked'
      BY <1>2, <1>5, <1>7
    <2>2. Progress(node', client'.target, executed')
      BY <1>2, <1>3, <1>4, <1>7, <2>1 DEF Progress
    <2> QED
      BY <1>1, <1>2, <1>3, <1>7, <2>1, <2>2 DEF SyncModesInv
  <1>8. CASE /\ s.mode = "Sync" /\ s.db = "Waiting" /\ NeedsBlocksync(s) = {} /\ executed < Target(s)
             /\ u.mode = "Sync" /\ u.db = "Started" /\ u.sync = {Target(s)} /\ u.start = FALSE
    <2>1. (CHOOSE n \in u.sync : TRUE) = Target(s)
      BY <1>8
    <2>2. client.target < Target(s)
      BY <1>1, <1>4, <1>8 DEF Progress, NoTarget
    <2>3. /\ client'.target = Target(s) /\ (client'.live <=> client.live)
          /\ client' = [live |-> client'.live, target |-> client'.target]
          /\ new_targets' = Append(new_targets, Target(s)) /\ done' = back
      BY <1>2, <1>8, <2>1
    <2>4. ~panicked'
      BY <1>1, <1>2, <1>4, <1>5, <1>8, <2>2
    <2>5. Progress(node', client'.target, executed')
      BY <1>2, <1>3, <1>4, <1>8, <2>3 DEF Progress
    <2>6. Targets(new_targets', targets', done', executed', client'.target)
      BY <1>2, <1>4, <1>8, <2>2, <2>3, TargetSent
    <2> QED
      BY <1>1, <1>2, <1>3, <1>8, <2>3, <2>4, <2>5, <2>6 DEF SyncModesInv
  <1>9. CASE /\ s.mode = "Sync" /\ NeedsBlocksync(s) = {} /\ Target(s) <= executed
             /\ u.mode = "Live" /\ u.sync = {} /\ u.start = TRUE
    <2>1. /\ client'.target = client.target /\ client'.live
          /\ client' = [live |-> client'.live, target |-> client'.target]
          /\ new_targets' = new_targets /\ done' = <<>>
      BY <1>2, <1>9
    <2>2. ~panicked'
      BY <1>1, <1>2, <1>5, <1>9
    <2>3. client.target = NoTarget \/ client.target <= executed
      <3>1. client.target # NoTarget => executed <= client.target
        BY DEF Targets
      <3> QED
        BY <1>1, <1>4, <1>9, <3>1 DEF Progress
    <2>4. new_targets = <<>> /\ targets.current = NoTarget
      BY <2>3, NothingUnderWay
    <2>5. Progress(node', client'.target, executed')
      BY <1>2, <1>3, <1>4, <1>9 DEF Progress
    <2>6. Targets(new_targets', targets', done', executed', client'.target)
      BY <1>2, <2>1, NoReports
    <2> QED
      BY <1>2, <1>3, <1>9, <2>1, <2>2, <2>4, <2>5, <2>6 DEF SyncModesInv
  <1> QED
    BY <1>7, <1>8, <1>9 DEF Outcome

-----------------------------------------------------------------------------
(* The invariant.                                                          *)

\* The invariant holds when a node starts.
LEMMA SyncModesInit ==
    ASSUME Init
    PROVE  SyncModesInv
  <1>1. PICK root \in Roots :
          /\ executed \in 0..root
          /\ LET s == MaybeStartConsensus(Fresh(root))
             IN  /\ node = Quiet(s)
                 /\ wanted = s.want
                 /\ client = [live |-> s.start, target |-> NoTarget]
          /\ loopback = <<>> /\ new_targets = <<>> /\ done = <<>>
          /\ targets = [current |-> NoTarget, next |-> NoTarget]
          /\ panicked = FALSE
    BY DEF Init
  <1>2. root \in Nat /\ executed \in Nat
    BY <1>1, SyncConstants
  <1>3. PICK f : f = Fresh(root)
    OBVIOUS
  <1>4. Rests(f) /\ f.mode = "Sync" /\ f.db = "Waiting" /\ f.root = root /\ f.full = {}
    BY <1>2, <1>3 DEF Fresh, Rests
  <1>5. PICK u : u = MaybeStartConsensus(f)
    OBVIOUS
  <1>6. Outcome(f, u)
    BY <1>2, <1>4, <1>5, MaybeStarts
  <1>7. node = Quiet(u) /\ client = [live |-> u.start, target |-> NoTarget]
    BY <1>1, <1>3, <1>5
  <1>8. /\ Rests(node) /\ node.mode = u.mode /\ node.db = u.db /\ node.root = root /\ node.full = {}
    BY <1>2, <1>4, <1>6, <1>7 DEF Rests, Outcome, Quiet
  <1>9. NeedsBlocksync(node) = NeedsBlocksync(f) /\ Target(node) = Target(f)
    BY <1>4, <1>8, NeedsSame
  <1>10. u.sync = {}
    <2> SUFFICES ASSUME u.sync # {} PROVE FALSE
      OBVIOUS
    <2>1. NeedsBlocksync(f) = {} /\ executed < Target(f)
      BY <1>6 DEF Outcome
    <2>2. RootKnown(f)
      BY <1>2, <1>4, <2>1, RootIsThere
    <2>3. root = 0
      BY <1>4, <2>2 DEF RootKnown
    <2>4. Target(f) = 0
      BY <1>4, <2>3, SyncConstants DEF Target
    <2> QED
      BY <1>2, <2>1, <2>4
  <1>11. \/ u.mode = "Sync" /\ u.db = "Waiting" /\ u.start = FALSE
         \/ u.mode = "Live" /\ u.start = TRUE /\ NeedsBlocksync(f) = {} /\ Target(f) <= executed
    BY <1>4, <1>6, <1>10 DEF Outcome
  <1>12. Progress(node, client.target, executed)
    BY <1>7, <1>8, <1>9, <1>11 DEF Progress
  <1>13. Targets(new_targets, targets, done, executed, client.target)
    <2>1. <<>> \in Seq(Nat) /\ Len(<<>>) = 0
      OBVIOUS
    <2> QED
      BY <1>1, <1>2, <1>7, <2>1 DEF Targets, NoTarget
  <1>14. loopback \in Seq(Events) /\ Len(loopback) = 0
    BY <1>1
  <1>15. client.live <=> node.mode = "Live"
    BY <1>7, <1>8, <1>11
  <1>16. client = [live |-> client.live, target |-> client.target]
    BY <1>7
  <1>17. targets.current = NoTarget
    BY <1>1
  <1> QED
    BY <1>1, <1>8, <1>12, <1>13, <1>14, <1>15, <1>16, <1>17 DEF SyncModesInv

\* What the loopback channel holds once its first event is taken.
LEMMA LoopbackTail ==
    ASSUME SyncModesInv, loopback # <<>>
    PROVE  /\ Tail(loopback) \in Seq(Events) /\ Head(loopback) \in Events
           /\ \A i \in 1..Len(Tail(loopback)) : Tail(loopback)[i].kind # "RequestSync"
           /\ Head(loopback).kind = "RequestSync" =>
                node.mode = "Sync" /\ Head(loopback).root > node.root + resync_threshold
  <1>1. /\ loopback \in Seq(Events)
        /\ \A i \in 1..Len(loopback) : loopback[i].kind = "RequestSync" =>
             i = 1 /\ node.mode = "Sync" /\ loopback[i].root > node.root + resync_threshold
    BY DEF SyncModesInv
  <1>2. PICK t : t = Tail(loopback)
    OBVIOUS
  <1>3. /\ t \in Seq(Events) /\ Len(t) = Len(loopback) - 1 /\ Len(loopback) \in Nat /\ Len(loopback) >= 1
        /\ \A i \in 1..Len(t) : t[i] = loopback[i + 1]
        /\ Head(loopback) = loopback[1] /\ loopback[1] \in Events
    BY <1>1, <1>2
  <1>4. \A i \in 1..Len(t) : i + 1 \in 1..Len(loopback) /\ i + 1 # 1
    BY <1>3
  <1>5. \A i \in 1..Len(t) : t[i].kind # "RequestSync"
    BY <1>1, <1>3, <1>4
  <1>6. 1 \in 1..Len(loopback)
    BY <1>3
  <1> QED
    BY <1>1, <1>2, <1>3, <1>5, <1>6

\* An event joins the loopback channel.
LEMMA LoopbackGrows ==
    ASSUME loopback \in Seq(Events), NEW e \in Events, NEW q, q = Append(loopback, e)
    PROVE  /\ q \in Seq(Events) /\ Len(q) = Len(loopback) + 1 /\ Len(loopback) \in Nat
           /\ \A i \in 1..Len(q) : \/ i \in 1..Len(loopback) /\ q[i] = loopback[i]
                                   \/ i = Len(loopback) + 1 /\ q[i] = e
  <1>1. q \in Seq(Events) /\ Len(q) = Len(loopback) + 1 /\ Len(loopback) \in Nat
        /\ \A i \in 1..Len(loopback) : q[i] = loopback[i]
        /\ q[Len(loopback) + 1] = e
    OBVIOUS
  <1>2. \A i \in 1..Len(q) : i \in 1..Len(loopback) \/ i = Len(loopback) + 1
    BY <1>1
  <1> QED
    BY <1>1, <1>2

\* A proposal may ask for a new root; a second such request waits for the first.
LEMMA HandleProposalStep ==
    ASSUME SyncModesInv, NEW b \in 1..MaxSeq, HandleProposal(b)
    PROVE  SyncModesInv'
  <1>1. PICK s : s = Buffer(node, b)
    OBVIOUS
  <1>2. PICK resync \in BOOLEAN : resync = (FindsNewRoot(s, b) /\ ~s.updating_target)
    OBVIOUS
  <1>3. /\ node' = [s EXCEPT !.updating_target = @ \/ resync]
        /\ loopback' = IF resync THEN Append(loopback, RequestSync(b - 2, b - 1)) ELSE loopback
        /\ loopback = <<>> /\ node.mode = "Sync"
        /\ client' = client /\ new_targets' = new_targets /\ targets' = targets
        /\ done' = done /\ executed' = executed /\ panicked' = panicked
    BY <1>1, <1>2 DEF HandleProposal, LoopbackIsPolledFirst
  <1>4. /\ Rests(s) /\ s.mode = node.mode /\ s.db = node.db /\ s.root = node.root /\ s.full = node.full
    <2>1. Rests(node)
      BY DEF SyncModesInv
    <2>2. PICK all : all = IF Len(Append(node.proposals, b)) > resync_threshold
                           THEN Tail(Append(node.proposals, b)) ELSE Append(node.proposals, b)
      OBVIOUS
    <2>3. s = [node EXCEPT !.headers = @ \cup {b}, !.proposals = all]
      BY <1>1, <2>2 DEF Buffer
    <2> QED
      BY <2>1, <2>3 DEF Rests
  <1>5. /\ Rests(node') /\ node'.mode = node.mode /\ node'.db = node.db /\ node'.root = node.root
        /\ node'.full = node.full
    BY <1>3, <1>4 DEF Rests
  <1>6. NeedsBlocksync(node') = NeedsBlocksync(node) /\ Target(node') = Target(node)
    BY <1>5, NeedsSame
  <1>7. Progress(node', client'.target, executed')
    BY <1>3, <1>5, <1>6 DEF SyncModesInv, Progress
  <1>8. Targets(new_targets', targets', done', executed', client'.target)
    BY <1>3 DEF SyncModesInv
  <1>9. /\ loopback' \in Seq(Events)
        /\ \A i \in 1..Len(loopback') : loopback'[i].kind = "RequestSync" =>
             i = 1 /\ node'.mode = "Sync" /\ loopback'[i].root > node'.root + resync_threshold
    <2>1. CASE ~resync
      <3>1. loopback' = <<>> /\ Len(<<>>) = 0 /\ <<>> \in Seq(Events)
        BY <1>3, <2>1
      <3> QED
        BY <3>1
    <2>2. CASE resync
      <3>1. b - 2 > node.root + resync_threshold
        BY <1>2, <1>4, <2>2 DEF FindsNewRoot
      <3>2. b - 2 \in Nat /\ b - 1 \in Int
        <4>1. node.root \in Nat /\ b \in Int
          BY SyncConstants DEF SyncModesInv, Rests
        <4> QED
          BY <3>1, <4>1, SyncConstants
      <3>3. PICK e : e = RequestSync(b - 2, b - 1)
        OBVIOUS
      <3>4. e \in Events /\ e.root = b - 2
        BY <3>2, <3>3 DEF Events, RequestSync
      <3>5. loopback' = <<e>>
        BY <1>3, <2>2, <3>3
      <3>6. loopback' \in Seq(Events) /\ Len(loopback') = 1 /\ loopback'[1] = e
        BY <3>4, <3>5
      <3>7. \A i \in 1..Len(loopback') : i = 1
        BY <3>6
      <3> QED
        BY <1>3, <1>5, <3>1, <3>4, <3>6, <3>7
    <2> QED
      BY <2>1, <2>2
  <1>10. /\ ~panicked' /\ client' = [live |-> client'.live, target |-> client'.target]
         /\ client'.live <=> node'.mode = "Live"
         /\ node'.mode = "Live" => new_targets' = <<>> /\ targets'.current = NoTarget /\ done' = <<>>
    BY <1>3, <1>5 DEF SyncModesInv
  <1> QED
    BY <1>5, <1>7, <1>8, <1>9, <1>10 DEF SyncModesInv

\* Blocks arrive behind what the loopback queue holds.
LEMMA BlocksArriveStep ==
    ASSUME SyncModesInv, NEW range \in Ranges, BlocksArrive(range)
    PROVE  SyncModesInv'
  <1>1. /\ loopback' = Append(loopback, BlockSync(range))
        /\ node' = node /\ client' = client /\ new_targets' = new_targets /\ targets' = targets
        /\ done' = done /\ executed' = executed /\ panicked' = panicked
    BY DEF BlocksArrive
  <1>2. PICK e : e = BlockSync(range)
    OBVIOUS
  <1>3. e \in Events /\ e.kind = "BlockSync"
    BY <1>2 DEF Events, BlockSync
  <1>4. PICK q : q = loopback'
    OBVIOUS
  <1>5. /\ loopback \in Seq(Events)
        /\ \A i \in 1..Len(loopback) : loopback[i].kind = "RequestSync" =>
             i = 1 /\ node.mode = "Sync" /\ loopback[i].root > node.root + resync_threshold
    BY DEF SyncModesInv
  <1>6. /\ q \in Seq(Events) /\ Len(q) = Len(loopback) + 1 /\ Len(loopback) \in Nat
        /\ \A i \in 1..Len(q) : \/ i \in 1..Len(loopback) /\ q[i] = loopback[i]
                                \/ i = Len(loopback) + 1 /\ q[i] = e
    BY <1>1, <1>2, <1>3, <1>4, <1>5, LoopbackGrows
  <1>7. \A i \in 1..Len(q) : q[i].kind = "RequestSync" =>
             i = 1 /\ node.mode = "Sync" /\ q[i].root > node.root + resync_threshold
    BY <1>3, <1>5, <1>6
  <1>8. /\ loopback' \in Seq(Events)
        /\ \A i \in 1..Len(loopback') : loopback'[i].kind = "RequestSync" =>
             i = 1 /\ node'.mode = "Sync" /\ loopback'[i].root > node'.root + resync_threshold
    BY <1>1, <1>4, <1>6, <1>7
  <1> QED
    BY <1>1, <1>8 DEF SyncModesInv

\* A new root or the blocks of a range.
LEMMA HandleLoopbackStep ==
    ASSUME SyncModesInv, HandleLoopback
    PROVE  SyncModesInv'
  <1>1. PICK e : e = Head(loopback)
    OBVIOUS
  <1>2. PICK u : u = IF e.kind = "RequestSync" THEN NewTarget(node, e.root, e.qc)
                     ELSE BlocksFound(node, Blocks(e.range))
    OBVIOUS
  <1>3. /\ loopback # <<>> /\ Step(u, done) /\ loopback' = Tail(loopback)
        /\ UNCHANGED <<targets, executed>>
    BY <1>1, <1>2 DEF HandleLoopback
  <1>4. /\ loopback' \in Seq(Events) /\ e \in Events
        /\ \A i \in 1..Len(loopback') : loopback'[i].kind # "RequestSync"
        /\ e.kind = "RequestSync" => node.mode = "Sync" /\ e.root > node.root + resync_threshold
    BY <1>1, <1>3, LoopbackTail
  <1>5. /\ Rests(node) /\ Progress(node, client.target, executed)
        /\ Targets(new_targets, targets, done, executed, client.target)
        /\ node.mode = "Live" => done = <<>>
        /\ executed \in Nat /\ client.target \in Nat /\ node.root \in Nat
    BY DEF SyncModesInv, Targets, Rests
  <1>6. CASE e.kind = "RequestSync"
    <2>1. e.root \in Nat
      BY <1>4, <1>6 DEF Events
    <2>2. PICK r : r = ReRoot(node, e.root)
      OBVIOUS
    <2>3. PICK s : s = [r EXCEPT !.high = e.qc, !.db = "Waiting", !.updating_target = FALSE]
      OBVIOUS
    <2>4. u = MaybeStartConsensus(s)
      BY <1>2, <1>4, <1>6, <2>2, <2>3 DEF NewTarget
    <2>5. PICK full, headers : r = [node EXCEPT !.full = full, !.headers = headers, !.root = e.root]
      BY <2>2 DEF ReRoot
    <2>6. Rests(s) /\ s.mode = "Sync" /\ s.db = "Waiting" /\ s.root = e.root
      BY <1>4, <1>5, <1>6, <2>1, <2>3, <2>5 DEF Rests
    <2>7. Outcome(s, u)
      BY <1>5, <2>4, <2>6, MaybeStarts
    <2>8. Target(node) < Target(s) /\ Target(node) \in Nat /\ Target(s) \in Nat
      BY <1>4, <1>5, <1>6, <2>1, <2>6, TargetIs
    <2>9. client.target = NoTarget \/ client.target < Target(s)
      BY <1>4, <1>5, <1>6, <2>8 DEF Progress
    <2>10. Progress(s, client.target, executed)
      BY <2>6, <2>9 DEF Progress
    <2> QED
      BY <1>3, <1>4, <1>5, <1>6, <2>6, <2>7, <2>10, StepKeeps
  <1>7. CASE e.kind # "RequestSync" /\ node.mode = "Live"
    <2>1. u = node
      BY <1>2, <1>7 DEF BlocksFound
    <2>2. Outcome(node, u)
      BY <1>5, <2>1 DEF Outcome, Rests
    <2> QED
      BY <1>3, <1>4, <1>5, <2>2, StepKeeps
  <1>8. CASE e.kind # "RequestSync" /\ node.mode # "Live"
    <2>1. PICK new : new = {b \in Blocks(e.range) : RootKnown(node) => b <= node.root}
      OBVIOUS
    <2>2. PICK s : s = [node EXCEPT !.full = @ \cup new]
      OBVIOUS
    <2>3. u = MaybeStartConsensus(s)
      BY <1>2, <1>8, <2>1, <2>2 DEF BlocksFound
    <2>4. /\ Rests(s) /\ s.mode = node.mode /\ s.db = node.db /\ s.root = node.root
          /\ node.full \subseteq s.full
      BY <1>5, <2>2 DEF Rests
    <2>5. Target(s) = Target(node)
      BY <1>5, <2>4, TargetIs
    <2>6. NeedsBlocksync(node) = {} => NeedsBlocksync(s) = {}
      BY <1>5, <2>4, MoreBlocks
    <2>7. Progress(s, client.target, executed)
      BY <1>5, <2>4, <2>5, <2>6 DEF Progress
    <2>8. s.mode = "Sync" /\ s.db \in {"Waiting", "Started"} /\ (s.db = "Started" => NeedsBlocksync(s) = {})
      BY <1>8, <2>4, <2>7 DEF Progress
    <2>9. Outcome(s, u)
      BY <1>5, <2>3, <2>4, <2>8, MaybeStarts
    <2> QED
      BY <1>3, <1>4, <1>5, <2>4, <2>7, <2>9, StepKeeps
  <1> QED
    BY <1>6, <1>7, <1>8

\* A report is for the current target, or for one that was given up.
LEMMA HandleDoneSyncStep ==
    ASSUME SyncModesInv, HandleDoneSync
    PROVE  SyncModesInv'
  <1>1. PICK n : n = Head(done)
    OBVIOUS
  <1>2. PICK u : u = DoneSync(node, n)
    OBVIOUS
  <1>3. /\ loopback = <<>> /\ ~client.live /\ done # <<>> /\ Step(u, Tail(done))
        /\ loopback' = loopback /\ UNCHANGED <<targets, executed>>
    BY <1>1, <1>2 DEF HandleDoneSync, LoopbackIsPolledFirst
  <1>4. /\ Rests(node) /\ Progress(node, client.target, executed)
        /\ Targets(new_targets, targets, done, executed, client.target)
        /\ node.mode # "Live"
        /\ executed \in Nat /\ client.target \in Nat /\ node.root \in Nat
    BY <1>3 DEF SyncModesInv, Targets, Rests
  <1>5. /\ Targets(new_targets, targets, Tail(done), executed, client.target)
        /\ n \in Nat /\ n # NoTarget /\ n <= executed /\ n <= client.target
    BY <1>1, <1>3, <1>4, ReportTaken
  <1>6. Target(node) \in Nat
    BY <1>4, TargetIs
  <1>7. loopback' \in Seq(Events) /\ \A i \in 1..Len(loopback') : loopback'[i].kind # "RequestSync"
    <2>1. <<>> \in Seq(Events) /\ Len(<<>>) = 0
      OBVIOUS
    <2> QED
      BY <1>3, <2>1
  <1>8. node.mode = "Sync" /\ node.db \in {"Waiting", "Started"}
    BY <1>4 DEF Progress
  <1>9. Outcome(node, u)
    <2>1. CASE ~RootKnown(node) \/ n < Target(node)
      <3>1. u = node
        BY <1>2, <1>8, <2>1 DEF DoneSync
      <3> QED
        BY <1>4, <3>1 DEF Outcome, Rests
    <2>2. CASE RootKnown(node) /\ ~(n < Target(node))
      <3>1. n <= Target(node) /\ node.db = "Started" /\ NeedsBlocksync(node) = {}
        BY <1>4, <1>5, <1>6, <2>2 DEF Progress, NoTarget
      <3>2. n = Target(node)
        BY <1>5, <1>6, <2>2, <3>1
      <3>3. PICK x : x = [node EXCEPT !.db = "Done"]
        OBVIOUS
      <3>4. u = StartWhenSynced(x)
        BY <1>2, <1>8, <2>2, <3>1, <3>2, <3>3 DEF DoneSync
      <3>5. NeedsBlocksync(x) = {}
        <4>1. x.root = node.root /\ x.full = node.full
          BY <1>4, <3>3 DEF Rests
        <4> QED
          BY <3>1, <4>1, NeedsSame
      <3>6. u = [x EXCEPT !.mode = "Live", !.start = TRUE]
        BY <3>4, <3>5 DEF StartWhenSynced
      <3> QED
        BY <1>4, <1>5, <1>8, <3>1, <3>2, <3>3, <3>6 DEF Outcome, Rests
    <2> QED
      BY <2>1, <2>2
  <1> QED
    BY <1>3, <1>4, <1>5, <1>7, <1>9, StepKeeps

\* The thread takes the oldest target on its way.
LEMMA TargetReceived ==
    ASSUME NEW queue, NEW th, NEW back, NEW ran, NEW last, Targets(queue, th, back, ran, last),
           queue # <<>>,
           NEW w, w = IF th.current = NoTarget THEN [th EXCEPT !.current = Head(queue)]
                      ELSE [th EXCEPT !.next = Head(queue)]
    PROVE  Targets(Tail(queue), w, back, ran, last)
  <1>1. /\ queue \in Seq(Nat) /\ ran \in Nat /\ last \in Nat
        /\ th \in [current : Nat, next : Nat]
        /\ th.current \in Nat /\ th.next \in Nat
        /\ th.current = NoTarget => th.next = NoTarget
        /\ \A x \in {th.current, th.next} : x # NoTarget => ran < x /\ x <= last
        /\ \A i \in 1..Len(queue) : ran < queue[i] /\ queue[i] <= last /\ th.current < queue[i] /\ th.next < queue[i]
        /\ \A i, j \in 1..Len(queue) : i < j => queue[i] < queue[j]
    BY DEF Targets
  <1>2. PICK t : t = Tail(queue)
    OBVIOUS
  <1>3. /\ t \in Seq(Nat) /\ Len(t) = Len(queue) - 1 /\ Len(queue) \in Nat /\ Len(queue) >= 1
        /\ \A i \in 1..Len(t) : t[i] = queue[i + 1]
        /\ Head(queue) = queue[1] /\ queue[1] \in Nat
    BY <1>1, <1>2
  <1>4. 1 \in 1..Len(queue) /\ \A i \in 1..Len(t) : i + 1 \in 1..Len(queue) /\ 1 < i + 1
    BY <1>3
  <1>5. PICK h : h = queue[1]
    OBVIOUS
  <1>6. h \in Nat /\ ran < h /\ h <= last /\ th.current < h /\ th.next < h /\ h # NoTarget
    BY <1>1, <1>3, <1>4, <1>5 DEF NoTarget
  <1>7. /\ w \in [current : Nat, next : Nat] /\ w.current \in Nat /\ w.next \in Nat
        /\ \/ th.current = NoTarget /\ w.current = h /\ w.next = NoTarget
           \/ th.current # NoTarget /\ w.current = th.current /\ w.next = h
    <2>1. CASE th.current = NoTarget
      <3>1. w = [th EXCEPT !.current = h]
        BY <1>3, <1>5, <2>1
      <3> QED
        BY <1>1, <1>6, <2>1, <3>1
    <2>2. CASE th.current # NoTarget
      <3>1. w = [th EXCEPT !.next = h]
        BY <1>3, <1>5, <2>2
      <3> QED
        BY <1>1, <1>6, <2>2, <3>1
    <2> QED
      BY <2>1, <2>2
  <1>8. w.current = NoTarget => w.next = NoTarget
    BY <1>6, <1>7
  <1>9. \A x \in {w.current, w.next} : x # NoTarget => ran < x /\ x <= last
    BY <1>1, <1>6, <1>7
  <1>10. w.next # NoTarget => w.current < w.next
    BY <1>6, <1>7
  <1>11. ASSUME NEW i \in 1..Len(t)
         PROVE  ran < t[i] /\ t[i] <= last /\ w.current < t[i] /\ w.next < t[i]
    <2>1. t[i] = queue[i + 1] /\ i + 1 \in 1..Len(queue) /\ 1 < i + 1 /\ queue[i + 1] \in Nat
      <3>1. t[i] \in Nat
        BY <1>3
      <3> QED
        BY <1>3, <1>4, <3>1
    <2>2. /\ ran < queue[i + 1] /\ queue[i + 1] <= last
          /\ th.current < queue[i + 1] /\ th.next < queue[i + 1] /\ h < queue[i + 1]
      <3>1. PICK k \in 1..Len(queue) : k = i + 1 /\ 1 < k
        BY <2>1
      <3>2. ran < queue[k] /\ queue[k] <= last /\ th.current < queue[k] /\ th.next < queue[k]
        BY <1>1
      <3>3. queue[1] < queue[k]
        BY <1>1, <1>4, <3>1
      <3> QED
        BY <1>5, <3>1, <3>2, <3>3
    <2> QED
      BY <1>7, <2>1, <2>2 DEF NoTarget
  <1>12. ASSUME NEW i \in 1..Len(t), NEW j \in 1..Len(t), i < j
         PROVE  t[i] < t[j]
    <2>1. PICK k \in 1..Len(queue) : k = i + 1
      BY <1>4
    <2>2. PICK l \in 1..Len(queue) : l = j + 1
      BY <1>4
    <2>3. k < l
      BY <1>12, <2>1, <2>2
    <2>4. queue[k] < queue[l]
      BY <1>1, <2>3
    <2> QED
      BY <1>3, <2>1, <2>2, <2>4
  <1>13. Targets(t, w, back, ran, last)
    BY <1>1, <1>3, <1>7, <1>8, <1>9, <1>10, <1>11, <1>12 DEF Targets
  <1> QED
    BY <1>2, <1>13

\* The thread takes up a target, or keeps it as the next one.
LEMMA ThreadReceivesStep ==
    ASSUME SyncModesInv, ThreadReceives
    PROVE  SyncModesInv'
  <1>1. /\ new_targets # <<>> /\ new_targets' = Tail(new_targets)
        /\ targets' = IF targets.current = NoTarget THEN [targets EXCEPT !.current = Head(new_targets)]
                     ELSE [targets EXCEPT !.next = Head(new_targets)]
        /\ node' = node /\ loopback' = loopback /\ client' = client
        /\ done' = done /\ executed' = executed /\ panicked' = panicked
    BY DEF ThreadReceives
  <1>2. Targets(new_targets, targets, done, executed, client.target) /\ node.mode # "Live"
    BY <1>1 DEF SyncModesInv
  <1>3. Targets(new_targets', targets', done', executed', client'.target)
    BY <1>1, <1>2, TargetReceived
  <1> QED
    BY <1>1, <1>2, <1>3 DEF SyncModesInv

\* The thread has the state of its target.
LEMMA TargetReached ==
    ASSUME NEW queue, NEW th, NEW back, NEW ran, NEW last, Targets(queue, th, back, ran, last),
           th.current # NoTarget,
           NEW w, w = [current |-> th.next, next |-> NoTarget],
           NEW b, b = IF th.next = NoTarget THEN Append(back, th.current) ELSE back
    PROVE  Targets(queue, w, b, th.current, last) /\ ran < th.current
  <1>1. /\ queue \in Seq(Nat) /\ back \in Seq(Nat) /\ ran \in Nat /\ last \in Nat
        /\ th.current \in Nat /\ th.next \in Nat
        /\ \A x \in {th.current, th.next} : x # NoTarget => ran < x /\ x <= last
        /\ th.next # NoTarget => th.current < th.next
        /\ \A i \in 1..Len(queue) : ran < queue[i] /\ queue[i] <= last /\ th.current < queue[i] /\ th.next < queue[i]
        /\ \A i, j \in 1..Len(queue) : i < j => queue[i] < queue[j]
        /\ \A i \in 1..Len(back) : back[i] # NoTarget /\ back[i] <= ran /\ back[i] <= last
    BY DEF Targets
  <1>2. ran < th.current /\ th.current <= last
    BY <1>1
  <1>3. /\ w \in [current : Nat, next : Nat] /\ w.current = th.next /\ w.next = NoTarget
    BY <1>1 DEF NoTarget
  <1>4. \A x \in {w.current, w.next} : x # NoTarget => th.current < x /\ x <= last
    BY <1>1, <1>3
  <1>5. \A i \in 1..Len(queue) : th.current < queue[i] /\ queue[i] <= last /\ w.current < queue[i] /\ w.next < queue[i]
    <2>1. \A i \in 1..Len(queue) : queue[i] \in Nat
      BY <1>1
    <2>2. \A i \in 1..Len(queue) : w.next < queue[i]
      BY <1>1, <1>3, <2>1 DEF NoTarget
    <2> QED
      BY <1>1, <1>3, <2>2
  <1>6. b \in Seq(Nat) /\ \A i \in 1..Len(b) : b[i] # NoTarget /\ b[i] <= th.current /\ b[i] <= last
    <2>1. \A i \in 1..Len(back) : back[i] \in Nat /\ back[i] # NoTarget /\ back[i] <= th.current /\ back[i] <= last
      <3>1. \A i \in 1..Len(back) : back[i] \in Nat
        BY <1>1
      <3> QED
        BY <1>1, <1>2, <3>1
    <2>2. CASE th.next # NoTarget
      BY <1>1, <2>1, <2>2
    <2>3. CASE th.next = NoTarget
      <3>1. b = Append(back, th.current)
        BY <2>3
      <3>2. /\ b \in Seq(Nat) /\ Len(b) = Len(back) + 1 /\ Len(back) \in Nat /\ b[Len(back) + 1] = th.current
            /\ \A i \in 1..Len(back) : b[i] = back[i]
        BY <1>1, <3>1
      <3>3. \A i \in 1..Len(b) : i \in 1..Len(back) \/ i = Len(back) + 1
        BY <3>2
      <3>4. th.current <= th.current
        BY <1>1
      <3> QED
        BY <1>2, <2>1, <3>2, <3>3, <3>4
    <2> QED
      BY <2>2, <2>3
  <1>7. w.current = NoTarget => w.next = NoTarget
    BY <1>3
  <1>8. w.next # NoTarget => w.current < w.next
    BY <1>3
  <1> QED
    BY <1>1, <1>2, <1>3, <1>4, <1>5, <1>6, <1>7, <1>8 DEF Targets

\* The thread reaches a target; it has none when the executor is Live.
LEMMA ThreadReachesTargetStep ==
    ASSUME SyncModesInv, ThreadReachesTarget
    PROVE  SyncModesInv'
  <1>1. /\ targets.current # NoTarget /\ executed' = targets.current
        /\ targets' = [current |-> targets.next, next |-> NoTarget]
        /\ done' = IF targets.next = NoTarget THEN Append(done, targets.current) ELSE done
        /\ panicked' = (client.live /\ targets.next = NoTarget)
        /\ node' = node /\ loopback' = loopback /\ client' = client /\ new_targets' = new_targets
    BY DEF ThreadReachesTarget, ThreadReports
  <1>2. Targets(new_targets, targets, done, executed, client.target) /\ node.mode # "Live" /\ ~client.live
    BY <1>1 DEF SyncModesInv
  <1>3. Targets(new_targets', targets', done', executed', client'.target)
    BY <1>1, <1>2, TargetReached
  <1>4. Progress(node', client'.target, executed')
    BY <1>1, <1>2 DEF SyncModesInv, Progress
  <1> QED
    BY <1>1, <1>2, <1>3, <1>4 DEF SyncModesInv

\* SyncModesInv is an invariant of KinetState with its block buffer, the loopback
\* queue, the state-sync executor and its thread: however they interleave, the
\* targets under way increase, and the node is live only when nothing is under way.
THEOREM SyncModesInvariant == Spec => []SyncModesInv
  <1>1. Init => SyncModesInv
    BY SyncModesInit
  <1>2. SyncModesInv /\ [Next]_vars => SyncModesInv'
    <2> SUFFICES ASSUME SyncModesInv, [Next]_vars PROVE SyncModesInv'
      OBVIOUS
    <2>1. ASSUME NEW b \in 1..MaxSeq, HandleProposal(b) PROVE SyncModesInv'
      BY <2>1, HandleProposalStep
    <2>2. ASSUME NEW range \in Ranges, BlocksArrive(range) PROVE SyncModesInv'
      BY <2>2, BlocksArriveStep
    <2>3. CASE HandleLoopback
      BY <2>3, HandleLoopbackStep
    <2>4. CASE HandleDoneSync
      BY <2>4, HandleDoneSyncStep
    <2>5. CASE ThreadReceives
      BY <2>5, ThreadReceivesStep
    <2>6. CASE ThreadReachesTarget
      BY <2>6, ThreadReachesTargetStep
    <2>7. CASE UNCHANGED vars
      <3>1. /\ node' = node /\ loopback' = loopback /\ client' = client /\ new_targets' = new_targets
            /\ targets' = targets /\ done' = done /\ executed' = executed /\ panicked' = panicked
        BY <2>7 DEF vars
      <3> QED
        BY <3>1 DEF SyncModesInv
    <2> QED
      BY <2>1, <2>2, <2>3, <2>4, <2>5, <2>6, <2>7 DEF Next
  <1> QED
    BY <1>1, <1>2, PTL DEF Spec

\* No assertion, expect or unreachable! of the RequestSync and DoneSync handlers, of
\* update_target or of the thread's send is met on the way from Sync to Live.
THEOREM SyncNeverPanics == Spec => []NeverPanics
  <1>1. SyncModesInv => NeverPanics
    BY DEF SyncModesInv, NeverPanics
  <1> QED
    BY <1>1, SyncModesInvariant, PTL

\* maybe_start_consensus makes a node live only with the blocks that validation looks
\* back at, the state of the root's delayed block in the database and a state-sync
\* thread that has nothing left to do.
THEOREM StartsOnSyncedStateHolds == Spec => []StartsOnSyncedState
  <1>1. SyncModesInv => StartsOnSyncedState
    <2> SUFFICES ASSUME SyncModesInv, node.mode = "Live" PROVE
          /\ node.root = 0 \/ node.root - min_num_blocks + 1 .. node.root \subseteq node.full
          /\ executed >= Target(node)
          /\ targets.current = NoTarget /\ new_targets = <<>>
      BY DEF StartsOnSyncedState
    <2>1. NeedsBlocksync(node) = {} /\ Target(node) <= executed /\ node.root \in Nat /\ executed \in Nat
      BY DEF SyncModesInv, Progress, Rests, Targets
    <2>2. node.root = 0 \/ node.root - min_num_blocks + 1 .. node.root \subseteq node.full
      BY <2>1, BlocksAreThere
    <2>3. executed >= Target(node)
      BY <2>1, TargetIs
    <2> QED
      BY <2>2, <2>3 DEF SyncModesInv
  <1> QED
    BY <1>1, SyncModesInvariant, PTL

-----------------------------------------------------------------------------
(* The client of state sync.                                               *)

\* Messages on the two channels.
ToThread ==
    [kind : {"UpdateTarget"}, target : 1..MaxTarget]
      \cup [kind : {"Response"}, peer : Peers, prefix : StatePrefixes, index : 0..Chunks - 1]
FromThread == [kind : {"Request"}, request : Requests] \cup [kind : {"DoneSync"}, target : 0..MaxTarget]

\* A chunk of prefix p in the i-th message of queue q.
ChunkOf(q, i, p) == q[i].kind = "Response" /\ q[i].prefix = p

Outstanding(o) == o.pending \cup DOMAIN o.in_flight

IsInFlight(f) ==
    /\ f = [peer |-> f.peer, version |-> f.version, response_index |-> f.response_index,
            responses |-> f.responses, seen_nonces |-> f.seen_nonces]
    /\ f.response_index \in 0..Chunks - 1

\* The tables of OutboundRequests.
OutboundOK(o) ==
    /\ o = [peers |-> o.peers, pruned |-> o.pruned, timeouts |-> o.timeouts, pending |-> o.pending,
            in_flight |-> o.in_flight, prefix_peers |-> o.prefix_peers]
    /\ o.pending \subseteq Requests /\ DOMAIN o.in_flight \subseteq Requests
    /\ o.pending \cap DOMAIN o.in_flight = {}
    /\ \A r \in DOMAIN o.in_flight : IsInFlight(o.in_flight[r])
    /\ o.prefix_peers \in [StatePrefixes -> Peers \cup {NoPeer}]

ThreadOK(th, ap) ==
    /\ th \in [current : 0..MaxTarget, next : 0..MaxTarget, finished : SUBSET StatePrefixes]
    /\ th.current = Unset => th.next = Unset
    /\ th.finished = StatePrefixes => th.current = Unset
    /\ ap \in [StatePrefixes -> SUBSET [peer : Peers, index : 0..Chunks - 1]]
    /\ \A p \in th.finished : \E peer \in Peers : ap[p] = [peer : {peer}, index : 0..Chunks - 1]

\* Request r is for a prefix of the current target that is not finished.
Wanted(r, th) == r.target = th.current /\ r.prefix \notin th.finished

\* What the thread asks for is asked once, and nothing of a target that is
\* reported is left when DoneSync is on its way.
AsksOK(from, q, o, th, ap) ==
    /\ from \in Seq(FromThread)
    /\ \A r \in Outstanding(o) : Wanted(r, th)
    /\ \A i \in 1..Len(from) : from[i].kind = "Request" =>
         /\ Wanted(from[i].request, th) /\ from[i].request \notin Outstanding(o)
         /\ \A j \in 1..Len(q) : ~ChunkOf(q, j, from[i].request.prefix)
         /\ \A j \in 1..Len(from) : j # i => from[j] # from[i]
    /\ \A i \in 1..Len(from) : from[i].kind = "DoneSync" =>
         /\ i = 1 /\ Outstanding(o) = {}
         /\ \A j \in 1..Len(q) : q[j].kind # "Response"
         /\ \A p \in StatePrefixes \ th.finished : ap[p] = {}

\* Chunk c of prefix p was applied, or is among the first k messages.
Have(q, k, ap, p, c) ==
    (\E x \in ap[p] : x.index = c) \/ \E j \in 1..k : ChunkOf(q, j, p) /\ q[j].index = c

\* Chunks come in order, from the peer the prefix is bound to, and none comes
\* after the last.
ChunksOK(q, o, th, ap) ==
    /\ q \in Seq(ToThread)
    /\ \A i \in 1..Len(q) : q[i].kind = "Response" =>
         /\ th.current # Unset /\ q[i].prefix \notin th.finished
         /\ q[i].peer = o.prefix_peers[q[i].prefix]
         /\ \A c \in 0..q[i].index - 1 : Have(q, i - 1, ap, q[i].prefix, c)
         /\ q[i].index = Chunks - 1 =>
              /\ \A r \in Outstanding(o) : r.prefix # q[i].prefix
              /\ \A j \in i + 1..Len(q) : ~ChunkOf(q, j, q[i].prefix)
    /\ \A r \in DOMAIN o.in_flight : \A c \in 0..o.in_flight[r].response_index - 1 :
         Have(q, Len(q), ap, r.prefix, c)
    /\ \A p \in StatePrefixes \ th.finished : \A x \in ap[p] : x.peer = o.prefix_peers[p]

StateSyncInv ==
    /\ client_panicked # "assertion"
    /\ target \in 0..MaxTarget
    /\ \A a \in asked : a.peer \in Peers /\ a.request \in Requests
    /\ OutboundOK(out)
    /\ ThreadOK(thread, applied)
    /\ AsksOK(from_thread, to_thread, out, thread, applied)
    /\ ChunksOK(to_thread, out, thread, applied)

-----------------------------------------------------------------------------
\* The constants are numbers, and requests are for a target.
LEMMA ClientConstants ==
    /\ NumPrefixes \in Nat \ {0} /\ Chunks \in Nat \ {0} /\ MaxTarget \in Nat \ {0}
    /\ NoPeer \notin Peers
    /\ 1 \in StatePrefixes
    /\ \A r \in Requests : r.prefix \in StatePrefixes /\ r.target \in 1..MaxTarget /\ r.target # Unset
  BY StateSyncClientAssumption DEF StatePrefixes, Requests, Unset

\* A target's request for a prefix is one.
LEMMA OneRequest ==
    ASSUME NEW r \in Requests, NEW x \in Requests, r.target = x.target, r.prefix = x.prefix
    PROVE  x = r
  BY DEF Requests

\* Requests that change their place, or start again, change nothing for the
\* thread.
LEMMA RequestsMove ==
    ASSUME NEW from, NEW q, NEW o, NEW th, NEW ap, AsksOK(from, q, o, th, ap), ChunksOK(q, o, th, ap),
           NEW n, n.prefix_peers = o.prefix_peers, Outstanding(n) \subseteq Outstanding(o),
           \A r \in DOMAIN n.in_flight :
             \/ n.in_flight[r].response_index = 0
             \/ r \in DOMAIN o.in_flight /\ n.in_flight[r] = o.in_flight[r]
    PROVE  AsksOK(from, q, n, th, ap) /\ ChunksOK(q, n, th, ap)
  <1>1. AsksOK(from, q, n, th, ap)
    BY DEF AsksOK
  <1>2. ASSUME NEW r \in DOMAIN n.in_flight, NEW c \in 0..n.in_flight[r].response_index - 1
        PROVE  Have(q, Len(q), ap, r.prefix, c)
    <2>1. CASE n.in_flight[r].response_index = 0
      BY <2>1
    <2>2. CASE r \in DOMAIN o.in_flight /\ n.in_flight[r] = o.in_flight[r]
      BY <2>2 DEF ChunksOK
    <2> QED
      BY <2>1, <2>2
  <1>3. ChunksOK(q, n, th, ap)
    BY <1>2 DEF ChunksOK
  <1> QED
    BY <1>1, <1>3

\* Requests go back from in flight to pending; peers, versions and timeouts do
\* not matter.
LEMMA Requeued ==
    ASSUME NEW o, OutboundOK(o), NEW x, OutboundOK(x), x.pending = o.pending, x.in_flight = o.in_flight,
           x.prefix_peers = o.prefix_peers, NEW R, R \subseteq DOMAIN o.in_flight,
           NEW n, n = Requeue(x, R)
    PROVE  /\ OutboundOK(n) /\ n.prefix_peers = o.prefix_peers /\ Outstanding(n) \subseteq Outstanding(o)
           /\ \A r \in DOMAIN n.in_flight : r \in DOMAIN o.in_flight /\ n.in_flight[r] = o.in_flight[r]
  <1>1. PICK f : f = [r \in DOMAIN o.in_flight \ R |-> o.in_flight[r]]
    OBVIOUS
  <1>2. n = [x EXCEPT !.in_flight = f, !.pending = o.pending \cup R]
    BY <1>1 DEF Requeue, OutboundOK
  <1>3. /\ n.in_flight = f /\ n.pending = o.pending \cup R /\ n.prefix_peers = o.prefix_peers
        /\ n = [peers |-> n.peers, pruned |-> n.pruned, timeouts |-> n.timeouts, pending |-> n.pending,
                in_flight |-> n.in_flight, prefix_peers |-> n.prefix_peers]
    BY <1>2 DEF OutboundOK
  <1>4. DOMAIN f = DOMAIN o.in_flight \ R /\ \A r \in DOMAIN f : f[r] = o.in_flight[r]
    BY <1>1
  <1>5. OutboundOK(n)
    BY <1>3, <1>4 DEF OutboundOK
  <1>6. Outstanding(n) \subseteq Outstanding(o)
    BY <1>3, <1>4 DEF Outstanding
  <1> QED
    BY <1>3, <1>4, <1>5, <1>6

\* The invariant when only the tables of OutboundRequests change.
LEMMA OutboundStep ==
    ASSUME StateSyncInv, OutboundOK(out'), out'.prefix_peers = out.prefix_peers,
           Outstanding(out') \subseteq Outstanding(out),
           \A r \in DOMAIN out'.in_flight :
             \/ out'.in_flight[r].response_index = 0
             \/ r \in DOMAIN out.in_flight /\ out'.in_flight[r] = out.in_flight[r],
           client_panicked' # "assertion", \A a \in asked' : a.peer \in Peers /\ a.request \in Requests,
           to_thread' = to_thread, from_thread' = from_thread, thread' = thread, applied' = applied,
           target' = target
    PROVE  StateSyncInv'
  <1>1. AsksOK(from_thread, to_thread, out, thread, applied) /\ ChunksOK(to_thread, out, thread, applied)
    BY DEF StateSyncInv
  <1>2. PICK n : n = out'
    OBVIOUS
  <1>3. AsksOK(from_thread, to_thread, n, thread, applied) /\ ChunksOK(to_thread, n, thread, applied)
    BY <1>1, <1>2, RequestsMove
  <1> QED
    BY <1>2, <1>3 DEF StateSyncInv

\* What was asked of a peer that refuses is pending again.
LEMMA HandleNotWhitelistedStep ==
    ASSUME StateSyncInv, NEW peer \in Peers, HandleNotWhitelisted(peer)
    PROVE  StateSyncInv'
  <1>1. OutboundOK(out)
    BY DEF StateSyncInv
  <1>2. PICK x : x = PrunePeer(out, peer)
    OBVIOUS
  <1>3. /\ OutboundOK(x) /\ x.pending = out.pending /\ x.in_flight = out.in_flight
        /\ x.prefix_peers = out.prefix_peers
    BY <1>1, <1>2 DEF PrunePeer, Forget, OutboundOK
  <1>4. PICK R : R = {r \in DOMAIN out.in_flight : out.in_flight[r].peer = peer}
    OBVIOUS
  <1>5. out' = Requeue(x, R)
    BY <1>2, <1>4 DEF HandleNotWhitelisted, NotWhitelisted
  <1>6. /\ OutboundOK(out') /\ out'.prefix_peers = out.prefix_peers /\ Outstanding(out') \subseteq Outstanding(out)
        /\ \A r \in DOMAIN out'.in_flight : r \in DOMAIN out.in_flight /\ out'.in_flight[r] = out.in_flight[r]
    BY <1>1, <1>3, <1>4, <1>5, Requeued
  <1> QED
    BY <1>6, OutboundStep DEF HandleNotWhitelisted, StateSyncInv

\* What was asked in a version that a peer does not know is pending again.
LEMMA HandleBadVersionStep ==
    ASSUME StateSyncInv, NEW peer \in Peers, NEW v, HandleBadVersion(peer, v)
    PROVE  StateSyncInv'
  <1>1. OutboundOK(out)
    BY DEF StateSyncInv
  <1>2. PICK x : x = IF v.max < STATESYNC_VERSION_MIN \/ v.min > SELF_STATESYNC_VERSION THEN PrunePeer(out, peer)
                     ELSE [Forget(out, peer) EXCEPT !.peers[peer] = v.max]
    OBVIOUS
  <1>3. /\ OutboundOK(x) /\ x.pending = out.pending /\ x.in_flight = out.in_flight
        /\ x.prefix_peers = out.prefix_peers
    BY <1>1, <1>2 DEF PrunePeer, Forget, OutboundOK
  <1>4. PICK R : R = {r \in DOMAIN out.in_flight : out.in_flight[r].peer = peer /\ out.in_flight[r].version > v.max}
    OBVIOUS
  <1>5. out' = Requeue(x, R)
    BY <1>2, <1>4 DEF HandleBadVersion, BadVersion
  <1>6. /\ OutboundOK(out') /\ out'.prefix_peers = out.prefix_peers /\ Outstanding(out') \subseteq Outstanding(out)
        /\ \A r \in DOMAIN out'.in_flight : r \in DOMAIN out.in_flight /\ out'.in_flight[r] = out.in_flight[r]
    BY <1>1, <1>3, <1>4, <1>5, Requeued
  <1> QED
    BY <1>6, OutboundStep DEF HandleBadVersion, StateSyncInv

\* A new peer changes no request.
LEMMA HandleExpandUpstreamPeersStep ==
    ASSUME StateSyncInv, NEW peer \in Peers, HandleExpandUpstreamPeers(peer)
    PROVE  StateSyncInv'
  <1>1. OutboundOK(out) /\ out' = ExpandUpstreamPeers(out, peer)
    BY DEF StateSyncInv, HandleExpandUpstreamPeers
  <1>2. /\ OutboundOK(out') /\ out'.pending = out.pending /\ out'.in_flight = out.in_flight
        /\ out'.prefix_peers = out.prefix_peers
    BY <1>1 DEF ExpandUpstreamPeers, OutboundOK
  <1>3. Outstanding(out') \subseteq Outstanding(out)
    BY <1>2 DEF Outstanding
  <1> QED
    BY <1>2, <1>3, OutboundStep DEF HandleExpandUpstreamPeers, StateSyncInv

\* Request r is in flight to a peer, from its first chunk.
LEMMA Inserted ==
    ASSUME NEW o, OutboundOK(o), NEW r \in Requests, r \notin o.pending, NEW peer, NEW n, n = InsertRequest(o, r, peer)
    PROVE  /\ OutboundOK(n) /\ n.prefix_peers = o.prefix_peers /\ n.pending = o.pending
           /\ DOMAIN n.in_flight = DOMAIN o.in_flight \cup {r}
           /\ n.in_flight[r].response_index = 0
           /\ \A x \in DOMAIN o.in_flight : x # r => n.in_flight[x] = o.in_flight[x]
  <1>1. PICK v : v = NewInFlight(o, peer)
    OBVIOUS
  <1>2. IsInFlight(v) /\ v.response_index = 0
    BY <1>1, ClientConstants DEF NewInFlight, IsInFlight
  <1>3. PICK f : f = With(o.in_flight, r, v)
    OBVIOUS
  <1>4. /\ DOMAIN f = DOMAIN o.in_flight \cup {r} /\ f[r] = v
        /\ \A x \in DOMAIN o.in_flight : x # r => f[x] = o.in_flight[x]
    BY <1>3 DEF With
  <1>5. n = [o EXCEPT !.in_flight = f]
    BY <1>1, <1>3 DEF InsertRequest, OutboundOK
  <1>6. /\ n.in_flight = f /\ n.pending = o.pending /\ n.prefix_peers = o.prefix_peers
        /\ n = [peers |-> n.peers, pruned |-> n.pruned, timeouts |-> n.timeouts, pending |-> n.pending,
                in_flight |-> n.in_flight, prefix_peers |-> n.prefix_peers]
    BY <1>5 DEF OutboundOK
  <1>7. \A x \in DOMAIN f : IsInFlight(f[x])
    BY <1>2, <1>4 DEF OutboundOK
  <1>8. OutboundOK(n)
    BY <1>4, <1>6, <1>7 DEF OutboundOK
  <1> QED
    BY <1>2, <1>4, <1>6, <1>8

\* Request r, taken out of the tables, is sent to a peer.
LEMMA SendToKeeps ==
    ASSUME StateSyncInv, NEW r \in Outstanding(out), NEW o, OutboundOK(o), o.prefix_peers = out.prefix_peers,
           Outstanding(o) \subseteq Outstanding(out), r \notin o.pending,
           \A x \in DOMAIN o.in_flight : x \in DOMAIN out.in_flight /\ o.in_flight[x] = out.in_flight[x],
           NEW peer, SendTo(o, r, peer),
           to_thread' = to_thread, from_thread' = from_thread, thread' = thread, applied' = applied,
           target' = target
    PROVE  StateSyncInv'
  <1>1. r \in Requests /\ OutboundOK(out)
    BY DEF StateSyncInv, OutboundOK, Outstanding
  <1>2. CASE peer \in Trusted(o)
    <2>1. /\ out' = InsertRequest(o, r, peer)
          /\ asked' = asked \cup {[peer |-> peer, request |-> r, version |-> o.peers[peer]]}
          /\ client_panicked' = "no"
      BY <1>2 DEF SendTo
    <2>2. peer \in Peers
      BY <1>2 DEF Trusted
    <2>3. \A a \in asked' : a.peer \in Peers /\ a.request \in Requests
      BY <1>1, <2>1, <2>2 DEF StateSyncInv
    <2>4. /\ OutboundOK(out') /\ out'.prefix_peers = o.prefix_peers /\ out'.pending = o.pending
          /\ DOMAIN out'.in_flight = DOMAIN o.in_flight \cup {r}
          /\ out'.in_flight[r].response_index = 0
          /\ \A x \in DOMAIN o.in_flight : x # r => out'.in_flight[x] = o.in_flight[x]
      BY <1>1, <2>1, Inserted
    <2>5. Outstanding(out') \subseteq Outstanding(out)
      BY <2>4 DEF Outstanding
    <2>6. \A x \in DOMAIN out'.in_flight :
             \/ out'.in_flight[x].response_index = 0
             \/ x \in DOMAIN out.in_flight /\ out'.in_flight[x] = out.in_flight[x]
      BY <2>4
    <2>7. client_panicked' # "assertion"
      BY <2>1
    <2>8. out'.prefix_peers = out.prefix_peers
      BY <2>4
    <2> QED
      BY <2>3, <2>4, <2>5, <2>6, <2>7, <2>8, OutboundStep
  <1>3. CASE peer \notin Trusted(o)
    <2>1. client_panicked' = "peer not found" /\ out' = out /\ asked' = asked
      BY <1>3 DEF SendTo
    <2> QED
      BY <2>1 DEF StateSyncInv
  <1> QED
    BY <1>2, <1>3

\* A pending request is sent.
LEMMA SendRequestStep ==
    ASSUME StateSyncInv, NEW r \in Requests, NEW peer \in Peers, SendRequest(r, peer)
    PROVE  StateSyncInv'
  <1>1. OutboundOK(out) /\ r \in out.pending /\ r \in Outstanding(out)
    BY DEF StateSyncInv, SendRequest, Outstanding
  <1>2. PICK o : o = [out EXCEPT !.pending = @ \ {r}]
    OBVIOUS
  <1>3. /\ OutboundOK(o) /\ o.prefix_peers = out.prefix_peers /\ o.pending = out.pending \ {r}
        /\ o.in_flight = out.in_flight
    BY <1>1, <1>2 DEF OutboundOK
  <1>4. Outstanding(o) \subseteq Outstanding(out)
    BY <1>3 DEF Outstanding
  <1>5. SendTo(o, r, peer)
    BY <1>2 DEF SendRequest
  <1> QED
    BY <1>1, <1>3, <1>4, <1>5, SendToKeeps DEF SendRequest

\* A request that timed out is sent again or pending again.
LEMMA RetryRequestStep ==
    ASSUME StateSyncInv, NEW r \in Requests, RetryRequest(r)
    PROVE  StateSyncInv'
  <1>1. OutboundOK(out) /\ r \in DOMAIN out.in_flight /\ r \in Outstanding(out) /\ r \notin out.pending
    BY DEF StateSyncInv, RetryRequest, Outstanding, OutboundOK
  <1>2. PICK o : o = TimedOut(out, r)
    OBVIOUS
  <1>3. PICK f : f = Without(out.in_flight, r)
    OBVIOUS
  <1>4. DOMAIN f = DOMAIN out.in_flight \ {r} /\ \A x \in DOMAIN f : f[x] = out.in_flight[x]
    BY <1>3 DEF Without
  <1>5. /\ o.pending = out.pending /\ o.in_flight = f /\ o.prefix_peers = out.prefix_peers
        /\ o = [peers |-> o.peers, pruned |-> o.pruned, timeouts |-> o.timeouts, pending |-> o.pending,
                in_flight |-> o.in_flight, prefix_peers |-> o.prefix_peers]
    <2>1. PICK n : n = Forget(out, out.in_flight[r].peer)
      OBVIOUS
    <2>2. PICK late : n = [out EXCEPT !.timeouts = late]
      BY <2>1 DEF Forget
    <2>3. n.in_flight = out.in_flight
      BY <1>1, <2>2 DEF OutboundOK
    <2>4. PICK after : o = [n EXCEPT !.timeouts = after, !.in_flight = f]
      BY <1>2, <1>3, <2>1, <2>3 DEF TimedOut
    <2> QED
      BY <1>1, <2>2, <2>4 DEF OutboundOK
  <1>6. OutboundOK(o)
    BY <1>1, <1>4, <1>5 DEF OutboundOK
  <1>7. Outstanding(o) \subseteq Outstanding(out)
    BY <1>4, <1>5 DEF Outstanding
  <1>8. /\ to_thread' = to_thread /\ from_thread' = from_thread /\ thread' = thread /\ applied' = applied
        /\ target' = target
    BY DEF RetryRequest
  <1>9. CASE ChoosePeer(o, r.prefix) = {}
    <2>1. out' = [o EXCEPT !.pending = @ \cup {r}] /\ asked' = asked /\ client_panicked' = client_panicked
      BY <1>2, <1>9 DEF RetryRequest
    <2>2. /\ out'.pending = out.pending \cup {r} /\ out'.in_flight = f /\ out'.prefix_peers = out.prefix_peers
          /\ out' = [peers |-> out'.peers, pruned |-> out'.pruned, timeouts |-> out'.timeouts,
                     pending |-> out'.pending, in_flight |-> out'.in_flight, prefix_peers |-> out'.prefix_peers]
      BY <1>5, <2>1
    <2>3. OutboundOK(out')
      BY <1>1, <1>4, <2>2 DEF OutboundOK
    <2>4. Outstanding(out') \subseteq Outstanding(out)
      BY <1>1, <1>4, <2>2 DEF Outstanding
    <2>5. \A x \in DOMAIN out'.in_flight :
             \/ out'.in_flight[x].response_index = 0
             \/ x \in DOMAIN out.in_flight /\ out'.in_flight[x] = out.in_flight[x]
      BY <1>4, <2>2
    <2>6. client_panicked' # "assertion" /\ \A a \in asked' : a.peer \in Peers /\ a.request \in Requests
      BY <2>1 DEF StateSyncInv
    <2> QED
      BY <1>8, <2>2, <2>3, <2>4, <2>5, <2>6, OutboundStep
  <1>10. CASE ChoosePeer(o, r.prefix) # {}
    <2>1. PICK peer : SendTo(o, r, peer)
      BY <1>2, <1>10 DEF RetryRequest
    <2>2. \A x \in DOMAIN o.in_flight : x \in DOMAIN out.in_flight /\ o.in_flight[x] = out.in_flight[x]
      BY <1>4, <1>5
    <2> QED
      BY <1>1, <1>5, <1>6, <1>7, <1>8, <2>1, <2>2, SendToKeeps
  <1> QED
    BY <1>9, <1>10

-----------------------------------------------------------------------------
(* Targets and requests.                                                   *)

\* A message other than a chunk joins the thread's queue.
LEMMA SetTargetStep ==
    ASSUME StateSyncInv, SetTarget
    PROVE  StateSyncInv'
  <1>1. PICK q : q = to_thread'
    OBVIOUS
  <1>2. PICK m : m = UpdateTarget(target + 1)
    OBVIOUS
  <1>3. /\ q = Append(to_thread, m) /\ target' = target + 1 /\ target < MaxTarget
        /\ out' = out /\ asked' = asked /\ from_thread' = from_thread /\ thread' = thread
        /\ applied' = applied /\ client_panicked' = client_panicked
    BY <1>1, <1>2 DEF SetTarget
  <1>4. /\ target \in 0..MaxTarget /\ to_thread \in Seq(ToThread)
        /\ AsksOK(from_thread, to_thread, out, thread, applied) /\ ChunksOK(to_thread, out, thread, applied)
    BY DEF StateSyncInv, ChunksOK
  <1>5. target' \in 0..MaxTarget /\ target' \in 1..MaxTarget
    BY <1>3, <1>4, ClientConstants
  <1>6. m \in ToThread /\ m.kind # "Response"
    BY <1>2, <1>3, <1>5 DEF ToThread, UpdateTarget
  <1>7. /\ q \in Seq(ToThread) /\ Len(q) = Len(to_thread) + 1 /\ Len(to_thread) \in Nat
        /\ \A i \in 1..Len(to_thread) : q[i] = to_thread[i]
        /\ q[Len(to_thread) + 1] = m
    BY <1>3, <1>4, <1>6
  <1>8. \A i \in 1..Len(q) : i \in 1..Len(to_thread) \/ i = Len(to_thread) + 1
    BY <1>7
  <1>9. \A i \in 1..Len(q) : q[i].kind = "Response" => i \in 1..Len(to_thread) /\ q[i] = to_thread[i]
    BY <1>6, <1>7, <1>8
  <1>10. AsksOK(from_thread, q, out, thread, applied)
    BY <1>4, <1>9 DEF AsksOK, ChunkOf
  <1>11. ASSUME NEW k, NEW l, k \in 0..Len(to_thread), l \in Nat, k <= l, NEW p, NEW c,
                Have(to_thread, k, applied, p, c)
         PROVE  Have(q, l, applied, p, c)
    <2>1. \A j \in 1..k : j \in 1..l /\ q[j] = to_thread[j]
      BY <1>7, <1>11
    <2> QED
      BY <1>11, <2>1 DEF Have, ChunkOf
  <1>12. ChunksOK(q, out, thread, applied)
    <2>1. ASSUME NEW i \in 1..Len(q), q[i].kind = "Response"
          PROVE  /\ thread.current # Unset /\ q[i].prefix \notin thread.finished
                 /\ q[i].peer = out.prefix_peers[q[i].prefix]
                 /\ \A c \in 0..q[i].index - 1 : Have(q, i - 1, applied, q[i].prefix, c)
                 /\ q[i].index = Chunks - 1 =>
                      /\ \A r \in Outstanding(out) : r.prefix # q[i].prefix
                      /\ \A j \in i + 1..Len(q) : ~ChunkOf(q, j, q[i].prefix)
      <3>1. i \in 1..Len(to_thread) /\ q[i] = to_thread[i] /\ to_thread[i].kind = "Response"
        BY <1>9, <2>1
      <3>2. /\ thread.current # Unset /\ q[i].prefix \notin thread.finished
            /\ q[i].peer = out.prefix_peers[q[i].prefix]
            /\ \A c \in 0..q[i].index - 1 : Have(to_thread, i - 1, applied, q[i].prefix, c)
            /\ q[i].index = Chunks - 1 =>
                 /\ \A r \in Outstanding(out) : r.prefix # q[i].prefix
                 /\ \A j \in i + 1..Len(to_thread) : ~ChunkOf(to_thread, j, q[i].prefix)
        BY <1>4, <3>1 DEF ChunksOK
      <3>3. i - 1 \in 0..Len(to_thread) /\ i - 1 \in Nat /\ i - 1 <= i - 1
        BY <1>7, <3>1
      <3>4. \A c \in 0..q[i].index - 1 : Have(q, i - 1, applied, q[i].prefix, c)
        BY <1>11, <3>2, <3>3
      <3>5. ASSUME q[i].index = Chunks - 1, NEW j \in i + 1..Len(q), ChunkOf(q, j, q[i].prefix)
            PROVE  FALSE
        <4>1. j \in 1..Len(q)
          BY <3>1, <1>7
        <4>2. j \in 1..Len(to_thread) /\ q[j] = to_thread[j]
          BY <1>9, <3>5, <4>1 DEF ChunkOf
        <4>3. j \in i + 1..Len(to_thread)
          BY <3>1, <4>2
        <4> QED
          BY <3>2, <3>5, <4>2, <4>3 DEF ChunkOf
      <3> QED
        BY <3>2, <3>4, <3>5
    <2>2. ASSUME NEW r \in DOMAIN out.in_flight, NEW c \in 0..out.in_flight[r].response_index - 1
          PROVE  Have(q, Len(q), applied, r.prefix, c)
      <3>1. Have(to_thread, Len(to_thread), applied, r.prefix, c)
        BY <1>4 DEF ChunksOK
      <3>2. Len(to_thread) \in 0..Len(to_thread) /\ Len(q) \in Nat /\ Len(to_thread) <= Len(q)
        BY <1>7
      <3> QED
        BY <1>11, <3>1, <3>2
    <2>3. \A p \in StatePrefixes \ thread.finished : \A x \in applied[p] : x.peer = out.prefix_peers[p]
      BY <1>4 DEF ChunksOK
    <2> QED
      BY <1>7, <2>1, <2>2, <2>3 DEF ChunksOK
  <1> QED
    BY <1>1, <1>3, <1>5, <1>10, <1>12 DEF StateSyncInv

\* What is left of a queue when its first message is taken.
LEMMA TailIs ==
    ASSUME NEW S, NEW q \in Seq(S), q # <<>>, NEW t, t = Tail(q)
    PROVE  /\ t \in Seq(S) /\ Len(t) = Len(q) - 1 /\ Len(q) \in Nat /\ Len(q) >= 1
           /\ \A i \in 1..Len(t) : t[i] = q[i + 1] /\ i + 1 \in 1..Len(q) /\ i + 1 # 1
           /\ Head(q) = q[1] /\ q[1] \in S /\ 1 \in 1..Len(q)
           /\ Len(q) \in 1..Len(q) /\ Len(q) - 1 = Len(t)
  OBVIOUS

\* The request that is queued is of the target of those outstanding.
LEMMA QueueRequestStep ==
    ASSUME StateSyncInv, QueueRequest
    PROVE  StateSyncInv'
  <1>1. PICK t : t = Tail(from_thread)
    OBVIOUS
  <1>2. PICK m : m = Head(from_thread)
    OBVIOUS
  <1>3. PICK r : r = m.request
    OBVIOUS
  <1>4. /\ from_thread # <<>> /\ m.kind = "Request" /\ from_thread' = t
        /\ out' = [out EXCEPT !.pending = @ \cup {r}]
        /\ client_panicked' = IF \A x \in out.pending \cup DOMAIN out.in_flight : x.target = r.target
                       THEN "no" ELSE "assertion"
        /\ asked' = asked /\ to_thread' = to_thread /\ thread' = thread /\ applied' = applied /\ target' = target
    BY <1>1, <1>2, <1>3 DEF QueueRequest
  <1>5. /\ OutboundOK(out) /\ AsksOK(from_thread, to_thread, out, thread, applied)
        /\ ChunksOK(to_thread, out, thread, applied) /\ from_thread \in Seq(FromThread)
    BY DEF StateSyncInv, AsksOK
  <1>6. /\ t \in Seq(FromThread) /\ Len(t) = Len(from_thread) - 1 /\ Len(from_thread) \in Nat /\ Len(from_thread) >= 1
        /\ \A i \in 1..Len(t) : t[i] = from_thread[i + 1] /\ i + 1 \in 1..Len(from_thread) /\ i + 1 # 1
        /\ m = from_thread[1] /\ m \in FromThread /\ 1 \in 1..Len(from_thread)
    BY <1>1, <1>2, <1>4, <1>5, TailIs
  <1>7. r \in Requests /\ m = Request(r)
    BY <1>3, <1>4, <1>6 DEF FromThread, Request
  <1>8. /\ Wanted(r, thread) /\ r \notin Outstanding(out)
        /\ \A j \in 1..Len(to_thread) : ~ChunkOf(to_thread, j, r.prefix)
        /\ \A j \in 1..Len(from_thread) : j # 1 => from_thread[j] # m
    BY <1>3, <1>4, <1>5, <1>6 DEF AsksOK
  <1>9. client_panicked' = "no"
    BY <1>4, <1>5, <1>8 DEF AsksOK, Outstanding, Wanted
  <1>10. /\ out'.pending = out.pending \cup {r} /\ out'.in_flight = out.in_flight
         /\ out'.prefix_peers = out.prefix_peers
         /\ out' = [peers |-> out'.peers, pruned |-> out'.pruned, timeouts |-> out'.timeouts,
                    pending |-> out'.pending, in_flight |-> out'.in_flight, prefix_peers |-> out'.prefix_peers]
    BY <1>4, <1>5 DEF OutboundOK
  <1>11. Outstanding(out') = Outstanding(out) \cup {r}
    BY <1>10 DEF Outstanding
  <1>12. OutboundOK(out')
    BY <1>5, <1>7, <1>8, <1>10 DEF OutboundOK, Outstanding
  <1>13. PICK n : n = out'
    OBVIOUS
  <1>14. \A i \in 1..Len(t) : t[i].kind = "Request" => t[i].request # r
    <2> SUFFICES ASSUME NEW i \in 1..Len(t), t[i].kind = "Request", t[i].request = r PROVE FALSE
      OBVIOUS
    <2>1. t[i] \in FromThread
      BY <1>6
    <2>2. t[i] = Request(r)
      BY <2>1 DEF FromThread, Request
    <2> QED
      BY <1>6, <1>7, <1>8, <2>2
  <1>15. \A i \in 1..Len(t) : t[i].kind # "DoneSync"
    BY <1>5, <1>6 DEF AsksOK
  <1>16. \A i \in 1..Len(t) : t[i].kind = "Request" =>
           /\ Wanted(t[i].request, thread) /\ t[i].request \notin Outstanding(n)
           /\ \A j \in 1..Len(to_thread) : ~ChunkOf(to_thread, j, t[i].request.prefix)
           /\ \A j \in 1..Len(t) : j # i => t[j] # t[i]
    <2> SUFFICES ASSUME NEW i \in 1..Len(t), t[i].kind = "Request"
                 PROVE  /\ Wanted(t[i].request, thread) /\ t[i].request \notin Outstanding(n)
                        /\ \A j \in 1..Len(to_thread) : ~ChunkOf(to_thread, j, t[i].request.prefix)
                        /\ \A j \in 1..Len(t) : j # i => t[j] # t[i]
      OBVIOUS
    <2>1. PICK k \in 1..Len(from_thread) : k = i + 1 /\ t[i] = from_thread[k]
      BY <1>6
    <2>2. /\ Wanted(t[i].request, thread) /\ t[i].request \notin Outstanding(out)
          /\ \A j \in 1..Len(to_thread) : ~ChunkOf(to_thread, j, t[i].request.prefix)
          /\ \A j \in 1..Len(from_thread) : j # k => from_thread[j] # t[i]
      BY <1>5, <2>1 DEF AsksOK
    <2>3. \A j \in 1..Len(t) : j # i => t[j] # t[i]
      <3> SUFFICES ASSUME NEW j \in 1..Len(t), j # i, t[j] = t[i] PROVE FALSE
        OBVIOUS
      <3>1. PICK l \in 1..Len(from_thread) : l = j + 1 /\ t[j] = from_thread[l]
        BY <1>6
      <3>2. l # k
        BY <2>1, <3>1
      <3> QED
        BY <2>2, <3>1, <3>2
    <2> QED
      BY <1>11, <1>13, <1>14, <2>2, <2>3
  <1>17. AsksOK(t, to_thread, n, thread, applied)
    BY <1>5, <1>6, <1>8, <1>11, <1>13, <1>15, <1>16 DEF AsksOK
  <1>18. ChunksOK(to_thread, n, thread, applied)
    BY <1>5, <1>8, <1>10, <1>11, <1>13 DEF ChunksOK, ChunkOf
  <1>19. from_thread' = t /\ out' = n /\ client_panicked' # "assertion"
    BY <1>4, <1>9, <1>13
  <1> QED
    BY <1>4, <1>12, <1>13, <1>17, <1>18, <1>19 DEF StateSyncInv

\* Nothing is outstanding when DoneSync is taken, so prefixes may be released.
LEMMA TakeDoneSyncStep ==
    ASSUME StateSyncInv, TakeDoneSync
    PROVE  StateSyncInv'
  <1>1. PICK t : t = Tail(from_thread)
    OBVIOUS
  <1>2. PICK none : none = [x \in StatePrefixes |-> NoPeer]
    OBVIOUS
  <1>3. /\ from_thread # <<>> /\ Head(from_thread).kind = "DoneSync" /\ from_thread' = t
        /\ out' = [out EXCEPT !.prefix_peers = none]
        /\ client_panicked' = IF out.pending = {} /\ DOMAIN out.in_flight = {} THEN "no" ELSE "assertion"
        /\ asked' = asked /\ to_thread' = to_thread /\ thread' = thread /\ applied' = applied /\ target' = target
    BY <1>1, <1>2 DEF TakeDoneSync, ReleasePeers
  <1>5. /\ OutboundOK(out) /\ AsksOK(from_thread, to_thread, out, thread, applied)
        /\ ChunksOK(to_thread, out, thread, applied) /\ from_thread \in Seq(FromThread)
    BY DEF StateSyncInv, AsksOK
  <1>6. /\ t \in Seq(FromThread) /\ Len(t) = Len(from_thread) - 1 /\ Len(from_thread) \in Nat /\ Len(from_thread) >= 1
        /\ \A i \in 1..Len(t) : t[i] = from_thread[i + 1] /\ i + 1 \in 1..Len(from_thread) /\ i + 1 # 1
        /\ Head(from_thread) = from_thread[1] /\ 1 \in 1..Len(from_thread)
    BY <1>1, <1>3, <1>5, TailIs
  <1>7. /\ Outstanding(out) = {}
        /\ \A j \in 1..Len(to_thread) : to_thread[j].kind # "Response"
        /\ \A p \in StatePrefixes \ thread.finished : applied[p] = {}
    BY <1>3, <1>5, <1>6 DEF AsksOK
  <1>8. out.pending = {} /\ DOMAIN out.in_flight = {} /\ client_panicked' = "no"
    BY <1>3, <1>7 DEF Outstanding
  <1>9. /\ out'.pending = out.pending /\ out'.in_flight = out.in_flight /\ out'.prefix_peers = none
        /\ out' = [peers |-> out'.peers, pruned |-> out'.pruned, timeouts |-> out'.timeouts,
                   pending |-> out'.pending, in_flight |-> out'.in_flight, prefix_peers |-> out'.prefix_peers]
    BY <1>3, <1>5 DEF OutboundOK
  <1>10. PICK n : n = out'
    OBVIOUS
  <1>11. OutboundOK(n) /\ Outstanding(n) = {}
    BY <1>2, <1>5, <1>8, <1>9, <1>10 DEF OutboundOK, Outstanding
  <1>12. \A i \in 1..Len(t) : t[i].kind # "DoneSync"
    BY <1>5, <1>6 DEF AsksOK
  <1>13. \A i \in 1..Len(t) : t[i].kind = "Request" =>
           /\ Wanted(t[i].request, thread)
           /\ \A j \in 1..Len(t) : j # i => t[j] # t[i]
    <2> SUFFICES ASSUME NEW i \in 1..Len(t), t[i].kind = "Request"
                 PROVE  Wanted(t[i].request, thread) /\ \A j \in 1..Len(t) : j # i => t[j] # t[i]
      OBVIOUS
    <2>1. PICK k \in 1..Len(from_thread) : k = i + 1 /\ t[i] = from_thread[k]
      BY <1>6
    <2>2. /\ Wanted(t[i].request, thread)
          /\ \A j \in 1..Len(from_thread) : j # k => from_thread[j] # t[i]
      BY <1>5, <2>1 DEF AsksOK
    <2>3. \A j \in 1..Len(t) : j # i => t[j] # t[i]
      <3> SUFFICES ASSUME NEW j \in 1..Len(t), j # i, t[j] = t[i] PROVE FALSE
        OBVIOUS
      <3>1. PICK l \in 1..Len(from_thread) : l = j + 1 /\ t[j] = from_thread[l]
        BY <1>6
      <3>2. l # k
        BY <2>1, <3>1
      <3> QED
        BY <2>2, <3>1, <3>2
    <2> QED
      BY <2>2, <2>3
  <1>14. AsksOK(t, to_thread, n, thread, applied)
    BY <1>6, <1>7, <1>11, <1>12, <1>13 DEF AsksOK, ChunkOf
  <1>15. ChunksOK(to_thread, n, thread, applied)
    BY <1>5, <1>7, <1>8, <1>9, <1>10 DEF ChunksOK
  <1>16. from_thread' = t /\ out' = n /\ client_panicked' # "assertion"
    BY <1>3, <1>8, <1>10
  <1> QED
    BY <1>3, <1>11, <1>14, <1>15, <1>16 DEF StateSyncInv

-----------------------------------------------------------------------------
(* Chunks.                                                                 *)

\* Request f hands over its next m chunks.
HandsOver(f, res, m) ==
    /\ f.response_index + m <= Chunks
    /\ res.chunks = [k \in 1..m |-> f.response_index + k - 1]
    /\ res.request.response_index = f.response_index + m
    /\ f.response_index + m # Chunks => IsInFlight(res.request)

\* A request takes a chunk: it hands over the chunks from its response_index on
\* without a gap, possibly none.
LEMMA ResponseIs ==
    ASSUME NEW f, IsInFlight(f), NEW nonce, NEW index \in 0..Chunks - 1, NEW elapsed,
           NEW res, res = ApplyResponse(f, nonce, index, elapsed)
    PROVE  \E m \in Nat : HandsOver(f, res, m)
  <1> DEFINE other == \E x \in f.responses : x.nonce # nonce
             drop  == other /\ ~(elapsed /\ nonce \notin f.seen_nonces)
             held  == IF other THEN {} ELSE f.responses
             g     == [f EXCEPT !.seen_nonces = @ \cup {nonce}, !.responses = IF drop THEN @ ELSE held]
             run   == {i \in index..Chunks - 1 : index + 1 .. i \subseteq {x.index : x \in held}}
             n     == Cardinality(run)
  <1>7. res = IF drop \/ index < f.response_index THEN [request |-> g, chunks |-> <<>>]
              ELSE IF index > f.response_index
              THEN [request |-> [g EXCEPT !.responses = @ \cup {[index |-> index, nonce |-> nonce]}], chunks |-> <<>>]
              ELSE [request |-> [g EXCEPT !.response_index = index + n, !.responses = {x \in @ : x.index >= index + n}],
                    chunks |-> [k \in 1..n |-> index + k - 1]]
    BY DEF ApplyResponse
  <1> HIDE DEF drop, held
  <1>8. IsInFlight(g) /\ g.response_index = f.response_index
    <2>1. PICK nonces, kept : g = [f EXCEPT !.seen_nonces = nonces, !.responses = kept]
      OBVIOUS
    <2> HIDE DEF g
    <2> QED
      BY <2>1 DEF IsInFlight
  <1> HIDE DEF g
  <1>9. f.response_index \in 0..Chunks - 1 /\ f.response_index \in Nat /\ index \in Nat /\ Chunks \in Nat
    BY ClientConstants DEF IsInFlight
  <1>10. n \in Nat /\ index + n <= Chunks
    <2>1. run \subseteq index..Chunks - 1
      OBVIOUS
    <2> HIDE DEF run
    <2>2. IsFiniteSet(index..Chunks - 1) /\ Cardinality(index..Chunks - 1) = Chunks - index
      <3>1. index \in Int /\ Chunks - 1 \in Int
        BY <1>9
      <3>2. /\ IsFiniteSet(index..Chunks - 1)
            /\ Cardinality(index..Chunks - 1) = IF index > Chunks - 1 THEN 0 ELSE (Chunks - 1) - index + 1
        BY <3>1, FS_Interval
      <3> QED
        BY <1>9, <3>2
    <2>3. IsFiniteSet(run) /\ Cardinality(run) <= Chunks - index
      BY <2>1, <2>2, FS_Subset
    <2>4. n \in Nat
      BY <2>3, FS_CardinalityType
    <2> QED
      BY <1>9, <2>3, <2>4
  <1> HIDE DEF run, n
  <1>11. CASE drop \/ index < f.response_index
    <2>1. res.request = g /\ res.chunks = <<>>
      BY <1>7, <1>11
    <2>2. res.chunks = [k \in 1..0 |-> f.response_index + k - 1]
      BY <2>1
    <2>3. f.response_index + 0 = f.response_index /\ f.response_index + 0 <= Chunks
      BY <1>9
    <2>4. HandsOver(f, res, 0)
      BY <1>8, <2>1, <2>2, <2>3 DEF HandsOver
    <2> QED
      BY <2>4
  <1>12. CASE ~(drop \/ index < f.response_index) /\ index > f.response_index
    <2>1. /\ res.request = [g EXCEPT !.responses = @ \cup {[index |-> index, nonce |-> nonce]}]
          /\ res.chunks = <<>>
      BY <1>7, <1>12
    <2>2. res.chunks = [k \in 1..0 |-> f.response_index + k - 1]
      BY <2>1
    <2>3. IsInFlight(res.request) /\ res.request.response_index = f.response_index
      BY <1>8, <2>1 DEF IsInFlight
    <2>4. f.response_index + 0 = f.response_index /\ f.response_index + 0 <= Chunks
      BY <1>9
    <2>5. HandsOver(f, res, 0)
      BY <2>2, <2>3, <2>4 DEF HandsOver
    <2> QED
      BY <2>5
  <1>13. CASE ~(drop \/ index < f.response_index) /\ ~(index > f.response_index)
    <2>1. index = f.response_index
      BY <1>9, <1>13
    <2> DEFINE rest == {x \in g.responses : x.index >= index + n}
    <2>2. res.request = [g EXCEPT !.response_index = index + n, !.responses = rest]
      BY <1>7, <1>8, <1>13 DEF IsInFlight
    <2> HIDE DEF rest
    <2>3. res.chunks = [k \in 1..n |-> index + k - 1]
      BY <1>7, <1>13
    <2>4. res.request.response_index = index + n
      BY <1>8, <2>2 DEF IsInFlight
    <2>5. index + n # Chunks => index + n \in 0..Chunks - 1
      BY <1>9, <1>10
    <2>6. index + n # Chunks => IsInFlight(res.request)
      BY <1>8, <2>2, <2>5 DEF IsInFlight
    <2> QED
      BY <1>10, <2>1, <2>3, <2>4, <2>6 DEF HandsOver
  <1> QED
    BY <1>11, <1>12, <1>13

Bind(o, p, peer) == [o EXCEPT !.prefix_peers[p] = peer]

\* A prefix is bound to the peer that answers, if it was not bound to it before.
LEMMA PeerBound ==
    ASSUME NEW from, NEW q, NEW o, NEW th, NEW ap, OutboundOK(o), ThreadOK(th, ap),
           AsksOK(from, q, o, th, ap), ChunksOK(q, o, th, ap),
           NEW p \in StatePrefixes, NEW peer \in Peers, o.prefix_peers[p] \in {NoPeer, peer},
           NEW n, n = Bind(o, p, peer)
    PROVE  /\ OutboundOK(n) /\ AsksOK(from, q, n, th, ap) /\ ChunksOK(q, n, th, ap)
           /\ n.pending = o.pending /\ n.in_flight = o.in_flight /\ n.prefix_peers[p] = peer
  <1>1. PICK f : f = [o.prefix_peers EXCEPT ![p] = peer]
    OBVIOUS
  <1>2. o.prefix_peers \in [StatePrefixes -> Peers \cup {NoPeer}]
    BY DEF OutboundOK
  <1>3. f \in [StatePrefixes -> Peers \cup {NoPeer}] /\ f[p] = peer /\ \A x \in StatePrefixes : x # p => f[x] = o.prefix_peers[x]
    BY <1>1, <1>2
  <1>4. n = [o EXCEPT !.prefix_peers = f]
    BY <1>1 DEF OutboundOK, Bind
  <1>5. /\ n.pending = o.pending /\ n.in_flight = o.in_flight /\ n.prefix_peers = f
        /\ n = [peers |-> n.peers, pruned |-> n.pruned, timeouts |-> n.timeouts, pending |-> n.pending,
                in_flight |-> n.in_flight, prefix_peers |-> n.prefix_peers]
    BY <1>4 DEF OutboundOK
  <1>6. OutboundOK(n)
    BY <1>3, <1>5 DEF OutboundOK
  <1>7. Outstanding(n) = Outstanding(o)
    BY <1>5 DEF Outstanding
  <1>8. AsksOK(from, q, n, th, ap)
    BY <1>7 DEF AsksOK
  <1>9. \A x \in StatePrefixes : o.prefix_peers[x] \in Peers => f[x] = o.prefix_peers[x]
    BY <1>3, ClientConstants
  <1>10. \A i \in 1..Len(q) : q[i].kind = "Response" => q[i].peer \in Peers /\ q[i].prefix \in StatePrefixes
    <2>1. \A i \in 1..Len(q) : q[i] \in ToThread
      BY DEF ChunksOK
    <2> QED
      BY <2>1 DEF ToThread
  <1>11. \A i \in 1..Len(q) : q[i].kind = "Response" => q[i].peer = n.prefix_peers[q[i].prefix]
    BY <1>5, <1>9, <1>10 DEF ChunksOK
  <1>12. \A x \in StatePrefixes \ th.finished : \A y \in ap[x] : y.peer = n.prefix_peers[x]
    <2> SUFFICES ASSUME NEW x \in StatePrefixes \ th.finished, NEW y \in ap[x] PROVE y.peer = n.prefix_peers[x]
      OBVIOUS
    <2>1. y.peer = o.prefix_peers[x]
      BY DEF ChunksOK
    <2>2. y.peer \in Peers
      BY DEF ThreadOK
    <2> QED
      BY <1>5, <1>9, <2>1, <2>2
  <1>13. ChunksOK(q, n, th, ap)
    BY <1>5, <1>7, <1>11, <1>12 DEF ChunksOK
  <1> QED
    BY <1>3, <1>5, <1>6, <1>8, <1>13

\* The concatenation of two sequences, element by element.
LEMMA ConcatIs ==
    ASSUME NEW S, NEW a \in Seq(S), NEW b \in Seq(S), NEW z, z = a \o b
    PROVE  /\ z \in Seq(S) /\ Len(z) = Len(a) + Len(b)
           /\ \A i \in 1..Len(z) : z[i] = IF i <= Len(a) THEN a[i] ELSE b[i - Len(a)]
  OBVIOUS

\* Chunk k0 + k - 1 is the k-th message after the first L.
LEMMA PlaceOfChunk ==
    ASSUME NEW L \in Nat, NEW k0 \in Nat, NEW m \in Nat, NEW l \in Nat, NEW c \in Nat,
           L <= l, l <= L + m, c < k0 + (l - L), ~(c < k0)
    PROVE  \E j \in L + 1..L + m : j \in 1..l /\ k0 + (j - L) - 1 = c
  <1>1. PICK j \in Int : j = L + (c - k0) + 1
    OBVIOUS
  <1>2. j \in L + 1..L + m /\ j \in 1..l /\ k0 + (j - L) - 1 = c
    BY <1>1
  <1> QED
    BY <1>2

\* Arithmetic: among m chunks from k0 on, the last of C can only be at the end.
LEMMA LastPlace ==
    ASSUME NEW L \in Nat, NEW k0 \in Nat, NEW m \in Nat, NEW C \in Nat, k0 + m <= C, NEW i \in L + 1..L + m
    PROVE  /\ i - 1 \in L..L + m /\ k0 + ((i - 1) - L) - 1 = (k0 + (i - L) - 1) - 1
           /\ k0 + (i - L) - 1 = C - 1 => i = L + m /\ k0 + m = C
  OBVIOUS

\* Queue z is q with m more chunks of prefix p from the peer, from chunk k0 on.
Extends(z, q, peer, p, k0, m) ==
    /\ z \in Seq(ToThread) /\ Len(z) = Len(q) + m
    /\ \A i \in 1..Len(q) : z[i] = q[i]
    /\ \A i \in Len(q) + 1..Len(q) + m : z[i] = Response(peer, p, k0 + (i - Len(q)) - 1)

\* The requests in flight after request r has taken its chunks up to k.
InFlightAfter(n, o, r, k) ==
    \A x \in DOMAIN n.in_flight :
      \/ x = r /\ n.in_flight[x].response_index = k
      \/ x # r /\ x \in DOMAIN o.in_flight /\ n.in_flight[x] = o.in_flight[x]

\* Chunks of request r are handed over, from its response_index on; the request
\* is done with the last.
LEMMA ChunksTaken ==
    ASSUME NEW from, NEW q, NEW o, NEW th, NEW ap, OutboundOK(o), ThreadOK(th, ap),
           AsksOK(from, q, o, th, ap), ChunksOK(q, o, th, ap),
           NEW r \in DOMAIN o.in_flight, NEW peer \in Peers, o.prefix_peers[r.prefix] = peer,
           NEW k0 \in Nat, o.in_flight[r].response_index = k0, NEW m \in Nat, k0 + m <= Chunks,
           NEW z, Extends(z, q, peer, r.prefix, k0, m),
           NEW n, n.prefix_peers = o.prefix_peers, Outstanding(n) \subseteq Outstanding(o),
           k0 + m = Chunks => r \notin Outstanding(n), InFlightAfter(n, o, r, k0 + m)
    PROVE  AsksOK(from, z, n, th, ap) /\ ChunksOK(z, n, th, ap)
  <1>0. PICK L \in Nat : Len(q) = L
    BY DEF ChunksOK
  <1>1. /\ r \in Requests /\ r \in Outstanding(o) /\ r.prefix \in StatePrefixes /\ r.target # Unset
        /\ k0 \in 0..Chunks - 1 /\ k0 \in Nat /\ Chunks \in Nat \ {0}
        /\ Outstanding(o) \subseteq Requests
    <2>1. r \in Requests /\ r \in Outstanding(o) /\ Outstanding(o) \subseteq Requests
      BY DEF OutboundOK, Outstanding
    <2>2. o.in_flight[r].response_index \in 0..Chunks - 1
      BY DEF OutboundOK, IsInFlight
    <2> QED
      BY <2>1, <2>2, ClientConstants
  <1>2. r.target = th.current /\ r.prefix \notin th.finished /\ \A x \in Outstanding(o) : Wanted(x, th)
    BY <1>1 DEF AsksOK, Wanted
  <1>3. ASSUME NEW x \in Requests, Wanted(x, th), x.prefix = r.prefix PROVE x = r
    BY <1>1, <1>2, <1>3, OneRequest DEF Wanted
  <1>6. q \in Seq(ToThread) /\ L \in Nat /\ Len(q) = L
    BY <1>0 DEF ChunksOK
  <1>p. L \in Nat /\ k0 \in Nat /\ m \in Nat /\ Chunks \in Nat
    BY <1>1, <1>6
  <1>7. z \in Seq(ToThread) /\ Len(z) = L + m /\ \A i \in 1..L : z[i] = q[i]
    BY <1>6 DEF Extends
  <1>8. \A i \in 1..Len(z) : i \in 1..L \/ i \in L + 1..L + m
    BY <1>6, <1>7
  <1>9. ASSUME NEW i \in L + 1..L + m
        PROVE  z[i].kind = "Response" /\ z[i].prefix = r.prefix /\ z[i].peer = peer /\ z[i].index = k0 + (i - L) - 1
    <2>1. z[i] = Response(peer, r.prefix, k0 + (i - L) - 1)
      BY <1>6 DEF Extends
    <2> QED
      BY <2>1 DEF Response
  <1>10. ASSUME NEW k \in 0..L, NEW l \in Nat, k <= l, NEW p, NEW c, Have(q, k, ap, p, c)
         PROVE  Have(z, l, ap, p, c)
    <2>1. \A j \in 1..k : j \in 1..l /\ z[j] = q[j]
      BY <1>6, <1>7, <1>10
    <2> QED
      BY <1>10, <2>1 DEF Have, ChunkOf
  <1>11. ASSUME NEW l \in L..L + m, NEW c \in 0..k0 + (l - L) - 1
         PROVE  Have(z, l, ap, r.prefix, c)
    <2>1. l \in Nat /\ l <= L + m /\ c \in Nat /\ L <= l /\ c < k0 + (l - L)
      BY <1>1, <1>6
    <2>2. CASE c < k0
      <3>1. c \in 0..o.in_flight[r].response_index - 1
        BY <1>1, <2>1, <2>2
      <3>2. Have(q, L, ap, r.prefix, c)
        BY <1>6, <3>1 DEF ChunksOK
      <3>3. L \in 0..L
        BY <1>6
      <3> QED
        BY <1>10, <2>1, <3>2, <3>3
    <2>3. CASE ~(c < k0)
      <3>2. PICK j \in L + 1..L + m : j \in 1..l /\ k0 + (j - L) - 1 = c
        BY <1>p, <2>1, <2>3, PlaceOfChunk
      <3>3. ChunkOf(z, j, r.prefix) /\ z[j].index = c
        BY <1>9, <3>2 DEF ChunkOf
      <3> QED
        BY <3>2, <3>3 DEF Have
    <2> QED
      BY <2>2, <2>3
  <1>12. AsksOK(from, z, n, th, ap)
    <2>1. \A i \in 1..Len(from) : from[i].kind # "DoneSync"
      BY <1>1 DEF AsksOK
    <2>2. ASSUME NEW i \in 1..Len(from), from[i].kind = "Request", NEW j \in 1..Len(z),
                 ChunkOf(z, j, from[i].request.prefix)
          PROVE  FALSE
      <3>1. /\ Wanted(from[i].request, th) /\ from[i].request \notin Outstanding(o)
            /\ \A x \in 1..L : ~ChunkOf(q, x, from[i].request.prefix)
        BY <1>6, <2>2 DEF AsksOK
      <3>2. from[i].request \in Requests
        <4>1. from[i] \in FromThread
          BY DEF AsksOK
        <4> QED
          BY <2>2, <4>1 DEF FromThread
      <3>3. from[i].request.prefix # r.prefix
        BY <1>1, <1>3, <3>1, <3>2
      <3>4. CASE j \in 1..L
        BY <1>7, <2>2, <3>1, <3>4 DEF ChunkOf
      <3>5. CASE j \in L + 1..L + m
        BY <1>9, <2>2, <3>3, <3>5 DEF ChunkOf
      <3> QED
        BY <1>8, <3>4, <3>5
    <2> QED
      BY <2>1, <2>2 DEF AsksOK
  <1>13. ASSUME NEW i \in 1..Len(z), z[i].kind = "Response"
         PROVE  /\ th.current # Unset /\ z[i].prefix \notin th.finished
                /\ z[i].peer = n.prefix_peers[z[i].prefix]
                /\ \A c \in 0..z[i].index - 1 : Have(z, i - 1, ap, z[i].prefix, c)
                /\ z[i].index = Chunks - 1 =>
                     /\ \A x \in Outstanding(n) : x.prefix # z[i].prefix
                     /\ \A j \in i + 1..Len(z) : ~ChunkOf(z, j, z[i].prefix)
    <2>1. CASE i \in 1..L
      <3>1. z[i] = q[i]
        BY <1>7, <2>1
      <3>2. /\ th.current # Unset /\ z[i].prefix \notin th.finished
            /\ z[i].peer = o.prefix_peers[z[i].prefix]
            /\ \A c \in 0..z[i].index - 1 : Have(q, i - 1, ap, z[i].prefix, c)
            /\ z[i].index = Chunks - 1 =>
                 /\ \A x \in Outstanding(o) : x.prefix # z[i].prefix
                 /\ \A j \in i + 1..L : ~ChunkOf(q, j, z[i].prefix)
        BY <1>13, <2>1, <1>6, <3>1 DEF ChunksOK
      <3>3. i - 1 \in 0..L /\ i - 1 \in Nat /\ i - 1 <= i - 1
        BY <1>6, <2>1
      <3>4. \A c \in 0..z[i].index - 1 : Have(z, i - 1, ap, z[i].prefix, c)
        BY <1>10, <3>2, <3>3
      <3>5. ASSUME z[i].index = Chunks - 1, NEW j \in i + 1..Len(z), ChunkOf(z, j, z[i].prefix)
            PROVE  FALSE
        <4>1. r.prefix # z[i].prefix
          BY <1>1, <3>2, <3>5
        <4>2. j \in i + 1..L \/ j \in L + 1..L + m
          BY <1>6, <1>7, <2>1
        <4>3. CASE j \in i + 1..L
          <5>1. z[j] = q[j]
            BY <1>6, <1>7, <2>1, <4>3
          <5> QED
            BY <3>2, <3>5, <4>3, <5>1 DEF ChunkOf
        <4>4. CASE j \in L + 1..L + m
          BY <1>9, <3>5, <4>1, <4>4 DEF ChunkOf
        <4> QED
          BY <4>2, <4>3, <4>4
      <3> QED
        BY <3>2, <3>4, <3>5
    <2>2. CASE i \in L + 1..L + m
      <3>1. z[i].prefix = r.prefix /\ z[i].peer = peer /\ z[i].index = k0 + (i - L) - 1
        BY <1>9, <2>2
      <3>2. i - 1 \in L..L + m /\ k0 + ((i - 1) - L) - 1 = z[i].index - 1
        <4>1. i - 1 \in L..L + m /\ k0 + ((i - 1) - L) - 1 = (k0 + (i - L) - 1) - 1
          BY <1>p, <2>2, LastPlace
        <4> QED
          BY <3>1, <4>1
      <3>3. \A c \in 0..z[i].index - 1 : Have(z, i - 1, ap, r.prefix, c)
        BY <1>11, <3>2
      <3>4. ASSUME z[i].index = Chunks - 1
            PROVE  /\ \A x \in Outstanding(n) : x.prefix # z[i].prefix
                   /\ \A j \in i + 1..Len(z) : ~ChunkOf(z, j, z[i].prefix)
        <4>1. i = L + m /\ k0 + m = Chunks
          <5>1. k0 + (i - L) - 1 = Chunks - 1 /\ Chunks \in Nat
            BY <1>1, <3>1, <3>4
          <5> QED
            BY <1>p, <2>2, <5>1, LastPlace
        <4>2. \A x \in Outstanding(n) : x.prefix # r.prefix
          BY <1>1, <1>2, <1>3, <4>1
        <4>3. i + 1..Len(z) = {}
          BY <1>6, <1>7, <4>1
        <4> QED
          BY <3>1, <4>2, <4>3
      <3> QED
        BY <1>1, <1>2, <3>1, <3>3, <3>4
    <2> QED
      BY <1>8, <2>1, <2>2
  <1>14. ASSUME NEW x \in DOMAIN n.in_flight, NEW c \in 0..n.in_flight[x].response_index - 1
         PROVE  Have(z, Len(z), ap, x.prefix, c)
    <2>1. CASE x = r /\ n.in_flight[x].response_index = k0 + m
      <3>1. Len(z) \in L..L + m /\ k0 + (Len(z) - L) - 1 = n.in_flight[x].response_index - 1
        <4>1. L + m \in L..L + m /\ k0 + ((L + m) - L) - 1 = (k0 + m) - 1
          BY <1>p
        <4> QED
          BY <1>7, <2>1, <4>1
      <3> QED
        BY <1>11, <2>1, <3>1
    <2>2. CASE x # r /\ x \in DOMAIN o.in_flight /\ n.in_flight[x] = o.in_flight[x]
      <3>1. Have(q, L, ap, x.prefix, c)
        BY <1>6, <2>2 DEF ChunksOK
      <3>2. L \in 0..L /\ Len(z) \in Nat /\ L <= Len(z)
        BY <1>6, <1>7
      <3> QED
        BY <1>10, <3>1, <3>2
    <2> QED
      BY <2>1, <2>2 DEF InFlightAfter
  <1>15. \A p \in StatePrefixes \ th.finished : \A x \in ap[p] : x.peer = n.prefix_peers[p]
    BY <1>6 DEF ChunksOK
  <1>16. ChunksOK(z, n, th, ap)
    BY <1>7, <1>13, <1>14, <1>15 DEF ChunksOK
  <1> QED
    BY <1>12, <1>16

\* A chunk is dropped, held, or handed over with those that follow it.
LEMMA HandleResponseStep ==
    ASSUME StateSyncInv, NEW a \in asked, NEW nonce, NEW index \in 0..Chunks - 1, NEW elapsed,
           HandleResponse(a, nonce, index, elapsed)
    PROVE  StateSyncInv'
  <1>1. /\ OutboundOK(out) /\ ThreadOK(thread, applied)
        /\ AsksOK(from_thread, to_thread, out, thread, applied) /\ ChunksOK(to_thread, out, thread, applied)
        /\ a.peer \in Peers /\ a.request \in Requests /\ to_thread \in Seq(ToThread)
    BY DEF StateSyncInv, ChunksOK
  <1>2. PICK r : r = a.request
    OBVIOUS
  <1>3. PICK peer : peer = a.peer
    OBVIOUS
  <1>4. PICK p : p = r.prefix
    OBVIOUS
  <1>5. PICK b : b = Bind(out, p, peer)
    OBVIOUS
  <1>6. p \in StatePrefixes /\ peer \in Peers /\ r \in Requests /\ out.prefix_peers[p] \in {NoPeer, peer}
    BY <1>1, <1>2, <1>3, <1>4, ClientConstants DEF HandleResponse, PeerMayAnswer
  <1>7. /\ OutboundOK(b) /\ AsksOK(from_thread, to_thread, b, thread, applied)
        /\ ChunksOK(to_thread, b, thread, applied)
        /\ b.pending = out.pending /\ b.in_flight = out.in_flight /\ b.prefix_peers[p] = peer
    <2>1. /\ OutboundOK(out) /\ ThreadOK(thread, applied)
          /\ AsksOK(from_thread, to_thread, out, thread, applied) /\ ChunksOK(to_thread, out, thread, applied)
      BY <1>1
    <2>2. p \in StatePrefixes /\ peer \in Peers /\ out.prefix_peers[p] \in {NoPeer, peer}
      BY <1>6
    <2> QED
      BY <1>5, <2>1, <2>2, PeerBound
  <1>8. /\ asked' = asked /\ from_thread' = from_thread /\ thread' = thread /\ applied' = applied
        /\ target' = target /\ client_panicked' = client_panicked
    BY DEF HandleResponse
  <1>9. CASE ~(r \in DOMAIN out.in_flight /\ out.in_flight[r].version = a.version)
    <2>1. out' = b /\ to_thread' = to_thread
      BY <1>2, <1>3, <1>4, <1>5, <1>9 DEF HandleResponse, Bind
    <2> QED
      BY <1>7, <1>8, <2>1 DEF StateSyncInv
  <1>10. CASE r \in DOMAIN out.in_flight /\ out.in_flight[r].version = a.version
    <2>1. PICK res : res = ApplyResponse(out.in_flight[r], nonce, index, elapsed)
      OBVIOUS
    <2>2. PICK s : s = [k \in DOMAIN res.chunks |-> Response(peer, p, res.chunks[k])]
      OBVIOUS
    <2>3. /\ out' = [b EXCEPT !.in_flight = IF EndsResponse(res.chunks) THEN Without(@, r)
                                            ELSE With(@, r, res.request)]
          /\ to_thread' = to_thread \o s
      BY <1>2, <1>3, <1>4, <1>5, <1>10, <2>1, <2>2 DEF HandleResponse, Bind
    <2>4. IsInFlight(out.in_flight[r])
      BY <1>1, <1>10 DEF OutboundOK
    <2>5. PICK k0 \in Nat : out.in_flight[r].response_index = k0 /\ k0 < Chunks
      BY <2>4, ClientConstants DEF IsInFlight
    <2>6. PICK m \in Nat :
             /\ k0 + m <= Chunks
             /\ res.chunks = [k \in 1..m |-> k0 + k - 1]
             /\ res.request.response_index = k0 + m
             /\ k0 + m # Chunks => IsInFlight(res.request)
      <3>1. PICK f : f = out.in_flight[r]
        OBVIOUS
      <3>2. IsInFlight(f) /\ res = ApplyResponse(f, nonce, index, elapsed)
        BY <2>1, <2>4, <3>1
      <3>3. PICK m \in Nat : HandsOver(f, res, m)
        BY <3>2, ResponseIs
      <3>4. f.response_index = k0
        BY <2>5, <3>1
      <3> QED
        BY <3>3, <3>4 DEF HandsOver
    <2>7. EndsResponse(res.chunks) <=> k0 + m = Chunks
      <3>1. CASE m = 0
        <4>1. res.chunks = <<>>
          BY <2>6, <3>1
        <4> QED
          BY <2>5, <3>1, <4>1 DEF EndsResponse
      <3>2. CASE m # 0
        <4>1. PICK cs : cs = res.chunks
          OBVIOUS
        <4>2. cs \in Seq(Int) /\ Len(cs) = m /\ cs[m] = k0 + m - 1
          BY <2>6, <3>2, <4>1
        <4>3. cs # <<>> /\ Last(cs) = k0 + m - 1
          BY <3>2, <4>2 DEF Last
        <4>4. (k0 + m - 1 = Chunks - 1) <=> (k0 + m = Chunks)
          BY <2>5, <2>6, ClientConstants
        <4> QED
          BY <4>1, <4>3, <4>4 DEF EndsResponse
      <3> QED
        BY <3>1, <3>2
    <2>8. s \in Seq(ToThread) /\ Len(s) = m /\ \A k \in 1..m : s[k] = Response(peer, p, k0 + k - 1)
      <3>1. DOMAIN res.chunks = 1..m /\ \A k \in 1..m : res.chunks[k] = k0 + k - 1
        BY <2>6
      <3>2. s = [k \in 1..m |-> Response(peer, p, res.chunks[k])]
        BY <2>2, <3>1
      <3>3. \A k \in 1..m : s[k] = Response(peer, p, k0 + k - 1)
        BY <3>1, <3>2
      <3>4. \A k \in 1..m : k0 + k - 1 \in 0..Chunks - 1
        BY <2>5, <2>6, ClientConstants
      <3>5. \A k \in 1..m : s[k] \in ToThread
        <4> SUFFICES ASSUME NEW k \in 1..m PROVE s[k] \in ToThread
          OBVIOUS
        <4>1. PICK c : c = k0 + k - 1
          OBVIOUS
        <4>2. c \in 0..Chunks - 1 /\ s[k] = Response(peer, p, c)
          BY <3>3, <3>4, <4>1
        <4> QED
          BY <1>6, <4>2 DEF Response, ToThread
      <3>6. DOMAIN s = 1..m /\ m \in Nat
        BY <2>6, <3>2
      <3>7. s \in [1..m -> ToThread]
        BY <3>2, <3>5
      <3>8. s \in Seq(ToThread) /\ Len(s) = m
        BY <3>6, <3>7
      <3> QED
        BY <3>3, <3>8
    <2>9. PICK z : z = to_thread'
      OBVIOUS
    <2>10. /\ z \in Seq(ToThread) /\ Len(z) = Len(to_thread) + Len(s) /\ Len(to_thread) \in Nat
           /\ \A i \in 1..Len(z) : z[i] = IF i <= Len(to_thread) THEN to_thread[i] ELSE s[i - Len(to_thread)]
      <3>1. to_thread \in Seq(ToThread) /\ s \in Seq(ToThread) /\ z = to_thread \o s
        BY <1>1, <2>3, <2>8, <2>9
      <3>2. Len(to_thread) \in Nat
        BY <3>1
      <3> QED
        BY <3>1, <3>2, ConcatIs
    <2>11. Len(z) = Len(to_thread) + m /\ \A i \in 1..Len(to_thread) : z[i] = to_thread[i]
      <3>1. \A i \in 1..Len(to_thread) : i \in 1..Len(z) /\ i <= Len(to_thread)
        BY <2>8, <2>10
      <3> QED
        BY <2>8, <2>10, <3>1
    <2>12. \A i \in Len(to_thread) + 1..Len(to_thread) + m : z[i] = Response(peer, r.prefix, k0 + (i - Len(to_thread)) - 1)
      <3> SUFFICES ASSUME NEW i \in Len(to_thread) + 1..Len(to_thread) + m
                   PROVE  z[i] = Response(peer, r.prefix, k0 + (i - Len(to_thread)) - 1)
        OBVIOUS
      <3>1. i \in 1..Len(z) /\ ~(i <= Len(to_thread)) /\ i - Len(to_thread) \in 1..m
        BY <2>10, <2>11
      <3>2. z[i] = s[i - Len(to_thread)]
        BY <2>10, <3>1
      <3> QED
        BY <1>4, <2>8, <3>1, <3>2
    <2>13. PICK f : f = IF EndsResponse(res.chunks) THEN Without(out.in_flight, r)
                        ELSE With(out.in_flight, r, res.request)
      OBVIOUS
    <2>14. out' = [b EXCEPT !.in_flight = f]
      BY <1>7, <2>3, <2>13
    <2>15. /\ DOMAIN f \subseteq DOMAIN out.in_flight
           /\ k0 + m = Chunks => r \notin DOMAIN f
           /\ \A x \in DOMAIN f : \/ x = r /\ f[x] = res.request /\ k0 + m # Chunks
                                  \/ x # r /\ x \in DOMAIN out.in_flight /\ f[x] = out.in_flight[x]
      <3>1. CASE k0 + m = Chunks
        <4>1. f = Without(out.in_flight, r)
          BY <2>7, <2>13, <3>1
        <4> QED
          BY <4>1 DEF Without
      <3>2. CASE k0 + m # Chunks
        <4>1. f = With(out.in_flight, r, res.request)
          BY <2>7, <2>13, <3>2
        <4> QED
          BY <1>10, <3>2, <4>1 DEF With
      <3> QED
        BY <3>1, <3>2
    <2>16. PICK n : n = out'
      OBVIOUS
    <2>17. /\ n.in_flight = f /\ n.pending = out.pending /\ n.prefix_peers = b.prefix_peers
           /\ n = [peers |-> n.peers, pruned |-> n.pruned, timeouts |-> n.timeouts, pending |-> n.pending,
                   in_flight |-> n.in_flight, prefix_peers |-> n.prefix_peers]
      BY <1>7, <2>14, <2>16 DEF OutboundOK
    <2>18. \A x \in DOMAIN f : IsInFlight(f[x])
      BY <1>1, <2>6, <2>15 DEF OutboundOK
    <2>19. OutboundOK(n)
      BY <1>7, <2>15, <2>17, <2>18 DEF OutboundOK
    <2>20. Outstanding(n) \subseteq Outstanding(b) /\ (k0 + m = Chunks => r \notin Outstanding(n))
      <3>1. r \notin out.pending
        BY <1>1, <1>10 DEF OutboundOK
      <3> QED
        BY <1>7, <2>15, <2>17, <3>1 DEF Outstanding
    <2>21. InFlightAfter(n, b, r, k0 + m)
      BY <1>7, <2>6, <2>15, <2>17 DEF InFlightAfter
    <2>22. b.in_flight[r].response_index = k0 /\ r \in DOMAIN b.in_flight /\ b.prefix_peers[r.prefix] = peer
      BY <1>4, <1>7, <1>10, <2>5
    <2>23. k0 + m <= Chunks
      BY <2>6
    <2>24. AsksOK(from_thread, z, n, thread, applied) /\ ChunksOK(z, n, thread, applied)
      <3>1. /\ OutboundOK(b) /\ ThreadOK(thread, applied)
            /\ AsksOK(from_thread, to_thread, b, thread, applied) /\ ChunksOK(to_thread, b, thread, applied)
        BY <1>1, <1>7
      <3>2. peer \in Peers /\ n.prefix_peers = b.prefix_peers
        BY <1>6, <2>17
      <3>3. Extends(z, to_thread, peer, r.prefix, k0, m)
        BY <2>10, <2>11, <2>12 DEF Extends
      <3> QED
        BY <2>20, <2>21, <2>22, <2>23, <3>1, <3>2, <3>3, ChunksTaken
    <2> QED
      BY <1>8, <2>9, <2>16, <2>19, <2>24 DEF StateSyncInv
  <1> QED
    BY <1>9, <1>10

-----------------------------------------------------------------------------
(* The thread.                                                             *)

\* The requests for a target are one for each prefix.
LEMMA AskForAllIs ==
    ASSUME NEW t \in 1..MaxTarget, NEW s, s = AskForAll(t)
    PROVE  /\ s \in Seq(FromThread) /\ Len(s) = NumPrefixes
           /\ \A i \in 1..NumPrefixes : s[i].kind = "Request" /\ s[i].request = [prefix |-> i, target |-> t]
  <1>1. \A i \in 1..NumPrefixes : s[i] = Request([prefix |-> i, target |-> t])
    BY DEF AskForAll
  <1>2. \A i \in 1..NumPrefixes : [prefix |-> i, target |-> t] \in Requests
    BY DEF Requests, StatePrefixes
  <1>3. \A i \in 1..NumPrefixes : s[i] \in FromThread
    <2> SUFFICES ASSUME NEW i \in 1..NumPrefixes PROVE s[i] \in FromThread
      OBVIOUS
    <2>1. PICK r \in Requests : r = [prefix |-> i, target |-> t]
      BY <1>2
    <2>2. s[i] = Request(r)
      BY <1>1, <2>1
    <2> QED
      BY <2>2 DEF Request, FromThread
  <1>4. s \in Seq(FromThread) /\ Len(s) = NumPrefixes
    BY <1>3, ClientConstants DEF AskForAll
  <1> QED
    BY <1>1, <1>4 DEF Request

\* The thread starts on a target with nothing left of an earlier one.
LEMMA AskedAnew ==
    ASSUME NEW base \in Seq(FromThread), \A i \in 1..Len(base) : base[i].kind = "DoneSync" /\ i = 1,
           NEW q, \A j \in 1..Len(q) : q[j].kind # "Response",
           NEW o, Outstanding(o) = {}, NEW t \in 1..MaxTarget,
           NEW th, th.current = t, th.finished = {},
           NEW ap, ap = [x \in StatePrefixes |-> {}],
           NEW z, z = base \o AskForAll(t)
    PROVE  AsksOK(z, q, o, th, ap)
  <1>1. PICK s : s = AskForAll(t)
    OBVIOUS
  <1>2. /\ s \in Seq(FromThread) /\ Len(s) = NumPrefixes
        /\ \A i \in 1..NumPrefixes : s[i].kind = "Request" /\ s[i].request = [prefix |-> i, target |-> t]
    BY <1>1, AskForAllIs
  <1>3. PICK y : y = z
    OBVIOUS
  <1>4. PICK L \in Nat : Len(base) = L
    OBVIOUS
  <1>5. /\ y \in Seq(FromThread) /\ Len(y) = Len(base) + Len(s)
        /\ \A i \in 1..Len(y) : y[i] = IF i <= Len(base) THEN base[i] ELSE s[i - Len(base)]
    BY <1>1, <1>2, <1>3, ConcatIs
  <1>6. NumPrefixes \in Nat
    BY ClientConstants
  <1>7. ASSUME NEW i \in 1..Len(y)
        PROVE  \/ i <= L /\ y[i].kind = "DoneSync" /\ i = 1
               \/ /\ i - L \in StatePrefixes /\ y[i].kind = "Request"
                  /\ y[i].request = [prefix |-> i - L, target |-> t]
    <2>1. CASE i <= L
      <3>1. y[i] = base[i] /\ i \in 1..Len(base)
        BY <1>4, <1>5, <2>1
      <3> QED
        BY <2>1, <3>1
    <2>2. CASE ~(i <= L)
      <3>1. y[i] = s[i - L] /\ i - L \in 1..NumPrefixes
        BY <1>2, <1>4, <1>5, <1>6, <2>2
      <3> QED
        BY <1>2, <3>1 DEF StatePrefixes
    <2> QED
      BY <2>1, <2>2
  <1>8. ASSUME NEW i \in 1..Len(y), y[i].kind = "Request"
        PROVE  /\ Wanted(y[i].request, th) /\ y[i].request \notin Outstanding(o)
               /\ \A j \in 1..Len(q) : ~ChunkOf(q, j, y[i].request.prefix)
               /\ \A j \in 1..Len(y) : j # i => y[j] # y[i]
    <2>1. i - L \in StatePrefixes /\ y[i].request = [prefix |-> i - L, target |-> t]
      BY <1>7, <1>8
    <2>2. Wanted(y[i].request, th)
      BY <2>1 DEF Wanted
    <2>3. ASSUME NEW j \in 1..Len(y), j # i, y[j] = y[i]
          PROVE  FALSE
      <3>1. j - L \in StatePrefixes /\ y[j].request = [prefix |-> j - L, target |-> t]
        BY <1>7, <1>8, <2>3
      <3>2. j - L = i - L
        BY <2>1, <2>3, <3>1
      <3> QED
        BY <2>3, <3>2
    <2> QED
      BY <2>2, <2>3 DEF ChunkOf
  <1>9. \A i \in 1..Len(y) : y[i].kind = "DoneSync" => i = 1
    BY <1>7
  <1>10. AsksOK(y, q, o, th, ap)
    BY <1>5, <1>8, <1>9 DEF AsksOK
  <1> QED
    BY <1>3, <1>10

\* A chunk that was there is there when the first message is taken, if that was
\* applied.
LEMMA StillThere ==
    ASSUME NEW q \in Seq(ToThread), q # <<>>, NEW t, t = Tail(q), NEW ap, NEW aq,
           \A x \in StatePrefixes : ap[x] \subseteq aq[x],
           q[1].kind = "Response" => \E x \in aq[q[1].prefix] : x.index = q[1].index,
           NEW k \in 1..Len(q), NEW p \in StatePrefixes, NEW c, Have(q, k, ap, p, c)
    PROVE  Have(t, k - 1, aq, p, c)
  <1>1. /\ Len(t) = Len(q) - 1 /\ Len(q) \in Nat
        /\ \A i \in 1..Len(t) : t[i] = q[i + 1]
    BY TailIs
  <1>2. CASE \E x \in ap[p] : x.index = c
    BY <1>2 DEF Have
  <1>3. CASE \E j \in 1..k : ChunkOf(q, j, p) /\ q[j].index = c
    <2>1. PICK j \in 1..k : ChunkOf(q, j, p) /\ q[j].index = c
      BY <1>3
    <2>2. CASE j = 1
      BY <2>1, <2>2 DEF ChunkOf, Have
    <2>3. CASE j # 1
      <3>1. PICK l \in 1..k - 1 : l = j - 1
        BY <2>1, <2>3
      <3>2. l \in 1..Len(t) /\ l + 1 = j
        BY <1>1, <3>1
      <3>3. t[l] = q[j]
        BY <1>1, <3>2
      <3>4. ChunkOf(t, l, p) /\ t[l].index = c
        BY <2>1, <3>3 DEF ChunkOf
      <3> QED
        BY <3>1, <3>4 DEF Have
    <2> QED
      BY <2>2, <2>3
  <1> QED
    BY <1>2, <1>3 DEF Have

\* The thread takes its first message and keeps its target: a target for later,
\* or a chunk that it applies.  The prefixes it has finished by then are
\* complete and no longer asked for.
LEMMA MessageTaken ==
    ASSUME NEW from, NEW q, NEW o, NEW th, NEW ap, OutboundOK(o), ThreadOK(th, ap),
           AsksOK(from, q, o, th, ap), ChunksOK(q, o, th, ap), q # <<>>,
           NEW t, t = Tail(q),
           NEW tn, tn.current = th.current, th.finished \subseteq tn.finished,
           NEW aq, \A x \in StatePrefixes : ap[x] \subseteq aq[x],
           q[1].kind = "Response" => \E x \in aq[q[1].prefix] : x.index = q[1].index,
           \A x \in StatePrefixes \ tn.finished : \A y \in aq[x] : y \in ap[x] \/ y.peer = o.prefix_peers[x],
           \A x \in tn.finished \ th.finished : ChunkOf(q, 1, x) /\ q[1].index = Chunks - 1,
           q[1].kind # "Response" => aq = ap
    PROVE  AsksOK(from, t, o, tn, aq) /\ ChunksOK(t, o, tn, aq)
  <1>1. q \in Seq(ToThread)
    BY DEF ChunksOK
  <1>2. /\ t \in Seq(ToThread) /\ Len(t) = Len(q) - 1 /\ Len(q) \in Nat /\ Len(q) >= 1
        /\ \A i \in 1..Len(t) : t[i] = q[i + 1] /\ i + 1 \in 1..Len(q) /\ i + 1 # 1
        /\ 1 \in 1..Len(q)
    BY <1>1, TailIs
  <1>3. \A r \in Outstanding(o) : r.prefix \notin tn.finished
    <2> SUFFICES ASSUME NEW r \in Outstanding(o), r.prefix \in tn.finished PROVE FALSE
      OBVIOUS
    <2>1. r.prefix \notin th.finished
      BY DEF AsksOK, Wanted
    <2>2. ChunkOf(q, 1, r.prefix) /\ q[1].index = Chunks - 1
      BY <2>1
    <2> QED
      BY <1>2, <2>2 DEF ChunksOK, ChunkOf
  <1>4. \A r \in Outstanding(o) : Wanted(r, tn)
    BY <1>3 DEF AsksOK, Wanted
  <1>5. ASSUME NEW p, NEW j \in 1..Len(t), ChunkOf(t, j, p)
        PROVE  j + 1 \in 1..Len(q) /\ ChunkOf(q, j + 1, p)
    BY <1>2, <1>5 DEF ChunkOf
  <1>6. ASSUME NEW i \in 1..Len(from), from[i].kind = "Request"
        PROVE  /\ Wanted(from[i].request, tn) /\ from[i].request \notin Outstanding(o)
               /\ \A j \in 1..Len(t) : ~ChunkOf(t, j, from[i].request.prefix)
               /\ \A j \in 1..Len(from) : j # i => from[j] # from[i]
    <2>1. PICK p : p = from[i].request.prefix
      OBVIOUS
    <2>2. /\ Wanted(from[i].request, th) /\ from[i].request \notin Outstanding(o)
          /\ \A j \in 1..Len(q) : ~ChunkOf(q, j, p)
          /\ \A j \in 1..Len(from) : j # i => from[j] # from[i]
      BY <1>6, <2>1 DEF AsksOK
    <2>3. p \notin tn.finished
      BY <1>2, <2>1, <2>2 DEF Wanted
    <2>4. \A j \in 1..Len(t) : ~ChunkOf(t, j, p)
      BY <1>5, <2>2
    <2> QED
      BY <2>1, <2>2, <2>3, <2>4 DEF Wanted
  <1>7. ASSUME NEW i \in 1..Len(from), from[i].kind = "DoneSync"
        PROVE  /\ i = 1 /\ Outstanding(o) = {}
               /\ \A j \in 1..Len(t) : t[j].kind # "Response"
               /\ \A p \in StatePrefixes \ tn.finished : aq[p] = {}
    <2>1. /\ i = 1 /\ Outstanding(o) = {}
          /\ \A j \in 1..Len(q) : q[j].kind # "Response"
          /\ \A p \in StatePrefixes \ th.finished : ap[p] = {}
      BY <1>7 DEF AsksOK
    <2>2. \A j \in 1..Len(t) : t[j].kind # "Response"
      BY <1>2, <2>1
    <2>3. aq = ap
      BY <1>2, <2>1
    <2> QED
      BY <2>1, <2>2, <2>3
  <1>8. AsksOK(from, t, o, tn, aq)
    BY <1>4, <1>6, <1>7 DEF AsksOK
  <1>9. ASSUME NEW i \in 1..Len(t), t[i].kind = "Response"
        PROVE  /\ tn.current # Unset /\ t[i].prefix \notin tn.finished
               /\ t[i].peer = o.prefix_peers[t[i].prefix]
               /\ \A c \in 0..t[i].index - 1 : Have(t, i - 1, aq, t[i].prefix, c)
               /\ t[i].index = Chunks - 1 =>
                    /\ \A r \in Outstanding(o) : r.prefix # t[i].prefix
                    /\ \A j \in i + 1..Len(t) : ~ChunkOf(t, j, t[i].prefix)
    <2>1. PICK k \in 1..Len(q) : k = i + 1 /\ t[i] = q[k] /\ k # 1
      BY <1>2
    <2>2. PICK p : p = t[i].prefix
      OBVIOUS
    <2>3. /\ th.current # Unset /\ p \notin th.finished
          /\ t[i].peer = o.prefix_peers[p]
          /\ \A c \in 0..t[i].index - 1 : Have(q, k - 1, ap, p, c)
          /\ t[i].index = Chunks - 1 =>
               /\ \A r \in Outstanding(o) : r.prefix # p
               /\ \A j \in k + 1..Len(q) : ~ChunkOf(q, j, p)
      BY <1>9, <2>1, <2>2 DEF ChunksOK
    <2>4. ChunkOf(q, k, p)
      BY <1>9, <2>1, <2>2 DEF ChunkOf
    <2>5. p \in StatePrefixes
      <3>1. t[i] \in ToThread
        BY <1>2
      <3> QED
        BY <1>9, <2>2, <3>1 DEF ToThread
    <2>6. p \notin tn.finished
      <3> SUFFICES ASSUME p \in tn.finished PROVE FALSE
        OBVIOUS
      <3>1. ChunkOf(q, 1, p) /\ q[1].index = Chunks - 1
        BY <2>3
      <3>2. \A j \in 1 + 1..Len(q) : ~ChunkOf(q, j, p)
        BY <1>2, <3>1 DEF ChunksOK, ChunkOf
      <3>3. k \in 1 + 1..Len(q)
        BY <1>2, <2>1
      <3> QED
        BY <2>4, <3>2, <3>3
    <2>7. \A c \in 0..t[i].index - 1 : Have(t, i - 1, aq, p, c)
      <3> SUFFICES ASSUME NEW c \in 0..t[i].index - 1 PROVE Have(t, i - 1, aq, p, c)
        OBVIOUS
      <3>1. PICK l \in 1..Len(q) : l = k - 1 /\ i - 1 = l - 1
        BY <1>2, <2>1
      <3>2. Have(q, l, ap, p, c)
        BY <2>3, <3>1
      <3>3. Have(t, l - 1, aq, p, c)
        BY <1>1, <2>5, <3>2, StillThere
      <3> QED
        BY <3>1, <3>3
    <2>8. ASSUME t[i].index = Chunks - 1, NEW j \in i + 1..Len(t), ChunkOf(t, j, p)
          PROVE  FALSE
      <3>1. j \in 1..Len(t) /\ j + 1 \in k + 1..Len(q)
        BY <1>2, <2>1
      <3>2. ChunkOf(q, j + 1, p)
        BY <1>5, <2>8, <3>1
      <3> QED
        BY <2>3, <2>8, <3>1, <3>2
    <2> QED
      BY <2>2, <2>3, <2>6, <2>7, <2>8
  <1>10. ASSUME NEW r \in DOMAIN o.in_flight, NEW c \in 0..o.in_flight[r].response_index - 1
         PROVE  Have(t, Len(t), aq, r.prefix, c)
    <2>1. PICK p \in StatePrefixes : p = r.prefix
      BY ClientConstants DEF OutboundOK
    <2>2. Have(q, Len(q), ap, p, c)
      BY <2>1 DEF ChunksOK
    <2>3. Len(q) \in 1..Len(q) /\ Len(q) - 1 = Len(t)
      BY <1>1, TailIs
    <2>4. Have(t, Len(q) - 1, aq, p, c)
      BY <1>1, <2>2, <2>3, StillThere
    <2> QED
      BY <2>1, <2>3, <2>4
  <1>11. \A p \in StatePrefixes \ tn.finished : \A x \in aq[p] : x.peer = o.prefix_peers[p]
    BY DEF ChunksOK
  <1>12. ChunksOK(t, o, tn, aq)
    BY <1>2, <1>9, <1>10, <1>11 DEF ChunksOK
  <1> QED
    BY <1>8, <1>12

\* A target is taken up when there is none, and kept for later otherwise.
LEMMA ThreadUpdateTargetStep ==
    ASSUME StateSyncInv, ThreadUpdateTarget
    PROVE  StateSyncInv'
  <1>1. PICK q : q = Tail(to_thread)
    OBVIOUS
  <1>2. PICK m : m = Head(to_thread)
    OBVIOUS
  <1>3. /\ to_thread # <<>> /\ m.kind = "UpdateTarget" /\ to_thread' = q
        /\ out' = out /\ asked' = asked /\ target' = target /\ client_panicked' = client_panicked
    BY <1>1, <1>2 DEF ThreadUpdateTarget
  <1>4. /\ OutboundOK(out) /\ ThreadOK(thread, applied)
        /\ AsksOK(from_thread, to_thread, out, thread, applied) /\ ChunksOK(to_thread, out, thread, applied)
        /\ to_thread \in Seq(ToThread) /\ from_thread \in Seq(FromThread)
    BY DEF StateSyncInv, ChunksOK, AsksOK
  <1>5. /\ q \in Seq(ToThread) /\ Len(q) = Len(to_thread) - 1 /\ Len(to_thread) \in Nat
        /\ \A i \in 1..Len(q) : q[i] = to_thread[i + 1] /\ i + 1 \in 1..Len(to_thread) /\ i + 1 # 1
        /\ m = to_thread[1] /\ m \in ToThread
    BY <1>1, <1>2, <1>3, <1>4, TailIs
  <1>6. PICK t \in 1..MaxTarget : t = m.target
    BY <1>3, <1>5 DEF ToThread
  <1>7. t \in 0..MaxTarget /\ t # Unset /\ Unset \in 0..MaxTarget
    BY ClientConstants DEF Unset
  <1>8. CASE thread.current = Unset
    <2>1. PICK th : th = thread'
      OBVIOUS
    <2>2. /\ th = [thread EXCEPT !.current = t, !.finished = {}]
          /\ applied' = [x \in StatePrefixes |-> {}]
          /\ from_thread' = from_thread \o AskForAll(t)
      BY <1>2, <1>6, <1>8, <2>1 DEF ThreadUpdateTarget
    <2>3. Outstanding(out) = {}
      <3> SUFFICES ASSUME NEW r \in Outstanding(out) PROVE FALSE
        OBVIOUS
      <3>1. r \in Requests /\ r.target = Unset
        BY <1>4, <1>8 DEF AsksOK, Wanted, OutboundOK, Outstanding
      <3> QED
        BY <3>1, ClientConstants
    <2>4. \A i \in 1..Len(from_thread) : from_thread[i].kind = "DoneSync" /\ i = 1
      <3> SUFFICES ASSUME NEW i \in 1..Len(from_thread)
                   PROVE  from_thread[i].kind = "DoneSync" /\ i = 1
        OBVIOUS
      <3>1. from_thread[i] \in FromThread
        BY <1>4
      <3>2. from_thread[i].kind # "Request"
        <4> SUFFICES ASSUME from_thread[i].kind = "Request" PROVE FALSE
          OBVIOUS
        <4>1. from_thread[i].request \in Requests
          BY <3>1 DEF FromThread
        <4>2. from_thread[i].request.target = Unset
          BY <1>4, <1>8 DEF AsksOK, Wanted
        <4> QED
          BY <4>1, <4>2, ClientConstants
      <3>3. from_thread[i].kind = "DoneSync"
        BY <3>1, <3>2 DEF FromThread
      <3> QED
        BY <1>4, <3>3 DEF AsksOK
    <2>5. \A j \in 1..Len(q) : q[j].kind # "Response"
      BY <1>4, <1>5, <1>8 DEF ChunksOK
    <2>6. /\ th \in [current : 0..MaxTarget, next : 0..MaxTarget, finished : SUBSET StatePrefixes]
          /\ th.current = t /\ th.finished = {}
      BY <1>4, <1>7, <2>2 DEF ThreadOK
    <2>7. PICK ap : ap = [x \in StatePrefixes |-> {}]
      OBVIOUS
    <2>8. ThreadOK(th, ap)
      <3>1. ap \in [StatePrefixes -> SUBSET [peer : Peers, index : 0..Chunks - 1]]
        BY <2>7
      <3>2. th.finished # StatePrefixes
        BY <2>6, ClientConstants
      <3> QED
        BY <1>7, <2>6, <3>1, <3>2 DEF ThreadOK
    <2>9. PICK z : z = from_thread'
      OBVIOUS
    <2>10. z = from_thread \o AskForAll(t)
      BY <2>2, <2>9
    <2>11. AsksOK(z, q, out, th, ap)
      BY <1>4, <2>3, <2>4, <2>5, <2>6, <2>7, <2>10, AskedAnew
    <2>12. DOMAIN out.in_flight = {}
      BY <2>3 DEF Outstanding
    <2>13. \A p \in StatePrefixes : ap[p] = {}
      BY <2>7
    <2>14. ChunksOK(q, out, th, ap)
      BY <1>5, <2>5, <2>12, <2>13 DEF ChunksOK
    <2>15. thread' = th /\ applied' = ap /\ from_thread' = z
      BY <2>1, <2>2, <2>7, <2>9
    <2> QED
      BY <1>3, <1>4, <2>8, <2>11, <2>14, <2>15 DEF StateSyncInv
  <1>9. CASE thread.current # Unset
    <2>1. PICK th : th = [thread EXCEPT !.next = t]
      OBVIOUS
    <2>2. thread' = th /\ applied' = applied /\ from_thread' = from_thread
      BY <1>2, <1>6, <1>9, <2>1 DEF ThreadUpdateTarget
    <2>3. /\ th \in [current : 0..MaxTarget, next : 0..MaxTarget, finished : SUBSET StatePrefixes]
          /\ th.current = thread.current /\ th.finished = thread.finished
      BY <1>4, <1>7, <2>1 DEF ThreadOK
    <2>4. ThreadOK(th, applied)
      BY <1>4, <1>9, <2>3 DEF ThreadOK
    <2>5. to_thread[1].kind # "Response"
      BY <1>3, <1>5
    <2>6. AsksOK(from_thread, q, out, th, applied) /\ ChunksOK(q, out, th, applied)
      <3>1. \A x \in StatePrefixes : applied[x] \subseteq applied[x]
        OBVIOUS
      <3>2. \A x \in StatePrefixes \ th.finished : \A y \in applied[x] : y \in applied[x] \/ y.peer = out.prefix_peers[x]
        OBVIOUS
      <3>3. \A x \in th.finished \ thread.finished : ChunkOf(to_thread, 1, x) /\ to_thread[1].index = Chunks - 1
        BY <2>3
      <3>4. thread.finished \subseteq th.finished
        BY <2>3
      <3> QED
        BY <1>1, <1>3, <1>4, <2>3, <2>5, <3>1, <3>2, <3>3, <3>4, MessageTaken
    <2> QED
      BY <1>3, <1>4, <2>2, <2>4, <2>6 DEF StateSyncInv
  <1> QED
    BY <1>8, <1>9

\* Chunk m makes its prefix complete.
Completes(m, ap) ==
    ap[m.prefix] \cup {[peer |-> m.peer, index |-> m.index]} = [peer : {m.peer}, index : 0..Chunks - 1]

\* The last chunk of a prefix completes it.
LEMMA LastCompletes ==
    ASSUME NEW q, NEW o, NEW th, NEW ap, ThreadOK(th, ap), ChunksOK(q, o, th, ap), q # <<>>,
           NEW m, m = q[1], m.kind = "Response", m.index = Chunks - 1
    PROVE  Completes(m, ap)
  <1>1. q \in Seq(ToThread)
    BY DEF ChunksOK
  <1>2. 1 \in 1..Len(q) /\ m \in ToThread
    BY <1>1
  <1>3. PICK p \in StatePrefixes : p = m.prefix
    BY <1>2 DEF ToThread
  <1>4. /\ p \notin th.finished /\ m.peer = o.prefix_peers[p]
        /\ \A c \in 0..Chunks - 1 - 1 : Have(q, 1 - 1, ap, p, c)
    BY <1>2, <1>3 DEF ChunksOK
  <1>5. Chunks \in Nat \ {0}
    BY ClientConstants
  <1>6. ASSUME NEW x \in ap[p]
        PROVE  x \in [peer : {m.peer}, index : 0..Chunks - 1] /\ x = [peer |-> m.peer, index |-> x.index]
    <2>1. x \in [peer : Peers, index : 0..Chunks - 1]
      BY DEF ThreadOK
    <2>2. x.peer = m.peer
      BY <1>4 DEF ChunksOK
    <2> QED
      BY <2>1, <2>2
  <1>7. [peer |-> m.peer, index |-> m.index] \in [peer : {m.peer}, index : 0..Chunks - 1]
    BY <1>5
  <1>8. ASSUME NEW x \in [peer : {m.peer}, index : 0..Chunks - 1]
        PROVE  x \in ap[p] \/ x = [peer |-> m.peer, index |-> m.index]
    <2>1. PICK c \in 0..Chunks - 1 : x = [peer |-> m.peer, index |-> c]
      BY <1>8
    <2>2. CASE c = Chunks - 1
      BY <2>1, <2>2
    <2>3. CASE c # Chunks - 1
      <3>1. c \in 0..Chunks - 1 - 1
        BY <1>5, <2>3
      <3>2. Have(q, 1 - 1, ap, p, c)
        BY <1>4, <3>1
      <3>3. \E y \in ap[p] : y.index = c
        BY <3>2 DEF Have
      <3> QED
        BY <1>6, <2>1, <3>3
    <2> QED
      BY <2>2, <2>3
  <1> QED
    BY <1>3, <1>6, <1>7, <1>8 DEF Completes

NoChunks(q) == \A j \in 1..Len(q) : q[j].kind # "Response"

\* With the last chunk of the last prefix nothing is left of the target.
LEMMA NothingLeft ==
    ASSUME NEW from, NEW q, NEW o, NEW th, NEW ap, OutboundOK(o), ThreadOK(th, ap),
           AsksOK(from, q, o, th, ap), ChunksOK(q, o, th, ap), q # <<>>,
           NEW m, m = q[1], m.kind = "Response", m.index = Chunks - 1,
           th.finished \cup {m.prefix} = StatePrefixes,
           NEW t, t = Tail(q)
    PROVE  Outstanding(o) = {} /\ from = <<>> /\ NoChunks(t)
  <1>1. q \in Seq(ToThread) /\ from \in Seq(FromThread)
    BY DEF ChunksOK, AsksOK
  <1>2. /\ t \in Seq(ToThread) /\ Len(t) = Len(q) - 1 /\ Len(q) \in Nat /\ Len(q) >= 1
        /\ \A i \in 1..Len(t) : t[i] = q[i + 1] /\ i + 1 \in 1..Len(q) /\ i + 1 # 1
        /\ 1 \in 1..Len(q) /\ m \in ToThread
    BY <1>1, TailIs
  <1>3. PICK p : p = m.prefix
    OBVIOUS
  <1>4. /\ \A r \in Outstanding(o) : r.prefix # p
        /\ \A j \in 1 + 1..Len(q) : ~ChunkOf(q, j, p)
        /\ ChunkOf(q, 1, p)
    BY <1>2, <1>3 DEF ChunksOK, ChunkOf
  <1>5. Outstanding(o) = {}
    <2> SUFFICES ASSUME NEW r \in Outstanding(o) PROVE FALSE
      OBVIOUS
    <2>1. r.prefix \in StatePrefixes
      BY ClientConstants DEF OutboundOK, Outstanding
    <2>2. r.prefix \notin th.finished
      BY DEF AsksOK, Wanted
    <2> QED
      BY <1>3, <1>4, <2>1, <2>2
  <1>6. from = <<>>
    <2>1. ASSUME NEW i \in 1..Len(from) PROVE FALSE
      <3>1. from[i] \in FromThread
        BY <1>1
      <3>2. CASE from[i].kind = "Request"
        <4>1. from[i].request.prefix \in StatePrefixes
          BY <3>1, <3>2, ClientConstants DEF FromThread
        <4>2. from[i].request.prefix \notin th.finished /\ ~ChunkOf(q, 1, from[i].request.prefix)
          BY <1>2, <3>2 DEF AsksOK, Wanted
        <4> QED
          BY <1>3, <1>4, <4>1, <4>2
      <3>3. CASE from[i].kind = "DoneSync"
        BY <1>2, <3>3 DEF AsksOK
      <3> QED
        BY <3>1, <3>2, <3>3 DEF FromThread
    <2>2. ~(Len(from) >= 1)
      <3> SUFFICES ASSUME Len(from) >= 1 PROVE FALSE
        OBVIOUS
      <3>1. 1 \in 1..Len(from)
        BY <1>1
      <3> QED
        BY <2>1, <3>1
    <2> QED
      BY <1>1, <2>2
  <1>7. ASSUME NEW j \in 1..Len(t), t[j].kind = "Response" PROVE FALSE
    <2>1. PICK k \in 1..Len(q) : k = j + 1 /\ t[j] = q[k] /\ k \in 1 + 1..Len(q)
      BY <1>2
    <2>2. q[k].prefix \notin th.finished /\ ~ChunkOf(q, k, p)
      BY <1>4, <1>7, <2>1 DEF ChunksOK
    <2>3. q[k].prefix \in StatePrefixes
      <3>1. t[j] \in ToThread
        BY <1>2
      <3> QED
        BY <1>7, <2>1, <3>1 DEF ToThread
    <2> QED
      BY <1>3, <1>7, <2>1, <2>2, <2>3 DEF ChunkOf
  <1> QED
    BY <1>5, <1>6, <1>7 DEF NoChunks

\* A chunk is applied; the last one may finish the prefix, and with it the target.
LEMMA ThreadAppliesStep ==
    ASSUME StateSyncInv, ThreadApplies
    PROVE  StateSyncInv'
  <1>1. PICK q : q = Tail(to_thread)
    OBVIOUS
  <1>2. PICK m : m = Head(to_thread)
    OBVIOUS
  <1>3. PICK t : t = [thread EXCEPT !.finished = IF m.index = Chunks - 1 THEN @ \cup {m.prefix} ELSE @]
    OBVIOUS
  <1>4. /\ to_thread # <<>> /\ m.kind = "Response" /\ to_thread' = q /\ ThreadFinishes(t)
        /\ applied' = IF t.finished = StatePrefixes /\ t.next # Unset THEN [x \in StatePrefixes |-> {}]
                      ELSE [applied EXCEPT ![m.prefix] = @ \cup {[peer |-> m.peer, index |-> m.index]}]
        /\ client_panicked' = IF thread.current = Unset THEN "assertion" ELSE "no"
        /\ out' = out /\ asked' = asked /\ target' = target
    BY <1>1, <1>2, <1>3 DEF ThreadApplies
  <1>5. /\ OutboundOK(out) /\ ThreadOK(thread, applied)
        /\ AsksOK(from_thread, to_thread, out, thread, applied) /\ ChunksOK(to_thread, out, thread, applied)
        /\ to_thread \in Seq(ToThread) /\ from_thread \in Seq(FromThread)
    BY DEF StateSyncInv, ChunksOK, AsksOK
  <1>6. /\ q \in Seq(ToThread) /\ m = to_thread[1] /\ m \in ToThread /\ 1 \in 1..Len(to_thread)
    BY <1>1, <1>2, <1>4, <1>5, TailIs
  <1>7. PICK p \in StatePrefixes : p = m.prefix
    BY <1>4, <1>6 DEF ToThread
  <1>8. m.peer \in Peers /\ m.index \in 0..Chunks - 1
    BY <1>4, <1>6 DEF ToThread
  <1>9. thread.current # Unset /\ p \notin thread.finished /\ m.peer = out.prefix_peers[p]
    BY <1>4, <1>5, <1>6, <1>7 DEF ChunksOK
  <1>10. client_panicked' # "assertion"
    BY <1>4, <1>9
  <1>11. /\ t \in [current : 0..MaxTarget, next : 0..MaxTarget, finished : SUBSET StatePrefixes]
         /\ t.current = thread.current /\ t.next = thread.next
         /\ t.finished = IF m.index = Chunks - 1 THEN thread.finished \cup {p} ELSE thread.finished
    BY <1>3, <1>5, <1>7 DEF ThreadOK
  <1>12. PICK c : c = [peer |-> m.peer, index |-> m.index]
    OBVIOUS
  <1>13. PICK ap : ap = [applied EXCEPT ![p] = @ \cup {c}]
    OBVIOUS
  <1>14. /\ applied \in [StatePrefixes -> SUBSET [peer : Peers, index : 0..Chunks - 1]]
         /\ c \in [peer : Peers, index : 0..Chunks - 1] /\ c.peer = m.peer /\ c.index = m.index
    BY <1>5, <1>8, <1>12 DEF ThreadOK
  <1>15. /\ ap \in [StatePrefixes -> SUBSET [peer : Peers, index : 0..Chunks - 1]]
         /\ ap[p] = applied[p] \cup {c} /\ \A x \in StatePrefixes : x # p => ap[x] = applied[x]
    BY <1>13, <1>14
  <1>16. \A x \in t.finished : \E peer \in Peers : ap[x] = [peer : {peer}, index : 0..Chunks - 1]
    <2> SUFFICES ASSUME NEW x \in t.finished
                 PROVE  \E peer \in Peers : ap[x] = [peer : {peer}, index : 0..Chunks - 1]
      OBVIOUS
    <2>1. CASE x \in thread.finished
      <3>1. ap[x] = applied[x]
        BY <1>5, <1>9, <1>15, <2>1 DEF ThreadOK
      <3> QED
        BY <1>5, <2>1, <3>1 DEF ThreadOK
    <2>2. CASE x \notin thread.finished
      <3>1. x = p /\ m.index = Chunks - 1
        BY <1>11, <2>2
      <3>2. Completes(m, applied)
        <4>1. to_thread # <<>> /\ m = to_thread[1] /\ m.kind = "Response" /\ m.index = Chunks - 1
          BY <1>4, <1>6, <3>1
        <4>2. ThreadOK(thread, applied) /\ ChunksOK(to_thread, out, thread, applied)
          BY <1>5
        <4> QED
          BY <4>1, <4>2, LastCompletes
      <3> QED
        BY <1>7, <1>8, <1>12, <1>15, <3>1, <3>2 DEF Completes
    <2> QED
      BY <2>1, <2>2
  <1>17. CASE t.finished # StatePrefixes
    <2>1. thread' = t /\ from_thread' = from_thread /\ applied' = ap
      BY <1>4, <1>7, <1>12, <1>13, <1>17 DEF ThreadFinishes
    <2>2. ThreadOK(t, ap)
      BY <1>5, <1>11, <1>15, <1>16, <1>17 DEF ThreadOK
    <2>3. AsksOK(from_thread, q, out, t, ap) /\ ChunksOK(q, out, t, ap)
      <3>1. \A x \in StatePrefixes : applied[x] \subseteq ap[x]
        BY <1>15
      <3>2. to_thread[1].kind = "Response" => \E x \in ap[to_thread[1].prefix] : x.index = to_thread[1].index
        BY <1>6, <1>7, <1>14, <1>15
      <3>3. \A x \in StatePrefixes \ t.finished : \A y \in ap[x] : y \in applied[x] \/ y.peer = out.prefix_peers[x]
        BY <1>9, <1>14, <1>15
      <3>4. \A x \in t.finished \ thread.finished : ChunkOf(to_thread, 1, x) /\ to_thread[1].index = Chunks - 1
        BY <1>4, <1>6, <1>7, <1>11 DEF ChunkOf
      <3>5. thread.finished \subseteq t.finished /\ t.current = thread.current /\ to_thread[1].kind = "Response"
        BY <1>4, <1>6, <1>11
      <3> QED
        BY <1>1, <1>4, <1>5, <3>1, <3>2, <3>3, <3>4, <3>5, MessageTaken
    <2> QED
      BY <1>4, <1>5, <1>10, <2>1, <2>2, <2>3 DEF StateSyncInv
  <1>18. CASE t.finished = StatePrefixes
    <2>1. m.index = Chunks - 1 /\ thread.finished \cup {m.prefix} = StatePrefixes
      BY <1>5, <1>7, <1>9, <1>11, <1>18 DEF ThreadOK
    <2>2. Outstanding(out) = {} /\ from_thread = <<>> /\ \A j \in 1..Len(q) : q[j].kind # "Response"
      <3>1. to_thread # <<>> /\ m = to_thread[1] /\ m.kind = "Response" /\ q = Tail(to_thread)
        BY <1>1, <1>4, <1>6
      <3>2. /\ OutboundOK(out) /\ ThreadOK(thread, applied)
            /\ AsksOK(from_thread, to_thread, out, thread, applied) /\ ChunksOK(to_thread, out, thread, applied)
        BY <1>5
      <3>3. Outstanding(out) = {} /\ from_thread = <<>> /\ NoChunks(q)
        BY <2>1, <3>1, <3>2, NothingLeft
      <3> QED
        BY <3>3 DEF NoChunks
    <2>3. DOMAIN out.in_flight = {}
      BY <2>2 DEF Outstanding
    <2>4. Unset \in 0..MaxTarget
      BY ClientConstants DEF Unset
    <2>5. PICK th : th = thread'
      OBVIOUS
    <2>6. CASE t.next = Unset
      <3>1. PICK z : z = from_thread'
        OBVIOUS
      <3>2. PICK d : d = DoneSyncRequest(t.current)
        OBVIOUS
      <3>3. /\ th = [current |-> Unset, next |-> Unset, finished |-> StatePrefixes]
            /\ z = from_thread \o <<d>> /\ applied' = ap
        BY <1>4, <1>7, <1>12, <1>13, <1>18, <2>5, <2>6, <3>1, <3>2 DEF ThreadFinishes
      <3>4. d \in FromThread /\ d.kind = "DoneSync"
        BY <1>11, <3>2 DEF DoneSyncRequest, FromThread
      <3>5. z = <<d>>
        BY <2>2, <3>3
      <3>6. z \in Seq(FromThread) /\ Len(z) = 1 /\ z[1] = d
        BY <3>4, <3>5
      <3>7. /\ th \in [current : 0..MaxTarget, next : 0..MaxTarget, finished : SUBSET StatePrefixes]
            /\ th.current = Unset /\ th.finished = StatePrefixes
        BY <2>4, <3>3
      <3>8. ThreadOK(th, ap)
        BY <1>15, <1>16, <1>18, <3>3, <3>7 DEF ThreadOK
      <3>9. \A i \in 1..Len(z) : i = 1
        BY <3>6
      <3>10. AsksOK(z, q, out, th, ap)
        BY <2>2, <3>4, <3>6, <3>7, <3>9 DEF AsksOK
      <3>11. ChunksOK(q, out, th, ap)
        BY <1>6, <2>2, <2>3, <3>7 DEF ChunksOK
      <3>12. thread' = th /\ from_thread' = z /\ applied' = ap
        BY <2>5, <3>1, <3>3
      <3> QED
        BY <1>4, <1>5, <1>10, <3>8, <3>10, <3>11, <3>12 DEF StateSyncInv
    <2>7. CASE t.next # Unset
      <3>1. PICK z : z = from_thread'
        OBVIOUS
      <3>2. PICK u \in 1..MaxTarget : u = t.next
        BY <1>11, <2>7, ClientConstants DEF Unset
      <3>3. PICK none : none = [x \in StatePrefixes |-> {}]
        OBVIOUS
      <3>4. /\ th = [current |-> u, next |-> Unset, finished |-> {}]
            /\ z = from_thread \o AskForAll(u) /\ applied' = none
        BY <1>4, <1>18, <2>5, <2>7, <3>1, <3>2, <3>3 DEF ThreadFinishes
      <3>5. /\ th \in [current : 0..MaxTarget, next : 0..MaxTarget, finished : SUBSET StatePrefixes]
            /\ th.current = u /\ th.finished = {} /\ th.next = Unset
        BY <2>4, <3>4, ClientConstants
      <3>6. ThreadOK(th, none)
        <4>1. none \in [StatePrefixes -> SUBSET [peer : Peers, index : 0..Chunks - 1]]
          BY <3>3
        <4>2. th.finished # StatePrefixes
          BY <3>5, ClientConstants
        <4> QED
          BY <3>5, <4>1, <4>2 DEF ThreadOK
      <3>7. AsksOK(z, q, out, th, none)
        <4>1. \A i \in 1..Len(from_thread) : from_thread[i].kind = "DoneSync" /\ i = 1
          <5>1. 1..Len(from_thread) = {}
            BY <2>2
          <5> QED
            BY <5>1
        <4> QED
          BY <1>5, <2>2, <3>3, <3>4, <3>5, <4>1, AskedAnew
      <3>8. \A x \in StatePrefixes : none[x] = {}
        BY <3>3
      <3>9. ChunksOK(q, out, th, none)
        BY <1>6, <2>2, <2>3, <3>8 DEF ChunksOK
      <3>10. thread' = th /\ from_thread' = z /\ applied' = none
        BY <2>5, <3>1, <3>4
      <3> QED
        BY <1>4, <1>5, <1>10, <3>6, <3>7, <3>9, <3>10 DEF StateSyncInv
    <2> QED
      BY <2>6, <2>7
  <1> QED
    BY <1>17, <1>18

-----------------------------------------------------------------------------
\* The invariant holds when the client is created.
LEMMA StateSyncInit ==
    ASSUME ClientInit
    PROVE  StateSyncInv
  <1>1. /\ out = [peers |-> [p \in Peers |-> IF p \in InitPeers THEN SELF_STATESYNC_VERSION ELSE 0],
                  pruned |-> {}, timeouts |-> <<>>, pending |-> {}, in_flight |-> [r \in {} |-> 0],
                  prefix_peers |-> [x \in StatePrefixes |-> NoPeer]]
        /\ asked = {}
        /\ to_thread = <<>> /\ from_thread = <<>>
        /\ thread = [current |-> Unset, next |-> Unset, finished |-> {}]
        /\ applied = [x \in StatePrefixes |-> {}]
        /\ target = Unset
        /\ client_panicked = "no"
    BY DEF ClientInit
  <1>2. /\ out.pending = {} /\ DOMAIN out.in_flight = {} /\ out.prefix_peers = [x \in StatePrefixes |-> NoPeer]
        /\ out = [peers |-> out.peers, pruned |-> out.pruned, timeouts |-> out.timeouts, pending |-> out.pending,
                  in_flight |-> out.in_flight, prefix_peers |-> out.prefix_peers]
    BY <1>1
  <1>3. OutboundOK(out) /\ Outstanding(out) = {}
    BY <1>2 DEF OutboundOK, Outstanding
  <1>4. Unset \in 0..MaxTarget
    BY ClientConstants DEF Unset
  <1>5. /\ applied \in [StatePrefixes -> SUBSET [peer : Peers, index : 0..Chunks - 1]]
        /\ \A p \in StatePrefixes : applied[p] = {}
    BY <1>1
  <1>6. ThreadOK(thread, applied)
    BY <1>1, <1>4, <1>5, ClientConstants DEF ThreadOK
  <1>7. /\ to_thread \in Seq(ToThread) /\ from_thread \in Seq(FromThread)
        /\ 1..Len(to_thread) = {} /\ 1..Len(from_thread) = {}
    BY <1>1
  <1>8. AsksOK(from_thread, to_thread, out, thread, applied)
    BY <1>3, <1>7 DEF AsksOK
  <1>9. ChunksOK(to_thread, out, thread, applied)
    BY <1>2, <1>5, <1>7 DEF ChunksOK
  <1> QED
    BY <1>1, <1>3, <1>4, <1>6, <1>8, <1>9 DEF StateSyncInv

\* StateSyncInv is an invariant of OutboundRequests, the two channels and the thread:
\* what is asked, handed over and applied belongs to the thread's current target,
\* comes in order and from the peer a prefix is bound to.
THEOREM StateSyncInvariant == ClientSpec => []StateSyncInv
  <1>1. ClientInit => StateSyncInv
    BY StateSyncInit
  <1>2. StateSyncInv /\ [ClientNext]_client_vars => StateSyncInv'
    <2> SUFFICES ASSUME StateSyncInv, [ClientNext]_client_vars PROVE StateSyncInv'
      OBVIOUS
    <2>1. CASE SetTarget
      BY <2>1, SetTargetStep
    <2>2. CASE QueueRequest
      BY <2>2, QueueRequestStep
    <2>3. CASE TakeDoneSync
      BY <2>3, TakeDoneSyncStep
    <2>4. CASE ThreadUpdateTarget
      BY <2>4, ThreadUpdateTargetStep
    <2>5. CASE ThreadApplies
      BY <2>5, ThreadAppliesStep
    <2>6. ASSUME NEW r \in Requests, RetryRequest(r) PROVE StateSyncInv'
      BY <2>6, RetryRequestStep
    <2>7. ASSUME NEW r \in Requests, NEW peer \in Peers, SendRequest(r, peer) PROVE StateSyncInv'
      BY <2>7, SendRequestStep
    <2>8. ASSUME NEW a \in asked, NEW nonce \in Nonces, NEW index \in 0..Chunks - 1, NEW elapsed \in BOOLEAN,
                 HandleResponse(a, nonce, index, elapsed)
          PROVE  StateSyncInv'
      BY <2>8, HandleResponseStep
    <2>9. ASSUME NEW peer \in Peers, HandleNotWhitelisted(peer) PROVE StateSyncInv'
      BY <2>9, HandleNotWhitelistedStep
    <2>10. ASSUME NEW peer \in Peers, HandleExpandUpstreamPeers(peer) PROVE StateSyncInv'
      BY <2>10, HandleExpandUpstreamPeersStep
    <2>11. ASSUME NEW peer \in Peers, NEW v \in PeerVersions, HandleBadVersion(peer, v)
           PROVE  StateSyncInv'
      BY <2>11, HandleBadVersionStep
    <2>12. CASE UNCHANGED client_vars
      <3>1. /\ out' = out /\ asked' = asked /\ to_thread' = to_thread /\ from_thread' = from_thread
            /\ thread' = thread /\ applied' = applied /\ target' = target /\ client_panicked' = client_panicked
        BY <2>12 DEF client_vars
      <3> QED
        BY <3>1 DEF StateSyncInv
    <2> QED
      BY <2>1, <2>2, <2>3, <2>4, <2>5, <2>6, <2>7, <2>8, <2>9, <2>10, <2>11, <2>12 DEF ClientNext
  <1> QED
    BY <1>1, <1>2, PTL DEF ClientSpec

\* The assertions of queue_request, of poll_next on DoneSync and of the thread on a
\* chunk without a target hold, whichever chunks, timeouts and refusals are late.
THEOREM AssertionsHoldAlways == ClientSpec => []AssertionsHold
  <1>1. StateSyncInv => AssertionsHold
    BY DEF StateSyncInv, AssertionsHold
  <1> QED
    BY <1>1, StateSyncInvariant, PTL

\* The thread finishes a prefix only with each of its chunks applied, all from one
\* peer: handle_response and apply_response let neither peers nor targets mix.
THEOREM FinishedIsCompleteHolds == ClientSpec => []FinishedIsComplete
  <1>1. StateSyncInv => FinishedIsComplete
    BY DEF StateSyncInv, ThreadOK, FinishedIsComplete
  <1> QED
    BY <1>1, StateSyncInvariant, PTL

=============================================================================
