---------------------------- MODULE BlockTreeProofs ----------------------------
(***************************************************************************)
(* The block tree, proved for every tree of blocks, every set of           *)
(* certificates that voting can produce and every order of arrival: the    *)
(* handlers do not panic, what is finalized is one chain, nothing that can *)
(* be committed is left, and what is missing has been requested.           *)
(*                                                                         *)
(* First the shape of the chain (ancestors and paths), by induction along  *)
(* parents; then what each operation of BlockTree does to an invariant of  *)
(* the node, TreeInv; then the handlers.                                   *)
(***************************************************************************)
EXTENDS BlockTree, TLAPS, WellFoundedInduction

\* A set of numbers that is not empty has a least one.  It stands for induction
\* over rounds: the least counterexample is refuted.
LEMMA NatMin ==
    ASSUME NEW T \in SUBSET Nat, T # {}
    PROVE  \E n \in T : \A m \in T : n <= m
  <1> DEFINE less == {ss \in Nat \X Nat : ss[1] < ss[2]}
  <1>1. IsWellFoundedOn(less, Nat)
    BY NatLessThanWellFounded DEF OpToRel
  <1>2. \E n \in T : \A m \in T : ~ (<<m, n>> \in less)
    <2> HIDE DEF less
    <2> QED
      BY <1>1, WFMin
  <1>3. \A m, n \in Nat : m < n => <<m, n>> \in less
    OBVIOUS
  <1>4. PICK n \in T : \A m \in T : ~ (<<m, n>> \in less)
    BY <1>2
  <1>5. \A m \in T : ~(m < n)
    <2> HIDE DEF less
    <2> QED BY <1>3, <1>4
  <1> QED
    BY <1>5

\* The QC in a block's header is not older than its block, and older than this one.
LEMMA HeaderRounds ==
    ASSUME NEW b \in Block, b # GENESIS
    PROVE  /\ HeaderQC(b) \in AllQCs
           /\ parent[b] \in Block
           /\ block_round[parent[b]] <= qc_round[b]
           /\ qc_round[b] < block_round[b]
           /\ block_round[b] \in Nat /\ qc_round[b] \in Nat /\ block_round[parent[b]] \in Nat
  <1>1. HeaderQC(b) \in AllQCs
    BY DEF AllQCs
  <1> QED
    BY <1>1, ChainAssumption, CertificateAssumption DEF HeaderQC

\* Induction along the chain: what holds of the genesis block and of every block
\* whose parent it holds of, holds of all blocks.
LEMMA ChainInduction ==
    ASSUME NEW Good, GENESIS \in Good,
           \A b \in Block \ {GENESIS} : parent[b] \in Good => b \in Good
    PROVE  Block \subseteq Good
  <1> DEFINE Bad == Block \ Good
  <1> DEFINE Rounds == {block_round[b] : b \in Bad}
  <1> SUFFICES ASSUME Bad # {} PROVE FALSE
    OBVIOUS
  <1>1. Rounds \in SUBSET Nat /\ Rounds # {}
    BY ChainAssumption
  <1>2. PICK b \in Bad : \A c \in Bad : block_round[b] <= block_round[c]
    <2>1. \E n \in Rounds : \A m \in Rounds : n <= m
      <3> HIDE DEF Rounds
      <3> QED BY <1>1, NatMin
    <2> QED
      BY <2>1
  <1>3. b # GENESIS /\ b \in Block
    OBVIOUS
  <1>4. parent[b] \in Bad /\ block_round[parent[b]] < block_round[b]
    BY <1>3, HeaderRounds
  <1> QED
    BY <1>2, <1>3, <1>4, HeaderRounds

\* A block's ancestors are blocks of earlier rounds.
LEMMA AncestorRound ==
    ASSUME NEW b \in Block, NEW a \in ancestors[b]
    PROVE  /\ a \in Block
           /\ block_round[a] \in Nat /\ block_round[b] \in Nat
           /\ block_round[a] <= block_round[b]
           /\ a # b => block_round[a] < block_round[b]
  <1> DEFINE Good == {c \in Block : \A x \in ancestors[c] : x # c => block_round[x] < block_round[c]}
  <1>1. GENESIS \in Good
    BY ChainAssumption
  <1>2. ASSUME NEW c \in Block \ {GENESIS}, parent[c] \in Good PROVE c \in Good
    <2>1. ancestors[c] = {c} \cup ancestors[parent[c]]
      BY ChainAssumption
    <2>2. block_round[parent[c]] < block_round[c]
      BY HeaderRounds
    <2>3. \A x \in ancestors[parent[c]] : block_round[x] \in Nat /\ block_round[x] <= block_round[parent[c]]
      BY <1>2, ChainAssumption
    <2> QED
      BY <2>1, <2>2, <2>3, HeaderRounds
  <1>3. Block \subseteq Good
    <2> HIDE DEF Good
    <2> QED BY <1>1, <1>2, ChainInduction
  <1> QED
    BY <1>3, ChainAssumption

\* Every block descends from itself and from the genesis block.
LEMMA AncestorOfAll ==
    ASSUME NEW b \in Block
    PROVE  b \in ancestors[b] /\ GENESIS \in ancestors[b] /\ ancestors[b] \subseteq Block
  <1> DEFINE Good == {c \in Block : GENESIS \in ancestors[c]}
  <1>1. GENESIS \in Good
    BY ChainAssumption
  <1>2. \A c \in Block \ {GENESIS} : parent[c] \in Good => c \in Good
    BY ChainAssumption
  <1>3. Block \subseteq Good
    <2> HIDE DEF Good
    <2> QED BY <1>1, <1>2, ChainInduction
  <1> QED
    BY <1>3, ChainAssumption

\* An ancestor's ancestors are ancestors.
LEMMA AncestorTransitive ==
    ASSUME NEW c \in Block, NEW b \in ancestors[c], NEW a \in ancestors[b]
    PROVE  a \in ancestors[c]
  <1> DEFINE Good == {d \in Block : \A x \in ancestors[d] : ancestors[x] \subseteq ancestors[d]}
  <1>1. GENESIS \in Good
    BY ChainAssumption
  <1>2. \A d \in Block \ {GENESIS} : parent[d] \in Good => d \in Good
    BY ChainAssumption
  <1>3. Block \subseteq Good
    <2> HIDE DEF Good
    <2> QED BY <1>1, <1>2, ChainInduction
  <1> QED
    BY <1>3

\* Of two ancestors of a block, one is an ancestor of the other.
LEMMA AncestorsLinear ==
    ASSUME NEW c \in Block, NEW a \in ancestors[c], NEW b \in ancestors[c]
    PROVE  a \in ancestors[b] \/ b \in ancestors[a]
  <1> DEFINE Good == {d \in Block : \A x, y \in ancestors[d] : x \in ancestors[y] \/ y \in ancestors[x]}
  <1>1. GENESIS \in Good
    BY ChainAssumption
  <1>2. \A d \in Block \ {GENESIS} : parent[d] \in Good => d \in Good
    BY ChainAssumption
  <1>3. Block \subseteq Good
    <2> HIDE DEF Good
    <2> QED BY <1>1, <1>2, ChainInduction
  <1> QED
    BY <1>3

-----------------------------------------------------------------------------
(* Paths.                                                                  *)

\* What is on a path has its parent on the path, or is the first after its start.
LEMMA PathParent ==
    ASSUME NEW b \in Block, NEW a \in Block, NEW x \in PathAfter(a, b)
    PROVE  /\ x \in Block \ {GENESIS} /\ x \in ancestors[b] /\ a \in ancestors[x] /\ x # a
           /\ a \in ancestors[parent[x]] /\ parent[x] \in ancestors[b]
           /\ parent[x] = a \/ parent[x] \in PathAfter(a, b)
           /\ block_round[a] <= qc_round[x] /\ block_round[a] < block_round[x]
           /\ parent[x] \in Block /\ parent[x] \in ancestors[x]
  <1>1. x \in Block /\ x \in ancestors[b] /\ a \in ancestors[x] /\ x # a
    BY AncestorOfAll DEF PathAfter
  <1>2. x # GENESIS
    BY <1>1, ChainAssumption
  <1>3. a \in ancestors[parent[x]] /\ parent[x] \in Block /\ parent[x] \in ancestors[x]
    BY <1>1, <1>2, ChainAssumption
  <1>4. parent[x] \in ancestors[b]
    BY <1>1, <1>3, AncestorTransitive
  <1>5. parent[x] = a \/ parent[x] \in PathAfter(a, b)
    BY <1>3, <1>4 DEF PathAfter
  <1>6. block_round[a] <= block_round[parent[x]] /\ block_round[a] \in Nat
    BY <1>3, AncestorRound
  <1> QED
    BY <1>1, <1>2, <1>3, <1>4, <1>5, <1>6, HeaderRounds

\* A path may be cut at any block on it.
LEMMA PathSplit ==
    ASSUME NEW c \in Block, NEW b \in ancestors[c], NEW a \in ancestors[b]
    PROVE  /\ PathAfter(a, c) = PathAfter(a, b) \cup PathAfter(b, c)
           /\ ancestors[b] = ancestors[a] \cup PathAfter(a, b)
           /\ PathAfter(a, a) = {}
  <1>1. a \in Block /\ b \in Block /\ a \in ancestors[c]
    BY AncestorOfAll, AncestorTransitive
  <1>2. ASSUME NEW x \in PathAfter(a, c) PROVE x \in PathAfter(a, b) \cup PathAfter(b, c)
    <2>1. x \in ancestors[c] /\ a \in ancestors[x] /\ x # a
      BY DEF PathAfter
    <2>2. x \in ancestors[b] \/ b \in ancestors[x]
      BY <2>1, AncestorsLinear
    <2>3. b \in ancestors[b]
      BY <1>1, AncestorOfAll
    <2> QED
      BY <2>1, <2>2, <2>3 DEF PathAfter
  <1>3. ASSUME NEW x \in PathAfter(a, b) PROVE x \in PathAfter(a, c)
    BY AncestorTransitive DEF PathAfter
  <1>4. ASSUME NEW x \in PathAfter(b, c) PROVE x \in PathAfter(a, c)
    <2>1. x \in ancestors[c] /\ b \in ancestors[x] /\ x # b /\ x \in Block
      BY AncestorOfAll DEF PathAfter
    <2>2. a \in ancestors[x]
      BY <2>1, AncestorTransitive
    <2>3. block_round[b] < block_round[x]
      BY <2>1, AncestorRound
    <2>4. block_round[a] <= block_round[b] /\ block_round[a] \in Nat /\ block_round[b] \in Nat /\ block_round[x] \in Nat
      BY <1>1, <2>1, AncestorRound
    <2> QED
      BY <2>1, <2>2, <2>3, <2>4 DEF PathAfter
  <1>5. ASSUME NEW x \in ancestors[b] PROVE x \in ancestors[a] \cup PathAfter(a, b)
    BY <1>1, AncestorsLinear, AncestorOfAll DEF PathAfter
  <1>6. ancestors[a] \cup PathAfter(a, b) \subseteq ancestors[b]
    BY <1>1, AncestorTransitive DEF PathAfter
  <1>7. PathAfter(a, a) = {}
    <2> SUFFICES ASSUME NEW x \in PathAfter(a, a) PROVE FALSE
      OBVIOUS
    <2>1. x \in ancestors[a] /\ a \in ancestors[x] /\ x # a /\ x \in Block
      BY <1>1, AncestorOfAll DEF PathAfter
    <2> QED
      BY <1>1, <2>1, AncestorRound
  <1> QED
    BY <1>2, <1>3, <1>4, <1>5, <1>6, <1>7

\* Of some blocks on one branch, the first: all others extend it.
LEMMA FirstOf ==
    ASSUME NEW c \in Block, NEW S \in SUBSET ancestors[c], S # {}
    PROVE  \E x \in S : \A y \in S : x \in ancestors[y]
  <1> DEFINE Rounds == {block_round[b] : b \in S}
  <1>1. S \subseteq Block
    BY AncestorOfAll
  <1>2. Rounds \in SUBSET Nat /\ Rounds # {}
    BY <1>1, ChainAssumption
  <1>3. PICK x \in S : \A y \in S : block_round[x] <= block_round[y]
    <2>1. \E n \in Rounds : \A m \in Rounds : n <= m
      <3> HIDE DEF Rounds
      <3> QED BY <1>2, NatMin
    <2> QED
      BY <2>1
  <1>4. ASSUME NEW y \in S PROVE x \in ancestors[y]
    <2>1. x \in ancestors[y] \/ y \in ancestors[x]
      BY AncestorsLinear
    <2>2. CASE y \in ancestors[x] /\ y # x
      BY <1>1, <1>3, <2>2, AncestorRound
    <2> QED
      BY <1>1, <2>1, <2>2, AncestorOfAll
  <1> QED
    BY <1>4

\* And the last: it extends all others.
LEMMA LastOf ==
    ASSUME NEW c \in Block, NEW S \in SUBSET ancestors[c], S # {}
    PROVE  \E x \in S : S \subseteq ancestors[x]
  <1> DEFINE Distances == {block_round[c] - block_round[b] : b \in S}
  <1>1. S \subseteq Block
    BY AncestorOfAll
  <1>2. \A b \in S : block_round[b] \in Nat /\ block_round[c] \in Nat /\ block_round[b] <= block_round[c]
    BY AncestorRound
  <1>3. Distances \in SUBSET Nat /\ Distances # {}
    BY <1>2
  <1>4. PICK x \in S : \A y \in S : block_round[y] <= block_round[x]
    <2>1. \E n \in Distances : \A m \in Distances : n <= m
      <3> HIDE DEF Distances
      <3> QED BY <1>3, NatMin
    <2>2. PICK x \in S : \A y \in S : block_round[c] - block_round[x] <= block_round[c] - block_round[y]
      BY <2>1
    <2> QED
      BY <1>2, <2>2
  <1>5. ASSUME NEW y \in S PROVE y \in ancestors[x]
    <2>1. x \in ancestors[y] \/ y \in ancestors[x]
      BY AncestorsLinear
    <2>2. CASE x \in ancestors[y] /\ y # x
      BY <1>1, <1>4, <2>2, AncestorRound
    <2> QED
      BY <1>1, <2>1, <2>2, AncestorOfAll
  <1> QED
    BY <1>5

-----------------------------------------------------------------------------
(* The inductive invariant of a node s that has seen certificates of the   *)
(* rounds up to h.                                                         *)

\* Blocks of the tree are newer than the root.
AboveRoot(s) == \A x \in s.tree : block_round[x] > block_round[s.root]

\* Children lists name blocks of the tree, under their parent, and all of those.
ChildrenInTree(s) == \A a \in Block : \A c \in s.children[a] : parent[c] = a /\ c \in s.tree
ChildrenFound(s) ==
    \A c \in s.tree : parent[c] \in s.tree \cup {s.root} => c \in s.children[parent[c]]

\* A coherent block is in the tree; if it extends the root, so is all between, and
\* coherent.  (After a fork it may not extend the root.)
CoherentPaths(s) ==
    /\ s.coherent \subseteq s.tree
    /\ \A x \in s.coherent : s.root \in ancestors[x] => PathAfter(s.root, x) \subseteq s.coherent

\* The root is the genesis block or was committed by a QC that the node has seen.
RootCertified(s, h) ==
    s.root # GENESIS =>
        \E q \in AllQCs :
            /\ q.round <= h
            /\ q.qc_block # GENESIS /\ q.round = qc_round[q.qc_block] + 1
            /\ parent[q.qc_block] = s.root

\* The QCs in the headers of the tree's blocks have been seen.
HeadersSeen(s, h) == \A x \in s.tree : qc_round[x] <= h

\* The blocks of a request end in the one it is for; so do their headers' QCs.
RequestsSeen(s, h) ==
    \A q \in s.requests :
        /\ q.id \in q.blocks
        /\ \A x \in q.blocks : x \in ancestors[q.id] /\ qc_round[x] <= h

TreeInv(s, h) ==
    /\ s \in NodeState /\ h \in Nat
    /\ s.status # "panic"
    /\ s.high \in AllQCs \cup TC
    /\ AboveRoot(s)
    /\ ChildrenInTree(s)
    /\ ChildrenFound(s)
    /\ CoherentPaths(s)
    /\ RootCertified(s, h)
    /\ HeadersSeen(s, h)
    /\ RequestsSeen(s, h)
    /\ s.committed = ancestors[s.root]

\* Certificates are of their type.
LEMMA CertificateTypes ==
    /\ AllQCs \subseteq CertificateType
    /\ \A c \in AllQCs \cup TC : c \in CertificateType
  BY ChainAssumption, CertificateAssumption
     DEF AllQCs, GenesisQC, HeaderQC, CertificateType

\* Adding a block keeps the invariant if the QC of its header has been seen.
LEMMA AddInv ==
    ASSUME NEW s, NEW h, TreeInv(s, h), NEW b \in Block, qc_round[b] <= h
    PROVE  /\ TreeInv(Add(s, b), h)
           /\ Add(s, b).root = s.root /\ Add(s, b).high = s.high
           /\ Add(s, b).requests = s.requests
           /\ Add(s, b).tree = s.tree \cup IF IsValidToInsert(s, b) THEN {b} ELSE {}
  <1>1. CASE ~IsValidToInsert(s, b)
    BY <1>1 DEF Add
  <1>2. CASE IsValidToInsert(s, b)
    <2> DEFINE C == [a \in Block |->
                       IF a = b THEN {c \in s.tree : parent[c] = b}
                       ELSE IF a = parent[b] /\ a \in s.tree \cup {s.root} THEN s.children[a] \cup {b}
                       ELSE s.children[a]]
    <2> DEFINE t == [s EXCEPT !.tree = s.tree \cup {b}, !.children = C]
    <2>1. s \in NodeState /\ C \in [Block -> SUBSET Block]
      BY DEF TreeInv, NodeState
    <2>2. Add(s, b) = t
      BY <1>2, <2>1 DEF Add, NodeState
    <2>3. /\ t \in NodeState /\ t.root = s.root /\ t.high = s.high /\ t.requests = s.requests
          /\ t.tree = s.tree \cup {b} /\ t.children = C /\ t.coherent = s.coherent
          /\ t.committed = s.committed /\ t.status = s.status
      <3> HIDE DEF C
      <3> QED BY <2>1 DEF NodeState
    <2> HIDE DEF t
    <2>4. b \notin s.tree /\ block_round[b] > block_round[s.root]
      BY <1>2 DEF IsValidToInsert
    <2>5. s.root \in Block /\ s.tree \subseteq Block /\ b # s.root /\ b # GENESIS
      BY <2>1, <2>4, ChainAssumption DEF NodeState
    <2>6. parent[b] # b
      BY <2>5, ChainAssumption, AncestorOfAll
    <2>7. AboveRoot(t)
      BY <2>3, <2>4 DEF TreeInv, AboveRoot
    <2>8. ChildrenInTree(t)
      BY <2>3 DEF TreeInv, ChildrenInTree
    <2>9. ChildrenFound(t)
      BY <2>3, <2>4, <2>5, <2>6, ChainAssumption DEF TreeInv, ChildrenFound
    <2>10. CoherentPaths(t)
      BY <2>3 DEF TreeInv, CoherentPaths
    <2>11. RootCertified(t, h) /\ HeadersSeen(t, h) /\ RequestsSeen(t, h)
      BY <2>3 DEF TreeInv, RootCertified, HeadersSeen, RequestsSeen
    <2> QED
      BY <1>2, <2>2, <2>3, <2>7, <2>8, <2>9, <2>10, <2>11 DEF TreeInv
  <1> QED
    BY <1>1, <1>2

\* A search over children lists stays in the tree.
LEMMA ReachedInTree ==
    ASSUME NEW s, NEW h, TreeInv(s, h), NEW a \in Block, NEW through, NEW x \in Reached(s, a, through)
    PROVE  x \in Block /\ a \in ancestors[x] /\ PathAfter(a, x) \subseteq s.tree
  <1>1. x \in Block /\ a \in ancestors[x]
    BY DEF Reached
  <1>2. ASSUME NEW y \in PathAfter(a, x) PROVE y \in s.tree
    <2>1. y \in s.children[parent[y]]
      BY DEF Reached
    <2>2. parent[y] \in Block
      BY <1>1, PathParent
    <2> QED
      BY <2>1, <2>2 DEF TreeInv, ChildrenInTree
  <1> QED
    BY <1>1, <1>2

\* try_update_coherency of the tree: its expect holds, and the blocks it marks are
\* coherent up from the root.
LEMMA MarkCoherentInv ==
    ASSUME NEW s, NEW h, TreeInv(s, h), NEW b \in Block, NEW ok
    PROVE  LET t == MarkCoherent(s, b, ok) IN
           /\ TreeInv(t, h)
           /\ t.root = s.root /\ t.tree = s.tree /\ t.high = s.high /\ t.requests = s.requests
  <1> DEFINE todo == PathAfter(s.root, b) \ s.coherent
  <1> DEFINE first == CHOOSE x \in todo : \A y \in todo : x \in ancestors[y]
  <1> DEFINE seen == Reached(s, first, ok)
  <1>1. CASE ~HasPath(s, b) \/ PathAfter(s.root, b) \subseteq s.coherent
    BY <1>1 DEF MarkCoherent
  <1>2. CASE HasPath(s, b) /\ ~(PathAfter(s.root, b) \subseteq s.coherent)
    <2>1. s \in NodeState /\ s.root \in Block /\ s.coherent \subseteq s.tree
      BY DEF TreeInv, NodeState, CoherentPaths
    <2>2. s.root \in ancestors[b] /\ PathAfter(s.root, b) \subseteq s.tree
      BY <1>2 DEF HasPath
    <2>3. todo \in SUBSET ancestors[b] /\ todo # {}
      BY <1>2 DEF PathAfter
    <2>4. first \in todo /\ \A y \in todo : first \in ancestors[y]
      <3>1. \E x \in todo : \A y \in todo : x \in ancestors[y]
        <4> HIDE DEF todo
        <4> QED BY <2>3, FirstOf
      <3> QED
        BY <3>1, Zenon
    <2> HIDE DEF first
    <2>5. /\ first \in Block /\ first \in ancestors[b] /\ s.root \in ancestors[first]
          /\ first \in PathAfter(s.root, b)
      BY <2>1, <2>4, PathParent
    <2>6. PathAfter(s.root, first) \subseteq PathAfter(s.root, b)
      BY <2>5, PathSplit
    <2>7. ASSUME NEW y \in PathAfter(s.root, first), y # first PROVE y \in s.coherent
      <3>1. y \in ancestors[first] /\ y \in Block
        BY <2>1, <2>5, PathParent
      <3>2. first \notin ancestors[y]
        BY <2>5, <2>7, <3>1, AncestorRound
      <3> QED
        BY <2>4, <2>6, <3>2
    <2>8. ASSUME NEW x \in seen
          PROVE  /\ x \in Block /\ first \in ancestors[x] /\ s.root \in ancestors[x]
                 /\ PathAfter(s.root, x) = PathAfter(s.root, first) \cup PathAfter(first, x)
                 /\ HasPath(s, x)
      <3>1. x \in Block /\ first \in ancestors[x] /\ PathAfter(first, x) \subseteq s.tree
        BY <2>5, ReachedInTree
      <3>2. s.root \in ancestors[x]
        BY <2>5, <3>1, AncestorTransitive
      <3>3. PathAfter(s.root, x) = PathAfter(s.root, first) \cup PathAfter(first, x)
        BY <2>5, <3>1, PathSplit
      <3> QED
        BY <2>2, <2>6, <3>1, <3>2, <3>3 DEF HasPath
    <2>9. ASSUME NEW x \in seen \cap ok, NEW y \in PathAfter(s.root, x)
          PROVE  y \in s.coherent \cup (seen \cap ok)
      <3>1. CASE y \in PathAfter(s.root, first) /\ y # first
        BY <2>7, <3>1
      <3>2. CASE y = first
        <4>1. first \in seen
          <5>1. PathAfter(first, first) = {}
            BY <2>5, PathSplit, AncestorOfAll
          <5> QED
            BY <2>5, <5>1, AncestorOfAll DEF Reached
        <4>2. CASE x = first
          BY <3>2, <4>1, <4>2
        <4>3. CASE x # first
          <5>1. x \in PathAfter(first, x)
            BY <2>8, <4>3, AncestorOfAll DEF PathAfter
          <5>2. PICK z \in PathAfter(first, x) : parent[z] = first
            <6>1. PathAfter(first, x) \in SUBSET ancestors[x] /\ PathAfter(first, x) # {}
              BY <5>1 DEF PathAfter
            <6>2. PICK z \in PathAfter(first, x) : \A w \in PathAfter(first, x) : z \in ancestors[w]
              BY <2>8, <6>1, FirstOf
            <6>3. parent[z] = first \/ parent[z] \in PathAfter(first, x)
              BY <2>5, <2>8, PathParent
            <6>4. z # GENESIS /\ z \in Block
              BY <2>5, <2>8, PathParent
            <6>5. z \notin ancestors[parent[z]]
              BY <6>4, ChainAssumption
            <6> QED
              BY <6>2, <6>3, <6>5
          <5>3. first \in ok
            BY <5>2 DEF Reached
          <5> QED
            BY <3>2, <4>1, <5>3
        <4> QED
          BY <4>2, <4>3
      <3>3. CASE y \in PathAfter(first, x)
        <4>1. y \in Block /\ y \in ancestors[x] /\ first \in ancestors[y]
          BY <2>5, <2>8, <3>3, PathParent
        <4>2. PathAfter(first, x) = PathAfter(first, y) \cup PathAfter(y, x)
          BY <2>8, <4>1, PathSplit
        <4>3. y \in seen
          BY <4>1, <4>2 DEF Reached
        <4>4. CASE y = x
          BY <4>4
        <4>5. CASE y # x
          <5>1. x \in PathAfter(y, x)
            BY <2>8, <4>1, <4>5, AncestorOfAll DEF PathAfter
          <5>2. PICK z \in PathAfter(y, x) : \A w \in PathAfter(y, x) : z \in ancestors[w]
            <6>1. PathAfter(y, x) \in SUBSET ancestors[x] /\ PathAfter(y, x) # {}
              BY <5>1 DEF PathAfter
            <6> QED
              BY <2>8, <6>1, FirstOf
          <5>3. parent[z] = y \/ parent[z] \in PathAfter(y, x)
            BY <2>8, <4>1, PathParent
          <5>4. z \notin ancestors[parent[z]]
            BY <2>8, <4>1, PathParent, ChainAssumption
          <5>5. parent[z] = y
            BY <5>2, <5>3, <5>4
          <5>6. y \in ok
            BY <4>2, <5>2, <5>5 DEF Reached
          <5> QED
            BY <4>3, <5>6
        <4> QED
          BY <4>4, <4>5
      <3> QED
        BY <2>8, <3>1, <3>2, <3>3
    <2> DEFINE t == [s EXCEPT !.coherent = s.coherent \cup (seen \cap ok),
                              !.announced = s.announced \cup (seen \cap ok)]
    <2>10. MarkCoherent(s, b, ok) = t
      <3>1. ~\E x \in seen : ~HasPath(s, x)
        BY <2>8
      <3> QED
        BY <1>2, <2>1, <3>1 DEF MarkCoherent, NodeState, first
    <2>11. seen \cap ok \subseteq s.tree
      <3> SUFFICES ASSUME NEW x \in seen \cap ok PROVE x \in s.tree
        OBVIOUS
      <3>1. x # s.root
        <4>1. first # s.root /\ s.root \in ancestors[first] /\ first \in ancestors[x]
          BY <2>1, <2>5, <2>8, PathParent
        <4> QED
          BY <2>1, <2>5, <2>8, <4>1, AncestorRound
      <3> QED
        BY <2>8, <3>1, AncestorOfAll DEF HasPath, PathAfter
    <2>12. /\ t \in NodeState /\ t.root = s.root /\ t.high = s.high /\ t.requests = s.requests
           /\ t.tree = s.tree /\ t.children = s.children /\ t.coherent = s.coherent \cup (seen \cap ok)
           /\ t.committed = s.committed /\ t.status = s.status
      <3>1. seen \subseteq Block
        BY <2>8
      <3> HIDE DEF seen
      <3> QED
        BY <2>1, <3>1 DEF NodeState
    <2> HIDE DEF t, seen
    <2>13. CoherentPaths(t)
      <3>1. ASSUME NEW x \in s.coherent, s.root \in ancestors[x]
            PROVE  PathAfter(s.root, x) \subseteq s.coherent
        BY <3>1 DEF TreeInv, CoherentPaths
      <3> QED
        BY <2>1, <2>9, <2>11, <2>12, <3>1 DEF CoherentPaths
    <2>14. AboveRoot(t) /\ ChildrenInTree(t) /\ ChildrenFound(t)
      BY <2>12 DEF TreeInv, AboveRoot, ChildrenInTree, ChildrenFound
    <2>15. RootCertified(t, h) /\ HeadersSeen(t, h) /\ RequestsSeen(t, h)
      BY <2>12 DEF TreeInv, RootCertified, HeadersSeen, RequestsSeen
    <2> QED
      BY <2>10, <2>12, <2>13, <2>14, <2>15 DEF TreeInv
  <1> QED
    BY <1>1, <1>2

\* The QC q commits block b: it is for a block that extends b, whose header has the
\* QC of the round before.
Commits(q, b) ==
    /\ q \in AllQCs /\ q.qc_block # GENESIS
    /\ q.round = qc_round[q.qc_block] + 1
    /\ parent[q.qc_block] = b

\* What is committed and newer than the root extends the root: of two commits the
\* older one is on the chain of the newer one.
LEMMA CommitsExtendRoot ==
    ASSUME NEW s, NEW h, TreeInv(s, h), NEW q, NEW b, Commits(q, b),
           block_round[b] > block_round[s.root]
    PROVE  b \in Block /\ s.root \in ancestors[b]
  <1> DEFINE c == q.qc_block
  <1>1. c \in Block /\ c # GENESIS /\ b \in Block /\ s.root \in Block
    BY CertificateTypes, ChainAssumption DEF Commits, CertificateType, TreeInv, NodeState
  <1>2. CASE s.root = GENESIS
    BY <1>1, <1>2, AncestorOfAll
  <1>3. CASE s.root # GENESIS
    <2>1. PICK p \in AllQCs : Commits(p, s.root)
      BY <1>3 DEF TreeInv, RootCertified, Commits
    <2> DEFINE d == p.qc_block
    <2>2. d \in Block /\ d # GENESIS /\ parent[d] = s.root /\ p.round = qc_round[d] + 1
      BY <2>1, CertificateTypes DEF Commits, CertificateType
    <2>3. /\ HeaderQC(c) \in AllQCs /\ HeaderQC(d) \in AllQCs
          /\ HeaderQC(c).round = qc_round[c] /\ HeaderQC(d).round = qc_round[d]
          /\ HeaderQC(c).qc_block = b /\ HeaderQC(d).qc_block = s.root
          /\ qc_round[c] \in Nat /\ qc_round[d] \in Nat
      <3>1. HeaderQC(c) \in AllQCs /\ HeaderQC(d) \in AllQCs
        BY <1>1, <2>2, HeaderRounds
      <3> QED
        BY <1>1, <2>2, <3>1, ChainAssumption DEF HeaderQC, Commits
    <2>4. CASE qc_round[c] = qc_round[d]
      <3>1. b = s.root
        BY <2>3, <2>4, FinalityAssumption
      <3> QED
        BY <1>1, <3>1, AncestorOfAll
    <2>5. CASE qc_round[c] > qc_round[d]
      <3>1. parent[d] \in ancestors[HeaderQC(c).qc_block]
        BY <2>1, <2>2, <2>3, <2>5, FinalityAssumption
      <3> QED
        BY <1>1, <2>2, <2>3, <3>1
    <2>6. CASE qc_round[c] < qc_round[d]
      <3>1. b \in ancestors[s.root]
        BY <1>1, <2>3, <2>6, FinalityAssumption DEF Commits
      <3>2. block_round[b] <= block_round[s.root] /\ block_round[b] \in Nat /\ block_round[s.root] \in Nat
        BY <1>1, <3>1, AncestorRound
      <3> QED
        BY <3>2
    <2> QED
      BY <2>3, <2>4, <2>5, <2>6
  <1> QED
    BY <1>2, <1>3

\* What a prune of the tree to b does.
LEMMA PruneInv ==
    ASSUME NEW s, NEW h, TreeInv(s, h), NEW q, NEW b, Commits(q, b), q.round <= h,
           b = s.root \/ b \in s.coherent
    PROVE  LET t == Prune(s, b) IN
           /\ TreeInv(t, h)
           /\ t.root = b /\ t.high = s.high /\ t.requests = s.requests
           /\ b \in Block /\ s.root \in ancestors[b]
           /\ b # s.root =>
                /\ HasPath(s, b)
                /\ t.coherent \subseteq s.coherent
                /\ t.tree = {x \in s.tree \ PathAfter(s.root, b) : qc_round[x] >= block_round[b]}
  <1>1. s \in NodeState /\ s.root \in Block /\ s.coherent \subseteq s.tree /\ s.tree \subseteq Block
    BY DEF TreeInv, NodeState, CoherentPaths
  <1>2. CASE b = s.root
    BY <1>1, <1>2, AncestorOfAll DEF Prune
  <1>3. CASE b # s.root
    <2> DEFINE path == PathAfter(s.root, b)
    <2> DEFINE keep == {x \in s.tree \ path : qc_round[x] >= block_round[b]}
    <2> DEFINE C == [x \in Block |-> IF x \in keep \cup {b} THEN s.children[x] ELSE {}]
    <2> DEFINE t == [s EXCEPT !.root = b, !.tree = keep, !.coherent = s.coherent \cap keep,
                              !.children = C, !.committed = s.committed \cup path]
    <2>1. b \in s.coherent /\ b \in s.tree /\ b \in Block /\ block_round[b] > block_round[s.root]
      BY <1>1, <1>3 DEF TreeInv, AboveRoot
    <2>2. s.root \in ancestors[b]
      BY <2>1, CommitsExtendRoot
    <2>3. path \subseteq s.coherent /\ HasPath(s, b)
      BY <1>1, <2>1, <2>2 DEF TreeInv, CoherentPaths, HasPath
    <2>4. Prune(s, b) = t
      BY <1>1, <1>3, <2>3 DEF Prune, NodeState
    <2>5. C \in [Block -> SUBSET Block] /\ keep \subseteq s.tree /\ path \subseteq Block
      BY <1>1, <2>3 DEF NodeState
    <2>6. /\ t \in NodeState /\ t.root = b /\ t.high = s.high /\ t.requests = s.requests
          /\ t.tree = keep /\ t.children = C /\ t.coherent = s.coherent \cap keep
          /\ t.committed = s.committed \cup path /\ t.status = s.status
      <3> HIDE DEF C, keep, path
      <3> QED BY <1>1, <2>1, <2>5 DEF NodeState
    <2> HIDE DEF t
    <2>7. \A x \in s.tree : x # GENESIS
      BY <1>1, ChainAssumption DEF TreeInv, AboveRoot
    <2>8. ASSUME NEW x \in keep
          PROVE  /\ x \in Block /\ x # GENESIS /\ x \in s.tree
                 /\ block_round[x] > qc_round[x] /\ qc_round[x] >= block_round[b]
                 /\ block_round[x] > block_round[b] /\ x \notin ancestors[b]
      <3>1. x \in Block /\ x # GENESIS /\ x \in s.tree /\ qc_round[x] >= block_round[b]
        BY <1>1, <2>7
      <3>2. block_round[x] > qc_round[x] /\ block_round[x] \in Nat /\ qc_round[x] \in Nat /\ block_round[b] \in Nat
        BY <2>1, <3>1, HeaderRounds, ChainAssumption
      <3> QED
        BY <2>1, <3>1, <3>2, AncestorRound
    <2>9. ASSUME NEW x \in s.tree, b \in ancestors[parent[x]]
          PROVE  x \in keep
      <3>1. x \in Block /\ x # GENESIS
        BY <1>1, <2>7
      <3>2. block_round[b] <= block_round[parent[x]] /\ block_round[b] \in Nat
        BY <2>9, <3>1, AncestorRound, HeaderRounds
      <3>3. qc_round[x] >= block_round[b] /\ block_round[x] > block_round[b]
        BY <3>1, <3>2, HeaderRounds
      <3>4. x \notin path
        <4> SUFFICES ASSUME x \in path PROVE FALSE
          OBVIOUS
        <4>1. x \in ancestors[b]
          BY DEF PathAfter
        <4> QED
          BY <2>1, <3>1, <3>3, <4>1, AncestorRound
      <3> QED
        BY <3>3, <3>4
    <2>10. AboveRoot(t)
      BY <2>6, <2>8 DEF AboveRoot
    <2>11. ChildrenInTree(t)
      <3> SUFFICES ASSUME NEW a \in Block, NEW c \in t.children[a]
                   PROVE  parent[c] = a /\ c \in keep
        BY <2>6 DEF ChildrenInTree
      <3>1. a \in keep \cup {b} /\ c \in s.children[a]
        BY <2>6
      <3>2. parent[c] = a /\ c \in s.tree
        BY <3>1 DEF TreeInv, ChildrenInTree
      <3>3. c \in Block /\ c # GENESIS
        BY <1>1, <2>7, <3>2
      <3>4. CASE a = b
        BY <2>1, <2>9, <3>2, <3>4, AncestorOfAll
      <3>5. CASE a \in keep
        <4>1. block_round[a] <= qc_round[c] /\ block_round[a] > block_round[b] /\ a \notin ancestors[b]
              /\ block_round[b] \in Nat /\ block_round[a] \in Nat /\ qc_round[c] \in Nat
          BY <2>1, <2>8, <3>2, <3>3, <3>5, HeaderRounds, ChainAssumption
        <4>2. c \notin path
          <5> SUFFICES ASSUME c \in path PROVE FALSE
            OBVIOUS
          <5>1. a \in ancestors[b]
            BY <1>1, <2>1, <3>2, PathParent
          <5> QED
            BY <4>1, <5>1
        <4> QED
          BY <3>2, <4>1, <4>2
      <3> QED
        BY <3>1, <3>2, <3>4, <3>5
    <2>12. ChildrenFound(t)
      <3> SUFFICES ASSUME NEW c \in keep, parent[c] \in keep \cup {b} PROVE c \in C[parent[c]]
        BY <2>6 DEF ChildrenFound
      <3>1. c \in s.tree /\ parent[c] \in s.tree /\ parent[c] \in Block
        BY <1>1, <2>1, <2>5
      <3>2. c \in s.children[parent[c]]
        BY <3>1 DEF TreeInv, ChildrenFound
      <3> QED
        BY <3>1, <3>2
    <2>13. CoherentPaths(t)
      <3> SUFFICES ASSUME NEW x \in s.coherent \cap keep, b \in ancestors[x], NEW y \in PathAfter(b, x)
                   PROVE  y \in s.coherent \cap keep
        BY <2>6 DEF CoherentPaths
      <3>1. x \in Block /\ s.root \in ancestors[x]
        BY <1>1, <2>2, AncestorTransitive
      <3>2. y \in PathAfter(s.root, x)
        BY <2>2, <3>1, PathSplit
      <3>3. y \in s.coherent
        BY <3>1, <3>2 DEF TreeInv, CoherentPaths
      <3>4. b \in ancestors[parent[y]]
        BY <2>1, <3>1, PathParent
      <3> QED
        BY <1>1, <2>9, <3>3, <3>4
    <2>14. RootCertified(t, h)
      BY <2>6 DEF RootCertified, Commits
    <2>15. HeadersSeen(t, h) /\ RequestsSeen(t, h)
      BY <2>5, <2>6 DEF TreeInv, HeadersSeen, RequestsSeen
    <2>16. t.committed = ancestors[t.root]
      BY <2>1, <2>2, <2>6, PathSplit, AncestorOfAll DEF TreeInv
    <2> QED
      BY <1>3, <2>1, <2>2, <2>3, <2>4, <2>6, <2>10, <2>11, <2>12, <2>13, <2>14, <2>15, <2>16 DEF TreeInv
  <1> QED
    BY <1>2, <1>3

-----------------------------------------------------------------------------
(* Committing.                                                             *)

\* NothingCommittableLeft and GapRequested of a state that a handler is in.
NoneLeft(s) ==
    ~\E b \in s.tree :
        /\ HasPath(s, b)
        /\ parent[b] \in s.tree /\ parent[parent[b]] \in s.coherent
        /\ qc_round[b] = qc_round[parent[b]] + 1
MissingRequested(s) == \A b \in Missing(s) : Requested(s, b)

\* The highest certificate's block extends the root.
LEMMA HighExtendsRoot ==
    ASSUME NEW s, TreeInv(s, s.high.round)
    PROVE  /\ s.high.qc_block \in Block /\ s.root \in ancestors[s.high.qc_block]
           /\ s.root \in Block /\ s.tree \subseteq Block /\ s.root \notin s.tree
  <1>1. s.high \in AllQCs \cup TC /\ s.high \in CertificateType /\ s.root \in Block /\ s.tree \subseteq Block
    BY CertificateTypes DEF TreeInv, NodeState
  <1>2. s.high.qc_block \in Block /\ s.high.round \in Nat
    BY <1>1 DEF CertificateType
  <1>3. s.root \notin s.tree
    BY <1>1, ChainAssumption DEF TreeInv, AboveRoot
  <1>4. CASE s.root = GENESIS
    BY <1>1, <1>2, <1>3, <1>4, AncestorOfAll
  <1>5. CASE s.root # GENESIS
    <2>1. PICK p \in AllQCs : Commits(p, s.root) /\ p.round <= s.high.round
      BY <1>5 DEF TreeInv, RootCertified, Commits
    <2>2. p.qc_block \in Block
      BY CertificateTypes DEF CertificateType
    <2>3. s.high.round > qc_round[p.qc_block]
      BY <1>2, <2>1, <2>2, ChainAssumption DEF Commits
    <2>4. parent[p.qc_block] \in ancestors[s.high.qc_block]
      BY <1>1, <2>1, <2>3, FinalityAssumption DEF Commits
    <2> QED
      BY <1>1, <1>2, <1>3, <2>1, <2>4 DEF Commits
  <1> QED
    BY <1>4, <1>5

\* The missing block is the newest unknown one, and that is what it is.
LEMMA MissingIsNewest ==
    ASSUME NEW s, TreeInv(s, s.high.round)
    PROVE  LET unknown == ancestors[s.high.qc_block] \ s.tree IN
           /\ \E x \in unknown : unknown \subseteq ancestors[x]
           /\ \A x \in unknown : unknown \subseteq ancestors[x] =>
                Missing(s) = IF block_round[s.root] >= s.high.qc_round THEN {} ELSE {x} \ {s.root}
  <1> DEFINE unknown == ancestors[s.high.qc_block] \ s.tree
  <1> DEFINE newest == CHOOSE x \in unknown : unknown \subseteq ancestors[x]
  <1>1. unknown \in SUBSET ancestors[s.high.qc_block] /\ unknown # {} /\ s.high.qc_block \in Block
    BY HighExtendsRoot
  <1>2. \E x \in unknown : unknown \subseteq ancestors[x]
    <2> HIDE DEF unknown
    <2> QED BY <1>1, LastOf
  <1>3. newest \in unknown /\ unknown \subseteq ancestors[newest]
    BY <1>2, Zenon
  <1>4. ASSUME NEW x \in unknown, unknown \subseteq ancestors[x] PROVE x = newest
    <2> HIDE DEF newest
    <2>1. x \in ancestors[newest] /\ newest \in ancestors[x] /\ x \in Block /\ newest \in Block
      BY <1>1, <1>3, <1>4, AncestorOfAll
    <2> QED
      BY <2>1, AncestorRound
  <1>5. Missing(s) = IF block_round[s.root] >= s.high.qc_round THEN {} ELSE {newest} \ {s.root}
    BY DEF Missing
  <1> HIDE DEF newest
  <1> QED
    BY <1>2, <1>4, <1>5

\* Pruning makes nothing committable and nothing missing.
LEMMA PruneKeeps ==
    ASSUME NEW s, NEW h, TreeInv(s, h), NEW q, NEW b, Commits(q, b), q.round <= h,
           b = s.root \/ b \in s.coherent
    PROVE  LET t == Prune(s, b) IN
           /\ NoneLeft(s) => NoneLeft(t)
           /\ h = s.high.round => Missing(t) \subseteq Missing(s)
  <1> DEFINE t == Prune(s, b)
  <1>0. CASE b = s.root
    BY <1>0 DEF Prune
  <1>1. CASE b # s.root
    <2>1. /\ TreeInv(t, h) /\ t.root = b /\ t.high = s.high /\ b \in Block
          /\ s.root \in ancestors[b] /\ HasPath(s, b) /\ t.coherent \subseteq s.coherent
          /\ t.tree = {x \in s.tree \ PathAfter(s.root, b) : qc_round[x] >= block_round[b]}
      BY <1>1, PruneInv
    <2> HIDE DEF t
    <2>2. s.root \in Block /\ s.tree \subseteq Block /\ \A x \in s.tree : x # GENESIS
      BY ChainAssumption DEF TreeInv, NodeState, AboveRoot
    <2>3. ASSUME NoneLeft(s) PROVE NoneLeft(t)
      <3> SUFFICES ASSUME NEW x \in t.tree, HasPath(t, x), parent[x] \in t.tree,
                          parent[parent[x]] \in t.coherent, qc_round[x] = qc_round[parent[x]] + 1
                   PROVE  FALSE
        BY DEF NoneLeft
      <3>1. x \in s.tree /\ x \in Block /\ parent[x] \in s.tree /\ parent[parent[x]] \in s.coherent
        BY <2>1, <2>2
      <3>2. b \in ancestors[x] /\ PathAfter(b, x) \subseteq s.tree
        BY <2>1 DEF HasPath
      <3>3. HasPath(s, x)
        <4>1. s.root \in ancestors[x]
          BY <2>1, <3>1, <3>2, AncestorTransitive
        <4>2. PathAfter(s.root, x) = PathAfter(s.root, b) \cup PathAfter(b, x)
          BY <2>1, <3>1, <3>2, PathSplit
        <4> QED
          BY <2>1, <3>2, <4>1, <4>2 DEF HasPath
      <3> QED
        BY <2>3, <3>1, <3>3 DEF NoneLeft
    <2>4. ASSUME h = s.high.round PROVE Missing(t) \subseteq Missing(s)
      <3> DEFINE B == s.high.qc_block
      <3> DEFINE unknown == ancestors[B] \ s.tree
      <3> DEFINE unknown_t == ancestors[B] \ t.tree
      <3>1. TreeInv(s, s.high.round) /\ TreeInv(t, t.high.round)
        BY <2>1, <2>4
      <3>2. B \in Block /\ b \in ancestors[B] /\ s.root \in ancestors[B] /\ b \notin t.tree
        BY <2>1, <3>1, HighExtendsRoot
      <3>3. ASSUME NEW x \in unknown_t, x \notin unknown PROVE x \in ancestors[b]
        <4>1. x \in s.tree /\ x \in ancestors[B] /\ x \notin t.tree /\ x \in Block /\ x # GENESIS
          BY <2>2, <3>3
        <4>2. x \in PathAfter(s.root, b) \/ ~(qc_round[x] >= block_round[b])
          BY <2>1, <4>1
        <4>3. CASE x \in PathAfter(s.root, b)
          BY <4>3 DEF PathAfter
        <4>4. CASE ~(qc_round[x] >= block_round[b])
          <5>1. x \in ancestors[b] \/ b \in ancestors[x]
            BY <3>2, <4>1, AncestorsLinear
          <5>2. CASE b \in ancestors[x] /\ x # b
            <6>1. x \in PathAfter(b, x)
              BY <4>1, <5>2, AncestorOfAll DEF PathAfter
            <6>2. block_round[b] <= qc_round[x]
              BY <2>1, <4>1, <6>1, PathParent
            <6> QED
              BY <2>1, <4>1, <4>4, <6>2, ChainAssumption
          <5> QED
            BY <2>1, <5>1, <5>2, AncestorOfAll
        <4> QED
          BY <4>2, <4>3, <4>4
      <3>4. PICK n \in unknown : unknown \subseteq ancestors[n]
        BY <3>1, MissingIsNewest
      <3>5. n \in unknown_t /\ n \in Block /\ n \in ancestors[B]
        BY <2>1, <3>2, AncestorOfAll
      <3>6. Missing(s) = IF block_round[s.root] >= s.high.qc_round THEN {} ELSE {n} \ {s.root}
        BY <3>1, <3>4, MissingIsNewest
      <3>7. block_round[s.root] < block_round[b] /\ block_round[b] \in Nat /\ block_round[s.root] \in Nat
        BY <1>1, <2>1, AncestorRound
      <3>8. s.high.qc_round \in Nat
        BY <3>1, CertificateTypes DEF TreeInv, CertificateType
      <3>9. CASE n \in ancestors[b]
        <4>1. b \in unknown_t /\ unknown_t \subseteq ancestors[b]
          BY <2>1, <3>2, <3>3, <3>4, <3>9, AncestorTransitive
        <4>2. Missing(t) \subseteq {b} \ {b}
          BY <2>1, <3>1, <4>1, MissingIsNewest
        <4> QED
          BY <4>2
      <3>10. CASE n \notin ancestors[b]
        <4>1. b \in ancestors[n]
          BY <3>2, <3>5, <3>10, AncestorsLinear
        <4>2. unknown_t \subseteq ancestors[n]
          BY <3>3, <3>4, <3>5, <4>1, AncestorTransitive
        <4>3. Missing(t) = IF block_round[b] >= s.high.qc_round THEN {} ELSE {n} \ {b}
          BY <2>1, <3>1, <3>5, <4>2, MissingIsNewest
        <4>4. n # s.root
          BY <2>1, <3>10
        <4> QED
          BY <3>6, <3>7, <3>8, <4>3, <4>4
      <3> QED
        BY <3>9, <3>10
    <2> QED
      BY <2>3, <2>4 DEF t
  <1> QED
    BY <1>0, <1>1

\* What a step of a handler that leaves the certificates alone must keep.
Keeps(s, t, h) ==
    /\ TreeInv(t, h)
    /\ t.high = s.high
    /\ s.requests \subseteq t.requests
    /\ NoneLeft(s) => NoneLeft(t)
    /\ h = s.high.round => Missing(t) \subseteq Missing(s)

\* try_commit with a QC that verified.
LEMMA TryCommitKeeps ==
    ASSUME NEW s, NEW h, TreeInv(s, h), NEW q \in AllQCs, q.round <= h
    PROVE  Keeps(s, TryCommit(s, q.round, q.qc_block), h)
  <1> DEFINE c == q.qc_block
  <1> DEFINE b == parent[c]
  <1> DEFINE cond == c \in s.tree /\ q.round = qc_round[c] + 1 /\ IsCoherent(s, b)
  <1>1. CASE ~cond
    BY <1>1 DEF TryCommit, Keeps
  <1>2. CASE cond
    <2>1. Commits(q, b)
      BY <1>2, ChainAssumption DEF Commits, TreeInv, NodeState, AboveRoot
    <2>2. b = s.root \/ b \in s.coherent
      BY <1>2 DEF IsCoherent
    <2>3. TryCommit(s, q.round, c) = Prune(s, b)
      BY <1>2 DEF TryCommit
    <2>4. /\ TreeInv(Prune(s, b), h) /\ Prune(s, b).high = s.high
          /\ Prune(s, b).requests = s.requests
      BY <2>1, <2>2, PruneInv
    <2>5. /\ NoneLeft(s) => NoneLeft(Prune(s, b))
          /\ h = s.high.round => Missing(Prune(s, b)) \subseteq Missing(s)
      BY <2>1, <2>2, PruneKeeps
    <2> QED
      BY <2>3, <2>4, <2>5 DEF Keeps
  <1> QED
    BY <1>1, <1>2

\* The search for committable blocks comes to every block with a path to the root.
LEMMA ReachedIsAll ==
    ASSUME NEW s, NEW h, TreeInv(s, h), NEW b \in s.tree, HasPath(s, b)
    PROVE  b \in Reached(s, s.root, Block) \ {s.root}
  <1>1. s.root \in Block /\ s.tree \subseteq Block /\ b # s.root
    BY ChainAssumption DEF TreeInv, NodeState, AboveRoot
  <1>2. ASSUME NEW x \in PathAfter(s.root, b)
        PROVE  x \in s.children[parent[x]] /\ parent[x] \in Block
    <2>1. x \in s.tree /\ parent[x] \in s.tree \cup {s.root} /\ parent[x] \in Block
      BY <1>1, PathParent DEF HasPath
    <2> QED
      BY <2>1 DEF TreeInv, ChildrenFound
  <1> QED
    BY <1>1, <1>2 DEF HasPath, Reached

\* get_high_committable_qc and the commit that follows: its expect holds, and when
\* the highest committable block is committed nothing committable is left.
LEMMA CommitHighKeeps ==
    ASSUME NEW s, NEW h, TreeInv(s, h)
    PROVE  Keeps(s, CommitHigh(s), h) /\ NoneLeft(CommitHigh(s))
  <1>1. s.root \in Block /\ s.tree \subseteq Block /\ s.coherent \subseteq s.tree /\ s.root \notin s.tree
    BY ChainAssumption DEF TreeInv, NodeState, AboveRoot, CoherentPaths
  <1>2. \A b \in s.tree : b # GENESIS /\ qc_round[b] <= h /\ qc_round[b] \in Nat /\ h \in Nat
    BY <1>1, ChainAssumption DEF TreeInv, AboveRoot, HeadersSeen
  <1>3. Reached(s, s.root, Block) \subseteq s.tree \cup {s.root}
    <2> SUFFICES ASSUME NEW x \in Reached(s, s.root, Block), x # s.root PROVE x \in s.tree
      OBVIOUS
    <2>1. x \in Block /\ s.root \in ancestors[x] /\ PathAfter(s.root, x) \subseteq s.tree
      BY <1>1, ReachedInTree
    <2> QED
      BY <2>1, AncestorOfAll DEF PathAfter
  <1>4. ASSUME NEW b \in s.tree, HasPath(s, b), parent[b] \in s.tree, parent[parent[b]] \in s.coherent,
               qc_round[b] = qc_round[parent[b]] + 1
        PROVE  b \in Committable(s)
    BY <1>1, <1>4, ReachedIsAll DEF Committable, IsCoherent
  <1>5. CASE Committable(s) = {}
    BY <1>3, <1>4, <1>5 DEF CommitHigh, Keeps, NoneLeft
  <1>6. CASE Committable(s) # {}
    <2> DEFINE b == CHOOSE x \in Committable(s) : \A y \in Committable(s) : qc_round[y] <= qc_round[x]
    <2> DEFINE C == parent[b]
    <2>1. Committable(s) \subseteq s.tree
      BY <1>3 DEF Committable
    <2>2. b \in Committable(s) /\ \A y \in Committable(s) : qc_round[y] <= qc_round[b]
      <3> DEFINE D == {h - qc_round[x] : x \in Committable(s)}
      <3>1. D \in SUBSET Nat /\ D # {}
        BY <1>2, <1>6, <2>1
      <3>2. \E n \in D : \A m \in D : n <= m
        <4> HIDE DEF D
        <4> QED BY <3>1, NatMin
      <3>3. \E x \in Committable(s) : \A y \in Committable(s) : h - qc_round[x] <= h - qc_round[y]
        BY <3>2
      <3>4. \E x \in Committable(s) : \A y \in Committable(s) : qc_round[y] <= qc_round[x]
        BY <1>2, <2>1, <3>3
      <3> QED
        BY <3>4, Zenon
    <2>3. CommitHigh(s) = TryCommit(s, qc_round[b], C)
      BY <1>3, <1>6 DEF CommitHigh
    <2> HIDE DEF b
    <2>4. /\ b \in s.tree /\ b \in Block /\ b # GENESIS /\ C \in s.tree /\ C # GENESIS /\ C \in Block
          /\ qc_round[b] = qc_round[C] + 1 /\ parent[C] # s.root /\ IsCoherent(s, parent[C])
      BY <1>1, <1>2, <2>1, <2>2 DEF Committable
    <2>5. HeaderQC(b) \in AllQCs /\ HeaderQC(b).round = qc_round[b] /\ HeaderQC(b).qc_block = C
      BY <2>4, HeaderRounds DEF HeaderQC
    <2>6. Keeps(s, CommitHigh(s), h)
      BY <1>2, <2>3, <2>4, <2>5, TryCommitKeeps
    <2>7. CommitHigh(s) = Prune(s, parent[C])
      BY <2>3, <2>4 DEF TryCommit
    <2> DEFINE t == Prune(s, parent[C])
    <2>8. /\ TreeInv(t, h) /\ t.root = parent[C] /\ t.coherent \subseteq s.coherent
          /\ HasPath(s, parent[C]) /\ s.root \in ancestors[parent[C]] /\ parent[C] \in Block
          /\ t.tree \subseteq s.tree
      <3>1. Commits(HeaderQC(b), parent[C])
        BY <2>4, <2>5 DEF Commits
      <3> QED
        BY <1>2, <2>4, <2>5, <3>1, PruneInv DEF IsCoherent
    <2> HIDE DEF t
    <2>9. NoneLeft(t)
      <3> SUFFICES ASSUME NEW x \in t.tree, HasPath(t, x), parent[x] \in t.tree,
                          parent[parent[x]] \in t.coherent, qc_round[x] = qc_round[parent[x]] + 1
                   PROVE  FALSE
        BY DEF NoneLeft
      <3>1. /\ x \in s.tree /\ parent[x] \in s.tree /\ parent[parent[x]] \in s.coherent /\ x \in Block
            /\ parent[x] \in Block /\ parent[x] # GENESIS /\ x # GENESIS
        BY <1>1, <1>2, <2>8
      <3>2. HasPath(s, x)
        <4>1. parent[C] \in ancestors[x] /\ PathAfter(parent[C], x) \subseteq s.tree
          BY <2>8 DEF HasPath
        <4>2. s.root \in ancestors[x]
          BY <2>8, <3>1, <4>1, AncestorTransitive
        <4>3. PathAfter(s.root, x) = PathAfter(s.root, parent[C]) \cup PathAfter(parent[C], x)
          BY <2>8, <3>1, <4>1, PathSplit
        <4> QED
          BY <2>8, <4>1, <4>2, <4>3 DEF HasPath
      <3>3. x \in Committable(s) /\ qc_round[x] <= qc_round[b]
        BY <1>4, <2>2, <3>1, <3>2
      <3>4. block_round[parent[parent[x]]] > block_round[parent[C]] /\ parent[parent[x]] \in Block
        BY <1>1, <2>8, <3>1 DEF TreeInv, AboveRoot, CoherentPaths
      <3>5. /\ HeaderQC(x) \in AllQCs /\ HeaderQC(x).round = qc_round[x] /\ HeaderQC(x).qc_block = parent[x]
            /\ HeaderQC(C) \in AllQCs /\ HeaderQC(C).round = qc_round[C] /\ HeaderQC(C).qc_block = parent[C]
        BY <2>4, <3>1, HeaderRounds DEF HeaderQC
      <3>6. CASE qc_round[x] = qc_round[b]
        <4>1. parent[x] = C
          BY <2>5, <3>5, <3>6, FinalityAssumption
        <4> QED
          BY <2>8, <3>4, <4>1, ChainAssumption
      <3>7. CASE qc_round[x] # qc_round[b]
        <4>1. qc_round[C] > qc_round[parent[x]]
          BY <1>2, <2>4, <3>1, <3>3, <3>7
        <4>2. parent[parent[x]] \in ancestors[parent[C]]
          BY <3>1, <3>5, <4>1, FinalityAssumption
        <4>3. block_round[parent[parent[x]]] <= block_round[parent[C]]
          BY <2>8, <4>2, AncestorRound
        <4> QED
          BY <2>8, <3>4, <4>3, ChainAssumption
      <3> QED
        BY <3>6, <3>7
    <2> QED
      BY <2>6, <2>7, <2>9 DEF t
  <1> QED
    BY <1>5, <1>6

\* Keeping is transitive.
LEMMA KeepsTransitive ==
    ASSUME NEW s, NEW t, NEW u, NEW h, Keeps(s, t, h), Keeps(t, u, h)
    PROVE  Keeps(s, u, h)
  BY DEF Keeps

\* What keeps a node's promises keeps the request for what is missing.
LEMMA KeepsRequested ==
    ASSUME NEW s, NEW t, Keeps(s, t, s.high.round), MissingRequested(s)
    PROVE  MissingRequested(t)
  BY DEF Keeps, MissingRequested, Requested

\* try_update_coherency
LEMMA UpdateCoherencyKeeps ==
    ASSUME NEW s, NEW h, TreeInv(s, h), NEW b \in Block, NEW ok
    PROVE  LET t == UpdateCoherency(s, b, ok) IN
           /\ TreeInv(t, h) /\ t.high = s.high /\ NoneLeft(t) /\ Keeps(s, t, h)
  <1> DEFINE m == MarkCoherent(s, b, ok)
  <1>1. /\ TreeInv(m, h) /\ m.root = s.root /\ m.tree = s.tree /\ m.high = s.high
        /\ m.requests = s.requests
    BY MarkCoherentInv
  <1>2. UpdateCoherency(s, b, ok) = CommitHigh(m)
    BY DEF UpdateCoherency
  <1>3. Missing(m) = Missing(s)
    BY <1>1 DEF Missing
  <1> HIDE DEF m
  <1>4. Keeps(m, CommitHigh(m), h) /\ NoneLeft(CommitHigh(m))
    BY <1>1, CommitHighKeeps
  <1> QED
    BY <1>1, <1>2, <1>3, <1>4 DEF Keeps

-----------------------------------------------------------------------------
(* Requests and proposals.                                                 *)

\* The rounds in a certificate that verified.
LEMMA CertificateRounds ==
    ASSUME NEW c \in AllQCs \cup TC
    PROVE  /\ c.qc_block \in Block /\ c.round \in Nat /\ c.qc_round \in Nat
           /\ block_round[c.qc_block] <= c.qc_round /\ c.qc_round <= c.round
           /\ ancestors[c.qc_block] \cap Invalid = {}
           /\ \A x \in ancestors[c.qc_block] : qc_round[x] <= c.round
           /\ c.tip # NoTip =>
                /\ c.tip \in Block /\ c.tip # GENESIS
                /\ qc_round[c.tip] <= c.round /\ c.qc_block = parent[c.tip]
           /\ c \in AllQCs => c.round = c.qc_round
           /\ c \in TC => c.qc_round < c.round
  <1>1. c \in CertificateType
    BY CertificateTypes
  <1>2. c.qc_block \in Block /\ c.round \in Nat /\ c.qc_round \in Nat /\ c.tip \in Block \cup {NoTip}
    BY <1>1 DEF CertificateType
  <1>3. /\ block_round[c.qc_block] <= c.qc_round /\ c.qc_round <= c.round
        /\ ancestors[c.qc_block] \cap Invalid = {}
    <2>1. CASE c \in AllQCs
      BY <1>2, <2>1, CertificateAssumption
    <2>2. CASE c \in TC
      <3>1. PICK q \in AllQCs : q.qc_round = c.qc_round /\ q.qc_block = c.qc_block
        BY <2>2, CertificateAssumption
      <3>2. q.round = q.qc_round /\ block_round[q.qc_block] <= q.round /\ ancestors[q.qc_block] \cap Invalid = {}
        BY CertificateAssumption
      <3> QED
        BY <1>2, <2>2, <3>1, <3>2, CertificateAssumption
    <2> QED
      BY <2>1, <2>2
  <1>4. ASSUME NEW x \in ancestors[c.qc_block] PROVE qc_round[x] <= c.round
    <2>1. x \in Block /\ block_round[x] <= block_round[c.qc_block] /\ block_round[x] \in Nat
          /\ block_round[c.qc_block] \in Nat
      BY <1>2, AncestorRound
    <2>2. qc_round[x] <= block_round[x] /\ qc_round[x] \in Nat
      BY <2>1, ChainAssumption
    <2> QED
      BY <1>2, <1>3, <2>1, <2>2
  <1>5. c.tip # NoTip => /\ c.tip # GENESIS /\ qc_round[c.tip] <= c.round /\ c.qc_block = parent[c.tip]
    BY <1>2, <1>3, CertificateAssumption
  <1>6. (c \in AllQCs => c.round = c.qc_round) /\ (c \in TC => c.qc_round < c.round)
    BY CertificateAssumption
  <1> QED
    BY <1>2, <1>3, <1>4, <1>5, <1>6

\* A request for blocks that end in b and whose headers' QCs have been seen.
LEMMA RequestKeeps ==
    ASSUME NEW s, NEW h, TreeInv(s, h), NEW b \in Block, NEW blocks \in SUBSET ancestors[b], b \in blocks,
           NEW r \in Nat, \A x \in blocks : qc_round[x] <= h
    PROVE  LET t == Request(s, b, blocks, r) IN
           /\ TreeInv(t, h) /\ Keeps(s, t, h) /\ Requested(t, b)
           /\ Missing(t) = Missing(s) /\ t.high = s.high
  <1>1. CASE Requested(s, b)
    BY <1>1 DEF Request, Keeps
  <1>2. CASE ~Requested(s, b)
    <2> DEFINE q == [id |-> b, blocks |-> blocks, cancel_round |-> r]
    <2> DEFINE t == [s EXCEPT !.requests = s.requests \cup {q}]
    <2>1. s \in NodeState /\ q \in RequestType /\ q.id = b /\ q.blocks = blocks
      BY AncestorOfAll DEF TreeInv, RequestType
    <2>2. Request(s, b, blocks, r) = t
      BY <1>2, <2>1 DEF Request, NodeState
    <2>3. /\ t \in NodeState /\ t.root = s.root /\ t.high = s.high /\ t.requests = s.requests \cup {q}
          /\ t.tree = s.tree /\ t.children = s.children /\ t.coherent = s.coherent
          /\ t.committed = s.committed /\ t.status = s.status
      <3> HIDE DEF q
      <3> QED BY <2>1 DEF NodeState
    <2> HIDE DEF t
    <2>4. AboveRoot(t) /\ ChildrenInTree(t) /\ ChildrenFound(t) /\ CoherentPaths(t)
      BY <2>3 DEF TreeInv, AboveRoot, ChildrenInTree, ChildrenFound, CoherentPaths
    <2>5. RootCertified(t, h) /\ HeadersSeen(t, h)
      BY <2>3 DEF TreeInv, RootCertified, HeadersSeen
    <2>6. RequestsSeen(t, h)
      BY <2>1, <2>3 DEF TreeInv, RequestsSeen
    <2>7. TreeInv(t, h)
      BY <2>3, <2>4, <2>5, <2>6 DEF TreeInv
    <2>8. Missing(t) = Missing(s) /\ (NoneLeft(s) => NoneLeft(t)) /\ Requested(t, b)
      BY <2>1, <2>3 DEF Missing, NoneLeft, HasPath, Requested
    <2> QED
      BY <2>2, <2>3, <2>7, <2>8 DEF Keeps
  <1> QED
    BY <1>1, <1>2

\* request_blocks_if_missing_ancestor requests the missing block.
LEMMA RequestMissingKeeps ==
    ASSUME NEW s, TreeInv(s, s.high.round)
    PROVE  LET t == RequestMissing(s) IN
           /\ Keeps(s, t, s.high.round) /\ MissingRequested(t) /\ t.high = s.high
  <1>1. CASE Missing(s) = {}
    BY <1>1 DEF RequestMissing, Keeps, MissingRequested
  <1>2. CASE Missing(s) # {}
    <2> DEFINE b == CHOOSE x \in Missing(s) : TRUE
    <2> DEFINE unknown == ancestors[s.high.qc_block] \ s.tree
    <2>1. b \in Missing(s)
      BY <1>2, Zenon
    <2>2. RequestMissing(s) = Request(s, b, BlockRange(s, b), s.high.qc_round)
      BY <1>2 DEF RequestMissing
    <2> HIDE DEF b
    <2>3. Missing(s) = {b} /\ b \in unknown
      <3>1. PICK n \in unknown : unknown \subseteq ancestors[n]
        BY MissingIsNewest
      <3>2. Missing(s) = IF block_round[s.root] >= s.high.qc_round THEN {} ELSE {n} \ {s.root}
        BY <3>1, MissingIsNewest
      <3> QED
        BY <2>1, <3>1, <3>2
    <2>4. s.high \in AllQCs \cup TC
      BY DEF TreeInv
    <2>5. s.high.qc_block \in Block /\ b \in ancestors[s.high.qc_block] /\ b \in Block /\ s.high.qc_round \in Nat
      BY <2>3, <2>4, CertificateRounds, AncestorOfAll
    <2>6. b \in BlockRange(s, b) /\ BlockRange(s, b) \in SUBSET ancestors[b]
      BY <2>5, AncestorOfAll DEF BlockRange
    <2>7. \A x \in BlockRange(s, b) : qc_round[x] <= s.high.round
      BY <2>4, <2>5, <2>6, AncestorTransitive, CertificateRounds
    <2> QED
      BY <2>2, <2>3, <2>5, <2>6, <2>7, RequestKeeps DEF MissingRequested
  <1> QED
    BY <1>1, <1>2

\* request_tip_if_missing
LEMMA RequestTipKeeps ==
    ASSUME NEW s, TreeInv(s, s.high.round)
    PROVE  Keeps(s, RequestTip(s), s.high.round)
  <1>1. CASE s.high.tip = NoTip \/ s.high.tip \in s.tree
    BY <1>1 DEF RequestTip, Keeps
  <1>2. CASE ~(s.high.tip = NoTip \/ s.high.tip \in s.tree)
    <2> DEFINE b == s.high.tip
    <2>1. b \in Block /\ qc_round[b] <= s.high.round /\ block_round[b] \in Nat
      BY <1>2, CertificateRounds, ChainAssumption DEF TreeInv
    <2>2. {b} \in SUBSET ancestors[b] /\ b \in {b} /\ \A x \in {b} : qc_round[x] <= s.high.round
      BY <2>1, AncestorOfAll
    <2> HIDE DEF b
    <2>3. Keeps(s, Request(s, b, {b}, block_round[b]), s.high.round)
      BY <2>1, <2>2, RequestKeeps
    <2> QED
      BY <1>2, <2>3 DEF RequestTip, b
  <1> QED
    BY <1>1, <1>2

\* try_propose: its asserts hold.  A TC's tip is not committed, and a coherent block
\* of the highest QC has a path to the root.
LEMMA TryProposeKeeps ==
    ASSUME NEW s, TreeInv(s, s.high.round), NEW e
    PROVE  LET t == TryPropose(s, e) IN Keeps(s, t, s.high.round) /\ t.high = s.high
  <1> DEFINE h == s.high.round
  <1> DEFINE t == RequestTip(s)
  <1>1. CASE CurrentRound(s) \notin OwnRounds
    BY <1>1 DEF TryPropose, Keeps
  <1>2. CASE CurrentRound(s) \in OwnRounds
    <2>1. Keeps(s, t, h) /\ TreeInv(t, h) /\ t.high = s.high
      BY RequestTipKeeps DEF Keeps
    <2>2. TryPropose(s, e) =
            CASE e.extend = "tip" /\ t.high.tip # NoTip ->
                   LET u == UpdateCoherency(t, t.high.tip, e.ok)
                   IN  IF t.high.tip = u.root THEN Panic(u) ELSE u
              [] e.extend = "qc" ->
                   LET u == UpdateCoherency(t, t.high.qc_block, e.ok)
                   IN  IF IsCoherent(u, t.high.qc_block) /\ ~HasPath(u, t.high.qc_block)
                       THEN Panic(u) ELSE u
              [] OTHER -> t
      BY <1>2 DEF TryPropose
    <2> HIDE DEF t
    <2>3. t.high \in AllQCs \cup TC
      BY <2>1 DEF TreeInv
    <2>4. CASE e.extend = "tip" /\ t.high.tip # NoTip
      <3> DEFINE u == UpdateCoherency(t, t.high.tip, e.ok)
      <3>1. t.high.tip \in Block /\ t.high.tip # GENESIS /\ t.high.qc_block = parent[t.high.tip]
        BY <2>3, <2>4, CertificateRounds
      <3>2. TreeInv(u, h) /\ u.high = t.high /\ Keeps(t, u, h)
        BY <2>1, <3>1, UpdateCoherencyKeeps
      <3> HIDE DEF u
      <3>3. u.root \in ancestors[parent[t.high.tip]]
        BY <2>1, <3>1, <3>2, HighExtendsRoot
      <3>4. t.high.tip # u.root
        BY <3>1, <3>3, ChainAssumption
      <3>5. TryPropose(s, e) = u
        BY <2>2, <2>4, <3>4 DEF u
      <3> QED
        BY <2>1, <3>2, <3>5, KeepsTransitive
    <2>5. CASE e.extend = "qc"
      <3> DEFINE u == UpdateCoherency(t, t.high.qc_block, e.ok)
      <3>1. t.high.qc_block \in Block
        BY <2>3, CertificateRounds
      <3>2. TreeInv(u, h) /\ u.high = t.high /\ Keeps(t, u, h)
        BY <2>1, <3>1, UpdateCoherencyKeeps
      <3> HIDE DEF u
      <3>3. u.root \in ancestors[t.high.qc_block] /\ u.root \in Block
        BY <2>1, <3>2, HighExtendsRoot
      <3>4. IsCoherent(u, t.high.qc_block) => HasPath(u, t.high.qc_block)
        <4>1. CASE t.high.qc_block = u.root
          BY <3>3, <4>1, PathSplit, AncestorOfAll DEF HasPath
        <4>2. CASE t.high.qc_block \in u.coherent
          BY <3>2, <3>3, <4>2 DEF TreeInv, CoherentPaths, HasPath
        <4> QED
          BY <4>1, <4>2 DEF IsCoherent
      <3>5. TryPropose(s, e) = u
        BY <2>2, <2>5, <3>4 DEF u
      <3> QED
        BY <2>1, <3>2, <3>5, KeepsTransitive
    <2>6. CASE ~(e.extend = "tip" /\ t.high.tip # NoTip) /\ e.extend # "qc"
      BY <2>1, <2>2, <2>6
    <2> QED
      BY <2>4, <2>5, <2>6
  <1> QED
    BY <1>1, <1>2

\* The process may be stopped for a state sync; nothing else changes.
LEMMA MaybeStateSyncKeeps ==
    ASSUME NEW s, NEW h, TreeInv(s, h)
    PROVE  LET t == MaybeStateSync(s) IN Keeps(s, t, h) /\ t.high = s.high /\ TreeInv(t, h)
  <1> DEFINE t == [s EXCEPT !.status = "statesync"]
  <1>1. MaybeStateSync(s) = s \/ MaybeStateSync(s) = t
    BY DEF MaybeStateSync
  <1>2. /\ t \in NodeState /\ t.root = s.root /\ t.high = s.high /\ t.requests = s.requests
        /\ t.tree = s.tree /\ t.children = s.children /\ t.coherent = s.coherent
        /\ t.committed = s.committed /\ t.status = "statesync"
    BY DEF TreeInv, NodeState
  <1> HIDE DEF t
  <1>3. AboveRoot(t) /\ ChildrenInTree(t) /\ ChildrenFound(t) /\ CoherentPaths(t)
    BY <1>2 DEF TreeInv, AboveRoot, ChildrenInTree, ChildrenFound, CoherentPaths
  <1>4. RootCertified(t, h) /\ HeadersSeen(t, h) /\ RequestsSeen(t, h)
    BY <1>2 DEF TreeInv, RootCertified, HeadersSeen, RequestsSeen
  <1>5. TreeInv(t, h)
    BY <1>2, <1>3, <1>4 DEF TreeInv
  <1>6. Missing(t) = Missing(s) /\ (NoneLeft(s) => NoneLeft(t))
    BY <1>2 DEF Missing, NoneLeft, HasPath
  <1> QED
    BY <1>1, <1>2, <1>5, <1>6 DEF Keeps

\* Requests are dropped, or certificate c, of round h, becomes the highest one.
LEMMA ReplaceInv ==
    ASSUME NEW s, NEW h, TreeInv(s, h), NEW R \in SUBSET s.requests, NEW c \in AllQCs \cup TC
    PROVE  LET t == [s EXCEPT !.requests = R]
               u == [s EXCEPT !.high = c]
           IN  /\ TreeInv(t, h) /\ t.high = s.high /\ (NoneLeft(s) => NoneLeft(t))
               /\ Missing(t) = Missing(s) /\ t.requests = R
               /\ TreeInv(u, h) /\ u.high = c /\ (NoneLeft(s) => NoneLeft(u))
  <1> DEFINE t == [s EXCEPT !.requests = R]
  <1> DEFINE u == [s EXCEPT !.high = c]
  <1>1. s \in NodeState /\ R \subseteq RequestType /\ c \in CertificateType
    BY CertificateTypes DEF TreeInv, NodeState
  <1>2. /\ t \in NodeState /\ t.root = s.root /\ t.high = s.high /\ t.requests = R
        /\ t.tree = s.tree /\ t.children = s.children /\ t.coherent = s.coherent
        /\ t.committed = s.committed /\ t.status = s.status
    BY <1>1 DEF NodeState
  <1>3. /\ u \in NodeState /\ u.root = s.root /\ u.high = c /\ u.requests = s.requests
        /\ u.tree = s.tree /\ u.children = s.children /\ u.coherent = s.coherent
        /\ u.committed = s.committed /\ u.status = s.status
    BY <1>1 DEF NodeState
  <1> HIDE DEF t, u
  <1>4. TreeInv(t, h)
    <2>1. AboveRoot(t) /\ ChildrenInTree(t) /\ ChildrenFound(t) /\ CoherentPaths(t)
      BY <1>2 DEF TreeInv, AboveRoot, ChildrenInTree, ChildrenFound, CoherentPaths
    <2>2. RootCertified(t, h) /\ HeadersSeen(t, h) /\ RequestsSeen(t, h)
      BY <1>2 DEF TreeInv, RootCertified, HeadersSeen, RequestsSeen
    <2> QED
      BY <1>2, <2>1, <2>2 DEF TreeInv
  <1>5. TreeInv(u, h)
    <2>1. AboveRoot(u) /\ ChildrenInTree(u) /\ ChildrenFound(u) /\ CoherentPaths(u)
      BY <1>3 DEF TreeInv, AboveRoot, ChildrenInTree, ChildrenFound, CoherentPaths
    <2>2. RootCertified(u, h) /\ HeadersSeen(u, h) /\ RequestsSeen(u, h)
      BY <1>3 DEF TreeInv, RootCertified, HeadersSeen, RequestsSeen
    <2> QED
      BY <1>3, <2>1, <2>2 DEF TreeInv
  <1>6. Missing(t) = Missing(s) /\ (NoneLeft(s) => NoneLeft(t)) /\ (NoneLeft(s) => NoneLeft(u))
    BY <1>2, <1>3 DEF Missing, NoneLeft, HasPath
  <1> QED
    BY <1>2, <1>3, <1>4, <1>5, <1>6 DEF t, u

\* Certificates of later rounds may be seen.
LEMMA TreeInvLater ==
    ASSUME NEW s, NEW h, TreeInv(s, h), NEW k \in Nat, h <= k
    PROVE  TreeInv(s, k)
  <1>1. \A x \in Block : qc_round[x] \in Nat
    BY ChainAssumption
  <1>2. \A q \in AllQCs : q.round \in Nat
    BY CertificateTypes DEF CertificateType
  <1>3. s.tree \subseteq Block /\ \A q \in s.requests : q.blocks \subseteq Block
    BY DEF TreeInv, NodeState, RequestType
  <1>4. RootCertified(s, k)
    BY <1>2 DEF TreeInv, RootCertified
  <1>5. HeadersSeen(s, k) /\ RequestsSeen(s, k)
    BY <1>1, <1>3 DEF TreeInv, HeadersSeen, RequestsSeen
  <1> QED
    BY <1>4, <1>5 DEF TreeInv

-----------------------------------------------------------------------------
(* Handlers.                                                               *)

\* What holds of the node whenever a handler ends.
NodeInv(s) ==
    /\ TreeInv(s, s.high.round)
    /\ NoneLeft(s)
    /\ s.high.round = s.high.qc_round => MissingRequested(s)

\* process_qc with a QC that verified.
LEMMA ProcessQCInv ==
    ASSUME NEW s, NodeInv(s), NEW c \in AllQCs, NEW e
    PROVE  LET t == ProcessQC(s, c, e) IN
           /\ NodeInv(t) /\ c.round <= t.high.round /\ s.high.round <= t.high.round
  <1>0. /\ s.high.round \in Nat /\ c.round \in Nat
    BY CertificateRounds DEF NodeInv, TreeInv
  <1>1. CASE c.round < CurrentRound(s)
    BY <1>0, <1>1 DEF ProcessQC, CurrentRound
  <1>2. CASE ~(c.round < CurrentRound(s))
    <2> DEFINE h == c.round
    <2> DEFINE t1 == TryCommit(s, c.round, c.qc_block)
    <2> DEFINE t2 == CancelObsolete(t1)
    <2> DEFINE t3 == MaybeStateSync(t2)
    <2> DEFINE t4 == [t3 EXCEPT !.high = c]
    <2> DEFINE t5 == RequestMissing(t4)
    <2>1. ProcessQC(s, c, e) = TryPropose(t5, e)
      BY <1>2 DEF ProcessQC
    <2>2. s.high.round <= h
      BY <1>0, <1>2 DEF CurrentRound
    <2>3. TreeInv(s, h) /\ NoneLeft(s)
      BY <1>0, <2>2, TreeInvLater DEF NodeInv
    <2>4. TreeInv(t1, h) /\ NoneLeft(t1)
      BY <1>0, <2>3, TryCommitKeeps DEF Keeps
    <2> HIDE DEF t1
    <2>5. TreeInv(t2, h) /\ NoneLeft(t2)
      <3> DEFINE R == {q \in t1.requests : q.cancel_round > block_round[t1.root]}
      <3>1. t2 = [t1 EXCEPT !.requests = R]
        BY <2>4 DEF CancelObsolete, TreeInv, NodeState
      <3>2. R \in SUBSET t1.requests
        OBVIOUS
      <3> HIDE DEF R, t2
      <3> QED
        BY <2>4, <3>1, <3>2, ReplaceInv
    <2> HIDE DEF t2
    <2>6. TreeInv(t3, h) /\ NoneLeft(t3)
      BY <2>5, MaybeStateSyncKeeps DEF Keeps
    <2> HIDE DEF t3
    <2>7. TreeInv(t4, h) /\ NoneLeft(t4) /\ t4.high = c
      BY <2>6, ReplaceInv
    <2> HIDE DEF t4
    <2>8. Keeps(t4, t5, h) /\ MissingRequested(t5) /\ t5.high = c
      BY <2>7, RequestMissingKeeps
    <2> HIDE DEF t5
    <2>9. TreeInv(t5, t5.high.round) /\ NoneLeft(t5)
      BY <2>7, <2>8 DEF Keeps
    <2> DEFINE t6 == TryPropose(t5, e)
    <2>10. Keeps(t5, t6, h) /\ t6.high = c
      BY <2>8, <2>9, TryProposeKeeps
    <2>11. MissingRequested(t6)
      BY <2>8, <2>10, KeepsRequested
    <2> HIDE DEF t6
    <2>12. NodeInv(t6)
      BY <2>9, <2>10, <2>11 DEF NodeInv, Keeps
    <2> QED
      BY <1>0, <2>1, <2>2, <2>10, <2>12 DEF t6
  <1> QED
    BY <1>1, <1>2

\* process_tc with a TC that verified.
LEMMA ProcessTCInv ==
    ASSUME NEW s, NodeInv(s), NEW c \in TC, NEW e
    PROVE  LET t == ProcessTC(s, c, e) IN
           /\ NodeInv(t) /\ c.round <= t.high.round /\ s.high.round <= t.high.round
  <1>0. /\ s.high.round \in Nat /\ c.round \in Nat /\ c.qc_round < c.round /\ c.qc_round \in Nat
    BY CertificateRounds DEF NodeInv, TreeInv
  <1>1. CASE c.round < CurrentRound(s)
    BY <1>0, <1>1 DEF ProcessTC, CurrentRound
  <1>2. CASE ~(c.round < CurrentRound(s))
    <2> DEFINE t == [s EXCEPT !.high = c]
    <2> DEFINE u == TryPropose(t, e)
    <2>1. ProcessTC(s, c, e) = u
      BY <1>2 DEF ProcessTC
    <2>2. s.high.round <= c.round
      BY <1>0, <1>2 DEF CurrentRound
    <2>3. TreeInv(s, c.round) /\ NoneLeft(s)
      BY <1>0, <2>2, TreeInvLater DEF NodeInv
    <2>4. TreeInv(t, c.round) /\ NoneLeft(t) /\ t.high = c
      BY <2>3, ReplaceInv
    <2> HIDE DEF t
    <2>5. Keeps(t, u, c.round) /\ u.high = c
      BY <2>4, TryProposeKeeps
    <2> HIDE DEF u
    <2> QED
      BY <1>0, <2>1, <2>2, <2>4, <2>5 DEF NodeInv, Keeps
  <1> QED
    BY <1>1, <1>2

\* try_add_and_commit_blocktree of a block whose header has been seen.
LEMMA AddAndCommitInv ==
    ASSUME NEW s, NodeInv(s), NEW b \in Block, qc_round[b] <= s.high.round, NEW e
    PROVE  LET t == AddAndCommit(s, b, e) IN
           /\ NodeInv(t) /\ t.high = s.high
           /\ Missing(t) \subseteq Missing(Add(s, b))
  <1> DEFINE h == s.high.round
  <1> DEFINE a == Add(s, b)
  <1> DEFINE t1 == UpdateCoherency(a, b, e.ok)
  <1> DEFINE t2 == TryPropose(t1, e)
  <1> DEFINE t3 == MaybeStateSync(t2)
  <1> DEFINE t4 == RequestMissing(t3)
  <1>1. AddAndCommit(s, b, e) = t4
    BY DEF AddAndCommit
  <1>2. TreeInv(a, h) /\ a.high = s.high
    BY AddInv DEF NodeInv
  <1> HIDE DEF a
  <1>3. TreeInv(t1, h) /\ NoneLeft(t1) /\ t1.high = s.high /\ Keeps(a, t1, h)
    BY <1>2, UpdateCoherencyKeeps
  <1> HIDE DEF t1
  <1>4. Keeps(t1, t2, h) /\ t2.high = s.high /\ TreeInv(t2, h)
    BY <1>3, TryProposeKeeps DEF Keeps
  <1> HIDE DEF t2
  <1>5. Keeps(t2, t3, h) /\ t3.high = s.high /\ TreeInv(t3, h)
    BY <1>4, MaybeStateSyncKeeps
  <1> HIDE DEF t3
  <1>6. Keeps(t3, t4, h) /\ t4.high = s.high /\ MissingRequested(t4)
    BY <1>5, RequestMissingKeeps
  <1> HIDE DEF t4
  <1>7. Keeps(t1, t4, h) /\ Keeps(a, t4, h)
    BY <1>3, <1>4, <1>5, <1>6, KeepsTransitive
  <1>8. NodeInv(t4)
    BY <1>3, <1>6, <1>7 DEF NodeInv, Keeps
  <1> QED
    BY <1>1, <1>2, <1>6, <1>7, <1>8 DEF Keeps, a

\* What is missing may be added: it is not in the tree, above the root and on the
\* chain of the highest QC.
LEMMA MissingMayBeAdded ==
    ASSUME NEW s, TreeInv(s, s.high.round), NEW x \in Missing(s)
    PROVE  /\ x \in Block /\ x \in ancestors[s.high.qc_block]
           /\ IsValidToInsert(s, x)
  <1> DEFINE unknown == ancestors[s.high.qc_block] \ s.tree
  <1>1. PICK n \in unknown : unknown \subseteq ancestors[n]
    BY MissingIsNewest
  <1>2. Missing(s) = IF block_round[s.root] >= s.high.qc_round THEN {} ELSE {n} \ {s.root}
    BY <1>1, MissingIsNewest
  <1>3. x = n /\ x # s.root
    BY <1>2
  <1>4. x \in Block /\ s.root \in ancestors[x] /\ s.root \in Block
    BY <1>1, <1>3, HighExtendsRoot, AncestorOfAll
  <1>5. block_round[s.root] < block_round[x]
    BY <1>3, <1>4, AncestorRound
  <1>6. block_round[s.root] \in Nat /\ block_round[x] \in Nat
    BY <1>4, ChainAssumption
  <1> QED
    BY <1>1, <1>3, <1>4, <1>5, <1>6 DEF IsValidToInsert

\* Remembering that a proposal was handled changes nothing else.
LEMMA HandledInv ==
    ASSUME NEW s, NodeInv(s), NEW r \in Nat
    PROVE  LET t == [s EXCEPT !.handled = s.handled \cup {r}] IN NodeInv(t) /\ t.high = s.high
  <1> DEFINE t == [s EXCEPT !.handled = s.handled \cup {r}]
  <1> DEFINE h == s.high.round
  <1>1. TreeInv(s, h) /\ NoneLeft(s) /\ (h = s.high.qc_round => MissingRequested(s))
    BY DEF NodeInv
  <1>2. /\ t \in NodeState /\ t.root = s.root /\ t.high = s.high /\ t.requests = s.requests
        /\ t.tree = s.tree /\ t.children = s.children /\ t.coherent = s.coherent
        /\ t.committed = s.committed /\ t.status = s.status
    BY <1>1 DEF TreeInv, NodeState
  <1> HIDE DEF t
  <1>3. AboveRoot(t) /\ ChildrenInTree(t) /\ ChildrenFound(t) /\ CoherentPaths(t)
    BY <1>1, <1>2 DEF TreeInv, AboveRoot, ChildrenInTree, ChildrenFound, CoherentPaths
  <1>4. RootCertified(t, h) /\ HeadersSeen(t, h) /\ RequestsSeen(t, h)
    BY <1>1, <1>2 DEF TreeInv, RootCertified, HeadersSeen, RequestsSeen
  <1>5. TreeInv(t, h)
    BY <1>1, <1>2, <1>3, <1>4 DEF TreeInv
  <1>6. Missing(t) = Missing(s) /\ NoneLeft(t)
    BY <1>1, <1>2 DEF Missing, NoneLeft, HasPath
  <1>7. MissingRequested(s) => MissingRequested(t)
    BY <1>2, <1>6 DEF MissingRequested, Requested
  <1> QED
    BY <1>1, <1>2, <1>5, <1>6, <1>7 DEF NodeInv, t

\* The state in which a node starts.
LEMMA StartInv ==
    ASSUME NEW c \in AllQCs \cup TC
    PROVE  NodeInv(RequestMissing(Start(c)))
  <1> DEFINE s == Start(c)
  <1> DEFINE t == RequestMissing(s)
  <1>1. /\ s.root = GENESIS /\ s.high = c /\ s.requests = {}
        /\ s.tree = {} /\ s.coherent = {} /\ s.committed = {GENESIS} /\ s.status = "live"
        /\ \A b \in Block : s.children[b] = {}
    BY DEF Start
  <1>2. c \in CertificateType /\ c.round \in Nat
    BY CertificateTypes, CertificateRounds
  <1>3. s \in NodeState
    BY <1>2, ChainAssumption DEF Start, NodeState
  <1> HIDE DEF s
  <1>4. AboveRoot(s) /\ ChildrenInTree(s) /\ ChildrenFound(s) /\ CoherentPaths(s)
    BY <1>1 DEF AboveRoot, ChildrenInTree, ChildrenFound, CoherentPaths
  <1>5. RootCertified(s, c.round) /\ HeadersSeen(s, c.round) /\ RequestsSeen(s, c.round)
    BY <1>1 DEF RootCertified, HeadersSeen, RequestsSeen
  <1>6. s.committed = ancestors[s.root]
    BY <1>1, ChainAssumption
  <1>7. TreeInv(s, s.high.round) /\ NoneLeft(s)
    BY <1>1, <1>2, <1>3, <1>4, <1>5, <1>6 DEF TreeInv, NoneLeft
  <1>8. Keeps(s, t, s.high.round) /\ MissingRequested(t) /\ t.high = s.high
    BY <1>7, RequestMissingKeeps
  <1> HIDE DEF t
  <1>9. NodeInv(t)
    BY <1>7, <1>8 DEF NodeInv, Keeps
  <1> QED
    BY <1>9 DEF s, t

-----------------------------------------------------------------------------
(* The specification.                                                      *)

\* The blocks of the response that handle_block_sync is working on: the one that was
\* asked for is the last of them, and the QCs in their headers have been seen.
SyncInv ==
    sync # Idle =>
        /\ sync = [id |-> sync.id, rest |-> sync.rest]
        /\ sync.id \in Block /\ sync.id \in sync.rest
        /\ \A x \in sync.rest : x \in ancestors[sync.id] /\ qc_round[x] <= node.high.round

\* The inductive invariant.
IInv == NodeInv(node) /\ SyncInv

\* handle_proposal_message: the certificates, then the block.
LEMMA HandleProposalInv ==
    ASSUME NodeInv(node), NEW p \in Proposal, HandleProposal(p)
    PROVE  NodeInv(node)'
  <1> DEFINE b == p.block
  <1>1. b \in Block /\ b # GENESIS /\ p.round \in Nat /\ (p.tc # NoTC => p.tc \in TC)
    <2>1. \A x \in Block : qc_round[x] + 1 \in Nat
      BY ChainAssumption
    <2>2. \A x \in TC : x.round + 1 \in Nat
      BY CertificateTypes DEF CertificateType
    <2> QED
      BY <2>1, <2>2 DEF Proposal
  <1>2. PICK from_leader \in BOOLEAN, e \in Env(node, {b}) :
        LET s == ProcessQC(node, HeaderQC(b), e)
            t == IF p.tc = NoTC THEN s ELSE ProcessTC(s, p.tc, e)
            u == [t EXCEPT !.handled = @ \cup {p.round}]
        IN  node' = IF p.round > CurrentRound(t) \/ ~from_leader \/ p.round \in t.handled THEN t
                    ELSE IF b \in Invalid THEN u
                    ELSE AddAndCommit(u, b, e)
    BY DEF HandleProposal
  <1> DEFINE s == ProcessQC(node, HeaderQC(b), e)
  <1> DEFINE t == IF p.tc = NoTC THEN s ELSE ProcessTC(s, p.tc, e)
  <1> DEFINE u == [t EXCEPT !.handled = t.handled \cup {p.round}]
  <1>3. HeaderQC(b) \in AllQCs /\ HeaderQC(b).round = qc_round[b]
    BY <1>1, HeaderRounds DEF HeaderQC
  <1>4. NodeInv(s) /\ qc_round[b] <= s.high.round
    <2> DEFINE c == HeaderQC(b)
    <2> HIDE DEF c
    <2>1. c \in AllQCs /\ c.round = qc_round[b]
      BY <1>3 DEF c
    <2>2. LET w == ProcessQC(node, c, e) IN NodeInv(w) /\ c.round <= w.high.round
      BY <2>1, ProcessQCInv
    <2> QED
      BY <2>1, <2>2 DEF c
  <1>5. node' = t \/ node' = u \/ node' = AddAndCommit(u, b, e)
    <2>1. t \in NodeState => u = [t EXCEPT !.handled = @ \cup {p.round}]
      BY DEF NodeState
    <2> QED
      BY <1>2
  <1> HIDE DEF s
  <1>6. NodeInv(t) /\ qc_round[b] <= t.high.round
    <2>1. CASE p.tc = NoTC
      BY <1>4, <2>1
    <2>2. CASE p.tc # NoTC
      <3>1. NodeInv(t) /\ s.high.round <= t.high.round
        BY <1>1, <1>4, <2>2, ProcessTCInv
      <3>2. s.high.round \in Nat /\ t.high.round \in Nat /\ qc_round[b] \in Nat
        BY <1>1, <1>4, <3>1, CertificateRounds, ChainAssumption DEF NodeInv, TreeInv
      <3> HIDE DEF t
      <3> QED
        BY <1>4, <3>1, <3>2
    <2> QED
      BY <2>1, <2>2
  <1> HIDE DEF t
  <1>7. NodeInv(u) /\ u.high = t.high
    BY <1>1, <1>6, HandledInv
  <1> HIDE DEF u
  <1>8. NodeInv(AddAndCommit(u, b, e))
    BY <1>1, <1>6, <1>7, AddAndCommitInv
  <1> QED
    BY <1>5, <1>6, <1>7, <1>8

\* One block of a block sync response.  When the last one is done, or one is
\* refused, the request is removed: by then it is not needed any more.
LEMMA AddSyncedInv ==
    ASSUME IInv, sync # Idle, AddSynced
    PROVE  IInv'
  <1> DEFINE id == sync.id
  <1>1. PICK b \in sync.rest : \E e \in Env(node, {b}) :
        LET refused == IsValidToInsert(node, b) /\ b \in Invalid
            s       == IF IsValidToInsert(node, b) /\ ~refused
                       THEN AddAndCommit(node, b, e) ELSE node
            rest    == IF refused THEN {} ELSE sync.rest \ {b}
        IN  /\ \A x \in sync.rest : b \in ancestors[x]
            /\ IF rest = {}
               THEN /\ sync' = Idle
                    /\ node' = [s EXCEPT !.requests = {q \in @ : q.id # sync.id}]
               ELSE sync' = [sync EXCEPT !.rest = rest] /\ node' = s
    BY DEF AddSynced
  <1>2. PICK e \in Env(node, {b}) :
        LET refused == IsValidToInsert(node, b) /\ b \in Invalid
            s       == IF IsValidToInsert(node, b) /\ ~refused
                       THEN AddAndCommit(node, b, e) ELSE node
            rest    == IF refused THEN {} ELSE sync.rest \ {b}
        IN  /\ \A x \in sync.rest : b \in ancestors[x]
            /\ IF rest = {}
               THEN /\ sync' = Idle
                    /\ node' = [s EXCEPT !.requests = {q \in @ : q.id # sync.id}]
               ELSE sync' = [sync EXCEPT !.rest = rest] /\ node' = s
    BY <1>1
  <1> DEFINE refused == IsValidToInsert(node, b) /\ b \in Invalid
  <1> DEFINE s == IF IsValidToInsert(node, b) /\ ~refused THEN AddAndCommit(node, b, e) ELSE node
  <1> DEFINE rest == IF refused THEN {} ELSE sync.rest \ {b}
  <1> DEFINE R == {q \in s.requests : q.id # id}
  <1>3. /\ rest = {} => sync' = Idle /\ node' = [s EXCEPT !.requests = R]
        /\ rest # {} => sync' = [sync EXCEPT !.rest = rest] /\ node' = s
        /\ b \in ancestors[id]
    <2>1. id \in sync.rest
      BY DEF IInv, SyncInv
    <2> QED
      BY <1>2, <2>1
  <1>4. /\ sync = [id |-> id, rest |-> sync.rest] /\ id \in Block /\ id \in sync.rest
        /\ \A x \in sync.rest : x \in ancestors[id] /\ qc_round[x] <= node.high.round
        /\ NodeInv(node) /\ TreeInv(node, node.high.round)
    BY DEF IInv, SyncInv, NodeInv
  <1>5. b \in Block /\ qc_round[b] <= node.high.round
    BY <1>4, AncestorOfAll
  <1>6. CASE rest # {}
    <2>1. /\ sync' = [id |-> id, rest |-> rest] /\ node' = s /\ rest = sync.rest \ {b}
      BY <1>3, <1>4, <1>6
    <2>2. NodeInv(s) /\ s.high = node.high
      BY <1>4, <1>5, AddAndCommitInv
    <2>3. id \in rest
      <3> SUFFICES ASSUME id = b PROVE FALSE
        BY <1>4, <2>1
      <3>1. PICK x \in rest : x \in sync.rest /\ x # id
        BY <1>6, <2>1
      <3>2. x \in ancestors[id] /\ id \in ancestors[x] /\ x \in Block
        BY <1>2, <1>4, <3>1, AncestorOfAll
      <3> QED
        BY <1>4, <3>1, <3>2, AncestorRound
    <2> HIDE DEF s
    <2>4. SyncInv'
      BY <1>4, <2>1, <2>2, <2>3 DEF SyncInv
    <2> QED
      BY <2>1, <2>2, <2>4 DEF IInv
  <1>7. CASE rest = {}
    <2> DEFINE t == [s EXCEPT !.requests = R]
    <2>1. sync' = Idle /\ node' = t
      BY <1>3, <1>7
    <2>2. NodeInv(s) /\ s.high = node.high
      BY <1>4, <1>5, AddAndCommitInv
    <2>3. id \notin Missing(s)
      <3>1. CASE refused
        <4>1. s = node
          BY <3>1
        <4> SUFFICES ASSUME id \in Missing(node) PROVE FALSE
          BY <4>1
        <4>2. id \in ancestors[node.high.qc_block] /\ node.high \in AllQCs \cup TC
          BY <1>4, MissingMayBeAdded DEF TreeInv
        <4>3. b \in ancestors[node.high.qc_block]
          BY <1>3, <4>2, CertificateRounds, AncestorTransitive
        <4> QED
          BY <3>1, <4>2, <4>3, CertificateRounds
      <3>2. CASE ~refused /\ ~IsValidToInsert(node, b)
        <4>1. s = node /\ b = id
          BY <1>4, <1>7, <3>2
        <4> QED
          BY <1>4, <3>2, <4>1, MissingMayBeAdded
      <3>3. CASE ~refused /\ IsValidToInsert(node, b)
        <4>1. s = AddAndCommit(node, b, e) /\ b = id
          BY <1>4, <1>7, <3>3
        <4>2. Missing(s) \subseteq Missing(Add(node, b))
          BY <1>4, <1>5, <4>1, AddAndCommitInv
        <4>3. TreeInv(Add(node, b), node.high.round) /\ Add(node, b).high = node.high /\ b \in Add(node, b).tree
          BY <1>4, <1>5, <3>3, AddInv
        <4>4. b \notin Missing(Add(node, b))
          BY <4>3, MissingMayBeAdded DEF IsValidToInsert
        <4> QED
          BY <4>1, <4>2, <4>4
      <3> QED
        BY <3>1, <3>2, <3>3
    <2> HIDE DEF s
    <2>4. R \in SUBSET s.requests /\ TreeInv(s, s.high.round) /\ s.high \in AllQCs \cup TC
      BY <2>2 DEF NodeInv, TreeInv
    <2>5. /\ TreeInv(t, s.high.round) /\ t.high = s.high /\ (NoneLeft(s) => NoneLeft(t))
          /\ Missing(t) = Missing(s) /\ t.requests = R
      <3> DEFINE c == s.high
      <3> DEFINE h == s.high.round
      <3>1. TreeInv(s, h) /\ c \in AllQCs \cup TC /\ R \in SUBSET s.requests
        BY <2>4
      <3> HIDE DEF R, c, h
      <3>2. LET v == [s EXCEPT !.requests = R] IN
            /\ TreeInv(v, h) /\ v.high = s.high /\ (NoneLeft(s) => NoneLeft(v))
            /\ Missing(v) = Missing(s) /\ v.requests = R
        BY <3>1, ReplaceInv
      <3> QED BY <3>2 DEF h
    <2> HIDE DEF t
    <2>6. MissingRequested(s) => MissingRequested(t)
      BY <2>3, <2>5 DEF MissingRequested, Requested
    <2>7. NodeInv(t)
      BY <2>2, <2>5, <2>6 DEF NodeInv
    <2> QED
      BY <2>1, <2>7 DEF IInv, SyncInv
  <1> QED
    BY <1>6, <1>7

\* The invariant holds when the node starts and after every handler.
THEOREM InductiveInvariant == Spec => []IInv
  <1>1. Init => IInv
    <2>1. {GenesisQC} \cup QC \cup TC \subseteq AllQCs \cup TC
      BY DEF AllQCs
    <2> QED
      BY <2>1, StartInv DEF Init, IInv, SyncInv
  <1>2. IInv /\ [Next]_vars => IInv'
    <2> SUFFICES ASSUME IInv, [Next]_vars PROVE IInv'
      OBVIOUS
    <2>1. NodeInv(node) /\ TreeInv(node, node.high.round)
      BY DEF IInv, NodeInv
    <2>2. CASE sync = Idle /\ \E p \in Proposal : HandleProposal(p)
      <3>1. PICK p \in Proposal : HandleProposal(p)
        BY <2>2
      <3>2. NodeInv(node)'
        BY <2>1, <3>1, HandleProposalInv
      <3>3. sync' = Idle
        BY <2>2, <3>1 DEF HandleProposal
      <3> QED
        BY <3>2, <3>3 DEF IInv, SyncInv
    <2>3. CASE sync = Idle /\ \E c \in QC : HandleQC(c)
      <3>1. PICK c \in QC, e \in Env(node, {}) : node' = ProcessQC(node, c, e) /\ sync' = sync
        BY <2>3 DEF HandleQC
      <3>2. c \in AllQCs
        BY DEF AllQCs
      <3>3. NodeInv(node')
        BY <2>1, <3>1, <3>2, ProcessQCInv
      <3> QED
        BY <2>3, <3>1, <3>3 DEF IInv, SyncInv
    <2>4. CASE sync = Idle /\ \E c \in TC : HandleTC(c)
      <3>1. PICK c \in TC, e \in Env(node, {}) : node' = ProcessTC(node, c, e) /\ sync' = sync
        BY <2>4 DEF HandleTC
      <3>2. NodeInv(node')
        BY <2>1, <3>1, ProcessTCInv
      <3> QED
        BY <2>4, <3>1, <3>2 DEF IInv, SyncInv
    <2>5. CASE sync = Idle /\ HandleNEC
      <3>1. PICK e : node' = TryPropose(node, e) /\ sync' = sync
        BY <2>5 DEF HandleNEC
      <3>2. Keeps(node, node', node.high.round)
        BY <2>1, <3>1, TryProposeKeeps
      <3>3. MissingRequested(node) => MissingRequested(node')
        BY <3>2, KeepsRequested
      <3>4. NodeInv(node')
        BY <2>1, <3>2, <3>3 DEF NodeInv, Keeps
      <3> QED
        BY <2>5, <3>1, <3>4 DEF IInv, SyncInv
    <2>6. CASE sync = Idle /\ \E q \in node.requests : HandleBlockSync(q)
      <3>1. PICK q \in node.requests : sync' = [id |-> q.id, rest |-> q.blocks] /\ node' = node
        BY <2>6 DEF HandleBlockSync
      <3>2. /\ q.id \in Block /\ q.id \in q.blocks
            /\ \A x \in q.blocks : x \in ancestors[q.id] /\ qc_round[x] <= node.high.round
        BY <2>1 DEF TreeInv, NodeState, RequestType, RequestsSeen
      <3> QED
        BY <2>1, <3>1, <3>2 DEF IInv, SyncInv
    <2>7. CASE sync # Idle /\ AddSynced
      BY <2>7, AddSyncedInv
    <2>8. CASE UNCHANGED vars
      BY <2>8 DEF vars, IInv, SyncInv
    <2> QED
      BY <2>2, <2>3, <2>4, <2>5, <2>6, <2>7, <2>8 DEF Next
  <1> QED
    BY <1>1, <1>2, PTL DEF Spec

\* No expect or assert of the tree and of the handlers around it fails, whatever
\* the order in which blocks, certificates and execution results come.
THEOREM TreeNeverPanics == Spec => []NeverPanics
  <1>1. IInv => NeverPanics
    BY DEF IInv, NodeInv, TreeInv, NeverPanics
  <1> QED
    BY <1>1, InductiveInvariant, PTL

\* What is finalized is one chain without a gap, and nothing of it comes back.
THEOREM FinalizedIsChain == Spec => []FinalizedChain
  <1>1. IInv => FinalizedChain
    <2> SUFFICES ASSUME IInv, NEW x \in ancestors[node.root], x \in node.tree
                 PROVE  FALSE
      BY DEF IInv, NodeInv, TreeInv, FinalizedChain
    <2>1. AboveRoot(node) /\ node.root \in Block
      BY DEF IInv, NodeInv, TreeInv, NodeState
    <2> QED
      BY <2>1, AncestorRound DEF AboveRoot
  <1> QED
    BY <1>1, InductiveInvariant, PTL

\* Whatever order the blocks come in, none that could be committed is left.
THEOREM CommittableIsCommitted == Spec => []NothingCommittableLeft
  <1>1. IInv => NothingCommittableLeft
    BY DEF IInv, NodeInv, NoneLeft, NothingCommittableLeft
  <1> QED
    BY <1>1, InductiveInvariant, PTL

\* What is missing under the highest QC has been requested.
THEOREM MissingStaysRequested == Spec => []GapRequested
  <1>1. IInv => GapRequested
    BY DEF IInv, NodeInv, MissingRequested, GapRequested
  <1> QED
    BY <1>1, InductiveInvariant, PTL
=============================================================================
