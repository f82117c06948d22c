---------------------------- MODULE BranchTheorems ----------------------------
(***************************************************************************)
(* What Branch, ForkPoint and TraceBack of BlockIndex guarantee on every    *)
(* tree of blocks.  Branch is the least down-closed set, so a fact about   *)
(* all of a branch is proved by exhibiting a down-closed set inside it.    *)
(* At the end, sums over finite sets: what SumFunction returns for a union, *)
(* a difference, a family of sets and a renaming, each by a smallest set   *)
(* for which it would fail.                                                *)
(***************************************************************************)
EXTENDS BlockIndex, FiniteSetsExt, FiniteSetTheorems, WellFoundedInduction, TLAPS

(* A branch is a set of blocks that contains the block it ends in and is    *)
(* closed under pprev, as a walk down pprev pointers is.                   *)
LEMMA BranchClosed ==
    ASSUME NEW b \in Block
    PROVE  /\ Branch[b] \subseteq Block
           /\ b \in Branch[b]
           /\ DownClosed(Branch[b])
BY TreeAssumption DEF Branch, DownClosed

(* Nothing is in a branch that such a walk does not visit.                  *)
LEMMA BranchLeast ==
    ASSUME NEW b \in Block, NEW S \in SUBSET Block, b \in S, DownClosed(S)
    PROVE  Branch[b] \subseteq S
BY DEF Branch

(* The branch of a block of a branch is part of it.                         *)
LEMMA BranchTransitive ==
    ASSUME NEW b \in Block, NEW a \in Branch[b]
    PROVE  Branch[a] \subseteq Branch[b]
<1>1. Branch[b] \in SUBSET Block /\ DownClosed(Branch[b]) /\ a \in Block
  BY BranchClosed
<1>2. QED
  BY <1>1, BranchLeast

(* A branch is its last block and the branch of the block before it.        *)
LEMMA BranchStep ==
    ASSUME NEW b \in Block \ {Genesis}
    PROVE  /\ pprev[b] \in Block
           /\ Branch[b] = {b} \cup Branch[pprev[b]]
<1>1. pprev[b] \in Block
  BY TreeAssumption
<1>2. pprev[b] \in Branch[b]
  BY <1>1, BranchClosed, TreeAssumption DEF DownClosed
<1>3. Branch[pprev[b]] \subseteq Branch[b]
  BY <1>2, BranchTransitive
<1>4. DownClosed({b} \cup Branch[pprev[b]])
  BY <1>1, BranchClosed DEF DownClosed
<1>5. Branch[b] \subseteq {b} \cup Branch[pprev[b]]
  BY <1>1, <1>4, BranchClosed, BranchLeast
<1>6. QED
  BY <1>1, <1>3, <1>5, BranchClosed

\* The branch of genesis is genesis.
LEMMA BranchGenesis == Branch[Genesis] = {Genesis}
<1>1. Genesis \in Block /\ DownClosed({Genesis})
  BY TreeAssumption DEF DownClosed
<1>2. QED
  BY <1>1, BranchLeast, BranchClosed

(* Below the block a branch ends in, every block is strictly lower.         *)
LEMMA BranchHeight ==
    ASSUME NEW b \in Block, NEW a \in Branch[b]
    PROVE  /\ nHeight[a] <= nHeight[b]
           /\ a # b => nHeight[a] < nHeight[b]
<1> DEFINE S == {b} \cup {c \in Block : nHeight[c] < nHeight[b]}
<1>1. S \in SUBSET Block /\ b \in S
  OBVIOUS
<1>2. DownClosed(S)
  BY TreeAssumption DEF DownClosed
<1>3. a \in S
  BY <1>1, <1>2, BranchLeast
<1>4. QED
  BY <1>3, TreeAssumption

(* The trust accumulated along a branch only grows.                         *)
LEMMA BranchTrust ==
    ASSUME NEW b \in Block, NEW a \in Branch[b]
    PROVE  nChainTrust[a] <= nChainTrust[b]
<1> DEFINE S == {c \in Block : nChainTrust[c] <= nChainTrust[b]}
<1>1. S \in SUBSET Block /\ b \in S
  BY TreeAssumption
<1>2. DownClosed(S)
  BY TreeAssumption DEF DownClosed
<1>3. QED
  BY <1>1, <1>2, BranchLeast

-----------------------------------------------------------------------------
\* Every non-empty set of blocks has a lowest one.
LEMMA LowestBlock ==
    ASSUME NEW S \in SUBSET Block, S # {}
    PROVE  \E a \in S : \A c \in S : nHeight[a] <= nHeight[c]
<1> DEFINE H == {nHeight[c] : c \in S}
<1>1. H \in SUBSET Nat /\ H # {}
  BY TreeAssumption
<1>2. IsWellFoundedOn(OpToRel(<, Nat), Nat)
  BY NatLessThanWellFounded
<1>3. PICK h \in H : \A k \in H : ~ (<<k, h>> \in OpToRel(<, Nat))
  BY <1>1, <1>2, WFMin
<1>4. \A k \in H : ~ (k < h)
  BY <1>1, <1>3 DEF OpToRel
<1>5. PICK a \in S : nHeight[a] = h
  OBVIOUS
<1>6. \A c \in S : nHeight[c] \in H /\ nHeight[c] \in Nat /\ h \in Nat
  BY <1>1
<1>7. \A c \in S : nHeight[a] <= nHeight[c]
  <2> HIDE DEF H
  <2>1. QED
    BY <1>4, <1>5, <1>6
<1>8. QED
  BY <1>7

\* And one with a bounded height has a highest.
LEMMA HighestBlock ==
    ASSUME NEW b \in Block, NEW S \in SUBSET Branch[b], S # {}
    PROVE  \E a \in S : \A c \in S : nHeight[c] <= nHeight[a]
<1> DEFINE D == {nHeight[b] - nHeight[c] : c \in S}
<1>1. \A c \in S : nHeight[b] - nHeight[c] \in Nat /\ nHeight[c] \in Nat
  BY BranchClosed, BranchHeight, TreeAssumption
<1>2. D \in SUBSET Nat /\ D # {}
  BY <1>1
<1>3. IsWellFoundedOn(OpToRel(<, Nat), Nat)
  BY NatLessThanWellFounded
<1>4. PICK h \in D : \A k \in D : ~ (<<k, h>> \in OpToRel(<, Nat))
  BY <1>2, <1>3, WFMin
<1>5. \A k \in D : ~ (k < h)
  BY <1>2, <1>4 DEF OpToRel
<1>6. PICK a \in S : nHeight[b] - nHeight[a] = h
  OBVIOUS
<1>7. \A c \in S : nHeight[b] - nHeight[c] \in D
  OBVIOUS
<1>8. \A c \in S : nHeight[c] <= nHeight[a]
  <2> HIDE DEF D
  <2>1. nHeight[b] \in Nat
    BY TreeAssumption
  <2>2. QED
    BY <1>1, <1>5, <1>6, <1>7, <2>1
<1>9. QED
  BY <1>8

\* Every branch goes down to genesis.
LEMMA BranchRoot ==
    ASSUME NEW b \in Block
    PROVE  Genesis \in Branch[b] /\ nHeight[Genesis] <= nHeight[b]
<1>1. Branch[b] \in SUBSET Block /\ Branch[b] # {}
  BY BranchClosed
<1>2. PICK a \in Branch[b] : \A c \in Branch[b] : nHeight[a] <= nHeight[c]
  BY <1>1, LowestBlock
<1>3. CASE a = Genesis
  BY <1>1, <1>2, <1>3, BranchClosed
<1>4. CASE a # Genesis
  <2>1. pprev[a] \in Branch[b]
    BY <1>1, <1>4, BranchClosed, TreeAssumption DEF DownClosed
  <2>2. nHeight[a] = nHeight[pprev[a]] + 1 /\ nHeight[pprev[a]] \in Nat
    BY <1>1, <1>4, <2>1, TreeAssumption
  <2>3. QED
    BY <1>2, <2>1, <2>2
<1>5. QED
  BY <1>3, <1>4

(* Of two blocks of one branch the lower is on the branch of the higher.    *)
LEMMA BranchOrdered ==
    ASSUME NEW b \in Block, NEW a \in Branch[b], NEW c \in Branch[b],
           nHeight[a] <= nHeight[c]
    PROVE  a \in Branch[c]
<1> DEFINE S == {d \in Branch[b] : d \in Branch[c] \/ c \in Branch[d]}
<1>1. S \in SUBSET Block /\ a \in Block /\ c \in Block
  BY BranchClosed
<1>2. b \in S
  BY BranchClosed
<1>3. DownClosed(S)
  <2> SUFFICES ASSUME NEW d \in S, pprev[d] # NoBlock
               PROVE  pprev[d] \in S
    BY DEF DownClosed
  <2>1. d \in Block \ {Genesis}
    BY <1>1, TreeAssumption
  <2>2. pprev[d] \in Branch[b]
    BY <1>1, BranchClosed DEF DownClosed
  <2>3. CASE d \in Branch[c]
    BY <1>1, <2>2, <2>3, BranchClosed DEF DownClosed
  <2>4. CASE c \in Branch[d] /\ c # d
    BY <2>1, <2>2, <2>4, BranchStep
  <2>5. CASE c = d
    BY <1>1, <2>2, <2>5, BranchClosed DEF DownClosed
  <2>6. QED
    BY <2>3, <2>4, <2>5
<1>4. a \in S
  BY <1>1, <1>2, <1>3, BranchLeast
<1>5. CASE a \in Branch[c]
  BY <1>5
<1>6. CASE c \in Branch[a]
  <2>1. c # a => nHeight[c] < nHeight[a]
    BY <1>1, <1>6, BranchHeight
  <2>2. c = a
    BY <1>1, <2>1, TreeAssumption
  <2>3. QED
    BY <1>1, <2>2, BranchClosed
<1>7. QED
  BY <1>4, <1>5, <1>6

(* So two blocks at one height of one branch are equal.                     *)
LEMMA BranchSameHeight ==
    ASSUME NEW b \in Block, NEW a \in Branch[b], NEW c \in Branch[b],
           nHeight[a] = nHeight[c]
    PROVE  a = c
<1>1. a \in Block /\ c \in Block /\ a \in Branch[c]
  BY BranchClosed, BranchOrdered, TreeAssumption
<1>2. QED
  BY <1>1, BranchHeight, TreeAssumption

-----------------------------------------------------------------------------
(* Tracing back finds the one block of the branch at the height asked for.  *)
LEMMA TraceBackFinds ==
    ASSUME NEW b \in Block, NEW h \in Nat,
           nHeight[Genesis] <= h, h <= nHeight[b]
    PROVE  TraceBack(b, h) \in Branch[b] /\ nHeight[TraceBack(b, h)] = h
<1> DEFINE S == {c \in Branch[b] : h <= nHeight[c]}
<1>1. S \in SUBSET Block /\ b \in S
  BY BranchClosed
<1>2. PICK a \in S : \A c \in S : nHeight[a] <= nHeight[c]
  BY <1>1, LowestBlock
<1>3. nHeight[a] = h
  <2>1. CASE a = Genesis
    BY <1>1, <2>1, TreeAssumption
  <2>2. CASE a # Genesis
    <3>1. pprev[a] \in Branch[b] /\ pprev[a] \in Block
      BY <1>1, <2>2, BranchClosed, TreeAssumption DEF DownClosed
    <3>2. nHeight[a] = nHeight[pprev[a]] + 1 /\ nHeight[pprev[a]] \in Nat
      BY <1>1, <2>2, <3>1, TreeAssumption
    <3>3. pprev[a] \notin S
      BY <1>2, <3>2
    <3>4. QED
      BY <3>1, <3>2, <3>3
  <2>3. QED
    BY <2>1, <2>2
<1>4. QED
  BY <1>3 DEF TraceBack

\* Tracing back to the height of a block of the branch finds that block.
LEMMA TraceBackIs ==
    ASSUME NEW b \in Block, NEW a \in Branch[b]
    PROVE  TraceBack(b, nHeight[a]) = a
<1>1. a \in Block /\ nHeight[a] \in Nat /\ nHeight[a] <= nHeight[b]
  BY BranchClosed, BranchHeight, TreeAssumption
<1>2. nHeight[Genesis] <= nHeight[a]
  BY <1>1, BranchRoot
<1>3. QED
  BY <1>1, <1>2, TraceBackFinds, BranchSameHeight

(* The fork point is on both branches, and they share nothing above it.     *)
LEMMA ForkPointFinds ==
    ASSUME NEW a \in Block, NEW b \in Block
    PROVE  /\ ForkPoint(a, b) \in Branch[a] \cap Branch[b]
           /\ \A g \in Branch[a] \cap Branch[b] :
                 nHeight[g] <= nHeight[ForkPoint(a, b)]
<1>1. Branch[a] \cap Branch[b] \in SUBSET Branch[a]
  OBVIOUS
<1>2. Branch[a] \cap Branch[b] # {}
  BY BranchRoot
<1>3. \E f \in Branch[a] \cap Branch[b] :
        \A g \in Branch[a] \cap Branch[b] : nHeight[g] <= nHeight[f]
  BY <1>1, <1>2, HighestBlock
<1>4. QED
  BY <1>3 DEF ForkPoint

(* Above a block of a branch, other than its end, stands exactly one block. *)
LEMMA ChildOnBranch ==
    ASSUME NEW b \in Block, NEW a \in Branch[b], a # b
    PROVE  \E c \in Branch[b] : pprev[c] = a
<1> DEFINE S == {d \in Branch[b] : d # a /\ a \in Branch[d]}
<1>1. S \in SUBSET Block /\ b \in S
  BY BranchClosed
<1>2. PICK d \in S : \A c \in S : nHeight[d] <= nHeight[c]
  BY <1>1, LowestBlock
<1>3. d \in Block \ {Genesis}
  BY <1>1, BranchGenesis
<1>4. pprev[d] \in Branch[b] /\ pprev[d] \in Block
  BY <1>1, <1>3, BranchClosed, TreeAssumption DEF DownClosed
<1>5. a \in Branch[pprev[d]]
  BY <1>3, BranchStep
<1>6. nHeight[d] = nHeight[pprev[d]] + 1 /\ nHeight[pprev[d]] \in Nat
  BY <1>3, <1>4, TreeAssumption
<1>7. pprev[d] = a
  BY <1>2, <1>4, <1>5, <1>6
<1>8. QED
  BY <1>7

\* Two blocks of a branch with one parent are the same block.
LEMMA ChildUnique ==
    ASSUME NEW b \in Block, NEW c \in Branch[b], NEW d \in Branch[b],
           pprev[c] = pprev[d]
    PROVE  c = d
<1>1. c \in Block /\ d \in Block
  BY BranchClosed
<1>2. CASE c = Genesis \/ d = Genesis
  BY <1>1, <1>2, TreeAssumption
<1>3. CASE c # Genesis /\ d # Genesis
  <2>1. nHeight[c] = nHeight[d]
    BY <1>1, <1>3, TreeAssumption
  <2>2. QED
    BY <2>1, BranchSameHeight
<1>4. QED
  BY <1>2, <1>3

-----------------------------------------------------------------------------
(* Sums over finite sets                                                    *)

\* Of numbers one is least.
LEMMA LeastIs ==
    ASSUME NEW S \in SUBSET Nat, S # {}
    PROVE  \E m \in S : \A i \in S : m <= i
<1>1. IsWellFoundedOn(OpToRel(<, Nat), Nat)
  BY NatLessThanWellFounded
<1>2. PICK m \in S : \A i \in S : ~ (<<i, m>> \in OpToRel(<, Nat))
  BY <1>1, WFMin
<1>3. \A i \in S : ~ (i < m)
  BY <1>2 DEF OpToRel
<1>4. \A i \in S : m <= i
  BY <1>3
<1>5. QED
  BY <1>4

\* Of finite sets one is smallest.
LEMMA SmallestSet ==
    ASSUME NEW C, C # {}, \A s \in C : IsFiniteSet(s)
    PROVE  \E s \in C : \A t \in C : Cardinality(s) <= Cardinality(t)
<1> DEFINE N == {Cardinality(s) : s \in C}
<1>1. N \in SUBSET Nat /\ N # {}
  BY FS_CardinalityType
<1>2. \E m \in N : \A k \in N : m <= k
  <2> HIDE DEF N
  <2>1. QED
    BY <1>1, LeastIs
<1>3. QED
  BY <1>2

\* What holds of a set as soon as it holds of it with any one element less.
LEMMA BySize ==
    ASSUME NEW S, IsFiniteSet(S), NEW Good,
           \A s \in SUBSET S : (\A x \in s : s \ {x} \in Good) => s \in Good
    PROVE  S \in Good
<1> DEFINE Bad == (SUBSET S) \ Good
<1> SUFFICES ASSUME Bad # {} PROVE FALSE
  OBVIOUS
<1>1. \A s \in Bad : IsFiniteSet(s)
  BY FS_Subset
<1>2. PICK s \in Bad : \A t \in Bad : Cardinality(s) <= Cardinality(t)
  <2> HIDE DEF Bad
  <2>1. QED
    BY <1>1, SmallestSet
<1>3. s \in SUBSET S /\ s \notin Good
  OBVIOUS
<1>4. ASSUME NEW x \in s PROVE s \ {x} \in Good
  <2> DEFINE t == s \ {x}
  <2>1. t \in SUBSET S
    BY <1>3
  <2>2. IsFiniteSet(s) /\ Cardinality(s) \in Nat /\ Cardinality(t) = Cardinality(s) - 1
    BY <1>1, FS_RemoveElement, FS_CardinalityType
  <2> HIDE DEF t
  <2>3. t \in Good
    BY <1>2, <2>1, <2>2
  <2>4. QED
    BY <2>3 DEF t
<1>5. QED
  BY <1>3, <1>4

(* SumFunctionOnSet of the community modules, by a shorter name: it is the   *)
(* value for S of a function that adds the elements of every subset of S   *)
(* one after another, in the order in which CHOOSE takes them.             *)
Total(f, S) == SumFunctionOnSet(f, S)
First(s) == CHOOSE x \in s : TRUE
Adds(g, f, S) ==
    g = [s \in SUBSET S |-> IF s = {} THEN 0 ELSE f[First(s)] + g[s \ {First(s)}]]

\* That function is the one its equation defines.
LEMMA TotalAdds ==
    ASSUME NEW f, NEW S
    PROVE  Total(f, S) = (CHOOSE g : Adds(g, f, S))[S]
<1> DEFINE P(g) == g = [s \in SUBSET S |-> IF s = {} THEN 0
                          ELSE f[First(s)] + g[s \ {First(s)}]]
           iter == CHOOSE g : P(g)
<1>1. Total(f, S) = iter[S]
  BY DEF Total, SumFunctionOnSet, FoldFunctionOnSet, MapThenFoldSet, First
<1>2. \A g : P(g) <=> Adds(g, f, S)
  BY DEF Adds
<1>3. iter = CHOOSE g : Adds(g, f, S)
  BY <1>2
<1>4. QED
  BY <1>1, <1>3

\* It adds an element of the set.
LEMMA FirstIs == \A s : s # {} => First(s) \in s
BY DEF First

\* There is one.
LEMMA AddsExists ==
    ASSUME NEW f, NEW S, IsFiniteSet(S)
    PROVE  \E g : Adds(g, f, S)
<1> DEFINE next(g, s) == IF s = {} THEN 0 ELSE f[First(s)] + g[s \ {First(s)}]
           N == Cardinality(S)
           Small(n) == {s \in SUBSET S : Cardinality(s) <= n}
           Up(g, n) == DOMAIN g = SUBSET S /\ \A s \in Small(n) : g[s] = next(g, s)
           Bad == {n \in 0..N : ~ \E g : Up(g, n)}
<1>1. N \in Nat /\ IsFiniteSet(SUBSET S)
      /\ \A s \in SUBSET S : /\ IsFiniteSet(s) /\ Cardinality(s) \in 0..N
                             /\ Cardinality(s) = 0 => s = {}
                             /\ \A x \in s : Cardinality(s \ {x}) = Cardinality(s) - 1
  <2>1. N \in Nat
    BY FS_CardinalityType
  <2>2. IsFiniteSet(SUBSET S)
    BY FS_SUBSET
  <2>3. ASSUME NEW s \in SUBSET S
        PROVE  /\ IsFiniteSet(s) /\ Cardinality(s) \in 0..N
               /\ Cardinality(s) = 0 => s = {}
               /\ \A x \in s : Cardinality(s \ {x}) = Cardinality(s) - 1
    <3>1. IsFiniteSet(s) /\ Cardinality(s) <= N
      BY FS_Subset
    <3>2. Cardinality(s) \in Nat
      BY <3>1, FS_CardinalityType
    <3>3. \A x \in s : Cardinality(s \ {x}) = Cardinality(s) - 1
      BY <3>1, FS_RemoveElement
    <3>4. Cardinality(s) = 0 => s = {}
      BY <3>1, FS_EmptySet
    <3>5. QED
      BY <2>1, <3>1, <3>2, <3>3, <3>4
  <2>4. QED
    BY <2>1, <2>2, <2>3
<1> HIDE DEF N
<1>2. Bad = {}
  <2>1. SUFFICES ASSUME Bad # {} PROVE FALSE
    OBVIOUS
  <2>2. PICK n \in Bad : \A k \in Bad : n <= k
    <3>1. Bad \in SUBSET Nat
      BY <1>1
    <3> HIDE DEF Bad
    <3>2. QED
      BY <2>1, <3>1, LeastIs
  <2>3. n \in 0..N
    OBVIOUS
  <2>4. CASE n = 0
    <3> DEFINE g == [s \in SUBSET S |-> 0]
    <3>1. \A s \in Small(n) : s = {}
      BY <1>1, <2>4
    <3>2. Up(g, n)
      BY <3>1
    <3>3. QED
      BY <3>2
  <2>5. CASE n # 0
    <3>1. n - 1 \in 0..N /\ ~ (n - 1 >= n)
      BY <1>1, <2>3, <2>5
    <3>2. PICK h : Up(h, n - 1)
      BY <1>1, <2>2, <3>1
    <3> DEFINE g == [s \in SUBSET S |-> next(h, s)]
    <3>3. ASSUME NEW s \in Small(n) PROVE g[s] = next(g, s)
      <4>1. CASE s = {}
        BY <4>1
      <4>2. CASE s # {}
        <5> DEFINE x == First(s)
                   t == s \ {x}
        <5>1. x \in s
          BY <4>2, FirstIs
        <5>2. Cardinality(s) \in 0..N /\ Cardinality(t) = Cardinality(s) - 1
          BY <1>1, <5>1
        <5>3. t \in SUBSET S /\ t \in Small(n - 1)
          BY <1>1, <2>3, <5>2
        <5> HIDE DEF x
        <5>4. h[t] = next(h, t)
          BY <3>2, <5>3
        <5>5. g[t] = h[t]
          BY <5>3, <5>4
        <5>6. g[s] = f[x] + h[t] /\ next(g, s) = f[x] + g[t]
          BY <4>2 DEF x
        <5>7. QED
          BY <5>5, <5>6
      <4>3. QED
        BY <4>1, <4>2
    <3>4. Up(g, n)
      BY <3>3
    <3>5. QED
      BY <3>4
  <2>6. QED
    BY <2>4, <2>5
<1>3. PICK g : Up(g, N)
  <2>1. N \in 0..N
    BY <1>1
  <2>2. N \notin Bad
    BY <1>2
  <2>3. \E g : Up(g, N)
    BY <2>1, <2>2
  <2>4. QED
    BY <2>3
<1>4. SUBSET S = Small(N)
  BY <1>1
<1>5. \A s \in SUBSET S : g[s] = next(g, s)
  BY <1>3, <1>4
<1> DEFINE h == [s \in SUBSET S |-> next(g, s)]
<1>6. \A s \in SUBSET S : h[s] = g[s]
  BY <1>5
<1>7. \A s \in SUBSET S : next(h, s) = next(g, s)
  BY <1>6
<1>8. h = [s \in SUBSET S |-> next(h, s)]
  <2>1. h = [s \in SUBSET S |-> h[s]] /\ \A s \in SUBSET S : h[s] = next(h, s)
    BY <1>7
  <2> HIDE DEF h
  <2>2. QED
    BY <2>1
<1>9. Adds(h, f, S)
  BY <1>8 DEF Adds
<1>10. QED
  BY <1>9

\* And what it says of a set does not depend on the set it was made for.
LEMMA AddsAgree ==
    ASSUME NEW f, NEW S, NEW T, NEW g, NEW h, Adds(g, f, S), Adds(h, f, T),
           IsFiniteSet(S), S \subseteq T
    PROVE  g[S] = h[S]
<1> DEFINE Bad == {s \in SUBSET S : g[s] # h[s]}
<1> SUFFICES ASSUME Bad # {} PROVE FALSE
  OBVIOUS
<1>1. \A s \in Bad : IsFiniteSet(s)
  BY FS_Subset
<1>2. PICK s \in Bad : \A t \in Bad : Cardinality(s) <= Cardinality(t)
  <2> HIDE DEF Bad
  <2>1. QED
    BY <1>1, SmallestSet
<1>3. s \in SUBSET S /\ s \in SUBSET T /\ g[s] # h[s] /\ IsFiniteSet(s)
  BY <1>1
<1> DEFINE x == First(s)
           t == s \ {x}
<1>4. g[s] = (IF s = {} THEN 0 ELSE f[x] + g[t]) /\ h[s] = (IF s = {} THEN 0 ELSE f[x] + h[t])
  BY <1>3 DEF Adds
<1>5. s # {}
  BY <1>3, <1>4
<1>6. x \in s
  BY <1>5, FirstIs
<1>7. Cardinality(s) \in Nat /\ Cardinality(t) = Cardinality(s) - 1 /\ t \in SUBSET S
  BY <1>3, <1>6, FS_RemoveElement, FS_CardinalityType
<1> HIDE DEF x, t
<1>8. g[t] = h[t]
  BY <1>2, <1>7
<1>9. QED
  BY <1>3, <1>4, <1>8

\* The sum of nothing, and of something.
LEMMA TotalIs ==
    ASSUME NEW f, NEW S, IsFiniteSet(S)
    PROVE  Total(f, S) = IF S = {} THEN 0 ELSE f[First(S)] + Total(f, S \ {First(S)})
<1> DEFINE G(s) == CHOOSE g : Adds(g, f, s)
<1>1. \A s : IsFiniteSet(s) => Adds(G(s), f, s)
  BY AddsExists
<1>2. \A s : Total(f, s) = G(s)[s]
  BY TotalAdds
<1> HIDE DEF G
<1>3. Adds(G(S), f, S)
  BY <1>1
<1>4. G(S)[S] = IF S = {} THEN 0 ELSE f[First(S)] + G(S)[S \ {First(S)}]
  BY <1>3 DEF Adds
<1>5. CASE S = {}
  BY <1>2, <1>4, <1>5
<1>6. CASE S # {}
  <2> DEFINE t == S \ {First(S)}
  <2>1. IsFiniteSet(t) /\ t \subseteq S
    BY FS_Subset
  <2> HIDE DEF t
  <2>2. Adds(G(t), f, t)
    BY <1>1, <2>1
  <2>3. G(t)[t] = G(S)[t]
    BY <1>3, <2>1, <2>2, AddsAgree
  <2>4. G(S)[S] = f[First(S)] + G(S)[t]
    BY <1>4, <1>6 DEF t
  <2>5. Total(f, S) = f[First(S)] + Total(f, t)
    BY <1>2, <2>3, <2>4
  <2>6. QED
    BY <1>6, <2>5 DEF t
<1>7. QED
  BY <1>5, <1>6

\* A sum of integers is one.
LEMMA TotalInt ==
    ASSUME NEW f, NEW S, IsFiniteSet(S), \A x \in S : f[x] \in Int
    PROVE  Total(f, S) \in Int
<1> DEFINE Good == {s \in SUBSET S : Total(f, s) \in Int}
<1>1. ASSUME NEW s \in SUBSET S, \A x \in s : s \ {x} \in Good
      PROVE  s \in Good
  <2>1. IsFiniteSet(s)
    BY FS_Subset
  <2>2. CASE s = {}
    <3>1. Total(f, s) = 0
      BY <2>1, <2>2, TotalIs
    <3>2. QED
      BY <3>1
  <2>3. CASE s # {}
    <3>1. First(s) \in s
      BY <2>3, FirstIs
    <3>2. Total(f, s) = f[First(s)] + Total(f, s \ {First(s)})
      BY <2>1, <2>3, TotalIs
    <3>3. Total(f, s \ {First(s)}) \in Int /\ f[First(s)] \in Int
      BY <1>1, <3>1
    <3>4. QED
      BY <3>2, <3>3
  <2>4. QED
    BY <2>2, <2>3
<1> HIDE DEF Good
<1>2. S \in Good
  BY <1>1, BySize
<1>3. QED
  BY <1>2 DEF Good

\* Any element may be taken out first.
LEMMA TotalWithout ==
    ASSUME NEW f, NEW S, IsFiniteSet(S), \A x \in S : f[x] \in Int, NEW x \in S
    PROVE  Total(f, S) = f[x] + Total(f, S \ {x})
<1> DEFINE Good == {s \in SUBSET S : \A y \in s : Total(f, s) = f[y] + Total(f, s \ {y})}
<1>1. ASSUME NEW s \in SUBSET S, \A y \in s : s \ {y} \in Good
      PROVE  s \in Good
  <2>1. IsFiniteSet(s)
    BY FS_Subset
  <2>2. ASSUME NEW y \in s PROVE Total(f, s) = f[y] + Total(f, s \ {y})
    <3> DEFINE z == First(s)
    <3>1. z \in s /\ Total(f, s) = f[z] + Total(f, s \ {z})
      BY <2>1, FirstIs, TotalIs
    <3> HIDE DEF z
    <3>2. CASE y = z
      BY <3>1, <3>2
    <3>3. CASE y # z
      <4>1. y \in s \ {z} /\ z \in s \ {y}
        BY <3>1, <3>3
      <4>2. Total(f, s \ {z}) = f[y] + Total(f, (s \ {z}) \ {y})
        BY <1>1, <3>1, <4>1
      <4>3. Total(f, s \ {y}) = f[z] + Total(f, (s \ {y}) \ {z})
        BY <1>1, <4>1
      <4> DEFINE r == (s \ {z}) \ {y}
      <4>4. (s \ {y}) \ {z} = r /\ r \subseteq S
        OBVIOUS
      <4>5. Total(f, r) \in Int
        <5> HIDE DEF r
        <5>1. IsFiniteSet(r)
          BY <4>4, FS_Subset
        <5>2. QED
          BY <4>4, <5>1, TotalInt
      <4>6. f[y] \in Int /\ f[z] \in Int
        BY <3>1
      <4>7. Total(f, s \ {y}) = f[z] + Total(f, r)
        BY <4>3, <4>4
      <4>8. QED
        BY <3>1, <4>2, <4>5, <4>6, <4>7
    <3>4. QED
      BY <3>2, <3>3
  <2>3. QED
    BY <2>2
<1> HIDE DEF Good
<1>2. S \in Good
  BY <1>1, BySize
<1>3. QED
  BY <1>2 DEF Good

\* Sums that agree on every element agree.
LEMMA TotalSame ==
    ASSUME NEW f, NEW g, NEW S, IsFiniteSet(S), \A x \in S : f[x] = g[x]
    PROVE  Total(f, S) = Total(g, S)
<1> DEFINE Good == {s \in SUBSET S : Total(f, s) = Total(g, s)}
<1>1. ASSUME NEW s \in SUBSET S, \A x \in s : s \ {x} \in Good
      PROVE  s \in Good
  <2>1. IsFiniteSet(s)
    BY FS_Subset
  <2>2. Total(f, s) = (IF s = {} THEN 0 ELSE f[First(s)] + Total(f, s \ {First(s)}))
        /\ Total(g, s) = (IF s = {} THEN 0 ELSE g[First(s)] + Total(g, s \ {First(s)}))
    BY <2>1, TotalIs
  <2>3. s # {} => /\ f[First(s)] = g[First(s)]
                  /\ Total(f, s \ {First(s)}) = Total(g, s \ {First(s)})
    BY <1>1, FirstIs
  <2>4. QED
    BY <2>2, <2>3
<1> HIDE DEF Good
<1>2. S \in Good
  BY <1>1, BySize
<1>3. QED
  BY <1>2 DEF Good

\* The sum over two sets that share nothing.
LEMMA TotalUnion ==
    ASSUME NEW f, NEW A, NEW B, IsFiniteSet(A), IsFiniteSet(B), A \cap B = {},
           \A x \in A \cup B : f[x] \in Int
    PROVE  Total(f, A \cup B) = Total(f, A) + Total(f, B)
<1> DEFINE Good == {s \in SUBSET B : Total(f, A \cup s) = Total(f, A) + Total(f, s)}
<1>1. Total(f, A) \in Int
  BY TotalInt
<1>2. ASSUME NEW s \in SUBSET B, \A x \in s : s \ {x} \in Good
      PROVE  s \in Good
  <2>1. IsFiniteSet(s)
    BY FS_Subset
  <2>2. CASE s = {}
    <3> DEFINE U == A \cup s
    <3>1. Total(f, s) = 0 /\ U = A
      BY <2>1, <2>2, TotalIs
    <3> HIDE DEF U
    <3>2. Total(f, U) = Total(f, A) + Total(f, s)
      BY <1>1, <3>1
    <3>3. QED
      BY <3>2 DEF U
  <2>3. CASE s # {}
    <3>1. PICK x : x \in s
      BY <2>3
    <3>2. Total(f, s) = f[x] + Total(f, s \ {x})
      BY <2>1, <3>1, TotalWithout
    <3>3. Total(f, A \cup (s \ {x})) = Total(f, A) + Total(f, s \ {x})
      BY <1>2, <3>1
    <3>4. IsFiniteSet(A \cup s) /\ x \in A \cup s /\ \A y \in A \cup s : f[y] \in Int
      BY <2>1, <3>1, FS_Union
    <3>5. Total(f, A \cup s) = f[x] + Total(f, (A \cup s) \ {x})
      BY <3>4, TotalWithout
    <3>6. (A \cup s) \ {x} = A \cup (s \ {x})
      BY <3>1
    <3>7. Total(f, s \ {x}) \in Int
      <4>1. IsFiniteSet(s \ {x}) /\ \A y \in s \ {x} : f[y] \in Int
        BY <2>1, FS_Subset
      <4>2. QED
        BY <4>1, TotalInt
    <3>8. f[x] \in Int
      BY <3>1
    <3>9. Total(f, A \cup s) = f[x] + (Total(f, A) + Total(f, s \ {x}))
      BY <3>3, <3>5, <3>6
    <3>10. Total(f, A \cup s) = Total(f, A) + Total(f, s)
      BY ONLY <1>1, <3>2, <3>7, <3>8, <3>9
    <3> HIDE DEF Good
    <3>11. s \in Good <=> Total(f, A \cup s) = Total(f, A) + Total(f, s)
      BY DEF Good
    <3>12. QED
      BY <3>10, <3>11
  <2>4. QED
    BY <2>2, <2>3
<1> HIDE DEF Good
<1>3. B \in Good
  BY <1>2, BySize
<1>4. QED
  BY <1>3 DEF Good

\* The sum over a part, and over the rest.
LEMMA TotalMinus ==
    ASSUME NEW f, NEW A, NEW B, IsFiniteSet(A), B \subseteq A,
           \A x \in A : f[x] \in Int
    PROVE  Total(f, A \ B) = Total(f, A) - Total(f, B)
<1> DEFINE C == A \ B
<1>1. IsFiniteSet(C) /\ IsFiniteSet(B)
  BY FS_Subset
<1>2. C \cap B = {} /\ C \cup B = A
  OBVIOUS
<1> HIDE DEF C
<1>3. Total(f, A) = Total(f, C) + Total(f, B)
  BY <1>1, <1>2, TotalUnion
<1>4. Total(f, C) \in Int /\ Total(f, B) \in Int
  BY <1>1, <1>2, TotalInt
<1>5. QED
  BY <1>3, <1>4 DEF C

\* The sum over one element.
LEMMA TotalOne ==
    ASSUME NEW f, NEW x, f[x] \in Int
    PROVE  Total(f, {x}) = f[x]
<1>1. IsFiniteSet({x}) /\ IsFiniteSet({})
  BY FS_Singleton, FS_EmptySet
<1> DEFINE s == {x}
           r == s \ {First(s)}
<1>2. s # {} /\ First(s) = x /\ r = {}
  BY FirstIs
<1> HIDE DEF r
<1>3. Total(f, r) = 0
  BY <1>1, <1>2, TotalIs
<1> HIDE DEF s
<1>4. IsFiniteSet(s)
  BY <1>1 DEF s
<1>5. Total(f, s) = f[First(s)] + Total(f, r)
  BY <1>2, <1>4, TotalIs DEF r
<1>6. Total(f, s) = f[x]
  BY <1>2, <1>3, <1>5
<1>7. QED
  BY <1>6 DEF s

\* The sum over finitely many sets that share nothing is the sum of their sums.
LEMMA TotalFamily ==
    ASSUME NEW f, NEW F, NEW T, IsFiniteSet(T), \A t \in T : IsFiniteSet(F[t]),
           \A t, u \in T : t # u => F[t] \cap F[u] = {},
           \A t \in T : \A x \in F[t] : f[x] \in Int
    PROVE  /\ IsFiniteSet(UNION {F[t] : t \in T})
           /\ Total(f, UNION {F[t] : t \in T}) = Total([t \in T |-> Total(f, F[t])], T)
<1> DEFINE g == [t \in T |-> Total(f, F[t])]
           U(s) == UNION {F[t] : t \in s}
           Good == {s \in SUBSET T : IsFiniteSet(U(s)) /\ Total(f, U(s)) = Total(g, s)}
<1>1. \A t \in T : g[t] = Total(f, F[t]) /\ g[t] \in Int
  BY TotalInt
<1> HIDE DEF g
<1>2. ASSUME NEW s \in SUBSET T, \A x \in s : s \ {x} \in Good
      PROVE  s \in Good
  <2>1. IsFiniteSet(s)
    BY FS_Subset
  <2>2. CASE s = {}
    <3>1. U(s) = {} /\ IsFiniteSet({})
      BY <2>2, FS_EmptySet
    <3> HIDE DEF U
    <3>2. Total(f, U(s)) = 0 /\ Total(g, s) = 0
      BY <2>2, <3>1, TotalIs
    <3>3. QED
      BY <3>1, <3>2
  <2>3. CASE s # {}
    <3>1. PICK x : x \in s
      BY <2>3
    <3> DEFINE r == s \ {x}
    <3> DEFINE A == U(r)
               B == F[x]
               W == A \cup B
    <3>2. x \in T /\ U(s) = W /\ A \cap B = {}
      BY <3>1
    <3>3. IsFiniteSet(A) /\ Total(f, A) = Total(g, r)
      BY <1>2, <3>1
    <3>4. IsFiniteSet(B) /\ \A y \in A \cup B : f[y] \in Int
      BY <3>1
    <3>5. \A y \in s : g[y] \in Int
      BY <1>1
    <3> HIDE DEF U, A, B
    <3>6. IsFiniteSet(W)
      BY <3>3, <3>4, FS_Union
    <3>7. Total(f, W) = Total(f, A) + Total(f, B)
      BY <3>2, <3>3, <3>4, TotalUnion
    <3> HIDE DEF W
    <3>8. Total(g, s) = g[x] + Total(g, r)
      BY <2>1, <3>1, <3>5, TotalWithout
    <3>9. Total(g, r) \in Int
      <4>1. IsFiniteSet(r) /\ \A y \in r : g[y] \in Int
        BY <2>1, <3>5, FS_Subset
      <4> HIDE DEF r
      <4>2. QED
        BY <4>1, TotalInt
    <3> HIDE DEF r
    <3>10. g[x] = Total(f, B) /\ g[x] \in Int
      BY <1>1, <3>2 DEF B
    <3>11. Total(f, W) = Total(g, s)
      BY <3>3, <3>7, <3>8, <3>9, <3>10
    <3>12. QED
      BY <3>2, <3>6, <3>11
  <2>4. QED
    BY <2>2, <2>3
<1> HIDE DEF Good
<1>3. T \in Good
  BY <1>2, BySize
<1>4. QED
  BY <1>3 DEF Good, g

\* A sum counted by other names.
LEMMA TotalRenamed ==
    ASSUME NEW f, NEW r, NEW S, IsFiniteSet(S),
           \A x, y \in S : r[x] = r[y] => x = y, \A x \in S : f[r[x]] \in Int
    PROVE  /\ IsFiniteSet({r[x] : x \in S})
           /\ Total(f, {r[x] : x \in S}) = Total([x \in S |-> f[r[x]]], S)
<1> DEFINE F == [x \in S |-> {r[x]}]
           g == [x \in S |-> f[r[x]]]
           h == [x \in S |-> Total(f, F[x])]
<1>1. \A x \in S : F[x] = {r[x]} /\ IsFiniteSet(F[x])
  BY FS_Singleton
<1>2. \A x \in S : h[x] = g[x]
  BY TotalOne
<1>3. UNION {F[x] : x \in S} = {r[x] : x \in S}
  OBVIOUS
<1>4. /\ \A x, y \in S : x # y => F[x] \cap F[y] = {}
      /\ \A x \in S : \A y \in F[x] : f[y] \in Int
  BY <1>1
<1> HIDE DEF F, g
<1>5. IsFiniteSet(UNION {F[x] : x \in S}) /\ Total(f, UNION {F[x] : x \in S}) = Total(h, S)
  BY <1>1, <1>4, TotalFamily
<1>6. Total(h, S) = Total(g, S)
  <2> HIDE DEF h
  <2>1. QED
    BY <1>2, TotalSame
<1>7. QED
  BY <1>3, <1>5, <1>6 DEF g
=============================================================================
