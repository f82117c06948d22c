-------------------------- MODULE BlockDownloadProofs --------------------------
(***************************************************************************)
(* What nodes believe of each other while they exchange blocks, proved for *)
(* every tree of blocks, number of nodes, first blocks and peers that send *)
(* nothing, and any number of lost connections and restarts: a node        *)
(* announces only what it has, and a block it takes a peer to know is one  *)
(* the peer has, or one on its way to it.                                  *)
(***************************************************************************)
EXTENDS BlockDownload, BranchTheorems, FiniteSetTheorems, SequenceTheorems

(* What is sent, by type, and what a node keeps for a peer it is connected  *)
(* to.                                                                     *)
NoneOrBlock == Block \cup {NoBlock}
Msg == [type : {"version"}, height : Nat]
       \cup [type : {"inv", "getdata"}, v : Seq(Block)]
       \cup [type : {"getblocks"}, begin : Block, stop : NoneOrBlock]
       \cup [type : {"block"}, block : Block]
CNode == [fInbound : BOOLEAN, nStartingHeight : Int, vRecv : Seq(Msg),
          setInventoryKnown : SUBSET Block, vInventoryToSend : Seq(Block),
          mapAskFor : Seq(Request), lastBegin : NoneOrBlock,
          lastEnd : NoneOrBlock, hashContinue : NoneOrBlock]
Result == [node : CNode, asked : [Block -> Int], out : Seq(Msg)]

(* The blocks that a message brings or announces, those it asks for, and    *)
(* the same of a queue of messages and of the requests that wait.          *)
Brings(m) == IF m.type = "inv" THEN ToSet(m.v)
             ELSE IF m.type = "block" THEN {m.block} ELSE {}
Asks(m) == IF m.type = "getdata" THEN ToSet(m.v) ELSE {}

Carried(q) == UNION {Brings(m) : m \in ToSet(q)}
Requested(q) == UNION {Asks(m) : m \in ToSet(q)}
Asked(requests) == {r.inv : r \in ToSet(requests)}

\* What is on its way from n to p, or asked for by p.
OnTheWay(n, p) ==
    Carried(cnode[p][n].vRecv) \cup Asked(cnode[p][n].mapAskFor)
        \cup Requested(cnode[n][p].vRecv)

Have(n) == mapBlockIndex[n] \cup mapOrphanBlocks[n]

\* The connections have two ends, of one type, and no node has itself as a peer.
Types ==
    /\ mapAlreadyAskedFor \in [Node -> [Block -> Int]]
    /\ nAskedForBlocks \in [Node -> BOOLEAN]
    /\ world \in World /\ \A n \in Node : <<n, n>> \notin world.dials
    /\ cnode \in [Node -> [Node -> CNode \cup {NoCNode}]]
    /\ \A n, p \in Node : Connected(n, p) => Connected(p, n) /\ n # p

(* A node has the branch of each block it has, and orphans are no part of   *)
(* it.                                                                     *)
Blocks ==
    /\ mapBlockIndex \in [Node -> SUBSET Block]
    /\ mapOrphanBlocks \in [Node -> SUBSET Block]
    /\ pindexBest \in [Node -> Block]
    /\ \A n \in Node :
          /\ Genesis \in mapBlockIndex[n] /\ DownClosed(mapBlockIndex[n])
          /\ pindexBest[n] \in mapBlockIndex[n]
          /\ mapBlockIndex[n] \cap mapOrphanBlocks[n] = {}
          /\ IsFiniteSet(mapOrphanBlocks[n])

\* What n has sent to p, or will announce to it, n has.
Sound(n, p) ==
    /\ Carried(cnode[p][n].vRecv) \subseteq mapBlockIndex[n]
    /\ ToSet(cnode[n][p].vInventoryToSend) \subseteq mapBlockIndex[n]

\* What n believes p knows, p has or will have.
Known(n, p) ==
    n \notin world.silent =>
        cnode[n][p].setInventoryKnown
            \subseteq Have(p) \cup (mapBlockIndex[n] \cap OnTheWay(n, p))

DownloadInv ==
    /\ Types /\ Blocks
    /\ \A n, p \in Node : Connected(n, p) => Sound(n, p) /\ Known(n, p)
-----------------------------------------------------------------------------
(* Loops                                                                    *)

\* What a loop keeps from turn to turn holds after each of its turns.
LEMMA InTurn ==
    ASSUME NEW N \in Nat, NEW f, NEW S, f[0] \in S[0],
           \A i \in 1..N : f[i - 1] \in S[i - 1] => f[i] \in S[i]
    PROVE  \A i \in 0..N : f[i] \in S[i]
<1> DEFINE bad == {i \in 0..N : f[i] \notin S[i]}
<1>1. SUFFICES ASSUME bad # {} PROVE FALSE
  OBVIOUS
<1>2. PICK m \in bad : \A i \in bad : m <= i
  <2>1. bad \in SUBSET Nat
    OBVIOUS
  <2> HIDE DEF bad
  <2>2. QED
    BY <1>1, <2>1, LeastIs
<1>3. m \in 1..N /\ f[m] \notin S[m] /\ m - 1 \in 0..N
  OBVIOUS
<1>4. m - 1 \notin bad
  BY <1>2, <1>3
<1>5. f[m - 1] \in S[m - 1]
  BY <1>3, <1>4
<1>6. QED
  BY <1>3, <1>5

\* The turns of a loop that stay within a set, and what each of them leaves.
Turns(T, N, step) == step \in [T \X (1..N) -> T]
Loop(f, T, s, N, step) ==
    f \in [0..N -> T] /\ f[0] = s /\ \A i \in 1..N : f[i] = step[<<f[i - 1], i>>]

\* A loop whose turns stay within a set has a result after each turn.
LEMMA LoopRuns ==
    ASSUME NEW T, NEW s \in T, NEW N \in Nat, NEW step, Turns(T, N, step)
    PROVE  \E f : Loop(f, T, s, N, step)
<1> DEFINE Runs(f, n) ==
             f = [i \in 0..n |-> IF i = 0 THEN s ELSE step[<<f[i - 1], i>>]]
           bad == {n \in 0..N : ~ \E f \in [0..n -> T] : Runs(f, n)}
<1>1. bad = {}
  <2>1. SUFFICES ASSUME bad # {} PROVE FALSE
    OBVIOUS
  <2>2. PICK m \in bad : \A i \in bad : m <= i
    <3>1. bad \in SUBSET Nat
      OBVIOUS
    <3> HIDE DEF bad
    <3>2. QED
      BY <2>1, <3>1, LeastIs
  <2>3. m \in 0..N /\ ~ \E f \in [0..m -> T] : Runs(f, m)
    OBVIOUS
  <2>4. m # 0
    <3>1. Runs([i \in 0..0 |-> s], 0) /\ [i \in 0..0 |-> s] \in [0..0 -> T]
      OBVIOUS
    <3>2. QED
      BY <2>3, <3>1
  <2>5. m - 1 \in 0..N /\ m - 1 \notin bad
    <3>1. m - 1 \in 0..N /\ ~ (m <= m - 1)
      BY <2>3, <2>4
    <3> HIDE DEF bad
    <3>2. QED
      BY <2>2, <3>1
  <2>6. PICK f \in [0..m - 1 -> T] : Runs(f, m - 1)
    BY <2>5
  <2> DEFINE g == [i \in 0..m |-> IF i = 0 THEN s ELSE step[<<f[i - 1], i>>]]
  <2>7. \A i \in 0..m - 1 : f[i] = IF i = 0 THEN s ELSE step[<<f[i - 1], i>>]
    BY <2>6
  <2>8. \A i \in 1..m : g[i - 1] = f[i - 1]
    BY <2>3, <2>7
  <2>9. g \in [0..m -> T]
    <3>1. \A i \in 1..m : f[i - 1] \in T /\ <<f[i - 1], i>> \in T \X (1..N)
      BY <2>3, <2>6
    <3>2. \A i \in 1..m : step[<<f[i - 1], i>>] \in T
      BY <3>1 DEF Turns
    <3>3. QED
      BY <3>2
  <2>10. ASSUME NEW i \in 0..m
         PROVE  g[i] = IF i = 0 THEN s ELSE step[<<g[i - 1], i>>]
    <3>1. g[i] = IF i = 0 THEN s ELSE step[<<f[i - 1], i>>]
      OBVIOUS
    <3> HIDE DEF g
    <3>2. i # 0 => i \in 1..m
      BY <2>3
    <3>3. QED
      BY <2>8, <3>1, <3>2
  <2>11. g = [i \in 0..m |-> g[i]]
    OBVIOUS
  <2> HIDE DEF g
  <2>12. Runs(g, m)
    BY <2>10, <2>11
  <2>13. QED
    BY <2>3, <2>9, <2>12
<1>2. N \in 0..N /\ N \notin bad
  <2> HIDE DEF bad
  <2>1. QED
    BY <1>1
<1>3. PICK f \in [0..N -> T] : Runs(f, N)
  BY <1>2
<1>4. f[0] = s /\ \A i \in 1..N : f[i] = step[<<f[i - 1], i>>]
  <2>1. \A i \in 0..N : f[i] = IF i = 0 THEN s ELSE step[<<f[i - 1], i>>]
    BY <1>3
  <2>2. 0 \in 0..N /\ \A i \in 1..N : i \in 0..N /\ i # 0
    OBVIOUS
  <2>3. QED
    BY <2>1, <2>2
<1>5. QED
  BY <1>3, <1>4 DEF Loop

-----------------------------------------------------------------------------
(* Sequences                                                                *)

\* What is in a sequence is in the set it is a sequence of.
LEMMA InSequence ==
    ASSUME NEW T, NEW s \in Seq(T)
    PROVE  ToSet(s) \subseteq T /\ Len(s) \in Nat /\ DOMAIN s = 1..Len(s)
           /\ \A i \in 1..Len(s) : s[i] \in T /\ s[i] \in ToSet(s)
BY DEF ToSet

\* What one more element adds.
LEMMA AppendIs ==
    ASSUME NEW T, NEW s \in Seq(T), NEW x \in T
    PROVE  Append(s, x) \in Seq(T) /\ ToSet(Append(s, x)) = ToSet(s) \cup {x}
<1> DEFINE t == Append(s, x)
<1>1. /\ t \in Seq(T) /\ Len(t) = Len(s) + 1 /\ Len(s) \in Nat
      /\ \A i \in 1..Len(s) : t[i] = s[i]
      /\ t[Len(s) + 1] = x
  OBVIOUS
<1>2. DOMAIN s = 1..Len(s) /\ DOMAIN t = 1..Len(t)
  OBVIOUS
<1> HIDE DEF t
<1>3. DOMAIN t = DOMAIN s \cup {Len(s) + 1}
  BY <1>1, <1>2
<1>4. ToSet(t) = ToSet(s) \cup {x}
  BY <1>1, <1>2, <1>3 DEF ToSet
<1>5. QED
  BY <1>1, <1>4 DEF t

\* What is in one sequence after another.
LEMMA ConcatIs ==
    ASSUME NEW T, NEW s \in Seq(T), NEW t \in Seq(T)
    PROVE  s \o t \in Seq(T) /\ ToSet(s \o t) = ToSet(s) \cup ToSet(t)
<1>1. s \o t \in Seq(T) /\ Len(s \o t) = Len(s) + Len(t)
      /\ Len(s) \in Nat /\ Len(t) \in Nat
      /\ \A i \in 1..Len(s) : (s \o t)[i] = s[i]
      /\ \A j \in 1..Len(t) : (s \o t)[Len(s) + j] = t[j]
  OBVIOUS
<1>2. ToSet(s \o t) \subseteq ToSet(s) \cup ToSet(t)
  <2>1. SUFFICES ASSUME NEW i \in 1..Len(s \o t)
                 PROVE  (s \o t)[i] \in ToSet(s) \cup ToSet(t)
    BY <1>1 DEF ToSet
  <2>2. CASE i <= Len(s)
    BY <1>1, <2>2 DEF ToSet
  <2>3. CASE i > Len(s)
    <3>1. i - Len(s) \in 1..Len(t) /\ i = Len(s) + (i - Len(s))
      BY <1>1, <2>3
    <3>2. QED
      BY <1>1, <3>1 DEF ToSet
  <2>4. QED
    BY <1>1, <2>2, <2>3
<1>3. ToSet(s) \cup ToSet(t) \subseteq ToSet(s \o t)
  <2>1. ASSUME NEW i \in 1..Len(s) PROVE s[i] \in ToSet(s \o t)
    <3>1. i \in 1..Len(s \o t) /\ (s \o t)[i] = s[i]
      BY <1>1
    <3>2. QED
      BY <1>1, <3>1, InSequence
  <2>2. ASSUME NEW i \in 1..Len(t) PROVE t[i] \in ToSet(s \o t)
    <3>1. Len(s) + i \in 1..Len(s \o t) /\ (s \o t)[Len(s) + i] = t[i]
      BY <1>1
    <3>2. QED
      BY <1>1, <3>1, InSequence
  <2>3. ToSet(s) = {s[i] : i \in 1..Len(s)} /\ ToSet(t) = {t[i] : i \in 1..Len(t)}
    BY InSequence DEF ToSet
  <2>4. QED
    BY <2>1, <2>2, <2>3
<1>4. QED
  BY <1>1, <1>2, <1>3

\* Those that Among keeps are those of the sequence that are in the set.
LEMMA AmongIs ==
    ASSUME NEW T, NEW s \in Seq(T), NEW S
    PROVE  Among(s, S) \in Seq(T) /\ ToSet(Among(s, S)) = ToSet(s) \cap S
<1> DEFINE N == Len(s)
           select(t, x) == IF x \in S THEN Append(t, x) ELSE t
           Runs(g) == g = [i \in 0..N |-> IF i = 0 THEN <<>> ELSE select(g[i - 1], s[i])]
           f == CHOOSE g : Runs(g)
           step == [x \in Seq(T) \X (1..N) |-> select(x[1], s[x[2]])]
<1>1. N \in Nat /\ \A i \in 1..N : s[i] \in T
  OBVIOUS
<1>2. \E g : Runs(g)
  <2>1. <<>> \in Seq(T)
    OBVIOUS
  <2>2. step \in [Seq(T) \X (1..N) -> Seq(T)]
    BY <1>1, AppendIs
  <2>3. PICK g : Loop(g, Seq(T), <<>>, N, step)
    <3>1. Turns(Seq(T), N, step)
      BY <2>2 DEF Turns
    <3> HIDE DEF step, N
    <3>2. QED
      BY <1>1, <2>1, <3>1, LoopRuns
  <2>4. \A i \in 1..N : g[i - 1] \in Seq(T)
    BY <1>1, <2>3 DEF Loop
  <2>5. \A i \in 1..N : step[<<g[i - 1], i>>] = select(g[i - 1], s[i])
    BY <2>4
  <2> HIDE DEF step, select, N
  <2>6. \A i \in 0..N : g[i] = IF i = 0 THEN <<>> ELSE select(g[i - 1], s[i])
    <3>1. \A i \in 0..N : i # 0 => i \in 1..N
      BY <1>1
    <3>2. QED
      BY <2>3, <2>5, <3>1 DEF Loop
  <2>7. QED
    BY <2>3, <2>6 DEF Loop
<1>3. Runs(f)
  BY <1>2
<1>4. Among(s, S) = f[N]
  BY DEF Among
<1> HIDE DEF f
<1>5. f[0] = <<>> /\ \A i \in 1..N : f[i] = select(f[i - 1], s[i])
  <2> HIDE DEF select
  <2>1. QED
    BY <1>1, <1>3
<1> DEFINE Right == [i \in 0..N |->
               {t \in Seq(T) : ToSet(t) = {s[j] : j \in 1..i} \cap S}]
<1>6. f[0] \in Right[0]
  BY <1>1, <1>5 DEF ToSet
<1>7. ASSUME NEW i \in 1..N, f[i - 1] \in Right[i - 1] PROVE f[i] \in Right[i]
  <2>1. f[i - 1] \in Seq(T) /\ ToSet(f[i - 1]) = {s[j] : j \in 1..i - 1} \cap S
    BY <1>1, <1>7
  <2>2. {s[j] : j \in 1..i} = {s[j] : j \in 1..i - 1} \cup {s[i]}
    BY <1>1
  <2>3. f[i] \in Seq(T) /\ ToSet(f[i]) = {s[j] : j \in 1..i} \cap S
    <3>1. CASE s[i] \in S
      <4>1. f[i] = Append(f[i - 1], s[i])
        BY <1>5, <3>1
      <4>2. QED
        BY <1>1, <2>1, <2>2, <3>1, <4>1, AppendIs
    <3>2. CASE s[i] \notin S
      BY <1>5, <2>1, <2>2, <3>2
    <3>3. QED
      BY <3>1, <3>2
  <2>4. QED
    BY <2>3
<1>8. f[N] \in Right[N]
  <2> HIDE DEF Right
  <2>1. QED
    BY <1>1, <1>6, <1>7, InTurn
<1>9. {s[j] : j \in 1..N} = ToSet(s)
  BY DEF ToSet
<1>10. QED
  BY <1>1, <1>4, <1>8, <1>9
-----------------------------------------------------------------------------
(* Messages and what a node keeps for its peer                              *)

\* The first element and the rest.
LEMMA HeadTailIs ==
    ASSUME NEW T, NEW q \in Seq(T), q # <<>>
    PROVE  Head(q) \in T /\ Tail(q) \in Seq(T)
           /\ ToSet(q) = {Head(q)} \cup ToSet(Tail(q))
<1>1. /\ Head(q) = q[1] /\ Head(q) \in T /\ Tail(q) \in Seq(T)
      /\ Len(q) \in Nat \ {0} /\ Len(Tail(q)) = Len(q) - 1
      /\ \A i \in 1..Len(q) - 1 : Tail(q)[i] = q[i + 1]
  OBVIOUS
<1>2. ToSet(q) = {q[i] : i \in 1..Len(q)}
      /\ ToSet(Tail(q)) = {Tail(q)[i] : i \in 1..Len(q) - 1}
  BY <1>1, InSequence DEF ToSet
<1>3. 1..Len(q) = {1} \cup {i + 1 : i \in 1..Len(q) - 1}
  <2>1. \A j \in 1..Len(q) : j # 1 => j - 1 \in 1..Len(q) - 1 /\ j = (j - 1) + 1
    BY <1>1
  <2>2. QED
    BY <1>1, <2>1
<1>4. ToSet(q) = {q[1]} \cup {q[i + 1] : i \in 1..Len(q) - 1}
  BY <1>2, <1>3
<1>5. QED
  BY <1>1, <1>2, <1>4

\* A message is about blocks.
LEMMA MsgBlocks ==
    ASSUME NEW m \in Msg
    PROVE  Brings(m) \subseteq Block /\ Asks(m) \subseteq Block
<1>1. m.type \in {"inv", "getdata"} => m.v \in Seq(Block)
  BY DEF Msg
<1>2. m.type = "block" => m.block \in Block
  BY DEF Msg
<1>3. QED
  BY <1>1, <1>2, InSequence DEF Brings, Asks

\* So is a queue of them.
LEMMA QueueBlocks ==
    ASSUME NEW q \in Seq(Msg)
    PROVE  Carried(q) \subseteq Block /\ Requested(q) \subseteq Block
<1>1. \A m \in ToSet(q) : m \in Msg
  BY InSequence
<1>2. QED
  BY <1>1, MsgBlocks DEF Carried, Requested

\* What is in a queue with one more message, and in one queue after another.
LEMMA QueueAppend ==
    ASSUME NEW q \in Seq(Msg), NEW m \in Msg
    PROVE  /\ Append(q, m) \in Seq(Msg)
           /\ Carried(Append(q, m)) = Carried(q) \cup Brings(m)
           /\ Requested(Append(q, m)) = Requested(q) \cup Asks(m)
<1>1. Append(q, m) \in Seq(Msg) /\ ToSet(Append(q, m)) = ToSet(q) \cup {m}
  BY AppendIs
<1>2. QED
  BY <1>1 DEF Carried, Requested

\* What is in one queue after another.
LEMMA QueueConcat ==
    ASSUME NEW q \in Seq(Msg), NEW r \in Seq(Msg)
    PROVE  /\ q \o r \in Seq(Msg)
           /\ Carried(q \o r) = Carried(q) \cup Carried(r)
           /\ Requested(q \o r) = Requested(q) \cup Requested(r)
<1>1. q \o r \in Seq(Msg) /\ ToSet(q \o r) = ToSet(q) \cup ToSet(r)
  BY ConcatIs
<1>2. QED
  BY <1>1 DEF Carried, Requested

\* And in a queue without its first.
LEMMA QueueHeadTail ==
    ASSUME NEW q \in Seq(Msg), q # <<>>
    PROVE  /\ Head(q) \in Msg /\ Tail(q) \in Seq(Msg)
           /\ Carried(q) = Brings(Head(q)) \cup Carried(Tail(q))
           /\ Requested(q) = Asks(Head(q)) \cup Requested(Tail(q))
<1>1. Head(q) \in Msg /\ Tail(q) \in Seq(Msg)
      /\ ToSet(q) = {Head(q)} \cup ToSet(Tail(q))
  BY HeadTailIs
<1>2. QED
  BY <1>1 DEF Carried, Requested

\* Nothing is in the empty queue.
LEMMA QueueEmpty ==
    <<>> \in Seq(Msg) /\ Carried(<<>>) = {} /\ Requested(<<>>) = {}
BY DEF Carried, Requested, ToSet

\* The messages as they are made.
LEMMA MsgIs ==
    /\ \A h \in Nat : MsgVersion(h) \in Msg
          /\ Brings(MsgVersion(h)) = {} /\ Asks(MsgVersion(h)) = {}
    /\ \A s \in Seq(Block) : MsgInv(s) \in Msg
          /\ Brings(MsgInv(s)) = ToSet(s) /\ Asks(MsgInv(s)) = {}
    /\ \A s \in Seq(Block) : MsgGetData(s) \in Msg
          /\ Brings(MsgGetData(s)) = {} /\ Asks(MsgGetData(s)) = ToSet(s)
    /\ \A b \in Block, e \in NoneOrBlock : MsgGetBlocks(b, e) \in Msg
          /\ Brings(MsgGetBlocks(b, e)) = {} /\ Asks(MsgGetBlocks(b, e)) = {}
    /\ \A b \in Block : MsgBlock(b) \in Msg
          /\ Brings(MsgBlock(b)) = {b} /\ Asks(MsgBlock(b)) = {}
BY DEF MsgVersion, MsgInv, MsgGetData, MsgGetBlocks, MsgBlock, Msg, Brings, Asks

-----------------------------------------------------------------------------
(* What the calls of a handler do                                           *)

\* The fields of a node and of a handler's result.
LEMMA NodeFields ==
    ASSUME NEW node \in CNode
    PROVE  /\ node.fInbound \in BOOLEAN /\ node.nStartingHeight \in Int
           /\ node.vRecv \in Seq(Msg) /\ node.setInventoryKnown \in SUBSET Block
           /\ node.vInventoryToSend \in Seq(Block) /\ node.mapAskFor \in Seq(Request)
           /\ node.lastBegin \in NoneOrBlock /\ node.lastEnd \in NoneOrBlock
           /\ node.hashContinue \in NoneOrBlock
BY DEF CNode

\* The parts of a result.
LEMMA ResultFields ==
    ASSUME NEW s \in Result
    PROVE  /\ s.node \in CNode /\ s.asked \in [Block -> Int] /\ s.out \in Seq(Msg)
           /\ s = [node |-> s.node, asked |-> s.asked, out |-> s.out]
BY DEF Result

\* What a message that is sent adds.
LEMMA PushIs ==
    ASSUME NEW s \in Result, NEW m \in Msg
    PROVE  /\ Push(s, m) \in Result /\ Push(s, m).node = s.node
           /\ Push(s, m).asked = s.asked
           /\ Push(s, m).out \in Seq(Msg)
           /\ Carried(Push(s, m).out) = Carried(s.out) \cup Brings(m)
           /\ Requested(Push(s, m).out) = Requested(s.out) \cup Asks(m)
<1>1. s.out \in Seq(Msg)
  BY ResultFields
<1>2. Append(s.out, m) \in Seq(Msg)
      /\ Carried(Append(s.out, m)) = Carried(s.out) \cup Brings(m)
      /\ Requested(Append(s.out, m)) = Requested(s.out) \cup Asks(m)
  BY <1>1, QueueAppend
<1> DEFINE queue == Append(s.out, m)
           t == [s EXCEPT !.out = queue]
<1>3. Push(s, m) = t
  BY DEF Push
<1>4. queue \in Seq(Msg)
  BY <1>2
<1> HIDE DEF queue
<1>5. t \in Result /\ t.node = s.node /\ t.asked = s.asked /\ t.out = queue
  BY <1>4 DEF Result
<1> HIDE DEF t
<1>6. QED
  BY <1>2, <1>3, <1>5 DEF queue

\* What a handler learns that its peer knows.
LEMMA KnowIs ==
    ASSUME NEW s \in Result, NEW b \in Block
    PROVE  LET t == AddInventoryKnown(s, b) IN
           /\ t \in Result /\ t.asked = s.asked /\ t.out = s.out
           /\ t.node.vRecv = s.node.vRecv /\ t.node.mapAskFor = s.node.mapAskFor
           /\ t.node.vInventoryToSend = s.node.vInventoryToSend
           /\ t.node.setInventoryKnown = s.node.setInventoryKnown \cup {b}
           /\ t.node.hashContinue = s.node.hashContinue
<1> DEFINE known == [s.node EXCEPT !.setInventoryKnown = s.node.setInventoryKnown \cup {b}]
           t == [s EXCEPT !.node = known]
<1>1. AddInventoryKnown(s, b) = t
  BY DEF AddInventoryKnown
<1>2. known \in CNode
      /\ known.vRecv = s.node.vRecv /\ known.mapAskFor = s.node.mapAskFor
      /\ known.vInventoryToSend = s.node.vInventoryToSend
      /\ known.setInventoryKnown = s.node.setInventoryKnown \cup {b}
      /\ known.hashContinue = s.node.hashContinue
  BY ResultFields DEF CNode
<1> HIDE DEF known
<1>3. t \in Result /\ t.node = known /\ t.asked = s.asked /\ t.out = s.out
  BY <1>2 DEF Result
<1> HIDE DEF t
<1>4. QED
  BY <1>1, <1>2, <1>3

\* A block queued for a peer adds nothing but itself to what is announced.
LEMMA PushToIs ==
    ASSUME NEW node \in CNode, NEW b \in Block
    PROVE  LET to == PushInventoryTo(node, b) IN
           /\ to \in CNode
           /\ to.vRecv = node.vRecv /\ to.mapAskFor = node.mapAskFor
           /\ to.setInventoryKnown = node.setInventoryKnown
           /\ ToSet(to.vInventoryToSend) \subseteq ToSet(node.vInventoryToSend) \cup {b}
<1> DEFINE queue == Append(node.vInventoryToSend, b)
           queued == [node EXCEPT !.vInventoryToSend = queue]
<1>1. queue \in Seq(Block) /\ ToSet(queue) = ToSet(node.vInventoryToSend) \cup {b}
  BY NodeFields, AppendIs
<1> HIDE DEF queue
<1>2. /\ queued \in CNode
      /\ queued.vRecv = node.vRecv /\ queued.mapAskFor = node.mapAskFor
      /\ queued.setInventoryKnown = node.setInventoryKnown
      /\ queued.vInventoryToSend = queue
  BY <1>1 DEF CNode
<1>3. PushInventoryTo(node, b) \in {node, queued}
  BY DEF PushInventoryTo, queue
<1> HIDE DEF queued
<1>4. QED
  BY <1>1, <1>2, <1>3

\* What a loop of announcements leaves.
LEMMA PushInTurnIs ==
    ASSUME NEW node \in CNode, NEW blocks \in Seq(Block)
    PROVE  LET to == PushInTurn(node, blocks) IN
           /\ to \in CNode
           /\ to.vRecv = node.vRecv /\ to.mapAskFor = node.mapAskFor
           /\ to.setInventoryKnown = node.setInventoryKnown
           /\ ToSet(to.vInventoryToSend)
                 \subseteq ToSet(node.vInventoryToSend) \cup ToSet(blocks)
<1> DEFINE N == Len(blocks)
           Runs(g) == g = [i \in 0..N |-> IF i = 0 THEN node
                                          ELSE PushInventoryTo(g[i - 1], blocks[i])]
           f == CHOOSE g : Runs(g)
           step == [x \in CNode \X (1..N) |-> PushInventoryTo(x[1], blocks[x[2]])]
<1>1. N \in Nat /\ \A i \in 1..N : blocks[i] \in Block /\ blocks[i] \in ToSet(blocks)
  BY InSequence
<1>2. \E g : Runs(g)
  <2>1. Turns(CNode, N, step)
    BY <1>1, PushToIs DEF Turns
  <2>2. PICK g : Loop(g, CNode, node, N, step)
    <3> HIDE DEF step, N
    <3>1. QED
      BY <1>1, <2>1, LoopRuns
  <2>3. \A i \in 1..N : g[i - 1] \in CNode
    BY <1>1, <2>2 DEF Loop
  <2>4. \A i \in 1..N : step[<<g[i - 1], i>>] = PushInventoryTo(g[i - 1], blocks[i])
    BY <2>3
  <2> HIDE DEF step, N
  <2>5. \A i \in 0..N : g[i] = IF i = 0 THEN node ELSE PushInventoryTo(g[i - 1], blocks[i])
    <3>1. \A i \in 0..N : i # 0 => i \in 1..N
      BY <1>1
    <3>2. QED
      BY <2>2, <2>4, <3>1 DEF Loop
  <2>6. QED
    BY <2>2, <2>5 DEF Loop
<1>3. Runs(f)
  BY <1>2
<1>4. PushInTurn(node, blocks) = f[N]
  BY DEF PushInTurn
<1> HIDE DEF f
<1>5. f[0] = node /\ \A i \in 1..N : f[i] = PushInventoryTo(f[i - 1], blocks[i])
  BY <1>1, <1>3
<1> DEFINE Kept == {t \in CNode :
               /\ t.vRecv = node.vRecv /\ t.mapAskFor = node.mapAskFor
               /\ t.setInventoryKnown = node.setInventoryKnown
               /\ ToSet(t.vInventoryToSend)
                     \subseteq ToSet(node.vInventoryToSend) \cup ToSet(blocks)}
           S == [i \in 0..N |-> Kept]
<1>6. f[0] \in S[0]
  BY <1>1, <1>5
<1>7. ASSUME NEW i \in 1..N, f[i - 1] \in S[i - 1] PROVE f[i] \in S[i]
  <2>1. f[i - 1] \in Kept
    BY <1>1, <1>7
  <2>2. f[i] \in Kept
    <3> DEFINE x == f[i - 1]
               y == PushInventoryTo(x, blocks[i])
    <3>1. x \in CNode /\ blocks[i] \in Block /\ blocks[i] \in ToSet(blocks) /\ f[i] = y
      BY <1>1, <1>5, <2>1
    <3>2. /\ x.vRecv = node.vRecv /\ x.mapAskFor = node.mapAskFor
          /\ x.setInventoryKnown = node.setInventoryKnown
          /\ ToSet(x.vInventoryToSend)
                \subseteq ToSet(node.vInventoryToSend) \cup ToSet(blocks)
      BY <2>1
    <3> HIDE DEF x
    <3>3. /\ y \in CNode /\ y.vRecv = x.vRecv /\ y.mapAskFor = x.mapAskFor
          /\ y.setInventoryKnown = x.setInventoryKnown
          /\ ToSet(y.vInventoryToSend) \subseteq ToSet(x.vInventoryToSend) \cup {blocks[i]}
      BY <3>1, PushToIs
    <3> HIDE DEF y
    <3>4. QED
      BY <3>1, <3>2, <3>3
  <2>3. QED
    BY <1>1, <2>2
<1>8. f[N] \in S[N]
  <2>1. N \in Nat /\ N \in 0..N
    BY <1>1
  <2> HIDE DEF S, N
  <2>2. \A i \in 0..N : f[i] \in S[i]
    BY ONLY <1>6, <1>7, <2>1, InTurn
  <2>3. QED
    BY ONLY <2>1, <2>2
<1>9. f[N] \in Kept
  BY <1>1, <1>8
<1>10. QED
  BY <1>4, <1>9

\* What a relay of blocks adds is among them.
LEMMA RelayIs ==
    ASSUME NEW node \in CNode, NEW blocks \in Seq(Block)
    PROVE  LET to == RelayTo(node, blocks) IN
           /\ to \in CNode
           /\ to.vRecv = node.vRecv /\ to.mapAskFor = node.mapAskFor
           /\ to.setInventoryKnown = node.setInventoryKnown
           /\ ToSet(to.vInventoryToSend)
                 \subseteq ToSet(node.vInventoryToSend) \cup ToSet(blocks)
<1> DEFINE height == IF node.nStartingHeight # -1
                     THEN node.nStartingHeight - RelayWindow ELSE BlockEstimate
           some == Among(blocks, {b \in Block : nHeight[b] > height})
<1>1. RelayTo(node, blocks) = PushInTurn(node, some)
  BY DEF RelayTo
<1>2. some \in Seq(Block) /\ ToSet(some) \subseteq ToSet(blocks)
  BY AmongIs
<1> HIDE DEF some
<1>3. QED
  BY <1>1, <1>2, PushInTurnIs

\* A request joins those that wait.
LEMMA AskForIs ==
    ASSUME NEW s \in Result, NEW b \in Block
    PROVE  LET t == AskFor(s, b) IN
           /\ t \in Result /\ t.out = s.out
           /\ t.node.vRecv = s.node.vRecv
           /\ t.node.vInventoryToSend = s.node.vInventoryToSend
           /\ t.node.setInventoryKnown = s.node.setInventoryKnown
           /\ Asked(t.node.mapAskFor) = Asked(s.node.mapAskFor) \cup {b}
<1> DEFINE queue == s.node.mapAskFor
           due == IF s.asked[b] + Retry > 0 THEN s.asked[b] + Retry ELSE 0
           later == {r \in ToSet(queue) : r.due > due}
           new == [due |-> due, inv |-> b]
           first == Among(queue, ToSet(queue) \ later)
           last == Among(queue, later)
           one == <<new>>
           front == first \o one
           asks == front \o last
           node == [s.node EXCEPT !.mapAskFor = asks]
           asked == [s.asked EXCEPT ![b] = due]
           t == [s EXCEPT !.asked = asked, !.node = node]
<1>1. s.node \in CNode /\ s.asked \in [Block -> Int] /\ queue \in Seq(Request)
  BY ResultFields, NodeFields
<1>2. Retry \in Nat
  BY DownloadAssumption
<1>3. due \in Nat
  <2>1. s.asked[b] + Retry \in Int
    BY <1>1, <1>2
  <2>2. QED
    BY <2>1
<1>4. new \in Request /\ new.inv = b
  BY <1>3 DEF Request
<1>5. AskFor(s, b) = t
  BY DEF AskFor
<1> HIDE DEF due, new
<1>6. /\ first \in Seq(Request) /\ ToSet(first) = ToSet(queue) \cap (ToSet(queue) \ later)
      /\ last \in Seq(Request) /\ ToSet(last) = ToSet(queue) \cap later
  BY <1>1, AmongIs
<1> HIDE DEF first, last, later
<1>7. asks \in Seq(Request) /\ ToSet(asks) = ToSet(first) \cup {new} \cup ToSet(last)
  <2>1. one \in Seq(Request) /\ ToSet(one) = {new}
    BY <1>4 DEF ToSet
  <2> HIDE DEF one
  <2>2. front \in Seq(Request) /\ ToSet(front) = ToSet(first) \cup {new}
    BY <1>6, <2>1, ConcatIs
  <2> HIDE DEF front
  <2>3. QED
    BY <1>6, <2>2, ConcatIs
<1>8. Asked(asks) = Asked(queue) \cup {b}
  BY <1>4, <1>6, <1>7 DEF Asked
<1> HIDE DEF asks
<1>9. /\ node \in CNode /\ node.mapAskFor = asks /\ node.vRecv = s.node.vRecv
      /\ node.vInventoryToSend = s.node.vInventoryToSend
      /\ node.setInventoryKnown = s.node.setInventoryKnown
  BY <1>1, <1>7 DEF CNode
<1>10. asked \in [Block -> Int]
  BY <1>1, <1>3
<1> HIDE DEF node, asked
<1>11. t \in Result /\ t.node = node /\ t.out = s.out
  BY <1>9, <1>10 DEF Result
<1> HIDE DEF t
<1>12. QED
  BY <1>5, <1>8, <1>9, <1>11

\* A request for more announces nothing and asks for no block.
LEMMA PushGetBlocksIs ==
    ASSUME NEW s \in Result, NEW begin \in Block, NEW end \in NoneOrBlock
    PROVE  LET t == PushGetBlocks(s, begin, end) IN
           /\ t \in Result /\ t.asked = s.asked
           /\ t.node.vRecv = s.node.vRecv /\ t.node.mapAskFor = s.node.mapAskFor
           /\ t.node.vInventoryToSend = s.node.vInventoryToSend
           /\ t.node.setInventoryKnown = s.node.setInventoryKnown
           /\ Carried(t.out) = Carried(s.out) /\ Requested(t.out) = Requested(s.out)
<1> DEFINE node == [s.node EXCEPT !.lastBegin = begin, !.lastEnd = end]
           r == [s EXCEPT !.node.lastBegin = begin, !.node.lastEnd = end]
<1>1. s.node \in CNode
  BY ResultFields
<1>2. /\ node \in CNode /\ node.vRecv = s.node.vRecv
      /\ node.mapAskFor = s.node.mapAskFor
      /\ node.vInventoryToSend = s.node.vInventoryToSend
      /\ node.setInventoryKnown = s.node.setInventoryKnown
  BY <1>1 DEF CNode, NoneOrBlock
<1>3. r = [s EXCEPT !.node = node]
  BY <1>1, ResultFields DEF Result, CNode
<1> HIDE DEF node
<1>4. r \in Result /\ r.node = node /\ r.out = s.out /\ r.asked = s.asked
  BY <1>2, <1>3 DEF Result
<1>5. PushGetBlocks(s, begin, end) \in {s, Push(r, MsgGetBlocks(begin, end))}
  BY DEF PushGetBlocks
<1> HIDE DEF r
<1>6. MsgGetBlocks(begin, end) \in Msg
      /\ Brings(MsgGetBlocks(begin, end)) = {} /\ Asks(MsgGetBlocks(begin, end)) = {}
  BY MsgIs
<1>7. QED
  BY <1>2, <1>4, <1>5, <1>6, PushIs

-----------------------------------------------------------------------------
(* Orphans and branches                                                     *)

\* Among blocks of one branch the highest is the heaviest.
LEMMA HeaviestIs ==
    ASSUME NEW b \in Block, NEW S \in SUBSET Branch[b], S # {}
    PROVE  Heaviest(S) \in S
<1>1. PICK a \in S : \A c \in S : nHeight[c] <= nHeight[a]
  BY HighestBlock
<1>2. a \in Branch[b] /\ a \in Block /\ \A c \in S : c \in Branch[b]
  BY BranchClosed
<1>3. \A c \in S : nChainTrust[c] <= nChainTrust[a]
  BY <1>1, <1>2, BranchOrdered, BranchTrust
<1>4. QED
  BY <1>1, <1>3 DEF Heaviest

\* What an orphan waits for, and where its chain starts.
LEMMA OrphanRoot ==
    ASSUME NEW orphans \in SUBSET Block, Genesis \notin orphans, NEW b \in orphans
    PROVE  WantedByOrphan(orphans, b) \in Block /\ GetOrphanRoot(orphans, b) \in Block
<1>1. Genesis \in Branch[b] \ orphans /\ Branch[b] \ orphans \in SUBSET Branch[b]
  BY BranchRoot
<1>2. WantedByOrphan(orphans, b) \in Branch[b] \ orphans
  BY <1>1, HeaviestIs DEF WantedByOrphan
<1>3. WantedByOrphan(orphans, b) # b
  BY <1>2
<1>4. \E r \in Branch[b] : pprev[r] = WantedByOrphan(orphans, b)
  BY <1>2, <1>3, ChildOnBranch
<1>5. GetOrphanRoot(orphans, b) \in Branch[b]
  BY <1>4 DEF GetOrphanRoot
<1>6. QED
  BY <1>2, <1>5, BranchClosed

\* Every branch has a proof-of-work block, since genesis is one.
LEMMA LastProofOfWorkIs ==
    ASSUME NEW b \in Block
    PROVE  LastProofOfWork(b) \in Branch[b]
<1>1. Genesis \in Branch[b] \ ProofOfStake /\ Branch[b] \ ProofOfStake \in SUBSET Branch[b]
  BY BranchRoot, DownloadAssumption
<1>2. QED
  BY <1>1, HeaviestIs DEF LastProofOfWork

\* The blocks of the main chain above a block of it.
LEMMA MainChainIs ==
    ASSUME NEW n, pindexBest[n] \in Block, NEW b \in Branch[pindexBest[n]]
    PROVE  /\ MainChainAbove(n, b) \in Seq(Block)
           /\ ToSet(MainChainAbove(n, b)) \subseteq Branch[pindexBest[n]]
<1> DEFINE best == pindexBest[n]
           N == nHeight[best] - nHeight[b]
<1>1. b \in Block /\ nHeight[b] \in Nat /\ nHeight[best] \in Nat
      /\ nHeight[b] <= nHeight[best] /\ nHeight[Genesis] <= nHeight[b]
      /\ nHeight[Genesis] \in Nat
  BY BranchClosed, BranchHeight, BranchRoot, TreeAssumption
<1>2. N \in Nat
  BY <1>1
<1>3. ASSUME NEW i \in 1..N
      PROVE  TraceBack(best, nHeight[b] + i) \in Branch[best]
  <2>1. nHeight[b] + i \in Nat /\ nHeight[Genesis] <= nHeight[b] + i
        /\ nHeight[b] + i <= nHeight[best]
    BY <1>1
  <2>2. QED
    BY <2>1, TraceBackFinds
<1>4. MainChainAbove(n, b) = [i \in 1..N |-> TraceBack(best, nHeight[b] + i)]
  BY DEF MainChainAbove
<1>5. \A i \in 1..N : TraceBack(best, nHeight[b] + i) \in Block
  BY <1>3, BranchClosed
<1> HIDE DEF N, best
<1> DEFINE q == [i \in 1..N |-> TraceBack(best, nHeight[b] + i)]
<1>6. q \in Seq(Block) /\ ToSet(q) = {TraceBack(best, nHeight[b] + i) : i \in 1..N}
  BY <1>2, <1>5 DEF ToSet
<1>7. ToSet(q) \subseteq Branch[best]
  BY <1>3, <1>6
<1> HIDE DEF q
<1>8. QED
  BY <1>4, <1>6, <1>7 DEF q, best

\* The branch of a block of a down-closed set is part of the set.
LEMMA BranchWithin ==
    ASSUME NEW S \in SUBSET Block, DownClosed(S), NEW b \in S
    PROVE  Branch[b] \subseteq S
BY BranchLeast

\* The blocks of an order are the block and the orphans it sets free.
LEMMA OrderIs ==
    ASSUME NEW n, mapOrphanBlocks[n] \in SUBSET Block, IsFiniteSet(mapOrphanBlocks[n]),
           NEW b \in Block, NEW order \in Orders(n, b)
    PROVE  /\ order \in Seq(Block)
           /\ ToSet(order) = {b} \cup {o \in mapOrphanBlocks[n] :
                 /\ b \in Branch[o]
                 /\ Branch[o] \ Branch[b] \subseteq mapOrphanBlocks[n]}
<1> DEFINE freed == {o \in mapOrphanBlocks[n] :
                 /\ b \in Branch[o]
                 /\ Branch[o] \ Branch[b] \subseteq mapOrphanBlocks[n]}
<1>1. PICK s \in SetToSeqs(freed) : order = <<b>> \o s
  BY DEF Orders
<1>2. IsFiniteSet(freed) /\ freed \in SUBSET Block
  BY FS_Subset
<1> DEFINE N == Cardinality(freed)
<1> HIDE DEF freed
<1>3. N \in Nat
  BY <1>2, FS_CardinalityType
<1>4. s \in [1..N -> freed] /\ \A i, j \in 1..N : i # j => s[i] # s[j]
  BY <1>1 DEF SetToSeqs
<1> HIDE DEF N
<1>5. s \in Seq(Block) /\ ToSet(s) = {s[i] : i \in 1..N}
  BY <1>2, <1>3, <1>4 DEF ToSet
<1>6. IsFiniteSet(1..N) /\ Cardinality(1..N) = N
  <2>1. IsFiniteSet(1..N) /\ Cardinality(1..N) = IF 1 > N THEN 0 ELSE N - 1 + 1
    BY <1>3, FS_Interval
  <2>2. (IF 1 > N THEN 0 ELSE N - 1 + 1) = N
    BY <1>3
  <2>3. QED
    BY <2>1, <2>2
<1>7. s \in Injection(1..N, freed)
  BY <1>4 DEF Injection, IsInjective
<1>8. s \in Surjection(1..N, freed)
  BY <1>2, <1>6, <1>7, FS_Injection DEF N
<1>9. {s[i] : i \in 1..N} = freed
  BY <1>4, <1>8 DEF Surjection
<1>10. <<b>> \in Seq(Block) /\ ToSet(<<b>>) = {b}
  BY DEF ToSet
<1> DEFINE one == <<b>>
<1>11. one \o s \in Seq(Block) /\ ToSet(one \o s) = ToSet(one) \cup ToSet(s)
  <2> HIDE DEF one
  <2>1. one \in Seq(Block)
    BY <1>10 DEF one
  <2>2. QED
    BY <1>5, <2>1, ConcatIs
<1>12. QED
  BY <1>1, <1>5, <1>9, <1>10, <1>11 DEF freed

\* With an order in it an index is still closed, and each block of it not of the orphans.
LEMMA OrderCloses ==
    ASSUME NEW n, NEW index \in SUBSET Block, DownClosed(index),
           mapOrphanBlocks[n] \in SUBSET Block, IsFiniteSet(mapOrphanBlocks[n]),
           NEW b \in Block, pprev[b] \in index, NEW order \in Orders(n, b)
    PROVE  DownClosed(index \cup ToSet(order))
<1> DEFINE freed == {o \in mapOrphanBlocks[n] :
                 /\ b \in Branch[o]
                 /\ Branch[o] \ Branch[b] \subseteq mapOrphanBlocks[n]}
<1>1. ToSet(order) = {b} \cup freed
  BY OrderIs
<1>2. ASSUME NEW o \in freed, pprev[o] # NoBlock, o # b
      PROVE  pprev[o] \in {b} \cup freed \cup index
  <2>1. o \in Block /\ o \in mapOrphanBlocks[n] /\ b \in Branch[o]
        /\ Branch[o] \ Branch[b] \subseteq mapOrphanBlocks[n]
    OBVIOUS
  <2> DEFINE a == pprev[o]
  <2>2. o \in Block \ {Genesis}
    BY <1>2, <2>1, TreeAssumption
  <2>3. a \in Block /\ Branch[o] = {o} \cup Branch[a] /\ a \in Branch[a]
    BY <2>2, BranchStep, BranchClosed
  <2>4. b \in Branch[a]
    BY <1>2, <2>1, <2>3
  <2> HIDE DEF freed, a
  <2>5. CASE a = b
    BY <2>5 DEF a
  <2>6. CASE a # b
    <3>1. a \notin Branch[b]
      <4>1. nHeight[b] < nHeight[a]
        BY <2>3, <2>4, <2>6, BranchHeight
      <4>2. a \in Branch[b] => nHeight[a] <= nHeight[b]
        BY BranchHeight
      <4>3. nHeight[a] \in Nat /\ nHeight[b] \in Nat
        BY <2>3, TreeAssumption
      <4>4. QED
        BY <4>1, <4>2, <4>3
    <3>2. a \in mapOrphanBlocks[n]
      BY <2>1, <2>3, <3>1
    <3>3. Branch[a] \ Branch[b] \subseteq mapOrphanBlocks[n]
      BY <2>1, <2>3
    <3>4. a \in freed
      BY <2>4, <3>2, <3>3 DEF freed
    <3>5. QED
      BY <3>4 DEF a
  <2>7. QED
    BY <2>5, <2>6
<1>3. QED
  BY <1>1, <1>2 DEF DownClosed

\* Blocks accepted in turn: the best is one of them or what it was.
LEMMA AcceptIs ==
    ASSUME NEW best \in Block, NEW order \in Seq(Block)
    PROVE  LET r == AcceptInTurn(best, order) IN
           /\ r.best \in {best} \cup ToSet(order)
           /\ r.relayed \in Seq(Block) /\ ToSet(r.relayed) \subseteq ToSet(order)
<1> DEFINE N == Len(order)
           T == [best : Block, relayed : Seq(Block)]
           start == [best |-> best, relayed |-> <<>>]
           one(r, b) == IF nChainTrust[b] > nChainTrust[r.best]
                        THEN [best |-> b, relayed |-> Append(r.relayed, b)] ELSE r
           Runs(g) == g = [i \in 0..N |-> IF i = 0 THEN start ELSE one(g[i - 1], order[i])]
           f == CHOOSE g : Runs(g)
           step == [x \in T \X (1..N) |-> one(x[1], order[x[2]])]
<1>1. N \in Nat /\ \A i \in 1..N : order[i] \in Block /\ order[i] \in ToSet(order)
  BY InSequence
<1>2. start \in T
  OBVIOUS
<1>3. ASSUME NEW r \in T, NEW b \in Block
      PROVE  /\ one(r, b) \in T /\ one(r, b).best \in {r.best, b}
             /\ ToSet(one(r, b).relayed) \subseteq ToSet(r.relayed) \cup {b}
  <2> DEFINE t == Append(r.relayed, b)
  <2>1. r.best \in Block /\ r.relayed \in Seq(Block)
    OBVIOUS
  <2>2. t \in Seq(Block) /\ ToSet(t) = ToSet(r.relayed) \cup {b}
    BY <2>1, AppendIs
  <2>3. one(r, b) \in {r, [best |-> b, relayed |-> t]}
    OBVIOUS
  <2> HIDE DEF one, t
  <2>4. QED
    BY <2>1, <2>2, <2>3
<1> HIDE DEF one
<1>4. \E g : Runs(g)
  <2>1. Turns(T, N, step)
    <3> HIDE DEF T
    <3>1. QED
      BY <1>1, <1>3 DEF Turns
  <2> HIDE DEF T, start
  <2>2. PICK g : Loop(g, T, start, N, step)
    <3> HIDE DEF step, N
    <3>1. QED
      BY <1>1, <1>2, <2>1, LoopRuns
  <2>3. \A i \in 1..N : g[i - 1] \in T
    BY <1>1, <2>2 DEF Loop
  <2>4. \A i \in 1..N : step[<<g[i - 1], i>>] = one(g[i - 1], order[i])
    BY <2>3
  <2> HIDE DEF step, N
  <2>5. \A i \in 0..N : g[i] = IF i = 0 THEN start ELSE one(g[i - 1], order[i])
    <3>1. \A i \in 0..N : i # 0 => i \in 1..N
      BY <1>1
    <3>2. QED
      BY <2>2, <2>4, <3>1 DEF Loop
  <2>6. QED
    BY <2>2, <2>5 DEF Loop
<1>5. Runs(f)
  BY <1>4
<1>6. AcceptInTurn(best, order) = f[N]
  BY DEF AcceptInTurn, one
<1> HIDE DEF f
<1>7. f[0] = start /\ \A i \in 1..N : f[i] = one(f[i - 1], order[i])
  <2> HIDE DEF start
  <2>1. QED
    BY <1>1, <1>5
<1> DEFINE Kept == {r \in T : r.best \in {best} \cup ToSet(order)
                              /\ ToSet(r.relayed) \subseteq ToSet(order)}
           S == [i \in 0..N |-> Kept]
<1>8. f[0] \in S[0]
  <2>1. start.best = best /\ start.relayed = <<>> /\ ToSet(<<>>) = {}
    BY DEF ToSet
  <2> HIDE DEF start, T
  <2>2. QED
    BY <1>1, <1>2, <1>7, <2>1
<1>9. ASSUME NEW i \in 1..N, f[i - 1] \in S[i - 1] PROVE f[i] \in S[i]
  <2>1. f[i - 1] \in Kept
    BY <1>1, <1>9
  <2> DEFINE x == f[i - 1]
             y == one(x, order[i])
  <2>2. f[i] = y /\ order[i] \in Block /\ order[i] \in ToSet(order)
    BY <1>1, <1>7
  <2>3. x \in T /\ x.best \in {best} \cup ToSet(order) /\ ToSet(x.relayed) \subseteq ToSet(order)
    BY <2>1
  <2> HIDE DEF x, T
  <2>4. y \in T /\ y.best \in {x.best, order[i]}
        /\ ToSet(y.relayed) \subseteq ToSet(x.relayed) \cup {order[i]}
    BY <1>3, <2>2, <2>3
  <2> HIDE DEF y
  <2>5. f[i] \in Kept
    BY <2>2, <2>3, <2>4
  <2>6. QED
    BY <1>1, <2>5
<1>10. f[N] \in S[N]
  <2>1. N \in Nat /\ N \in 0..N
    BY <1>1
  <2> HIDE DEF S, N
  <2>2. \A i \in 0..N : f[i] \in S[i]
    BY ONLY <1>8, <1>9, <2>1, InTurn
  <2>3. QED
    BY ONLY <2>1, <2>2
<1>11. f[N] \in Kept
  BY <1>1, <1>10
<1>12. QED
  BY <1>6, <1>11

-----------------------------------------------------------------------------
(* Steps                                                                    *)

\* A connection is not what stands where there is none.
LEMMA NodeOrNone == \A node \in CNode : node # NoCNode
<1>1. \A node \in CNode : "mapAskFor" \in DOMAIN node
  BY DEF CNode
<1>2. "mapAskFor" \notin DOMAIN NoCNode
  BY DEF NoCNode
<1>3. QED
  BY <1>1, <1>2

\* What a node keeps for a peer it is connected to.
LEMMA ConnectedIs ==
    ASSUME Types, NEW n \in Node, NEW p \in Node
    PROVE  Connected(n, p) <=> cnode[n][p] \in CNode
<1>1. cnode[n][p] \in CNode \cup {NoCNode}
  BY DEF Types
<1>2. QED
  BY <1>1, NodeOrNone DEF Connected

\* The same after a step.
LEMMA ConnectedIsAfter ==
    ASSUME Types', NEW n \in Node, NEW p \in Node
    PROVE  Connected(n, p)' <=> cnode'[n][p] \in CNode
<1>1. cnode'[n][p] \in CNode \cup {NoCNode}
  BY DEF Types
<1>2. QED
  BY <1>1, NodeOrNone DEF Connected

(* What a step leaves of what n has said to p: nothing n has not got, and   *)
(* nothing on its way is lost but what p has.                              *)
PairStep(n, p) ==
    /\ mapBlockIndex[n] \subseteq mapBlockIndex'[n] /\ Have(p) \subseteq Have(p)'
    /\ Carried(cnode'[p][n].vRecv) \subseteq mapBlockIndex'[n]
    /\ ToSet(cnode'[n][p].vInventoryToSend) \subseteq mapBlockIndex'[n]
    /\ n \notin world.silent =>
          /\ cnode'[n][p].setInventoryKnown
                \subseteq cnode[n][p].setInventoryKnown
                          \cup Have(p) \cup (mapBlockIndex'[n] \cap OnTheWay(n, p)')
          /\ mapBlockIndex[n] \cap OnTheWay(n, p) \subseteq Have(p)' \cup OnTheWay(n, p)'

\* Such a step keeps what n has said to p sound and known.
LEMMA PairKept ==
    ASSUME NEW n, NEW p, Sound(n, p), Known(n, p), PairStep(n, p),
           world'.silent = world.silent
    PROVE  Sound(n, p)' /\ Known(n, p)'
<1>1. Sound(n, p)'
  BY DEF Sound, PairStep
<1>2. Known(n, p)'
  BY DEF Known, PairStep
<1>3. QED
  BY <1>1, <1>2

\* What Commit writes.
Committed(n, p, r) ==
    /\ cnode' \in [Node -> [Node -> CNode \cup {NoCNode}]]
    /\ \A a, b \in Node : Connected(a, b)' <=> Connected(a, b)
    /\ mapAlreadyAskedFor' \in [Node -> [Block -> Int]]
    /\ cnode'[n][p] = r.node
    /\ Carried(cnode'[p][n].vRecv) = Carried(cnode[p][n].vRecv) \cup Carried(r.out)
    /\ Requested(cnode'[p][n].vRecv) = Requested(cnode[p][n].vRecv) \cup Requested(r.out)
    /\ cnode'[p][n].mapAskFor = cnode[p][n].mapAskFor
    /\ cnode'[p][n].vInventoryToSend = cnode[p][n].vInventoryToSend
    /\ cnode'[p][n].setInventoryKnown = cnode[p][n].setInventoryKnown
    /\ \A a, b \in Node : <<a, b>> \notin {<<n, p>>, <<p, n>>} =>
          cnode'[a][b] = cnode[a][b]

\* Commit writes both ends of the connection and nothing else of the nodes.
LEMMA CommitIs ==
    ASSUME Types, NEW n \in Node, NEW p \in Node, Connected(n, p),
           NEW r \in Result, Commit(n, p, r)
    PROVE  Committed(n, p, r)
<1> DEFINE peer == cnode[p][n]
           queue == peer.vRecv \o r.out
           after == [peer EXCEPT !.vRecv = queue]
<1>1. /\ cnode \in [Node -> [Node -> CNode \cup {NoCNode}]] /\ n # p
      /\ mapAlreadyAskedFor \in [Node -> [Block -> Int]]
      /\ Connected(p, n)
  BY DEF Types
<1>2. peer \in CNode /\ r.node \in CNode /\ r.out \in Seq(Msg)
      /\ r.asked \in [Block -> Int]
  BY <1>1, ConnectedIs, ResultFields
<1>3. queue \in Seq(Msg) /\ Carried(queue) = Carried(peer.vRecv) \cup Carried(r.out)
      /\ Requested(queue) = Requested(peer.vRecv) \cup Requested(r.out)
  BY <1>2, NodeFields, QueueConcat
<1>4. /\ cnode' = [cnode EXCEPT ![n][p] = r.node, ![p][n].vRecv = @ \o r.out]
      /\ mapAlreadyAskedFor' = [mapAlreadyAskedFor EXCEPT ![n] = r.asked]
  BY DEF Commit
<1>5. cnode'[n][p] = r.node
  BY <1>1, <1>4
<1>6. cnode'[p][n] = after
  BY <1>1, <1>4
<1>7. \A a, b \in Node : <<a, b>> \notin {<<n, p>>, <<p, n>>} => cnode'[a][b] = cnode[a][b]
  BY <1>1, <1>4
<1> HIDE DEF queue
<1>8. after \in CNode /\ after.vRecv = queue
      /\ after.mapAskFor = peer.mapAskFor
      /\ after.vInventoryToSend = peer.vInventoryToSend
      /\ after.setInventoryKnown = peer.setInventoryKnown
  BY <1>2, <1>3 DEF CNode
<1> HIDE DEF after
<1>9. \A a, b \in Node : cnode'[a][b] \in CNode \cup {NoCNode}
  BY <1>1, <1>2, <1>5, <1>6, <1>7, <1>8
<1>10. cnode' \in [Node -> [Node -> CNode \cup {NoCNode}]]
  <2>1. DOMAIN cnode' = Node /\ \A a \in Node : cnode'[a] \in [Node -> CNode \cup {NoCNode}]
    <3>1. cnode' = [a \in Node |-> cnode'[a]]
      BY <1>1, <1>4
    <3>2. \A a \in Node : cnode'[a] = [b \in Node |-> cnode'[a][b]]
      BY <1>1, <1>4
    <3>3. QED
      BY <1>9, <3>1, <3>2
  <2>2. cnode' = [a \in Node |-> cnode'[a]]
    BY <1>1, <1>4
  <2>3. QED
    BY <2>1, <2>2
<1>11. \A a, b \in Node : Connected(a, b)' <=> Connected(a, b)
  <2>1. SUFFICES ASSUME NEW a \in Node, NEW b \in Node
                 PROVE  Connected(a, b)' <=> Connected(a, b)
    OBVIOUS
  <2>2. CASE <<a, b>> \notin {<<n, p>>, <<p, n>>}
    BY <1>7, <2>2 DEF Connected
  <2>3. CASE <<a, b>> = <<n, p>>
    BY <1>2, <1>5, <2>3, NodeOrNone DEF Connected
  <2>4. CASE <<a, b>> = <<p, n>>
    BY <1>1, <1>6, <1>8, <2>4, NodeOrNone DEF Connected
  <2>5. QED
    BY <2>2, <2>3, <2>4
<1>12. mapAlreadyAskedFor' \in [Node -> [Block -> Int]]
  BY <1>1, <1>2, <1>4
<1>13. QED
  BY <1>3, <1>5, <1>6, <1>7, <1>8, <1>10, <1>11, <1>12 DEF Committed

(* What a handler's result keeps: n sends only what it has, every block     *)
(* that p announced or sent n has or asks for, and every block that p      *)
(* asked for, lest n is silent or lacks it, n sends.                       *)
Keeps(n, p, r, have) ==
    /\ Carried(r.out) \subseteq mapBlockIndex[n]
    /\ ToSet(r.node.vInventoryToSend) \subseteq mapBlockIndex[n]
    /\ r.node.setInventoryKnown
          \subseteq cnode[n][p].setInventoryKnown \cup Have(p) \cup Carried(r.out)
    /\ Carried(r.node.vRecv) \subseteq Carried(cnode[n][p].vRecv)
    /\ Carried(cnode[n][p].vRecv) \cup Asked(cnode[n][p].mapAskFor)
          \subseteq have \cup Carried(r.node.vRecv) \cup Asked(r.node.mapAskFor)
                    \cup Requested(r.out)
    /\ n \notin world.silent =>
          mapBlockIndex[n] \cap Requested(cnode[n][p].vRecv)
              \subseteq Requested(r.node.vRecv) \cup Carried(r.out)

\* A result that keeps all this, committed, keeps the invariant.
LEMMA CommitKeeps ==
    ASSUME DownloadInv, NEW n \in Node, NEW p \in Node, Connected(n, p),
           NEW r \in Result, Commit(n, p, r), Keeps(n, p, r, Have(n)'),
           Blocks', nAskedForBlocks' \in [Node -> BOOLEAN], world' = world,
           \A a \in Node : mapBlockIndex[a] \subseteq mapBlockIndex'[a]
                           /\ Have(a) \subseteq Have(a)'
    PROVE  DownloadInv'
<1>1. Types
  BY DEF DownloadInv
<1>2. Committed(n, p, r)
  BY <1>1, CommitIs
<1>3. Types'
  BY <1>1, <1>2 DEF Types, Committed
<1>4. n # p /\ Sound(n, p) /\ Sound(p, n)
  BY <1>1 DEF DownloadInv, Types
<1>5. PairStep(n, p)
  BY <1>2, <1>4 DEF PairStep, OnTheWay, Sound, Keeps, Committed
<1>6. PairStep(p, n)
  BY <1>2, <1>4 DEF PairStep, OnTheWay, Sound, Keeps, Committed
<1>7. ASSUME NEW a \in Node, NEW b \in Node, Connected(a, b),
             <<a, b>> \notin {<<n, p>>, <<p, n>>}
      PROVE  PairStep(a, b)
  <2>1. cnode'[a][b] = cnode[a][b] /\ cnode'[b][a] = cnode[b][a]
    BY <1>2, <1>7 DEF Committed
  <2>2. Sound(a, b)
    BY <1>7 DEF DownloadInv
  <2>3. QED
    BY <2>1, <2>2 DEF PairStep, OnTheWay, Sound
<1>8. ASSUME NEW a \in Node, NEW b \in Node, Connected(a, b)'
      PROVE  Sound(a, b)' /\ Known(a, b)'
  <2>1. Connected(a, b) /\ Sound(a, b) /\ Known(a, b)
    BY <1>2, <1>8 DEF DownloadInv, Committed
  <2>2. PairStep(a, b)
    BY <1>5, <1>6, <1>7, <2>1
  <2>3. QED
    BY <2>1, <2>2, PairKept
<1>9. QED
  BY <1>3, <1>8 DEF DownloadInv

(* What a handler makes of the message m in the value s it starts from.     *)
Handled(n, p, m, s, r, have) ==
    /\ r \in Result
    /\ Carried(r.out) \subseteq mapBlockIndex[n]
    /\ r.node.vRecv = s.node.vRecv
    /\ ToSet(r.node.vInventoryToSend) \subseteq ToSet(s.node.vInventoryToSend) \cup mapBlockIndex[n]
    /\ r.node.setInventoryKnown \subseteq s.node.setInventoryKnown \cup mapBlockIndex[p]
    /\ Asked(s.node.mapAskFor) \subseteq Asked(r.node.mapAskFor)
    /\ Brings(m) \subseteq have \cup Asked(r.node.mapAskFor)
    /\ n \notin world.silent => mapBlockIndex[n] \cap Asks(m) \subseteq Carried(r.out)

\* The message at the head of the queue, and the value a handler starts from.
Start(n, p, m, s) ==
    /\ m \in Msg /\ s \in Result /\ s.out = <<>>
    /\ s.node.vInventoryToSend = cnode[n][p].vInventoryToSend
    /\ s.node.setInventoryKnown = cnode[n][p].setInventoryKnown
    /\ s.node.mapAskFor = cnode[n][p].mapAskFor
    /\ Carried(cnode[n][p].vRecv) = Brings(m) \cup Carried(s.node.vRecv)
    /\ Requested(cnode[n][p].vRecv) = Asks(m) \cup Requested(s.node.vRecv)

\* Taking a message off a queue leaves the rest as it was.
LEMMA StartIs ==
    ASSUME Types, NEW n \in Node, NEW p \in Node, Connected(n, p),
           cnode[n][p].vRecv # <<>>
    PROVE  Start(n, p, Head(cnode[n][p].vRecv),
                 [Begin(n, p) EXCEPT !.node.vRecv = Tail(@)])
<1> DEFINE node == cnode[n][p]
           q == node.vRecv
           rest == Tail(q)
           left == [node EXCEPT !.vRecv = rest]
           s == [node |-> left, asked |-> mapAlreadyAskedFor[n], out |-> <<>>]
<1>1. node \in CNode /\ mapAlreadyAskedFor[n] \in [Block -> Int]
  BY ConnectedIs DEF Types
<1>2. Head(q) \in Msg /\ rest \in Seq(Msg)
      /\ Carried(q) = Brings(Head(q)) \cup Carried(rest)
      /\ Requested(q) = Asks(Head(q)) \cup Requested(rest)
  BY <1>1, NodeFields, QueueHeadTail
<1>3. [Begin(n, p) EXCEPT !.node.vRecv = Tail(@)] = s
  BY SMTT(20) DEF Begin
<1> HIDE DEF rest, node
<1>4. left \in CNode /\ left.vRecv = rest
      /\ left.vInventoryToSend = node.vInventoryToSend
      /\ left.setInventoryKnown = node.setInventoryKnown
      /\ left.mapAskFor = node.mapAskFor
  BY <1>1, <1>2 DEF CNode
<1> HIDE DEF left
<1>5. s \in Result /\ s.out = <<>> /\ s.node = left
  BY <1>1, <1>4, QueueEmpty DEF Result
<1> HIDE DEF s
<1>6. QED
  BY <1>2, <1>3, <1>4, <1>5 DEF Start, node

\* A handled message keeps the invariant.
LEMMA HandledKeeps ==
    ASSUME DownloadInv, NEW n \in Node, NEW p \in Node, Connected(n, p), NEW m, NEW s,
           Start(n, p, m, s), NEW r, Handled(n, p, m, s, r, Have(n)'), Commit(n, p, r),
           Blocks', nAskedForBlocks' \in [Node -> BOOLEAN], world' = world,
           \A a \in Node : mapBlockIndex[a] \subseteq mapBlockIndex'[a]
                           /\ Have(a) \subseteq Have(a)'
    PROVE  DownloadInv'
<1>1. r \in Result
  BY DEF Handled
<1>2. Sound(n, p)
  BY DEF DownloadInv
<1>3. Keeps(n, p, r, Have(n)')
  BY <1>2 DEF Keeps, Handled, Start, Sound, Have
<1>4. QED
  BY <1>1, <1>3, CommitKeeps

\* What is at the head of the queue the peer has, if it brings it.
LEMMA BroughtIsThere ==
    ASSUME DownloadInv, NEW n \in Node, NEW p \in Node, Connected(n, p), NEW m, NEW s,
           Start(n, p, m, s)
    PROVE  Brings(m) \subseteq mapBlockIndex[p]
<1>1. Sound(p, n)
  BY DEF DownloadInv, Types
<1>2. QED
  BY <1>1 DEF Sound, Start

\* With the blocks as they were, a handled message keeps the invariant.
LEMMA MessageKeeps ==
    ASSUME DownloadInv, NEW n \in Node, NEW p \in Node, Connected(n, p), NEW m, NEW s,
           Start(n, p, m, s), NEW r, Handled(n, p, m, s, r, Have(n)), Commit(n, p, r),
           nAskedForBlocks' \in [Node -> BOOLEAN], UNCHANGED <<chain, world>>
    PROVE  DownloadInv'
<1>1. Blocks' /\ world' = world
  BY DEF DownloadInv, Blocks, chain
<1>2. \A a \in Node : mapBlockIndex[a] = mapBlockIndex'[a] /\ Have(a) = Have(a)'
  BY DEF Have, chain
<1>3. QED
  BY <1>1, <1>2, HandledKeeps

-----------------------------------------------------------------------------
(* The handlers                                                             *)

\* A version message announces nothing and asks for nothing.
LEMMA VersionKeeps ==
    ASSUME DownloadInv, NEW n \in Node, NEW p \in Node, Connected(n, p), NEW m, NEW s,
           Start(n, p, m, s), HandleVersion(n, p, m, s), UNCHANGED world
    PROVE  DownloadInv'
<1> DEFINE heard == [s EXCEPT !.node.nStartingHeight = m.height]
           best == pindexBest[n]
           shy == IF s.node.fInbound THEN Push(heard, MsgVersion(nHeight[best])) ELSE heard
           asks == /\ m.height > nHeight[best] - StartWindow
                   /\ ~nAskedForBlocks[n] \/ vNodes(n) = {p}
           r == IF asks THEN PushGetBlocks(shy, best, NoBlock) ELSE shy
           node == [s.node EXCEPT !.nStartingHeight = m.height]
<1>1. /\ Types /\ best \in Block /\ nHeight[best] \in Nat
      /\ s \in Result /\ s.out = <<>> /\ s.node \in CNode /\ m \in Msg /\ m.type = "version"
  BY ResultFields, TreeAssumption DEF DownloadInv, Blocks, Start, HandleVersion
<1>2. m.height \in Int /\ Brings(m) = {} /\ Asks(m) = {}
  BY <1>1 DEF Msg, Brings, Asks
<1>3. node \in CNode /\ node.vRecv = s.node.vRecv /\ node.mapAskFor = s.node.mapAskFor
      /\ node.vInventoryToSend = s.node.vInventoryToSend
      /\ node.setInventoryKnown = s.node.setInventoryKnown
  BY <1>1, <1>2 DEF CNode
<1>4. heard = [s EXCEPT !.node = node]
  OBVIOUS
<1> HIDE DEF node, best
<1>5. heard \in Result /\ heard.node = node /\ heard.out = <<>>
  BY <1>1, <1>3, <1>4 DEF Result
<1> HIDE DEF heard
<1>6. shy \in Result /\ shy.node = node /\ Carried(shy.out) = {}
  <2>1. MsgVersion(nHeight[best]) \in Msg /\ Brings(MsgVersion(nHeight[best])) = {}
    BY <1>1, MsgIs
  <2>2. QED
    BY <1>5, <2>1, PushIs, QueueEmpty
<1> HIDE DEF shy
<1>7. /\ r \in Result /\ Carried(r.out) = {} /\ r.node.vRecv = s.node.vRecv
      /\ r.node.mapAskFor = s.node.mapAskFor
      /\ r.node.vInventoryToSend = s.node.vInventoryToSend
      /\ r.node.setInventoryKnown = s.node.setInventoryKnown
  <2>1. NoBlock \in NoneOrBlock
    BY DEF NoneOrBlock
  <2> HIDE DEF asks
  <2>2. QED
    BY <1>1, <1>3, <1>6, <2>1, PushGetBlocksIs
<1>8. Commit(n, p, r)
  BY DEF HandleVersion, shy, heard, best
<1> HIDE DEF r
<1>9. Handled(n, p, m, s, r, Have(n))
  BY <1>2, <1>7 DEF Handled
<1>10. nAskedForBlocks' \in [Node -> BOOLEAN] /\ UNCHANGED chain
  <2>1. /\ nAskedForBlocks' = [nAskedForBlocks EXCEPT ![n] = @ \/ asks]
        /\ UNCHANGED chain
    BY DEF HandleVersion, best
  <2>2. (nAskedForBlocks[n] \/ asks) \in BOOLEAN
    OBVIOUS
  <2> HIDE DEF asks
  <2>3. nAskedForBlocks \in [Node -> BOOLEAN]
    BY <1>1 DEF Types
  <2>4. QED
    BY <2>1, <2>2, <2>3
<1>11. QED
  BY <1>8, <1>9, <1>10, MessageKeeps

\* What an announcement brings the node has or asks for.
LEMMA InvKeeps ==
    ASSUME DownloadInv, NEW n \in Node, NEW p \in Node, Connected(n, p), NEW m, NEW s,
           Start(n, p, m, s), HandleInv(n, p, m, s), UNCHANGED world
    PROVE  DownloadInv'
<1> DEFINE N == Len(m.v)
           orphans == mapOrphanBlocks[n]
           one(t, i) ==
               LET b == m.v[i]
                   k == AddInventoryKnown(t, b)
               IN IF ~AlreadyHave(n, b) THEN AskFor(k, b)
                  ELSE IF b \in orphans
                       THEN PushGetBlocks(k, pindexBest[n], GetOrphanRoot(orphans, b))
                  ELSE IF i = Len(m.v) THEN PushGetBlocks(k, b, NoBlock)
                  ELSE k
           Runs(g) == g = [i \in 0..N |-> IF i = 0 THEN s ELSE one(g[i - 1], i)]
           f == CHOOSE g : Runs(g)
           step == [x \in Result \X (1..N) |-> one(x[1], x[2])]
<1>1. /\ Types /\ pindexBest[n] \in Block /\ orphans \in SUBSET Block
      /\ Genesis \notin orphans
      /\ s \in Result /\ s.out = <<>> /\ s.node \in CNode /\ m \in Msg /\ m.type = "inv"
  BY ResultFields DEF DownloadInv, Blocks, Start, HandleInv
<1>2. m.v \in Seq(Block)
  BY <1>1 DEF Msg
<1>3. Brings(m) = ToSet(m.v) /\ Asks(m) = {} /\ ToSet(m.v) \subseteq mapBlockIndex[p]
  BY <1>1, BroughtIsThere DEF Brings, Asks
<1>4. N \in Nat /\ \A i \in 1..N : m.v[i] \in Block /\ m.v[i] \in ToSet(m.v)
  BY <1>2, InSequence
<1>5. ASSUME NEW t \in Result, NEW i \in 1..N
      PROVE  /\ one(t, i) \in Result
             /\ one(t, i).node.vRecv = t.node.vRecv
             /\ one(t, i).node.vInventoryToSend = t.node.vInventoryToSend
             /\ one(t, i).node.setInventoryKnown = t.node.setInventoryKnown \cup {m.v[i]}
             /\ Asked(t.node.mapAskFor) \subseteq Asked(one(t, i).node.mapAskFor)
             /\ Carried(one(t, i).out) = Carried(t.out)
             /\ m.v[i] \in Have(n) \cup Asked(one(t, i).node.mapAskFor)
  <2> DEFINE b == m.v[i]
             k == AddInventoryKnown(t, b)
             root == GetOrphanRoot(orphans, b)
  <2>1. b \in Block
    BY <1>4
  <2>2. AlreadyHave(n, b) <=> b \in Have(n)
    BY DEF AlreadyHave, Have
  <2>3. b \in orphans => root \in NoneOrBlock
    BY <1>1, OrphanRoot DEF NoneOrBlock
  <2> HIDE DEF b
  <2>4. /\ k \in Result /\ k.out = t.out
        /\ k.node.vRecv = t.node.vRecv /\ k.node.mapAskFor = t.node.mapAskFor
        /\ k.node.vInventoryToSend = t.node.vInventoryToSend
        /\ k.node.setInventoryKnown = t.node.setInventoryKnown \cup {b}
    BY <2>1, KnowIs
  <2> HIDE DEF k, root, orphans
  <2>5. CASE ~AlreadyHave(n, b)
    <3>1. one(t, i) = AskFor(k, b)
      BY <2>5 DEF b, k
    <3> DEFINE y == AskFor(k, b)
    <3>2. /\ y \in Result /\ y.out = k.out
          /\ y.node.vRecv = k.node.vRecv
          /\ y.node.vInventoryToSend = k.node.vInventoryToSend
          /\ y.node.setInventoryKnown = k.node.setInventoryKnown
          /\ Asked(y.node.mapAskFor) = Asked(k.node.mapAskFor) \cup {b}
      BY <2>1, <2>4, AskForIs
    <3>3. one(t, i) = y /\ m.v[i] = b
      BY <3>1 DEF b
    <3> HIDE DEF one, y
    <3>4. QED
      BY <2>4, <3>2, <3>3
  <2>6. CASE AlreadyHave(n, b)
    <3>1. NoBlock \in NoneOrBlock
      BY DEF NoneOrBlock
    <3>2. one(t, i) = IF b \in orphans THEN PushGetBlocks(k, pindexBest[n], root)
                      ELSE IF i = N THEN PushGetBlocks(k, b, NoBlock) ELSE k
      BY <2>6 DEF b, k, root
    <3> HIDE DEF one, N
    <3>3. CASE b \in orphans
      BY <1>1, <2>2, <2>3, <2>4, <2>6, <3>2, <3>3, PushGetBlocksIs DEF b
    <3>4. CASE b \notin orphans /\ i = N
      BY <2>1, <2>2, <2>4, <2>6, <3>1, <3>2, <3>4, PushGetBlocksIs DEF b
    <3>5. CASE b \notin orphans /\ i # N
      BY <2>2, <2>4, <2>6, <3>2, <3>5 DEF b
    <3>6. QED
      BY <3>3, <3>4, <3>5
  <2>7. QED
    BY <2>5, <2>6
<1>6. Commit(n, p, f[N]) /\ UNCHANGED <<chain, nAskedForBlocks>>
  BY DEF HandleInv
<1> HIDE DEF one
<1>7. \E g : Runs(g)
  <2>1. Turns(Result, N, step)
    <3> HIDE DEF N
    <3>1. QED
      BY <1>5 DEF Turns
  <2>2. PICK g : Loop(g, Result, s, N, step)
    <3> HIDE DEF step, N
    <3>1. QED
      BY <1>1, <1>4, <2>1, LoopRuns
  <2>3. \A i \in 1..N : g[i - 1] \in Result
    BY <1>4, <2>2 DEF Loop
  <2>4. \A i \in 1..N : step[<<g[i - 1], i>>] = one(g[i - 1], i)
    BY <2>3
  <2> HIDE DEF step, N
  <2>5. \A i \in 0..N : g[i] = IF i = 0 THEN s ELSE one(g[i - 1], i)
    <3>1. \A i \in 0..N : i # 0 => i \in 1..N
      BY <1>4
    <3>2. QED
      BY <2>2, <2>4, <3>1 DEF Loop
  <2>6. QED
    BY <2>2, <2>5 DEF Loop
<1>8. Runs(f)
  BY <1>7
<1> HIDE DEF f
<1>9. f[0] = s /\ \A i \in 1..N : f[i] = one(f[i - 1], i)
  <2> HIDE DEF one, N
  <2>1. f = [i \in 0..N |-> IF i = 0 THEN s ELSE one(f[i - 1], i)]
    BY <1>8
  <2>2. 0 \in 0..N /\ \A i \in 1..N : i \in 0..N /\ i # 0
    BY <1>4
  <2>3. QED
    BY ONLY <2>1, <2>2
<1> DEFINE Good(t, i) ==
              /\ t \in Result
              /\ t.node.vRecv = s.node.vRecv
              /\ t.node.vInventoryToSend = s.node.vInventoryToSend
              /\ t.node.setInventoryKnown \subseteq s.node.setInventoryKnown \cup ToSet(m.v)
              /\ Asked(s.node.mapAskFor) \subseteq Asked(t.node.mapAskFor)
              /\ Carried(t.out) = {}
              /\ \A j \in 1..i : m.v[j] \in Have(n) \cup Asked(t.node.mapAskFor)
           S == [i \in 0..N |-> {t \in Result : Good(t, i)}]
<1>10. f[0] \in S[0]
  <2>1. Carried(s.out) = {}
    BY <1>1, QueueEmpty
  <2>2. Good(f[0], 0)
    BY <1>1, <1>4, <1>9, <2>1
  <2>3. f[0] \in Result /\ 0 \in 0..N
    BY <1>1, <1>4, <1>9
  <2> HIDE DEF Good
  <2>4. QED
    BY <2>2, <2>3
<1>11. ASSUME NEW i \in 1..N, f[i - 1] \in S[i - 1] PROVE f[i] \in S[i]
  <2> DEFINE x == f[i - 1]
             y == one(x, i)
  <2>1. /\ x \in Result
        /\ x.node.vRecv = s.node.vRecv
        /\ x.node.vInventoryToSend = s.node.vInventoryToSend
        /\ x.node.setInventoryKnown \subseteq s.node.setInventoryKnown \cup ToSet(m.v)
        /\ Asked(s.node.mapAskFor) \subseteq Asked(x.node.mapAskFor)
        /\ Carried(x.out) = {}
        /\ \A j \in 1..(i - 1) : m.v[j] \in Have(n) \cup Asked(x.node.mapAskFor)
    <3>1. i - 1 \in 0..N
      BY <1>4
    <3>2. Good(x, i - 1)
      <4> HIDE DEF Good
      <4>1. QED
        BY <1>11, <3>1
    <3>3. QED
      BY <3>2
  <2>2. f[i] = y /\ m.v[i] \in ToSet(m.v)
    BY <1>4, <1>9
  <2> HIDE DEF x, S
  <2>3. /\ y \in Result
        /\ y.node.vRecv = x.node.vRecv
        /\ y.node.vInventoryToSend = x.node.vInventoryToSend
        /\ y.node.setInventoryKnown = x.node.setInventoryKnown \cup {m.v[i]}
        /\ Asked(x.node.mapAskFor) \subseteq Asked(y.node.mapAskFor)
        /\ Carried(y.out) = Carried(x.out)
        /\ m.v[i] \in Have(n) \cup Asked(y.node.mapAskFor)
    BY <1>5, <2>1
  <2> HIDE DEF y
  <2>4. \A j \in 1..i : m.v[j] \in Have(n) \cup Asked(y.node.mapAskFor)
    <3>1. \A j \in 1..i : j \in 1..(i - 1) \/ j = i
      BY <1>4
    <3>2. QED
      BY <2>1, <2>3, <3>1
  <2>5. Good(f[i], i)
    BY <2>1, <2>2, <2>3, <2>4
  <2>6. f[i] \in Result /\ i \in 0..N
    BY <1>4, <2>2, <2>3
  <2> HIDE DEF Good
  <2>7. QED
    BY <2>5, <2>6 DEF S
<1>12. f[N] \in S[N]
  <2>1. N \in Nat /\ N \in 0..N
    BY <1>4
  <2> HIDE DEF S, N
  <2>2. \A i \in 0..N : f[i] \in S[i]
    BY ONLY <1>10, <1>11, <2>1, InTurn
  <2>3. QED
    BY ONLY <2>1, <2>2
<1> DEFINE r == f[N]
<1>13. /\ r \in Result
       /\ r.node.vRecv = s.node.vRecv
       /\ r.node.vInventoryToSend = s.node.vInventoryToSend
       /\ r.node.setInventoryKnown \subseteq s.node.setInventoryKnown \cup ToSet(m.v)
       /\ Asked(s.node.mapAskFor) \subseteq Asked(r.node.mapAskFor)
       /\ Carried(r.out) = {}
       /\ \A j \in 1..N : m.v[j] \in Have(n) \cup Asked(r.node.mapAskFor)
  <2>1. N \in 0..N
    BY <1>4
  <2>2. Good(r, N)
    <3> HIDE DEF Good, N
    <3>1. QED
      BY <1>12, <2>1
  <2>3. QED
    BY <2>2
<1> HIDE DEF r
<1>14. ToSet(m.v) \subseteq Have(n) \cup Asked(r.node.mapAskFor)
  BY <1>2, <1>13, InSequence DEF ToSet
<1>15. Handled(n, p, m, s, r, Have(n))
  BY <1>3, <1>13, <1>14 DEF Handled
<1>16. nAskedForBlocks' \in [Node -> BOOLEAN] /\ Commit(n, p, r)
  BY <1>1, <1>6 DEF Types, r
<1>17. QED
  BY <1>6, <1>15, <1>16, MessageKeeps

\* What a node has below its best block it has.
LEMMA MainChainThere ==
    ASSUME Blocks, NEW n \in Node
    PROVE  Branch[pindexBest[n]] \subseteq mapBlockIndex[n]
BY BranchWithin DEF Blocks

\* One requested block is sent, with the announcement that ends a batch.
SendBlock(n, t, b) ==
    IF b \notin mapBlockIndex[n] \/ n \in world.silent THEN t
    ELSE IF b # t.node.hashContinue THEN Push(t, MsgBlock(b))
    ELSE [Push(Push(t, MsgBlock(b)),
               MsgInv(<<LastProofOfWork(pindexBest[n])>>))
            EXCEPT !.node.hashContinue = NoBlock]

\* A block that is asked for is sent, if the node has it and is not silent.
LEMMA SendBlockIs ==
    ASSUME Blocks, NEW n \in Node, NEW t \in Result, NEW b \in Block,
           Carried(t.out) \subseteq mapBlockIndex[n]
    PROVE  LET u == SendBlock(n, t, b) IN
           /\ u \in Result /\ u.node.vRecv = t.node.vRecv
           /\ u.node.mapAskFor = t.node.mapAskFor
           /\ u.node.vInventoryToSend = t.node.vInventoryToSend
           /\ u.node.setInventoryKnown = t.node.setInventoryKnown
           /\ Carried(t.out) \subseteq Carried(u.out)
           /\ Carried(u.out) \subseteq mapBlockIndex[n]
           /\ n \notin world.silent /\ b \in mapBlockIndex[n] => b \in Carried(u.out)
<1> DEFINE last == LastProofOfWork(pindexBest[n])
           inv == <<last>>
           sent == Push(t, MsgBlock(b))
           both == Push(sent, MsgInv(inv))
           node == [both.node EXCEPT !.hashContinue = NoBlock]
           u == [both EXCEPT !.node = node]
<1>1. pindexBest[n] \in Block
  BY DEF Blocks
<1>2. last \in mapBlockIndex[n] /\ last \in Block
  BY <1>1, MainChainThere, LastProofOfWorkIs, BranchClosed
<1>3. inv \in Seq(Block) /\ ToSet(inv) = {last}
  BY <1>2 DEF ToSet
<1>4. MsgBlock(b) \in Msg /\ Brings(MsgBlock(b)) = {b}
      /\ MsgInv(inv) \in Msg /\ Brings(MsgInv(inv)) = {last}
  BY <1>3, MsgIs
<1>5. SendBlock(n, t, b) = IF b \notin mapBlockIndex[n] \/ n \in world.silent THEN t
                           ELSE IF b # t.node.hashContinue THEN sent ELSE u
  BY DEF SendBlock
<1> HIDE DEF inv, last
<1>6. sent \in Result /\ sent.node = t.node /\ Carried(sent.out) = Carried(t.out) \cup {b}
  BY <1>4, PushIs
<1> HIDE DEF sent
<1>7. both \in Result /\ both.node = t.node
      /\ Carried(both.out) = Carried(t.out) \cup {b, last}
  <2> DEFINE mi == MsgInv(inv)
  <2>1. mi \in Msg /\ Brings(mi) = {last}
    BY <1>4
  <2> HIDE DEF mi
  <2>2. /\ Push(sent, mi) \in Result /\ Push(sent, mi).node = sent.node
        /\ Carried(Push(sent, mi).out) = Carried(sent.out) \cup Brings(mi)
    BY <1>6, <2>1, PushIs
  <2>3. QED
    BY <1>6, <2>1, <2>2 DEF mi
<1> HIDE DEF both
<1>8. /\ node \in CNode /\ node.vRecv = t.node.vRecv /\ node.mapAskFor = t.node.mapAskFor
      /\ node.vInventoryToSend = t.node.vInventoryToSend
      /\ node.setInventoryKnown = t.node.setInventoryKnown
  <2>1. both.node \in CNode /\ NoBlock \in NoneOrBlock
    BY <1>7, ResultFields DEF NoneOrBlock
  <2>2. QED
    BY <1>7, <2>1 DEF CNode
<1> HIDE DEF node
<1>9. u \in Result /\ u.node = node /\ u.out = both.out
  BY <1>7, <1>8 DEF Result
<1> HIDE DEF u
<1>10. QED
  BY <1>2, <1>5, <1>6, <1>7, <1>8, <1>9

\* What was asked for is sent.
LEMMA GetDataKeeps ==
    ASSUME DownloadInv, NEW n \in Node, NEW p \in Node, Connected(n, p), NEW m, NEW s,
           Start(n, p, m, s), HandleGetData(n, p, m, s), UNCHANGED world
    PROVE  DownloadInv'
<1> DEFINE N == Len(m.v)
           Runs(g) == g = [i \in 0..N |-> IF i = 0 THEN s ELSE SendBlock(n, g[i - 1], m.v[i])]
           f == CHOOSE g : Runs(g)
           Sane == {t \in Result : Carried(t.out) \subseteq mapBlockIndex[n]}
           step == [x \in Sane \X (1..N) |-> SendBlock(n, x[1], m.v[x[2]])]
<1>1. /\ Types /\ Blocks
      /\ s \in Result /\ s.out = <<>> /\ s.node \in CNode /\ m \in Msg /\ m.type = "getdata"
  BY ResultFields DEF DownloadInv, Start, HandleGetData
<1>2. m.v \in Seq(Block)
  BY <1>1 DEF Msg
<1>3. Brings(m) = {} /\ Asks(m) = ToSet(m.v)
  BY <1>1 DEF Brings, Asks
<1>4. N \in Nat /\ \A i \in 1..N : m.v[i] \in Block /\ m.v[i] \in ToSet(m.v)
  BY <1>2, InSequence
<1>5. Commit(n, p, f[N]) /\ UNCHANGED <<chain, nAskedForBlocks>>
  BY DEF HandleGetData, SendBlock
<1>6. Carried(s.out) = {} /\ s \in Sane
  BY <1>1, QueueEmpty
<1>7. \E g : Runs(g)
  <2>1. ASSUME NEW x \in Sane \X (1..N) PROVE step[x] \in Sane
    <3>1. x[1] \in Result /\ Carried(x[1].out) \subseteq mapBlockIndex[n]
          /\ m.v[x[2]] \in Block
      BY <1>4
    <3>2. SendBlock(n, x[1], m.v[x[2]]) \in Sane
      BY <1>1, <3>1, SendBlockIs
    <3>3. QED
      BY <3>2
  <2>2. Turns(Sane, N, step)
    <3>1. step = [x \in Sane \X (1..N) |-> step[x]]
      OBVIOUS
    <3> HIDE DEF step, Sane, N
    <3>2. QED
      BY <2>1, <3>1 DEF Turns
  <2>3. PICK g : Loop(g, Sane, s, N, step)
    <3> HIDE DEF step, N, Sane
    <3>1. QED
      BY <1>4, <1>6, <2>2, LoopRuns
  <2>4. \A i \in 1..N : g[i - 1] \in Sane
    BY <1>4, <2>3 DEF Loop
  <2> HIDE DEF Sane
  <2>5. \A i \in 1..N : step[<<g[i - 1], i>>] = SendBlock(n, g[i - 1], m.v[i])
    BY <2>4
  <2> HIDE DEF step, N
  <2>6. \A i \in 0..N : g[i] = IF i = 0 THEN s ELSE SendBlock(n, g[i - 1], m.v[i])
    <3>1. \A i \in 0..N : i # 0 => i \in 1..N
      BY <1>4
    <3>2. QED
      BY <2>3, <2>5, <3>1 DEF Loop
  <2>7. QED
    BY <2>3, <2>6 DEF Loop
<1>8. Runs(f)
  BY <1>7
<1> HIDE DEF f
<1>9. f[0] = s /\ \A i \in 1..N : f[i] = SendBlock(n, f[i - 1], m.v[i])
  BY <1>4, <1>8
<1> DEFINE Good(t, i) ==
              /\ t \in Result
              /\ t.node.vRecv = s.node.vRecv
              /\ t.node.mapAskFor = s.node.mapAskFor
              /\ t.node.vInventoryToSend = s.node.vInventoryToSend
              /\ t.node.setInventoryKnown = s.node.setInventoryKnown
              /\ Carried(t.out) \subseteq mapBlockIndex[n]
              /\ n \notin world.silent =>
                    \A j \in 1..i : m.v[j] \in mapBlockIndex[n] => m.v[j] \in Carried(t.out)
           S == [i \in 0..N |-> {t \in Result : Good(t, i)}]
<1>10. f[0] \in S[0]
  <2>1. Good(f[0], 0)
    BY <1>1, <1>4, <1>6, <1>9
  <2>2. f[0] \in Result /\ 0 \in 0..N
    BY <1>1, <1>4, <1>9
  <2> HIDE DEF Good
  <2>3. QED
    BY <2>1, <2>2
<1>11. ASSUME NEW i \in 1..N, f[i - 1] \in S[i - 1] PROVE f[i] \in S[i]
  <2> DEFINE x == f[i - 1]
             b == m.v[i]
             y == SendBlock(n, x, b)
  <2>1. Good(x, i - 1)
    <3>1. i - 1 \in 0..N
      BY <1>4
    <3> HIDE DEF Good
    <3>2. QED
      BY <1>11, <3>1
  <2>2. f[i] = y /\ b \in Block
    BY <1>4, <1>9
  <2> HIDE DEF x
  <2>3. /\ y \in Result /\ y.node.vRecv = x.node.vRecv
        /\ y.node.mapAskFor = x.node.mapAskFor
        /\ y.node.vInventoryToSend = x.node.vInventoryToSend
        /\ y.node.setInventoryKnown = x.node.setInventoryKnown
        /\ Carried(x.out) \subseteq Carried(y.out)
        /\ Carried(y.out) \subseteq mapBlockIndex[n]
        /\ n \notin world.silent /\ b \in mapBlockIndex[n] => b \in Carried(y.out)
    BY <1>1, <2>1, <2>2, SendBlockIs
  <2> HIDE DEF y
  <2>4. n \notin world.silent =>
          \A j \in 1..i : m.v[j] \in mapBlockIndex[n] => m.v[j] \in Carried(y.out)
    <3>1. \A j \in 1..i : j \in 1..(i - 1) \/ j = i
      BY <1>4
    <3>2. QED
      BY <2>1, <2>3, <3>1
  <2>5. Good(f[i], i)
    BY <2>1, <2>2, <2>3, <2>4
  <2>6. f[i] \in Result /\ i \in 0..N
    BY <1>4, <2>2, <2>3
  <2> HIDE DEF Good
  <2>7. QED
    BY <2>5, <2>6
<1>12. f[N] \in S[N]
  <2>1. N \in Nat /\ N \in 0..N
    BY <1>4
  <2> HIDE DEF S, N
  <2>2. \A i \in 0..N : f[i] \in S[i]
    BY ONLY <1>10, <1>11, <2>1, InTurn
  <2>3. QED
    BY ONLY <2>1, <2>2
<1> DEFINE r == f[N]
<1>13. Good(r, N)
  <2>1. N \in 0..N
    BY <1>4
  <2> HIDE DEF Good, N
  <2>2. QED
    BY <1>12, <2>1
<1> HIDE DEF r
<1>14. n \notin world.silent => mapBlockIndex[n] \cap ToSet(m.v) \subseteq Carried(r.out)
  BY <1>2, <1>13, InSequence DEF ToSet
<1>15. Handled(n, p, m, s, r, Have(n))
  BY <1>3, <1>13, <1>14 DEF Handled
<1>16. nAskedForBlocks' \in [Node -> BOOLEAN] /\ Commit(n, p, r)
  BY <1>1, <1>5 DEF Types, r
<1>17. QED
  BY <1>5, <1>15, <1>16, MessageKeeps

\* A batch is of blocks of the main chain.
LEMMA GetBlocksKeeps ==
    ASSUME DownloadInv, NEW n \in Node, NEW p \in Node, Connected(n, p), NEW m, NEW s,
           Start(n, p, m, s), HandleGetBlocks(n, p, m, s), UNCHANGED world
    PROVE  DownloadInv'
<1> DEFINE best == pindexBest[n]
           ahead == MainChainAbove(n, ForkPoint(m.begin, best))
           stops == {i \in 1..Len(ahead) : i <= Limit /\ ahead[i] = m.stop}
           count == IF stops # {} THEN (CHOOSE i \in stops : TRUE) - 1
                    ELSE IF Len(ahead) < Limit THEN Len(ahead) ELSE Limit
           batch == SubSeq(ahead, 1, count)
           announced == [s EXCEPT !.node = PushInTurn(@, batch)]
           young == nTime[m.stop] + nStakeMinAge > nTime[best]
           r == IF stops # {}
                THEN IF m.stop # best /\ young THEN PushInventory(announced, best)
                     ELSE announced
                ELSE IF count = Limit
                     THEN EndBatchWith(announced, ahead[Limit])
                ELSE announced
<1>1. /\ Types /\ Blocks /\ best \in Block /\ best \in mapBlockIndex[n]
      /\ s \in Result /\ s.out = <<>> /\ s.node \in CNode
      /\ m \in Msg /\ m.type = "getblocks"
  BY ResultFields DEF DownloadInv, Start, HandleGetBlocks, Blocks
<1>2. m.begin \in Block /\ Brings(m) = {} /\ Asks(m) = {}
  BY <1>1 DEF Msg, Brings, Asks
<1>3. ForkPoint(m.begin, best) \in Branch[best]
  BY <1>1, <1>2, ForkPointFinds
<1>4. ahead \in Seq(Block) /\ ToSet(ahead) \subseteq mapBlockIndex[n]
  BY <1>1, <1>3, MainChainIs, MainChainThere
<1>5. Commit(n, p, r) /\ UNCHANGED <<chain, nAskedForBlocks>>
  BY DEF HandleGetBlocks
<1> HIDE DEF ahead, best
<1>6. Limit \in Nat \ {0}
  BY DownloadAssumption
<1>7. count \in 0..Len(ahead) /\ (stops = {} /\ count = Limit => Limit \in 1..Len(ahead))
  <2>1. Len(ahead) \in Nat
    BY <1>4, InSequence
  <2>2. CASE stops # {}
    <3>1. (CHOOSE i \in stops : TRUE) \in stops
      BY <2>2
    <3>2. (CHOOSE i \in stops : TRUE) \in 1..Len(ahead)
      BY <3>1
    <3>3. count = (CHOOSE i \in stops : TRUE) - 1
      BY <2>2
    <3> HIDE DEF count, stops
    <3>4. QED
      BY <2>1, <2>2, <3>2, <3>3
  <2>3. CASE stops = {}
    <3>1. count = IF Len(ahead) < Limit THEN Len(ahead) ELSE Limit
      BY <2>3
    <3> HIDE DEF count, stops
    <3>2. QED
      BY <1>6, <2>1, <2>3, <3>1
  <2>4. QED
    BY <2>2, <2>3
<1> HIDE DEF stops, count
<1>8. batch \in Seq(Block) /\ ToSet(batch) \subseteq mapBlockIndex[n]
  <2>1. Len(ahead) \in Nat /\ \A i \in 1..Len(ahead) : ahead[i] \in Block
        /\ ahead[i] \in mapBlockIndex[n]
    BY <1>4, InSequence
  <2>2. batch \in Seq(Block) /\ Len(batch) = count
        /\ \A i \in 1..count : batch[i] = ahead[i]
    BY <1>4, <1>7, <2>1
  <2>3. \A i \in 1..count : batch[i] \in mapBlockIndex[n]
    BY <1>7, <2>1, <2>2
  <2> HIDE DEF batch
  <2>4. QED
    BY <2>2, <2>3, InSequence DEF ToSet
<1> HIDE DEF batch
<1> DEFINE node == PushInTurn(s.node, batch)
<1>9. /\ node \in CNode
      /\ node.vRecv = s.node.vRecv /\ node.mapAskFor = s.node.mapAskFor
      /\ node.setInventoryKnown = s.node.setInventoryKnown
      /\ ToSet(node.vInventoryToSend)
            \subseteq ToSet(s.node.vInventoryToSend) \cup mapBlockIndex[n]
  BY <1>1, <1>8, PushInTurnIs
<1>10. announced = [s EXCEPT !.node = node]
  OBVIOUS
<1> HIDE DEF node
<1>11. announced \in Result /\ announced.node = node /\ announced.out = <<>>
  BY <1>1, <1>9, <1>10 DEF Result
<1> HIDE DEF announced
<1> DEFINE Fine(t) ==
             /\ t \in Result /\ t.out = <<>>
             /\ t.node.vRecv = s.node.vRecv /\ t.node.mapAskFor = s.node.mapAskFor
             /\ t.node.setInventoryKnown = s.node.setInventoryKnown
             /\ ToSet(t.node.vInventoryToSend)
                   \subseteq ToSet(s.node.vInventoryToSend) \cup mapBlockIndex[n]
<1>12. Fine(announced)
  BY <1>9, <1>11
<1>13. Fine(PushInventory(announced, best))
  <2> DEFINE to == PushInventoryTo(node, best)
             t == [announced EXCEPT !.node = to]
  <2>1. /\ to \in CNode
        /\ to.vRecv = node.vRecv /\ to.mapAskFor = node.mapAskFor
        /\ to.setInventoryKnown = node.setInventoryKnown
        /\ ToSet(to.vInventoryToSend) \subseteq ToSet(node.vInventoryToSend) \cup {best}
    BY <1>1, <1>9, PushToIs
  <2>2. PushInventory(announced, best) = t
    BY <1>11 DEF PushInventory
  <2> HIDE DEF to
  <2>3. t \in Result /\ t.node = to /\ t.out = <<>>
    BY <1>11, <2>1 DEF Result
  <2> HIDE DEF t
  <2>4. QED
    BY <1>1, <1>9, <2>1, <2>2, <2>3
<1>14. ASSUME NEW b \in Block PROVE Fine(EndBatchWith(announced, b))
  <2> DEFINE to == [node EXCEPT !.hashContinue = b]
             t == [announced EXCEPT !.node = to]
  <2>1. /\ to \in CNode
        /\ to.vRecv = node.vRecv /\ to.mapAskFor = node.mapAskFor
        /\ to.setInventoryKnown = node.setInventoryKnown
        /\ to.vInventoryToSend = node.vInventoryToSend
    BY <1>9 DEF CNode, NoneOrBlock
  <2>2. EndBatchWith(announced, b) = t
    BY <1>11 DEF EndBatchWith
  <2> HIDE DEF to
  <2>3. t \in Result /\ t.node = to /\ t.out = <<>>
    BY <1>11, <2>1 DEF Result
  <2> HIDE DEF t
  <2>4. QED
    BY <1>9, <2>1, <2>2, <2>3
<1>15. Fine(r)
  <2>1. stops = {} /\ count = Limit => ahead[Limit] \in Block
    BY <1>4, <1>7, InSequence
  <2> HIDE DEF Fine, young
  <2>2. QED
    BY <1>12, <1>13, <1>14, <2>1
<1> HIDE DEF r
<1>16. Handled(n, p, m, s, r, Have(n))
  BY <1>2, <1>15, QueueEmpty DEF Handled
<1>17. nAskedForBlocks' \in [Node -> BOOLEAN]
  BY <1>1, <1>5 DEF Types
<1>18. QED
  BY <1>5, <1>16, <1>17, MessageKeeps

\* What the acceptance of blocks does to the index, the orphans and the best block.
LEMMA AcceptKeeps ==
    ASSUME Blocks, NEW n \in Node, NEW b \in Block, ~AlreadyHave(n, b),
           pprev[b] \in mapBlockIndex[n], NEW order \in Orders(n, b),
           NEW r, Accept(n, order, r)
    PROVE  /\ Blocks'
           /\ \A a \in Node : mapBlockIndex[a] \subseteq mapBlockIndex'[a]
                              /\ Have(a) \subseteq Have(a)'
           /\ b \in mapBlockIndex'[n]
           /\ r.relayed \in Seq(Block) /\ ToSet(r.relayed) \subseteq mapBlockIndex'[n]
<1> DEFINE index == mapBlockIndex[n] \cup ToSet(order)
           left == mapOrphanBlocks[n] \ ToSet(order)
<1>1. /\ mapBlockIndex \in [Node -> SUBSET Block]
      /\ mapOrphanBlocks \in [Node -> SUBSET Block]
      /\ pindexBest \in [Node -> Block]
      /\ \A a \in Node :
            /\ Genesis \in mapBlockIndex[a] /\ DownClosed(mapBlockIndex[a])
            /\ pindexBest[a] \in mapBlockIndex[a]
            /\ mapBlockIndex[a] \cap mapOrphanBlocks[a] = {}
            /\ IsFiniteSet(mapOrphanBlocks[a])
  BY DEF Blocks
<1>2. /\ mapBlockIndex' = [mapBlockIndex EXCEPT ![n] = index]
      /\ mapOrphanBlocks' = [mapOrphanBlocks EXCEPT ![n] = left]
      /\ pindexBest' = [pindexBest EXCEPT ![n] = r.best]
      /\ r = AcceptInTurn(pindexBest[n], order)
  BY DEF Accept
<1>3. /\ order \in Seq(Block) /\ b \in ToSet(order)
      /\ ToSet(order) \subseteq {b} \cup mapOrphanBlocks[n]
  BY <1>1, OrderIs
<1>4. DownClosed(index)
  BY <1>1, OrderCloses
<1>5. /\ r.best \in {pindexBest[n]} \cup ToSet(order)
      /\ r.relayed \in Seq(Block) /\ ToSet(r.relayed) \subseteq ToSet(order)
  BY <1>1, <1>2, <1>3, AcceptIs
<1>6. index \in SUBSET Block /\ left \in SUBSET Block /\ r.best \in index
  BY <1>1, <1>3, <1>5, InSequence
<1>7. index \cap left = {} /\ IsFiniteSet(left) /\ Genesis \in index
  <2>1. IsFiniteSet(left)
    BY <1>1, FS_Subset
  <2>2. QED
    BY <1>1, <2>1
<1> HIDE DEF index, left
<1>8. /\ mapBlockIndex'[n] = index /\ mapOrphanBlocks'[n] = left /\ pindexBest'[n] = r.best
      /\ \A a \in Node \ {n} : /\ mapBlockIndex'[a] = mapBlockIndex[a]
                               /\ mapOrphanBlocks'[a] = mapOrphanBlocks[a]
                               /\ pindexBest'[a] = pindexBest[a]
  BY <1>1, <1>2
<1>9. Blocks'
  <2>1. /\ mapBlockIndex' \in [Node -> SUBSET Block]
        /\ mapOrphanBlocks' \in [Node -> SUBSET Block]
        /\ pindexBest' \in [Node -> Block]
    BY <1>1, <1>2, <1>6
  <2>2. ASSUME NEW a \in Node
        PROVE  /\ Genesis \in mapBlockIndex'[a] /\ DownClosed(mapBlockIndex'[a])
               /\ pindexBest'[a] \in mapBlockIndex'[a]
               /\ mapBlockIndex'[a] \cap mapOrphanBlocks'[a] = {}
               /\ IsFiniteSet(mapOrphanBlocks'[a])
    <3>1. CASE a = n
      BY <1>4, <1>6, <1>7, <1>8, <3>1
    <3>2. CASE a # n
      BY <1>1, <1>8, <3>2
    <3>3. QED
      BY <3>1, <3>2
  <2>3. QED
    BY <2>1, <2>2 DEF Blocks
<1>10. mapBlockIndex[n] \subseteq index /\ Have(n) \subseteq Have(n)'
  BY <1>8 DEF Have, index, left
<1>11. \A a \in Node : mapBlockIndex[a] \subseteq mapBlockIndex'[a] /\ Have(a) \subseteq Have(a)'
  BY <1>8, <1>10 DEF Have
<1>12. QED
  BY <1>3, <1>5, <1>8, <1>9, <1>11 DEF index

(* The relay of accepted blocks to every peer, from what the node keeps for *)
(* each once the message it handles is off its queue.                      *)
Handed(n, q, x) ==
    /\ x \in CNode /\ x.mapAskFor = cnode[n][q].mapAskFor
    /\ x.vInventoryToSend = cnode[n][q].vInventoryToSend
    /\ x.setInventoryKnown \subseteq cnode[n][q].setInventoryKnown \cup Have(q)
    /\ Carried(x.vRecv) \subseteq Carried(cnode[n][q].vRecv)
    /\ Carried(cnode[n][q].vRecv) \subseteq Carried(x.vRecv) \cup Have(n)'
    /\ Requested(x.vRecv) = Requested(cnode[n][q].vRecv)

\* Relaying blocks that the node has to every peer keeps the invariant.
LEMMA RelayKeeps ==
    ASSUME DownloadInv, NEW n \in Node, NEW x, NEW blocks \in Seq(Block),
           \A q \in Node : Connected(n, q) => Handed(n, q, x[q]),
           cnode' = [cnode EXCEPT ![n] = [q \in Node |->
              IF Connected(n, q) THEN RelayTo(x[q], blocks) ELSE NoCNode]],
           mapAlreadyAskedFor' \in [Node -> [Block -> Int]],
           Blocks', ToSet(blocks) \subseteq mapBlockIndex'[n],
           nAskedForBlocks' = nAskedForBlocks, world' = world,
           \A a \in Node : mapBlockIndex[a] \subseteq mapBlockIndex'[a]
                           /\ Have(a) \subseteq Have(a)'
    PROVE  DownloadInv'
<1> DEFINE to(q) == RelayTo(x[q], blocks)
<1>1. Types /\ cnode \in [Node -> [Node -> CNode \cup {NoCNode}]]
  BY DEF DownloadInv, Types
<1>2. \A a, q \in Node : cnode'[a][q] = IF a # n THEN cnode[a][q]
                                        ELSE IF Connected(n, q) THEN to(q) ELSE NoCNode
  BY <1>1
<1>3. ASSUME NEW q \in Node, Connected(n, q)
      PROVE  /\ to(q) \in CNode
             /\ to(q).vRecv = x[q].vRecv /\ to(q).mapAskFor = x[q].mapAskFor
             /\ to(q).setInventoryKnown = x[q].setInventoryKnown
             /\ ToSet(to(q).vInventoryToSend)
                   \subseteq ToSet(x[q].vInventoryToSend) \cup ToSet(blocks)
  <2> DEFINE y == x[q]
  <2>1. y \in CNode
    BY <1>3 DEF Handed
  <2> HIDE DEF y
  <2>2. /\ RelayTo(y, blocks) \in CNode
        /\ RelayTo(y, blocks).vRecv = y.vRecv /\ RelayTo(y, blocks).mapAskFor = y.mapAskFor
        /\ RelayTo(y, blocks).setInventoryKnown = y.setInventoryKnown
        /\ ToSet(RelayTo(y, blocks).vInventoryToSend)
              \subseteq ToSet(y.vInventoryToSend) \cup ToSet(blocks)
    BY <2>1, RelayIs
  <2>3. QED
    BY <2>2 DEF y
<1> HIDE DEF to
<1>4. \A a, q \in Node : Connected(a, q)' <=> Connected(a, q)
  <2>1. SUFFICES ASSUME NEW a \in Node, NEW q \in Node
                 PROVE  cnode'[a][q] # NoCNode <=> cnode[a][q] # NoCNode
    BY DEF Connected
  <2>2. CASE a # n
    BY <1>2, <2>2
  <2>3. CASE a = n
    BY <1>2, <1>3, <2>3, NodeOrNone DEF Connected
  <2>4. QED
    BY <2>2, <2>3
<1>5. Types'
  <2>1. cnode' \in [Node -> [Node -> CNode \cup {NoCNode}]]
    <3>1. \A a, q \in Node : cnode'[a][q] \in CNode \cup {NoCNode}
      BY <1>1, <1>2, <1>3
    <3>2. cnode' = [a \in Node |-> cnode'[a]]
      BY <1>1
    <3>3. \A a \in Node : cnode'[a] = [q \in Node |-> cnode'[a][q]]
      BY <1>1
    <3>4. \A a \in Node : cnode'[a] \in [Node -> CNode \cup {NoCNode}]
      BY <3>1, <3>3
    <3>5. QED
      BY <3>2, <3>4
  <2>2. QED
    BY <1>1, <1>4, <2>1 DEF Types
<1>6. \A a \in Node : ~ Connected(a, a)
  BY <1>1 DEF Types
<1>7. ASSUME NEW q \in Node, Connected(n, q) PROVE PairStep(n, q) /\ PairStep(q, n)
  <2> DEFINE y == x[q]
             z == to(q)
  <2>1. q # n /\ Sound(n, q) /\ Sound(q, n)
    BY <1>1, <1>7 DEF DownloadInv, Types
  <2>2. cnode'[n][q] = z /\ cnode'[q][n] = cnode[q][n]
    BY <1>2, <1>7, <2>1
  <2>3. /\ z.vRecv = y.vRecv /\ z.mapAskFor = y.mapAskFor
        /\ z.setInventoryKnown = y.setInventoryKnown
        /\ ToSet(z.vInventoryToSend) \subseteq ToSet(y.vInventoryToSend) \cup ToSet(blocks)
    BY <1>3, <1>7
  <2>4. Handed(n, q, y)
    BY <1>7
  <2> HIDE DEF y, z
  <2>5. PairStep(n, q)
    BY <2>1, <2>2, <2>3, <2>4 DEF PairStep, OnTheWay, Sound, Handed
  <2>6. PairStep(q, n)
    BY <2>1, <2>2, <2>3, <2>4 DEF PairStep, OnTheWay, Sound, Handed
  <2>7. QED
    BY <2>5, <2>6
<1>8. ASSUME NEW a \in Node, NEW q \in Node, Connected(a, q), a # n, q # n
      PROVE  PairStep(a, q)
  <2>1. cnode'[a][q] = cnode[a][q] /\ cnode'[q][a] = cnode[q][a]
    BY <1>2, <1>8
  <2>2. Sound(a, q)
    BY <1>8 DEF DownloadInv
  <2>3. QED
    BY <2>1, <2>2 DEF PairStep, OnTheWay, Sound
<1>9. ASSUME NEW a \in Node, NEW q \in Node, Connected(a, q)'
      PROVE  Sound(a, q)' /\ Known(a, q)'
  <2>1. Connected(a, q) /\ Connected(q, a) /\ Sound(a, q) /\ Known(a, q)
    BY <1>1, <1>4, <1>9 DEF DownloadInv, Types
  <2>2. PairStep(a, q)
    BY <1>7, <1>8, <2>1
  <2>3. QED
    BY <2>1, <2>2, PairKept
<1>10. QED
  BY <1>5, <1>9 DEF DownloadInv

\* A block that was refused, that waits as an orphan, or that enters the index.
LEMMA BlockKeeps ==
    ASSUME DownloadInv, NEW n \in Node, NEW p \in Node, Connected(n, p), NEW m, NEW s,
           Start(n, p, m, s), HandleBlock(n, p, m, s), UNCHANGED world
    PROVE  DownloadInv'
<1> DEFINE b == m.block
           k == AddInventoryKnown(s, b)
           found(t) == [t EXCEPT !.asked[b] = -Retry]
           orphans == mapOrphanBlocks[n] \cup {b}
           root == GetOrphanRoot(orphans, b)
           wanted == WantedByOrphan(orphans, b)
           fills == PushGetBlocks(k, pindexBest[n], root)
<1>1. /\ Types /\ Blocks /\ pindexBest[n] \in Block /\ Genesis \in mapBlockIndex[n]
      /\ mapOrphanBlocks[n] \in SUBSET Block /\ Genesis \notin mapOrphanBlocks[n]
      /\ IsFiniteSet(mapOrphanBlocks[n])
      /\ s \in Result /\ s.out = <<>> /\ s.node \in CNode
      /\ m \in Msg /\ m.type = "block"
  BY ResultFields DEF DownloadInv, Start, HandleBlock, Blocks
<1>2. b \in Block /\ Brings(m) = {b} /\ Asks(m) = {}
  BY <1>1 DEF Msg, Brings, Asks
<1>3. b \in mapBlockIndex[p]
  BY <1>2, BroughtIsThere
<1>4. nAskedForBlocks' = nAskedForBlocks /\ nAskedForBlocks' \in [Node -> BOOLEAN]
  BY <1>1 DEF HandleBlock, Types
<1> HIDE DEF b
<1>5. /\ k \in Result /\ k.out = <<>>
      /\ k.node.vRecv = s.node.vRecv /\ k.node.mapAskFor = s.node.mapAskFor
      /\ k.node.vInventoryToSend = s.node.vInventoryToSend
      /\ k.node.setInventoryKnown = s.node.setInventoryKnown \cup {b}
  BY <1>1, <1>2, KnowIs
<1>6. -Retry \in Int
  BY DownloadAssumption
<1>7. ASSUME NEW t \in Result
      PROVE  found(t) \in Result /\ found(t).node = t.node /\ found(t).out = t.out
             /\ found(t).asked \in [Block -> Int]
  <2> DEFINE asked == [t.asked EXCEPT ![b] = -Retry]
  <2>1. asked \in [Block -> Int]
    BY <1>2, <1>6, ResultFields
  <2>2. found(t) = [t EXCEPT !.asked = asked]
    OBVIOUS
  <2> HIDE DEF asked, found
  <2>3. QED
    BY <2>1, <2>2 DEF Result
<1>8. CASE AlreadyHave(n, b) /\ Commit(n, p, k) /\ UNCHANGED chain
  <2>1. b \in Have(n)
    BY <1>8 DEF AlreadyHave, Have
  <2> HIDE DEF k
  <2>2. Handled(n, p, m, s, k, Have(n))
    BY <1>2, <1>3, <1>5, <2>1, QueueEmpty DEF Handled
  <2>3. QED
    BY <1>4, <1>8, <2>2, MessageKeeps
<1>9. CASE /\ ~AlreadyHave(n, b)
           /\ mapOrphanBlocks' = [mapOrphanBlocks EXCEPT ![n] = orphans]
           /\ \E fInitialDownload \in BOOLEAN :
                 Commit(n, p, found(IF fInitialDownload THEN fills
                                    ELSE AskFor(fills, wanted)))
           /\ UNCHANGED <<mapBlockIndex, pindexBest>>
  <2>1. b \notin mapBlockIndex[n]
    BY <1>9 DEF AlreadyHave
  <2>2. orphans \in SUBSET Block /\ b \in orphans /\ Genesis \notin orphans
        /\ mapBlockIndex[n] \cap orphans = {} /\ IsFiniteSet(orphans)
    <3>1. IsFiniteSet(orphans)
      BY <1>1, FS_AddElement
    <3>2. mapBlockIndex[n] \cap mapOrphanBlocks[n] = {}
      BY <1>1 DEF Blocks
    <3>3. QED
      BY <1>1, <1>2, <2>1, <3>1, <3>2
  <2> HIDE DEF orphans
  <2>3. root \in Block /\ root \in NoneOrBlock /\ wanted \in Block
    BY <2>2, OrphanRoot DEF NoneOrBlock
  <2> HIDE DEF root, wanted, k
  <2>4. /\ fills \in Result
        /\ fills.node.vRecv = k.node.vRecv /\ fills.node.mapAskFor = k.node.mapAskFor
        /\ fills.node.vInventoryToSend = k.node.vInventoryToSend
        /\ fills.node.setInventoryKnown = k.node.setInventoryKnown
        /\ Carried(fills.out) = Carried(k.out)
    BY <1>1, <1>5, <2>3, PushGetBlocksIs
  <2> HIDE DEF fills
  <2> DEFINE asks == AskFor(fills, wanted)
  <2>5. /\ asks \in Result /\ asks.out = fills.out
        /\ asks.node.vRecv = fills.node.vRecv
        /\ asks.node.vInventoryToSend = fills.node.vInventoryToSend
        /\ asks.node.setInventoryKnown = fills.node.setInventoryKnown
        /\ Asked(fills.node.mapAskFor) \subseteq Asked(asks.node.mapAskFor)
    BY <2>3, <2>4, AskForIs
  <2> HIDE DEF asks
  <2>6. PICK t \in {fills, asks} : Commit(n, p, found(t))
    BY <1>9 DEF asks
  <2> DEFINE r == found(t)
  <2>7. /\ t \in Result
        /\ t.node.vRecv = s.node.vRecv
        /\ t.node.vInventoryToSend = s.node.vInventoryToSend
        /\ t.node.setInventoryKnown = s.node.setInventoryKnown \cup {b}
        /\ Asked(s.node.mapAskFor) \subseteq Asked(t.node.mapAskFor)
        /\ Carried(t.out) = {}
    BY <1>5, <2>4, <2>5, <2>6, QueueEmpty
  <2>8. r \in Result /\ r.node = t.node /\ r.out = t.out
    BY <1>7, <2>7
  <2>9. /\ mapOrphanBlocks'[n] = orphans
        /\ \A a \in Node \ {n} : mapOrphanBlocks'[a] = mapOrphanBlocks[a]
        /\ mapOrphanBlocks' \in [Node -> SUBSET Block]
        /\ mapBlockIndex' = mapBlockIndex /\ pindexBest' = pindexBest
    BY <1>1, <1>9, <2>2 DEF Blocks
  <2>10. mapOrphanBlocks[n] \subseteq orphans
    BY DEF orphans
  <2>11. Blocks'
    <3>1. ASSUME NEW a \in Node
          PROVE  mapBlockIndex[a] \cap mapOrphanBlocks'[a] = {}
                 /\ IsFiniteSet(mapOrphanBlocks'[a])
      <4>1. CASE a = n
        BY <2>2, <2>9, <4>1
      <4>2. CASE a # n
        BY <1>1, <2>9, <4>2 DEF Blocks
      <4>3. QED
        BY <4>1, <4>2
    <3>2. QED
      BY <1>1, <2>9, <3>1 DEF Blocks
  <2>12. \A a \in Node : mapBlockIndex[a] \subseteq mapBlockIndex'[a] /\ Have(a) \subseteq Have(a)'
    BY <2>9, <2>10 DEF Have
  <2>13. b \in Have(n)'
    BY <2>2, <2>9 DEF Have
  <2>14. Commit(n, p, r) /\ world' = world
    BY <2>6
  <2> HIDE DEF r
  <2>15. Handled(n, p, m, s, r, Have(n)')
    BY <1>2, <1>3, <2>7, <2>8, <2>13 DEF Handled
  <2>16. QED
    BY <1>4, <2>11, <2>12, <2>14, <2>15, HandledKeeps
<1>10. ASSUME ~AlreadyHave(n, b), pprev[b] \in mapBlockIndex[n],
              NEW order \in Orders(n, b), NEW r,
              Accept(n, order, r),
              cnode' = [cnode EXCEPT ![n] =
                 [q \in Node |->
                     IF q = p THEN RelayTo(k.node, r.relayed)
                     ELSE IF Connected(n, q) THEN RelayTo(@[q], r.relayed)
                     ELSE NoCNode]],
              mapAlreadyAskedFor' = [mapAlreadyAskedFor EXCEPT ![n] = found(k).asked]
       PROVE  DownloadInv'
  <2> DEFINE x == [q \in Node |-> IF q = p THEN k.node ELSE cnode[n][q]]
  <2>1. /\ Blocks'
        /\ \A a \in Node : mapBlockIndex[a] \subseteq mapBlockIndex'[a]
                           /\ Have(a) \subseteq Have(a)'
        /\ b \in mapBlockIndex'[n]
        /\ r.relayed \in Seq(Block) /\ ToSet(r.relayed) \subseteq mapBlockIndex'[n]
    BY <1>1, <1>2, <1>10, AcceptKeeps
  <2>2. mapAlreadyAskedFor' \in [Node -> [Block -> Int]]
    <3>1. found(k).asked \in [Block -> Int]
      BY <1>5, <1>7
    <3> HIDE DEF found, k
    <3>2. QED
      BY <1>1, <1>10, <3>1 DEF Types
  <2>3. cnode \in [Node -> [Node -> CNode \cup {NoCNode}]]
    BY <1>1 DEF Types
  <2> HIDE DEF k
  <2>4. cnode' = [cnode EXCEPT ![n] = [q \in Node |->
              IF Connected(n, q) THEN RelayTo(x[q], r.relayed) ELSE NoCNode]]
    <3> DEFINE one == [q \in Node |->
                     IF q = p THEN RelayTo(k.node, r.relayed)
                     ELSE IF Connected(n, q) THEN RelayTo(cnode[n][q], r.relayed)
                     ELSE NoCNode]
               two == [q \in Node |->
                     IF Connected(n, q) THEN RelayTo(x[q], r.relayed) ELSE NoCNode]
    <3>1. cnode' = [cnode EXCEPT ![n] = one]
      BY <1>10, <2>3
    <3>2. \A q \in Node : one[q] = two[q]
      OBVIOUS
    <3>3. one = two
      BY <3>2
    <3> HIDE DEF one, two
    <3>4. QED
      BY <3>1, <3>3 DEF two
  <2>5. ASSUME NEW q \in Node, Connected(n, q) PROVE Handed(n, q, x[q])
    <3>1. CASE q = p
      <4> DEFINE y == k.node
      <4>1. y \in CNode /\ x[q] = y
        BY <1>5, <3>1, ResultFields
      <4>2. b \in Have(p) /\ b \in Have(n)'
        BY <1>3, <2>1 DEF Have
      <4>3. /\ y.vRecv = s.node.vRecv /\ y.mapAskFor = s.node.mapAskFor
            /\ y.vInventoryToSend = s.node.vInventoryToSend
            /\ y.setInventoryKnown = s.node.setInventoryKnown \cup {b}
        BY <1>5
      <4> HIDE DEF y, x
      <4>4. Handed(n, p, y)
        BY <1>2, <4>1, <4>2, <4>3 DEF Handed, Start
      <4>5. QED
        BY <3>1, <4>1, <4>4
    <3>2. CASE q # p
      <4>1. x[q] = cnode[n][q] /\ cnode[n][q] \in CNode
        BY <1>1, <2>5, <3>2, ConnectedIs
      <4> HIDE DEF x
      <4>2. QED
        BY <4>1 DEF Handed
    <3>3. QED
      BY <3>1, <3>2
  <2>6. world' = world
    OBVIOUS
  <2> HIDE DEF x
  <2>7. QED
    BY <1>4, <2>1, <2>2, <2>4, <2>5, <2>6, RelayKeeps
<1>11. QED
  <2>1. \/ AlreadyHave(n, b) /\ Commit(n, p, k) /\ UNCHANGED chain
        \/ /\ ~AlreadyHave(n, b)
           /\ mapOrphanBlocks' = [mapOrphanBlocks EXCEPT ![n] = orphans]
           /\ \E fInitialDownload \in BOOLEAN :
                 Commit(n, p, found(IF fInitialDownload THEN fills
                                    ELSE AskFor(fills, wanted)))
           /\ UNCHANGED <<mapBlockIndex, pindexBest>>
        \/ /\ ~AlreadyHave(n, b) /\ pprev[b] \in mapBlockIndex[n]
           /\ \E order \in Orders(n, b) : \E r \in {AcceptInTurn(pindexBest[n], order)} :
                 /\ Accept(n, order, r)
                 /\ cnode' = [cnode EXCEPT ![n] =
                      [q \in Node |->
                          IF q = p THEN RelayTo(k.node, r.relayed)
                          ELSE IF Connected(n, q) THEN RelayTo(@[q], r.relayed)
                          ELSE NoCNode]]
           /\ mapAlreadyAskedFor' = [mapAlreadyAskedFor EXCEPT ![n] = found(k).asked]
    BY DEF HandleBlock, b
  <2>2. QED
    BY <1>8, <1>9, <1>10, <2>1

\* A block that arrives from elsewhere is relayed like one of a peer.
LEMMA ArriveKeeps ==
    ASSUME DownloadInv, NEW n \in Node, Arrive(n)
    PROVE  DownloadInv'
<1> DEFINE Relays(r) ==
             cnode' = [cnode EXCEPT ![n] =
                   [q \in Node |-> IF Connected(n, q) THEN RelayTo(@[q], r.relayed)
                                   ELSE NoCNode]]
<1>1. PICK b \in Block :
        /\ pprev[b] \in mapBlockIndex[n] /\ ~AlreadyHave(n, b)
        /\ \E order \in Orders(n, b) : \E r \in {AcceptInTurn(pindexBest[n], order)} :
              Accept(n, order, r) /\ Relays(r)
        /\ UNCHANGED <<mapAlreadyAskedFor, nAskedForBlocks, world>>
  BY DEF Arrive
<1>2. PICK order \in Orders(n, b) : \E r \in {AcceptInTurn(pindexBest[n], order)} :
        Accept(n, order, r) /\ Relays(r)
  BY <1>1
<1> DEFINE r == AcceptInTurn(pindexBest[n], order)
<1>3. Accept(n, order, r) /\ Relays(r)
  BY <1>2
<1> HIDE DEF r
<1>4. Types /\ Blocks /\ cnode \in [Node -> [Node -> CNode \cup {NoCNode}]]
  BY DEF DownloadInv, Types
<1>5. /\ Blocks'
      /\ \A a \in Node : mapBlockIndex[a] \subseteq mapBlockIndex'[a]
                         /\ Have(a) \subseteq Have(a)'
      /\ r.relayed \in Seq(Block) /\ ToSet(r.relayed) \subseteq mapBlockIndex'[n]
  BY <1>1, <1>3, <1>4, AcceptKeeps
<1> DEFINE x == cnode[n]
<1>6. cnode' = [cnode EXCEPT ![n] =
         [q \in Node |-> IF Connected(n, q) THEN RelayTo(x[q], r.relayed) ELSE NoCNode]]
  BY <1>3, <1>4
<1>7. \A q \in Node : Connected(n, q) => Handed(n, q, x[q])
  BY <1>4, ConnectedIs DEF Handed
<1>8. mapAlreadyAskedFor' \in [Node -> [Block -> Int]] /\ world' = world
      /\ nAskedForBlocks' = nAskedForBlocks
  BY <1>1, <1>4 DEF Types
<1> HIDE DEF x
<1>9. QED
  BY <1>5, <1>6, <1>7, <1>8, RelayKeeps

\* What SendMessages takes off the queues it announces or asks for.
LEMMA SendKeeps ==
    ASSUME DownloadInv, NEW n \in Node, NEW p \in Node, SendMessages(n, p)
    PROVE  DownloadInv'
<1> DEFINE node == cnode[n][p]
           fresh == Block \ node.setInventoryKnown
           waiting == {r \in ToSet(node.mapAskFor) : r.due > 0}
           wanted == {r \in ToSet(node.mapAskFor) : r.due = 0 /\ ~AlreadyHave(n, r.inv)}
           vInv == Among(node.vInventoryToSend, fresh)
           sent == Among(node.mapAskFor, wanted)
           stay == Among(node.mapAskFor, waiting)
           vGetData == [i \in 1..Len(sent) |-> sent[i].inv]
           known == node.setInventoryKnown \cup ToSet(vInv)
           after == [node EXCEPT !.setInventoryKnown = known,
                                 !.vInventoryToSend = <<>>, !.mapAskFor = stay]
           asked == [b \in Block |-> IF b \in ToSet(vGetData) THEN 0
                                     ELSE mapAlreadyAskedFor[n][b]]
           invs == IF vInv = <<>> THEN <<>> ELSE <<MsgInv(vInv)>>
           asks == IF sent = <<>> THEN <<>> ELSE <<MsgGetData(vGetData)>>
           out == invs \o asks
           r == [node |-> after, asked |-> asked, out |-> out]
<1>1. Connected(n, p) /\ Commit(n, p, r) /\ UNCHANGED <<chain, nAskedForBlocks, world>>
  BY DEF SendMessages
<1>2. /\ Types /\ Blocks /\ Sound(n, p) /\ mapAlreadyAskedFor[n] \in [Block -> Int]
      /\ nAskedForBlocks \in [Node -> BOOLEAN]
  BY <1>1 DEF DownloadInv, Types
<1>3. node \in CNode
  BY <1>1, <1>2, ConnectedIs
<1>4. /\ node.vInventoryToSend \in Seq(Block) /\ node.mapAskFor \in Seq(Request)
      /\ node.setInventoryKnown \in SUBSET Block
  BY <1>3, NodeFields
<1> HIDE DEF node
<1>5. /\ vInv \in Seq(Block) /\ ToSet(vInv) \subseteq ToSet(node.vInventoryToSend)
      /\ sent \in Seq(Request) /\ ToSet(sent) = wanted
      /\ stay \in Seq(Request) /\ ToSet(stay) = waiting
  <2> HIDE DEF fresh, wanted, waiting
  <2>1. /\ vInv \in Seq(Block) /\ ToSet(vInv) \subseteq ToSet(node.vInventoryToSend)
        /\ sent \in Seq(Request) /\ ToSet(sent) = ToSet(node.mapAskFor) \cap wanted
        /\ stay \in Seq(Request) /\ ToSet(stay) = ToSet(node.mapAskFor) \cap waiting
    BY <1>4, AmongIs
  <2>2. QED
    BY <2>1 DEF wanted, waiting
<1> HIDE DEF vInv, sent, stay, fresh
<1>6. vGetData \in Seq(Block) /\ ToSet(vGetData) = {t.inv : t \in wanted}
  <2>1. Len(sent) \in Nat /\ DOMAIN sent = 1..Len(sent)
        /\ \A i \in 1..Len(sent) : sent[i] \in Request
    BY <1>5, InSequence
  <2>2. \A i \in 1..Len(sent) : sent[i].inv \in Block
    BY <2>1 DEF Request
  <2>3. vGetData \in Seq(Block) /\ DOMAIN vGetData = 1..Len(sent)
    BY <2>1, <2>2
  <2>4. ToSet(vGetData) = {t.inv : t \in ToSet(sent)}
    BY <2>1, <2>3 DEF ToSet
  <2>5. QED
    BY <1>5, <2>3, <2>4
<1> HIDE DEF vGetData
<1>7. invs \in Seq(Msg) /\ Carried(invs) = ToSet(vInv) /\ Requested(invs) = {}
  <2>1. ASSUME vInv = <<>> PROVE ToSet(vInv) = {}
    BY <2>1 DEF ToSet
  <2> DEFINE m == MsgInv(vInv)
  <2>2. m \in Msg /\ Brings(m) = ToSet(vInv) /\ Asks(m) = {}
    BY <1>5, MsgIs
  <2> HIDE DEF m
  <2>3. <<m>> \in Seq(Msg) /\ ToSet(<<m>>) = {m}
    BY <2>2 DEF ToSet
  <2>4. Carried(<<m>>) = Brings(m) /\ Requested(<<m>>) = Asks(m)
    BY <2>3 DEF Carried, Requested
  <2>5. QED
    BY <2>1, <2>2, <2>3, <2>4, QueueEmpty DEF m
<1>8. asks \in Seq(Msg) /\ Carried(asks) = {} /\ Requested(asks) = ToSet(vGetData)
  <2>1. ASSUME sent = <<>> PROVE ToSet(vGetData) = {}
    <3>1. ToSet(sent) = {}
      BY <2>1 DEF ToSet
    <3>2. QED
      BY <1>5, <1>6, <3>1
  <2> DEFINE m == MsgGetData(vGetData)
  <2>2. m \in Msg /\ Brings(m) = {} /\ Asks(m) = ToSet(vGetData)
    BY <1>6, MsgIs
  <2> HIDE DEF m
  <2>3. <<m>> \in Seq(Msg) /\ ToSet(<<m>>) = {m}
    BY <2>2 DEF ToSet
  <2>4. Carried(<<m>>) = Brings(m) /\ Requested(<<m>>) = Asks(m)
    BY <2>3 DEF Carried, Requested
  <2>5. QED
    BY <2>1, <2>2, <2>3, <2>4, QueueEmpty DEF m
<1> HIDE DEF invs, asks
<1>9. out \in Seq(Msg) /\ Carried(out) = ToSet(vInv) /\ Requested(out) = ToSet(vGetData)
  <2>1. /\ out \in Seq(Msg) /\ Carried(out) = Carried(invs) \cup Carried(asks)
        /\ Requested(out) = Requested(invs) \cup Requested(asks)
    <3>1. invs \in Seq(Msg) /\ asks \in Seq(Msg)
      BY <1>7, <1>8
    <3>2. QED
      BY ONLY <3>1, QueueConcat
  <2> HIDE DEF out
  <2>2. QED
    BY <1>7, <1>8, <2>1
<1> HIDE DEF out
<1>10. known \in SUBSET Block
  BY <1>4, <1>5, InSequence
<1> HIDE DEF known
<1>11. /\ after \in CNode /\ after.vRecv = node.vRecv /\ after.setInventoryKnown = known
       /\ after.vInventoryToSend = <<>> /\ after.mapAskFor = stay
  <2>1. <<>> \in Seq(Block)
    OBVIOUS
  <2>2. QED
    BY <1>3, <1>5, <1>10, <2>1 DEF CNode
<1> HIDE DEF after
<1>12. asked \in [Block -> Int]
  BY <1>2
<1> HIDE DEF asked
<1>13. r \in Result /\ r.node = after /\ r.out = out
  BY <1>9, <1>11, <1>12 DEF Result
<1> HIDE DEF r
<1>14. Have(n)' = Have(n) /\ \A a \in Node : Have(a) = Have(a)'
  BY <1>1 DEF Have, chain
<1>15. Asked(node.mapAskFor) \subseteq Have(n) \cup Asked(stay) \cup Requested(out)
  <2>1. SUFFICES ASSUME NEW t \in ToSet(node.mapAskFor)
                 PROVE  t.inv \in Have(n) \cup Asked(stay) \cup Requested(out)
    BY DEF Asked
  <2>2. t \in Request /\ t.due \in Nat
    <3>1. ToSet(node.mapAskFor) \subseteq Request
      BY <1>4, InSequence
    <3>2. QED
      BY <3>1 DEF Request
  <2>3. CASE t.due > 0
    BY <1>5, <2>3 DEF Asked
  <2>4. CASE t.due = 0
    BY <1>6, <1>9, <2>4 DEF AlreadyHave, Have
  <2>5. QED
    BY <2>2, <2>3, <2>4
<1>16. ToSet(<<>>) = {}
  BY DEF ToSet
<1>17. Keeps(n, p, r, Have(n)')
  <2>1. Carried(r.out) \subseteq mapBlockIndex[n]
    BY <1>2, <1>5, <1>9, <1>13 DEF Sound, node
  <2>2. ToSet(r.node.vInventoryToSend) \subseteq mapBlockIndex[n]
    BY <1>11, <1>13, <1>16
  <2>3. r.node.setInventoryKnown \subseteq cnode[n][p].setInventoryKnown \cup Carried(r.out)
    BY <1>9, <1>11, <1>13 DEF known, node
  <2>4. r.node.vRecv = cnode[n][p].vRecv /\ r.node.mapAskFor = stay /\ r.out = out
    BY <1>11, <1>13 DEF node
  <2>5. Asked(cnode[n][p].mapAskFor) \subseteq Have(n)' \cup Asked(stay) \cup Requested(out)
    BY <1>14, <1>15 DEF node
  <2>6. QED
    BY <2>1, <2>2, <2>3, <2>4, <2>5 DEF Keeps
<1>18. Blocks' /\ world' = world /\ nAskedForBlocks' \in [Node -> BOOLEAN]
       /\ \A a \in Node : mapBlockIndex[a] = mapBlockIndex'[a]
  BY <1>1, <1>2 DEF Blocks, chain
<1>19. QED
  BY <1>1, <1>13, <1>14, <1>17, <1>18, CommitKeeps

\* A step that writes no queue and no request but their times.
LEMMA TickKeeps ==
    ASSUME DownloadInv, Tick
    PROVE  DownloadInv'
<1> DEFINE sooner(r) == [r EXCEPT !.due = IF @ > 0 THEN @ - 1 ELSE 0]
           older(t) == IF t > -Retry THEN t - 1 ELSE t
           nearer(s) == [i \in 1..Len(s) |-> sooner(s[i])]
           ticked(node) == [node EXCEPT !.mapAskFor = nearer(@)]
<1>1. /\ mapAlreadyAskedFor' = [n \in Node |-> [b \in Block |-> older(mapAlreadyAskedFor[n][b])]]
      /\ cnode' = [n \in Node |-> [p \in Node |->
            IF Connected(n, p) THEN ticked(cnode[n][p]) ELSE NoCNode]]
      /\ UNCHANGED <<chain, nAskedForBlocks, world>>
  BY DEF Tick
<1>2. Types /\ Blocks /\ mapAlreadyAskedFor \in [Node -> [Block -> Int]]
  BY DEF DownloadInv, Types
<1>3. mapAlreadyAskedFor' \in [Node -> [Block -> Int]]
  <2>1. \A n \in Node, b \in Block : older(mapAlreadyAskedFor[n][b]) \in Int
    <3>1. ASSUME NEW t \in Int PROVE older(t) \in Int
      OBVIOUS
    <3> HIDE DEF older
    <3>2. QED
      BY <1>2, <3>1
  <2> HIDE DEF older
  <2>2. QED
    BY <1>1, <2>1
<1>4. ASSUME NEW s \in Seq(Request)
      PROVE  nearer(s) \in Seq(Request) /\ Asked(nearer(s)) = Asked(s)
  <2>1. \A r \in Request : sooner(r) \in Request /\ sooner(r).inv = r.inv
    BY DEF Request
  <2>2. Len(s) \in Nat /\ DOMAIN s = 1..Len(s) /\ \A i \in 1..Len(s) : s[i] \in Request
    BY InSequence
  <2> HIDE DEF sooner
  <2>3. nearer(s) \in Seq(Request) /\ DOMAIN nearer(s) = 1..Len(s)
        /\ \A i \in 1..Len(s) : nearer(s)[i].inv = s[i].inv
    BY <2>1, <2>2
  <2>4. QED
    BY <2>2, <2>3 DEF Asked, ToSet
<1> HIDE DEF nearer
<1>5. ASSUME NEW node \in CNode
      PROVE  /\ ticked(node) \in CNode
             /\ ticked(node).vRecv = node.vRecv
             /\ ticked(node).vInventoryToSend = node.vInventoryToSend
             /\ ticked(node).setInventoryKnown = node.setInventoryKnown
             /\ Asked(ticked(node).mapAskFor) = Asked(node.mapAskFor)
  <2> DEFINE s == nearer(node.mapAskFor)
  <2>1. s \in Seq(Request) /\ Asked(s) = Asked(node.mapAskFor)
    BY <1>4, NodeFields
  <2>2. ticked(node) = [node EXCEPT !.mapAskFor = s]
    OBVIOUS
  <2> HIDE DEF s, ticked
  <2>3. QED
    BY <2>1, <2>2 DEF CNode
<1> HIDE DEF ticked
<1>6. \A n, p \in Node : cnode'[n][p] = IF Connected(n, p) THEN ticked(cnode[n][p]) ELSE NoCNode
  BY <1>1
<1>7. ASSUME NEW n \in Node, NEW p \in Node, Connected(n, p)
      PROVE  cnode'[n][p] = ticked(cnode[n][p]) /\ cnode[n][p] \in CNode
             /\ cnode'[n][p] \in CNode
  BY <1>2, <1>5, <1>6, <1>7, ConnectedIs
<1>8. \A n, p \in Node : Connected(n, p)' <=> Connected(n, p)
  <2>1. SUFFICES ASSUME NEW n \in Node, NEW p \in Node
                 PROVE  cnode'[n][p] # NoCNode <=> Connected(n, p)
    BY DEF Connected
  <2>2. QED
    BY <1>6, <1>7, NodeOrNone
<1>9. Types'
  <2>1. \A n, p \in Node : cnode'[n][p] \in CNode \cup {NoCNode}
    BY <1>6, <1>7
  <2>2. cnode' \in [Node -> [Node -> CNode \cup {NoCNode}]]
    BY <1>1, <2>1
  <2>3. QED
    BY <1>1, <1>2, <1>3, <1>8, <2>2 DEF Types
<1>10. Blocks'
  BY <1>1, <1>2 DEF Blocks, chain
<1>11. ASSUME NEW n \in Node, NEW p \in Node, Connected(n, p)'
       PROVE  Sound(n, p)' /\ Known(n, p)'
  <2>1. Connected(n, p) /\ Connected(p, n) /\ Sound(n, p) /\ Known(n, p)
    BY <1>2, <1>8, <1>11 DEF DownloadInv, Types
  <2> DEFINE a == cnode[n][p]
             b == cnode[p][n]
  <2>2. /\ cnode'[n][p].vRecv = a.vRecv /\ cnode'[p][n].vRecv = b.vRecv
        /\ cnode'[n][p].vInventoryToSend = a.vInventoryToSend
        /\ cnode'[n][p].setInventoryKnown = a.setInventoryKnown
        /\ Asked(cnode'[p][n].mapAskFor) = Asked(b.mapAskFor)
    BY <1>5, <1>7, <2>1
  <2>3. mapBlockIndex' = mapBlockIndex /\ Have(p)' = Have(p) /\ world' = world
    BY <1>1 DEF Have, chain
  <2>4. QED
    BY <2>1, <2>2, <2>3 DEF Sound, Known, OnTheWay
<1>12. QED
  BY <1>9, <1>10, <1>11 DEF DownloadInv

\* What is the same for a pair is as sound and as known as it was.
LEMMA PairSame ==
    ASSUME NEW a, NEW b, Sound(a, b), Known(a, b),
           cnode'[a][b] = cnode[a][b], cnode'[b][a] = cnode[b][a],
           mapBlockIndex' = mapBlockIndex, Have(b)' = Have(b),
           world'.silent = world.silent
    PROVE  Sound(a, b)' /\ Known(a, b)'
BY DEF Sound, Known, OnTheWay

\* A new connection: nothing is known, and at most a version is on its way.
LEMMA ConnectKeeps ==
    ASSUME DownloadInv, NEW n \in Node, NEW p \in Node, Connect(n, p)
    PROVE  DownloadInv'
<1> DEFINE out == NewCNode(FALSE)
           said == <<MsgVersion(nHeight[pindexBest[n]])>>
           fresh == NewCNode(TRUE)
           in == [fresh EXCEPT !.vRecv = said]
<1>1. /\ <<n, p>> \in world.dials /\ ~Connected(n, p)
      /\ cnode' = [cnode EXCEPT ![n][p] = out, ![p][n] = in]
      /\ UNCHANGED <<chain, mapAlreadyAskedFor, nAskedForBlocks, world>>
  BY DEF Connect
<1>2. /\ Types /\ Blocks /\ cnode \in [Node -> [Node -> CNode \cup {NoCNode}]]
      /\ n # p /\ ~Connected(p, n)
  BY <1>1 DEF DownloadInv, Types
<1>3. said \in Seq(Msg) /\ Carried(said) = {}
  <2> DEFINE m == MsgVersion(nHeight[pindexBest[n]])
  <2>1. nHeight[pindexBest[n]] \in Nat
    BY <1>2, TreeAssumption DEF Blocks
  <2>2. m \in Msg /\ Brings(m) = {}
    BY <2>1, MsgIs
  <2> HIDE DEF m
  <2>3. <<m>> \in Seq(Msg) /\ ToSet(<<m>>) = {m}
    BY <2>2 DEF ToSet
  <2>4. Carried(<<m>>) = {}
    BY <2>2, <2>3 DEF Carried
  <2>5. QED
    BY <2>3, <2>4 DEF m
<1> HIDE DEF said
<1>4. /\ <<>> \in Seq(Msg) /\ <<>> \in Seq(Block) /\ <<>> \in Seq(Request)
      /\ Carried(<<>>) = {} /\ ToSet(<<>>) = {}
  BY QueueEmpty DEF ToSet
<1>5. /\ out \in CNode /\ out.vRecv = <<>> /\ out.vInventoryToSend = <<>>
      /\ out.setInventoryKnown = {}
  BY <1>4 DEF NewCNode, CNode, NoneOrBlock
<1>6. /\ in \in CNode /\ in.vRecv = said /\ in.vInventoryToSend = <<>>
      /\ in.setInventoryKnown = {}
  <2>1. /\ fresh \in CNode /\ fresh.vInventoryToSend = <<>>
        /\ fresh.setInventoryKnown = {}
    BY <1>4 DEF NewCNode, CNode, NoneOrBlock
  <2> HIDE DEF fresh
  <2>2. QED
    BY <1>3, <2>1 DEF CNode
<1> HIDE DEF out, in
<1>7. /\ cnode'[n][p] = out /\ cnode'[p][n] = in
      /\ \A a, b \in Node : <<a, b>> \notin {<<n, p>>, <<p, n>>} => cnode'[a][b] = cnode[a][b]
  BY <1>1, <1>2
<1>8. cnode' \in [Node -> [Node -> CNode \cup {NoCNode}]]
  BY <1>1, <1>2, <1>5, <1>6
<1>9. Types'
  <2>1. Connected(n, p)' /\ Connected(p, n)'
    BY <1>5, <1>6, <1>7, NodeOrNone DEF Connected
  <2>2. ASSUME NEW a \in Node, NEW b \in Node, Connected(a, b)'
        PROVE  Connected(b, a)' /\ a # b
    <3>1. CASE <<a, b>> \in {<<n, p>>, <<p, n>>}
      BY <1>2, <2>1, <3>1
    <3>2. CASE <<a, b>> \notin {<<n, p>>, <<p, n>>}
      <4>1. <<b, a>> \notin {<<n, p>>, <<p, n>>}
        BY <3>2
      <4>2. Connected(a, b)
        BY <1>7, <2>2, <3>2 DEF Connected
      <4>3. QED
        BY <1>2, <1>7, <4>1, <4>2 DEF Connected, Types
    <3>3. QED
      BY <3>1, <3>2
  <2>3. QED
    BY <1>1, <1>2, <1>8, <2>2 DEF Types
<1>10. Blocks'
  BY <1>1, <1>2 DEF Blocks, chain
<1>11. ASSUME NEW a \in Node, NEW b \in Node, Connected(a, b)'
       PROVE  Sound(a, b)' /\ Known(a, b)'
  <2>1. CASE <<a, b>> \in {<<n, p>>, <<p, n>>}
    <3>1. /\ Carried(cnode'[a][b].vRecv) = {} /\ Carried(cnode'[b][a].vRecv) = {}
          /\ ToSet(cnode'[a][b].vInventoryToSend) = {}
          /\ cnode'[a][b].setInventoryKnown = {}
      BY <1>3, <1>4, <1>5, <1>6, <1>7, <2>1
    <3>2. QED
      BY <3>1 DEF Sound, Known
  <2>2. CASE <<a, b>> \notin {<<n, p>>, <<p, n>>}
    <3>1. cnode'[a][b] = cnode[a][b] /\ cnode'[b][a] = cnode[b][a]
      BY <1>7, <2>2
    <3>2. Connected(a, b)
      BY <1>11, <3>1 DEF Connected
    <3>3. Sound(a, b) /\ Known(a, b)
      BY <3>2 DEF DownloadInv
    <3>4. mapBlockIndex' = mapBlockIndex /\ Have(b)' = Have(b) /\ world'.silent = world.silent
      BY <1>1 DEF Have, chain
    <3>5. QED
      BY <3>1, <3>3, <3>4, PairSame
  <2>3. QED
    BY <2>1, <2>2
<1>12. QED
  BY <1>9, <1>10, <1>11 DEF DownloadInv

\* A fault is one fewer to come, and changes nothing else of the world.
LEMMA FaultIs ==
    ASSUME world \in World, world.faults > 0,
           world' = [world EXCEPT !.faults = @ - 1]
    PROVE  world' \in World /\ world'.silent = world.silent /\ world'.dials = world.dials
<1> DEFINE left == world.faults - 1
<1>1. world.faults \in Nat
  BY DEF World
<1>2. left \in Nat
  BY <1>1
<1> HIDE DEF left
<1>3. QED
  BY <1>2 DEF World, left

\* A lost connection is lost at both ends.
LEMMA DisconnectKeeps ==
    ASSUME DownloadInv, NEW n \in Node, NEW p \in Node, Disconnect(n, p)
    PROVE  DownloadInv'
<1>1. /\ Connected(n, p) /\ world.faults > 0 /\ world' = [world EXCEPT !.faults = @ - 1]
      /\ cnode' = [cnode EXCEPT ![n][p] = NoCNode, ![p][n] = NoCNode]
      /\ UNCHANGED <<chain, mapAlreadyAskedFor, nAskedForBlocks>>
  BY DEF Disconnect
<1>2. /\ Types /\ Blocks /\ cnode \in [Node -> [Node -> CNode \cup {NoCNode}]]
      /\ n # p /\ world \in World
  BY <1>1 DEF DownloadInv, Types
<1>3. world' \in World /\ world'.silent = world.silent /\ world'.dials = world.dials
  BY <1>1, <1>2, FaultIs
<1>4. /\ cnode'[n][p] = NoCNode /\ cnode'[p][n] = NoCNode
      /\ \A a, b \in Node : <<a, b>> \notin {<<n, p>>, <<p, n>>} => cnode'[a][b] = cnode[a][b]
  BY <1>1, <1>2
<1>5. cnode' \in [Node -> [Node -> CNode \cup {NoCNode}]]
  BY <1>1, <1>2
<1>6. ASSUME NEW a \in Node, NEW b \in Node, Connected(a, b)'
      PROVE  /\ cnode'[a][b] = cnode[a][b] /\ cnode'[b][a] = cnode[b][a]
             /\ Connected(a, b) /\ Connected(b, a)' /\ a # b
  <2>1. <<a, b>> \notin {<<n, p>>, <<p, n>>}
    BY <1>4, <1>6 DEF Connected
  <2>2. cnode'[a][b] = cnode[a][b] /\ cnode'[b][a] = cnode[b][a]
    BY <1>4, <2>1
  <2>3. QED
    BY <1>2, <1>6, <2>2 DEF Connected, Types
<1>7. Types'
  BY <1>1, <1>2, <1>3, <1>5, <1>6 DEF Types
<1>8. Blocks'
  BY <1>1, <1>2 DEF Blocks, chain
<1>9. ASSUME NEW a \in Node, NEW b \in Node, Connected(a, b)'
      PROVE  Sound(a, b)' /\ Known(a, b)'
  <2>1. Sound(a, b) /\ Known(a, b)
    BY <1>6, <1>9 DEF DownloadInv
  <2>2. mapBlockIndex' = mapBlockIndex /\ Have(b)' = Have(b)
    BY <1>1 DEF Have, chain
  <2>3. QED
    BY <1>3, <1>6, <1>9, <2>1, <2>2, PairSame
<1>10. QED
  BY <1>7, <1>8, <1>9 DEF DownloadInv

\* A node that starts anew has no peer, no orphan and no request.
LEMMA RestartKeeps ==
    ASSUME DownloadInv, NEW n \in Node, Restart(n)
    PROVE  DownloadInv'
<1>1. /\ world.faults > 0 /\ world' = [world EXCEPT !.faults = @ - 1]
      /\ mapOrphanBlocks' = [mapOrphanBlocks EXCEPT ![n] = {}]
      /\ mapAlreadyAskedFor' = [mapAlreadyAskedFor EXCEPT ![n] = [b \in Block |-> -Retry]]
      /\ nAskedForBlocks' = [nAskedForBlocks EXCEPT ![n] = FALSE]
      /\ cnode' = [m \in Node |-> [p \in Node |->
                    IF n \in {m, p} THEN NoCNode ELSE cnode[m][p]]]
      /\ UNCHANGED <<mapBlockIndex, pindexBest>>
  BY DEF Restart
<1>2. Types /\ Blocks /\ cnode \in [Node -> [Node -> CNode \cup {NoCNode}]] /\ world \in World
  BY DEF DownloadInv, Types
<1>3. world' \in World /\ world'.silent = world.silent /\ world'.dials = world.dials
  BY <1>1, <1>2, FaultIs
<1>4. \A a, b \in Node : cnode'[a][b] = IF n \in {a, b} THEN NoCNode ELSE cnode[a][b]
  BY <1>1
<1>5. cnode' \in [Node -> [Node -> CNode \cup {NoCNode}]]
  BY <1>1, <1>2
<1>6. ASSUME NEW a \in Node, NEW b \in Node, Connected(a, b)'
      PROVE  /\ cnode'[a][b] = cnode[a][b] /\ cnode'[b][a] = cnode[b][a]
             /\ Connected(a, b) /\ Connected(b, a)' /\ a # b /\ b # n
  <2>1. n \notin {a, b}
    BY <1>4, <1>6 DEF Connected
  <2>2. cnode'[a][b] = cnode[a][b] /\ cnode'[b][a] = cnode[b][a]
    BY <1>4, <2>1
  <2>3. QED
    BY <1>2, <1>6, <2>1, <2>2 DEF Connected, Types
<1>7. /\ mapAlreadyAskedFor' \in [Node -> [Block -> Int]]
      /\ nAskedForBlocks' \in [Node -> BOOLEAN]
  <2>1. -Retry \in Int
    BY DownloadAssumption
  <2>2. QED
    BY <1>1, <1>2, <2>1 DEF Types
<1>8. Types'
  BY <1>2, <1>3, <1>5, <1>6, <1>7 DEF Types
<1>9. mapOrphanBlocks'[n] = {} /\ \A a \in Node \ {n} : mapOrphanBlocks'[a] = mapOrphanBlocks[a]
  BY <1>1, <1>2 DEF Blocks
<1>10. Blocks'
  <2>1. mapOrphanBlocks' \in [Node -> SUBSET Block]
    BY <1>1, <1>2 DEF Blocks
  <2>2. ASSUME NEW a \in Node
        PROVE  mapBlockIndex[a] \cap mapOrphanBlocks'[a] = {} /\ IsFiniteSet(mapOrphanBlocks'[a])
    <3>1. CASE a = n
      BY <1>9, <3>1, FS_EmptySet
    <3>2. CASE a # n
      BY <1>2, <1>9, <3>2 DEF Blocks
    <3>3. QED
      BY <3>1, <3>2
  <2>3. QED
    BY <1>1, <1>2, <2>1, <2>2 DEF Blocks
<1>11. ASSUME NEW a \in Node, NEW b \in Node, Connected(a, b)'
       PROVE  Sound(a, b)' /\ Known(a, b)'
  <2>1. Sound(a, b) /\ Known(a, b)
    BY <1>6, <1>11 DEF DownloadInv
  <2>2. mapBlockIndex' = mapBlockIndex /\ Have(b)' = Have(b)
    BY <1>1, <1>6, <1>9, <1>11 DEF Have
  <2>3. QED
    BY <1>3, <1>6, <1>11, <2>1, <2>2, PairSame
<1>12. QED
  BY <1>8, <1>10, <1>11 DEF DownloadInv

\* Whatever the message.
LEMMA ProcessKeeps ==
    ASSUME DownloadInv, NEW n \in Node, NEW p \in Node, ProcessMessage(n, p)
    PROVE  DownloadInv'
<1>1. Connected(n, p) /\ cnode[n][p].vRecv # <<>> /\ UNCHANGED world /\ Types
  BY DEF ProcessMessage, DownloadInv
<1> DEFINE m == Head(cnode[n][p].vRecv)
           s == [Begin(n, p) EXCEPT !.node.vRecv = Tail(@)]
<1>2. \/ HandleVersion(n, p, m, s) \/ HandleInv(n, p, m, s) \/ HandleGetData(n, p, m, s)
      \/ HandleGetBlocks(n, p, m, s) \/ HandleBlock(n, p, m, s)
  BY DEF ProcessMessage
<1>3. Start(n, p, m, s)
  BY <1>1, StartIs
<1> HIDE DEF m, s
<1>4. CASE HandleVersion(n, p, m, s)
  BY <1>1, <1>3, <1>4, VersionKeeps
<1>5. CASE HandleInv(n, p, m, s)
  BY <1>1, <1>3, <1>5, InvKeeps
<1>6. CASE HandleGetData(n, p, m, s)
  BY <1>1, <1>3, <1>6, GetDataKeeps
<1>7. CASE HandleGetBlocks(n, p, m, s)
  BY <1>1, <1>3, <1>7, GetBlocksKeeps
<1>8. CASE HandleBlock(n, p, m, s)
  BY <1>1, <1>3, <1>8, BlockKeeps
<1>9. QED
  BY <1>2, <1>4, <1>5, <1>6, <1>7, <1>8

-----------------------------------------------------------------------------
(* Theorems                                                                 *)

\* The first blocks of every node are complete, and nobody is connected.
LEMMA InitDownload == Init => DownloadInv
<1> SUFFICES ASSUME Init PROVE DownloadInv
  OBVIOUS
<1>1. world \in Worlds /\ world \in World
      /\ \A n \in Node : /\ Genesis \in world.origin[n] /\ DownClosed(world.origin[n])
                         /\ \E b \in world.origin[n] : \A c \in world.origin[n] :
                                nChainTrust[c] <= nChainTrust[b]
                         /\ <<n, n>> \notin world.dials
  BY DownloadAssumption DEF Init
<1>2. /\ mapBlockIndex = world.origin
      /\ mapOrphanBlocks = [n \in Node |-> {}]
      /\ pindexBest = [n \in Node |-> Heaviest(world.origin[n])]
      /\ mapAlreadyAskedFor = [n \in Node |-> [b \in Block |-> -Retry]]
      /\ nAskedForBlocks = [n \in Node |-> FALSE]
      /\ cnode = [n \in Node |-> [p \in Node |-> NoCNode]]
  BY DEF Init
<1>3. world.origin \in [Node -> SUBSET Block]
  BY <1>1 DEF World
<1>4. ASSUME NEW n \in Node
      PROVE  Heaviest(world.origin[n]) \in world.origin[n]
  BY <1>1 DEF Heaviest
<1>5. \A n, p \in Node : ~Connected(n, p)
  BY <1>2 DEF Connected
<1>6. Types
  <2>1. -Retry \in Int
    BY DownloadAssumption
  <2>2. QED
    BY <1>1, <1>2, <1>5, <2>1 DEF Types
<1>7. Blocks
  <2>1. pindexBest \in [Node -> Block] /\ \A n \in Node : pindexBest[n] \in mapBlockIndex[n]
    BY <1>2, <1>3, <1>4
  <2>2. \A n \in Node : mapOrphanBlocks[n] = {} /\ IsFiniteSet(mapOrphanBlocks[n])
    BY <1>2, FS_EmptySet
  <2>3. mapOrphanBlocks \in [Node -> SUBSET Block] /\ mapBlockIndex \in [Node -> SUBSET Block]
    BY <1>2, <1>3
  <2>4. QED
    BY <1>1, <1>2, <2>1, <2>2, <2>3 DEF Blocks
<1>8. QED
  BY <1>5, <1>6, <1>7 DEF DownloadInv

\* Every step keeps the invariant.
LEMMA NextDownload == DownloadInv /\ [Next]_vars => DownloadInv'
<1> SUFFICES ASSUME DownloadInv, [Next]_vars PROVE DownloadInv'
  OBVIOUS
<1>1. ASSUME NEW n \in Node, MessageHandler(n) PROVE DownloadInv'
  <2>1. PICK p \in Node : ProcessMessage(n, p) \/ SendMessages(n, p)
    BY <1>1 DEF MessageHandler
  <2>2. QED
    BY <2>1, ProcessKeeps, SendKeeps
<1>2. CASE UNCHANGED vars
  <2>1. \A n, p \in Node : Sound(n, p) /\ Known(n, p) => Sound(n, p)' /\ Known(n, p)'
    BY <1>2 DEF Sound, Known, OnTheWay, Have, vars, chain
  <2>2. Types' /\ Blocks'
    BY <1>2 DEF DownloadInv, Types, Blocks, Connected, vars, chain
  <2>3. \A n, p \in Node : Connected(n, p)' <=> Connected(n, p)
    BY <1>2 DEF Connected, vars
  <2>4. QED
    BY <2>1, <2>2, <2>3 DEF DownloadInv
<1>3. QED
  BY <1>1, <1>2, RestartKeeps, ArriveKeeps, ConnectKeeps, DisconnectKeeps, TickKeeps DEF Next

(* Whatever is on the wires and however often a node or a connection is     *)
(* lost: what a node announces it has, and what it believes a peer knows    *)
(* the peer has or is about to have.                                        *)
THEOREM DownloadInvariant == Spec => []DownloadInv
<1>1. QED
  BY InitDownload, NextDownload, PTL DEF Spec

(* setInventoryKnown never makes a node withhold a block from a peer that   *)
(* neither has it nor is about to: every block PushInventory skips is the   *)
(* peer's, announced, asked for, or on its way (net.h, main.cpp).          *)
THEOREM AnnouncementsKept == Spec => []AnnouncedNotForgotten
<1>1. ASSUME DownloadInv PROVE AnnouncedNotForgotten
  <2>1. /\ Types /\ Blocks
        /\ \A n, p \in Node : Connected(n, p) => Known(n, p) /\ Connected(p, n)
    BY <1>1 DEF DownloadInv, Types
  <2>2. TypeOK
    <3>1. ASSUME NEW n \in Node, NEW p \in Node, Connected(n, p)
          PROVE  /\ ToSet(cnode[n][p].mapAskFor) \subseteq Request
                 /\ cnode[n][p].setInventoryKnown \subseteq Block
                 /\ {cnode[n][p].lastBegin, cnode[n][p].lastEnd,
                     cnode[n][p].hashContinue} \subseteq Block \cup {NoBlock}
      <4> DEFINE node == cnode[n][p]
      <4>1. node \in CNode
        BY <2>1, <3>1, ConnectedIs
      <4> HIDE DEF node
      <4>2. /\ node.mapAskFor \in Seq(Request) /\ node.setInventoryKnown \in SUBSET Block
            /\ node.lastBegin \in NoneOrBlock /\ node.lastEnd \in NoneOrBlock
            /\ node.hashContinue \in NoneOrBlock
        BY <4>1, NodeFields
      <4>3. ToSet(node.mapAskFor) \subseteq Request
        BY <4>2, InSequence
      <4>4. QED
        BY <4>2, <4>3 DEF node, NoneOrBlock
    <3>2. QED
      BY <2>1, <3>1 DEF TypeOK, Types, Blocks
  <2>3. ASSUME NEW n \in Node, NEW p \in Node, NEW b \in OnTheWay(n, p)
        PROVE  OnItsWay(n, p, b)
    <3>1. CASE b \in Carried(cnode[p][n].vRecv)
      BY <3>1 DEF OnItsWay, Carried, Brings, ToSet
    <3>2. CASE b \in Asked(cnode[p][n].mapAskFor)
      BY <3>2 DEF OnItsWay, Asked, ToSet
    <3>3. CASE b \in Requested(cnode[n][p].vRecv)
      BY <3>3 DEF OnItsWay, Requested, Asks, ToSet
    <3>4. QED
      BY <3>1, <3>2, <3>3 DEF OnTheWay
  <2>4. ASSUME NEW n \in Node \ world.silent, NEW p \in Node, Connected(n, p),
               NEW b \in cnode[n][p].setInventoryKnown
        PROVE  AlreadyHave(p, b) \/ OnItsWay(n, p, b)
    BY <2>1, <2>3, <2>4 DEF Known, Have, AlreadyHave
  <2>5. QED
    BY <2>2, <2>4 DEF AnnouncedNotForgotten
<1>2. QED
  BY <1>1, DownloadInvariant, PTL
=============================================================================
