---------------------------- MODULE AddrManProofs ----------------------------
(***************************************************************************)
(* The table of the address manager, its buckets and the indexes over it   *)
(* agree after every call, for any number of addresses, buckets and        *)
(* entries, whatever is evicted, shuffled, dumped and read back.           *)
(***************************************************************************)
EXTENDS AddrMan, FiniteSetTheorems, SequenceTheorems, WellFoundedInduction, TLAPS

Info == [addr : Service, source : Source, nLastSuccess : 0 .. MaxTime,
         nRefCount : Nat, fInTried : BOOLEAN, nRandomPos : Nat]

Typed(am) ==
    /\ am \in [mapInfo : {am.mapInfo}, mapAddr : {am.mapAddr}, vRandom : {am.vRandom},
               nIdCount : {am.nIdCount}, nNew : {am.nNew}, nTried : {am.nTried},
               vvNew : {am.vvNew}, vvTried : {am.vvTried}]
    /\ am.nIdCount \in 0 .. MaxId + 1 /\ Ids(am) \subseteq 0 .. am.nIdCount - 1
    /\ am.mapInfo \in [Ids(am) -> Info]
    /\ am.mapAddr \in [DOMAIN am.mapAddr -> Ids(am)]
    /\ am.vRandom \in Seq(Ids(am))
    /\ am.vvNew \in [NewBucket -> SUBSET Ids(am)]
    /\ am.vvTried \in [TriedBucket -> Seq(Ids(am))]

\* vRandom and nRandomPos are inverse to each other.
Order(am) ==
    /\ \A id \in Ids(am) : /\ am.mapInfo[id].nRandomPos \in DOMAIN am.vRandom
                           /\ am.vRandom[am.mapInfo[id].nRandomPos] = id
    /\ \A i \in DOMAIN am.vRandom : am.mapInfo[am.vRandom[i]].nRandomPos = i

\* So are mapAddr and the hosts of the entries.
Addresses(am) ==
    /\ \A id \in Ids(am) : /\ IpOf[am.mapInfo[id].addr] \in DOMAIN am.mapAddr
                           /\ am.mapAddr[IpOf[am.mapInfo[id].addr]] = id
    /\ \A ip \in DOMAIN am.mapAddr : IpOf[am.mapInfo[am.mapAddr[ip]].addr] = ip

\* A tried bucket holds tried entries that belong there, each at one place.
Placed(am) ==
    /\ \A k \in TriedBucket : \A i \in DOMAIN am.vvTried[k] :
          /\ am.mapInfo[am.vvTried[k][i]].fInTried
          /\ TriedBucketOf[am.mapInfo[am.vvTried[k][i]].addr] = k
          /\ \A j \in DOMAIN am.vvTried[k] : am.vvTried[k][i] = am.vvTried[k][j] => i = j
    /\ \A id \in Ids(am) : am.mapInfo[id].fInTried =>
          /\ am.mapInfo[id].nLastSuccess # 0
          /\ \E i \in DOMAIN am.vvTried[TriedBucketOf[am.mapInfo[id].addr]] :
                am.vvTried[TriedBucketOf[am.mapInfo[id].addr]][i] = id

TriedIds(am) == {id \in Ids(am) : am.mapInfo[id].fInTried}

Counts(am) == /\ am.nTried = Cardinality(TriedIds(am))
              /\ am.nNew = Cardinality(Ids(am) \ TriedIds(am))

Sizes(am) ==
    /\ \A b \in NewBucket : Cardinality(am.vvNew[b]) <= ADDRMAN_NEW_BUCKET_SIZE
    /\ \A k \in TriedBucket : Len(am.vvTried[k]) <= ADDRMAN_TRIED_BUCKET_SIZE

Holders(am, id) == {b \in NewBucket : id \in am.vvNew[b]}

\* An entry is tried and in no new bucket, or in as many as it counts.
Referenced(am, id) ==
    /\ am.mapInfo[id].nRefCount = Cardinality(Holders(am, id))
    /\ am.mapInfo[id].fInTried <=> Holders(am, id) = {}
    /\ am.mapInfo[id].nRefCount <= ADDRMAN_NEW_BUCKETS_PER_ADDRESS

(* The table without its references, which Add_ changes one at a time.      *)
Table(am) ==
    Typed(am) /\ Order(am) /\ Addresses(am) /\ Placed(am) /\ Counts(am) /\ Sizes(am)

Agrees(am) == Table(am) /\ \A id \in Ids(am) : Referenced(am, id)

-----------------------------------------------------------------------------

\* Of some numbers one is the least.
LEMMA LeastIs ==
    ASSUME NEW S \in SUBSET Nat, S # {}
    PROVE  \E m \in S : \A i \in S : m <= i
<1>1. IsWellFoundedOn(OpToRel(<, Nat), Nat)
  BY NatLessThanWellFounded
<1>2. PICK m \in S : \A i \in S : ~ (<<i, m>> \in OpToRel(<, Nat))
  BY <1>1, WFMin
<1>3. \A i \in S : ~ (i < m)
  BY <1>2 DEF OpToRel
<1>4. \A i \in S : m <= i
  BY <1>3
<1>5. QED
  BY <1>4

\* The bounds are numbers.
LEMMA Bounds ==
    /\ MaxId \in Nat /\ MaxTime \in Nat \ {0}
    /\ ADDRMAN_NEW_BUCKET_SIZE \in Nat \ {0} /\ ADDRMAN_TRIED_BUCKET_SIZE \in Nat \ {0}
    /\ ADDRMAN_NEW_BUCKETS_PER_ADDRESS \in Nat \ {0}
    /\ ADDRMAN_TRIED_ENTRIES_INSPECT_ON_EVICT \in Nat \ {0}
    /\ ADDRMAN_GETADDR_MAX_PCT \in Nat
BY AddrManAssumption

\* What leaves room for one more identifier after it is one.
LEMMA Room ==
    ASSUME NEW n \in 0 .. MaxId + 1, n + 1 <= MaxId
    PROVE  n <= MaxId
BY Bounds

\* There are n numbers below n.
LEMMA Below ==
    ASSUME NEW n \in Nat
    PROVE  IsFiniteSet(0 .. n - 1) /\ Cardinality(0 .. n - 1) = n
<1>1. IsFiniteSet(0 .. n - 1)
      /\ Cardinality(0 .. n - 1) = IF 0 > n - 1 THEN 0 ELSE n - 1 - 0 + 1
  BY FS_Interval
<1>2. (IF 0 > n - 1 THEN 0 ELSE n - 1 - 0 + 1) = n
  OBVIOUS
<1>3. QED
  BY <1>1, <1>2

\* Sets of entries, and of the buckets that hold one, can be counted.
LEMMA Finite ==
    ASSUME NEW am, Typed(am)
    PROVE  /\ IsFiniteSet(Ids(am))
           /\ \A S \in SUBSET Ids(am) : IsFiniteSet(S) /\ Cardinality(S) \in Nat
           /\ \A S \in SUBSET NewBucket : IsFiniteSet(S) /\ Cardinality(S) \in Nat
           /\ Cardinality(Ids(am)) <= am.nIdCount
<1>1. IsFiniteSet(0 .. am.nIdCount - 1) /\ Cardinality(0 .. am.nIdCount - 1) = am.nIdCount
  <2>1. am.nIdCount \in Nat
    BY Bounds DEF Typed
  <2>2. QED
    BY <2>1, Below
<1>2. IsFiniteSet(Ids(am)) /\ Cardinality(Ids(am)) <= am.nIdCount
  BY <1>1, FS_Subset DEF Typed
<1>3. IsFiniteSet(NewBucket)
  BY AddrManAssumption
<1>4. QED
  BY <1>2, <1>3, FS_Subset, FS_CardinalityType

\* The fields of an entry.
LEMMA InfoIs ==
    ASSUME NEW am, Typed(am), NEW id \in Ids(am)
    PROVE  /\ am.mapInfo[id] \in Info /\ id \in Nat
           /\ am.mapInfo[id].addr \in Service /\ am.mapInfo[id].source \in Source
           /\ am.mapInfo[id].nRefCount \in Nat /\ am.mapInfo[id].fInTried \in BOOLEAN
           /\ IpOf[am.mapInfo[id].addr] \in IP
           /\ TriedBucketOf[am.mapInfo[id].addr] \in TriedBucket
           /\ \A src \in Source : NewBucketOf[am.mapInfo[id].addr][src] \in NewBucket
BY AddrManAssumption DEF Typed, Info

\* The tried buckets stay in place when no tried entry comes, goes or changes its
\* address.
LEMMA PlacedKept ==
    ASSUME NEW am, NEW r, Typed(am), Placed(am), r.vvTried = am.vvTried,
           TriedIds(r) = TriedIds(am),
           \A x \in TriedIds(am) : /\ r.mapInfo[x].addr = am.mapInfo[x].addr
                                   /\ r.mapInfo[x].nLastSuccess # 0
    PROVE  Placed(r)
<1>1. \A k \in TriedBucket : \A i \in DOMAIN am.vvTried[k] : am.vvTried[k][i] \in Ids(am)
  BY DEF Typed
<1>2. ASSUME NEW k \in TriedBucket, NEW i \in DOMAIN r.vvTried[k]
      PROVE  /\ r.mapInfo[r.vvTried[k][i]].fInTried
             /\ TriedBucketOf[r.mapInfo[r.vvTried[k][i]].addr] = k
             /\ \A j \in DOMAIN r.vvTried[k] : r.vvTried[k][i] = r.vvTried[k][j] => i = j
  <2>1. /\ am.mapInfo[am.vvTried[k][i]].fInTried
        /\ TriedBucketOf[am.mapInfo[am.vvTried[k][i]].addr] = k
        /\ \A j \in DOMAIN am.vvTried[k] : am.vvTried[k][i] = am.vvTried[k][j] => i = j
    BY DEF Placed
  <2>2. am.vvTried[k][i] \in TriedIds(am)
    BY <1>1, <2>1 DEF TriedIds
  <2>3. r.mapInfo[am.vvTried[k][i]].fInTried
    BY <2>2 DEF TriedIds
  <2>4. QED
    BY <2>1, <2>2, <2>3
<1>3. ASSUME NEW x \in Ids(r), r.mapInfo[x].fInTried
      PROVE  /\ r.mapInfo[x].nLastSuccess # 0
             /\ \E i \in DOMAIN r.vvTried[TriedBucketOf[r.mapInfo[x].addr]] :
                   r.vvTried[TriedBucketOf[r.mapInfo[x].addr]][i] = x
  <2>1. x \in TriedIds(am)
    BY <1>3 DEF TriedIds
  <2>2. x \in Ids(am) /\ am.mapInfo[x].fInTried
    BY <2>1 DEF TriedIds
  <2>3. QED
    BY <2>1, <2>2 DEF Placed
<1>4. QED
  BY <1>2, <1>3 DEF Placed

-----------------------------------------------------------------------------
(* vRandom                                                                  *)

\* What leaves all but the order alone.
SameTable(am, r) ==
    /\ Ids(r) = Ids(am) /\ r.mapAddr = am.mapAddr /\ r.nIdCount = am.nIdCount
    /\ r.nNew = am.nNew /\ r.nTried = am.nTried
    /\ r.vvNew = am.vvNew /\ r.vvTried = am.vvTried
    /\ \A id \in Ids(am) :
          r.mapInfo[id] = [am.mapInfo[id] EXCEPT !.nRandomPos = r.mapInfo[id].nRandomPos]

\* What does keeps the rest.
LEMMA SameTableKeeps ==
    ASSUME NEW am, NEW r, Typed(am), Typed(r), SameTable(am, r)
    PROVE  /\ Addresses(am) => Addresses(r)
           /\ Placed(am) => Placed(r)
           /\ Counts(am) => Counts(r)
           /\ Sizes(am) => Sizes(r)
           /\ \A id \in Ids(am) : Referenced(am, id) => Referenced(r, id)
<1>1. \A id \in Ids(am) :
         /\ r.mapInfo[id].addr = am.mapInfo[id].addr
         /\ r.mapInfo[id].nLastSuccess = am.mapInfo[id].nLastSuccess
         /\ r.mapInfo[id].nRefCount = am.mapInfo[id].nRefCount
         /\ r.mapInfo[id].fInTried = am.mapInfo[id].fInTried
  <2>1. \A id \in Ids(am) : am.mapInfo[id] \in Info
    BY DEF Typed
  <2>2. QED
    BY <2>1 DEF SameTable, Info
<1>2. TriedIds(r) = TriedIds(am)
  BY <1>1 DEF TriedIds, SameTable
<1>3. \A id : Holders(r, id) = Holders(am, id)
  BY DEF Holders, SameTable
<1>4. \A ip \in DOMAIN am.mapAddr : am.mapAddr[ip] \in Ids(am)
  BY DEF Typed
<1>6. Addresses(am) => Addresses(r)
  BY <1>1, <1>4 DEF Addresses, SameTable
<1>7. Placed(am) => Placed(r)
  <2>1. Placed(am) => \A x \in TriedIds(am) : am.mapInfo[x].nLastSuccess # 0
    BY DEF Placed, TriedIds
  <2>2. TriedIds(am) \subseteq Ids(am) /\ r.vvTried = am.vvTried
    BY DEF TriedIds, SameTable
  <2>3. QED
    BY <1>1, <1>2, <2>1, <2>2, PlacedKept
<1>8. Counts(am) => Counts(r)
  BY <1>2 DEF Counts, SameTable
<1>9. Sizes(am) => Sizes(r)
  BY DEF Sizes, SameTable
<1>10. QED
  BY <1>1, <1>3, <1>6, <1>7, <1>8, <1>9 DEF Referenced

\* SwapRandom exchanges two entries of the order and nothing else.
LEMMA SwapRandomIs ==
    ASSUME NEW am, Typed(am), Order(am),
           NEW i \in DOMAIN am.vRandom, NEW j \in DOMAIN am.vRandom
    PROVE  /\ Typed(SwapRandom(am, i, j)) /\ Order(SwapRandom(am, i, j))
           /\ SameTable(am, SwapRandom(am, i, j))
           /\ DOMAIN SwapRandom(am, i, j).vRandom = DOMAIN am.vRandom
           /\ SwapRandom(am, i, j).vRandom[j] = am.vRandom[i]
<1> DEFINE a == am.vRandom[i]
           b == am.vRandom[j]
           r == SwapRandom(am, i, j)
           moved == [am.mapInfo EXCEPT ![a].nRandomPos = j]
           infos == [moved EXCEPT ![b].nRandomPos = i]
           order == [[am.vRandom EXCEPT ![i] = b] EXCEPT ![j] = a]
<1>1. a \in Ids(am) /\ b \in Ids(am) /\ i \in Nat /\ j \in Nat
  BY DEF Typed
<1>2. r \in [mapInfo : {infos}, mapAddr : {am.mapAddr}, vRandom : {order},
             nIdCount : {am.nIdCount}, nNew : {am.nNew}, nTried : {am.nTried},
             vvNew : {am.vvNew}, vvTried : {am.vvTried}]
  BY DEF SwapRandom, Typed
<1>3. /\ infos \in [Ids(am) -> Info]
      /\ \A id \in Ids(am) :
            /\ infos[id] = [am.mapInfo[id] EXCEPT !.nRandomPos = infos[id].nRandomPos]
            /\ infos[id].nRandomPos = IF id = b THEN i ELSE IF id = a THEN j
                                      ELSE am.mapInfo[id].nRandomPos
  <2>1. am.mapInfo \in [Ids(am) -> Info]
    BY DEF Typed
  <2>2. /\ moved \in [Ids(am) -> Info]
        /\ \A id \in Ids(am) :
              moved[id] = IF id = a THEN [am.mapInfo[a] EXCEPT !.nRandomPos = j]
                          ELSE am.mapInfo[id]
    BY <1>1, <2>1 DEF Info
  <2> HIDE DEF moved
  <2>3. /\ infos \in [Ids(am) -> Info]
        /\ \A id \in Ids(am) :
              infos[id] = IF id = b THEN [moved[b] EXCEPT !.nRandomPos = i] ELSE moved[id]
    BY <1>1, <2>2 DEF Info
  <2> HIDE DEF infos
  <2>4. QED
    BY <1>1, <2>1, <2>2, <2>3 DEF Info
<1>5. order \in Seq(Ids(am)) /\ DOMAIN order = DOMAIN am.vRandom
  BY <1>1 DEF Typed
<1>6. \A l \in DOMAIN am.vRandom :
         order[l] = IF l = j THEN a ELSE IF l = i THEN b ELSE am.vRandom[l]
  BY DEF Typed
<1> HIDE DEF infos, order, r
<1>7. Ids(r) = Ids(am)
  BY <1>2, <1>3 DEF Ids
<1>8. Typed(r)
  BY <1>2, <1>3, <1>5, <1>7 DEF Typed
<1>9. SameTable(am, r)
  BY <1>2, <1>3, <1>7 DEF SameTable
<1>10. Order(r)
  <2>1. /\ am.vRandom \in Seq(Ids(am)) /\ am.mapInfo[a].nRandomPos = i
        /\ am.mapInfo[b].nRandomPos = j
    BY <1>1 DEF Order, Typed
  <2>2. r.mapInfo = infos /\ r.vRandom = order /\ Ids(r) = Ids(am)
    BY <1>2, <1>7
  <2>3. ASSUME NEW id \in Ids(am)
        PROVE  infos[id].nRandomPos \in DOMAIN order /\ order[infos[id].nRandomPos] = id
    <3>1. am.mapInfo[id].nRandomPos \in DOMAIN am.vRandom
          /\ am.vRandom[am.mapInfo[id].nRandomPos] = id
      BY DEF Order
    <3>2. infos[id].nRandomPos = IF id = b THEN i ELSE IF id = a THEN j
                                      ELSE am.mapInfo[id].nRandomPos
      BY <1>3
    <3>3. QED
      BY <1>5, <1>6, <2>1, <3>1, <3>2
  <2>4. ASSUME NEW l \in DOMAIN am.vRandom
        PROVE  infos[order[l]].nRandomPos = l
    <3>1. order[l] = IF l = j THEN a ELSE IF l = i THEN b ELSE am.vRandom[l]
      BY <1>6
    <3>2. am.vRandom[l] \in Ids(am) /\ am.mapInfo[am.vRandom[l]].nRandomPos = l
      BY DEF Order, Typed
    <3>3. QED
      BY <1>1, <1>3, <2>1, <3>1, <3>2
  <2>5. QED
    BY <1>5, <2>2, <2>3, <2>4 DEF Order
<1>11. QED
  BY <1>2, <1>5, <1>6, <1>8, <1>9, <1>10 DEF r

-----------------------------------------------------------------------------
(* Entries that come and go                                                 *)

\* Front leaves all but the last.
LEMMA FrontIs ==
    ASSUME NEW T, NEW q \in Seq(T), q # <<>>
    PROVE  /\ Front(q) \in Seq(T) /\ Len(Front(q)) = Len(q) - 1
           /\ \A i \in 1 .. Len(q) - 1 : Front(q)[i] = q[i]
<1>1. Len(q) \in Nat \ {0}
  OBVIOUS
<1>2. Front(q) = [i \in 1 .. Len(q) - 1 |-> q[i]]
  BY <1>1 DEF Front
<1>3. QED
  BY <1>1, <1>2

\* What leaves the order and the membership of an entry alone.
SameBut(am, r, id) ==
    /\ Ids(r) = Ids(am) \ {id} /\ r.nIdCount = am.nIdCount
    /\ r.vvNew = am.vvNew /\ r.vvTried = am.vvTried
    /\ \A x \in Ids(r) :
          r.mapInfo[x] = [am.mapInfo[x] EXCEPT !.nRandomPos = r.mapInfo[x].nRandomPos]

\* Delete forgets one entry, which no bucket may hold, and leaves the table whole.
LEMMA DeleteIs ==
    ASSUME NEW am, Table(am), NEW id \in Ids(am),
           ~ am.mapInfo[id].fInTried, Holders(am, id) = {}
    PROVE  Table(Delete(am, id)) /\ SameBut(am, Delete(am, id), id)
<1> DEFINE last == Len(am.vRandom)
           w == SwapRandom(am, am.mapInfo[id].nRandomPos, last)
           r == Delete(am, id)
           host == IpOf[am.mapInfo[id].addr]
<1>1. Typed(am) /\ Order(am)
  BY DEF Table
<1>2. /\ am.vRandom \in Seq(Ids(am)) /\ am.mapInfo[id].nRandomPos \in DOMAIN am.vRandom
      /\ am.vRandom[am.mapInfo[id].nRandomPos] = id
  BY <1>1 DEF Typed, Order
<1>3. last \in DOMAIN am.vRandom
  BY <1>2
<1>4. /\ Typed(w) /\ Order(w) /\ SameTable(am, w)
      /\ DOMAIN w.vRandom = DOMAIN am.vRandom /\ w.vRandom[last] = id
  BY <1>1, <1>2, <1>3, SwapRandomIs
<1>5. Table(w)
  BY <1>1, <1>4, SameTableKeeps DEF Table
<1>6. r \in [mapInfo : {Without(w.mapInfo, id)}, mapAddr : {Without(w.mapAddr, host)},
             vRandom : {Front(w.vRandom)}, nIdCount : {w.nIdCount}, nNew : {w.nNew - 1},
             nTried : {w.nTried}, vvNew : {w.vvNew}, vvTried : {w.vvTried}]
  <2> HIDE DEF w
  <2>1. r = [w EXCEPT !.vRandom = Front(@), !.mapAddr = Without(@, host),
                      !.mapInfo = Without(@, id), !.nNew = @ - 1]
    BY DEF Delete, w
  <2>2. QED
    BY <1>4, <2>1 DEF Typed
<1> HIDE DEF w, r
<1>7. Ids(w) = Ids(am) /\ w.nIdCount = am.nIdCount
      /\ w.vvNew = am.vvNew /\ w.vvTried = am.vvTried /\ w.mapAddr = am.mapAddr
  BY <1>4 DEF SameTable
<1>8. /\ w.mapInfo \in [Ids(am) -> Info] /\ w.vRandom \in Seq(Ids(am))
      /\ Len(w.vRandom) = last /\ last \in Nat \ {0} /\ w.vRandom # <<>>
  BY <1>2, <1>4, <1>7 DEF Typed
<1>9. /\ Ids(r) = Ids(am) \ {id}
      /\ \A x \in Ids(r) : r.mapInfo[x] = w.mapInfo[x]
      /\ r.mapInfo \in [Ids(r) -> Info]
  BY <1>6, <1>8 DEF Ids, Without
<1>10. SameBut(am, r, id)
  BY <1>4, <1>6, <1>7, <1>9 DEF SameBut, SameTable
<1>11. /\ r.vRandom = Front(w.vRandom) /\ Front(w.vRandom) \in Seq(Ids(am))
       /\ DOMAIN r.vRandom = 1 .. last - 1
       /\ \A i \in 1 .. last - 1 : r.vRandom[i] = w.vRandom[i]
  BY <1>6, <1>8, FrontIs
<1>12. \A i \in 1 .. last - 1 : w.vRandom[i] # id /\ w.vRandom[i] \in Ids(am)
                               /\ w.mapInfo[w.vRandom[i]].nRandomPos = i
  BY <1>4, <1>8 DEF Order
<1>13. r.vRandom \in Seq(Ids(r))
  BY <1>9, <1>11, <1>12
<1>14. Order(r)
  <2>1. ASSUME NEW x \in Ids(r)
        PROVE  /\ r.mapInfo[x].nRandomPos \in DOMAIN r.vRandom
               /\ r.vRandom[r.mapInfo[x].nRandomPos] = x
    <3>1. w.mapInfo[x].nRandomPos \in 1 .. last /\ w.vRandom[w.mapInfo[x].nRandomPos] = x
      <4>1. x \in Ids(w)
        BY <1>7, <1>9
      <4>2. DOMAIN w.vRandom = 1 .. last
        BY <1>8
      <4>3. QED
        BY <1>4, <4>1, <4>2 DEF Order
    <3>2. w.mapInfo[x].nRandomPos # last
      BY <1>4, <1>9, <3>1
    <3>3. QED
      BY <1>8, <1>9, <1>11, <3>1, <3>2, SMTT(20)
  <2>2. QED
    BY <1>9, <1>11, <1>12, <2>1, SMTT(20) DEF Order
<1>15. /\ Addresses(w) /\ w.mapAddr \in [DOMAIN w.mapAddr -> Ids(am)]
       /\ w.mapInfo[id].addr = am.mapInfo[id].addr
  BY <1>1, <1>4, <1>5, <1>7 DEF Table, Typed, SameTable, Info
<1>16. /\ r.mapAddr = Without(w.mapAddr, host) /\ DOMAIN r.mapAddr = DOMAIN w.mapAddr \ {host}
       /\ \A ip \in DOMAIN r.mapAddr : r.mapAddr[ip] = w.mapAddr[ip]
  BY <1>6 DEF Without
<1>17. Addresses(r) /\ r.mapAddr \in [DOMAIN r.mapAddr -> Ids(r)]
  <2>1. \A ip \in DOMAIN r.mapAddr : r.mapAddr[ip] # id
    BY <1>15, <1>16 DEF Addresses
  <2>2. \A x \in Ids(r) : IpOf[w.mapInfo[x].addr] # host
    BY <1>7, <1>9, <1>15 DEF Addresses
  <2>3. r.mapAddr \in [DOMAIN r.mapAddr -> Ids(r)]
    BY <1>9, <1>15, <1>16, <2>1 DEF Without
  <2>4. ASSUME NEW x \in Ids(r)
        PROVE  /\ IpOf[r.mapInfo[x].addr] \in DOMAIN r.mapAddr
               /\ r.mapAddr[IpOf[r.mapInfo[x].addr]] = x
    <3>1. x \in Ids(w) /\ r.mapInfo[x] = w.mapInfo[x]
      BY <1>7, <1>9
    <3>2. IpOf[w.mapInfo[x].addr] \in DOMAIN w.mapAddr
          /\ w.mapAddr[IpOf[w.mapInfo[x].addr]] = x
      BY <1>15, <3>1 DEF Addresses
    <3>3. QED
      BY <1>16, <2>2, <3>1, <3>2
  <2>5. ASSUME NEW ip \in DOMAIN r.mapAddr
        PROVE  IpOf[r.mapInfo[r.mapAddr[ip]].addr] = ip
    <3>1. ip \in DOMAIN w.mapAddr /\ r.mapAddr[ip] = w.mapAddr[ip]
      BY <1>16
    <3>2. IpOf[w.mapInfo[w.mapAddr[ip]].addr] = ip
      BY <1>15, <3>1 DEF Addresses
    <3>3. r.mapAddr[ip] \in Ids(r)
      BY <2>3
    <3>4. QED
      BY <1>9, <3>1, <3>2, <3>3
  <2>6. QED
    BY <2>3, <2>4, <2>5 DEF Addresses
<1>18. ~ w.mapInfo[id].fInTried /\ r.vvNew = w.vvNew /\ r.vvTried = w.vvTried
  BY <1>1, <1>4, <1>6 DEF SameTable, Typed, Info
<1>19. \A k \in TriedBucket : \A i \in DOMAIN w.vvTried[k] : w.vvTried[k][i] \in Ids(r)
  <2>1. \A k \in TriedBucket : \A i \in DOMAIN w.vvTried[k] : w.vvTried[k][i] \in Ids(w)
    BY <1>4 DEF Typed
  <2>2. QED
    BY <1>5, <1>7, <1>9, <1>18, <2>1, ZenonT(40) DEF Table, Placed
<1>20. Typed(r)
  <2>1. r.vvNew \in [NewBucket -> SUBSET Ids(r)]
    BY <1>4, <1>7, <1>9, <1>18 DEF Typed, Holders
  <2>2. r.vvTried \in [TriedBucket -> Seq(Ids(r))]
    <3>1. w.vvTried \in [TriedBucket -> Seq(Ids(w))]
      BY <1>4 DEF Typed
    <3>2. \A k \in TriedBucket : w.vvTried[k] \in Seq(Ids(r))
      BY <1>19, <3>1
    <3>3. QED
      BY <1>18, <3>1, <3>2
  <2>3. r.nIdCount = am.nIdCount
    BY <1>6, <1>7
  <2>4. QED
    BY <1>1, <1>6, <1>9, <1>13, <1>17, <2>1, <2>2, <2>3 DEF Typed
<1>21. Placed(r)
  <2>1. TriedIds(r) = TriedIds(w) /\ TriedIds(w) \subseteq Ids(r)
    BY <1>7, <1>9, <1>18 DEF TriedIds
  <2>2. \A x \in TriedIds(w) : w.mapInfo[x].nLastSuccess # 0
    BY <1>5 DEF Table, Placed, TriedIds
  <2>3. Placed(w)
    BY <1>5 DEF Table
  <2>4. QED
    BY <1>4, <1>9, <1>18, <2>1, <2>2, <2>3, PlacedKept
<1>22. Counts(r)
  <2>1. TriedIds(r) = TriedIds(w) /\ TriedIds(r) \subseteq Ids(r)
    BY <1>7, <1>9, <1>18 DEF TriedIds
  <2>2. Ids(r) \ TriedIds(r) = (Ids(w) \ TriedIds(w)) \ {id}
        /\ id \in Ids(w) \ TriedIds(w)
    BY <1>7, <1>9, <1>18, <2>1 DEF TriedIds
  <2>3. IsFiniteSet(Ids(w) \ TriedIds(w)) /\ Cardinality(Ids(w) \ TriedIds(w)) \in Nat
    BY <1>4, Finite
  <2>4. Cardinality(Ids(r) \ TriedIds(r)) = Cardinality(Ids(w) \ TriedIds(w)) - 1
    BY <2>2, <2>3, FS_RemoveElement
  <2>5. QED
    BY <1>5, <1>6, <2>1, <2>4 DEF Table, Counts
<1>23. Sizes(r)
  BY <1>5, <1>18 DEF Table, Sizes
<1>24. QED
  BY <1>10, <1>14, <1>17, <1>20, <1>21, <1>22, <1>23 DEF Table, r

(* An entry made at the end of the order, for a host without one: the       *)
(* indexes follow.                                                         *)
LEMMA EntryMade ==
    ASSUME NEW am, Typed(am), Order(am), Addresses(am), NEW info \in Info, NEW r,
           r.mapInfo = With(am.mapInfo, am.nIdCount, info),
           r.mapAddr = With(am.mapAddr, IpOf[info.addr], am.nIdCount),
           r.vRandom = Append(am.vRandom, am.nIdCount),
           info.nRandomPos = Len(am.vRandom) + 1,
           IpOf[info.addr] \notin DOMAIN am.mapAddr
    PROVE  /\ Order(r) /\ Addresses(r)
           /\ am.nIdCount \notin Ids(am) /\ Ids(r) = Ids(am) \cup {am.nIdCount}
           /\ r.mapInfo \in [Ids(r) -> Info] /\ r.mapInfo[am.nIdCount] = info
           /\ \A x \in Ids(am) : r.mapInfo[x] = am.mapInfo[x]
           /\ r.mapAddr \in [DOMAIN r.mapAddr -> Ids(r)]
           /\ DOMAIN r.mapAddr = DOMAIN am.mapAddr \cup {IpOf[info.addr]}
           /\ r.mapAddr[IpOf[info.addr]] = am.nIdCount
           /\ r.vRandom \in Seq(Ids(r))
<1> DEFINE n == am.nIdCount
           host == IpOf[info.addr]
<1>1. n \in Nat /\ n \notin Ids(am)
  BY Bounds DEF Typed
<1>2. /\ am.mapInfo \in [Ids(am) -> Info] /\ am.vRandom \in Seq(Ids(am))
      /\ am.mapAddr \in [DOMAIN am.mapAddr -> Ids(am)]
  BY DEF Typed
<1>3. /\ Ids(r) = Ids(am) \cup {n} /\ r.mapInfo[n] = info
      /\ \A x \in Ids(am) : r.mapInfo[x] = am.mapInfo[x]
      /\ r.mapInfo \in [Ids(r) -> Info]
  BY <1>1, <1>2 DEF With, Ids
<1>4. /\ r.vRandom \in Seq(Ids(r)) /\ Len(r.vRandom) = Len(am.vRandom) + 1
      /\ \A i \in DOMAIN am.vRandom : r.vRandom[i] = am.vRandom[i]
      /\ r.vRandom[Len(am.vRandom) + 1] = n
      /\ DOMAIN r.vRandom = DOMAIN am.vRandom \cup {Len(am.vRandom) + 1}
      /\ \A i \in DOMAIN am.vRandom : am.vRandom[i] \in Ids(am)
  <2>1. am.vRandom \in Seq(Ids(r)) /\ n \in Ids(r)
    BY <1>2, <1>3
  <2>2. QED
    BY <1>2, <2>1, AppendProperties
<1>5. /\ DOMAIN r.mapAddr = DOMAIN am.mapAddr \cup {host} /\ r.mapAddr[host] = n
      /\ \A ip \in DOMAIN am.mapAddr : r.mapAddr[ip] = am.mapAddr[ip]
      /\ r.mapAddr \in [DOMAIN r.mapAddr -> Ids(r)]
  BY <1>2, <1>3 DEF With
<1>6. Order(r)
  <2>1. \A x \in Ids(am) : /\ am.mapInfo[x].nRandomPos \in DOMAIN am.vRandom
                           /\ am.vRandom[am.mapInfo[x].nRandomPos] = x
    BY DEF Order
  <2>2. \A i \in DOMAIN am.vRandom : am.mapInfo[am.vRandom[i]].nRandomPos = i
    BY DEF Order
  <2>3. ASSUME NEW x \in Ids(r)
        PROVE  /\ r.mapInfo[x].nRandomPos \in DOMAIN r.vRandom
               /\ r.vRandom[r.mapInfo[x].nRandomPos] = x
    <3>1. CASE x = n
      BY <1>3, <1>4, <3>1
    <3>2. CASE x \in Ids(am)
      <4>1. r.mapInfo[x] = am.mapInfo[x]
        BY <1>3, <3>2
      <4>2. am.mapInfo[x].nRandomPos \in DOMAIN am.vRandom
            /\ am.vRandom[am.mapInfo[x].nRandomPos] = x
        BY <2>1, <3>2
      <4>3. QED
        BY <1>4, <4>1, <4>2
    <3>3. QED
      BY <1>3, <3>1, <3>2
  <2>4. ASSUME NEW i \in DOMAIN r.vRandom
        PROVE  r.mapInfo[r.vRandom[i]].nRandomPos = i
    <3>1. CASE i = Len(am.vRandom) + 1
      BY <1>3, <1>4, <3>1
    <3>2. CASE i \in DOMAIN am.vRandom
      <4>1. r.vRandom[i] = am.vRandom[i] /\ am.vRandom[i] \in Ids(am)
        BY <1>4, <3>2
      <4>2. r.mapInfo[am.vRandom[i]] = am.mapInfo[am.vRandom[i]]
        BY <1>3, <4>1
      <4>3. QED
        BY <2>2, <3>2, <4>1, <4>2
    <3>3. QED
      BY <1>4, <3>1, <3>2
  <2>5. QED
    BY <2>3, <2>4 DEF Order
<1>7. Addresses(r)
  <2>1. ASSUME NEW x \in Ids(am)
        PROVE  /\ IpOf[r.mapInfo[x].addr] \in DOMAIN r.mapAddr
               /\ r.mapAddr[IpOf[r.mapInfo[x].addr]] = x
    BY <1>3, <1>5 DEF Addresses
  <2>2. ASSUME NEW ip \in DOMAIN am.mapAddr
        PROVE  IpOf[r.mapInfo[r.mapAddr[ip]].addr] = ip
    <3>1. am.mapAddr[ip] \in Ids(am)
      BY <1>2
    <3>2. QED
      BY <1>3, <1>5, <3>1 DEF Addresses
  <2>3. QED
    BY <1>3, <1>5, <2>1, <2>2 DEF Addresses
<1>8. QED
  BY <1>1, <1>3, <1>4, <1>5, <1>6, <1>7

\* An entry that counts its holders and may have one more.
Pending(am, id) ==
    /\ ~ am.mapInfo[id].fInTried
    /\ am.mapInfo[id].nRefCount = Cardinality(Holders(am, id))
    /\ am.mapInfo[id].nRefCount < ADDRMAN_NEW_BUCKETS_PER_ADDRESS

\* Create makes an entry that nothing refers to yet.
LEMMA CreateIs ==
    ASSUME NEW am, Agrees(am), am.nIdCount <= MaxId,
           NEW sv \in Service, NEW src \in Source, IpOf[sv] \notin DOMAIN am.mapAddr
    PROVE  /\ Table(Create(am, sv, src))
           /\ Ids(Create(am, sv, src)) = Ids(am) \cup {am.nIdCount}
           /\ am.nIdCount \notin Ids(am)
           /\ Create(am, sv, src).mapAddr[IpOf[sv]] = am.nIdCount
           /\ IpOf[sv] \in DOMAIN Create(am, sv, src).mapAddr
           /\ Pending(Create(am, sv, src), am.nIdCount)
           /\ \A id \in Ids(am) : /\ Referenced(Create(am, sv, src), id)
                                  /\ Create(am, sv, src).mapInfo[id] = am.mapInfo[id]
           /\ Create(am, sv, src).mapInfo[am.nIdCount].addr = sv
<1> DEFINE n == am.nIdCount
           r == Create(am, sv, src)
           info == [CAddrInfo(sv, src) EXCEPT !.nRandomPos = Len(am.vRandom) + 1]
<1>1. Typed(am) /\ Order(am) /\ Addresses(am)
  BY DEF Agrees, Table
<1>2. /\ info \in Info /\ info.nRandomPos = Len(am.vRandom) + 1 /\ info.addr = sv
      /\ info.nRefCount = 0 /\ info.fInTried = FALSE
  <2>1. Len(am.vRandom) \in Nat /\ MaxTime \in Nat
    BY <1>1, Bounds DEF Typed
  <2> DEFINE fresh == CAddrInfo(sv, src)
  <2>2. /\ fresh \in Info /\ fresh.addr = sv
        /\ fresh.nRefCount = 0 /\ fresh.fInTried = FALSE
    BY <2>1 DEF CAddrInfo, Info
  <2> HIDE DEF fresh
  <2>3. info = [fresh EXCEPT !.nRandomPos = Len(am.vRandom) + 1]
    BY DEF fresh
  <2> HIDE DEF info
  <2>4. QED
    BY <2>1, <2>2, <2>3 DEF Info
<1>3. r \in [mapInfo : {With(am.mapInfo, n, info)}, mapAddr : {With(am.mapAddr, IpOf[sv], n)},
             vRandom : {Append(am.vRandom, n)}, nIdCount : {n + 1}, nNew : {am.nNew + 1},
             nTried : {am.nTried}, vvNew : {am.vvNew}, vvTried : {am.vvTried}]
  <2> HIDE DEF info
  <2>1. r = [am EXCEPT !.mapInfo = With(@, am.nIdCount, info),
                       !.mapAddr = With(@, IpOf[sv], am.nIdCount),
                       !.vRandom = Append(@, am.nIdCount),
                       !.nIdCount = @ + 1, !.nNew = @ + 1]
    BY DEF Create, info
  <2>2. QED
    BY <1>1, <2>1 DEF Typed
<1> HIDE DEF info, r
<1>4. /\ Order(r) /\ Addresses(r) /\ n \notin Ids(am) /\ Ids(r) = Ids(am) \cup {n}
      /\ r.mapInfo \in [Ids(r) -> Info] /\ r.mapInfo[n] = info
      /\ \A x \in Ids(am) : r.mapInfo[x] = am.mapInfo[x]
      /\ r.mapAddr \in [DOMAIN r.mapAddr -> Ids(r)]
      /\ DOMAIN r.mapAddr = DOMAIN am.mapAddr \cup {IpOf[sv]}
      /\ r.mapAddr[IpOf[sv]] = n /\ r.vRandom \in Seq(Ids(r))
  <2>1. /\ r.mapInfo = With(am.mapInfo, n, info)
        /\ r.mapAddr = With(am.mapAddr, IpOf[info.addr], n)
        /\ r.vRandom = Append(am.vRandom, n) /\ IpOf[info.addr] \notin DOMAIN am.mapAddr
    BY <1>2, <1>3
  <2>2. info \in Info /\ info.nRandomPos = Len(am.vRandom) + 1
    BY <1>2
  <2>3. /\ Order(r) /\ Addresses(r)
        /\ am.nIdCount \notin Ids(am) /\ Ids(r) = Ids(am) \cup {am.nIdCount}
        /\ r.mapInfo \in [Ids(r) -> Info] /\ r.mapInfo[am.nIdCount] = info
        /\ \A x \in Ids(am) : r.mapInfo[x] = am.mapInfo[x]
        /\ r.mapAddr \in [DOMAIN r.mapAddr -> Ids(r)]
        /\ DOMAIN r.mapAddr = DOMAIN am.mapAddr \cup {IpOf[info.addr]}
        /\ r.mapAddr[IpOf[info.addr]] = am.nIdCount
        /\ r.vRandom \in Seq(Ids(r))
    BY ONLY <1>1, <2>1, <2>2, EntryMade
  <2>4. QED
    BY <1>2, <2>3
<1>5. /\ r.vvNew = am.vvNew /\ r.vvTried = am.vvTried /\ r.nIdCount = n + 1
      /\ r.nTried = am.nTried /\ r.nNew = am.nNew + 1
      /\ am.vvNew \in [NewBucket -> SUBSET Ids(am)]
      /\ am.vvTried \in [TriedBucket -> Seq(Ids(am))]
      /\ n \in 0 .. MaxId + 1 /\ Ids(am) \subseteq 0 .. n - 1
  BY <1>1, <1>3 DEF Typed
<1>6. Typed(r)
  <2>1. /\ r.vvNew \in [NewBucket -> SUBSET Ids(r)]
        /\ r.vvTried \in [TriedBucket -> Seq(Ids(r))]
    BY <1>4, <1>5
  <2>2. n + 1 \in 0 .. MaxId + 1 /\ Ids(r) \subseteq 0 .. (n + 1) - 1
    BY <1>4, <1>5, Bounds
  <2>3. QED
    BY <1>3, <1>4, <1>5, <2>1, <2>2 DEF Typed
<1>7. \A k \in TriedBucket : \A i \in DOMAIN am.vvTried[k] : am.vvTried[k][i] \in Ids(am)
  BY <1>5
<1>8. Placed(r)
  <2>1. Placed(am)
    BY DEF Agrees, Table
  <2>2. ~ r.mapInfo[n].fInTried
    BY <1>2, <1>4
  <2>3. TriedIds(r) = TriedIds(am) /\ TriedIds(am) \subseteq Ids(am)
    BY <1>4, <2>2 DEF TriedIds
  <2>4. \A x \in TriedIds(am) : am.mapInfo[x].nLastSuccess # 0
    BY <2>1 DEF Placed, TriedIds
  <2>5. QED
    BY <1>1, <1>4, <1>5, <2>1, <2>3, <2>4, PlacedKept
<1>9. Counts(r)
  <2>1. ~ r.mapInfo[n].fInTried
    BY <1>2, <1>4
  <2>2. TriedIds(r) = TriedIds(am) /\ TriedIds(am) \subseteq Ids(am)
    BY <1>4, <2>1 DEF TriedIds
  <2>3. Ids(r) \ TriedIds(r) = (Ids(am) \ TriedIds(am)) \cup {n}
        /\ n \notin Ids(am) \ TriedIds(am)
    BY <1>4, <2>2
  <2>4. IsFiniteSet(Ids(am) \ TriedIds(am))
    BY <1>1, Finite
  <2>5. Cardinality(Ids(r) \ TriedIds(r)) = Cardinality(Ids(am) \ TriedIds(am)) + 1
    BY <2>3, <2>4, FS_AddElement
  <2>6. QED
    BY <1>5, <2>2, <2>5 DEF Counts, Agrees, Table
<1>10. Sizes(r)
  BY <1>5 DEF Sizes, Agrees, Table
<1>11. \A id : Holders(r, id) = Holders(am, id)
  BY <1>5 DEF Holders
<1>12. Holders(r, n) = {}
  BY <1>4, <1>5, <1>11 DEF Holders
<1>13. Pending(r, n)
  BY <1>2, <1>4, <1>12, FS_EmptySet, Bounds DEF Pending
<1>14. \A id \in Ids(am) : Referenced(r, id) /\ r.mapInfo[id] = am.mapInfo[id]
  BY <1>4, <1>11 DEF Referenced, Agrees
<1>15. QED
  BY <1>2, <1>4, <1>6, <1>8, <1>9, <1>10, <1>13, <1>14 DEF Table, r

-----------------------------------------------------------------------------
(* References                                                               *)

\* The count of one entry changes.
LEMMA CountSet ==
    ASSUME NEW D, NEW f \in [D -> Info], NEW id \in D, NEW c \in Nat, NEW g,
           g = [f EXCEPT ![id].nRefCount = c]
    PROVE  /\ g \in [D -> Info] /\ g[id].nRefCount = c
           /\ \A x \in D : /\ g[x].addr = f[x].addr /\ g[x].nRandomPos = f[x].nRandomPos
                           /\ g[x].nLastSuccess = f[x].nLastSuccess
                           /\ g[x].fInTried = f[x].fInTried
                           /\ x # id => g[x].nRefCount = f[x].nRefCount
<1>1. f[id] \in Info
  OBVIOUS
<1>2. [f[id] EXCEPT !.nRefCount = c] \in Info
  BY <1>1 DEF Info
<1>3. /\ g \in [D -> Info] /\ g[id] = [f[id] EXCEPT !.nRefCount = c]
      /\ \A x \in D : x # id => g[x] = f[x]
  BY <1>2
<1>4. /\ g[id].addr = f[id].addr /\ g[id].nRandomPos = f[id].nRandomPos
      /\ g[id].nLastSuccess = f[id].nLastSuccess
      /\ g[id].fInTried = f[id].fInTried /\ g[id].nRefCount = c
  BY <1>1, <1>3 DEF Info
<1>5. QED
  BY <1>3, <1>4

\* The indexes follow from where the entries are and what their addresses are.
LEMMA IndexesKept ==
    ASSUME NEW am, Typed(am), Order(am), Addresses(am), NEW r,
           r.mapInfo \in [Ids(am) -> Info], r.mapAddr = am.mapAddr, r.vRandom = am.vRandom,
           \A x \in Ids(am) : /\ r.mapInfo[x].addr = am.mapInfo[x].addr
                              /\ r.mapInfo[x].nRandomPos = am.mapInfo[x].nRandomPos
    PROVE  Order(r) /\ Addresses(r) /\ Ids(r) = Ids(am)
<1>1. am.vRandom \in Seq(Ids(am)) /\ am.mapAddr \in [DOMAIN am.mapAddr -> Ids(am)]
  BY DEF Typed
<1>2. Ids(r) = Ids(am)
  BY DEF Ids
<1>3. Order(r)
  <2>1. /\ \A id \in Ids(am) : /\ am.mapInfo[id].nRandomPos \in DOMAIN am.vRandom
                               /\ am.vRandom[am.mapInfo[id].nRandomPos] = id
        /\ \A i \in DOMAIN am.vRandom : /\ am.vRandom[i] \in Ids(am)
                                        /\ am.mapInfo[am.vRandom[i]].nRandomPos = i
    BY <1>1 DEF Order
  <2>2. /\ \A id \in Ids(am) : /\ r.mapInfo[id].nRandomPos \in DOMAIN am.vRandom
                               /\ am.vRandom[r.mapInfo[id].nRandomPos] = id
        /\ \A i \in DOMAIN am.vRandom : r.mapInfo[am.vRandom[i]].nRandomPos = i
    BY <2>1
  <2>3. QED
    BY <1>2, <2>2 DEF Order
<1>4. Addresses(r)
  <2>1. /\ \A id \in Ids(am) : /\ IpOf[am.mapInfo[id].addr] \in DOMAIN am.mapAddr
                               /\ am.mapAddr[IpOf[am.mapInfo[id].addr]] = id
        /\ \A ip \in DOMAIN am.mapAddr :
              am.mapAddr[ip] \in Ids(am) /\ IpOf[am.mapInfo[am.mapAddr[ip]].addr] = ip
    BY <1>1 DEF Addresses
  <2>2. /\ \A id \in Ids(am) : /\ IpOf[r.mapInfo[id].addr] \in DOMAIN am.mapAddr
                               /\ am.mapAddr[IpOf[r.mapInfo[id].addr]] = id
        /\ \A ip \in DOMAIN am.mapAddr : IpOf[r.mapInfo[am.mapAddr[ip]].addr] = ip
    BY <2>1
  <2>3. QED
    BY <1>2, <2>2 DEF Addresses
<1>5. QED
  BY <1>2, <1>3, <1>4

\* References, and the times of the entries, are no part of the table.
LEMMA RefsKept ==
    ASSUME NEW am, Table(am), NEW r,
           r \in [mapInfo : {r.mapInfo}, mapAddr : {am.mapAddr}, vRandom : {am.vRandom},
                  nIdCount : {am.nIdCount}, nNew : {am.nNew}, nTried : {am.nTried},
                  vvNew : {r.vvNew}, vvTried : {am.vvTried}],
           r.mapInfo \in [Ids(am) -> Info],
           r.vvNew \in [NewBucket -> SUBSET Ids(am)],
           \A b \in NewBucket : Cardinality(r.vvNew[b]) <= ADDRMAN_NEW_BUCKET_SIZE,
           \A x \in Ids(am) : /\ r.mapInfo[x].addr = am.mapInfo[x].addr
                              /\ r.mapInfo[x].nRandomPos = am.mapInfo[x].nRandomPos
                              /\ r.mapInfo[x].fInTried = am.mapInfo[x].fInTried
                              /\ am.mapInfo[x].nLastSuccess # 0
                                    => r.mapInfo[x].nLastSuccess # 0
    PROVE  Table(r) /\ Ids(r) = Ids(am)
<1>1. /\ Typed(am) /\ Order(am) /\ Addresses(am) /\ Placed(am) /\ Counts(am) /\ Sizes(am)
      /\ am.vRandom \in Seq(Ids(am)) /\ am.mapAddr \in [DOMAIN am.mapAddr -> Ids(am)]
  BY DEF Table, Typed
<1>2. /\ Ids(r) = Ids(am) /\ r.mapAddr = am.mapAddr /\ r.vRandom = am.vRandom
      /\ r.nNew = am.nNew /\ r.nTried = am.nTried /\ r.vvTried = am.vvTried
  BY DEF Ids
<1>3. TriedIds(r) = TriedIds(am) /\ TriedIds(am) \subseteq Ids(am)
  BY <1>2 DEF TriedIds
<1>4. Typed(r)
  BY <1>1, <1>2 DEF Typed
<1>5. Order(r) /\ Addresses(r)
  BY <1>1, <1>2, IndexesKept
<1>7. Placed(r)
  <2>1. \A x \in TriedIds(am) : am.mapInfo[x].nLastSuccess # 0
    BY <1>1 DEF Placed, TriedIds
  <2>2. QED
    BY <1>1, <1>2, <1>3, <2>1, PlacedKept
<1>8. Counts(r)
  BY <1>1, <1>2, <1>3 DEF Counts
<1>9. Sizes(r)
  BY <1>1, <1>2 DEF Sizes
<1>10. QED
  BY <1>2, <1>4, <1>5, <1>7, <1>8, <1>9 DEF Table

\* An entry that counts one reference more than the buckets hold.
Owed(am, id) ==
    /\ ~ am.mapInfo[id].fInTried
    /\ am.mapInfo[id].nRefCount = Cardinality(Holders(am, id)) + 1
    /\ am.mapInfo[id].nRefCount <= ADDRMAN_NEW_BUCKETS_PER_ADDRESS

\* Who holds an entry when one bucket changes.
LEMMA HoldersAfter ==
    ASSUME NEW am, Typed(am), NEW r, NEW b \in NewBucket, NEW S \in SUBSET Ids(am),
           r.vvNew = [am.vvNew EXCEPT ![b] = S], NEW id
    PROVE  /\ id \in am.vvNew[b] => b \in Holders(am, id)
           /\ id \in S => Holders(r, id) = Holders(am, id) \cup {b}
           /\ id \notin S => Holders(r, id) = Holders(am, id) \ {b}
BY DEF Typed, Holders

\* Whoever was tried is still known.
Remembered(am, r) ==
    \A x \in TriedIds(am) : x \in Ids(r) /\ r.mapInfo[x].addr = am.mapInfo[x].addr

\* A bucket has got place for an entry.
Shrunk(am, r, b, id) ==
    /\ Table(r) /\ id \in Ids(r) /\ Owed(r, id)
    /\ \A x \in Ids(r) \ {id} : Referenced(r, x)
    /\ Cardinality(r.vvNew[b]) < Cardinality(am.vvNew[b])
    /\ r.vvNew[b] \subseteq am.vvNew[b]
    /\ Remembered(am, r)

\* ShrinkNew takes the victim out of the bucket, and forgets it with its last reference.
LEMMA ShrinkNewIs ==
    ASSUME NEW am, Table(am), NEW b \in NewBucket, NEW victim \in am.vvNew[b],
           Referenced(am, victim), NEW id \in Ids(am), id # victim, Owed(am, id),
           \A x \in Ids(am) \ {id} : Referenced(am, x)
    PROVE  Shrunk(am, ShrinkNew(am, b, victim), b, id)
<1> DEFINE refs == am.mapInfo[victim].nRefCount - 1
           infos == [am.mapInfo EXCEPT ![victim].nRefCount = refs]
           held == am.vvNew[b] \ {victim}
           buckets == [am.vvNew EXCEPT ![b] = held]
           less == [am EXCEPT !.mapInfo[victim].nRefCount = refs,
                              !.vvNew[b] = @ \ {victim}]
<1>1. /\ Typed(am) /\ am.mapInfo \in [Ids(am) -> Info]
      /\ am.vvNew \in [NewBucket -> SUBSET Ids(am)] /\ victim \in Ids(am)
  BY DEF Table, Typed
<1>2. less \in [mapInfo : {infos}, mapAddr : {am.mapAddr}, vRandom : {am.vRandom},
                nIdCount : {am.nIdCount}, nNew : {am.nNew}, nTried : {am.nTried},
                vvNew : {buckets}, vvTried : {am.vvTried}]
  BY <1>1 DEF Typed
<1>3. b \in Holders(am, victim)
  BY <1>1 DEF Holders
<1>4. /\ IsFiniteSet(Holders(am, victim)) /\ Cardinality(Holders(am, victim)) \in Nat
      /\ Cardinality(Holders(am, victim) \ {b}) = Cardinality(Holders(am, victim)) - 1
      /\ Cardinality(Holders(am, victim) \ {b}) \in Nat
      /\ IsFiniteSet(am.vvNew[b]) /\ Cardinality(am.vvNew[b]) \in Nat
      /\ Cardinality(held) = Cardinality(am.vvNew[b]) - 1 /\ held \subseteq am.vvNew[b]
  <2>1. Holders(am, victim) \subseteq NewBucket /\ am.vvNew[b] \subseteq Ids(am)
    BY <1>1 DEF Holders
  <2>2. QED
    BY <1>1, <1>3, <2>1, Finite, FS_RemoveElement
<1>5. refs \in Nat /\ refs = Cardinality(Holders(am, victim) \ {b})
      /\ ~ am.mapInfo[victim].fInTried /\ refs < ADDRMAN_NEW_BUCKETS_PER_ADDRESS
  BY <1>3, <1>4, Bounds DEF Referenced
<1> HIDE DEF refs
<1>6. /\ infos \in [Ids(am) -> Info] /\ infos[victim].nRefCount = refs
      /\ \A x \in Ids(am) :
            /\ infos[x].addr = am.mapInfo[x].addr
            /\ infos[x].nRandomPos = am.mapInfo[x].nRandomPos
            /\ infos[x].nLastSuccess = am.mapInfo[x].nLastSuccess
            /\ infos[x].fInTried = am.mapInfo[x].fInTried
            /\ x # victim => infos[x].nRefCount = am.mapInfo[x].nRefCount
  <2> HIDE DEF infos
  <2>1. infos = [am.mapInfo EXCEPT ![victim].nRefCount = refs]
    BY DEF infos
  <2>2. QED
    BY <1>1, <1>5, <2>1, CountSet
<1> HIDE DEF infos, less
<1>7. /\ buckets \in [NewBucket -> SUBSET Ids(am)] /\ buckets[b] = held
      /\ \A c \in NewBucket : Cardinality(buckets[c]) <= ADDRMAN_NEW_BUCKET_SIZE
  <2>1. \A c \in NewBucket : Cardinality(am.vvNew[c]) <= ADDRMAN_NEW_BUCKET_SIZE
    BY DEF Table, Sizes
  <2>2. \A c \in NewBucket : buckets[c] = IF c = b THEN held ELSE am.vvNew[c]
    BY <1>1
  <2>3. QED
    BY <1>1, <1>4, <2>1, <2>2, Bounds
<1> HIDE DEF buckets
<1>8. less.mapInfo = infos /\ less.vvNew = buckets
  BY <1>2
<1> HIDE DEF held
<1>9. Table(less) /\ Ids(less) = Ids(am)
  BY <1>2, <1>6, <1>7, <1>8, RefsKept
<1>10. /\ Holders(less, victim) = Holders(am, victim) \ {b}
       /\ \A x : x # victim => Holders(less, x) = Holders(am, x)
  BY <1>1, <1>8 DEF Holders, buckets, held
<1>11. /\ Owed(less, id) /\ \A x \in Ids(am) \ {id, victim} : Referenced(less, x)
  BY <1>6, <1>8, <1>10 DEF Owed, Referenced
<1>12. CASE refs = 0
  <2>1. Holders(less, victim) = {}
    BY <1>4, <1>5, <1>10, <1>12, FS_EmptySet, FS_Subset
  <2>2. ~ less.mapInfo[victim].fInTried
    BY <1>1, <1>5, <1>6, <1>8
  <2>3. Table(Delete(less, victim)) /\ SameBut(less, Delete(less, victim), victim)
    BY <1>1, <1>9, <2>1, <2>2, DeleteIs
  <2> DEFINE r == Delete(less, victim)
  <2> HIDE DEF r
  <2>4. ShrinkNew(am, b, victim) = r
    BY <1>12 DEF ShrinkNew, r, less, refs
  <2>5. /\ Ids(r) = Ids(am) \ {victim} /\ r.vvNew = buckets
        /\ \A x \in Ids(r) : /\ r.mapInfo[x].addr = less.mapInfo[x].addr
                             /\ r.mapInfo[x].fInTried = less.mapInfo[x].fInTried
                             /\ r.mapInfo[x].nRefCount = less.mapInfo[x].nRefCount
    <3>1. \A x \in Ids(r) : less.mapInfo[x] \in Info
      BY <1>6, <1>8, <1>9, <2>3 DEF SameBut, r
    <3>2. QED
      BY <1>8, <1>9, <2>3, <3>1 DEF SameBut, r, Info
  <2>6. \A x : Holders(r, x) = Holders(less, x)
    BY <1>8, <2>5 DEF Holders
  <2>7. id \in Ids(r) /\ Owed(r, id) /\ \A x \in Ids(r) \ {id} : Referenced(r, x)
    BY <1>11, <2>5, <2>6 DEF Owed, Referenced
  <2>8. Remembered(am, r)
    BY <1>5, <1>6, <1>8, <2>5 DEF TriedIds, Remembered
  <2>9. QED
    <3>1. Cardinality(r.vvNew[b]) < Cardinality(am.vvNew[b]) /\ r.vvNew[b] \subseteq am.vvNew[b]
      BY <1>4, <1>7, <2>5
    <3>2. Table(r)
      BY <2>3 DEF r
    <3>3. QED
      BY <2>4, <2>7, <2>8, <3>1, <3>2 DEF Shrunk
<1>13. CASE refs # 0
  <2>1. ShrinkNew(am, b, victim) = less
    BY <1>13 DEF ShrinkNew, less, refs
  <2>2. Holders(less, victim) # {}
    BY <1>5, <1>10, <1>13, FS_EmptySet
  <2>3. Referenced(less, victim)
    BY <1>1, <1>5, <1>6, <1>8, <1>10, <2>2, Bounds DEF Referenced
  <2>4. Remembered(am, less)
    BY <1>6, <1>8, <1>9 DEF TriedIds, Remembered
  <2>5. QED
    <3>1. Cardinality(less.vvNew[b]) < Cardinality(am.vvNew[b])
          /\ less.vvNew[b] \subseteq am.vvNew[b]
      BY <1>4, <1>7, <1>8
    <3>2. \A x \in Ids(less) \ {id} : Referenced(less, x)
      BY <1>9, <1>11, <2>3
    <3>3. QED
      BY <1>9, <1>11, <2>1, <2>4, <3>1, <3>2 DEF Shrunk
<1>14. QED
  BY <1>12, <1>13

\* The end of Add_ references an entry that may have one more reference.
LEMMA InsertNewIs ==
    ASSUME NEW am, Table(am), NEW id \in Ids(am), Pending(am, id),
           \A x \in Ids(am) \ {id} : Referenced(am, x),
           NEW b \in NewBucket, NEW victim \in am.vvNew[b] \cup {id},
           Cardinality(am.vvNew[b]) = ADDRMAN_NEW_BUCKET_SIZE => victim # id
    PROVE  /\ Agrees(InsertNew(am, id, b, victim))
           /\ Remembered(am, InsertNew(am, id, b, victim))
<1> DEFINE refs == am.mapInfo[id].nRefCount + 1
           infos == [am.mapInfo EXCEPT ![id].nRefCount = refs]
           counted == [am EXCEPT !.mapInfo[id].nRefCount = @ + 1]
           shrunk == IF Cardinality(am.vvNew[b]) = ADDRMAN_NEW_BUCKET_SIZE
                     THEN ShrinkNew(counted, b, victim) ELSE counted
           more == shrunk.vvNew[b] \cup {id}
           buckets == [shrunk.vvNew EXCEPT ![b] = more]
           r == [shrunk EXCEPT !.vvNew[b] = @ \cup {id}]
<1>1. /\ Typed(am) /\ am.mapInfo \in [Ids(am) -> Info] /\ am.mapInfo[id].nRefCount \in Nat
      /\ am.vvNew \in [NewBucket -> SUBSET Ids(am)]
      /\ IsFiniteSet(Holders(am, id)) /\ Cardinality(Holders(am, id)) \in Nat
      /\ \A c \in NewBucket : IsFiniteSet(am.vvNew[c]) /\ Cardinality(am.vvNew[c]) \in Nat
  <2>1. Typed(am)
    BY DEF Table
  <2>2. Holders(am, id) \subseteq NewBucket
    BY DEF Holders
  <2>3. \A c \in NewBucket : am.vvNew[c] \subseteq Ids(am)
    BY <2>1 DEF Typed
  <2>4. QED
    BY <2>1, <2>2, <2>3, Finite, InfoIs DEF Typed
<1>2. CASE id \in am.vvNew[b]
  <2>1. b \in Holders(am, id)
    BY <1>2 DEF Holders
  <2>2. Referenced(am, id)
    BY <1>1, <2>1, Bounds DEF Pending, Referenced
  <2>3. InsertNew(am, id, b, victim) = am
    BY <1>2 DEF InsertNew
  <2>4. QED
    BY <2>2, <2>3 DEF Agrees, Remembered, TriedIds
<1>3. CASE id \notin am.vvNew[b]
  <2>1. counted \in [mapInfo : {infos}, mapAddr : {am.mapAddr}, vRandom : {am.vRandom},
                     nIdCount : {am.nIdCount}, nNew : {am.nNew}, nTried : {am.nTried},
                     vvNew : {am.vvNew}, vvTried : {am.vvTried}]
    BY <1>1 DEF Typed
  <2>2. refs \in Nat
    BY <1>1
  <2> HIDE DEF refs
  <2>3. /\ infos \in [Ids(am) -> Info] /\ infos[id].nRefCount = refs
        /\ \A x \in Ids(am) :
              /\ infos[x].addr = am.mapInfo[x].addr
              /\ infos[x].nRandomPos = am.mapInfo[x].nRandomPos
              /\ infos[x].nLastSuccess = am.mapInfo[x].nLastSuccess
              /\ infos[x].fInTried = am.mapInfo[x].fInTried
              /\ x # id => infos[x].nRefCount = am.mapInfo[x].nRefCount
    <3> HIDE DEF infos
    <3>1. infos = [am.mapInfo EXCEPT ![id].nRefCount = refs]
      BY DEF infos
    <3>2. QED
      BY <1>1, <2>2, <3>1, CountSet
  <2> HIDE DEF infos, counted
  <2>4. counted.mapInfo = infos /\ counted.vvNew = am.vvNew
    BY <2>1
  <2>5. \A c \in NewBucket : Cardinality(am.vvNew[c]) <= ADDRMAN_NEW_BUCKET_SIZE
    BY DEF Table, Sizes
  <2>6. Table(counted) /\ Ids(counted) = Ids(am)
    BY <1>1, <2>1, <2>3, <2>4, <2>5, RefsKept
  <2>7. \A x : Holders(counted, x) = Holders(am, x)
    BY <2>4 DEF Holders
  <2>8. /\ Owed(counted, id) /\ \A x \in Ids(am) \ {id} : Referenced(counted, x)
        /\ Remembered(am, counted) /\ TriedIds(counted) = TriedIds(am)
    <3>1. refs = Cardinality(Holders(am, id)) + 1 /\ refs <= ADDRMAN_NEW_BUCKETS_PER_ADDRESS
      BY <1>1, Bounds DEF Pending, refs
    <3>2. Owed(counted, id)
      BY <2>3, <2>4, <2>7, <3>1 DEF Pending, Owed
    <3>3. \A x \in Ids(am) \ {id} : Referenced(counted, x)
      BY <2>3, <2>4, <2>7 DEF Referenced
    <3>4. TriedIds(counted) = TriedIds(am)
      BY <2>3, <2>4, <2>6 DEF TriedIds
    <3>5. Remembered(am, counted)
      BY <2>3, <2>4, <2>6 DEF Remembered, TriedIds
    <3>6. QED
      BY <3>2, <3>3, <3>4, <3>5
  <2> HIDE DEF shrunk, r
  <2>9. /\ Table(shrunk) /\ id \in Ids(shrunk) /\ Owed(shrunk, id)
        /\ \A x \in Ids(shrunk) \ {id} : Referenced(shrunk, x)
        /\ Cardinality(shrunk.vvNew[b]) < ADDRMAN_NEW_BUCKET_SIZE
        /\ id \notin shrunk.vvNew[b] /\ Remembered(am, shrunk)
    <3>1. CASE Cardinality(am.vvNew[b]) = ADDRMAN_NEW_BUCKET_SIZE
      <4>1. victim \in counted.vvNew[b] /\ victim # id /\ victim \in Ids(am)
        BY <1>1, <2>4, <3>1
      <4>2. Shrunk(counted, ShrinkNew(counted, b, victim), b, id)
        BY <2>6, <2>8, <4>1, ShrinkNewIs
      <4>3. shrunk = ShrinkNew(counted, b, victim)
        BY <3>1 DEF shrunk
      <4>4. Remembered(am, shrunk)
        BY <2>8, <4>2, <4>3 DEF Shrunk, Remembered
      <4>5. QED
        BY <1>3, <2>4, <3>1, <4>2, <4>3, <4>4 DEF Shrunk
    <3>2. CASE Cardinality(am.vvNew[b]) # ADDRMAN_NEW_BUCKET_SIZE
      <4>1. shrunk = counted
        BY <3>2 DEF shrunk
      <4>2. Cardinality(am.vvNew[b]) < ADDRMAN_NEW_BUCKET_SIZE
        BY <1>1, <2>5, <3>2, Bounds
      <4>3. QED
        BY <1>3, <2>4, <2>6, <2>8, <4>1, <4>2
    <3>3. QED
      BY <3>1, <3>2
  <2>10. /\ Typed(shrunk) /\ shrunk.vvNew \in [NewBucket -> SUBSET Ids(shrunk)]
         /\ shrunk.mapInfo \in [Ids(shrunk) -> Info]
         /\ IsFiniteSet(shrunk.vvNew[b]) /\ Cardinality(shrunk.vvNew[b]) \in Nat
         /\ IsFiniteSet(Holders(shrunk, id)) /\ Cardinality(Holders(shrunk, id)) \in Nat
    <3>1. Typed(shrunk) /\ Holders(shrunk, id) \subseteq NewBucket
      BY <2>9 DEF Table, Holders
    <3>2. shrunk.vvNew \in [NewBucket -> SUBSET Ids(shrunk)]
          /\ shrunk.mapInfo \in [Ids(shrunk) -> Info]
      BY <3>1 DEF Typed
    <3>3. shrunk.vvNew[b] \subseteq Ids(shrunk)
      BY <3>2
    <3>4. QED
      BY <3>1, <3>2, <3>3, Finite
  <2>11. r \in [mapInfo : {shrunk.mapInfo}, mapAddr : {shrunk.mapAddr},
                vRandom : {shrunk.vRandom}, nIdCount : {shrunk.nIdCount},
                nNew : {shrunk.nNew}, nTried : {shrunk.nTried},
                vvNew : {buckets}, vvTried : {shrunk.vvTried}]
    BY <2>10 DEF Typed, r
  <2>12. Cardinality(more) <= ADDRMAN_NEW_BUCKET_SIZE /\ more \subseteq Ids(shrunk)
    <3>1. Cardinality(shrunk.vvNew[b] \cup {id}) = Cardinality(shrunk.vvNew[b]) + 1
      BY <2>9, <2>10, FS_AddElement
    <3>2. more \subseteq Ids(shrunk)
      BY <2>9, <2>10
    <3> HIDE DEF more
    <3>3. Cardinality(more) = Cardinality(shrunk.vvNew[b]) + 1
      BY <3>1 DEF more
    <3>4. QED
      BY <2>9, <2>10, <3>2, <3>3, Bounds
  <2> HIDE DEF more
  <2>13. /\ buckets \in [NewBucket -> SUBSET Ids(shrunk)]
         /\ \A c \in NewBucket : buckets[c] = IF c = b THEN more ELSE shrunk.vvNew[c]
    BY <2>10, <2>12
  <2> HIDE DEF buckets
  <2>14. /\ r.mapInfo = shrunk.mapInfo /\ r.vvNew = buckets
         /\ \A c \in NewBucket : Cardinality(r.vvNew[c]) <= ADDRMAN_NEW_BUCKET_SIZE
    <3>1. \A c \in NewBucket : Cardinality(shrunk.vvNew[c]) <= ADDRMAN_NEW_BUCKET_SIZE
      BY <2>9 DEF Table, Sizes
    <3>2. QED
      BY <2>11, <2>12, <2>13, <3>1
  <2>15. Table(r) /\ Ids(r) = Ids(shrunk)
    BY <2>9, <2>10, <2>11, <2>13, <2>14, RefsKept
  <2>16. /\ Holders(r, id) = Holders(shrunk, id) \cup {b} /\ b \notin Holders(shrunk, id)
         /\ \A x : x # id => Holders(r, x) = Holders(shrunk, x)
    BY <2>9, <2>13, <2>14 DEF Holders, more
  <2>17. Cardinality(Holders(r, id)) = Cardinality(Holders(shrunk, id)) + 1
    BY <2>10, <2>16, FS_AddElement
  <2>18. Referenced(r, id)
    BY <2>9, <2>14, <2>16, <2>17 DEF Owed, Referenced
  <2>19. \A x \in Ids(r) \ {id} : Referenced(r, x)
    BY <2>9, <2>14, <2>15, <2>16 DEF Referenced
  <2>20. Remembered(am, r)
    BY <2>9, <2>14, <2>15 DEF Remembered
  <2>21. InsertNew(am, id, b, victim) = r
    BY <1>3 DEF InsertNew, r, shrunk, counted
  <2>22. QED
    BY <2>15, <2>18, <2>19, <2>20, <2>21 DEF Agrees
<1>4. QED
  BY <1>2, <1>3

\* Add_ keeps the table whole.
LEMMA AddKeeps ==
    ASSUME Agrees(addrman), NEW s \in Service, NEW src \in Source, Add(s, src)
    PROVE  Agrees(addrman') /\ Remembered(addrman, addrman') /\ peers' = peers
<1> DEFINE known == IpOf[s] \in DOMAIN addrman.mapAddr
           made == IF known THEN addrman ELSE Create(addrman, s, src)
           id == made.mapAddr[IpOf[s]]
           b == NewBucketOf[made.mapInfo[id].addr][src]
<1>1. PICK victim \in made.vvNew[b] \cup {id} :
         /\ made.nIdCount <= MaxId /\ MayReference(made, id)
         /\ Cardinality(made.vvNew[b]) = ADDRMAN_NEW_BUCKET_SIZE => victim # id
         /\ addrman' = InsertNew(made, id, b, victim)
  BY DEF Add
<1>2. peers' = peers
  BY DEF Add
<1>3. Typed(addrman)
  BY DEF Agrees, Table
<1>4. /\ Table(made) /\ id \in Ids(made) /\ Pending(made, id)
      /\ \A x \in Ids(made) \ {id} : Referenced(made, x)
      /\ \A x \in Ids(addrman) : x \in Ids(made) /\ made.mapInfo[x] = addrman.mapInfo[x]
  <2>1. CASE known
    <3>1. made = addrman /\ id \in Ids(addrman)
      BY <1>3, <2>1 DEF Typed
    <3> HIDE DEF made, id
    <3>2. Referenced(addrman, id) /\ addrman.mapInfo[id].nRefCount \in Nat
      BY <1>3, <3>1, InfoIs DEF Agrees
    <3>3. Pending(addrman, id)
      BY <1>1, <3>1, <3>2, Bounds DEF MayReference, Pending, Referenced
    <3>4. QED
      BY <3>1, <3>3 DEF Agrees
  <2>2. CASE ~ known
    <3>1. made = Create(addrman, s, src)
      BY <2>2
    <3> HIDE DEF made
    <3>2. addrman.nIdCount <= MaxId
      <4>1. made.nIdCount = addrman.nIdCount + 1
        BY <1>3, <3>1 DEF Create, Typed
      <4>2. made.nIdCount <= MaxId
        BY <1>1
      <4>3. addrman.nIdCount \in 0 .. MaxId + 1
        BY <1>3 DEF Typed
      <4>4. QED
        <5>1. addrman.nIdCount + 1 <= MaxId
          BY <4>1, <4>2
        <5>2. QED
          BY <4>3, <5>1, Room
    <3>3. /\ Table(made) /\ Ids(made) = Ids(addrman) \cup {addrman.nIdCount}
          /\ addrman.nIdCount \notin Ids(addrman) /\ id = addrman.nIdCount
          /\ Pending(made, addrman.nIdCount)
          /\ \A x \in Ids(addrman) : /\ Referenced(made, x)
                                     /\ made.mapInfo[x] = addrman.mapInfo[x]
      <4>1. IpOf[s] \notin DOMAIN addrman.mapAddr
        BY <2>2
      <4>2. made.mapAddr[IpOf[s]] = addrman.nIdCount
        BY <3>1, <3>2, <4>1, CreateIs
      <4>3. QED
        <5> HIDE DEF id, b
        <5> DEFINE c == Create(addrman, s, src)
        <5>1. /\ Table(c) /\ Ids(c) = Ids(addrman) \cup {addrman.nIdCount}
              /\ addrman.nIdCount \notin Ids(addrman) /\ Pending(c, addrman.nIdCount)
              /\ \A x \in Ids(addrman) : /\ Referenced(c, x)
                                         /\ c.mapInfo[x] = addrman.mapInfo[x]
          BY <3>2, <4>1, CreateIs
        <5>2. made = c
          BY <3>1
        <5> HIDE DEF c
        <5>3. id = addrman.nIdCount
          BY <4>2 DEF id
        <5>4. QED
          BY <5>1, <5>2, <5>3
    <3> HIDE DEF id
    <3>4. QED
      BY <3>3
  <2>3. QED
    BY <2>1, <2>2
<1> HIDE DEF made, id
<1>5. b \in NewBucket
  BY <1>4, InfoIs DEF Table
<1> HIDE DEF b
<1>6. Agrees(addrman') /\ Remembered(made, addrman')
  BY <1>1, <1>4, <1>5, InsertNewIs
<1>7. Remembered(addrman, addrman')
  BY <1>4, <1>6 DEF Remembered, TriedIds
<1>8. QED
  BY <1>2, <1>6, <1>7

-----------------------------------------------------------------------------
(* The shuffle of getaddr                                                   *)

\* What the shuffle computes, one exchange after the other.
LEMMA ShuffleIs ==
    ASSUME NEW am, NEW picks, Len(picks) \in Nat
    PROVE  \E f : /\ f[0] = am
                  /\ \A n \in 1 .. Len(picks) :
                        f[n] = IF n = picks[n] THEN f[n - 1]
                               ELSE SwapRandom(f[n - 1], n, picks[n])
                  /\ Shuffle(am, picks) = f[Len(picks)]
<1> DEFINE N == Len(picks)
           Step(x, n) == IF n = picks[n] THEN x ELSE SwapRandom(x, n, picks[n])
           Steps(f, n) == f = [i \in 0 .. n |-> IF i = 0 THEN am ELSE Step(f[i - 1], i)]
           bad == {n \in 0 .. N : ~ \E f : Steps(f, n)}
<1>1. bad = {}
  <2>1. SUFFICES ASSUME bad # {} PROVE FALSE
    OBVIOUS
  <2>2. PICK m \in bad : \A i \in bad : m <= i
    <3>1. bad \in SUBSET Nat
      OBVIOUS
    <3> HIDE DEF bad
    <3>2. QED
      BY <2>1, <3>1, LeastIs
  <2>3. m \in 0 .. N /\ ~ \E f : Steps(f, m)
    OBVIOUS
  <2> HIDE DEF Step
  <2>4. m # 0
    <3>1. Steps([i \in 0 .. 0 |-> am], 0)
      OBVIOUS
    <3>2. QED
      BY <2>3, <3>1
  <2>5. m - 1 \in 0 .. N /\ m - 1 \notin bad
    BY <2>2, <2>3, <2>4
  <2>6. PICK f : Steps(f, m - 1)
    BY <2>5
  <2> DEFINE g == [i \in 0 .. m |-> IF i = 0 THEN am ELSE Step(f[i - 1], i)]
  <2>7. \A i \in 0 .. m - 1 : f[i] = IF i = 0 THEN am ELSE Step(f[i - 1], i)
    BY <2>6
  <2>8. \A i \in 1 .. m : g[i - 1] = f[i - 1]
    BY <2>3, <2>7
  <2>9. ASSUME NEW i \in 0 .. m
        PROVE  g[i] = IF i = 0 THEN am ELSE Step(g[i - 1], i)
    <3>1. g[i] = IF i = 0 THEN am ELSE Step(f[i - 1], i)
      OBVIOUS
    <3> HIDE DEF g
    <3>2. i # 0 => i \in 1 .. m
      BY <2>3
    <3>3. QED
      BY <2>8, <3>1, <3>2
  <2>10. g = [i \in 0 .. m |-> g[i]]
    OBVIOUS
  <2> HIDE DEF g
  <2>11. Steps(g, m)
    BY <2>9, <2>10
  <2>12. QED
    BY <2>3, <2>11
<1>2. \E f : Steps(f, N)
  BY <1>1
<1> DEFINE f == CHOOSE f : Steps(f, N)
<1>3. Steps(f, N)
  BY <1>2
<1>4. Shuffle(am, picks) = f[N]
  BY DEF Shuffle
<1> HIDE DEF f, Step
<1>5. f[0] = am /\ \A n \in 1 .. N : f[n] = Step(f[n - 1], n)
  BY <1>3
<1>6. QED
  BY <1>4, <1>5 DEF Step

\* Every exchange of the shuffle keeps the table whole.
LEMMA ShuffleKeeps ==
    ASSUME NEW am, Agrees(am), NEW n \in Nat, NEW picks \in Picks(n, am.vRandom)
    PROVE  Agrees(Shuffle(am, picks)) /\ Remembered(am, Shuffle(am, picks))
<1> DEFINE N == Len(picks)
           dom == DOMAIN am.vRandom
           Whole(x) == Agrees(x) /\ DOMAIN x.vRandom = dom /\ Remembered(am, x)
                       /\ TriedIds(x) = TriedIds(am)
<1>1. /\ Len(picks) \in Nat /\ am.vRandom \in Seq(Ids(am))
      /\ \A i \in 1 .. N : i \in dom /\ picks[i] \in dom
  <2>1. am.vRandom \in Seq(Ids(am)) /\ Len(am.vRandom) \in Nat
    BY DEF Agrees, Table, Typed
  <2>2. picks \in [1 .. n -> 1 .. Len(am.vRandom)] /\ \A i \in 1 .. n : picks[i] >= i
    BY DEF Picks
  <2>3. picks \in Seq(1 .. Len(am.vRandom)) /\ Len(picks) = n
    BY <2>2
  <2>4. \A i \in 1 .. n : i \in 1 .. Len(am.vRandom) /\ picks[i] \in 1 .. Len(am.vRandom)
    BY <2>1, <2>2
  <2>5. QED
    BY <2>1, <2>3, <2>4
<1>2. PICK f : /\ f[0] = am
               /\ \A i \in 1 .. Len(picks) :
                     f[i] = IF i = picks[i] THEN f[i - 1]
                            ELSE SwapRandom(f[i - 1], i, picks[i])
               /\ Shuffle(am, picks) = f[Len(picks)]
  BY <1>1, ShuffleIs, SMTT(20)
<1> DEFINE bad == {i \in 0 .. N : ~ Whole(f[i])}
<1>3. bad = {}
  <2>1. SUFFICES ASSUME bad # {} PROVE FALSE
    OBVIOUS
  <2>2. PICK m \in bad : \A i \in bad : m <= i
    <3>1. bad \in SUBSET Nat
      OBVIOUS
    <3> HIDE DEF bad
    <3>2. QED
      BY <2>1, <3>1, LeastIs
  <2>3. m \in 0 .. N /\ ~ Whole(f[m])
    OBVIOUS
  <2>4. Whole(am)
    BY DEF Remembered, TriedIds
  <2>5. m # 0
    BY <1>2, <2>3, <2>4
  <2>6. m - 1 \in 0 .. N /\ m - 1 \notin bad /\ m \in 1 .. N
    BY <1>1, <2>2, <2>3, <2>5
  <2>7. Whole(f[m - 1])
    BY <2>6
  <2>8. CASE m = picks[m]
    BY <1>2, <2>3, <2>6, <2>7, <2>8
  <2>9. CASE m # picks[m]
    <3> DEFINE x == f[m - 1]
               r == SwapRandom(x, m, picks[m])
    <3>1. f[m] = r
      BY <1>2, <2>6, <2>9
    <3>2. /\ Typed(x) /\ Order(x) /\ Addresses(x) /\ Placed(x) /\ Counts(x) /\ Sizes(x)
          /\ \A id \in Ids(x) : Referenced(x, id)
      BY <2>7 DEF Agrees, Table
    <3>3. m \in DOMAIN x.vRandom /\ picks[m] \in DOMAIN x.vRandom
      BY <1>1, <2>6, <2>7
    <3> HIDE DEF x
    <3>4. Typed(r) /\ Order(r) /\ SameTable(x, r) /\ DOMAIN r.vRandom = DOMAIN x.vRandom
      BY <3>2, <3>3, SwapRandomIs
    <3> HIDE DEF r
    <3>5. Ids(r) = Ids(x)
      BY <3>4 DEF SameTable
    <3>6. Agrees(r)
      BY <3>2, <3>4, <3>5, SameTableKeeps DEF Agrees, Table
    <3>7. \A id \in Ids(x) : /\ r.mapInfo[id].addr = x.mapInfo[id].addr
                             /\ r.mapInfo[id].fInTried = x.mapInfo[id].fInTried
      <4>1. \A id \in Ids(x) : x.mapInfo[id] \in Info
        BY <3>2 DEF Typed
      <4>2. QED
        BY <3>4, <4>1 DEF SameTable, Info
    <3>8. TriedIds(r) = TriedIds(x)
      BY <3>5, <3>7 DEF TriedIds
    <3>9. Remembered(am, r)
      <4>1. Remembered(am, x)
        BY <2>7 DEF x
      <4>2. QED
        BY <3>5, <3>7, <4>1 DEF Remembered
    <3>10. Whole(r)
      BY <2>7, <3>4, <3>6, <3>8, <3>9 DEF x
    <3>11. QED
      BY <2>3, <3>1, <3>10
  <2>10. QED
    BY <2>8, <2>9
<1>4. Whole(f[N])
  BY <1>1, <1>3
<1>5. QED
  BY <1>2, <1>4

\* GetAddr_ keeps the table whole.
LEMMA GetAddrKeeps ==
    ASSUME Agrees(addrman), GetAddr
    PROVE  Agrees(addrman') /\ Remembered(addrman, addrman') /\ peers' = peers
<1> DEFINE nNodes == (ADDRMAN_GETADDR_MAX_PCT * Len(addrman.vRandom)) \div 100
<1>1. nNodes \in Nat
  <2>1. Len(addrman.vRandom) \in Nat
    BY DEF Agrees, Table, Typed
  <2>2. ADDRMAN_GETADDR_MAX_PCT * Len(addrman.vRandom) \in Nat
    BY <2>1, Bounds
  <2>3. QED
    BY <2>2
<1> HIDE DEF nNodes
<1>2. PICK picks \in Picks(nNodes, addrman.vRandom) : addrman' = Shuffle(addrman, picks)
  BY DEF GetAddr, nNodes
<1>3. peers' = peers
  BY DEF GetAddr
<1>4. QED
  BY <1>1, <1>2, <1>3, ShuffleKeeps

-----------------------------------------------------------------------------
(* Tried buckets                                                            *)

Members(q) == {q[i] : i \in DOMAIN q}
Once(q) == \A i, j \in DOMAIN q : q[i] = q[j] => i = j

\* The tried entries that belong in a bucket.
Belong(am, k) == {x \in TriedIds(am) : TriedBucketOf[am.mapInfo[x].addr] = k}

\* The tried buckets list the tried entries, each where it belongs, once.
LEMMA PlacedIs ==
    ASSUME NEW am, Typed(am)
    PROVE  Placed(am) <=>
              /\ \A k \in TriedBucket : /\ Once(am.vvTried[k])
                                        /\ Members(am.vvTried[k]) = Belong(am, k)
              /\ \A x \in TriedIds(am) : am.mapInfo[x].nLastSuccess # 0
<1>1. \A k \in TriedBucket : \A i \in DOMAIN am.vvTried[k] : am.vvTried[k][i] \in Ids(am)
  BY DEF Typed
<1>2. \A x \in Ids(am) : TriedBucketOf[am.mapInfo[x].addr] \in TriedBucket
  BY InfoIs
<1>3. ASSUME Placed(am)
      PROVE  /\ \A k \in TriedBucket : /\ Once(am.vvTried[k])
                                       /\ Members(am.vvTried[k]) = Belong(am, k)
             /\ \A x \in TriedIds(am) : am.mapInfo[x].nLastSuccess # 0
  <2>1. ASSUME NEW k \in TriedBucket
        PROVE  Once(am.vvTried[k]) /\ Members(am.vvTried[k]) = Belong(am, k)
    <3>1. Once(am.vvTried[k])
      BY <1>3 DEF Placed, Once
    <3>2. ASSUME NEW x \in Members(am.vvTried[k]) PROVE x \in Belong(am, k)
      <4>1. PICK i \in DOMAIN am.vvTried[k] : x = am.vvTried[k][i]
        BY DEF Members
      <4>2. QED
        BY <1>1, <1>3, <4>1 DEF Placed, Belong, TriedIds
    <3>3. ASSUME NEW x \in Belong(am, k) PROVE x \in Members(am.vvTried[k])
      BY <1>3 DEF Placed, Belong, TriedIds, Members
    <3>4. QED
      BY <3>1, <3>2, <3>3
  <2>2. QED
    BY <1>3, <2>1 DEF Placed, TriedIds
<1>4. ASSUME \A k \in TriedBucket : /\ Once(am.vvTried[k])
                                    /\ Members(am.vvTried[k]) = Belong(am, k),
             \A x \in TriedIds(am) : am.mapInfo[x].nLastSuccess # 0
      PROVE  Placed(am)
  <2>1. ASSUME NEW k \in TriedBucket, NEW i \in DOMAIN am.vvTried[k]
        PROVE  /\ am.mapInfo[am.vvTried[k][i]].fInTried
               /\ TriedBucketOf[am.mapInfo[am.vvTried[k][i]].addr] = k
               /\ \A j \in DOMAIN am.vvTried[k] :
                     am.vvTried[k][i] = am.vvTried[k][j] => i = j
    <3>1. am.vvTried[k][i] \in Belong(am, k)
      BY <1>4 DEF Members
    <3>2. QED
      BY <1>4, <3>1 DEF Belong, TriedIds, Once
  <2>2. ASSUME NEW x \in Ids(am), am.mapInfo[x].fInTried
        PROVE  /\ am.mapInfo[x].nLastSuccess # 0
               /\ \E i \in DOMAIN am.vvTried[TriedBucketOf[am.mapInfo[x].addr]] :
                     am.vvTried[TriedBucketOf[am.mapInfo[x].addr]][i] = x
    <3>1. x \in Belong(am, TriedBucketOf[am.mapInfo[x].addr]) /\ x \in TriedIds(am)
      BY <2>2 DEF Belong, TriedIds
    <3>2. x \in Members(am.vvTried[TriedBucketOf[am.mapInfo[x].addr]])
      BY <1>2, <1>4, <3>1
    <3>3. QED
      BY <1>4, <3>1, <3>2 DEF Members
  <2>3. QED
    BY <2>1, <2>2 DEF Placed
<1>5. QED
  BY <1>3, <1>4

\* A tried bucket has no entry twice.
LEMMA PlacedOnce ==
    ASSUME NEW am, Placed(am), NEW k \in TriedBucket
    PROVE  \A i, j \in DOMAIN am.vvTried[k] : am.vvTried[k][i] = am.vvTried[k][j] => i = j
BY DEF Placed

\* A bucket gets one more member.
LEMMA AppendOnce ==
    ASSUME NEW T, NEW q \in Seq(T), Once(q), NEW id \in T, id \notin Members(q)
    PROVE  /\ Append(q, id) \in Seq(T) /\ Len(Append(q, id)) = Len(q) + 1
           /\ Once(Append(q, id)) /\ Members(Append(q, id)) = Members(q) \cup {id}
<1> DEFINE r == Append(q, id)
<1>1. /\ r \in Seq(T) /\ Len(r) = Len(q) + 1 /\ Len(q) \in Nat
      /\ \A i \in 1 .. Len(q) : r[i] = q[i]
      /\ r[Len(q) + 1] = id /\ DOMAIN r = 1 .. Len(q) + 1 /\ DOMAIN q = 1 .. Len(q)
  OBVIOUS
<1> HIDE DEF r
<1>2. Once(r)
  BY <1>1 DEF Once, Members
<1>3. Members(r) = Members(q) \cup {id}
  <2>1. ASSUME NEW x \in Members(r) PROVE x \in Members(q) \cup {id}
    BY <1>1 DEF Members
  <2>2. \A i \in DOMAIN q : i \in DOMAIN r /\ r[i] = q[i]
    BY <1>1
  <2>3. Members(q) \subseteq Members(r)
    BY <2>2 DEF Members
  <2>4. Len(q) + 1 \in DOMAIN r
    BY <1>1
  <2>5. id \in Members(r)
    BY <1>1, <2>4 DEF Members
  <2>6. QED
    BY <2>1, <2>3, <2>5
<1>4. QED
  BY <1>1, <1>2, <1>3 DEF r

\* One member of a bucket gives its place to another.
LEMMA ReplaceOnce ==
    ASSUME NEW T, NEW q \in Seq(T), Once(q), NEW id \in T, id \notin Members(q),
           NEW p \in DOMAIN q
    PROVE  /\ [q EXCEPT ![p] = id] \in Seq(T) /\ Len([q EXCEPT ![p] = id]) = Len(q)
           /\ Once([q EXCEPT ![p] = id])
           /\ Members([q EXCEPT ![p] = id]) = (Members(q) \ {q[p]}) \cup {id}
<1> DEFINE r == [q EXCEPT ![p] = id]
<1>1. /\ r \in Seq(T) /\ Len(r) = Len(q) /\ DOMAIN r = DOMAIN q
      /\ \A i \in DOMAIN q : r[i] = IF i = p THEN id ELSE q[i]
  OBVIOUS
<1> HIDE DEF r
<1>2. \A i \in DOMAIN q : q[i] # id
  BY DEF Members
<1>3. Once(r)
  BY <1>1, <1>2 DEF Once
<1>4. Members(r) = (Members(q) \ {q[p]}) \cup {id}
  <2>1. ASSUME NEW x \in Members(r) PROVE x \in (Members(q) \ {q[p]}) \cup {id}
    <3>1. PICK i \in DOMAIN q : x = r[i]
      BY <1>1 DEF Members
    <3>2. CASE i = p
      BY <1>1, <3>1, <3>2
    <3>3. CASE i # p
      <4>1. x = q[i] /\ q[i] # q[p]
        BY <1>1, <3>1, <3>3 DEF Once
      <4>2. QED
        BY <4>1 DEF Members
    <3>4. QED
      BY <3>2, <3>3
  <2>2. ASSUME NEW x \in (Members(q) \ {q[p]}) PROVE x \in Members(r)
    <3>1. PICK i \in DOMAIN q : x = q[i]
      BY DEF Members
    <3>2. i # p
      BY <3>1
    <3>3. QED
      BY <1>1, <3>1, <3>2 DEF Members
  <2>3. id \in Members(r)
    BY <1>1 DEF Members
  <2>4. QED
    BY <2>1, <2>2, <2>3
<1>5. QED
  BY <1>1, <1>3, <1>4 DEF r

\* Two members of a bucket change places.
LEMMA ExchangeOnce ==
    ASSUME NEW T, NEW q \in Seq(T), Once(q), NEW i \in DOMAIN q, NEW j \in DOMAIN q, NEW r,
           r = [q EXCEPT ![j] = q[i], ![i] = q[j]]
    PROVE  r \in Seq(T) /\ Len(r) = Len(q) /\ Once(r) /\ Members(r) = Members(q)
<1>1. /\ r \in Seq(T) /\ Len(r) = Len(q) /\ DOMAIN r = DOMAIN q
      /\ \A l \in DOMAIN q : r[l] = IF l = i THEN q[j] ELSE IF l = j THEN q[i] ELSE q[l]
  OBVIOUS
<1>2. Once(r)
  BY <1>1 DEF Once
<1>3. ASSUME NEW x \in Members(r) PROVE x \in Members(q)
  BY <1>1 DEF Members
<1>4. ASSUME NEW x \in Members(q) PROVE x \in Members(r)
  <2>1. PICK l \in DOMAIN q : x = q[l]
    BY DEF Members
  <2>2. PICK n \in DOMAIN q : x = r[n]
    BY <1>1, <2>1
  <2>3. QED
    BY <1>1, <2>2 DEF Members
<1>5. QED
  BY <1>1, <1>2, <1>3, <1>4

\* One turn of SelectTried's loop.
Inspect(am, picks, acc, i) ==
    LET id == acc.v[picks[i]]
        swapped == [acc.v EXCEPT ![picks[i]] = acc.v[i], ![i] = id]
    IN  IF \/ acc.nOldestPos = 0
           \/ am.mapInfo[id].nLastSuccess < am.mapInfo[acc.nOldest].nLastSuccess
        THEN [v |-> swapped, nOldest |-> id, nOldestPos |-> picks[i]]
        ELSE [acc EXCEPT !.v = swapped]

\* What SelectTried computes, one turn after the other.
LEMMA SelectTriedIs ==
    ASSUME NEW am, NEW v, NEW picks, Len(picks) \in Nat
    PROVE  \E f : /\ f[0] = [v |-> v, nOldest |-> 0, nOldestPos |-> 0]
                  /\ \A n \in 1 .. Len(picks) : f[n] = Inspect(am, picks, f[n - 1], n)
                  /\ SelectTried(am, v, picks) = f[Len(picks)]
<1> DEFINE N == Len(picks)
           start == [v |-> v, nOldest |-> 0, nOldestPos |-> 0]
           Steps(f, n) == f = [i \in 0 .. n |-> IF i = 0 THEN start
                                                ELSE Inspect(am, picks, f[i - 1], i)]
           bad == {n \in 0 .. N : ~ \E f : Steps(f, n)}
<1> HIDE DEF start
<1>1. bad = {}
  <2>1. SUFFICES ASSUME bad # {} PROVE FALSE
    OBVIOUS
  <2>2. PICK m \in bad : \A i \in bad : m <= i
    <3>1. bad \in SUBSET Nat
      OBVIOUS
    <3> HIDE DEF bad
    <3>2. QED
      BY <2>1, <3>1, LeastIs
  <2>3. m \in 0 .. N /\ ~ \E f : Steps(f, m)
    OBVIOUS
  <2>4. m # 0
    <3>1. Steps([i \in 0 .. 0 |-> start], 0)
      OBVIOUS
    <3>2. QED
      BY <2>3, <3>1
  <2>5. m - 1 \in 0 .. N /\ m - 1 \notin bad
    <3>1. m - 1 \in 0 .. N /\ ~ m <= m - 1
      BY <2>3, <2>4
    <3> HIDE DEF bad
    <3>2. QED
      BY <2>2, <3>1
  <2>6. PICK f : Steps(f, m - 1)
    BY <2>5
  <2> DEFINE g == [i \in 0 .. m |-> IF i = 0 THEN start
                                    ELSE Inspect(am, picks, f[i - 1], i)]
  <2>7. \A i \in 0 .. m - 1 : f[i] = IF i = 0 THEN start
                                     ELSE Inspect(am, picks, f[i - 1], i)
    BY <2>6
  <2>8. \A i \in 1 .. m : g[i - 1] = f[i - 1]
    BY <2>3, <2>7
  <2>9. ASSUME NEW i \in 0 .. m
        PROVE  g[i] = IF i = 0 THEN start ELSE Inspect(am, picks, g[i - 1], i)
    <3>1. g[i] = IF i = 0 THEN start ELSE Inspect(am, picks, f[i - 1], i)
      OBVIOUS
    <3> HIDE DEF g
    <3>2. i # 0 => i \in 1 .. m
      BY <2>3
    <3>3. QED
      BY <2>8, <3>1, <3>2
  <2>10. g = [i \in 0 .. m |-> g[i]]
    OBVIOUS
  <2> HIDE DEF g
  <2>11. Steps(g, m)
    BY <2>9, <2>10
  <2>12. QED
    BY <2>3, <2>11
<1>2. \E f : Steps(f, N)
  BY <1>1
<1> DEFINE f == CHOOSE f : Steps(f, N)
<1>3. Steps(f, N)
  BY <1>2
<1>4. SelectTried(am, v, picks) = f[N]
  BY DEF SelectTried, Inspect, start
<1> HIDE DEF f
<1>5. f[0] = start /\ \A n \in 1 .. N : f[n] = Inspect(am, picks, f[n - 1], n)
  BY <1>3
<1>6. QED
  BY <1>4, <1>5 DEF start

\* SelectTried shuffles a bucket and returns a place in it.
LEMMA Selected ==
    ASSUME NEW am, NEW T, NEW v \in Seq(T), v # <<>>, Once(v),
           NEW picks \in Picks(Inspected(v), v)
    PROVE  /\ SelectTried(am, v, picks).v \in Seq(T)
           /\ Len(SelectTried(am, v, picks).v) = Len(v)
           /\ Once(SelectTried(am, v, picks).v)
           /\ Members(SelectTried(am, v, picks).v) = Members(v)
           /\ SelectTried(am, v, picks).nOldestPos \in DOMAIN v
<1> DEFINE N == Len(picks)
           dom == DOMAIN v
           Whole(x, i) == /\ x \in [v : Seq(T), nOldest : {x.nOldest}, nOldestPos : {x.nOldestPos}]
                          /\ Len(x.v) = Len(v) /\ Once(x.v) /\ Members(x.v) = Members(v)
                          /\ i # 0 => x.nOldestPos \in dom
<1>1. Len(picks) \in Nat \ {0} /\ \A i \in 1 .. N : i \in dom /\ picks[i] \in dom
  <2>1. Len(v) \in Nat \ {0} /\ dom = 1 .. Len(v)
    OBVIOUS
  <2>2. Inspected(v) \in Nat \ {0} /\ Inspected(v) <= Len(v)
    BY <2>1, Bounds DEF Inspected
  <2>3. picks \in [1 .. Inspected(v) -> 1 .. Len(v)]
    BY DEF Picks
  <2> HIDE DEF dom
  <2>4. picks \in Seq(1 .. Len(v)) /\ Len(picks) = Inspected(v)
    BY <2>2, <2>3
  <2>5. QED
    BY <2>1, <2>2, <2>3, <2>4
<1>2. PICK f : /\ f[0] = [v |-> v, nOldest |-> 0, nOldestPos |-> 0]
               /\ \A n \in 1 .. Len(picks) : f[n] = Inspect(am, picks, f[n - 1], n)
               /\ SelectTried(am, v, picks) = f[Len(picks)]
  BY <1>1, SelectTriedIs
<1> DEFINE bad == {i \in 0 .. N : ~ Whole(f[i], i)}
<1>3. bad = {}
  <2>1. SUFFICES ASSUME bad # {} PROVE FALSE
    OBVIOUS
  <2>2. PICK m \in bad : \A i \in bad : m <= i
    <3>1. bad \in SUBSET Nat
      OBVIOUS
    <3> HIDE DEF bad
    <3>2. QED
      BY <2>1, <3>1, LeastIs
  <2>3. m \in 0 .. N /\ ~ Whole(f[m], m)
    OBVIOUS
  <2>4. m # 0
    <3>1. Whole(f[0], 0)
      BY <1>2
    <3>2. QED
      BY <2>3, <3>1
  <2>5. m - 1 \in 0 .. N /\ m - 1 \notin bad /\ m \in 1 .. N
    BY <1>1, <2>2, <2>3, <2>4
  <2>6. Whole(f[m - 1], m - 1)
    BY <2>5
  <2> DEFINE acc == f[m - 1]
             id == acc.v[picks[m]]
             swapped == [acc.v EXCEPT ![picks[m]] = acc.v[m], ![m] = id]
  <2>7. f[m] = Inspect(am, picks, acc, m)
    BY <1>2, <2>5
  <2>8. acc.v \in Seq(T) /\ Once(acc.v) /\ m \in DOMAIN acc.v /\ picks[m] \in DOMAIN acc.v
        /\ Len(acc.v) = Len(v) /\ Members(acc.v) = Members(v)
    BY <1>1, <2>5, <2>6
  <2> HIDE DEF acc
  <2>9. swapped \in Seq(T) /\ Len(swapped) = Len(v) /\ Once(swapped)
        /\ Members(swapped) = Members(v)
    BY <2>8, ExchangeOnce
  <2> HIDE DEF swapped, id
  <2>10. CASE \/ acc.nOldestPos = 0
              \/ am.mapInfo[id].nLastSuccess < am.mapInfo[acc.nOldest].nLastSuccess
    <3>1. f[m] = [v |-> swapped, nOldest |-> id, nOldestPos |-> picks[m]]
      BY <2>7, <2>10 DEF Inspect, swapped, id
    <3>2. picks[m] \in dom
      BY <1>1, <2>5
    <3>3. QED
      BY <2>3, <2>9, <3>1, <3>2
  <2>11. CASE ~ (\/ acc.nOldestPos = 0
                 \/ am.mapInfo[id].nLastSuccess < am.mapInfo[acc.nOldest].nLastSuccess)
    <3>1. f[m] = [acc EXCEPT !.v = swapped]
      BY <2>7, <2>11 DEF Inspect, swapped, id
    <3>2. Whole(acc, m - 1)
      BY <2>6 DEF acc
    <3>3. m # 1
      BY <1>2, <2>11 DEF acc
    <3>4. m - 1 # 0
      BY <2>5, <3>3
    <3>5. f[m] \in [v : {swapped}, nOldest : {acc.nOldest}, nOldestPos : {acc.nOldestPos}]
      BY <3>1, <3>2
    <3>6. QED
      BY <2>3, <2>9, <3>2, <3>4, <3>5
  <2>12. QED
    BY <2>10, <2>11
<1>4. Whole(f[N], N)
  BY <1>1, <1>3
<1>5. QED
  BY <1>1, <1>2, <1>4

\* An entry takes a place in its tried bucket k, where others (G) leave theirs.
Moved(am, r, id, k, G, q) ==
    /\ id \in Ids(am) /\ ~ am.mapInfo[id].fInTried /\ am.mapInfo[id].nLastSuccess # 0
    /\ k = TriedBucketOf[am.mapInfo[id].addr] /\ G \subseteq Belong(am, k)
    /\ q \in Seq(Ids(am)) /\ Once(q) /\ Members(q) = (Belong(am, k) \ G) \cup {id}
    /\ Len(q) <= ADDRMAN_TRIED_BUCKET_SIZE
    /\ r \in [mapInfo : {r.mapInfo}, mapAddr : {am.mapAddr}, vRandom : {am.vRandom},
              nIdCount : {am.nIdCount}, nNew : {r.nNew}, nTried : {r.nTried},
              vvNew : {r.vvNew}, vvTried : {[am.vvTried EXCEPT ![k] = q]}]
    /\ r.mapInfo \in [Ids(am) -> Info] /\ r.vvNew \in [NewBucket -> SUBSET Ids(am)]
    /\ \A b \in NewBucket : Cardinality(r.vvNew[b]) <= ADDRMAN_NEW_BUCKET_SIZE
    /\ \A x \in Ids(am) : /\ r.mapInfo[x].addr = am.mapInfo[x].addr
                          /\ r.mapInfo[x].nRandomPos = am.mapInfo[x].nRandomPos
                          /\ r.mapInfo[x].nLastSuccess = am.mapInfo[x].nLastSuccess
    /\ TriedIds(r) = (TriedIds(am) \ G) \cup {id}

\* The table stays whole.
LEMMA TriedMade ==
    ASSUME NEW am, Table(am), NEW r, NEW id, NEW k, NEW G, NEW q,
           Moved(am, r, id, k, G, q), Counts(r)
    PROVE  Table(r)
<1> USE DEF Moved
<1>1. /\ Typed(am) /\ Order(am) /\ Addresses(am) /\ Placed(am) /\ Sizes(am)
      /\ k \in TriedBucket /\ TriedIds(am) \subseteq Ids(am)
  BY InfoIs DEF Table, TriedIds
<1>2. r.mapAddr = am.mapAddr /\ r.vRandom = am.vRandom
      /\ r.vvTried = [am.vvTried EXCEPT ![k] = q]
  OBVIOUS
<1>3. Order(r) /\ Addresses(r) /\ Ids(r) = Ids(am)
  BY <1>1, <1>2, IndexesKept
<1>4. /\ am.vvTried \in [TriedBucket -> Seq(Ids(am))]
      /\ r.vvTried \in [TriedBucket -> Seq(Ids(am))]
      /\ \A j \in TriedBucket : r.vvTried[j] = IF j = k THEN q ELSE am.vvTried[j]
  <2>1. am.vvTried \in [TriedBucket -> Seq(Ids(am))]
    BY <1>1 DEF Typed
  <2>2. QED
    BY <1>1, <1>2, <2>1
<1>5. Typed(r)
  BY <1>1, <1>2, <1>3, <1>4 DEF Typed
<1>6. /\ \A j \in TriedBucket : /\ Once(am.vvTried[j])
                                /\ Members(am.vvTried[j]) = Belong(am, j)
      /\ \A x \in TriedIds(am) : am.mapInfo[x].nLastSuccess # 0
  BY <1>1, PlacedIs
<1>7. \A x \in Ids(am) : r.mapInfo[x].addr = am.mapInfo[x].addr
  OBVIOUS
<1>8. ASSUME NEW j \in TriedBucket
      PROVE  Once(r.vvTried[j]) /\ Members(r.vvTried[j]) = Belong(r, j)
  <2>1. CASE j = k
    <3>1. Belong(r, k) = (Belong(am, k) \ G) \cup {id}
      BY <1>1, <1>7 DEF Belong
    <3>2. QED
      BY <1>4, <2>1, <3>1
  <2>2. CASE j # k
    <3>1. Belong(r, j) = Belong(am, j)
      BY <1>1, <1>7, <2>2 DEF Belong
    <3>2. QED
      BY <1>4, <1>6, <2>2, <3>1
  <2>3. QED
    BY <2>1, <2>2
<1>9. \A x \in TriedIds(r) : r.mapInfo[x].nLastSuccess # 0
  BY <1>1, <1>6
<1>10. Placed(r)
  BY <1>5, <1>8, <1>9, PlacedIs
<1>11. Sizes(r)
  BY <1>1, <1>4 DEF Sizes
<1>12. QED
  BY <1>3, <1>5, <1>10, <1>11 DEF Table

\* An entry leaves the new buckets.
LEMMA LeaveNewIs ==
    ASSUME NEW am, Agrees(am), NEW id \in Ids(am), NEW left, left = LeaveNew(am, id)
    PROVE  /\ left \in [mapInfo : {left.mapInfo}, mapAddr : {am.mapAddr},
                        vRandom : {am.vRandom}, nIdCount : {am.nIdCount},
                        nNew : {am.nNew - 1}, nTried : {am.nTried},
                        vvNew : {left.vvNew}, vvTried : {am.vvTried}]
           /\ left.mapInfo \in [Ids(am) -> Info]
           /\ left.mapInfo[id].nRefCount = 0 /\ left.mapInfo[id].fInTried
           /\ \A x \in Ids(am) : /\ left.mapInfo[x].addr = am.mapInfo[x].addr
                                 /\ left.mapInfo[x].source = am.mapInfo[x].source
                                 /\ left.mapInfo[x].nRandomPos = am.mapInfo[x].nRandomPos
                                 /\ left.mapInfo[x].nLastSuccess = am.mapInfo[x].nLastSuccess
           /\ \A x \in Ids(am) : x # id => left.mapInfo[x] = am.mapInfo[x]
           /\ left.vvNew \in [NewBucket -> SUBSET Ids(am)]
           /\ \A b \in NewBucket : left.vvNew[b] = am.vvNew[b] \ {id}
<1> DEFINE refs == am.mapInfo[id].nRefCount - Cardinality({b \in NewBucket : id \in am.vvNew[b]})
           moved == [am.mapInfo EXCEPT ![id].nRefCount = refs]
           infos == [moved EXCEPT ![id].fInTried = TRUE]
           buckets == [b \in NewBucket |-> am.vvNew[b] \ {id}]
<1>1. /\ Typed(am) /\ am.mapInfo \in [Ids(am) -> Info]
      /\ am.vvNew \in [NewBucket -> SUBSET Ids(am)] /\ am.mapInfo[id].nRefCount \in Nat
  BY InfoIs DEF Agrees, Table, Typed
<1>2. refs = 0
  <2>1. am.mapInfo[id].nRefCount = Cardinality({b \in NewBucket : id \in am.vvNew[b]})
    BY DEF Agrees, Referenced, Holders
  <2>2. QED
    BY <1>1, <2>1
<1> HIDE DEF refs
<1>3. left \in [mapInfo : {infos}, mapAddr : {am.mapAddr},
                vRandom : {am.vRandom}, nIdCount : {am.nIdCount},
                nNew : {am.nNew - 1}, nTried : {am.nTried},
                vvNew : {buckets}, vvTried : {am.vvTried}]
  <2>1. left = [am EXCEPT !.mapInfo[id].nRefCount = refs, !.mapInfo[id].fInTried = TRUE,
                          !.vvNew = buckets, !.nNew = @ - 1]
    BY DEF LeaveNew, refs
  <2> HIDE DEF buckets
  <2>2. QED
    BY <1>1, <2>1 DEF Typed
<1>4. /\ moved \in [Ids(am) -> Info]
      /\ \A x \in Ids(am) : x # id => moved[x] = am.mapInfo[x]
      /\ moved[id] = [am.mapInfo[id] EXCEPT !.nRefCount = 0] /\ am.mapInfo[id] \in Info
  BY <1>1, <1>2 DEF Info
<1> HIDE DEF moved
<1>5. /\ infos \in [Ids(am) -> Info]
      /\ \A x \in Ids(am) : x # id => infos[x] = am.mapInfo[x]
      /\ infos[id] = [moved[id] EXCEPT !.fInTried = TRUE] /\ moved[id] \in Info
  BY <1>4 DEF Info
<1> HIDE DEF infos
<1>6. /\ infos[id].nRefCount = 0 /\ infos[id].fInTried
      /\ infos[id].addr = am.mapInfo[id].addr /\ infos[id].source = am.mapInfo[id].source
      /\ infos[id].nRandomPos = am.mapInfo[id].nRandomPos
      /\ infos[id].nLastSuccess = am.mapInfo[id].nLastSuccess
  BY <1>4, <1>5 DEF Info
<1>7. /\ buckets \in [NewBucket -> SUBSET Ids(am)]
      /\ \A b \in NewBucket : buckets[b] = am.vvNew[b] \ {id}
  BY <1>1
<1> HIDE DEF buckets
<1>8. left.mapInfo = infos /\ left.vvNew = buckets
  BY <1>3
<1>9. \A x \in Ids(am) : /\ infos[x].addr = am.mapInfo[x].addr
                         /\ infos[x].source = am.mapInfo[x].source
                         /\ infos[x].nRandomPos = am.mapInfo[x].nRandomPos
                         /\ infos[x].nLastSuccess = am.mapInfo[x].nLastSuccess
  BY <1>5, <1>6
<1>10. left \in [mapInfo : {left.mapInfo}, mapAddr : {am.mapAddr}, vRandom : {am.vRandom},
                 nIdCount : {am.nIdCount}, nNew : {am.nNew - 1}, nTried : {am.nTried},
                 vvNew : {left.vvNew}, vvTried : {am.vvTried}]
  BY <1>3, <1>8
<1>11. /\ left.mapInfo \in [Ids(am) -> Info]
       /\ left.mapInfo[id].nRefCount = 0 /\ left.mapInfo[id].fInTried
       /\ \A x \in Ids(am) : x # id => left.mapInfo[x] = am.mapInfo[x]
  BY <1>5, <1>6, <1>8
<1>12. QED
  BY ONLY <1>7, <1>8, <1>9, <1>10, <1>11

\* MakeTried moves an entry to its tried bucket, and perhaps another one out of it.
LEMMA MakeTriedIs ==
    ASSUME NEW am, Agrees(am), NEW id \in Ids(am), ~ am.mapInfo[id].fInTried,
           am.mapInfo[id].nLastSuccess # 0, NEW nOrigin \in Holders(am, id),
           NEW v, v = am.vvTried[TriedBucketOf[am.mapInfo[id].addr]],
           NEW picks \in Picks(Inspected(v), v)
    PROVE  /\ Agrees(MakeTried(am, id, nOrigin, picks))
           /\ Remembered(am, MakeTried(am, id, nOrigin, picks))
<1> DEFINE k == TriedBucketOf[am.mapInfo[id].addr]
           left == LeaveNew(am, id)
           sel == SelectTried(left, am.vvTried[k], picks)
           pos == sel.nOldestPos
           old == sel.v[pos]
           to == EvictedTo(left, old, nOrigin)
           r == MakeTried(am, id, nOrigin, picks)
<1>1. /\ Table(am) /\ Typed(am) /\ Placed(am) /\ Counts(am) /\ Sizes(am)
      /\ \A x \in Ids(am) : Referenced(am, x)
      /\ am.vvNew \in [NewBucket -> SUBSET Ids(am)]
      /\ am.vvTried \in [TriedBucket -> Seq(Ids(am))]
  BY DEF Agrees, Table, Typed
<1>2. k \in TriedBucket /\ v = am.vvTried[k] /\ v \in Seq(Ids(am)) /\ nOrigin \in NewBucket
  BY <1>1, InfoIs DEF Holders
<1> HIDE DEF k
<1>3. Once(v) /\ Members(v) = Belong(am, k) /\ id \notin Members(v) /\ TriedIds(am) \subseteq Ids(am)
  BY <1>1, <1>2, PlacedIs DEF Belong, TriedIds
<1> HIDE DEF left
<1>4. /\ left \in [mapInfo : {left.mapInfo}, mapAddr : {am.mapAddr}, vRandom : {am.vRandom},
                   nIdCount : {am.nIdCount}, nNew : {am.nNew - 1}, nTried : {am.nTried},
                   vvNew : {left.vvNew}, vvTried : {am.vvTried}]
      /\ left.mapInfo \in [Ids(am) -> Info]
      /\ left.mapInfo[id].nRefCount = 0 /\ left.mapInfo[id].fInTried
      /\ \A x \in Ids(am) : /\ left.mapInfo[x].addr = am.mapInfo[x].addr
                            /\ left.mapInfo[x].source = am.mapInfo[x].source
                            /\ left.mapInfo[x].nRandomPos = am.mapInfo[x].nRandomPos
                            /\ left.mapInfo[x].nLastSuccess = am.mapInfo[x].nLastSuccess
      /\ \A x \in Ids(am) : x # id => left.mapInfo[x] = am.mapInfo[x]
      /\ left.vvNew \in [NewBucket -> SUBSET Ids(am)]
      /\ \A b \in NewBucket : left.vvNew[b] = am.vvNew[b] \ {id}
  <2>1. left = LeaveNew(am, id)
    BY DEF left
  <2>2. QED
    BY <2>1, LeaveNewIs
<1>5. \A b \in NewBucket : /\ IsFiniteSet(left.vvNew[b]) /\ Cardinality(left.vvNew[b]) \in Nat
                           /\ Cardinality(left.vvNew[b]) <= ADDRMAN_NEW_BUCKET_SIZE
                           /\ id \in am.vvNew[b] =>
                                 Cardinality(left.vvNew[b]) < ADDRMAN_NEW_BUCKET_SIZE
  <2>1. TAKE b \in NewBucket
  <2>2. IsFiniteSet(am.vvNew[b]) /\ Cardinality(am.vvNew[b]) \in Nat
        /\ Cardinality(am.vvNew[b]) <= ADDRMAN_NEW_BUCKET_SIZE
    BY <1>1, Finite DEF Sizes
  <2>3. IsFiniteSet(am.vvNew[b] \ {id})
        /\ Cardinality(am.vvNew[b] \ {id}) = IF id \in am.vvNew[b]
                                            THEN Cardinality(am.vvNew[b]) - 1
                                            ELSE Cardinality(am.vvNew[b])
    BY <2>2, FS_RemoveElement
  <2>4. left.vvNew[b] = am.vvNew[b] \ {id}
    BY <1>4
  <2>5. Cardinality(left.vvNew[b]) \in Nat
    BY <1>1, <1>4, Finite
  <2>6. QED
    BY <2>2, <2>3, <2>4, <2>5, Bounds
<1>6. IsFiniteSet(TriedIds(am)) /\ Cardinality(TriedIds(am)) \in Nat
      /\ IsFiniteSet(Ids(am) \ TriedIds(am)) /\ Cardinality(Ids(am) \ TriedIds(am)) \in Nat
      /\ am.nTried = Cardinality(TriedIds(am)) /\ am.nNew = Cardinality(Ids(am) \ TriedIds(am))
      /\ id \in Ids(am) \ TriedIds(am)
  BY <1>1, <1>3, Finite DEF Counts, TriedIds
<1>7. ASSUME Len(v) < ADDRMAN_TRIED_BUCKET_SIZE
      PROVE  Agrees(r) /\ Remembered(am, r)
  <2> DEFINE q == Append(v, id)
  <2>1. r = [left EXCEPT !.vvTried[k] = Append(@, id), !.nTried = @ + 1]
    BY <1>2, <1>7 DEF MakeTried, left, k
  <2> HIDE DEF r
  <2>2. q \in Seq(Ids(am)) /\ Len(q) = Len(v) + 1 /\ Once(q) /\ Members(q) = Members(v) \cup {id}
    BY <1>2, <1>3, AppendOnce
  <2> HIDE DEF q
  <2>3. Len(q) <= ADDRMAN_TRIED_BUCKET_SIZE
    <3>1. Len(v) \in Nat
      BY <1>2
    <3>2. QED
      BY <1>7, <2>2, <3>1, Bounds, SMTT(20)
  <2>4. r \in [mapInfo : {left.mapInfo}, mapAddr : {am.mapAddr}, vRandom : {am.vRandom},
               nIdCount : {am.nIdCount}, nNew : {am.nNew - 1}, nTried : {am.nTried + 1},
               vvNew : {left.vvNew}, vvTried : {[am.vvTried EXCEPT ![k] = q]}]
    BY <1>2, <1>4, <2>1 DEF q
  <2>5. r.mapInfo = left.mapInfo /\ r.vvNew = left.vvNew /\ r.nNew = am.nNew - 1
        /\ r.nTried = am.nTried + 1
    BY <2>4
  <2>6. Ids(r) = Ids(am)
    BY <1>4, <2>5 DEF Ids
  <2>7. TriedIds(r) = (TriedIds(am) \ {}) \cup {id}
    BY <1>4, <2>5, <2>6 DEF TriedIds
  <2>8. Counts(r)
    <3>1. TriedIds(r) = TriedIds(am) \cup {id} /\ id \notin TriedIds(am)
          /\ Ids(r) \ TriedIds(r) = (Ids(am) \ TriedIds(am)) \ {id}
      BY <1>6, <2>6, <2>7
    <3>2. Cardinality(TriedIds(r)) = Cardinality(TriedIds(am)) + 1
      BY <1>6, <3>1, FS_AddElement, ZenonT(40)
    <3>3. Cardinality(Ids(r) \ TriedIds(r)) = Cardinality(Ids(am) \ TriedIds(am)) - 1
      BY <1>6, <3>1, FS_RemoveElement, ZenonT(40)
    <3>4. QED
      BY <1>6, <2>5, <3>2, <3>3 DEF Counts
  <2>9. Table(r)
    <3> DEFINE G == {}
    <3>1. /\ Members(q) = (Belong(am, k) \ G) \cup {id} /\ G \subseteq Belong(am, k)
          /\ TriedIds(r) = (TriedIds(am) \ G) \cup {id}
      BY <1>3, <2>2, <2>7
    <3> HIDE DEF G
    <3>2. k = TriedBucketOf[am.mapInfo[id].addr]
      BY DEF k
    <3>3. r \in [mapInfo : {r.mapInfo}, mapAddr : {am.mapAddr}, vRandom : {am.vRandom},
                 nIdCount : {am.nIdCount}, nNew : {r.nNew}, nTried : {r.nTried},
                 vvNew : {r.vvNew}, vvTried : {[am.vvTried EXCEPT ![k] = q]}]
      BY <2>4, <2>5
    <3>4. /\ r.mapInfo \in [Ids(am) -> Info] /\ r.vvNew \in [NewBucket -> SUBSET Ids(am)]
          /\ \A b \in NewBucket : Cardinality(r.vvNew[b]) <= ADDRMAN_NEW_BUCKET_SIZE
          /\ \A x \in Ids(am) : /\ r.mapInfo[x].addr = am.mapInfo[x].addr
                                /\ r.mapInfo[x].nRandomPos = am.mapInfo[x].nRandomPos
                                /\ r.mapInfo[x].nLastSuccess = am.mapInfo[x].nLastSuccess
      BY <1>4, <1>5, <2>5
    <3>5. QED
      <4>1. id \in Ids(am) /\ ~ am.mapInfo[id].fInTried /\ am.mapInfo[id].nLastSuccess # 0
        OBVIOUS
      <4>2. Moved(am, r, id, k, G, q)
        BY ONLY <2>2, <2>3, <3>1, <3>2, <3>3, <3>4, <4>1 DEF Moved
      <4>3. QED
        BY <1>1, <2>8, <4>2, TriedMade
  <2>10. ASSUME NEW x \in Ids(r) PROVE Referenced(r, x)
    <3>1. CASE x = id
      <4>1. Holders(r, x) = {}
        BY <1>4, <2>5, <3>1 DEF Holders
      <4>2. QED
        BY <1>4, <2>5, <3>1, <4>1, FS_EmptySet, Bounds DEF Referenced
    <3>2. CASE x # id
      <4>1. Holders(r, x) = Holders(am, x)
        BY <1>4, <2>5, <3>2 DEF Holders
      <4>2. r.mapInfo[x] = am.mapInfo[x] /\ Referenced(am, x)
        BY <1>1, <1>4, <2>5, <2>6, <3>2
      <4>3. QED
        BY <4>1, <4>2 DEF Referenced
    <3>3. QED
      BY <3>1, <3>2
  <2>11. Remembered(am, r)
    BY ONLY <1>3, <1>4, <2>5, <2>6 DEF Remembered
  <2>12. QED
    BY <2>9, <2>10, <2>11 DEF Agrees
<1>8. ASSUME ~ Len(v) < ADDRMAN_TRIED_BUCKET_SIZE
      PROVE  Agrees(r) /\ Remembered(am, r)
  <2>1. r = [Evict(left, old, to) EXCEPT !.vvTried[k] = [sel.v EXCEPT ![pos] = id]]
    BY <1>2, <1>8 DEF MakeTried, left, k
  <2> HIDE DEF r
  <2>2. /\ sel.v \in Seq(Ids(am)) /\ Len(sel.v) = Len(v) /\ Once(sel.v)
        /\ Members(sel.v) = Members(v) /\ pos \in DOMAIN sel.v
    <3>1. v # <<>>
      BY <1>8, Bounds
    <3>2. sel = SelectTried(left, v, picks)
      BY <1>2
    <3> HIDE DEF sel
    <3>3. /\ sel.v \in Seq(Ids(am)) /\ Len(sel.v) = Len(v) /\ Once(sel.v)
          /\ Members(sel.v) = Members(v) /\ sel.nOldestPos \in DOMAIN v
      BY <1>2, <1>3, <3>1, <3>2, Selected
    <3>4. DOMAIN sel.v = DOMAIN v
      BY <1>2, <3>3
    <3>5. QED
      BY <3>3, <3>4
  <2> HIDE DEF sel
  <2> DEFINE q == [sel.v EXCEPT ![pos] = id]
  <2>3. q \in Seq(Ids(am)) /\ Len(q) = Len(v) /\ Once(q)
        /\ Members(q) = (Members(v) \ {old}) \cup {id}
    BY ONLY <1>3, <2>2, ReplaceOnce
  <2> HIDE DEF q, pos
  <2>4. Len(q) <= ADDRMAN_TRIED_BUCKET_SIZE
    BY <1>1, <1>2, <2>3 DEF Sizes
  <2>5. old \in Belong(am, k) /\ old \in TriedIds(am) /\ old \in Ids(am) /\ old # id
    BY <1>3, <2>2 DEF Members, Belong
  <2> HIDE DEF old
  <2>6. to \in NewBucket /\ Cardinality(left.vvNew[to]) < ADDRMAN_NEW_BUCKET_SIZE
    <3>1. NewBucketOf[left.mapInfo[old].addr][left.mapInfo[old].source] \in NewBucket
      BY ONLY <1>1, <1>4, <2>5, InfoIs
    <3>2. Cardinality(left.vvNew[nOrigin]) < ADDRMAN_NEW_BUCKET_SIZE
      BY <1>2, <1>5 DEF Holders
    <3>3. QED
      BY <1>2, <3>1, <3>2 DEF EvictedTo
  <2> HIDE DEF to
  <2> DEFINE moved == [left.mapInfo EXCEPT ![old].fInTried = FALSE]
             infos == [moved EXCEPT ![old].nRefCount = 1]
             more == left.vvNew[to] \cup {old}
             buckets == [left.vvNew EXCEPT ![to] = more]
             ev == Evict(left, old, to)
  <2>7. ev \in [mapInfo : {infos}, mapAddr : {am.mapAddr}, vRandom : {am.vRandom},
                nIdCount : {am.nIdCount}, nNew : {am.nNew - 1 + 1}, nTried : {am.nTried},
                vvNew : {buckets}, vvTried : {am.vvTried}]
    BY <1>4 DEF Evict
  <2> HIDE DEF ev
  <2>8. r \in [mapInfo : {infos}, mapAddr : {am.mapAddr}, vRandom : {am.vRandom},
               nIdCount : {am.nIdCount}, nNew : {am.nNew}, nTried : {am.nTried},
               vvNew : {buckets}, vvTried : {[am.vvTried EXCEPT ![k] = q]}]
    <3> HIDE DEF infos, buckets
    <3>1. r = [ev EXCEPT !.vvTried[k] = q]
      BY <2>1 DEF ev, q
    <3>2. am.nNew - 1 + 1 = am.nNew
      BY <1>6
    <3>3. QED
      BY <1>2, <2>7, <3>1, <3>2
  <2>9. /\ infos \in [Ids(am) -> Info] /\ infos[old].nRefCount = 1 /\ ~ infos[old].fInTried
        /\ infos[old].addr = left.mapInfo[old].addr
        /\ infos[old].nRandomPos = left.mapInfo[old].nRandomPos
        /\ infos[old].nLastSuccess = left.mapInfo[old].nLastSuccess
        /\ \A x \in Ids(am) : x # old => infos[x] = left.mapInfo[x]
    <3>1. left.mapInfo[old] \in Info
      BY <1>4, <2>5
    <3>2. /\ moved \in [Ids(am) -> Info]
          /\ \A x \in Ids(am) : x # old => moved[x] = left.mapInfo[x]
          /\ moved[old] = [left.mapInfo[old] EXCEPT !.fInTried = FALSE]
      BY <1>4, <2>5, <3>1 DEF Info
    <3> HIDE DEF moved
    <3>3. /\ infos \in [Ids(am) -> Info]
          /\ \A x \in Ids(am) : x # old => infos[x] = moved[x]
          /\ infos[old] = [moved[old] EXCEPT !.nRefCount = 1]
      BY <2>5, <3>2 DEF Info
    <3> HIDE DEF infos
    <3>4. /\ infos[old].nRefCount = 1 /\ ~ infos[old].fInTried
          /\ infos[old].addr = left.mapInfo[old].addr
          /\ infos[old].nRandomPos = left.mapInfo[old].nRandomPos
          /\ infos[old].nLastSuccess = left.mapInfo[old].nLastSuccess
      BY <3>1, <3>2, <3>3 DEF Info
    <3>5. QED
      BY <3>2, <3>3, <3>4
  <2>10. Cardinality(more) <= ADDRMAN_NEW_BUCKET_SIZE /\ more \subseteq Ids(am)
    <3>1. /\ IsFiniteSet(left.vvNew[to]) /\ Cardinality(left.vvNew[to]) \in Nat
      BY <1>5, <2>6
    <3>2. Cardinality(left.vvNew[to] \cup {old}) = IF old \in left.vvNew[to]
                                                  THEN Cardinality(left.vvNew[to])
                                                  ELSE Cardinality(left.vvNew[to]) + 1
      BY <3>1, FS_AddElement
    <3>3. more \subseteq Ids(am)
      BY <1>4, <2>5, <2>6
    <3> DEFINE c == Cardinality(left.vvNew[to])
    <3>4. Cardinality(more) = c \/ Cardinality(more) = c + 1
      BY <3>2
    <3> HIDE DEF more
    <3>5. c \in Nat /\ c < ADDRMAN_NEW_BUCKET_SIZE
      BY <2>6, <3>1
    <3> HIDE DEF c
    <3>6. QED
      BY <3>3, <3>4, <3>5, Bounds
  <2> HIDE DEF infos, more
  <2>11. /\ buckets \in [NewBucket -> SUBSET Ids(am)]
         /\ \A b \in NewBucket : buckets[b] = IF b = to THEN more ELSE left.vvNew[b]
    BY <1>4, <2>6, <2>10
  <2> HIDE DEF buckets
  <2>12. r.mapInfo = infos /\ r.vvNew = buckets /\ r.nNew = am.nNew /\ r.nTried = am.nTried
    BY <2>8
  <2>13. Ids(r) = Ids(am)
    BY <2>9, <2>12 DEF Ids
  <2>14. TriedIds(r) = (TriedIds(am) \ {old}) \cup {id}
    <3>1. \A x \in Ids(am) : r.mapInfo[x].fInTried <=> x \in (TriedIds(am) \ {old}) \cup {id}
      <4>1. TAKE x \in Ids(am)
      <4>2. CASE x = old
        BY <2>5, <2>9, <2>12, <4>2
      <4>3. CASE x = id
        BY <1>4, <2>5, <2>9, <2>12, <4>3
      <4>4. CASE x # old /\ x # id
        <5>1. r.mapInfo[x] = am.mapInfo[x]
          BY <1>4, <2>9, <2>12, <4>4
        <5>2. QED
          BY <4>4, <5>1 DEF TriedIds
      <4>5. QED
        BY <4>2, <4>3, <4>4
    <3>2. QED
      BY <1>3, <2>13, <3>1 DEF TriedIds
  <2>15. Counts(r)
    <3>1. Cardinality(TriedIds(am) \ {old}) = Cardinality(TriedIds(am)) - 1
          /\ IsFiniteSet(TriedIds(am) \ {old})
      BY <1>6, <2>5, FS_RemoveElement
    <3>2. id \notin TriedIds(am) \ {old}
      BY <1>6
    <3>3. Cardinality(TriedIds(r)) = Cardinality(TriedIds(am) \ {old}) + 1
      BY <2>14, <3>1, <3>2, FS_AddElement
    <3> DEFINE rest == (Ids(am) \ TriedIds(am)) \ {id}
    <3>4. Cardinality(rest) = Cardinality(Ids(am) \ TriedIds(am)) - 1 /\ IsFiniteSet(rest)
      BY <1>6, FS_RemoveElement
    <3>5. Ids(r) \ TriedIds(r) = rest \cup {old} /\ old \notin rest
      BY <1>3, <2>5, <2>13, <2>14
    <3> HIDE DEF rest
    <3>6. Cardinality(Ids(r) \ TriedIds(r)) = Cardinality(rest) + 1
      BY <3>4, <3>5, FS_AddElement
    <3>7. QED
      BY <1>6, <2>12, <3>1, <3>3, <3>4, <3>6 DEF Counts
  <2>16. Table(r)
    <3> DEFINE G == {old}
    <3>1. /\ Members(q) = (Belong(am, k) \ G) \cup {id} /\ G \subseteq Belong(am, k)
          /\ TriedIds(r) = (TriedIds(am) \ G) \cup {id}
      BY <1>3, <2>3, <2>5, <2>14
    <3> HIDE DEF G
    <3>2. k = TriedBucketOf[am.mapInfo[id].addr]
      BY DEF k
    <3>3. r \in [mapInfo : {r.mapInfo}, mapAddr : {am.mapAddr}, vRandom : {am.vRandom},
                 nIdCount : {am.nIdCount}, nNew : {r.nNew}, nTried : {r.nTried},
                 vvNew : {r.vvNew}, vvTried : {[am.vvTried EXCEPT ![k] = q]}]
      BY <2>8, <2>12
    <3>4. \A b \in NewBucket : Cardinality(r.vvNew[b]) <= ADDRMAN_NEW_BUCKET_SIZE
      BY <1>5, <2>10, <2>11, <2>12
    <3>5. \A x \in Ids(am) : /\ r.mapInfo[x].addr = am.mapInfo[x].addr
                             /\ r.mapInfo[x].nRandomPos = am.mapInfo[x].nRandomPos
                             /\ r.mapInfo[x].nLastSuccess = am.mapInfo[x].nLastSuccess
      BY <1>4, <2>9, <2>12
    <3>6. r.mapInfo \in [Ids(am) -> Info] /\ r.vvNew \in [NewBucket -> SUBSET Ids(am)]
      BY <2>9, <2>11, <2>12
    <3>7. QED
      <4>1. id \in Ids(am) /\ ~ am.mapInfo[id].fInTried /\ am.mapInfo[id].nLastSuccess # 0
        OBVIOUS
      <4>2. Moved(am, r, id, k, G, q)
        BY ONLY <2>3, <2>4, <3>1, <3>2, <3>3, <3>4, <3>5, <3>6, <4>1 DEF Moved
      <4>3. QED
        BY <1>1, <2>15, <4>2, TriedMade
  <2>17. ASSUME NEW x \in Ids(r) PROVE Referenced(r, x)
    <3>1. CASE x = id
      <4>1. Holders(r, x) = {}
        BY <1>4, <2>5, <2>11, <2>12, <3>1 DEF Holders, more
      <4>2. QED
        BY <1>4, <2>5, <2>9, <2>12, <3>1, <4>1, FS_EmptySet, Bounds DEF Referenced
    <3>2. CASE x = old
      <4>1. Holders(am, old) = {}
        BY <1>1, <2>5 DEF Referenced, TriedIds
      <4>2. Holders(r, x) = {to}
        BY <1>4, <2>6, <2>11, <2>12, <3>2, <4>1 DEF Holders, more
      <4>3. Cardinality(Holders(r, x)) = 1 /\ Holders(r, x) # {}
        BY <4>2, FS_Singleton
      <4>4. r.mapInfo[x].nRefCount = 1 /\ ~ r.mapInfo[x].fInTried
        BY <2>9, <2>12, <3>2
      <4>5. 1 <= ADDRMAN_NEW_BUCKETS_PER_ADDRESS
        BY Bounds
      <4>6. QED
        BY <4>3, <4>4, <4>5 DEF Referenced
    <3>3. CASE x # id /\ x # old
      <4>1. Holders(r, x) = Holders(am, x)
        BY <1>4, <2>11, <2>12, <3>3 DEF Holders, more
      <4>2. r.mapInfo[x] = am.mapInfo[x] /\ Referenced(am, x)
        BY <1>1, <1>4, <2>9, <2>12, <2>13, <3>3
      <4>3. QED
        BY <4>1, <4>2 DEF Referenced
    <3>4. QED
      BY <3>1, <3>2, <3>3
  <2>18. Remembered(am, r)
    <3>1. \A x \in Ids(am) : r.mapInfo[x].addr = am.mapInfo[x].addr
      BY <1>4, <2>9, <2>12
    <3>2. QED
      BY <1>3, <2>13, <3>1 DEF Remembered
  <2>19. QED
    BY <2>16, <2>17, <2>18 DEF Agrees
<1>9. QED
  BY <1>7, <1>8

\* Good_ keeps the table whole.
LEMMA GoodKeeps ==
    ASSUME Agrees(addrman), NEW s \in Service, NEW nTime \in 1 .. MaxTime, Good(s, nTime)
    PROVE  Agrees(addrman') /\ Remembered(addrman, addrman') /\ peers' = peers
<1>1. PICK id \in Found(addrman, s) :
         LET am == [addrman EXCEPT !.mapInfo[id].nLastSuccess = nTime]
             v == am.vvTried[TriedBucketOf[s]]
         IN  /\ \/ /\ am.mapInfo[id].fInTried
                   /\ addrman' = am
                \/ /\ ~am.mapInfo[id].fInTried
                   /\ \E nUBucket \in {b \in NewBucket : id \in am.vvNew[b]} :
                      \E picks \in Picks(Inspected(v), v) :
                         addrman' = MakeTried(am, id, nUBucket, picks)
             /\ UNCHANGED peers
  BY DEF Good
<1> DEFINE infos == [addrman.mapInfo EXCEPT ![id].nLastSuccess = nTime]
           am == [addrman EXCEPT !.mapInfo[id].nLastSuccess = nTime]
           v == am.vvTried[TriedBucketOf[s]]
<1>2. /\ \/ /\ am.mapInfo[id].fInTried
            /\ addrman' = am
         \/ /\ ~am.mapInfo[id].fInTried
            /\ \E nUBucket \in {b \in NewBucket : id \in am.vvNew[b]} :
               \E picks \in Picks(Inspected(v), v) :
                  addrman' = MakeTried(am, id, nUBucket, picks)
      /\ peers' = peers
  BY <1>1
<1>3. id \in Ids(addrman) /\ addrman.mapInfo[id].addr = s
  BY DEF Found
<1>4. /\ Table(addrman) /\ Typed(addrman) /\ addrman.mapInfo \in [Ids(addrman) -> Info]
      /\ addrman.vvNew \in [NewBucket -> SUBSET Ids(addrman)]
      /\ \A b \in NewBucket : Cardinality(addrman.vvNew[b]) <= ADDRMAN_NEW_BUCKET_SIZE
  BY DEF Agrees, Table, Typed, Sizes
<1>5. am \in [mapInfo : {infos}, mapAddr : {addrman.mapAddr}, vRandom : {addrman.vRandom},
              nIdCount : {addrman.nIdCount}, nNew : {addrman.nNew}, nTried : {addrman.nTried},
              vvNew : {addrman.vvNew}, vvTried : {addrman.vvTried}]
  BY <1>4 DEF Typed
<1> HIDE DEF am
<1>6. /\ infos \in [Ids(addrman) -> Info] /\ infos[id].nLastSuccess = nTime
      /\ \A x \in Ids(addrman) : /\ infos[x].addr = addrman.mapInfo[x].addr
                                 /\ infos[x].nRandomPos = addrman.mapInfo[x].nRandomPos
                                 /\ infos[x].nRefCount = addrman.mapInfo[x].nRefCount
                                 /\ infos[x].fInTried = addrman.mapInfo[x].fInTried
                                 /\ x # id => infos[x] = addrman.mapInfo[x]
  <2>1. addrman.mapInfo[id] \in Info /\ nTime \in 0 .. MaxTime
    BY <1>3, <1>4, Bounds
  <2>2. /\ infos \in [Ids(addrman) -> Info]
        /\ \A x \in Ids(addrman) : x # id => infos[x] = addrman.mapInfo[x]
        /\ infos[id] = [addrman.mapInfo[id] EXCEPT !.nLastSuccess = nTime]
    BY <1>3, <1>4, <2>1 DEF Info
  <2> HIDE DEF infos
  <2>3. /\ infos[id].addr = addrman.mapInfo[id].addr
        /\ infos[id].nRandomPos = addrman.mapInfo[id].nRandomPos
        /\ infos[id].nRefCount = addrman.mapInfo[id].nRefCount
        /\ infos[id].fInTried = addrman.mapInfo[id].fInTried
        /\ infos[id].nLastSuccess = nTime
    BY <2>1, <2>2 DEF Info
  <2>4. QED
    BY <2>2, <2>3
<1> HIDE DEF infos
<1>7. am.mapInfo = infos /\ am.vvNew = addrman.vvNew
  BY <1>5
<1>8. Table(am) /\ Ids(am) = Ids(addrman)
  <2>1. nTime # 0
    OBVIOUS
  <2>2. \A x \in Ids(addrman) : /\ am.mapInfo[x].addr = addrman.mapInfo[x].addr
                                /\ am.mapInfo[x].nRandomPos = addrman.mapInfo[x].nRandomPos
                                /\ am.mapInfo[x].fInTried = addrman.mapInfo[x].fInTried
                                /\ addrman.mapInfo[x].nLastSuccess # 0
                                       => am.mapInfo[x].nLastSuccess # 0
    BY <1>6, <1>7, <2>1
  <2>3. am \in [mapInfo : {am.mapInfo}, mapAddr : {addrman.mapAddr},
                vRandom : {addrman.vRandom}, nIdCount : {addrman.nIdCount},
                nNew : {addrman.nNew}, nTried : {addrman.nTried},
                vvNew : {am.vvNew}, vvTried : {addrman.vvTried}]
    BY <1>5, <1>7
  <2>4. QED
    BY <1>4, <1>6, <1>7, <2>2, <2>3, RefsKept
<1>9. Agrees(am)
  <2>1. \A x : Holders(am, x) = Holders(addrman, x)
    BY <1>7 DEF Holders
  <2>2. \A x \in Ids(am) : Referenced(am, x)
    BY <1>6, <1>7, <1>8, <2>1 DEF Agrees, Referenced
  <2>3. QED
    BY <1>8, <2>2 DEF Agrees
<1>10. TriedIds(am) = TriedIds(addrman) /\ Remembered(addrman, am)
  BY <1>6, <1>7, <1>8 DEF TriedIds, Remembered
<1>11. CASE am.mapInfo[id].fInTried
  <2>1. addrman' = am
    BY <1>2, <1>11
  <2>2. QED
    BY <1>2, <1>9, <1>10, <2>1
<1>12. CASE ~ am.mapInfo[id].fInTried
  <2>1. PICK nUBucket \in {b \in NewBucket : id \in am.vvNew[b]} :
           \E picks \in Picks(Inspected(v), v) : addrman' = MakeTried(am, id, nUBucket, picks)
    BY <1>2, <1>12
  <2>2. PICK picks \in Picks(Inspected(v), v) : addrman' = MakeTried(am, id, nUBucket, picks)
    BY <2>1
  <2>3. nUBucket \in Holders(am, id)
    BY DEF Holders
  <2>4. /\ id \in Ids(am) /\ am.mapInfo[id].nLastSuccess # 0 /\ am.mapInfo[id].addr = s
    BY <1>3, <1>6, <1>7, <1>8
  <2>5. v = am.vvTried[TriedBucketOf[am.mapInfo[id].addr]]
    BY <2>4
  <2> HIDE DEF v
  <2>6. Agrees(addrman') /\ Remembered(am, addrman')
    BY <1>9, <1>12, <2>2, <2>3, <2>4, <2>5, MakeTriedIs
  <2>7. Remembered(addrman, addrman')
    BY <1>10, <2>6 DEF Remembered
  <2>8. QED
    BY <1>2, <2>6, <2>7
<1>13. QED
  BY <1>11, <1>12
-----------------------------------------------------------------------------
(* peers.dat                                                                *)

Entry == [addr : Service, source : Source, nLastSuccess : 0 .. MaxTime]

\* A file that a whole table was written to.
FileOK(file) ==
    /\ file.new \in Seq(Entry) /\ file.tried \in Seq(Entry)
    /\ Len(file.new) + Len(file.tried) <= MaxId + 1
    /\ \A i, j \in DOMAIN file.new :
          IpOf[file.new[i].addr] = IpOf[file.new[j].addr] => i = j
    /\ \A i, j \in DOMAIN file.tried :
          IpOf[file.tried[i].addr] = IpOf[file.tried[j].addr] => i = j
    /\ \A i \in DOMAIN file.new, j \in DOMAIN file.tried :
          IpOf[file.new[i].addr] # IpOf[file.tried[j].addr]
    /\ \A j \in DOMAIN file.tried : file.tried[j].nLastSuccess # 0
    /\ file.buckets \in [NewBucket -> SUBSET (0 .. Len(file.new) - 1)]
    /\ \A id \in 0 .. Len(file.new) - 1 :
          /\ {b \in NewBucket : id \in file.buckets[b]} # {}
          /\ Cardinality({b \in NewBucket : id \in file.buckets[b]})
                <= ADDRMAN_NEW_BUCKETS_PER_ADDRESS
    /\ \A b \in NewBucket : Cardinality(file.buckets[b]) <= ADDRMAN_NEW_BUCKET_SIZE

\* A tried entry is read back, or lost.
LEMMA LoadTriedIs ==
    ASSUME NEW am, Agrees(am), am.nIdCount <= MaxId, NEW info \in Entry,
           info.nLastSuccess # 0, IpOf[info.addr] \notin DOMAIN am.mapAddr
    PROVE  /\ Agrees(LoadTried(am, info))
           /\ LoadTried(am, info).nIdCount <= am.nIdCount + 1
           /\ DOMAIN LoadTried(am, info).mapAddr \subseteq
                 DOMAIN am.mapAddr \cup {IpOf[info.addr]}
<1> DEFINE k == TriedBucketOf[info.addr]
           n == am.nIdCount
           r == LoadTried(am, info)
           made == [addr |-> info.addr, source |-> info.source,
                    nLastSuccess |-> info.nLastSuccess, nRefCount |-> 0,
                    fInTried |-> TRUE, nRandomPos |-> Len(am.vRandom) + 1]
           q == Append(am.vvTried[k], n)
<1>1. /\ Typed(am) /\ Order(am) /\ Addresses(am) /\ Placed(am) /\ Counts(am) /\ Sizes(am)
      /\ \A x \in Ids(am) : Referenced(am, x)
  BY DEF Agrees, Table
<1>2. /\ n \in Nat /\ Ids(am) \subseteq 0 .. n - 1 /\ n \notin Ids(am) /\ n <= MaxId
      /\ am.vvTried \in [TriedBucket -> Seq(Ids(am))]
      /\ am.vvNew \in [NewBucket -> SUBSET Ids(am)]
      /\ Len(am.vRandom) \in Nat
  <2>1. n \in 0 .. MaxId + 1 /\ Ids(am) \subseteq 0 .. n - 1
    BY <1>1 DEF Typed
  <2>2. n \in Nat /\ n \notin Ids(am)
    BY <2>1, Bounds
  <2>3. QED
    BY <1>1, <2>1, <2>2 DEF Typed
<1>3. info.addr \in Service /\ k \in TriedBucket
  BY AddrManAssumption DEF Entry
<1>4. CASE Len(am.vvTried[k]) >= ADDRMAN_TRIED_BUCKET_SIZE
  <2>1. r = am
    BY <1>4 DEF LoadTried
  <2>2. n <= n + 1
    BY <1>2
  <2>3. QED
    BY <2>1, <2>2
<1>5. CASE ~ Len(am.vvTried[k]) >= ADDRMAN_TRIED_BUCKET_SIZE
  <2>1. /\ made \in Info /\ made.addr = info.addr /\ made.nRandomPos = Len(am.vRandom) + 1
        /\ made.nLastSuccess # 0 /\ made.nRefCount = 0 /\ made.fInTried
    BY <1>2 DEF Entry, Info
  <2> HIDE DEF made, k
  <2>2. r \in [mapInfo : {With(am.mapInfo, n, made)},
               mapAddr : {With(am.mapAddr, IpOf[info.addr], n)},
               vRandom : {Append(am.vRandom, n)}, nIdCount : {n + 1}, nNew : {am.nNew},
               nTried : {am.nTried + 1}, vvNew : {am.vvNew},
               vvTried : {[am.vvTried EXCEPT ![k] = q]}]
    <3>1. r = [am EXCEPT !.mapInfo = With(@, n, made),
                         !.mapAddr = With(@, IpOf[info.addr], n),
                         !.vRandom = Append(@, n), !.vvTried[k] = Append(@, n),
                         !.nIdCount = @ + 1, !.nTried = @ + 1]
      BY <1>5 DEF LoadTried, made, k
    <3>2. QED
      BY <1>1, <1>3, <3>1 DEF Typed
  <2> HIDE DEF r, q
  <2>3. /\ Order(r) /\ Addresses(r) /\ Ids(r) = Ids(am) \cup {n}
        /\ r.mapInfo \in [Ids(r) -> Info] /\ r.mapInfo[n] = made
        /\ \A x \in Ids(am) : r.mapInfo[x] = am.mapInfo[x]
        /\ r.mapAddr \in [DOMAIN r.mapAddr -> Ids(r)]
        /\ DOMAIN r.mapAddr = DOMAIN am.mapAddr \cup {IpOf[info.addr]}
        /\ r.vRandom \in Seq(Ids(r))
    <3>1. /\ r.mapInfo = With(am.mapInfo, am.nIdCount, made)
          /\ r.mapAddr = With(am.mapAddr, IpOf[made.addr], am.nIdCount)
          /\ r.vRandom = Append(am.vRandom, am.nIdCount)
          /\ IpOf[made.addr] \notin DOMAIN am.mapAddr
      BY <2>1, <2>2
    <3>2. made \in Info /\ made.nRandomPos = Len(am.vRandom) + 1
      BY <2>1
    <3>3. /\ Order(r) /\ Addresses(r)
          /\ am.nIdCount \notin Ids(am) /\ Ids(r) = Ids(am) \cup {am.nIdCount}
          /\ r.mapInfo \in [Ids(r) -> Info] /\ r.mapInfo[am.nIdCount] = made
          /\ \A x \in Ids(am) : r.mapInfo[x] = am.mapInfo[x]
          /\ r.mapAddr \in [DOMAIN r.mapAddr -> Ids(r)]
          /\ DOMAIN r.mapAddr = DOMAIN am.mapAddr \cup {IpOf[made.addr]}
          /\ r.mapAddr[IpOf[made.addr]] = am.nIdCount
          /\ r.vRandom \in Seq(Ids(r))
      BY ONLY <1>1, <3>1, <3>2, EntryMade
    <3>4. QED
      BY <2>1, <3>3
  <2>4. /\ r.vvNew = am.vvNew /\ r.vvTried = [am.vvTried EXCEPT ![k] = q]
        /\ r.nIdCount = n + 1 /\ r.nTried = am.nTried + 1 /\ r.nNew = am.nNew
    BY <2>2
  <2> HIDE DEF n
  <2>5. /\ \A j \in TriedBucket : /\ Once(am.vvTried[j])
                                  /\ Members(am.vvTried[j]) = Belong(am, j)
        /\ \A x \in TriedIds(am) : am.mapInfo[x].nLastSuccess # 0
    BY <1>1, PlacedIs
  <2>6. /\ q \in Seq(Ids(r)) /\ Len(q) = Len(am.vvTried[k]) + 1 /\ Once(q)
        /\ Members(q) = Belong(am, k) \cup {n} /\ Len(am.vvTried[k]) \in Nat
    <3>1. Once(am.vvTried[k]) /\ Members(am.vvTried[k]) = Belong(am, k)
      BY <1>3, <2>5
    <3>2. n \notin Members(am.vvTried[k])
      BY <1>2, <3>1 DEF Belong, TriedIds
    <3>3. n \in Ids(r) /\ Ids(am) \subseteq Ids(r)
      BY <2>3
    <3>4. am.vvTried[k] \in Seq(Ids(r)) /\ Len(am.vvTried[k]) \in Nat
      BY <1>2, <1>3, <3>3
    <3>5. QED
      BY <3>1, <3>2, <3>3, <3>4, AppendOnce DEF q
  <2>7. /\ r.vvTried \in [TriedBucket -> Seq(Ids(r))]
        /\ \A j \in TriedBucket : r.vvTried[j] = IF j = k THEN q ELSE am.vvTried[j]
        /\ r.vvNew \in [NewBucket -> SUBSET Ids(r)]
    <3>1. \A j \in TriedBucket : am.vvTried[j] \in Seq(Ids(r))
      <4>1. Ids(am) \subseteq Ids(r)
        BY <2>3
      <4>2. QED
        BY <1>2, <4>1
    <3>2. am.vvTried \in [TriedBucket -> Seq(Ids(r))]
      BY <1>2, <3>1
    <3>3. r.vvNew \in [NewBucket -> SUBSET Ids(r)]
      BY <1>2, <2>3, <2>4
    <3>4. QED
      BY <1>3, <2>4, <2>6, <3>2, <3>3
  <2>8. Typed(r)
    <3>1. n + 1 \in 0 .. MaxId + 1 /\ Ids(r) \subseteq 0 .. (n + 1) - 1
      BY <1>2, <2>3, Bounds
    <3>2. QED
      BY <2>2, <2>3, <2>4, <2>7, <3>1 DEF Typed
  <2>9. /\ TriedIds(r) = TriedIds(am) \cup {n} /\ n \notin TriedIds(am)
        /\ TriedIds(am) \subseteq Ids(am)
    BY <1>2, <2>1, <2>3 DEF TriedIds
  <2>10. Placed(r)
    <3>1. ASSUME NEW j \in TriedBucket
          PROVE  Once(r.vvTried[j]) /\ Members(r.vvTried[j]) = Belong(r, j)
      <4>1. r.mapInfo[n].addr = info.addr /\ TriedBucketOf[info.addr] = k
        BY <2>1, <2>3 DEF k
      <4>2. \A x \in TriedIds(am) : r.mapInfo[x] = am.mapInfo[x]
        BY <2>3, <2>9
      <4>3. Belong(r, j) = IF j = k THEN Belong(am, j) \cup {n} ELSE Belong(am, j)
        BY <2>9, <4>1, <4>2 DEF Belong
      <4>4. QED
        BY <2>5, <2>6, <2>7, <4>3
    <3>2. \A x \in TriedIds(r) : r.mapInfo[x].nLastSuccess # 0
      BY <2>1, <2>3, <2>5, <2>9
    <3>3. QED
      BY <2>8, <3>1, <3>2, PlacedIs
  <2>11. Counts(r)
    <3>1. IsFiniteSet(TriedIds(am)) /\ Cardinality(TriedIds(r)) = Cardinality(TriedIds(am)) + 1
      BY <1>1, <2>9, Finite, FS_AddElement
    <3>2. Ids(r) \ TriedIds(r) = Ids(am) \ TriedIds(am)
      BY <1>2, <2>3, <2>9
    <3>3. QED
      BY <1>1, <2>4, <3>1, <3>2 DEF Counts
  <2>12. Sizes(r)
    <3>1. Len(q) <= ADDRMAN_TRIED_BUCKET_SIZE
      BY <1>5, <2>6, Bounds
    <3>2. QED
      BY <1>1, <2>4, <2>7, <3>1 DEF Sizes
  <2>13. ASSUME NEW x \in Ids(r) PROVE Referenced(r, x)
    <3>1. Holders(r, x) = Holders(am, x)
      BY <2>4 DEF Holders
    <3>2. CASE x = n
      <4>1. Holders(am, x) = {}
        BY <1>2, <3>2 DEF Holders
      <4>2. QED
        BY <2>1, <2>3, <3>1, <3>2, <4>1, FS_EmptySet, Bounds DEF Referenced
    <3>3. CASE x \in Ids(am)
      BY <1>1, <2>3, <3>1, <3>3 DEF Referenced
    <3>4. QED
      BY <2>3, <3>2, <3>3
  <2>14. Agrees(r)
    BY <2>3, <2>8, <2>10, <2>11, <2>12, <2>13 DEF Agrees, Table
  <2>15. n + 1 <= n + 1
    BY <1>2
  <2>16. QED
    BY <2>3, <2>4, <2>14, <2>15 DEF r, n
<1>6. QED
  BY <1>4, <1>5

\* The entries of such a file, and how many they are.
LEMMA FileIs ==
    ASSUME NEW file, FileOK(file)
    PROVE  /\ Len(file.new) \in Nat /\ Len(file.tried) \in Nat
           /\ Len(file.new) + Len(file.tried) <= MaxId + 1 /\ Len(file.new) <= MaxId + 1
           /\ DOMAIN file.new = 1 .. Len(file.new) /\ DOMAIN file.tried = 1 .. Len(file.tried)
           /\ \A i \in DOMAIN file.new : file.new[i] \in Entry
           /\ \A j \in DOMAIN file.tried : file.tried[j] \in Entry
<1>1. file.new \in Seq(Entry) /\ file.tried \in Seq(Entry)
  BY DEF FileOK
<1>2. /\ Len(file.new) \in Nat /\ Len(file.tried) \in Nat
      /\ DOMAIN file.new = 1 .. Len(file.new) /\ DOMAIN file.tried = 1 .. Len(file.tried)
      /\ \A i \in DOMAIN file.new : file.new[i] \in Entry
      /\ \A j \in DOMAIN file.tried : file.tried[j] \in Entry
  BY <1>1
<1>3. Len(file.new) + Len(file.tried) <= MaxId + 1
  BY DEF FileOK
<1>4. Len(file.new) <= MaxId + 1
  <2> DEFINE n == Len(file.new)
             N == Len(file.tried)
  <2>1. n \in Nat /\ N \in Nat /\ n + N <= MaxId + 1
    BY <1>2, <1>3
  <2> HIDE DEF n, N
  <2>2. n <= MaxId + 1
    BY <2>1, Bounds
  <2>3. QED
    BY <2>2 DEF n
<1>5. QED
  BY <1>2, <1>3, <1>4

\* The new entries read back.
LEMMA LoadNewIs ==
    ASSUME NEW file, FileOK(file)
    PROVE  /\ Agrees(LoadNew(file)) /\ LoadNew(file).nIdCount = Len(file.new)
           /\ DOMAIN LoadNew(file).mapAddr = {IpOf[file.new[i].addr] : i \in DOMAIN file.new}
<1> DEFINE n == Len(file.new)
           refs(id) == Cardinality({b \in NewBucket : id \in file.buckets[b]})
           infos == [id \in 0 .. (n - 1) |->
                       [addr |-> file.new[id + 1].addr, source |-> file.new[id + 1].source,
                        nLastSuccess |-> file.new[id + 1].nLastSuccess,
                        nRefCount |-> refs(id), fInTried |-> FALSE, nRandomPos |-> id + 1]]
           hosts == {IpOf[file.new[i].addr] : i \in 1 .. n}
           first(ip) == CHOOSE id \in 0 .. (n - 1) : IpOf[file.new[id + 1].addr] = ip
           addrs == [ip \in hosts |-> first(ip)]
           order == [i \in 1 .. n |-> i - 1]
           r == LoadNew(file)
<1>1. /\ file.new \in Seq(Entry) /\ n \in Nat /\ DOMAIN file.new = 1 .. n
      /\ n <= MaxId + 1
      /\ \A i \in 1 .. n : file.new[i] \in Entry
      /\ file.buckets \in [NewBucket -> SUBSET (0 .. n - 1)]
  <2>1. file.new \in Seq(Entry) /\ file.buckets \in [NewBucket -> SUBSET (0 .. n - 1)]
    BY DEF FileOK
  <2>2. QED
    BY <2>1, FileIs
<1>2. r \in [mapInfo : {infos}, mapAddr : {addrs}, vRandom : {order}, nIdCount : {n},
             nNew : {n}, nTried : {0}, vvNew : {file.buckets},
             vvTried : {[k \in TriedBucket |-> <<>>]}]
  BY DEF LoadNew, Empty
<1> HIDE DEF r
<1>3. r.mapInfo = infos /\ r.mapAddr = addrs /\ r.vRandom = order /\ r.nIdCount = n
      /\ r.nNew = n /\ r.nTried = 0 /\ r.vvNew = file.buckets
      /\ r.vvTried = [k \in TriedBucket |-> <<>>]
  BY <1>2
<1>4. Ids(r) = 0 .. n - 1
  BY <1>3 DEF Ids
<1> HIDE DEF refs
<1>5. \A id \in 0 .. n - 1 : /\ infos[id].addr = file.new[id + 1].addr
                             /\ infos[id].source = file.new[id + 1].source
                             /\ infos[id].nLastSuccess = file.new[id + 1].nLastSuccess
                             /\ infos[id].nRefCount = refs(id)
                             /\ infos[id].fInTried = FALSE /\ infos[id].nRandomPos = id + 1
  OBVIOUS
<1>6. ASSUME NEW id \in 0 .. n - 1
      PROVE  /\ id + 1 \in 1 .. n /\ refs(id) \in Nat /\ infos[id] \in Info
  <2>1. id + 1 \in 1 .. n
    BY <1>1
  <2>2. refs(id) \in Nat
    <3>1. {b \in NewBucket : id \in file.buckets[b]} \subseteq NewBucket
      OBVIOUS
    <3>2. IsFiniteSet({b \in NewBucket : id \in file.buckets[b]})
      BY <3>1, FS_Subset, AddrManAssumption
    <3>3. QED
      BY <3>2, FS_CardinalityType DEF refs
  <2>3. infos[id] \in Info
    <3>1. file.new[id + 1] \in Entry /\ id + 1 \in Nat
      BY <1>1, <2>1
    <3>2. QED
      BY <2>2, <3>1 DEF Info, Entry
  <2>4. QED
    BY <2>1, <2>2, <2>3
<1>7. infos \in [0 .. n - 1 -> Info]
  <2>1. infos = [id \in 0 .. n - 1 |-> infos[id]]
    OBVIOUS
  <2> HIDE DEF infos
  <2>2. QED
    BY <1>6, <2>1
<1> HIDE DEF infos
<1>8. \A ip \in hosts : first(ip) \in 0 .. n - 1 /\ IpOf[file.new[first(ip) + 1].addr] = ip
  <2>1. TAKE ip \in hosts
  <2>2. PICK i \in 1 .. n : ip = IpOf[file.new[i].addr]
    OBVIOUS
  <2>3. i - 1 \in 0 .. n - 1 /\ IpOf[file.new[(i - 1) + 1].addr] = ip
    BY <1>1, <2>2
  <2>4. QED
    BY <2>3
<1> HIDE DEF first
<1>9. /\ DOMAIN addrs = hosts /\ addrs \in [hosts -> 0 .. n - 1]
      /\ \A ip \in hosts : addrs[ip] \in 0 .. n - 1 /\ IpOf[file.new[addrs[ip] + 1].addr] = ip
  BY <1>8
<1> HIDE DEF addrs
<1>10. order \in Seq(0 .. n - 1) /\ Len(order) = n /\ DOMAIN order = 1 .. n
  BY <1>1
<1>11. Typed(r)
  <2>1. r.vvTried \in [TriedBucket -> Seq(Ids(r))]
    BY <1>3
  <2>2. n \in 0 .. MaxId + 1
    BY <1>1, Bounds
  <2> HIDE DEF order, n
  <2>3. QED
    BY <1>1, <1>2, <1>3, <1>4, <1>7, <1>9, <1>10, <2>1, <2>2 DEF Typed
<1>12. Order(r)
  <2>1. ASSUME NEW id \in Ids(r)
        PROVE  /\ r.mapInfo[id].nRandomPos \in DOMAIN r.vRandom
               /\ r.vRandom[r.mapInfo[id].nRandomPos] = id
    <3>1. r.mapInfo[id].nRandomPos = id + 1 /\ id + 1 \in 1 .. n /\ id \in Int
      BY <1>1, <1>3, <1>4, <1>5, <1>6
    <3>2. order[id + 1] = id
      BY <3>1
    <3>3. QED
      BY <1>3, <1>10, <3>1, <3>2
  <2>2. ASSUME NEW i \in DOMAIN r.vRandom
        PROVE  r.mapInfo[r.vRandom[i]].nRandomPos = i
    <3>1. i \in 1 .. n /\ r.vRandom[i] = i - 1
      BY <1>3, <1>10
    <3>2. i - 1 \in 0 .. n - 1 /\ (i - 1) + 1 = i
      BY <1>1, <3>1
    <3>3. QED
      BY <1>3, <1>5, <3>1, <3>2
  <2>3. QED
    BY <2>1, <2>2 DEF Order
<1>13. Addresses(r)
  <2>1. ASSUME NEW id \in Ids(r)
        PROVE  /\ IpOf[r.mapInfo[id].addr] \in DOMAIN r.mapAddr
               /\ r.mapAddr[IpOf[r.mapInfo[id].addr]] = id
    <3> DEFINE ip == IpOf[file.new[id + 1].addr]
    <3>1. id \in 0 .. n - 1 /\ id + 1 \in 1 .. n /\ IpOf[r.mapInfo[id].addr] = ip
      BY <1>3, <1>4, <1>5, <1>6
    <3>2. ip \in hosts
      BY <3>1
    <3>3. addrs[ip] \in 0 .. n - 1 /\ IpOf[file.new[addrs[ip] + 1].addr] = ip
      BY <1>9, <3>2
    <3>4. addrs[ip] + 1 \in 1 .. n
      <4> HIDE DEF n, ip, hosts
      <4>1. n \in Nat /\ addrs[ip] \in 0 .. n - 1
        BY <1>1, <3>3
      <4>2. QED
        BY ONLY <4>1
    <3>5. addrs[ip] + 1 = id + 1
      BY <1>1, <3>1, <3>3, <3>4 DEF FileOK
    <3>6. addrs[ip] = id
      <4> HIDE DEF n, ip, hosts
      <4>1. addrs[ip] \in Int /\ id \in Int
        BY <1>1, <3>1, <3>3
      <4>2. QED
        BY ONLY <3>5, <4>1
    <3>7. QED
      BY <1>3, <1>9, <3>1, <3>2, <3>6
  <2>2. ASSUME NEW ip \in DOMAIN r.mapAddr
        PROVE  IpOf[r.mapInfo[r.mapAddr[ip]].addr] = ip
    BY <1>3, <1>5, <1>9
  <2>3. QED
    BY <2>1, <2>2 DEF Addresses
<1>14. TriedIds(r) = {}
  BY <1>3, <1>4, <1>5 DEF TriedIds
<1>15. Placed(r)
  <2>1. ASSUME NEW k \in TriedBucket
        PROVE  Once(r.vvTried[k]) /\ Members(r.vvTried[k]) = Belong(r, k)
    <3>1. r.vvTried[k] = <<>>
      BY <1>3
    <3>2. QED
      BY <1>14, <3>1 DEF Once, Members, Belong
  <2>2. QED
    BY <1>11, <1>14, <2>1, PlacedIs
<1>16. Counts(r)
  <2>1. Cardinality(0 .. n - 1) = n
    BY <1>1, Below
  <2>2. Ids(r) \ TriedIds(r) = 0 .. n - 1
    BY <1>4, <1>14
  <2>3. QED
    BY <1>3, <1>14, <2>1, <2>2, FS_EmptySet DEF Counts
<1>17. Sizes(r)
  <2>1. \A k \in TriedBucket : Len(r.vvTried[k]) = 0
    BY <1>3
  <2>2. QED
    BY <1>3, <2>1, Bounds DEF Sizes, FileOK
<1>18. ASSUME NEW id \in Ids(r) PROVE Referenced(r, id)
  <2>1. Holders(r, id) = {b \in NewBucket : id \in file.buckets[b]}
    BY <1>3 DEF Holders
  <2>2. Holders(r, id) # {} /\ Cardinality(Holders(r, id)) <= ADDRMAN_NEW_BUCKETS_PER_ADDRESS
    BY <1>4, <2>1 DEF FileOK
  <2>3. r.mapInfo[id].nRefCount = Cardinality(Holders(r, id)) /\ r.mapInfo[id].fInTried = FALSE
    <3>1. refs(id) = Cardinality(Holders(r, id))
      BY <2>1 DEF refs
    <3>2. QED
      BY <1>3, <1>4, <1>5, <3>1
  <2>4. QED
    BY <2>2, <2>3 DEF Referenced
<1>19. DOMAIN r.mapAddr = {IpOf[file.new[i].addr] : i \in DOMAIN file.new}
  BY <1>1, <1>3, <1>9
<1>20. QED
  BY <1>3, <1>11, <1>12, <1>13, <1>15, <1>16, <1>17, <1>18, <1>19 DEF Agrees, Table, r

\* What Load computes, one entry after the other.
LEMMA LoadIs ==
    ASSUME NEW file, Len(file.tried) \in Nat
    PROVE  \E f : /\ f[0] = LoadNew(file)
                  /\ \A n \in 1 .. Len(file.tried) :
                        f[n] = LoadTried(f[n - 1], file.tried[n])
                  /\ Load(file) = f[Len(file.tried)]
<1> DEFINE N == Len(file.tried)
           start == LoadNew(file)
           Steps(f, n) == f = [i \in 0 .. n |-> IF i = 0 THEN start
                                                ELSE LoadTried(f[i - 1], file.tried[i])]
           bad == {n \in 0 .. N : ~ \E f : Steps(f, n)}
<1> HIDE DEF start
<1>1. bad = {}
  <2>1. SUFFICES ASSUME bad # {} PROVE FALSE
    OBVIOUS
  <2>2. PICK m \in bad : \A i \in bad : m <= i
    <3>1. bad \in SUBSET Nat
      OBVIOUS
    <3> HIDE DEF bad
    <3>2. QED
      BY <2>1, <3>1, LeastIs
  <2>3. m \in 0 .. N /\ ~ \E f : Steps(f, m)
    OBVIOUS
  <2>4. m # 0
    <3>1. Steps([i \in 0 .. 0 |-> start], 0)
      OBVIOUS
    <3>2. QED
      BY <2>3, <3>1
  <2>5. m - 1 \in 0 .. N /\ m - 1 \notin bad
    <3>1. m - 1 \in 0 .. N /\ ~ m <= m - 1
      BY <2>3, <2>4
    <3> HIDE DEF bad
    <3>2. QED
      BY <2>2, <3>1
  <2>6. PICK f : Steps(f, m - 1)
    BY <2>5
  <2> DEFINE g == [i \in 0 .. m |-> IF i = 0 THEN start
                                    ELSE LoadTried(f[i - 1], file.tried[i])]
  <2>7. \A i \in 0 .. m - 1 : f[i] = IF i = 0 THEN start
                                     ELSE LoadTried(f[i - 1], file.tried[i])
    BY <2>6
  <2>8. \A i \in 1 .. m : g[i - 1] = f[i - 1]
    BY <2>3, <2>7
  <2>9. ASSUME NEW i \in 0 .. m
        PROVE  g[i] = IF i = 0 THEN start ELSE LoadTried(g[i - 1], file.tried[i])
    <3>1. g[i] = IF i = 0 THEN start ELSE LoadTried(f[i - 1], file.tried[i])
      OBVIOUS
    <3> HIDE DEF g
    <3>2. i # 0 => i \in 1 .. m
      BY <2>3
    <3>3. QED
      BY <2>8, <3>1, <3>2
  <2>10. g = [i \in 0 .. m |-> g[i]]
    OBVIOUS
  <2> HIDE DEF g
  <2>11. Steps(g, m)
    BY <2>9, <2>10
  <2>12. QED
    BY <2>3, <2>11
<1>2. \E f : Steps(f, N)
  BY <1>1, SMTT(20)
<1> DEFINE f == CHOOSE f : Steps(f, N)
<1>3. Steps(f, N)
  BY <1>2
<1>4. Load(file) = f[N]
  BY DEF Load, start
<1> HIDE DEF f
<1>5. f[0] = start /\ \A n \in 1 .. N : f[n] = LoadTried(f[n - 1], file.tried[n])
  BY <1>3
<1>6. QED
  BY <1>4, <1>5 DEF start

\* A file that a whole table was written to is read back into one.
LEMMA LoadAgrees ==
    ASSUME NEW file, FileOK(file)
    PROVE  Agrees(Load(file))
<1> DEFINE N == Len(file.tried)
           n == Len(file.new)
           hosts == {IpOf[file.new[i].addr] : i \in DOMAIN file.new}
           Whole(x, i) ==
              /\ Agrees(x) /\ x.nIdCount <= n + i
              /\ DOMAIN x.mapAddr \subseteq hosts \cup {IpOf[file.tried[j].addr] : j \in 1 .. i}
<1>1. /\ N \in Nat /\ n \in Nat /\ n + N <= MaxId + 1 /\ DOMAIN file.tried = 1 .. N
      /\ \A j \in 1 .. N : file.tried[j] \in Entry /\ file.tried[j].nLastSuccess # 0
  BY FileIs DEF FileOK
<1>2. PICK f : /\ f[0] = LoadNew(file)
               /\ \A j \in 1 .. Len(file.tried) : f[j] = LoadTried(f[j - 1], file.tried[j])
               /\ Load(file) = f[Len(file.tried)]
  BY <1>1, LoadIs
<1> DEFINE bad == {i \in 0 .. N : ~ Whole(f[i], i)}
<1>3. bad = {}
  <2>1. SUFFICES ASSUME bad # {} PROVE FALSE
    OBVIOUS
  <2>2. PICK m \in bad : \A i \in bad : m <= i
    <3>1. bad \in SUBSET Nat
      OBVIOUS
    <3> HIDE DEF bad
    <3>2. QED
      BY <2>1, <3>1, LeastIs
  <2>3. m \in 0 .. N /\ ~ Whole(f[m], m)
    OBVIOUS
  <2>4. m # 0
    <3>1. Whole(f[0], 0)
      BY <1>1, <1>2, LoadNewIs
    <3>2. QED
      BY <2>3, <3>1
  <2>5. m - 1 \in 0 .. N /\ m - 1 \notin bad /\ m \in 1 .. N
    <3>1. m - 1 \in 0 .. N /\ ~ m <= m - 1 /\ m \in 1 .. N
      BY <1>1, <2>3, <2>4
    <3> HIDE DEF bad
    <3>2. QED
      BY <2>2, <3>1
  <2>6. Whole(f[m - 1], m - 1)
    BY <2>5
  <2> DEFINE x == f[m - 1]
             info == file.tried[m]
             r == LoadTried(x, info)
  <2>7. f[m] = r
    BY <1>2, <2>5
  <2>8. info \in Entry /\ info.nLastSuccess # 0
    BY <1>1, <2>5
  <2>9. IpOf[info.addr] \notin DOMAIN x.mapAddr
    <3>1. IpOf[info.addr] \notin hosts
      BY <1>1, <2>5 DEF FileOK
    <3>2. \A j \in 1 .. m - 1 : j \in 1 .. N /\ j # m
      BY <1>1, <2>5
    <3>3. \A j \in 1 .. m - 1 : IpOf[file.tried[j].addr] # IpOf[info.addr]
      BY <1>1, <2>5, <3>2 DEF FileOK
    <3>4. DOMAIN x.mapAddr \subseteq hosts \cup {IpOf[file.tried[j].addr] : j \in 1 .. m - 1}
      BY <2>6
    <3> HIDE DEF x, hosts, info
    <3>5. QED
      BY <3>1, <3>3, <3>4
  <2>10. Agrees(x) /\ x.nIdCount \in Nat /\ x.nIdCount <= n + (m - 1)
    <3>1. Agrees(x) /\ x.nIdCount <= n + (m - 1)
      BY <2>6
    <3> HIDE DEF x
    <3>2. x.nIdCount \in 0 .. MaxId + 1
      BY <3>1 DEF Agrees, Table, Typed
    <3>3. QED
      BY <3>1, <3>2, Bounds
  <2> HIDE DEF x, info
  <2>11. x.nIdCount <= MaxId
    <3>1. N \in Nat /\ n \in Nat /\ n + N <= MaxId + 1 /\ m \in 1 .. N
      BY <1>1, <2>5
    <3> HIDE DEF N, n
    <3>2. QED
      BY <2>10, <3>1, Bounds
  <2>12. /\ Agrees(r) /\ r.nIdCount <= x.nIdCount + 1
         /\ DOMAIN r.mapAddr \subseteq DOMAIN x.mapAddr \cup {IpOf[info.addr]}
    BY <2>8, <2>9, <2>10, <2>11, LoadTriedIs
  <2>13. r.nIdCount \in Nat
    <3> HIDE DEF r
    <3>1. r.nIdCount \in 0 .. MaxId + 1
      BY <2>12 DEF Agrees, Table, Typed
    <3>2. QED
      BY <3>1, Bounds
  <2> HIDE DEF r
  <2>14. r.nIdCount <= n + m
    BY <1>1, <2>5, <2>10, <2>12, <2>13
  <2>15. DOMAIN r.mapAddr \subseteq hosts \cup {IpOf[file.tried[j].addr] : j \in 1 .. m}
    <3>1. DOMAIN x.mapAddr \subseteq hosts \cup {IpOf[file.tried[j].addr] : j \in 1 .. m - 1}
      BY <2>6 DEF x
    <3>2. {IpOf[file.tried[j].addr] : j \in 1 .. m - 1} \cup {IpOf[info.addr]}
          \subseteq {IpOf[file.tried[j].addr] : j \in 1 .. m}
      BY <1>1, <2>5 DEF info
    <3> HIDE DEF hosts
    <3>3. QED
      BY <2>12, <3>1, <3>2
  <2>16. Whole(r, m)
    BY <2>12, <2>14, <2>15
  <2>17. QED
    BY <2>3, <2>7, <2>16
<1>4. Whole(f[N], N)
  <2>1. N \in 0 .. N /\ N \notin bad
    BY <1>1, <1>3
  <2>2. QED
    BY <2>1
<1>5. QED
  BY <1>2, <1>4
\* How many members of a set of numbers precede one.
Rank(S, x) == Cardinality({i \in S : i < x})

\* Ranks tell members apart, and there is no gap between them.
LEMMA RankIs ==
    ASSUME NEW S \in SUBSET Nat, IsFiniteSet(S)
    PROVE  /\ Cardinality(S) \in Nat
           /\ \A x \in S : Rank(S, x) \in 0 .. Cardinality(S) - 1
           /\ \A x, y \in S : Rank(S, x) = Rank(S, y) => x = y
           /\ \A r \in 0 .. Cardinality(S) - 1 : \E x \in S : Rank(S, x) = r
<1> DEFINE below(x) == {i \in S : i < x}
           n == Cardinality(S)
<1>1. n \in Nat
  BY FS_CardinalityType
<1>2. \A x : IsFiniteSet(below(x)) /\ Cardinality(below(x)) \in Nat
             /\ Rank(S, x) = Cardinality(below(x))
  <2>1. TAKE x
  <2>2. below(x) \in SUBSET S
    OBVIOUS
  <2>3. Rank(S, x) = Cardinality(below(x))
    BY DEF Rank
  <2> HIDE DEF below
  <2>4. QED
    BY <2>2, <2>3, FS_Subset, FS_CardinalityType
<1>3. ASSUME NEW x \in S, NEW T \in SUBSET S, below(x) \cup {x} \subseteq T
      PROVE  Cardinality(below(x)) + 1 <= Cardinality(T)
  <2>1. x \notin below(x) /\ x \in Nat
    OBVIOUS
  <2> HIDE DEF below
  <2>2. Cardinality(below(x) \cup {x}) = Cardinality(below(x)) + 1
    BY <1>2, <2>1, FS_AddElement
  <2> DEFINE U == below(x) \cup {x}
  <2> HIDE DEF U
  <2>3. U \in SUBSET T /\ IsFiniteSet(T) /\ Cardinality(U) = Cardinality(below(x)) + 1
    BY <1>3, <2>2, FS_Subset DEF U
  <2>4. Cardinality(U) <= Cardinality(T)
    BY <2>3, FS_Subset
  <2>5. QED
    BY <2>3, <2>4
<1>4. \A x \in S : Rank(S, x) \in 0 .. n - 1
  <2>1. TAKE x \in S
  <2>2. below(x) \cup {x} \subseteq S
    OBVIOUS
  <2> HIDE DEF below
  <2>3. Cardinality(below(x)) + 1 <= n
    BY <1>3, <2>2
  <2>4. QED
    BY <1>1, <1>2, <2>3
<1>5. \A x, y \in S : x < y => Rank(S, x) < Rank(S, y)
  <2>1. SUFFICES ASSUME NEW x \in S, NEW y \in S, x < y PROVE Rank(S, x) < Rank(S, y)
    OBVIOUS
  <2>2. below(x) \cup {x} \subseteq below(y) /\ below(y) \in SUBSET S
    <3>1. x \in Nat /\ y \in Nat /\ \A j \in S : j \in Nat
      OBVIOUS
    <3>2. \A j \in below(x) \cup {x} : j \in S /\ j < y
      BY <2>1, <3>1
    <3>3. QED
      BY <3>2
  <2> HIDE DEF below
  <2>3. Cardinality(below(x)) + 1 <= Cardinality(below(y))
    BY <1>3, <2>2
  <2>4. QED
    BY <1>2, <2>3
<1>6. \A x, y \in S : Rank(S, x) = Rank(S, y) => x = y
  <2>1. SUFFICES ASSUME NEW x \in S, NEW y \in S, Rank(S, x) = Rank(S, y) PROVE x = y
    OBVIOUS
  <2>2. x \in Nat /\ y \in Nat /\ Rank(S, x) \in Nat /\ Rank(S, y) \in Nat
    <3>1. x \in Nat /\ y \in Nat
      OBVIOUS
    <3> HIDE DEF below
    <3>2. QED
      BY <1>2, <3>1
  <2>3. ~ x < y /\ ~ y < x
    BY <1>5, <2>1, <2>2
  <2>4. QED
    BY <2>2, <2>3
<1>7. \A r \in 0 .. n - 1 : \E x \in S : Rank(S, x) = r
  <2> DEFINE f == [x \in S |-> Rank(S, x)]
             T == 0 .. n - 1
  <2>1. f \in Injection(S, T)
    <3>1. f \in [S -> T]
      BY <1>4
    <3>2. \A x, y \in S : f[x] = f[y] => x = y
      BY <1>6
    <3> HIDE DEF f, T
    <3>3. QED
      BY <3>1, <3>2 DEF Injection, IsInjective
  <2>2. IsFiniteSet(T) /\ Cardinality(T) = Cardinality(S)
    BY <1>1, Below
  <2> HIDE DEF T
  <2>3. f \in Surjection(S, T)
    BY <2>1, <2>2, FS_Injection
  <2>4. \A r \in T : \E x \in S : f[x] = r
    BY <2>3 DEF Surjection
  <2>5. QED
    BY <2>4 DEF T
<1>8. QED
  BY <1>1, <1>4, <1>6, <1>7

\* InOrder lists the members of a set by their rank.
LEMMA InOrderIs ==
    ASSUME NEW S \in SUBSET Nat, IsFiniteSet(S)
    PROVE  /\ DOMAIN InOrder(S) = 1 .. Cardinality(S)
           /\ \A n \in 1 .. Cardinality(S) :
                 InOrder(S)[n] \in S /\ Rank(S, InOrder(S)[n]) = n - 1
<1>1. Cardinality(S) \in Nat
  BY RankIs
<1>2. DOMAIN InOrder(S) = 1 .. Cardinality(S)
  BY DEF InOrder
<1>3. ASSUME NEW n \in 1 .. Cardinality(S)
      PROVE  InOrder(S)[n] \in S /\ Rank(S, InOrder(S)[n]) = n - 1
  <2>1. n - 1 \in 0 .. Cardinality(S) - 1
    BY <1>1
  <2>2. \E x \in S : Rank(S, x) = n - 1
    BY <2>1, RankIs
  <2>3. InOrder(S)[n] = CHOOSE x \in S : Rank(S, x) = n - 1
    BY DEF InOrder, Rank
  <2>4. QED
    BY <2>2, <2>3
<1>4. QED
  BY <1>2, <1>3
\* The entries in new buckets.
NewIds(am) == {id \in Ids(am) : am.mapInfo[id].nRefCount > 0}

\* The entries of a set, as the file has them.
LEMMA Written ==
    ASSUME NEW am, Typed(am), NEW S \in SUBSET Ids(am), NEW infos,
           infos = [n \in DOMAIN InOrder(S) |-> Persistent(am.mapInfo[InOrder(S)[n]])]
    PROVE  /\ infos \in Seq(Entry) /\ Len(infos) = Cardinality(S)
           /\ DOMAIN infos = 1 .. Cardinality(S)
           /\ \A n \in 1 .. Cardinality(S) :
                 /\ InOrder(S)[n] \in S /\ Rank(S, InOrder(S)[n]) = n - 1
                 /\ infos[n].addr = am.mapInfo[InOrder(S)[n]].addr
                 /\ infos[n].source = am.mapInfo[InOrder(S)[n]].source
                 /\ infos[n].nLastSuccess = am.mapInfo[InOrder(S)[n]].nLastSuccess
<1>1. IsFiniteSet(S) /\ Cardinality(S) \in Nat /\ S \in SUBSET Nat
  <2>1. \A x \in Ids(am) : x \in Nat
    BY InfoIs
  <2>2. QED
    BY <2>1, Finite
<1>2. /\ DOMAIN InOrder(S) = 1 .. Cardinality(S)
      /\ \A n \in 1 .. Cardinality(S) : InOrder(S)[n] \in S /\ Rank(S, InOrder(S)[n]) = n - 1
  BY <1>1, InOrderIs
<1>3. \A n \in 1 .. Cardinality(S) : am.mapInfo[InOrder(S)[n]] \in Info
  BY <1>2, InfoIs
<1>4. \A n \in 1 .. Cardinality(S) : infos[n] = Persistent(am.mapInfo[InOrder(S)[n]])
  BY <1>2
<1>5. \A n \in 1 .. Cardinality(S) : infos[n] \in Entry
  <2>1. \A info \in Info : Persistent(info) \in Entry
    BY DEF Persistent, Entry, Info
  <2>2. QED
    BY <1>3, <1>4, <2>1
<1>6. DOMAIN infos = 1 .. Cardinality(S) /\ infos = [n \in 1 .. Cardinality(S) |-> infos[n]]
  BY <1>2
<1>7. infos \in Seq(Entry) /\ Len(infos) = Cardinality(S)
  BY <1>1, <1>5, <1>6
<1>8. QED
  BY <1>2, <1>4, <1>6, <1>7 DEF Persistent

\* A whole table is written to a file it can be read back from.
LEMMA SerializeIs ==
    ASSUME NEW am, Agrees(am)
    PROVE  FileOK(Serialize(am))
<1> DEFINE new == NewIds(am)
           tried == TriedIds(am)
           file == Serialize(am)
           p == Cardinality(new)
           q == Cardinality(tried)
<1>1. /\ Typed(am) /\ Addresses(am) /\ Placed(am) /\ Sizes(am) /\ am.nIdCount \in 0 .. MaxId + 1
      /\ \A x \in Ids(am) : Referenced(am, x) /\ am.mapInfo[x].nRefCount \in Nat
      /\ am.vvNew \in [NewBucket -> SUBSET Ids(am)]
  <2>1. Typed(am)
    BY DEF Agrees, Table
  <2>2. QED
    BY <2>1, InfoIs DEF Agrees, Table, Typed
<1>2. /\ new \subseteq Ids(am) /\ tried \subseteq Ids(am)
      /\ IsFiniteSet(new) /\ IsFiniteSet(tried) /\ p \in Nat /\ q \in Nat
      /\ new \in SUBSET Nat
  <2>1. new \subseteq Ids(am) /\ tried \subseteq Ids(am)
    BY DEF NewIds, TriedIds
  <2>2. \A x \in Ids(am) : x \in Nat
    BY <1>1, InfoIs
  <2> HIDE DEF new, tried
  <2>3. QED
    BY <1>1, <2>1, <2>2, Finite
<1>3. ASSUME NEW x \in Ids(am)
      PROVE  /\ IsFiniteSet(Holders(am, x)) /\ Cardinality(Holders(am, x)) \in Nat
             /\ x \in new <=> Holders(am, x) # {}
             /\ x \in tried <=> Holders(am, x) = {}
  <2>1. IsFiniteSet(Holders(am, x)) /\ Cardinality(Holders(am, x)) \in Nat
    <3>1. Holders(am, x) \subseteq NewBucket
      BY DEF Holders
    <3>2. QED
      BY <1>1, <3>1, Finite
  <2>2. Referenced(am, x) /\ am.mapInfo[x].nRefCount \in Nat
    BY <1>1
  <2>3. x \in tried <=> Holders(am, x) = {}
    BY <2>2 DEF Referenced, TriedIds
  <2>4. Cardinality(Holders(am, x)) = 0 <=> Holders(am, x) = {}
    BY <2>1, FS_EmptySet
  <2>5. am.mapInfo[x].nRefCount > 0 <=> Holders(am, x) # {}
    BY <2>1, <2>2, <2>4 DEF Referenced
  <2>6. QED
    BY <2>1, <2>3, <2>5 DEF NewIds
<1>4. new \cap tried = {} /\ p + q <= MaxId + 1
  <2>1. new \cap tried = {}
    BY <1>2, <1>3
  <2>2. new \cup tried \in SUBSET Ids(am)
    BY <1>2
  <2> HIDE DEF new, tried
  <2>3. Cardinality(new \cup tried) = p + q - 0
    <3>1. Cardinality(new \cup tried) = p + q - Cardinality(new \cap tried)
      BY <1>2, FS_Union
    <3>2. Cardinality(new \cap tried) = 0
      BY <2>1, FS_EmptySet
    <3>3. QED
      BY <3>1, <3>2
  <2> DEFINE both == new \cup tried
             c == Cardinality(Ids(am))
  <2> HIDE DEF both
  <2>4. IsFiniteSet(Ids(am)) /\ c \in Nat /\ c <= am.nIdCount
    BY <1>1, Finite
  <2>5. Cardinality(both) <= c
    BY <2>2, <2>4, FS_Subset DEF both
  <2>6. Cardinality(both) = p + q - 0
    BY <2>3 DEF both
  <2> HIDE DEF p, q, c
  <2>7. p + q <= MaxId + 1
    BY <1>1, <1>2, <2>4, <2>5, <2>6, Bounds
  <2>8. QED
    BY <2>1, <2>7
<1>5. /\ file.new = [n \in DOMAIN InOrder(new) |-> Persistent(am.mapInfo[InOrder(new)[n]])]
      /\ file.tried = [n \in DOMAIN InOrder(tried) |-> Persistent(am.mapInfo[InOrder(tried)[n]])]
      /\ file.buckets = [b \in NewBucket |-> {mapUnkIds(am, id) : id \in am.vvNew[b]}]
  BY DEF Serialize, NewIds, TriedIds
<1> HIDE DEF file
<1>6. /\ file.new \in Seq(Entry) /\ Len(file.new) = p /\ DOMAIN file.new = 1 .. p
      /\ \A n \in 1 .. p : /\ InOrder(new)[n] \in new /\ Rank(new, InOrder(new)[n]) = n - 1
                           /\ file.new[n].addr = am.mapInfo[InOrder(new)[n]].addr
  <2> HIDE DEF new
  <2>1. QED
    BY <1>1, <1>2, <1>5, Written
<1>7. /\ file.tried \in Seq(Entry) /\ Len(file.tried) = q /\ DOMAIN file.tried = 1 .. q
      /\ \A n \in 1 .. q :
            /\ InOrder(tried)[n] \in tried /\ Rank(tried, InOrder(tried)[n]) = n - 1
            /\ file.tried[n].addr = am.mapInfo[InOrder(tried)[n]].addr
            /\ file.tried[n].nLastSuccess = am.mapInfo[InOrder(tried)[n]].nLastSuccess
  <2> HIDE DEF tried
  <2>1. QED
    BY <1>1, <1>2, <1>5, Written
<1>8. \A id \in Ids(am) : mapUnkIds(am, id) = Rank(new, id)
  <2>1. TAKE id \in Ids(am)
  <2>2. {i \in Ids(am) : i < id /\ am.mapInfo[i].nRefCount > 0} = {i \in new : i < id}
    BY DEF NewIds
  <2>3. QED
    BY <2>2 DEF mapUnkIds, Rank
<1>9. \A x, y \in Ids(am) : IpOf[am.mapInfo[x].addr] = IpOf[am.mapInfo[y].addr] => x = y
  BY <1>1 DEF Addresses
<1> HIDE DEF new, tried
<1>10. /\ \A x \in new : Rank(new, x) \in 0 .. p - 1
       /\ \A x, y \in new : Rank(new, x) = Rank(new, y) => x = y
  BY <1>2, RankIs
<1>11. ASSUME NEW b \in NewBucket
       PROVE  /\ am.vvNew[b] \subseteq new
              /\ file.buckets[b] = {Rank(new, id) : id \in am.vvNew[b]}
              /\ file.buckets[b] \subseteq 0 .. p - 1
  <2>1. ASSUME NEW id \in am.vvNew[b]
        PROVE  id \in Ids(am) /\ id \in new
    <3>1. id \in Ids(am) /\ b \in Holders(am, id)
      BY <1>1 DEF Holders
    <3>2. QED
      BY <1>3, <3>1
  <2>2. file.buckets[b] = {mapUnkIds(am, id) : id \in am.vvNew[b]}
    BY <1>5
  <2>3. {mapUnkIds(am, id) : id \in am.vvNew[b]} = {Rank(new, id) : id \in am.vvNew[b]}
    BY <1>8, <2>1
  <2>4. QED
    BY <1>10, <2>1, <2>2, <2>3
<1>12. \A i, j \in 1 .. p : IpOf[file.new[i].addr] = IpOf[file.new[j].addr] => i = j
  <2>1. SUFFICES ASSUME NEW i \in 1 .. p, NEW j \in 1 .. p,
                        IpOf[file.new[i].addr] = IpOf[file.new[j].addr]
                 PROVE  i = j
    OBVIOUS
  <2>2. InOrder(new)[i] = InOrder(new)[j]
    <3> DEFINE x == InOrder(new)[i]
               y == InOrder(new)[j]
    <3>1. x \in Ids(am) /\ y \in Ids(am)
      BY <1>2, <1>6
    <3>2. IpOf[am.mapInfo[x].addr] = IpOf[am.mapInfo[y].addr]
      BY <1>2, <1>6, <2>1
    <3> HIDE DEF x, y
    <3>3. x = y
      BY <1>9, <3>1, <3>2
    <3>4. QED
      BY <3>3 DEF x, y
  <2>3. i - 1 = j - 1
    BY <1>6, <2>2
  <2>4. QED
    BY <1>2, <2>3
<1>13. \A i, j \in 1 .. q : IpOf[file.tried[i].addr] = IpOf[file.tried[j].addr] => i = j
  <2>1. SUFFICES ASSUME NEW i \in 1 .. q, NEW j \in 1 .. q,
                        IpOf[file.tried[i].addr] = IpOf[file.tried[j].addr]
                 PROVE  i = j
    OBVIOUS
  <2>2. InOrder(tried)[i] = InOrder(tried)[j]
    <3> DEFINE x == InOrder(tried)[i]
               y == InOrder(tried)[j]
    <3>1. x \in Ids(am) /\ y \in Ids(am)
      BY <1>2, <1>7
    <3>2. IpOf[am.mapInfo[x].addr] = IpOf[am.mapInfo[y].addr]
      BY <1>2, <1>7, <2>1
    <3> HIDE DEF x, y
    <3>3. x = y
      BY <1>9, <3>1, <3>2
    <3>4. QED
      BY <3>3 DEF x, y
  <2>3. i - 1 = j - 1
    BY <1>7, <2>2
  <2>4. QED
    BY <1>2, <2>3
<1>14. \A i \in 1 .. p, j \in 1 .. q : IpOf[file.new[i].addr] # IpOf[file.tried[j].addr]
  <2>1. SUFFICES ASSUME NEW i \in 1 .. p, NEW j \in 1 .. q,
                        IpOf[file.new[i].addr] = IpOf[file.tried[j].addr]
                 PROVE  FALSE
    OBVIOUS
  <2>2. InOrder(new)[i] = InOrder(tried)[j]
    <3> DEFINE x == InOrder(new)[i]
               y == InOrder(tried)[j]
    <3>1. x \in Ids(am) /\ y \in Ids(am)
      BY <1>2, <1>6, <1>7
    <3>2. IpOf[am.mapInfo[x].addr] = IpOf[am.mapInfo[y].addr]
      BY <1>2, <1>6, <1>7, <2>1
    <3> HIDE DEF x, y
    <3>3. x = y
      BY <1>9, <3>1, <3>2
    <3>4. QED
      BY <3>3 DEF x, y
  <2>3. QED
    BY <1>4, <1>6, <1>7, <2>2
<1>15. \A j \in 1 .. q : file.tried[j].nLastSuccess # 0
  <2>1. \A x \in tried : am.mapInfo[x].nLastSuccess # 0
    BY <1>1 DEF Placed, TriedIds, tried
  <2>2. QED
    BY <1>7, <2>1
<1>16. file.buckets \in [NewBucket -> SUBSET (0 .. p - 1)]
  BY <1>5, <1>11
<1>17. ASSUME NEW m \in 0 .. p - 1
       PROVE  /\ {b \in NewBucket : m \in file.buckets[b]} # {}
              /\ Cardinality({b \in NewBucket : m \in file.buckets[b]})
                    <= ADDRMAN_NEW_BUCKETS_PER_ADDRESS
  <2> DEFINE x == InOrder(new)[m + 1]
  <2>1. x \in new /\ Rank(new, x) = m /\ x \in Ids(am)
    <3>1. m + 1 \in 1 .. p /\ (m + 1) - 1 = m
      BY <1>2
    <3>2. QED
      BY <1>2, <1>6, <3>1
  <2> HIDE DEF x
  <2>2. \A b \in NewBucket : m \in file.buckets[b] <=> x \in am.vvNew[b]
    <3>1. TAKE b \in NewBucket
    <3>2. am.vvNew[b] \subseteq new /\ file.buckets[b] = {Rank(new, id) : id \in am.vvNew[b]}
      BY <1>11
    <3>3. QED
      BY <1>10, <2>1, <3>2
  <2>3. {b \in NewBucket : m \in file.buckets[b]} = Holders(am, x)
    BY <2>2 DEF Holders
  <2>4. Holders(am, x) # {}
    BY <1>3, <2>1
  <2>5. Cardinality(Holders(am, x)) <= ADDRMAN_NEW_BUCKETS_PER_ADDRESS
    BY <1>1, <2>1 DEF Referenced
  <2>6. QED
    BY <2>3, <2>4, <2>5
<1>18. ASSUME NEW b \in NewBucket
       PROVE  Cardinality(file.buckets[b]) <= ADDRMAN_NEW_BUCKET_SIZE
  <2> DEFINE f == [id \in am.vvNew[b] |-> Rank(new, id)]
             T == file.buckets[b]
             U == am.vvNew[b]
  <2>1. f \in Surjection(U, T)
    <3>1. T = {Rank(new, id) : id \in U}
      BY <1>11
    <3> HIDE DEF T
    <3>2. QED
      BY <3>1 DEF Surjection
  <2>2. IsFiniteSet(U) /\ Cardinality(U) \in Nat /\ Cardinality(U) <= ADDRMAN_NEW_BUCKET_SIZE
    BY <1>1, Finite DEF Sizes
  <2> HIDE DEF f, T, U
  <2>3. IsFiniteSet(T) /\ Cardinality(T) <= Cardinality(U)
    BY <2>1, <2>2, FS_Surjection
  <2>4. Cardinality(T) \in Nat
    BY <2>3, FS_CardinalityType
  <2>5. Cardinality(T) <= ADDRMAN_NEW_BUCKET_SIZE
    BY <2>2, <2>3, <2>4, Bounds
  <2>6. QED
    BY <2>5 DEF T
<1>19. FileOK(file)
  <2>1. Len(file.new) + Len(file.tried) <= MaxId + 1
    BY <1>4, <1>6, <1>7
  <2> HIDE DEF p, q
  <2>2. \A m \in 0 .. Len(file.new) - 1 :
           /\ {b \in NewBucket : m \in file.buckets[b]} # {}
           /\ Cardinality({b \in NewBucket : m \in file.buckets[b]})
                 <= ADDRMAN_NEW_BUCKETS_PER_ADDRESS
    BY <1>6, <1>17
  <2>3. file.buckets \in [NewBucket -> SUBSET (0 .. Len(file.new) - 1)]
    BY <1>6, <1>16
  <2>4. /\ file.new \in Seq(Entry) /\ file.tried \in Seq(Entry)
        /\ \A i, j \in DOMAIN file.new :
              IpOf[file.new[i].addr] = IpOf[file.new[j].addr] => i = j
        /\ \A i, j \in DOMAIN file.tried :
              IpOf[file.tried[i].addr] = IpOf[file.tried[j].addr] => i = j
        /\ \A i \in DOMAIN file.new, j \in DOMAIN file.tried :
              IpOf[file.new[i].addr] # IpOf[file.tried[j].addr]
        /\ \A j \in DOMAIN file.tried : file.tried[j].nLastSuccess # 0
    <3>1. /\ file.new \in Seq(Entry) /\ file.tried \in Seq(Entry)
          /\ DOMAIN file.new = 1 .. p /\ DOMAIN file.tried = 1 .. q
      BY <1>6, <1>7
    <3>2. QED
      BY ONLY <1>12, <1>13, <1>14, <1>15, <3>1
  <2>5. QED
    BY <1>18, <2>1, <2>2, <2>3, <2>4 DEF FileOK
<1>20. QED
  BY <1>19 DEF file
-----------------------------------------------------------------------------
(* What is read back is what was written                                    *)

\* A bucket has as many members as places.
LEMMA OnceCounts ==
    ASSUME NEW T, NEW q \in Seq(T), Once(q)
    PROVE  Len(q) \in Nat /\ IsFiniteSet(Members(q)) /\ Cardinality(Members(q)) = Len(q)
<1> DEFINE f == [i \in 1 .. Len(q) |-> q[i]]
           D == 1 .. Len(q)
<1>1. Len(q) \in Nat /\ DOMAIN q = D
  OBVIOUS
<1>2. IsFiniteSet(D) /\ Cardinality(D) = Len(q)
  <2>1. IsFiniteSet(D)
        /\ Cardinality(D) = IF 1 > Len(q) THEN 0 ELSE Len(q) - 1 + 1
    BY <1>1, FS_Interval
  <2>2. (IF 1 > Len(q) THEN 0 ELSE Len(q) - 1 + 1) = Len(q)
    BY <1>1
  <2>3. QED
    BY <2>1, <2>2
<1>3. f \in Surjection(D, Members(q))
  BY <1>1 DEF Surjection, Members
<1>4. f \in Injection(D, Members(q))
  <2>1. f \in [D -> Members(q)]
    BY <1>3 DEF Surjection
  <2>2. \A i, j \in D : f[i] = f[j] => i = j
    BY <1>1 DEF Once
  <2> HIDE DEF f
  <2>3. QED
    BY <2>1, <2>2 DEF Injection, IsInjective
<1> HIDE DEF f, D
<1>5. QED
  BY <1>1, <1>2, <1>3, <1>4, FS_Surjection

\* An entry that its bucket has a place for is read back as it was written.
LEMMA LoadTriedTakes ==
    ASSUME NEW am, Typed(am), NEW info \in Entry,
           ~ Len(am.vvTried[TriedBucketOf[info.addr]]) >= ADDRMAN_TRIED_BUCKET_SIZE
    PROVE  /\ LoadTried(am, info).nIdCount = am.nIdCount + 1
           /\ Ids(LoadTried(am, info)) = Ids(am) \cup {am.nIdCount}
           /\ LoadTried(am, info).vvNew = am.vvNew
           /\ \A x \in Ids(am) : LoadTried(am, info).mapInfo[x] = am.mapInfo[x]
           /\ Persistent(LoadTried(am, info).mapInfo[am.nIdCount]) = info
           /\ LoadTried(am, info).mapInfo[am.nIdCount].fInTried
<1> DEFINE k == TriedBucketOf[info.addr]
           n == am.nIdCount
           r == LoadTried(am, info)
           made == [addr |-> info.addr, source |-> info.source,
                    nLastSuccess |-> info.nLastSuccess, nRefCount |-> 0,
                    fInTried |-> TRUE, nRandomPos |-> Len(am.vRandom) + 1]
<1>1. r = [am EXCEPT !.mapInfo = With(@, n, made),
                     !.mapAddr = With(@, IpOf[info.addr], n),
                     !.vRandom = Append(@, n), !.vvTried[k] = Append(@, n),
                     !.nIdCount = @ + 1, !.nTried = @ + 1]
  BY DEF LoadTried
<1>2. Persistent(made) = info /\ made.fInTried
  BY DEF Persistent, Entry
<1> HIDE DEF made
<1>3. /\ r.mapInfo = With(am.mapInfo, n, made) /\ r.nIdCount = n + 1
      /\ r.vvNew = am.vvNew
  BY <1>1 DEF Typed
<1> HIDE DEF r
<1>4. n \notin Ids(am)
  <2>1. n \in 0 .. MaxId + 1 /\ Ids(am) \subseteq 0 .. n - 1
    BY DEF Typed
  <2>2. QED
    BY <2>1, Bounds
<1> HIDE DEF n
<1>5. /\ Ids(r) = Ids(am) \cup {n} /\ r.mapInfo[n] = made
      /\ \A x \in Ids(am) : r.mapInfo[x] = am.mapInfo[x]
  BY <1>3, <1>4 DEF With, Ids
<1>6. QED
  BY <1>2, <1>3, <1>5 DEF r, n

\* The tried entries of a file that belong in a bucket.
Share(file, k) == {j \in DOMAIN file.tried : TriedBucketOf[file.tried[j].addr] = k}

\* Of a file whose tried entries fit into their buckets nothing is lost.
LEMMA LoadKeepsAll ==
    ASSUME NEW file, FileOK(file),
           \A k \in TriedBucket : Cardinality(Share(file, k)) <= ADDRMAN_TRIED_BUCKET_SIZE
    PROVE  /\ \A b \in NewBucket : Load(file).vvNew[b] = file.buckets[b]
           /\ \A id \in 0 .. Len(file.new) - 1 :
                 Persistent(Load(file).mapInfo[id]) = file.new[id + 1]
           /\ \A k \in TriedBucket :
                 {Persistent(Load(file).mapInfo[id]) : id \in Belong(Load(file), k)} =
                 {file.tried[j] : j \in Share(file, k)}
<1> DEFINE N == Len(file.tried)
           n == Len(file.new)
           hosts == {IpOf[file.new[i].addr] : i \in DOMAIN file.new}
           Read(x, i) ==
              /\ Agrees(x) /\ x.nIdCount = n + i /\ Ids(x) = 0 .. n + i - 1
              /\ DOMAIN x.mapAddr \subseteq hosts \cup {IpOf[file.tried[j].addr] : j \in 1 .. i}
              /\ x.vvNew = file.buckets
              /\ \A id \in 0 .. n - 1 : /\ Persistent(x.mapInfo[id]) = file.new[id + 1]
                                        /\ ~ x.mapInfo[id].fInTried
              /\ \A j \in 1 .. i : /\ Persistent(x.mapInfo[n + j - 1]) = file.tried[j]
                                   /\ x.mapInfo[n + j - 1].fInTried
<1>1. /\ N \in Nat /\ n \in Nat /\ n + N <= MaxId + 1 /\ DOMAIN file.tried = 1 .. N
      /\ DOMAIN file.new = 1 .. n /\ \A i \in 1 .. n : file.new[i] \in Entry
      /\ \A j \in 1 .. N : file.tried[j] \in Entry /\ file.tried[j].nLastSuccess # 0
  BY FileIs DEF FileOK
<1>2. PICK f : /\ f[0] = LoadNew(file)
               /\ \A j \in 1 .. Len(file.tried) : f[j] = LoadTried(f[j - 1], file.tried[j])
               /\ Load(file) = f[Len(file.tried)]
  BY <1>1, LoadIs
<1> DEFINE Upto(i, k) == {j \in 1 .. i : TriedBucketOf[file.tried[j].addr] = k}
\* A tried bucket holds what it had a share in of the entries read so far.
<1>3. ASSUME NEW i \in 0 .. N, NEW x, Read(x, i), NEW k \in TriedBucket
      PROVE  Belong(x, k) = {n + j - 1 : j \in Upto(i, k)}
  <2>1. ASSUME NEW id \in Belong(x, k) PROVE id \in {n + j - 1 : j \in Upto(i, k)}
    <3>1. /\ id \in 0 .. n + i - 1 /\ x.mapInfo[id].fInTried
          /\ TriedBucketOf[x.mapInfo[id].addr] = k
      BY <1>3 DEF Belong, TriedIds
    <3>2. ~ id \in 0 .. n - 1
      BY <1>3, <3>1
    <3> DEFINE j == id - n + 1
    <3>3. j \in 1 .. i /\ n + j - 1 = id
      BY <1>1, <3>1, <3>2
    <3> HIDE DEF j
    <3>4. Persistent(x.mapInfo[id]) = file.tried[j]
      BY <1>3, <3>3
    <3>5. file.tried[j].addr = x.mapInfo[id].addr
      BY <3>4 DEF Persistent
    <3>6. j \in Upto(i, k)
      BY <3>1, <3>3, <3>5
    <3>7. QED
      BY <3>3, <3>6
  <2>2. ASSUME NEW j \in Upto(i, k) PROVE n + j - 1 \in Belong(x, k)
    <3>1. j \in 1 .. i /\ TriedBucketOf[file.tried[j].addr] = k
      OBVIOUS
    <3>2. n + j - 1 \in 0 .. n + i - 1
      BY <1>1, <3>1
    <3>3. /\ Persistent(x.mapInfo[n + j - 1]) = file.tried[j]
          /\ x.mapInfo[n + j - 1].fInTried
      BY <1>3, <3>1
    <3>4. x.mapInfo[n + j - 1].addr = file.tried[j].addr
      BY <3>3 DEF Persistent
    <3>5. QED
      BY <1>3, <3>1, <3>2, <3>3, <3>4 DEF Belong, TriedIds
  <2>3. QED
    BY <2>1, <2>2
<1>4. ASSUME NEW k \in TriedBucket
      PROVE  /\ Upto(N, k) = Share(file, k)
             /\ \A S \in SUBSET Upto(N, k) : IsFiniteSet(S) /\ Cardinality(S) \in Nat
             /\ \A S \in SUBSET Upto(N, k) : Cardinality(S) <= ADDRMAN_TRIED_BUCKET_SIZE
  <2>1. Upto(N, k) = Share(file, k)
    BY <1>1 DEF Share
  <2>2. IsFiniteSet(1 .. N) /\ Upto(N, k) \in SUBSET (1 .. N)
    BY <1>1, FS_Interval, SMTT(20)
  <2> DEFINE U == Upto(N, k)
  <2>3. U = Share(file, k) /\ U \in SUBSET (1 .. N)
    BY <2>1, <2>2
  <2> HIDE DEF U
  <2>4. IsFiniteSet(U) /\ Cardinality(U) \in Nat /\ Cardinality(U) <= ADDRMAN_TRIED_BUCKET_SIZE
    BY <2>2, <2>3, FS_Subset, FS_CardinalityType
  <2>5. ASSUME NEW S \in SUBSET U
        PROVE  /\ IsFiniteSet(S) /\ Cardinality(S) \in Nat
               /\ Cardinality(S) <= ADDRMAN_TRIED_BUCKET_SIZE
    <3>1. IsFiniteSet(S) /\ Cardinality(S) \in Nat /\ Cardinality(S) <= Cardinality(U)
      BY <2>4, FS_Subset, FS_CardinalityType
    <3>2. QED
      BY <2>4, <3>1, Bounds
  <2>6. QED
    BY <2>1, <2>5 DEF U
<1>5. Read(f[0], 0)
  <2> DEFINE x == LoadNew(file)
  <2>1. /\ Agrees(x) /\ x.nIdCount = n /\ DOMAIN x.mapAddr = hosts
    BY LoadNewIs
  <2>2. /\ Ids(x) = 0 .. n - 1 /\ x.vvNew = file.buckets
        /\ \A id \in 0 .. n - 1 : /\ x.mapInfo[id].addr = file.new[id + 1].addr
                                  /\ x.mapInfo[id].source = file.new[id + 1].source
                                  /\ x.mapInfo[id].nLastSuccess = file.new[id + 1].nLastSuccess
                                  /\ x.mapInfo[id].fInTried = FALSE
    BY DEF LoadNew, Empty, Ids
  <2> HIDE DEF x
  <2>3. \A id \in 0 .. n - 1 : Persistent(x.mapInfo[id]) = file.new[id + 1]
    <3>1. TAKE id \in 0 .. n - 1
    <3>2. file.new[id + 1] \in Entry
      BY <1>1
    <3>3. QED
      BY <2>2, <3>2 DEF Persistent, Entry
  <2>4. n + 0 = n
    BY <1>1
  <2>5. QED
    BY <1>2, <2>1, <2>2, <2>3, <2>4 DEF x
<1> HIDE DEF hosts
<1>6. ASSUME NEW m \in 1 .. N, Read(f[m - 1], m - 1)
      PROVE  Read(f[m], m)
  <2> DEFINE x == f[m - 1]
             info == file.tried[m]
             r == LoadTried(x, info)
             k == TriedBucketOf[info.addr]
  <2>1. /\ f[m] = r /\ info \in Entry /\ info.nLastSuccess # 0 /\ k \in TriedBucket
        /\ m - 1 \in 0 .. N /\ m \in Nat
    <3>1. m \in 1 .. Len(file.tried)
      OBVIOUS
    <3>2. f[m] = r /\ info \in Entry /\ info.nLastSuccess # 0
      BY <1>1, <1>2, <3>1
    <3>3. k \in TriedBucket
      BY <3>2, AddrManAssumption DEF Entry
    <3>4. m - 1 \in 0 .. N /\ m \in Nat
      BY <1>1
    <3>5. QED
      BY <3>2, <3>3, <3>4
  <2>2. /\ Agrees(x) /\ Typed(x) /\ x.nIdCount = n + (m - 1) /\ Ids(x) = 0 .. n + (m - 1) - 1
        /\ DOMAIN x.mapAddr \subseteq hosts \cup {IpOf[file.tried[j].addr] : j \in 1 .. m - 1}
        /\ x.vvNew = file.buckets
        /\ \A id \in 0 .. n - 1 : /\ Persistent(x.mapInfo[id]) = file.new[id + 1]
                                  /\ ~ x.mapInfo[id].fInTried
        /\ \A j \in 1 .. m - 1 : /\ Persistent(x.mapInfo[n + j - 1]) = file.tried[j]
                                 /\ x.mapInfo[n + j - 1].fInTried
    BY <1>6 DEF Agrees, Table
  <2>3. Belong(x, k) = {n + j - 1 : j \in Upto(m - 1, k)}
    <3> HIDE DEF Read, Upto, x, k
    <3>1. Read(x, m - 1)
      BY <1>6 DEF x
    <3>2. QED
      BY <1>3, <2>1, <3>1
  <2>4. IpOf[info.addr] \notin DOMAIN x.mapAddr
    <3>1. IpOf[info.addr] \notin hosts
      BY <1>1, <2>1 DEF FileOK, hosts
    <3>2. \A j \in 1 .. m - 1 : j \in 1 .. N /\ j # m
      BY <1>1, <2>1
    <3>3. \A j \in 1 .. m - 1 : IpOf[file.tried[j].addr] # IpOf[info.addr]
      BY <1>1, <3>2 DEF FileOK
    <3>4. DOMAIN x.mapAddr \subseteq hosts \cup {IpOf[file.tried[j].addr] : j \in 1 .. m - 1}
      BY <2>2
    <3> HIDE DEF x, info, Read, Upto
    <3>5. QED
      BY ONLY <3>1, <3>3, <3>4
  <2>5. m \in Upto(N, k) /\ m \notin Upto(m - 1, k) /\ Upto(m - 1, k) \cup {m} \subseteq Upto(N, k)
    BY <1>1, <2>1
  <2> DEFINE J == Upto(m - 1, k)
             B == Belong(x, k)
  <2>6. /\ IsFiniteSet(J) /\ Cardinality(J) \in Nat
        /\ Cardinality(J) + 1 <= ADDRMAN_TRIED_BUCKET_SIZE
    <3> HIDE DEF Upto, k
    <3>1. IsFiniteSet(J) /\ Cardinality(J) \in Nat
          /\ Cardinality(J \cup {m}) <= ADDRMAN_TRIED_BUCKET_SIZE
      BY <1>4, <2>1, <2>5
    <3>2. Cardinality(J \cup {m}) = Cardinality(J) + 1
      BY <2>5, <3>1, FS_AddElement
    <3>3. QED
      BY <3>1, <3>2
  <2>7. Cardinality(B) <= Cardinality(J)
    <3> DEFINE g == [j \in J |-> n + j - 1]
    <3>1. B = {n + j - 1 : j \in J}
      BY <2>3
    <3> HIDE DEF B, J
    <3>2. g \in Surjection(J, B)
      BY <3>1 DEF Surjection
    <3> HIDE DEF g
    <3>3. QED
      BY <2>6, <3>2, FS_Surjection
  <2> HIDE DEF x, k
  <2>8. Len(x.vvTried[k]) \in Nat /\ Cardinality(B) = Len(x.vvTried[k])
    <3>1. Placed(x)
      BY <2>2 DEF Agrees, Table
    <3>2. x.vvTried[k] \in Seq(Ids(x))
      BY <2>1, <2>2 DEF Typed
    <3>3. Once(x.vvTried[k]) /\ Members(x.vvTried[k]) = Belong(x, k)
      BY <2>1, <2>2, <3>1, PlacedIs
    <3>4. QED
      BY <3>2, <3>3, OnceCounts
  <2> HIDE DEF J, B
  <2>9. ~ Len(x.vvTried[k]) >= ADDRMAN_TRIED_BUCKET_SIZE
    BY <2>6, <2>7, <2>8, Bounds
  <2> HIDE DEF info
  <2>10. x.nIdCount <= MaxId /\ x.nIdCount = n + m - 1
    <3>1. N \in Nat /\ n \in Nat /\ n + N <= MaxId + 1 /\ m \in 1 .. N
          /\ x.nIdCount = n + (m - 1)
      BY <1>1, <2>2
    <3> HIDE DEF N, n
    <3>2. QED
      BY <3>1, Bounds
  <2>11. /\ Agrees(r)
         /\ DOMAIN r.mapAddr \subseteq DOMAIN x.mapAddr \cup {IpOf[info.addr]}
    BY <2>1, <2>2, <2>4, <2>10, LoadTriedIs
  <2>12. /\ r.nIdCount = x.nIdCount + 1 /\ Ids(r) = Ids(x) \cup {x.nIdCount}
         /\ r.vvNew = x.vvNew /\ \A id \in Ids(x) : r.mapInfo[id] = x.mapInfo[id]
         /\ Persistent(r.mapInfo[x.nIdCount]) = info /\ r.mapInfo[x.nIdCount].fInTried
    BY <2>1, <2>2, <2>9, LoadTriedTakes DEF k
  <2> HIDE DEF r
  <2>13. r.nIdCount = n + m /\ Ids(r) = 0 .. n + m - 1
    <3>1. /\ n \in Nat /\ m \in Nat /\ m >= 1 /\ x.nIdCount = n + m - 1
          /\ r.nIdCount = x.nIdCount + 1
          /\ Ids(r) = 0 .. n + (m - 1) - 1 \cup {x.nIdCount}
      BY <1>1, <2>1, <2>2, <2>10, <2>12
    <3> HIDE DEF n
    <3>2. QED
      BY <3>1
  <2>14. DOMAIN r.mapAddr \subseteq hosts \cup {IpOf[file.tried[j].addr] : j \in 1 .. m}
    <3>1. {IpOf[file.tried[j].addr] : j \in 1 .. m - 1} \cup {IpOf[info.addr]}
          \subseteq {IpOf[file.tried[j].addr] : j \in 1 .. m}
      BY <1>1, <2>1 DEF info
    <3>2. QED
      BY <2>2, <2>11, <3>1
  <2>15. \A id \in 0 .. n - 1 : /\ Persistent(r.mapInfo[id]) = file.new[id + 1]
                               /\ ~ r.mapInfo[id].fInTried
    <3>1. TAKE id \in 0 .. n - 1
    <3> HIDE DEF n
    <3>2. id \in Ids(x)
      BY <1>1, <2>1, <2>2
    <3>3. r.mapInfo[id] = x.mapInfo[id]
      BY <2>12, <3>2
    <3>4. QED
      BY <2>2, <3>3
  <2>16. \A j \in 1 .. m : /\ Persistent(r.mapInfo[n + j - 1]) = file.tried[j]
                          /\ r.mapInfo[n + j - 1].fInTried
    <3>1. TAKE j \in 1 .. m
    <3>2. CASE j = m
      BY <2>10, <2>12, <3>2 DEF info
    <3>3. CASE j \in 1 .. m - 1
      <4>1. n + j - 1 \in Ids(x)
        BY <1>1, <2>1, <2>2, <3>3
      <4>2. r.mapInfo[n + j - 1] = x.mapInfo[n + j - 1]
        BY <2>12, <4>1
      <4>3. QED
        BY <2>2, <3>3, <4>2
    <3>4. QED
      BY <2>1, <3>2, <3>3
  <2>17. QED
    BY <2>1, <2>2, <2>11, <2>12, <2>13, <2>14, <2>15, <2>16
<1>7. Read(f[N], N)
  <2> DEFINE bad == {i \in 0 .. N : ~ Read(f[i], i)}
  <2> HIDE DEF Read
  <2>1. bad = {}
    <3>1. SUFFICES ASSUME bad # {} PROVE FALSE
      OBVIOUS
    <3>2. PICK m \in bad : \A i \in bad : m <= i
      <4>1. bad \in SUBSET Nat
        OBVIOUS
      <4> HIDE DEF bad
      <4>2. QED
        BY <3>1, <4>1, LeastIs
    <3>3. m \in 0 .. N /\ ~ Read(f[m], m)
      OBVIOUS
    <3>4. m # 0
      BY <1>5, <3>3
    <3>5. m - 1 \in 0 .. N /\ ~ m <= m - 1 /\ m \in 1 .. N
      BY <1>1, <3>3, <3>4
    <3>6. m - 1 \notin bad
      <4> HIDE DEF bad
      <4>1. QED
        BY <3>2, <3>5
    <3>7. Read(f[m - 1], m - 1)
      BY <3>5, <3>6
    <3>8. QED
      BY <1>6, <3>3, <3>5, <3>7
  <2>2. N \in 0 .. N
    BY <1>1
  <2>3. QED
    BY <2>1, <2>2
<1> DEFINE y == Load(file)
<1>8. y = f[N]
  BY <1>2
<1> HIDE DEF y
<1>9. ASSUME NEW k \in TriedBucket
      PROVE  {Persistent(y.mapInfo[id]) : id \in Belong(y, k)} =
             {file.tried[j] : j \in Share(file, k)}
  <2>1. Belong(y, k) = {n + j - 1 : j \in Share(file, k)}
    <3>1. Belong(y, k) = {n + j - 1 : j \in Upto(N, k)}
      <4> HIDE DEF Read, Upto
      <4>1. N \in 0 .. N /\ Read(y, N)
        BY <1>1, <1>7, <1>8
      <4>2. QED
        BY <1>3, <4>1
    <3>2. QED
      BY <1>4, <3>1
  <2>2. \A j \in Share(file, k) : Persistent(y.mapInfo[n + j - 1]) = file.tried[j]
    BY <1>1, <1>7, <1>8 DEF Share
  <2>3. QED
    BY <2>1, <2>2
<1>10. QED
  BY <1>7, <1>8, <1>9 DEF y

\* A member of a set stands where its rank says.
LEMMA OrderRanks ==
    ASSUME NEW S \in SUBSET Nat, IsFiniteSet(S), NEW x \in S
    PROVE  /\ Rank(S, x) \in Nat /\ Rank(S, x) + 1 \in 1 .. Cardinality(S)
           /\ Rank(S, x) \in 0 .. Cardinality(S) - 1
           /\ InOrder(S)[Rank(S, x) + 1] = x
<1> DEFINE r == Rank(S, x)
           c == Cardinality(S)
<1>1. c \in Nat /\ r \in 0 .. c - 1
  BY RankIs
<1> HIDE DEF r, c
<1>2. r \in Nat /\ r + 1 \in 1 .. c /\ (r + 1) - 1 = r
  BY <1>1
<1>3. InOrder(S)[r + 1] \in S /\ Rank(S, InOrder(S)[r + 1]) = r
  BY <1>2, InOrderIs DEF c
<1>4. InOrder(S)[r + 1] = x
  <2> DEFINE z == InOrder(S)[r + 1]
  <2>1. z \in S /\ Rank(S, z) = Rank(S, x)
    BY <1>3 DEF r
  <2> HIDE DEF z
  <2>2. \A u, w \in S : Rank(S, u) = Rank(S, w) => u = w
    BY ONLY IsFiniteSet(S), S \in SUBSET Nat, RankIs
  <2>3. z = x
    BY <2>1, <2>2
  <2>4. QED
    BY <2>3 DEF z
<1>5. QED
  BY <1>1, <1>2, <1>4 DEF r, c

\* What Serialize writes, entry by entry.
LEMMA SerializedIs ==
    ASSUME NEW am, Agrees(am)
    PROVE  /\ \A b \in NewBucket :
                 /\ Serialize(am).buckets[b] = {mapUnkIds(am, id) : id \in am.vvNew[b]}
                 /\ \A id \in am.vvNew[b] :
                       /\ mapUnkIds(am, id) \in 0 .. Len(Serialize(am).new) - 1
                       /\ Serialize(am).new[mapUnkIds(am, id) + 1] = Persistent(am.mapInfo[id])
           /\ \A k \in TriedBucket :
                 /\ Cardinality(Share(Serialize(am), k)) <= ADDRMAN_TRIED_BUCKET_SIZE
                 /\ {Serialize(am).tried[j] : j \in Share(Serialize(am), k)} =
                    {Persistent(am.mapInfo[id]) : id \in Belong(am, k)}
<1> DEFINE new == NewIds(am)
           tried == TriedIds(am)
           file == Serialize(am)
           p == Cardinality(new)
           q == Cardinality(tried)
<1>1. /\ Typed(am) /\ Placed(am) /\ Sizes(am)
      /\ \A x \in Ids(am) : Referenced(am, x) /\ am.mapInfo[x].nRefCount \in Nat
      /\ am.vvNew \in [NewBucket -> SUBSET Ids(am)]
      /\ am.vvTried \in [TriedBucket -> Seq(Ids(am))]
  <2>1. Typed(am)
    BY DEF Agrees, Table
  <2>2. QED
    BY <2>1, InfoIs DEF Agrees, Table, Typed
<1>2. /\ new \in SUBSET Ids(am) /\ tried \in SUBSET Ids(am)
      /\ IsFiniteSet(new) /\ IsFiniteSet(tried) /\ p \in Nat /\ q \in Nat
      /\ new \in SUBSET Nat /\ tried \in SUBSET Nat
  <2>1. new \subseteq Ids(am) /\ tried \subseteq Ids(am)
    BY DEF NewIds, TriedIds
  <2>2. \A x \in Ids(am) : x \in Nat
    BY <1>1, InfoIs
  <2> HIDE DEF new, tried
  <2>3. QED
    BY <1>1, <2>1, <2>2, Finite
<1>3. /\ file.new = [n \in DOMAIN InOrder(new) |-> Persistent(am.mapInfo[InOrder(new)[n]])]
      /\ file.tried = [n \in DOMAIN InOrder(tried) |-> Persistent(am.mapInfo[InOrder(tried)[n]])]
      /\ file.buckets = [b \in NewBucket |-> {mapUnkIds(am, id) : id \in am.vvNew[b]}]
  BY DEF Serialize, NewIds, TriedIds
<1> HIDE DEF file
<1>4. \A id \in Ids(am) : mapUnkIds(am, id) = Rank(new, id)
  <2>1. TAKE id \in Ids(am)
  <2>2. {i \in Ids(am) : i < id /\ am.mapInfo[i].nRefCount > 0} = {i \in new : i < id}
    BY DEF NewIds
  <2>3. QED
    BY <2>2 DEF mapUnkIds, Rank
<1>5. ASSUME NEW b \in NewBucket, NEW id \in am.vvNew[b] PROVE id \in Ids(am) /\ id \in new
  <2>1. id \in Ids(am) /\ Referenced(am, id) /\ am.mapInfo[id].nRefCount \in Nat
    BY <1>1
  <2>2. b \in Holders(am, id) /\ IsFiniteSet(Holders(am, id))
    <3>1. Holders(am, id) \in SUBSET NewBucket /\ b \in Holders(am, id)
      BY DEF Holders
    <3>2. QED
      BY <1>1, <3>1, Finite
  <2>3. Cardinality(Holders(am, id)) # 0
    BY <2>2, FS_EmptySet
  <2>4. am.mapInfo[id].nRefCount > 0
    BY <2>1, <2>3 DEF Referenced
  <2>5. QED
    BY <2>1, <2>4 DEF NewIds
<1> HIDE DEF new, tried
<1>6. /\ Len(file.new) = p
      /\ DOMAIN InOrder(new) = 1 .. p
      /\ DOMAIN InOrder(tried) = 1 .. q /\ DOMAIN file.tried = 1 .. q
      /\ \A n \in 1 .. q : InOrder(tried)[n] \in tried
                           /\ Rank(tried, InOrder(tried)[n]) = n - 1
  BY <1>1, <1>2, <1>3, Written, InOrderIs
<1>7. ASSUME NEW b \in NewBucket
      PROVE  /\ file.buckets[b] = {mapUnkIds(am, id) : id \in am.vvNew[b]}
             /\ \A id \in am.vvNew[b] :
                   /\ mapUnkIds(am, id) \in 0 .. Len(file.new) - 1
                   /\ file.new[mapUnkIds(am, id) + 1] = Persistent(am.mapInfo[id])
  <2>1. file.buckets[b] = {mapUnkIds(am, id) : id \in am.vvNew[b]}
    BY <1>3
  <2>2. ASSUME NEW id \in am.vvNew[b]
        PROVE  /\ mapUnkIds(am, id) \in 0 .. Len(file.new) - 1
               /\ file.new[mapUnkIds(am, id) + 1] = Persistent(am.mapInfo[id])
    <3> DEFINE r == Rank(new, id)
    <3>1. id \in new /\ mapUnkIds(am, id) = r
      BY <1>4, <1>5
    <3>2. r \in 0 .. p - 1 /\ r + 1 \in 1 .. p /\ InOrder(new)[r + 1] = id
      BY <1>2, <3>1, OrderRanks
    <3> HIDE DEF r
    <3>3. file.new[r + 1] = Persistent(am.mapInfo[id])
      BY <1>3, <1>6, <3>2
    <3>4. QED
      BY <1>6, <3>1, <3>2, <3>3
  <2>3. QED
    BY <2>1, <2>2
<1>8. \A n \in 1 .. q : file.tried[n] = Persistent(am.mapInfo[InOrder(tried)[n]])
  BY <1>3, <1>6
<1>9. \A id : Persistent(am.mapInfo[id]).addr = am.mapInfo[id].addr
  BY DEF Persistent
<1>10. ASSUME NEW k \in TriedBucket, NEW j \in Share(file, k)
       PROVE  j \in 1 .. q /\ InOrder(tried)[j] \in Belong(am, k)
  <2>1. j \in 1 .. q /\ TriedBucketOf[file.tried[j].addr] = k
    BY <1>6 DEF Share
  <2>2. TriedBucketOf[am.mapInfo[InOrder(tried)[j]].addr] = k
    BY <1>8, <1>9, <2>1
  <2>3. QED
    BY <1>6, <2>1, <2>2 DEF Belong, tried
<1>11. ASSUME NEW k \in TriedBucket
       PROVE  {file.tried[j] : j \in Share(file, k)} =
              {Persistent(am.mapInfo[id]) : id \in Belong(am, k)}
  <2>1. ASSUME NEW j \in Share(file, k)
        PROVE  file.tried[j] \in {Persistent(am.mapInfo[id]) : id \in Belong(am, k)}
    BY <1>8, <1>10
  <2>2. ASSUME NEW id \in Belong(am, k)
        PROVE  Persistent(am.mapInfo[id]) \in {file.tried[j] : j \in Share(file, k)}
    <3> DEFINE j == Rank(tried, id) + 1
    <3>1. id \in tried /\ TriedBucketOf[am.mapInfo[id].addr] = k
      BY DEF Belong, tried
    <3>2. j \in 1 .. q /\ InOrder(tried)[j] = id
      BY <1>2, <3>1, OrderRanks
    <3> HIDE DEF j
    <3>3. file.tried[j] = Persistent(am.mapInfo[id])
      BY <1>8, <3>2
    <3>4. j \in Share(file, k)
      BY <1>6, <1>9, <3>1, <3>2, <3>3 DEF Share
    <3>5. QED
      BY <3>3, <3>4
  <2>3. QED
    BY <2>1, <2>2
<1>12. ASSUME NEW k \in TriedBucket
       PROVE  Cardinality(Share(file, k)) <= ADDRMAN_TRIED_BUCKET_SIZE
  <2> DEFINE J == Share(file, k)
             B == Belong(am, k)
             g == [j \in J |-> InOrder(tried)[j]]
  <2>1. /\ Len(am.vvTried[k]) \in Nat /\ IsFiniteSet(B) /\ Cardinality(B) = Len(am.vvTried[k])
        /\ Len(am.vvTried[k]) <= ADDRMAN_TRIED_BUCKET_SIZE
    <3>1. Once(am.vvTried[k]) /\ Members(am.vvTried[k]) = Belong(am, k)
      BY <1>1, PlacedIs
    <3>2. am.vvTried[k] \in Seq(Ids(am)) /\ Len(am.vvTried[k]) <= ADDRMAN_TRIED_BUCKET_SIZE
      BY <1>1 DEF Sizes
    <3>3. QED
      BY <3>1, <3>2, OnceCounts
  <2>2. g \in [J -> B]
    BY <1>10
  <2>3. \A i, j \in J : g[i] = g[j] => i = j
    <3>1. SUFFICES ASSUME NEW i \in J, NEW j \in J, g[i] = g[j] PROVE i = j
      OBVIOUS
    <3>2. InOrder(tried)[i] = InOrder(tried)[j] /\ i \in 1 .. q /\ j \in 1 .. q
      BY <1>10, <3>1
    <3>3. i - 1 = j - 1
      BY <1>6, <3>2
    <3>4. QED
      BY <1>2, <3>2, <3>3
  <2> HIDE DEF J, B, g
  <2>4. g \in Injection(J, B)
    BY <2>2, <2>3 DEF Injection, IsInjective
  <2>5. IsFiniteSet(J) /\ Cardinality(J) <= Cardinality(B)
    BY <2>1, <2>4, FS_Injection
  <2>6. Cardinality(J) \in Nat
    BY <2>5, FS_CardinalityType
  <2>7. Cardinality(J) <= ADDRMAN_TRIED_BUCKET_SIZE
    BY <2>1, <2>5, <2>6, Bounds
  <2>8. QED
    BY <2>7 DEF J
<1>13. QED
  BY <1>7, <1>11, <1>12 DEF file

\* What a whole table is written to is read back into the same buckets.
LEMMA LoadSerialize ==
    ASSUME NEW am, Agrees(am)
    PROVE  Tables(Load(Serialize(am))) = Tables(am)
<1> DEFINE file == Serialize(am)
           y == Load(file)
<1>1. FileOK(file) /\ Agrees(y)
  BY SerializeIs, LoadAgrees
<1>2. /\ \A b \in NewBucket :
            /\ file.buckets[b] = {mapUnkIds(am, id) : id \in am.vvNew[b]}
            /\ \A id \in am.vvNew[b] :
                  /\ mapUnkIds(am, id) \in 0 .. Len(file.new) - 1
                  /\ file.new[mapUnkIds(am, id) + 1] = Persistent(am.mapInfo[id])
      /\ \A k \in TriedBucket :
            /\ Cardinality(Share(file, k)) <= ADDRMAN_TRIED_BUCKET_SIZE
            /\ {file.tried[j] : j \in Share(file, k)} =
               {Persistent(am.mapInfo[id]) : id \in Belong(am, k)}
  BY SerializedIs
<1>3. /\ \A b \in NewBucket : y.vvNew[b] = file.buckets[b]
      /\ \A id \in 0 .. Len(file.new) - 1 : Persistent(y.mapInfo[id]) = file.new[id + 1]
      /\ \A k \in TriedBucket :
            {Persistent(y.mapInfo[id]) : id \in Belong(y, k)} =
            {file.tried[j] : j \in Share(file, k)}
  <2> HIDE DEF file
  <2>1. QED
    BY <1>1, <1>2, LoadKeepsAll
<1> HIDE DEF file, y
<1>4. ASSUME NEW b \in NewBucket
      PROVE  {Persistent(y.mapInfo[id]) : id \in y.vvNew[b]} =
             {Persistent(am.mapInfo[id]) : id \in am.vvNew[b]}
  <2>1. y.vvNew[b] = {mapUnkIds(am, id) : id \in am.vvNew[b]}
    BY <1>2, <1>3
  <2>2. \A id \in am.vvNew[b] : Persistent(y.mapInfo[mapUnkIds(am, id)]) = Persistent(am.mapInfo[id])
    BY <1>2, <1>3
  <2>3. QED
    BY <2>1, <2>2
<1>5. ASSUME NEW k \in TriedBucket, NEW x, Agrees(x)
      PROVE  {Persistent(x.mapInfo[x.vvTried[k][i]]) : i \in DOMAIN x.vvTried[k]} =
             {Persistent(x.mapInfo[id]) : id \in Belong(x, k)}
  <2>1. Members(x.vvTried[k]) = Belong(x, k)
    BY <1>5, PlacedIs DEF Agrees, Table
  <2>2. QED
    BY <2>1 DEF Members
<1>6. ASSUME NEW k \in TriedBucket
      PROVE  {Persistent(y.mapInfo[y.vvTried[k][i]]) : i \in DOMAIN y.vvTried[k]} =
             {Persistent(am.mapInfo[am.vvTried[k][i]]) : i \in DOMAIN am.vvTried[k]}
  <2>1. {Persistent(y.mapInfo[y.vvTried[k][i]]) : i \in DOMAIN y.vvTried[k]} =
        {Persistent(y.mapInfo[id]) : id \in Belong(y, k)}
    BY <1>1, <1>5
  <2>2. {Persistent(am.mapInfo[am.vvTried[k][i]]) : i \in DOMAIN am.vvTried[k]} =
        {Persistent(am.mapInfo[id]) : id \in Belong(am, k)}
    BY <1>5
  <2>3. {Persistent(y.mapInfo[id]) : id \in Belong(y, k)} =
        {Persistent(am.mapInfo[id]) : id \in Belong(am, k)}
    BY <1>2, <1>3
  <2>4. QED
    BY <2>1, <2>2, <2>3
<1>7. Tables(y) = Tables(am)
  BY <1>4, <1>6 DEF Tables
<1>8. QED
  BY <1>7 DEF y, file

-----------------------------------------------------------------------------
(* The whole component                                                      *)

\* The empty table is whole.
LEMMA EmptyAgrees == Agrees(Empty)
<1>1. /\ Ids(Empty) = {} /\ Empty.vvNew = [b \in NewBucket |-> {}]
      /\ Empty.vvTried = [k \in TriedBucket |-> <<>>] /\ Empty.nNew = 0 /\ Empty.nTried = 0
      /\ Empty.vRandom = <<>> /\ Empty.mapAddr = <<>> /\ Empty.nIdCount = 0
      /\ Empty.mapInfo = <<>>
  BY DEF Empty, Ids
<1>2. TriedIds(Empty) = {}
  BY <1>1 DEF TriedIds
<1>3. Typed(Empty)
  <2>1. /\ Empty.mapInfo \in [Ids(Empty) -> Info]
        /\ Empty.mapAddr \in [DOMAIN Empty.mapAddr -> Ids(Empty)]
        /\ Empty.vRandom \in Seq(Ids(Empty))
        /\ Empty.vvNew \in [NewBucket -> SUBSET Ids(Empty)]
        /\ Empty.vvTried \in [TriedBucket -> Seq(Ids(Empty))]
    BY <1>1
  <2>2. Empty.nIdCount \in 0 .. MaxId + 1 /\ Ids(Empty) \subseteq 0 .. Empty.nIdCount - 1
    BY <1>1, Bounds
  <2>3. Empty \in [mapInfo : {Empty.mapInfo}, mapAddr : {Empty.mapAddr},
                   vRandom : {Empty.vRandom}, nIdCount : {Empty.nIdCount},
                   nNew : {Empty.nNew}, nTried : {Empty.nTried},
                   vvNew : {Empty.vvNew}, vvTried : {Empty.vvTried}]
    BY DEF Empty
  <2>4. QED
    BY <2>1, <2>2, <2>3 DEF Typed
<1>4. Order(Empty) /\ Addresses(Empty)
  BY <1>1 DEF Order, Addresses
<1>5. Placed(Empty)
  BY <1>1 DEF Placed
<1>6. Counts(Empty)
  BY <1>1, <1>2, FS_EmptySet DEF Counts
<1>7. Sizes(Empty)
  <2>1. /\ \A b \in NewBucket : Cardinality(Empty.vvNew[b]) = 0
        /\ \A k \in TriedBucket : Len(Empty.vvTried[k]) = 0
    BY <1>1, FS_EmptySet
  <2>2. QED
    BY <2>1, Bounds DEF Sizes
<1>8. QED
  BY <1>1, <1>3, <1>4, <1>5, <1>6, <1>7 DEF Agrees, Table

\* A whole table is one that Check_ has no complaint about.
LEMMA AgreesChecks ==
    ASSUME Agrees(addrman)
    PROVE  Check
<1>1. /\ Typed(addrman) /\ Order(addrman) /\ Addresses(addrman) /\ Placed(addrman)
      /\ Counts(addrman) /\ Sizes(addrman)
      /\ \A id \in Ids(addrman) : Referenced(addrman, id)
  BY DEF Agrees, Table
<1> DEFINE v == addrman.vRandom
           c == Cardinality(Ids(addrman))
<1>2. /\ addrman.mapInfo \in [Ids(addrman) -> Info] /\ v \in Seq(Ids(addrman))
      /\ addrman.mapAddr \in [DOMAIN addrman.mapAddr -> Ids(addrman)]
      /\ addrman.vvNew \in [NewBucket -> SUBSET Ids(addrman)]
      /\ addrman.vvTried \in [TriedBucket -> Seq(Ids(addrman))]
      /\ addrman.nIdCount \in 0 .. MaxId + 1 /\ Ids(addrman) \subseteq 0 .. addrman.nIdCount - 1
  BY <1>1 DEF Typed
<1>3. IsFiniteSet(Ids(addrman)) /\ c \in Nat /\ c <= MaxId + 1
  <2>1. IsFiniteSet(Ids(addrman)) /\ c \in Nat /\ c <= addrman.nIdCount
    BY <1>1, Finite
  <2> HIDE DEF c
  <2>2. QED
    BY <1>2, <2>1, Bounds
<1>4. Len(v) = c
  <2> DEFINE D == DOMAIN v
             f == [i \in D |-> v[i]]
  <2>1. Len(v) \in Nat /\ D = 1 .. Len(v) /\ \A i \in D : v[i] \in Ids(addrman)
    BY <1>2
  <2>2. f \in [D -> Ids(addrman)]
    BY <2>1
  <2>3. /\ \A id \in Ids(addrman) : \E i \in D : f[i] = id
        /\ \A i, j \in D : f[i] = f[j] => i = j
    BY <1>1, <2>1 DEF Order
  <2> HIDE DEF f
  <2>4. f \in Surjection(D, Ids(addrman)) /\ f \in Injection(D, Ids(addrman))
    BY <2>2, <2>3 DEF Surjection, Injection, IsInjective
  <2>5. Cardinality(D) = c
    BY <1>3, <2>4, FS_Injection
  <2> HIDE DEF D
  <2>6. Cardinality(1 .. Len(v)) = Len(v)
    <3>1. Cardinality(1 .. Len(v)) = IF 1 > Len(v) THEN 0 ELSE Len(v) - 1 + 1
      BY <2>1, FS_Interval, SMTT(20)
    <3>2. QED
      BY <2>1, <3>1
  <2>7. QED
    BY <2>1, <2>5, <2>6
<1>5. RandomOrderConsistent
  BY <1>1, <1>4 DEF RandomOrderConsistent, Order
<1>6. RefCountsMatchBuckets
  BY <1>1 DEF RefCountsMatchBuckets, Referenced, Holders
<1>7. CountsMatch
  BY <1>1 DEF CountsMatch, Counts, TriedIds
<1>8. AddressesIndexed
  BY <1>1, <1>2 DEF AddressesIndexed, Addresses
<1>9. BucketsWithinSize
  BY <1>1 DEF BucketsWithinSize, Sizes
<1>10. TriedEntriesPlacedOnce
  <2> SUFFICES ASSUME NEW id \in Ids(addrman)
               PROVE  LET info == addrman.mapInfo[id]
                          places == {p \in TriedBucket \X (1..ADDRMAN_TRIED_BUCKET_SIZE) :
                                       /\ p[2] \in DOMAIN addrman.vvTried[p[1]]
                                       /\ addrman.vvTried[p[1]][p[2]] = id}
                      IN  IF info.fInTried
                          THEN /\ info.nLastSuccess # 0
                               /\ Cardinality(places) = 1
                               /\ \A p \in places : p[1] = TriedBucketOf[info.addr]
                          ELSE places = {}
    BY DEF TriedEntriesPlacedOnce
  <2> DEFINE info == addrman.mapInfo[id]
             places == {p \in TriedBucket \X (1..ADDRMAN_TRIED_BUCKET_SIZE) :
                          /\ p[2] \in DOMAIN addrman.vvTried[p[1]]
                          /\ addrman.vvTried[p[1]][p[2]] = id}
             k == TriedBucketOf[info.addr]
  <2>1. \A p \in places : /\ p[1] \in TriedBucket /\ p[2] \in DOMAIN addrman.vvTried[p[1]]
                          /\ addrman.vvTried[p[1]][p[2]] = id /\ p = <<p[1], p[2]>>
    OBVIOUS
  <2>2. \A p \in places : info.fInTried /\ p[1] = k
    BY <1>1, <2>1 DEF Placed
  <2>3. CASE info.fInTried
    <3>1. k \in TriedBucket
      BY <1>1, InfoIs
    <3>2. PICK i \in DOMAIN addrman.vvTried[k] : addrman.vvTried[k][i] = id
      BY <1>1, <2>3 DEF Placed
    <3>3. i \in 1 .. ADDRMAN_TRIED_BUCKET_SIZE
      <4>1. addrman.vvTried[k] \in Seq(Ids(addrman))
            /\ Len(addrman.vvTried[k]) <= ADDRMAN_TRIED_BUCKET_SIZE
        BY <1>1, <1>2, <3>1 DEF Sizes
      <4> HIDE DEF k
      <4>2. i \in 1 .. Len(addrman.vvTried[k]) /\ Len(addrman.vvTried[k]) \in Nat
        BY <3>2, <4>1
      <4>3. QED
        BY <4>1, <4>2, Bounds
    <3>4. <<k, i>> \in places
      BY <3>1, <3>2, <3>3
    <3>5. \A p \in places : p = <<k, i>>
      <4>1. TAKE p \in places
      <4>2. p[1] = k /\ p[2] \in DOMAIN addrman.vvTried[k] /\ addrman.vvTried[k][p[2]] = id
        BY <2>1, <2>2
      <4>3. p[2] = i
        <5>1. \A m, j \in DOMAIN addrman.vvTried[k] :
                 addrman.vvTried[k][m] = addrman.vvTried[k][j] => m = j
          BY <1>1, <3>1, PlacedOnce
        <5>2. QED
          BY ONLY <3>2, <4>2, <5>1
      <4>4. QED
        BY <2>1, <4>2, <4>3
    <3> HIDE DEF places
    <3>6. places = {<<k, i>>}
      BY <3>4, <3>5
    <3>7. Cardinality(places) = 1
      BY <3>6, FS_Singleton
    <3>8. info.nLastSuccess # 0
      BY <1>1, <2>3 DEF Placed
    <3>9. QED
      BY <2>2, <2>3, <3>7, <3>8 DEF places
  <2>4. CASE ~ info.fInTried
    <3>1. places = {}
      BY <2>2, <2>4
    <3>2. QED
      BY <2>4, <3>1
  <2>5. QED
    BY <2>3, <2>4
<1>11. TypeOK
  <2> DEFINE Entered == [addr : Service, source : Source, nLastSuccess : 0..MaxTime,
                         nRefCount : 0..ADDRMAN_NEW_BUCKETS_PER_ADDRESS,
                         fInTried : BOOLEAN, nRandomPos : 0..(MaxId + 1)]
  <2>1. Ids(addrman) \subseteq 0 .. MaxId /\ addrman.nIdCount \in 0 .. (MaxId + 1)
    BY <1>2, Bounds
  <2>2. ASSUME NEW id \in Ids(addrman) PROVE addrman.mapInfo[id] \in Entered
    <3>1. addrman.mapInfo[id] \in Info
      BY <1>2
    <3>2. addrman.mapInfo[id].nRandomPos \in 1 .. Len(v)
      <4>1. addrman.mapInfo[id].nRandomPos \in DOMAIN addrman.vRandom
        BY <1>1 DEF Order
      <4>2. DOMAIN addrman.vRandom = 1 .. Len(addrman.vRandom)
        BY <1>2
      <4>3. QED
        BY <4>1, <4>2
    <3>3. addrman.mapInfo[id].nRandomPos \in 0 .. MaxId + 1
      <4>1. Len(v) \in Nat /\ Len(v) <= MaxId + 1
        BY <1>3, <1>4
      <4> HIDE DEF v
      <4>2. QED
        BY <3>2, <4>1, Bounds
    <3>4. addrman.mapInfo[id].nRefCount \in 0 .. ADDRMAN_NEW_BUCKETS_PER_ADDRESS
      <4>1. addrman.mapInfo[id].nRefCount \in Nat
        BY <3>1 DEF Info
      <4>2. addrman.mapInfo[id].nRefCount <= ADDRMAN_NEW_BUCKETS_PER_ADDRESS
        BY <1>1 DEF Referenced
      <4>3. QED
        BY <4>1, <4>2, Bounds
    <3>5. QED
      BY <3>1, <3>3, <3>4 DEF Info
  <2>3. addrman.mapInfo \in [Ids(addrman) -> Entered]
    <3> HIDE DEF Entered
    <3>1. QED
      BY <1>2, <2>2
  <2>4. {addrman.nNew, addrman.nTried} \subseteq 0 .. (MaxId + 1)
    <3> DEFINE t == TriedIds(addrman)
               u == Ids(addrman) \ TriedIds(addrman)
    <3>1. t \in SUBSET Ids(addrman) /\ u \in SUBSET Ids(addrman)
      BY DEF TriedIds
    <3>2. addrman.nTried = Cardinality(t) /\ addrman.nNew = Cardinality(u)
      BY <1>1 DEF Counts
    <3> HIDE DEF t, u
    <3>3. /\ Cardinality(t) \in Nat /\ Cardinality(t) <= c
          /\ Cardinality(u) \in Nat /\ Cardinality(u) <= c
      BY <1>1, <1>3, <3>1, Finite, FS_Subset
    <3> HIDE DEF c
    <3>4. Cardinality(t) \in 0 .. (MaxId + 1) /\ Cardinality(u) \in 0 .. (MaxId + 1)
      BY <1>3, <3>3, Bounds
    <3>5. QED
      BY <3>2, <3>4
  <2>5. QED
    BY <1>2, <2>1, <2>3, <2>4 DEF TypeOK
<1>12. QED
  BY <1>5, <1>6, <1>7, <1>8, <1>9, <1>10, <1>11 DEF Check

(* The table is whole, and so is the one that peers.dat holds.              *)
AddrManInv == Agrees(addrman) /\ FileOK(peers)

\* AddrManInv is an invariant: every operation of CAddrMan keeps its tables whole, and
\* peers.dat never holds what they could not be read back from.
THEOREM AddrManInvariant == Spec => []AddrManInv
<1>1. Init => AddrManInv
  BY EmptyAgrees, SerializeIs DEF Init, AddrManInv
<1>2. AddrManInv /\ [Next]_vars => AddrManInv'
  <2> SUFFICES ASSUME AddrManInv, [Next]_vars PROVE AddrManInv'
    OBVIOUS
  <2>1. Agrees(addrman) /\ FileOK(peers)
    BY DEF AddrManInv
  <2>2. CASE UNCHANGED vars
    BY <2>1, <2>2 DEF AddrManInv, vars
  <2>3. ASSUME NEW s \in Service, NEW src \in Source, Add(s, src)
        PROVE  AddrManInv'
    <3>1. Agrees(addrman') /\ peers' = peers
      BY <2>1, <2>3, AddKeeps
    <3>2. QED
      BY <2>1, <3>1 DEF AddrManInv
  <2>4. ASSUME NEW s \in Service, NEW nTime \in 1 .. MaxTime, Good(s, nTime)
        PROVE  AddrManInv'
    <3>1. Agrees(addrman') /\ peers' = peers
      BY <2>1, <2>4, GoodKeeps
    <3>2. QED
      BY <2>1, <3>1 DEF AddrManInv
  <2>5. CASE GetAddr
    <3>1. Agrees(addrman') /\ peers' = peers
      BY <2>1, <2>5, GetAddrKeeps
    <3>2. QED
      BY <2>1, <3>1 DEF AddrManInv
  <2>6. CASE DumpAddresses
    <3>1. peers' = Serialize(addrman) /\ addrman' = addrman
      BY <2>6 DEF DumpAddresses
    <3>2. FileOK(Serialize(addrman))
      BY <2>1, SerializeIs
    <3>3. QED
      BY <2>1, <3>1, <3>2 DEF AddrManInv
  <2>7. CASE Restart
    <3>1. addrman' = Load(peers) /\ peers' = peers
      BY <2>7 DEF Restart
    <3>2. Agrees(Load(peers))
      BY <2>1, LoadAgrees
    <3>3. QED
      BY <2>1, <3>1, <3>2 DEF AddrManInv
  <2>8. QED
    BY <2>2, <2>3, <2>4, <2>5, <2>6, <2>7 DEF Next
<1>3. QED
  BY <1>1, <1>2, PTL DEF Spec

\* Check holds after every call: what CAddrMan::Check_ tests in a debug build never
\* fails, whatever is added, tried, evicted, shuffled, dumped and read back.
THEOREM AddrManChecks == Spec => []Check
<1>1. AddrManInv => Check
  BY AgreesChecks DEF AddrManInv
<1>2. QED
  BY <1>1, AddrManInvariant, PTL

\* TriedNeverForgotten: "They are never deleted while in the tried table, only possibly
\* evicted back to the new table" (addrman.h:215).
THEOREM TriedStayKnown == Spec => TriedNeverForgotten
<1>1. AddrManInv /\ [Next]_vars =>
         [addrman' # Load(peers) =>
            \A id \in Ids(addrman) : addrman.mapInfo[id].fInTried =>
               /\ id \in Ids(addrman')
               /\ addrman'.mapInfo[id].addr = addrman.mapInfo[id].addr]_vars
  <2> SUFFICES ASSUME AddrManInv, Next, addrman' # Load(peers)
               PROVE  Remembered(addrman, addrman')
    BY DEF Remembered, TriedIds
  <2>1. Agrees(addrman)
    BY DEF AddrManInv
  <2>2. ASSUME NEW s \in Service, NEW src \in Source, Add(s, src)
        PROVE  Remembered(addrman, addrman')
    BY <2>1, <2>2, AddKeeps
  <2>3. ASSUME NEW s \in Service, NEW nTime \in 1 .. MaxTime, Good(s, nTime)
        PROVE  Remembered(addrman, addrman')
    BY <2>1, <2>3, GoodKeeps
  <2>4. CASE GetAddr
    BY <2>1, <2>4, GetAddrKeeps
  <2>5. CASE DumpAddresses
    BY <2>5 DEF DumpAddresses, Remembered, TriedIds
  <2>6. CASE Restart
    BY <2>6 DEF Restart
  <2>7. QED
    BY <2>2, <2>3, <2>4, <2>5, <2>6 DEF Next
<1>2. QED
  BY <1>1, AddrManInvariant, PTL DEF Spec, TriedNeverForgotten

\* DumpLoadKeepsTables: CAddrMan's serialization, which renumbers the entries, and its
\* reading, which rebuilds the indexes, lose no address and move none to another bucket.
THEOREM DumpNeverLoses == Spec => []DumpLoadKeepsTables
<1>1. AddrManInv => DumpLoadKeepsTables
  BY LoadSerialize DEF AddrManInv, DumpLoadKeepsTables
<1>2. QED
  BY <1>1, AddrManInvariant, PTL
=============================================================================
