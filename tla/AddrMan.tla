------------------------------- MODULE AddrMan -------------------------------
(***************************************************************************)
(* The address manager (addrman.cpp, addrman.h) and its file peers.dat     *)
(* (CAddrDB in db.cpp).  Every operation runs under the lock cs, so each   *)
(* is one step.                                                            *)
(*                                                                         *)
(* Addresses are CServices: an IP and a port; mapAddr is keyed by the IP   *)
(* alone.  The keyed hashes that choose buckets are constant functions.    *)
(* Times and attempt counts are abstracted, except nLastSuccess: which     *)
(* entry of a full bucket is terrible or oldest (ShrinkNew), and whether   *)
(* Add_ finds newer information, are free choices.                         *)
(***************************************************************************)
EXTENDS Integers, FiniteSets, SequencesExt

CONSTANTS
    Service,      \* the addresses heard of
    IP,           \* their hosts
    Source,       \* the hosts that tell about them
    IpOf,         \* IpOf[s]: the host of s
    NewBucket, TriedBucket,
    NewBucketOf,  \* NewBucketOf[s][src]: GetNewBucket(nKey, src)
    TriedBucketOf,
    ADDRMAN_NEW_BUCKET_SIZE,
    ADDRMAN_TRIED_BUCKET_SIZE,
    ADDRMAN_NEW_BUCKETS_PER_ADDRESS,
    ADDRMAN_TRIED_ENTRIES_INSPECT_ON_EVICT,
    ADDRMAN_GETADDR_MAX_PCT,
    MaxId,        \* bound: entries created between two loads
    MaxTime       \* bound: values of nLastSuccess

ASSUME AddrManAssumption ==
    /\ IpOf \in [Service -> IP]
    /\ NewBucketOf \in [Service -> [Source -> NewBucket]]
    /\ TriedBucketOf \in [Service -> TriedBucket]
    /\ IsFiniteSet(NewBucket)
    /\ {ADDRMAN_NEW_BUCKET_SIZE, ADDRMAN_TRIED_BUCKET_SIZE,
        ADDRMAN_NEW_BUCKETS_PER_ADDRESS, ADDRMAN_TRIED_ENTRIES_INSPECT_ON_EVICT,
        MaxTime} \subseteq Nat \ {0}
    /\ {ADDRMAN_GETADDR_MAX_PCT, MaxId} \subseteq Nat

VARIABLES
    addrman,  \* the CAddrMan in memory
    peers     \* what peers.dat holds

vars == <<addrman, peers>>

(* CAddrInfo.  nRandomPos counts from 1, as the sequence vRandom does.      *)
CAddrInfo(s, src) ==
    [addr |-> s, source |-> src, nLastSuccess |-> 0,
     nRefCount |-> 0, fInTried |-> FALSE, nRandomPos |-> 0]

Empty ==
    [mapInfo |-> <<>>, mapAddr |-> <<>>, vRandom |-> <<>>, nIdCount |-> 0,
     nNew |-> 0, nTried |-> 0,
     vvNew |-> [b \in NewBucket |-> {}], vvTried |-> [b \in TriedBucket |-> <<>>]]

Ids(am) == DOMAIN am.mapInfo

\* The entry of a service: none when its IP is known under another port.
Found(am, s) ==
    {id \in Ids(am) : /\ am.mapInfo[id].addr = s
                      /\ IpOf[s] \in DOMAIN am.mapAddr
                      /\ am.mapAddr[IpOf[s]] = id}

Without(f, x) == [y \in DOMAIN f \ {x} |-> f[y]]
With(f, x, v) == [y \in DOMAIN f \cup {x} |-> IF y = x THEN v ELSE f[y]]

-----------------------------------------------------------------------------
(* Entries.                                                                 *)

Create(am, s, src) ==
    [am EXCEPT
        !.mapInfo = With(@, am.nIdCount, [CAddrInfo(s, src) EXCEPT
                                            !.nRandomPos = Len(am.vRandom) + 1]),
        !.mapAddr = With(@, IpOf[s], am.nIdCount),
        !.vRandom = Append(@, am.nIdCount),
        !.nIdCount = @ + 1,
        !.nNew = @ + 1]

\* Fault: only the identifiers move.
SwapRandomOnly(am, i, j) ==
    [am EXCEPT !.vRandom[i] = am.vRandom[j], !.vRandom[j] = am.vRandom[i]]

SwapRandom(am, i, j) ==
    LET a == am.vRandom[i]
        b == am.vRandom[j]
    IN  [am EXCEPT !.vRandom[i] = b, !.vRandom[j] = a,
                   !.mapInfo[a].nRandomPos = j, !.mapInfo[b].nRandomPos = i]

\* The last reference is gone: forget the entry.
Delete(am, id) ==
    LET swapped == SwapRandom(am, am.mapInfo[id].nRandomPos, Len(am.vRandom))
    IN  [swapped EXCEPT !.vRandom = Front(@),
                        !.mapAddr = Without(@, IpOf[am.mapInfo[id].addr]),
                        !.mapInfo = Without(@, id),
                        !.nNew = @ - 1]

\* ShrinkNew, once the terrible or oldest entry of the bucket is chosen.
ShrinkNew(am, b, victim) ==
    LET refs == am.mapInfo[victim].nRefCount - 1
        less == [am EXCEPT !.mapInfo[victim].nRefCount = refs,
                           !.vvNew[b] = @ \ {victim}]
    IN  IF refs = 0 THEN Delete(less, victim) ELSE less

\* The early returns of Add_ that depend on the entry's state.
MayReference(am, id) ==
    /\ ~am.mapInfo[id].fInTried
    /\ am.mapInfo[id].nRefCount # ADDRMAN_NEW_BUCKETS_PER_ADDRESS

\* The end of Add_: reference the entry from the bucket of its source.
InsertNew(am, id, b, victim) ==
    LET counted == [am EXCEPT !.mapInfo[id].nRefCount = @ + 1]
        shrunk == IF Cardinality(am.vvNew[b]) = ADDRMAN_NEW_BUCKET_SIZE
                  THEN ShrinkNew(counted, b, victim) ELSE counted
    IN  IF id \in am.vvNew[b] THEN am
        ELSE [shrunk EXCEPT !.vvNew[b] = @ \cup {id}]

-----------------------------------------------------------------------------
(* Tried buckets.                                                           *)

\* What GetRandInt may give the shuffle of a vector's first n positions.
Picks(n, v) == {p \in [1..n -> 1..Len(v)] : \A i \in 1..n : p[i] >= i}

Inspected(v) ==
    IF Len(v) < ADDRMAN_TRIED_ENTRIES_INSPECT_ON_EVICT
    THEN Len(v) ELSE ADDRMAN_TRIED_ENTRIES_INSPECT_ON_EVICT

\* SelectTried: the bucket after the shuffle, the entry found least recently
\* tried, and the position returned: that of the entry before the exchange.
SelectTried(am, v, picks) ==
    LET Inspect(acc, i) ==
            LET id == acc.v[picks[i]]
                swapped == [acc.v EXCEPT ![picks[i]] = acc.v[i], ![i] = id]
            IN  IF \/ acc.nOldestPos = 0
                   \/ am.mapInfo[id].nLastSuccess
                        < am.mapInfo[acc.nOldest].nLastSuccess
                THEN [v |-> swapped, nOldest |-> id, nOldestPos |-> picks[i]]
                ELSE [acc EXCEPT !.v = swapped]
        after[i \in 0..Len(picks)] ==
            IF i = 0 THEN [v |-> v, nOldest |-> 0, nOldestPos |-> 0]
            ELSE Inspect(after[i - 1], i)
    IN  after[Len(picks)]

\* Where an entry evicted from a tried bucket goes: its own new bucket, or
\* the one its successor has just left.
EvictedTo(am, old, nOrigin) ==
    LET own == NewBucketOf[am.mapInfo[old].addr][am.mapInfo[old].source]
    IN  IF Cardinality(am.vvNew[own]) < ADDRMAN_NEW_BUCKET_SIZE
        THEN own ELSE nOrigin

\* Fault: the evicted entry is forgotten.
EvictAway(am, old, b) == Delete([am EXCEPT !.nNew = @ + 1], old)

\* An entry leaves the tried set for a new bucket.
Evict(am, old, b) ==
    [am EXCEPT !.mapInfo[old].fInTried = FALSE, !.mapInfo[old].nRefCount = 1,
               !.vvNew[b] = @ \cup {old}, !.nNew = @ + 1]

\* An entry leaves every new bucket.
LeaveNew(am, id) ==
    [am EXCEPT !.mapInfo[id].nRefCount =
                    @ - Cardinality({b \in NewBucket : id \in am.vvNew[b]}),
               !.mapInfo[id].fInTried = TRUE,
               !.vvNew = [b \in NewBucket |-> @[b] \ {id}],
               !.nNew = @ - 1]

MakeTried(am, id, nOrigin, picks) ==
    LET k == TriedBucketOf[am.mapInfo[id].addr]
        left == LeaveNew(am, id)
        sel == SelectTried(left, am.vvTried[k], picks)
        old == sel.v[sel.nOldestPos]
    IN  IF Len(am.vvTried[k]) < ADDRMAN_TRIED_BUCKET_SIZE
        THEN [left EXCEPT !.vvTried[k] = Append(@, id), !.nTried = @ + 1]
        ELSE [Evict(left, old, EvictedTo(left, old, nOrigin)) EXCEPT
                !.vvTried[k] = [sel.v EXCEPT ![sel.nOldestPos] = id]]

-----------------------------------------------------------------------------
(* peers.dat: the serialization of CAddrMan.  Identifiers are replaced by   *)
(* the place of the entry among the new ones; the rest is rebuilt.          *)

\* The identifiers of a map, in the order it is written.
InOrder(S) ==
    [n \in 1..Cardinality(S) |->
        CHOOSE id \in S : Cardinality({i \in S : i < id}) = n - 1]

Persistent(info) == [addr |-> info.addr, source |-> info.source,
                     nLastSuccess |-> info.nLastSuccess]

mapAllIds(am, id) == Cardinality({i \in Ids(am) : i < id})

\* mapUnkIds: how many new entries precede id.
mapUnkIds(am, id) ==
    Cardinality({i \in Ids(am) : i < id /\ am.mapInfo[i].nRefCount > 0})

Serialize(am) ==
    LET InfosOf(S) ==
            LET ids == InOrder(S)
            IN  [n \in DOMAIN ids |-> Persistent(am.mapInfo[ids[n]])]
    IN  [new |-> InfosOf({id \in Ids(am) : am.mapInfo[id].nRefCount > 0}),
         tried |-> InfosOf({id \in Ids(am) : am.mapInfo[id].fInTried}),
         buckets |-> [b \in NewBucket |->
                        {mapUnkIds(am, id) : id \in am.vvNew[b]}]]

\* One tried entry read back; it is lost when its bucket is full.
LoadTried(am, info) ==
    LET k == TriedBucketOf[info.addr]
        id == am.nIdCount
    IN  IF Len(am.vvTried[k]) >= ADDRMAN_TRIED_BUCKET_SIZE THEN am
        ELSE [am EXCEPT
                !.mapInfo = With(@, id,
                    [addr |-> info.addr, source |-> info.source,
                     nLastSuccess |-> info.nLastSuccess, nRefCount |-> 0,
                     fInTried |-> TRUE, nRandomPos |-> Len(am.vRandom) + 1]),
                !.mapAddr = With(@, IpOf[info.addr], id),
                !.vRandom = Append(@, id),
                !.vvTried[k] = Append(@, id),
                !.nIdCount = @ + 1,
                !.nTried = @ + 1]

\* The new entries and their buckets.  The code's limit on nRefCount while it
\* reads cannot be met: a dump holds no entry above it.
LoadNew(file) ==
    LET n == Len(file.new)
        refs(id) == Cardinality({b \in NewBucket : id \in file.buckets[b]})
    IN  [Empty EXCEPT
            !.mapInfo = [id \in 0..(n - 1) |->
                [addr |-> file.new[id + 1].addr,
                 source |-> file.new[id + 1].source,
                 nLastSuccess |-> file.new[id + 1].nLastSuccess,
                 nRefCount |-> refs(id), fInTried |-> FALSE,
                 nRandomPos |-> id + 1]],
            !.mapAddr = [ip \in {IpOf[file.new[i].addr] : i \in 1..n} |->
                CHOOSE id \in 0..(n - 1) : IpOf[file.new[id + 1].addr] = ip],
            !.vRandom = [i \in 1..n |-> i - 1],
            !.vvNew = file.buckets,
            !.nIdCount = n,
            !.nNew = n]

Load(file) ==
    LET after[n \in 0..Len(file.tried)] ==
            IF n = 0 THEN LoadNew(file) ELSE LoadTried(after[n - 1], file.tried[n])
    IN  after[Len(file.tried)]

-----------------------------------------------------------------------------
Init == addrman = Empty /\ peers = Serialize(Empty)

\* Add_: s is heard of from src.
Add(s, src) ==
    \E am \in {IF IpOf[s] \in DOMAIN addrman.mapAddr
               THEN addrman ELSE Create(addrman, s, src)} :
        LET id == am.mapAddr[IpOf[s]]
            b == NewBucketOf[am.mapInfo[id].addr][src]
        IN  /\ am.nIdCount <= MaxId
            /\ MayReference(am, id)
            /\ \E victim \in am.vvNew[b] \cup {id} :
                /\ Cardinality(am.vvNew[b]) = ADDRMAN_NEW_BUCKET_SIZE
                        => victim # id
                /\ addrman' = InsertNew(am, id, b, victim)
            /\ UNCHANGED peers

\* Good_: a connection to s succeeded at nTime.
Good(s, nTime) ==
    \E id \in Found(addrman, s) :
        LET am == [addrman EXCEPT !.mapInfo[id].nLastSuccess = nTime]
            v == am.vvTried[TriedBucketOf[s]]
        IN  /\ \/ /\ am.mapInfo[id].fInTried
                  /\ addrman' = am
               \/ /\ ~am.mapInfo[id].fInTried
                  /\ \E nUBucket \in {b \in NewBucket : id \in am.vvNew[b]} :
                     \E picks \in Picks(Inspected(v), v) :
                        addrman' = MakeTried(am, id, nUBucket, picks)
            /\ UNCHANGED peers

\* The shuffle of the first entries of vRandom.
Shuffle(am, picks) ==
    LET after[n \in 0..Len(picks)] ==
            IF n = 0 THEN am
            ELSE IF n = picks[n] THEN after[n - 1]
            ELSE SwapRandom(after[n - 1], n, picks[n])
    IN  after[Len(picks)]

\* GetAddr_ shuffles what it returns to the front of vRandom.
GetAddr ==
    LET nNodes == (ADDRMAN_GETADDR_MAX_PCT * Len(addrman.vRandom)) \div 100
    IN  /\ \E picks \in Picks(nNodes, addrman.vRandom) :
            addrman' = Shuffle(addrman, picks)
        /\ UNCHANGED peers

\* DumpAddresses: a new file takes the place of the old one.
DumpAddresses == peers' = Serialize(addrman) /\ UNCHANGED addrman

\* The process stops, having dumped or not, and reads peers.dat again.
Restart == addrman' = Load(peers) /\ UNCHANGED peers

Next ==
    \/ \E s \in Service, src \in Source : Add(s, src)
    \/ \E s \in Service, nTime \in 1..MaxTime : Good(s, nTime)
    \/ GetAddr
    \/ DumpAddresses
    \/ Restart

Spec == Init /\ [][Next]_vars

-----------------------------------------------------------------------------
(* Properties.  The first five are what Check_ tests in a debug build.      *)

\* Every field keeps its type; no entry has more references than allowed.
TypeOK ==
    LET am == addrman
    IN  /\ Ids(am) \subseteq 0..MaxId
        /\ am.nIdCount \in 0..(MaxId + 1)
        /\ am.mapInfo \in [Ids(am) ->
                [addr : Service, source : Source, nLastSuccess : 0..MaxTime,
                 nRefCount : 0..ADDRMAN_NEW_BUCKETS_PER_ADDRESS,
                 fInTried : BOOLEAN, nRandomPos : 0..(MaxId + 1)]]
        /\ am.mapAddr \in [DOMAIN am.mapAddr -> Ids(am)]
        /\ am.vRandom \in Seq(Ids(am))
        /\ am.vvNew \in [NewBucket -> SUBSET Ids(am)]
        /\ am.vvTried \in [TriedBucket -> Seq(Ids(am))]
        /\ {am.nNew, am.nTried} \subseteq 0..(MaxId + 1)

\* vRandom lists every entry once and nRandomPos says where, through
\* swaps, deletions and the shuffle of getaddr (Check_ -7, -14).
RandomOrderConsistent ==
    LET am == addrman
    IN  /\ Len(am.vRandom) = Cardinality(Ids(am))
        /\ \A id \in Ids(am) :
            /\ am.mapInfo[id].nRandomPos \in DOMAIN am.vRandom
            /\ am.vRandom[am.mapInfo[id].nRandomPos] = id

\* An entry is either tried, without references, or counts exactly the new
\* buckets that hold it, at least one (Check_ -2, -3, -4, -12, -15; the
\* assertion of MakeTried that no reference is left).
RefCountsMatchBuckets ==
    \A id \in Ids(addrman) :
        LET info == addrman.mapInfo[id]
            holders == {b \in NewBucket : id \in addrman.vvNew[b]}
        IN  /\ info.nRefCount = Cardinality(holders)
            /\ info.fInTried <=> holders = {}

\* A tried entry is at one position of the bucket its address hashes to, has
\* succeeded, and nothing else is in a tried bucket (Check_ -1, -11, -13).
TriedEntriesPlacedOnce ==
    \A id \in Ids(addrman) :
        LET info == addrman.mapInfo[id]
            places == {p \in TriedBucket \X (1..ADDRMAN_TRIED_BUCKET_SIZE) :
                        /\ p[2] \in DOMAIN addrman.vvTried[p[1]]
                        /\ addrman.vvTried[p[1]][p[2]] = id}
        IN  IF info.fInTried
            THEN /\ info.nLastSuccess # 0
                 /\ Cardinality(places) = 1
                 /\ \A p \in places : p[1] = TriedBucketOf[info.addr]
            ELSE places = {}

\* nNew and nTried are the numbers of new and of tried entries, which
\* Select_ and the serialization rely on (Check_ -7, -9, -10).
CountsMatch ==
    LET am == addrman
        tried == {id \in Ids(am) : am.mapInfo[id].fInTried}
    IN  /\ am.nTried = Cardinality(tried)
        /\ am.nNew = Cardinality(Ids(am) \ tried)

\* mapAddr finds every entry by its IP, and finds nothing else: no IP is
\* known twice, none points to a forgotten entry (Check_ -5).
AddressesIndexed ==
    LET am == addrman
    IN  /\ \A id \in Ids(am) : /\ IpOf[am.mapInfo[id].addr] \in DOMAIN am.mapAddr
                               /\ am.mapAddr[IpOf[am.mapInfo[id].addr]] = id
        /\ \A ip \in DOMAIN am.mapAddr : am.mapAddr[ip] \in Ids(am)

\* No bucket outgrows its size; in particular "there is certainly place
\* there" when an evicted entry falls back on nOrigin (addrman.cpp:251).
BucketsWithinSize ==
    /\ \A b \in NewBucket :
        Cardinality(addrman.vvNew[b]) <= ADDRMAN_NEW_BUCKET_SIZE
    /\ \A k \in TriedBucket :
        Len(addrman.vvTried[k]) <= ADDRMAN_TRIED_BUCKET_SIZE

\* The table, its buckets and the three indexes over it agree after every
\* call: what Check_ looks for in a debug build, and the sizes.
Check ==
    /\ TypeOK
    /\ RandomOrderConsistent
    /\ RefCountsMatchBuckets
    /\ TriedEntriesPlacedOnce
    /\ CountsMatch
    /\ AddressesIndexed
    /\ BucketsWithinSize

\* Which addresses each bucket holds, and from whom they come.
Tables(am) ==
    LET Info(id) == Persistent(am.mapInfo[id])
    IN  [new |-> [b \in NewBucket |-> {Info(id) : id \in am.vvNew[b]}],
         tried |-> [k \in TriedBucket |->
                        {Info(am.vvTried[k][i]) : i \in DOMAIN am.vvTried[k]}]]

\* Writing peers.dat and reading it back loses no address and moves none to
\* another bucket, whatever holes the identifiers have.
DumpLoadKeepsTables == Tables(Load(Serialize(addrman))) = Tables(addrman)

\* "They are never deleted while in the tried table, only possibly evicted
\* back to the new table" (addrman.h:215): short of a restart, a step that
\* starts with an address tried ends with it known.
TriedNeverForgotten ==
    [][addrman' # Load(peers) =>
        \A id \in Ids(addrman) : addrman.mapInfo[id].fInTried =>
            /\ id \in Ids(addrman')
            /\ addrman'.mapInfo[id].addr = addrman.mapInfo[id].addr]_vars

\* "find the least recently tried among them" (addrman.cpp:131): the position
\* SelectTried returns holds an entry no younger than any it has inspected.
\* The code does not keep to it, and no run checks it.
EvictsLeastRecentlyTried ==
    \A k \in TriedBucket :
        LET v == addrman.vvTried[k]
            age(id) == addrman.mapInfo[id].nLastSuccess
        IN  Len(v) > 0 => \A picks \in Picks(Inspected(v), v) :
                LET sel == SelectTried(addrman, v, picks)
                IN  age(sel.v[sel.nOldestPos]) <= age(sel.nOldest)
=============================================================================
