----------------------------- MODULE KeyPoolProofs -----------------------------
(***************************************************************************)
(* The wallet's keys: wherever the program stops no key is lost, none is   *)
(* handed out twice, and the pool can be read.  Proved for every set of    *)
(* passphrases, every -keypool and any number of keys.                     *)
(***************************************************************************)
EXTENDS KeyPool, FiniteSetTheorems, SequenceTheorems, WellFoundedInduction, TLAPS

Steps == {"idle", "down", "filling", "writing", "ready", "reserved", "changing",
          "changed", "encrypting", "erasing", "rewriting"}

\* The types of what the keys are kept in, and of the job's locals.
StoreTypes ==
  /\ keys \subseteq Key /\ given \subseteq Key /\ lastKey \in 0 .. MaxKey
  /\ fUseCrypto \in BOOLEAN /\ mapMasterKeys \in Seq(Pass)
  /\ vchDefaultKey \in Key \union {NoKey} /\ template \in Key \union {NoKey}
  /\ file \in [plain : SUBSET Key, crypted : SUBSET Key, master : Pass \union {NoPass},
               pool : {file.pool}, default : Key \union {NoKey}]
  /\ job \in [op : Steps, for : {job.for}, key : Nat, index : Nat, wasLocked : BOOLEAN]

\* The pool in the file is a function; indexes have a bound, as counters do.
PoolTypes ==
  /\ setKeyPool \subseteq Nat /\ DOMAIN file.pool \subseteq Nat
  /\ file.pool = [i \in DOMAIN file.pool |-> file.pool[i]]
  /\ \E n \in Nat : \A i \in setKeyPool \union DOMAIN file.pool : i <= n

\* The types of what the relocking threads read and write.
TimerTypes ==
  /\ {vMasterKey, topping, leaked} \subseteq BOOLEAN
  /\ nWalletUnlockTime \in Nat \union {None}
  /\ timers \subseteq [started : BOOLEAN, left : Nat]

(* KeysRecoverable without its types, and what every step of a job relies   *)
(* on: the key being written and the default key are on file, a wallet     *)
(* that is encrypted has a key to encrypt, NewKeyPool erases what it knows.*)
FileInv ==
  /\ given \union PoolKeys \union ({file.default, template} \ {NoKey}) \subseteq OnFile
  /\ file.plain = {} \/ file.crypted = {}
  /\ (file.crypted # {}) <=> (file.master # NoPass)
  /\ Up => keys = OnFile /\ (fUseCrypto <=> file.crypted # {} \/ At("encrypting"))
  /\ OnFile \subseteq 1 .. lastKey
  /\ Up => vchDefaultKey \in OnFile \union {NoKey}

JobInv ==
  /\ Up /\ ~ (At("filling") /\ job.for # "renew") => OnFile # {}
  /\ At("writing") => job.key \in OnFile
  /\ At("encrypting") => file.crypted = {} /\ mapMasterKeys # <<>>
  /\ At("changing") \/ At("changed") => fUseCrypto
  /\ At("erasing") => DOMAIN file.pool \subseteq setKeyPool

KeyInv == /\ StoreTypes /\ PoolTypes /\ TimerTypes
          /\ FileInv /\ JobInv
          /\ KeysHandedOutOnce /\ PoolReadable

-----------------------------------------------------------------------------
\* A bounded set of numbers has a greatest, and any set of numbers a least.
LEMMA MinIs ==
  ASSUME NEW S \in SUBSET Nat, S # {}
  PROVE  Min(S) \in S /\ \A i \in S : Min(S) <= i
<1>1. IsWellFoundedOn(OpToRel(<, Nat), Nat)
  BY NatLessThanWellFounded
<1>2. PICK m \in S : \A i \in S : ~ (<<i, m>> \in OpToRel(<, Nat))
  BY <1>1, WFMin
<1>3. \A i \in S : ~ (i < m)
  BY <1>2 DEF OpToRel
<1>4. \A i \in S : m <= i
  BY <1>3
<1>5. QED
  BY <1>4 DEF Min

\* The greatest of a non-empty finite set of integers.
LEMMA MaxIs ==
  ASSUME NEW S \in SUBSET Nat, S # {}, NEW n \in Nat, \A i \in S : i <= n
  PROVE  Max(S) \in S /\ \A i \in S : i <= Max(S)
<1> DEFINE D == {n - i : i \in S}
<1>1. D \in SUBSET Nat /\ D # {}
  OBVIOUS
<1>2. Min(D) \in D /\ \A d \in D : Min(D) <= d
  <2> HIDE DEF D
  <2>1. QED
    BY <1>1, MinIs
<1>3. PICK m \in S : Min(D) = n - m
  BY <1>2
<1>4. \A i \in S : n - i \in D
  OBVIOUS
<1>5. \A i \in S : n - m <= n - i
  BY <1>2, <1>3, <1>4
<1>6. \A i \in S : i <= m
  BY <1>5
<1>7. QED
  BY <1>6 DEF Max

\* The next index is new, and a bound on the indexes moves up by one at most.
LEMMA NextIndexIsNew ==
  ASSUME setKeyPool \subseteq Nat,
         NEW n \in Nat, \A i \in setKeyPool : i <= n
  PROVE  /\ NextIndex \in Nat /\ NextIndex \notin setKeyPool
         /\ NextIndex <= n + 1
<1>1. CASE setKeyPool = {}
  BY <1>1 DEF NextIndex
<1>2. CASE setKeyPool # {}
  <2>1. Max(setKeyPool) \in setKeyPool /\ \A i \in setKeyPool : i <= Max(setKeyPool)
    BY <1>2, MaxIs
  <2>2. NextIndex = Max(setKeyPool) + 1
    BY <1>2 DEF NextIndex
  <2>3. Max(setKeyPool) \in Nat /\ Max(setKeyPool) <= n
    BY <2>1
  <2>4. NextIndex \in Nat /\ NextIndex <= n + 1
    BY <2>2, <2>3
  <2>5. NextIndex \notin setKeyPool
    BY <2>1, <2>2, <2>3
  <2>6. QED
    BY <2>4, <2>5
<1>3. QED
  BY <1>1, <1>2

\* A pool that is big enough has a key.
LEMMA PoolNotEmpty ==
  ASSUME NEW w \in Nat \ {0}, Cardinality(setKeyPool) >= w
  PROVE  setKeyPool # {}
BY FS_EmptySet

\* Types follow.
LEMMA TypesFollow ==
  ASSUME StoreTypes, PoolTypes, TimerTypes, FileInv
  PROVE  TypeOK
<1>1. PoolKeys \subseteq Key
  BY DEF FileInv, OnFile, StoreTypes
<1>2. nWalletUnlockTime \in Timeout \union Nat \union {None}
  BY DEF TimerTypes
<1>3. QED
  BY <1>1, <1>2 DEF TypeOK, StoreTypes, PoolTypes, TimerTypes

(* The relocking threads, a lock and an unlock touch neither the keys nor   *)
(* the file.                                                               *)
store == <<keys, fUseCrypto, mapMasterKeys, setKeyPool, vchDefaultKey, template,
           file, job, lastKey, given>>

\* Time and the relocking threads touch only their own variables.
LEMMA StoreUnchanged ==
  ASSUME KeyInv, UNCHANGED store, TimerTypes'
  PROVE  KeyInv'
<1> USE DEF KeyInv, store
<1>1. StoreTypes' /\ PoolTypes'
  BY DEF StoreTypes, PoolTypes
<1>2. FileInv' /\ JobInv'
  BY DEF FileInv, JobInv, PoolKeys, OnFile, Up, At
<1>3. KeysHandedOutOnce' /\ PoolReadable'
  BY DEF KeysHandedOutOnce, PoolReadable, PoolKeys, Up, At
<1>4. QED
  BY <1>1, <1>2, <1>3

-----------------------------------------------------------------------------
\* A program that is down, and an empty file.
LEMMA KeyInit == Init => KeyInv
<1> SUFFICES ASSUME Init PROVE KeyInv
  OBVIOUS
<1>1. /\ file.plain = {} /\ file.crypted = {} /\ file.master = NoPass
      /\ file.pool = NoPool /\ file.default = NoKey
      /\ file \in [plain : {{}}, crypted : {{}}, master : {NoPass}, pool : {NoPool},
                   default : {NoKey}]
  BY DEF Init
<1>2. DOMAIN NoPool = {} /\ NoPool = [i \in DOMAIN NoPool |-> NoPool[i]]
  BY DEF NoPool
<1>3. PoolKeys = {} /\ OnFile = {}
  BY <1>1, <1>2 DEF PoolKeys, OnFile
<1>4. job \in [op : Steps, for : {job.for}, key : Nat, index : Nat, wasLocked : BOOLEAN]
      /\ job.op = "down"
  BY DEF Init, Down, Job, Steps, NoKey
<1>5. StoreTypes
  <2>1. file \in [plain : SUBSET Key, crypted : SUBSET Key, master : Pass \union {NoPass},
                  pool : {file.pool}, default : Key \union {NoKey}]
    BY <1>1
  <2>2. lastKey \in 0 .. MaxKey /\ mapMasterKeys \in Seq(Pass)
    BY KeyPoolAssumption DEF Init
  <2>3. QED
    BY <1>4, <2>1, <2>2 DEF Init, StoreTypes
<1>6. PoolTypes
  <2>1. \A i \in setKeyPool \union DOMAIN file.pool : i <= 0
    BY <1>1, <1>2 DEF Init
  <2>2. QED
    BY <1>1, <1>2, <2>1 DEF Init, PoolTypes
<1>7. TimerTypes
  BY DEF Init, TimerTypes
<1>8. FileInv /\ JobInv
  BY <1>1, <1>3, <1>4 DEF Init, FileInv, JobInv, Up, At
<1>9. KeysHandedOutOnce /\ PoolReadable
  BY <1>1, <1>2, <1>3, <1>4 DEF KeysHandedOutOnce, PoolReadable, Up, At
<1>10. QED
  BY <1>5, <1>6, <1>7, <1>8, <1>9 DEF KeyInv

-----------------------------------------------------------------------------
(* A job that moves on without writing to the file or to the pool.          *)
LEMMA JobMoves ==
  ASSUME KeyInv, UNCHANGED <<keys, setKeyPool, vchDefaultKey, file, lastKey, given>>,
         StoreTypes', TimerTypes', JobInv',
         Up, job.op \notin {"reserved", "erasing"},
         job'.op \notin {"reserved", "writing"},
         template' \in OnFile \union {NoKey},
         fUseCrypto' <=> file.crypted # {} \/ job'.op = "encrypting"
  PROVE  KeyInv'
<1> USE DEF KeyInv
<1>1. PoolTypes'
  BY DEF PoolTypes
<1>2. PoolKeys' = PoolKeys /\ OnFile' = OnFile
  BY DEF PoolKeys, OnFile
<1>3. FileInv'
  BY <1>2 DEF FileInv, Up, At
<1>4. KeysHandedOutOnce'
  BY <1>2 DEF KeysHandedOutOnce, At
<1>5. PoolReadable'
  BY <1>2 DEF PoolReadable, Up, At
<1>6. QED
  BY <1>1, <1>3, <1>4, <1>5

\* A job's locals, fresh.
LEMMA JobIs ==
  ASSUME NEW op \in Steps, NEW for
  PROVE  /\ Job(op, for).op = op /\ Job(op, for).for = for
         /\ Job(op, for) \in [op : Steps, for : {for}, key : Nat, index : Nat,
                              wasLocked : BOOLEAN]
BY DEF Job, NoKey

\* A job done.
LEMMA IdleIs ==
  /\ Idle.op = "idle" /\ Down.op = "down"
  /\ Idle \in [op : Steps, for : {Idle.for}, key : Nat, index : Nat, wasLocked : BOOLEAN]
  /\ Down \in [op : Steps, for : {Down.for}, key : Nat, index : Nat, wasLocked : BOOLEAN]
  /\ Idle.for # "renew"
<1>1. "idle" \in Steps /\ "down" \in Steps
  BY DEF Steps
<1>2. /\ Idle.op = "idle" /\ Idle.for = ""
      /\ Idle \in [op : Steps, for : {""}, key : Nat, index : Nat, wasLocked : BOOLEAN]
  BY <1>1, JobIs DEF Idle
<1>3. /\ Down.op = "down" /\ Down.for = ""
      /\ Down \in [op : Steps, for : {""}, key : Nat, index : Nat, wasLocked : BOOLEAN]
  BY <1>1, JobIs DEF Down
<1>4. QED
  BY <1>2, <1>3

\* A command that needs keys begins: it changes none.
LEMMA BeginStep ==
  ASSUME KeyInv, NEW for, Begin(for),
         UNCHANGED <<keys, fUseCrypto, vMasterKey, mapMasterKeys, setKeyPool, vchDefaultKey,
                     nWalletUnlockTime, timers, leaked, template, file, lastKey, given>>,
         topping' \in BOOLEAN
  PROVE  KeyInv'
<1> USE DEF KeyInv
<1>1. PICK op \in {"ready", "filling"} : job' = Job(op, for) /\ job.op = "idle"
  BY DEF Begin, At
<1>2. /\ job'.op = op
      /\ job' \in [op : Steps, for : {job'.for}, key : Nat, index : Nat, wasLocked : BOOLEAN]
  BY <1>1, JobIs DEF Steps
<1>3. StoreTypes' /\ TimerTypes'
  BY <1>2 DEF StoreTypes, TimerTypes
<1>4. JobInv'
  BY <1>1, <1>2 DEF JobInv, At, Up, OnFile
<1>5. template' \in OnFile \union {NoKey}
  BY DEF FileInv
<1>6. QED
  BY <1>1, <1>2, <1>3, <1>4, <1>5, JobMoves DEF Up, At, FileInv

\* TopUpKeyPool ends, and the command goes on.
LEMMA FilledStep ==
  ASSUME KeyInv, Filled
  PROVE  KeyInv'
<1> USE DEF KeyInv
<1>1. /\ job.op = "filling" /\ job.for # "renew"
      /\ Cardinality(setKeyPool) >= KEYPOOL + 1
      /\ job' = Job("ready", job.for)
      /\ UNCHANGED <<memory, file, lastKey, given>>
  BY DEF Filled, At, Wanted
<1>2. setKeyPool # {}
  BY <1>1, KeyPoolAssumption, PoolNotEmpty
<1>3. OnFile # {}
  BY <1>1, <1>2 DEF PoolReadable, Up, At, PoolKeys, FileInv
<1>4. /\ job'.op = "ready"
      /\ job' \in [op : Steps, for : {job'.for}, key : Nat, index : Nat, wasLocked : BOOLEAN]
  BY <1>1, JobIs DEF Steps
<1>5. StoreTypes' /\ TimerTypes'
  BY <1>1, <1>4 DEF StoreTypes, TimerTypes, memory
<1>6. JobInv'
  BY <1>1, <1>3, <1>4 DEF JobInv, At, Up, OnFile, memory
<1>7. template' \in OnFile \union {NoKey}
  BY <1>1 DEF FileInv, memory
<1>8. QED
  BY <1>1, <1>4, <1>5, <1>6, <1>7, JobMoves DEF Up, At, FileInv, memory

\* The caller gets no key, or the block the default key.
LEMMA NoKeyLeftStep ==
  ASSUME KeyInv, NoKeyLeft
  PROVE  KeyInv'
<1> USE DEF KeyInv
<1>1. /\ job.op = "ready" /\ job' = Idle
      /\ template' \in {vchDefaultKey, template}
      /\ UNCHANGED <<keys, fUseCrypto, vMasterKey, mapMasterKeys, setKeyPool, vchDefaultKey,
                     nWalletUnlockTime, timers, topping, leaked, file, lastKey, given>>
  BY DEF NoKeyLeft, At
<1>2. /\ job'.op = "idle"
      /\ job' \in [op : Steps, for : {job'.for}, key : Nat, index : Nat, wasLocked : BOOLEAN]
  BY <1>1, IdleIs
<1>3. StoreTypes' /\ TimerTypes'
  BY <1>1, <1>2 DEF StoreTypes, TimerTypes
<1>4. JobInv'
  BY <1>1, <1>2 DEF JobInv, At, Up, OnFile
<1>5. template' \in OnFile \union {NoKey}
  BY <1>1 DEF FileInv, Up, At
<1>6. QED
  BY <1>1, <1>2, <1>3, <1>4, <1>5, JobMoves DEF Up, At, FileInv

\* The miner reserves a key.
LEMMA CreateNewBlockStep ==
  ASSUME KeyInv, CreateNewBlock
  PROVE  KeyInv'
<1> USE DEF KeyInv
<1>1. /\ job.op = "ready" /\ job' = Idle /\ setKeyPool # {}
      /\ template' = file.pool[Oldest]
      /\ UNCHANGED <<keys, fUseCrypto, vMasterKey, mapMasterKeys, setKeyPool, vchDefaultKey,
                     nWalletUnlockTime, timers, topping, leaked, file, lastKey, given>>
  BY DEF CreateNewBlock, At
<1>2. /\ job'.op = "idle"
      /\ job' \in [op : Steps, for : {job'.for}, key : Nat, index : Nat, wasLocked : BOOLEAN]
  BY <1>1, IdleIs
<1>3. Oldest \in setKeyPool /\ setKeyPool = DOMAIN file.pool
  BY <1>1, MinIs DEF Oldest, PoolTypes, PoolReadable, Up, At
<1>4. template' \in OnFile
  BY <1>1, <1>3 DEF FileInv, PoolKeys
<1>5. StoreTypes' /\ TimerTypes'
  <2>1. OnFile \subseteq Key
    BY DEF StoreTypes, OnFile
  <2>2. QED
    BY <1>1, <1>2, <1>4, <2>1 DEF StoreTypes, TimerTypes
<1>6. JobInv'
  BY <1>1, <1>2 DEF JobInv, At, Up, OnFile
<1>7. QED
  BY <1>1, <1>2, <1>4, <1>5, <1>6, JobMoves DEF Up, At, FileInv

\* ChangeWalletPassphrase locks the wallet and begins.
LEMMA ChangeStep ==
  ASSUME KeyInv, ChangeWalletPassphrase
  PROVE  KeyInv'
<1> USE DEF KeyInv
<1>1. /\ job.op = "idle" /\ fUseCrypto /\ vMasterKey' = FALSE
      /\ job' = [Job("changing", "") EXCEPT !.wasLocked = Locked]
      /\ UNCHANGED <<keys, fUseCrypto, mapMasterKeys, setKeyPool, vchDefaultKey,
                     nWalletUnlockTime, timers, topping, leaked, template, file, lastKey, given>>
  BY DEF ChangeWalletPassphrase, At
<1>2. /\ job'.op = "changing"
      /\ job' \in [op : Steps, for : {job'.for}, key : Nat, index : Nat, wasLocked : BOOLEAN]
  <2>1. Locked \in BOOLEAN
    BY DEF Locked
  <2>2. QED
    BY <1>1, <2>1 DEF Steps, Job, NoKey
<1>3. StoreTypes' /\ TimerTypes'
  BY <1>1, <1>2 DEF StoreTypes, TimerTypes
<1>4. JobInv'
  BY <1>1, <1>2 DEF JobInv, At, Up, OnFile
<1>5. template' \in OnFile \union {NoKey}
  BY <1>1 DEF FileInv
<1>6. QED
  BY <1>1, <1>2, <1>3, <1>4, <1>5, JobMoves DEF Up, At, FileInv

\* The old passphrase is tried.
LEMMA TryOldStep ==
  ASSUME KeyInv, TryOldPassphrase
  PROVE  KeyInv'
<1> USE DEF KeyInv
<1>1. /\ job.op = "changing" /\ vMasterKey' \in BOOLEAN
      /\ job' = [job EXCEPT !.op = "changed"] \/ job' = Idle
      /\ UNCHANGED <<keys, fUseCrypto, mapMasterKeys, setKeyPool, vchDefaultKey,
                     nWalletUnlockTime, timers, topping, leaked, template, file, lastKey, given>>
  BY DEF TryOldPassphrase, At, Opens
<1>2. /\ job'.op \in {"changed", "idle"}
      /\ job' \in [op : Steps, for : {job'.for}, key : Nat, index : Nat, wasLocked : BOOLEAN]
  <2>1. CASE job' = [job EXCEPT !.op = "changed"]
    <3>1. job \in [op : Steps, for : {job.for}, key : Nat, index : Nat, wasLocked : BOOLEAN]
      BY DEF StoreTypes
    <3>2. QED
      BY <2>1, <3>1 DEF Steps
  <2>2. CASE job' = Idle
    BY <2>2, IdleIs
  <2>3. QED
    BY <1>1, <2>1, <2>2
<1>3. StoreTypes' /\ TimerTypes'
  BY <1>1, <1>2 DEF StoreTypes, TimerTypes
<1>4. JobInv'
  BY <1>1, <1>2 DEF JobInv, At, Up, OnFile
<1>5. template' \in OnFile \union {NoKey}
  BY <1>1 DEF FileInv
<1>6. QED
  BY <1>1, <1>2, <1>3, <1>4, <1>5, JobMoves DEF Up, At, FileInv

\* The attempt fails and leaves a master key, or the keys are about to be encrypted.
LEMMA EncryptStep ==
  ASSUME KeyInv, EncryptWallet
  PROVE  KeyInv'
<1> USE DEF KeyInv
<1>1. /\ job.op = "idle" /\ ~ fUseCrypto
      /\ UNCHANGED <<keys, vMasterKey, setKeyPool, vchDefaultKey, nWalletUnlockTime, timers,
                     topping, template, file, lastKey, given>>
  BY DEF EncryptWallet, At
<1>2. mapMasterKeys' \in Seq(Pass) /\ mapMasterKeys' # <<>>
  BY DEF EncryptWallet, StoreTypes
<1>3. file.crypted = {} /\ OnFile # {}
  BY <1>1 DEF FileInv, JobInv, Up, At
<1>4. template' \in OnFile \union {NoKey}
  BY <1>1 DEF FileInv
<1>5. CASE leaked' = TRUE /\ UNCHANGED <<fUseCrypto, job>>
  <2>1. StoreTypes' /\ TimerTypes'
    BY <1>1, <1>2, <1>5 DEF StoreTypes, TimerTypes
  <2>2. JobInv'
    BY <1>1, <1>5 DEF JobInv, At, Up, OnFile
  <2>3. QED
    BY <1>1, <1>4, <1>5, <2>1, <2>2, JobMoves DEF Up, At, FileInv
<1>6. CASE fUseCrypto' = TRUE /\ job' = Job("encrypting", "renew") /\ UNCHANGED leaked
  <2>1. /\ job'.op = "encrypting"
        /\ job' \in [op : Steps, for : {job'.for}, key : Nat, index : Nat, wasLocked : BOOLEAN]
    BY <1>6, JobIs DEF Steps
  <2>2. StoreTypes' /\ TimerTypes'
    BY <1>1, <1>2, <1>6, <2>1 DEF StoreTypes, TimerTypes
  <2>3. JobInv'
    BY <1>1, <1>2, <1>3, <2>1 DEF JobInv, At, Up, OnFile
  <2>4. QED
    BY <1>1, <1>4, <1>6, <2>1, <2>2, <2>3, JobMoves DEF Up, At, FileInv
<1>7. QED
  BY <1>5, <1>6 DEF EncryptWallet

\* NewKeyPool has filled the pool, and the wallet is locked again.
LEMMA RenewedStep ==
  ASSUME KeyInv, Renewed
  PROVE  KeyInv'
<1> USE DEF KeyInv
<1>1. /\ job.op = "filling" /\ job.for = "renew" /\ vMasterKey' = FALSE
      /\ job' = [job EXCEPT !.op = "rewriting"]
      /\ UNCHANGED <<keys, fUseCrypto, mapMasterKeys, setKeyPool, vchDefaultKey,
                     nWalletUnlockTime, timers, topping, leaked, template, file, lastKey, given>>
  BY DEF Renewed, At
<1>2. /\ job'.op = "rewriting"
      /\ job' \in [op : Steps, for : {job'.for}, key : Nat, index : Nat, wasLocked : BOOLEAN]
  BY <1>1 DEF Steps, StoreTypes
<1>3. StoreTypes' /\ TimerTypes'
  BY <1>1, <1>2 DEF StoreTypes, TimerTypes
<1>4. JobInv'
  BY <1>1, <1>2 DEF JobInv, At, Up, OnFile
<1>5. template' \in OnFile \union {NoKey}
  BY <1>1 DEF FileInv
<1>6. QED
  BY <1>1, <1>2, <1>3, <1>4, <1>5, JobMoves DEF Up, At, FileInv

-----------------------------------------------------------------------------
(* GenerateNewKey makes a key that nobody has, and writes it.               *)
LEMMA GenerateKeyStep ==
  ASSUME KeyInv, GenerateKey
  PROVE  KeyInv'
<1> USE DEF KeyInv
<1> DEFINE new == lastKey + 1
<1>1. /\ job.op = "filling" /\ lastKey < MaxKey /\ lastKey' = new
      /\ keys' = keys \union {new}
      /\ file' = IF fUseCrypto THEN [file EXCEPT !.crypted = @ \union {new}]
                               ELSE [file EXCEPT !.plain = @ \union {new}]
      /\ job' = [job EXCEPT !.op = "writing", !.key = new]
      /\ UNCHANGED <<fUseCrypto, vMasterKey, mapMasterKeys, setKeyPool, vchDefaultKey,
                     nWalletUnlockTime, timers, topping, leaked, template, given>>
  BY DEF GenerateKey, At
<1>2. new \in Key /\ new \in Nat /\ lastKey \in Nat /\ new \notin 1 .. lastKey
      /\ 1 .. lastKey \subseteq 1 .. new /\ new \in 1 .. new
  BY <1>1, KeyPoolAssumption DEF StoreTypes, Key
<1>3. /\ file'.pool = file.pool /\ file'.master = file.master
      /\ file'.default = file.default
      /\ file'.plain = IF fUseCrypto THEN file.plain ELSE file.plain \union {new}
      /\ file'.crypted = IF fUseCrypto THEN file.crypted \union {new} ELSE file.crypted
      /\ file' \in [plain : SUBSET Key, crypted : SUBSET Key, master : Pass \union {NoPass},
                    pool : {file'.pool}, default : Key \union {NoKey}]
  <2> HIDE DEF new
  <2>1. QED
    BY <1>1, <1>2 DEF StoreTypes
<1>4. /\ job'.op = "writing" /\ job'.key = new /\ job'.for = job.for
      /\ job' \in [op : Steps, for : {job'.for}, key : Nat, index : Nat, wasLocked : BOOLEAN]
  <2> HIDE DEF new
  <2>1. QED
    BY <1>1, <1>2 DEF StoreTypes, Steps
<1> HIDE DEF new
<1>5. PoolKeys' = PoolKeys /\ OnFile' = OnFile \union {new}
  BY <1>3 DEF PoolKeys, OnFile
<1>6. new \notin OnFile
  BY <1>2 DEF FileInv
<1>7. StoreTypes'
  <2>1. lastKey' \in 0 .. MaxKey
    BY <1>1, <1>2 DEF Key
  <2>2. QED
    BY <1>1, <1>2, <1>3, <1>4, <2>1 DEF StoreTypes
<1>8. PoolTypes' /\ TimerTypes'
  BY <1>1, <1>3 DEF PoolTypes, TimerTypes
<1>9. FileInv'
  <2>1. fUseCrypto <=> file.crypted # {}
    BY <1>1 DEF FileInv, Up, At
  <2>2. OnFile' \subseteq 1 .. lastKey'
    BY <1>1, <1>2, <1>5 DEF FileInv
  <2>3. given' \union PoolKeys' \union ({file'.default, template'} \ {NoKey}) \subseteq OnFile'
    BY <1>1, <1>3, <1>5 DEF FileInv
  <2>4. keys' = OnFile' /\ vchDefaultKey' \in OnFile' \union {NoKey}
    BY <1>1, <1>5 DEF FileInv, Up, At
  <2>5. /\ file'.plain = {} \/ file'.crypted = {}
        /\ (file'.crypted # {}) <=> (file'.master # NoPass)
        /\ fUseCrypto' <=> file'.crypted # {}
    BY <1>1, <1>3, <2>1 DEF FileInv
  <2>6. QED
    BY <1>4, <2>2, <2>3, <2>4, <2>5 DEF FileInv, Up, At
<1>10. JobInv'
  BY <1>4, <1>5 DEF JobInv, At, Up
<1>11. KeysHandedOutOnce'
  BY <1>1, <1>3, <1>4, <1>5, <1>6 DEF KeysHandedOutOnce, At, FileInv
<1>12. PoolReadable'
  BY <1>1, <1>3, <1>4, <1>5 DEF PoolReadable, Up, At
<1>13. QED
  BY <1>7, <1>8, <1>9, <1>10, <1>11, <1>12

(* WritePool: a new index gets the new key.                                 *)
LEMMA WriteKeyStep ==
  ASSUME KeyInv, WriteKey
  PROVE  KeyInv'
<1> USE DEF KeyInv
<1> DEFINE next == NextIndex
<1>1. /\ job.op = "writing"
      /\ file' = [file EXCEPT !.pool = [i \in DOMAIN file.pool \union {next} |->
                                           IF i = next THEN job.key ELSE file.pool[i]]]
      /\ setKeyPool' = setKeyPool \union {next}
      /\ job' = Job("filling", job.for)
      /\ UNCHANGED <<keys, fUseCrypto, vMasterKey, mapMasterKeys, vchDefaultKey,
                     nWalletUnlockTime, timers, topping, leaked, template, lastKey, given>>
  BY DEF WriteKey, At, StoreTypes
<1>2. PICK n \in Nat : \A i \in setKeyPool \union DOMAIN file.pool : i <= n
  BY DEF PoolTypes
<1>3. next \in Nat /\ next \notin setKeyPool /\ next <= n + 1
  BY <1>2, NextIndexIsNew DEF PoolTypes
<1>4. setKeyPool = DOMAIN file.pool
  BY <1>1 DEF PoolReadable, Up, At
<1>5. /\ job'.op = "filling" /\ job'.for = job.for
      /\ job' \in [op : Steps, for : {job'.for}, key : Nat, index : Nat, wasLocked : BOOLEAN]
  BY <1>1, JobIs DEF Steps
<1> HIDE DEF next
<1>6. /\ file'.plain = file.plain /\ file'.crypted = file.crypted
      /\ file'.master = file.master /\ file'.default = file.default
      /\ DOMAIN file'.pool = DOMAIN file.pool \union {next}
      /\ file'.pool[next] = job.key
      /\ \A i \in DOMAIN file.pool : file'.pool[i] = file.pool[i]
      /\ file'.pool = [i \in DOMAIN file'.pool |-> file'.pool[i]]
      /\ file' \in [plain : SUBSET Key, crypted : SUBSET Key, master : Pass \union {NoPass},
                    pool : {file'.pool}, default : Key \union {NoKey}]
  BY <1>1, <1>3, <1>4 DEF StoreTypes
<1>7. PoolKeys' = PoolKeys \union {job.key} /\ OnFile' = OnFile
  BY <1>6 DEF PoolKeys, OnFile
<1>8. job.key \in OnFile /\ job.key \notin given /\ job.key \notin PoolKeys
  BY <1>1 DEF JobInv, KeysHandedOutOnce, At
<1>9. StoreTypes' /\ TimerTypes'
  BY <1>1, <1>5, <1>6 DEF StoreTypes, TimerTypes
<1>10. PoolTypes'
  <2>1. \A i \in setKeyPool' \union DOMAIN file'.pool : i <= n + 1
    BY <1>1, <1>2, <1>3, <1>6 DEF PoolTypes
  <2>2. n + 1 \in Nat
    OBVIOUS
  <2>3. QED
    BY <1>1, <1>3, <1>6, <2>1, <2>2 DEF PoolTypes
<1>11. FileInv'
  BY <1>1, <1>5, <1>6, <1>7, <1>8 DEF FileInv, Up, At
<1>12. JobInv'
  BY <1>1, <1>5, <1>7 DEF JobInv, At, Up
<1>13. KeysHandedOutOnce'
  <2>1. PoolKeys' \intersect given' = {}
    BY <1>1, <1>7, <1>8 DEF KeysHandedOutOnce
  <2>2. \A i \in DOMAIN file.pool : file.pool[i] # job.key
    BY <1>8 DEF PoolKeys
  <2>3. \A i, j \in DOMAIN file'.pool : file'.pool[i] = file'.pool[j] => i = j
    BY <1>6, <2>2 DEF KeysHandedOutOnce
  <2>4. QED
    BY <1>5, <2>1, <2>3 DEF KeysHandedOutOnce, At
<1>14. PoolReadable'
  BY <1>1, <1>4, <1>5, <1>6, <1>7, <1>8 DEF PoolReadable, Up, At, FileInv
<1>15. QED
  BY <1>9, <1>10, <1>11, <1>12, <1>13, <1>14

-----------------------------------------------------------------------------
(* A record erased from the pool: its key stays in the wallet and, if it    *)
(* was handed out, no other record has it.                                 *)
LEMMA RecordErased ==
  ASSUME KeyInv, NEW i \in DOMAIN file.pool, NEW d \in Key \union {NoKey},
         file' = [file EXCEPT !.pool = Without(file.pool, i), !.default = d]
  PROVE  /\ file'.plain = file.plain /\ file'.crypted = file.crypted
         /\ file'.master = file.master /\ file'.default = d
         /\ DOMAIN file'.pool = DOMAIN file.pool \ {i}
         /\ \A j \in DOMAIN file'.pool : file'.pool[j] = file.pool[j]
         /\ file'.pool = [j \in DOMAIN file'.pool |-> file'.pool[j]]
         /\ file' \in [plain : SUBSET Key, crypted : SUBSET Key,
                       master : Pass \union {NoPass}, pool : {file'.pool},
                       default : Key \union {NoKey}]
         /\ PoolKeys' = PoolKeys \ {file.pool[i]} /\ OnFile' = OnFile
<1> DEFINE pool == Without(file.pool, i)
<1>1. /\ DOMAIN pool = DOMAIN file.pool \ {i}
      /\ \A j \in DOMAIN pool : pool[j] = file.pool[j]
      /\ pool = [j \in DOMAIN pool |-> pool[j]]
  BY DEF Without
<1> HIDE DEF pool
<1>2. /\ file'.plain = file.plain /\ file'.crypted = file.crypted
      /\ file'.master = file.master /\ file'.default = d /\ file'.pool = pool
      /\ file' \in [plain : SUBSET Key, crypted : SUBSET Key,
                    master : Pass \union {NoPass}, pool : {file'.pool},
                    default : Key \union {NoKey}]
  BY DEF KeyInv, StoreTypes, pool
<1>3. \A j \in DOMAIN file.pool : file.pool[j] = file.pool[i] => j = i
  BY DEF KeyInv, KeysHandedOutOnce
<1>4. PoolKeys' = PoolKeys \ {file.pool[i]}
  BY <1>1, <1>2, <1>3 DEF PoolKeys
<1>5. OnFile' = OnFile
  BY <1>2 DEF OnFile
<1>6. QED
  BY <1>1, <1>2, <1>4, <1>5

(* A key that is handed out leaves the pool, in memory and in the file.     *)
LEMMA GetKeyStep ==
  ASSUME KeyInv, GetKeyFromPool
  PROVE  KeyInv'
<1> USE DEF KeyInv
<1> DEFINE key == file.pool[Oldest]
           d == IF job.for = "default" THEN key ELSE file.default
<1>1. /\ job.op = "ready" /\ setKeyPool # {}
      /\ setKeyPool' = setKeyPool \ {Oldest}
      /\ given' = given \union {key}
      /\ file' = [file EXCEPT !.pool = Without(file.pool, Oldest), !.default = d]
      /\ vchDefaultKey' \in {key, vchDefaultKey}
      /\ job' = Idle
      /\ UNCHANGED <<keys, fUseCrypto, vMasterKey, mapMasterKeys, nWalletUnlockTime, timers,
                     topping, leaked, template, lastKey>>
  BY DEF GetKeyFromPool, At, StoreTypes
<1>2. /\ job'.op = "idle"
      /\ job' \in [op : Steps, for : {job'.for}, key : Nat, index : Nat, wasLocked : BOOLEAN]
  BY <1>1, IdleIs
<1>3. Oldest \in setKeyPool /\ setKeyPool = DOMAIN file.pool
  BY <1>1, MinIs DEF Oldest, PoolTypes, PoolReadable, Up, At
<1>4. key \in PoolKeys /\ key \in OnFile /\ key \in Key
  BY <1>3 DEF PoolKeys, FileInv, OnFile, StoreTypes
<1>5. d \in {key, file.default} /\ d \in Key \union {NoKey}
  BY <1>4 DEF StoreTypes
<1>6. /\ file'.plain = file.plain /\ file'.crypted = file.crypted
      /\ file'.master = file.master /\ file'.default = d
      /\ DOMAIN file'.pool = DOMAIN file.pool \ {Oldest}
      /\ \A j \in DOMAIN file'.pool : file'.pool[j] = file.pool[j]
      /\ file'.pool = [j \in DOMAIN file'.pool |-> file'.pool[j]]
      /\ file' \in [plain : SUBSET Key, crypted : SUBSET Key,
                    master : Pass \union {NoPass}, pool : {file'.pool},
                    default : Key \union {NoKey}]
      /\ PoolKeys' = PoolKeys \ {key} /\ OnFile' = OnFile
  <2> HIDE DEF d
  <2>1. QED
    BY <1>1, <1>3, <1>5, RecordErased
<1> HIDE DEF key, d
<1>7. PoolKeys' = PoolKeys \ {key} /\ OnFile' = OnFile
  BY <1>6
<1>8. StoreTypes' /\ TimerTypes'
  BY <1>1, <1>2, <1>4, <1>6 DEF StoreTypes, TimerTypes
<1>9. PoolTypes'
  BY <1>1, <1>6 DEF PoolTypes
<1>10. FileInv'
  BY <1>1, <1>2, <1>4, <1>5, <1>6, <1>7 DEF FileInv, Up, At
<1>11. JobInv'
  BY <1>2, <1>4, <1>7 DEF JobInv, At, Up
<1>12. KeysHandedOutOnce'
  BY <1>1, <1>2, <1>6, <1>7 DEF KeysHandedOutOnce, At
<1>13. PoolReadable'
  BY <1>1, <1>2, <1>3, <1>6, <1>7 DEF PoolReadable, Up, At, FileInv
<1>14. QED
  BY <1>8, <1>9, <1>10, <1>11, <1>12, <1>13

(* A reserved key leaves the pool in memory only.                           *)
LEMMA GetReservedStep ==
  ASSUME KeyInv, GetReservedKey
  PROVE  KeyInv'
<1> USE DEF KeyInv
<1> DEFINE i == Oldest
<1>1. /\ job.op = "ready" /\ setKeyPool # {}
      /\ setKeyPool' = setKeyPool \ {i}
      /\ job' = [job EXCEPT !.op = "reserved", !.index = i, !.key = file.pool[i]]
      /\ UNCHANGED <<keys, fUseCrypto, vMasterKey, mapMasterKeys, vchDefaultKey,
                     nWalletUnlockTime, timers, topping, leaked, template, file, lastKey, given>>
  BY DEF GetReservedKey, At
<1>2. i \in setKeyPool /\ setKeyPool = DOMAIN file.pool /\ i \in Nat
  BY <1>1, MinIs DEF Oldest, PoolTypes, PoolReadable, Up, At
<1> HIDE DEF i
<1>3. PoolKeys' = PoolKeys /\ OnFile' = OnFile
  BY <1>1 DEF PoolKeys, OnFile
<1>4. file.pool[i] \in Nat
  BY <1>2, KeyPoolAssumption, SMTT(30) DEF PoolKeys, FileInv, OnFile, StoreTypes, Key
<1>5. /\ job'.op = "reserved" /\ job'.index = i /\ job'.key = file.pool[i]
      /\ job' \in [op : Steps, for : {job'.for}, key : Nat, index : Nat, wasLocked : BOOLEAN]
  <2>1. job \in [op : Steps, for : {job.for}, key : Nat, index : Nat, wasLocked : BOOLEAN]
    BY DEF StoreTypes
  <2>2. QED
    BY <1>1, <1>2, <1>4, <2>1 DEF Steps
<1>6. StoreTypes' /\ TimerTypes'
  BY <1>1, <1>5 DEF StoreTypes, TimerTypes
<1>7. PoolTypes'
  BY <1>1 DEF PoolTypes
<1>8. FileInv' /\ JobInv'
  BY <1>1, <1>3, <1>5 DEF FileInv, JobInv, Up, At
<1>9. KeysHandedOutOnce'
  BY <1>1, <1>3, <1>5 DEF KeysHandedOutOnce, At
<1>10. PoolReadable'
  BY <1>1, <1>2, <1>3, <1>5 DEF PoolReadable, Up, At
<1>11. QED
  BY <1>6, <1>7, <1>8, <1>9, <1>10

\* What is true while a key is reserved.
LEMMA Reserved ==
  ASSUME KeyInv, job.op = "reserved"
  PROVE  /\ job.index \in DOMAIN file.pool /\ job.index \notin setKeyPool
         /\ setKeyPool = DOMAIN file.pool \ {job.index}
         /\ file.pool[job.index] = job.key
         /\ job.key \in PoolKeys /\ job.key \in OnFile /\ job.key \in Key
         /\ PoolKeys \subseteq keys /\ OnFile # {}
<1>1. Up /\ ~ At("erasing") /\ At("reserved")
  BY DEF Up, At
<1>2. /\ setKeyPool \union {job.index} = DOMAIN file.pool
      /\ job.index \notin setKeyPool /\ file.pool[job.index] = job.key
      /\ PoolKeys \subseteq keys
  BY <1>1 DEF KeyInv, PoolReadable
<1>3. job.key \in PoolKeys
  BY <1>2 DEF PoolKeys
<1>4. job.key \in OnFile /\ job.key \in Key
  BY <1>3 DEF KeyInv, FileInv, OnFile, StoreTypes
<1>5. QED
  BY <1>2, <1>3, <1>4

\* A reserved key is used.
LEMMA KeepKeyStep ==
  ASSUME KeyInv, KeepKey
  PROVE  KeyInv'
<1> USE DEF KeyInv
<1>1. /\ job.op = "reserved"
      /\ file' = [file EXCEPT !.pool = Without(file.pool, job.index),
                              !.default = file.default]
      /\ given' = given \union {job.key}
      /\ job' = Idle
      /\ UNCHANGED <<memory, lastKey>>
  BY DEF KeepKey, At, StoreTypes
<1>2. /\ job'.op = "idle"
      /\ job' \in [op : Steps, for : {job'.for}, key : Nat, index : Nat, wasLocked : BOOLEAN]
  BY <1>1, IdleIs
<1>3. /\ job.index \in DOMAIN file.pool /\ job.index \notin setKeyPool
      /\ setKeyPool = DOMAIN file.pool \ {job.index}
      /\ file.pool[job.index] = job.key
      /\ job.key \in OnFile /\ job.key \in Key
      /\ PoolKeys \subseteq keys /\ OnFile # {}
  BY <1>1, Reserved
<1>4. /\ file'.plain = file.plain /\ file'.crypted = file.crypted
      /\ file'.master = file.master /\ file'.default = file.default
      /\ DOMAIN file'.pool = DOMAIN file.pool \ {job.index}
      /\ \A j \in DOMAIN file'.pool : file'.pool[j] = file.pool[j]
      /\ file'.pool = [j \in DOMAIN file'.pool |-> file'.pool[j]]
      /\ file' \in [plain : SUBSET Key, crypted : SUBSET Key,
                    master : Pass \union {NoPass}, pool : {file'.pool},
                    default : Key \union {NoKey}]
      /\ PoolKeys' = PoolKeys \ {job.key} /\ OnFile' = OnFile
  <2>1. file.default \in Key \union {NoKey}
    BY DEF StoreTypes
  <2>2. QED
    BY <1>1, <1>3, <2>1, RecordErased
<1>5. PoolKeys' = PoolKeys \ {job.key} /\ OnFile' = OnFile
  BY <1>4
<1>6. StoreTypes' /\ TimerTypes'
  BY <1>1, <1>2, <1>3, <1>4 DEF StoreTypes, TimerTypes, memory
<1>7. PoolTypes'
  BY <1>1, <1>4 DEF PoolTypes, memory
<1>8. FileInv'
  BY <1>1, <1>2, <1>3, <1>4, <1>5 DEF FileInv, Up, At, memory
<1>9. JobInv'
  BY <1>2, <1>3, <1>5 DEF JobInv, At, Up
<1>10. KeysHandedOutOnce'
  BY <1>1, <1>2, <1>4, <1>5 DEF KeysHandedOutOnce, At
<1>11. PoolReadable'
  BY <1>1, <1>2, <1>3, <1>4, <1>5 DEF PoolReadable, Up, At, memory
<1>12. QED
  BY <1>6, <1>7, <1>8, <1>9, <1>10, <1>11

\* A reserved key goes back.
LEMMA ReturnKeyStep ==
  ASSUME KeyInv, ReturnKey
  PROVE  KeyInv'
<1> USE DEF KeyInv
<1>1. /\ job.op = "reserved"
      /\ setKeyPool' = setKeyPool \union {job.index}
      /\ job' = Idle
      /\ UNCHANGED <<keys, fUseCrypto, vMasterKey, mapMasterKeys, vchDefaultKey,
                     nWalletUnlockTime, timers, topping, leaked, template, file, lastKey, given>>
  BY DEF ReturnKey, At
<1>2. /\ job'.op = "idle"
      /\ job' \in [op : Steps, for : {job'.for}, key : Nat, index : Nat, wasLocked : BOOLEAN]
  BY <1>1, IdleIs
<1>3. /\ job.index \in DOMAIN file.pool
      /\ setKeyPool = DOMAIN file.pool \ {job.index}
      /\ PoolKeys \subseteq keys /\ OnFile # {}
  BY <1>1, Reserved
<1>4. PoolKeys' = PoolKeys /\ OnFile' = OnFile
  BY <1>1 DEF PoolKeys, OnFile
<1>5. StoreTypes' /\ TimerTypes'
  BY <1>1, <1>2 DEF StoreTypes, TimerTypes
<1>6. PoolTypes'
  BY <1>1, <1>3 DEF PoolTypes
<1>7. FileInv' /\ JobInv'
  BY <1>1, <1>2, <1>3, <1>4 DEF FileInv, JobInv, Up, At
<1>8. KeysHandedOutOnce'
  BY <1>1, <1>2, <1>4 DEF KeysHandedOutOnce, At
<1>9. PoolReadable'
  BY <1>1, <1>2, <1>3, <1>4 DEF PoolReadable, Up, At
<1>10. QED
  BY <1>5, <1>6, <1>7, <1>8, <1>9

-----------------------------------------------------------------------------
\* The master key gets the new passphrase, whether it is written or not.
LEMMA SetNewStep ==
  ASSUME KeyInv, SetNewPassphrase
  PROVE  KeyInv'
<1> USE DEF KeyInv
<1>1. PICK pass \in Pass :
        /\ mapMasterKeys' = [mapMasterKeys EXCEPT ![Len(mapMasterKeys)] = pass]
        /\ file' = [file EXCEPT !.master = pass] \/ file' = file
  BY DEF SetNewPassphrase
<1>2. /\ job.op = "changed" /\ vMasterKey' \in BOOLEAN /\ job' = Idle
      /\ UNCHANGED <<keys, fUseCrypto, setKeyPool, vchDefaultKey, nWalletUnlockTime, timers,
                     topping, leaked, template, lastKey, given>>
  BY DEF SetNewPassphrase, At
<1>3. /\ job'.op = "idle"
      /\ job' \in [op : Steps, for : {job'.for}, key : Nat, index : Nat, wasLocked : BOOLEAN]
  BY <1>2, IdleIs
<1>4. file.crypted # {} /\ OnFile # {}
  BY <1>2 DEF JobInv, FileInv, Up, At, OnFile
<1>5. file.master # NoPass /\ pass # NoPass
  BY <1>4, KeyPoolAssumption DEF FileInv
<1>6. /\ file'.plain = file.plain /\ file'.crypted = file.crypted
      /\ file'.pool = file.pool /\ file'.default = file.default
      /\ file'.master \in {file.master, pass}
      /\ file' \in [plain : SUBSET Key, crypted : SUBSET Key, master : Pass \union {NoPass},
                    pool : {file'.pool}, default : Key \union {NoKey}]
  BY <1>1 DEF StoreTypes
<1>7. PoolKeys' = PoolKeys /\ OnFile' = OnFile
  BY <1>6 DEF PoolKeys, OnFile
<1>8. StoreTypes' /\ TimerTypes'
  <2>1. mapMasterKeys' \in Seq(Pass)
    <3>1. Len(mapMasterKeys) \in Nat /\ mapMasterKeys \in [1 .. Len(mapMasterKeys) -> Pass]
      BY DEF StoreTypes
    <3>2. mapMasterKeys' \in [1 .. Len(mapMasterKeys) -> Pass]
      BY <1>1, <3>1
    <3>3. QED
      BY <3>1, <3>2, SeqDef
  <2>2. QED
    BY <1>2, <1>3, <1>6, <2>1 DEF StoreTypes, TimerTypes
<1>9. PoolTypes'
  BY <1>2, <1>6 DEF PoolTypes
<1>10. FileInv'
  <2>1. /\ given' \union PoolKeys' \union ({file'.default, template'} \ {NoKey})
             \subseteq OnFile'
        /\ file'.plain = {} \/ file'.crypted = {}
        /\ OnFile' \subseteq 1 .. lastKey'
    BY <1>2, <1>6, <1>7 DEF FileInv
  <2>2. file'.crypted # {} /\ file'.master # NoPass
    BY <1>4, <1>5, <1>6
  <2>3. /\ keys' = OnFile' /\ vchDefaultKey' \in OnFile' \union {NoKey}
        /\ fUseCrypto' <=> file'.crypted # {}
    BY <1>2, <1>6, <1>7 DEF FileInv, Up, At
  <2>4. QED
    BY <1>3, <2>1, <2>2, <2>3 DEF FileInv, Up, At
<1>11. JobInv'
  BY <1>3, <1>4, <1>7 DEF JobInv, At, Up
<1>12. KeysHandedOutOnce'
  BY <1>2, <1>3, <1>6, <1>7 DEF KeysHandedOutOnce, At
<1>13. PoolReadable'
  BY <1>2, <1>3, <1>6, <1>7 DEF PoolReadable, Up, At
<1>14. QED
  BY <1>8, <1>9, <1>10, <1>11, <1>12, <1>13

(* The transaction that encrypts: all the keys at once, with a master key.  *)
LEMMA CommitStep ==
  ASSUME KeyInv, CommitEncryption
  PROVE  KeyInv'
<1> USE DEF KeyInv
<1> DEFINE pass == mapMasterKeys[Len(mapMasterKeys)]
<1>1. /\ job.op = "encrypting"
      /\ file' = [file EXCEPT !.crypted = file.plain, !.plain = {}, !.master = pass]
      /\ vMasterKey' \in BOOLEAN
      /\ job' = [job EXCEPT !.op = "erasing"]
      /\ UNCHANGED <<keys, fUseCrypto, mapMasterKeys, setKeyPool, vchDefaultKey,
                     nWalletUnlockTime, timers, topping, leaked, template, lastKey, given>>
  BY DEF CommitEncryption, At, Opens
<1>2. file.crypted = {} /\ OnFile # {} /\ fUseCrypto
  BY <1>1 DEF JobInv, FileInv, Up, At
<1>3. pass \in Pass /\ pass # NoPass
  BY <1>1, KeyPoolAssumption DEF JobInv, At, StoreTypes
<1> HIDE DEF pass
<1>4. /\ file'.plain = {} /\ file'.crypted = file.plain
      /\ file'.pool = file.pool /\ file'.default = file.default /\ file'.master = pass
      /\ file' \in [plain : SUBSET Key, crypted : SUBSET Key, master : Pass \union {NoPass},
                    pool : {file'.pool}, default : Key \union {NoKey}]
  BY <1>1, <1>3 DEF StoreTypes
<1>5. /\ job'.op = "erasing" /\ job'.for = job.for
      /\ job' \in [op : Steps, for : {job'.for}, key : Nat, index : Nat, wasLocked : BOOLEAN]
  BY <1>1 DEF StoreTypes, Steps
<1>6. PoolKeys' = PoolKeys /\ OnFile' = OnFile /\ OnFile = file.plain
  BY <1>2, <1>4 DEF PoolKeys, OnFile
<1>7. StoreTypes' /\ TimerTypes'
  BY <1>1, <1>4, <1>5 DEF StoreTypes, TimerTypes
<1>8. PoolTypes'
  BY <1>1, <1>4 DEF PoolTypes
<1>9. FileInv'
  <2>1. /\ given' \union PoolKeys' \union ({file'.default, template'} \ {NoKey})
             \subseteq OnFile'
        /\ OnFile' \subseteq 1 .. lastKey'
    BY <1>1, <1>4, <1>6 DEF FileInv
  <2>2. file'.plain = {} /\ file'.crypted # {} /\ file'.master # NoPass
    BY <1>2, <1>3, <1>4, <1>6
  <2>3. keys' = OnFile' /\ vchDefaultKey' \in OnFile' \union {NoKey} /\ fUseCrypto'
    BY <1>1, <1>2, <1>6 DEF FileInv, Up, At
  <2>4. QED
    BY <2>1, <2>2, <2>3 DEF FileInv, Up, At
<1>10. JobInv'
  BY <1>1, <1>2, <1>4, <1>5, <1>6 DEF JobInv, At, Up, PoolReadable
<1>11. KeysHandedOutOnce'
  BY <1>1, <1>4, <1>5, <1>6 DEF KeysHandedOutOnce, At
<1>12. PoolReadable'
  BY <1>5 DEF PoolReadable, At
<1>13. QED
  BY <1>7, <1>8, <1>9, <1>10, <1>11, <1>12

\* NewKeyPool erases a record, ...
LEMMA EraseKeyStep ==
  ASSUME KeyInv, EraseKey
  PROVE  KeyInv'
<1> USE DEF KeyInv
<1>1. PICK i \in setKeyPool \intersect DOMAIN file.pool :
        file' = [file EXCEPT !.pool = Without(@, i)]
  BY DEF EraseKey
<1>2. job.op = "erasing" /\ UNCHANGED <<memory, job, lastKey, given>>
  BY DEF EraseKey, At
<1>3. /\ file' = [file EXCEPT !.pool = Without(file.pool, i), !.default = file.default]
      /\ file.default \in Key \union {NoKey}
  BY <1>1 DEF StoreTypes
<1>4. /\ file'.plain = file.plain /\ file'.crypted = file.crypted
      /\ file'.master = file.master /\ file'.default = file.default
      /\ DOMAIN file'.pool = DOMAIN file.pool \ {i}
      /\ \A j \in DOMAIN file'.pool : file'.pool[j] = file.pool[j]
      /\ file'.pool = [j \in DOMAIN file'.pool |-> file'.pool[j]]
      /\ file' \in [plain : SUBSET Key, crypted : SUBSET Key,
                    master : Pass \union {NoPass}, pool : {file'.pool},
                    default : Key \union {NoKey}]
      /\ PoolKeys' = PoolKeys \ {file.pool[i]} /\ OnFile' = OnFile
  BY <1>1, <1>3, RecordErased
<1>5. StoreTypes' /\ TimerTypes'
  BY <1>2, <1>4 DEF StoreTypes, TimerTypes, memory
<1>6. PoolTypes'
  BY <1>2, <1>4 DEF PoolTypes, memory
<1>7. FileInv'
  BY <1>2, <1>4 DEF FileInv, Up, At, memory
<1>8. JobInv'
  BY <1>2, <1>4 DEF JobInv, At, Up, memory
<1>9. KeysHandedOutOnce'
  BY <1>2, <1>4 DEF KeysHandedOutOnce, At
<1>10. PoolReadable'
  BY <1>2 DEF PoolReadable, At
<1>11. QED
  BY <1>5, <1>6, <1>7, <1>8, <1>9, <1>10

\* ... and with all of them erased starts over with no index.
LEMMA NewKeyPoolStep ==
  ASSUME KeyInv, NewKeyPool
  PROVE  KeyInv'
<1> USE DEF KeyInv
<1>1. /\ job.op = "erasing" /\ setKeyPool \intersect DOMAIN file.pool = {}
      /\ setKeyPool' = {}
      /\ job' = [job EXCEPT !.op = IF Locked THEN "rewriting" ELSE "filling"]
      /\ UNCHANGED <<keys, fUseCrypto, vMasterKey, mapMasterKeys, vchDefaultKey,
                     nWalletUnlockTime, timers, topping, leaked, template, file, lastKey, given>>
  BY DEF NewKeyPool, At
<1>2. DOMAIN file.pool = {}
  BY <1>1 DEF JobInv, At
<1>3. /\ job'.op \in {"rewriting", "filling"}
      /\ job' \in [op : Steps, for : {job'.for}, key : Nat, index : Nat, wasLocked : BOOLEAN]
  BY <1>1 DEF StoreTypes, Steps
<1>4. PoolKeys' = PoolKeys /\ OnFile' = OnFile /\ PoolKeys = {}
  BY <1>1, <1>2 DEF PoolKeys, OnFile
<1>5. StoreTypes' /\ TimerTypes'
  BY <1>1, <1>3 DEF StoreTypes, TimerTypes
<1>6. PoolTypes'
  BY <1>1 DEF PoolTypes
<1>7. FileInv'
  BY <1>1, <1>3, <1>4 DEF FileInv, Up, At
<1>8. JobInv'
  BY <1>1, <1>3, <1>4 DEF JobInv, At, Up
<1>9. KeysHandedOutOnce'
  BY <1>1, <1>3, <1>4 DEF KeysHandedOutOnce, At
<1>10. PoolReadable'
  BY <1>1, <1>2, <1>3, <1>4 DEF PoolReadable, Up, At
<1>11. QED
  BY <1>5, <1>6, <1>7, <1>8, <1>9, <1>10

-----------------------------------------------------------------------------
\* A stop, whenever it comes: the file is what it was.
LEMMA StoppedStep ==
  ASSUME KeyInv, Stopped
  PROVE  KeyInv'
<1> USE DEF KeyInv
<1>1. job' = Down /\ UNCHANGED <<file, lastKey, given>>
  BY DEF Stopped
<1>2. /\ job'.op = "down"
      /\ job' \in [op : Steps, for : {job'.for}, key : Nat, index : Nat, wasLocked : BOOLEAN]
  BY <1>1, IdleIs
<1>3. PoolKeys' = PoolKeys /\ OnFile' = OnFile
  BY <1>1 DEF PoolKeys, OnFile
<1>4. StoreTypes' /\ TimerTypes'
  <2>1. mapMasterKeys' \in Seq(Pass) /\ keys' \subseteq Key
    BY DEF Stopped
  <2>2. QED
    BY <1>1, <1>2, <2>1 DEF Stopped, StoreTypes, TimerTypes
<1>5. PoolTypes'
  BY <1>1 DEF Stopped, PoolTypes
<1>6. FileInv'
  BY <1>1, <1>2, <1>3 DEF Stopped, FileInv, Up, At
<1>7. JobInv'
  BY <1>2 DEF JobInv, Up, At
<1>8. KeysHandedOutOnce'
  BY <1>1, <1>2, <1>3 DEF KeysHandedOutOnce, At
<1>9. PoolReadable'
  BY <1>2 DEF PoolReadable, Up, At
<1>10. QED
  BY <1>4, <1>5, <1>6, <1>7, <1>8, <1>9

\* The topping thread takes the program down; a command only ends.
LEMMA RelockedStep ==
  ASSUME KeyInv, RelockedWhileFilling
  PROVE  KeyInv'
<1> USE DEF KeyInv
<1>1. CASE Stopped
  BY <1>1, StoppedStep
<1>2. CASE job.for # "thread"
  <2>1. /\ job.op = "filling" /\ Locked /\ job' = Idle
        /\ UNCHANGED <<memory, file, lastKey, given>>
    BY <1>2 DEF RelockedWhileFilling, At
  <2>2. /\ job'.op = "idle"
        /\ job' \in [op : Steps, for : {job'.for}, key : Nat, index : Nat, wasLocked : BOOLEAN]
    BY <2>1, IdleIs
  <2>3. OnFile # {}
    BY <2>1 DEF FileInv, Up, At, Locked, OnFile
  <2>4. StoreTypes' /\ TimerTypes'
    BY <2>1, <2>2 DEF StoreTypes, TimerTypes, memory
  <2>5. JobInv'
    BY <2>1, <2>2, <2>3 DEF JobInv, At, Up, OnFile, memory
  <2>6. template' \in OnFile \union {NoKey}
    BY <2>1 DEF FileInv, memory
  <2>7. QED
    BY <2>1, <2>2, <2>4, <2>5, <2>6, JobMoves DEF Up, At, FileInv, memory
<1>3. QED
  BY <1>1, <1>2 DEF RelockedWhileFilling

(* What LoadWallet reads: a wallet with a default key, or one to fill.      *)
LEMMA LoadStep ==
  ASSUME KeyInv, LoadWallet
  PROVE  KeyInv'
<1> USE DEF KeyInv
<1>1. /\ keys' = file.plain \union file.crypted
      /\ fUseCrypto' = (file.crypted # {})
      /\ mapMasterKeys' = IF file.crypted = {} THEN <<>> ELSE <<file.master>>
      /\ setKeyPool' = DOMAIN file.pool
      /\ vchDefaultKey' = file.default
      /\ job' = IF file.default = NoKey THEN Job("filling", "default") ELSE Idle
      /\ UNCHANGED <<vMasterKey, nWalletUnlockTime, timers, topping, leaked, template, file,
                     lastKey, given>>
  BY DEF LoadWallet
<1>2. /\ job'.op = IF file.default = NoKey THEN "filling" ELSE "idle"
      /\ job'.for # "renew"
      /\ job' \in [op : Steps, for : {job'.for}, key : Nat, index : Nat, wasLocked : BOOLEAN]
  <2>1. CASE file.default = NoKey
    BY <1>1, <2>1, JobIs DEF Steps
  <2>2. CASE file.default # NoKey
    BY <1>1, <2>2, IdleIs
  <2>3. QED
    BY <2>1, <2>2
<1>3. PoolKeys' = PoolKeys /\ OnFile' = OnFile /\ keys' = OnFile
  BY <1>1 DEF PoolKeys, OnFile
<1>4. file.default # NoKey => file.default \in OnFile
  BY DEF FileInv
<1>5. StoreTypes'
  <2>1. mapMasterKeys' \in Seq(Pass)
    <3>1. CASE file.crypted = {}
      BY <1>1, <3>1
    <3>2. CASE file.crypted # {}
      <4>1. file.master \in Pass
        BY <3>2 DEF FileInv, StoreTypes
      <4>2. QED
        BY <1>1, <3>2, <4>1
    <3>3. QED
      BY <3>1, <3>2
  <2>2. QED
    BY <1>1, <1>2, <2>1 DEF StoreTypes
<1>6. PoolTypes' /\ TimerTypes'
  BY <1>1 DEF PoolTypes, TimerTypes
<1>7. FileInv'
  BY <1>1, <1>2, <1>3, <1>4 DEF FileInv, Up, At
<1>8. JobInv'
  BY <1>2, <1>3, <1>4 DEF JobInv, At, Up
<1>9. KeysHandedOutOnce'
  BY <1>1, <1>2, <1>3 DEF KeysHandedOutOnce, At
<1>10. PoolReadable'
  BY <1>1, <1>2, <1>3 DEF PoolReadable, Up, At, FileInv
<1>11. QED
  BY <1>5, <1>6, <1>7, <1>8, <1>9, <1>10

-----------------------------------------------------------------------------
\* The relocking threads and the commands that lock and unlock.
LEMMA TimersStep ==
  ASSUME KeyInv, walletpassphrase \/ walletlock \/ ThreadCleanWalletPassphrase \/ Tick
  PROVE  KeyInv'
<1> USE DEF KeyInv
<1>1. UNCHANGED store
  BY DEF walletpassphrase, walletlock, ThreadCleanWalletPassphrase, StartTimer, WakeTimer,
         Tick, store
<1>2. TimerTypes'
  <2>1. CASE walletpassphrase
    <3>1. PICK t \in Timeout : timers' = timers \union {[started |-> FALSE, left |-> t]}
      BY <2>1 DEF walletpassphrase
    <3>2. [started |-> FALSE, left |-> t] \in [started : BOOLEAN, left : Nat]
      BY KeyPoolAssumption
    <3>3. /\ {vMasterKey', topping', leaked'} \subseteq BOOLEAN
          /\ UNCHANGED nWalletUnlockTime
      BY <2>1 DEF walletpassphrase, TimerTypes
    <3>4. QED
      BY <3>1, <3>2, <3>3 DEF TimerTypes
  <2>2. CASE walletlock
    BY <2>2 DEF walletlock, TimerTypes
  <2>3. CASE \E t \in timers : StartTimer(t)
    <3>1. PICK t \in timers : StartTimer(t)
      BY <2>3
    <3>2. t \in [started : BOOLEAN, left : Nat]
      BY DEF TimerTypes
    <3>3. [t EXCEPT !.started = TRUE] \in [started : BOOLEAN, left : Nat]
      BY <3>2
    <3>4. QED
      BY <3>1, <3>2, <3>3 DEF StartTimer, TimerTypes
  <2>4. CASE \E t \in timers : WakeTimer(t)
    <3>1. PICK t \in timers : WakeTimer(t)
      BY <2>4
    <3>2. t \in [started : BOOLEAN, left : Nat]
      BY DEF TimerTypes
    <3>3. nWalletUnlockTime > 0 =>
            [t EXCEPT !.left = nWalletUnlockTime] \in [started : BOOLEAN, left : Nat]
      BY <3>2 DEF TimerTypes, None
    <3>4. /\ nWalletUnlockTime' \in {None, nWalletUnlockTime}
          /\ vMasterKey' \in BOOLEAN /\ UNCHANGED <<topping, leaked>>
      BY <3>1 DEF WakeTimer, TimerTypes
    <3>5. \A u \in timers' : u \in timers \/ (nWalletUnlockTime > 0
                               /\ u = [t EXCEPT !.left = nWalletUnlockTime])
      BY <3>1 DEF WakeTimer
    <3>6. QED
      BY <3>3, <3>4, <3>5 DEF TimerTypes
  <2>5. CASE Tick
    <3> DEFINE Before(n) == IF n > 0 THEN n - 1 ELSE n
    <3>1. /\ nWalletUnlockTime' = Before(nWalletUnlockTime)
          /\ timers' = {IF t.started THEN [t EXCEPT !.left = Before(t.left)] ELSE t :
                          t \in timers}
          /\ UNCHANGED <<vMasterKey, topping, leaked>>
      BY <2>5 DEF Tick, TimerTypes
    <3>2. \A n \in Nat : Before(n) \in Nat
      OBVIOUS
    <3>3. Before(nWalletUnlockTime) \in Nat \union {None}
      BY DEF TimerTypes, None
    <3> HIDE DEF Before
    <3>4. \A t \in timers : [t EXCEPT !.left = Before(t.left)] \in [started : BOOLEAN, left : Nat]
      BY <3>2 DEF TimerTypes
    <3>5. QED
      BY <3>1, <3>3, <3>4 DEF TimerTypes
  <2>6. QED
    BY <2>1, <2>2, <2>3, <2>4, <2>5 DEF ThreadCleanWalletPassphrase
<1>3. QED
  BY <1>1, <1>2, StoreUnchanged

\* Every step of the program.
LEMMA KeyStep ==
  ASSUME KeyInv, [Next]_vars
  PROVE  KeyInv'
<1>1. CASE UNCHANGED vars
  <2>1. UNCHANGED store /\ TimerTypes'
    BY <1>1 DEF vars, memory, store, KeyInv, TimerTypes
  <2>2. QED
    BY <2>1, StoreUnchanged
<1>2. CASE Ask
  <2>1. PICK for \in Purposes : Begin(for) /\ UNCHANGED <<memory, file, lastKey, given>>
    BY <1>2 DEF Ask
  <2>2. QED
    BY <2>1, BeginStep DEF memory, KeyInv, TimerTypes
<1>3. CASE ThreadTopUpKeyPool
  BY <1>3, BeginStep DEF ThreadTopUpKeyPool
<1>4. CASE walletpassphrase \/ walletlock \/ ThreadCleanWalletPassphrase \/ Tick
  BY <1>4, TimersStep
<1>5. CASE ChangeWalletPassphrase \/ TryOldPassphrase \/ SetNewPassphrase
  BY <1>5, ChangeStep, TryOldStep, SetNewStep
<1>6. CASE EncryptWallet \/ CommitEncryption \/ EraseKey \/ NewKeyPool \/ Renewed
  BY <1>6, EncryptStep, CommitStep, EraseKeyStep, NewKeyPoolStep, RenewedStep
<1>7. CASE GenerateKey \/ WriteKey \/ Filled \/ RelockedWhileFilling
  BY <1>7, GenerateKeyStep, WriteKeyStep, FilledStep, RelockedStep
<1>8. CASE NoKeyLeft \/ GetKeyFromPool \/ CreateNewBlock
  BY <1>8, NoKeyLeftStep, GetKeyStep, CreateNewBlockStep
<1>9. CASE GetReservedKey \/ KeepKey \/ ReturnKey
  BY <1>9, GetReservedStep, KeepKeyStep, ReturnKeyStep
<1>10. CASE Rewrite \/ Crash
  BY <1>10, StoppedStep DEF Rewrite, Crash
<1>11. CASE LoadWallet
  BY <1>11, LoadStep
<1>12. QED
  BY <1>1, <1>2, <1>3, <1>4, <1>5, <1>6, <1>7, <1>8, <1>9, <1>10, <1>11
     DEF Next, Commands, JobSteps

(* Memory, the wallet file and the locals of the running command agree at   *)
(* every step, a stop between two writes included.                         *)
THEOREM KeyInvariant == Spec => []KeyInv
<1>1. Init => KeyInv
  BY KeyInit
<1>2. KeyInv /\ [Next]_vars => KeyInv'
  BY KeyStep
<1>3. QED
  BY <1>1, <1>2, PTL DEF Spec

(* Wherever the program stops, the file holds every key that was handed     *)
(* out, paid or kept, all plain or all encrypted under a key it holds too. *)
THEOREM KeysAlwaysRecoverable == Spec => []KeysRecoverable
<1>1. KeyInv => KeysRecoverable
  BY TypesFollow DEF KeyInv, FileInv, KeysRecoverable
<1>2. QED
  BY <1>1, KeyInvariant, PTL

(* A key that was handed out is in the pool no more, and never comes back.  *)
THEOREM KeysGoOutOnce == Spec => []KeysHandedOutOnce
<1>1. KeyInv => KeysHandedOutOnce
  BY DEF KeyInv
<1>2. QED
  BY <1>1, KeyInvariant, PTL

(* Every index of the pool has its record, every record its key: reading    *)
(* the pool does not throw.                                                *)
THEOREM PoolAlwaysReadable == Spec => []PoolReadable
<1>1. KeyInv => PoolReadable
  BY DEF KeyInv
<1>2. QED
  BY <1>1, KeyInvariant, PTL
=============================================================================
