------------------------------- MODULE KeyPool -------------------------------
(***************************************************************************)
(* The wallet's keys: the key pool (CWallet::TopUpKeyPool,                 *)
(* ReserveKeyFromKeyPool, KeepKey, ReturnKey, NewKeyPool), the key store   *)
(* and its encryption (CCryptoKeyStore, CWallet::EncryptWallet, Unlock,    *)
(* ChangeWalletPassphrase), the wallet file they write to, and the         *)
(* commands and threads that run them: walletpassphrase starts a thread    *)
(* that tops the pool up and another that locks the wallet again.          *)
(*                                                                         *)
(* cs_wallet is held through a command or through the topping thread's     *)
(* work: `job` is what its holder is doing.  The relocking thread does not *)
(* take cs_wallet, so its Lock falls between any two steps of a job, and   *)
(* the program may stop between any two writes.  Every CWalletDB is        *)
(* checkpointed when it is closed, and Berkeley DB's log keeps the order   *)
(* of the writes: what is in `file` survives a stop.                       *)
(***************************************************************************)
EXTENDS Integers, FiniteSets, Sequences, FiniteSetsExt

CONSTANTS Pass,        \* passphrases
          Timeout,     \* the timeouts given to walletpassphrase
          KEYPOOL,     \* -keypool
          MaxKey       \* bound on the keys generated

\* Keys are numbered in the order they are generated; 0 is no key.
Key == 1 .. MaxKey
NoKey == 0
None == -1
NoPass == "none"

ASSUME KeyPoolAssumption == /\ Timeout \subseteq Nat
                            /\ KEYPOOL \in Nat
                            /\ MaxKey \in Nat
                            /\ NoPass \notin Pass

VARIABLES
  keys,              \* the keys of mapKeys or mapCryptedKeys (HaveKey)
  fUseCrypto,        \* the key store is encrypted
  vMasterKey,        \* TRUE when the master key is in memory
  mapMasterKeys,     \* the passphrases of the master keys, by their number
  setKeyPool,        \* the indexes of the pool's keys
  vchDefaultKey,     \* the default key
  nWalletUnlockTime, \* what is left until the wallet is locked, or None
  timers,            \* the relocking threads: [started, left]
  topping,           \* a ThreadTopUpKeyPool waits for cs_wallet
  leaked,            \* a CWalletDB of a failed EncryptWallet stays open
  template,          \* the key paid by the last block built for getwork
  file,              \* wallet.dat
  job,               \* what the holder of cs_wallet is doing
  lastKey,           \* the last key generated
  given              \* keys handed out: as an address, or for change

memory == <<keys, fUseCrypto, vMasterKey, mapMasterKeys, setKeyPool, vchDefaultKey,
            nWalletUnlockTime, timers, topping, leaked, template>>
vars == <<memory, file, job, lastKey, given>>

Locked == fUseCrypto /\ ~ vMasterKey

\* A job: its step, what it is for, and what it carries from step to step.
Job(op, for) == [op |-> op, for |-> for, key |-> NoKey, index |-> 0, wasLocked |-> FALSE]
Idle == Job("idle", "")
Down == Job("down", "")
At(op) == job.op = op

(***************************************************************************)
(* The pool.                                                               *)
(***************************************************************************)
\* TopUpKeyPool: the number the next key of the pool gets.  NewKeyPool counts
\* from 1 over an empty pool, which is the same.
NextIndex == IF setKeyPool = {} THEN 1 ELSE Max(setKeyPool) + 1
Oldest == Min(setKeyPool)

\* NewKeyPool writes -keypool keys, TopUpKeyPool one more.
Wanted(for) == IF for = "renew" THEN KEYPOOL ELSE KEYPOOL + 1

\* An operation that needs a key first tops the pool up, unless the wallet is
\* locked; then it goes on.
Begin(for) == /\ At("idle")
              /\ job' = Job(IF Locked THEN "ready" ELSE "filling", for)

\* GenerateNewKey: AddKey keeps the key in memory and writes it, encrypted when the
\* key store is.  It throws when the wallet is locked, which happens when the wallet is
\* locked between two keys: a command ends with an error, the topping thread
\* takes the program down.
GenerateKey ==
  /\ At("filling") /\ Cardinality(setKeyPool) < Wanted(job.for)
  /\ ~ Locked
  /\ lastKey < MaxKey
  /\ lastKey' = lastKey + 1
  /\ keys' = keys \union {lastKey'}
  /\ file' = IF fUseCrypto THEN [file EXCEPT !.crypted = @ \union {lastKey'}]
                           ELSE [file EXCEPT !.plain = @ \union {lastKey'}]
  /\ job' = [job EXCEPT !.op = "writing", !.key = lastKey']
  /\ UNCHANGED <<fUseCrypto, vMasterKey, mapMasterKeys, setKeyPool, vchDefaultKey,
                 nWalletUnlockTime, timers, topping, leaked, template, given>>

\* WritePool and the index.
WriteKey ==
  /\ At("writing")
  /\ file' = [file EXCEPT !.pool = [i \in DOMAIN @ \union {NextIndex} |->
                                       IF i = NextIndex THEN job.key ELSE @[i]]]
  /\ setKeyPool' = setKeyPool \union {NextIndex}
  /\ job' = Job("filling", job.for)
  /\ UNCHANGED <<keys, fUseCrypto, vMasterKey, mapMasterKeys, vchDefaultKey, nWalletUnlockTime,
                 timers, topping, leaked, template, lastKey, given>>

Filled ==
  /\ At("filling") /\ Cardinality(setKeyPool) >= Wanted(job.for)
  /\ job.for # "renew"
  /\ job' = Job("ready", job.for)
  /\ UNCHANGED <<memory, file, lastKey, given>>

(***************************************************************************)
(* What keys are wanted for.                                               *)
(***************************************************************************)
\* keypoolrefill, getnewaddress and the like, CreateTransaction's change,
\* CreateNewBlock's coinbase, and AddToWallet's new default key, which init.cpp asks
\* for too when a new wallet has none.
Purposes == {"refill", "address", "change", "template", "default"}

Ask ==
  \E for \in Purposes :
     /\ for = "refill" => ~ Locked
     /\ Begin(for)
     /\ UNCHANGED <<memory, file, lastKey, given>>

\* ThreadTopUpKeyPool gets cs_wallet.
ThreadTopUpKeyPool ==
  /\ topping
  /\ Begin("thread")
  /\ topping' = FALSE
  /\ UNCHANGED <<keys, fUseCrypto, vMasterKey, mapMasterKeys, setKeyPool, vchDefaultKey,
                 nWalletUnlockTime, timers, leaked, template, file, lastKey, given>>

\* A pool that is empty leaves the caller without a key, or with the default key:
\* only a locked wallet's pool can be.
NoKeyLeft ==
  /\ At("ready")
  /\ job.for \in {"refill", "thread"} \/ setKeyPool = {}
  /\ template' = IF job.for = "template" THEN vchDefaultKey ELSE template
  /\ job' = Idle
  /\ UNCHANGED <<keys, fUseCrypto, vMasterKey, mapMasterKeys, setKeyPool, vchDefaultKey,
                 nWalletUnlockTime, timers, topping, leaked, file, lastKey, given>>

Without(pool, i) == [j \in DOMAIN pool \ {i} |-> pool[j]]

\* GetKeyFromPool: ReserveKeyFromKeyPool, then KeepKey erases the record before the key
\* is handed out.  SetDefaultKey writes and keeps it.
GetKeyFromPool ==
  /\ At("ready") /\ job.for \in {"address", "default"}
  /\ setKeyPool # {}
  /\ LET key == file.pool[Oldest] IN
       /\ setKeyPool' = setKeyPool \ {Oldest}
       /\ given' = given \union {key}
       /\ file' = [file EXCEPT !.pool = Without(@, Oldest),
                               !.default = IF job.for = "default" THEN key ELSE @]
       /\ vchDefaultKey' = IF job.for = "default" THEN key ELSE vchDefaultKey
  /\ job' = Idle
  /\ UNCHANGED <<keys, fUseCrypto, vMasterKey, mapMasterKeys, nWalletUnlockTime, timers,
                 topping, leaked, template, lastKey>>

\* CreateTransaction reserves the change's key; the record stays in the file.
GetReservedKey ==
  /\ At("ready") /\ job.for = "change"
  /\ setKeyPool # {}
  /\ setKeyPool' = setKeyPool \ {Oldest}
  /\ job' = [job EXCEPT !.op = "reserved", !.index = Oldest, !.key = file.pool[Oldest]]
  /\ UNCHANGED <<keys, fUseCrypto, vMasterKey, mapMasterKeys, vchDefaultKey, nWalletUnlockTime,
                 timers, topping, leaked, template, file, lastKey, given>>

\* Fault: CommitTransaction records the transaction and leaves the key's record.
KeepNothing ==
  /\ At("reserved")
  /\ given' = given \union {job.key}
  /\ job' = Idle
  /\ UNCHANGED <<memory, file, lastKey>>

\* CommitTransaction keeps the key, before it records the transaction.
KeepKey ==
  /\ At("reserved")
  /\ file' = [file EXCEPT !.pool = Without(@, job.index)]
  /\ given' = given \union {job.key}
  /\ job' = Idle
  /\ UNCHANGED <<memory, lastKey>>

\* The transaction is not sent: ~CReserveKey returns the key.
ReturnKey ==
  /\ At("reserved")
  /\ setKeyPool' = setKeyPool \union {job.index}
  /\ job' = Idle
  /\ UNCHANGED <<keys, fUseCrypto, vMasterKey, mapMasterKeys, vchDefaultKey, nWalletUnlockTime,
                 timers, topping, leaked, template, file, lastKey, given>>

\* CreateNewBlock's CReserveKey returns its key when the block is built.  The block
\* that CheckWork accepts pays that key: the CReserveKey it keeps has reserved none.
CreateNewBlock ==
  /\ At("ready") /\ job.for = "template"
  /\ setKeyPool # {}
  /\ template' = file.pool[Oldest]
  /\ job' = Idle
  /\ UNCHANGED <<keys, fUseCrypto, vMasterKey, mapMasterKeys, setKeyPool, vchDefaultKey,
                 nWalletUnlockTime, timers, topping, leaked, file, lastKey, given>>

(***************************************************************************)
(* The passphrase.                                                         *)
(***************************************************************************)
\* CWallet::Unlock tries the master keys in turn and gives up at the first that
\* the passphrase does not open; only the last one encrypted the keys.
Opens(pass) == \A i \in DOMAIN mapMasterKeys : mapMasterKeys[i] = pass

\* walletpassphrase starts the two threads.
walletpassphrase ==
  /\ At("idle") /\ Locked
  /\ \E pass \in Pass, t \in Timeout :
       /\ Opens(pass)
       /\ vMasterKey' = TRUE
       /\ topping' = TRUE
       /\ timers' = timers \union {[started |-> FALSE, left |-> t]}
  /\ UNCHANGED <<keys, fUseCrypto, mapMasterKeys, setKeyPool, vchDefaultKey, nWalletUnlockTime,
                 leaked, template, file, job, lastKey, given>>

walletlock ==
  /\ At("idle") /\ fUseCrypto
  /\ vMasterKey' = FALSE
  /\ nWalletUnlockTime' = None
  /\ UNCHANGED <<keys, fUseCrypto, mapMasterKeys, setKeyPool, vchDefaultKey, timers, topping,
                 leaked, template, file, job, lastKey, given>>

\* ThreadCleanWalletPassphrase starts: with no time to lock the wallet at, it sets it
\* and sleeps; otherwise it puts the time off if its own is later, and ends.
StartTimer(t) ==
  /\ t \in timers /\ ~ t.started
  /\ LET later == nWalletUnlockTime = None \/ nWalletUnlockTime < t.left IN
       nWalletUnlockTime' = IF later THEN t.left ELSE nWalletUnlockTime
  /\ timers' = (timers \ {t}) \union
                 (IF nWalletUnlockTime = None THEN {[t EXCEPT !.started = TRUE]} ELSE {})
  /\ UNCHANGED <<keys, fUseCrypto, vMasterKey, mapMasterKeys, setKeyPool, vchDefaultKey, topping,
                 leaked, template, file, job, lastKey, given>>

\* Fault: The thread that locks the wallet leaves its time behind.
WakeTimerLeavingTime(t) ==
  /\ t \in timers /\ t.started /\ t.left = 0
  /\ timers' = (timers \ {t}) \union
                 (IF nWalletUnlockTime > 0 THEN {[t EXCEPT !.left = nWalletUnlockTime]} ELSE {})
  /\ vMasterKey' = (vMasterKey /\ nWalletUnlockTime # 0)
  /\ UNCHANGED <<keys, fUseCrypto, mapMasterKeys, setKeyPool, vchDefaultKey, nWalletUnlockTime,
                 topping, leaked, template, file, job, lastKey, given>>

\* It wakes: walletlock was called, or the time has been put off, or it has come.
WakeTimer(t) ==
  /\ t \in timers /\ t.started /\ t.left = 0
  /\ timers' = (timers \ {t}) \union
                 (IF nWalletUnlockTime > 0 THEN {[t EXCEPT !.left = nWalletUnlockTime]} ELSE {})
  /\ nWalletUnlockTime' = IF nWalletUnlockTime = 0 THEN None ELSE nWalletUnlockTime
  /\ vMasterKey' = (vMasterKey /\ nWalletUnlockTime # 0)
  /\ UNCHANGED <<keys, fUseCrypto, mapMasterKeys, setKeyPool, vchDefaultKey, topping,
                 leaked, template, file, job, lastKey, given>>

ThreadCleanWalletPassphrase == \E t \in timers : StartTimer(t) \/ WakeTimer(t)

\* Time passes for the threads that sleep and for the time they look at.
Tick ==
  LET Before(n) == IF n > 0 THEN n - 1 ELSE n IN
  /\ nWalletUnlockTime > 0 \/ \E t \in timers : t.started /\ t.left > 0
  /\ nWalletUnlockTime' = Before(nWalletUnlockTime)
  /\ timers' = {IF t.started THEN [t EXCEPT !.left = Before(@)] ELSE t : t \in timers}
  /\ UNCHANGED <<keys, fUseCrypto, vMasterKey, mapMasterKeys, setKeyPool, vchDefaultKey, topping,
                 leaked, template, file, job, lastKey, given>>

\* ChangeWalletPassphrase: remembers whether the wallet was locked, locks it, ...
ChangeWalletPassphrase ==
  /\ At("idle") /\ fUseCrypto
  /\ job' = [Job("changing", "") EXCEPT !.wasLocked = Locked]
  /\ vMasterKey' = FALSE
  /\ UNCHANGED <<keys, fUseCrypto, mapMasterKeys, setKeyPool, vchDefaultKey, nWalletUnlockTime,
                 timers, topping, leaked, template, file, lastKey, given>>

\* ... unlocks it with the old passphrase (a wrong one leaves it locked), ...
TryOldPassphrase ==
  /\ At("changing")
  /\ \E pass \in Pass :
       /\ vMasterKey' = Opens(pass)
       /\ job' = IF Opens(pass) THEN [job EXCEPT !.op = "changed"] ELSE Idle
  /\ UNCHANGED <<keys, fUseCrypto, mapMasterKeys, setKeyPool, vchDefaultKey, nWalletUnlockTime,
                 timers, topping, leaked, template, file, lastKey, given>>

\* ... encrypts the master key with the new one, writes it, and locks the wallet again
\* if it was locked.  The write's result is not looked at.
SetNewPassphrase ==
  /\ At("changed")
  /\ \E pass \in Pass, written \in BOOLEAN :
       /\ mapMasterKeys' = [mapMasterKeys EXCEPT ![Len(mapMasterKeys)] = pass]
       /\ file' = IF written THEN [file EXCEPT !.master = pass] ELSE file
  /\ vMasterKey' = (vMasterKey /\ ~ job.wasLocked)
  /\ job' = Idle
  /\ UNCHANGED <<keys, fUseCrypto, setKeyPool, vchDefaultKey, nWalletUnlockTime, timers, topping,
                 leaked, template, lastKey, given>>

(***************************************************************************)
(* Encryption.                                                             *)
(***************************************************************************)
\* EncryptWallet keeps the new master key, then begins a transaction.  When that
\* fails the master key and the open CWalletDB stay.  EncryptKeys encrypts the keys
\* in memory and, inside the transaction, in the file.
EncryptWallet ==
  /\ At("idle") /\ ~ fUseCrypto
  /\ \E pass \in Pass : mapMasterKeys' = Append(mapMasterKeys, pass)
  /\ \/ /\ ~ leaked
        /\ leaked' = TRUE
        /\ UNCHANGED <<fUseCrypto, job>>
     \/ /\ fUseCrypto' = TRUE
        /\ job' = Job("encrypting", "renew")
        /\ UNCHANGED leaked
  /\ UNCHANGED <<keys, vMasterKey, setKeyPool, vchDefaultKey, nWalletUnlockTime, timers, topping,
                 template, file, lastKey, given>>

\* Fault: WriteCryptedKey leaves the plain key in the file.
CommitKeepingPlain ==
  /\ At("encrypting")
  /\ file' = [file EXCEPT !.crypted = file.plain, !.master = mapMasterKeys[Len(mapMasterKeys)]]
  /\ vMasterKey' = Opens(file'.master)
  /\ job' = [job EXCEPT !.op = "erasing"]
  /\ UNCHANGED <<keys, fUseCrypto, mapMasterKeys, setKeyPool, vchDefaultKey, nWalletUnlockTime,
                 timers, topping, leaked, template, lastKey, given>>

\* The transaction commits, all of it; if it fails the program exits.  Then Lock and
\* Unlock with the new passphrase.
CommitEncryption ==
  /\ At("encrypting")
  /\ file' = [file EXCEPT !.crypted = file.plain, !.plain = {},
                          !.master = mapMasterKeys[Len(mapMasterKeys)]]
  /\ vMasterKey' = Opens(file'.master)
  /\ job' = [job EXCEPT !.op = "erasing"]
  /\ UNCHANGED <<keys, fUseCrypto, mapMasterKeys, setKeyPool, vchDefaultKey, nWalletUnlockTime,
                 timers, topping, leaked, template, lastKey, given>>

\* NewKeyPool erases the records of the old pool one by one, ...
EraseKey ==
  /\ At("erasing")
  /\ \E i \in setKeyPool \intersect DOMAIN file.pool :
        file' = [file EXCEPT !.pool = Without(@, i)]
  /\ UNCHANGED <<memory, job, lastKey, given>>

\* Fault: NewKeyPool does not clear the indexes.
NewKeyPoolKeepingIndexes ==
  /\ At("erasing") /\ setKeyPool \intersect DOMAIN file.pool = {}
  /\ job' = [job EXCEPT !.op = IF Locked THEN "rewriting" ELSE "filling"]
  /\ UNCHANGED <<memory, file, lastKey, given>>

\* ... forgets the indexes, and generates -keypool keys unless the wallet is locked.
NewKeyPool ==
  /\ At("erasing") /\ setKeyPool \intersect DOMAIN file.pool = {}
  /\ setKeyPool' = {}
  /\ job' = [job EXCEPT !.op = IF Locked THEN "rewriting" ELSE "filling"]
  /\ UNCHANGED <<keys, fUseCrypto, vMasterKey, mapMasterKeys, vchDefaultKey, nWalletUnlockTime,
                 timers, topping, leaked, template, file, lastKey, given>>

Renewed ==
  /\ At("filling") /\ job.for = "renew" /\ Cardinality(setKeyPool) >= Wanted(job.for)
  /\ vMasterKey' = FALSE
  /\ job' = [job EXCEPT !.op = "rewriting"]
  /\ UNCHANGED <<keys, fUseCrypto, mapMasterKeys, setKeyPool, vchDefaultKey, nWalletUnlockTime,
                 timers, topping, leaked, template, file, lastKey, given>>

(***************************************************************************)
(* Stops and starts.                                                       *)
(***************************************************************************)
Stopped ==
  /\ keys' = {} /\ fUseCrypto' = FALSE /\ vMasterKey' = FALSE /\ mapMasterKeys' = <<>>
  /\ setKeyPool' = {} /\ vchDefaultKey' = NoKey /\ nWalletUnlockTime' = None
  /\ timers' = {} /\ topping' = FALSE /\ leaked' = FALSE /\ template' = NoKey
  /\ job' = Down
  /\ UNCHANGED <<file, lastKey, given>>

\* CDB::Rewrite waits until no CWalletDB is open, then encryptwallet stops the
\* program.  A CWalletDB left open by a failed attempt keeps it waiting, with cs_wallet.
Rewrite == At("rewriting") /\ ~ leaked /\ Stopped

\* GenerateNewKey throws: the command fails, or the topping thread ends the program.
RelockedWhileFilling ==
  /\ At("filling") /\ Cardinality(setKeyPool) < Wanted(job.for) /\ Locked
  /\ IF job.for = "thread"
       THEN Stopped
       ELSE job' = Idle /\ UNCHANGED <<memory, file, lastKey, given>>

Crash == ~ At("down") /\ Stopped

\* CWalletDB::LoadWallet; a wallet without a default key gets one before anything else.
LoadWallet ==
  /\ At("down")
  /\ keys' = file.plain \union file.crypted
  /\ fUseCrypto' = (file.crypted # {})
  /\ mapMasterKeys' = IF file.crypted = {} THEN <<>> ELSE <<file.master>>
  /\ setKeyPool' = DOMAIN file.pool
  /\ vchDefaultKey' = file.default
  /\ job' = IF file.default = NoKey THEN Job("filling", "default") ELSE Idle
  /\ UNCHANGED <<vMasterKey, nWalletUnlockTime, timers, topping, leaked, template, file,
                 lastKey, given>>

(***************************************************************************)
(* The specification.                                                      *)
(***************************************************************************)
NoPool == [i \in {} |-> NoKey]

Init ==
  /\ keys = {} /\ fUseCrypto = FALSE /\ vMasterKey = FALSE /\ mapMasterKeys = <<>>
  /\ setKeyPool = {} /\ vchDefaultKey = NoKey /\ nWalletUnlockTime = None
  /\ timers = {} /\ topping = FALSE /\ leaked = FALSE /\ template = NoKey
  /\ file \in [plain : {{}}, crypted : {{}}, master : {NoPass}, pool : {NoPool}, default : {NoKey}]
  /\ job = Down /\ lastKey = 0 /\ given = {}

Commands == Ask \/ walletpassphrase \/ walletlock \/ ChangeWalletPassphrase \/ EncryptWallet

JobSteps == \/ GenerateKey \/ WriteKey \/ Filled \/ NoKeyLeft \/ GetKeyFromPool
            \/ GetReservedKey \/ KeepKey \/ ReturnKey \/ CreateNewBlock
            \/ TryOldPassphrase \/ SetNewPassphrase
            \/ CommitEncryption \/ EraseKey \/ NewKeyPool \/ Renewed
            \/ Rewrite \/ RelockedWhileFilling

Next == \/ Commands \/ JobSteps \/ ThreadTopUpKeyPool
        \/ ThreadCleanWalletPassphrase \/ Tick
        \/ Crash \/ LoadWallet

Spec == Init /\ [][Next]_vars

\* The operating system runs the relocking threads, time passes, and a command that
\* has begun goes on.
FairSpec == /\ Spec
            /\ WF_vars(ThreadCleanWalletPassphrase)
            /\ WF_vars(Tick)
            /\ WF_vars(JobSteps)

(***************************************************************************)
(* Properties.                                                             *)
(***************************************************************************)
Up == ~ At("down")
OnFile == file.plain \union file.crypted
PoolKeys == {file.pool[i] : i \in DOMAIN file.pool}

TypeOK ==
  /\ keys \subseteq Key /\ lastKey \in 0 .. MaxKey /\ given \subseteq Key
  /\ {fUseCrypto, vMasterKey, topping, leaked} \subseteq BOOLEAN
  /\ mapMasterKeys \in Seq(Pass)
  /\ setKeyPool \subseteq Nat /\ vchDefaultKey \in Key \union {NoKey}
  /\ template \in Key \union {NoKey}
  /\ nWalletUnlockTime \in Timeout \union Nat \union {None}
  /\ \A t \in timers : t.started \in BOOLEAN /\ t.left \in Nat
  /\ file.plain \subseteq Key /\ file.crypted \subseteq Key
  /\ file.master \in Pass \union {NoPass} /\ file.default \in Key \union {NoKey}
  /\ DOMAIN file.pool \subseteq Nat /\ PoolKeys \subseteq Key

\* Wherever the program stops, the file holds every key that was handed out, paid by a
\* block or kept for later, all of them plain or all encrypted under a master key it
\* holds too: LoadWallet gives up a file with both.  Memory follows the file but
\* during EncryptWallet's transaction.  (CWallet::AddKey, EncryptWallet, KeepKey,
\* WriteCryptedKey, CCryptoKeyStore::AddCryptedKey)
KeysRecoverable ==
  /\ TypeOK
  /\ given \union PoolKeys \union ({file.default, template} \ {NoKey}) \subseteq OnFile
  /\ file.plain = {} \/ file.crypted = {}
  /\ (file.crypted # {}) <=> (file.master # NoPass)
  /\ Up => keys = OnFile /\ (fUseCrypto <=> file.crypted # {} \/ At("encrypting"))

\* A key handed out never comes back: it has left the pool for good, whatever is
\* reserved, returned, renewed or loaded again after a stop, and no two places of the
\* pool hold one key.  (ReserveKeyFromKeyPool, KeepKey, ReturnKey, NewKeyPool)
KeysHandedOutOnce ==
  /\ PoolKeys \intersect given = {}
  /\ \A i, j \in DOMAIN file.pool : file.pool[i] = file.pool[j] => i = j
  /\ At("writing") => job.key \notin given \union PoolKeys

\* An index of the pool has its record and the record's key is in the wallet, so that
\* ReserveKeyFromKeyPool and GetAllReserveKeys do not throw; and no record is left that
\* no index or reserved key stands for.  Only NewKeyPool, between its writes, is
\* in between.
PoolReadable ==
  Up /\ ~ At("erasing") =>
    /\ setKeyPool \union (IF At("reserved") THEN {job.index} ELSE {}) = DOMAIN file.pool
    /\ At("reserved") => job.index \notin setKeyPool /\ file.pool[job.index] = job.key
    /\ PoolKeys \subseteq keys

\* An unlocked wallet with a time to lock it at, or a relocking thread yet to start, is
\* locked: whatever the order the threads start in, and whatever walletlock, another
\* walletpassphrase or a change of the passphrase does meanwhile, some thread is there
\* to do it.  (ThreadCleanWalletPassphrase)
TimedUnlockEnds ==
  (vMasterKey /\ (nWalletUnlockTime # None \/ \E t \in timers : ~ t.started)) ~> ~ vMasterKey

\* What walletpassphrase's help says: "Stores the wallet decryption key in memory for
\* <timeout> seconds."  The key of a wallet no command works on would be forgotten at
\* some time.  A passphrase changed meanwhile leaves it unlocked: no run keeps this.
KeyStoredForTimeout == (vMasterKey /\ At("idle")) ~> ~ vMasterKey
==============================================================================
