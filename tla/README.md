# HongyunCoin2: a specification of the node

TLA+ modules for the core of the HongyunCoin2 node (`src/src`), a
proof-of-stake currency in the line of Bitcoin and PPCoin; the TLC
configurations that check them on small instances; and TLAPS proofs of what
matters most for every instance. Line numbers are those of `src/src`.

## 1. The system

The node is one process. Threads receive and send on sockets
(`ThreadSocketHandler2`), handle messages (`ThreadMessageHandler2`), open
connections (`ThreadOpenConnections2`, `ThreadOpenAddedConnections2`), mine
(`ThreadStakeMiner`), serve RPC, dump addresses and flush the wallet. They meet
in a few locked structures: `cs_main` covers the chain, the pools and the
orphans, `cs_vNodes` the connections, `cs_wallet` the wallet.

| Component | State | Operations | Meets |
|---|---|---|---|
| Chain state (`main.cpp`, `main.h`) | `mapBlockIndex`, `pnext`, `pindexBest`, `hashBestChain` on disk | `AcceptBlock`, `AddToBlockIndex`, `SetBestChain`, `Reorganize`, `ConnectBlock`, `DisconnectBlock`, `LoadBlockIndex` | transaction index, pool, wallet, checkpoints |
| Transaction index (`main.cpp`, `txdb-leveldb.*`) | for each transaction its place and who spent each output; one batch over leveldb | `FetchInputs`, `ConnectInputs`, `DisconnectInputs`, `TxnBegin/Commit/Abort` | chain state |
| Memory pool (`main.cpp`, `main.h`) | `mapTx`, `mapNextTx` | `accept`, `addUnchecked`, `remove`, `removeConflicts` | chain state, orphan transactions, wallet, miner |
| Synchronized checkpoints (`checkpoints.*`) | `hashSyncCheckpoint` on disk, the pending and the invalid one | `ProcessSyncCheckpoint`, `AcceptPendingSyncCheckpoint`, `CheckSync`, `ValidateSyncCheckpoint` | forces `SetBestChain`, refuses blocks |
| Orphan blocks (`main.cpp`) | `mapOrphanBlocks`, `mapOrphanBlocksByPrev`, `setStakeSeen`, `setStakeSeenOrphan` | `ProcessBlock` | chain state, checkpoints |
| Orphan transactions (`main.cpp`) | `mapOrphanTransactions`, `...ByPrev` | `AddOrphanTx`, `EraseOrphanTx`, `LimitOrphanTxSize`, the `tx` message | pool |
| Address manager (`addrman.*`) | `mapInfo`, `mapAddr`, `vRandom`, new and tried buckets, `peers.dat` | `Add_`, `Good_`, `Attempt_`, `Connected_`, `Select_`, `GetAddr_`, serialization | connections, peer protocol |
| Connections (`net.*`) | `CNode`s, `vNodes`, `vNodesDisconnected`, `semOutbound` | accept, connect, disconnect, delete, reference | every thread of the network |
| Peer protocol (`main.cpp`, `net.h`) | inventories known, asked for and to send | `ProcessMessage`, `SendMessages`, `AskFor` | all of the above |
| Wallet (`wallet.*`, `walletdb.*`) | `mapWallet`, spent flags, address book | `AddToWallet`, `CreateTransaction`, `CommitTransaction` | chain notifications, key pool |
| Key pool (`wallet.*`) | `setKeyPool` and its records | reserve, keep, return, top up, renew | wallet, miner |
| Key store and encryption (`keystore.*`, `crypter.*`) | keys, encrypted keys, master keys | lock, unlock, `EncryptWallet` | wallet |
| Databases of the wallet (`walletdb.*`, `db.*`) | records, a transaction, use counts of files | write, commit, `Rewrite`, `LoadWallet`, `BackupWallet`, `Flush` | wallet, key pool |
| Proof of stake (`kernel.*`), block creation (`miner.*`) | none of their own | stake modifiers, kernels, templates | chain state, pool, wallet |
| Scripts (`script.*`) | none | `EvalScript`, `VerifyScript`, `Solver`, `SignSignature`, `CombineSignatures` | chain state, wallet, RPC |
| Alerts, network time, RPC, start-up, IRC, user interface | | | |

What is hard:

* **Reorganization.** One database batch disconnects one branch and connects
  another; memory pointers and pool follow after the commit; blocks beyond the
  first heavier one are connected afterwards, each in a batch of its own, and a
  failure there is not reported. A crash is possible between any two steps.
* **Who decides on the best chain.** Trust does, except that synchronized
  checkpoints may force a lighter branch and refuse blocks off it, at once or
  when a pending checkpoint's block arrives.
* **Order of arrival.** Blocks and transactions arrive before what they build
  on, wait, and are set free in cascades that walk a map while changing it.
* **Full tables.** Buckets, orphan pools, connection slots.
* **Asking and telling.** What a node announces, has announced, asked for and
  been asked for is filtered in five places so that nothing is said twice; lost
  connections and peers that do not answer must not make it be said never.
* **Notices before the fact.** The wallet hears of blocks before their batch
  commits, and writes what it hears to a file of its own at once.
* **Keys.** A reserved key is gone from memory and still on disk; encrypting,
  changing the passphrase and filling the pool take many steps, between which
  the wallet may be locked by a thread without `cs_wallet`, or the program stop.
* **Lifetime.** Three kinds of threads share nodes counted by reference, some
  accesses outside the lock.

What makes each component correct: the database always holds exactly what
replaying one branch leaves, and memory agrees with it between calls; the pool
is consistent with itself and disjoint from the chain; checkpoints only advance
along a branch; what is indexed does not depend on the order of arrival; the
redundant indexes of the address manager agree; no node is used after it is
deleted, none is leaked, and no outbound slot is lost; what a peer announces
arrives and nodes end with the same best chain; the wallet takes for confirmed,
spent and refunded what the chain says; every key that was handed out is on file
and none is handed out twice; scripts, signatures, coins and kernels are what
their definitions ask for.

## 2. The modules

| Module | Models |
|---|---|
| `BlockIndex` | the tree of block headers: `pprev`, height, trust, `Branch`, `TraceBack`, the fork point |
| `BlockTree` | what blocks and transactions carry, as constants; `CheckBlock`; the height rule for coinbases; amounts |
| `TxIndex` | the committed database as a value (`View`): best hash, next pointers, place and spenders of each transaction, money supply; `Connect`, `Disconnect` and their conditions |
| `MemPool` | the pool as a value: acceptance, removal with dependants, removal of conflicts |
| `BlockTemplate` | which pool transactions `CreateNewBlock` puts into a block, as the set of its possible results |
| `ChainState` | the state machine over these: acceptance, `SetBestChain` stage by stage, checkpoints, crash and restart |
| `ChainProperties` | its invariants and action properties, and the refinement `ChainState` => `Ledger` |
| `Ledger` | the abstract specification: spendable outputs move between sound branches in single steps |
| `MCChain` | the instance for TLC, what is asked of templates and of the best chain |
| `OrphanBlocks`, `MCOrphanBlocks` | `ProcessBlock` and its loop |
| `OrphanTxs`, `MCOrphanTxs` | the `tx` message and its loop, over `MemPool` and `TxIndex` |
| `AddrMan`, `MCAddrMan` | the address manager and `peers.dat` |
| `Connections`, `MCConnections` | nodes, references, grants, threads |
| `BlockDownload`, `MCBlockDownload` | nodes that learn blocks from each other: `inv`, `getdata`, `getblocks`, `block`, `AskFor`, batches |
| `Wallet`, `MCWallet` | `mapWallet` beside `ChainState`: notifications, own transactions, rescan, reacceptance beside the node's threads, repair, backups |
| `KeyPool`, `MCKeyPool` | the key pool, the key store, encryption, passphrases, the relocking threads, `wallet.dat` |
| `Scripts` | `EvalScript`, `VerifyScript`, `Solver`, signing, `CombineSignatures` as functions |
| `CoinSelection` | `SelectCoins`, `ApproximateBestSubset`, `CreateTransaction` as functions |
| `StakeModifier` | `ComputeNextStakeModifier`, `GetKernelStakeModifier` as functions |
| `Algorithms`, `MCAlgorithms` | one call of one of these per behaviour, with the definitions they are compared with |
| `BranchTheorems`, `ChainStateProofs` | proofs about the tree of blocks, sums over finite sets, the chain, its index, the pool, the refinement and the money supply (section 5) |
| `OrphanBlocksProofs`, `OrphanTxsProofs`, `KeyPoolProofs`, `ConnectionsProofs`, `AddrManProofs`, `BlockDownloadProofs` | proofs about the component each is named for (section 5) |

```
BlockIndex <- BlockTree <- TxIndex <- MemPool <- ChainState <- ChainProperties <- MCChain
     |            |                      |           |               |
     |            +-- Ledger             |           +-- Wallet      +-- ChainStateProofs
     |                                   +-- OrphanTxs <- OrphanTxsProofs |
     |                                   +-- BlockTemplate                |
     +-- BranchTheorems --------------------------------------------------+
     |         +-- OrphanBlocksProofs
     |         +-- BlockDownloadProofs
     |         +-- OrphanTxsProofs
     +-- OrphanBlocks -----+      |
     +-- BlockDownload -----------+
Scripts, CoinSelection, StakeModifier <- Algorithms
KeyPool <- KeyPoolProofs        Connections <- ConnectionsProofs        AddrMan <- AddrManProofs
ChainProperties has an INSTANCE of Ledger; MCChain adds BlockTemplate.
```

Operators whose comment begins with "Fault:" or that stand before the one they
resemble (`MergeFirstBlock`, `KeepNothing`, ...) are mistakes of the kind a change
of the code could make: the runs were repeated with each in place of the
definition that follows it, and its property fails then.

### ChainState

Everything in it runs under `cs_main`, so at most one `SetBestChain` is under
way; `job` holds its locals (`stage`, the target, the intermediate block, the
fork, the block the batch has reached, `vResurrect`, `vDelete`, and who called).
The code is sequential there; it is cut into steps so that a crash can strike
between any two, and so that a property can speak of the middle. The disk is
`db`, `mapBlockIndex` and `hashSyncCheckpoint`; `CrashAndLoadBlockIndex` throws
the rest away and rebuilds it as `LoadBlockIndex` does.

| Action | Code |
|---|---|
| `AcceptBlock` | `ProcessBlock`'s `CheckBlock`, `CBlock::AcceptBlock`, `AddToBlockIndex` up to the commit of the index record |
| `ExtendBestChain` | `SetBestChain`, the case `hashPrevBlock == hashBestChain` |
| `BeginReorganize` | the choice of `pindexIntermediate` and `vpindexSecondary`, the fork |
| `ReorganizeDisconnect`, `EndDisconnect`, `ReorganizeConnect`, `ReorganizeCommit` | `Reorganize` up to the commit and the relinking of `pnext` |
| `ReorganizeResurrect`, `ReorganizeDelete` | its treatment of the pool |
| `ConnectSecondary`, `EndSecondary` | "Connect further blocks" |
| `NewBestBlock` | the end of `SetBestChain` |
| `ProcessSyncCheckpoint`, `AcceptPendingSyncCheckpoint`, `WriteSyncCheckpoint` | `checkpoints.cpp` |
| `AcceptToMemoryPool` | `CTxMemPool::accept` for a transaction that arrives |

Data is reduced to what the properties tell apart. A hash is the identity of its
block or transaction. Scripts, signatures, targets, timestamps and kernels are
verdicts given as constants (`ContextOK`, `ScriptsOK`); amounts are small
numbers and do not overflow; the reward is a function of the height of
`pindexBest`, as in the code, where a reorganization looks at the old tip.
Failing reads and writes of the disk are left out.

`diverged` is a history variable: it becomes true when a postponed connect
fails. From then on the code's memory and database disagree
(section 4), so the properties of the database are conditioned on it;
`MemoryNeverAheadOfDisk` states the expectation without the condition.

### BlockTemplate

`CreateNewBlock` (`miner.cpp:108`) goes through the pool once, builds the records of
what waits for what (`COrphan`, `mapDependers`), and takes transactions off a heap
until it is empty; it holds `cs_main` and changes nothing, so it is an operator:
the set of templates that a pool, a view of the database and a best block allow. The heap is
ordered by priority and fee, here by nothing; a transaction's size is the number
of its inputs and outputs. `MCChain` asks of every state the chain run reaches
what the templates made there are like. The pool may then hold transactions
whose inputs a block has spent, a reorganization has made immature, or nobody has.
When the first pool parent of a transaction is found and a later input is not,
`vOrphan.pop_back()` (`miner.cpp:207`) frees the record that `mapDependers` still
points to; it is read when that parent is added. In the model it may then
queue its transaction or not, and either way the template is right; that the
read may end the program is not.

### OrphanBlocks and OrphanTxs

Both handlers hold `cs_main` throughout; their loops are unfolded into one step
per orphan visited and per entry of `vWorkQueue` left behind, because the order
in which a multimap or a set is walked is free and because the loops erase what
they walk. In `OrphanBlocks` the verdict of `AcceptBlock` is data: a block is
rejected, or enters the index and then may or may not be connected. `received`
is a history variable: what the node kept since it started. In `OrphanTxs` the
chain and the pool are the values of `TxIndex` and `MemPool`, and the choice of
the orphan to evict is free, as `GetRandHash` makes it.

### AddrMan

Every operation runs under `cs`, hence is one step. The keyed hashes that choose
buckets are fixed functions. Times are abstracted, except `nLastSuccess`: which
entry of a full bucket is terrible, or oldest, is a free choice, and so is which
entries `SelectTried` draws. `Restart` reads `peers.dat`, whatever was last
dumped. `Select_`, `Attempt_` and `Connected_` change nothing the properties
speak of and are not modelled.

### Connections

A step is one access to shared state, or one critical section of `cs_vNodes`.
Only the socket handler's "Disconnect nodes" section takes several (`pc` in
`{"disconnect", "post", "clear", "release"}` means that it holds the lock), since
the opening threads write `fNetworkNode` and `grantOutbound` without it. `AddRef`
of a node that `ConnectNode` found is outside the lock too: it is a read and a
write (`ReadRefCount`, `WriteRefCount`). A grant has no lock at all, so
`CSemaphoreGrant::Release` is three steps, the test, the post and the clearing
(`DisconnectNode`, `PostDisconnected`, `ClearDisconnected` in the socket handler),
and `MoveTo` is these three for the target and then the move (`TestGrant`,
`PostMoved`, `ClearMoved`, `MoveGrant`). `shared` is a history variable:
`ConnectNode` has found a node that was already there.

One opening thread is the default configuration, where
`ThreadOpenAddedConnections2` returns at once; two are a node started with
`-addnode`. Bans, local addresses and failing dials are one
free choice of refusal; `-connect` (which needs no grants) and shutdown are not
modelled, nor is the closing of the socket apart from the marking of the node.
`DeleteNodes` waits for the pass over `vNodes` to be complete; it looks at all
disconnected nodes at once, as the locks it tries are free once no thread refers
to the node. It is one step: a thread that uses an object while it is being
destroyed has no defined behaviour to model.

### BlockDownload

Every node of an instance runs the code of `ProcessMessage` and `SendMessages`
for blocks; a step is one message handled or one round of `SendMessages` for one
peer, since each holds `cs_main`. `cnode[n][p]` is node n's `CNode` for its peer
p: what has arrived from it (`vRecv`, in the order it was sent: connections lose
everything or nothing), `setInventoryKnown`, `vInventoryToSend`, `mapAskFor`,
`hashContinue` and the last `getblocks`. Blocks are valid and their branch
decides, so that accepting one is the set of all that become connected; the
cascade itself is in `OrphanBlocks`. `Tick` lets time pass: requests become due,
and one more than `Retry` old may be repeated at once. `world` names what differs
from one start to the next: who has what, who dials, which node announces and
never sends, how many connections or nodes are lost. The random part of the
relay (a trickle and a quarter of the inventory) concerns transactions only and
is left out.

| Action | Code |
|---|---|
| `ProcessMessage` | `ProcessMessages` and the handlers `HandleVersion`, `HandleInv`, `HandleGetData`, `HandleGetBlocks`, `HandleBlock` |
| `SendMessages` | the inventory to send, and `mapAskFor` |
| `Arrive` | a block mined here or heard from a peer outside the instance |
| `Connect`, `Disconnect`, `Restart` | a connection made and lost; a node that stops, with its chain on disk and its orphans lost |

### Wallet

The chain's steps are those of `ChainState`; each one that notifies the wallet is
joined with what the wallet makes of it: `FollowExtend`, `FollowConnect`,
`FollowDisconnect`, `FollowSecondary` and `FollowNewBest` are the steps of
`SetBestChain` with `SyncWithWallets`, `DisableTransaction` and the locator;
`Unnoticed` those that tell nobody. `wallet` is `mapWallet` with each entry's
block and `vfSpent`, and at the same time `wallet.dat`, which is written at every
change. `CommitTransaction` makes a transaction of the coins `AvailableCoins`
offers. `AddSupportingTransactions` gives it the copies it depends on (`vtxPrev`)
as the code's loop does: breadth first up to `COPY_DEPTH`, each hash once, and the
list reversed, which is not always an order in which they can be accepted.
`FixSpentCoins` is `repairwallet`.

Start-up is the end of `AppInit2`. The index is loaded and the wallet rescanned,
from the locator or from the start (`-rescan`), before any other thread runs
(`StartWallet`). The node's threads start at `init.cpp:904`;
`ReacceptWalletTransactions` runs after that (`919`), beside them, and is a set of
actions of its own: `StartRound`, `Visit` for each entry of `mapWallet`, `EndVisits`,
and `ScanBlock` and `EndScan` for the scan it makes when it has found outputs spent.
It holds `cs_wallet` for a round and its scan, but not `cs_main`, so what the chain
does goes on between any two visits: only a step that would notify the wallet
waits (`WalletLocked`), among them the one of a transaction that has entered the
pool (`heard`). `Visit` reads the committed index, which the batch of a
reorganization under way may be about to change, and calls `AcceptToMemoryPool`
without `cs_main`: it is the one caller of the pool outside the handlers of
`ChainState`, which assume that lock. Visits are in the order of the hashes
(`HashOrder`; `{}` leaves the order free). One visit is one step, so what two
threads do to the pool at the same instant is not modelled. Notices are taken a
block at a time: between the transactions of one block nothing else happens to the wallet.

Two history variables. `reaccept.calm` says that a round has had the index, the
pool and the best block to itself. `misled` is what the wallet may have wrong.
Notices come before the batch commits (`main.cpp:1524`, `1663`); when the batch
fails, or the program dies before it commits, nothing takes them back. From then
on the wallet may have wrong what is spent, in which block a transaction is, or
whether a coinstake's coins are free again, until a rescan. And a visit may mark
an output spent on the word of an index about to be replaced (`"race"`). The
properties are conditioned on just the part concerned; `RefundsKept` is stated
without `"race"` and fails (section 4).

### KeyPool

`cs_wallet` is held through a command, so one `job` at a time takes its steps: one
per write to the database or to the key store, since the relocking thread
(`ThreadCleanWalletPassphrase`) locks without taking `cs_wallet` and the program
may stop anywhere. `file` is `wallet.dat`: plain and encrypted keys, the
passphrase of the master key, the records of the pool, the default key.
`EncryptWallet` writes the encrypted keys and the master key in one transaction
(`CommitEncryption`), renews the pool key by key (`EraseKey`, `GenerateKey`,
`WriteKey`), rewrites the file once nobody has it open, and shuts the program
down. A failed one leaves its handle open (`leaked`), as the code does.
`walletpassphrase` starts `ThreadTopUpKeyPool` and a timer; `Tick` lets its time
run. `given` is the history of keys handed out, as an address or for change.

### Scripts, CoinSelection, StakeModifier and Algorithms

Functions without state. Values are opaque: a number, a key, a signature that
knows its key and what it signs, a script as a sequence of opcodes, a hash that
knows what was hashed; `SizeOf`, a constant, gives their lengths to `OP_SIZE`.
`EvalScript` is a fold of `Step` over the script with the stack, the alternative
stack and `vfExec`. As in the code everything from `OP_IF` to `OP_ENDIF` runs in
an untaken branch too, so that `OP_VERIF` and `OP_VERNOTIF` fail there. `Solver`
leaves the type of a malformed multisignature at multisignature and says
separately that it failed, which `CombineSignatures` does not ask. `CreateTransaction` returns the set of
results that `rand()` may lead to. `StakeModifier` gives each block a bit that its
branch determines, and compares the modifier found along the main chain with the
one along the block's own branch.

## 3. The runs

| Run | Instance | What it shows |
|---|---|---|
| `chain` | eleven blocks in two branches, four possible checkpoints, one crash, 64,097 states | one chain in database, memory and checkpoint (`ChainConsistent`), index and chain agree and undoing never fails (`IndexConsistent`), the money supply is the sum of unspent outputs, the pool agrees with itself and the chain (`PoolConsistent`), the best chain is the heaviest sound one, the block made of whatever is in the pool connects and leaves out nothing that would (`TemplatesConnect`), checkpoints only advance, blocks only raise trust, the database implements `Ledger`, every `SetBestChain` returns |
| `poolorphan` | a block less by one transaction | finding |
| `addrman` | three hosts, four services, three buckets, 271,557 states | the tables and their indexes agree (`Check`), nothing tried is forgotten, `peers.dat` restores the tables |
| `orphantxs` | ten transactions, limit three, 3,305 states | links match orphans and the limit holds (`OrphansConsistent`), no orphan is left behind, the handler ends |
| `orphanblocks` | eight blocks, 3,472 states | pointers live, the index is a tree, stakes in use are exact (`OrphansConsistent`), the order of arrival does not matter |
| `connections` | one opening thread, two nodes, two addresses, one name, 53,530 states | nothing in use is deleted (`NodesSurviveUse`), outbound connections within the semaphore, inbound nodes get deleted |
| `grants` | two opening threads, 1,762,518 states | every unit of the semaphore is accounted for while the two share no node |
| `download` | three nodes, six blocks, batches of two, 82,082 states | what is announced is on its way or there, the exchange comes to rest, nodes agree on the best chain, and what was announced arrives |
| `wallet` | eight blocks, fourteen transactions, one crash or restored copy, 486,153 states | confirmations, spent coins and refunds are the chain's, with reacceptance beside the node's threads; a round of it undisturbed leaves out of the pool none of the wallet's own that the pool would take, if its copies are in an order in which they can be accepted |
| `respend` | the same, another transaction to make, no crash | finding |
| `keys` | two passphrases, four keys, 613,857 states | every key that matters is on file, none is handed out twice, the pool is readable, a timed unlock ends |
| `algorithms` | 666,218 inputs and results | conditionals, stack operations, multisignatures, joint signing, coin selection and kernels, each against its definition |

Bounds and why they are enough:

* **The tree of `MCChain`** has two branches that fork above matured coinbases,
  with trusts interleaved (a2 over b2, b3 over a2), so that reorganizations go
  both ways, disconnect one block or two, and leave none, one or two blocks for
  the postponed part. Transactions conflict across branches (A and C), chain
  (B spends A, and F, which no block has, spends both), lose their block and come back; d repeats a coinbase, e
  spends an output twice, b4 spends it again, so that one candidate is refused
  on arrival, one (e) fails within the batch of a reorganization, after a
  connect that succeeded or at once, and one (b4) in the postponed part.
  Templates are made in four sizes: room for one or two of A, B and F, for all
  three, and for E besides. `MaxOut` bounds the outputs of a transaction to two, `MaxCrash` the crashes to
  one: a second crash meets the same disk as a restart of the same state.
* **`MCOrphanBlocks`**: a chain of four orphans, two siblings, a stake used
  twice, a rejected block with the stake of another, a block that cannot be
  connected, any block as a pending checkpoint, any number of restarts.
* **`MCOrphanTxs`**: orphans of orphans, one with two parents, one that spends
  two outputs of which one belongs to another orphan, one with a wrong signature,
  one too large; four candidates against a limit of three.
* **`MCAddrMan`**: `MaxId` bounds the entries made between two loads (three),
  `MaxTime` the values of `nLastSuccess`. With buckets of one entry every
  insertion after the first finds its bucket full.
* **`MCConnections`**: two nodes per behaviour, never reused, so that use after
  deletion is visible. The third node adds no new interleaving: an opening
  thread, the socket handler and the message handler concern at most two.
* **`MCBlockDownload`**: batches of `Limit` two, so that a chain of four needs
  two; a fork that must be left; orphans, since a batch is asked for by its last
  block too; a block that arrives while others are under way; and, in one world, a
  connection or node lost at any time, in the other a second peer that announces
  a block first and never sends it. `Retry` is one tick: with any number the same
  requests wait behind one another. The windows of the relay (144 and 2000
  blocks) are wider than the tree.
* **`MCWallet`**: a coinbase that pays the wallet twice; transactions of its own, a
  chain of two over that (T, S) that lose and find their blocks, and V, which spends
  both; a payment (R) that comes to the pool, and moves from the block of one branch to that
  of the other; a coinstake (K); a block that fails (e) in extension or reorganization;
  one backup taken while the pool is empty and the locator up to date, one crash or
  restore. After the last one the backup is forgotten and the locator not written any
  more, since nothing would read them. `MCHashOrder` fixes in what order `mapWallet` holds
  the transactions: those made here before what they spend, the order in which reacceptance has most to do.
  V's copies are in an order that will do when T is confirmed, and not when neither is.
* **`MCKeyPool`**: two passphrases, right and wrong; a pool of one key beyond the
  one in use, the smallest in which a reserved key, a returned one and a fresh one
  are different; `MaxKey` four keys ever made, with which a pool is filled, renewed
  by an encryption and drawn from again.
* **`MCAlgorithms`**: scripts of up to six opcodes, among them all nestings of
  two conditionals with repeated ELSEs; all stacks of up to six values over
  three, up to three keys, with repetitions, and one signature too many or by a
  stranger; three parties with any of the keys and scripts, and so any order of
  merging, and redeem scripts that ask for no signature or for more than there are keys;
  `OP_SIZE`; a disabled opcode (`OP_CAT`), a reserved one (`OP_VER`) and `OP_VERIF` in branches taken
  and untaken; three coins of eight kinds against amounts around their sums; trunks of
  seven steps with two branches of two.

`CHECK_DEADLOCK FALSE` where a behaviour may end: all blocks of the tree have
arrived, all transactions are known, the nodes are at rest, the call is answered.
`OrphanBlocks` may always restart, `AddrMan` may always dump, the handlers of
`Connections` go round for ever, and a wallet may always be loaded again; those
runs check deadlock.

Fairness:

* `ChainState`, `OrphanTxs`: weak fairness of the steps of the
  call under way. The thread that holds `cs_main` keeps running, waits for no
  other lock that is held while waiting for `cs_main`, and nobody else moves.
  No fairness of arrivals.
* `Connections`: weak fairness of the socket handler's loop; strong fairness of
  the message handler and of each opening thread once it has a destination,
  since each waits for `cs_vNodes` that the socket handler frees and takes again
  in every round. No peer is assumed to do anything.
* `BlockDownload`: weak fairness of each node's message handler, which visits
  every peer in turn, of time, and of the dialling of peers that are wanted
  (`ThreadOpenConnections2`). A silent node runs the handler too: it only never
  sends a block.
* `KeyPool`: weak fairness of the relocking threads, of time, and of the steps of
  a command that has begun. Commands themselves may never come. Stops may end
  any of it.
* `Wallet` and `Algorithms` have safety properties only.

## 4. Findings

Each is a run that TLC ends with a counterexample.

1. `poolorphan`, `PoolConnects` (`main.cpp:1787`). `SetBestChainInner` removes
   the block's own transactions from the pool and not those in conflict with
   them, unlike `Reorganize`, and `Reorganize` resurrects without checking
   inputs: transactions stay in the pool that can never be mined, which
   `miner.cpp:198` says should never happen.
2. `respend`, `CommitMustNotFail` (`wallet.cpp:391`). When a block confirms a
   transaction, `WalletUpdateSpent` marks all of its outputs that are the wallet's
   as unspent, in a reorganization for a second time. One that the wallet has
   spent since, in a transaction still in the pool, is offered again; the next
   transaction that takes it is recorded and then refused by the pool, of which
   `wallet.cpp:1804` says "This must not fail".

More expectations are stated in the modules that the code does not keep to. No
run checks them; TLC refutes each within a minute or so when it is added to the configuration
named.

* `MemoryNeverAheadOfDisk` (`MCChain_chain.cfg`; `main.cpp:1853`, `1867`). If a
  postponed connect fails, "errors now are not fatal", but `SetBestChain` goes
  on and sets `hashBestChain` and `pindexBest` to the block it was called for.
  Memory is ahead of the database until the restart. It takes a crash between
  the commit of a block's index record and its connection, or a checkpoint on a
  lighter branch: otherwise a parent heavier than the best block is the best block.
* `DuplicateStakeHasChild` (`MCOrphanBlocks_order.cfg`; `main.cpp:2345`). A
  duplicate stake is refused when a block arrives, not when it is set free as an
  orphan.
* `EvictsLeastRecentlyTried` (`MCAddrMan_tables.cfg` with buckets of two;
  `addrman.cpp:143`). `SelectTried` returns the position at which it drew the
  entry, not the one to which it has swapped it.
* `DisconnectedDeleted` (`MCConnections_connections.cfg`; `net.cpp:1562`).
  `OpenNetworkConnection` sets `fNetworkNode` when the node is already in
  `vNodes`. If the socket fails first, the node is never deleted, and the grant
  that is moved to it is lost: after `MAX_OUTBOUND_CONNECTIONS` of these the node
  opens no more connections. `DisconnectedHoldNoGrant` and
  `ThreadsDoneBeforeDelete` say the same of the grant (`net.cpp:1561`) and of
  `fOneShot` (`1564`).
* `RefCountNotNegative` (`MCConnections_grants.cfg`; `net.cpp:479`, against the
  assertion at `net.h:263`). With two opening threads, one finds by `FindNode` the node
  of the other and increments its count outside `cs_vNodes`; references that the
  handlers take between its read and its write are lost, and when they release theirs
  the count falls below zero.
* `RefundsKept` (`MCWallet_wallet.cfg`; `wallet.cpp:911`, against `main.cpp:136`,
  "wallets need to refund inputs when disconnecting coinstake"). The wallet does so
  when the block is disconnected in the batch. A visit of
  `ReacceptWalletTransactions`, which starts after the node's threads and does not hold
  `cs_main` (`init.cpp:919`), then still finds the old record of who spent the coin in
  the index and marks it spent. When the batch commits, the coin is free in
  the chain and spent in the wallet, until `repairwallet`.
* `OwnTxsReaccepted` (`MCWallet_wallet.cfg`; `wallet.cpp:831`, against "Re-accept any txes of
  ours that aren't already in a block" and "Add previous supporting transactions first").
  V spends an output of T and one of S, and S spends T. V's copies are found in the
  order T, S, and reversed: S is tried before T and refused, then T enters, and V is
  refused because S is missing. S comes in when its own turn comes, V not any more. So
  it goes when V has the smallest hash of the three.
* `NoOrphansNoLinks` (`MCOrphanTxs_loop.cfg`; a lookup with `operator[]` leaves
  empty sets in `mapOrphanTransactionsByPrev`, against `DoS_tests.cpp:223`).
* `NextBatchFollows` (`MCBlockDownload_download.cfg` with `MCStakedWorlds` and all
  blocks but f in `ProofOfStake`; `main.cpp:3159`). A batch is continued by announcing the last
  *proof-of-work* block of the best chain. Past the end of proof-of-work
  (`LAST_POW_BLOCK`, `main.h:29`) a peer that has caught up so far has that block,
  asks for nothing, or repeats a `getblocks` that the filter at `net.cpp:91`
  drops: the batch is the last until a new block arrives. A long side branch ends
  in the same way.
* `KeyStoredForTimeout` (`MCKeyPool_keys.cfg`; `wallet.cpp:142`, against the help
  at `rpcwallet.cpp:1427`, "Stores the wallet decryption key in memory for
  <timeout> seconds"). `ChangeWalletPassphrase` notes whether the wallet was
  locked, tries the old passphrase, and locks it again if it was. Relocked by the
  timer in between, a wallet that was not locked is left unlocked, with no timer.

Observed and not stated as a property:

* A block whose index record was committed before a crash is not connected at
  restart, however heavy; it becomes part of the best chain only when a child of
  it arrives.
* An orphan transaction whose parent arrives in a block, or from this node's
  wallet, is not tried again.
* After a failed reorganization, or a crash before its commit, the wallet keeps
  blocks, spent flags and refunds of a chain that never was (`misled`), until
  `-rescan` or `repairwallet`.
* `repairwallet` also frees coins that a transaction in the pool spends, and
  `ReacceptWalletTransactions` marks inputs of none, nor any output of a coinbase or
  coinstake whose first real output is spent.
* Two opening threads that share a node use its grant without a lock (`sync.h:177`,
  `sync.h:187`). Both in `MoveTo`, or one of them while the socket handler releases
  `grantOutbound` (`net.cpp:680`), they can lose a unit of the semaphore or post one
  twice; `GrantsConserved` without its condition `~ shared` has a counterexample
  of either kind under `MCConnections_grants.cfg`.
* Reacceptance calls `AcceptToMemoryPool` without `cs_main` (`init.cpp:919`), beside
  threads that change the pool and the index under it.
* A passphrase change that fails leaves the wallet locked with the old time still
  set. A relock during `ThreadTopUpKeyPool` throws in a thread nobody catches in.
* The `CReserveKey` of `getwork` never reserves (`miner.cpp:465`, `127`): the key a
  block pays is back in the pool while the block is being mined.
* In `EncryptWallet`, a failed `TxnBegin` leaves the master key in memory and its
  handle open, for which a later `Rewrite` waits for ever; the result of
  `WriteMasterKey` is ignored; a crash between the commit and `NewKeyPool` keeps a
  pool of keys from before the encryption.
* A proof of stake on a branch that forked longer ago than the margin of
  `StakeKernelsDetermined` is checked with another branch's modifier; and
  `mapProofOfStake` keeps the first proof of a block.
* The rule on dust in `GetMinFee` cannot apply: the fee it raises is already at
  least as high.

## 5. Proofs

Checked by TLAPS for every tree of blocks, set of checkpoints, number of
crashes and all other constants that satisfy the assumptions in the modules.

| Theorem | Module | Says |
|---|---|---|
| `TypeInvariant`, `TypeCorrect` | `ChainStateProofs` | `TypeOK`, and what `job` has to do with the tree at each stage |
| `PoolAlwaysLinked` | `ChainStateProofs` | `PoolLinked` |
| `CheckpointsAdvance` | `ChainStateProofs` | `CheckpointOnlyAdvances` |
| `StateInvariant` | `ChainStateProofs` | the inductive invariant below |
| `CommittedLinked`, `MemoryAgrees`, `CheckpointOnChain` | `ChainStateProofs` | `CommittedChainLinked`, `MemoryMatchesDisk`, `SyncCheckpointInMainChain` |
| `TrustOnlyGrows` | `ChainStateProofs` | `BlocksOnlyRaiseTrust` |
| `LedgerInvariant` | `ChainStateProofs` | the index of the database and of the batch |
| `SpentAlwaysMatches`, `DisconnectsSucceed` | `ChainStateProofs` | `SpentMatchesChain`, `DisconnectNeverFails` |
| `PoolDisjoint` | `ChainStateProofs` | `PoolDisjointFromChain`, after a failed postponed connect too |
| `ChainIsConsistent`, `IndexIsConsistent`, `PoolIsConsistent` | `ChainStateProofs` | `ChainConsistent`, `IndexConsistent`, `PoolConsistent`: what the run `chain` checks, joined from the theorems above |
| `ChainImplementsLedger` | `ChainStateProofs` | `ImplementsLedger`: the chain database refines the abstract ledger |
| `SupplyIsUnspent` | `ChainStateProofs` | `MoneySupplyIsUnspent`: the recorded supply is what the unspent outputs are worth |
| `OrphanInvariant`, `OrphansAlwaysConsistent`, `ArrivalOrderNeverMatters` | `OrphanBlocksProofs` | `OrphansConsistent`, `ArrivalOrderIrrelevant` of the orphan blocks |
| `OrphanTxInvariant`, `OrphanTxsAlwaysConsistent`, `NoneLeftBehind` | `OrphanTxsProofs` | `OrphansConsistent`, `NoOrphanLeftBehind` of the orphan transactions |
| `KeyInvariant`, `KeysAlwaysRecoverable`, `KeysGoOutOnce`, `PoolAlwaysReadable` | `KeyPoolProofs` | `KeysRecoverable`, `KeysHandedOutOnce`, `PoolReadable` |
| `ConnInvariant`, `GrantsAlwaysConserved`, `OutboundAlwaysWithinLimit`, `NodesAlwaysSurviveUse` | `ConnectionsProofs` | `GrantsConserved` for any number of opening threads, while none shares a node with another; with one opening thread `OutboundWithinLimit` and `NodesSurviveUse` |
| `DownloadInvariant`, `AnnouncementsKept` | `BlockDownloadProofs` | `AnnouncedNotForgotten` |
| `AddrManInvariant`, `AddrManChecks`, `TriedStayKnown`, `DumpNeverLoses` | `AddrManProofs` | `Check`, `TriedNeverForgotten`, `DumpLoadKeepsTables` |

The argument. `BranchTheorems` proves of `BlockIndex` what the rest needs of
the tree: `Branch` is the least set closed under `pprev` (so that a fact about
all of a branch needs no induction), branches are totally ordered by height,
`TraceBack` finds the ancestor at a height, and the fork point is the last
common block. `ChainStateProofs` first shows `TypeInv`: types, and at each stage what
the locals are (the fork is on both branches, the batch's tip lies between the
fork and the old best block while disconnecting, between the fork and the
intermediate block while connecting, and so on).

None of the safety properties is inductive by itself. That the committed
pointers trace the committed branch after `ReorganizeCommit` needs that the
batch's pointers traced the branch of `job.tip` all along, and that the memory's
`pnext`, which `ConnectBlock` consults for the block it connects, has nothing
above the fork on the new branch; memory must agree with the disk when a
reorganization begins, which the previous one left by relinking; and that the
new branch passes through the checkpoint needs that the target was accepted
under `CheckSync`, or is itself the checkpoint being forced. `StateInv` joins these,
stage by stage, all under `~diverged`, with the trust of the intermediate block
(greater than the old best one's, or a checkpoint forced it). It was checked by TLC
first; `StateStep` has one case per action, grouped as the reorganization, what
follows its commit, and what happens outside.

`LedgerInv` adds to it that `Indexes` holds of `db` at its best block and, within
a reorganization, of `batch` at `job.tip`. That `Connect` keeps it rests on one
fact: no transaction of a block that connects is indexed already
(`ConnectsFresh`). BIP30's check alone does not give it, for it lets a spent
transaction be replaced. A coinbase cannot be there because it names the height
of its block, which `AcceptBlock` checks of every block (`AcceptedInv`). Any other
one would have spent its own inputs, so each would have to come from a
transaction of the same block; that one is indexed too and stands earlier, and
the first of them has none before it. From there each output has one spender,
`Disconnect` undoes exactly what `Connect` did, and `DisconnectInputs` finds what
it asks for because an input comes from below, or from earlier in the block.

`PoolInv` (`ChainStateProofs`) follows one transaction through a reorganization:
between the commit and the end of the deletes it may be both in the pool and
indexed, but then it is still in `vDelete`. What is resurrected was unindexed when
its block was disconnected, so only a block connected since can have indexed it,
and that block put it in `vDelete`.

### The refinement of `Ledger`

`ImplementsLedger` says that `db.best`, the outputs its index has unspent, and the
checkpoint behave as `Ledger` does: a single step moves from one sound branch
to another (`Move`), or pins the branch (`Pin`). The ledger knows what a branch
leaves by replaying it, a recursion over the tree. `LeftBy` states the same
without recursion: an output is left if a block of the branch creates it and no
block of the branch consumes it. `LeftByStep` shows that this obeys the equation
of the recursion at every block, and `CoinsAreLeft` that nothing else does: where
two solutions differ, they differ at a lowest block, and there the equation
settles it. With `Indexes` this gives `Unspent(db) = Coins[db.best]`
(`UnspentIsCoins`), and it makes the test of `ConnectBlock`, put to the index,
the ledger's test of the block, put to the replay (`ConnectSound`). `SoundInv`
carries it: `db.best` ends a sound branch, and so does `job.tip` in the batch, down
to the fork (what lies below a sound block is sound) and up again. A commit is then
a `Move` in one step, however many blocks it exchanged; `WriteSyncCheckpoint` is a
`Pin`; everything else is a stutter. The property excuses the steps after memory
and database have come apart (the finding of section 4), and the proof needs
nothing of them.

### The money supply

`ConnectBlock` adds to the supply of the block before what its transactions pay out
less what they take in; a fork point's record is taken up again when the new
branch is connected. That this comes to what the unspent outputs are worth is a
statement about sums over sets of any size. `SumFunction` is a function chosen by
the equation it obeys, and an induction over finite sets can be replaced by a smallest
counterexample (`BySize`): where an equation on sums failed, it would fail for a
set all of whose proper subsets it holds for. `BranchTheorems` has from this the sum over a union, a
difference, a family of disjoint sets and a renaming (`TotalUnion`, `TotalMinus`,
`TotalFamily`, `TotalRenamed`), and that sums of numbers are numbers.

For a sound block, the outputs it creates are worth the sum of `GetValueOut`
(`CreatedWorth`). Those it consumes are claimed once each and are all of the coins before
it or of its own making, so they are worth the sum of `GetValueIn` (`ConsumedWorth`). The
coins after it are then worth what they were before plus what it mints
(`BlockMints`). `SoundInv` carries this as `Replays`: every block of the branch
of the database, and within a reorganization of the batch, is sound and has on
record the worth of its coins. A disconnection leaves the records alone, and an
abort or a crash leaves the database's. `UnspentIsCoins` turns it into the property.

### Orphan blocks

`OrphanInv` says what is still to come (`ArrivalInv`). A block that has arrived is
indexed, kept as an orphan, or was rejected. An orphan whose parent is indexed all
the same has that parent in the work queue, or its parent is one that was indexed
and could not be connected. When the loop is done the queue is empty. So take a block
whose branch has all arrived, with none of it rejected or unconnectable: the lowest
block of the branch that is not indexed would be an orphan under an indexed
parent that is neither, and there is none (`KeptBranchIndexed`). The stakes seen are
tied to the index and to the orphans separately, so that one that goes with its
orphan may be seen again.

### Orphan transactions

`OrphanTxsProofs` shows for every set of transactions, whatever they spend, that
the loop of the `tx` message frees all it should. The invariant that carries it is
`FreedIsReached`: an orphan that is kept though all its inputs are in the pool is
already in `vEraseQueue`, or is to be visited, or spends from an entry still ahead
in `vWorkQueue`. It survives a visit because whatever enters the pool is queued at
once, and the end of the handler because what is in `vEraseQueue` is then erased.
It says nothing of what the node sends itself (`LocalTx`): nobody walks the orphans
for these. A block only takes from the pool.

### Key pool

`KeyInv` relates memory and file at each stage of a command. `FileInv`: every key
handed out, in the pool, the default or paid to by a template is on file, the file
holds its keys all in the clear or all encrypted, and with a master key exactly in
the second case; while the program is up its keys are those of the file. `JobInv`: the key
whose pool record is about to be written is on file already, there is something to
encrypt when `EncryptWallet` comes to it, and what `NewKeyPool` has yet to erase it knows
of. What a stop leaves is then the file, from which `LoadWallet` rebuilds the rest.
That a new index is free (`NextIndexIsNew`) is the greatest of a bounded set of
numbers plus one; that such a set has a greatest (`MaxIs`) comes from the
well-foundedness of `<` rather than from a count.

### Connections

`ConnInv` says where each node is (`vNodes`, `vNodesDisconnected`, between the two, or
deleted) and, while `~ shared`, where each unit of the outbound semaphore is: in the
count, with an opening thread, or with a node. That the three steps of a release and
the four of a move do not meet on one grant is what has to be carried. `MovesApart`:
no two threads move a grant to one node. `PostsOwn`: an opener finds no grant
to release on its node, which is one it has just made, so that the only posts are the socket
handler's, and the node it posts for still has the grant. `OursGranted`: a connection
of ours on `vNodes` has a grant or is about to get it. `GrantsConserved` follows for
any number of nodes, addresses and opening threads. It is conditional on `shared`
because without the condition it is false (section 4).

With one opening thread the condition is met for ever: the thread
never finds by `FindNode` what it did not find when it chose the address
(`OneOpener`). `OutboundWithinLimit` follows without condition then, since each
outbound connection has or is about to get a unit of its own. And `RefInv`
says of every node that is held that its count is at least the number of
copies it is in, plus one for its own reference until that is released; the node the
thread marks is the one it made. The hypothesis cannot be dropped: `FindNode` lets go of
`cs_vNodes` before `ConnectNode` calls `AddRef` on what it returns, and that is no atomic
increment (`net.cpp:479`), which is how `RefCountNotNegative` fails (section 4).

### Address manager

`Agrees` is `CAddrMan::Check_` without its counting, and what an operation needs to
restore it. `Order`: `vRandom` and the `nRandomPos` of the entries are each other's
inverse. `Addresses`: so are `mapAddr` and the addresses of the entries. `Placed`:
an entry is tried exactly when it stands in its tried bucket, once. `Counts` and
`Referenced`: `nNew` and `nTried` are the sizes of the two sets, and
`nRefCount` is the number of new buckets an entry is in. `Table` is all of it but
`Referenced`, which `Add_` breaks and mends within one call. One lemma per operation shows that
it keeps `Agrees`, through the steps it is made of (`Create`, `SwapRandom`,
`Delete`, `LeaveNew`, `Evict`, ...), each under what the code has established by then.

Three operations are loops, written as recursive functions over the steps:
`SelectTried` and the shuffle of `GetAddr_` over what they pick, `Load` over the
entries of `peers.dat`. An invariant of a loop is proved without induction over
data: if it failed at some step there would be a least one, before which it held.
`FileOK` says what `Load` relies on: no two entries of the file have one address, every new
entry is referenced, none of them too often, and no bucket is over its limit. That `Serialize`
writes such a file rests on `InOrder`, the identifiers in the order of the map, and on
`mapUnkIds`, the rank of a new entry, which is its place in that order. As a file always
comes from a table, `FileOK` is part of the invariant, and `Restart` needs no more.

`DumpLoadKeepsTables` follows the entries through both. A new entry's rank is its place
in the file and its identifier once read back, so buckets of ranks become buckets of
the same entries (`OrderRanks`). A tried entry would be lost if its bucket were full when it is
read; but those read into a bucket stood in it before, each once (`LoadKeepsAll`).

### Block download

`AnnouncedNotForgotten` is about two nodes and what is between them, and three
things can break it that no single handler shows. A node could believe a peer knows
a block that the node itself has not got: then a request of the peer would go
unanswered. So `Known` says more than the property, that a block taken to be known
and not yet had by the peer is one the node *has*, and `Sound` gives it that: what a
node has sent as an inventory or a block, and what waits in `vInventoryToSend`, it
has in its index. A node could drop what it has: `Blocks` says that the index only
grows, that orphans are no part of it, and that a restart, which forgets the
orphans, also closes the connections over which others may have counted on them. And
a handler could take a message off the queue without putting in its place what
follows from it. `Handled` says, for all five handlers at once, what that is:
what the message brings the node has or asks for afterwards, what it asks for is sent
(lest the node is silent), and nothing else on its way is touched. `HandledKeeps`
shows that this is enough; then each handler is shown to be of that form.

`inv`, `getdata`, `getblocks` and the relay of accepted blocks are loops, and
`mapAskFor` is a queue by time. They are written as recursive functions over the
entries, and an invariant of such a loop is proved like those of the address
manager, by a least step at which it would fail (`InTurn`). `DownloadInvariant` holds
of every number of nodes, of every length of a message, batch and queue, and with
silent nodes; the run checks three nodes.

### Assumptions

`TreeAssumption` (heights grow by one along `pprev`, genesis is the
root, trust grows), `TxAssumption` (shape of blocks' data: among it that a
transaction has finitely many inputs and that `MIN_TX_FEE` and `MaxOut` are natural
numbers), `BoundAssumption`. `FilterAssumption` in `BlockTree` states what would need an induction
over a sequence: filtering a block's transactions gives transactions of the block. `KeyPool` assumes that no passphrase is the mark for none (`NoPass`),
`Connections` that there are finitely many opening threads and at least one address,
`AddrMan` that there are finitely many new buckets and that sizes and limits are positive.
`BlockDownload` assumes that
what a node starts from is a set of blocks with their branches, one of which is the
heaviest, and that no node is connected to itself: the `version` message carries
`nLocalHostNonce`, and a node that reads its own hangs up.
TLC evaluates all of them on every run.

### Only model-checked

* Liveness (`SetBestChainReturns`, `HandlerEnds`, `InboundDeleted`, `ComesToRest`,
  `Converges`, `AnnouncedArrives`, `TimedUnlockEnds`), which the prover does not
  reach.
* `BestIsHeaviestSound` is a fact of the instance and no theorem. Its blocks fail to
  connect for reasons that `Sound` sees; a block of another tree may be sound for
  the ledger and still be refused for its fees, its scripts, an immature coinbase or
  its reward. `TemplatesConnect` compares sums of fees and rewards.
* `ConfirmationsKnown`, `SpendsKnown`, `RefundsKnown` and `OwnLinesReaccepted` of `Wallet`:
  a rescan is a fold over the chain and over each block in the model.
* The algorithms, whose definitions recurse over their data.

## 6. Not modelled

Cryptography, encodings, difficulty and rewards' amounts are data without control
of their own. Byte strings are opaque in `Scripts`, so the hashing opcodes, number
encodings and the signature cache are left out, and of the kinds of signature hash
only `SIGHASH_ALL` is there. The RPC server, the user interface, IRC, addresses of
the network and packaging are input and output. leveldb, Berkeley DB, JSON and
libzerocoin are third-party code. Alerts and the network's time change nothing the
properties of another component speak of. Of the miner the threads and the search for a stake are left out, which decide
whether a block is offered and not whether it is valid. A template is made on the
best block: that `CreateNewBlock` reads it before it takes `cs_main`
(`miner.cpp:117`) is not modelled, since `CheckWork` and `CheckStake` refuse a block
whose parent is no longer the best. `ThreadFlushWalletDB`
and the use counts of files stand between the wallet and Berkeley DB, which is
external; what is written is taken to be on disk. Writes of leveldb do not fail,
and block files are not torn (`main.h:1023`).

## 7. What is left

Modules: the mining threads as a module of their own, with a tip that moves between
`CreateNewBlock` and `CheckWork`; `WalletFlush` (use counts
against `Flush` and `Rewrite`, `db.cpp:460`); `Alerts` and `NetworkTime`, as
functions against definitions.

Proofs: `ConfirmationsKnown` on top of `StateInvariant`.
