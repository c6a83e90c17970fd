# A TLA+ model of the Lido Council Daemon

The daemon is one guardian of Lido's deposit council. For each block that Keys
API knows it decides whether deposits must be paused, whether keys must be
unvetted, and for which staking modules it attests that depositing is safe; it
signs the answer and sends it to a message broker and, for pauses and unvets, to
the deposit security module (DSM) contract. A wrong or missing signature is what
the council exists to prevent. Nearly everything in the daemon is `async` code
in one process, sharing services that hold mutable state. What can go wrong is
mostly what happens between two awaits.

Paths below are relative to the repository's root.

## Inventory

| Part | State | Operations | Talks to |
| --- | --- | --- | --- |
| Guardian cycle, `src/guardian/guardian.service.ts` | `lastProcessedStateMeta`, `lastPingBlock` | `handleNewBlock` on an interval; `handleKeys`, started by a cycle and not awaited | all the parts below |
| Staking module guard, `src/guardian/staking-module-guard` | `lastContractsStateByModuleId` | `handlePause`, `handleCorrectKeys`, the front-run and withdrawal credential checks | security service, messages |
| Execution context, wallet, DSM strategies, `src/contracts/security`, `src/wallet` | the active wallet of the pool, OneAtTime flags | build a context at a block hash, select a wallet, sign, send pause and unvet transactions | DSM and delegation contracts |
| Contract cache, `src/contracts/repository` | the contract objects of the current block | overwritten by every cycle | locator contract |
| Messages and transports, `src/messages`, `src/transport`, `src/contracts/data-bus` | connection, sender and mutex per wallet | publish | RabbitMQ, Kafka or the Data Bus chain |
| `OneAtTime`, `src/common/decorators/one-at-time.ts` | a flag per method, a flag per call id | start, skip, settle, time out | decorates six methods |
| Deposits registry, `src/contracts/deposits-registry` | LevelDB, its image in memory, the deposit tree | `initialize`, `updateEventsCache`, `getAllDepositedEvents` | execution layer |
| Signing keys registry, `src/contracts/signing-keys-registry` | LevelDB with the module list it was built for | update, delete, read | execution layer |
| Key checks, `src/guardian/duplicates`, `keys-validation`, `unvetting` | LRU caches | pure functions of keys and events | Keys API |
| Keys API client, `src/keys-api` | keys cached by last changed block | get modules, operators, keys | Keys API |
| BLS, metrics, health, configuration, ABI bindings | none that decisions depend on | | |

What is hard to test in it: the key task of one block runs beside the cycles of
the following blocks and they share the wallet selection, the contract cache and
the records of what was done; a method that exceeds its `OneAtTime` timeout runs
on beside its successor; one of several sends fails; a DSM upgrade or a delegate
rotation falls between two awaits; the deposit cache is written in three places
with no transaction around them, by a process that may die at any point, from
providers that may answer incompletely. `PROJECT.json` lists each hazard at its
line with the properties that cover it, and says so where none does yet.

What makes each part correct:

- *Cycle and key task.* Every message is signed by the wallet of its own block's
  context; nothing unsafe is attested; a block counts as processed only when its
  modules are attested; a threat is announced even while a key task hangs in its
  checks.
- *OneAtTime.* The flags tell the truth, conflicting executions are not awaited
  together, and no lockout lasts.
- *Deposits registry.* What is served is every deposit up to the block; headers
  promise nothing the database does not hold; a restart always heals.
- *Signing keys registry.* The duplicates check is told every event of a key up to
  its block and of the modules of its block, through changes of the module list.
- *Key checks.* An attested deposit is never lost and no key is funded twice,
  whatever operators and strangers do meanwhile; operators without reproach keep
  their vetted keys; unvetting comes to an end.
- *Transports.* Messages of a wallet leave one at a time and do not take each
  other's nonces; a publication that resolves can be read on the bus, in the form
  it was published in. The STOMP client keeps one socket, its flags speak of that
  socket, and nobody waits for a connection for ever.
- *Event fetching and deposit tree.* However a range is split and whatever order
  events arrive in, no block is skipped or asked for twice, the branch stands for
  the whole tree, and the comparison of roots finds every missing event unless an earlier call failed.

## Modules

| Module | What it is |
| --- | --- |
| `GuardianCycle` | cycles, key tasks, jobs (messages on their way), wallet, cached DSM, transactions |
| `GuardianCycleProofs` | its inductive invariant and eight theorems |
| `MCGuardianCycle` | the chains used for model checking it |
| `OneAtTime` | the decorator on its own |
| `OneAtTimeProofs` | its inductive invariant and four theorems |
| `MCOneAtTime` | six call sites |
| `DepositsRegistry` | database, image, tree and the two operations over them |
| `DepositsRegistryProofs` | its three inductive invariants and four theorems |
| `MCDepositsRegistry` | a chain with two deposits in one block |
| `SigningKeysRegistry` | database with the module list it was built for, update, deletion, lookup of a key |
| `SigningKeysRegistryProofs` | its inductive invariant and four theorems |
| `MCSigningKeysRegistry` | a chain on which a second module with older events appears |
| `KeyChecks` | the checks and decisions about keys, among operators, strangers and contracts |
| `KeyChecksProofs` | its inductive invariant and five theorems |
| `MCKeyChecks` | three operators of two modules and three histories |
| `SerialSender` | abstract: what the Data Bus transport promises the daemon |
| `DataBus` | transport, service, sender with its mutex, client and the bus's chain; implements `SerialSender` |
| `DataBusProofs` | its inductive invariant, the refinement and five more theorems |
| `MCDataBus` | three messages in three loads that have all kinds, two wallets |
| `Stomp` | the STOMP client: sockets, flags, `connectWithRetry`, `send` |
| `StompProofs` | its inductive invariant and four theorems |
| `MCStomp` | two sends |
| `RangeFetch` | `fetchEventsFallOver`: a range of blocks, split when providers fail |
| `DepositTree` | the deposit tree's branch and root, and the Merkle root by definition |
| `DepositSync` | composes the two: fetch, sort, put into the tree or its clone, check |
| `DepositSyncProofs` | its two inductive invariants and three theorems |
| `MCDepositSync` | six blocks with seven deposits |

How the parts meet. A key task of `GuardianCycle` calls the registries, whose
answers it takes as data of its snapshot, and `KeyChecks` says what that data is.
`DepositsRegistry` takes the events of a chunk as one answer and the tree as the
list of its leaves; `DepositSync` has the real fetcher and the real tree and shows
both to be right: a fetch that returns has each block once (`Tiled`), and the root
is that of the leaves (`TreeIsItsLeaves`), also after a call that failed half-way.
`GuardianCycle` publishes a message in
one step that delivers it or fails; `DataBus` and `Stomp` are what happens in it.

### GuardianCycle

An action is the code of one task between two awaits. A *snapshot* stands for a
block hash: the constant `Chains` says what the execution layer answers at each
(`BlockData`: number, DSM, effective delegate, whether the guardian is listed,
whether there is a threat, deposit root, last changed block of each module, bad
and blocked modules, wallets short of ether). Everything the code reads at a
block hash is a function of the snapshot; `head` is the newest one Keys API serves.

| State | Code |
| --- | --- |
| `active` | `WalletService.activeWallet` |
| `cachedDsm` | the DSM in `RepositoryService.tempContractsCache` |
| `lastMeta`, `lastPing` | `lastProcessedStateMeta`, `lastPingBlock` |
| `lastStates` | `lastContractsStateByModuleId` |
| `task[t]` | an execution of `handleNewBlock` (`t` in `Cycles`) or `handleKeys` (`t` in `KeyTasks`): where it is, its block, the context's DSM, the wallet whose balance was read; `live` while OneAtTime waits for it |
| `job[<<t, m>>]` | a message of the task: the pause of a cycle, the unvet (`m = 0`) and the attestations of a key task; requested prefix, signer, sender |
| `txs`, `pings` | transactions and pings nobody waits for |
| `bus` | what was delivered to the broker, with the digest that was signed |

A digest is what a contract puts together again: `v4Digest` has the prefix, block,
root and module, `v5Digest` the guardian's address besides. `signData` takes the
layout from the task's context and the prefix from whichever DSM answered the
request; `Accepts` says which message the DSM at an address takes. A DSM is an
address; `V5Dsms` are those of version 5 (`IsV5`), so that one may replace another
of the same version.

`handleNewBlock` is `StartCycle`, `ReadModules` (with the early exit),
`CacheContracts`, `CollectData`, `ReadVersion`, `ReadGuardians`, `ReadBalance`,
and then `DecidePause` ... `FinishPause` or `DecideKeys`, which starts a key task
or drops the call. `handleKeys` is `CheckKeys`, `HandleDeposit`, `FinishKeys`. A
job goes through `Sign`, `Publish`, `Transmit`. `TaskFails`, `JobFails`,
`PingFails` and `TxFails` are rejected awaits: when the attestation of one module
rejects, the task ends while its other attestations run on, as `Promise.all`
does. `TimesOut` clears the flag and leaves the task running.

A slot of the model (`Cycles`, `KeyTasks`) is reused once nothing of its last
execution runs; the number of slots bounds how many executions overlap.

### OneAtTime

`exec[c]` is the execution of a call site: idle, racing its timer, or a zombie
that lost the race and runs on. An id of 0 counts as none, as in the code.
`GuardianCycle` and `DepositsRegistry` model the effect of the decorator directly
(`Busy`, `TxBusy`, `live`); the facts they rely on are the theorems here.

### DepositsRegistry

`db` (records, headers, last valid event), `cache` (the store's image in memory)
and `tree` (its leaves; two roots are equal when the leaves are) are separate.
`Boot` is `initialize` up to the update; `updateEventsCache` is `ReadFinalized`,
then `FetchChunk`, `IndexEvent` (once per event; the code yields after the
first event of a chunk and every 200000th, so the model has more interleavings) and `InsertChunk` per chunk, then `Verify` and `Mark` or `Clear`;
`getAllDepositedEvents` is `Collect`, `FetchFresh`, `Serve`. A provider may answer
truthfully, without the events of one block, or with a block of another branch
above the finalized one (`Answers`). `Fails` is a rejected await, `Crash` the end
of the process, `TimesOut` the end of waiting. Memory is lost with the process,
the database is not.

### SigningKeysRegistry

`db` holds the event records and the headers (the module list and the last cached
block). An action is what a key task does between two awaits.
`updateEventsCache` is `Compare` (the module list of the task against the cached
one), on a difference `Clear` and `Wipe`, then `ReadCache`, and per chunk
`FetchChunk` and `InsertChunk`, which writes records and headers in one batch.
`getUpdatedSigningKeyEvents` is `ReadData`, `ReadHeaders` and `ServeKey`: records
and headers are two reads. `db.clear` is not atomic either: LevelDB deletes in
batches, in the order of the names, so the headers go with the first one and a
crash leaves records without headers, never headers without their records. Keys of
one task are looked up side by side in the code; their answers do not depend on
each other, so a task of the model asks for one, any one. A provider may lag by a
block, omit a module's events of a block, or answer from another branch above the
finalized block. `Fails`, `Crash` and `TimesOut` are as in `DepositsRegistry`, and
a rejection during `initialize` ends the process.

### KeyChecks

The checks are operators with the names of their methods: `getDuplicatedKeys`
with the choice of an original, `getFrontRunAttempts`, `getInvalidKeys`, the
earliest deposit of a key and its credentials, `findNewVettedAmount`. Around them
is the world they are made for: operators add, remove and get keys vetted,
strangers deposit for any key, modules fund the next vetted keys of their
operators, one or many per transaction. `HandleNewBlock` is the guardian's reading
at the end of a block, one step since all of it is at one block hash. Its messages
arrive any number of steps later. The contracts, modelled from what the code hands
to them, accept an attestation as long as the nonce of the module and the deposit
root are those it was made for, and an unvet message as long as the nonce is.
`Breach` is a deposit made without this guardian, the case the pause exists for.
The pause of one module, the signing windows and the guardian list are left to
`GuardianCycle`. A behaviour begins with any of the `Histories`, chains on which no
money has been lost and no key funded twice yet (`HistoriesAssumption`): the daemon
cannot undo what was lost before it started.

### DataBus

| State | Code |
| --- | --- |
| `pc[m]` | where `publish()` of message `m` stands: waiting for the mutex, woken, holding it, settled |
| `from[m]`, `nonce[m]` | the wallet it was called with, the nonce it read |
| `locked[w]` | `currentPromise` of the `Mutex` in the sender of wallet `w` |
| `pool`, `count`, `bus` | external: the pending transactions, those mined per wallet, the messages mined |

`Publish` is `DataBusTransport.publish` up to the first await, with `lock`; all who
wait wake when the mutex is released (`unlock`), and take it or wait again (`Wake`).
The holder encodes the message for its event and reads the nonce (`sendMessage`),
sends the transaction (`Broadcast`, or `Refused` or `AnswerLost`), and waits for it
(`Confirmed`). Any of its calls may reject (`RequestFails`). The event of a message
and the form of its signature depend on its type and DSM version as in the
serializer; `Encodable` is what `abi.encode` demands. `initialize` and `connect`
are steps of `Publish`: the first reads of the balance swallow their errors, so no
publication is rejected for them. The chain mines the
transactions of a wallet in the order of their nonces, may drop a pending one, and
replaces one by another of the same nonce. A node may be a transaction behind.
`Restart` forgets every publication and leaves what is pending pending.

The refinement maps `pc` to the states of `SerialSender`, and `onBus` to the
messages for which `getAll` finds what was published: a message mined as another
event would not count.

### Stomp

`ws` is the client's socket and `left` the earlier ones whose events may still
arrive; their handlers change the same flags (`opened`, `connected`). `loop` is
`connectWithRetry`, whose promise is `connectionPromise`. `Send` writes the frame
at once, `SendReconnects` waits for the promise and starts an attempt if there is
none; `TransmitConnect`, `Connected`, `TransmitFails`, `WaitTimesOut`, `Retry` are
the attempt; `onOpen`, `onConnected`, `onError`, `onClose`, `onNormalClose`,
`onLateClose` are the handlers. `reconnect` closes an open socket and makes the next
one in the same step, so the close event of the first always comes later: it is then
in `left`, "closing" as long as it still receives frames, "broken" after an error, and
ends with `onLateClose`, whose code may be 1000 or any other. Two histories are kept
beside the client's state: `misled` is set when CONNECTED comes from a socket that was
already being closed, and cleared when the flags are taken down; `early` is set by a
SEND before CONNECT while not `misled`.

### RangeFetch, DepositTree, DepositSync

`stack` holds the ranges still to be queried, its top first. A query is answered
(`Fetched`: in the chain's or the reverse order, or without the events of a block),
is split when all providers failed and the range can be (`Split`), or throws. The
halves are those of `splitEventsRange`, its rounding included. A hash of two nodes
is their pair, so that equal roots mean equal trees. The loops over the depth are
recursive functions of the height: `halvesOf` is what is left of `size`, `hashedUp`
and `rootsOf` the node hashed so far in `formBranch` and `getRoot`. The chain is
given by its deposits (`Nodes`) and their number at each block (`DepositCount`);
`nodesOf` has all nodes of the full tree, and `MerkleRoot` its root. `DepositSync` goes
from block to block as the registry does. `Update` fills the finalized tree, chunk by
chunk (`NextChunk`), `GetAll` a clone; `UpdateNothing` is the update without a new
final block. Events are sorted by their count (the k-th is the one with k - 1 before
it) and put in one by one; a chunk of the update is then cached (`Store`), and at the
end the root is compared with that of the contract at the block (`CheckRoot`). An
event that does not fit (`PutThrows`), a rejected write and a rejected query
(`RequestFails`) end the call but not the daemon: `handleNewBlock` catches what was
thrown, what was put into the finalized tree stays there, and later cycles go on from
it (`Ends`). Only a finalized root that differs ends the process. Two histories say
with how many leaves a call began (`had`) and which events it fetched (`brought`).

## Runs

| Run | Question | Result |
| --- | --- | --- |
| `guardian_races` | One cycle slot, two key tasks, two modules, three blocks; one rejected await, key task or transaction that outlasts its timeout; ten chains with upgrade, replacement of the DSM by one of the same version, rotation, revocation, pause, unvetting, reorganisation, new windows | holds, 1.88 million states |
| `guardian_live` | Is a threat announced if publications settle, is a harmless newest block processed | holds, 0.14 million |
| `guardian_sender` | Is a message published by the wallet of its context | violated |
| `one_at_time` | Six call sites with equal, different and no ids | holds |
| `deposits` | Two overlapping cycles, a crash, one other fault | holds, 0.35 million |
| `deposits_all` | Are all events served with two faults | violated |
| `deposits_restart` | Does the process always come up again | violated |
| `signing_keys` | One task at a time, a new module with older events, a crash anywhere, two other faults | holds, 0.44 million |
| `key_checks` | Three operators, two modules, up to three moves of operators and strangers after a history | holds, 0.22 million |
| `data_bus` | Three publications from two wallets, two faults, a restart | holds, 0.11 million |
| `stomp` | Two sends over a connection that fails up to twice, with late events of earlier sockets | holds, 0.21 million |
| `deposit_sync` | Seven deposits fetched in any split and order, an answer for each chunk incomplete or not; calls that failed leave the tree partly filled | holds, 0.08 million |

The properties of the passing runs:

- `SignedByContextWallet`: the signature of a message and the sender of a
  transaction are the wallet its context names, though all tasks share one active
  wallet. The reason is that `sign...` selects the wallet again after its last
  await (`security.service.ts:340`, `367`).
- `OnlySafeAttested`: nothing is attested for a paused or threatened block, a
  module with bad keys, duplicates or its own pause, or by an unlisted guardian.
- `ProcessedMeansAttested`: once a block is remembered as processed, each module
  is attested in that state, or refused, or remembered while the guardian was not
  listed (`handleCorrectKeys` records the state although nothing was sent).
- `PauseAddressesOwnDsm`: the pause of a block is accepted by the DSM of that
  block, by no other, and its transaction is sent there. It holds because a cycle
  awaits its pause and cycles exclude each other. An unvet or attestation of a key
  task that runs through a replacement of the DSM may carry the new one's prefix;
  its layout is the context's, so that no DSM of the other version accepts it.
- `NoAttestationBehindPause`, `AttestedOnce`, `MetaNeverGoesBack`: what a step
  may never do; the first orders a pause against slower attestations, the second
  is about the signing window. The third says that only a key task that `OneAtTime`
  has given up moves `lastProcessedStateMeta` back.
- `ThreatIsAnnounced`, `NewestIsProcessed`: liveness, below.
- `FlagsMatchAwaited`, `OneAwaited`, `LockoutEnds`: the decorator.
- `ServedIsComplete`, `CacheBehindTree`: unless a provider left something out and
  something else failed too (`Tolerable`, which counts no crashes), the events
  served are all of them, and the cache is a prefix of the tree.
- `HeadersAreHonest`: unless a provider omitted something, every deposit up to
  the header's end block is in the database, whatever crashed.
- `RestartHeals`: after the last fault a restart leads to a complete cache.
- `CacheIsExact`: the records are exactly the events the headers promise, as long
  as no provider omitted one and no task overlaps another. It is what breaks when
  a deletion is interrupted and its order is wrong, or when a write is split.
- `AnswerIsExact`: under the same conditions the check is told exactly the key's
  events of the modules of its block, although the modules are taken from headers
  that were read after the records.
- `OwnBlockIsCanonical`: no answer holds an event of another branch in the task's
  own block, whatever the provider returned.
- `CacheKeepsUp`: whatever went wrong, the cache reaches the final blocks again
  and again; one task about an older block, with the former module list, may clear
  it in between.
- `MoneyIsSafe`, `FundedOnce`: what attestations are for. Between the decision and
  the deposit the world may have changed in everything the nonce and the root do
  not cover, such as copies of the key in other modules.
- `SpotlessKeptVetted`: nobody can get the keys of an operator without reproach
  unvetted by adding copies or by depositing with the module's own credentials.
- `PausedForCause`: deposits with bad signatures, legacy credentials and deposits
  after Lido's never lead to a pause.
- `SettlesDown`: unvetting one chunk of one module per block ends, every module's
  turn comes, and then all can be funded, but for keys nobody can decide about.

- `NothingBehindAGap`: a pending transaction always has the next nonce of its
  wallet, since the nonce is read at `latest` and only under the mutex; a gap would
  hold back every later message.
- `OnlyAbandonedReplaced`: a transaction that is still waited for is not replaced
  by another of the daemon's.
- `RefusedForCause`: as long as nothing fails outside, no publication is rejected:
  messages do not take each other's nonces and each fits its event.
- `WaitersServed`: who waits for the mutex is served, unless the holder waits for a
  transaction that has vanished (`Mute`).
- `ImplementsSerialSender`: the refinement.
- `NoSocketLeft`: every socket but the client's own has been closed; an abandoned
  one would keep a connection of the broker's.
- `FlagsAreTrue`, `SendAfterConnect`: the flags `send` goes by speak of the client's
  own, open socket, and no SEND precedes CONNECT on a socket, through late closes and
  errors of earlier sockets and timeouts that race the open event. One cause is
  excepted, a CONNECTED from a socket already being closed (`misled`), see the
  observations.
- `SendsSettle`: a `send` that waits for a connection is resolved or rejected.
- `Tiled`: the ranges still to be queried lie end to end from the first unanswered
  block to the last.
- `TreeIsItsLeaves`: the root kept by one branch is the Merkle root of the leaves, of
  the finalized tree also while its clone is filled.
- `CheckIsExact`: the check of the root passes exactly when the events fetched are
  those the tree lacked. None is missing, then, as long as tree and cache agree when
  the call begins. An insertion, a write or a query that was rejected before may have
  left the tree ahead of the cache; a complete answer is then refused.
- `FetchEnds`: splitting comes to an end.

### Where code and words disagree

1. `guardian_sender`. README.md says the Data Bus transport uses the legacy wallet
   with DSM v4 and the delegate's with v5. The transport takes the wallet that is
   active when it publishes; a cycle entering v5 meanwhile changes it, and the
   message of the v4 task leaves from the delegate's wallet. The signature inside
   the message is right.
2. `deposits_all`. `updateEventsCache` indexes a chunk in the tree before the
   database has it. If the write rejects, the tree is ahead of the cache. A later
   incomplete answer for those blocks fits the tree, the roots agree, and the list
   returned lacks the deposits. Two independent faults are needed; with one
   `ServedIsComplete` holds, and the registry refuses to serve until it is restarted.
3. `deposits_restart`. `formDepositEventHeaderForDeletion` refuses headers that
   end before they start, and without any event it takes 0 as the end while the
   stored start is the deployment block. A database with headers and no event
   keeps `initialize` from succeeding, restart after restart.

### Observations without a run

- The decorator says that only one instance is executed concurrently. After a
  timeout two are. `OneIsExecuted` proves that this is the only way.
- `getUpdatedSigningKeyEvents` says that it returns all events of a key. A task
  that timed out runs on, and may store a chunk between the next task's read of
  the records and its read of the headers. The chunk is then neither among the
  records nor fetched again, and the answer lacks it.
- When `handleNewBlock` itself may time out and a second cycle starts, the late
  one puts the old DSM back into the cache and `PauseAddressesOwnDsm` fails.
- When a DSM is replaced by one of the same version, a key task that runs through
  the replacement signs with the new prefix, and the new DSM accepts a message
  whose block belongs to the old one. With another version none accepts it.
- A publication on the Data Bus that never settles holds the mutex of its wallet, and
  with it a later pause from that wallet: nothing on the way has a timeout.
- When Keys API may answer with an older block than before (`MaxLag` of 1),
  `MetaNeverGoesBack` fails: the comparison is made when the cycle starts.
- The remembered contracts state contains no guardian context; after a rotation
  the new delegate signs again only in the next window or after a change.
- An event that does not fit into the deposit tree rejects the update, and the events
  inserted before it stay in the tree without being cached. The next update fetches
  the same blocks again: a complete answer is refused, because its first event is no
  longer the next leaf, and one that lacks exactly the events already inserted passes
  the check and is cached. Only a restart, which fills the tree from the cache, heals
  it; `deposits_all` has the consequence for the list that is served.
- An event a provider omits from a chunk of signing key events stays missing until
  the module list changes: there is no root to compare with, and only events of
  the task's own block have their hash checked.
- A key two operators have, of which one has no event, blocks its module until one
  of them removes it: it is neither attested nor unvetted.
- Two events of one operator in the earliest block of a key (added, removed and
  added again) count as a tie between operators: once another operator adds a copy,
  the original is unvetted with it. `Spotless` asks for a strictly earliest event.
- A pubkey funded in two modules keeps the credentials of the module listed last,
  so one of the two deposits is compared with the wrong ones. It takes a key
  funded twice.
- When two key tasks overlap and one clears the database between two chunks of the
  other, the other writes headers for blocks whose records are gone.
- `waitForTransactionWithFallback` holds the mutex. When the transaction has left
  the pool unmined, the messages of its wallet wait until the wait rejects.
- STOMP: a `send` between the write of CONNECT and the broker's answer finds
  `connected` not set, so `reconnect` closes the open socket and makes the next one.
  The closed socket still receives the CONNECTED that was on its way, which sets
  `connected`; if the new socket is open before its attempt has gone on, or the
  attempt has failed for good, the next `send` goes by flags that speak of a closed
  socket, and writes its SEND before any CONNECT. `misled` records exactly this.
  When the closed socket's handshake ends (code 1005, or an error) while no attempt
  is under way, the handler takes the new, healthy connection down and reconnects;
  with code 1000 it takes it down and leaves it so. Heart-beats are announced in CONNECT and never
  sent; subscriptions are not renewed on a new connection; ERROR frames are logged
  and change nothing. `subscribe`, `unsubscribe` and `disconnect` are not called by
  the daemon and not modelled.

## Bounds

- Three snapshots: the block a slow task works on, the block a cycle works on
  meanwhile, and one to settle in; with two an old task cannot meet an upgrade and
  a rotation. Chains are chosen, not enumerated: `BlockData` has far too many
  values, and each chain isolates one change between blocks. Three DSMs, one of
  version 4 and two of version 5, allow an upgrade and a replacement within a
  version. The proofs need no such choice.
- Key tasks and transactions may exceed their timeouts (`RaceTimeouts`); a timeout
  counts as the one failure of the run.
- Two key task slots are enough for an execution whose attestations are still in
  flight after a rejection, beside its successor. Two modules make `Promise.all`
  partial.
- One cycle slot: cycles exclude each other, and without timeouts of
  `handleNewBlock` a second never starts. `MaxFailures = 1` and `MaxFaults = 1`
  put one fault at every possible place; `deposits_all` uses two.
- `ResignBlocks = 10` and `PingBlocks = 300` are the code's values.
- Four blocks, a step of two and a depth of one give the registry a full chunk,
  a partial one and a block that is not final; two deposits share a block so that
  the tree is caught in the middle of one.
- `data_bus`: with three messages one holds the mutex and two wait. Three loads
  cover all seven kinds, one of them across an upgrade; two wallets show that
  mutexes and nonces of one do not concern the other. Two faults let a dropped
  transaction be followed by a stale node. Promises of a mutex are woken in the
  order of their calls in the code and in any order in the model, which has all
  the code's behaviours and more.
- `stomp`: two attempts are those of `STOMP_OPTIONS`; two faults break the first
  connection and its replacement; timeouts before the socket opens and late closes
  are not counted, so attempts may also fail as often as they like. A timeout that
  fires although the socket has opened counts as a fault: each leaves one more closing
  socket behind. Two sends meet an attempt of each other's.
- `deposit_sync`: a depth of three for the contract's 32, with seven deposits, all
  that such a tree takes, so that every height is completed and passed. Two deposits
  are alike, two blocks are empty, and the answers for a chunk may miss one block.
  Rejections are not bounded.
- `signing_keys`: five blocks, a step of three and a depth of one give the first
  update a full chunk and the later ones a partial one; a lag of two lets a task
  about a block before the new module follow one about a block after it. One
  slot, since its properties exclude overlap by their hypothesis (two slots with
  a timeout exceed a few million states).
- `key_checks`: a module of two operators and one of one make duplicates within an
  operator, within a module and across modules, and a chunk of one operator leaves
  one to the next block. Histories save the moves that adding and vetting the first
  key would take, so that three more are enough for a copy to be added, vetted and
  met by a deposit or a removal. Steps of the guardian, the contracts and the chain
  are not bounded.
- Two slots of one kind are symmetric and are declared so in the safety runs.

## Fairness

`PauseSpec`: blocks keep coming up to the bound, and each await of a cycle settles,
and of its pause up to the publication, since JSON-RPC and HTTP requests carry
timeouts and the interval keeps firing. Key tasks get none, which is the point: a
pause must not wait for their checks. `ThreatIsAnnounced` has `PublicationsSettle` as
its hypothesis: on the Data Bus a pause waits for the mutex of its wallet, which a
message of a key task may hold without a timeout (`WaitersServed` says when that ends).
Of each wallet one publication after another settles, in no given order.
`NewestIsProcessed` adds `KeysFairness` as its hypothesis. In
`OneAtTime` only the timer is fair, so methods may hang for ever. In
`DepositsRegistry` awaits settle, the interval fires, and the process is restarted
when it exits, as the container does. `SigningKeysRegistry` has the same, and the
chain moves on to its last block. In `KeyChecks` blocks end, the guardian reads one
of them sooner or later, and its transactions are included; operators and
strangers need not do anything. In `DataBus` promises settle and the chain mines
what it can; in `Stomp` timers fire and writes are answered, and nothing is asked of
the broker; in `DepositSync` queries are answered or rejected, and nothing makes a
cycle begin.

## What is proved

By TLAPS, for all values of the constants that satisfy the named assumptions
(`ConstantsAssumption`: the legacy wallet is in the pool, cycles and key tasks are
distinct, the chains are typed, version 5 DSMs are DSMs; `CallIdAssumption` for the decorator).

`GuardianCycleProofs`, for any number of slots, wallets, modules, blocks, faults,
any lag of Keys API and any timeouts, `handleNewBlock` included:

- `TypeCorrect`, `ContextWalletSigns`, `SafeAttested` and `ProcessedAttested`:
  `Spec` implies that `TypeOK`, `SignedByContextWallet`, `OnlySafeAttested` and
  `ProcessedMeansAttested` always hold.
- `PauseReachesOwnDsm` (`PauseAddressesOwnDsm`) and `MetaForward`
  (`MetaNeverGoesBack`) for behaviours in which no cycle outlives its timeout
  (`[][CyclesInTime]_vars`; key tasks and transactions may). Without that both are
  false, see the observations. What a digest tells of its DSM is the lemma
  `DigestTells`: the prefix its address, the layout its version. `MetaForward` further asks for `MaxLag = 0`.
- `StatesAttestedOnce` (`AttestedOnce`), for `MaxLag = 0` and contracts states that
  do not come back once they were left (`StatesMoveOn`): deposit root, nonce and
  signing window only move on, and the daemon remembers the last state only.
- `PauseComesLast` (`NoAttestationBehindPause`), when a threat stays until the
  deposits are paused (`ThreatsPersist`): the front-running deposit stays in the
  deposit contract, and a task about a later block must meet it there.

`StatesMoveOn` and `ThreatsPersist` are hypotheses of these theorems, not assumptions
on the model.

The properties are not inductive. `IInv` adds two facts. `NothingEarly`: a task that
has not begun a job in this execution has no job in flight, so the block of a
task is never changed under one. This is what makes reuse after a rejection safe.
`ContextsUsable`: whoever is past the context checks, and every job in flight, has
a context that names a wallet of the pool, because a v5 context without a known
delegate is refused. From `IInv` the lemma `JobsKept` shows what any step does to
a job: it keeps its block, and a signed one keeps its signer or is signed by this
very step. The theorems follow from it with invariants of their own:
`TxFields`; `SafeJobs`; `StatesRecorded` and `DoneRecorded`, which say what a
remembered state or an attestation that is over stands for; `OneCycle` with
`OwnDsms`, that the cached DSM is that of the cycle that runs, and `InOrder`, that
no block under work is ahead of the newest; `FlightsFresh` and `LastIsNewest`, that
an attestation in flight is of a state not yet remembered.

`OneAtTimeProofs`, for any call sites and ids: `TypeCorrect`, `FlagsAreTruthful`,
`OneIsAwaited`, and `OneIsExecuted` under the assumption that nothing times out.
`Inv` joins types, flags and exclusion: the flags are needed to see that the guard
of `Start` meets every conflicting execution, and exclusion to see that clearing a
flag is right because no other execution was relying on it.

`DepositsRegistryProofs`, for any chain of deposits, any finality depth, chunk size
and number of crashes, omissions, failed writes and timeouts: `TypeCorrect`,
`HeadersHonest`, `CacheIsBehind` and `ServedComplete` for `TypeOK`,
`HeadersAreHonest`, `CacheBehindTree` and `ServedIsComplete`. That deposits come
after the deployment block is an assumption (`DepositsAssumption`): the code
begins behind that block, so a deposit in it would never be found. Three
invariants build on each other. `Base`: what is in the database, the tree and in
every task's hands are true events up to a final block. `Promised`: without
omissions, the records reach up to the end of the headers, of the image in memory
and of what each task goes on from. `Verified`: how far the tree is ahead of the
cached events, namely by the events a task has put in of its chunk (`Ahead`); that
every task goes on from where the cached events end (`Tracked`), unless something
was left out; and that as long as nothing was rejected or given up, one execution
runs and the tree has what is cached, or one chunk more (`Calm`). `Calm` is what
makes a single omission harmless: the tree lacks what the cache lacks, so that the
roots differ. With a rejected write it is false, and this is where `deposits_all`
has its counterexample.

`SigningKeysRegistryProofs`, for any chain of events, module lists, block, chunk
and lag sizes, slots, crashes and faults (`KeysAssumption`): `TypeCorrect`,
`CacheExact`, `AnswersExact` and `OwnBlockCanonical` for `TypeOK`, `CacheIsExact`,
`AnswerIsExact` and `OwnBlockIsCanonical`. `IInv` adds `OneRuns`, that before the first timeout at most one task is not idle,
and, in that time and without omissions, an `Agreement` for each place a task can
be at: after `Compare` the headers are absent or those of the task's modules, in
the middle of a deletion the records are the ones the task will still delete, in
the loop the records reach up to the chunk, and while answering the records read
are those of the headers that are about to be read. Neither property is inductive
without them: a deletion in two steps and the chunks in between leave states in
which headers and records agree only together with what the task holds.

`KeyChecksProofs`, for any operators, modules, keys, histories, number of moves and
of deposits past the guardian (`ChecksAssumption`, `HistoriesAssumption`): `MoneySafe`,
`NeverFundedTwice`, `PauseHasCause`, `SpotlessStayVetted` and `TypeCorrect` for
`MoneyIsSafe`, `FundedOnce`, `PausedForCause`, `SpotlessKeptVetted` and `TypeOK`. A
message of the guardian arrives any number of steps after the reading it was made
from, so the invariant `Sound` says what stays true of it while the contracts would
accept it. `AttestedAreFundable`: each key the module may fund next is valid, has no
deposit of somebody else and no copy that was or could be funded. `UnvetsAreDue`:
an unvet message names a key that is not funded and has a blemish, which does not go
away while the keys of the module stay as they are. The lemma `BadIsBlemished` shows that a reading
establishes the second and `CleanIsFundable` the first. The choice of an original
among copies needs that a finite set of events has an earliest one. `Funded` and
`Ledger` say that used keys have their deposits and these their order.

`DataBusProofs`, for any messages, loads, wallets, faults and restarts: `Refinement`
(`ImplementsSerialSender`), `NoGaps` (`NothingBehindAGap`), `ReplacesAbandoned`
(`OnlyAbandonedReplaced`), `NoSelfMadeRefusal` (`RefusedForCause`), `OneSends` and
`TypeCorrect`. The refinement maps initial
states to initial states and every step to a step of `SerialSender` or a stutter;
what it needs is `IInv`: `Exclusive`, that a wallet's mutex is locked exactly while
one of its messages holds it, `Placed`, that whoever is past the call has a wallet,
and `Recorded`, that what was broadcast fits its event and what is resolved was
mined. `NoGaps` adds that a nonce read is at most the number of transactions mined,
which a drop, a replacement or a restart cannot change. `ReplacesAbandoned` needs
`Exclusive`: two publications that wait for transactions of one wallet would both
hold its mutex. `NoSelfMadeRefusal` adds `Calm`: until something fails outside, the
nonce that was read is the next one and all that is pending is waited for.

`StompProofs`, for any number of attempts, faults and sends: `NoSocketIsLeft`
(`NoSocketLeft`), `FlagsTrue` (`FlagsAreTrue`), `ConnectFirst` (`SendAfterConnect`) and
`TypeCorrect`. The invariant adds that an attempt runs on a socket that has seen no
CONNECT, that nobody sleeps between attempts over a socket that could still open,
that an open socket has set `opened`, and that `connected`, unless `misled`, is what
the broker answered on the open socket. Late answers, errors and closes of earlier
sockets, and timeouts that race the open event, are all among the steps.

`DepositSyncProofs`, for any chain (`ChainAssumption`: counts start at 0 and do not
fall), any tree depth, and any pattern of failures and incomplete answers:
`NoBlockIsSkipped` (`Tiled`), `RootOfLeaves` (`TreeIsItsLeaves`) and `CheckExact`
(`CheckIsExact`). The last two assume that there are fewer than 2^depth deposits
(`CapacityAssumption`, said with the code's halving), as the contract demands.

- `Tiled` alone does not survive an answer: behind an inverted range, which has no
  block, the next one would start too early. `Proper` says that each range of the
  stack has a block or is the only one, the range asked for. The lemma `Halves` is
  the arithmetic of the rounded center.
- `StandsFor` is what a branch promises: at each height where the number of leaves,
  halved, is odd, it has the last complete node of the Merkle tree; the other places
  are left over and never read. `InsertStands` shows that `formBranch`, which writes
  one place, keeps that for all heights: below the place it had a subtree to hash
  with, above it nothing changes. `RootsAreNodes` shows that `getRoot` climbs along
  the border between leaves and zeros (`ZerosBehind`).
- `Sound` relates the fetch to the trees. `Answered`: the events so far are
  different deposits of the blocks answered for. `Came` and `Putting`: the events of
  the call are those the tree has got by it, together with those still to be put;
  the latter are in the order of their numbers (`Sorted`) and, once one of the call
  was put, all behind the leaves (`Grown`). Nothing is assumed of the tree when the
  call begins, since an earlier call may have left it ahead of the cache. The check
  then follows: a tree over fewer leaves has another count in its root, so that the
  roots agree just when the tree has grown to the block (`SameEvents`), and an event
  that does not fit is one the tree had, or comes behind one that is missing
  (`PutThrowsSound`).
- The prover has no induction over data. It is replaced by the least
  counterexample (`Smallest`), from which `Induct` and `Upwards` show that a set of
  numbers or heights is everything; the same gives the existence of the recursive
  functions (`HalvesDef` to `NodesDef`).

Only model-checked is all liveness (`ThreatIsAnnounced`, `NewestIsProcessed`,
`LockoutEnds`, `RestartHeals`, `CacheKeepsUp`, `SettlesDown`, `WaitersServed`,
`SendsSettle`, `FetchEnds`), since fairness is beyond the prover.

## Not modelled

Signature encodings and BLS; the hash function itself, which is the pair of its
arguments; RPC metrics, logging, health and configuration; the cache of key
validation results, whose key is everything a result depends on; what Keys API
answers, beyond its lag, and the client's cache of its answers. The Kafka client
hands a message to its library and keeps nothing of its own; the staking router
reader is a sequence of contract reads at one block hash, which a snapshot stands
for.

## Plan

1. The Keys API client's cache: a refetch that fails half-way.
2. That `DepositsRegistry`, whose tree is the list of its leaves, agrees with
   `DepositSync` is an argument between two modules; a refinement of one by the
   other would state it in one theorem.
