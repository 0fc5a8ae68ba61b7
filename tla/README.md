# TLA+ models of nexus-sdk

This directory holds TLA+ specifications of nexus-sdk: of the parts whose
correctness depends on order (which task moves first, what a failed call leaves
behind, what was read before an await and used after it), and of the parts that
decide which objects, coins and capabilities enter a transaction. TLC checks
them on small instances (`*.cfg`), TLAPS proves the most important invariants
for every value of the constants (`*Proofs.tla`), and `PROJECT.json` maps every
definition to the lines it models.

Contents: [the system](#1-the-system), [the modules](#2-the-modules-and-the-code),
[the runs](#3-the-runs), [fairness](#4-fairness), [the proofs](#5-the-proofs),
[where code and documentation part](#6-where-the-code-and-its-documentation-part),
[what is not modelled](#7-what-is-not-modelled), [the plan](#8-plan).

## 1. The system

nexus-sdk is the Rust side of Nexus, a workflow engine on the Sui chain. It has
three programs: the SDK (`sdk/`), a library that submits transactions and
follows their effects; the toolkit (`toolkit-rust/`), the HTTP server that an
offchain tool runs in; and the command line (`cli/`), one process per command
over the SDK. The chain, its full nodes and the Move packages that execute
workflows are outside this repository.

```
  command line ── commands, configuration file, exported allowlist
       │
  caller tasks ──▶ NexusClient ──▶ methods ──▶ builders (PTBs)
                      │   │          │              ▼
                      │   │          │       gas: coin pool, or address balance
                      │   │          ▼              ▼
                      │   │       crawler ──▶    signer ──▶ full node (gRPC) ◀─ chain
                      │   └─▶ DAG validator         │
                      ├─▶ inspector, expired walks ─┤      Walrus ◀── input data
                      └─▶ keys, tools, agents ──────┘
  consumer ◀── pages ◀── event ingestor ◀── streams ── full node
  leader ──▶ /invoke ──▶ signed runtime ──▶ tool code
                           ▲ config, allowlist ◀── files, notify
```

### Components, their state and their operations

| Component | State | Operations | Interacts with |
|---|---|---|---|
| **Coin gas pool** `nexus/client.rs` | a `Vec` of coin references under a mutex; a `Notify` | acquire, release | every submission of a cloned client; the workflow deposits payment coins |
| **Coin based submission** `client.rs`, `signer.rs` | the coin in use, the transaction, the client mutex | sign, subscribe, execute, await the checkpoint, refresh the coin | the pool; the node; the crawler's lock |
| **Address balance gas** `nexus/address_balance.rs` | a counter of nonces, the epoch | fetch the context, allocate a nonce, submit | the node; other clients of the same address |
| **Event ingestor** `sui/events/` | resume checkpoint, highest reported checkpoint, replay cursor, first live frame | subscribe, replay, follow, report, reconnect, stop | two gRPC streams; a bounded channel to the consumer; a cancellation token |
| **Execution inspector** `nexus/workflow.rs` | last delivered version, the walk so far, retries, deadline | poll, walk back, deliver | the node's replicas; an unbounded channel to the caller |
| **Expired walks** `nexus/workflow.rs` | what was read of the walks, their results and payments | resolve, abort, settle | leaders and tools that go on meanwhile |
| **DAG validator** `dag/validator.rs` | the graph of one description | parse to a graph, validate | the workflow package that runs accepted DAGs |
| **Transaction builders** `transactions/`, `move_boundary/` | none: a list of Move calls | one function per transaction | the Move packages' signatures |
| **Methods of the client** `nexus/{tool,gas,tap,scheduler,workflow}.rs` | what a call looked up | look up, build, submit; some twice | the chain's objects, held by whoever holds them now |
| **Message keys** `nexus/network_auth.rs` | next key id, the table of keys as read | register, list, export | other registrations; a full node that lags |
| **Object crawler** `nexus/crawler.rs` | page token, listed references | list page by page, then fetch | tables that change meanwhile |
| **Reads of tools and agents** `nexus/tool.rs`, `registry.rs`, `tap.rs` | the answers of up to eight requests | inspect a tool, resolve a skill | registrations and revisions by others |
| **Input data** `walrus/`, `cli/src/workflow` | keys of stored payloads | choose, commit, fetch | Walrus, whose blobs expire |
| **Budgets and fees** `types/tap.rs`, `gas.rs` | none | derive, check, quote | the methods that pay |
| **Command line** `cli/src` | the configuration file; the file of allowed leaders | one process per command | other processes, the wallet, the chain |
| **Toolkit configuration** `toolkit-rust/src/config.rs` | the `Arc` of the configuration, the watcher's channel, the last modification time | load, watch, debounce, poll, swap | the file system; every signed request |
| **Signed invoke runtime** `toolkit-rust/src/signed_http_warp.rs` | a signing runtime cached by configuration address; the allowlist; the replay cache | rebuild, refresh, authenticate, begin, finish, abort | concurrent requests of leaders; the configuration |

(Paths without a prefix are under `sdk/src/`.) `PROJECT.json` lists these
components and those without a model, each with the reason.

### What is hard, and what makes each part correct

**Coin gas pool.** Tasks of a multi-threaded runtime interleave at every await;
a future may be dropped at any of them. `Notify` stores one permit, so releases
can outnumber wake-ups. *Correct* when no coin is the gas of two submissions,
none is lost or invented except by a caller's own act, and nobody sleeps for ever
while a coin is there.

**Submission.** A sent transaction is not under control: its response may be
lost, it may execute after the confirmation timed out, or fail and still charge
gas. *Correct* when a coin is in one place at a time, the pool knows its current
version, two awaited transactions never compete for a coin, `Ok` is about the
caller's own transaction, and every submission returns.

**Address balance.** Without a gas coin only a nonce makes two transactions
different. *Correct* when no two submissions are told the effects of one
transaction.

**Event ingestor.** A replay reads an index that lags behind the live stream;
pages end for four reasons; connections fail anywhere; the consumer crashes and
restarts from the checkpoint of the last page. *Correct* when no event is
skipped, every page checkpoint is a safe restart point, checkpoints do not go
back, repetitions are only recent, and every event arrives in the end.

**Inspector.** It walks backwards over a chain of updates that grows, through
replicas that lag behind each other and prune. *Correct* when the caller sees
the updates' events in the ledger's order, once, without gaps, `Ok` only after
the end, and the end is noticed.

**Expired walks.** A plan is made from reads of several moments and carried out
later, while leaders lock, run, commit and settle. *Correct* when no result
that could still be consumed is destroyed and a settlement that is reported
stands on chain.

**DAG validator.** It judges all executions of a DAG by counting on its graph.
*Correct* when an accepted DAG never gives an input port two values or none,
for-each edges pair on every path, and loops do not nest.

**Builders and methods.** A transaction is refused as a whole if one object
enters it the wrong way, one result is left over, or one capability is the
wrong one; nothing of this is checked before the chain. *Correct* when a call
with sound arguments is accepted, nothing runs before it is paid for, and a
task is created with exactly the occurrence asked for.

**Reads.** What is put together from several requests may be of no one moment:
a field removed between its listing and its fetch, a tool configured between
two probes, a key rotated between the binding and its table. *Correct* when an
answer was true at some moment of the call, and an error has a cause.

**Data.** Ports are stored and read concurrently, payloads in order, and blobs
are named by their contents and expire. *Correct* when what is read is what was
given, for as long as it is stored.

**Command line.** Processes overlap on files without locks and are killed; a
command checks, asks, submits, saves and prints in a long sequence. *Correct*
when what was saved stays, a tool never reads half a list, a command that turns
something down changed nothing, and what it reports is the last thing it did.

**Configuration.** Notification, debounce, poll, read and stat interleave with
writes; the runtime is recognised by an address. *Correct* when only valid
versions are used, the last valid one is installed in the end, and a request
does not use a runtime older than the configuration it saw.

**Signed runtime.** Retries of one nonce race with the run they repeat, with
leases that expire under it, with callers that go away. *Correct* when a nonce
has one live run, an answer fits the input, a dropped request leaves no
reservation, and an exact retry does not run the tool again.

The hazards behind these, each at its line, are in `PROJECT.json`.

## 2. The modules and the code

Eight specifications have a run of their own:

| Module | Models | Used by |
|---|---|---|
| `CoinGasPool` | the pool, its waiters and dropped futures | `CoinSubmission` (INSTANCE), `CoinGasPoolProofs` |
| `CoinLease` | abstract: a coin is pooled, leased to one submission, or away | `CoinGasPool!ImplementsLease` |
| `CoinSubmission` | pool + signer + chain | `CoinSubmissionProofs` |
| `EventIngestor` | driver + node + consumer | `EventIngestorProofs` |
| `ExecutionInspector` | inspector + node | `ExecutionInspectorProofs` |
| `ExecutionFeed` | abstract: a feed of updates in order, then the end or an error | `ExecutionInspector!ImplementsFeed` |
| `DagValidator` | the validator, and executions of what it judged | `DagValidatorProofs` |
| `ToolConfig` | reload task + file + requests' runtime | `ToolConfigProofs` |
| `ToolInvoke` | allowlist + replay cache + requests | `ToolInvokeProofs` |
| `Sdk` | the scenarios below, one per behaviour | `SdkProofs` |

The parts of `Sdk` share no state in the code either; each has its variables,
its `...Init`, `...Next` and `...TypeOK`, and `Sdk` lets a behaviour exercise
one of them while the others stand still:

| Module | Models | Scenario |
|---|---|---|
| `Ptb` | a programmable transaction: commands, arguments, what the chain accepts | `methods` |
| `MoveCalls` | the signatures of the Move functions the builders call, and of the functions that packages publish as verifiers | `methods` |
| `ToolTransactions` | builders for tools, gas, keys, leaders | `methods` |
| `DagTransactions` | builders for DAGs, executions, results of walks | `methods` |
| `TaskTransactions` | builders for scheduled tasks and agents | `methods` |
| `ClientMethods` | what each method looks up and refuses, and what it builds from it | `methods` |
| `SdkMethods` | a call of a method, while its agent changes hands | `methods` |
| `TaskCreation` | `create_task`, `create_agent_task`: two transactions and the checks around them | `tasks` |
| `KeyRegistry` | registering, listing and exporting message keys | `keys` |
| `ExpiredWalks` | resolving and aborting walks that expired | `walks` |
| `BalanceGas` | submissions without a gas coin | `balance` |
| `Crawler` | listing page by page, then fetching | `crawl` |
| `ToolInspection` | `inspect_tool`, and a leader's lookup of a verifier | `inspection` |
| `AgentReads` | the snapshot of the agent registry, and the skill resolved in it | `targets` |
| `Quotes` | budgets, priority fees, withdrawals | `quotes` |
| `RemoteData` | input data kept inline or in Walrus | `data` |
| `CliConfig` | the configuration file among overlapping commands | `cli` |
| `AllowlistFile` | the file of allowed leaders and the processes that write it | `allowlist` |
| `CommandSteps` | what commands are made of | `commands` |
| `TapCommands`, `ToolCommands`, `WorkCommands` | every command as the sequence of its steps | `commands` |
| `CommandRuns` | a command that runs, among others that spend its coins | `commands` |

`MCCoinGasPool`, `MCCoinSubmission`, `MCDagValidator`, `MCToolInvoke` and
`MCSdk` hold what a cfg cannot: sequences, symmetry sets, the families of DAGs,
the catalogue of methods and the amounts of money. The other runs check their
module as it is.

The eight `*Proofs` modules hold theorems (section 5), `SdkProofs` those of all
scenarios.

Conventions: variables and actions keep the source's names where they have one.
A step of a model is what the code does between two points where another task
can run: an await, a lock taken or dropped, a system call. Definitions whose
comment begins "Mutant of" are variants of another definition as a plausible
bug would have it; no specification uses them, they show that a property
depends on the code being as it is. Variables marked *history* only record;
no guard reads them.

### CoinGasPool

`pool` is the `Vec`, pushed and popped at its end; `permit` and `parked` are the
`Notify`; `pc` tells where a task stands in `acquire_gas_coin` and
`release_gas_coin`. The mutex is never held across an await of something else,
so locking, popping and unlocking is one step (`PopCoin`, `FoundEmpty`). What
happens after the unlock is not: `notified()` registers at its first poll
(`ConsumePermit`, `Park`), a release pushes (`PushCoin`) and then notifies
(`NotifyOne`). `Drop` is what leaving a future does at each await, including
the forwarding of a notification by a dropped `Notified`; `LoseCoin` is also
the `?` after `sign_tx`. `DepositPayment` is the workflow's release of a coin
nobody acquired. The coin that is pushed is a parameter, so that
`CoinSubmission` can push a refreshed reference.

### CoinSubmission

`CoinSubmission` instantiates the pool with references that carry a version and
adds the stages of `execute_tx` between acquire and release. `wire` holds
transactions sent and neither executed nor refused; they outlive their caller's
interest, which is how a lost response or a timed out confirmation is modelled:
`Fail` takes the error path while the transaction stays on the wire. `chain`
holds the current version of each coin; `Execute` requires every reference to
be current and bumps them, also when the execution fails. `lock` is the client
mutex, which only the crawler holds across a request. A caller pays with any of
`PayCoins`, with no guard, as in the code; the history variable `reused` records
the coins that were named while the pool, a submission or another caller had
them, and the properties about coins speak of the others.

### EventIngestor

`phase` is where `run` stands; a frame is processed in two steps, its watermark
and then its event, because sending into the bounded channel can block between
them. A cursor is the number of events before it. The node chooses how much a
replay page holds, why it ends (`bound`, `limit`, `tip`), and which watermark a
frame names, within what the protocol allows: nothing at or below a watermark
comes later, and the watermark of an event frame is not ahead of its event.
`Break` is any failed await or undecodable event; `Restart` is the consumer
that crashed and starts a new ingestor from the checkpoint it handled last.

### ExecutionInspector

Versions are numbered in their order; the update that wrote version v is v.
`StartWalk`, `FetchTransaction` and `FetchObject` are the backward walk,
`Delivered` what follows a complete one. `Answers` are the versions a replica
may call the latest. The many checks of an answer against the chain of updates
are one action, `BadAnswer`; `Transient` is a retryable error, which starts the
walk again from the same version.

### DagValidator

`GraphOf` builds the graph as `parse_json_dag` does, a do-while edge leading to
a phantom vertex; `WellFormed` gathers the checks of the description, and
`Validate` runs the stages of `validate` in order and stops at the first that
fails. The helper `Reach` stands for petgraph's searches. The path
checks that the code makes by depth-first search (`ForEachPaired`,
`DoWhilesApart`) are stated over reachability in a product graph and over
`OnPaths`. Executions (`Invoke`, `Run`) are external: a vertex runs when all
its input ports have a value, picks one variant, and every port of it gives its
value to one input port, one turn per loop. Graphs that break only the
concurrency rules are executed too, which the program never does, so that a
refusal can be judged as well as an acceptance.

### ToolConfig

A version of the file is `ok`, `nokey` (valid, but without a key for this tool)
or `bad`. `task` is the reload task: an event starts a debounce, a poll finds
another modification time, then the file is read, stat'ed and installed, each a
step of its own because the file can change in between. `config` and `auth`
carry an address; `Free` are the addresses the allocator may choose: those of
no configuration still referenced. The address the cached runtime compares with
is one of them as soon as its configuration is freed, for nothing keeps it alive.
`nth` numbers the reloads, so that the properties can tell configurations at one
address apart. `early` and `missed` are set by the two changes of the file that
only a later change brings to light, and reset when the file is read again.

### ToolInvoke

A request arrives, reads the allowlist file (`ReadList`), replaces the list
(`StoreList`), is authenticated, consults the replay cache (`Begin`: return the
answer, refuse, or reserve), runs, and finishes or is dropped. `Retained` is
the pruning that every begin performs. `Owns` is the comparison of an entry
with the reservation a request made, hash and lease, on which `Finish` and
`Drop` depend.

### Transactions and the methods that submit them

`Ptb` gives a meaning to what a builder returns: a sequence of calls over
resources, each an object (which enters shared, read-only or owned) or a result
of an earlier call. `Machine` runs it against the signatures of `MoveCalls`: an
argument must exist, have the type and be usable the way the parameter takes
it; a value is consumed once; at the end nothing may be left that Move does not
allow to drop. `Enters` compares how each object enters with how the chain
holds it now. Plain data (names, amounts, configurations) is left out.
`ToolTransactions`, `DagTransactions` and `TaskTransactions` have one operator
per builder, with a parameter for each choice the builder makes.

`ClientMethods` writes a method as the objects it looks up, those it must not
find, its transaction and the tools it has to pay; `Catalogue` in `SdkMethods`
lists every method that submits, for each way an agent is held, and the builders
that only others call. `SdkMethods` runs them: the
agent may change hands between the look and the submission, and a method may be
called twice. A verifier is a function of a package that anybody publishes
(`PublishedVerifiers`): registering one and submitting a result through one are
methods whose calls are made from the function's signature. `Preflight` has the
checks of `registry.rs` on that signature and on the objects the caller names.
The objects' types are not compared: `Mistyped` marks a call that names objects
of other types, which only the chain refuses.
Which methods are sound is thus one invariant,
`SoundCallsSucceed`, and not one test with a mocked chain per method. It names
those that are not: `NeverAccepted` (three that the chain refuses whatever they
are given) and `NeverFound` (those that use `fetch_tool_gas`); whoever repairs
one must take it off the list, since the invariant also says that they never
succeed. It judges a transaction also where the lookup before it failed, so that
no builder hides behind a lookup.

`TaskCreation` is what needs more than one transaction: the task is created,
then its first occurrence added, with reads of the agent before each and others
using the agent in between.

### Reads from several requests

`KeyRegistry` keeps the chain and a full node that follows it apart: `CatchUp`
brings the node up to date, every read is of the node, every submission is
judged by the chain. `ExpiredWalks` has one action per request of the three
calls, and moves of leaders (lock, run, commit, finalize, settle) between any
two. `Crawler` has one record per method (`Way`): what it lists, what it does
with an entry that does not decode, what it fetches afterwards; a page ends
anywhere. `ToolInspection` and `AgentReads` read one table after the other
while the registration, or the skills and the default executor, change.

### Money and data

`Quotes` has the formulas as the code computes them, in words of `MaxWord`,
with the checks for overflow; a question is any budget, percentage or vault of
chosen sets, and the properties say what the answer should be without using
the formula. `BalanceGas` lets clients of two counters fetch the epoch, take a
nonce and submit; the chain executes a transaction once and repeats its effects
to whoever sends it again. In `RemoteData` a payload is a model value and a
blob is named by its payload: `upload_bytes` stores one, `UploadFails` drops
the concurrent ones in any state, and epochs end between any two requests.

### Files and commands

`CliConfig` has the processes that load, change and save the configuration, a
save being two steps (`Empty`, `Fill`), any step being the last (`Stop`).
`AllowlistFile` writes a temporary file and renames it. A command of
`TapCommands`, `ToolCommands` and `WorkCommands` is a sequence of steps
(check, query, choose a coin, submit, store, save, report) in the order of its
handler; `CommandRuns` runs any command with any options, and lets another
process spend a coin or hand the agent over at any moment.

## 3. The runs

Runs named `_all` or `_safe` must hold; the others check one statement of the
repository and find it violated (section 6). Numbers are distinct states and
seconds with two workers.

| Run | Shows | States | s |
|---|---|---|---|
| `CoinGasPool_safe` | exclusive and conserved coins, the lease refinement, with dropped futures and deposits | 40,794 | 11 |
| `CoinGasPool_lostwakeup` | two releases may leave one permit for two callers | violated | 1 |
| `CoinSubmission_all` | one place per coin, stale references only after failures, awaited transactions never compete (each but for a coin a caller named while it was in use), `Ok` is true, submissions end | 611,690 | 165 |
| `CoinSubmission_stale` | a failed submission leaves a stale reference in the pool | violated | 1 |
| `EventIngestor_all` | no gap, safe page checkpoints, pages in order, recent repeats, everything arrives | 180,158 | 80 |
| `ExecutionInspector_all` | the feed refinement, whole walks, the end arrives | 861,614 | 46 |
| `DagValidator_all` | the count is exact without branches, for-each nesting is unambiguous, loops do not nest | 50,124 | 20 |
| `DagValidator_race` | a branching DAG with a race is accepted | violated | 16 |
| `ToolConfig_all` | only valid configurations, an old runtime only at a reused address, the last valid version is installed | 94,194 | 8 |
| `ToolInvoke_safe` | one live run per nonce, no orphaned reservation, fitting answers, no second run of an exact retry | 1,921,782 | 40 |
| `Sdk_all` | the properties of the table below, each in its scenario | 1,693,552 | 210 |
| `Sdk_toolgas` | the gas of a registered tool is not found | violated | 1 |

`Sdk_all` checks one invariant per scenario, besides the types:

| Invariant | Says | Module |
|---|---|---|
| `SoundCallsSucceed` | a call with sound arguments finds its objects, is built and accepted, whatever tool, agent, payment or verifier it is about, unless the agent changed hands, and but for the methods it names as never accepted or never found; leaders can call whatever is registered as a verifier | `SdkMethods` |
| `FundedBeforeStart` | nothing runs before its payment is locked and its costs are fixed | `SdkMethods` |
| `CreatesWhatWasAsked` | a task and its first occurrence, or nothing unsound; only others can make its second transaction stale | `TaskCreation` |
| `KeysTrue` = `KeyReportsTrue`, `ExportTrue` | reported keys stand on chain; exported ones were active, none is missing | `KeyRegistry` |
| `NoResultLost` | an abort never destroys a result that could be consumed | `ExpiredWalks` |
| `ReadsTrue` = `CrawlsTrue`, `InspectionTrue`, `TargetsTrue` | every entry read was there at some moment of the call, each at its own, and none that stayed is missing; a tool's verifier is reported as it was at one moment; failures have a cause | `Crawler`, `ToolInspection`, `AgentReads` |
| `QuotesExact` | the budget is the largest that fits; a withdrawal takes no more than its share | `Quotes` |
| `FilesSound` = `WritesWhatItFound`, `CapabilitiesKept`, `AllowlistWhole` | a save undoes nothing that was saved before its window; a registered tool's capability gets into the file unless the command fails; a tool never reads half a list | `CliConfig`, `AllowlistFile` |
| `OneEffectEach` | no two submissions share one transaction's effects | `BalanceGas` |
| `DataArrives` | what is read is what was given, for as long as it was stored | `RemoteData` |
| `OutcomesTrue` | what a command turned down changed nothing; what it reports comes last | `CommandRuns` |
| `CommandsSucceed` | a command's transaction is refused only for the wallet, the agent or another process | `CommandRuns` |

Where a run has no type invariant among its properties, the proofs have one
(`CoinSubmission`, `ToolConfig`), or `TypeOK` was run once and is kept as the
documentation of the variables: it holds on the same instances of
`EventIngestor`, `ExecutionInspector` and `DagValidator`.

### Bounds and why they are enough

- **CoinGasPool**: three tasks over two pooled coins and one that callers pay
  with. Two coins is where permits merge and where a coin can be in the wrong
  place; three tasks give a holder, a waiter and a newcomer that overtakes it.
  Three submissions per task let every task meet every other after a deposit.
  The lost wake-up needs two waiters and two releasers, hence four tasks.
- **CoinSubmission**: three tasks with one submission each, one gas coin, one
  payment coin that every task may name: an orphan of one submission meets those
  of the others, a deposited payment coin is used as gas, or named again while it
  is pooled, held or paying, and with it two releases can leave one permit for
  two waiters while a third task runs, so that `SubmissionsEnd` is checked across
  the lost wake-up. `MaxVersion` is implied by the number of submissions and
  never stops a step.
- **EventIngestor**: two checkpoints of at most two events, one of them ignored
  by the decoder, a channel of one: enough for a checkpoint that is cut by a
  failure, a page that blocks between watermark and event, and a replay that
  spans several requests. One failure and one crash, in any state, in any order;
  both start positions.
- **ExecutionInspector**: up to four versions, so a walk of several steps, a new
  update during it, and a second walk that stops at the first; two retries and
  one transient error.
- **DagValidator**: five families (`MCDagValidator`): a vertex with two variants
  of two ports each and what they may join; two entry vertices with joins, a
  cycle and several groups; chains with every kind of edge and a second way
  around; chains with up to two loops; descriptions that are wrong in one place.
  6,133 descriptions, each validated and executed in every order. Every stage
  of the validator refuses some of them, except `has_correct_order_of_actions`,
  which no description can fail: the graph is built in that order, and
  `OutputsUsedOnce` is checked before.
- **ToolConfig**: two requests and three versions of the file: one version can
  be skipped between two reads, and one request can hold a configuration two
  versions old, whose address the third version takes.
- **ToolInvoke**: three requests for one nonce with two inputs: the run, a retry
  after its lease, and a third with other input. Lease 1, answers kept for 2,
  time up to 3: a lease ends and an answer is forgotten within a run.
- **Sdk**, scenario by scenario:
  - *methods* (108 thousand states): every method for every way an agent is held,
    two calls, so that one runs on what the other left; two tools, as some
    methods take several; verifiers of every shape that passes the preflight or fails one
    of its checks. Objects of one kind are alike, so one of each is enough.
  - *tasks* (4 thousand): every combination of binding, payment, generator and
    schedule; two uses of the agent by others, one before each transaction.
  - *keys* (261 thousand): two leaders, which are alike (symmetry), and one tool, up to two keys each, two
    changes by others: a rotation and a revocation between two reads.
  - *walks* (149 thousand): two walks, since an abort is about all of them and a
    resolution about one; four moves by others, enough to lock, run, commit and
    settle one walk while the other expires.
  - *crawl* (388 thousand): three entries, the wanted one in the middle, so that
    one page ends before and one after it; two edits, such as a removal and a
    new entry under the same name, or changes of two entries of which an answer
    has only the second.
  - *inspection* (21 thousand), *targets* (385 thousand): two methods of
    verifiers, two skills; two changes of the tool, one of the skills, between
    any two reads. One change may be of a skill and of the default executor at
    once, so a skill that was fit only while it was not the default is answered.
  - *quotes* (4 thousand): budgets around zero, one MIST with its fee, and the
    largest number; percentages around the ends of their range.
    `SdkProofs` covers the others.
  - *cli* (99 thousand), *allowlist* (5 thousand): two processes and two
    commands, a syncer and an exporter with three lists: whoever overlaps does
    so in twos.
  - *balance* (90 thousand): two submitters, two counters, two nonces, two
    epochs: the same submission twice, by one counter or by two.
  - *data* (112 thousand): two ports of one or two payloads, one payload in
    both; three epochs of Walrus, blobs that last one.
  - *commands* (66 thousand): two coins, so that the largest may be the one that
    is named for something else; every command with every set of options.

Runs say `CHECK_DEADLOCK FALSE` where the system may stop: submissions, requests
and executions end, a terminal error stops the ingestor, and the bounds stop the
environment. `Sdk_all` checks for deadlock: a call always comes to an answer,
and another may follow.

## 4. Fairness

Fairness is assumed only of what the runtime or the transport guarantees.

- **CoinSubmission**: weak fairness of each task's `Progress` (the runtime polls
  every woken task; every request has an answer or a transport error, which is
  `Fail`, enabled whenever the answer is not) and of `Node`. None for starting
  or dropping a submission. Weak fairness suffices for the client lock too:
  `fetch` waits for it, and with finitely many submissions its holders let go
  for good.
- **EventIngestor**: weak fairness of the driver and of the consumer, strong
  fairness of the delivery of an event, replayed or live. The node may answer
  with progress frames without an event, but not for ever while it has one.
  None for failures, crashes, cancellation or growth.
- **ExecutionInspector**: weak fairness of the task and of `Index`: a
  transaction becomes visible in the end. `FinishArrives` is claimed of a calm
  node only (`calm`): one that does not prune, lag, lie or pass the deadline.
- **ToolConfig**: weak fairness of the watcher's start, of the reload task, and
  of a request between its lookup and its rebuild. Notification is not fair: it
  may lose an event, the poll is what finds it.
- `CoinGasPool`, `ToolInvoke`, `DagValidator` and `Sdk` state safety only: a
  request may fail at any point, and nothing there waits for another process.

## 5. The proofs

The theorems hold for any sets of tasks, coins, requests, leaders, nonces and
addresses, any ledger, and any value of the numbers; the bounds of section 3 are
not assumed. What is assumed are the `ASSUME`s of the modules: that the "none"
values are not members of the sets, that the names of owners that are not tasks
are not tasks, that the builder is given each coin once, that a description of a
DAG is a list of edges, that the coins of a wallet are numbers, and that numbers
are numbers. TLC evaluates them in the passing runs. Each invariant below was an
invariant of a TLC run before it was proved, except the conjunct `ProgramFits` of
`CommandInv`, which quantifies over functions.

**CoinGasPool** (`CoinGasPoolProofs`). `TypeCorrect` is proved from
`TypeInv`, which adds to `TypeOK` that a task holds a coin exactly in stage
"holding" and that `parked` lists the parked tasks, each once; without the
first, `PushCoin` could push "no coin", without the second, a wake-up could move
a task from another stage. `CoinsAreExclusive` (`ExclusiveCoins`) is inductive
together with `TypeInv`. `PoolImplementsLease` maps each coin to its owner
(`OwnerOf`) and shows every step to be one of `CoinLease` or a stutter; it needs
both invariants, for a CHOOSE over the holders to have one value.
`CoinsStay` proves `CoinsConserved`, step by step, from `TypeInv`.
`OneCoinWakesWaiters` states when the wake-up is safe: with a single coin and no
dropped futures, no task sleeps while the coin is pooled. Its invariant
(`WakeInv`) also counts a task that saw the `Vec` empty and is about to register
as a sleeper, unless the permit it will find is stored, and says that a permit
and a registered waiter never coexist. With two coins the run
`CoinGasPool_lostwakeup` refutes the property.

**CoinSubmission** (`CoinSubmissionProofs`). One invariant, `SubmissionInv`, in
three parts. `Base` says what a stage of a submission says of its coin, its
transaction and the answers so far, and that who waits for a coin submits
nothing. `Apart` says that a coin is in the `Vec`, held as gas, or named for a
payment, in one of them, once; or that a caller named it while it was in one of
them (`reused`), which the client does not refuse: `CoinsHaveOnePlace`. `VersionInv` is the argument about references. A reference
in the pool, or one about to be signed, is current and no transaction on the wire
can change its coin any more (`Usable`), unless the coin is suspected (the last
submission with it failed) or reused. No reference is ahead of the chain. A
submission whose answer came has its transaction executed and off the wire.
Three theorems follow. `StaleCoinsAreSuspect`: only a submission that failed, or
a caller who paid with a coin in use, leaves a reference behind the chain.
`AwaitedDoNotCompete`: two transactions that somebody waits for share a coin, as
gas or as payment, only if it was reused. What a caller does with one coin does
not reach the others. `OkIsTrue` holds of everybody, reused coins or not: a transaction executes only with current references, and bumps them,
so what returns `Ok` was executed itself, whatever orphans are on their way.

**EventIngestor** (`EventIngestorProofs`). `NoGap` and `PageCheckpointComplete`
speak of the consumer, but what makes them true is spread over the ledger, the
driver and the channel, so neither is inductive. `DeliveryInv` has two parts.
`Store` says that every page in the channel is preceded, by what was handled and
by the pages before it, by everything owed before its events and below its
checkpoint; that the same holds of `resume` and the whole channel; and that
without a checkpoint to resume from nothing was delivered. `Position` says, for
each phase, that what lies before the driver's place is in the channel or
handled: before the live cursor when it follows the stream; below the start
checkpoint or up to the after cursor, and short of the bound, when it replays,
the event of the frame at hand excepted. The frame that ends a replay at its
bound closes the two: everything before the first live frame is then delivered
(`LeaveFrameFacts`). A restart keeps `Store`, since the checkpoint that was
handled last is safe: the two theorems, `EventsHaveNoGap` and
`CheckpointsAreSafe`, need each other.

The order of the pages is a second argument, over what the connection may still
deliver (`Coming`): from the live cursor on, from the start checkpoint and the
after cursor on, and the event at hand. `OrderInv` says that what was reported
(`highest`), and the watermark at hand, are at or below all of it, and that
`highest` is at or below the checkpoint to resume from, so that a reconnect does
not break it. `PagesGoForward` (`PagesInOrder`) follows, as a page carries the
checkpoint of an event that was still to come or a watermark above `highest`.
For `OnlyRecentEventsRepeat` (`RepeatsAreRecent`), `RecencyInv` says the same of
everything that was handled or is in the channel, as long as there was one crash
at most; what keeps it over the first crash is that until then the pages were in
order, so that the checkpoint of the last page handled is the highest of them
(`FirstRun`). After that crash the order starts anew, and a second one is not
covered, as the code does not cover it (section 6).

**DagValidator** (`DagValidatorProofs`). `Reach` iterates to a fixpoint; that it
yields the least set that holds its start and is closed under edges
(`ReachFacts`) follows from the largest set for which it would not, and that in a
graph without a cycle no path goes on for ever, forth or back (`NoEndlessWay`),
from the node that has the fewest beyond it.
What the verdict says of the graph is one invariant, `Judged`. For
`LoopsAreSound` (`NestingSound`) the invariant `LevelSound` says that the level
of a value at a port is a state in which some walk of `ForEachPaired` comes to
that port; an accepted graph has one state for each node (`OneState`), since a node with two
could neither end a walk nor open or close a for-each, and would lead to another
such node, without end. `LoopsDoNotNest` follows from the graph alone: the vertex
of a loop on the path of another puts a break or loop edge of its own there. For `VerdictIsExact` (`VerdictExact`) the
invariant `Progress` says that only what is reachable from the invoked group
runs, that a port has at most one value of each output port that leads to it, all
from vertices that ran, and, where nothing branches, that a vertex that ran gave
all it leads to. The tasks that
`get_net_concurrency_in_subgraph` counts are as many as the output ports on the
paths (`TaskCount`), so its difference is zero exactly if no input port on them is
reached from two (`NetCount`); and when all is quiet, exactly the output ports
that are reached and lead to a port have given it a value (`GivenFacts`).

**ToolConfig** (`ToolConfigProofs`). `ConfigsAreValid` comes from `ValidInv`:
what is installed, cached, held by a request or about to be installed was in the
file and was readable when it was read. `StalenessNeedsReuse` is `StaleOnlyByReuse`, for an
allocator that may use any freed address again. Its invariant says that reloads
are numbered in order, that two configurations in use at one address are the
same, and that a configuration in use at the address of the cached runtime is
the runtime's own or was installed two reloads after it (`ToldByAddress`): it
was allocated while `Config` still held the one before, at another address.

**ToolInvoke** (`ToolInvokeProofs`). `TypeCorrect` uses `TypeInv`: `TypeOK` and
that a list read ("store") is a readable one (`ListRead`). `RunsExclude`
(`OneLiveRun`) and `ReservationsHaveOwners` (`NoOrphan`) come from `RunInv`:
besides the two, that a live run owns the entry of its nonce (`LiveOwns`);
`OneLiveRun` alone is not inductive, as nothing would stop a reservation next to
a live run whose entry another had removed. `AnswersFit` (`AnswerOfInput`) comes
from `AnswerInv`: a cached answer was computed by a request with the nonce and
the hash of its entry, and so was every answer given. `AnswersAreRemembered`
(`RunOnce`, an action property) comes from `KeptInv`: while an answer is to be
remembered, the cache holds one for its nonce and hash that expires no earlier,
so `Reserve` is disabled for the same input.

**ExecutionInspector** (`ExecutionInspectorProofs`). `InspectorInv` says where
a walk stands (`Walks`): what it collected goes, without a hole, from the latest
version down to the one above the cursor, all above what was delivered; that what
is queued goes on from there to the latest version, and that exactly the updates
before it which carry an event were sent, in order (`Sends`, `Waits`, `InOrder`).
From it, `WalksAreWhole` (`WholeWalks`): whatever ends a walk, its batch has each
version between once and in order. `InspectionImplementsFeed` maps the state to a
feed whose `sent` is what the inspection sent, and shows every step of the
inspection to be one of `ExecutionFeed` or a stutter.

**Sdk** (`SdkProofs`). A step of `Sdk` is a step of one scenario while the others
stand still, so each scenario has its invariant, and its theorem starts from a
step lemma of `Sdk`.

- *tasks*: `TasksAreAsAsked` (`CreatesWhatWasAsked`) from `CreationInv`: at each
  step of the call, what was created and added so far and which checks the request
  has passed (`CreationStages`), and that the reference a transaction is built
  with is the agent's current one unless somebody used the agent since
  (`ReferenceFresh`). The last part is what shows that the first transaction does
  not make the second stale.
- *keys*: `KeysAreTrue` (`KeysTrue`) from `KeyInv`. The chain follows the full
  node's replica, binding by binding, as a binding only gains keys and
  revocations (`Follows`); whatever the replica shows during a call is recorded
  (`Witnessed`); and what a job has put together so far was read from it
  (`JobSound`), so what it reports still stands on the chain.
- *walks*: `NoResultIsLost` (`NoResultLost`) from `WalkInv`: resolving an expired
  walk looks at that walk only and settles no other, and an abort cleans up only
  walks that are not active or whose result is unstamped (`Harmless`), from the
  moment it plans the cleanup to its transaction. That is needed because an abort
  is about every walk of the execution, and leaders move between the reads of the
  caller.
- *crawl*, *inspection*, *targets*: `ReadsAreTrue` (`ReadsTrue`) from `CrawlInv`,
  `InspectionInv` of `ToolInspection`, and `TargetsInv`. Each says of every entry
  or record in hand that it was true at a moment since the call began, its own
  moment (a crawl as a whole, or a record and the default executor, may be put
  together from several), of every page that what lies before its end is listed
  or was edited meanwhile, and of every failure in the making that its cause is
  recorded.
- *quotes*: `QuotesAreExact` (`QuotesExact`), by arithmetic, in words of any width
  and for any payment, percentage and vault: the derived gas budget is the largest
  that fits and a withdrawal takes no more than its share. It rests on the two
  inequalities that characterise a rounded quotient (`Quotient`).
- *cli*, *allowlist*: `FilesStaySound` (`FilesSound`) from `CliInv` (what a process
  is about to write, or keeps to write it later, is what the file held at a moment
  of its window with the command's own changes; what it could load now is in its
  window; a capability that is in no file yet is with a process that has not
  saved) and `AllowlistInv` (a process renames only what it wrote to the end;
  without overlap one process works at a time, and its list is no older than any
  the file ever held).
- *balance*: `EffectsAreOwn` (`OneEffectEach`) from `NonceInv`: what a counter gave
  away lies below it, no two open submissions of one counter have the same
  transaction, and none has one whose effects another was told already.
- *data*: `DataArrivesWhole` (`DataArrives`) from `DataInv`: the keys stored so far
  name, in order, blobs of the payloads given so far, and such a blob lasts at
  least as long as was asked, whoever stored it first.

- *commands*: `CommandsAreTrue` (`OutcomesTrue`) and `CommandsGetThrough`
  (`CommandsSucceed`) are about programs that differ in length, so the argument is
  a system of types for them. A fact is something that is known at a step whatever
  happened: nothing was executed, written or saved ("clean"), nothing stored
  ("unstored"), nothing printed ("silent"), the gas coin is chosen and is not the
  payment coin ("gas"), the payment coin is chosen ("payment"). `Legal` gives each
  kind of step the facts it needs, loses and adds (a step that may refuse needs
  "clean", one that submits needs "gas"), and the steps inside a branch, a loop or
  an attempt must keep what is known before it; `Leads(c, p, a, b)` says that the
  steps of p are legal one after the other, from the facts a to the facts b. That
  a program composed of two leads where they lead is a lemma (`LeadsConcat`), and
  every program of `TapCommands`, `ToolCommands` and `WorkCommands` is shown to
  lead from a fresh start to its end, for all arguments (`ProgramsFit`).
  `CommandInv` says that what is left of the running program leads on from facts
  that hold; each action takes the first step off and keeps that
  (`CommandsKept`). What a command turned down left nothing behind, because
  "clean" was known; its transaction is not rejected, because "gas" and "payment"
  were. The exceptions that the properties name are the commands that are given a
  fact for nothing (`Unclaimed`).

Two models were rewritten because they could not be reasoned about: `CASE`s whose
guards overlapped, in the crawler and in the probe of a tool's gas, mean to TLA+ a
choice nobody knows, where the code tries its branches in order. They are nested
IFs now. TLC, which takes the first that holds, had not shown the difference.

Only model-checked, not proved:

- liveness (`SubmissionsEnd`, `EventsArrive`, `FinishArrives`, `ReloadSettles`):
  TLAPS does not reason about fairness and ENABLED here.
- `SoundCallsSucceed` and `FundedBeforeStart`: they are about the catalogue of
  methods, which is finite and fixed; whether the chain accepts what an entry
  builds is computed by a fold over a sequence of some dozen commands, and what a
  fold computes is an induction over data that the prover cannot do. TLC computes
  it for every entry. Nothing in the two is left to a bound except how often
  others interfere.
- `TypeOK` of `Sdk`, for the same reason: the type of a method's call includes
  what that fold yields. The invariants above contain the types that the proofs
  of the other scenarios need.

## 6. Where the code and its documentation part

Four runs find a statement of the repository violated (`PROJECT.json`,
"findings", quotes it):

- `CoinGasPool_lostwakeup` (client.rs:88). `acquire_gas_coin` looks at the `Vec`,
  unlocks, and registers with `Notify` only afterwards. Two tasks that both saw
  it empty share the one permit that two releases leave; one of them sleeps
  although a coin is there, until a later release. `OneCoinWakesWaiters` shows
  why one coin is safe.
- `CoinSubmission_stale` (signer.rs:76). Any error after the transaction ran
  skips the refresh, and the coin goes back with its old version, which the
  last-in-first-out pool hands out next. `StaleCoinsAreSuspect` proves that this
  is the only way, but for a payment with a coin that is in use (below).
- `DagValidator_race` (validator.rs:194). Concurrency is counted over all
  variants of a vertex at once, and a join that only one variant reaches pays
  for a race in another.
- `Sdk_toolgas` (client.rs:475). `fetch_tool_gas` derives the object from the
  tool registry, everything else (client.rs:423, 436, tool.rs:211) from the gas
  service: the gas of a registered tool is not found.

What follows was met while modelling and has no run of its own. The models take
the code as it is.

*Concurrency and restarts*

- The cached signing runtime is compared by the address of a configuration that
  it does not keep alive (signed_http_warp.rs:151, against config.rs:342). Two
  reloads that no request saw in between, the second placed where the cached one
  was, leave the old runtime in use until the next reload. `StaleOnlyByReuse`
  allows exactly this, the run reaches it, and its proof shows that nothing else
  makes a runtime stale.
- The allowlist is read without the lock and stored under it
  (signed_http_warp.rs:54, against config.rs:23): an older one may be stored
  last. `LatestAllowlist` of `ToolInvoke` states the opposite and fails.
- `start(None)` is documented to start "at the current stream position"
  (ingestor.rs:124). If the first connection fails before a checkpoint was
  heard of, the next one starts at its own, later position (driver.rs:91).
  `EventsArrive` excludes exactly these events (`StartedAfter`).
- `highest_output_checkpoint` starts empty (driver.rs:260), so the first page
  after a restart may name a checkpoint below the one restarted from, and a
  second crash may repeat older events. `RepeatsAreRecent` is claimed for at
  most one.
- A poll that a lagging replica answers with a version before the one delivered
  last ends the inspection with an error (workflow.rs:614, `MovedBackwards`),
  although other lags are retried. The poller notices a dropped receiver only
  when it has an event to send (workflow.rs:1827).
- A configuration that changes between its first load and the start of the
  reload task is not looked at until it changes again (config.rs:440; the
  variable `early` of `ToolConfig`).
- `CHANGELOG.md:64` promises "conflicting nonce rejection". A nonce that is
  used with other input after its run completed is run again
  (signed_http_warp.rs:308); a conflict is only an entry in flight.
- Every client with balance gas, and every restart, counts its nonces from 0: an
  identical transaction in the same epoch gets the digest, and the effects, of
  the first. A retry after a timeout gets a fresh nonce and may execute twice.
- The configuration file of the command line is read, changed and saved without
  a lock: an update may be lost, and a file read while it is written counts as
  missing and is replaced by the defaults (cli_conf.rs:20, sui.rs:192, 329).
  `task_create.rs` loads it at line 50 and saves it unchanged at 170, so what
  others save during the whole command is gone. `WritesWhatItFound` does not
  claim otherwise: it says how long the window of each command is in which this
  may happen, and that the registration of tools, the longest command, has a
  short one.
- A listing of several pages, or a skill and the default executor, are read at
  different moments (crawler.rs:578, tap.rs:1071). The answer may be one that held
  at none: an executor that was fit before it became the default and not after.
  `ReadsTrue` claims each entry by itself.

*Transactions and methods*

- The preflight of an external verifier (registry.rs:198) compares the number of
  the objects it is given with the parameters of the function, not their types:
  the chain refuses a registration with objects of other types, or in another
  order. `SoundCallsSucceed` allows for it (`mistyped`).
- `bind_agent_skill_ptb` (transactions/tap.rs:226) leaves the created agent
  over, and the chain refuses the transaction; `create_agent_for_self_ptb` (73)
  transfers it. `SoundCallsSucceed` names the method (nexus/tap.rs:900).
- `update_timeout` (nexus/tool.rs:106, "Derive and fetch the Tool object.")
  fetches the tool's gas object and passes it as the tool; its command takes the
  `over_gas` capability where the one over the tool is needed
  (tool_update_timeout.rs:16, against tool/mod.rs:495). The lookup fails, as for
  all that use `fetch_tool_gas`; the transaction would be refused as well.
- `withdraw_priority_fee` (transactions/gas.rs:195) enters the leader capability
  as owned, all other builders enter it as shared, which it is: the chain refuses
  the transaction. These three methods are `NeverAccepted`.
- `create_task` checks "Initial queue schedule can only be used with the queue
  generator" after the task was created and funded (scheduler.rs:378);
  `create_agent_task` likewise (tap.rs:810). `CreatesWhatWasAsked` allows for it.
- `abort_expired_execution` is documented to return a local error for a broken
  finalized result (workflow.rs:1915), but builds cleanup calls and aborts;
  `abort_expired_execution_with_tool_gas` does not look at the results at all.
  The state of a result is read before its ID
  (`fetch_onchain_tool_result_state`), and a resolution may say "aborted" of a
  walk that a leader settled when the abort of another was accepted.
- `execute_default_agent_dag` and `execute_agent_dag` take the payment coin the
  caller names (workflow.rs:1453, 1679) and put it into the pool afterwards
  (1526, 1698). Neither asks whether the pool has it already, a submission holds
  it, or another caller has named it: the pool may then hold it twice, once with
  an old version. The run reaches this; the properties of `CoinSubmission` show
  that only that coin is affected.
- Ticket purchases refuse that the gas coin is the payment coin only if the
  former is named; otherwise the largest coin is taken, which may be the
  payment. `dag execute` excludes it (dag_execute.rs:66).

*Reads*

- `inspect_tool` (nexus/tool.rs:202) calls a registration between its two
  probes, or a failed request, inconsistent; two failed requests, "exists:
  false".
- Two methods of the crawler are documented to skip keys of another type
  (crawler.rs:594, 855), but fail on the first name that does not decode
  (1107); the lists of vaults, receipts and histories in tap.rs with them. One
  field removed between list and batch fails a whole read;
  `find_owned_capability_by_what_for` looks at the first page only;
  `get_dynamic_object_fields` pairs keys with objects by position.
- `fetch_skill_revision` validates every record of a skill first
  (types/tap.rs:211): one malformed record fails every pinned lookup, and a
  revision that is not the current one is never found (against tap.rs:1152).
- `export` (network_auth.rs:436) does not look at `revoked`, the reader (678)
  does; nor does the command's `--skip-if-active`.
- `blob_id_from_storage_info` (walrus/nexus_data.rs:169) accepts only newly
  created blobs: a retry, or two equal payloads, fail.
- `wait_for_payment_settled` ends with the first failed read, and may say
  "timed out" of a payment that settled after the last read before the deadline.

*Commands*

- Batch registration loses the capabilities of tools that are registered already
  when a later one fails (tool_register_offchain.rs:79, 335, against
  CHANGELOG.md:656), or when the look at the tool fails after its registration.
- `tap publish-skill` loses the printed IDs if its file cannot be written after
  two transactions; `conf set` prints the new configuration before saving it;
  `task create` and `tap schedule-task` store input data before they check the
  schedule, `create_skill_artifact` reads the chain before its arguments.
- `dag execute --inspect` makes a second client after the execution was
  submitted, and any failure of the inspection loses the report with its ID.
  With `--json`, `tap dry-run`, `tap publish-skill` and `tool register onchain`
  print two documents or a document and an error.
- `--remote`: an error of `hint_remote_fields` counts as no hint; unknown handles
  are ignored (workflow/mod.rs:71). `GasArgs` promises the first coin
  (prelude.rs:82), the largest is taken. `set-agent-task-state` does not check
  the owner first, the other agent commands do. `tool validate onchain` is a
  `todo!()`. Two parameters with one custom name overwrite each other
  (`build_final_schema`). `atomic_write` does not fsync.
- "Check that do-whiles don't nest" (validator.rs:42): a loop inside another is
  seen only if one of its loop or break edges is on a path of the outer one. If
  its vertex goes on by a third variant, it is not; `LoopsDoNotNest` therefore
  assumes that such vertices have no other variants.

## 7. What is not modelled

*External.* The Sui chain, its full nodes, Walrus and the Move packages appear as
the actions of an environment that does what the code relies on. Assumed of a
node: the watermark of an event frame is not ahead of the event; apart from lag,
pruning and bad answers it is consistent. Of the Move packages: the signatures in
`MoveCalls`, read off the bindings and the builders. Executions of a DAG follow
what the validator assumes of them. The wall clock does not go back, although it
may (hazard at signed_http_warp.rs:366).

*Without control.* Tool HTTP routes other than invoke are stateless handlers;
the DAG document parser, the shared types, the toolkit's helpers, the Move
bindings and the on-chain schemas are data and conversions; event parsing and
queries decode, and the models take an event as decodable or not. Signatures,
keys and the wire format are valid or not. Wording, display, metrics, shell
completions, test utilities and build files are left out.

*Left out of a component that is modelled in part.* Walrus: files, JSON uploads
and the check of a blob, single requests that nothing in the repository calls.
Registry: `find_owned_capability_by_what_for` and reads of one object. Scheduler
and agents: queries that are one read each, and lists that are displayed.
Workflow: execution cost and the reads of single DAG parts. Crawler: the reads of
one object, which are steps of the methods that call them.

## 8. Plan

In place, in the order in which they were built: the pool and the submission,
events, the signed runtime and the configuration, the inspector, the validator;
then the builders and methods, task creation, keys, expired walks, balance gas,
the crawler and the other reads, quotes, data, files and commands.

What is left, by importance:

1. The settlement of a payment as the caller sees it: `wait_for_payment_settled`
   with failing reads and a deadline, next to settlements by leaders.
2. The composition of `SdkMethods` and `CoinSubmission`: a method's refusal, the
   refresh of its coin and its second call.
