# Akhub in TLA+

Akhub is a gateway for AI upstreams (Rust, `src/src/`). A client sends a request to a *group* with
an agent's key; the gateway plans over the group's *targets* (a model at an *account*), picks one of
the account's API *keys*, admits the attempt against circuits, concurrency limits and rate windows,
forwards it, and falls back to other keys, targets and layers when it fails. This directory holds
specifications of the parts whose correctness depends on the order of concurrent steps, the TLC
configurations that check them on small instances, and TLAPS proofs for every value of the constants.

Tools: `tlasany M.tla`, `tlc -workers 2 -config X.cfg MCx.tla`, `tlapm XProofs.tla`.

## 1. Inventory

| Part | Source | State | Operations | What is hard | What makes it correct | Modelled in |
|---|---|---|---|---|---|---|
| health registry | `health/mod.rs` | per account, key and target: circuit, hard-stop mark and count, semaphore with recorded capacity, two rate windows | `admit`, `settle`, `cancel_before_upstream`, drop, `retain_with_keys`, `clear_*` | one lock per object, taken in turn; attempts with snapshots of different ages; drop at any await | permits conserved; a half-open place that is taken can be given back | `Circuit`, `Health`, `RateWindow` |
| group queue | `routing/queue.rs` | slot per group: semaphore, recorded capacity | `enter`, `reconcile_permits`, `retain`, ticket drop | compare-and-swap, then a separate change of the semaphore | no place lost; `queue_full` is never a false alarm | `Queue` |
| waiting for capacity | `gateway/passthrough.rs` (`wait_and_run`), `routing/queue.rs` | permits collected so far, queue positions | scan, wait for any of several candidates, wake, select again, run | many FIFO queues, cancellation of the losers, selection after the wake | permits conserved, limits hold, waits end | `CapacityWait`, `Concurrency` |
| request walk | `gateway/passthrough.rs` | layer, stage, pending candidates, attempts, last failure | bound target, layers, key switch, retry after 429 | many kinds of failures, each continuing at another place | better candidates first, bounded sends, an answer | `Walk` |
| endpoints, effort ladder, evidence | `upstream/`, `passthrough.rs` (`walk_endpoints`) | supported endpoints, levels of effort taken or refused, with their age | plan, send, note, switch, clear | what a refusal teaches, forgetting while requests run | a shape is sent once; degraded endpoints last; no level both taken and refused | `Attempt` |
| stream forwarding, settlement | `gateway/stream.rs`, `translate.rs`, `error.rs`, `settle.rs` | bytes sniffed, half frames, timers, the admission | sniff, switch upstream, commit, beat, relay, settle | a frame cut by TCP, an error after the commitment, a client that leaves | one upstream is heard, nothing lost or repeated, one verdict | `Delivery` |
| protocol translation | `protocol/` | parser and emitter of one stream; bodies | events in, events out; parse and emit of requests and answers | fragments of several calls interleaved, ends that come twice | no fragment in a foreign call, nesting, one end; calls meet their results | `Translate`, `Convert` |
| key pool | `credential.rs`, `routing/mod.rs` | keys of an account, chain, binding, excluded key | `select_key`, `resolve_key` | two readers of one state must agree | a usable binding is kept; only free keys are drawn | `KeyChoice` |
| sticky bindings | `routing/sticky.rs`, `passthrough.rs`, `app/tasks.rs` | table of bindings with expiry, rows on disk | look up, bind, escape, fail over, prune, evict, save, restore | two requests of one conversation; a binding cleared by one that read another | a conversation moves for a cause; what points to a deleted target is forgotten | `Sticky` |
| route planning, score | `routing/mod.rs`, `routing/score.rs` | none, and the statistics of targets | eligibility, layers, weights, decay | order of the gates; evidence that fades or is restored | no gate passed by; a final refusal is final; faded targets get their draws | `Routing`, `Score` |
| managed background tasks | `gateway/background.rs`, `storage/store.rs` | row, table of running tasks, executor | start, execute, heartbeat, commit, cancel, destroy, prune, recovery at start | rows written back after an await; abort; crash | output survives, answered cancel has stopped the call, tasks end | `Background` |
| Responses state chain | `gateway/responses.rs`, `gateway/settle.rs` | rows of responses | record, look up, go on, replay, delete | record completed after the answer | a turn is never sent without its history, nor an upstream id to another account | `ResponseChain` |
| multipliers | `multiplier/`, `app/tasks.rs` | table of prices, rows, schedule, systemic protection | scheduled round, manual refresh, edit, reseed | compare-and-swap of the table against reseeding; broken probes | an unconfirmed price is given up after its grace | `Multiplier` |
| model discovery, administration of the catalogue, configuration snapshot | `discovery/mod.rs`, `admin/resources.rs`, `config/mod.rs`, `storage/store.rs` | groups, accounts, catalogue rows, logical models, targets; the published snapshot | refresh, sync, select, rename, merge, delete, edit, reconcile, reload | handlers of several statements that interleave; a crash between them | targets are what the rows ask for; keys reach their group only; managed mode leaves the selection alone | `Catalog` |
| image tasks | `gateway/images.rs` | one forwarded request | submit, poll | waits and failover are those of the walk | sent once per attempt | - |
| recorder, statistics | `app/recorder.rs`, `app/live_stats.rs`, roll-up in `app/tasks.rs` | bounded channel, minute rows | record, flush, roll up | full channel | counted drops | - |
| sessions, login limiter | `auth/` | sessions, failures | log in, check, expire | limits | lock-out ends | - |
| self-update | `update/` | binary | download, verify, swap, roll back | failure between two file operations | roll-back possible | - |
| gateway surface, security, domain, desktop, web | the rest | none or pure | | | | - |

How the parts meet. A request enters `forward_inner`, which plans (**Routing**, ordered by
**Score**), reads its binding (**Sticky**) and walks (**Walk**). Each candidate goes through
`select_key` (**KeyChoice**) and `Registry::admit` (**Health**, with the circuits of **Circuit** and
the windows of **RateWindow**). If all candidates are busy, the request takes a ticket (**Queue**)
and waits on the semaphores (**CapacityWait**). An attempt asks one endpoint of the account after
another (**Attempt**), translates body and answer if the protocols differ (**Convert**,
**Translate**), and its stream is sniffed, committed, relayed and settled (**Delivery**), which
settles the `Admission`. A request with `background: true` is answered at once and run later by an
executor (**Background**) that goes through the same walk. A request that refers to an earlier
response is resolved first, and its own response is recorded by the attempt and the settlement of
the stream (**ResponseChain**). Under all of this the administrator changes limits, prices
(**Multiplier**) and the catalogue (**Catalog**), and each change publishes a new snapshot from
which requests plan.

`PROJECT.json` lists every part with its status, and 40 hazards at their lines.

## 2. Modules

| Module | Models | State and actions |
|---|---|---|
| `Circuit` | `struct Circuit` | operators on one circuit record: try_enter, undo, trip, on_fault, on_success |
| `Health` | `Registry`, `Admission` | a request's `pc` goes arrived, enterKey, enterTarget, permits, rate, admitted: one step per lock, with the undo of each early return; `settle` is two steps because the count of rejections is an atomic outside the lock of the mark. `refs` says which live entries a request's `Arc`s still are; `owner`, a history variable, who took a half-open place that is taken now: the code keeps a flag with the attempt only |
| `RateWindow` | `SlidingWindow`, `consume_rate`, `Budget::cancel`/`settle` | RPM and TPM window of one level; a request reads the clock once and uses it under later locks |
| `Queue` | `GroupQueues`, `QueueSlot` | calibration step by step: compare, swap, adjust; tickets |
| `Concurrency` | what `max_concurrency` promises | abstract: an attempt begins only below each limit |
| `CapacityWait` | `wait_and_run`, `Capacity::acquire` | candidates' permit queues, wake, second selection, ticket, pause for a 429, shutdown |
| `Walk` | `forward_inner`, `walk_layer`, `try_candidates`, `run`, `run_attempt` | one request: bound stage, layers, lossless and degraded, waits, key switches, what is remembered of failures |
| `Attempt` | `walk_endpoints`, `classify_upstream_error`, `upstream/endpoints.rs`, `upstream/evidence.rs`, `align_thinking` | several requests share `supported` and `fit`, what is known of the account; `Start` plans the endpoints, `Prepare` gives the body its shape from the facts of that moment, and one action for each kind of answer notes what it teaches and goes on or ends |
| `Delivery` | `Sniffer`, `commit_stream`, `continue_stream`, `passthrough_stream`, `private_stream`, `KeepAlive`, `settle_stream` | one answer: frames in pieces, what is held back, what the client was given, three timers, a verdict per target |
| `Translate` | `StreamParser`, `StreamEmitter`, `gateway/translate.rs` | upstream, parser, canonical events, emitter, and the client as the reader its protocol prescribes, which notes what it may not accept |
| `Convert` | `parse_request`/`emit_request`, `parse_response`/`emit_response`, `degrade.rs` | a body is built entry by entry and converted: operators from one body to the other |
| `KeyChoice` | `select_key`, `resolve_key` | the pool's state and the call's constraints vary; answers are operators |
| `Sticky` | `Bindings`, the bound stage of `forward_inner`, the escape after a rewritten context, the jobs and the restoration | a request reads its binding, decides whether it pins, and writes it when an attempt succeeds, with the time of its beginning; jobs prune and save in steps |
| `Routing` | `check_eligibility`, `plan`, `resolve_key`, the error of an empty plan (`failure`) | the facts about the targets vary; verdicts are operators in the order of the gates |
| `Score` | `score.rs` | samples, decay by half-lives, shares of the weighted draw, saved rows |
| `Background` | background tasks | starter, executor, cancel/delete handlers, row, handle table, prune, faults, crash, restart |
| `ResponseChain` | `resolve_request`, `prepare_inner`, `record_state`, the record in `settle_one`, `destroy`, pruning | a turn goes walk, called, record (the awaited statement is on its way), answer (it has come to its end), then answered or stream, final, saving or deleting, over or broken; a stream of another protocol that was recorded may still fail before its first content, and the walk goes on; `row` is `response_states`. What was said is a set of parts (what each turn asked and was answered), so that a replay can be compared with what it replaces |
| `Multiplier` | `multiplier/mod.rs`, `refresh.rs`, the refresh job, `reseed_multipliers` | every refresh goes probe, save (its row), put (its entry); the round and the administrator's refresh run at once with the editor that rebuilds the table from the rows it has read |
| `Catalog` | `discovery/mod.rs`, the handlers of `admin/resources.rs`, `config/mod.rs` | two processes with a list `todo` of the store's calls still to make, one step each; `stored` is the database with its foreign keys and cascades, `config` the published snapshot, built from four lists that were read one after another |
| `TranslationInvariant` | the inductive invariant of `Translate` and, for each of its steps, what the step leaves of parser, emitter and client | definitions only, in the words of `Translate`; `TranslationProofs` extends it and proves that they hold |
| `MC*` | finite instances | values of constants that a cfg cannot write, symmetry, and the composition of a run |
| `Subsequence` | the elements of a list that pass a test, in their order | `Keep` and `Elements`, written so that the prover can reason about them: a place of the list counts the members before it, no recursion and no fold |
| `HealthProofs`, `LimitsProofs`, `RequestProofs`, `AttemptProofs`, `SelectionProofs`, `JobsProofs`, `TranslationProofs`, `SubsequenceProofs` | proofs | `HealthProofs` has the lemmas on `Circuit`'s operators too; `LimitsProofs`, `RequestProofs`, `SelectionProofs` and `JobsProofs` extend the MC module of their run, so that they state the very properties that the run checks; `TranslationProofs` extends `Translate` (by `TranslationInvariant`), which states the properties of the streams itself |

Composition. `Health` EXTENDS `Circuit`. `CapacityWait` INSTANCEs `Concurrency` with
`running <- the levels of attempts that run` and implements it. The other modules meet through what
they leave open: `Walk` lets a candidate be free, busy or unusable at each check, which over-approximates
`Health`, `KeyChoice` and `CapacityWait`, and takes any end of an attempt, which `Attempt` and `Delivery`
produce; `CapacityWait` lets a circuit refuse at any admission; `Health` lets a rate window refuse at any
time, which `RateWindow` explains; `Sticky` lets the plan say anything of a bound target, and `Routing`
lets prices and health be anything; `ResponseChain` leaves the choice of the account open.

Some MC modules put several modules beside one another (`MCLimits`, `MCSelection`, `MCRequests`,
`MCJobs`, `MCTranslation`): the parts share no state there, a variable `part` says to which of them a
behaviour belongs, and the variables of the others rest at a constant. Such a run is the union of the
parts' runs, one for each family of questions; it does not claim that the parts interact. `MCJobs` has the
parts of two runs: `Areas` says which of them a run looks at. The
definitions in these modules name the properties of the parts, and carry a part's type invariant as a conjunct.

Operators that carry the comment "Mutant" are plausible bugs of the definition that follows them.
They are used by nothing; each replaces its definition in turn to show that a property would notice.

## 3. What the runs check

| Run | Shows | Bounds and why they are enough |
|---|---|---|
| `HealthCircuits` | `TypeOK`; `NoOrphanTrial`: the attempt that took a half-open place which is taken is under way and has the flag to give it back, so no circuit stays shut for ever. That it is given back by its owner only does not hold (`OnlyOwnTrialUndone`, below) | 2 requests, 1 key, 1 target, all outcomes, trip after 1 fault, 1 back-off level, 1 sample. Two actors are enough for one to undo the other's place; larger thresholds only delay the trip. The limits stay as they are (`CircuitsNext`), `Limits` moves them |
| `Limits` | `PlacesNeverLost`, `RefusedOnlyWhenFull` (`Queue`); `SpreadAtBoundary` with `PeekAgrees` (`RateWindow`): no double rate over a boundary of spans; `PermitsConserved` and `ShrinkLeavesNoIdle` (`Health`, `CapacityWait`), limits none/1/2 changed at any time; `LimitsHold`: `CapacityWait` implements `Concurrency` | queue: 3 callers, 2 slots, capacities 0, 2 and unlimited, one edit (two calibrations with different snapshots and one holder); windows: 3 requests, a span of 2 ticks, 4 ticks (two boundaries), a step held up by one tick; budgets: 2 requests on one account; waits: 2 requests, 2 keys with 1 place, a rate, a binding |
| `CapacityWaits` | `WaitsServed`: if attempts end, a wait ends without a timeout; `ShutdownEndsWaits` although attempts never end | 2 requests, 2 targets of one account, 1 place on account and target: permits are collected in turn and two waits of one request compete; a request is bound or not, and a bound one may pause for a 429 |
| `Requests` | walk: `Ordered` (`LosslessFirst`, `HigherLayersFirst`, `SendsBounded`) and an answer to every request; stream: `OneVoice`: the client hears one upstream, and nothing after an error; `NothingLost`: its frames in order, once each, all of them if it ended well; a relayed stream is settled (`Ends`) | walk: 1 request, 3 targets, 4 keys, 2 plans, 3 attempts, 1 key switch, every failure at every attempt; stream: 3 paths, 2 targets, 3 frames, each possibly cut in two, timers of 1 and 2 ticks: half frame before and after the commitment, a switch, beats before content |
| `Attempts` | `TakenIsNotRefused`, `TakenIsFound`: what an upstream took is neither held for refused nor forgotten while it is fresh; `SentOnce`: a shape goes to an endpoint once; `EndpointsInOrder`: an endpoint that loses a part of the request comes after those that do not | 2 requests, alike; 3 levels of effort in every mixture of taken and refused, and with one of them taken now and then; facts that live 1 tick, 3 endpoints, at most 2 of them asked, accounts of either preference |
| `Selections` | `MovedForCause`, `DeadTargetsForgotten` (`Sticky`); `BindingKept`, `DrawsFromTheFree` (`KeyChoice`); `GatesHold` (`Routing`: no gate passed by, a final refusal is final); `FadedIsRetried` (`Score`, with `RestartWhitensNobody`) | race: 2 requests, 3 arrivals, 2 targets, one key; jobs: 1 request, one crash; keys: 3 keys in all states, all constraints; plan: 2 targets that differ from a healthy configuration in up to 3 facts; score: 2 samples, 4 half-lives |
| `Translations` | `FragmentsKept`: what the upstream says reaches the client, until it fails or marks the end; no piece of a call's arguments gets into another item (a text may: `AllInPlace`); for a Responses client the final items hold all that an orderly upstream said; `WellFormed`: frames where the client's protocol wants them and one end; `BodiesKept`: calls, results and parts survive, an option is kept, refused or named as degraded, an answer keeps its reason and tokens | six directions, 4 fragments of 3 items (two calls and a text interleaved), bodies of 5 entries with 2 calls, all combinations of options |
| `ResponseChains` | `NeverAsNew`, `HomeOnly`; `RecordedFirst`: a client that can name a response finds that its record was tried, so that an id without a row was deleted, has failed to be written or has expired; `BrokenIsGone` | 2 turns (one goes on from the other while it streams, settles, expires or is deleted), 2 accounts that speak Responses and 1 that does not, 1 delete, 1 failing statement or crash |
| `Jobs` | tasks: `ResultsKept` (a stored output survives, a verdict that nobody contests is final), `AnsweredIsStopped`, `PolledTasksEnd`; prices: `GraceEnds` | 1 task, 2 handlers, 1 failing statement, 1 crash (tasks share only the two tables, whose entries are by task); 1 account whose probes alone can declare the probes broken, 3 ticks, one edit, failing statement or restart |
| `Catalogs` | `InLine`: each row of an account that was reconciled undisturbed has the target it asks for and no other (chosen, or any row of a managed account: one that is live, under the public name, in the group; missing upstream: none that is live; not wanted: none), also after a crash in any handler and the next start; and the account has no target without a row, unless a handler that takes rows out was cut short, or the account is managed and refreshed, until the next sync. The snapshot is what the database says; `GroupsIsolated`: what a key reaches is of its own group; `ChoicesKept`: managed mode leaves the selection alone | 2 accounts, 2 groups, 2 upstream names, three scenes: an account whose models are chosen, a managed one (2 operations and a crash each), and two operations at once. An interleaving needs two processes, a merge two names, a move two groups |

`CHECK_DEADLOCK FALSE` stands where the system really stops: the walk of one request is over, all
tasks and handlers of the bound are used up, the clock has reached its bound, no operation is left.

Fairness. `CapacityWaits`: a task of the runtime that can take a step takes it (`TasksRun`, tokio
polls ready tasks); that attempts end is a hypothesis of `WaitsServed` (the total timeout of an
attempt), no fairness is assumed of timeouts, disconnects, rate windows or shutdown.
`Requests`: the walk's one task runs on; in `Delivery` time passes, timers that are due fire and the
body that is over is closed (the runtime polls the response); nothing is assumed of the upstream or the client.
`Jobs`: the executor goes on (its call is under `request_timeout`) and the process is restarted
(`restart: unless-stopped` in `docker-compose.yml:20`, `Restart=always` in `deploy/akhub.service:21`);
handlers and the expiry of rows need not move. `Selections`: the two cleaning jobs and the snapshot
job of `app/tasks.rs` run again and again (`tokio::time::interval`), and a request under way ends.
`ResponseChains`: only the tasks spawned by `settle_one` are fair. `PolledTasksEnd` excludes runs in
which a statement failed, because then the row may stay (see below).

Two runs show something that the repository's text promises and the code does not keep:
`HistoryKept` (`WholeHistory`: the third turn of a conversation loses the first when its account
changes) and `ForgottenOmissions` (`OmissionRemembered`: that an upstream refuses to answer without a
level of effort is not remembered); the findings in `PROJECT.json` quote the text.

### Known divergences without a run of their own

Each formula below is stated in its module and does not hold of the code as modelled. To see the
trace, put it as INVARIANT (or PROPERTY, if it is a formula `[][...]_vars`) in place of the
properties of the named configuration. A formula `F` of a module that the run takes by INSTANCE is
stated there as `F == part = "..." => Inst!F`, with the instances `Windows`, `Budgets`, `Waits`
(`Limits`), `S`, `R`, `P` (`Selections`), `Stream` (`Requests`), `Market` (`Jobs`), `Chains`
(`ResponseChains`) and `Bodies`
(`Translations`).

| Formula | Module | Configuration | Where | What the code does, and the text |
|---|---|---|---|---|
| `OneTrialAtATime` | `Health` | `HealthCircuits.cfg` with three requests | `health/mod.rs:1483` | Circuit::on_fault (and trip) clear half_open_taken whoever reports, so an attempt admitted while the circuit was closed that fails during another attempt's trial frees the trial's place; when the new cooldown ends a second attempt tries while the first is still in flight. README.md:105 says "冷却后只放行一个半开试运行请求" (after the cooldown only one half-open trial request is let through), and the comment at src/src/health/mod.rs:978-982 says this was to be prevented. |
| `OnlyOwnTrialUndone` | `Health` | `HealthCircuits.cfg` | `health/mod.rs:921` | An admission keeps the flag that it took the key's half-open place, and no reset or verdict of another takes it away. When an administrator clears the key's faults during the trial, the key trips again and another attempt takes the next trial, the first one, ending without a verdict or dropped, frees the other's place: release_key_half_open looks at its own flag only. The comment at health/mod.rs:975 says "只还**自己占的**那个半开名额" (give back only the half-open place one took oneself). |
| `OneProbeAtATime` | `Health` | `HealthCircuits.cfg` with Confirmations = 2 | `health/mod.rs:505` | After KEY_INVALID_PROBE_AFTER key_invalid() is false for every caller until a new rejection is confirmed, so any number of requests probe the key at once. src/src/health/mod.rs:40 says "过了这么久允许放行一次真实请求证明自己" (let one real request through to prove itself); README.md:111 says "硬停约 10 分钟后自动放行一次自证". |
| `EmptyLimitIsNoLimit` | `Health` | `Limits.cfg` | `health/mod.rs:781` | reconcile_capacity(None) keeps the calibrated capacity and effective_limits reads it back, so a max_concurrency the administrator clears stays in force until the entry is dropped. web/src/pages/Accounts.tsx:956 says of max_concurrency "必须是正整数，留空表示不限" (empty means unlimited). |
| `StoppedIsConfirmed` | `Health` | `HealthCircuits.cfg` with Confirmations = 2 | `health/mod.rs:539` | confirm_invalid counts with an atomic and sets the mark under a lock afterwards; a reset or a success in between zeroes the count and clears the mark first, and the key is then stopped with a count of 0. README.md:111-112 says "要连续两次确认才硬停" and that a success or clearing the mark lifts the stop at once ("都会立刻解除"). |
| `ConvergesToLimit` | `Queue` | `Limits.cfg` with Slots = {s1}, CapacityChoices = {1, 2}, MaxEdits = 2 | `routing/queue.rs:168` | reconcile_permits records the wanted capacity although forget_permits forgets idle permits only, so the tickets in use come back on top of it and the slot never shrinks. queue.rs:102-103 and 160-161 say of a shrink "不打断已经在跑的，但总会收敛到新上限" (it always converges to the new limit). |
| `BoundedByCapacity` | `Queue` | `Limits.cfg` with Slots = {s1}, CapacityChoices = {1, 2}, MaxEdits = 2 | `routing/queue.rs:168` | Each shrink while tickets are in use followed by a growth adds permits that were never forgotten; the queue can then hold more requests than any configured capacity. queue.rs:7 says "分组只负责一件事：**所有队列加起来的总容量上限**" (the group is responsible for the total bound). |
| `OnlyWaitersHoldTickets` | `CapacityWait` | `CapacityWaits.cfg` | `gateway/passthrough.rs:1142` | The ticket lives until wait_and_run returns, and run() is awaited inside it, so a request that has been served its place goes on occupying the group's queue. passthrough.rs:1072 says "只有真的要等，才占用分组的排队名额；一次等待只占一个" (only who really waits takes up a ticket) and web/src/components/GlossaryDialog.tsx:71 "排队是等待调度名额的请求". |
| `RateWaitsArePolled` | `CapacityWait` | `CapacityWaits.cfg` with Limit <- NoLimit, RateBound = {k1} | `gateway/passthrough.rs:1162` | When every key is busy for its rate, check is asked without a key and does not answer RateLimited; the capacities to wait for are unbounded, acquire() returns at once and the loop spins without a pause. passthrough.rs:1156-1157 says "RPM / TPM 窗口只会随时间推移释放，没有可等的信号，只能按短间隔轮询" (there is no signal to wait for, so they are polled at short intervals). |
| `PermitMatchesKey` | `CapacityWait` | `CapacityWaits.cfg` with Targets = {t1}, Keys = {k1, k2}, Limit <- KeyLimit, Bindings = {None, k1}, SPECIFICATION Spec | `gateway/passthrough.rs:1276` | With all keys busy the wait is for the permit of the likeliest bounded key; when the request is woken and an unlimited key is selected the permit is taken over, and blocks a place of a key that the attempt does not use. passthrough.rs:1272-1273 says "只有当选出的这把 Key **没有** Key 级并发上限时，permit 里才一定不含 Key 名额" (the permit then surely contains no place of a key). |
| `WaitsEnd` | `CapacityWait` | `CapacityWaits.cfg` with Requests = {r1, r2, r3}, Targets = {t1}, Limit <- KeyLimit, SPECIFICATION FairSpec | `gateway/passthrough.rs:1256` | After the wake-up the key is selected again while the request's own permit makes it look busy; Busy drops the permit and waits again, so that requests waiting for a bounded key are not served while there is another waiter. passthrough.rs:1256-1257 says "唤醒的是**它的**名额，拿到手就能直接用它" and health/mod.rs:1106-1110 "名额是 FIFO 排到的，直接带着它进门才能保证等了 30 秒的请求不会在最后一步被刚到的新请求插队". |
| `BusyIsNotBad` | `KeyChoice` | `Selections.cfg` | `credential.rs:330` | select_key answers Busy only if all enabled keys are busy; a pool with a busy and a bad key is answered Ready(None), which the walk takes for an account without a usable key and drops, while resolve_key reports it busy. credential.rs:237-241 says "所有能用的 Key 都只是\"忙\"。调用方应当**等待**而不是换账号" (all keys that can be used are busy: wait, do not change the account), README.md:74-75 "层内全忙时在本层排队，不降层". |
| `OpaqueIsLatest` | `Walk` | `Requests.cfg` | `gateway/passthrough.rs:1896` | A failure of the credential, and an account without a usable key (passthrough.rs:1040 and 1099), set `last` and leave last_opaque, so that the older 400 is what the client is told. passthrough.rs:1951-1953 says "后面又发生了**别的**失败：之前那个无法归因的 400 不再是本次请求的最终原因" (after another failure the opaque 400 is no longer the reason). |
| `TimeoutIsReal` | `Walk` | `Requests.cfg` | `gateway/passthrough.rs:994` | walk_layer turns Continue of the degraded wait into Exhausted: when the waited-for degraded candidates have all been tried and failed, the walk ends with queue_timeout instead of going down a layer. passthrough.rs:1051-1052 says "返回 `Continue` 表示候选都试过且都失败了，`Exhausted` 表示还在忙但预算已耗尽" and line 894 "层内先耗尽，再降层". |
| `AtMostMaxTargets` | `Walk` | `Requests.cfg` with MaxAttempts = 2 | `gateway/passthrough.rs:1057` | wait_and_run does not look at MAX_TARGET_ATTEMPTS, so every busy candidate that was put aside before the limit was reached is still tried. routing/mod.rs:23 says "失控保护：一次请求最多尝试这么多个目标" (a request tries at most that many targets). |
| `SwitchesAreCheap` | `Walk` | `Requests.cfg` with MaxAttempts = 2 | `gateway/passthrough.rs:1482` | Every attempt, key switches included, is pushed to `attempted`, whose length is compared with MAX_TARGET_ATTEMPTS. docs/账号内Key池设计.md:333-336 says "廉价失败，不计入预算。换 Key 属于同一类廉价失败" (switching keys is a cheap failure and does not count). |
| `PairOnce` | `Walk` | `Requests.cfg` with MaxAttempts = 4, MaxSwitches = 2 | `gateway/passthrough.rs:1459` | choose_next_credential excludes only the key that failed last, and a key refused once is not stopped yet (KEY_INVALID_CONFIRMATIONS is 2), so a third attempt goes out with the first key. passthrough.rs:423-424 says "同一个目标可以换 Key 重试，但同一对组合只发一次" (the same pair is sent to only once). |
| `RefundsAreComplete` | `RateWindow` | `Limits.cfg` | `health/mod.rs:1591` | admit reads the clock before it takes the locks; another request may move the window on in between. The charge then goes to the new span, while refund_at decides by the reading that the old span was charged (and consume_rate's own refund takes from whatever span is current), so that part of a cancelled reservation stays until the window has passed. health/mod.rs:929 says "完整退回本次预留额度" (gives back the whole reservation), line 1195 "任何一级不够就把前面已扣的完整退回". |
| `CompletedStays` | `Background` | `Jobs.cfg` | `gateway/background.rs:519` | cancel looks at finished_at in a row it has read, aborts, and then writes the whole row back without looking again; a commit in between is overwritten, and the client is told cancelled although the task is complete. background.rs:514 says "已经到终态的任务不再取消，避免把 completed 改写成 cancelled" (a task in a final state is not cancelled, in order not to rewrite completed as cancelled). |
| `NobodyPollsForever` | `Background` | `Jobs.cfg` | `gateway/background.rs:532` | cancel and destroy abort the executor first and touch the row in a later await; when the handler is dropped in between (or the statement fails, or a late heartbeat overwrites the row) nobody is left to end the task, and until the next restart it is shown as in progress. background.rs:11-12 says "客户端拿到的是明确失败，绝不会看到永远的 `in_progress`" (never an in_progress that lasts for ever). |
| `NoFinishedHandle` | `Background` | `Jobs.cfg` | `gateway/background.rs:98` | register looks for the id in `finished`, releases that lock and then takes `handles`; finish, in between, finds no handle, and register inserts one because the future is not over before finish has returned. finish then marks the id as finished, and the handle stays in the table. background.rs:96 says "而那时它已经释放了这把锁，所以两者不会同时\"没看到对方\"" (so the two cannot both fail to see each other); docs/2026-10-25_部署-Akhub-v1.1.38.md:30 lists this leak of handles as repaired. |
| `DeletedIsGone` | `Background` | `Jobs.cfg` | `storage/store.rs:729` | The executor's heartbeat and commit write a row they read before, with an upsert that inserts a missing row; a write on its way while the task is deleted brings the task back, as running or with its output. gateway/responses.rs:509 says of DELETE "删除上游（若支持）与本地状态" (deletes upstream and local state) and the answer is deleted: true. |
| `AnswerIncluded` | `ResponseChain` | `HistoryKept.cfg` with Modes = {TRUE} | `gateway/passthrough.rs:3235` | The row of a stream is written at its head, without an answer, and completed by a spawned task; until then, and for good if the process dies or that statement fails, a turn that is replayed from it goes out without the answer it refers to. settle.rs:348 says "宁可由后续引用报过期，也不能保存残缺历史" (rather report an expired reference than keep an incomplete history). |
| `DeletedStaysDeleted` | `ResponseChain` | `HistoryKept.cfg` with Modes = {TRUE}, Deleters = {d1} | `gateway/settle.rs:362` | The task spawned at the end of a stream inserts the row without asking whether it is still there: a DELETE answered in between, with deleted: true, is undone. responses.rs:509 says of DELETE "删除上游（若支持）与本地状态" (deletes upstream and local state). |
| `OwnKey` | `ResponseChain` | `HistoryKept.cfg` with Keys = {k1, k2}, KeysOf <- AllKeys | `gateway/passthrough.rs:2244` | prepare_inner compares the account only, and PinnedRef has no key: the key_id of the row is written and never read, so the id may go out with another key of the account. responses.rs:817 says "上游的 `resp_xxx` 按凭据隔离，续写与生命周期代理必须回到同一把 Key" (the upstream separates ids by credential, going on must return to the same key). |
| `BlamedWereCalled` | `ResponseChain` | `HistoryKept.cfg` with Accounts = Native = {native, other} | `gateway/passthrough.rs:2264` | The attempt that is refused because there is no history fails with ResponseStateExpired and no upstream status, which classify_outcome (passthrough.rs:2849) counts as a fault of the account, though nothing was sent to it. health/mod.rs:231 describes a fault as "连接错误、5xx 或损坏响应" (connection error, 5xx or damaged response). |
| `OneAnchor` | `ResponseChain` | `HistoryKept.cfg` | `gateway/responses.rs:681` | The sticky key of a turn is derived from its reference (sticky.rs:101-112), and previous_response_id is another one in every turn. responses.rs:652-653 says "同一个会话的每一轮必须落在同一个键上" (every turn of a conversation must fall on the same key). |
| `ClearsWhatItRead` | `Sticky` | `Selections.cfg` | `gateway/passthrough.rs:836` | A request that read no binding, or a cold one, clears the key when it decides: the binding that another request of the conversation wrote in between goes. The comment (passthrough.rs:832) says "绑定还在但目标已经不合格：清除" (the binding is still there but its target no longer fits: clear). |
| `ClearsForGood` | `Sticky` | `Selections.cfg` | `storage/store.rs:2537` | save_sticky_bindings only inserts or replaces: a binding that was cleared in memory after a refusal stays on disk until it is older than the TTL, and a restart brings it back. |
| `CoolingIsNotQueued` | `Routing` | `Selections.cfg` | `health/mod.rs:711` | TargetState::check asks the key, its budget included, before the circuit of the target: a target that is cooling with a key at its limit is reported as busy and planned. health/mod.rs:697 says "一个既熔断又满载的目标必须报熔断" (a target that is both tripped and full must be reported as tripped). |
| `UnsupportedIsSaid` | `Routing` | `Selections.cfg` | `routing/mod.rs:859` | resolve_key refuses before the endpoints are looked at, so a request that no target can express is answered with a retryable code, or waits, while the keys are busy or cooling. The comment says that it fails at once ("快速失败"). |
| `BrokenIsFailed` | `Delivery` | `Requests.cfg`, as `Stream!BrokenIsFailed` for the stream part | `gateway/translate.rs:314` | A connection that breaks in the middle of a frame on the same-protocol path: the error frame of the gateway goes through private_stream behind the half frame and becomes a part of it, nobody parses it, and the request is settled as a success. settle.rs:8 says "流内错误走 Fault" (an error in the stream is a fault). |
| `SilentEnds` | `Delivery` | `Requests.cfg`, as `Stream!SilentEnds` | `gateway/settle.rs:160` | settle_stream sees the beats of the gateway as data and starts its idle timer again: a response that was opened for beats alone stays open for as long as the upstream says nothing and the client stays. README.md:296-298 says "开始后改用「流式空闲超时」，默认连续 180 秒未收到数据才结束本轮" (after the start 180 seconds without data end the turn). |
| `OldStaysOld` | `Attempt` | `Attempts.cfg` | `upstream/evidence.rs:42` | The refusals of a model share one date: a new one gives the old ones another TTL, also those that had passed it. The comment (evidence.rs:42) wants a refusal to be forgotten when its time is over although the account is busy ("如果每次成功都给整条记录续期，一条拒绝就永远不过期了"). |
| `ContractKept` | `Attempt` | `Attempts.cfg` | `protocol/anthropic.rs:1141` | The level of the client is folded into one that the model's contract knows, but the level that EffortFacts::plan climbs to is not: on a 4.6 model a refused high goes out as xhigh. The comment says what comes back: "把 xhigh 原样发过去只会换回一个 … 400", and that one is the client's. |
| `AllInPlace` | `Translate` | `Translations.cfg` | `protocol/openai_chat.rs:889` | open_text and open_thinking share one open item: a Chat upstream that reasons and then answers sends its answer as deltas of the thinking item, and text after a call goes to the call's index. canonical.rs:478 keeps each fragment with its item. |
| `AlwaysNested` | `Translate` | `Translations.cfg` | `protocol/anthropic.rs:752` | The emitter trusts the upstream's order: response.created and response.in_progress give two message_start, a Chat text with a call a second content_block_stop, and an upstream that breaks after its end an error after message_stop. The comment at anthropic.rs:752 promises the strict nesting that Messages clients check. |
| `ReasonGiven` | `Translate` | `Translations.cfg` | `protocol/mod.rs:166` | A Messages or Responses upstream that just closes gives a Chat client `[DONE]` and no finish_reason, settled as a success; the comment (mod.rs:166) says a Finish comes before Done. |
| `ErrorIsSaid` | `Translate` | `Translations.cfg` | `gateway/translate.rs:313` | parse_event knows no response.failed, and a last error frame without its empty line is parsed by reader.finish() without frame_error: both end as a normal answer. translate.rs:273: "绝不伪造正常完成". |
| `ImagesKept` | `Convert` | `Translations.cfg` | `protocol/openai_chat.rs:634` | flatten_text keeps the texts of a tool result; its images vanish without a degradation, while degrade.rs:9 lists images among what is never dropped. |
| `AllOptionsKept` | `Convert` | `Translations.cfg` | `protocol/anthropic.rs:430` | A tool's strict, and a ban of parallel calls without a tool_choice, are lost on the way to Messages and not named (degrade.rs:16). |
| `AlwaysAccepted` | `Convert` | `Translations.cfg` | `protocol/openai_chat.rs:560` | A Responses conversation with a message between a call and its output becomes a Chat body with a message between the calls and their results, which Chat upstreams refuse. |
| `TableIsRows` | `Multiplier` | `Jobs.cfg`, as `Market!TableIsRows` for the part "prices" | `app/mod.rs:581` | reseed_multipliers reads the rows and replaces the whole table with them, without the compare-and-swap of put: a refresh that finishes in between is in its row and taken back in the table, until the next round. The comment on put (multiplier/mod.rs:300) describes just that: "先写入的那个账号的新倍率与清掉的 `stale_since` 一起回退成旧值" (the new price and the cleared stale_since go back to the old value). |
| `FailureKeepsPrice` | `Multiplier` | `Jobs.cfg`, as `Market!FailureKeepsPrice` for the part "prices", `Prices` = {3, 9} | `multiplier/refresh.rs:214` | A failed refresh reads the previous entry before it awaits the statement, and puts it afterwards: a refresh that succeeded in between is replaced by the older price, marked as stale. The comment says "保留最后已知值" (the last known value is kept). |
| `RestartIsStale` | `Multiplier` | `Jobs.cfg`, as `Market!RestartIsStale` for the part "prices" | `multiplier/mod.rs:276` | A row with the status known keeps stale_since = None when the table is built from it, so that after a restart an old price counts as fresh until a refresh fails. The comment says "重启后无法确认这个值还新不新，按\"从重启那一刻开始过期\"处理，而不是当作刚刷新过" (not as if it had just been refreshed). |
| `PeakIsKept` | `Multiplier` | `Jobs.cfg`, as `Market!PeakIsKept` for the part "prices", `Peaks` = {TRUE} | `multiplier/mod.rs:282` | seed leaves the peak hours out, and every change of the configuration calls it: until the next refresh the price of the other hours is used. The field's comment (multiplier/mod.rs:74) says "峰值时段。存在时由本地换算当前倍率" (when present the current price is computed from it). |
| `NamesApart` | `Catalog` | `Catalogs.cfg` | `config/mod.rs:414` | build keeps one table of the names already given for all groups: an upstream name that one group's model has taken is not offered in another group. config/mod.rs:76 says "分组是调度硬边界，查找绝不跨组" (the group is a hard boundary, a look-up never crosses it). |
| `KeysStayDead` | `Catalog` | `Catalogs.cfg` | `config/mod.rs:290` | reload reads the tables and stores the snapshot without a lock: a reload that read before a key was regenerated may store its snapshot after the one with the new key, and the old key is valid again until the next change. resources.rs:756 says "旧 Key 在配置切换的那一刻立即失效" (the old key is invalid from the switch on). |
| `NoStrays` | `Catalog` | `Catalogs.cfg` | `discovery/mod.rs:322` | delete_model deletes the row and the target in two statements: a crash or an error in between leaves a target without a row, which goes on serving, and no later start removes it; so does remove_missing, and a deletion in apply_changes. A manual refresh of a managed account leaves one in any case, until the next sync: the row of a model that nobody chose and that is not offered any more goes, its target stays. discovery/mod.rs:192 says of the refresh "目录是唯一真相：刷新后把目标调和到目录状态（别名变化、消失/重现都在这一步收敛）" (the catalogue is the only truth: the targets are reconciled to it, models that vanish or come back included). |
| `UsageArrives` | `Translate` | `Translations.cfg` | `protocol/openai_chat.rs:854` | A Chat upstream sends its usage after the chunk with the finish_reason and the events come in that order; the emitter of Messages gives the usage with the finish, so that the client, and the accounting that reads the client's stream, do not see it. canonical.rs:480 says "`Usage` 若出现，保证先于 `Finish`" (the usage comes before the finish). |

## 4. What is proved

With TLAPS, for every value of the constants that satisfies the module's named ASSUME.

| Theorem | Statement | Argument |
|---|---|---|
| `HealthProofs!Typing` | `Spec => []TypeOK` | inductive as it is; the arithmetic is in `AdjustmentBounds` and `RestorationBounds`: only idle permits are forgotten and no capacity reaches 0 |
| `HealthProofs!TrialsHaveOwners` | `Spec => []NoOrphanTrial` | `NoOrphanTrial` alone is not inductive: a settle frees the places on the objects its attempt is still attached to. Strengthened by `Attached`: trials are only on attached objects, and permits are held only between taking and returning them. Each action is shown to keep the owner's flag or to end with the place free (`StillOwned`) |
| `HealthProofs!PermitsAreConserved` | `Spec => []PermitsConserved` | the same invariant; cardinality of the holders changes by one with each permit |
| `HealthProofs!LoweredLimitsBind` | `Spec => ShrinkLeavesNoIdle` | action property: a change of the limits forgets idle permits first, so idle ones remain only where as many are free below the new limit |
| `LimitsProofs!Typing`, `NoPlaceIsLost`, `OnlyFullRefuses` | `[]TypeOK`, `[]PlacesNeverLost`, `RefusedOnlyWhenFull` of `Queue` | `IInv == TypeOK /\ Placed /\ PlacesNeverLost`; `Placed` ties the calibration lock to the caller between swap and change |
| `LimitsProofs!PermitsStayConserved` | `LimitsSpec => []PermitsConserved` | the theorem of `HealthProofs` (taken by INSTANCE) for the budgets, and for the waits the invariant `WaitInv`: nobody stands twice in a line or in a line for what he has (`InLine`), and a request has in hand what its place says (`InHand`). Without `InLine` a wait that is dropped could be counted twice |
| `LimitsProofs!ShrinkingBinds` | `LimitsSpec => ShrinkLeavesNoIdle` | for both parts, from the same invariants |
| `LimitsProofs!LimitsAreKept` | `LimitsSpec => LimitsHold` | the refinement: `CapacityWait` implements `Concurrency`. At first nobody runs; a step changes `pc` of one request (`OneWalks`), and one that begins an attempt holds a permit of every bounded level (`InHand`), so that by conservation there is room below each limit (`RunsWithin`); the other steps end an attempt or stutter |
| `RequestProofs!WalkIsOrdered` | `RequestSpec => []Ordered` | `Kept`: the pending and the busy candidates are of the current layer and stage (`Places`) and apart from those sent to (`Apart`); the candidates of earlier layers and stages are settled, those of this one settled or pending (`NoneSkipped`); a target's sends are bounded by the key switches so far (`Counted`) |
| `RequestProofs!RequestsTyped` | `RequestSpec => []Typed` | the types of walk and delivery; a frame's number needs that it was sent |
| `RequestProofs!StreamsHaveOneVoice` | `RequestSpec => []OneVoice` | `StreamInv`: while nothing was committed nothing is out, an error event is the last that an upstream sends and the last that is relayed, and after an error the stream takes no more input. `RelayGives` says what one passage through the layers adds |
| `RequestProofs!StreamsLoseNothing` | `RequestSpec => []NothingLost` | `Delivered`: for some number c the client has what it is to get of the first c frames, what is held beyond the cursor tells of the frames from c + 1 to the last that has come whole, each once and in order (`Row`), half a frame waits in the sniffer's buffer while beats are sent, and an upstream that has ended left nothing out unless an error was told. Each passage moves c on by the row it passes (`ChunkRow`, `RelayRow`, `GivenRow`); at the end c is all, and of two rising sequences with the same numbers the one is a prefix of the other (`RisingPrefix`) |
| `AttemptProofs!ShapesGoOnce` | `Spec => []SentOnce` | `Sending` says it of the endpoint at hand, and a retry looks at what went out to it before |
| `AttemptProofs!NoFalseRefusal`, `LadderFindsTaken` | `[]TakenIsNotRefused`, `[]TakenIsFound` | `AttemptInv`: the facts never hold a level for taken and refused, nor one for refused that the upstream always takes (`Known`); the shapes that a request sent before the last one are among the refused ones unless facts were forgotten meanwhile (`Climbs`). A refused request then has a level left that it did not send (`NeverOut`); this is a pigeonhole and needs `MaxLevel < MaxRetries`, a retry for every level as in `passthrough.rs:70` |
| `AttemptProofs!EndpointsAreInOrder` | `[]EndpointsInOrder` | `InPlace` of `Holds`: no endpoint that is worse than one the request was not refused yet. The order of the choices is that of six classes (`Keep` of each, one after the other), so the class of an earlier endpoint is not higher |
| `SelectionProofs!MovesHaveCauses` | `SelSpec => MovedForCause` | `BindingsInv`: besides the types, a request that looks through the layers anew has a cause to (`Caused`): its binding was none or a prefix's, gone from the plan, cold, unfit or escaped from. The cause is fixed when the request decides and the binding is written only when an attempt succeeds, so the two must be tied by an invariant |
| `SelectionProofs!GatesAlwaysHold` | `SelSpec => []GatesHold` | the types are inductive; the gates follow for every target from the order of the checks, in particular for a busy one (`PlannedPass`). A target that would be planned if it were well is refused for what may end (`WellIsEnded`), and such a reason goes before the final ones (`MixedIsNotFinal`) |
| `SelectionProofs!FadedTargetsComeBack` | `SelSpec => FadedIsRetried` | `ScoreInv`: what a target weighs is bounded by the samples there were, a number that only grows, and what is on disk was known in memory and has no fresher evidence than that there (`NoFresher`), so that a restart does not make anyone look better known. Halving is a recursive function: that it is monotone, goes on where it was left and shrinks is proved over sets of numbers (`HalvedUnfolds` to `HalvedShrinks`). The rest is arithmetic: a faded target is cold, so that it scores neutrally and has the whole floor of exploration, and the other one weighs at most the eighth power of the best score and a floor (`CandidateWeight`). That a restart adds no evidence is an action property of the same invariant (`RestartKeepsDoubt`) |
| `SelectionProofs!Typing`, `BindingIsKept`, `OnlyFreeDrawn` | `[]TypeOK`, `[]BindingKept`, `[]DrawsFromTheFree` of `KeyChoice` | hold in every well-typed state; lemmas about the answers |
| `JobsProofs!Typing` | `Spec => []TypeOK` | inductive as it is |
| `JobsProofs!AnsweredStops` | `Spec => []AnsweredIsStopped` | `Safe`: a known id is in the table while its executor calls (`Tabled`), an id in `finished` belongs to an executor that is through (`Through`), a finished row or a finished copy in a heartbeat means aborted or through (`Final`), and a handler past its abort has stopped its task (`HandlerInv`). Without `Through` the double look of `register` proves nothing; without `Final` a cancel that finds the row finished does not |
| `JobsProofs!ResultsAreKept` | `Spec => ResultsKept` | action property; `Told`: a task whose row is finished was touched by a handler or its executor will not write again (`AtRest`), and a row not yet inserted has no executor, so no late write replaces a verdict; that an output survives is the own `OR` of the upsert |
| `JobsProofs!GraceAlwaysEnds` | `JobsSpec => []GraceEnds` | `PriceInv`: the entry knows since when its price is stale, a history variable since when it could not be confirmed, and the first is at most the time of one refresh later than the second (`SinceLost`). A failure is read before its row is saved and put afterwards, so the same must hold of what every refresh under way is going to put, whatever others put meanwhile (`Late`), and of the rows an edit has read (`EditorTyped`: they are not from the future) |
| `JobsProofs!ChainsTyped`, `NeverSentAsNew`, `SentHome`, `NothingKeptAgainstWill` | `JobsSpec => []Chains!TypeOK`, `[]NeverAsNew`, `[]HomeOnly`, `[]Chains!NotStored` | `ChainInv`: a row is there only when its id was shown and has its own turn's parts only (`RowOf`); what a turn took from the row it refers to agrees with that response (`TurnOf`). No property alone is inductive, not even the types: a row needs the account that `TurnOf` remembers. Once an id was shown, where it was made and what was said stay (`Stays`), so a step of one turn cannot harm the others (`OneTurn`) |
| `JobsProofs!RecordedBeforeShown` | `JobsSpec => []RecordedFirst` | the same invariant: a turn whose record is over, and from then on one whose id is out, has a row or an absence with a cause (`Written` of `RowOf`). A step of the walk that begins again takes both back (`HeadFailsKeeps`), a delete or an expiry of another handler leaves a cause (`GapsAre`) |
| `TranslationProofs!TranslationKeepsOrder` | `Spec => []TranslationInv` | the invariant of the translated streams, of which the two properties below follow. `Told`: the events and frames on their way come in one order, and reason and end are told once. `Counted`: each fragment the upstream sent is somewhere on its way. `Numbered`, and `Numbers` for Chat: which item an index belongs to, from the upstream's list of items through the parser's slots and the emitter's to the client's. The rest (`Neat`) holds while the upstream sends its items one by one. `OneStep` says of each action what it leaves of the records of parser, emitter and client, so that the preservation of the parts does not look into the operators again |
| `TranslationProofs!StreamsAreWellFormed` | `Spec => []WellFormed` | `Nested` alone is not inductive: what the client may accept depends on what is open in the parser, in the emitter and with the client, and on what has been read and not been told yet. `Neat` ties the three together: the item that is open in the emitter is open with the client as soon as the wire is empty (`Entering`, `Within`), and it is the one of which the upstream speaks (`IsNow`, with `ByNumber` for upstreams that number their items and `BySlot` for Chat) |
| `TranslationProofs!StreamsKeepFragments` | `Spec => []FragmentsKept` | that no call gets a part of another one is `Placed`, `InPlace` and `InSlots`, for every mixture of calls; that nothing vanishes is `Counted` when the stream is over; that the closing frames are whole is a balance, `Balance`: what the client found in closing frames, what a closing frame on the wire holds and what the emitter keeps for the next one make what the client got in pieces |

`SubsequenceProofs` says what `Keep` does for every list: it picks the members of the set and no
other element, in their order (`KeepPicks`, `KeepElements`), and one element more in the list is one
more or none in what is kept (`KeepUnfolds`). Induction over the length of a list is done in a set
(`Induction`: a set of numbers that has 0 and with n also n + 1 has them all), which follows from the
library's facts about finite sets; the library's own induction theorems take an operator.

Assumptions that the theorems use beyond the types of the constants: `AttemptAssumption` asks for
`MaxLevel < MaxRetries` and that leaving out a level is none; `StreamAssumption` (`MCRequests`) that
the timers and bounds are numbers, that there is a first target and that `None` is not a frame;
`LimitsAssumption` (`MCLimits`) what its parts
ask of theirs; `SelectionAssumption` (`MCSelection`) that the bounds are numbers, the one request of
the jobs' part is one of the two, `None` is no record of statistics, and what `Score` asks
(`ScoreAssumption`: rates and latencies are within their scale of ten; `FadedAssumption`: after `Faded`
half-lives the most that can be gathered is an eighth of what is needed, which is what `Faded` means); `JobsAssumption` (`MCJobs`) that no grace period is longer than that of
a systemic failure (`multiplier/mod.rs:20-26`), that the ladder of waits has a step, that accounts
with automatic prices exist as a mode, and of the chains of responses
that what is native is an account and that `None` is no account and no key; `TranslationAssumption`
(`Translate`) that there is a road, that the two ends of a road speak different protocols
and that the bounds are numbers.

Only model-checked:

- all liveness (`WaitsServed`, `ShutdownEndsWaits`, `Ends`, `PolledTasksEnd`, `BrokenIsGone`,
  `DeadTargetsForgotten`): it rests on fairness, which the prover does not reason about;
- `Convert` (`BodiesKept`, with the types of the bodies): it folds over the entries of a body, and what a fold computes for every
  list needs an induction over data. Of `Translate` everything
  that the run checks is proved, of `Spec`, which is the half of `MCSpec` that has the streams; note that the order of
  the frames in `WellFormed` and the closing frames in `FragmentsKept` are stated for upstreams that
  send their items one by one (for the others see `AlwaysNested` and `AllInPlace` in section 3);
- `RateWindow` (`SpreadAtBoundary`): the charges of an interval are a sum over a set of requests, by a
  fold, and the estimate multiplies counts by ages, both variable. The statement also needs steps that
  are held up by one tick at most: with two, a request may be charged to a span that began after it and
  escape the weight of the span before the last one (found with 4 requests, spans of 2 ticks, `MaxTime` = 4);
- `Catalog` (`GroupsIsolated`, `InLine`, `ChoicesKept`): the lists of models and targets are filtered
  by operators as parameters, and `InLine` speaks of operations as a whole, with what each one read.

## 5. Abstractions and bounds

- Time: in `Health` a cooldown is none, running or expired, and `Slid` may empty a circuit's window at
  any moment; the lengths of cooldowns and back-off are not modelled. `RateWindow`, `Sticky`,
  `Multiplier`, `Score` (in half-lives) and `Delivery` have ticks; in `Delivery` time is urgent, it does
  not pass beyond a timer that is due.
- Semaphores are numbers in `Health` and `Queue`, where nobody waits on them, and first-come
  first-served queues in `CapacityWait` (tokio's semaphore is fair).
- `Unlimited` in `Health` is a number above every limit, as `UNLIMITED` in the code.
- The account's own circuit is not modelled: it trips only for an admission without a key, and
  every caller admits with one.
- `Walk` does not know why a candidate is busy, and takes the plan as given.
- `Delivery`: a frame has a number and a kind, and at most two pieces; the aggregation of a stream
  for a client that wants one body is left out.
- `Translate` and `Convert`: a fragment, a part or an option is an element of a small set; images of an
  answer, citations and the wording of errors are left out.
- `Sticky`: a key is one of the kinds `derive` makes; what the plan says of the bound target is an
  input. A late success writes the time at which its request began, as the code does. The run has one
  key, so that an eviction never happens in it.
- `Multiplier`: prices in tenths of the group's limit, one account with a threshold of one for
  several with a threshold of several; the chunks of a round, the cap on accounts that are probed at
  once, deletion of accounts, calibration and display fields are left out.
- `Catalog`: the configuration's version number, the optimistic lock of edits, uniqueness of account
  names, keys, credentials, prices, limits and priorities, audit records and the table of aliases
  are left out, as is the refusal to select a model that needs a confirmation and the legacy aliases in a
  merge; the two reads of `cleanup_model_if_empty` are one step; the boot is one step. `trust` says of
  which accounts `InLine` speaks. `lines` leaves out those that the administrator changed by hand past
  the catalogue, that met another operation (all accounts are out then), that were switched to managed mode
  and wait for their next sync, or to which an alias for a model that is not listed was added beside a
  target without a row; an undisturbed reconciliation brings an account back, a start all of them.
  `whole` leaves out those whose deletion of rows was cut short and managed ones after a refresh; a sync
  brings them back.
- One step where the code takes several locks or awaits: `Health.Calibrate` reads the effective limits and
  adjusts three budgets (the properties are about one budget each); `Health.KeySettled` gives the key's place
  back and notes the verdict in it; `Sticky.DeleteTarget` deletes the row and publishes the snapshot.
- `Circuit.Escalated` stops at `MaxLevel`, where the code goes on counting and `backoff_for` takes 6 at most;
  `Background.Committed` always stores an output, where an output that cannot be sealed is left out.
- `MaxLevel`, `MaxSamples` (`Circuit`, `Score`, `Attempt`), `MaxEdits` (`Queue`), `MaxTime`, `MaxLag`, `Tokens`
  (`RateWindow`), `Plans`, `Bindings` (`CapacityWait`, `Walk`), `Handlers`, `MaxFaults`,
  `MaxCrashes` (`Background`), `MaxTurns`, `Deleters` (`ResponseChain`), `LimitChoices`, `Reported`
  (`Health`), `MaxArrivals`, `Sizes`, `MaxRestarts`, `MaxChanges` (`MCSelection`), `MaxFrames`
  (`Delivery`), `MaxPieces`, `MaxItems`, `MaxEntries`, `MaxCalls` (`Translate`, `Convert`), `MaxEvents`,
  `Slow` (`Multiplier`) and `Scenes` (`Catalog`) bound what is unbounded or open in the code. The proofs
  hold for all values of the constants of their modules.

Further behaviour of the code that a reader of the models should know, as they have it:

- `Sticky`: the first binding of a key counts as a migration, so its cooldown begins at once; two
  requests that decide at the same time may both migrate within one cooldown; restoring does not look
  at `MAX_BINDINGS`.
- `Catalog`: the stated invariant `InLine` is about undisturbed operations, and the scene with two at once checks the snapshot's isolation only. When operations overlap, a
  sync that finishes after an account left managed mode puts its models back; a refresh overwrites a
  selection made meanwhile; a clean-up cascades over a target another account has just added; an edit
  writes the whole row it read; the optimistic lock is looked at and used in two steps. Automatic models
  without targets stay, after `delete_target` and `delete_account`, until the next reconciliation.
- `Multiplier`: a round whose only accounts are in back-off can declare the probes broken.
- `Health`: a target in its half-open trial has no remaining cooldown, so the requests beside the
  trial are refused at once instead of being told when to come back.

## 6. Not modelled, and the plan

| Part | Why |
|---|---|
| image tasks | one request forwarded and polled; its waits and failover are those of `Walk` and `CapacityWait` |
| recorder, live statistics | a bounded channel to a writer; only displays read it. The roll-up takes the last full minute by the time a request began, so a record that is written later is not in it: a fact about two queries and not about steps |
| sessions, login limiter | a table behind the administration interface, independent of requests |
| self-update | I/O with the file system and the process manager |
| retrieval and the proxied cancel of a native response | change no state here |
| validation, listings, backups, settings of the administration; migrations | SQL and input checks without order |
| security helpers, domain types, gateway surface | pure functions, cryptography, error shapes |
| HTTP client, probes, fixed-point arithmetic of prices | I/O and a calculation whose result is an input of `Multiplier` |
| desktop shell, web interface | a window and pages over the administration interface |

What is left is proving, as far as the prover reaches: the window lemmas of `RateWindow`
(`SpreadAtBoundary`) and `GroupsIsolated`, `InLine` and `ChoicesKept` of `Catalog`.
