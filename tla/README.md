# A verification of jumpgate

TLA+ models of jumpgate's own protocols, checked by TLC on small instances and
proved with TLAPS where a proof reaches. Every definition translates code under
`src/`; `PROJECT.json` (`map`) names the lines each one stands for.

Jumpgate manages Ethereum node boxes. A *controller* (the server behind the CLI,
TUI and web UI) sends signed *intents* to an *agent* on each box; the agent
checks them and runs service actions and long *durable jobs*. Beside this, a
*relay* meters RPC traffic against credits held by a *billing* service.

## 1. Inventory

| component | state it keeps | operations | talks to | what is hard | what makes it correct |
|---|---|---|---|---|---|
| Durable-job engine (`internal/jobs`, `internal/joblog`) | per job: manifest, signed append-only log, result files; the lease | Start, Lease, Advance, Decide, Reconcile, Prune, job-abandon; `agent job-step` in a unit of its own | the agent's dispatch (calls under one mutex), systemd (units), the step processes (files) | every change is a log line and then a manifest save: crashes, failed writes and power cuts between them; units that outlive the agent; two writers of one directory | a step acts only in its turn, once per attempt, again only after an answer; log and manifest agree; one unfinished job per box |
| Migrate-names plan (`jobs/migratenames.go`, `marker.go`) | accounts, paths and units of a node under two names; node.json and three markers | eight steps of shell commands | the job engine, systemd, controllers that pair again | each step interrupted between any two commands, retried, aborted, or finished by a later job | the node never runs beside its data; a job that ends well leaves nothing half switched |
| Agent admission (`internal/agent`) | per controller: last sequence number, unexpired nonces (on disk), the claim | Handle: parse, time window, signatures, policy, claim, replay record, dispatch | controllers over HTTP, policy file, the jobs | a crash between recording and executing; concurrent intents; clock skew | no intent runs twice; tiers are covered by distinct signers |
| Agent dispatch and job loop | none of its own | service actions, job intents, 5 s reconcile loop | the job engine, systemd | a service action while a job owns the services | actions refuse while a job is unfinished |
| Job driver (`server/jobs.go`, `jobsdrive.go`) | per target and job: one driver goroutine; claims of targets | drive, stop, sweep, advance, renew, settle | agents through intents, setup and wipe in the same server, the vault | two drivers, a lost reply, a stale record, a lock between two looks | one driver per job; a job at a boundary goes on; jobs and setup exclude each other on a target |
| Relay credit lease (`relay/credit.go`) | per account: available, reserved, spent, a pending settlement | Spend, Settle, SettleAll | billing | a lost reply of Reserve or Settle, retries, shutdown | no credit is spent twice or created |
| Billing ledger (`services/billing/src/store.rs`) | accounts: remaining, reserved; settlement log | reserve, settle | relays | retried settlements, a pruned log | conservation; a settlement applies once |
| Relay subscriptions (`relay/streams.go`, `head.go`) | per chain: a poll loop and its subscribers; the head | Subscribe, detach, retire, Stop, poll | WebSocket clients, upstream nodes | attach against retire; full queues; reorgs | no subscriber on a dead loop; no block twice or skipped silently |
| Relay admission and routing (`ratelimit.go`, `policy.go`, `route.go`, `cache.go`, `billing.go`, ...) | token buckets, daily counters, price and key caches | Allow, Price, Lookup, route | billing, upstream nodes | eviction at the table's limit, midnight, stale prices | a key gets at most its quota |
| Vault and secret migration | key slots over one encrypted file; plain secrets still on disk | unlock, add and remove slots, migrate | the server | a crash between two writes | a secret is always readable somewhere |
| Configuration, daemon discovery | one file under a lock; a lock and a published address | load, merge, save; start, find | CLI, TUI, server | two processes at once | no lost update; one server |
| Watch and log watch | per rule: streaks and the last alert | poll, evaluate, deliver | boxes, notifiers | missed and repeated polls | an alert fires and clears once |
| Setup, gateway, operations; server API; catalogue; user interfaces | little of their own | scripts over SSH, HTTP handlers, tables, rendering | the rest | I/O | -- |

`PROJECT.json` lists each of them with its sources, and the hazards with their lines.

## 2. Plan

Modules, most important first; a module marked * is written.

1. `JobLifecycle`* (abstract) and `DurableJobs`*, which implements it;
   `DurableJobsSafety`* proves it safe, `DurableJobsHistory`* that its log tells the truth and that it implements `JobLifecycle`.
2. `CreditLedger`*: relay pools, billing ledger, lost and late calls, relay
   restarts; `CreditLedgerProofs`* proves the ledger sound, reports frozen, and
   what adds up over the relays.
3. `Turnstile`* (abstract) and `IntentAdmission`*, which implements it: the
   client, the network and the gate. `BoxControl`* composes it with the servers'
   claims and the box's job; `BoxControlProofs`* proves the refinement and the
   exclusion, `BoxControlHistory`* what holds of nonces and retries.
4. `HeadPoller`* and `RelayStreams`*, which runs it: a chain's poll loop and its
   subscribers; `RelayStreamsProofs`*.
5. `MigrateNames`*: the one plan the job engine runs; `MigrateNamesProofs`* proves
   its safety.
6. `JobDriver`*: the controller that drives a job on a box it shares, and its
   listings, sweeps, vault and stop; `JobDriverProofs`*.
7. Not begun: secret migration, daemon discovery, the rate limiter, the vault's
   slots, the watch rules.

No theorem is planned beyond those proved: every invariant and action property of a
passing run has one.

## 3. The durable-job engine: `DurableJobs`

### Correspondence

| variable | code |
|---|---|
| `file` | whether the job's manifest exists; `orphan` is a directory Prune has begun to remove |
| `man` | the manifest on disk (`Manifest`); `fresh` is `LeaseFresh` at this moment, `loglen` the manifest's count of its log |
| `log`, `torn` | `log.jsonl`: entries reduced to kind, unit, question, controller and outcome; `torn` says the last line does not parse |
| `active`, `results` | systemd's view of `UnitName(id, step, attempt)` and the result file of that attempt |
| `begun` | history: the attempts whose step function has been called |
| `lock`, `todo` | the operation under `Manager.mu`, and the `Append`s it still has to make |
| `up`, `knows` | the agent runs; its build knows the job's plan |
| `faults` | bound |

An operation is the action that checks the request and writes the first log
line, then `SaveManifest`, `WriteEntry`, `SaveManifest`, ... until its `todo` is
empty: this is `appendLocked`, which writes the line, then saves the manifest.
What an operation will write is fixed when it starts, because nothing that runs
beside it (units, the clock) is read again later, save for Advance, which looks
at its unit after it is saved (`StartUnit`, `RefuseStart`, `StartFails`,
`StartUnclear`). A crash, a failed write or a power cut may come between any two
writes. `Start` is Create: manifest, then entry 0, then the manifest again.

`Adopt`, `Refold`, `Reapply` and `AppendTrailing` are what `Load` and
`restoreTrailing` do at the head of every operation; the operations are enabled
only where these have nothing left to do, so a repair is never skipped. `Lease`
on a build that does not know the plan repairs less (`LeaseReady`), as the code
does.

Left out: question tiers and prompts, what a step does to the box and its
inputs, digests and signatures (they are checked to agree; a disagreement is
`torn`), read-only requests, and retention (Prune may take any finished job).

### Bounds

`AttemptBound` stops retries, `LogBound` stops new requests on a long log,
`MaxFaults` counts faults. `MaxAttempt` is 9999 in the code; the runs make it 0 or 1 with
`AttemptBound` at least as large, so that an attempt too large for a unit name happens.
Two faults (`jobs_lease`, `jobs_box`) are enough to interrupt an operation and then its
repair; `jobs_steps` has longer plans, retries and liveness, and one fault. Its log has
room for attempt 2, which no unit name holds there, before any fault, so that every cut of
such an attempt's start and of its question happens. A log of
nine to fourteen entries holds a failed attempt, its question and answer, a
second attempt and the lease changes between them.

### Runs

| run | instance | what it shows |
|---|---|---|
| `jobs_steps` | 1 job, 1 controller, 2 steps, 2 retries, a fault of 6 kinds, fairness | `UnitsInTurn`, `AttemptsEarned`, `NoSecondStart`: which process may act, and when; `LogTrue`: what the log says; `StepsFold`: a step that ended is folded, and one that no unit name holds is asked about; `GapsClose`: a change that stopped partway is finished |
| `jobs_lease` | 1 job, 2 controllers, 1 step, builds that know the plan or do not, torn lines | `CustodyLogged`, `NothingAfterFinished`, `OutcomeOnce`, `AnswerDelivered` |
| `jobs_box` | 2 jobs, job-abandon | `OneUnfinished`, `OneStepOnBox`; `LifecycleSpec`: the manifests on disk and the units implement `JobLifecycle` |
| `jobs_torn` | small, 2 jobs | a disagreement between code and comments, below |

Symmetry (controllers in `jobs_lease`, jobs in `jobs_box`) is used in safety runs only. Deadlock is
not checked: a box whose jobs are finished and pruned has nothing left to do.

`JobLifecycle` is what a reader of the controller may assume: a job waits, runs,
asks, ends; only the standing attempt of the one running job acts; only an
answer attempts a step again. It has no storage, so the refinement says that
every crash, failed write and repair is invisible but for delay.

### Fairness

`FairSpec` asks weak fairness of the restart of the agent (the unit has
`Restart=on-failure`, `src/internal/bootstrap/unit.go`), of the writes of an operation under way and
of the launch (straight-line code under the mutex), and of a unit that runs
(it begins, refuses or ends: a step that never ends is not claimed to be folded).
Reconcile gets strong fairness: it runs every five seconds (`RunJobs`), and Go's
mutex hands itself to a waiter that has waited a millisecond, so requests
cannot keep it out for good. No fault is fair. With two faults `StepsFold` fails, as
the code says it does: a result file lost (`vanish`) after a fold whose manifest
save failed cannot be read again and stops its job (`manager.go:566-568`).
`StepsFold` has two parts. For an attempt no unit name holds, `Runner.Active` errs on the
name (`runner.go:98-101`) and a pass leaves the job alone (`manager.go:529-532`), so
`UnitEnded` never holds of it: `EndedFold` is about the other attempts. `LimitAsks` says
that this one is asked about as failed, also when the asking is cut off and repaired,
and excepts the job cut off before the first line that says its attempt failed
(`Stranded`).

### Where code and comments disagree

`jobs_torn` is a finding with a run of its own: a half-written line that cannot
be cut back makes the job damaged, which counts as finished, while its step
runs; a second job starts.

Four more come out of the same module when `jobs_torn.cfg` is given other
constants and another invariant (one job and controller, one step, `AskKey` empty):

* `Fault = {"crash", "fail", "abandon"}`, two faults, `NothingAfterFinished`:
  job-abandon stopped between its entry and its manifest leaves `job.finished` in
  the log of a job that goes on (`abandon.go:71`; `restoreTrailing` has no case
  for it, although "Every operation runs this before it writes", `manager.go:719-732`).
* `Fault = {"fail"}`, one fault, `FirstEntryCreated`: Create stopped before entry 0
  leaves a waiting job whose log does not begin with the request that created
  it (`store.go:187`), which "the log's first entry proves" (`manager.go:153-155`).
* `Fault = {"crash", "fail", "replan"}`, two faults, `LogBound` 11, `AnswerOnce`: an
  agent that does not know the plan appends a lease change after an answer that
  was logged but not saved (`manager.go:253` looks for outcomes only, and
  `restoreTrailing` with no plan passes the answer over); the question stays
  open and is answered again, though "a gap is closed before a new entry could
  hide it" (`manager.go:731`). `LogTrue` therefore is checked without `replan`.
* `Fault = {"fail"}` or `{"crash"}`, one fault, `MaxAttempt` 0, `LogBound` 10, `FairSpec`,
  `AsksLikeAnyOther`: Advance saves the job as running and only then checks the attempt
  (`manager.go:352-360`). Cut off in between, or when the first line of the question
  cannot be written, a job whose attempt no unit name holds runs for ever, and no
  other starts before job-abandon ends it. Any other step that could not start is
  folded as lost; the comment says that this one "asks like any other step that
  cannot" (`manager.go:356-358`).

## 4. Credits: `CreditLedger`

One account, any number of relays. Accounts share nothing (each has its own
pool, mutex and row), so one stands for all.

| variable | code |
|---|---|
| `pool`, `pending` | `creditPool` and its `pending` report (`relay/credit.go`) |
| `sent`, `cost`, `answer` | the call to the ledger a relay waits for while it holds the pool's mutex, the price of the request that made it, and the HTTP answer on its way |
| `stray` | calls a relay gave up (cancelled, timed out, or the relay died) that may still reach the ledger, in any order, or never |
| `account`, `applied` | the `account` row and `settle_log` (`services/billing/src/store.rs`) |
| `books` | history: credits served, charged, moved by hand, and whether a relay died |

`Spend` is `SpendLocally`, or `Lease` and then `Granted`; one pass of `settle` is
`Settle`, and `Settled` for each answer, which freezes the next report in the
same step when the pool was used since, as the loop under the mutex does. Each
ledger call is one step, `Answered` or `ArrivesLate`: SQLite runs it as one
statement or one transaction. A 500 or a 400 is a `GiveUp`.

An operator's `Reconcile` is the one action outside the code; a comment
(`relay/credit.go:213-216`) expects it, and only it makes a 409 reachable.

The settle log is pruned after seven days; the model deletes an entry when no
report with its id is pending or on its way. That reads the comment on
`SETTLE_LOG_RETENTION_SECS` ("No relay retries a settle for anywhere near this
long") as an assumption: the relay's own loop has no such limit.

Bounds: `MaxFaults` counts calls given up, crashes and reconciliations;
`SettleId` is the number of ids in use at once. `credit` has two relays, one
fault, a fund of 2, blocks of 1 and costs 1 and 2, so that a request may exceed
a block, a grant may be partial, and two relays compete for the last credit,
with a ceiling of 1 and without.

| run | what it shows |
|---|---|
| `credit` | `LeasesHeld`, `ServedWithinFund`: no credit is lent to two relays or served beyond the fund; `ChargedOnce`: nothing is charged twice, nothing is free unless a relay died or an operator moved reserves, and only the latter has a report refused for good; `LeasesReturn`: leases come back however busy the pool |

Fairness: the settle timer ticks for ever, and Go's mutex serves a waiter in
the end, so `Settle` is strongly fair; a call that is not given up is answered.
Customers, faults and late arrivals are not fair.

Not modelled here: top-ups (no code adds them yet), prices (`priceOf` is
positive), several accounts, exempt and unbound keys.

## 5. Intents and the box: `IntentAdmission`, `Turnstile`, `BoxControl`

Several controllers, one gate (the agent), a network that loses, delays and
reorders requests, and anyone who can show the gate a captured envelope again.

| variable | code |
|---|---|
| `signed`, `next`, `left` | the envelopes a controller has signed; `AgentPairing.NextSeq` in its config file; how many more it may sign (bound) |
| `call` | the one call of `agentclient.Client.send` that `intentMu` lets through: ready, sent, answered, done |
| `net` | envelopes posted and not yet read; a lost one stays for ever |
| `handling`, `busy` | the `Handle` calls under way and the claim of each controller |
| `disk`, `mem`, `loaded` | `replay.json`, `Replay.st`, and whether the record could be loaded |
| `ran` | history: what ran, in order |
| `claims`, `task`, `listed` | the three claims on `targetEntry`, where each server's handlers are, the last `job.list` answered |
| `job` | the box's unfinished job and who started it (`DurableJobs` says how it ends) |

`Arrive` is Handle up to the claim; its earlier checks (signatures, tiers, the
time window) refuse without a change and are one guard. `Reload`,
`AdmitRefused`, `Admit`, `AdmitUnsaved` are what happens under the claim, and
`Run` is the dispatch and the answer, which reaches the caller only if the
caller still waits. The gate and a server may stop between any two of these.
`Statuses` keeps of a receipt what the client branches on. reset-replay, which
announces that it reopens the replay window, is left out. `BoxControl` drives
the calls: a job start under its claim, or an SSH task that claims, lists the
box's jobs, and acts only on an answer that names none. (It also acts where the
box answers that it runs no jobs at all, `runsNoJobs`; the modelled box does.)

`Turnstile` is the abstract promise: the intents of each controller run in
strictly increasing order of their numbers, each signed first, so none twice.
`TurnstileSpec` is the refinement (`INSTANCE` with the same names for `signed`
and `ran`).

Run `control` (1.2 million states): one controller with three envelopes or two
with one each, one fault (a crash of the gate, a server's restart, or a failed
save of either side), a clock of two instants, `Lifetime` and `Skew` 0 so that
expiry happens. Three envelopes are the least that let a late start arrive
between a listing and the SSH work that follows it, and that make a stale
answer, its retry and one more call. It checks `TurnstileSpec`;
`NonceOutlivesIntent`: the nonce of what ran is kept as long as the clock would
admit it, so a replay is refused even without the number; `OncePerCall` and
`RetryNeverStale`: the one retry after stale_seq is enough and repeats nothing;
`NodeExclusive`: a server never works on a box over SSH beside an unfinished job
*it* started, although the start's caller may have given up. Jobs started by
another server are not excluded by the code, which can only list them once, and
are not claimed. Deadlock is not checked: when the envelopes are spent the
system stops.

## 6. Subscriptions: `HeadPoller`, `RelayStreams`

One chain of the relay: the poll loop its subscribers share, their queues and
senders, and the head poller read by read.

| variable | code |
|---|---|
| `chain` | the branch the upstream holds; a block is the sequence of choices that leads to it, so parents and ancestors are prefixes, as a hash commits to them |
| `window`, `last`, `primed`, `poll` | `HeadPoller`'s fields, and where Poll is with its locals; each upstream read is a step |
| `loops`, `running` | how many loops were started; whether the map holds the youngest |
| `st`, `at`, `queue`, `hand` | a subscription: found, attached, dropped, closed; its loop; its channel; what its sender holds |
| `fan`, `fanned` | the fan-out of one head: first newHeads, then logs, each from a snapshot of subscribers |
| `told`, `spoilt`, `seen` | histories: the last head handed out; whether a poll met a disturbance it does not handle; the last head a client was sent |

Waiting for the loop to end is merged into `Close`: the cancelled loop reaches
nobody, for its subscribers are gone. Left out: Stop, which only tests call, the
syncing kind, and the content of logs.

Run `streams` (280 000 states): four budgets, from one subscription on a chain
that mines five blocks and abandons some, to three on one that only grows; a
queue of one, a memory of three blocks, catch-up of two. These are the least at
which reorgs within and beyond the memory, gaps and overflows all happen.

* `LiveAttached`, `LoopWatched`: nobody is left on a retired loop, no loop polls
  for nobody, whoever leaves between finding a loop and attaching to it.
* `NoHoles`: a newHeads client gets every head since it attached, once and in order.
* `HeadsLinked`: each head follows the one before, or is marked as a reorg or lies
  past a gap too long. Four disturbances the poller does not handle are
  excepted (`spoilt`): a read that fails after a head of the same poll was
  recorded; a failure in the first backfill, which leaves its blocks in the
  window; an upstream that abandons a block while a poll reads, so that its
  reads are of two branches; and a gap too long to replay that begins with a reorg,
  whose head is then delivered unmarked.
* `CatchesUp`: the poller always finds the upstream's branch again. After a
  window was backfilled across a reorg it may take a shorter new branch for lag
  until that branch is as long as the old one.

Fairness is weak, of code that runs without waiting for anyone: the loop's
goroutine and its ticker (`PollStep`, `LoopStep`, and the failure of a read the
upstream cannot serve), Subscribe from its first attempt on (`Attach`, and `Find`
again after an attach that met a retired loop), and the close of a dropped
subscription's handle. No client has to subscribe, read or leave; upstream's failures are
bounded. Deadlock is not checked: subscriptions and blocks run out.

`heads_cut` is a finding: Poll records each head as it reads it and returns
nothing if a later read of the same catch-up fails, so the first heads are lost
for good, against its comments ("The cursor is untouched", `head.go:145`).
Also seen: after a reorg to a shorter branch the memory is shallower than its
depth; a failed `eth_getLogs` is a silent hole for logs subscribers
(`streams.go:518`); `deliverLogs`' comment says a reorged head is skipped
(`streams.go:509`), but the code never looks at the mark.

## 7. Renaming a node: `MigrateNames`

The eight steps of `node.migrate-names/1`, each a list of commands; a step reads
the box, then runs its commands one at a time, and an error, a kill or a
reboot may come between any two. What a step returns counts once it has
returned, and a question, answer, retry or abort is the job engine's
(`DurableJobs`).

| variable | code |
|---|---|
| `user`, `group`, `root` | the name the account and group have; where the data root is |
| `unit`, `enabled`, `active` | the unit files (by the data dir they name) and systemd's view of the four units |
| `other` | processes of the account outside the units, which exit at SIGTERM or only at SIGKILL |
| `node`, `names`, `owner`, `snapshot` | node.json, names.json, the owner marker, the snapshot marker |
| `job` | the manifest: step, question, answer, the results of preflight and move-data; `todo` is what the running step has still to do |
| `box` | the box at first (history), with the two facts no step changes: mounts, and files whose owner does not follow the uid |
| `cut` | history: a job was aborted between its writing node.json and names.json |

Directories are told apart by the root they lie under. `Reboot` starts every
enabled unit whose file and account exist. `Repair` is a controller that missed
the migration and writes its old copy of the wire (`bootstrap.go:427-437`), at any
time: only the jobs a server started itself keep it from pairing.

Run `migrate` (100 000 states): seven kinds of box (among them a custom data dir, a mounted
one, a disabled service, processes that ignore SIGTERM), up to three jobs, two
cuts or reboots, one stale re-pair. A cut, its repair's cut, and a third job
to find what both left is the longest chain the code's comments speak of.

* `RunsOnItsData`: a unit that runs has its account and the data it names.
* `EnablementKept`: what was enabled is so under one of the names at all times, and
  nothing else.
* `MigratedWhenDone`: a job that ends well leaves accounts, units, enablement,
  markers and node.json agreed, whatever earlier jobs left, also after a stale
  re-pair, but for the case of `migrate_cut`.
* `Finishes`: with its questions answered and an aborted job followed by another,
  the migration ends well. Fairness: the engine runs steps (`jobs_steps`); people
  answer, each option again and again (a person who only ever says "check
  again" gets no further), and start a new job after an abort, as the abort notes
  ask them to. The last job is not aborted (`MaxJobs`).

`migrate_cut` is a finding: a step cut off between writing node.json and
names.json, an abort, and a second job, which finds the move done and never
records it. It succeeds; a stale re-pair then points the agent back at the
old root. If that re-pair comes while the second job runs and it found nothing
to do, its verify fails at every retry (the `cut` in `Finishes`).

Also seen: the comment in ownership that "the node is stopped, so nothing
writes behind the walk" (`migratenames.go:891-893`) fails after a reboot between
rewrite-units and ownership, which starts the new units: an invariant that
nothing is active when the owner marker is written has a counterexample in one job.

Left out: the refusals of boxes no modelled action makes (two accounts, groups or
roots, other units that use them), what setup does after an abort, an
operator's changes of mounts, and the checks of paths. `FollowOwner` reads the node's
names when it writes the marker, the code at the head of the step: names.json is
written by then, so a stale re-pair between the two does not change what `readNode` says.

## 8. Driving a job: `JobDriver`

One server (its jobs hub), one paired box, one `node.migrate-names` job on it. Jobs
and boxes share nothing in the hub but the listing, so one stands for all.

| variable | code |
|---|---|
| `job`, `fresh` | the job on the box as the agent would report it, and whether its lease is; `DurableJobs` is what is behind |
| `fits`, `wire` | the box still runs the node of the stored wire; the names in that wire (`config.Target.Wire`) |
| `server`, `locked` | the server's life (`stopWithin` in three parts); the vault that holds the controller's key |
| `driving`, `settled` | `h.driving` and `h.settled`, of the one job |
| `run` | where each goroutine is and the record it read: drivers, and the one of `finishLater` |
| `list`, `due` | the listing under way and its answer; a sweep that was ordered |
| `op` | a handler whose request the box answered and that has yet to call `drive` |

A turn of `driveLoop` is `Read`, `Look`, `Ask`, `Wait`: it looks at the vault twice
(`keyLocked`, then `mine`) and acts on the record it read, while the box, the vault
and the server go on. `Lost` and `Refused` are how a request fails; a lost
one may have been carried out. `Settle`, `AskInfo`, `Save` are `finished` and
`applyBoxNames`. `Sweep` and `Watch` are `refresh`, forced or not. A goroutine's end, and the
deferred delete of its entry, is `Exit`. The box does in one step what
`DurableJobs` does in several; what its faults add is a lost answer here.

| run | what it shows |
|---|---|
| `driver` | `DriversCounted`: the hub's entry is there exactly while one driver runs, and nothing runs once the server has stopped; `Driven`: a job of this controller at a step boundary is advanced or leaves its hands; `NamesFollow`: the stored wire follows a migrated box, whoever drove the job |
| `driver_unlock` | a finding: an unlock need not resume a job |

Bounds: two slots, of which the hub may use one; one step, one retry, one fault of
six kinds (a lost or refused request, a failed save, a lock, a stop, a crash). The other
controller, the lease's age and the end of steps are not bounded. Two faults pass as
well (half a million states), and so do two steps.

Fairness: Go runs every goroutine; a stop that began comes to its end, a server
that ended is started again, and a locked vault is unlocked some time; no crash,
stop, lock or failed call is fair. `driver` also assumes that someone watches now
and then (`WatchedSpec`): after a refusal, or a settlement that failed, only a
listing starts anything again, and the server lists by itself only when it starts and
after an unlock. No lease ages, no person answers and no other controller acts by
fairness. Deadlock is not checked: a finished and settled job leaves nothing to do.

`driver_unlock` drops the watcher and has no lost or refused request, only a lock. A
listing that began while the vault was locked has failed and is about to end when
the unlock orders its sweep; the sweep waits for it, as any refresh does
(`jobs.go:173-188`), and lists nothing itself. A driver that looked at the vault
just before the lock (`jobsdrive.go:130`) and at the key just after it (`:134`) has
returned meanwhile. The job stays at its boundary until someone watches.

Left out: the inbox's cache and its subscribers, log marks, the waits' lengths (a
driver may always wake), and a target that is removed or unpaired meanwhile.

## 9. What is proved

### Jobs

`DurableJobsSafety` and `DurableJobsHistory`, for every number of jobs, controllers,
steps and attempts, every bound and every set of faults. The assumptions are `ConstantsOK` (naturals where naturals are meant, no question
named like an outcome, `NoJob` no job) and `AbsentOK` (no holder is not a controller, no
answer is not an answer); `OneStepRunsOnBox` also assumes `"tear" \notin Fault`.

| theorem | property |
|---|---|
| `TypeCorrect` | `TypeOK` |
| `UnitsRunInTurn` | `UnitsInTurn` |
| `NeverStartedTwice` | `NoSecondStart` |
| `LogStaysWithinOne` | `LogWithinOne` (proved only) |
| `OneUnfinishedJob` | `OneUnfinished` |
| `OneStepRunsOnBox` | `OneStepOnBox` |
| `Invariance` | the inductive invariant `Inv` |

None of these is inductive alone. `Inv` is `Shape /\ Order`:

* `Shape` sharpens the types. A running manifest names the attempt it stands at;
  a manifest that may still move stands at a step of the plan; an answer other
  than abort was logged while an attempt was left. Without this a repair could
  leave the types (`Refold` would read the result of no unit).
* `Order` says how far a job has come. `Spent(j)`, the attempts that have acted
  or whose outcome is logged, lies at or behind the place of the manifest on
  disk (`Placed`) and of every manifest the operation under way still has to
  save (`Pending`). When Advance is about to launch, all of it lies strictly
  behind (`Launchable`), which is why no attempt is launched twice however the
  operation before it was cut off. An outcome in the log is never of a unit that
  runs (`Turn`), so `Refold` may move the job on.
* While a step acts, every pending save leaves the job running at that step;
  once the job is finished, every pending save leaves it finished. This carries
  `UnitsInTurn` and `OneUnfinished` through an interrupted operation.

`DurableJobsSafety` first proves that `Shape` is kept, action by action. For the rest the
actions fall in three patterns, each a lemma: an
operation that starts (`RunInv`), one save outside an operation (`ManInv`), and
a job that a step leaves alone (`JobFrame`); `InvNext` puts the actions
together. TLC checked `Inv` on the instances of the three passing runs before
it was proved.

`DurableJobsHistory` proves what the log says of the job. With "abandon" in the set of
faults four of these fail, and with "replan" another (§3, where code and comments
disagree), so their theorems assume those faults away; the rest is for every set.

| theorem | property | assumes |
|---|---|---|
| `AttemptsAreEarned` | `AttemptsEarned` | -- |
| `AnswersAreDelivered` | `AnswerDelivered` | -- |
| `OutcomesAreOnce` | `OutcomeOnce` | no "abandon" |
| `FinishedIsLast` | `NothingAfterFinished` | no "abandon" |
| `LeasesAreLogged` | `CustodyLogged` | no "abandon" |
| `LogsAreInOrder` | `LogInOrder`, the half of `LogTrue` about order | no "abandon" |
| `LogsAreTrue` | `LogTrue` | neither |
| `LifecycleKept` | the refinement `LifecycleSpec` | -- |

The argument is the same for each. `JobCases`: to any one job a step of `Next` does one of
eight things. It idles (nothing that log or manifest tell), begins the job, opens an
operation (the first line is logged, and `Means` says which `Append`s are to follow),
writes the next line, saves the manifest, saves what a repair calls for (`Refolds`,
`Reapplies`), or leaves. An invariant then speaks of three places and is kept case by case: the manifest on
disk, the log, and every `Append` owed, whose manifest is judged by the log with the
lines owed before it (`Owed`).

* `Earned`: log and owed lines answer for the attempt every such manifest
  stands at and hold the success it builds on.
* `Once`: no manifest runs an attempt whose outcome its log holds, unless
  the last line is that outcome and the next operation folds it.
* `Ending`: a line that ends the job is the last `Append` of its operation, and after
  it only the lease is talked of.
* `Custody`: the manifest's holder is the logged one, or the second half of a lease change is
  the one line the log lacks.
* `Ordered`, `Heard`: each line's cause is before it; a question that stands is
  unanswered in the log, or its answer is the last line and is reapplied.
* `Living`, for the refinement: each manifest owed is one move of `JobLifecycle`
  (`Moves`), or none, from the one before it. A line that is written moves nothing, so each save
  maps to one step or a stutter; no fault is excluded.

TLC checked these invariants too, on the instances of the three passing runs.

### Credits

`CreditLedgerProofs`, for every finite set of relays and every fund, block, cost,
ceiling and number of faults, from `CreditConstants` (naturals, positive costs
and block, `NoReport` no report; finite, because the properties add up over the relays):

| theorem | property |
|---|---|
| `CreditTypes` | `TypeOK`: nothing goes negative |
| `LedgerStaysSound` | `LedgerSound` (proved only) |
| `ReportsStayFrozen` | `OneReportPerId` (proved only) |
| `ReportsCovered` | `NeverOverspent` (proved only) |
| `AccountsInvariance` | the inductive invariant `Accounts` |
| `LeasesStayHeld` | `LeasesHeld` |
| `ServedStaysFunded` | `ServedWithinFund` |
| `ServedIsChargedOnce` | `ChargedOnce` |

`CreditInv` adds to these that a pool accounts for all it leased (`PoolsBalance`:
available and spent make up reserved, so a frozen report is covered) and that a
report being sent is the pending one (`SentPending`: so an abandoned copy has the
numbers of its retry). `FreshIsNew` is why a new id cannot meet an old report.
The ledger's lemmas (`ReserveSound`, `SettleSound`) hold for any call, so a late
one needs no case of its own.

`Accounts` is about sums over the relays. `ServedCharged`: what is charged and what the
relays have yet to report is at most what was served, and exactly that unless a relay
died or an operator moved reserves. `LeasesCovered`: what was served and what is
leased and not spent was taken from the balance. Neither is inductive over the
relays alone: a relay that dies leaves a report on its way, which still
takes its share of the reserve when it arrives. `Orphans` are these reports, and both
sums count them. `AnswersTrue` (an answer 200 means that the report was applied) and
`PendingDistinct` are why a report counts once. The library has no theorem about a sum
that the provers can use (the induction theorems take an operator); the lemmas that a sum
grows by what one member grows by, and is monotone, are proved here by a minimal
counterexample, with well-foundedness of strict subsets of a finite set
(`FS_StrictSubsetOrderingWellFounded`, `WFMin`). TLC checked `Accounts` on the instance
of `credit`.

### Intents and the box

`BoxControlProofs`, for every set of controllers and of SSH tasks, every budget of
envelopes, every clock and any number of faults, from `AdmissionConstants`
(naturals) and `BoxConstants` (no SSH task is named `start`):

| theorem | property |
|---|---|
| `RanRecordedTheorem` | `RanRecorded`: what ran is at or behind the record |
| `TurnstileTheorem` | the refinement `TurnstileSpec` |
| `NodeExclusiveTheorem` | `NodeExclusive` |

`BoxInv` is `AdmissionInv /\ ClaimsSound /\ Excluded`:

* `AdmissionInv`: a client's next number is never below one it signed, and a call
  that waits has the highest of them (`ClientSound`), so what it signs next is new; the gate
  handles one intent of a controller at a time, and one it has admitted is on
  the record, above everything that ran (`GateSound`). That is `Turnstile`'s guard
  when the intent runs, whatever was restarted between the two.
* `ClaimsSound`: a handler that is not idle holds the target's claim alone, and a
  call under way is its.
* `Excluded`: whoever may act over SSH (it acts, or has the empty listing in
  hand) finds every start its controller ever signed behind the record
  and no job of it on the box. The listing has a higher number than any
  start before it, and the gate admitted it: a late start is stale. This is
  why a start given up by its caller is harmless.

`BoxControlHistory`, from the same assumptions:

| theorem | property |
|---|---|
| `BoxTypesHold` | `BoxTypeOK` |
| `HistoryHolds` | the inductive invariant `BoxInv /\ Types /\ History` |
| `NoncesOutlive` | `NonceOutlivesIntent` |
| `DoRunsOnce` | `OncePerCall` |
| `OneRetryIsEnough` | `RetryNeverStale` |

`History` is `GateHistory /\ OneLives /\ RetryAhead`:

* `GateHistory`: of an intent that was accepted both records keep the nonce while the clock
  would accept it (`NoncesKept`); memory is never ahead of the disk (`MemoryBehind`),
  and a recorded number is that of an intent the gate has decided on (`LastRead`);
  an intent still to be decided has not run (`UnreadNew`).
* `OneLives`: of the envelopes one Do has sent all but one are dead, that is, have not run, are
  at or behind both records and are not admitted: the caller retries only after an
  answer that says so. This is `OncePerCall`.
* `RetryAhead`: the second attempt takes its number from the answer to the first, which
  is above every number the controller has signed, and so is never stale.

TLC checked `Types` and `History` on the instance of `control`.

### Migration

`MigrateNamesProofs`, for every set of boxes and any number of jobs, faults and re-pairs,
from `MigrateConstants` (the boxes have the fields they should) and `NoneOK` (`None` is no
option, no question and no way a move ends):

| theorem | property |
|---|---|
| `Invariance` | the inductive invariant `IInv` |
| `MigrationTypes` | `TypeOK` |
| `NodeRunsOnItsData` | `RunsOnItsData` |
| `ServicesStayEnabled` | `EnablementKept` |
| `MigratedWell` | `MigratedWhenDone` |

A job may be cut off before any command, and aborted, and the next one finds what it left.
So `IInv` cannot speak of the job alone; it is `Types /\ BoxInv /\ StepsDone /\ Running`:

* `BoxInv` says what each place on the box may be at any time, whoever was cut off where. Account, group
  and data are renamed in this order (`Accounts`); a unit file leads to the data, and one under
  the current names exists only when the data will move no more (`UnitFiles`, `Settled`); a
  legacy unit file is gone only when no legacy unit is enabled (`Disabled`); node.json or
  names.json say that the box has switched only when the data is settled and the snapshot marker has
  followed it (`NodeFile`); and node.json has switched without names.json only while the job
  is at rewrite-units, unless one was aborted there (`Record`, with the history `cut`).
* `StepsDone` says what the returned steps have established that nothing undoes: what `preflight`
  read (`EnabledKnown`), the dir that `move-data` returned (`Located`), what `verify`
  saw (`Verified`).
* `Running` says what the running step has done so far. Its commands are a suffix of a list
  that is known (`LeftOf`), so how many are left tells which are done: with less than five of
  rewrite-units' left, no legacy unit is enabled, with less than three the marker has followed.
  `Spots` turns this round: which command is next tells where the step stands.

A cut then needs no case of its own: it drops what `Running` says and leaves the rest.
`Located` is the delicate part. A later job that finds the data moved and node.json switched
returns "not moved", and then the marker must already have followed (`FoundElsewhere`, from
`NodeFile`), because `followSnapshotMarker` will do nothing.

TLC checked the four parts on the instance of `migrate`.

### Subscriptions

`RelayStreamsProofs`, for every set of subscriptions, queue length, depth, catch-up
and budget, from `PollerConstants` and `StreamConstants`:

| theorem | property |
|---|---|
| `TypeCorrect` | `TypeOK` |
| `NobodyStranded` | `LiveAttached` |
| `NoOrphanLoop` | `LoopWatched` |
| `SentWithoutHoles` | `NoHoles` |
| `HeadsFollow` | `HeadsLinked` |

`IInv` is `PollTypes /\ Frame /\ LiveAttached /\ LoopWatched /\ SentInv /\ HeadsInv`. `PollTypes`
gives the types of every place of Poll with its locals (the window, the walk
back, the blocks in hand); `Frame` those of the subscribers, and that a fan-out
under way belongs to a poll that delivers. `SentInv` says that what a subscriber was
sent, has in hand and has queued is one path that ends at `Top(s)`, the last head
fanned out to it: one less while it is still in the snapshot of the fan-out.

`HeadsInv` says, of a poll that was not disturbed, what `HeadsLinked` rests on:

* `Remembers`: the window holds the last block and, without a hole down to some height no
  deeper than `maxReorgDepth`, its ancestors. What lies above is left of an abandoned
  branch, which is why the window alone does not tell where a reorg began.
* `WalkLinked`: a walk has found no agreement above the height it is at, and began because
  the head does not extend the last block, unless it is no longer. As the window has no holes, the first
  agreement is then where the branches part (`FillBegins`); as nothing in the window lies
  deeper than a walk goes, one that finds none has compared all of it (`Apart`).
* `PrimeLinked`: a backfill holds the ancestors of its head, and its head is past a gap or
  shares nothing with the window.
* `FillLinked`, `DeliverLinked`: the heads collected are a run in which each `Follows` the
  one before (`RunGrows`), the first follows `told` and the last is `last`.

The upstream may mine at any step (`MineLinks`: a longer branch keeps its ancestors); if it retreats
in mid-poll, that is one of the disturbances. TLC checked `HeadsInv` on the instance of
`streams`.

### Drivers

`JobDriverProofs`, for every number of driver slots, steps, attempts and faults, with
the key in a vault or not, from `DriverConstants`:

| theorem | property |
|---|---|
| `DriverTypes` | `TypeOK` |
| `OneDriverPerJob` | `DriversCounted` |

The invariant is `Types /\ OneDriver /\ QuietAfterStop`, where `Types` adds to `TypeOK`
only that a running job stands at a step of its plan. Whatever a step of `Next` does
to the goroutines is one of five things (`Goes`: nothing, a driver begins where
there was no entry, one moves on, one exits, all end with the process), and each keeps entry
and driver together. After the wait there is no goroutine and no listing left to
take a step, and what could start one looks at `server` first.

### Only model-checked

Liveness (`StepsFold`, `GapsClose`, `LeasesReturn`, `CatchesUp`, `Finishes`, `Driven`,
`NamesFollow`): TLAPS does not reason about fairness here.

## 10. Not modelled

The models cover where processes interleave, crash and retry over state that
outlives them. Most of the repository's 82,000 lines are something else.

* Setup, gateway, operations, the chain catalogue: scripts and tables that are run or
  rendered for a box. Their state is the box's files, units and containers, and
  what they do to it is shell text; a model would restate the scripts. The one
  plan that is written to survive being cut anywhere is `MigrateNames`.
* The server's handlers, the command line, the terminal and web interfaces: they
  parse, call the other components and render. The claims and guards among them are
  in `BoxControl`.
* The relay's rate limiter and caches: one struct under one mutex each, with a
  clock; billing's keys, prices and admin: single rows behind an API.
* Vault, secret migration, configuration, daemon discovery: one file under one
  lock, replaced atomically. Secret migration and daemon discovery are the
  next candidates, then the watch rules.
* Agent upgrade, listening, service actions, log reading: I/O of one step.
* The cryptography: a signature verifies or does not, and digests do not collide.
