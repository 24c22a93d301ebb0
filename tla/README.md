# A verification of the NexusOS control plane

TLA+ models of the program in `src/`, the TLC configurations that check them on
small instances, and theorems that TLAPS proves for every instance. Paths below
are relative to `src/`; a TypeScript path without a directory is under
`src/adapters/d1/`.

| section | |
|---|---|
| 1 | the system, its parts and how they interact |
| 2 | how the project is organized: modules, runs, bounds, fairness |
| 3 | each model: state, actions, what is abstracted, properties |
| 4 | findings |
| 5 | what is proved, and along which argument |
| 6 | what is only model-checked, what is not modelled, what comes next |

## 1. The system

NexusOS is a workspace where people and agents work on the same conversations,
work items, artifacts and decisions. Its server is a Cloudflare Worker over one
D1 (SQLite) database. Runners are separate processes, enrolled with a key of
their own, that claim *runs* and execute them on a user's machine.

Two facts shape everything that follows.

- **The server has no locks and no transactions that span a read.** A handler
  reads rows, decides, and sends one `d1.batch`. A batch is atomic, but other
  invocations run between the read and the batch. What keeps the tables
  consistent is the guards inside the statements (`WHERE status = ... AND
  version = ...`, `WHERE EXISTS ...`), the unique indexes, and the triggers of
  `drizzle/*.sql`. A trigger that raises aborts the whole batch; a guard that
  matches no row lets *the rest* of the batch commit. Which of the two happens
  is the difference between a retry and a half-done operation.
- **Runners are unreliable.** They retry, sleep past their lease, come back with
  results nobody waits for, and are killed at any instruction.

### Components

| component | files | state | operations | hard part |
|---|---|---|---|---|
| Execution control plane | `src/adapters/d1/run-repository.ts`, `signed-run-route.ts`, `domain/runners/*admission*.ts` | `runs`, `run_leases`, `run_events`, `runner_operations`, `runner_lease_nonces`, `ledger_entries` | create, claim, renew, complete, cancel, prompt read | every operation races every other; late results; replay |
| Deadline reconciliation | `deadline-reconciliation-repository.ts`, `worker/index.ts` | `run_deadline_operations` and the rows above | list due runs, expire one | races completions, must finish in the end |
| Enrollment, liveness, revocation | `runner-repository.ts` | `runners`, challenges, `principals` | challenge, approve, heartbeat, revoke | revocation against claims in flight |
| Reports and admission policy | `engine-report-repository.ts`, `capability-report-repository.ts`, `admission-policy-repository.ts` | latest inventory, policy | report, set policy | reports out of order; a claim admitted under an old report |
| Payloads under the cipher, and their retention | `adapters/crypto/web-crypto-prompt-cipher.ts`, `prompt-retention-repository.ts`, `engine-run-creation-retention-repository.ts` | `run_prompts`, `run_engine_excerpts`, the keyring of the deployed worker, creation records | encrypt, hand out, rotate, erase | erasure against readers; two passes that meet; a copy of a read that comes when its lease is over |
| Runner: attempt journal, coordinator | `runner/attempt-journal-*.mjs`, `engine-attempt-*.mjs` | a directory of records per attempt | claim, spawn, run, complete, recover | a crash between any two records; never run a prompt twice |
| Runner: durable outbox | `runner/durable-outbox.mjs`, `outbox-contract.mjs` | a file per operation, a lock file | stage, transition, recover, prune, lock | takeover of a dead owner's lock |
| Runner: serve cycle, supervisor | `runner/engine-serve-*.mjs`, `engine-supervis*.mjs`, `nexus-runner.mjs` | the loop, a child process | poll, drain, stop, supervise | shutdown while a child runs |
| Governance and ledger | `governance-repository.ts`, `evidence-repository.ts`, `decision-package-repository.ts` | intents, approvals, ledger | request, approve, execute, expire | two decisions at once; expiry against execution |
| Artifacts | `artifact-repository.ts`, `review-repository.ts`, `supersession-repository.ts` | artifacts, versions, supersession graph | version, review, supersede | two declarations that close a cycle |
| Collaboration | `collaboration-*.ts`, `message-file-repository.ts` | conversations, members, messages | join, leave, send | the last owner; message order |
| Presence | `presence-repository.ts`, `domain/presence` | presence leases | claim, renew, take over, clean up | fences after a cleanup |
| Work graph | `workspace-repository.ts`, `work-repository.ts` | work items, links | create, link, move | optimistic concurrency |
| Operations | `operation-repository.ts`, `app/operations-view.tsx` | `operations`, `operation_publications`, the list of the tab | dispatch, publish, list | a state read in two statements; several publish at once and lose their answers; a list that comes after a publication |
| Identity, realtime, adapters, UI | `adapters/identity`, `worker/realtime-hub.ts`, `adapters/github`, `app/` | none that two requests share | | not modelled |

Interactions: the runner process calls the control plane through signed HTTP
requests (claim, renew, complete, prompt read, reports); the cron trigger and
some read routes call the reconciler; governance, runs and revocations append to
one ledger per organization whose sequence number is unique; everything else
shares only the database.

`PROJECT.json` lists the components with what is modelled of each, and the hazards
(what is hard to test, at the line where it bites) with the properties that would
catch them.

## 2. How the project is organized

### 2.1 Modules

| model | proofs | run | what it is |
|---|---|---|---|
| `RunControl` | `RunControlProofs`, `RunOutcomeProofs` | `one_run`, `runner`, `progress` | the execution control plane, at the grain "accept, read, batch" |
| `RunOwnership` | (its implementation: `RunOutcomeProofs`) | `runner` | the abstract specification: what a run's owners are promised, without tables, clocks or requests |
| `RunCreation` | `CreationProofs` | `progress` | the creation of an engine run under a key, its reconciliation and the tab that uses both |
| `Enrollment` | `FleetProofs` | `fleet` | tokens, keys, runners, heartbeats, revocation |
| `RunnerReports` | `FleetProofs` | `fleet` | what a runner declares, from the probe to the table |
| `AdmissionPolicy` | `FleetProofs` | `fleet` | the policy by which runners are admitted and the panels that edit it |
| `RunnerLock` | `DirectoryProofs` | `directory` | the lock of a runner's state directory |
| `RunnerOutbox` | `DirectoryProofs` | `directory` | the outbox of that directory and the commands that work on it |
| `EngineAttempt` | `EngineAttemptProofs` | `attempt` | one engine attempt: journal, runner, supervisor, engine |
| `LeaseHorizon` | `DirectoryProofs` | `directory` | the way of a lease's expiry from the server to the timer that stops the engine |
| `Governance` | `RecordsProofs` | `records` | intents, approvals, erasure, evidence, attention, the ledger |
| `Registry` | `RecordsProofs` | `records` | supersession and reviews of artifact versions |
| `Conversation` | `RoomProofs` | `records` | members, messages, files and pins of a conversation |
| `Presence` | `RoomProofs` | `records` | the presence lease of a person and the tabs that publish it |
| `Custody` | `RoomProofs` | `records` | prompts and excerpts of engine runs: their keys, who is given a prompt, the retention that erases both |
| `Publication` | `RoomProofs` | `records` | composed with `Custody`: what owners make of an excerpt, and the tab that shows it |

`MCRunControl`, `MCProgress`, `MCFleet`, `MCRunnerDirectory`, `MCEngineAttempt`,
`MCRunnerLock` and `MCRecords` give TLC what a `.cfg` cannot: symmetry, and *parts*.

### 2.2 Parts

A run checks several scenarios whose constants agree. A behavior chooses its *part* in
the initial state and keeps to the actions of that part; the variables of other
modules stay as they began. A part is never a different model: it takes steps of
the module's own actions, as they stand, and leaves some out because another
part has them. So a property is checked in every part, and the number of states is the
sum and not the product.

| run | parts |
|---|---|
| `one_run` | `handover`: two runners pass one diagnostic run between them. `cancel`: its owner cancels it, on both paths. `retention`: nonces and stored answers are cleaned up while copies and retries still come |
| `runner` | `two`: one runner, two diagnostic runs, its revocation. `engine`: an engine run with inventory reports and the deadline reconciler |
| `progress` | `engine`: the same run under a fair cron. `tab`: a browser tab creates runs. `api`: other clients create, resend and reconcile. `operate`: the same through operations |
| `fleet` | `enroll`: enroll commands in one directory are killed and repeated. `race`: two directories, one token. `beat`: heartbeats and their copies, and revocation. `silent`: reports against a changing machine and policy. `copies`: copies of one report. `panel`: one owner, several drafts. `rivals`: two owners, one draft each, with changes of roles and other ledger entries |
| `directory` | `lock`: commands race for the lock. `engines`, `reports`, `prune`, `diagnose`: the recovery cycle of `serve` with each of the one-shot commands. `horizon`: a running engine and its lease |
| `records` | `erase`, `items`, `basis`: intents. `chain`, `heads`: supersession, chains of three and versions of two. `opinion`: reviews. `roles`, `files`, `pins`: a conversation. `hidden`, `queued`: presence. `prompts`: a run is created, claimed, read and closed while keys change. `retention`: two passes meet over two runs. `publish`: two owners publish an operation while retention erases its excerpt. `tab`: the same with the list of a tab |

### 2.3 Runs and their bounds

| run | constants | why they are enough |
|---|---|---|
| `one_run` | 1 run, 2 runners, 2 slots, 3 operation ids, 2 nonces; 2 claims a run (as the code for engine runs; 5 for diagnostic ones), `LeaseTtl` 2, `MaxTime` 4, `RetryLimit` 2; in `retention` nonces live 1 and answers 2 units | two slots give every pair of operations every interleaving of accept, read and batch; the TTL is smaller than the time there is, so a lease can expire and be superseded, and larger than a step, so `now` can lie on either side of every expiry; one retry after a lost race, which starts from a fresh read |
| `runner` | 3 runs, one of them an engine run, 1 runner, 3 slots, one of them the reconciler's; `RunDeadline` 3 | two runs to hold, and a deadline that lies behind an expiry |
| `progress` | the engine run, 1 slot and the reconciler's, no symmetry; 2 keys of the tab, 2 of others, one of which belongs to an operation; 2 bodies, 2 requests, `CreateRetries` 2, proofs kept 1 day | a creation and a reconciliation of one key, in every order, with a copy or another key beside them |
| `fleet` | 2 tokens, directories, enroll commands, requests and heartbeats, 2 keys a directory, `BeatTtl` 4 > skew 1 + skew 1 + a request's longest life 1; 2 reports, 2 signed requests, each valid for 1 unit and its nonce kept for 3, freshness 2 or 6, interval 3; 3 versions, 2 drafts, 2 requests | a retry with another key or token, a copy that arrives at the end of its window, a replaced report whose nonce was cleaned up, a draft that is rebased and one that lost |
| `directory` | 3 pids, 2 loops of `serve`; 2 attempts, 2 other operation ids, files of one attempt may go bad, one attempt and one delivery a cycle, tombstones kept 1 day and journals 2 | a takeover that meets a third process; an attempt left for the next cycle; a tombstone that may go while its journal may not |
| `attempt` | 2 targets, 2 attempt ids | the properties relate at most two attempts, and a third can start only when both others are over |
| part `horizon` of `directory` | lease 4, interval 2, window 1, reserve 2, timeout 4, deadline 9, clock up to 10, the server's clock 1 ahead | a run may start at the latest in step 3, after a renewal or two; a lease is renewed up to the deadline, where renewals stop moving it; an answer can come when the lease it extends is over; the clock runs past the deadline |
| `records` | 2 requests under way together, 2 people (3 members), 2 intents and versions, 3 artifacts, `MaxDepth` 1 for the cycle check, which looks 100 relations ahead in the code, `IntentTtl` 1, 5 ledger entries, 2 messages, 1 pin, 2 tabs, fences up to 2; 2 engine runs, 2 keys, 1 nonce, 2 prompt requests, passes and publishers, fences up to 2, `LeaseFor`, `RetainFor` and `NonceFor` 1 of at most 1 hour, `PassLimit` 1 (25 and 100 in the code) | pairs of requests race in every order; three artifacts close a cycle that is one longer than the check can see; a read may come before, at and after the end of its lease, and its copy after the nonce is gone; a pass that lists one row of two leaves the other to the next |

`RetryLimit`, `CreateRetries`, `EnrollRetries`, `ApplyAttempts`, `PolicyRetries`, `ReadRetries` and `PublishTries` are 2
where the code has 3 to 5: a retry starts from a fresh read with the time of the first, so a third
adds no new state to decide on. Names that bound only the model: `CreateBy`,
`MaxTime`, `MaxRenews`, `MaxReports`, `MaxEntries`, `LastDay`, `MaxKeys`, `LastTick`, `LastTime`,
`MaxVersion`, `MaxDrafts`, `MaxOthers`, `MaxBorrows`, `LastMs`, `MaxLedger`, `MaxJoins`,
`MaxTurns`, `MaxRelations`, `MaxReviews`, `VersionMax`, `MaxMessages`, `MaxEdits`,
`LastEpoch`, `MaxFence`, `MaxHides`, `MaxClock`, `LastHour`, `MaxHead`. Kills, restarts, lost and repeated requests are not bounded.

`CHECK_DEADLOCK` is off wherever a bounded clock or a bounded counter ends the behaviors; in
`attempt`, where nothing is bounded, and in the two runs `replay` and `two_owners`, deadlock is checked.

**Symmetry.** Operation ids, nonces, slots, requests, pids, people and tabs are
permuted where no action and no property tells them apart; a part may start from an
asymmetric state, since symmetry asks only the next-state relation and the
properties to be symmetric. In `directory` attempts are not permuted, since files of one may go bad, and
nothing is where liveness is checked. Two orders are fixed without loss: the second intent or version
is begun after the first (`InTurn`, `VersionInTurn`), and a conversation is created by `p1`.

**Fairness** (`Fairness` of `RunControl`, only in `progress`): time passes, and the steps of the reconciler's slot are
weakly fair. The cron trigger (`vite.config.ts`, every minute) starts a new pass whatever became
of the last one; that passes are not killed for ever is what the platform
promises. Nothing is assumed of runners, owners or other invocations. The five runs that
expect a violation state a safety property, and need none.

**Mutants.** Definitions that follow a comment `\* bug:` are not part of a model. Each is a
plausible slip in the code that the property named in `PROJECT.json` catches.

## 3. The models

### 3.1 The execution control plane: `RunControl` and `RunOwnership`

#### State

| variable | code |
|---|---|
| `run[r]` | a row of `runs`: status, version, fence, current lease, cancellation, outcome, deadline |
| `lease[r][f]` | a row of `run_leases`; run and fence identify it (`run_leases_run_fence_uidx`) |
| `events[r]` | the rows of `run_events` of a run, in sequence order |
| `ops` | `runner_operations`, with the answer kept for replay or its tombstone |
| `nonces` | `runner_lease_nonces` |
| `ledger` | `ledger_entries` of the organization, in sequence order |
| `deadlineOps` | `run_deadline_operations` |
| `runner`, `report` | status of a runner and of its principal; its latest inventory |
| `clock` | the server's wall clock; the same one for every invocation |
| `req[s]` | what invocation (slot) `s` is doing: its request, the time the request arrived, and the rows it read (`head`) |
| `promised` | history only: the latest expiry a 200 answer told the holder of a lease |

#### A request

`Submit` or `Ask...` accepts it (a runner's, an owner's, the cron's) and, for
a runner's, takes `now`, as `signedRunRoute` does. `Read` is the handler's read and its refusals;
it records what later guards compare with (`ClaimHead`, `RenewalHead`,
`CompletionHead`, `CancelHead`, `RevokeHead`, `ExpiryHead`). Then the batch: one
action per way it can end.

| code | actions |
|---|---|
| `claimDiagnosticLease`, `claimEngineLease` | `ClaimCommit` (supersede the runner's lease elsewhere, supersede the run's, insert the lease, operation, event, nonce), `Abort` |
| `renewRunLease` | `RenewCommit` (all statements matched), `RenewUnlogged` (some matched), `Abort` |
| `completeDiagnosticRun`, `completeEngineRun` | `CompleteCommit`, `Abort` |
| `cancelDiagnosticRun` | `CancelCommit` (queued or live), `CancelExpiredCommit`, `CancelExpiredMiss` (the batch of the expired path when its run update matches nothing), `CancelSettled`, `Abort` |
| `createDiagnosticRun`, `createAssignedDiagnosticRun`, `createEngineRun` | `CreateCommit`, `Abort` |
| `revokeRunner` | `RevokeCommit`, `Abort` |
| `reconcileDueEngineRunDeadlines` | `StartReconcile`, `ReadDue`, `ExpireCommit`, `ExpireAbort` |
| `findNonceReplay`, `replayOperation` | `Resubmit` before the loop, `Abort` after a failed batch |
| `cleanupRunOperationalState` | `Cleanup`: nonces go, answers are compacted to tombstones |
| an invocation that dies, a client that hangs up | `Crash`, before the batch; after it nothing is left to lose, and the retry is another `Submit` or `Resubmit` |

The triggers are part of the batch that fires them: `Attach` and `Detach` are
`run_leases_attach_after_insert` and `run_leases_detach_after_update`; the
`..._validate_before_...` triggers and the unique indexes are the conjuncts of
`ClaimCommits`, `RenewalCommits`, `CompletionCommits`, `RevokeCommits` and
`ExpiryCommits`.

#### Abstractions

- One unit of `clock` is a millisecond, and all invocations read one clock.
- `gen` stands for `lease_generation` and `claim_count`, which only the attach
  trigger moves, together. A lease's id is its run and fence.
- Payloads (prompts and excerpts are `Custody`'s, §3.9; summaries, receipts), hashes and signatures are left out; a
  request hash is the message it is computed from, so "same hash" is "same
  message". The previous-hash chain of the ledger is its order.
- The equal-timestamp conditions on `ended_at`, `recorded_at` and
  `cancel_requested_at` only make a batch fail that is then retried; they are left out.
- `runners.last_seen_at` belongs to `Enrollment` and `RunnerReports`.
- An engine claim's inventory, adapter and policy checks are one Boolean,
  `report[w].fit`, with a revision number the claim's trigger compares.
- A pass of the reconciler takes one due candidate; the others are passes of
  their own, which allows every order. Its batch limit is left out.

#### Properties

| property | what it says | why it could be wrong |
|---|---|---|
| `LeaseAgreement` | a run and its leases tell one story: a leased run points to its newest lease, that one is active and no other is | two triggers keep it, fired by five different batches |
| `HoldingSound` | a runner holds at most one lease over all runs, and none once it is revoked | the claim that grants reads two runs before its batch, and may be admitted before the revocation |
| `PromiseKept` | a holder is not displaced while time it was told is left | `now` is the arrival time and is used in every retry |
| `CancelRespected` | a canceled diagnostic run ends as canceled | the completion's update does not look at the cancellation |
| `ClosedOnce` | one closing event, the last of the stream; the ledger tells of it once | three ways to close a run race each other |
| `AppliedOnce` | an operation id is applied once for the life of the run; the outcome belongs to the newest holder | nonces and answers are deleted while copies may still come |
| `EndedLeaseLogged` | every grant and every end of a lease has its event | it does go wrong: §4, `cancel_unlogged` |
| `DeadlineRespected` | only engine runs past their deadline are expired, and no lease outlasts it | the reconciler acts on a list that is stale |
| `GrantedToFit` | an engine lease goes to a runner whose *latest* inventory fits | the inventory may change after admission |
| `OnlyForward` | a closed run, its rows and its ended leases never change (`ClosedStays`); fences, events, ledger, operations and the expiry of a lease never go back | late batches keep arriving |
| `DueRunsClose` | an engine run past its deadline is closed in the end | candidates are skipped when they lose a race |
| `ImplementsOwnership` | the whole is fenced ownership as `RunOwnership` states it | the refinement mapping |


Where nothing is canceled every end of a lease is logged; cancellation is the one operation that
breaks it. A renewal may also go unlogged: `renewRunLease` (`run-repository.ts:1913`) does not
compare `renew_count` in its lease update, the event does, so the second of two
overlapping renewals extends the lease without `lease.renewed` (`RenewUnlogged`). Nothing in the
repository promises that event, so it is no finding.

### 3.2 The lock of a runner's state directory: `RunnerLock`

`RunnerLock` models `acquireOutboxLock` and `withOutboxLockOwnership`
(`runner/durable-outbox.mjs`). Every runner command that touches the journal or the
outbox (`serve`, `outbox`, `report`, `diagnose`, `engines`) takes this lock first.

| variable | code |
|---|---|
| `lock` | the file `outbox.lock`: absent, created by a process but still empty, or with its pid |
| `pc`, `attempt`, `seen` | where each process stands in `acquireOutboxLock`, its loop counter, the pid it read |
| `turns`, `inUse` | the capability's queue (`tail`, `pending`) and `inUse` |
| `met`, `raced`, `borrows` | history, and the bound on turns |

One action per await: `OpenExclusive`, `WritePid`, `ReadLockPid`, `ProbeOwner`,
`UnlinkStale`; then `Borrow`, `EnterTurn`, `LeaveTurn`; `Deactivate` and `UnlinkOwn` are the
two halves of `releaseLock`. `Die` kills a process anywhere; it is also `serve` ending on a
durable authentication rejection, which keeps the file on purpose. `Start` may reuse the
pid of an earlier command, and `ReusePid` gives it to a program that is no runner.

A process is its pid, so two live processes never share one, which holds within one
pid namespace. A process that opened the file writes to the inode it opened: when the name was unlinked meanwhile, its text
goes nowhere (`WritePid`). Write errors, permissions and `fsync` are left out.

| property | what it says | why it could be wrong |
|---|---|---|
| `OneOwner` | one process owns the directory | it does go wrong: §4, `two_owners` |
| `OneOwnerUnlessRaced` | one owner, if no two processes were ever inside `acquireOutboxLock` together | takeover unlinks by name, on a pid read earlier |
| `RefusedForAReason` | a command with a fresh pid is refused only if it met a live process | a crash may leave an empty file, a dead pid, or a file removed half-way |
| `TurnsUnderLock` | turns are taken and awaited only while the file names this process | release and borrow race in one process |


### 3.3 An engine attempt: `EngineAttempt`

`EngineAttempt` models one attempt from its claim to its journaled result. Three
programs take part, and each may be killed at any step:

| variable | what it is in the code |
|---|---|
| `journal` | `attempts/<id>/`: which records the directory holds, the claim's `cancelRequested`, the receipt of the result (`attempt-journal-*.mjs`) |
| `runner` | the execution loop of `serve` (`executionLoop`) inside `runEngineAttemptTarget`: its step, target and attempt, the reason of its termination signal, its copy of the prompt |
| `session` | the loopback connection: frames on their way to the supervisor, events on their way back, each in order |
| `supervisor` | the variables of `runSupervisor`: phase, first termination reason, whether its abort controller fired, its current event |
| `engine` | the provider process: how often it was started, whether it lives, whether it has read its prompt |

`Serve` starts the loop on a target. Every call of `runEngineAttemptTarget` starts
from the journal (`Quarantine`, `TargetBusy`, `AdoptAttempt`, or `MakeDirectory` and
`PersistClaimed`, since a crash may fall between the two), claims, prepares, commits
the `spawning` record, starts the supervisor and drives it. `RunnerEnds` is the
kill, the orderly detach and the exhausted failure budget: the three leave the same
disk and the same supervisor. `RetryLater` is the retryable outcome of an effect, after
which the loop starts again from the journal.

What the supervisor does with a frame is one action per kind (`TakeSpawn`,
`CompareSpawn`, `TakeInput`, `TakeTerminate`, `TakeRelease`); the rest are its own
continuations. A window matters here that the code does not name: while it prepares the
scratch directory there is no abort controller, so a termination only leaves its
reason (`preparing`), and once the controller exists an abort before the child is
announced ends as `spawn_failed` (`launching`, `spawned`). A killed supervisor leaves the
engine alive (`OrphanEnds`).

**Abstractions.** Server answers are nondeterministic: a claim or a renewal may say
anything it could say at any time, so the lease is not modelled and its expiry is a
nondeterministic `LeaseHorizon` or reason. Reasons are the four classes the code tells apart:
`cancel_requested`, the other stop reasons, `spawn_failed`, and every ordinary end of an engine.
A receipt keeps its reason, whether it names a child, and whether there was output,
which is all that `validateAttemptRecordSet` looks at. The handshake is one step, since
no other process has the token. Lease extension frames only move a time, which is
`LeaseHorizon`'s. `outboxed` and the settlement of a result belong to the coordinator:
`RunnerOutbox`. One runner process owns the directory: `RunnerLock`, with its exception.

| property | what it says | what would break it |
|---|---|---|
| `OneOfEach` | an attempt starts its engine at most once; over all attempts of a state directory at most one engine lives; a target has one journal for good | a second `authorize_spawn` taken after a reconnection; a next target that starts while the last one's engine is alive behind a dead runner; a half-made attempt overlooked on the next start |
| `PromptAfterStarted` | an engine that has read its prompt is in the journal | releasing the prompt before the `started` record |
| `ResultIsFinal` | a journaled result is about an engine that is over | concluding from the lease while a supervisor is out there |
| `ReleasedWhenDurable` | a supervisor that was told to go has its outcome on disk, as it reported it | acknowledging before the record is written |
| `ReplayJournaled` | what a supervisor replays can be journaled | it does go wrong: §4, `replay` |

Nothing is bounded by a guard here: kills, restarts and retries are unlimited, and the queues of a
session stay short by themselves, because every frame is answered by at most one event and every
event by at most one frame. The runner may stop for good (`off`), and `Serve` is always enabled
there, so there is no deadlock.

### 3.4 The outbox and the commands on it: `RunnerOutbox`

| variable | code |
|---|---|
| `box[op]` | the file of an operation in `outbox/`: kind, state, age, the run it is about, and whether it can still be read |
| `tail[a]` | the end of an attempt's journal: `result`, `outboxed`, `settled` with its outcome, pruned |
| `command`, `plan` | the command that owns the directory and where it stands; the locals of a recovery cycle (`RECOVERY_PLANS`, the entries it read) |
| `leased` | acknowledged claims whose lease has not expired |
| `applied`, `heard` | the completions the server has applied, and those whose final answer was written down (history) |

The recovery cycle of `serve` is `StartCycle`, one of `WriteCompletion`, `RecordOutboxed`,
`Reconcile`, `Attention` for each attempt it took up (`bridgeCompletion` in its two halves,
`reconcileAttempt`), `Correlate`, then `SendCompletion`, `AdoptAnswer`, `SettleDelivered` for each
delivery, and `FinishCycle`, which prunes if it took up every attempt. The one-shot commands
are `InspectOutbox` (`outbox`), `StartReport`, `StartEngines` with `WriteEngineReport`, and `diagnose`
with its own recovery, claim, hold and completion. `Dies` may come between any two steps, `Spoil` makes a
file unreadable, and `Day` ages everything.

`Answered` is the server: it says of an operation what `RunControl` allows (applied once, from then on
answered as applied, or as gone when its answer was compacted), and a retryable or unreadable answer says nothing of
whether it was applied. Ids are random, so one that no file has stands for a fresh one. File modes,
write errors and byte formats are left out.

| property | what it says | why it could be wrong |
|---|---|---|
| `DeliveredOnce` | a result stays pending in the outbox until the server's answer is written over it, and is never sent again afterwards; an attempt is settled as the server answered (`SettledAsServed`) | every command prunes; the journal and the tombstone are two files, and the runner dies between them; cycles take up a window of attempts |
| `OnePendingPerKind` | the one-shot commands leave at most one operation of a kind pending | each looks for what an earlier one left, then draws its own |

`outbox`, `report`, `diagnose` and `engines` prune without reconciling first, although
`docs/qa/s6-b4/b4-3-blueprint.md:426` says reconciliation always precedes pruning. No result is lost by it:
a tombstone that goes early only makes its attempt an `Attention` case, which `DeliveredOnce` allows.

### 3.5 The lease of a running engine: `LeaseHorizon`

| variable | code |
|---|---|
| `clock` | the machine's wall clock; the server's is `Skew` ahead or behind |
| `lease` | the row in `run_leases`, with the cancellation of its run |
| `call`, `stray` | the renewal the runner waits for; one it gave up and that may still arrive |
| `journal` | what a returning runner finds: the expiry of the claim's descriptor, whether supervisor and child are on record |
| `runner` | `prepareExecution` with its two renewals, then `superviseWithRenewal`: its step, the expiry it holds, the one it is passing on, when it wakes |
| `session` | the connection: frames to the supervisor, acknowledgements back |
| `supervisor` | `leaseExpiresAt`, `leaseTimer`, `leaseExpired`, the abort controller and the first reason of `runSupervisor` |

`RenewRunLease` is `renewRunLease` seen from outside (its batches are `RunControl`'s), `SendRenewal` to `RenewalOutlasted` are
`renewOnce` with its retries and the race against the horizon (`renewWithinLeaseHorizon`), `ExtendLease`, `LeaseAcknowledged` and
`PropagationOutlasted` are `propagateSupervisorLease`, `TakeSpawn` and `TakeExtension` are `armLeaseHorizon`. The runner may
leave and come back at any point (`RunnerEnds`, `Prepare`, `Resume`). A timer that is due fires before time goes
on (`Due`): event loops are not late by more than one unit. What else a session carries is `EngineAttempt`'s.

`LeaseAuthority`: an engine that was not told to stop has a timer ahead of it at an expiry the server granted, and the runner
holds no expiry its supervisor has not acknowledged. It could fail where an answer, an acknowledgement or the runner is lost between
two of the four places that hold an expiry. `ReconnectsWhileLive` is violated: §4. A renewal that would not move the expiry is denied, as the
code does (`run-repository.ts:1898`): an engine whose lease has reached the deadline is told to stop at the next renewal,
where the decision record S6B4 has the server answer with the current lease.

### 3.6 The creation of a run under a key: `RunCreation`

| variable | code |
|---|---|
| `creations[key]`, `made`, `bound` | `engine_run_creations`; the engine runs in order; the run of each operation |
| `entries` | how many entries the organization's ledger has |
| `post[q]` | a request under way: kind, key, body, step, the ledger head it read |
| `page`, `told` | the tab (`engine-runs-controller.tsx`): its pending key, what `sessionStorage` holds, the phase; what it has shown |
| `answers`, `day` | every resolution ever answered (history); the clock of the retention |

`LookUp`, `ReadCreation`, `ReadLedger`, `CommitCreation` and `InsertProof` are the handlers of `createEngineRun`,
`createOperation` and `reconcileEngineRunCreation`, one action per read and per batch; a batch that went
through may still be answered as failed. `Create`, `Reconcile`, `Hear`, `GiveUp` and `Reload` are the tab, which
never sends a key twice. `OtherSends` are clients that do. `CollectProofs` is the
retention. That no request outlives a kept proof is assumed in `NextDay` (30 days against a request).

`ReleasedOnlyWhenSettled` says that the tab lets go of a key only with an outcome that stays true, though a
request for it be still under way; `AnswersAgree` that all answers about a key agree, whoever asked.
Keys that come from an operation id are assumed not to be sent directly as creations. Not covered: an
operation resent while its first request is in flight is answered 4xx, and the page then shows
`failure_confirmed`; and the runners view takes any 409 to its `cancelToken` for "token consumed".

### 3.7 Runners: `Enrollment`, `RunnerReports`, `AdmissionPolicy`

**`Enrollment`** models `enrollRunner`, `revokeRunner`, the withdrawal of a token and
`recordRunnerHeartbeat` (`runner-repository.ts`) as requests (`calls`) that arrive, read, read the ledger
head and commit, and the commands `nexus-runner enroll` (`cli`, `dirs`: the staged key, the
configuration, the lock file) and `heartbeat`. A runner's identity is its token and key. A command may be killed
after any step, and its lock file stays until the operator removes it; a half-written key is never
replaced. A database failure with or without a commit is 500. Refusals by signature, clock or display name come before
the token is read. `LongestCall` is the platform's limit on a request; without such a limit a nonce
could be cleaned up under a request that still carries it.

| property | what it says | why it could be wrong |
|---|---|---|
| `KeyKept` | the control plane knows no runner whose private key is gone | a rejected `enroll` deletes the key it has made, while an earlier request with that key may still be under way |
| `FleetAsRecorded` | a token is spent once and never after its withdrawal; the ledger has just the entries of what happened, numbered without a gap | an enrollment repeated with a lost answer; a withdrawal in between; two batches that read the same head |
| `BeatsOnce` | a heartbeat counts once however late its copies; `last_seen` is the latest that counted | its nonce is cleaned up after `BeatTtl` |

**`RunnerReports`** models the reports of one runner, of either kind (`kind` is fixed in a behavior; the two
repositories handle them alike): `apply...Report` with its attempts, replays, nonces and compaction
(`requests`, `declared`, `nonceRows`), and the commands `report` and `engines report` with outbox entry (`entry`)
and `engine-report-state.json` (`memo`). The lookups of nonce and stored report are one step, since the batch
finds whatever changed since. A command takes longer than the clock's resolution. The change fingerprint is the
inventory.

`ReportedOnce`: a report is applied once, all its 201 answers agree, a signed request counts as one replay.
`DeclaredUntilDue`: while a runner keeps silent because of what it reported, the control plane has
just that, and it is fresh. (`SilentSince` excludes a slow older request that overtakes the newer report, since the code
does not order reports by when they were taken, and two reports received in the same instant, of which the greater
id counts as the later, whichever it was. It also excludes a command that was killed after its report was acknowledged and before it
remembered that: the memory is then older than the control plane's, and a machine that changes back is not reported again until the
next report is due.)

**`AdmissionPolicy`** models `putRunnerAdmissionPolicy` (version compared at the read and in the batch, retry on a taken ledger
number, an ambiguous failure) and `RunnerAdmissionPolicyPanel` of two editors: what it shows, its draft and the base it is
rebased on, the facts it reads again after 409, 403 or an uncertain answer. The text of a draft is the number of the
draft. `DecidedOnFacts`: every version was decided once, with one entry, later than the one before and on a
screen that showed the one before; and no answer to an earlier draft changes what an owner typed.

### 3.8 Records: `Governance`, `Registry`, `Conversation`, `Presence`

In all four a request reads, keeps what later guards compare, and commits one statement or batch, which finds
the rows as they are by then.

**`Governance`**: `intents`, `approvals`, `ledger`, the erasable `payload` of artifact versions, the evidence an intent rests
on (`basis`), the attention `items` of each owner. `Start...` is a handler up to its batch, `ReadHead` reads the ledger's head,
`Commit...` is the batch with its triggers (`drizzle/0007`, `0010`, `0012`, `0030`). Versions share one content, which is
where an erasure can take what nobody approved.

| property | what it says | why it could be wrong |
|---|---|---|
| `LedgerTellsAll` | one entry for each intent, each approval that counts and the outcome the row has, none for one it has not | the ledger insert and the row update of a batch have conditions of their own |
| `ErasedAsApproved` | a payload that is gone was listed by an approved erasure, approved by another person unless the proposer was alone | a version published with the same content after the approval |
| `BasisFrozen` | what a decision rests on does not change once it was made | a link that was admitted while the intent was open |
| `DecidedWhenDecided` | an item that reads `decided` belongs to a decided intent | it does go wrong: §4, `undecided` |

**`Registry`**: `relations` (which artifact supersedes which), `reviews`, `versions`. `RelationAccepted` and
`OpinionAccepted` are the triggers and unique indexes of `drizzle/0015` and `0014`; the recursive query that looks for a cycle
is `Chain`, with its bound. `NoSupersessionCycle`: following what supersedes what never comes back, however
long the chains. `OneOpinion`: a reviewer has one active opinion on a version, and a superseded one has exactly one
successor.

**`Conversation`**: `member`, `messages`, `file`, `pins` and the calls under way; `OwnerLeft` is the trigger
`conversation_members_require_owner`. `OwnerRemains`: an active owner remains through departures and role changes that each
counted the others. `FilesOfMessage`: a message carries exactly the files that are attached to it.

**`Presence`**: the `session` row of one person, and each tab with its write under way, its releases on their way and its
own view. The row is deleted when it expires or a tab is hidden, and fences start again at 1.
`StaleTokenHarmless`: no renewal and no release, however late, ends the live lease of another tab. A *claim* may: the update at
`presence-repository.ts:343` compares key and fence of the row it read and not its expiry, so a claim that found the
lease expired replaces one that was renewed meanwhile; `docs/BUSINESS-RULES.md:74-76` speaks only of takeovers by
the person, so the model keeps it as it is (`ousted` tells the two apart).

### 3.9 Payloads of engine runs: `Custody` and `Publication`

**`Custody`** models what the server keeps of an engine run under its cipher.

| variable | code |
|---|---|
| `row[r]` | of the rows in `runs` and `run_leases`, what a prompt read and retention ask for: status, fence, lease, its end, outcome, when it was recorded |
| `prompt[r]`, `excerpt[r]` | `run_prompts`, `run_engine_excerpts`: whether the ciphertext is there, its key, what the receipt says of the output, when it was erased |
| `readRows`, `reading[q]` | the nonces of prompt requests; the requests: what they ask, the time they came in, the step, the tries, the answer |
| `runnerUp`, `ring`, `making` | the runner of the runs and its principal; the keyring of the deployed worker; a creation that was given its cipher |
| `pass[p]`, `erasures` | the retention passes with the list each works on; how many of them counted a payload (history) |

`Receive` to `TakeAnswer` are the route and `readEnginePromptForLease`: the search for the nonce, the batch that authorizes,
writes the nonce and reads, the authorization of a copy, the reason of a denial, the retry. A batch may go through and be
reported as failed, a copy may come at any time. `StartPass` to `EndPass` are
`reconcileDuePromptRetention`: two lists, then one statement a row, which asks anew for what made the row due. `AskCipher` and `WriteRun` are the two
halves of a creation, with `assertPromptCipherKeysCoverLiveReferences` in the first. `Claim`, `Renew`, `ExpireRun`, `CompleteEngine`, `RevokeRunner`
change the rows as the handlers of `RunControl` do; each is one step, since their races are `RunControl`'s. No handler cancels the run of an
engine: `cancelDiagnosticRun` asks for a diagnostic one, and what the runner does about a cancellation is `EngineAttempt`'s.

`PromptToHolder`: a prompt is handed out to the holder of the current lease only, to a copy of its request too. `ErasedOnce`: an
open run has its prompt and a completed one its excerpt until both are due, and no matter how many passes meet, each is erased and counted once, with its key.

**`Publication`** extends it with `publication` and `shelf` (`operation_publications`, the artifacts with version and entry), the ledger's `head`, whether the
owner is one still, the requests (`publisher`), and of the tab what it shows (`shown`) and the list it waits for (`listing`). An operation is called by its run.
`requireOperation` is two actions, `ReadRow` and `ReadExcerpt`: the row may say `eligible` and the excerpt be erased between them. They are
taken at the start (`first`), before each attempt (`raced`), after one that failed (`after`) and after one that went through (`done`), and
`Concluded` says what follows in each case. `Publishable` is the batch's trigger, its key and the ledger's sequence. The tab publishes one operation
at a time, merges the answer, and drops the list it waited for when it asks for another (`AskList`). That a list of before a publication may still arrive after it, and
show the operation as eligible for a while, is in the model; dispatch from the tab and the paging of its list are not.

`PublishedOnce`: an operation makes one artifact, of the text a succeeded run left; one request at most is told it did, and what the tab shows as
published is.
## 4. Findings

Each is shown by a run that expects a violation; `PROJECT.json` quotes the lines they contradict.

1. *A canceled lease can be released without its event* (`cancel_unlogged`). In the expired-lease path of
   `cancelDiagnosticRun` (`run-repository.ts:869`) the lease update stands on its own, while the run update and both
   events are guarded by the version that was read plus one. If another cancellation commits in between, the lease is
   released and the run goes back to `queued` without `lease.released`; the retry cancels the queued run. The ADR S6B2 and the
   integration test say both events are recorded. Who owns the run is not disturbed.
2. *Two commands started together can both own the state directory* (`two_owners`). The lock file is created empty and filled
   after an await (`durable-outbox.mjs:138`). A process that finds it empty takes it for stale, unlinks it and creates its own.
   Once one process is through the acquisition, the lock holds (`OneOwnerUnlessRaced`).
3. *A replayed result may be impossible to journal* (`replay`). `driveAuthenticatedSupervisor`
   (`engine-supervised-run.mjs:178`) looks at its termination signal before the event at hand, and drops a live event for the
   one that follows. A runner that was killed between `authorize_spawn` and the `started` record, and comes back to a
   canceled run, so skips the replayed `waiting_input` that names the child; the result that follows is of a started child,
   which the journal refuses without `started`. Every restart repeats this until the supervisor's hold is over.
4. *Attention items can say "decided" without a decision* (`undecided`). The batch of `approveStoredIntent`
   (`governance-repository.ts:585`) inserts the approval under a condition, and resolves the items of the intent without one.
5. *A returning runner is refused by its own supervisor* (`reconnect`). It passes on the expiry of its journal
   (`engine-attempt-runtime.mjs:1384`), which is the claim's; after one acknowledged renewal the supervisor has a later one, and takes the frame for a
   protocol error. The release note of B4.4a says a new controller may reconnect while the journaled horizon is live. The
   engine runs on under the supervisor's timer, so no authority is extended.
## 5. What is proved

Every theorem holds for all values of the constants that satisfy the named assumptions of
its module (`IdsAssumption`, `NumbersAssumption`, `LockAssumption`, `OutboxAssumption`,
`NoneAssumption`, `GovernanceAssumption`, `RegistryAssumption`, `ConversationAssumption`,
`PresenceAssumption`, `CustodyAssumption`, `PublicationAssumption`, `CreationAssumption`, `EnrollmentAssumption`, `ReportsAssumption`, `PolicyAssumption`, `TimeAssumption`): the sets of ids are arbitrary, the bounds are natural numbers, and
an id is not the value that stands for none. Nothing is assumed of sizes. Of times four things are assumed, which
the constants of the code satisfy: the nonce of a heartbeat is kept longer than a signature is accepted, past and
future skew together, and a request lasts; the nonce of a report likewise; an inventory's freshness is at least two units,
so that half of it is a time; and the deadline of a run leaves room for its timeout and the reserve, which the claim checks. TLC evaluates the assumptions in
the runs of §2.3. The clocks and counters are bounded by guards, but the bounds are constants
too, so each theorem covers every bound.

| module | theorem | property |
|---|---|---|
| `RunControlProofs` | `LeasesAgree` | `LeaseAgreement` |
| | `RunnersHoldSoundly` | `HoldingSound` |
| `RunOutcomeProofs` | `PromisesHold`, `CancellationsHold`, `DeadlinesHold` | `PromiseKept`, `CancelRespected`, `DeadlineRespected` |
| | `ClosesOnce`, `AppliesOnce` | `ClosedOnce`, `AppliedOnce` |
| | `GrantsFit`, `NothingUnsaid` | `GrantedToFit`, `OnlyForward` |
| | `ControlPlaneImplementsOwnership` | `ImplementsOwnership` |
| `DirectoryProofs` | `LockExcludes`, `LockRecovers`, `LockCoversTurns` | `OneOwnerUnlessRaced`, `RefusedForAReason`, `TurnsUnderLock` |
| | `DeliveredOnceHolds`, `OnePendingPerKindHolds` | `DeliveredOnce`, `OnePendingPerKind` |
| | `AuthorityHeld` | `LeaseAuthority` |
| `EngineAttemptProofs` | `OneOfEachHolds`, `PromptAfterStartedHolds`, `ResultIsFinalHolds`, `ReleasedHolds` | `OneOfEach`, `PromptAfterStarted`, `ResultIsFinal`, `ReleasedWhenDurable` |
| `RecordsProofs` | `LedgerAgreesWithIntents`, `NothingElseErased`, `BasisStaysFrozen` | `LedgerTellsAll`, `ErasedAsApproved`, `BasisFrozen` |
| | `NoCycleEver`, `OneOpinionEach` | `NoSupersessionCycle`, `OneOpinion` |
| `RoomProofs` | `AnOwnerRemains`, `MessageFiles`, `StaleTokensHarmless` | `OwnerRemains`, `FilesOfMessage`, `StaleTokenHarmless` |
| | `PayloadsErasedOnce`, `PromptsToHolders` | `ErasedOnce`, `PromptToHolder` |
| | `OperationsPublishedOnce` | `PublishedOnce` |
| `CreationProofs` | `CreationsReleasedOnlyWhenSettled`, `CreationAnswersAgree` | `ReleasedOnlyWhenSettled`, `AnswersAgree` |
| `FleetProofs` | `EnrolledKeysKept`, `FleetRecorded`, `HeartbeatsCountOnce` | `KeyKept`, `FleetAsRecorded`, `BeatsOnce` |
| | `ReportsTakenOnce`, `SilentReportsStand` | `ReportedOnce`, `DeclaredUntilDue` |
| | `PoliciesDecidedOnFacts` | `DecidedOnFacts` |

Each model also has its type invariant proved (`TypeCorrect`, `LockTypeCorrect`, `OutboxTypes`, `AttemptTypes`, `GovernanceTypes`,
`RegistryTypes`, `ConversationTypes`, `PresenceTyped`, `CustodyTypes`, `PublicationTypes`, `CreationTypes`, `EnrollmentTypes`, `PolicyTypes`, `HorizonTyped`), or as a part of
its inductive invariant (`RunnerReports`), and most have the inductive invariant as a theorem of its own.
`FleetProofs` and `RecordsProofs`, and `RoomProofs` but for `Publication`, speak of models that share no variable; each theorem is about the specification of its own
(`EnrollmentSpec`, `ReportsSpec` and so on), and the parts of a run take only steps of those.

### 5.1 The control plane

One induction in four layers; each layer uses the ones before as facts.

1. `TInv` is `TypeOK` with `RequestsNameRows`: a request in flight names the rows its batch
   indexes (a completion a fence of its run, an expiry an engine run, and so on). Without it a
   batch could not even be typed, since `lease[r][f]` must exist.
2. `LInv` adds `LeaseAgreement`. Every batch moves a run and its leases together: the
   lemmas `AgreeDetach`, `AgreeAttach`, `AgreeComplete` and `AgreeStatus` say what the triggers do to one
   run, and each action's lemma composes them. `ClaimEffect` is the longest: a claim detaches up
   to two leases and attaches one. `ClosedRunsStay` follows: a closed run has no active lease, and
   every statement that would touch it asks for one, or for an open status.
3. `HInv` adds `RunnerHoldsOne` and `RevokedHoldNothing`. Every step but a claim only ends leases
   (`StatusFades`, `OnlyClaimsGrant`); a claim grants one, and its guard `HoldsOnly` ends all others of that runner.
4. `OInv` adds what the times and the requests have to do with the rows. `PromiseKept` and
   `DeadlineRespected` are not inductive: a batch decides on what was read long before. The
   strengthening is `RequestsReadWell`: *what a request has read is still so, or a
   number it read beside it has moved on*, and the batch compares that number. With it, and with
   `Punctual` (a request in flight has a time that has come) and `BlankRows` (rows not yet granted are as they began), each batch that commits
   moves a run in one of the ways that `Moves` lists (`Untouched`, `Withdraws`, `Marks`, `Cancels`, `Creates`, `Grants`, `Renews`,
   `Expires`, `Completes`), and the properties are proved move by move and not action by action.

`ClosesOnce` counts: `StreamCloses` and `LedgerCounts` say what a move adds to the stream of events and
to the ledger. `AppliesOnce` says of `ops` that a row, once there, only becomes a tombstone. In
`ControlPlaneImplementsOwnership` a run is mapped to its stage, owner, epoch and result, and each move to a step of
`RunOwnership` or to a stutter.

### 5.2 The runner's directory and its attempts

`DirectoryProofs`, the lock: exclusion alone is not inductive, since a process that already decided to unlink would
break it two steps later. `FileIsOwners` says: without a race the file is the owner's, and nobody
who read another name, or is about to unlink, stands beside an owner. `OneAcquirer` gives meaning to `raced`;
`SecondRound` with `MetOthers` is why recovery works: in its second round a process finds a file only if someone it has met
made it; `TurnsLive` ties turns to the capability.

`DirectoryProofs`, the outbox: `FilesSound` (a file that wears an outcome wears what the server answered, and attempts only move
on), `AnswersSound` (what a tombstone, and a settled journal, say of an attempt is what the server answered, and what was
answered is pending nowhere), `CycleSound` (a cycle is about to send only what is
unanswered, and adopts an answer only for an attempt whose result is in the outbox), `CommandSound` (a command that draws an
id knows that nothing of its kind is pending), `AtMostOne`. The crash between
tombstone and journal is the case that needs the first three together.

`EngineAttemptProofs`: three programs that can each be killed know of each other only by records and messages, so the
invariant says of every record, frame and event what it implies. `JournalSound`: the records of an attempt are a set
the code accepts, and at most one attempt is open. `AttemptsSound`: what the phase of a supervisor says of its engine, and what a record tells about both
(`JournalTells`). `SessionSound`: what may be under way in either direction
(`SessionOf`). `RunnerSound`: what the runner may find at each of its steps (`StepSound`).

`DirectoryProofs`, the lease horizon: `HorizonKept` is not inductive, since a supervisor arms whatever a frame brings.
`ExpiriesGranted` follows an expiry on its whole way: what the journal, the runner, an answer and a frame carry is never
later than what the server's row has, which only moves on. `WatchSound` is the supervisor's side: timer and expiry of an engine that
may run are one, the time has not passed them (timers that are due fire before time goes on), and no acknowledgement on its way
is beyond them. That makes `AdoptedWhenAcked` inductive: the runner takes what an acknowledgement says, and the
supervisor's expiry never goes back. Most steps are the runner's or the supervisor's alone; `RunnerMoves`, `SupervisorMoves`,
`LeavesKeeps` and `SendsKeeps` say once what such a step must respect.

### 5.3 Records

`RecordsProofs`, on intents: every step has one of six effects on intents, approvals and ledger (`GovernanceSteps`).
`RequestsSound` says what a read head still means when its batch commits, `RequestsApart` that two requests
never make the same row, `IntentsSound` and `PayloadsSound` relate a status to its approvals and a missing payload
to its erasure. With them each effect keeps the counts of `LedgerTellsAll`.

`RecordsProofs`, on artifacts: the trigger looks a bounded number of relations ahead, refuses what it cannot see the end of, and the property has no
bound. One active successor each (`OneSuccessor`) makes what follows an artifact a chain (`ChainFollows`), and a new
relation could only close a cycle if the trigger's walk from its target came to its source. The induction along the chain is over the *set* of
numbers for which a statement holds, since the library's induction theorems over operators
are beyond the installed provers.

`RoomProofs`: `ConversationInv` adds to types that ids are new (`AddsAreNew`) and where a file can be while its message is being
sent (`FilesInv`); `OwnerRemains` is inductive by the trigger. In `Presence` the types suffice for `StaleTokenHarmless`.

`RoomProofs`, on payloads: `CustodyInv` is the types with four facts. `ErasedOnce` is nearly inductive by itself: a pass works on a list that may be
stale, and its statement asks again, so it finds an erased payload erased, and one that nobody has erased counted by nobody. What is missing is
`CreatesAnew` (a creation that has its cipher is of a run that is not there), `ExcerptsFilled` (an excerpt says what the output was exactly when
there is one) and `ReadsNamed` (a request under way names a run). `PromptToHolder` is then a matter of the two
actions that hand out. For the composition `CompletedStays` says that a completed run and the output of its excerpt stay what they are under every
step of `Custody`, erasure included. With it `TextRead` (whoever is past its first reading has seen a text that the excerpt still tells of), `PublishedAlone`
(whose batch went through and who has not heard of it is the only one of its operation, and nobody was told yet),
`SaidPublished` and `PublishedRuns` make `PublishedOnce` inductive.

### 5.4 Creation and the fleet

`CreationProofs`: a request may be under way while its key is reconciled, so the properties are not inductive.
`RowsSound` makes the row of a key, its run and its operation one. `KeysSound` says of a key of the tab what makes a
late request harmless: it is used once, a creation that still lives excludes a run, and a proof that there is none was made
on the day of that creation, so it is not yet collected when the batch looks for it (`Closed`). Each handler has one of a few effects (`Effect`), and the
invariant is proved effect by effect.

`FleetProofs`, enrollment: `KeyKept` needs to know which request could still enroll a key. `KeysSafe` speaks of every key
the control plane knows *or a request carries*; `MadeSound` says that a key a command has made itself is carried by
the request of that command alone, and is unknown again once that request was refused; that is exactly when `enroll` may
throw it away. `BeatsOnce` rests on `CallsTimely`: a request was let in by a clock that is not longer ago than it may
last, and `BeatTtl` is longer than what skew and that allow, so whoever finds no nonce is refused for its age.
That the ledger is numbered without a gap is a small induction of its own on top (`Counted`): every step enters nothing, or
something that was not there, under the number after the head (`HeadsMoveOn`).

`FleetProofs`, reports: `ReportedOnce` counts. `Used` are the requests whose nonce is there or was cleaned up when they were
too old to be let in again; a replay adds one of them, which bounds the counter by finitely many requests
(`NothingWithoutEnd`). `AgesSound` relates the order of insertion to the order of `received_at`: a report is
inserted with a time no earlier than any before it. With it, and with what the command holds (`ReporterSound`, `MemoSound`),
the report that was stored last is the one the runner remembers.

`FleetProofs`, policy: a saved version rests on what its author saw because a request carries the version its panel
showed (`PutsSound`), and an open draft builds on what is shown (`PanelsSound`) unless it is marked as lost. `HeardAlone`, a panel
waits for one request at most, is what keeps the answer to an earlier draft from changing a later one.

### 5.5 What the proofs found

In three places a proof failed because a model was wrong, though TLC had passed: `Registry` needs
`VersionMax \in Nat \ {0}`; a `SUBSET` in `Governance` bound more loosely than it was meant to; and the steps of
`RunnerOutbox` were typed as arbitrary strings, where the code has nine. In a fourth the proof found what the bounds of a run had hidden: with signed requests valid
only in the instant they were made, `DeclaredUntilDue` held for two reports received in the same instant too, which it does not; `SilentSince`
now excludes them, and the run gives a request time to travel.
## 6. What is left

**Only model-checked.** `DueRunsClose`: liveness under
fairness is beyond the prover. What the runs of §4 violate is, of course, not proved.

**Not modelled.**

| part | why |
|---|---|
| Workspace and work graph | optimistic writes of single rows, each with the version it read: what `Conversation` and `Registry` do |
| Decision package, realtime hub | read only, or hints after which every client reads again |
| Identity, GitHub and provider adapters | they decide about a single request and keep no state that two requests share |
| User interface | only the parts with state that outlives a request: the creating tab, the policy panel, the list of operations, presence |
| Schema, build, operations scripts | the triggers and indexes that matter are in the models, everything else is configuration |

**Next.** The workspace and its work graph; the HTTP exchange of a claim between the runner's coordinator and the server, where the outbox and `RunControl` meet.
