# PatchLoop: TLA+ models, checks and proofs

PatchLoop is a coding agent: a process runs a *task* (a goal in a repository), asks
a model for tool calls, executes them, and keeps everything that happened in one SQLite
database so that another process can take the task over. This directory models the parts
of it that are hard to test: who owns a task, what becomes of the processes an owner
leaves behind, how a tool call becomes an effect exactly as often as its record says, how
a session's input and its pause and cancel requests meet the running process, what a crash
does to accounting, memory and the cached prompt, what the model gets to see, and how the
database is upgraded. Paths below are relative to `src/src/patchloop/`.

## 1. Inventory

| component | state it keeps | operations | correct means |
|---|---|---|---|
| execution ownership (`execution/ownership.py`) | the worker's guard, the heartbeat thread | acquire, renew, assert_owned, release, reconcile orphans | one owner per session; a takeover finds no process of the old owner |
| state store (`persistence.py`) | tables: sessions, turns, tasks, executions, workspace_leases, managed_commands, steps, effects, approvals, tool_calls, recovery_dispositions, control_requests, checkpoints, events | one `BEGIN IMMEDIATE` transaction per method, versions and lease guards checked inside | no write from an owner that is not the newest; what is settled stays |
| contract store (`persistence_contracts.py`) | the same rows as dictionaries, a journal | the same methods, for the service tests | keeps the promises of the SQLite store |
| agent runtime (`runtime.py`) | step loop, messages, budgets, copies of rows | run, resume, `_advance_once`, complete, fail, cancel, pause, supersede | each call executed at most once and answered once; a crash leaves no trace in counters and usage |
| effects (`execution/effects.py`) | effect rows, file digests | prepare batch, revalidate, check preconditions, reconcile | an interrupted effect is confirmed or held for a human |
| approvals (`execution/approvals.py`, `models.py`) | approval rows bound to effect, policy, config | request, decide, consume, expire | one approval, one execution, under the policy it was given for |
| recovery (`execution/recovery.py`) | dispositions | confirm, retry, abandon | the only way out of `recovery_required` |
| control (`persistence.py`, `runtime.py`) | control requests | request pause/cancel, acknowledge, clean up, settle | a request stops the task at the next boundary, and is settled |
| sessions (`session/`) | turns, submission ids, active task | append message, start, resume, close | input is consumed once, in order, before the next model request |
| sandbox (`sandbox.py`) | child processes, identities | execute, register, terminate, reconcile | a finished command is dead |
| memory (`memory/manager.py`, `semantic.py`, `episodic.py`, `compression.py`, `store.py`) | facts, episodes, sources, consumed events | ingest, resolve, compress, restore, fall back | one active fact per slot; replay changes nothing |
| working memory and retrieval (`memory/working.py`, `retrieval.py`) | items, phase events, read signatures | observe, rebalance, promote, retrieve | unresolved errors stay visible; budgets hold |
| prompt cache (`prompt_cache/`) | epoch prefix, publications, usage | prepare, publish, roll over | the frozen prefix never changes within an epoch |
| context engine (`context/engine.py`) | none | build | the window fits, and drops no more than it must |
| migrations (`sqlite_support.py`, `persistence.py`) | schema version, backups, manifests | open, back up, migrate, roll back | never half migrated, never without a backup |
| gateway, policy, tools, providers | plan gate, policy version | prepare, execute, reject | nothing denied runs |
| intelligence, observability, evaluation, CLI | none of the protocol | | |

The runtime calls the store for every step; workers interact only through the store,
the file system and the operating system. A worker has two threads (main and heartbeat).
What makes it hard: stale reads between transactions, leases that expire under a running
worker, clock readings that are old when they are used, crashes between any two
transactions, processes that outlive their owner, operators and clients who act while the
runtime runs, and results that are observed a second time after a crash. `PROJECT.json`
lists these as hazards, each at its line and with the properties that watch it.

## 2. Modules

| module | about | stands for |
|---|---|---|
| `Ownership` | leases, heartbeat, managed commands, end of a task | `execution/ownership.py`, lease and command methods of `persistence.py`, the command lifecycle of `sandbox.py`, `_with_execution_ownership` |
| `Effects` | the life of the tool calls of one task | `_advance_once`, `_execute_or_replay`, `_reconcile_effects`, `_cancel`, `_supersede_response_for_inputs`, `_complete`; effect, approval and recovery methods of `persistence.py` |
| `Session` | a session, its input, its requests and the process that runs its task | `session/service.py`, session, turn and control methods of `persistence.py`, the loop of `runtime.py` with `_apply_pending_control`, `_pause`, `_cancel`, `_complete`, `_fail` |
| `Store` | the in-memory contract store | `FakeStore` of `persistence_contracts.py` |
| `LeaseLock`, `EffectLife` | what any store promises about leases and about effects | abstract; implemented by `Ownership`, `Effects` and `Store` |
| `StepLoop` | what one step costs, counts and publishes, and what a checkpoint carries | `_advance_once`, `_execute_or_replay`, the history of `tools/gateway.py`, `prompt_cache/` |
| `Memory` | facts and episodes, their store, replay and compression | `memory/manager.py`, `semantic.py`, `episodic.py`, `compression.py`, `store.py` |
| `WorkingMemory`, `Retrieval` | operators: observation and eviction; allocation, selection, fitting | `memory/working.py`, `memory/retrieval.py` |
| `Context` | the request of a step: memory, window, answer, observation | `context/engine.py`, `_with_runtime_memory`, `_observe_memory`, the tools |
| `Migration` | opening, upgrading and rolling back a database | `_initialize`, `initialize_runtime_schema`, `_migrate_legacy_runtime_v0`, `sqlite_support.py` |
| `MC*` | instances for TLC | |
| `OwnershipProofs`, `EffectsProofs`, `SessionProofs`, `StoreProofs`, `StepLoopProofs`, `MemoryProofs`, `MigrationProofs` | theorems about the module of that name | |
| `ContextProofs` | theorems about `Context`, with the lemmas about `WorkingMemory` and `Retrieval` that they need | |

The modules meet at the store's rows. `Effects`, `Session` and `Store` use the lease that
`Ownership` models in full; `LeaseLock` is the interface: `Ownership` and `Store` are both
shown to implement it. `EffectLife` is the interface between the runtime and the effect
rows: `Effects` (SQLite, with all its processes) and `Store` both implement it. `Context`
composes `WorkingMemory` and `Retrieval`; what it calls the tail is what `StepLoop`
publishes; the records it retrieves are the facts and episodes of `Memory`.

### Ownership

A store method is one action, because `connect_write` opens a `BEGIN IMMEDIATE`
transaction. `acquire` is several: it reads the clock once (`wk[w].now`), lists and
reconciles orphans, claims, lists and reconciles the workspace's orphans, acquires the
writer lease, and rolls back on a failure; a `Tick` may fall between any two, so the
reading may be stale. `renew` is two transactions with one reading (`hb[w].now`).
`Popen` and the registration of the process are two steps, and a crash may fall between
them; the process then is in `alive` and in no row of the table (status `spawned`).
`covered` is a history variable: commands registered while the writer lease was valid.
Execution ids and lease tokens are fresh uuids and are one set, `ExecId`. The statuses
`claimed`, `waiting_for_approval` and `paused` are as active as `running` for every
guard, and no action of this module produces them (Effects and Session do).
Generations are chosen with `\E g : IsNextGeneration(t, g)`, which has one solution.

### Effects

One task. The lease appears as `owner`: a guarded method requires `owner = w`, which
`SessionExclusive` and `FencedWrites` justify. `LeaseExpires` stops a worker at its next
guarded write or assertion; at the points in `Unchecked` nothing stops it, and it goes on
as a zombie: into the backend, into the session (the completion turn has no guard), or to
the control request. What a worker read is in `wk` (`seen`, `todo`, `upto`) with its
version. A read of the pending control and the pending input followed by a read of the
effect row is one action: the operator's writes in between commute with the second read.
Files have three contents: `target`, the digest that the call writes, and two others. An
effect's row keeps the content that it expects (`base`): what the file held when the batch
was prepared, or the target, if the file had it already (a no-op write) or an earlier call
of the batch writes it. While an effect is prepared or executing anybody else may write
any content into its file, the target too (`FileEdited`). Reconciliation looks at the
digest alone, as the code does, so it confirms effects that never ran (section 3).
`Assessment` gives the gateway's decision per policy version; a worker
keeps the version it loaded. Whether an earlier failure blocks a repetition depends on its
kind, which is left open, so `BlockedRepeat` may or may not happen.

Left out: pause (Session); reads that are skipped as duplicates (Context);
pre-authorisations; the branches `a persisted result exists for an EXECUTING effect`,
`UNKNOWN without a disposition at reconcile` and `not executable from state`, which no
state of the model reaches (`UnknownHeld` and the guards of the claim exclude them). A
file has one call that writes it; that another call or another task writes it is an edit
by somebody else. The content of a file that no open effect is about is not changed:
nobody reads it before the next effect is prepared.

### Session

One session. A client command reads a row and then writes with the version it read;
`client` keeps the command and whether that version is still current, so every version
race is there. A process loads the task and its checkpoint (`LoadTask`), claims the
execution, runs or resumes, checks for control requests and input at the boundaries the
code checks them, and writes with the guard `Owned(w)`. Tool calls are one action
(`ToolsDone`), since Effects has their detail; a response is `"tools"` or the text of a
final answer. The lease of a dead process expires (`OrphanExpires`); a live one may lose
its lease too (`LeaseExpires`, one of the bounded faults). The completion turn has the
task's id as its submission id, so an answer refused as a second submission is there.

### Store

Every guarded method of `FakeStore` is an action; a call that raises changes nothing and
is no step, except the claim of an execution, which expires old executions before it
raises (`ClaimRefused`, whatever it raises for). The effect methods `claim_effect`,
`commit_effect`, `settle_unexecuted_effect` and `mark_effect_unknown`, and
`commit_checkpoint`, call `_assert_guard` only, so that the owner of any task of the
session may write the effects and the checkpoint of another (`Guard`); the other methods
compare the task too (`GuardFor`). Time is only whether a lease is live, that of a
released execution included. `rows` counts journal rows; `sess.seq` is the counter that
the code keeps.

### StepLoop

One task over its steps. Durable: responses, results, the checkpoint. A process may die
between any two of them (`Crash`, `Resume`). `asked` and `seen` are history variables: the
requests that were sent, and the prefix and publications last sent in each epoch. A
response has at most one call, whose result is one of a few outcomes; tokens count one per
response. Memory projections are small sets of items.

### Memory

A call is its position in the run; `StepLen` calls make a step. A result is persisted,
then ingested (facts and episode saved in one batch), and the manager's snapshot is saved
at the end of the step. After a crash a new manager is made from the snapshot and the
store's records, and the open step's results are ingested again. A file is one slot. The
store may fail at any call, which switches the manager to its fallback for good; when only
the second read of a restore fails (`list_sources`), the semantic manager keeps the records
of the first. The kind of an error is left out: a call that is known to have failed is
blocked or, as a failure of another kind than the four of `_BLOCKABLE_FAILURES` allows, is
executed again.
Compression and roll-up happen at the thresholds, with any subset of the candidate groups
accepted by the validation of their summaries.

### WorkingMemory, Retrieval, Context

Texts are token counts. `Observed` is `observe_tool`; `Rebalanced` evicts in the order of
rank, step and name. `PromoteItem` and `PromoteVerification` queue a promotion under its
key; `promoted` is the history of all of them (the items of one plan in the order of their
numbers), and `Recalled` the last `MaxKeys` keys, shared by plan items and verifications,
which are all that the code keeps (256). `Retrieve` follows `retrieve` through allocation, candidates, greedy
diverse selection per layer, global diversity and `_fit_render`; scores are hundredths with
the parts that depend on state computed. `Context` alternates `Assemble` (retrieve and
build the window), `Respond`, and a tool call that is observed. `failing` and `outdated`
are history variables. Sizes are scaled down from thousands of tokens to 30, with the
proportions of the code (40 % for memory, of it 50/30/20). A plan item's status `failed`
is handled as `pending` is, and left out. Budgets below 256 tokens, whose rendering leaves
parts out, are not modelled.

### Migration

Processes open one database. `BEGIN IMMEDIATE` admits one; its transaction is private
until it commits, and is undone by a failure or a crash. The backup is copied, then its
manifest is written; the versions follow one by one, and the legacy migration goes task by
task. The initial database is fresh, legacy, of an intermediate, the supported or a newer
schema, with any row those programs leave. Rollback is an operator's: it validates,
preserves the upgraded database under an exclusive lock, and restores under another one.
That execution and writers are stopped is what its caller promises
(`execution_and_writers_stopped`), hence the guard `WritersStopped`. An older program may
write while the schema is below 2.

## 3. Runs

Every passing run ends with no state left on the queue. The runs list one type invariant,
that of `Ownership`; section 4 says which of the others are proved. Deadlock is checked for
`migration`; elsewhere a task that has ended, with the bounds on ids, faults and time used
up, has really stopped.

| run | instance | shows |
|---|---|---|
| `ownership_session` | one session with two successive tasks, a writer and a reader, 2 executions, 1 command, TTL 2, clock to 3 | `TypeOK`, one owner (`SessionExclusive`), fencing (`NewestIsActive`, `FencedWrites`), `TaskTakeoverClean`; `LeaseContract`: the leases implement `LeaseLock` |
| `ownership_ws` | 2 sessions in one workspace, a writer each, 2 executions, 1 command, clock to 3 | `WorkspaceTakeoverClean` (for covered commands), `LeaseNesting`, `WorkspaceHandover` |
| `effects_takeover` | 2 workers, a file write and a command, edits of the file by others, an initial content that may be the target | no effect runs twice (`AtMostOnce`); unknown effects hold the task (`UnknownHeld`); `SucceededRan`: an effect becomes succeeded because it was invoked, an operator confirms it, or its file holds the target content at that moment; `EffectContract`: the rows implement `EffectLife` |
| `effects_policy` | 1 worker that may crash and come back, the same command twice, 1 user turn, 3 policy versions | `ApprovedBeforeRun`, `ClaimIsCurrent` and `UnexecutedDidNotRun` while the policy is tightened |
| `session_life` | 1 process that may crash or lose its lease, 1 task, 1 user turn sent any number of times, 2 requests, 2 steps | `SlotHoldsActiveTask`, `NoInputSkipped` (no turn skipped, repeated or out of order), `ControlTruthful` (a settled cancel and a paused task are what they say), `OneTurnPerSubmission`; `TaskEnds` under fairness |
| `session_control` | the same with one request | violation: `ControlsClose` |
| `store` | 2 tasks, an allowed effect of the first and its retry, 2 executions, 1 command, 1 request, 6 events and one for each task started | `JournalExact` (with the cursors of the checkpoints), `RowsVersioned`; both contracts, although the owner of the other task may claim and settle the effect |
| `memory` | 1 file, 2 values, 4 calls in 2 steps, 1 crash, 1 store failure, compression at 3 and roll-up at 2 | `ChainsLinked` (one active fact, links, authority), `EpisodesAsUninterrupted`, `StoreComplete` (nothing lost, open failures retrievable) |
| `memory_replay` | the same without store failures | violation: `ReplaySafe` |
| `steps` | 3 steps, 3 tokens, all budgets small enough to be hit, 1 crash, 3 projections | `UsageExact`, `CountersAsUninterrupted`, `VerifiedMeansTested`, `PrefixGrows` (cached prefix and publications) |
| `context` | 2 files, 2 plan items, 6 records, 3 steps, 30 tokens, 2 promotion keys | `ErrorsVisible`, `SkippedReadsFresh`, `PhaseOnce`, and all budgets (`SelectionValid`, `WindowSound`) |
| `migration` | 2 processes, 1 task, schemas 0 to 5 with 4 supported, 2 crashes, 2 failures, 2 writes, 2 rollbacks | `NeverHalfMigrated`, `NothingLost` (upgrade and rollback), `OpensInTheEnd` |

Bounds. Two executions are one takeover; TTL 2 is the least at which a reading can be
stale by one tick and the lease still valid; a clock of 3 lets a lease be renewed and
still expire. Two effect ids give a batch of two, or a call and its retry. Three policy
versions let a call that was allowed need an approval, and one that was approved be
denied, while a worker still holds the version it loaded. Two requests in `session_life`
give a pause followed by a cancel, and a request that meets an earlier one left open; one
fault is a crash or a lost lease at any point. Seven journal events are enough for
the longest life of an effect and its retry, and the eighth, once both tasks are started,
for the owner of the other task to claim an effect of the first, to settle it unexecuted or
to write its checkpoint (its commit comes one event later, and is left to the theorem
`LifeRefined`). In that part `Store` begins no new turn, request, renewal, plain event or
command (`SideBound`); with one task they come at any point. Four calls reach a summary and a roll-up, and a
crash inside the second step. Three steps are a failure, its repetition and the step that
hits the limit. In `context` three steps overflow the working memory and the history at
the given sizes, and with two remembered keys an item is promoted again; the prefix sizes leave memory its full share or a fraction of it. In
`migration` two crashes can hit two openers, or an opener and a rollback.

Symmetry is used for interchangeable workers and fresh execution ids, in runs without
liveness properties only.

### Fairness

`FairSpec` of Session: weak fairness of each process's own next step (the code does not
block except on the provider, whose failure is a step), of somebody resuming an active
task (`LoadTask` is part of a process), and of the expiry of a dead process's lease, which
is the passage of time. Clients, crashes and lost leases are not fair, and the faults are
finitely many. `TaskEnds` says which states are left: a task ends, or stays blocked by a
pending recovery, an open request, a missing checkpoint or a refused answer.

`FairSpec` of Migration: weak fairness of each opener's steps, a user's next attempt
included, and of a rollback that has begun. Failures and crashes are finitely many.

### Disagreements with the documentation

Two have a run that expects the violation, and a finding with the quotations; `PLAN` is
`src/docs/SESSION_RUNTIME_FOUNDATION_PLAN.md`.

* `session_control` (`runtime.py:1683`): a cancel that is pending when a process resumes
  is applied before the prompt cache is restored; building the report raises, the request
  stays acknowledged, and every further resume does the same.
* `memory_replay` (`memory/semantic.py:491`): the first call of a step, observed again
  after a crash, supersedes the fact that superseded it; the chain check raises and the
  resume fails.

Others follow from the code as modelled, and are written down here so that they are not
rediscovered.

* An executing file effect is confirmed from the current digest of its file
  (`execution/effects.py:215`). If its owner died before the backend, and the user, another
  task or an earlier call wrote that content, or the write was a no-op, the effect is
  recorded as succeeded without having run. `PLAN:145` asks for a proof of the execution
  beside the digests; `PLAN:517` describes the digest alone. The file is as wanted either
  way; what is false is the record of who wrote it. `SucceededRan` is what does hold.
* With a second process, `NoInputSkipped` fails: `SessionService.resume` loads the
  checkpoint before the claim (`session/service.py:213`), so that a process which loaded
  early resumes from an older checkpoint with the newer response of the step, and takes
  the turn that this response had seen for shown (against `PLAN:182`). `session_life`
  therefore has one process, and the theorem names the condition (`LoadedAlone`).
* `renew` extends the execution lease and then the writer lease; a command can be
  registered under the first after the second has passed on (`execution/ownership.py:299`,
  against `PLAN:117` and `PLAN:461`). `WorkspaceTakeoverClean` is what does hold.
* Newer input after a resume closes a step without the tool messages of calls that were
  executed before it (`runtime.py:1049`, against `PLAN:181` and `PLAN:523`).
* A failed cleanup leaves a task that needs recovery and has no unknown effect to dispose
  of (`runtime.py:2624`, against ADR-020).
* An approved retry of a call that the policy allows is denied, because the persisted
  decision of a retry is `require_approval` (`execution/effects.py:174`, against `PLAN:538`).
* An effect whose approval expired cannot ask again; the task fails
  (`persistence.py:2141`, against `PLAN:143`).
* A cancel that meets a blocked repetition cannot settle it, and the task fails
  (`runtime.py:1324`).
* A crash between the completion turn and the end of the task makes the next owner take
  the agent's own answer for newer input, and a different second answer is refused
  (`runtime.py:937`, against `PLAN:612`). `Blocked` in Session names the state.
* The plan of a persisted `update_plan` result is not applied again when the result is
  replayed after a crash (`runtime.py:1142`, against `PLAN:605`).
* A crash between the persisted `running` status and the first checkpoint leaves a task
  that cannot be resumed; a request filed after the last check, or left by a crash before
  `settle_control`, stays open on the ended task.
* The usage of an epoch's compression request is lost when the process dies before the
  checkpoint of the step; a memory delta A→B→A→B is published once; a delta above its
  limit fails the task as a provider error.
* A failing test after a passing one is refused as evidence (observed ranks below
  verified); a compressed episode that is replayed is active beside its summary.
* A read is skipped as unchanged although a command, a user or another spelling of the
  path changed the file, or its content has left the window (`memory/working.py:261`);
  `SkippedReadsFresh` is about one spelling and the write tools.
* Working memory remembers the last 256 promotion keys (`memory/working.py:489`), those of
  verifications among them: an item that is still completed in a plan update after 256
  other promotions is promoted again (a task has up to 1000 steps). `PhaseOnce` is what
  does hold: its phase then has other actions, and that many promotions lie between.
* Among the recent steps relevance comes before newness, so the newest step may be the one
  that is left out (`context/engine.py:155`); below 640 tokens of context the working
  memory's least budget exceeds its share of the retrieval, and it is truncated.
* `FakeStore` differs from the SQLite store where `Store` shows it: a refused claim has
  expired executions; the effect methods and `commit_checkpoint` do not compare the guard's
  task with the task of the effect (`persistence_contracts.py:1440`, `1520`, `1600`, `1673`,
  `1993`), so that the owner of another task may write it (the effect's life is still that of
  `EffectLife`, in `store` and as a theorem); and a second `mark_effect_unknown` repeats the
  event id.

## 4. Proofs

TLAPS checks the theorems below for every value of the constants: any sets of workers,
sessions, tasks, effects, processes, files and records, any TTL, and any budgets, sizes
and bounds, those on crashes and on time included. Every safety property that a run checks
is the conclusion of a theorem. Each inductive invariant was first checked by TLC on the
instance of the module's run. The proof that a step keeps an invariant has one lemma per
action, or one per table that the actions write.

**Ownership** (`OwnershipProofs`).

* `TypeCorrect`: `Spec => []TypeOK`;
* `ShapeCorrect`: the inductive invariant `Shape = TypeOK /\ ExecShape /\ WorkerShape`:
  an unused row has no task, an active row has one, and a worker past its claim names an
  existing row of its own task. `TypeOK` alone is not inductive: a guard `GuardOK(e, at)`
  must imply that `e` is a row with a task before a released row or a finished command can
  be typed;
* `SessionExclusion` and `GenerationFencing`: only `Claim` makes an execution active
  (`OnlyClaimActivates`), and it releases the session's other active rows and takes the
  next generation in the same transaction;
* `Fencing`: `Spec => FencedWrites`. Besides `Shape` and `NewestIsActive` it needs
  `SpawnShape` (a worker about to register holds a spawned command of its own execution)
  and the two facts that only `Complete` ends a task and only `Register` registers.
* `LeaseInvariant`, `WriterNests` (`LeaseNesting`), `WriterHandover`
  (`WorkspaceHandover`). `LeaseInv` says what the two transactions of `renew` and the
  steps of `acquire` rely on between them: readings of the clock are not ahead of it
  (`Owners`), and the execution's lease ends at the reading plus the TTL when the writer
  lease is about to be taken or extended from the same reading (`Extensions`). Without
  `Extensions` the writer lease could outlive the execution's.
* `TakeoverInvariant`, `CleanTakeover` (`TaskTakeoverClean`), `CleanWorkspace`
  (`WorkspaceTakeoverClean`). `Known`: an owner knows its running command unless its
  cleanup failed, and then the task needs recovery; an execution that was released with a
  running command has expired. `Found`: a worker that may still claim, because the task's
  version is the one it read, has every running command in its list, or the command's
  execution still blocks the claim. `FoundInWorkspace`: the same for the writer lease.
* `LeaseRefined`: `Spec => LeaseContract`.

**Effects** (`EffectsProofs`).

* `ShapeCorrect` and `ProtocolInvariant`. `RowInv` relates an effect's status to its
  approval and to how often it ran; `HolderInv` and `OneHolder` say that between the claim
  and the invocation one worker holds an effect that has not run, lease or no lease;
  `OwnerInv` that the owner's copy of a row is current, or stale only where the
  version check sees it. `UnknownHeld` is inductive only together with `OneUndisposed`: a disposition frees
  the task, so there must be one unknown effect to dispose of.
* `AtMostOnceHolds`, `UnexecutedHolds`, `ApprovalHolds`, `UnknownHolds`, `SucceededHolds`
  and `ClaimHolds` state the properties of the passing effects runs, with any number of
  workers and zombies, and whoever else writes the files. `SucceededHolds` goes through the
  steps that end an effect (`StatusSteps`): a commit follows the one invocation, a
  disposition is an operator's, and what `reconcile_effect` confirms has the target content.
  `LifeRefined`: `Spec => EffectContract`.

**Session** (`SessionProofs`).

* `SessionInvariant`, `SlotHolds` (`SlotHoldsActiveTask`), `TruthToUser`
  (`ControlTruthful`). `WorkingOf` is what every process knows of its task and its
  request, `OwningOf` what only an owner knows, and `AcknowledgedOf` that the request an
  owner is applying stays acknowledged: `settle_control` has no guard, and a process that
  lost the lease before it settles finds its request closed already.
* `SubmissionOnce` (`OneTurnPerSubmission`), from an invariant of its own about turns.
* `InputShown`: `Spec /\ []LoadedAlone => []NoInputSkipped`. `LoadedAlone` says that no
  process holds a checkpoint it loaded for a resume while another one, as the owner, is at
  work; the code does not ensure it, and without it the property is false (section 3). It
  allows any number of processes, crashes, lost leases, and former owners that are still
  at work beside the next one. `InputShownAlone` is the case of one process, as in the
  run. `Saves` adds to the property that what came after the consumed sequence is
  addressed to the task, as long as the task is active: this is why the filter of
  `list_turns` loses nothing. `Answers` says that a persisted response belongs to a step
  that its checkpoint has reached, and that the one of the next step has seen exactly what
  the checkpoint shows; `Copy` that the owner's snapshot is the saved one.

**Store** (`StoreProofs`).

* `StoreInvariant`, `TypeCorrect`, `JournalHolds` (`JournalExact`), `VersionsHold`
  (`RowsVersioned`). `TablesInv` has the references between the dictionaries, which no
  schema enforces here, and that an effect is one of a task that was started
  (`EffectsHome`): the methods that any owner may call rely on it; `Numbered` that the
  generations of a task have a greatest one.
* `LifeRefined` and `LeaseRefined`: the in-memory store implements `EffectLife` and
  `LeaseLock`. With the theorems of the same names above, both stores are proved to keep
  the two contracts.

**StepLoop** (`StepLoopProofs`).

* `StepInvariant` and, from it, `UsageHolds` (`UsageExact`), `CountersHold`
  (`CountersAsUninterrupted`), `VerifiedHolds` (`VerifiedMeansTested`) and `PrefixHolds`
  (`PrefixGrows`). `Places` and `Records` say what is persisted at each point of a step,
  `Same` which fields the process and the checkpoint share there, and `Counters` gives the
  counters of both as functions of the persisted responses and results of the first `n`
  steps. `UsageExact` alone is not inductive: when the pending mark is cleared, an earlier
  lost request of the step must be in `unknown` already (`Lost`). `Epochs` relates what was
  sent, what the checkpoint has and what the process has; that the deltas rebuild the
  published memory rests on the uniqueness of the replay, proved by a least
  counterexample.

**Memory** (`MemoryProofs`).

* `FactsChained` (`ChainsLinked`). `Chains` holds of the store at every moment. The store
  resolves the drafts of a batch one by one, by recursion; the lemma about it says that
  the result is chained or the batch clashes and is rolled back (`save_batch`), so that a
  replay which fails leaves the chains as they were.
* `EpisodesReplayed` (`EpisodesAsUninterrupted`). `Progress` says that the snapshot and the
  checkpoint know exactly the first `n` results, and that open failures and the last
  verification are those of `Uninterrupted(n)`, which is defined by recursion on the
  results.
* `StoreNeverLoses` (`StoreComplete`). `Stored` adds that the checkpoint's events are
  covered too: a compression after it must not take what a process that restores it needs.
* `TypeCorrect`.

**Context** (`ContextProofs`).

* `StepsInvariant` and, from it, `ErrorsStayVisible` (`ErrorsVisible`), `SkipsAreFresh`
  (`SkippedReadsFresh`) and `PhasesPartition` (`PhaseOnce`). `Sound` is kept by each
  operator of `WorkingMemory` on its own: one entry per kind and name, and `Phases`, that
  the promoted phases are disjoint and the events still in the log belong to none of them,
  so that an item which is promoted again, its key forgotten, takes other actions. Eviction
  takes neither a pinned entry nor an error.
* `WindowsFit` (`WindowSound`): the recursion over the ranked steps stays within the
  budget at each of them, and a step is left out only if those ranked before it leave no
  room.
* `SelectionsValid` (`SelectionValid`): each turn of the selection takes the best
  candidate that fits, the chosen ones of a layer stay within its budget, the pass over
  all layers keeps at most `PerKey` of each diversity key, and the fitting leaves a record out
  before any snapshot of the working memory. The budget of the layers and the sizes of
  the rendering are the arithmetic of `Allocate` and `RenderTokens`, for any sizes.
* `TypeCorrect`: with it, a working memory is above its budget only in a step that fails.

**Migration** (`MigrationProofs`).

* `MigrationInvariant`, `TypeCorrect`, `NeverHalf` (`NeverHalfMigrated`) and `NoLoss`
  (`NothingLost`). `Transactions` ties the write lock to one private transaction, equal to
  the database until the first migration; inside it the database may be `Halfway`, and it
  is `Whole` again whenever it can be committed. `WholeFiles` and `Rollbacks` carry this
  to backups and preserved databases.

The assumptions are the named `ASSUME`s of the modules: a positive TTL, natural bounds,
total maps, a supported schema of at least 2, and `None` outside the sets it is added to;
`EffectsAssumption` gives the fixed policy table and the calls that write files; `MemoryAssumption` and `NoneAssumption` that there are finitely many files and that
`None` is no id; `TokensAssumption`, `WorkingAssumption`, `RetrievalAssumption` and
`ContextAssumption` that sizes are natural numbers, an entry costs at least one token,
names are numbers (only their order matters) and records are finitely many with distinct
ids. TLC evaluates them in every run.

Recursive definitions of the modules are recursive functions over an interval. A lemma
shows that the function exists (a least counterexample), and another, again by a least
counterexample, what its value at each index is; the theorems of the library about
induction are not used.

Only model-checked:

* liveness under fairness (`TaskEnds`, `OpensInTheEnd`), and the violated `ControlsClose`
  and `ReplaySafe`;
* that a reachable state satisfies the hypotheses of the theorems: the runs start from
  `Init` on the instances of section 3.

The type invariants of Ownership, Store, Memory, Context and Migration are proved, and
Effects has its own inside `ShapeCorrect`. The proofs of Session use `Shape`, which leaves
out the bounds of its type invariant: these are the counts of turns and steps that the
actions have as guards.

## 5. Not modelled

* Code intelligence, observability, evaluation and the command line: no state that another
  part depends on.
* The HTTP transport of the providers, process trees of the platforms, SQLite: pure I/O or
  external; what the code relies on is stated in the modules that use them.
* Pre-authorised approvals, path and command rules of the policy, and the edit algorithms
  of the write tools: pure functions of one call.
* The unguarded legacy methods of the stores (`prepare_effects`, `decide_approval`,
  `commit_tool_result` without a guard), which the runtime does not call.
* Wall-clock budgets, the legacy prompt layout, wording and redaction of texts.
* The JSON-lines trace (`events.py`), which nothing reads back at run time; after a crash
  in the middle of a line the whole trace is unreadable.

## 6. Plan

What is left to model is the periphery of section 5. The parts that are modelled have
their safety properties proved; what would say more is

* a weaker condition than `LoadedAlone` that the code could ensure, by loading the
  checkpoint after the claim (`session/service.py:213`), and the same theorem with it;
* the bounds of Session's type invariant, which count the user's turns and the answers;
* the two disagreements of section 3 that have a run, as passing properties once the code
  has changed.
