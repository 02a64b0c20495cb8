# Formal models of duroxide

duroxide is a durable-execution runtime: orchestrations are async Rust functions
that are replayed from an event history, activities are executed by workers, and
all the state that must survive a crash is in a provider (SQLite or Turso).  This
directory models the protocol by which the runtime processes share that provider,
the provider's operations themselves, the life of the orchestration instances on top
of it, and the replay of their code.

| module | what it is |
|---|---|
| `DurableInbox` | abstract specification: what is promised about the messages of an instance |
| `OrchestratorQueue` | orchestrator queue, instance locks, orchestration dispatchers |
| `OrchestratorQueue_proofs` | its inductive invariant, safety theorems, refinement of `DurableInbox` |
| `WorkerQueue` | worker queue, sessions, worker dispatchers, activity managers |
| `WorkerQueue_proofs` | its inductive invariants, safety theorems, limits |
| `Lifecycle` | executions, continue-as-new, activities, timers, children, event queues, cancellation |
| `Subsequence`, `Subsequence_proofs` | selecting rows of a table in their order, and lemmas about it |
| `Lifecycle_proofs` | inductive invariant of `Lifecycle`; completions and activities |
| `LifecycleChildren_proofs` | inductive invariant on top of it; starts, continuations, children |
| `LifecycleQueues_proofs` | another one; event queues over turns and continue-as-new |
| `ReplayEngine` | the turns of one execution: replay, matching, durable futures, quiescence |
| `ReplayEngine_proofs` | its inductive invariants: where the loop is; what the code has been given |
| `Provider` | every operation of the provider as a function on the tables |
| `InstanceData` | key-value store, custom status, deletion and pruning, interleaved |
| `InstanceData_proofs` | its two inductive invariants and safety theorems |
| `Validation`, `ValidationKv`, `ValidationSessions`, `ValidationQueues`, `ValidationHistory`, `ValidationAdmin` | the repository's provider validation suite as scripts against `Provider` |
| `LockRenewal` | the renewal interval as arithmetic |
| `MCWorker`, `MCLifecycle`, `MCReplay`, `MCInstanceData`, `MCValidation` | instances for TLC (`OrchestratorQueue` needs none) |

Check a run with `tlc -config <cfg> <module>` as listed in `PROJECT.json`, and the
proofs with `tlapm` on the modules `..._proofs`.

## 1. Inventory

Paths are relative to `src/src/`.

**Provider tables** (`providers/sqlite_common.rs`; `sqlite.rs` and `turso.rs` only
set up connections and retries).  `orchestrator_queue` (messages: visible_at,
lock_token, attempt_count), `instance_locks`, `instances` and `executions`
(current execution, status), `history`, `worker_queue` (activities: visible_at,
lock_token, locked_until, attempt_count, session, tag), `sessions` (owner,
locked_until, last_activity_at), `kv_store`/`kv_delta`, custom status.  Operations:
enqueue, fetch / renew / abandon / ack for both queues, renewal and cleanup of
sessions, deletion and pruning, queries.  Each one is a transaction (for the one
exceptions see 8 and 11).

**Orchestration dispatcher** (`runtime/dispatchers/orchestration.rs`).  N slots that
fetch an instance with all its visible messages, check the pinned version, the
attempt limit and whether the instance is terminal, run a turn, and ack: delete the
batch, append history, enqueue activities, messages and timers, cancel activities.
State: the fetched item, a background task that renews the lock.

**Worker dispatcher, activity manager, session manager**
(`runtime/dispatchers/worker.rs`).  M slots that fetch an activity, check the
attempt limit, run the handler while a manager renews the lock, and ack with a
completion.  A failed renewal is read as a cancellation.  Activities of a session
go to the runtime that owns it; a runtime owns a limited number.

**Execution lifecycle** (`runtime/execution.rs`, `runtime/state_helpers.rs`).  From a
batch and a history to the effects of a turn: start or next execution, cancelled,
continued, completed, failed, going on; answers to a parent; carry-forward of event
queue messages; cancellation of what is outstanding.

**Replay engine and durable futures** (`runtime/replay_engine.rs`, `lib.rs`).
Turn messages into events (filter by execution, deduplicate, detect
nondeterminism), replay the history against the code, collect new actions and
dropped futures.  Stateless between turns.

**Client** (`client/mod.rs`).  Enqueues starts, events, queue messages and
cancellations; everything else reads.  **Runtime** (`runtime/mod.rs`).  Starts and
stops the dispatchers; keeps the only in-memory state that outlives a turn, the map
`current_execution_ids`.  **Others**: registries (immutable), limits (constants),
observability, provider validation and stress tests.

Interactions: everything goes through the tables.  An orchestration ack inserts into
both queues and deletes from the worker queue (cancellation by *lock stealing*: the
worker notices that its row is gone); a worker ack inserts a completion into the
orchestrator queue; sub-orchestrations talk through messages.

Hard behaviours: a lock may expire under its holder, who goes on and acks late; a
process may die or stall anywhere; renewal tasks run beside the work; a storage
error looks like a lost lock; messages arrive between a fetch and its ack;
abandonment hides rows and delays them past later ones; answers arrive for
executions that are over; several slots of a runtime race for sessions.  The
hazards, each with its line, are in `PROJECT.json`.

What makes the parts correct: a message is consumed by one committed turn and never
lost; whoever holds a lock works on what the tables hold; an activity is reported at
most once, not after its cancellation, and in the end; sessions stay on one runtime;
retries are bounded; an execution only sees its own answers; event queues are FIFO
and survive continue-as-new; a parent hears of its children.

## 2. Plan

1. `OrchestratorQueue` with its abstract specification `DurableInbox`: done, proved.
2. `WorkerQueue`: done, all its safety proved.
3. `Lifecycle` on top of both (a turn is one step, justified by 1; an activity ends in
   one step, justified by 2): done, all its safety proved.
4. `ReplayEngine`: what happens inside a turn, which `Lifecycle` leaves to a free
   choice: modelled and checked; all its safety proved for the scenarios in which it
  holds.
5. `Provider` as one function per operation, checked against the validation suite,
   and `InstanceData`, which interleaves the statements of its operations: done, all
   the safety of `InstanceData` proved.
6. `LockRenewal`: proved.
7. Left: nothing that the prover can reach; see the end of 9 for what stays with TLC.

Composition: `Lifecycle` uses queue rows and activities at the granularity that 1
and 2 justify, `InstanceData` takes its statements from `Provider`, and `ReplayEngine`
refines the code that `Lifecycle` chooses freely.  Runs stay within minutes by giving
each question its own small instance.

## 3. Orchestrator queue

`queue`, `locks`, `hist`, `known` are tables; `pc[d]`, `item[d]` what a dispatcher
keeps between transactions, so it may be stale.  `Fetch`/`Lease` is
`fetch_orchestration_item` (lowest row id first, whole batch locked and its attempts
counted; rollback without a context; `DropOrphans`), `Renew` the renewal task,
`Abandon` hides the rows, `Commit`, `AckTerminal`, `Poison`, `FailureAck` are the
acks of `process_orchestration_item`, each with its `...Rejected` twin for an expired
or stolen lock.  `Crash`, `Stall` (the renewal task stops) and ack errors are faults
with named bounds.  A history is the sequence of committed turns with the rows each
consumed.  Time is a countdown (`Tick`), so that expiry can happen in any order with
the rest.

| property | what it says of the code |
|---|---|
| `FreshItem` | while the token in the lock row is the dispatcher's, the history and the rows it fetched are those in the tables |
| `ConsumedOnce` | no message takes part in two committed turns |
| `TurnsStopAtTerminal` | no turn is committed after a terminal event (only a runtime failure) |
| `NoMessageLost` | a row leaves the queue only consumed by a committed turn or by a permitted discard |
| `AttemptsBounded` | a turn is committed only on messages fetched at most `max_attempts` times, by whomever: the oldest message of a batch counts, not the newest |
| `InboxSpec` | all this implements `DurableInbox` |
| `EveryMessageHandled` | under fairness every message of a started instance is handled |

Runs: `queue_safety` (2 dispatchers, 2 instances, 3 messages, lock of 2 ticks, one
crash or stall, one ack error, stray messages, an unsupported version: enough for
expiry, takeover, a late ack and a retry of the same message); `queue_live` (one
dispatcher, 3 messages, one fault); `queue_stray_cancel` (violation, see 7).
`MaxTokens` bounds tokens referenced at one time, since tokens nobody refers to are
reused; `MaxAttempts` is 1, because what matters is the first step over the limit.
Deadlock checking is off: the bounded numbers of messages let the system stop.

Fairness (`queue_live`): weak, on each dispatcher's next step, on renewal and on
time.  The dispatcher loop polls again after every outcome, the renewal task is a
loop on a timer, and storage operations return.  `RenewalDue` keeps `Tick` from
passing a renewal: the interval is lock timeout minus buffer, so a live task renews
before the expiry; a task that does not is `Stall`.

## 4. Worker queue

`queue` and `sessions` are tables; `pc[w]`/`item[w]` follow `process_next_work_item`
(`Poll`, `Fetch`, `Guard`, `Overflow`, `DropGuard`, `GiveBack`, `Poison`, `Start`,
`Unregistered`, `Finish`, `Stop`, `AckResult`, `AckNone`, `AckFailed`,
`AbandonFailed`); `Renew`, `Signal`, `RenewError`, `Stall` are the activity manager,
`RenewSessions`, `CleanupSessions`, `StopManaging` the session manager, `Schedule`
and `Cancel` the orchestration acks.  `Late` is a slot that takes longer for the few
statements around the handler than its lock lasts; it counts as a fault.

| property | what it says of the code |
|---|---|
| `ReportedOnce` | at most one completion per activity, whatever expired or was retried |
| `NothingForgotten` | a row that is gone was reported, dropped by the cancellation branch, or cancelled |
| `NoReportAfterCancel` | no completion is enqueued after the cancellation committed |
| `LockKept` | a renewed lock is lost to a cancellation only |
| `StartsBounded` | at most `max_attempts` invocations of a handler, also with uncounted abandonments |
| `SessionLimit` | a runtime never runs activities of more sessions than its limit |
| `SessionsPinned` | while its manager renews, a runtime owns the session of every activity it holds, and the session does not get idle before that activity's lock expires |
| `SessionAffinity` | valid locks on activities of one session have one owner, while managers renew |
| `DropsOnlyCancelled` | no slot drops, without a completion, an activity that is wanted: a lost lock does not count as a cancellation (a storage error of a renewal does, see 10) |
| `EveryActivityEnds` | if handlers return, every activity some slot accepts is reported or cancelled |
| `CancelledStops` | a handler that never returns does stop after its cancellation: signal, grace period and abort follow, unless its activity manager has died (`Stalled`) |

Runs: `worker_safety` (two processes, two activities, two faults, no sessions),
`worker_affinity` (two processes, one session), `worker_session_limit` (two slots of
one process, two sessions, limit 1), `worker_live` (tags, one session, two faults).
Fairness: weak, on each slot, each activity manager, each
session manager and time, for the same reason as above; nothing is assumed of
handlers (`HandlersReturn` is a hypothesis of one property) nor of the cleanup sweep.

## 5. Lifecycle

`inst[i]` is what the history of the current execution says: number, status, parent
link, schedules with their completion, arrivals on the event queue, how many were taken
and how many dequeues are `waiting`: neither answered nor recorded as cancelled.  What
the code drops in a turn is recorded as cancelled at its end, except when the turn
continues as new: then dequeues that it dropped, and even those it made and dropped in
that turn, still count as waiting, and each takes a message out of what is carried on
(`Unmatched`).  `inbox[i]` are the rows of the orchestrator queue in id order, `work` the
rows of the worker queue, `tracked[r]` the map `current_execution_ids` of a process.
`eaten`, `abrupt`, the field `from` of a link and `idle` of a `ContinueAsNew` (the
dequeues left waiting) serve to state properties only.
Selections of rows (`SELECT ... WHERE ... ORDER BY id`) are `Pick` of `Subsequence`, a
sequence at a set of positions: unlike `SelectSeq` it is not recursive, so that the
provers can reason about it.

A turn is one step on a batch: the visible rows among the first `n`, where what lies
beyond `n` arrived between the fetch and the ack; `old[i]` is how many rows were
there after the last turn, which the fetch cannot have missed.  `prep_completions` is
`Considered`, `Materialized`, `Unexpected`, `Aborts`; user code is a free choice of
schedules, drops, dequeues and result; the outcomes, in the precedence of
`finalize_turn`, are `FailTurn` (nondeterminism or a system error), `Panic`,
`CancelTurn`, `ContinueAsNewTurn`, `ReturnTurn`, `ContinueTurn`.  Around them:
`AckEnded`, `Abandon`/`Reappear`, `Poison`, `FailureAck`, `Restart` of a process,
clients, timers and activities.

| property | what it says of the code |
|---|---|
| `OwnAnswersMatch` | a completion of an activity or timer never hits a schedule of another execution |
| `NoOrphanWork` | an activity is in the worker queue only while its execution wants it (poisoning excepted) |
| `ContinuationPending` | an instance that continued as new has its next execution in the inbox, unless started twice, by clients or by two executions of its parent |
| `QueueOrder` | queue messages are dequeued once, and in order unless a turn was abandoned |
| `QueueKept` | no queue message is lost in a turn after which the execution goes on |
| `QueueCarried` | continue-as-new loses one message at most for each dequeue it leaves without one, and otherwise only the newest beyond the carry-forward limit, with the exception of 10 |
| `AwaitedChildAnswers` | a parent waiting for a child is going to hear of it, as long as neither continued as new and the runtime did not fail the child |

Run: `lifecycle`.  Clients start one of two orchestrations.  `solo` has two
executions, a carry-forward limit of 1 and two messages, so that the limit is exceeded,
one waiting dequeue at a time (`MaxWaits`), so that of two messages one can be taken and
the other lost to a dropped dequeue, and an activity or a timer in each execution;
longer chains, in which a message is carried again, are left to the proofs of 9.
`parent` may schedule `child`, on two processes, with two schedules for the parent and
one for the child, and one execution each.  In both there are one cancellation and one
fault.  Instances started twice are left to the proofs of 9, which need no bounds.  The
schedule ids of this model number the schedules of an execution; in the code they are
event ids, which other events make sparser, so ids of different executions collide
less often than here but in the same ways.  Safety only: fairness is the business of
the queues.

## 6. Replay

`ReplayEngine` is one execution, turn by turn.  `history` and `delta` are the events;
an event's id is its position.  `ctx` is `OrchestrationContext` (tokens, bindings,
results, subscriptions, arrivals, cancelled and dropped tokens) with the future of the
code, `eng` the local variables of `execute_orchestration`.  Both are made anew in
every turn; `last` remembers what the code had observed, to state properties.

The code is *any* deterministic code made of rounds that emit actions and then join
or race their futures: `code` maps what has been observed to the next round, is chosen
when it is first needed and never changes.  What an activity or a note carries is all
that has been observed, so that a replay that observes anything else emits another
action.  The actions are the statements of the engine: `BeginTurn` (with
`prep_completions`), `Poll`, one `Apply...` per kind of event in
`apply_history_event`, `Convert`, `Quiesce`/`Settle`, `Stop`, `Finalize`
(`collect_cancelled_from_context`, whose hash sets give any order).

| property | what it says of the code |
|---|---|
| `ReplayAgrees` | unchanged code is never failed as nondeterministic |
| `ReplayResumes` | when the stored history is replayed, results, bindings and drops are those of the turn before |
| `QueueIsFifo` | the code has dequeued the oldest messages, each once, in order |
| `NoStaleEvent` | an external event only goes to a subscription older than itself |
| `NothingLeftToPoll` | no turn ends with an answered wait that nobody polls |
| `DropsRecordedOnce` | exactly the dropped futures are recorded as cancelled, once |

Run `replay`: three scenarios in one state space.  `Tasks`: activities,
sub-orchestrations and timers, joined and raced in both orders, three rounds, two
messages a turn.  `Waits`: queue and external waits, messages before and after the
wait, cancellation and continue-as-new, two messages a turn.  `Races`: races between
waits and timers, three rounds, *one* message a turn, because of the first three
findings of 10: with two, `ReplayAgrees`, `NoStaleEvent` and, for races of two
dequeues, `NothingLeftToPoll` do not hold.  `replay_dropped_dequeue` shows the first of
them.  Three rounds are enough for a drop, a wait that depends on it and an action
that depends on that one.

## 7. Provider and its validation suite

`Provider` has one operator per operation of `sqlite_common.rs`, from the tables and
the arguments to the tables and the answer; time is a number, tokens are counted.
The `Validation...` modules hold 214 functions of `src/src/provider_validation` as
scripts: stages of concurrent threads of calls, each with the fields of the answer
that the test asserts.  Run `provider_validation` takes the calls of concurrent tasks
in every order; `Conforms` says that every asserted answer is given.  That checks the
model against the repository's own statement of what a provider is, and the suite
against all schedules of its tasks instead of the one a test run meets.

## 8. Instance data

`InstanceData` lets a turn, an activity, a reader and an administrator work on one
`Provider` database.  Each step is one transaction, or one statement of a method that
reads outside one: `get_kv_value` (`ReadKvDelta`, `ReadKvStore`), `delete_instance`
(tree, status, deletion), `delete_instance_bulk`, `prune_executions` (current
execution, selection, deletion).  A turn makes any effect of the code (set, clear,
clear all, status, activity, sub-orchestration) and may end or continue; its ack is
the ack of `Provider`.  `epoch`, `begun` and `seen` only serve to state properties.

| property | what it says of the code |
|---|---|
| `SnapshotKept` | every turn of an execution gets the key-value snapshot of its first turn |
| `ClientSeesReplay` | a client reads what the replay of the current execution computes |
| `StatusIsAccumulated` | the status column is what the history accumulates, also over continue-as-new |
| `ReadIsLinearizable` | a read of two statements returns a value the key had during the call |
| `OneIncarnation` | nothing of a deleted instance gets into the one started again under its id |
| `NoOrphanRow` | no deletion leaves a child without its parent |
| `PruneSparesRunning` | pruning removes no running execution, and not the current one it read |

Run `instance_data`: one root and its sub-orchestration, two keys (one more than the
limit), two starts of the root, so that an instance is deleted and started again, two
executions, two effects, and two calls of clients or lock expiries, so that any two of
reading, deleting, pruning and expiry overlap.

Neither module states fairness; deadlock checking is off in all runs of 5 to 8 because
executions end and bounds run out.

## 9. What is proved

For every value of the constants that satisfies the assumptions: any numbers of
dispatchers, instances, sessions, executions, schedules and messages, any timeouts and
bounds.  The assumptions that restrict: `WorkerAssumption` has finitely many slots and
`IdleTimeout > LockTimeout - 1`, which `start_with_options` enforces by a panic;
`ChildAssumption` says that the id of a sub-orchestration belongs to one schedule of
one parent, which is not the child itself, and that clients do not start instances
under such ids (they are built from the parent's id and the event id, `lib.rs:885`).
In `ReplayEngine`, `ScenarioAssumption` says that a round of the code waits for
something (a round that does not is part of the next).
In `InstanceData`, `KidAssumption` says the same of its one sub-orchestration, and
`NameAssumption`, `ValueAssumption` and `NullAssumption` of `Provider` that NULL is no
name, no stored value and no status.  The rest are types.

`OrchestratorQueue_proofs`: `QueueInvariant`, `TypeCorrect`, `OwnershipTheorem`
(`FreshItem`), `ConsumedOnceTheorem`, `TurnsStopTheorem`, `NoMessageLostTheorem`,
`AttemptsBoundedTheorem`, `InboxRefinement`.  The inductive invariant `IndInv` adds to
the properties: `TokensDistinct` (without it an old token could match a lock of somebody else),
`Held` (the rows with a token belong to the instance whose lock has it),
`Unstarted`, `ConsumedGone`/`ConsumedApart` (consumed rows have ids below
`nextRow` and are pairwise apart, so a new row cannot have been consumed).  It is
preserved action by action; the theorems follow, the action properties and the
refinement from the invariant and one lemma per action.  `AttemptsBounded` needs an
invariant of its own, `Counted`: while the token of an item is on its rows, and the item
is not over the limit, their attempts are within it.  `RenewsInTime` is about
`LockRenewal`, for every lock timeout and buffer: the renewal task sleeps less than the
lock lasts exactly when the timeout is over one second and, from 15 seconds on, the
buffer is not zero.  For these settings `RenewalDue` in the two queues is justified.

`WorkerQueue_proofs`: `WorkerInvariant`, `ReportedOnceTheorem`,
`NothingForgottenTheorem`, `NoReportAfterCancelTheorem`, `SessionsPinnedTheorem`,
`SessionAffinityTheorem`, `LockKeptTheorem`.  Here `IndInv` is the account of every
activity (`Accounted`), `TokensApart` (fresh tokens are new to every slot that refers
to the row) and `SessionsPinned`: a valid item lock implies that the session is held by the same
owner and gets idle no earlier than the lock expires.  The last part is what makes
affinity inductive: `Tick` cannot pass a due renewal, and every renewal of an item
touches its session.

Its second half: `LimitsInvariant`, `StartsBoundedTheorem`,
`SessionLimitTheorem`, `DropsOnlyCancelledTheorem`.  `StartsBounded` is not inductive:
between a fetch and the handler a slot owes an invocation, and another slot may take
over in the meantime, or an abandonment uncount the attempt.  `Bounded` counts, for each
row, the invocations that happened together with the slots that may still make one
(`Going`) against the attempts of the row; `Slot` says that while the row carries the
token of an item its attempts are those of the item, which is what lets a slot that
gives its item back uncount its own attempt and nobody else's.  `SessionLimit` needs no
invariant beyond types: `OverCapacity` counts the sessions of the other slots in the
step that starts a handler.

`Subsequence_proofs`: what `Pick` keeps, in which order and how often, and the relations
`Inside`, `Covers` and `Lists` between sequences, with their laws for concatenations;
facts about functions with a domain `1..n`; `CountUp`, see below.

`Lifecycle_proofs`: `LifeInvariant`, `LifecycleTypes`, `OwnAnswersMatchTheorem`,
`NoOrphanWorkTheorem`.  `LifeInv` adds to types and properties: `NoTwins` (one
continuation and one completion of each call in an inbox: a second completion would
find its call closed), `Continuation` (a `ContinueAsNew` is there for an ended
execution only, so the next number is new), `AnswersOpen` (a completion is of an
earlier execution, or its call is open), and in `Wanted` that an activity in the worker
queue has no completion in the inbox yet.  One relation carries the proof: `Moved` says
of a step which rows left an inbox and which came, with an injection from the new
positions to the old ones and to the rows that were sent; every action is shown to be
such a step, and each part of the invariant to survive it.

`LifecycleChildren_proofs`: `RouteInvariant`, `ContinuationPendingTheorem`,
`AwaitedChildAnswersTheorem`.  `RouteInv` adds to `LifeInv`: `StartInv` (before a
schedule was reached its child neither exists nor is started, and during the first
execution of the parent it has one start at most: otherwise a second start could
swallow a `ContinueAsNew`, or a child be acknowledged away), and `TrackedInv` (no process
remembers an execution number ahead of the instance: in its first execution a parent is
answered under number 1, whichever process runs the child).

`LifecycleQueues_proofs`: `StreamInvariant`, `QueueOrderTheorem`, `QueueKeptTheorem`,
`QueueCarriedTheorem`.  `QueueInv` adds to `LifeInv`, for each instance: `InOrder` (its
stream, what it dequeued, has buffered, carries on and has in its inbox, has no message
twice, none that was not sent, and is in order before the first fault), `Blank` (an
execution that has ended buffers nothing), `Shown` (before the first fault no queue
message is hidden, so that later ones cannot pass it) and `CanOld` (the fetch of a
continued instance sees its `ContinueAsNew`).  Every action is shown to leave messages
of a stream out (`Inside`), to lose none (`Covers`) or to append a new one; `AtHand`
says that what a turn has at hand is the buffered, the carried and the fetched part of
the stream in this order, `HeadFacts` that of what is buffered the waiting dequeues take
as many messages at most as there are such dequeues, and `CutTail` that what the
carry-forward limit cuts off of the rest lies behind what is carried on.  The proof found
that the exception of `QueueCarried` is needed for instances started twice as well: a
start ahead of the `ContinueAsNew` makes the batch look like one of the ended execution.

`InstanceData_proofs`: `Invariant` and `SeenInvariant`, and from the first
`SnapshotKeptHolds`, `ReadIsLinearizableHolds`, `OneIncarnationHolds`,
`NoOrphanRowHolds`, `PruneSparesRunningHolds`, from the second
`StatusIsAccumulatedHolds` and `ClientSeesReplayHolds`.  Every transaction of
`Provider` has a lemma that says table by table what it changes (`AckFacts`,
`DeleteFacts`, `PruneFacts`, ...); the steps of `InstanceData` only use these.

`IInv` is three parts.  `Core`: tokens and the event ids of an execution are unique
(`TokensOk`, `IdsOk`), queues, history and activities are of the present incarnation,
and `TurnHeld`: as long as the lock of a turn is there, the instance has the execution,
the history and the values the turn was given, because every transaction that changes
them takes the lock away or is the ack itself.  That is what makes a deletion between
fetch and ack harmless: a later instance of the same id is locked under another token.
`PruneOk`: what is selected for pruning has ended and cannot run again.  `ReaderOk`:
between its two statements a read will find a value the key has had since it began;
it needs that a transaction which takes values out of `kv_delta` puts them into
`kv_store` (`StoreFollowed`) or deletes the instance.

`SeenInv` relates the columns clients read to the stored history.  The two properties
are not inductive: the ack of a turn writes what *its* history says, so that history has
to be the stored one, numbered without a gap (`HistoryDense`), and a turn that begins an
execution takes the status from the message, which has to carry it (`StartsCarry`,
`TurnCurrent`); `OverlayOpen` says that only an execution in progress overlays
`kv_store`, so a new one starts from the values of the last.  `EndsWritten` lets pruning
be told from a history that is empty.  Under it are laws of the folds: replaying
`q \o p` is replaying `p` on top of `q` (`ReplayConcat`), replaying a history over its
own result changes nothing (`ReplayAgain`: at its end an execution is merged into
`kv_store` and still replayed over it), and what an ack makes of `kv_delta` overlays
`kv_store` as the replay of its events does (`MaterializedReplays`).  They are inductions
on the length of a history, which no induction theorem of the library can be used for
here; `CountUp` states induction with a *set* of numbers instead of a predicate, and
each law is applied to the set of lengths for which it holds.

`ReplayEngine_proofs`: `InvHolds`, `DropsRecordedOnceHolds`, for every scenario, every
code and every batching.  `ReplayEngine` is a loop over events around a function from
what the code has seen to what it does next, so that the invariant has to say what the
loop knows at each of its iterations.  `Good` does, of the working history before the
position of the loop: tokens are bound to the schedules there, in order and of the kind
the token asked for (`Core`, `Ids`); the tokens not bound yet are the emitted actions
that wait to be matched, in order (`Emitted`); `open_schedules` are the schedules without
a completion.  An iteration of `Poll`, of every `Apply...` and of `Settle` keeps it.
`Fail` keeps it too: an execution that fails as nondeterministic records nothing.  Of
`Convert` the invariant needs that the events it appends bind the emitted actions with
ids above all ids there are; of `Finalize` (`Recording`) that each record of a drop is of
another token, of its kind and not recorded before, for any order in which the hash sets
are iterated.  `ConvertRuns`, `PrepRuns` and the folds of `Finalize` are functions of a
number of steps, for which the invariants are proved with `CountUp`.

`QueueIsFifoHolds`, `NoStaleEventHolds` and `NothingLeftToPollHolds` are about the
scenarios without a race of queue or external waits (`Unraced`), like `Tasks` and
`Waits`, with any batching; without that hypothesis they are false, which is what the
findings of 10 say.  `CalmInv` (`CalmInvHolds`) is inductive there: no subscription is
cancelled, so subscription and arrival have the same place (`Mail`); what a future has
given once, it gives for ever, whatever else arrives or is bound (`Calm`, `Kept`); and as
long as the loop does not have to poll, nothing is left to poll (`Full`).  An event makes
the loop poll exactly when it can complete a future, which is what `EventCalm` shows
event by event; `Convert` may bind a dequeue to a message that is there already, which
is why a turn cannot do without the quiescence loop.

`ReplayAgreesHolds` and `ReplayResumesHolds`, for the same scenarios, are about two
executions of one code: the turn that ran live and the one that replays it.  A place of
the loop is a context with a position in a history; `Path` is the run of the loop over a
history, and `Reach` says that a place is on it.  Three lemmas carry the argument.  Of
two places of one run, one leads to the other (`ReachOrder`): this is where determinism
of the code is used.  A place stays one when the history or the code is continued
(`ReachWider`).  And a place that is sound for the history gives the code what `CalmInv`
says it must be given (`ReachSound`).  `TraceInv` (`TraceInvHolds`) then says

* a turn that replays is itself at a place (`Reach`);
* what is stored leads to a place where the code is as the last turn left it (`Left`);
* a turn that has gone beyond its history is followed by a place that has not.

The last is the difficult one.  `convert_emitted_actions` binds all tokens of a round at
once and polls afterwards; a replay of the same events binds them one by one and polls
whenever an event can wake the code.  So the place `Trails` the turn by the actions it has
still to match, and either has matched all (`Caught`; `CatchUp` shows that it gets there)
or has found, before the last of them, that a join is complete, and enters the next round
earlier than the turn did (`Halted`).  `CaughtSame` and `HaltedEnters` show that turn and
place agree again after the next poll.  At the end of the turn the records of dropped
futures are read without effect on the code (`RecordsApply`), and the place reached is the
one that is `Left`.  That no schedule meets an action of another kind (`ReplayAgrees`)
follows event by event (`EventFits`): the place on the way to the one that is `Left` has
met it already.  `Decided` says that the code has made every drop of which the history
has a record, also when it has returned.

The hypothesis `Unraced` is needed: `replay_dropped_dequeue`, in 10, refutes
`ReplayAgrees` with one dequeue and a timer.

Only model-checked:

* liveness (`EveryMessageHandled`, `EveryActivityEnds`, `CancelledStops`), which is out of
  the prover's reach;
* where waits are raced, the properties of `ReplayEngine` other than
  `DropsRecordedOnce`: they are checked on the scenario `Races` of `MCReplay`, whose
  messages come one a turn; with two a turn some of them are false (10);
* `Provider` with its scripts: `Conforms` is one finite computation.

## 10. Findings and observations

Two have a run that TLC refutes, with the text it contradicts in `PROJECT.json`:

* `queue_stray_cancel`: a cancellation or event for an instance that was never
  started stays at the head of the queue; the fetch picks it, finds no context, rolls
  back and looks no further, so no other instance is served.
* `replay_dropped_dequeue`: `select2(timer, dequeue)` with the timer and a message in
  one batch, then another dequeue: it takes the message, but the record of the drop is
  written behind what the code does next, and the next turn, which meets it too late,
  fails the unchanged code as nondeterministic.

Others TLC finds when the scenario, a bound or an exception of a property is changed
as said:

* An external event in one batch with the timer that beats its wait is delivered for
  the dropped subscription (the record of the drop comes later) and goes to the next
  one (`Races` with two messages a turn, `NoStaleEvent`); `lib.rs:1832` says such
  events are prevented.  Its replay fails as nondeterministic as well, because a bound
  `ExternalSubscribed` does not make the engine poll.
* A race of two dequeues whose messages are buffered drops its loser inside the
  quiescence loop, after the dropped waits were marked (`replay_engine.rs:648`): the
  next dequeue is not given the message that is there, and the instance sleeps until
  another one comes (a round that races two queue waits, `NothingLeftToPoll`).
* Any error of a lock renewal counts as a cancellation (`worker.rs:838`); after a
  storage error the activity is deleted without a completion and its orchestration
  waits for ever (`DropsOnlyCancelled` without its first disjunct, `RenewErrors`
  true).  `providers/mod.rs:1826` tells the two errors apart.
* A child answers with the execution number its process currently has in memory for
  the parent (`runtime/mod.rs:844`), not with the one that started it; the next
  execution of the parent is failed as nondeterministic (`parent` in `Continues`,
  `OwnAnswersMatch` for children too).  `ORCHESTRATION-GUIDE.md:1634` says the cause
  of that failure is changed code.
* A turn that drops dequeues, made in it or before, and continues as new loses one
  buffered message for each: the cancellations are not written before
  `collect_unmatched_queue_messages` counts the subscriptions (`QueueCarried` with
  `can.idle` left out).  Lost is also a message that is fetched while an abandonment
  hides the `ContinueAsNew`, or together with a second start ahead of it (the exception
  of `QueueCarried`).
  `ORCHESTRATION-GUIDE.md:619` says that queues survive these boundaries.
* `prune_executions` reads the current execution and selects before it deletes: an
  execution that became current in between, and has ended, is pruned
  (`PruneSparesRunning` for the current execution of any time);
  `providers/mod.rs:2678` says that the current execution is never pruned.

Made while modelling, without a run:

* A version-gated item is abandoned before the attempt limit is looked at
  (`orchestration.rs:442`), so it is retried for ever; the comment above it says it
  reaches `max_attempts`.
* `fail_orchestration_as_poison` appends a failure without asking whether the history
  is terminal already.
* Two slots over the session limit can hand their items back at the same time, for
  ever (`worker.rs:333`); `worker_live` has one session only.
* Ids of children are built from the event id (`lib.rs:885`): the next execution of a
  parent names its children like the last one, and the start of such a child is
  acknowledged away because it is completed.  A child that continues as new loses its
  parent link (`state_helpers.rs:470`).  After a failure ack the parent is not told.
* A second start ahead of the `ContinueAsNew` in its batch swallows it
  (`state_helpers.rs:403`): the instance stays "continued".
* Detached starts in a turn that continues as new or is cancelled are recorded in the
  history but not enqueued.  A cancelled turn sends `CancelInstance` to children it
  scheduled in that turn, which do not exist: stray messages as in the first finding.
* Panics, system errors and continue-as-new leave children running; poisoning leaves
  activities running.  Abandonment breaks the FIFO order of event queues.
* `select2(b, a)` over dequeues made in the order a, b with both messages buffered:
  the first run takes b, the replay, which binds a first, takes a.
* A second `ActivityFailed` in a later batch is not filtered
  (`is_completion_already_in_history`), unlike every other completion.
* A turn over a limit is replaced by a failure without its messages
  (`orchestration.rs:214`): a parent is not told.  The limit on keys does not see the
  writes of earlier turns of the execution (`orchestration.rs:165`).
* `get_kv_all_values` reads `kv_store` first and `kv_delta` second: at the end of an
  execution a key may be missed by both.  `get_kv_value` reads in the other order.
* `delete_instance_bulk` takes `ContinuedAsNew` for terminal (`sqlite_common.rs:3166`)
  and deletes such instances with force; a forced deletion refuses the ack of the turn
  in flight.  The start of a child that is queued when its parent is deleted cannot be
  acknowledged any more, because of the foreign key.
* The fetch filter uses the first of the supported version ranges only
  (`sqlite_common.rs:722`); `providers/mod.rs:176` says any of them.
* `prune_kv_values_updated_before` visits a hash map in its order and compares
  wall-clock stamps (`lib.rs:3403`), so a replay may emit other actions.
* `limits.rs:9` says the oldest carry-forward events are dropped; `truncate` drops the
  newest.

## 11. Not modelled

The `history_error` path for histories that cannot be decoded (only its answer is in
`Provider`); limits on sizes (payloads have none here); more than one output message
per turn in `OrchestratorQueue` (one suffices for atomicity; `Lifecycle` has all of
them); names, versions and payloads beyond what a guard reads; retry policies, typed
wrappers and system calls of the context, which are made of modelled parts; futures
that wake the task themselves, panics and the iteration limit of the quiescence loop
in `ReplayEngine`; connection set-up, migrations and the retries around provider
operations (a retry runs a whole transaction again); the shutdown procedure (its
effect on locks is that of a stopped task); registries; the client's wait loops, which
only read; metrics and logging.  `renew_work_item_lock` touches the session in a
second, best-effort statement that is not in one transaction with the first; the
models have both in one action.
