------------------------------ MODULE Provider ------------------------------
(***************************************************************************)
(* The SQLite-like provider (src/src/providers/sqlite_common.rs) as a      *)
(* function: the database is one record, and every method of the Provider  *)
(* and ProviderAdmin traits is an operator from a database and its         *)
(* arguments to the database it leaves and the answer it gives,            *)
(* [db |-> ..., ans |-> ...].                                              *)
(*                                                                         *)
(* A method that runs in one transaction is one operator.  The methods     *)
(* that read outside their transaction (prune_executions,                  *)
(* delete_instance, get_kv_value, get_kv_all_values) are composed here of  *)
(* the operators of their separate statements, which module InstanceData   *)
(* interleaves with the rest of the system.                                *)
(*                                                                         *)
(* Tables are sequences of rows where the row id orders them (the queues,  *)
(* history) and functions from the primary key elsewhere.  Time is         *)
(* db.now; a lock token is a number never given out before.  Null is SQL's *)
(* NULL and Rust's None.                                                   *)
(***************************************************************************)
EXTENDS Integers, Sequences, FiniteSets, SequencesExt, Subsequence

CONSTANT Null

(* NULL is no number, and no status of an execution that has ended. *)
ASSUME NullAssumption ==
  Null \notin Nat \cup {"Completed", "ContinuedAsNew", "Failed"}

-----------------------------------------------------------------------------
(* Answers.                                                                *)

Reply(db, ans) == [db |-> db, ans |-> ans]
Done(db) == Reply(db, [ok |-> TRUE])
Refused(db) == Reply(db, [ok |-> FALSE])
NoItem(db) == Reply(db, [ok |-> TRUE, some |-> FALSE])

(* Tables. *)
EmptyTable == <<>>

Put(table, key, row) ==
  [x \in DOMAIN table \cup {key} |-> IF x = key THEN row ELSE table[x]]

(* A row with the fields of another as well; its own decide. *)
Extended(row, more) ==
  [f \in DOMAIN row \cup DOMAIN more |-> IF f \in DOMAIN row THEN row[f] ELSE more[f]]

Without(table, keys) == [x \in DOMAIN table \ keys |-> table[x]]

Filtered(rows, Test(_)) == Pick(rows, {x \in DOMAIN rows : Test(rows[x])})

Updated(rows, Test(_), Set(_)) ==
  [x \in DOMAIN rows |-> IF Test(rows[x]) THEN Set(rows[x]) ELSE rows[x]]

Of(table, instance) ==
  IF instance \in DOMAIN table THEN table[instance] ELSE EmptyTable

-----------------------------------------------------------------------------
(* The schema, empty.  kv_store and kv_delta map an instance to a function *)
(* from its keys to their values (Null in kv_delta is a tombstone).        *)

EmptyDb ==
  [now                |-> 0,
   tokens             |-> 0,
   instances          |-> EmptyTable,
   executions         |-> EmptyTable,
   history            |-> <<>>,
   orchestrator_queue |-> <<>>,
   worker_queue       |-> <<>>,
   instance_locks     |-> EmptyTable,
   sessions           |-> EmptyTable,
   kv_store           |-> EmptyTable,
   kv_delta           |-> EmptyTable]

(* Work items and history events are records with at least these fields.   *)
(* A SubOrchCompleted or SubOrchFailed item's instance is its parent.      *)
IsOrchestratorItem(item) == item.kind # "ActivityExecute"

Starts(item) == item.kind \in {"StartOrchestration", "ContinueAsNew"}

OrchestratorRow(item, at) ==
  [item |-> item, visible_at |-> at, lock_token |-> Null, attempts |-> 0]

WorkerRow(item, at) ==
  [item |-> item, visible_at |-> at, lock_token |-> Null, locked_until |-> 0,
   attempts |-> 0]

generate_lock_token(db) == db.tokens + 1

-----------------------------------------------------------------------------
(* History.                                                                *)

HistoryOf(db, instance, execution) ==
  {h \in Range(db.history) : h.instance = instance /\ h.execution = execution}

(* ORDER BY event_id, which is unique in an execution: the primary key. *)
InOrder(rows) ==
  LET ids == {h.event.id : h \in rows}
  IN  Pick([n \in ids |-> (CHOOSE h \in rows : h.event.id = n).event], ids)

EventsOf(db, instance, execution) == InOrder(HistoryOf(db, instance, execution))

(* An event that a newer version wrote does not deserialize. *)
Readable(events) == \A x \in DOMAIN events : events[x].kind # "Unreadable"

ExecutionIds(db, instance) ==
  {e[2] : e \in {x \in DOMAIN db.executions : x[1] = instance}}

(* SELECT COALESCE(MAX(execution_id), 1) *)
LatestExecution(db, instance) ==
  LET ids == ExecutionIds(db, instance)
  IN  IF ids = {} THEN 1 ELSE CHOOSE m \in ids : \A n \in ids : n <= m

CurrentStatus(db, instance) ==
  LET key == <<instance, db.instances[instance].current_execution_id>>
  IN  IF key \in DOMAIN db.executions THEN db.executions[key].status ELSE Null

(* The append refuses an event id of 0 and, by the table's primary key, an *)
(* id that the execution's history already has.                            *)
CanAppend(db, instance, execution, events) ==
  /\ \A x \in DOMAIN events : events[x].id # 0
  /\ \A x, y \in DOMAIN events : x # y => events[x].id # events[y].id
  /\ \A x \in DOMAIN events, h \in Range(db.history) :
       ~ /\ h.instance = instance
         /\ h.execution = execution
         /\ h.event.id = events[x].id

append_history_in_tx(db, instance, execution, events) ==
  [db EXCEPT !.history = @ \o
     [x \in DOMAIN events |-> [instance |-> instance, execution |-> execution,
                               event |-> events[x]]]]

append_with_execution(db, instance, execution, events) ==
  IF CanAppend(db, instance, execution, events)
  THEN Done(append_history_in_tx(db, instance, execution, events))
  ELSE Refused(db)

read_with_execution(db, instance, execution) ==
  LET events == EventsOf(db, instance, execution)
  IN  IF Readable(events)
      THEN Reply(db, [ok |-> TRUE, events |-> events, len |-> Len(events)])
      ELSE Refused(db)

read(db, instance) ==
  read_with_execution(db, instance, LatestExecution(db, instance))

-----------------------------------------------------------------------------
(* The orchestrator queue.                                                 *)

enqueue_for_orchestrator(db, item, delay) ==
  IF IsOrchestratorItem(item)
  THEN Done([db EXCEPT !.orchestrator_queue =
               Append(@, OrchestratorRow(item, db.now + delay))])
  ELSE Refused(db)

LockedInstance(db, instance) ==
  /\ instance \in DOMAIN db.instance_locks
  /\ db.instance_locks[instance].locked_until > db.now

(* A version is a triple, compared as major * 10^6 + minor * 10^3 + patch. *)
Packed(version) == version[1] * 1000000 + version[2] * 1000 + version[3]

(* The capability filter is a sequence of ranges <<min, max>>: the query   *)
(* uses the first one only, and an execution without a pinned version      *)
(* passes.                                                                 *)
Compatible(db, instance, filter) ==
  \/ filter = Null
  \/ /\ filter # <<>>
     /\ \/ instance \notin DOMAIN db.instances
        \/ LET key == <<instance, db.instances[instance].current_execution_id>>
           IN  \/ key \notin DOMAIN db.executions
               \/ db.executions[key].pinned = Null
               \/ Packed(db.executions[key].pinned) \in
                    Packed(filter[1][1]) .. Packed(filter[1][2])

Fetchable(db, filter) ==
  Filtered(db.orchestrator_queue,
           LAMBDA r : /\ r.visible_at <= db.now
                      /\ ~LockedInstance(db, r.item.instance)
                      /\ Compatible(db, r.item.instance, filter))

(* The instance's lock and its visible messages, marked with the token. *)
LockInstance(db, instance, timeout) ==
  LET token == generate_lock_token(db)
  IN  [db EXCEPT
         !.tokens = token,
         !.instance_locks = Put(@, instance,
            [lock_token |-> token, locked_until |-> db.now + timeout]),
         !.orchestrator_queue = Updated(@,
            LAMBDA r : r.item.instance = instance /\ r.visible_at <= db.now,
            LAMBDA r : [r EXCEPT !.lock_token = token,
                                 !.attempts = r.attempts + 1])]

Marked(db, token) ==
  Filtered(db.orchestrator_queue, LAMBDA r : r.lock_token = token)

OrchestrationItem(db, instance, name, version, execution, events, error) ==
  LET token == db.tokens
      rows == Marked(db, token)
  IN  [ok |-> TRUE, some |-> TRUE, instance |-> instance, name |-> name,
       version |-> IF version = Null THEN "unknown" ELSE version,
       execution_id |-> execution, history |-> events,
       history_len |-> Len(events), history_error |-> error,
       messages |-> [x \in DOMAIN rows |-> rows[x].item],
       message_count |-> Len(rows), lock_token |-> token,
       kv_snapshot |-> IF error THEN EmptyTable ELSE Of(db.kv_store, instance),
       attempts |-> CHOOSE m \in {r.attempts : r \in Range(rows)} :
                      \A r \in Range(rows) : r.attempts <= m]

(* The fetch of a known instance: its current execution's history, or the  *)
(* history error that lets the dispatcher reach its poison check.          *)
FetchKnown(db, instance) ==
  LET row == db.instances[instance]
      events == EventsOf(db, instance, row.current_execution_id)
  IN  Reply(db, OrchestrationItem(db, instance, row.name, row.version,
                  row.current_execution_id,
                  IF Readable(events) THEN events ELSE <<>>,
                  ~Readable(events)))

(* The fetch of an instance without a row: from a history that says        *)
(* OrchestrationStarted, from a start among its messages; else orphaned    *)
(* queue messages are dropped and other messages are left where they were. *)
FetchUnknown(before, db, instance) ==
  LET stored == EventsOf(db, instance, LatestExecution(db, instance))
      events == IF Readable(stored) THEN stored ELSE <<>>
      started == Filtered(events, LAMBDA e : e.kind = "OrchestrationStarted")
      rows == Marked(db, db.tokens)
      starts == Filtered(rows, LAMBDA r : Starts(r.item))
  IN  IF started # <<>>
      THEN Reply(db, OrchestrationItem(db, instance, started[1].name,
                       started[1].version, 1, events, FALSE))
      ELSE IF starts # <<>>
      THEN Reply(db, OrchestrationItem(db, instance, starts[1].item.name,
                       starts[1].item.version, 1, <<>>, FALSE))
      ELSE IF \A r \in Range(rows) : r.item.kind = "QueueMessage"
      THEN NoItem([db EXCEPT
             !.orchestrator_queue = Filtered(@, LAMBDA r : r.lock_token # db.tokens),
             !.instance_locks = Without(@, {instance})])
      ELSE NoItem(before)

fetch_orchestration_item(db, timeout, filter) ==
  LET rows == Fetchable(db, filter)
      instance == rows[1].item.instance
      locked == LockInstance(db, instance, timeout)
  IN  IF rows = <<>> THEN NoItem(db)
      ELSE IF instance \in DOMAIN db.instances THEN FetchKnown(locked, instance)
      ELSE FetchUnknown(db, locked, instance)

LockedBy(db, token) ==
  {i \in DOMAIN db.instance_locks : db.instance_locks[i].lock_token = token}

renew_orchestration_item_lock(db, token, extend_for) ==
  LET held == {i \in LockedBy(db, token) : LockedInstance(db, i)}
  IN  IF held = {} THEN Refused(db)
      ELSE Done([db EXCEPT !.instance_locks =
             [i \in DOMAIN @ |-> IF i \in held
                THEN [@[i] EXCEPT !.locked_until = db.now + extend_for]
                ELSE @[i]]])

Less(n) == IF n > 0 THEN n - 1 ELSE 0

(* The lock goes even if it has expired, and every message of the instance *)
(* (not only the ones fetched) gives an attempt back or is delayed.        *)
abandon_orchestration_item(db, token, delay, ignore_attempt) ==
  LET held == LockedBy(db, token)
      undone == [db EXCEPT
        !.instance_locks = Without(@, held),
        !.orchestrator_queue = Updated(@,
           LAMBDA r : ignore_attempt /\ r.item.instance \in held,
           LAMBDA r : [r EXCEPT !.attempts = Less(@)])]
  IN  IF held = {} THEN Refused(db)
      ELSE Done([undone EXCEPT !.orchestrator_queue = Updated(@,
             LAMBDA r : /\ delay # Null
                        /\ r.item.instance \in held
                        /\ r.visible_at <= db.now,
             LAMBDA r : [r EXCEPT !.visible_at = db.now + delay])])

-----------------------------------------------------------------------------
(* ack_orchestration_item, one operator per part of its transaction.       *)

(* ExecutionMetadata::default() *)
NoMetadata ==
  [name |-> Null, version |-> Null, status |-> Null, output |-> Null,
   parent |-> Null, pinned |-> Null]

InstanceRow(metadata, execution) ==
  [name |-> metadata.name, version |-> metadata.version,
   current_execution_id |-> execution, parent |-> metadata.parent,
   custom_status |-> Null, custom_status_version |-> 0]

(* INSERT OR IGNORE of the instance, then its name and version. *)
AckInstance(db, instance, execution, metadata) ==
  IF metadata.name = Null \/ metadata.version = Null THEN db
  ELSE IF instance \in DOMAIN db.instances
  THEN [db EXCEPT !.instances[instance].name = metadata.name,
                  !.instances[instance].version = metadata.version]
  ELSE [db EXCEPT !.instances = Put(@, instance, InstanceRow(metadata, execution))]

(* parent_instance_id REFERENCES instances, and foreign keys are on: the   *)
(* insert of a child whose parent has no row fails.                        *)
ParentKnown(db, instance, metadata) ==
  \/ instance \in DOMAIN db.instances
  \/ metadata.name = Null \/ metadata.version = Null
  \/ metadata.parent = Null
  \/ metadata.parent \in DOMAIN db.instances \cup {instance}

(* The execution's row, its pinned version, and the instance's current     *)
(* execution, which only grows.                                            *)
AckExecution(db, instance, execution, metadata) ==
  LET key == <<instance, execution>>
      row == IF key \in DOMAIN db.executions THEN db.executions[key]
             ELSE [status |-> "Running", output |-> Null, pinned |-> Null,
                   completed_at |-> Null]
      pinned == IF metadata.pinned = Null THEN row
                ELSE [row EXCEPT !.pinned = metadata.pinned]
  IN  [db EXCEPT
         !.executions = Put(@, key, pinned),
         !.instances = [i \in DOMAIN @ |->
            IF i = instance /\ execution > @[i].current_execution_id
            THEN [@[i] EXCEPT !.current_execution_id = execution] ELSE @[i]]]

AckStatus(db, instance, execution, metadata) ==
  IF metadata.status = Null THEN db
  ELSE [db EXCEPT !.executions[<<instance, execution>>] =
          [@ EXCEPT !.status = metadata.status, !.output = metadata.output,
                    !.completed_at = db.now]]

(* The last CustomStatusUpdated of the delta sets or clears the status and *)
(* raises its version by one, however many there are.                      *)
AckCustomStatus(db, instance, delta) ==
  LET updates == Filtered(delta, LAMBDA e : e.kind = "CustomStatusUpdated")
      row == db.instances[instance]
  IN  IF updates = <<>> \/ instance \notin DOMAIN db.instances THEN db
      ELSE [db EXCEPT !.instances[instance] =
              [row EXCEPT !.custom_status = Last(updates).status,
                          !.custom_status_version = row.custom_status_version + 1]]

(* Mutant of Materialize: clear_all leaves no tombstones for keys that only *)
(* kv_store has.                                                           *)
Materialize_DeltaOnly(store, delta, event) ==
  CASE event.kind = "KeyValueSet"      -> Put(delta, event.key, event.value)
    [] event.kind = "KeyValueCleared"  -> Put(delta, event.key, Null)
    [] event.kind = "KeyValuesCleared" -> [k \in DOMAIN delta |-> Null]
    [] OTHER -> delta

(* One event's mutation of the rows of kv_delta of its instance. *)
Materialize(store, delta, event) ==
  CASE event.kind = "KeyValueSet"      -> Put(delta, event.key, event.value)
    [] event.kind = "KeyValueCleared"  -> Put(delta, event.key, Null)
    [] event.kind = "KeyValuesCleared" ->
         [k \in DOMAIN delta \cup DOMAIN store |-> Null]
    [] OTHER -> delta

Materialized(store, delta, events) ==
  LET after[n \in 0 .. Len(events)] ==
        IF n = 0 THEN delta ELSE Materialize(store, after[n - 1], events[n])
  IN  after[Len(events)]

(* The terminal merge: kv_delta's values go into kv_store, its tombstones  *)
(* delete from it.                                                         *)
Merged(store, delta) ==
  [k \in (DOMAIN store \cup DOMAIN delta)
           \ {k \in DOMAIN delta : delta[k] = Null} |->
     IF k \in DOMAIN delta THEN delta[k] ELSE store[k]]

IsTerminal(status) == status \in {"Completed", "ContinuedAsNew", "Failed"}

(* Mutant of AckKv: every turn is merged into kv_store. *)
AckKv_Eager(db, instance, delta, metadata) ==
  LET store == Of(db.kv_store, instance)
  IN  [db EXCEPT !.kv_store = Put(@, instance,
         Merged(store, Materialized(store, EmptyTable, delta)))]

AckKv(db, instance, delta, metadata) ==
  LET store == Of(db.kv_store, instance)
      mutated == Materialized(store, Of(db.kv_delta, instance), delta)
  IN  IF IsTerminal(metadata.status)
      THEN [db EXCEPT !.kv_store = Put(@, instance, Merged(store, mutated)),
                      !.kv_delta = Put(@, instance, EmptyTable)]
      ELSE [db EXCEPT !.kv_delta = Put(@, instance, mutated)]

AckWorkerItems(db, items) ==
  [db EXCEPT !.worker_queue = @ \o
     [x \in DOMAIN items |-> WorkerRow(items[x], db.now)]]

Identity(item) == <<item.instance, item.execution_id, item.id>>

(* Mutant of AckCancelled: it deletes every activity of the instance and    *)
(* execution of a cancelled one.                                           *)
AckCancelled_ByInstance(db, cancelled) ==
  [db EXCEPT !.worker_queue = Filtered(@,
     LAMBDA r : ~ /\ r.item.kind = "ActivityExecute"
                  /\ \E c \in cancelled :
                       c[1] = r.item.instance /\ c[2] = r.item.execution_id)]

(* Lock stealing: the rows of the cancelled activities go, the ones this   *)
(* very ack has enqueued included.                                         *)
AckCancelled(db, cancelled) ==
  [db EXCEPT !.worker_queue = Filtered(@,
     LAMBDA r : ~(r.item.kind = "ActivityExecute" /\ Identity(r.item) \in cancelled))]

(* A TimerFired message becomes visible when the timer is due. *)
AckOrchestratorItems(db, items) ==
  LET rows == Filtered(items, IsOrchestratorItem)
  IN  [db EXCEPT !.orchestrator_queue = @ \o
         [x \in DOMAIN rows |-> OrchestratorRow(rows[x],
            IF rows[x].kind = "TimerFired" THEN rows[x].fire_at_ms ELSE db.now)]]

(* Any failing statement, and a lock that has expired by the end, rolls    *)
(* everything back.                                                        *)
ack_orchestration_item(db, token, execution, delta, worker_items, orchestrator_items, metadata, cancelled) ==
  LET held == LockedBy(db, token)
      instance == CHOOSE i \in held : TRUE
      d1 == [db EXCEPT !.orchestrator_queue =
               Filtered(@, LAMBDA r : r.lock_token # token)]
      d2 == AckInstance(d1, instance, execution, metadata)
      d3 == AckExecution(d2, instance, execution, metadata)
      d4 == append_history_in_tx(d3, instance, execution, delta)
      d5 == AckStatus(d4, instance, execution, metadata)
      d6 == AckCustomStatus(d5, instance, delta)
      d7 == AckKv(d6, instance, delta, metadata)
      d8 == AckCancelled(AckWorkerItems(d7, worker_items), cancelled)
      d9 == AckOrchestratorItems(d8, orchestrator_items)
  IN  IF \/ held = {}
         \/ ~LockedInstance(db, instance)
         \/ ~ParentKnown(db, instance, metadata)
         \/ ~CanAppend(db, instance, execution, delta)
      THEN Refused(db)
      ELSE Done([d9 EXCEPT !.instance_locks = Without(@, {instance})])

-----------------------------------------------------------------------------
(* The worker queue and its sessions.                                      *)

enqueue_for_worker(db, item) ==
  Done([db EXCEPT !.worker_queue = Append(@, WorkerRow(item, db.now))])

(* TagFilter: its mode and its set of tags. *)
TagMatches(filter, tag) ==
  CASE filter.mode = "DefaultOnly" -> tag = Null
    [] filter.mode = "Tags"        -> tag \in filter.tags
    [] filter.mode = "DefaultAnd"  -> tag = Null \/ tag \in filter.tags
    [] filter.mode = "Any"         -> TRUE
    [] filter.mode = "None"        -> FALSE

OwnedByOther(db, session, owner) ==
  /\ session \in DOMAIN db.sessions
  /\ db.sessions[session].locked_until > db.now
  /\ db.sessions[session].worker_id # owner

(* session is Null (plain fetch) or [owner |-> ..., lock |-> ...]. *)
WorkAvailable(db, session, tag_filter) ==
  LET Candidate(r) ==
        /\ r.visible_at <= db.now
        /\ r.lock_token = Null \/ r.locked_until <= db.now
        /\ \/ r.item.session = Null
           \/ session # Null /\ ~OwnedByOther(db, r.item.session, session.owner)
        /\ TagMatches(tag_filter, r.item.tag)
  IN  {x \in DOMAIN db.worker_queue : Candidate(db.worker_queue[x])}

(* The claim or refresh of the session of a fetched item. *)
ClaimSession(db, name, session) ==
  IF name = Null \/ session = Null THEN db
  ELSE [db EXCEPT !.sessions = Put(@, name,
          [worker_id |-> session.owner, locked_until |-> db.now + session.lock,
           last_activity_at |-> db.now])]

fetch_work_item(db, timeout, session, tag_filter) ==
  LET rows == WorkAvailable(db, session, tag_filter)
      x == CHOOSE m \in rows : \A n \in rows : m <= n
      row == db.worker_queue[x]
      token == generate_lock_token(db)
      locked == [db EXCEPT
         !.tokens = token,
         !.worker_queue[x] = [row EXCEPT !.lock_token = token,
                                         !.locked_until = db.now + timeout,
                                         !.attempts = row.attempts + 1]]
  IN  IF rows = {} THEN NoItem(db)
      ELSE Reply(ClaimSession(locked, row.item.session, session),
                 [ok |-> TRUE, some |-> TRUE, item |-> row.item,
                  lock_token |-> token, attempts |-> row.attempts + 1])

(* last_activity_at moves only while the session's lock is live. *)
TouchSession(db, session) ==
  IF session = Null \/ session \notin DOMAIN db.sessions THEN db
  ELSE IF db.sessions[session].locked_until > db.now
  THEN [db EXCEPT !.sessions[session].last_activity_at = db.now] ELSE db

HeldWork(db, token) ==
  {x \in DOMAIN db.worker_queue :
     /\ db.worker_queue[x].lock_token = token
     /\ db.worker_queue[x].locked_until > db.now}

(* completion is Null or the item to enqueue for the orchestrator. *)
ack_work_item(db, token, completion) ==
  LET held == HeldWork(db, token)
      session == db.worker_queue[CHOOSE x \in held : TRUE].item.session
      removed == TouchSession([db EXCEPT !.worker_queue =
                    Filtered(@, LAMBDA r : r.lock_token # token)], session)
  IN  IF held = {} THEN Refused(db)
      ELSE IF completion = Null THEN Done(removed)
      ELSE IF completion.kind \notin {"ActivityCompleted", "ActivityFailed"}
      THEN Refused(db)
      ELSE enqueue_for_orchestrator(removed, completion, 0)

renew_work_item_lock(db, token, extend_for) ==
  LET held == HeldWork(db, token)
      x == CHOOSE y \in held : TRUE
  IN  IF held = {} THEN Refused(db)
      ELSE Done(TouchSession(
             [db EXCEPT !.worker_queue[x].locked_until = db.now + extend_for],
             db.worker_queue[x].item.session))

(* The token alone decides: an expired lock can still be abandoned. *)
abandon_work_item(db, token, delay, ignore_attempt) ==
  IF \A r \in Range(db.worker_queue) : r.lock_token # token THEN Refused(db)
  ELSE Done([db EXCEPT !.worker_queue = Updated(@,
         LAMBDA r : r.lock_token = token,
         LAMBDA r : [r EXCEPT !.lock_token = Null, !.locked_until = 0,
            !.visible_at = db.now + (IF delay = Null THEN 0 ELSE delay),
            !.attempts = IF ignore_attempt THEN Less(@) ELSE @])])

renew_session_lock(db, owners, extend_for, idle_timeout) ==
  LET held == {s \in DOMAIN db.sessions :
                 /\ db.sessions[s].worker_id \in owners
                 /\ db.sessions[s].locked_until > db.now
                 /\ db.sessions[s].last_activity_at > db.now - idle_timeout}
  IN  Reply([db EXCEPT !.sessions = [s \in DOMAIN @ |->
                IF s \in held
                THEN [@[s] EXCEPT !.locked_until = db.now + extend_for]
                ELSE @[s]]],
            [ok |-> TRUE, count |-> Cardinality(held)])

cleanup_orphaned_sessions(db) ==
  LET orphaned == {s \in DOMAIN db.sessions :
                     /\ db.sessions[s].locked_until < db.now
                     /\ \A r \in Range(db.worker_queue) : r.item.session # s}
  IN  Reply([db EXCEPT !.sessions = Without(@, orphaned)],
            [ok |-> TRUE, count |-> Cardinality(orphaned)])

-----------------------------------------------------------------------------
(* What clients read.                                                      *)

get_custom_status(db, instance, last_seen) ==
  IF instance \in DOMAIN db.instances
     /\ db.instances[instance].custom_status_version > last_seen
  THEN Reply(db, [ok |-> TRUE, some |-> TRUE,
                  status |-> db.instances[instance].custom_status,
                  version |-> db.instances[instance].custom_status_version])
  ELSE NoItem(db)

(* Mutant of KvDeltaRow: a tombstone counts as no row. *)
KvDeltaRow_NoTombstone(db, instance, key) ==
  LET delta == Of(db.kv_delta, instance)
  IN  [found |-> key \in DOMAIN delta /\ delta[key] # Null,
       value |-> IF key \in DOMAIN delta THEN delta[key] ELSE Null]

(* The two statements of get_kv_value: the row of kv_delta decides if there *)
(* is one (a tombstone reads as no value), kv_store otherwise.             *)
KvDeltaRow(db, instance, key) ==
  [found |-> key \in DOMAIN Of(db.kv_delta, instance),
   value |-> IF key \in DOMAIN Of(db.kv_delta, instance)
             THEN Of(db.kv_delta, instance)[key] ELSE Null]

KvStoreValue(db, instance, key) ==
  IF key \in DOMAIN Of(db.kv_store, instance)
  THEN Of(db.kv_store, instance)[key] ELSE Null

get_kv_value(db, instance, key) ==
  LET delta == KvDeltaRow(db, instance, key)
  IN  Reply(db, [ok |-> TRUE,
         value |-> IF delta.found THEN delta.value
                   ELSE KvStoreValue(db, instance, key)])

(* The overlay of get_kv_all_values computes what the terminal merge does: *)
(* values override, tombstones remove.                                     *)
get_kv_all_values(db, instance) ==
  Reply(db, [ok |-> TRUE,
     values |-> Merged(Of(db.kv_store, instance), Of(db.kv_delta, instance))])

get_instance_stats(db, instance) ==
  LET execution == db.instances[instance].current_execution_id
      events == EventsOf(db, instance, execution)
      first == Filtered(events, LAMBDA e : e.id = 1)
      merged == Merged(Of(db.kv_store, instance), Of(db.kv_delta, instance))
  IN  IF instance \notin DOMAIN db.instances THEN NoItem(db)
      ELSE Reply(db, [ok |-> TRUE, some |-> TRUE,
             history_event_count |-> Len(events),
             kv_user_key_count |-> Cardinality(DOMAIN merged),
             queue_pending_count |->
               IF first # <<>> /\ first[1].kind = "OrchestrationStarted"
               THEN first[1].carried ELSE 0])

-----------------------------------------------------------------------------
(* ProviderAdmin.                                                          *)

list_instances(db) == Reply(db, [ok |-> TRUE, ids |-> DOMAIN db.instances])

list_instances_by_status(db, status) ==
  Reply(db, [ok |-> TRUE,
     ids |-> {i \in DOMAIN db.instances : CurrentStatus(db, i) = status}])

list_executions(db, instance) ==
  Reply(db, [ok |-> TRUE, ids |-> ExecutionIds(db, instance)])

latest_execution_id(db, instance) ==
  Reply(db, [ok |-> TRUE, execution_id |-> LatestExecution(db, instance)])

get_instance_info(db, instance) ==
  IF instance \notin DOMAIN db.instances THEN Refused(db)
  ELSE LET row == db.instances[instance]
           key == <<instance, row.current_execution_id>>
       IN  Reply(db, [ok |-> TRUE, name |-> row.name, version |-> row.version,
              current_execution_id |-> row.current_execution_id,
              parent |-> row.parent,
              status |-> IF key \in DOMAIN db.executions
                         THEN db.executions[key].status ELSE "Unknown",
              output |-> IF key \in DOMAIN db.executions
                         THEN db.executions[key].output ELSE Null])

get_execution_info(db, instance, execution) ==
  LET key == <<instance, execution>>
  IN  IF key \notin DOMAIN db.executions THEN Refused(db)
      ELSE Reply(db, [ok |-> TRUE, status |-> db.executions[key].status,
             output |-> db.executions[key].output,
             completed |-> db.executions[key].completed_at # Null,
             event_count |-> Len(EventsOf(db, instance, execution))])

InStatus(db, status) ==
  Cardinality({i \in DOMAIN db.instances : CurrentStatus(db, i) = status})

get_system_metrics(db) ==
  Reply(db, [ok |-> TRUE, total_instances |-> Cardinality(DOMAIN db.instances),
     total_executions |-> Cardinality(DOMAIN db.executions),
     running_instances |-> InStatus(db, "Running"),
     completed_instances |-> InStatus(db, "Completed"),
     failed_instances |-> InStatus(db, "Failed"),
     total_events |-> Len(db.history)])

get_queue_depths(db) ==
  LET Unlocked(rows) == Len(Filtered(rows, LAMBDA r : r.lock_token = Null))
  IN  Reply(db, [ok |-> TRUE,
         orchestrator_queue |-> Unlocked(db.orchestrator_queue),
         worker_queue |-> Unlocked(db.worker_queue)])

Children(db, instances) ==
  {i \in DOMAIN db.instances : db.instances[i].parent \in instances}

list_children(db, instance) ==
  Reply(db, [ok |-> TRUE, ids |-> Children(db, {instance})])

get_parent_id(db, instance) ==
  IF instance \in DOMAIN db.instances
  THEN Reply(db, [ok |-> TRUE, parent |-> db.instances[instance].parent])
  ELSE Refused(db)

(* The traversal collects the root, known or not, and its descendants: as  *)
(* many generations as there are instances.                                *)
Tree(db, root) ==
  LET Generation[n \in 0 .. Cardinality(DOMAIN db.instances)] ==
        IF n = 0 THEN {root}
        ELSE Generation[n - 1] \cup Children(db, Generation[n - 1])
  IN  Generation[Cardinality(DOMAIN db.instances)]

get_instance_tree(db, root) ==
  Reply(db, [ok |-> TRUE, ids |-> Tree(db, root), size |-> Cardinality(Tree(db, root))])

-----------------------------------------------------------------------------
(* Deletion and pruning.                                                   *)

(* The status check of delete_instances_atomic, made before its            *)
(* transaction begins.                                                     *)
NoneRunning(db, ids) ==
  \A i \in ids \cap DOMAIN db.instances : CurrentStatus(db, i) # "Running"

(* Mutant of WouldOrphan: no check. *)
WouldOrphan_Never(db, ids) == FALSE

(* A child of an instance to delete that is not itself to be deleted. *)
WouldOrphan(db, ids) == Children(db, ids) \ ids # {}

DeletedCounts(db, ids) ==
  LET Rows(rows) == Len(Filtered(rows, LAMBDA r : r.item.instance \in ids))
  IN  [ok |-> TRUE, instances_deleted |-> Cardinality(ids),
       executions_deleted |->
         Cardinality({x \in DOMAIN db.executions : x[1] \in ids}),
       events_deleted |-> Len(Filtered(db.history, LAMBDA h : h.instance \in ids)),
       queue_messages_deleted |->
         Rows(db.orchestrator_queue) + Rows(db.worker_queue)]

(* Mutant of DeleteRows: the instance locks stay. *)
DeleteRows_KeepsLocks(db, ids) ==
  [db EXCEPT
     !.history = Filtered(@, LAMBDA h : h.instance \notin ids),
     !.executions = Without(@, {x \in DOMAIN @ : x[1] \in ids}),
     !.orchestrator_queue = Filtered(@, LAMBDA r : r.item.instance \notin ids),
     !.worker_queue = Filtered(@, LAMBDA r : r.item.instance \notin ids),
     !.kv_store = Without(@, ids),
     !.kv_delta = Without(@, ids),
     !.instances = Without(@, ids)]

DeleteRows(db, ids) ==
  [db EXCEPT
     !.history = Filtered(@, LAMBDA h : h.instance \notin ids),
     !.executions = Without(@, {x \in DOMAIN @ : x[1] \in ids}),
     !.orchestrator_queue = Filtered(@, LAMBDA r : r.item.instance \notin ids),
     !.worker_queue = Filtered(@, LAMBDA r : r.item.instance \notin ids),
     !.instance_locks = Without(@, ids),
     !.kv_store = Without(@, ids),
     !.kv_delta = Without(@, ids),
     !.instances = Without(@, ids)]

(* The transaction of delete_instances_atomic. *)
DeleteTransaction(db, ids) ==
  IF WouldOrphan(db, ids) THEN Refused(db)
  ELSE Reply(DeleteRows(db, ids), DeletedCounts(db, ids))

NothingDeleted ==
  [ok |-> TRUE, instances_deleted |-> 0, executions_deleted |-> 0,
   events_deleted |-> 0, queue_messages_deleted |-> 0]

delete_instances_atomic(db, ids, force) ==
  IF ids = {} THEN Reply(db, NothingDeleted)
  ELSE IF ~force /\ ~NoneRunning(db, ids) THEN Refused(db)
  ELSE DeleteTransaction(db, ids)

delete_instance(db, instance, force) ==
  IF instance \notin DOMAIN db.instances THEN Refused(db)
  ELSE IF db.instances[instance].parent # Null THEN Refused(db)
  ELSE delete_instances_atomic(db, Tree(db, instance), force)

(* The filter's fields: instance_ids, completed_before, limit, each Null   *)
(* where it does not filter.                                               *)
NoFilter == [instance_ids |-> Null, completed_before |-> Null, limit |-> Null]

CompletedBefore(row, time) ==
  time = Null \/ (row.completed_at # Null /\ row.completed_at < time)

Matching(db, filter, statuses) ==
  {i \in DOMAIN db.instances :
     /\ filter.instance_ids = Null \/ i \in filter.instance_ids
     /\ CurrentStatus(db, i) \in statuses
     /\ LET key == <<i, db.instances[i].current_execution_id>>
        IN  IF key \in DOMAIN db.executions
            THEN CompletedBefore(db.executions[key], filter.completed_before)
            ELSE filter.completed_before = Null}

(* LIMIT without an order: any that many of the matching rows. *)
Limited(ids, limit) ==
  LET n == IF limit = Null THEN 1000 ELSE limit
  IN  IF Cardinality(ids) <= n THEN ids
      ELSE CHOOSE some \in SUBSET ids : Cardinality(some) = n

BulkDeletable(db, filter) ==
  Limited({i \in Matching(db, filter, {"Completed", "Failed", "ContinuedAsNew"}) :
             db.instances[i].parent = Null}, filter.limit)

(* Each root goes with its tree, in a forced delete of its own. *)
delete_instance_bulk(db, filter) ==
  LET roots == SetToSeq(BulkDeletable(db, filter))
      Next(acc, root) ==
        LET one == delete_instances_atomic(acc.db, Tree(acc.db, root), TRUE)
        IN  IF ~acc.ans.ok THEN acc
            ELSE IF ~one.ans.ok THEN Refused(acc.db)
            ELSE Reply(one.db, [f \in DOMAIN NothingDeleted |->
                   IF f = "ok" THEN TRUE ELSE acc.ans[f] + one.ans[f]])
  IN  FoldLeft(Next, Reply(db, NothingDeleted), roots)

(* The options' fields: keep_last and completed_before, or Null. *)
KeepsAll == [keep_last |-> Null, completed_before |-> Null]

(* Mutant of Prunable: running executions too. *)
Prunable_Running(db, instance, current, options) ==
  {e \in ExecutionIds(db, instance) :
     /\ e # current
     /\ options.keep_last = Null
        \/ Cardinality({f \in ExecutionIds(db, instance) : f > e}) >= options.keep_last
     /\ CompletedBefore(db.executions[<<instance, e>>], options.completed_before)}

(* The executions that prune_executions selects, before its transaction,   *)
(* given the current execution it read before that.                        *)
Prunable(db, instance, current, options) ==
  {e \in ExecutionIds(db, instance) :
     LET row == db.executions[<<instance, e>>]
         newer == {f \in ExecutionIds(db, instance) : f > e}
     IN  /\ e # current
         /\ row.status # "Running"
         /\ options.keep_last = Null \/ Cardinality(newer) >= options.keep_last
         /\ CompletedBefore(row, options.completed_before)}

(* The transaction of prune_executions deletes by execution id. *)
PruneTransaction(db, instance, ids) ==
  Reply([db EXCEPT
           !.history = Filtered(@,
              LAMBDA h : ~(h.instance = instance /\ h.execution \in ids)),
           !.executions = Without(@, {<<instance, e>> : e \in ids})],
        [ok |-> TRUE, instances_processed |-> 1,
         executions_deleted |-> Cardinality(ids),
         events_deleted |-> Len(Filtered(db.history,
            LAMBDA h : h.instance = instance /\ h.execution \in ids))])

prune_executions(db, instance, options) ==
  IF instance \notin DOMAIN db.instances THEN Refused(db)
  ELSE PruneTransaction(db, instance,
         Prunable(db, instance, db.instances[instance].current_execution_id,
                  options))

(* Bulk pruning takes instances of every status. *)
prune_executions_bulk(db, filter, options) ==
  LET ids == SetToSeq(Limited(Matching(db, filter,
               {CurrentStatus(db, i) : i \in DOMAIN db.instances}), filter.limit))
      Next(acc, i) ==
        LET one == prune_executions(acc.db, i, options)
        IN  Reply(one.db, [acc.ans EXCEPT
              !.instances_processed = @ + one.ans.instances_processed,
              !.executions_deleted = @ + one.ans.executions_deleted,
              !.events_deleted = @ + one.ans.events_deleted])
  IN  FoldLeft(Next, Reply(db, [ok |-> TRUE, instances_processed |-> 0,
                                executions_deleted |-> 0, events_deleted |-> 0]),
               ids)

=============================================================================
