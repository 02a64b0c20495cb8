----------------------------- MODULE Validation -----------------------------
(***************************************************************************)
(* The repository's provider validation suite                              *)
(* (src/src/provider_validation), run against the provider model.          *)
(*                                                                         *)
(* A validation function is a sequence of stages; a stage is a sequence of *)
(* threads that run concurrently (the tasks a test spawns), a thread is a  *)
(* sequence of calls.  A call names a provider method, its arguments, and  *)
(* in "want" the fields of the answer that the function asserts.  TLC      *)
(* takes the calls of a stage's threads in every order.                    *)
(*                                                                         *)
(* Durations are milliseconds as the tests give them.  The calls           *)
(* themselves take no time; a sleep moves the clock by what it says.       *)
(***************************************************************************)
EXTENDS Provider, TLC

CONSTANT
  Mine                  \* stands for the lock token of the thread's last fetch

-----------------------------------------------------------------------------
(* Asserted answers.                                                       *)

Succeeds == [ok |-> TRUE]
Fails == [ok |-> FALSE]
GetsNothing == [ok |-> TRUE, some |-> FALSE]
GetsItem == [ok |-> TRUE, some |-> TRUE]
Gets(fields) == fields @@ GetsItem
Says(fields) == fields @@ Succeeds
Anything == <<>>

(* Work items, events and metadata, as the tests write them.               *)
start_item(i) ==
  [kind |-> "StartOrchestration", instance |-> i, name |-> "TestOrch",
   version |-> "1.0.0"]
poke_item(i) == [kind |-> "ExternalRaised", instance |-> i]
Message(kind, i, id) == [kind |-> kind, instance |-> i, id |-> id]
Activity(i, id) ==
  [kind |-> "ActivityExecute", instance |-> i, execution_id |-> 1, id |-> id,
   session |-> Null, tag |-> Null]

Event(id, kind) == [id |-> id, kind |-> kind]
Started(id) ==
  [id |-> id, kind |-> "OrchestrationStarted", name |-> "TestOrch",
   version |-> "1.0.0", carried |-> 0]
Set(id, key, value) ==
  [id |-> id, kind |-> "KeyValueSet", key |-> key, value |-> value]
Cleared(id, key) == [id |-> id, kind |-> "KeyValueCleared", key |-> key]
AllCleared(id) == [id |-> id, kind |-> "KeyValuesCleared"]
StatusUpdate(id, status) ==
  [id |-> id, kind |-> "CustomStatusUpdated", status |-> status]

Named == [NoMetadata EXCEPT !.name = "TestOrch", !.version = "1.0.0"]
Ending(status, output) ==
  [Named EXCEPT !.status = status, !.output = output]

-----------------------------------------------------------------------------
(* Calls.                                                                  *)

Call(op, arguments, want) == arguments @@ [op |-> op, want |-> want]

EnqueueIn(item, delay, want) ==
  Call("enqueue_for_orchestrator", [item |-> item, delay |-> delay], want)
Enqueue(item) == EnqueueIn(item, 0, Succeeds)
FetchFor(timeout, filter, want) ==
  Call("fetch_orchestration_item", [timeout |-> timeout, filter |-> filter], want)
Fetch(want) == FetchFor(30000, Null, want)
AckAll(token, execution, delta, work, orch, metadata, cancelled, want) ==
  Call("ack_orchestration_item",
       [token |-> token, execution |-> execution, delta |-> delta,
        work |-> work, orch |-> orch, metadata |-> metadata,
        cancelled |-> cancelled], want)
Ack(token, execution, delta, metadata) ==
  AckAll(token, execution, delta, <<>>, <<>>, metadata, {}, Succeeds)
AckWork(token, execution, delta, work, metadata) ==
  AckAll(token, execution, delta, work, <<>>, metadata, {}, Succeeds)
Renew(token, extend_for, want) ==
  Call("renew_orchestration_item_lock",
       [token |-> token, extend_for |-> extend_for], want)
Abandon(token, delay, ignore_attempt, want) ==
  Call("abandon_orchestration_item",
       [token |-> token, delay |-> delay, ignore |-> ignore_attempt], want)

Read(i, want) == Call("read", [instance |-> i], want)
ReadExecution(i, e, want) ==
  Call("read_with_execution", [instance |-> i, execution |-> e], want)
AppendEvents(i, e, events, want) ==
  Call("append_with_execution",
       [instance |-> i, execution |-> e, events |-> events], want)

EnqueueWork(item) == Call("enqueue_for_worker", [item |-> item], Succeeds)
DefaultOnly == [mode |-> "DefaultOnly", tags |-> {}]
FetchWorkFor(timeout, session, tags, want) ==
  Call("fetch_work_item",
       [timeout |-> timeout, session |-> session, tags |-> tags], want)
FetchWork(want) == FetchWorkFor(30000, Null, DefaultOnly, want)
AckWorkItem(token, completion, want) ==
  Call("ack_work_item", [token |-> token, completion |-> completion], want)
RenewWork(token, extend_for, want) ==
  Call("renew_work_item_lock", [token |-> token, extend_for |-> extend_for], want)
AbandonWork(token, delay, ignore_attempt, want) ==
  Call("abandon_work_item",
       [token |-> token, delay |-> delay, ignore |-> ignore_attempt], want)
RenewSessions(owners, extend_for, idle, want) ==
  Call("renew_session_lock",
       [owners |-> owners, extend_for |-> extend_for, idle |-> idle], want)
CleanupSessions(want) == Call("cleanup_orphaned_sessions", <<>>, want)

CustomStatus(i, seen, want) ==
  Call("get_custom_status", [instance |-> i, seen |-> seen], want)
KvIs(i, key, value) ==
  Call("get_kv_value", [instance |-> i, key |-> key], [value |-> value])
Query(op, i, want) == Call(op, [instance |-> i], want)
QueryAll(op, want) == Call(op, <<>>, want)
ListByStatus(status, want) ==
  Call("list_instances_by_status", [status |-> status], want)
ExecutionInfo(i, e, want) ==
  Call("get_execution_info", [instance |-> i, execution |-> e], want)
Delete(i, force, want) ==
  Call("delete_instance", [instance |-> i, force |-> force], want)
DeleteAtomic(ids, force, want) ==
  Call("delete_instances_atomic", [ids |-> ids, force |-> force], want)
DeleteBulk(filter, want) == Call("delete_instance_bulk", [filter |-> filter], want)
Prune(i, options, want) ==
  Call("prune_executions", [instance |-> i, options |-> options], want)
PruneBulk(filter, options, want) ==
  Call("prune_executions_bulk", [filter |-> filter, options |-> options], want)

Sleep(ms) == Call("sleep", [ms |-> ms], Anything)
Corrupt(i) == Call("corrupt_instance_history", [instance |-> i], Anything)
Won(n) == Call("won", <<>>, [won |-> n])

-----------------------------------------------------------------------------
(* The whole provider, by the name of the method called.                   *)

CorruptHistory(d, instance) ==
  [d EXCEPT !.history = Updated(@, LAMBDA h : h.instance = instance,
                                LAMBDA h : [h EXCEPT !.event.kind = "Unreadable"])]

QueueCall(d, s, token) ==
  CASE s.op = "enqueue_for_orchestrator" ->
         enqueue_for_orchestrator(d, s.item, s.delay)
    [] s.op = "fetch_orchestration_item" ->
         fetch_orchestration_item(d, s.timeout, s.filter)
    [] s.op = "ack_orchestration_item" ->
         ack_orchestration_item(d, token, s.execution, s.delta, s.work, s.orch,
                                s.metadata, s.cancelled)
    [] s.op = "renew_orchestration_item_lock" ->
         renew_orchestration_item_lock(d, token, s.extend_for)
    [] s.op = "abandon_orchestration_item" ->
         abandon_orchestration_item(d, token, s.delay, s.ignore)
    [] s.op = "enqueue_for_worker" -> enqueue_for_worker(d, s.item)
    [] s.op = "fetch_work_item" -> fetch_work_item(d, s.timeout, s.session, s.tags)
    [] s.op = "ack_work_item" -> ack_work_item(d, token, s.completion)
    [] s.op = "renew_work_item_lock" -> renew_work_item_lock(d, token, s.extend_for)
    [] s.op = "abandon_work_item" -> abandon_work_item(d, token, s.delay, s.ignore)
    [] s.op = "renew_session_lock" ->
         renew_session_lock(d, s.owners, s.extend_for, s.idle)
    [] s.op = "cleanup_orphaned_sessions" -> cleanup_orphaned_sessions(d)

QueueCalls ==
  {"enqueue_for_orchestrator", "fetch_orchestration_item",
   "ack_orchestration_item", "renew_orchestration_item_lock",
   "abandon_orchestration_item", "enqueue_for_worker", "fetch_work_item",
   "ack_work_item", "renew_work_item_lock", "abandon_work_item",
   "renew_session_lock", "cleanup_orphaned_sessions"}

StoreCall(d, s, wins) ==
  CASE s.op = "read" -> read(d, s.instance)
    [] s.op = "read_with_execution" -> read_with_execution(d, s.instance, s.execution)
    [] s.op = "append_with_execution" ->
         append_with_execution(d, s.instance, s.execution, s.events)
    [] s.op = "get_custom_status" -> get_custom_status(d, s.instance, s.seen)
    [] s.op = "get_kv_value" -> get_kv_value(d, s.instance, s.key)
    [] s.op = "get_kv_all_values" -> get_kv_all_values(d, s.instance)
    [] s.op = "get_instance_stats" -> get_instance_stats(d, s.instance)
    [] s.op = "list_instances" -> list_instances(d)
    [] s.op = "list_instances_by_status" -> list_instances_by_status(d, s.status)
    [] s.op = "list_executions" -> list_executions(d, s.instance)
    [] s.op = "latest_execution_id" -> latest_execution_id(d, s.instance)
    [] s.op = "get_instance_info" -> get_instance_info(d, s.instance)
    [] s.op = "get_execution_info" ->
         get_execution_info(d, s.instance, s.execution)
    [] s.op = "get_system_metrics" -> get_system_metrics(d)
    [] s.op = "get_queue_depths" -> get_queue_depths(d)
    [] s.op = "list_children" -> list_children(d, s.instance)
    [] s.op = "get_parent_id" -> get_parent_id(d, s.instance)
    [] s.op = "get_instance_tree" -> get_instance_tree(d, s.instance)
    [] s.op = "delete_instance" -> delete_instance(d, s.instance, s.force)
    [] s.op = "delete_instances_atomic" -> delete_instances_atomic(d, s.ids, s.force)
    [] s.op = "delete_instance_bulk" -> delete_instance_bulk(d, s.filter)
    [] s.op = "prune_executions" -> prune_executions(d, s.instance, s.options)
    [] s.op = "prune_executions_bulk" ->
         prune_executions_bulk(d, s.filter, s.options)
    [] s.op = "corrupt_instance_history" -> Done(CorruptHistory(d, s.instance))
    [] s.op = "sleep" -> Done([d EXCEPT !.now = @ + s.ms])
    [] s.op = "won" -> Reply(d, [won |-> wins])

-----------------------------------------------------------------------------
(* The test runner.  The functions below are shared by the suite's files.  *)

Alone(calls) == << <<calls>> >>

Seed(i, meta, events) ==
  <<Enqueue(start_item(i)), Fetch(GetsItem), Ack(Mine, 1, events, meta)>>
create_instance(i) == Seed(i, Named, <<Started(1)>>)

Flat(parts) == FlattenSeq(parts)

Agrees(ans, want) ==
  \A f \in DOMAIN want : f \in DOMAIN ans /\ ans[f] = want[f]

=============================================================================
