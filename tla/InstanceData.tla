---------------------------- MODULE InstanceData ----------------------------
(***************************************************************************)
(* The data of an orchestration instance while turns, activities, clients  *)
(* and administrators work on it at the same time: its key-value store,    *)
(* its custom status, its deletion and the pruning of its executions.      *)
(*                                                                         *)
(* The database and every statement on it come from module Provider.  Each *)
(* step here is one transaction, or one statement of a method that reads   *)
(* outside a transaction; what such a method read is kept in the variable  *)
(* of its actor until its next step.                                       *)
(*                                                                         *)
(* There is one root orchestration, which may start one sub-orchestration. *)
(* The orchestration code is any code: a turn makes any of the effects     *)
(* below and may end the execution.  Lock expiry removes the lock row,     *)
(* which to every statement on it is the same as a time that has passed.   *)
(***************************************************************************)
EXTENDS Provider

CONSTANTS
  Root, Kid,   \* the orchestration and its sub-orchestration
  Key, Value,  \* what the orchestration may store
  MaxKeys,     \* MAX_KV_KEYS
  MaxStarts,   \* bound on the times a client starts the root
  MaxCalls,    \* bound on the calls of clients and on lock expiries, together
  MaxEffects,  \* bound on the effects of the orchestrations' code
  MaxExec      \* bound on executions of an instance

(* The orchestration has a name and a version. *)
ASSUME NameAssumption == Null \notin {"Orch", "1.0.0"}

(* A value that is stored is a text, not NULL. *)
ASSUME ValueAssumption == Null \notin Value

(* The id of a sub-orchestration is longer than its parent's. *)
ASSUME KidAssumption == Kid # Root

VARIABLES
  db,        \* the provider's database
  turn,      \* the turn in progress: the item fetched; Null if there is none
  worker,    \* the activity in progress: the row fetched; Null if there is none
  reader,    \* a client's get_kv_value in progress, or Null
  admin,     \* a deletion or pruning in progress, or Null
  epoch,     \* per instance, how often it has been deleted
  begun,     \* per instance, the snapshot its current execution began with
  seen,      \* the values that the key being read has had since its read began
  left       \* what remains of each bound

vars == <<db, turn, worker, reader, admin, epoch, begun, seen, left>>

Instance == {Root, Kid}

Init ==
  /\ db = EmptyDb
  /\ turn = Null /\ worker = Null /\ reader = Null /\ admin = Null
  /\ epoch = [i \in Instance |-> 0]
  /\ begun = [i \in Instance |-> EmptyTable]
  /\ seen = {}
  /\ left = [starts |-> MaxStarts, calls |-> MaxCalls, effects |-> MaxEffects]

Spend(what) == left[what] > 0 /\ left' = [left EXCEPT ![what] = @ - 1]

View(d, i) == Merged(Of(d.kv_store, i), Of(d.kv_delta, i))

Valued(table, k) == IF k \in DOMAIN table THEN table[k] ELSE Null

(* What the key has been while it was being read. *)
Watch ==
  seen' = IF reader' = Null THEN {}
          ELSE (IF reader = Null THEN {} ELSE seen)
               \cup {Valued(View(db', Root), reader'.key)}

-----------------------------------------------------------------------------
(* Clients.                                                                *)

StartItem(i, parent) ==
  [kind |-> "StartOrchestration", instance |-> i, name |-> "Orch",
   version |-> "1.0.0", parent |-> parent, status |-> Null]

(* Client::start_orchestration, of an instance that is not there. *)
StartRoot ==
  /\ Spend("starts")
  /\ Root \notin DOMAIN db.instances
  /\ \A r \in Range(db.orchestrator_queue) : r.item.instance # Root
  /\ db' = enqueue_for_orchestrator(db, StartItem(Root, Null), 0).db
  /\ UNCHANGED <<turn, worker, reader, admin, epoch, begun>>
  /\ Watch

(* Client::raise_event. *)
RaiseEvent ==
  /\ Spend("calls")
  /\ Root \in DOMAIN db.instances
  /\ db' = enqueue_for_orchestrator(db,
              [kind |-> "ExternalRaised", instance |-> Root, epoch |-> epoch[Root]],
              0).db
  /\ UNCHANGED <<turn, worker, reader, admin, epoch, begun>>
  /\ Watch

(* Client::get_kv_value, its first statement: a row of kv_delta decides.   *)
ReadKvDelta(k) ==
  /\ reader = Null
  /\ Spend("calls")
  /\ LET row == KvDeltaRow(db, Root, k)
     IN  reader' = [key |-> k, done |-> row.found, value |-> row.value]
  /\ UNCHANGED <<db, turn, worker, admin, epoch, begun>>
  /\ Watch

(* Its second statement, when kv_delta had no row. *)
ReadKvStore ==
  /\ reader # Null /\ ~reader.done
  /\ reader' = [reader EXCEPT !.done = TRUE,
                              !.value = KvStoreValue(db, Root, reader.key)]
  /\ UNCHANGED <<db, turn, worker, admin, epoch, begun, left>>
  /\ Watch

ReadReturns ==
  /\ reader # Null /\ reader.done
  /\ reader' = Null
  /\ UNCHANGED <<db, turn, worker, admin, epoch, begun, left>>
  /\ Watch

-----------------------------------------------------------------------------
(* Turns.                                                                  *)

FetchTurn ==
  /\ turn = Null
  /\ db.orchestrator_queue # <<>>
  /\ LET fetched == fetch_orchestration_item(db, 1, Null)
     IN  /\ fetched.ans.some
         /\ db' = fetched.db
         /\ turn' = Extended(fetched.ans, [epoch |-> epoch[fetched.ans.instance]])
  /\ UNCHANGED <<worker, reader, admin, epoch, begun, left>>
  /\ Watch

LockExpires(i) ==
  /\ Spend("calls")
  /\ i \in DOMAIN db.instance_locks
  /\ db' = [db EXCEPT !.instance_locks = Without(@, {i})]
  /\ UNCHANGED <<turn, worker, reader, admin, epoch, begun>>
  /\ Watch

Says(events, kinds) == \E e \in Range(events) : e.kind \in kinds

Continues(item) ==
  Filtered(item.messages, LAMBDA x : x.kind = "ContinueAsNew")

(* Completed or failed, or continued as new without the message that says  *)
(* so: the batch is acknowledged unprocessed.                              *)
Ended(item) ==
  \/ Says(item.history, {"OrchestrationCompleted", "OrchestrationFailed"})
  \/ Says(item.history, {"OrchestrationContinuedAsNew"}) /\ Continues(item) = <<>>

(* No history and nothing that starts the orchestration: there is no name  *)
(* to find its code by, and the batch is acknowledged empty.               *)
Nameless(item) == item.history = <<>> /\ Filtered(item.messages, Starts) = <<>>

Baseline(item) == IF Continues(item) # <<>> THEN <<>> ELSE item.history

ExecutionToUse(item) ==
  IF Continues(item) # <<>> THEN item.execution_id + 1 ELSE item.execution_id

(* Mutant of StartEvents: the custom status is not carried over. *)
StartEvents_NoStatus(item) ==
  LET starts == Filtered(item.messages, Starts)
  IN  IF Baseline(item) # <<>> THEN <<>>
      ELSE <<[kind |-> "OrchestrationStarted", name |-> "Orch",
              version |-> "1.0.0", parent |-> starts[1].parent,
              status |-> Null, epoch |-> item.epoch]>>

(* OrchestrationStarted of a first turn: from the message that starts the  *)
(* execution, which carries the custom status of the one before.           *)
StartEvents(item) ==
  LET starts == Filtered(item.messages, Starts)
  IN  IF Baseline(item) # <<>> THEN <<>>
      ELSE <<[kind |-> "OrchestrationStarted", name |-> "Orch",
              version |-> "1.0.0", parent |-> starts[1].parent,
              status |-> starts[1].status, epoch |-> item.epoch]>>

(* Other messages become events of their own. *)
Arrivals(item) ==
  LET others == Filtered(item.messages, LAMBDA x : ~Starts(x))
  IN  [x \in DOMAIN others |->
         IF others[x].kind = "ActivityCompleted"
         THEN [kind |-> "ActivityCompleted", source |-> others[x].id]
         ELSE [kind |-> others[x].kind]]

(* What the root's code may do in a turn; the sub-orchestration's code only *)
(* ends.                                                                   *)
Effect ==
  {<<>>}
  \cup {<<[kind |-> "KeyValueSet", key |-> k, value |-> x]>> : k \in Key, x \in Value}
  \cup {<<[kind |-> "KeyValueCleared", key |-> k]>> : k \in Key}
  \cup {<<[kind |-> "KeyValuesCleared"]>>}
  \cup {<<[kind |-> "CustomStatusUpdated", status |-> x]>> : x \in Value \cup {Null}}
  \cup {<<[kind |-> "ActivityScheduled"]>>}
  \cup {<<[kind |-> "SubOrchestrationScheduled"]>>}

Ending ==
  {<<>>, <<[kind |-> "OrchestrationCompleted"]>>,
   <<[kind |-> "OrchestrationContinuedAsNew"]>>}

Numbered(events, from, e) ==
  [x \in DOMAIN events |-> Extended([id |-> from + x, epoch |-> e], events[x])]

(* compute_accumulated_custom_status *)
AccumulatedStatus(events) ==
  LET updates == Filtered(events, LAMBDA e :
        \/ e.kind = "OrchestrationStarted" /\ e.status # Null
        \/ e.kind = "CustomStatusUpdated")
  IN  IF updates = <<>> THEN Null ELSE Last(updates).status

(* compute_execution_metadata *)
Metadata(delta) ==
  LET started == Filtered(delta, LAMBDA e : e.kind = "OrchestrationStarted")
      named == IF started = <<>> THEN NoMetadata
               ELSE [NoMetadata EXCEPT !.name = started[1].name,
                                       !.version = started[1].version,
                                       !.parent = started[1].parent]
  IN  CASE Says(delta, {"OrchestrationFailed"}) -> [named EXCEPT !.status = "Failed"]
        [] Says(delta, {"OrchestrationCompleted"}) -> [named EXCEPT !.status = "Completed"]
        [] Says(delta, {"OrchestrationContinuedAsNew"}) ->
             [named EXCEPT !.status = "ContinuedAsNew"]
        [] OTHER -> named

(* One event's change to the context's kv_state, in memory. *)
Apply(state, event) ==
  CASE event.kind = "KeyValueSet"      -> Put(state, event.key, event.value)
    [] event.kind = "KeyValueCleared"  -> Without(state, {event.key})
    [] event.kind = "KeyValuesCleared" -> EmptyTable
    [] OTHER -> state

Replayed(snapshot, events) ==
  LET state[n \in 0 .. Len(events)] ==
        IF n = 0 THEN snapshot ELSE Apply(state[n - 1], events[n])
  IN  state[Len(events)]

(* validate_limits counts the keys of the snapshot and of this turn's      *)
(* delta, not the ones of the execution's earlier turns.                   *)
OverLimit(item, delta) ==
  Cardinality(DOMAIN Replayed(item.kv_snapshot, delta)) > MaxKeys

Final == {"OrchestrationCompleted", "OrchestrationContinuedAsNew"}

(* What a turn schedules is sent only if the execution goes on. *)
WorkerItems(item, delta) ==
  LET calls == Filtered(delta, LAMBDA e :
                 e.kind = "ActivityScheduled" /\ ~Says(delta, Final))
  IN  [x \in DOMAIN calls |->
         [kind |-> "ActivityExecute", instance |-> item.instance,
          execution_id |-> ExecutionToUse(item), id |-> calls[x].id,
          session |-> Null, tag |-> Null, epoch |-> item.epoch]]

(* The start of the sub-orchestration, unless the turn ended the           *)
(* execution; the continuation, which does not name the parent; and the    *)
(* answer of a sub-orchestration that has completed.                       *)
OrchestratorItems(item, parent, delta, history) ==
  (IF Says(delta, {"SubOrchestrationScheduled"}) /\ ~Says(delta, Final)
   THEN <<StartItem(Kid, Root)>> ELSE <<>>)
  \o (IF Says(delta, {"OrchestrationContinuedAsNew"})
      THEN <<[StartItem(item.instance, Null) EXCEPT
                !.kind = "ContinueAsNew", !.status = AccumulatedStatus(history)]>>
      ELSE <<>>)
  \o (IF Says(delta, {"OrchestrationCompleted"}) /\ parent # Null
      THEN <<[kind |-> "SubOrchCompleted", instance |-> parent, epoch |-> Null]>>
      ELSE <<>>)

(* The activities that an execution leaves behind when it ends. *)
Outstanding(item, history) ==
  LET scheduled == {e \in Range(history) : e.kind = "ActivityScheduled"}
      answered == {e.source : e \in {x \in Range(history) : x.kind = "ActivityCompleted"}}
  IN  {<<item.instance, ExecutionToUse(item), e.id>> :
         e \in {x \in scheduled : x.id \notin answered}}

(* A turn: the new events, the check of the limits, and the ack.  An ack   *)
(* that is refused leaves the turn's work undone and its lock to expire.   *)
RunTurn(effect, ending) ==
  LET item == turn
      base == Baseline(item)
      events == StartEvents(item) \o Arrivals(item) \o effect \o ending
      wrote == Numbered(events, Len(base), item.epoch)
      over == OverLimit(item, wrote)
      failed == Numbered(<<[kind |-> "OrchestrationFailed"]>>,
                         Len(base) + Len(wrote), item.epoch)
      delta == IF over THEN wrote \o failed ELSE wrote
      history == base \o wrote
      acked == ack_orchestration_item(db, item.lock_token, ExecutionToUse(item),
                 delta,
                 IF over THEN <<>> ELSE WorkerItems(item, wrote),
                 IF over THEN <<>>
                 ELSE OrchestratorItems(item, history[1].parent, wrote, history),
                 Metadata(delta),
                 IF ending = <<>> THEN {} ELSE Outstanding(item, history))
  IN  /\ turn # Null /\ ~Ended(turn) /\ ~Nameless(turn)
      /\ Len(effect) <= IF item.instance = Root THEN left.effects ELSE 0
      /\ left' = [left EXCEPT !.effects = @ - Len(effect)]
      /\ Says(ending, {"OrchestrationContinuedAsNew"}) => ExecutionToUse(item) < MaxExec
      /\ db' = acked.db
      /\ begun' = IF acked.ans.ok /\ base = <<>>
                  THEN [begun EXCEPT ![item.instance] = item.kv_snapshot] ELSE begun
      /\ turn' = Null
      /\ UNCHANGED <<worker, reader, admin, epoch>>
      /\ Watch

(* The batch of an instance that has ended or has no name. *)
AckUnprocessed ==
  /\ turn # Null /\ (Ended(turn) \/ Nameless(turn))
  /\ db' = ack_orchestration_item(db, turn.lock_token, turn.execution_id, <<>>,
                                  <<>>, <<>>, NoMetadata, {}).db
  /\ turn' = Null
  /\ UNCHANGED <<worker, reader, admin, epoch, begun, left>>
  /\ Watch

-----------------------------------------------------------------------------
(* Activities.                                                             *)

FetchActivity ==
  /\ worker = Null
  /\ LET fetched == fetch_work_item(db, 1, Null, [mode |-> "DefaultOnly", tags |-> {}])
     IN  /\ fetched.ans.some
         /\ db' = fetched.db
         /\ worker' = fetched.ans
  /\ UNCHANGED <<turn, reader, admin, epoch, begun, left>>
  /\ Watch

(* The completion names the activity by instance, execution and id, which  *)
(* another incarnation of the instance gives to its own activities.        *)
CompleteActivity ==
  /\ worker # Null
  /\ db' = ack_work_item(db, worker.lock_token,
             [kind |-> "ActivityCompleted", instance |-> worker.item.instance,
              id |-> worker.item.id, epoch |-> worker.item.epoch]).db
  /\ worker' = Null
  /\ UNCHANGED <<turn, reader, admin, epoch, begun, left>>
  /\ Watch

-----------------------------------------------------------------------------
(* Administration, one statement or transaction at a time.                 *)

(* ProviderAdmin::delete_instance: the root exists and is no child. *)
DeleteBegins(force) ==
  /\ admin = Null
  /\ Spend("calls")
  /\ Root \in DOMAIN db.instances
  /\ admin' = [op |-> "tree", force |-> force]
  /\ UNCHANGED <<db, turn, worker, reader, epoch, begun>>
  /\ Watch

(* delete_instance_bulk selects the root, and will not look at its status  *)
(* again.                                                                  *)
BulkSelects ==
  /\ admin = Null
  /\ Spend("calls")
  /\ Root \in BulkDeletable(db, NoFilter)
  /\ admin' = [op |-> "tree", force |-> TRUE]
  /\ UNCHANGED <<db, turn, worker, reader, epoch, begun>>
  /\ Watch

(* get_instance_tree: the children of the root; the sub-orchestration has  *)
(* none.                                                                   *)
ReadTree ==
  /\ admin # Null /\ admin.op = "tree"
  /\ admin' = [op |-> IF admin.force THEN "delete" ELSE "status",
               ids |-> Tree(db, Root)]
  /\ UNCHANGED <<db, turn, worker, reader, epoch, begun, left>>
  /\ Watch

CheckStatus ==
  /\ admin # Null /\ admin.op = "status"
  /\ admin' = IF NoneRunning(db, admin.ids) THEN [admin EXCEPT !.op = "delete"] ELSE Null
  /\ UNCHANGED <<db, turn, worker, reader, epoch, begun, left>>
  /\ Watch

DeleteCommits ==
  /\ admin # Null /\ admin.op = "delete"
  /\ LET deleted == DeleteTransaction(db, admin.ids)
     IN  /\ db' = deleted.db
         /\ epoch' = [i \in Instance |-> IF deleted.ans.ok /\ i \in admin.ids
                                         THEN epoch[i] + 1 ELSE epoch[i]]
  /\ admin' = Null
  /\ UNCHANGED <<turn, worker, reader, begun, left>>
  /\ Watch

(* prune_executions: the current execution, then the executions to prune,  *)
(* then the transaction.                                                   *)
PruneBegins(options) ==
  /\ admin = Null
  /\ Spend("calls")
  /\ Root \in DOMAIN db.instances
  /\ admin' = [op |-> "select", options |-> options,
               current |-> db.instances[Root].current_execution_id]
  /\ UNCHANGED <<db, turn, worker, reader, epoch, begun>>
  /\ Watch

PruneSelects ==
  /\ admin # Null /\ admin.op = "select"
  /\ LET ids == Prunable(db, Root, admin.current, admin.options)
     IN  admin' = IF ids = {} THEN Null
                  ELSE [op |-> "prune", ids |-> ids, current |-> admin.current]
  /\ UNCHANGED <<db, turn, worker, reader, epoch, begun, left>>
  /\ Watch

PruneCommits ==
  /\ admin # Null /\ admin.op = "prune"
  /\ db' = PruneTransaction(db, Root, admin.ids).db
  /\ admin' = Null
  /\ UNCHANGED <<turn, worker, reader, epoch, begun, left>>
  /\ Watch

-----------------------------------------------------------------------------
Next ==
  \/ StartRoot \/ RaiseEvent
  \/ \E k \in Key : ReadKvDelta(k)
  \/ ReadKvStore \/ ReadReturns
  \/ FetchTurn \/ \E i \in Instance : LockExpires(i)
  \/ \E effect \in Effect, ending \in Ending : RunTurn(effect, ending)
  \/ AckUnprocessed
  \/ FetchActivity \/ CompleteActivity
  \/ \E force \in BOOLEAN : DeleteBegins(force)
  \/ BulkSelects \/ ReadTree \/ CheckStatus \/ DeleteCommits
  \/ \E n \in {Null, 1} : PruneBegins([KeepsAll EXCEPT !.keep_last = n])
  \/ PruneSelects \/ PruneCommits

Spec == Init /\ [][Next]_vars

-----------------------------------------------------------------------------
(* Properties.                                                             *)

CurrentEvents(i) == EventsOf(db, i, db.instances[i].current_execution_id)

(* Every execution begins with OrchestrationStarted, unless it was pruned. *)
Pruned(i) == CurrentEvents(i) = <<>>

(* Replay is deterministic only if the orchestration reads the same values *)
(* every time: each turn of an execution is given the key-value snapshot   *)
(* that the execution's first turn was given, whatever the execution has   *)
(* written since (kv_delta keeps those writes out of the snapshot,         *)
(* get_kv_snapshot_in_tx), and even if its instance is deleted meanwhile.  *)
SnapshotKept ==
  turn # Null =>
    \/ Ended(turn) \/ Baseline(turn) = <<>>
    \/ turn.kv_snapshot = begun[turn.instance]

(* A client sees what the orchestration sees: kv_store overlaid with       *)
(* kv_delta (get_kv_all_values) is the snapshot with the history of the    *)
(* current execution replayed over it (OrchestrationContext.kv_state), in  *)
(* the middle of an execution, after its end and across continue-as-new.   *)
ClientSeesReplay ==
  \A i \in DOMAIN db.instances :
    ~Pruned(i) =>
      Replayed(Of(db.kv_store, i), CurrentEvents(i)) = View(db, i)

(* The custom status a client polls (the column of instances) is the one   *)
(* the orchestration accumulates from its history, including the one that  *)
(* continue-as-new carries into the next execution.                        *)
StatusIsAccumulated ==
  \A i \in DOMAIN db.instances :
    ~Pruned(i) =>
      db.instances[i].custom_status = AccumulatedStatus(CurrentEvents(i))

(* get_kv_value reads two tables in two statements, and what it answers is *)
(* nevertheless a value that the key had at some time during the call: an  *)
(* execution may end and merge kv_delta into kv_store, and instances may   *)
(* be deleted and started again, between the statements.                   *)
ReadIsLinearizable == reader # Null /\ reader.done => reader.value \in seen

(* Everything stored for an instance belongs to its present incarnation: a *)
(* turn fetched, or an activity started, before the instance was deleted   *)
(* writes nothing into the instance that a client has started again under  *)
(* the same id.  (The answers of sub-orchestrations are not covered.)      *)
OneIncarnation ==
  LET Own(x, i) == x.epoch = epoch[i]
  IN  /\ \A h \in Range(db.history) :
           h.event.epoch # Null => Own(h.event, h.instance)
      /\ \A r \in Range(db.worker_queue) : Own(r.item, r.item.instance)
      /\ \A r \in Range(db.orchestrator_queue) :
           r.item.kind \in {"ActivityCompleted", "ExternalRaised"} =>
             Own(r.item, r.item.instance)

(* A sub-orchestration's parent is there: the tree that a deletion read    *)
(* before its transaction may be stale when it deletes.                    *)
NoOrphanRow ==
  \A i \in DOMAIN db.instances :
    db.instances[i].parent # Null => db.instances[i].parent \in DOMAIN db.instances

(* prune_executions selects before its transaction.  Executions come to an *)
(* end in between, and never start running again: it prunes no running     *)
(* execution, and not the current one as long as that is the one it read.  *)
PruneSparesRunning ==
  [][PruneCommits =>
       \A e \in ExecutionIds(db, Root) :
         \/ db.executions[<<Root, e>>].status = "Running"
         \/ e = admin.current /\ e = db.instances[Root].current_execution_id
         => e \in ExecutionIds(db', Root)]_vars

=============================================================================
