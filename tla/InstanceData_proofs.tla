------------------------ MODULE InstanceData_proofs ------------------------
(***************************************************************************)
(* Proofs about InstanceData, for every orchestration and                  *)
(* sub-orchestration, every set of keys and values and every bound.        *)
(*                                                                         *)
(* First the inductive invariant; then which tables each transaction of    *)
(* module Provider changes, and how; then one lemma per kind of step, and  *)
(* the theorems. After them the second invariant, of what clients see: how *)
(* folding a history is extended, repeated and overlaid, one lemma per     *)
(* kind of step again, and its theorems.                                   *)
(***************************************************************************)
EXTENDS InstanceData, Subsequence_proofs

-----------------------------------------------------------------------------
(* The inductive invariant.                                                *)

DbFields ==
  {"now", "tokens", "instances", "executions", "history", "orchestrator_queue",
   "worker_queue", "instance_locks", "sessions", "kv_store", "kv_delta"}

InstanceFields ==
  {"name", "version", "current_execution_id", "parent", "custom_status",
   "custom_status_version"}

ExecutionFields == {"status", "output", "pinned", "completed_at"}

OrchestratorFields == {"item", "visible_at", "lock_token", "attempts"}

WorkerFields == OrchestratorFields \cup {"locked_until"}

(* The shape of a database. *)
IsDb(d) ==
  /\ DOMAIN d = DbFields
  /\ Listed(d.history) /\ Listed(d.orchestrator_queue) /\ Listed(d.worker_queue)

(* The shape of the rows that statements update in place. *)
RowsOk(d) ==
  /\ \A i \in DOMAIN d.instances :
       /\ DOMAIN d.instances[i] = InstanceFields
       /\ d.instances[i].current_execution_id \in Nat
  /\ \A x \in DOMAIN d.executions :
       x = <<x[1], x[2]>> /\ DOMAIN d.executions[x] = ExecutionFields
  /\ \A r \in Range(d.orchestrator_queue) : DOMAIN r = OrchestratorFields
  /\ \A r \in Range(d.worker_queue) : DOMAIN r = WorkerFields

(* A lock token is a number that was given out. *)
TokensOk(d) ==
  /\ d.tokens \in Nat
  /\ \A i \in DOMAIN d.instance_locks : d.instance_locks[i].lock_token \in 1..d.tokens
  /\ \A r \in Range(d.orchestrator_queue) : r.lock_token \in (1..d.tokens) \cup {Null}
  /\ \A r \in Range(d.worker_queue) : r.lock_token \in (1..d.tokens) \cup {Null}

(* The event ids of an execution are different positive numbers. *)
IdsOk(d) ==
  /\ \E b \in Nat : \A h \in Range(d.history) : h.event.id \in 1..b
  /\ \A g, h \in Range(d.history) :
       g.instance = h.instance /\ g.execution = h.execution /\ g.event.id = h.event.id
         => g = h

MessageKinds ==
  {"StartOrchestration", "ContinueAsNew", "ExternalRaised", "ActivityCompleted",
   "SubOrchCompleted"}

(* What the queues say of the instances they name. *)
QueuesOk ==
  /\ \A r \in Range(db.orchestrator_queue) :
       /\ r.item.kind \in MessageKinds
       /\ Starts(r.item) => r.item.instance \in Instance
       /\ r.item.kind \in {"ActivityCompleted", "ExternalRaised"} =>
            r.item.instance \in Instance /\ r.item.epoch = epoch[r.item.instance]
  /\ \A r \in Range(db.worker_queue) :
       r.item.instance \in Instance /\ r.item.epoch = epoch[r.item.instance]

(* History belongs to instances that are there, in their incarnation. *)
HistoryOk ==
  /\ DOMAIN db.instances \subseteq Instance
  /\ \A h \in Range(db.history) :
       /\ h.instance \in DOMAIN db.instances
       /\ h.event.epoch = epoch[h.instance]
       /\ h.event.kind # "Unreadable"

(* What was fetched for a turn, whatever has happened since. *)
TurnOk ==
  turn # Null =>
    /\ turn.lock_token \in 1..db.tokens /\ turn.execution_id \in Nat
    /\ Listed(turn.history) /\ Listed(turn.messages)
    /\ \A m \in Range(turn.messages) :
         /\ m.kind \in MessageKinds
         /\ Starts(m) => turn.instance \in Instance
    /\ turn.history # <<>> => turn.instance \in Instance

(* As long as the lock of the turn is there nothing that the turn was given *)
(* has changed.                                                            *)
TurnHeld ==
  turn # Null =>
    \A i \in LockedBy(db, turn.lock_token) :
      /\ i = turn.instance
      /\ i \in Instance => turn.epoch = epoch[i]
      /\ turn.kv_snapshot = Of(db.kv_store, i)
      /\ IF i \in DOMAIN db.instances
         THEN turn.execution_id = db.instances[i].current_execution_id
         ELSE turn.history = <<>>

(* The rows that carry a worker's token are the activity it was given. *)
WorkerOk ==
  worker # Null =>
    /\ worker.lock_token \in 1..db.tokens
    /\ \A r \in Range(db.worker_queue) :
         r.lock_token = worker.lock_token => r.item = worker.item

TerminalKinds ==
  {"OrchestrationCompleted", "OrchestrationFailed", "OrchestrationContinuedAsNew"}

(* kv_store stays what it was when the current execution began, until the  *)
(* execution ends.                                                         *)
SnapshotsOk ==
  \A i \in DOMAIN db.instances :
    LET rows == HistoryOf(db, i, db.instances[i].current_execution_id)
    IN  \/ rows = {}
        \/ \E h \in rows : h.event.kind \in TerminalKinds
        \/ Of(db.kv_store, i) = begun[i]

(* Each turn is given what the first turn of its execution was given. *)
TurnSnapshot ==
  turn # Null =>
    \/ Ended(turn) \/ Baseline(turn) = <<>>
    \/ turn.kv_snapshot = begun[turn.instance]

(* The executions selected for pruning are there and have ended. *)
PruneOk ==
  admin # Null =>
    /\ "op" \in DOMAIN admin
    /\ admin.op = "prune" =>
         \A e \in admin.ids :
           /\ e # admin.current
           /\ <<Root, e>> \in DOMAIN db.executions
           /\ db.executions[<<Root, e>>].status # "Running"

(* A read that has not looked at kv_store yet will find there a value that *)
(* the key has had meanwhile.                                              *)
ReaderOk ==
  reader # Null =>
    /\ DOMAIN reader = {"key", "done", "value"}
    /\ reader.done \in BOOLEAN
    /\ IF reader.done THEN reader.value \in seen
       ELSE KvStoreValue(db, Root, reader.key) \in seen

VarsOk ==
  /\ epoch \in [Instance -> Nat]
  /\ DOMAIN begun = Instance

(* What does not concern the administrator and the reader. *)
Core ==
  /\ IsDb(db) /\ RowsOk(db) /\ TokensOk(db) /\ IdsOk(db) /\ VarsOk
  /\ QueuesOk /\ HistoryOk /\ TurnOk /\ TurnHeld /\ WorkerOk
  /\ SnapshotsOk /\ TurnSnapshot /\ NoOrphanRow

IInv == Core /\ PruneOk /\ ReaderOk

-----------------------------------------------------------------------------
(* Tables and transactions.                                                *)

(* What a deletion leaves. *)
Deleted(d, e, ids) ==
  /\ IsDb(e)
  /\ e.now = d.now /\ e.tokens = d.tokens
  /\ e.instances = Without(d.instances, ids)
  /\ e.executions = Without(d.executions, {x \in DOMAIN d.executions : x[1] \in ids})
  /\ e.instance_locks = Without(d.instance_locks, ids)
  /\ e.kv_store = Without(d.kv_store, ids)
  /\ e.kv_delta = Without(d.kv_delta, ids)
  /\ Range(e.history) = {h \in Range(d.history) : h.instance \notin ids}
  /\ Range(e.orchestrator_queue) =
       {r \in Range(d.orchestrator_queue) : r.item.instance \notin ids}
  /\ Range(e.worker_queue) =
       {r \in Range(d.worker_queue) : r.item.instance \notin ids}

(* The rows of the given instances go from every table, and no others. *)
LEMMA DeleteFacts ==
    ASSUME NEW d, IsDb(d), NEW ids
    PROVE  Deleted(d, DeleteRows(d, ids), ids)
<1> DEFINE H == {k \in DOMAIN d.history : d.history[k].instance \notin ids}
           O == {k \in DOMAIN d.orchestrator_queue :
                   d.orchestrator_queue[k].item.instance \notin ids}
           W == {k \in DOMAIN d.worker_queue : d.worker_queue[k].item.instance \notin ids}
           e == DeleteRows(d, ids)
<1>1. /\ DOMAIN e = DbFields
      /\ e.now = d.now /\ e.tokens = d.tokens
      /\ e.instances = Without(d.instances, ids)
      /\ e.executions = Without(d.executions, {x \in DOMAIN d.executions : x[1] \in ids})
      /\ e.instance_locks = Without(d.instance_locks, ids)
      /\ e.kv_store = Without(d.kv_store, ids)
      /\ e.kv_delta = Without(d.kv_delta, ids)
      /\ e.history = Pick(d.history, H)
      /\ e.orchestrator_queue = Pick(d.orchestrator_queue, O)
      /\ e.worker_queue = Pick(d.worker_queue, W)
  BY DEF DeleteRows, IsDb, DbFields, Filtered
<1>2. /\ Listed(Pick(d.history, H))
      /\ Range(Pick(d.history, H)) = {d.history[k] : k \in H}
  BY PickRows DEF IsDb
<1>3. /\ Listed(Pick(d.orchestrator_queue, O))
      /\ Range(Pick(d.orchestrator_queue, O)) = {d.orchestrator_queue[k] : k \in O}
  BY PickRows DEF IsDb
<1>4. /\ Listed(Pick(d.worker_queue, W))
      /\ Range(Pick(d.worker_queue, W)) = {d.worker_queue[k] : k \in W}
  BY PickRows DEF IsDb
<1>5. /\ {d.history[k] : k \in H} = {h \in Range(d.history) : h.instance \notin ids}
      /\ {d.orchestrator_queue[k] : k \in O} =
           {r \in Range(d.orchestrator_queue) : r.item.instance \notin ids}
      /\ {d.worker_queue[k] : k \in W} =
           {r \in Range(d.worker_queue) : r.item.instance \notin ids}
  BY DEF Range
<1> HIDE DEF H, O, W, e
<1>6. IsDb(e)
  BY <1>1, <1>2, <1>3, <1>4 DEF IsDb
<1>7. Deleted(d, e, ids)
  BY <1>1, <1>2, <1>3, <1>4, <1>5, <1>6 DEF Deleted
<1> QED BY <1>7 DEF e

(* The answer of a deletion that is not refused. *)
LEMMA DeletedOk == ASSUME NEW d, NEW ids PROVE DeletedCounts(d, ids).ok
  BY DEF DeletedCounts, Filtered

(* What a pruning leaves: the history and the row of an execution go       *)
(* together.                                                               *)
PrunedRows(d, e, i, ids) ==
  /\ IsDb(e)
  /\ \A f \in DbFields \ {"history", "executions"} : e[f] = d[f]
  /\ e.executions = Without(d.executions, {<<i, x>> : x \in ids})
  /\ Range(e.history) =
       {h \in Range(d.history) : ~(h.instance = i /\ h.execution \in ids)}

(* A pruning removes the executions it was given, with their history. *)
LEMMA PruneFacts ==
    ASSUME NEW d, IsDb(d), NEW i, NEW ids
    PROVE  PrunedRows(d, PruneTransaction(d, i, ids).db, i, ids)
<1> DEFINE H == {k \in DOMAIN d.history :
                   ~(d.history[k].instance = i /\ d.history[k].execution \in ids)}
           e == [d EXCEPT !.history = Pick(d.history, H),
                          !.executions = Without(@, {<<i, x>> : x \in ids})]
<1>1. PruneTransaction(d, i, ids).db = e
  BY DEF PruneTransaction, Reply, Filtered
<1>2. /\ DOMAIN e = DbFields
      /\ \A f \in DbFields \ {"history", "executions"} : e[f] = d[f]
      /\ e.executions = Without(d.executions, {<<i, x>> : x \in ids})
      /\ e.history = Pick(d.history, H)
  BY DEF IsDb, DbFields
<1>3. /\ Listed(Pick(d.history, H))
      /\ Range(Pick(d.history, H)) = {d.history[k] : k \in H}
  BY PickRows DEF IsDb
<1>4. {d.history[k] : k \in H} =
        {h \in Range(d.history) : ~(h.instance = i /\ h.execution \in ids)}
  BY DEF Range
<1> HIDE DEF H, e
<1>5. e.orchestrator_queue = d.orchestrator_queue /\ e.worker_queue = d.worker_queue
  BY <1>2 DEF DbFields
<1>6. IsDb(e)
  BY <1>2, <1>3, <1>5 DEF IsDb
<1>7. PrunedRows(d, e, i, ids)
  BY <1>2, <1>3, <1>4, <1>6 DEF PrunedRows
<1> QED BY <1>1, <1>7

(* A statement changes only some tables. *)
Only(d, e, tables) ==
  DOMAIN e = DbFields /\ \A f \in DbFields \ tables : e[f] = d[f]

(* The rows of the instances after an ack of instance i. *)
AckedInstances(d, e, i, execution, metadata) ==
  /\ DOMAIN e.instances = DOMAIN d.instances
       \cup (IF metadata.name = Null \/ metadata.version = Null THEN {} ELSE {i})
  /\ \A j \in DOMAIN d.instances :
       /\ j # i => e.instances[j] = d.instances[j]
       /\ e.instances[j].parent = d.instances[j].parent
       /\ j = i => e.instances[i].current_execution_id =
                     IF execution > d.instances[i].current_execution_id
                     THEN execution ELSE d.instances[i].current_execution_id
  /\ \A j \in DOMAIN e.instances \ DOMAIN d.instances :
       /\ e.instances[j].parent = metadata.parent
       /\ e.instances[j].current_execution_id = execution
  /\ \A j \in DOMAIN e.instances : DOMAIN e.instances[j] = InstanceFields

(* The custom status that a turn's events leave. *)
StatusAfter(old, delta) ==
  LET updates == Filtered(delta, LAMBDA e : e.kind = "CustomStatusUpdated")
  IN  IF updates = <<>> THEN old ELSE Last(updates).status

Polled(d, i) == IF i \in DOMAIN d.instances THEN d.instances[i].custom_status ELSE Null

AckedStatus(d, e, i, delta) ==
  \A j \in DOMAIN e.instances :
    e.instances[j].custom_status = IF j = i THEN StatusAfter(Polled(d, i), delta)
                                   ELSE Polled(d, j)

(* The rows of the executions: a status is kept or replaced by the ack's. *)
AckedExecutions(d, e, i, execution, metadata) ==
  /\ DOMAIN e.executions = DOMAIN d.executions \cup {<<i, execution>>}
  /\ \A x \in DOMAIN d.executions :
       \/ e.executions[x].status = d.executions[x].status
       \/ metadata.status # Null /\ e.executions[x].status = metadata.status
  /\ \A x \in DOMAIN e.executions :
       IF x = <<i, execution>> /\ metadata.status # Null
       THEN e.executions[x].status = metadata.status
       ELSE \/ x \in DOMAIN d.executions /\ e.executions[x].status = d.executions[x].status
            \/ x \notin DOMAIN d.executions /\ e.executions[x].status = "Running"
  /\ \A x \in DOMAIN e.executions : DOMAIN e.executions[x] = ExecutionFields

(* An ack with a name renames the instance's row or makes it, with the parent *)
(* that it is given.                                                       *)
LEMMA AckInstanceFacts ==
    ASSUME NEW d, DOMAIN d = DbFields, NEW i, NEW execution, NEW metadata,
           \A j \in DOMAIN d.instances : DOMAIN d.instances[j] = InstanceFields
    PROVE  LET e == AckInstance(d, i, execution, metadata)
           IN  /\ Only(d, e, {"instances"})
               /\ DOMAIN e.instances = DOMAIN d.instances
                    \cup (IF metadata.name = Null \/ metadata.version = Null
                          THEN {} ELSE {i})
               /\ \A j \in DOMAIN d.instances :
                    /\ j # i => e.instances[j] = d.instances[j]
                    /\ e.instances[j].parent = d.instances[j].parent
                    /\ e.instances[j].current_execution_id
                         = d.instances[j].current_execution_id
               /\ \A j \in DOMAIN e.instances \ DOMAIN d.instances :
                    /\ e.instances[j].parent = metadata.parent
                    /\ e.instances[j].current_execution_id = execution
               /\ \A j \in DOMAIN e.instances :
                    e.instances[j].custom_status = Polled(d, j)
               /\ \A j \in DOMAIN e.instances : DOMAIN e.instances[j] = InstanceFields
<1> DEFINE e == AckInstance(d, i, execution, metadata)
<1>1. CASE metadata.name = Null \/ metadata.version = Null
  BY <1>1 DEF AckInstance, Only, Polled
<1>2. CASE ~(metadata.name = Null \/ metadata.version = Null) /\ i \in DOMAIN d.instances
  <2>1. e = [d EXCEPT !.instances[i].name = metadata.name,
                      !.instances[i].version = metadata.version]
    BY <1>2 DEF AckInstance
  <2> DEFINE row == [[d.instances[i] EXCEPT !.name = metadata.name]
                       EXCEPT !.version = metadata.version]
  <2>2. /\ DOMAIN row = InstanceFields
        /\ row.parent = d.instances[i].parent
        /\ row.current_execution_id = d.instances[i].current_execution_id
        /\ row.custom_status = d.instances[i].custom_status
    BY <1>2 DEF InstanceFields
  <2>3. /\ Only(d, e, {"instances"})
        /\ e.instances = [d.instances EXCEPT ![i] = row]
    <3>1. "instances" \in DOMAIN d
      BY DEF DbFields
    <3>2. DOMAIN e = DOMAIN d /\ \A f \in DOMAIN d \ {"instances"} : e[f] = d[f]
      BY <2>1
    <3>3. e.instances = [d.instances EXCEPT ![i] = row]
      BY <2>1, <3>1, <1>2
    <3> QED BY <3>2, <3>3 DEF Only
  <2> HIDE DEF row, e
  <2>4. /\ DOMAIN e.instances = DOMAIN d.instances
        /\ e.instances[i] = row
        /\ \A j \in DOMAIN d.instances : j # i => e.instances[j] = d.instances[j]
    BY <2>3, <1>2
  <2>5. \A j \in DOMAIN d.instances :
          /\ e.instances[j].parent = d.instances[j].parent
          /\ e.instances[j].current_execution_id = d.instances[j].current_execution_id
          /\ DOMAIN e.instances[j] = InstanceFields
    BY <2>2, <2>4
  <2>6. \A j \in DOMAIN e.instances : e.instances[j].custom_status = Polled(d, j)
    BY <2>2, <2>4 DEF Polled
  <2> QED BY <2>3, <2>4, <2>5, <2>6, <1>2 DEF e
<1>3. CASE ~(metadata.name = Null \/ metadata.version = Null) /\ i \notin DOMAIN d.instances
  <2>1. e = [d EXCEPT !.instances = Put(d.instances, i, InstanceRow(metadata, execution))]
    BY <1>3 DEF AckInstance
  <2> QED BY <2>1, <1>3 DEF Only, DbFields, InstanceFields, Put, InstanceRow, Polled
<1> QED BY <1>1, <1>2, <1>3

(* An ack makes the execution's row if it is not there, and makes the      *)
(* execution current if it is later than the current one.                  *)
LEMMA AckExecutionFacts ==
    ASSUME NEW d, DOMAIN d = DbFields, NEW i, NEW execution, NEW metadata,
           \A j \in DOMAIN d.instances : DOMAIN d.instances[j] = InstanceFields,
           \A x \in DOMAIN d.executions : DOMAIN d.executions[x] = ExecutionFields
    PROVE  LET e == AckExecution(d, i, execution, metadata)
           IN  /\ Only(d, e, {"instances", "executions"})
               /\ DOMAIN e.instances = DOMAIN d.instances
               /\ \A j \in DOMAIN d.instances :
                    /\ j # i => e.instances[j] = d.instances[j]
                    /\ e.instances[j].parent = d.instances[j].parent
                    /\ j = i => e.instances[i].current_execution_id =
                                  IF execution > d.instances[i].current_execution_id
                                  THEN execution
                                  ELSE d.instances[i].current_execution_id
                    /\ DOMAIN e.instances[j] = InstanceFields
                    /\ e.instances[j].custom_status = d.instances[j].custom_status
               /\ DOMAIN e.executions = DOMAIN d.executions \cup {<<i, execution>>}
               /\ \A x \in DOMAIN d.executions :
                    e.executions[x].status = d.executions[x].status
               /\ \A x \in DOMAIN e.executions \ DOMAIN d.executions :
                    e.executions[x].status = "Running"
               /\ \A x \in DOMAIN e.executions : DOMAIN e.executions[x] = ExecutionFields
<1> DEFINE key == <<i, execution>>
           row == IF key \in DOMAIN d.executions THEN d.executions[key]
                  ELSE [status |-> "Running", output |-> Null, pinned |-> Null,
                        completed_at |-> Null]
           pinned == IF metadata.pinned = Null THEN row
                     ELSE [row EXCEPT !.pinned = metadata.pinned]
           rows == [j \in DOMAIN d.instances |->
                      IF j = i /\ execution > d.instances[j].current_execution_id
                      THEN [d.instances[j] EXCEPT !.current_execution_id = execution]
                      ELSE d.instances[j]]
           e == AckExecution(d, i, execution, metadata)
<1>1. e = [[d EXCEPT !.executions = Put(d.executions, key, pinned)]
             EXCEPT !.instances = rows]
  BY DEF AckExecution
<1>2. /\ DOMAIN pinned = ExecutionFields
      /\ pinned.status = IF key \in DOMAIN d.executions
                         THEN d.executions[key].status ELSE "Running"
  BY DEF ExecutionFields
<1>3. /\ DOMAIN rows = DOMAIN d.instances
      /\ \A j \in DOMAIN d.instances :
           /\ j # i => rows[j] = d.instances[j]
           /\ rows[j].parent = d.instances[j].parent
           /\ j = i => rows[i].current_execution_id =
                         IF execution > d.instances[i].current_execution_id
                         THEN execution
                         ELSE d.instances[i].current_execution_id
           /\ DOMAIN rows[j] = InstanceFields
           /\ rows[j].custom_status = d.instances[j].custom_status
  BY DEF InstanceFields
<1> HIDE DEF key, pinned, rows
<1>4. /\ Only(d, e, {"instances", "executions"})
      /\ e.instances = rows /\ e.executions = Put(d.executions, key, pinned)
  BY <1>1 DEF Only, DbFields
<1> HIDE DEF e
<1>5. /\ DOMAIN e.executions = DOMAIN d.executions \cup {key}
      /\ \A x \in DOMAIN d.executions :
           e.executions[x].status = d.executions[x].status
      /\ \A x \in DOMAIN e.executions \ DOMAIN d.executions :
           e.executions[x].status = "Running"
      /\ \A x \in DOMAIN e.executions : DOMAIN e.executions[x] = ExecutionFields
  BY <1>2, <1>4 DEF Put
<1> QED BY <1>3, <1>4, <1>5 DEF key, e

(* An ack changes no status but to the one it is given. *)
LEMMA AckStatusFacts ==
    ASSUME NEW d, DOMAIN d = DbFields, NEW i, NEW execution, NEW metadata,
           \A x \in DOMAIN d.executions : DOMAIN d.executions[x] = ExecutionFields
    PROVE  LET e == AckStatus(d, i, execution, metadata)
           IN  /\ Only(d, e, {"executions"})
               /\ DOMAIN e.executions = DOMAIN d.executions
               /\ \A x \in DOMAIN d.executions :
                    \/ e.executions[x].status = d.executions[x].status
                    \/ metadata.status # Null /\ e.executions[x].status = metadata.status
               /\ \A x \in DOMAIN d.executions :
                    e.executions[x].status =
                      IF x = <<i, execution>> /\ metadata.status # Null
                      THEN metadata.status ELSE d.executions[x].status
               /\ \A x \in DOMAIN e.executions : DOMAIN e.executions[x] = ExecutionFields
<1>1. CASE metadata.status = Null
  BY <1>1 DEF AckStatus, Only
<1>2. CASE metadata.status # Null
  BY <1>2 DEF AckStatus, Only, DbFields, ExecutionFields
<1> QED BY <1>1, <1>2

(* A custom status changes the row of the instance and nothing that the    *)
(* invariant reads of it.                                                  *)
LEMMA AckCustomStatusFacts ==
    ASSUME NEW d, DOMAIN d = DbFields, NEW i, NEW delta,
           \A j \in DOMAIN d.instances : DOMAIN d.instances[j] = InstanceFields
    PROVE  LET e == AckCustomStatus(d, i, delta)
           IN  /\ Only(d, e, {"instances"})
               /\ DOMAIN e.instances = DOMAIN d.instances
               /\ \A j \in DOMAIN d.instances :
                    /\ j # i => e.instances[j] = d.instances[j]
                    /\ e.instances[j].parent = d.instances[j].parent
                    /\ e.instances[j].current_execution_id
                         = d.instances[j].current_execution_id
                    /\ DOMAIN e.instances[j] = InstanceFields
                    /\ e.instances[j].custom_status =
                         IF j = i THEN StatusAfter(d.instances[i].custom_status, delta)
                         ELSE d.instances[j].custom_status
<1> DEFINE updates == Pick(delta, {x \in DOMAIN delta :
                                     delta[x].kind = "CustomStatusUpdated"})
           e == AckCustomStatus(d, i, delta)
<1>1. e = IF updates = <<>> \/ i \notin DOMAIN d.instances THEN d
          ELSE [d EXCEPT !.instances[i] =
                  [d.instances[i] EXCEPT
                     !.custom_status = Last(updates).status,
                     !.custom_status_version = d.instances[i].custom_status_version + 1]]
  BY DEF AckCustomStatus, Filtered
<1>4. StatusAfter(d.instances[i].custom_status, delta) =
        IF updates = <<>> THEN d.instances[i].custom_status ELSE Last(updates).status
  BY DEF StatusAfter, Filtered
<1> HIDE DEF updates
<1>2. CASE updates = <<>> \/ i \notin DOMAIN d.instances
  BY <1>1, <1>2, <1>4 DEF Only
<1>3. CASE ~(updates = <<>> \/ i \notin DOMAIN d.instances)
  BY <1>1, <1>3, <1>4 DEF Only, DbFields, InstanceFields
<1> QED BY <1>2, <1>3

(* The key-value tables after an ack of instance i. *)
AckedKv(d, e, i, delta, metadata) ==
  /\ \A j : j # i => Of(e.kv_store, j) = Of(d.kv_store, j)
                     /\ Of(e.kv_delta, j) = Of(d.kv_delta, j)
  /\ LET store == Of(d.kv_store, i)
         mutated == Materialized(store, Of(d.kv_delta, i), delta)
     IN  IF IsTerminal(metadata.status)
         THEN Of(e.kv_delta, i) = EmptyTable /\ Of(e.kv_store, i) = Merged(store, mutated)
         ELSE Of(e.kv_delta, i) = mutated /\ Of(e.kv_store, i) = store

(* Only an ack that ends the execution changes kv_store. *)
LEMMA AckKvFacts ==
    ASSUME NEW d, DOMAIN d = DbFields, NEW i, NEW delta, NEW metadata
    PROVE  LET e == AckKv(d, i, delta, metadata)
           IN  Only(d, e, {"kv_store", "kv_delta"}) /\ AckedKv(d, e, i, delta, metadata)
<1> DEFINE store == Of(d.kv_store, i)
           mutated == Materialized(store, Of(d.kv_delta, i), delta)
           merged == Merged(store, mutated)
           e == AckKv(d, i, delta, metadata)
<1>1. e = IF IsTerminal(metadata.status)
          THEN [d EXCEPT !.kv_store = Put(d.kv_store, i, merged),
                         !.kv_delta = Put(d.kv_delta, i, EmptyTable)]
          ELSE [d EXCEPT !.kv_delta = Put(d.kv_delta, i, mutated)]
  BY DEF AckKv
<1> HIDE DEF store, mutated, merged, e
<1>2. \A row, table : /\ Of(Put(table, i, row), i) = row
                      /\ \A j : j # i => Of(Put(table, i, row), j) = Of(table, j)
  BY DEF Of, Put
<1>3. CASE IsTerminal(metadata.status)
  <2>1. /\ Only(d, e, {"kv_store", "kv_delta"})
        /\ e.kv_store = Put(d.kv_store, i, merged)
        /\ e.kv_delta = Put(d.kv_delta, i, EmptyTable)
    BY <1>1, <1>3 DEF Only, DbFields
  <2> QED BY <2>1, <1>2, <1>3 DEF AckedKv, e, store, mutated, merged
<1>4. CASE ~IsTerminal(metadata.status)
  <2>1. /\ Only(d, e, {"kv_store", "kv_delta"})
        /\ e.kv_store = d.kv_store
        /\ e.kv_delta = Put(d.kv_delta, i, mutated)
    BY <1>1, <1>4 DEF Only, DbFields
  <2> QED BY <2>1, <1>2, <1>4 DEF AckedKv, e, store, mutated, merged
<1> QED BY <1>3, <1>4

(* The history after an append. *)
LEMMA AppendFacts ==
    ASSUME NEW d, DOMAIN d = DbFields, Listed(d.history), NEW i, NEW execution,
           NEW delta, NEW n \in Nat, DOMAIN delta = 1..n
    PROVE  LET e == append_history_in_tx(d, i, execution, delta)
           IN  /\ Only(d, e, {"history"}) /\ Listed(e.history)
               /\ Range(e.history) = Range(d.history)
                    \cup {[instance |-> i, execution |-> execution, event |-> delta[x]] :
                            x \in DOMAIN delta}
<1> DEFINE new == [x \in DOMAIN delta |-> [instance |-> i, execution |-> execution,
                                           event |-> delta[x]]]
           e == append_history_in_tx(d, i, execution, delta)
<1>1. e = [d EXCEPT !.history = d.history \o new]
  BY DEF append_history_in_tx
<1>2. Listed(new)
  <2>1. new = [x \in 1..n |-> new[x]]
    OBVIOUS
  <2> QED BY <2>1, MappedRows
<1>3. Range(new) = {[instance |-> i, execution |-> execution, event |-> delta[x]] :
                      x \in DOMAIN delta}
  BY DEF Range
<1> HIDE DEF new, e
<1>4. Listed(d.history \o new) /\ Range(d.history \o new) = Range(d.history) \cup Range(new)
  BY <1>2, ConcatRows
<1>5. Only(d, e, {"history"}) /\ e.history = d.history \o new
  BY <1>1 DEF Only, DbFields
<1> QED BY <1>3, <1>4, <1>5 DEF e

(* The rows of a queue are old ones or new ones for these items. *)
Grown(before, after, items, fields) ==
  \A r \in Range(after) :
    \/ r \in Range(before)
    \/ \E x \in DOMAIN items :
         r.item = items[x] /\ r.lock_token = Null /\ DOMAIN r = fields

(* An ack adds its activities to the worker queue, less the cancelled ones. *)
LEMMA AckWorkerFacts ==
    ASSUME NEW d, DOMAIN d = DbFields, Listed(d.worker_queue), NEW items,
           NEW n \in Nat, DOMAIN items = 1..n, NEW cancelled
    PROVE  LET e == AckCancelled(AckWorkerItems(d, items), cancelled)
           IN  /\ Only(d, e, {"worker_queue"}) /\ Listed(e.worker_queue)
               /\ Grown(d.worker_queue, e.worker_queue, items, WorkerFields)
<1> DEFINE new == [x \in DOMAIN items |-> WorkerRow(items[x], d.now)]
           all == d.worker_queue \o new
           K == {k \in DOMAIN all : ~(all[k].item.kind = "ActivityExecute"
                                       /\ Identity(all[k].item) \in cancelled)}
           c == AckWorkerItems(d, items)
           e == AckCancelled(c, cancelled)
<1>1. c = [d EXCEPT !.worker_queue = all]
  BY DEF AckWorkerItems
<1>2. Only(d, c, {"worker_queue"}) /\ c.worker_queue = all
  BY <1>1 DEF Only, DbFields
<1>3. e = [c EXCEPT !.worker_queue = Pick(all, K)]
  <2> HIDE DEF c, all
  <2>1. e = [c EXCEPT !.worker_queue =
               Pick(c.worker_queue,
                    {k \in DOMAIN c.worker_queue :
                       ~(c.worker_queue[k].item.kind = "ActivityExecute"
                         /\ Identity(c.worker_queue[k].item) \in cancelled)})]
    BY DEF AckCancelled, Filtered
  <2> QED BY <2>1, <1>2
<1>4. Listed(new)
  <2>1. new = [x \in 1..n |-> new[x]]
    OBVIOUS
  <2> QED BY <2>1, MappedRows
<1>5. \A r \in Range(new) : \E x \in DOMAIN items :
         r.item = items[x] /\ r.lock_token = Null /\ DOMAIN r = WorkerFields
  BY DEF Range, WorkerRow, WorkerFields, OrchestratorFields
<1> HIDE DEF new
<1>6. Listed(all) /\ Range(all) = Range(d.worker_queue) \cup Range(new)
  BY <1>4, ConcatRows
<1> HIDE DEF all, c, e
<1>7. Listed(Pick(all, K)) /\ Range(Pick(all, K)) = {all[k] : k \in K}
  BY <1>6, PickRows
<1>8. {all[k] : k \in K} \subseteq Range(all)
  BY DEF Range
<1> HIDE DEF K
<1>9. Only(d, e, {"worker_queue"}) /\ e.worker_queue = Pick(all, K)
  BY <1>2, <1>3 DEF Only, DbFields
<1>10. Grown(d.worker_queue, e.worker_queue, items, WorkerFields)
  BY <1>5, <1>6, <1>7, <1>8, <1>9 DEF Grown
<1> QED BY <1>7, <1>9, <1>10 DEF e, c

(* The messages that an ack sends, and when they are due. *)
Sent(before, after, items, now) ==
  \A r \in Range(after) :
    \/ r \in Range(before)
    \/ \E x \in DOMAIN items :
         /\ r.item = items[x] /\ r.lock_token = Null
         /\ items[x].kind # "TimerFired" => r.visible_at = now

(* An ack adds its messages to the orchestrator queue. *)
LEMMA AckOrchestratorFacts ==
    ASSUME NEW d, DOMAIN d = DbFields, Listed(d.orchestrator_queue), NEW items,
           NEW n \in Nat, DOMAIN items = 1..n, Listed(items)
    PROVE  LET e == AckOrchestratorItems(d, items)
           IN  /\ Only(d, e, {"orchestrator_queue"}) /\ Listed(e.orchestrator_queue)
               /\ Grown(d.orchestrator_queue, e.orchestrator_queue, items,
                        OrchestratorFields)
               /\ Sent(d.orchestrator_queue, e.orchestrator_queue, items, d.now)
<1> DEFINE K == {k \in DOMAIN items : IsOrchestratorItem(items[k])}
           rows == Pick(items, K)
           new == [x \in DOMAIN rows |-> OrchestratorRow(rows[x],
                     IF rows[x].kind = "TimerFired" THEN rows[x].fire_at_ms ELSE d.now)]
           e == AckOrchestratorItems(d, items)
<1>1. e = [d EXCEPT !.orchestrator_queue = d.orchestrator_queue \o new]
  BY DEF AckOrchestratorItems, Filtered
<1>2. Listed(rows) /\ Range(rows) = {items[k] : k \in K}
  BY PickRows
<1>3. \A x \in DOMAIN rows : \E k \in DOMAIN items : rows[x] = items[k]
  <2>1. \A x \in DOMAIN rows : rows[x] \in Range(rows)
    BY DEF Range
  <2> QED BY <2>1, <1>2
<1> HIDE DEF rows
<1>4. Listed(new)
  <2>1. Len(rows) \in Nat /\ DOMAIN rows = 1..Len(rows)
    BY <1>2 DEF Listed
  <2>2. new = [x \in 1..Len(rows) |-> new[x]]
    BY <2>1
  <2> QED BY <2>1, <2>2, MappedRows
<1>5. \A r \in Range(new) : \E x \in DOMAIN items :
         /\ r.item = items[x] /\ r.lock_token = Null /\ DOMAIN r = OrchestratorFields
         /\ items[x].kind # "TimerFired" => r.visible_at = d.now
  <2> TAKE r \in Range(new)
  <2>1. PICK x \in DOMAIN rows : r = new[x]
    BY DEF Range
  <2>2. PICK k \in DOMAIN items : rows[x] = items[k]
    BY <1>3
  <2>3. /\ r.item = rows[x] /\ r.lock_token = Null
        /\ DOMAIN r = OrchestratorFields
        /\ rows[x].kind # "TimerFired" => r.visible_at = d.now
    BY <2>1 DEF OrchestratorRow, OrchestratorFields
  <2> QED BY <2>2, <2>3
<1> HIDE DEF new, e
<1>6. /\ Listed(d.orchestrator_queue \o new)
      /\ Range(d.orchestrator_queue \o new) = Range(d.orchestrator_queue) \cup Range(new)
  BY <1>4, ConcatRows
<1>7. Only(d, e, {"orchestrator_queue"}) /\ e.orchestrator_queue = d.orchestrator_queue \o new
  BY <1>1 DEF Only, DbFields
<1>8. Grown(d.orchestrator_queue, e.orchestrator_queue, items, OrchestratorFields)
  BY <1>5, <1>6, <1>7 DEF Grown
<1>9. Sent(d.orchestrator_queue, e.orchestrator_queue, items, d.now)
  BY <1>5, <1>6, <1>7 DEF Sent
<1> QED BY <1>6, <1>7, <1>8, <1>9 DEF e

(* What an ack leaves that is not refused. *)
Acked(d, e, i, execution, delta, workers, items, metadata) ==
  /\ IsDb(e) /\ e.now = d.now /\ e.tokens = d.tokens
  /\ AckedInstances(d, e, i, execution, metadata)
  /\ AckedExecutions(d, e, i, execution, metadata)
  /\ AckedStatus(d, e, i, delta)
  /\ AckedKv(d, e, i, delta, metadata)
  /\ Range(e.history) = Range(d.history)
       \cup {[instance |-> i, execution |-> execution, event |-> delta[x]] :
               x \in DOMAIN delta}
  /\ Grown(d.worker_queue, e.worker_queue, workers, WorkerFields)
  /\ Grown(d.orchestrator_queue, e.orchestrator_queue, items, OrchestratorFields)
  /\ e.instance_locks = Without(d.instance_locks, {i})

(* The messages with the token are gone. *)
Taken(d, e, token, items) ==
  \A r \in Range(e.orchestrator_queue) :
    \/ r \in Range(d.orchestrator_queue) /\ r.lock_token # token
    \/ \E x \in DOMAIN items :
         /\ r.item = items[x] /\ r.lock_token = Null
         /\ items[x].kind # "TimerFired" => r.visible_at = d.now

(* How an ack ends. *)
AckOutcome(d, r, token, execution, delta, workers, items, metadata) ==
  \/ r.db = d /\ ~r.ans.ok
  \/ /\ r.ans.ok
     /\ \E i \in LockedBy(d, token) :
          /\ ParentKnown(d, i, metadata)
          /\ CanAppend(d, i, execution, delta)
          /\ Acked(d, r.db, i, execution, delta, workers, items, metadata)
          /\ Taken(d, r.db, token, items)

(* The whole transaction: refused, it leaves the database alone; else every *)
(* table is changed as its part says.                                      *)
LEMMA AckFacts ==
    ASSUME NEW d, IsDb(d), RowsOk(d), NEW token, NEW execution, NEW metadata, NEW cancelled,
           NEW delta, NEW l \in Nat, DOMAIN delta = 1..l,
           NEW workers, NEW m \in Nat, DOMAIN workers = 1..m,
           NEW items, NEW n \in Nat, DOMAIN items = 1..n, Listed(items)
    PROVE  AckOutcome(d, ack_orchestration_item(d, token, execution, delta, workers,
                                                items, metadata, cancelled),
                      token, execution, delta, workers, items, metadata)
<1> DEFINE held == LockedBy(d, token)
           i == CHOOSE j \in held : TRUE
           K == {k \in DOMAIN d.orchestrator_queue :
                   d.orchestrator_queue[k].lock_token # token}
           d1 == [d EXCEPT !.orchestrator_queue = Pick(d.orchestrator_queue, K)]
           d2 == AckInstance(d1, i, execution, metadata)
           d3 == AckExecution(d2, i, execution, metadata)
           d4 == append_history_in_tx(d3, i, execution, delta)
           d5 == AckStatus(d4, i, execution, metadata)
           d6 == AckCustomStatus(d5, i, delta)
           d7 == AckKv(d6, i, delta, metadata)
           d8 == AckCancelled(AckWorkerItems(d7, workers), cancelled)
           d9 == AckOrchestratorItems(d8, items)
           e == [d9 EXCEPT !.instance_locks = Without(d9.instance_locks, {i})]
           refused == \/ held = {}
                      \/ ~LockedInstance(d, i)
                      \/ ~ParentKnown(d, i, metadata)
                      \/ ~CanAppend(d, i, execution, delta)
           r == ack_orchestration_item(d, token, execution, delta, workers,
                                       items, metadata, cancelled)
<1>1. r = IF refused THEN Refused(d) ELSE Done(e)
  BY DEF ack_orchestration_item, Filtered
<1>2. refused \/ (i \in held /\ ParentKnown(d, i, metadata)
                  /\ CanAppend(d, i, execution, delta))
  OBVIOUS
<1> HIDE DEF refused, held, i
<1>3. /\ Only(d, d1, {"orchestrator_queue"}) /\ Listed(d1.orchestrator_queue)
      /\ Range(d1.orchestrator_queue) \subseteq Range(d.orchestrator_queue)
      /\ \A q \in Range(d1.orchestrator_queue) : q.lock_token # token
  <2>1. /\ Listed(Pick(d.orchestrator_queue, K))
        /\ Range(Pick(d.orchestrator_queue, K)) = {d.orchestrator_queue[k] : k \in K}
    BY PickRows DEF IsDb
  <2>2. /\ {d.orchestrator_queue[k] : k \in K} \subseteq Range(d.orchestrator_queue)
        /\ \A k \in K : d.orchestrator_queue[k].lock_token # token
    BY DEF Range
  <2> HIDE DEF K
  <2>3. Only(d, d1, {"orchestrator_queue"})
        /\ d1.orchestrator_queue = Pick(d.orchestrator_queue, K)
    BY DEF IsDb, Only, DbFields
  <2> QED BY <2>1, <2>2, <2>3
<1> HIDE DEF K, d1
<1>4. /\ DOMAIN d1 = DbFields
      /\ \A j \in DOMAIN d1.instances : DOMAIN d1.instances[j] = InstanceFields
      /\ \A x \in DOMAIN d1.executions : DOMAIN d1.executions[x] = ExecutionFields
      /\ d1.instances = d.instances /\ d1.executions = d.executions
      /\ d1.history = d.history /\ d1.worker_queue = d.worker_queue
      /\ d1.kv_store = d.kv_store /\ d1.kv_delta = d.kv_delta
      /\ d1.instance_locks = d.instance_locks
      /\ d1.now = d.now /\ d1.tokens = d.tokens
  BY <1>3 DEF Only, DbFields, RowsOk
<1>5. /\ Only(d1, d2, {"instances"})
      /\ DOMAIN d2.instances = DOMAIN d1.instances
           \cup (IF metadata.name = Null \/ metadata.version = Null THEN {} ELSE {i})
      /\ \A j \in DOMAIN d1.instances :
           /\ j # i => d2.instances[j] = d1.instances[j]
           /\ d2.instances[j].parent = d1.instances[j].parent
           /\ d2.instances[j].current_execution_id = d1.instances[j].current_execution_id
      /\ \A j \in DOMAIN d2.instances \ DOMAIN d1.instances :
           /\ d2.instances[j].parent = metadata.parent
           /\ d2.instances[j].current_execution_id = execution
      /\ \A j \in DOMAIN d2.instances : d2.instances[j].custom_status = Polled(d1, j)
      /\ \A j \in DOMAIN d2.instances : DOMAIN d2.instances[j] = InstanceFields
  BY <1>4, AckInstanceFacts
<1> HIDE DEF d2
<1>6. /\ DOMAIN d2 = DbFields /\ d2.executions = d1.executions
      /\ d2.history = d1.history /\ d2.worker_queue = d1.worker_queue
      /\ d2.orchestrator_queue = d1.orchestrator_queue
      /\ d2.kv_store = d1.kv_store /\ d2.kv_delta = d1.kv_delta
      /\ d2.instance_locks = d1.instance_locks
      /\ d2.now = d1.now /\ d2.tokens = d1.tokens
  BY <1>5 DEF Only, DbFields
<1>7. /\ Only(d2, d3, {"instances", "executions"})
      /\ DOMAIN d3.instances = DOMAIN d2.instances
      /\ \A j \in DOMAIN d2.instances :
           /\ j # i => d3.instances[j] = d2.instances[j]
           /\ d3.instances[j].parent = d2.instances[j].parent
           /\ j = i => d3.instances[i].current_execution_id =
                         IF execution > d2.instances[i].current_execution_id
                         THEN execution ELSE d2.instances[i].current_execution_id
           /\ DOMAIN d3.instances[j] = InstanceFields
           /\ d3.instances[j].custom_status = d2.instances[j].custom_status
      /\ DOMAIN d3.executions = DOMAIN d2.executions \cup {<<i, execution>>}
      /\ \A x \in DOMAIN d2.executions : d3.executions[x].status = d2.executions[x].status
      /\ \A x \in DOMAIN d3.executions \ DOMAIN d2.executions :
           d3.executions[x].status = "Running"
      /\ \A x \in DOMAIN d3.executions : DOMAIN d3.executions[x] = ExecutionFields
  <2>1. /\ \A j \in DOMAIN d2.instances : DOMAIN d2.instances[j] = InstanceFields
        /\ \A x \in DOMAIN d2.executions : DOMAIN d2.executions[x] = ExecutionFields
    BY <1>4, <1>5, <1>6
  <2> QED BY <2>1, <1>6, AckExecutionFacts
<1> HIDE DEF d3
<1>8. /\ DOMAIN d3 = DbFields
      /\ d3.history = d2.history /\ d3.worker_queue = d2.worker_queue
      /\ d3.orchestrator_queue = d2.orchestrator_queue
      /\ d3.kv_store = d2.kv_store /\ d3.kv_delta = d2.kv_delta
      /\ d3.instance_locks = d2.instance_locks
      /\ d3.now = d2.now /\ d3.tokens = d2.tokens
  BY <1>7 DEF Only, DbFields
<1>9. /\ Only(d3, d4, {"history"}) /\ Listed(d4.history)
      /\ Range(d4.history) = Range(d3.history)
           \cup {[instance |-> i, execution |-> execution, event |-> delta[x]] :
                   x \in DOMAIN delta}
  <2>1. Listed(d3.history)
    BY <1>4, <1>6, <1>8 DEF IsDb
  <2> QED BY <2>1, <1>8, AppendFacts
<1> HIDE DEF d4
<1>10. /\ DOMAIN d4 = DbFields /\ d4.instances = d3.instances
       /\ d4.executions = d3.executions /\ d4.worker_queue = d3.worker_queue
       /\ d4.orchestrator_queue = d3.orchestrator_queue
       /\ d4.kv_store = d3.kv_store /\ d4.kv_delta = d3.kv_delta
       /\ d4.instance_locks = d3.instance_locks
       /\ d4.now = d3.now /\ d4.tokens = d3.tokens
  BY <1>9 DEF Only, DbFields
<1>11. /\ Only(d4, d5, {"executions"})
       /\ DOMAIN d5.executions = DOMAIN d4.executions
       /\ \A x \in DOMAIN d4.executions :
            \/ d5.executions[x].status = d4.executions[x].status
            \/ metadata.status # Null /\ d5.executions[x].status = metadata.status
       /\ \A x \in DOMAIN d4.executions :
            d5.executions[x].status =
              IF x = <<i, execution>> /\ metadata.status # Null
              THEN metadata.status ELSE d4.executions[x].status
       /\ \A x \in DOMAIN d5.executions : DOMAIN d5.executions[x] = ExecutionFields
  <2>1. \A x \in DOMAIN d4.executions : DOMAIN d4.executions[x] = ExecutionFields
    BY <1>7, <1>10
  <2> QED BY <2>1, <1>10, AckStatusFacts
<1> HIDE DEF d5
<1>12. /\ DOMAIN d5 = DbFields /\ d5.instances = d4.instances
       /\ d5.history = d4.history /\ d5.worker_queue = d4.worker_queue
       /\ d5.orchestrator_queue = d4.orchestrator_queue
       /\ d5.kv_store = d4.kv_store /\ d5.kv_delta = d4.kv_delta
       /\ d5.instance_locks = d4.instance_locks
       /\ d5.now = d4.now /\ d5.tokens = d4.tokens
  BY <1>11 DEF Only, DbFields
<1>13. /\ Only(d5, d6, {"instances"})
       /\ DOMAIN d6.instances = DOMAIN d5.instances
       /\ \A j \in DOMAIN d5.instances :
            /\ j # i => d6.instances[j] = d5.instances[j]
            /\ d6.instances[j].parent = d5.instances[j].parent
            /\ d6.instances[j].current_execution_id = d5.instances[j].current_execution_id
            /\ DOMAIN d6.instances[j] = InstanceFields
            /\ d6.instances[j].custom_status =
                 IF j = i THEN StatusAfter(d5.instances[i].custom_status, delta)
                 ELSE d5.instances[j].custom_status
  <2>1. \A j \in DOMAIN d5.instances : DOMAIN d5.instances[j] = InstanceFields
    BY <1>7, <1>10, <1>12
  <2> QED BY <2>1, <1>12, AckCustomStatusFacts
<1> HIDE DEF d6
<1>14. /\ DOMAIN d6 = DbFields /\ d6.executions = d5.executions
       /\ d6.history = d5.history /\ d6.worker_queue = d5.worker_queue
       /\ d6.orchestrator_queue = d5.orchestrator_queue
       /\ d6.kv_store = d5.kv_store /\ d6.kv_delta = d5.kv_delta
       /\ d6.instance_locks = d5.instance_locks
       /\ d6.now = d5.now /\ d6.tokens = d5.tokens
  BY <1>13 DEF Only, DbFields
<1>15. Only(d6, d7, {"kv_store", "kv_delta"}) /\ AckedKv(d6, d7, i, delta, metadata)
  BY <1>14, AckKvFacts
<1> HIDE DEF d7
<1>16. /\ DOMAIN d7 = DbFields /\ d7.instances = d6.instances
       /\ d7.executions = d6.executions /\ d7.history = d6.history
       /\ d7.worker_queue = d6.worker_queue
       /\ d7.orchestrator_queue = d6.orchestrator_queue
       /\ d7.instance_locks = d6.instance_locks
       /\ d7.now = d6.now /\ d7.tokens = d6.tokens
  BY <1>15 DEF Only, DbFields
<1>17. /\ Only(d7, d8, {"worker_queue"}) /\ Listed(d8.worker_queue)
       /\ Grown(d7.worker_queue, d8.worker_queue, workers, WorkerFields)
  <2>1. Listed(d7.worker_queue)
    BY <1>4, <1>6, <1>8, <1>10, <1>12, <1>14, <1>16 DEF IsDb
  <2> QED BY <2>1, <1>16, AckWorkerFacts
<1> HIDE DEF d8
<1>18. /\ DOMAIN d8 = DbFields /\ d8.instances = d7.instances
       /\ d8.executions = d7.executions /\ d8.history = d7.history
       /\ d8.orchestrator_queue = d7.orchestrator_queue
       /\ d8.kv_store = d7.kv_store /\ d8.kv_delta = d7.kv_delta
       /\ d8.instance_locks = d7.instance_locks
       /\ d8.now = d7.now /\ d8.tokens = d7.tokens
  BY <1>17 DEF Only, DbFields
<1>19. /\ Only(d8, d9, {"orchestrator_queue"}) /\ Listed(d9.orchestrator_queue)
       /\ Grown(d8.orchestrator_queue, d9.orchestrator_queue, items, OrchestratorFields)
       /\ Sent(d8.orchestrator_queue, d9.orchestrator_queue, items, d8.now)
  <2>1. Listed(d8.orchestrator_queue)
    BY <1>3, <1>6, <1>8, <1>10, <1>12, <1>14, <1>16, <1>18
  <2> QED BY <2>1, <1>18, AckOrchestratorFacts
<1> HIDE DEF d9
<1>20. /\ DOMAIN d9 = DbFields /\ d9.instances = d8.instances
       /\ d9.executions = d8.executions /\ d9.history = d8.history
       /\ d9.worker_queue = d8.worker_queue
       /\ d9.kv_store = d8.kv_store /\ d9.kv_delta = d8.kv_delta
       /\ d9.instance_locks = d8.instance_locks
       /\ d9.now = d8.now /\ d9.tokens = d8.tokens
  BY <1>19 DEF Only, DbFields
<1>21. /\ DOMAIN e = DbFields /\ e.instances = d9.instances
       /\ e.executions = d9.executions /\ e.history = d9.history
       /\ e.worker_queue = d9.worker_queue /\ e.orchestrator_queue = d9.orchestrator_queue
       /\ e.kv_store = d9.kv_store /\ e.kv_delta = d9.kv_delta
       /\ e.now = d9.now /\ e.tokens = d9.tokens
       /\ e.instance_locks = Without(d9.instance_locks, {i})
  BY <1>20 DEF DbFields
<1> HIDE DEF e
<1>22. IsDb(e)
  <2>1. e.history = d4.history
    BY <1>12, <1>14, <1>16, <1>18, <1>20, <1>21
  <2>2. e.worker_queue = d8.worker_queue
    BY <1>20, <1>21
  <2> QED BY <2>1, <2>2, <1>9, <1>17, <1>19, <1>21 DEF IsDb
<1>23. AckedInstances(d, e, i, execution, metadata)
  <2>1. /\ e.instances = d6.instances /\ d5.instances = d3.instances
        /\ d1.instances = d.instances
    BY <1>4, <1>10, <1>12, <1>16, <1>18, <1>20, <1>21
  <2>2. DOMAIN e.instances = DOMAIN d.instances
          \cup (IF metadata.name = Null \/ metadata.version = Null THEN {} ELSE {i})
    BY <2>1, <1>5, <1>7, <1>13
  <2>3. \A j \in DOMAIN d.instances :
          /\ j # i => e.instances[j] = d.instances[j]
          /\ e.instances[j].parent = d.instances[j].parent
          /\ j = i => e.instances[i].current_execution_id =
                        IF execution > d.instances[i].current_execution_id
                        THEN execution ELSE d.instances[i].current_execution_id
    <3> TAKE j \in DOMAIN d.instances
    <3>1. j \in DOMAIN d1.instances /\ j \in DOMAIN d2.instances
          /\ j \in DOMAIN d3.instances /\ j \in DOMAIN d5.instances
      BY <2>1, <1>5, <1>7
    <3>2. /\ j # i => d2.instances[j] = d.instances[j]
          /\ d2.instances[j].parent = d.instances[j].parent
          /\ d2.instances[j].current_execution_id = d.instances[j].current_execution_id
      BY <3>1, <2>1, <1>5
    <3>3. /\ j # i => d3.instances[j] = d2.instances[j]
          /\ d3.instances[j].parent = d2.instances[j].parent
          /\ j = i => d3.instances[i].current_execution_id =
                        IF execution > d2.instances[i].current_execution_id
                        THEN execution ELSE d2.instances[i].current_execution_id
      BY <3>1, <1>7
    <3>4. /\ j # i => d6.instances[j] = d3.instances[j]
          /\ d6.instances[j].parent = d3.instances[j].parent
          /\ d6.instances[j].current_execution_id = d3.instances[j].current_execution_id
      BY <3>1, <2>1, <1>13
    <3> QED BY <3>2, <3>3, <3>4, <2>1
  <2>4. \A j \in DOMAIN e.instances \ DOMAIN d.instances :
          /\ e.instances[j].parent = metadata.parent
          /\ e.instances[j].current_execution_id = execution
    <3> TAKE j \in DOMAIN e.instances \ DOMAIN d.instances
    <3>1. j \in DOMAIN d2.instances \ DOMAIN d1.instances /\ j = i
          /\ j \in DOMAIN d3.instances /\ j \in DOMAIN d5.instances
      BY <2>1, <2>2, <1>5, <1>7, <1>13
    <3>2. /\ d2.instances[j].parent = metadata.parent
          /\ d2.instances[j].current_execution_id = execution
      BY <3>1, <1>5
    <3>3. /\ d3.instances[j].parent = d2.instances[j].parent
          /\ d3.instances[j].current_execution_id = execution
      BY <3>1, <3>2, <1>7
    <3> QED BY <3>1, <3>2, <3>3, <2>1, <1>13
  <2>5. \A j \in DOMAIN e.instances : DOMAIN e.instances[j] = InstanceFields
    BY <2>1, <1>13
  <2> QED BY <2>2, <2>3, <2>4, <2>5 DEF AckedInstances
<1>24. AckedExecutions(d, e, i, execution, metadata)
  <2>1. /\ e.executions = d5.executions /\ d4.executions = d3.executions
        /\ d2.executions = d.executions
    BY <1>4, <1>6, <1>10, <1>14, <1>16, <1>18, <1>20, <1>21
  <2> QED BY <2>1, <1>7, <1>11 DEF AckedExecutions
<1>25. AckedKv(d, e, i, delta, metadata)
  <2>1. /\ e.kv_store = d7.kv_store /\ e.kv_delta = d7.kv_delta
        /\ d6.kv_store = d.kv_store /\ d6.kv_delta = d.kv_delta
    BY <1>4, <1>6, <1>8, <1>10, <1>12, <1>14, <1>18, <1>20, <1>21
  <2> QED BY <2>1, <1>15 DEF AckedKv
<1>26. Range(e.history) = Range(d.history)
         \cup {[instance |-> i, execution |-> execution, event |-> delta[x]] :
                 x \in DOMAIN delta}
  <2>1. e.history = d4.history /\ d3.history = d.history
    BY <1>4, <1>6, <1>8, <1>12, <1>14, <1>16, <1>18, <1>20, <1>21
  <2> QED BY <2>1, <1>9
<1>27. Grown(d.worker_queue, e.worker_queue, workers, WorkerFields)
  <2>1. e.worker_queue = d8.worker_queue /\ d7.worker_queue = d.worker_queue
    BY <1>4, <1>6, <1>8, <1>10, <1>12, <1>14, <1>16, <1>20, <1>21
  <2> QED BY <2>1, <1>17
<1>28. Grown(d.orchestrator_queue, e.orchestrator_queue, items, OrchestratorFields)
  <2>1. e.orchestrator_queue = d9.orchestrator_queue
        /\ d8.orchestrator_queue = d1.orchestrator_queue
    BY <1>6, <1>8, <1>10, <1>12, <1>14, <1>16, <1>18, <1>21
  <2> QED BY <2>1, <1>3, <1>19 DEF Grown
<1>29. /\ e.now = d.now /\ e.tokens = d.tokens
       /\ e.instance_locks = Without(d.instance_locks, {i})
  BY <1>4, <1>6, <1>8, <1>10, <1>12, <1>14, <1>16, <1>18, <1>20, <1>21
<1>33. AckedStatus(d, e, i, delta)
  <2>1. /\ e.instances = d6.instances /\ d5.instances = d3.instances
        /\ d1.instances = d.instances
    BY <1>4, <1>10, <1>12, <1>16, <1>18, <1>20, <1>21
  <2>2. \A j : Polled(d1, j) = Polled(d, j)
    BY <2>1 DEF Polled
  <2> SUFFICES ASSUME NEW j \in DOMAIN e.instances
               PROVE  e.instances[j].custom_status =
                        IF j = i THEN StatusAfter(Polled(d, i), delta) ELSE Polled(d, j)
    BY DEF AckedStatus
  <2>3. j \in DOMAIN d2.instances /\ j \in DOMAIN d3.instances /\ j \in DOMAIN d5.instances
    BY <2>1, <1>7, <1>13
  <2>4. d5.instances[j].custom_status = Polled(d, j)
    BY <2>1, <2>2, <2>3, <1>5, <1>7
  <2> QED BY <2>1, <2>3, <2>4, <1>13
<1>34. Taken(d, e, token, items)
  <2>1. e.orchestrator_queue = d9.orchestrator_queue /\ d8.now = d.now
        /\ d8.orchestrator_queue = d1.orchestrator_queue
    BY <1>4, <1>6, <1>8, <1>10, <1>12, <1>14, <1>16, <1>18, <1>21
  <2> QED BY <2>1, <1>3, <1>19 DEF Sent, Taken
<1>30. Acked(d, e, i, execution, delta, workers, items, metadata)
  BY <1>22, <1>23, <1>24, <1>25, <1>26, <1>27, <1>28, <1>29, <1>33 DEF Acked
<1>31. CASE refused
  BY <1>1, <1>31 DEF Refused, Reply, AckOutcome
<1>32. CASE ~refused
  <2>1. r.ans.ok /\ r.db = e
    BY <1>1, <1>32 DEF Done, Reply
  <2>2. i \in LockedBy(d, token) /\ ParentKnown(d, i, metadata)
        /\ CanAppend(d, i, execution, delta)
    BY <1>2, <1>32 DEF held
  <2> QED BY <2>1, <2>2, <1>30, <1>34 DEF AckOutcome
<1> QED BY <1>31, <1>32

(* The rows of an execution in the order of their ids: each one once. *)
LEMMA InOrderFacts ==
    ASSUME NEW rows, NEW b \in Nat, \A h \in rows : h.event.id \in 1..b,
           \A g, h \in rows : g.event.id = h.event.id => g = h
    PROVE  /\ Listed(InOrder(rows))
           /\ Range(InOrder(rows)) = {h.event : h \in rows}
           /\ InOrder(rows) = <<>> <=> rows = {}
<1> DEFINE ids == {h.event.id : h \in rows}
           s == [n \in ids |-> (CHOOSE h \in rows : h.event.id = n).event]
           p == Pick(s, ids)
<1>1. Enumerated(ids)
  <2>1. ids \in SUBSET (1..b)
    OBVIOUS
  <2> HIDE DEF ids
  <2> QED BY <2>1, PlaceFacts
<1>2. \A h \in rows : s[h.event.id] = h.event
  OBVIOUS
<1>3. \A n \in ids : \E h \in rows : h.event.id = n /\ s[n] = h.event
  BY <1>2
<1>4. rows = {} <=> ids = {}
  OBVIOUS
<1>5. \A h \in rows : h.event.id \in ids
  OBVIOUS
<1> HIDE DEF ids, s
<1>6. /\ DOMAIN p = 1..Cardinality(ids) /\ Len(p) = Cardinality(ids)
      /\ \A m \in 1..Cardinality(ids) : p[m] = s[Place(ids, m)]
      /\ p \in Seq({s[k] : k \in ids})
      /\ p = <<>> <=> ids = {}
  <2>1. /\ Len(Pick(s, ids)) = Cardinality(ids)
        /\ DOMAIN Pick(s, ids) = 1..Cardinality(ids)
        /\ \A m \in 1..Cardinality(ids) : Pick(s, ids)[m] = s[Place(ids, m)]
        /\ Pick(s, ids) \in Seq({s[k] : k \in ids})
    BY <1>1, PickFacts
  <2>2. Pick(s, ids) = <<>> <=> ids = {}
    BY <1>1, PickEmpty
  <2> QED BY <2>1, <2>2
<1>7. /\ \A m \in 1..Cardinality(ids) : Place(ids, m) \in ids
      /\ \A k \in ids : \E m \in 1..Cardinality(ids) : Place(ids, m) = k
  BY <1>1 DEF Enumerated
<1>8. Range(p) = {s[k] : k \in ids}
  BY <1>6, <1>7 DEF Range
<1>9. {s[k] : k \in ids} = {h.event : h \in rows}
  BY <1>2, <1>3, <1>5
<1>10. p = InOrder(rows)
  BY DEF InOrder, ids, s
<1> HIDE DEF p
<1> QED BY <1>4, <1>6, <1>8, <1>9, <1>10 DEF Listed

(* The lock of an instance that is fetched, and its messages.              *)
Locked(d, e, i) ==
  /\ IsDb(e) /\ Only(d, e, {"tokens", "instance_locks", "orchestrator_queue"})
  /\ e.tokens = d.tokens + 1
  /\ DOMAIN e.instance_locks = DOMAIN d.instance_locks \cup {i}
  /\ e.instance_locks[i].lock_token = e.tokens
  /\ \A j \in DOMAIN d.instance_locks :
       j # i => e.instance_locks[j] = d.instance_locks[j]
  /\ \A r \in Range(e.orchestrator_queue) :
       \E q \in Range(d.orchestrator_queue) :
         /\ r.item = q.item /\ DOMAIN r = OrchestratorFields
         /\ r.visible_at = q.visible_at
         /\ \/ r.lock_token = q.lock_token
            \/ r.lock_token = e.tokens /\ r.item.instance = i
         /\ r.item.instance = i /\ r.visible_at <= d.now => r.lock_token = e.tokens
  /\ \A q \in Range(d.orchestrator_queue) :
       \E r \in Range(e.orchestrator_queue) : r.item = q.item

(* Locking an instance gives a new token to it and to its messages. *)
LEMMA LockFacts ==
    ASSUME NEW d, IsDb(d), RowsOk(d), TokensOk(d), NEW i, NEW timeout
    PROVE  Locked(d, LockInstance(d, i, timeout), i)
<1> DEFINE q == d.orchestrator_queue
           hit(r) == r.item.instance = i /\ r.visible_at <= d.now
           rows == [x \in DOMAIN q |->
                      IF hit(q[x]) THEN [q[x] EXCEPT !.lock_token = d.tokens + 1,
                                                     !.attempts = q[x].attempts + 1]
                      ELSE q[x]]
           lock == [lock_token |-> d.tokens + 1, locked_until |-> d.now + timeout]
           e == LockInstance(d, i, timeout)
<1>1. e = [d EXCEPT !.tokens = d.tokens + 1,
                    !.instance_locks = Put(d.instance_locks, i, lock),
                    !.orchestrator_queue = rows]
  BY DEF LockInstance, generate_lock_token, Updated
<1>2. Listed(rows)
  <2>1. Len(q) \in Nat /\ DOMAIN q = 1..Len(q)
    BY DEF IsDb, Listed
  <2>2. rows = [x \in 1..Len(q) |-> rows[x]]
    BY <2>1
  <2> HIDE DEF rows
  <2> QED BY <2>1, <2>2, MappedRows
<1>3. \A r \in Range(rows) : \E p \in Range(q) :
        /\ r.item = p.item /\ DOMAIN r = OrchestratorFields
        /\ \/ r.lock_token = p.lock_token
           \/ r.lock_token = d.tokens + 1 /\ r.item.instance = i
        /\ r.visible_at = p.visible_at
        /\ r.item.instance = i /\ r.visible_at <= d.now => r.lock_token = d.tokens + 1
  <2> TAKE r \in Range(rows)
  <2>1. PICK x \in DOMAIN q : r = rows[x]
    BY DEF Range
  <2>2. q[x] \in Range(q) /\ DOMAIN q[x] = OrchestratorFields
    BY DEF Range, RowsOk
  <2>3. /\ r.item = q[x].item /\ DOMAIN r = OrchestratorFields
        /\ \/ r.lock_token = q[x].lock_token
           \/ r.lock_token = d.tokens + 1 /\ r.item.instance = i
        /\ r.visible_at = q[x].visible_at
        /\ r.item.instance = i /\ r.visible_at <= d.now => r.lock_token = d.tokens + 1
    BY <2>1, <2>2 DEF OrchestratorFields
  <2> QED BY <2>2, <2>3
<1>7. \A p \in Range(q) : \E r \in Range(rows) : r.item = p.item
  <2> TAKE p \in Range(q)
  <2>1. PICK x \in DOMAIN q : p = q[x]
    BY DEF Range
  <2>2. DOMAIN q[x] = OrchestratorFields
    BY DEF Range, RowsOk
  <2>3. rows[x].item = p.item /\ rows[x] \in Range(rows)
    BY <2>1, <2>2 DEF Range, OrchestratorFields
  <2> QED BY <2>3
<1> HIDE DEF rows, e
<1>4. /\ Only(d, e, {"tokens", "instance_locks", "orchestrator_queue"})
      /\ e.tokens = d.tokens + 1
      /\ e.instance_locks = Put(d.instance_locks, i, lock)
      /\ e.orchestrator_queue = rows
  BY <1>1 DEF IsDb, Only, DbFields
<1>5. IsDb(e)
  <2>1. e.history = d.history /\ e.worker_queue = d.worker_queue
    BY <1>4 DEF Only, DbFields
  <2> QED BY <2>1, <1>2, <1>4 DEF IsDb, Only
<1>6. /\ DOMAIN e.instance_locks = DOMAIN d.instance_locks \cup {i}
      /\ e.instance_locks[i].lock_token = d.tokens + 1
      /\ \A j \in DOMAIN d.instance_locks :
           j # i => e.instance_locks[j] = d.instance_locks[j]
  BY <1>4 DEF Put
<1> QED BY <1>3, <1>4, <1>5, <1>6, <1>7 DEF Locked, e

(* What a turn is given of the queue: messages of its instance. *)
MessagesOf(d, ans, i) ==
  /\ Listed(ans.messages)
  /\ \A m \in Range(ans.messages) :
       m.instance = i /\ \E q \in Range(d.orchestrator_queue) : m = q.item

ItemFields ==
  {"ok", "some", "instance", "name", "version", "execution_id", "history",
   "history_len", "history_error", "messages", "message_count", "lock_token",
   "kv_snapshot", "attempts"}

(* The fields of a fetched item. *)
LEMMA ItemFacts ==
    ASSUME NEW d, NEW e, NEW i, IsDb(d), TokensOk(d), Locked(d, e, i), NEW name, NEW version,
           NEW execution, NEW events, NEW error
    PROVE  LET ans == OrchestrationItem(e, i, name, version, execution, events, error)
           IN  /\ DOMAIN ans = ItemFields /\ ans.instance = i
               /\ ans.lock_token = e.tokens /\ ans.execution_id = execution
               /\ ans.history = events /\ MessagesOf(d, ans, i)
               /\ ans.kv_snapshot = IF error THEN EmptyTable ELSE Of(d.kv_store, i)
<1> DEFINE K == {k \in DOMAIN e.orchestrator_queue :
                   e.orchestrator_queue[k].lock_token = e.tokens}
           rows == Pick(e.orchestrator_queue, K)
           items == [x \in DOMAIN rows |-> rows[x].item]
           ans == OrchestrationItem(e, i, name, version, execution, events, error)
<1>1. Listed(rows) /\ Range(rows) = {e.orchestrator_queue[k] : k \in K}
  BY PickRows DEF Locked, IsDb
<1>2. \A r \in Range(rows) :
         r \in Range(e.orchestrator_queue) /\ r.lock_token = e.tokens
  BY <1>1 DEF Range
<1>3. rows = Marked(e, e.tokens)
  BY DEF Marked, Filtered
<1> HIDE DEF K, rows
<1>4. /\ DOMAIN ans = ItemFields /\ ans.instance = i
      /\ ans.lock_token = e.tokens /\ ans.execution_id = execution
      /\ ans.history = events /\ ans.messages = items
      /\ ans.kv_snapshot = IF error THEN EmptyTable ELSE Of(e.kv_store, i)
  BY <1>3 DEF OrchestrationItem, ItemFields
<1>5. e.kv_store = d.kv_store
  BY DEF Locked, Only, DbFields
<1>6. Listed(items)
  <2>1. Len(rows) \in Nat /\ DOMAIN rows = 1..Len(rows)
    BY <1>1 DEF Listed
  <2>2. items = [x \in 1..Len(rows) |-> items[x]]
    BY <2>1
  <2> HIDE DEF items
  <2> QED BY <2>1, <2>2, MappedRows
<1>7. \A m \in Range(items) :
        m.instance = i /\ \E q \in Range(d.orchestrator_queue) : m = q.item
  <2> TAKE m \in Range(items)
  <2>1. PICK x \in DOMAIN rows : m = rows[x].item
    BY DEF Range
  <2>2. rows[x] \in Range(e.orchestrator_queue) /\ rows[x].lock_token = e.tokens
    BY <1>2 DEF Range
  <2>3. PICK q \in Range(d.orchestrator_queue) :
          /\ rows[x].item = q.item
          /\ \/ rows[x].lock_token = q.lock_token
             \/ rows[x].lock_token = e.tokens /\ rows[x].item.instance = i
    BY <2>2 DEF Locked
  <2>4. q.lock_token # e.tokens
    <3>1. q.lock_token \in (1..d.tokens) \cup {Null} /\ d.tokens \in Nat
      BY DEF TokensOk
    <3>2. e.tokens = d.tokens + 1
      BY DEF Locked
    <3> QED BY <3>1, <3>2, NullAssumption
  <2> QED BY <2>1, <2>2, <2>3, <2>4
<1> HIDE DEF items, ans
<1> QED BY <1>4, <1>5, <1>6, <1>7 DEF MessagesOf, ans

(* What a turn of instance i is given: everything that is stored of it. *)
FetchedTurn(d, r, i) ==
  /\ Locked(d, r.db, i)
  /\ DOMAIN r.ans = ItemFields /\ r.ans.instance = i
  /\ r.ans.lock_token = r.db.tokens /\ MessagesOf(d, r.ans, i)
  /\ \E q \in Range(d.orchestrator_queue) : q.item.instance = i
  /\ IF i \in DOMAIN d.instances
     THEN LET execution == d.instances[i].current_execution_id
              events == EventsOf(d, i, execution)
          IN  /\ r.ans.execution_id = execution
              /\ Readable(events) =>
                   r.ans.history = events /\ r.ans.kv_snapshot = Of(d.kv_store, i)
     ELSE /\ r.ans.execution_id = 1
          /\ r.ans.history = <<>> /\ r.ans.kv_snapshot = Of(d.kv_store, i)

(* If no row passes a test, the rows that pass it are none. *)
LEMMA NothingFiltered == InOrder({}) = <<>> /\ Pick(<<>>, {}) = <<>>
<1>1. InOrder({}) = <<>>
  BY InOrderFacts
<1>2. Enumerated({})
  BY PlaceFacts
<1> QED BY <1>1, <1>2, PickEmpty

(* A fetch that gives an item has locked an instance and read what is stored *)
(* for it.                                                                 *)
LEMMA FetchFacts ==
    ASSUME NEW d, IsDb(d), RowsOk(d), TokensOk(d),
           \A h \in Range(d.history) : h.instance \in DOMAIN d.instances,
           NEW timeout, NEW filter, fetch_orchestration_item(d, timeout, filter).ans.some
    PROVE  \E i : FetchedTurn(d, fetch_orchestration_item(d, timeout, filter), i)
<1> DEFINE rows == Fetchable(d, filter)
           i == rows[1].item.instance
           e == LockInstance(d, i, timeout)
           r == fetch_orchestration_item(d, timeout, filter)
<1>1. r = IF rows = <<>> THEN NoItem(d)
          ELSE IF i \in DOMAIN d.instances THEN FetchKnown(e, i)
          ELSE FetchUnknown(d, e, i)
  BY DEF fetch_orchestration_item
<1>2. Locked(d, e, i)
  BY LockFacts
<1>3. /\ \A x : ~NoItem(x).ans.some
  BY DEF NoItem, Reply
<1>4. r.ans.some
  OBVIOUS
<1>9. rows # <<>> => \E q \in Range(d.orchestrator_queue) : q.item.instance = i
  <2> DEFINE K == {k \in DOMAIN d.orchestrator_queue :
                     /\ d.orchestrator_queue[k].visible_at <= d.now
                     /\ ~LockedInstance(d, d.orchestrator_queue[k].item.instance)
                     /\ Compatible(d, d.orchestrator_queue[k].item.instance, filter)}
  <2>1. rows = Pick(d.orchestrator_queue, K)
    BY DEF Fetchable, Filtered
  <2>2. \A k \in K : d.orchestrator_queue[k] \in Range(d.orchestrator_queue)
    BY DEF Range
  <2>3. /\ Listed(Pick(d.orchestrator_queue, K))
        /\ Range(Pick(d.orchestrator_queue, K)) = {d.orchestrator_queue[k] : k \in K}
    BY PickRows DEF IsDb
  <2> HIDE DEF K, rows
  <2>4. rows # <<>> => rows[1] \in Range(rows)
    <3>1. rows # <<>> => 1 \in DOMAIN rows
      BY <2>1, <2>3 DEF Listed
    <3> QED BY <3>1 DEF Range
  <2> QED BY <2>1, <2>2, <2>3, <2>4
<1> HIDE DEF rows, i, e, r
<1>5. /\ e.instances = d.instances /\ e.history = d.history
  BY <1>2 DEF Locked, Only, DbFields
<1>6. CASE rows # <<>> /\ i \in DOMAIN d.instances
  <2> DEFINE row == d.instances[i]
             events == EventsOf(d, i, row.current_execution_id)
  <2>1. HistoryOf(e, i, row.current_execution_id) = HistoryOf(d, i, row.current_execution_id)
    BY <1>5 DEF HistoryOf
  <2>2. EventsOf(e, i, row.current_execution_id) = events
    BY <2>1 DEF EventsOf
  <2> DEFINE given == IF Readable(events) THEN events ELSE <<>>
             ans == OrchestrationItem(e, i, row.name, row.version,
                      row.current_execution_id, given, ~Readable(events))
  <2> HIDE DEF events
  <2>3. FetchKnown(e, i) = Reply(e, ans)
    BY <2>2, <1>5 DEF FetchKnown
  <2>4. r.db = e /\ r.ans = ans
    BY <2>3, <1>1, <1>6 DEF Reply
  <2> DEFINE name == row.name
             version == row.version
             execution == row.current_execution_id
             error == ~Readable(events)
  <2>5. /\ DOMAIN ans = ItemFields /\ ans.instance = i
        /\ ans.lock_token = e.tokens /\ ans.execution_id = execution
        /\ ans.history = given /\ MessagesOf(d, ans, i)
        /\ ans.kv_snapshot = IF error THEN EmptyTable ELSE Of(d.kv_store, i)
    <3> HIDE DEF name, version, execution, given, error
    <3>1. \A n, v, x, g, o :
            LET a == OrchestrationItem(e, i, n, v, x, g, o)
            IN  /\ DOMAIN a = ItemFields /\ a.instance = i
                /\ a.lock_token = e.tokens /\ a.execution_id = x
                /\ a.history = g /\ MessagesOf(d, a, i)
                /\ a.kv_snapshot = IF o THEN EmptyTable ELSE Of(d.kv_store, i)
      BY <1>2, ItemFacts
    <3>2. ans = OrchestrationItem(e, i, name, version, execution, given, error)
      BY DEF name, version, execution, given, error
    <3> HIDE DEF ans
    <3> QED BY <3>1, <3>2
  <2> HIDE DEF ans
  <2>6. FetchedTurn(d, r, i)
    BY <2>4, <2>5, <1>2, <1>6, <1>9 DEF FetchedTurn, events
  <2> QED BY <2>6 DEF r
<1>7. CASE rows # <<>> /\ i \notin DOMAIN d.instances
  <2> DEFINE x == LatestExecution(e, i)
             stored == EventsOf(e, i, x)
             given == IF Readable(stored) THEN stored ELSE <<>>
             started == Pick(given, {k \in DOMAIN given :
                                       given[k].kind = "OrchestrationStarted"})
             marked == Marked(e, e.tokens)
             starts == Pick(marked, {k \in DOMAIN marked : Starts(marked[k].item)})
             ans == OrchestrationItem(e, i, starts[1].item.name,
                                      starts[1].item.version, 1, <<>>, FALSE)
  <2>1. HistoryOf(e, i, x) = {}
    BY <1>5, <1>7 DEF HistoryOf
  <2>2. stored = <<>>
    <3> HIDE DEF x
    <3> QED BY <2>1, NothingFiltered DEF EventsOf
  <2> HIDE DEF stored
  <2>3. given = <<>>
    BY <2>2
  <2>4. started = <<>>
    <3>1. {k \in DOMAIN given : given[k].kind = "OrchestrationStarted"} = {}
      BY <2>3
    <3> HIDE DEF given
    <3> QED BY <3>1, <2>3, NothingFiltered
  <2>5. FetchUnknown(d, e, i) =
          IF starts # <<>> THEN Reply(e, ans)
          ELSE IF \A q \in Range(marked) : q.item.kind = "QueueMessage"
          THEN NoItem([e EXCEPT
                 !.orchestrator_queue = Pick(@, {k \in DOMAIN @ : @[k].lock_token # e.tokens}),
                 !.instance_locks = Without(@, {i})])
          ELSE NoItem(d)
    BY <2>4 DEF FetchUnknown, Filtered, stored
  <2> HIDE DEF starts, marked, started, given, ans
  <2>6. starts # <<>>
    BY <2>5, <1>1, <1>3, <1>4, <1>7
  <2>7. r.db = e /\ r.ans = ans
    BY <2>5, <2>6, <1>1, <1>7 DEF Reply
  <2>8. /\ DOMAIN ans = ItemFields /\ ans.instance = i
        /\ ans.lock_token = e.tokens /\ ans.execution_id = 1
        /\ ans.history = <<>> /\ MessagesOf(d, ans, i)
        /\ ans.kv_snapshot = Of(d.kv_store, i)
    <3>1. \A n, v, y, g, o :
            LET a == OrchestrationItem(e, i, n, v, y, g, o)
            IN  /\ DOMAIN a = ItemFields /\ a.instance = i
                /\ a.lock_token = e.tokens /\ a.execution_id = y
                /\ a.history = g /\ MessagesOf(d, a, i)
                /\ a.kv_snapshot = IF o THEN EmptyTable ELSE Of(d.kv_store, i)
      BY <1>2, ItemFacts
    <3> DEFINE n == starts[1].item.name
               v == starts[1].item.version
               y == 1
               g == <<>>
               o == FALSE
    <3>2. ans = OrchestrationItem(e, i, n, v, y, g, o)
      BY DEF ans
    <3> HIDE DEF n, v, y, g, o
    <3>3. /\ DOMAIN ans = ItemFields /\ ans.instance = i
          /\ ans.lock_token = e.tokens /\ ans.execution_id = y
          /\ ans.history = g /\ MessagesOf(d, ans, i)
          /\ ans.kv_snapshot = IF o THEN EmptyTable ELSE Of(d.kv_store, i)
      BY <3>1, <3>2
    <3> QED BY <3>3 DEF y, g, o
  <2>9. FetchedTurn(d, r, i)
    BY <2>7, <2>8, <1>2, <1>7, <1>9 DEF FetchedTurn
  <2> QED BY <2>9 DEF r
<1>8. rows # <<>>
  BY <1>1, <1>3, <1>4
<1> QED BY <1>6, <1>7, <1>8

(* The fetch of an activity marks one row with a fresh token. *)
FetchedWork(d, r) ==
  /\ IsDb(r.db) /\ Only(d, r.db, {"tokens", "worker_queue"})
  /\ r.db.tokens = d.tokens + 1
  /\ r.ans.lock_token = r.db.tokens
  /\ r.ans.item \in {q.item : q \in Range(d.worker_queue)}
  /\ \A q \in Range(r.db.worker_queue) :
       \/ q \in Range(d.worker_queue)
       \/ /\ q.lock_token = r.db.tokens /\ q.item = r.ans.item
          /\ DOMAIN q = WorkerFields

(* A fetch that gives an activity has marked one row with a new token. *)
LEMMA FetchWorkFacts ==
    ASSUME NEW d, IsDb(d), RowsOk(d), NEW timeout, NEW filter,
           fetch_work_item(d, timeout, Null, filter).ans.some
    PROVE  FetchedWork(d, fetch_work_item(d, timeout, Null, filter))
<1> DEFINE rows == WorkAvailable(d, Null, filter)
           x == CHOOSE m \in rows : \A n \in rows : m <= n
           q == d.worker_queue
           row == [q[x] EXCEPT !.lock_token = d.tokens + 1,
                               !.locked_until = d.now + timeout,
                               !.attempts = q[x].attempts + 1]
           e == [d EXCEPT !.tokens = d.tokens + 1,
                          !.worker_queue[x] = row]
           r == fetch_work_item(d, timeout, Null, filter)
<1>1. r = IF rows = {} THEN NoItem(d)
          ELSE Reply(e, [ok |-> TRUE, some |-> TRUE, item |-> q[x].item,
                         lock_token |-> d.tokens + 1, attempts |-> q[x].attempts + 1])
  <2>1. \A s : ClaimSession(e, s, Null) = e
    <3> HIDE DEF e
    <3> QED BY DEF ClaimSession
  <2> DEFINE s == q[x].item.session
             c == ClaimSession(e, s, Null)
  <2>2. r = IF rows = {} THEN NoItem(d)
            ELSE Reply(c, [ok |-> TRUE, some |-> TRUE, item |-> q[x].item,
                           lock_token |-> d.tokens + 1, attempts |-> q[x].attempts + 1])
    BY DEF fetch_work_item, generate_lock_token
  <2>3. c = e
    <3> HIDE DEF e, s
    <3> QED BY <2>1
  <2> HIDE DEF c, e, r, rows, x
  <2> QED BY <2>2, <2>3
<1>2. Len(q) \in Nat /\ DOMAIN q = 1..Len(q)
  BY DEF IsDb, Listed
<1>3. rows \in SUBSET (1..Len(q))
  BY <1>2 DEF WorkAvailable
<1>4. rows # {}
  <2> HIDE DEF rows, x, e
  <2> QED BY <1>1 DEF NoItem, Reply
<1>5. x \in rows
  <2> HIDE DEF rows
  <2>1. \E m \in rows : \A n \in rows : m <= n
    BY <1>2, <1>3, <1>4, FirstExists
  <2> QED BY <2>1
<1> HIDE DEF rows, x
<1>6. x \in DOMAIN q /\ q[x] \in Range(q) /\ DOMAIN q[x] = WorkerFields
  BY <1>2, <1>3, <1>5 DEF Range, RowsOk
<1>7. /\ row.item = q[x].item /\ row.lock_token = d.tokens + 1
      /\ DOMAIN row = WorkerFields
  BY <1>6 DEF WorkerFields, OrchestratorFields
<1> DEFINE all == [q EXCEPT ![x] = row]
<1>10. /\ Only(d, e, {"tokens", "worker_queue"}) /\ e.tokens = d.tokens + 1
       /\ e.worker_queue = all
  <2>1. /\ DOMAIN e = DOMAIN d /\ DOMAIN d = DbFields
        /\ \A f \in DOMAIN d \ {"tokens", "worker_queue"} : e[f] = d[f]
    BY DEF IsDb
  <2>2. "tokens" \in DOMAIN d /\ "worker_queue" \in DOMAIN d
    BY <2>1 DEF DbFields
  <2>3. e.tokens = d.tokens + 1
    BY <2>2
  <2>4. e.worker_queue = all
    <3> DEFINE mid == [d EXCEPT !.tokens = d.tokens + 1]
    <3>1. mid.worker_queue = q /\ "worker_queue" \in DOMAIN mid
      BY <2>2
    <3>2. e = [mid EXCEPT !.worker_queue[x] = row]
      OBVIOUS
    <3> HIDE DEF mid
    <3>3. e = [mid EXCEPT !.worker_queue = all]
      BY <3>1, <3>2
    <3> HIDE DEF e, all, row
    <3> QED BY <3>1, <3>3
  <2> HIDE DEF e, all, row
  <2> QED BY <2>1, <2>3, <2>4 DEF Only
<1> HIDE DEF row, e
<1>8. Listed(all)
  <2>1. all = [k \in 1..Len(q) |-> all[k]]
    BY <1>2
  <2> HIDE DEF all
  <2> QED BY <2>1, <1>2, MappedRows
<1>9. \A p \in Range(all) : p \in Range(q) \/ p = row
  BY DEF Range
<1> HIDE DEF all
<1>11. IsDb(e)
  <2>1. e.history = d.history /\ e.orchestrator_queue = d.orchestrator_queue
    BY <1>10 DEF Only, DbFields
  <2> QED BY <2>1, <1>8, <1>10 DEF IsDb, Only
<1>12. r.db = e /\ r.ans.item = q[x].item /\ r.ans.lock_token = d.tokens + 1
  BY <1>1, <1>4 DEF Reply
<1> HIDE DEF r
<1>13. FetchedWork(d, r)
  BY <1>6, <1>7, <1>9, <1>10, <1>11, <1>12 DEF FetchedWork
<1> QED BY <1>13 DEF r

(* The ack of an activity: a row that carried the token goes, and the      *)
(* completion is a new message.                                            *)
AckedWork(d, e, token, completion) ==
  /\ IsDb(e) /\ Only(d, e, {"worker_queue", "sessions", "orchestrator_queue"})
  /\ Range(e.worker_queue) \subseteq Range(d.worker_queue)
  /\ \E q \in Range(d.worker_queue) : q.lock_token = token
  /\ \A r \in Range(e.orchestrator_queue) :
       \/ r \in Range(d.orchestrator_queue)
       \/ /\ r.item = completion /\ r.lock_token = Null
          /\ DOMAIN r = OrchestratorFields /\ r.visible_at = d.now + 0
  /\ Range(d.orchestrator_queue) \subseteq Range(e.orchestrator_queue)

(* An activity's ack removes a row with its token and sends the completion, *)
(* or is refused.                                                          *)
LEMMA AckWorkFacts ==
    ASSUME NEW d, IsDb(d), NEW token, NEW completion,
           completion.kind = "ActivityCompleted"
    PROVE  LET e == ack_work_item(d, token, completion).db
           IN  e = d \/ AckedWork(d, e, token, completion)
<1> DEFINE held == HeldWork(d, token)
           session == d.worker_queue[CHOOSE x \in held : TRUE].item.session
           K == {k \in DOMAIN d.worker_queue : d.worker_queue[k].lock_token # token}
           rest == Pick(d.worker_queue, K)
           d1 == [d EXCEPT !.worker_queue = rest]
           d2 == TouchSession(d1, session)
           row == OrchestratorRow(completion, d2.now + 0)
           e == [d2 EXCEPT !.orchestrator_queue = Append(d2.orchestrator_queue, row)]
           r == ack_work_item(d, token, completion)
<1>1. r = IF held = {} THEN Refused(d) ELSE IF completion = Null THEN Done(d2)
          ELSE enqueue_for_orchestrator(d2, completion, 0)
  BY DEF ack_work_item, Filtered
<1>2. enqueue_for_orchestrator(d2, completion, 0) = Done(e)
  <2> HIDE DEF d2
  <2> QED BY DEF enqueue_for_orchestrator, IsOrchestratorItem
<1>3. held # {} => \E q \in Range(d.worker_queue) : q.lock_token = token
  BY DEF HeldWork, Range
<1> HIDE DEF held, session
<1>4. Listed(rest) /\ Range(rest) \subseteq Range(d.worker_queue)
  <2>1. /\ Listed(Pick(d.worker_queue, K))
        /\ Range(Pick(d.worker_queue, K)) = {d.worker_queue[k] : k \in K}
    BY PickRows DEF IsDb
  <2>2. {d.worker_queue[k] : k \in K} \subseteq Range(d.worker_queue)
    BY DEF Range
  <2> QED BY <2>1, <2>2
<1> HIDE DEF K, rest
<1>5. Only(d, d1, {"worker_queue"}) /\ d1.worker_queue = rest
  BY DEF IsDb, Only, DbFields
<1> HIDE DEF d1
<1>6. Only(d1, d2, {"sessions"})
  <2>1. DOMAIN d1 = DbFields
    BY <1>5 DEF Only
  <2> QED BY <2>1 DEF TouchSession, Only, DbFields
<1> HIDE DEF d2
<1>7. /\ Only(d, d2, {"worker_queue", "sessions"})
      /\ d2.worker_queue = rest
  BY <1>5, <1>6 DEF Only, DbFields
<1>8. /\ Listed(Append(d.orchestrator_queue, row))
      /\ Range(Append(d.orchestrator_queue, row)) = Range(d.orchestrator_queue) \cup {row}
  BY AppendRow DEF IsDb
<1>9. /\ row.item = completion /\ row.lock_token = Null
      /\ DOMAIN row = OrchestratorFields /\ row.visible_at = d2.now + 0
  BY DEF OrchestratorRow, OrchestratorFields
<1>15. d2.now = d.now
  BY <1>7 DEF Only, DbFields
<1> HIDE DEF row
<1>10. /\ Only(d, e, {"worker_queue", "sessions", "orchestrator_queue"})
       /\ e.worker_queue = rest
       /\ e.orchestrator_queue = Append(d.orchestrator_queue, row)
  BY <1>7 DEF Only, DbFields
<1> HIDE DEF e
<1>11. IsDb(e)
  <2>1. e.history = d.history
    BY <1>10 DEF Only, DbFields
  <2> QED BY <2>1, <1>4, <1>8, <1>10 DEF IsDb, Only
<1>12. CASE held = {}
  BY <1>1, <1>12 DEF Refused, Reply
<1>13. CASE held # {} /\ completion = Null
  <2>1. r.db = d2
    BY <1>1, <1>13 DEF Done, Reply
  <2>2. d2.history = d.history /\ d2.orchestrator_queue = d.orchestrator_queue
    BY <1>7 DEF Only, DbFields
  <2>3. IsDb(d2)
    BY <2>2, <1>4, <1>7 DEF IsDb, Only
  <2>4. Only(d, d2, {"worker_queue", "sessions", "orchestrator_queue"})
    BY <1>7 DEF Only
  <2>5. AckedWork(d, d2, token, completion)
    BY <2>2, <2>3, <2>4, <1>3, <1>4, <1>7, <1>13 DEF AckedWork
  <2> QED BY <2>1, <2>5
<1>14. CASE held # {} /\ completion # Null
  <2>1. r.db = e
    BY <1>1, <1>2, <1>14 DEF Done, Reply
  <2>2. AckedWork(d, e, token, completion)
    BY <1>3, <1>4, <1>8, <1>9, <1>10, <1>11, <1>14, <1>15 DEF AckedWork
  <2> QED BY <2>1, <2>2
<1> QED BY <1>12, <1>13, <1>14

-----------------------------------------------------------------------------
(* The steps.                                                              *)

(* The invariant holds of the empty database. *)
LEMMA InitCore == Init => IInv
<1> SUFFICES ASSUME Init PROVE IInv
  OBVIOUS
<1> USE DEF Init, EmptyDb, EmptyTable
<1>1. DOMAIN <<>> = {} /\ Range(<<>>) = {}
  BY DEF Range
<1>2. Listed(<<>>)
  BY DEF Listed
<1>3. IsDb(db)
  BY <1>2 DEF IsDb, DbFields
<1>4. RowsOk(db) /\ TokensOk(db) /\ VarsOk
  BY <1>1 DEF RowsOk, TokensOk, VarsOk
<1>5. IdsOk(db)
  BY <1>1 DEF IdsOk
<1>6. QueuesOk /\ HistoryOk /\ SnapshotsOk /\ NoOrphanRow
  BY <1>1 DEF QueuesOk, HistoryOk, SnapshotsOk, NoOrphanRow
<1>7. TurnOk /\ TurnHeld /\ WorkerOk /\ TurnSnapshot /\ PruneOk /\ ReaderOk
  BY DEF TurnOk, TurnHeld, WorkerOk, TurnSnapshot, PruneOk, ReaderOk
<1> QED BY <1>3, <1>4, <1>5, <1>6, <1>7 DEF IInv, Core

(* A step that only reads the database. *)
LEMMA CoreStays ==
    ASSUME Core, UNCHANGED <<db, turn, worker, epoch, begun>>
    PROVE  Core'
<1>1. IsDb(db)' /\ RowsOk(db)' /\ TokensOk(db)' /\ IdsOk(db)'
  BY DEF Core, IsDb, RowsOk, TokensOk, IdsOk
<1>2. VarsOk' /\ QueuesOk' /\ HistoryOk'
  BY DEF Core, VarsOk, QueuesOk, HistoryOk
<1>3. TurnOk' /\ TurnHeld' /\ WorkerOk'
  BY DEF Core, TurnOk, TurnHeld, WorkerOk
<1>4. SnapshotsOk' /\ TurnSnapshot' /\ NoOrphanRow'
  BY DEF Core, SnapshotsOk, TurnSnapshot, NoOrphanRow
<1> QED BY <1>1, <1>2, <1>3, <1>4 DEF Core

(* With nothing in kv_delta the overlay is kv_store. *)
LEMMA NothingOverlaid ==
    ASSUME NEW d, NEW i, Of(d.kv_delta, i) = EmptyTable, NEW k
    PROVE  Valued(View(d, i), k) = KvStoreValue(d, i, k)
<1>1. DOMAIN EmptyTable = {}
  BY DEF EmptyTable
<1> QED BY <1>1 DEF Valued, View, Merged, KvStoreValue

(* What a read that is going on will find in kv_store has not changed, or   *)
(* is what the key is now.                                                 *)
StoreFollowed ==
  \/ Of(db'.kv_store, Root) = Of(db.kv_store, Root)
  \/ Of(db'.kv_delta, Root) = EmptyTable

(* A step after which kv_store is what it was, or nothing overlays it, does *)
(* not mislead a read.                                                     *)
LEMMA ReaderKept ==
    ASSUME ReaderOk, reader' = reader, Watch, StoreFollowed
    PROVE  ReaderOk'
<1> SUFFICES ASSUME reader # Null PROVE ReaderOk'
  BY DEF ReaderOk
<1>1. seen' = seen \cup {Valued(View(db', Root), reader.key)}
  BY DEF Watch
<1>2. KvStoreValue(db', Root, reader.key) \in {KvStoreValue(db, Root, reader.key),
                                               Valued(View(db', Root), reader.key)}
  <2>1. CASE Of(db'.kv_store, Root) = Of(db.kv_store, Root)
    BY <2>1 DEF KvStoreValue
  <2>2. CASE Of(db'.kv_delta, Root) = EmptyTable
    BY <2>2, NothingOverlaid
  <2> QED BY <2>1, <2>2 DEF StoreFollowed
<1> QED BY <1>1, <1>2 DEF ReaderOk

(* The steps of a read. *)
LEMMA ReadSteps ==
    ASSUME IInv, (\E k \in Key : ReadKvDelta(k)) \/ ReadKvStore \/ ReadReturns
    PROVE  IInv'
<1>1. UNCHANGED <<db, turn, worker, admin, epoch, begun>> /\ Watch
  BY DEF ReadKvDelta, ReadKvStore, ReadReturns
<1>2. Core'
  BY <1>1, CoreStays DEF IInv
<1>3. PruneOk'
  BY <1>1 DEF IInv, PruneOk
<1>4. ASSUME NEW k \in Key, ReadKvDelta(k) PROVE ReaderOk'
  <2> DEFINE table == Of(db.kv_delta, Root)
             now == Valued(View(db, Root), k)
  <2>1. reader' = [key |-> k, done |-> k \in DOMAIN table,
                   value |-> IF k \in DOMAIN table THEN table[k] ELSE Null]
    BY <1>4 DEF ReadKvDelta, KvDeltaRow
  <2>2. reader' # Null => now \in seen'
    BY <1>1, <2>1 DEF Watch
  <2>3. k \in DOMAIN table => now = table[k]
    BY DEF Valued, View, Merged
  <2>4. k \notin DOMAIN table => now = KvStoreValue(db, Root, k)
    BY DEF Valued, View, Merged, KvStoreValue
  <2> HIDE DEF table, now
  <2>5. /\ DOMAIN reader' = {"key", "done", "value"}
        /\ reader'.key = k /\ reader'.done = (k \in DOMAIN table)
        /\ k \in DOMAIN table => reader'.value = table[k]
    BY <2>1
  <2>6. reader'.done \in BOOLEAN
    BY <2>5
  <2>7. reader' # Null /\ reader'.done => reader'.value \in seen'
    BY <2>2, <2>3, <2>5
  <2>8. reader' # Null /\ ~reader'.done => KvStoreValue(db', Root, reader'.key) \in seen'
    BY <2>2, <2>4, <2>5, <1>1
  <2> QED BY <2>5, <2>6, <2>7, <2>8 DEF ReaderOk
<1>5. ASSUME ReadKvStore PROVE ReaderOk'
  <2>1. /\ reader # Null /\ ~reader.done
        /\ reader' = [reader EXCEPT !.done = TRUE,
                                    !.value = KvStoreValue(db, Root, reader.key)]
    BY <1>5 DEF ReadKvStore
  <2>2. /\ DOMAIN reader = {"key", "done", "value"}
        /\ KvStoreValue(db, Root, reader.key) \in seen
    BY <2>1 DEF IInv, ReaderOk
  <2>3. /\ DOMAIN reader' = {"key", "done", "value"}
        /\ reader'.done = TRUE
        /\ reader'.value = KvStoreValue(db, Root, reader.key)
    BY <2>1, <2>2
  <2>4. reader' # Null => seen \subseteq seen'
    BY <1>1, <2>1 DEF Watch
  <2> QED BY <2>2, <2>3, <2>4 DEF ReaderOk
<1>6. ASSUME ReadReturns PROVE ReaderOk'
  BY <1>6 DEF ReadReturns, ReaderOk
<1> QED BY <1>2, <1>3, <1>4, <1>5, <1>6 DEF IInv

(* The ids of an execution are those of its row. *)
LEMMA ExecutionKey ==
    ASSUME NEW d, RowsOk(d), NEW i, NEW e
    PROVE  e \in ExecutionIds(d, i) <=> <<i, e>> \in DOMAIN d.executions
<1>1. e \in ExecutionIds(d, i) => <<i, e>> \in DOMAIN d.executions
  <2> SUFFICES ASSUME e \in ExecutionIds(d, i) PROVE <<i, e>> \in DOMAIN d.executions
    OBVIOUS
  <2>1. PICK x \in DOMAIN d.executions : x[1] = i /\ e = x[2]
    BY DEF ExecutionIds
  <2>2. x = <<i, e>>
    BY <2>1 DEF RowsOk
  <2> QED BY <2>1, <2>2
<1>2. <<i, e>> \in DOMAIN d.executions => e \in ExecutionIds(d, i)
  <2> DEFINE x == <<i, e>>
  <2>1. x[1] = i /\ x[2] = e
    OBVIOUS
  <2> HIDE DEF x
  <2>2. x \in DOMAIN d.executions => e \in ExecutionIds(d, i)
    BY <2>1 DEF ExecutionIds
  <2> QED BY <2>2 DEF x
<1> QED BY <1>1, <1>2

(* The steps of administrators before they write: what pruning selects has  *)
(* ended and is not the current execution that it read.                    *)
LEMMA AdminReads ==
    ASSUME IInv,
           \/ (\E force \in BOOLEAN : DeleteBegins(force)) \/ BulkSelects
           \/ ReadTree \/ CheckStatus \/ PruneSelects
           \/ \E n \in {Null, 1} : PruneBegins([KeepsAll EXCEPT !.keep_last = n])
    PROVE  IInv'
<1>1. UNCHANGED <<db, turn, worker, reader, epoch, begun>> /\ Watch
  BY DEF DeleteBegins, BulkSelects, ReadTree, CheckStatus, PruneBegins, PruneSelects
<1>2. Core'
  BY <1>1, CoreStays DEF IInv
<1>3. ReaderOk'
  <2>1. StoreFollowed
    BY <1>1 DEF StoreFollowed
  <2> QED BY <2>1, <1>1, ReaderKept DEF IInv
<1>4. ASSUME NEW force, DeleteBegins(force) PROVE PruneOk'
  <2>1. admin' = [op |-> "tree", force |-> force]
    BY <1>4 DEF DeleteBegins
  <2> QED BY <2>1 DEF PruneOk
<1>5. ASSUME BulkSelects PROVE PruneOk'
  <2>1. admin' = [op |-> "tree", force |-> TRUE]
    BY <1>5 DEF BulkSelects
  <2> QED BY <2>1 DEF PruneOk
<1>6. ASSUME ReadTree PROVE PruneOk'
  <2> DEFINE ids == Tree(db, Root)
             op == IF admin.force THEN "delete" ELSE "status"
  <2>1. admin' = [op |-> op, ids |-> ids]
    BY <1>6 DEF ReadTree
  <2> HIDE DEF ids
  <2>2. "op" \in DOMAIN admin' /\ admin'.op # "prune"
    BY <2>1
  <2> QED BY <2>2 DEF PruneOk
<1>7. ASSUME CheckStatus PROVE PruneOk'
  <2>1. /\ admin # Null
        /\ admin' = IF NoneRunning(db, admin.ids) THEN [admin EXCEPT !.op = "delete"]
                    ELSE Null
    BY <1>7 DEF CheckStatus
  <2>2. "op" \in DOMAIN admin
    BY <2>1 DEF IInv, PruneOk
  <2> QED BY <2>1, <2>2 DEF PruneOk
<1>8. ASSUME PruneSelects PROVE PruneOk'
  <2> DEFINE ids == Prunable(db, Root, admin.current, admin.options)
  <2>1. admin' = IF ids = {} THEN Null
                 ELSE [op |-> "prune", ids |-> ids, current |-> admin.current]
    BY <1>8 DEF PruneSelects
  <2>2. \A e \in ids : /\ e # admin.current
                       /\ e \in ExecutionIds(db, Root)
                       /\ db.executions[<<Root, e>>].status # "Running"
    BY DEF Prunable
  <2>3. \A e \in ids : <<Root, e>> \in DOMAIN db.executions
    BY <2>2, ExecutionKey DEF IInv, Core
  <2> HIDE DEF ids
  <2> QED BY <2>1, <2>2, <2>3, <1>1 DEF PruneOk
<1>9. ASSUME NEW options, PruneBegins(options) PROVE PruneOk'
  <2>1. admin' = [op |-> "select", options |-> options,
                  current |-> db.instances[Root].current_execution_id]
    BY <1>9 DEF PruneBegins
  <2> QED BY <2>1 DEF PruneOk
<1>10. PruneOk'
  BY <1>4, <1>5, <1>6, <1>7, <1>8, <1>9
<1> QED BY <1>2, <1>3, <1>10 DEF IInv

(* A client's message: one more row of the queue. *)
LEMMA MessageSent ==
    ASSUME NEW d, IsDb(d), NEW item, IsOrchestratorItem(item)
    PROVE  LET e == enqueue_for_orchestrator(d, item, 0).db
               row == OrchestratorRow(item, d.now + 0)
           IN  /\ IsDb(e) /\ Only(d, e, {"orchestrator_queue"})
               /\ Range(e.orchestrator_queue) = Range(d.orchestrator_queue) \cup {row}
               /\ row.item = item /\ row.lock_token = Null
               /\ DOMAIN row = OrchestratorFields
<1> DEFINE row == OrchestratorRow(item, d.now + 0)
           e == enqueue_for_orchestrator(d, item, 0).db
<1>1. e = [d EXCEPT !.orchestrator_queue = Append(d.orchestrator_queue, row)]
  BY DEF enqueue_for_orchestrator, Done, Reply
<1>2. row.item = item /\ row.lock_token = Null /\ DOMAIN row = OrchestratorFields
  BY DEF OrchestratorRow, OrchestratorFields
<1> HIDE DEF row, e
<1>3. /\ Listed(Append(d.orchestrator_queue, row))
      /\ Range(Append(d.orchestrator_queue, row)) = Range(d.orchestrator_queue) \cup {row}
  BY AppendRow DEF IsDb
<1>4. /\ Only(d, e, {"orchestrator_queue"})
      /\ e.orchestrator_queue = Append(d.orchestrator_queue, row)
  BY <1>1 DEF IsDb, Only, DbFields
<1>5. IsDb(e)
  <2>1. e.history = d.history /\ e.worker_queue = d.worker_queue
    BY <1>4 DEF Only, DbFields
  <2> QED BY <2>1, <1>3, <1>4 DEF IsDb, Only
<1> QED BY <1>2, <1>3, <1>4, <1>5 DEF row, e

(* A step that only puts messages into the queue, of this incarnation if   *)
(* they are answers or events.                                             *)
LEMMA SentKeeps ==
    ASSUME Core, NEW row, IsDb(db'), Only(db, db', {"orchestrator_queue"}),
           Range(db'.orchestrator_queue) = Range(db.orchestrator_queue) \cup {row},
           row.lock_token = Null, DOMAIN row = OrchestratorFields,
           row.item.kind \in MessageKinds,
           Starts(row.item) => row.item.instance \in Instance,
           row.item.kind \in {"ActivityCompleted", "ExternalRaised"} =>
             row.item.instance \in Instance /\ row.item.epoch = epoch[row.item.instance],
           UNCHANGED <<turn, worker, epoch, begun>>
    PROVE  Core'
<1>1. /\ db'.instances = db.instances /\ db'.executions = db.executions
      /\ db'.history = db.history /\ db'.worker_queue = db.worker_queue
      /\ db'.instance_locks = db.instance_locks /\ db'.tokens = db.tokens
      /\ db'.kv_store = db.kv_store
  BY DEF Only, DbFields
<1>2. RowsOk(db)'
  BY <1>1 DEF Core, RowsOk
<1>3. TokensOk(db)'
  BY <1>1 DEF Core, TokensOk
<1>4. IdsOk(db)'
  BY <1>1 DEF Core, IdsOk
<1>5. VarsOk' /\ HistoryOk'
  BY <1>1 DEF Core, VarsOk, HistoryOk
<1>6. QueuesOk'
  BY <1>1 DEF Core, QueuesOk
<1>7. TurnOk' /\ TurnHeld' /\ WorkerOk'
  BY <1>1 DEF Core, TurnOk, TurnHeld, WorkerOk, LockedBy
<1>8. SnapshotsOk' /\ TurnSnapshot' /\ NoOrphanRow'
  BY <1>1 DEF Core, SnapshotsOk, TurnSnapshot, NoOrphanRow, HistoryOf
<1> QED BY <1>2, <1>3, <1>4, <1>5, <1>6, <1>7, <1>8 DEF Core

(* A client starts the root or raises an event. *)
LEMMA ClientSends ==
    ASSUME IInv, StartRoot \/ RaiseEvent
    PROVE  IInv'
<1>1. ASSUME NEW item, IsOrchestratorItem(item), item.kind \in MessageKinds,
             db' = enqueue_for_orchestrator(db, item, 0).db,
             Starts(item) => item.instance \in Instance,
             item.kind \in {"ActivityCompleted", "ExternalRaised"} =>
               item.instance \in Instance /\ item.epoch = epoch[item.instance],
             UNCHANGED <<turn, worker, reader, admin, epoch, begun>>, Watch
      PROVE  IInv'
  <2> DEFINE row == OrchestratorRow(item, db.now + 0)
  <2>1. /\ IsDb(db') /\ Only(db, db', {"orchestrator_queue"})
        /\ Range(db'.orchestrator_queue) = Range(db.orchestrator_queue) \cup {row}
        /\ row.item = item /\ row.lock_token = Null
        /\ DOMAIN row = OrchestratorFields
    BY <1>1, MessageSent DEF IInv, Core
  <2> HIDE DEF row
  <2>2. Core'
    BY <2>1, <1>1, SentKeeps DEF IInv
  <2>3. db'.kv_store = db.kv_store /\ db'.executions = db.executions
    BY <2>1 DEF Only, DbFields
  <2>4. ReaderOk'
    BY <2>3, <1>1, ReaderKept DEF IInv, StoreFollowed
  <2>5. PruneOk'
    BY <2>3, <1>1 DEF IInv, PruneOk
  <2> QED BY <2>2, <2>4, <2>5 DEF IInv
<1>2. CASE StartRoot
  <2> DEFINE item == StartItem(Root, Null)
  <2>1. /\ item.kind = "StartOrchestration" /\ item.instance = Root
        /\ Root \in Instance
    BY DEF StartItem, Instance
  <2>2. /\ db' = enqueue_for_orchestrator(db, item, 0).db
        /\ UNCHANGED <<turn, worker, reader, admin, epoch, begun>> /\ Watch
    BY <1>2 DEF StartRoot
  <2> HIDE DEF item
  <2> QED BY <2>1, <2>2, <1>1 DEF IsOrchestratorItem, MessageKinds
<1>3. CASE RaiseEvent
  <2> DEFINE item == [kind |-> "ExternalRaised", instance |-> Root, epoch |-> epoch[Root]]
  <2>1. /\ item.kind = "ExternalRaised" /\ item.instance = Root
        /\ item.epoch = epoch[Root] /\ Root \in Instance
    BY DEF Instance
  <2>2. /\ db' = enqueue_for_orchestrator(db, item, 0).db
        /\ UNCHANGED <<turn, worker, reader, admin, epoch, begun>> /\ Watch
    BY <1>3 DEF RaiseEvent
  <2> HIDE DEF item
  <2> QED BY <2>1, <2>2, <1>1 DEF IsOrchestratorItem, MessageKinds, Starts
<1> QED BY <1>2, <1>3

(* A lock that expires takes nothing with it. *)
LEMMA LockGoes == ASSUME IInv, NEW i \in Instance, LockExpires(i) PROVE IInv'
<1>1. /\ db' = [db EXCEPT !.instance_locks = Without(@, {i})]
      /\ UNCHANGED <<turn, worker, reader, admin, epoch, begun>> /\ Watch
  BY DEF LockExpires
<1>2. /\ Only(db, db', {"instance_locks"})
      /\ db'.instance_locks = Without(db.instance_locks, {i})
  BY <1>1 DEF IInv, Core, IsDb, Only, DbFields
<1>3. /\ db'.instances = db.instances /\ db'.executions = db.executions
      /\ db'.history = db.history /\ db'.worker_queue = db.worker_queue
      /\ db'.orchestrator_queue = db.orchestrator_queue /\ db'.tokens = db.tokens
      /\ db'.kv_store = db.kv_store
  BY <1>2 DEF Only, DbFields
<1>4. /\ DOMAIN db'.instance_locks \subseteq DOMAIN db.instance_locks
      /\ \A j \in DOMAIN db'.instance_locks : db'.instance_locks[j] = db.instance_locks[j]
  BY <1>2 DEF Without
<1>5. IsDb(db)' /\ RowsOk(db)' /\ IdsOk(db)'
  BY <1>2, <1>3 DEF IInv, Core, IsDb, RowsOk, IdsOk, Only
<1>6. TokensOk(db)'
  BY <1>3, <1>4 DEF IInv, Core, TokensOk
<1>7. VarsOk' /\ QueuesOk' /\ HistoryOk'
  BY <1>1, <1>3 DEF IInv, Core, VarsOk, QueuesOk, HistoryOk
<1>8. TurnOk' /\ WorkerOk' /\ TurnSnapshot' /\ NoOrphanRow'
  BY <1>1, <1>3 DEF IInv, Core, TurnOk, WorkerOk, TurnSnapshot, NoOrphanRow
<1>9. TurnHeld'
  <2>1. \A token : LockedBy(db', token) \subseteq LockedBy(db, token)
    BY <1>4 DEF LockedBy
  <2> QED BY <2>1, <1>1, <1>3 DEF IInv, Core, TurnHeld
<1>10. SnapshotsOk'
  BY <1>1, <1>3 DEF IInv, Core, SnapshotsOk, HistoryOf
<1>11. Core'
  BY <1>5, <1>6, <1>7, <1>8, <1>9, <1>10 DEF Core
<1>12. ReaderOk'
  BY <1>1, <1>3, ReaderKept DEF IInv, StoreFollowed
<1>13. PruneOk'
  BY <1>1, <1>3 DEF IInv, PruneOk
<1> QED BY <1>11, <1>12, <1>13 DEF IInv

(* What is read of the current execution of an instance. *)
LEMMA EventsFacts ==
    ASSUME NEW d, IdsOk(d), NEW i, NEW execution
    PROVE  /\ Listed(EventsOf(d, i, execution))
           /\ Range(EventsOf(d, i, execution)) = {h.event : h \in HistoryOf(d, i, execution)}
           /\ EventsOf(d, i, execution) = <<>> <=> HistoryOf(d, i, execution) = {}
<1> DEFINE rows == HistoryOf(d, i, execution)
<1>1. PICK b \in Nat : \A h \in Range(d.history) : h.event.id \in 1..b
  BY DEF IdsOk
<1>2. \A h \in rows : h \in Range(d.history) /\ h.instance = i /\ h.execution = execution
  BY DEF HistoryOf
<1>3. \A g, h \in rows : g.event.id = h.event.id => g = h
  BY <1>2 DEF IdsOk
<1> HIDE DEF rows
<1>4. /\ Listed(InOrder(rows)) /\ Range(InOrder(rows)) = {h.event : h \in rows}
      /\ InOrder(rows) = <<>> <=> rows = {}
  BY <1>1, <1>2, <1>3, InOrderFacts
<1> QED BY <1>4 DEF EventsOf, rows

(* What a turn is given, in the words of the invariant. *)
LEMMA TurnGiven ==
    ASSUME Core, NEW r, NEW i, FetchedTurn(db, r, i)
    PROVE  LET events == EventsOf(db, i, db.instances[i].current_execution_id)
           IN  /\ r.ans.execution_id \in Nat
               /\ r.ans.kv_snapshot = Of(db.kv_store, i)
               /\ i \in DOMAIN db.instances =>
                    /\ r.ans.execution_id = db.instances[i].current_execution_id
                    /\ r.ans.history = events
               /\ i \notin DOMAIN db.instances => r.ans.history = <<>>
               /\ Listed(r.ans.history)
<1>1. CASE i \in DOMAIN db.instances
  <2> DEFINE execution == db.instances[i].current_execution_id
             events == EventsOf(db, i, execution)
  <2>1. /\ Listed(events)
        /\ Range(events) = {h.event : h \in HistoryOf(db, i, execution)}
    BY EventsFacts DEF Core
  <2>2. Readable(events)
    <3>1. \A h \in HistoryOf(db, i, execution) : h.event.kind # "Unreadable"
      BY DEF HistoryOf, Core, HistoryOk
    <3>2. \A x \in DOMAIN events : events[x] \in Range(events)
      BY DEF Range
    <3> QED BY <2>1, <3>1, <3>2 DEF Readable
  <2>3. execution \in Nat
    BY <1>1 DEF Core, RowsOk
  <2> QED BY <2>1, <2>2, <2>3, <1>1 DEF FetchedTurn
<1>2. CASE i \notin DOMAIN db.instances
  <2>1. Listed(<<>>)
    BY DEF Listed, Range
  <2> QED BY <2>1, <1>2 DEF FetchedTurn
<1> QED BY <1>1, <1>2

(* A fetched turn. *)
LEMMA TurnFetched == ASSUME IInv, FetchTurn PROVE IInv'
<1> DEFINE r == fetch_orchestration_item(db, 1, Null)
<1>1. /\ r.ans.some /\ db' = r.db
      /\ turn' = Extended(r.ans, [epoch |-> epoch[r.ans.instance]])
      /\ UNCHANGED <<worker, reader, admin, epoch, begun>> /\ Watch
  BY DEF FetchTurn
<1>2. PICK i : FetchedTurn(db, r, i)
  <2>1. \A h \in Range(db.history) : h.instance \in DOMAIN db.instances
    BY DEF IInv, Core, HistoryOk
  <2> QED BY <1>1, <2>1, FetchFacts DEF IInv, Core
<1> HIDE DEF r
<1> DEFINE execution == db.instances[i].current_execution_id
           events == EventsOf(db, i, execution)
           rows == HistoryOf(db, i, execution)
<1>3. /\ r.ans.execution_id \in Nat
      /\ r.ans.kv_snapshot = Of(db.kv_store, i)
      /\ i \in DOMAIN db.instances =>
           r.ans.execution_id = execution /\ r.ans.history = events
      /\ i \notin DOMAIN db.instances => r.ans.history = <<>>
      /\ Listed(r.ans.history)
  BY <1>2, TurnGiven DEF IInv
<1>4. /\ DOMAIN r.ans = ItemFields /\ r.ans.instance = i
      /\ r.ans.lock_token = r.db.tokens /\ MessagesOf(db, r.ans, i)
      /\ Locked(db, r.db, i)
  BY <1>2 DEF FetchedTurn
<1>5. /\ turn'.epoch = epoch[i] /\ turn'.instance = i
      /\ turn'.lock_token = r.ans.lock_token
      /\ turn'.execution_id = r.ans.execution_id
      /\ turn'.history = r.ans.history /\ turn'.messages = r.ans.messages
      /\ turn'.kv_snapshot = r.ans.kv_snapshot
  BY <1>1, <1>4 DEF Extended, ItemFields
<1>6. /\ db'.instances = db.instances /\ db'.executions = db.executions
      /\ db'.history = db.history /\ db'.worker_queue = db.worker_queue
      /\ db'.kv_store = db.kv_store /\ db'.tokens = db.tokens + 1 /\ db.tokens \in Nat
      /\ IsDb(db')
  BY <1>1, <1>4 DEF Locked, Only, DbFields, IInv, Core, TokensOk
<1>7. \A q \in Range(db'.orchestrator_queue) :
        \E p \in Range(db.orchestrator_queue) :
          /\ q.item = p.item /\ DOMAIN q = OrchestratorFields
          /\ q.lock_token = p.lock_token \/ q.lock_token = db'.tokens
  BY <1>1, <1>4 DEF Locked
<1>8. /\ DOMAIN db'.instance_locks = DOMAIN db.instance_locks \cup {i}
      /\ db'.instance_locks[i].lock_token = db'.tokens
      /\ \A j \in DOMAIN db.instance_locks :
           j # i => db'.instance_locks[j] = db.instance_locks[j]
  BY <1>1, <1>4 DEF Locked
<1>9. IsDb(db)' /\ IdsOk(db)'
  BY <1>6 DEF IInv, Core, IdsOk, IsDb
<1>10. RowsOk(db)'
  BY <1>6, <1>7 DEF IInv, Core, RowsOk
<1>11. TokensOk(db)'
  <2>1. 1..db.tokens \subseteq 1..db'.tokens /\ db'.tokens \in 1..db'.tokens
    BY <1>6
  <2>2. \A j \in DOMAIN db'.instance_locks : db'.instance_locks[j].lock_token \in 1..db'.tokens
    BY <2>1, <1>8 DEF IInv, Core, TokensOk
  <2>3. \A q \in Range(db'.orchestrator_queue) : q.lock_token \in (1..db'.tokens) \cup {Null}
    BY <2>1, <1>7 DEF IInv, Core, TokensOk
  <2>4. \A q \in Range(db'.worker_queue) : q.lock_token \in (1..db'.tokens) \cup {Null}
    BY <2>1, <1>6 DEF IInv, Core, TokensOk
  <2> QED BY <2>2, <2>3, <2>4, <1>6 DEF TokensOk
<1>12. VarsOk' /\ HistoryOk'
  BY <1>1, <1>6 DEF IInv, Core, VarsOk, HistoryOk
<1>13. QueuesOk'
  BY <1>1, <1>6, <1>7 DEF IInv, Core, QueuesOk
<1>14. TurnOk'
  <2>1. turn'.lock_token \in 1..db'.tokens
    BY <1>1, <1>4, <1>5, <1>6
  <2>2. /\ Listed(turn'.messages)
        /\ \A m \in Range(turn'.messages) :
             m.kind \in MessageKinds /\ (Starts(m) => turn'.instance \in Instance)
    BY <1>4, <1>5 DEF MessagesOf, IInv, Core, QueuesOk
  <2>3. turn'.history # <<>> => turn'.instance \in Instance
    BY <1>3, <1>5 DEF IInv, Core, HistoryOk
  <2> QED BY <2>1, <2>2, <2>3, <1>3, <1>5 DEF TurnOk
<1>15. TurnHeld'
  <2>1. \A j \in LockedBy(db', turn'.lock_token) : j = i
    <3>1. \A j \in DOMAIN db.instance_locks : db.instance_locks[j].lock_token # db.tokens + 1
      BY <1>6 DEF IInv, Core, TokensOk
    <3>2. turn'.lock_token = db.tokens + 1
      BY <1>1, <1>4, <1>5, <1>6
    <3> QED BY <3>1, <3>2, <1>8 DEF LockedBy
  <2> QED BY <2>1, <1>1, <1>3, <1>5, <1>6 DEF TurnHeld
<1>16. WorkerOk'
  BY <1>1, <1>6 DEF IInv, Core, WorkerOk
<1>17. SnapshotsOk' /\ NoOrphanRow'
  BY <1>1, <1>6 DEF IInv, Core, SnapshotsOk, NoOrphanRow, HistoryOf
<1>18. TurnSnapshot'
  <2>1. CASE i \notin DOMAIN db.instances
    BY <2>1, <1>3, <1>5 DEF TurnSnapshot, Baseline
  <2>2. CASE i \in DOMAIN db.instances
    <3>1. /\ turn'.history = events
          /\ Range(events) = {h.event : h \in rows} /\ (events = <<>> <=> rows = {})
      BY <2>2, <1>3, <1>5, EventsFacts DEF IInv, Core
    <3>2. \/ rows = {}
          \/ \E h \in rows : h.event.kind \in TerminalKinds
          \/ Of(db.kv_store, i) = begun[i]
      BY <2>2 DEF IInv, Core, SnapshotsOk
    <3> HIDE DEF rows, events
    <3>3. ASSUME rows = {} PROVE Baseline(turn)' = <<>>
      BY <3>1, <3>3 DEF Baseline
    <3>4. ASSUME NEW h \in rows, h.event.kind \in TerminalKinds
          PROVE  Ended(turn)' \/ Baseline(turn)' = <<>>
      <4>1. h.event \in Range(turn'.history)
        BY <3>1
      <4> QED BY <4>1, <3>4 DEF Ended, Says, TerminalKinds, Baseline
    <3>5. Of(db.kv_store, i) = begun[i] => turn'.kv_snapshot = begun'[turn'.instance]
      BY <1>1, <1>3, <1>5
    <3> QED BY <3>2, <3>3, <3>4, <3>5 DEF TurnSnapshot
  <2> QED BY <2>1, <2>2
<1>19. Core'
  BY <1>9, <1>10, <1>11, <1>12, <1>13, <1>14, <1>15, <1>16, <1>17, <1>18 DEF Core
<1>20. ReaderOk'
  BY <1>1, <1>6, ReaderKept DEF IInv, StoreFollowed
<1>21. PruneOk'
  BY <1>1, <1>6 DEF IInv, PruneOk
<1> QED BY <1>19, <1>20, <1>21 DEF IInv

(* A fetched activity. *)
LEMMA ActivityFetched == ASSUME IInv, FetchActivity PROVE IInv'
<1> DEFINE filter == [mode |-> "DefaultOnly", tags |-> {}]
           r == fetch_work_item(db, 1, Null, filter)
<1>1. /\ r.ans.some /\ db' = r.db /\ worker' = r.ans
      /\ UNCHANGED <<turn, reader, admin, epoch, begun>> /\ Watch
  BY DEF FetchActivity
<1> HIDE DEF filter
<1>2. FetchedWork(db, r)
  BY <1>1, FetchWorkFacts DEF IInv, Core
<1> HIDE DEF r
<1>3. /\ db'.instances = db.instances /\ db'.executions = db.executions
      /\ db'.history = db.history /\ db'.orchestrator_queue = db.orchestrator_queue
      /\ db'.instance_locks = db.instance_locks
      /\ db'.kv_store = db.kv_store /\ db'.tokens = db.tokens + 1 /\ db.tokens \in Nat
      /\ IsDb(db')
  BY <1>1, <1>2 DEF FetchedWork, Only, DbFields, IInv, Core, TokensOk
<1>4. \A q \in Range(db'.worker_queue) :
        \/ q \in Range(db.worker_queue)
        \/ q.lock_token = db'.tokens /\ q.item = worker'.item /\ DOMAIN q = WorkerFields
  BY <1>1, <1>2 DEF FetchedWork
<1>5. PICK p \in Range(db.worker_queue) : worker'.item = p.item
  BY <1>1, <1>2 DEF FetchedWork
<1>6. worker'.lock_token = db.tokens + 1
  BY <1>1, <1>2 DEF FetchedWork
<1>7. IsDb(db)' /\ IdsOk(db)'
  BY <1>3 DEF IInv, Core, IdsOk, IsDb
<1>8. RowsOk(db)'
  BY <1>3, <1>4 DEF IInv, Core, RowsOk
<1>9. 1..db.tokens \subseteq 1..db'.tokens /\ db'.tokens \in 1..db'.tokens
  BY <1>3
<1>10. TokensOk(db)'
  <2>1. \A j \in DOMAIN db'.instance_locks : db'.instance_locks[j].lock_token \in 1..db'.tokens
    BY <1>9, <1>3 DEF IInv, Core, TokensOk
  <2>2. \A q \in Range(db'.orchestrator_queue) : q.lock_token \in (1..db'.tokens) \cup {Null}
    BY <1>9, <1>3 DEF IInv, Core, TokensOk
  <2>3. \A q \in Range(db'.worker_queue) : q.lock_token \in (1..db'.tokens) \cup {Null}
    BY <1>9, <1>4 DEF IInv, Core, TokensOk
  <2> QED BY <2>1, <2>2, <2>3, <1>3 DEF TokensOk
<1>11. VarsOk' /\ HistoryOk' /\ SnapshotsOk' /\ NoOrphanRow'
  BY <1>1, <1>3 DEF IInv, Core, VarsOk, HistoryOk, SnapshotsOk, NoOrphanRow, HistoryOf
<1>12. QueuesOk'
  BY <1>1, <1>3, <1>4, <1>5 DEF IInv, Core, QueuesOk
<1>13. TurnOk' /\ TurnSnapshot'
  BY <1>1, <1>9 DEF IInv, Core, TurnOk, TurnSnapshot
<1>14. TurnHeld'
  BY <1>1, <1>3 DEF IInv, Core, TurnHeld, LockedBy
<1>15. WorkerOk'
  <2>1. \A q \in Range(db.worker_queue) : q.lock_token # db.tokens + 1
    BY <1>3, NullAssumption DEF IInv, Core, TokensOk
  <2> QED BY <2>1, <1>3, <1>4, <1>6, <1>9 DEF WorkerOk
<1>16. Core'
  BY <1>7, <1>8, <1>10, <1>11, <1>12, <1>13, <1>14, <1>15 DEF Core
<1>17. ReaderOk'
  BY <1>1, <1>3, ReaderKept DEF IInv, StoreFollowed
<1>18. PruneOk'
  BY <1>1, <1>3 DEF IInv, PruneOk
<1> QED BY <1>16, <1>17, <1>18 DEF IInv

(* A completed activity: if its row is there, the completion that names it  *)
(* is of the instance's present incarnation.                               *)
LEMMA ActivityCompletes == ASSUME IInv, CompleteActivity PROVE IInv'
<1> DEFINE done == [kind |-> "ActivityCompleted", instance |-> worker.item.instance,
                    id |-> worker.item.id, epoch |-> worker.item.epoch]
           e == ack_work_item(db, worker.lock_token, done).db
<1>1. /\ worker # Null /\ db' = e /\ worker' = Null
      /\ UNCHANGED <<turn, reader, admin, epoch, begun>> /\ Watch
  BY DEF CompleteActivity
<1>2. /\ done.kind = "ActivityCompleted" /\ done.instance = worker.item.instance
      /\ done.epoch = worker.item.epoch
  OBVIOUS
<1> HIDE DEF done
<1>3. e = db \/ AckedWork(db, e, worker.lock_token, done)
  BY <1>2, AckWorkFacts DEF IInv, Core
<1> HIDE DEF e
<1>4. WorkerOk'
  BY <1>1 DEF WorkerOk
<1>5. CASE e = db
  <2>1. /\ IsDb(db)' /\ RowsOk(db)' /\ TokensOk(db)' /\ IdsOk(db)'
    BY <1>1, <1>5 DEF IInv, Core, IsDb, RowsOk, TokensOk, IdsOk
  <2>2. VarsOk' /\ QueuesOk' /\ HistoryOk' /\ NoOrphanRow'
    BY <1>1, <1>5 DEF IInv, Core, VarsOk, QueuesOk, HistoryOk, NoOrphanRow
  <2>3. TurnOk' /\ TurnHeld' /\ SnapshotsOk' /\ TurnSnapshot'
    BY <1>1, <1>5 DEF IInv, Core, TurnOk, TurnHeld, SnapshotsOk, TurnSnapshot
  <2>4. Core'
    BY <2>1, <2>2, <2>3, <1>4 DEF Core
  <2>5. ReaderOk'
    BY <1>1, <1>5, ReaderKept DEF IInv, StoreFollowed
  <2>6. PruneOk'
    BY <1>1, <1>5 DEF IInv, PruneOk
  <2> QED BY <2>4, <2>5, <2>6 DEF IInv
<1>6. CASE AckedWork(db, e, worker.lock_token, done)
  <2>1. /\ db'.instances = db.instances /\ db'.executions = db.executions
        /\ db'.history = db.history /\ db'.instance_locks = db.instance_locks
        /\ db'.kv_store = db.kv_store /\ db'.tokens = db.tokens
        /\ IsDb(db') /\ Range(db'.worker_queue) \subseteq Range(db.worker_queue)
    BY <1>1, <1>6 DEF AckedWork, Only, DbFields
  <2>2. \A r \in Range(db'.orchestrator_queue) :
          \/ r \in Range(db.orchestrator_queue)
          \/ r.item = done /\ r.lock_token = Null /\ DOMAIN r = OrchestratorFields
    BY <1>1, <1>6 DEF AckedWork
  <2>3. done.instance \in Instance /\ done.epoch = epoch[done.instance]
    <3>1. PICK q \in Range(db.worker_queue) : q.lock_token = worker.lock_token
      BY <1>6 DEF AckedWork
    <3>2. q.item = worker.item
      BY <3>1, <1>1 DEF IInv, Core, WorkerOk
    <3> QED BY <3>2, <1>2 DEF IInv, Core, QueuesOk
  <2>4. IsDb(db)' /\ RowsOk(db)' /\ TokensOk(db)'
    BY <2>1, <2>2 DEF IInv, Core, IsDb, RowsOk, TokensOk
  <2>5. IdsOk(db)' /\ VarsOk' /\ HistoryOk' /\ NoOrphanRow'
    BY <1>1, <2>1 DEF IInv, Core, IdsOk, VarsOk, HistoryOk, NoOrphanRow
  <2>6. QueuesOk'
    BY <1>1, <1>2, <2>1, <2>2, <2>3 DEF IInv, Core, QueuesOk, MessageKinds, Starts
  <2>7. TurnOk' /\ TurnSnapshot'
    BY <1>1, <2>1 DEF IInv, Core, TurnOk, TurnSnapshot
  <2>8. TurnHeld' /\ SnapshotsOk'
    BY <1>1, <2>1 DEF IInv, Core, TurnHeld, SnapshotsOk, LockedBy, HistoryOf
  <2>9. Core'
    BY <2>4, <2>5, <2>6, <2>7, <2>8, <1>4 DEF Core
  <2>10. ReaderOk'
    BY <1>1, <2>1, ReaderKept DEF IInv, StoreFollowed
  <2>11. PruneOk'
    BY <1>1, <2>1 DEF IInv, PruneOk
  <2> QED BY <2>9, <2>10, <2>11 DEF IInv
<1> QED BY <1>1, <1>3, <1>5, <1>6

(* A deletion that commits: everything of the instances goes at once, and  *)
(* no child loses its parent.                                              *)
LEMMA DeletionCommits == ASSUME IInv, DeleteCommits PROVE IInv'
<1> DEFINE ids == admin.ids
           r == DeleteTransaction(db, ids)
<1>1. /\ db' = r.db /\ admin' = Null
      /\ epoch' = [i \in Instance |-> IF r.ans.ok /\ i \in ids
                                      THEN epoch[i] + 1 ELSE epoch[i]]
      /\ UNCHANGED <<turn, worker, reader, begun>> /\ Watch
  BY DEF DeleteCommits
<1> HIDE DEF ids
<1>2. \/ r.db = db /\ ~r.ans.ok
      \/ r.ans.ok /\ ~WouldOrphan(db, ids) /\ Deleted(db, r.db, ids)
  <2>1. CASE WouldOrphan(db, ids)
    BY <2>1 DEF DeleteTransaction, Refused, Reply
  <2>2. CASE ~WouldOrphan(db, ids)
    BY <2>2, DeleteFacts, DeletedOk DEF DeleteTransaction, Reply, IInv, Core
  <2> QED BY <2>1, <2>2
<1> HIDE DEF r
<1>3. PruneOk'
  BY <1>1 DEF PruneOk
<1>4. VarsOk'
  BY <1>1 DEF IInv, Core, VarsOk
<1>5. CASE r.db = db /\ ~r.ans.ok
  <2>1. epoch' = epoch
    BY <1>1, <1>5 DEF IInv, Core, VarsOk
  <2> QED BY <2>1, <1>1, <1>3, <1>5, CoreStays, ReaderKept DEF IInv, StoreFollowed
<1>6. CASE r.ans.ok /\ ~WouldOrphan(db, ids) /\ Deleted(db, r.db, ids)
  <2>1. /\ IsDb(db') /\ db'.tokens = db.tokens
        /\ db'.instances = Without(db.instances, ids)
        /\ db'.executions =
             Without(db.executions, {x \in DOMAIN db.executions : x[1] \in ids})
        /\ db'.instance_locks = Without(db.instance_locks, ids)
        /\ db'.kv_store = Without(db.kv_store, ids)
        /\ db'.kv_delta = Without(db.kv_delta, ids)
        /\ Range(db'.history) = {h \in Range(db.history) : h.instance \notin ids}
        /\ Range(db'.orchestrator_queue) =
             {q \in Range(db.orchestrator_queue) : q.item.instance \notin ids}
        /\ Range(db'.worker_queue) =
             {q \in Range(db.worker_queue) : q.item.instance \notin ids}
    BY <1>1, <1>6 DEF Deleted
  <2>2. \A i \in Instance : i \notin ids => epoch'[i] = epoch[i]
    BY <1>1
  <2>3. /\ DOMAIN db'.instances = DOMAIN db.instances \ ids
        /\ \A i \in DOMAIN db'.instances : db'.instances[i] = db.instances[i]
        /\ DOMAIN db'.executions \subseteq DOMAIN db.executions
        /\ \A x \in DOMAIN db'.executions : db'.executions[x] = db.executions[x]
        /\ DOMAIN db'.instance_locks = DOMAIN db.instance_locks \ ids
        /\ \A i \in DOMAIN db'.instance_locks :
             db'.instance_locks[i] = db.instance_locks[i]
    BY <2>1 DEF Without
  <2>4. /\ \A i : i \notin ids => Of(db'.kv_store, i) = Of(db.kv_store, i)
        /\ \A i : i \in ids => Of(db'.kv_delta, i) = EmptyTable
    BY <2>1 DEF Of, Without
  <2>5. RowsOk(db)'
    BY <2>1, <2>3 DEF IInv, Core, RowsOk
  <2>6. TokensOk(db)'
    BY <2>1, <2>3 DEF IInv, Core, TokensOk
  <2>7. IdsOk(db)'
    BY <2>1 DEF IInv, Core, IdsOk
  <2>8. QueuesOk'
    BY <2>1, <2>2 DEF IInv, Core, QueuesOk
  <2>9. HistoryOk'
    BY <2>1, <2>2, <2>3 DEF IInv, Core, HistoryOk
  <2>10. TurnOk' /\ WorkerOk' /\ TurnSnapshot'
    BY <1>1, <2>1 DEF IInv, Core, TurnOk, WorkerOk, TurnSnapshot
  <2>11. TurnHeld'
    <3>1. \A token, i : i \in LockedBy(db', token) => i \in LockedBy(db, token) /\ i \notin ids
      BY <2>3 DEF LockedBy
    <3> QED BY <3>1, <1>1, <2>2, <2>3, <2>4 DEF IInv, Core, TurnHeld
  <2>12. SnapshotsOk'
    <3>1. \A i, e : i \notin ids => HistoryOf(db', i, e) = HistoryOf(db, i, e)
      BY <2>1 DEF HistoryOf
    <3> SUFFICES ASSUME NEW i \in DOMAIN db.instances, i \notin ids
                 PROVE  LET rows == HistoryOf(db', i, db.instances[i].current_execution_id)
                        IN  \/ rows = {}
                            \/ \E h \in rows : h.event.kind \in TerminalKinds
                            \/ Of(db'.kv_store, i) = begun[i]
      BY <1>1, <2>3 DEF SnapshotsOk
    <3>2. LET rows == HistoryOf(db, i, db.instances[i].current_execution_id)
          IN  \/ rows = {}
              \/ \E h \in rows : h.event.kind \in TerminalKinds
              \/ Of(db.kv_store, i) = begun[i]
      BY DEF IInv, Core, SnapshotsOk
    <3> QED BY <3>1, <3>2, <2>4
  <2>13. NoOrphanRow'
    <3> SUFFICES ASSUME NEW i \in DOMAIN db'.instances, db'.instances[i].parent # Null
                 PROVE  db'.instances[i].parent \in DOMAIN db'.instances
      BY DEF NoOrphanRow
    <3>1. /\ i \in DOMAIN db.instances \ ids
          /\ db'.instances[i].parent = db.instances[i].parent
      BY <2>3
    <3>2. db.instances[i].parent \in DOMAIN db.instances
      BY <3>1 DEF IInv, Core, NoOrphanRow
    <3>3. db.instances[i].parent \notin ids
      BY <3>1, <1>6 DEF WouldOrphan, Children
    <3> QED BY <3>1, <3>2, <3>3, <2>3
  <2>14. Core'
    BY <2>1, <2>5, <2>6, <2>7, <2>8, <2>9, <2>10, <2>11, <2>12, <2>13, <1>4 DEF Core
  <2>15. ReaderOk'
    BY <1>1, <2>4, ReaderKept DEF IInv, StoreFollowed
  <2> QED BY <2>14, <2>15, <1>3 DEF IInv
<1> QED BY <1>2, <1>5, <1>6

(* A pruning that commits: an execution loses all its history or none. *)
LEMMA PruningCommits == ASSUME IInv, PruneCommits PROVE IInv'
<1> DEFINE ids == admin.ids
           e == PruneTransaction(db, Root, ids).db
<1>1. /\ db' = e /\ admin' = Null
      /\ UNCHANGED <<turn, worker, reader, epoch, begun>> /\ Watch
  BY DEF PruneCommits
<1> HIDE DEF ids
<1>2. PrunedRows(db, e, Root, ids)
  BY PruneFacts DEF IInv, Core
<1> HIDE DEF e
<1>3. /\ db'.instances = db.instances /\ db'.tokens = db.tokens
      /\ db'.instance_locks = db.instance_locks /\ db'.kv_store = db.kv_store
      /\ db'.orchestrator_queue = db.orchestrator_queue
      /\ db'.worker_queue = db.worker_queue /\ IsDb(db')
      /\ db'.executions = Without(db.executions, {<<Root, x>> : x \in ids})
      /\ Range(db'.history) =
           {h \in Range(db.history) : ~(h.instance = Root /\ h.execution \in ids)}
  BY <1>1, <1>2 DEF PrunedRows, DbFields
<1>4. /\ DOMAIN db'.executions \subseteq DOMAIN db.executions
      /\ \A x \in DOMAIN db'.executions : db'.executions[x] = db.executions[x]
  BY <1>3 DEF Without
<1>5. RowsOk(db)' /\ TokensOk(db)'
  BY <1>3, <1>4 DEF IInv, Core, RowsOk, TokensOk
<1>6. IdsOk(db)'
  BY <1>3 DEF IInv, Core, IdsOk
<1>7. VarsOk' /\ QueuesOk' /\ HistoryOk' /\ NoOrphanRow'
  BY <1>1, <1>3 DEF IInv, Core, VarsOk, QueuesOk, HistoryOk, NoOrphanRow
<1>8. TurnOk' /\ WorkerOk' /\ TurnSnapshot'
  BY <1>1, <1>3 DEF IInv, Core, TurnOk, WorkerOk, TurnSnapshot
<1>9. TurnHeld'
  BY <1>1, <1>3 DEF IInv, Core, TurnHeld, LockedBy
<1>10. SnapshotsOk'
  <2>1. \A i, x : \/ HistoryOf(db', i, x) = HistoryOf(db, i, x)
                  \/ HistoryOf(db', i, x) = {}
    BY <1>3 DEF HistoryOf
  <2> SUFFICES ASSUME NEW i \in DOMAIN db.instances
               PROVE  LET rows == HistoryOf(db', i, db.instances[i].current_execution_id)
                      IN  \/ rows = {}
                          \/ \E h \in rows : h.event.kind \in TerminalKinds
                          \/ Of(db.kv_store, i) = begun[i]
    BY <1>1, <1>3 DEF SnapshotsOk
  <2>2. LET rows == HistoryOf(db, i, db.instances[i].current_execution_id)
        IN  \/ rows = {}
            \/ \E h \in rows : h.event.kind \in TerminalKinds
            \/ Of(db.kv_store, i) = begun[i]
    BY DEF IInv, Core, SnapshotsOk
  <2> QED BY <2>1, <2>2
<1>11. Core'
  BY <1>3, <1>5, <1>6, <1>7, <1>8, <1>9, <1>10 DEF Core
<1>12. ReaderOk'
  BY <1>1, <1>3, ReaderKept DEF IInv, StoreFollowed
<1>13. PruneOk'
  BY <1>1 DEF PruneOk
<1> QED BY <1>11, <1>12, <1>13 DEF IInv

Named(metadata) == metadata.name # Null /\ metadata.version # Null

(* What a turn hands to its ack.  first says that it begins an execution.  *)
TurnWrites(execution, delta, workers, items, metadata, first) ==
  /\ execution \in {turn.execution_id, turn.execution_id + 1}
  /\ Listed(delta) /\ Listed(workers) /\ Listed(items)
  /\ \E b \in Nat : \A x \in DOMAIN delta :
       /\ delta[x].id = b + x /\ delta[x].epoch = turn.epoch
       /\ delta[x].kind # "Unreadable"
  /\ delta # <<>> \/ workers # <<>> \/ Named(metadata) => turn.instance \in Instance
  /\ metadata.status # Null =>
       /\ metadata.status \in {"Completed", "ContinuedAsNew", "Failed"}
       /\ \E x \in DOMAIN delta : delta[x].kind \in TerminalKinds
  /\ \A x \in DOMAIN workers :
       workers[x].instance = turn.instance /\ workers[x].epoch = turn.epoch
  /\ \A x \in DOMAIN items :
       /\ items[x].kind \in {"StartOrchestration", "ContinueAsNew", "SubOrchCompleted"}
       /\ Starts(items[x]) => items[x].instance \in Instance
  /\ \/ first /\ Named(metadata)
     \/ /\ ~first /\ delta = <<>> /\ metadata.status = Null /\ ~Named(metadata)
        /\ execution = turn.execution_id
     \/ /\ ~first /\ turn.history # <<>> /\ execution = turn.execution_id
        /\ turn.kv_snapshot = begun[turn.instance]

(* The database after the ack of a turn that is not refused. *)
LEMMA AckedRows ==
    ASSUME Core, turn # Null, NEW execution, NEW delta, NEW workers, NEW items,
           NEW metadata, NEW first,
           TurnWrites(execution, delta, workers, items, metadata, first),
           NEW i \in LockedBy(db, turn.lock_token),
           ParentKnown(db, i, metadata), CanAppend(db, i, execution, delta),
           Acked(db, db', i, execution, delta, workers, items, metadata),
           UNCHANGED <<worker, epoch>>
    PROVE  /\ RowsOk(db)' /\ TokensOk(db)' /\ IdsOk(db)'
           /\ QueuesOk' /\ HistoryOk' /\ WorkerOk' /\ NoOrphanRow'
<1> DEFINE new == {[instance |-> i, execution |-> execution, event |-> delta[x]] :
                     x \in DOMAIN delta}
<1>1. /\ IsDb(db') /\ db'.tokens = db.tokens
      /\ AckedInstances(db, db', i, execution, metadata)
      /\ AckedExecutions(db, db', i, execution, metadata)
      /\ Range(db'.history) = Range(db.history) \cup new
      /\ Grown(db.worker_queue, db'.worker_queue, workers, WorkerFields)
      /\ Grown(db.orchestrator_queue, db'.orchestrator_queue, items, OrchestratorFields)
      /\ db'.instance_locks = Without(db.instance_locks, {i})
  BY DEF Acked
<1>2. execution \in Nat
  BY DEF TurnWrites, Core, TurnOk
<1>3. /\ i = turn.instance
      /\ i \in Instance => turn.epoch = epoch[i]
      /\ i \in DOMAIN db.instances \/ turn.history = <<>>
  BY DEF Core, TurnHeld
<1>4. \A r \in Range(db'.worker_queue) :
        \/ r \in Range(db.worker_queue)
        \/ /\ r.item.instance = i /\ r.item.epoch = epoch[i] /\ i \in Instance
           /\ r.lock_token = Null /\ DOMAIN r = WorkerFields
  <2>1. \A x \in DOMAIN workers :
          workers[x].instance = i /\ workers[x].epoch = epoch[i] /\ i \in Instance
    <3> TAKE x \in DOMAIN workers
    <3>1. workers # <<>>
      OBVIOUS
    <3>2. i \in Instance
      BY <3>1, <1>3 DEF TurnWrites
    <3> QED BY <3>2, <1>3 DEF TurnWrites
  <2> QED BY <2>1, <1>1 DEF Grown
<1>5. \A r \in Range(db'.orchestrator_queue) :
        \/ r \in Range(db.orchestrator_queue)
        \/ /\ r.item.kind \in {"StartOrchestration", "ContinueAsNew", "SubOrchCompleted"}
           /\ Starts(r.item) => r.item.instance \in Instance
           /\ r.lock_token = Null /\ DOMAIN r = OrchestratorFields
  BY <1>1 DEF Grown, TurnWrites
<1>6. /\ DOMAIN db'.instance_locks \subseteq DOMAIN db.instance_locks
      /\ \A j \in DOMAIN db'.instance_locks : db'.instance_locks[j] = db.instance_locks[j]
  BY <1>1 DEF Without
<1>7. RowsOk(db)'
  <2>1. \A j \in DOMAIN db'.instances :
          /\ DOMAIN db'.instances[j] = InstanceFields
          /\ db'.instances[j].current_execution_id \in Nat
    <3> SUFFICES ASSUME NEW j \in DOMAIN db'.instances
                 PROVE  /\ DOMAIN db'.instances[j] = InstanceFields
                        /\ db'.instances[j].current_execution_id \in Nat
      OBVIOUS
    <3>1. DOMAIN db'.instances[j] = InstanceFields
      BY <1>1 DEF AckedInstances
    <3>2. CASE j \in DOMAIN db.instances /\ j = i
      <4>1. db'.instances[i].current_execution_id =
              IF execution > db.instances[i].current_execution_id
              THEN execution ELSE db.instances[i].current_execution_id
        BY <3>2, <1>1 DEF AckedInstances
      <4> QED BY <4>1, <3>1, <3>2, <1>2 DEF Core, RowsOk
    <3>3. CASE j \in DOMAIN db.instances /\ j # i
      BY <3>1, <3>3, <1>1 DEF AckedInstances, Core, RowsOk
    <3>4. CASE j \notin DOMAIN db.instances
      BY <3>1, <3>4, <1>1, <1>2 DEF AckedInstances
    <3> QED BY <3>2, <3>3, <3>4
  <2>2. \A x \in DOMAIN db'.executions :
          x = <<x[1], x[2]>> /\ DOMAIN db'.executions[x] = ExecutionFields
    BY <1>1 DEF AckedExecutions, Core, RowsOk
  <2> QED BY <2>1, <2>2, <1>4, <1>5 DEF Core, RowsOk
<1>8. TokensOk(db)'
  BY <1>1, <1>4, <1>5, <1>6 DEF Core, TokensOk
<1>9. IdsOk(db)'
  <2>1. PICK b1 \in Nat : \A h \in Range(db.history) : h.event.id \in 1..b1
    BY DEF Core, IdsOk
  <2>2. PICK b2 \in Nat : \A x \in DOMAIN delta : delta[x].id = b2 + x
    BY DEF TurnWrites
  <2>3. Len(delta) \in Nat /\ DOMAIN delta = 1..Len(delta)
    BY DEF TurnWrites, Listed
  <2> DEFINE b3 == b1 + b2 + Len(delta)
  <2>4. b3 \in Nat /\ \A h \in Range(db'.history) : h.event.id \in 1..b3
    <3>1. b3 \in Nat /\ 1..b1 \subseteq 1..b3
      BY <2>3
    <3>2. \A x \in DOMAIN delta : delta[x].id \in 1..b3
      BY <2>2, <2>3
    <3> HIDE DEF b3
    <3> QED BY <3>1, <3>2, <2>1, <1>1
  <2>5. \A h \in new : \E x \in DOMAIN delta :
          /\ h = [instance |-> i, execution |-> execution, event |-> delta[x]]
          /\ h.instance = i /\ h.execution = execution /\ h.event = delta[x]
    OBVIOUS
  <2>6. \A g, h \in new : g.event.id = h.event.id => g = h
    <3> TAKE g, h \in new
    <3>1. PICK x \in DOMAIN delta :
            /\ g = [instance |-> i, execution |-> execution, event |-> delta[x]]
            /\ g.event = delta[x]
      BY <2>5
    <3>2. PICK y \in DOMAIN delta :
            /\ h = [instance |-> i, execution |-> execution, event |-> delta[y]]
            /\ h.event = delta[y]
      BY <2>5
    <3>3. delta[x].id = delta[y].id => x = y
      BY <2>2, <2>3
    <3> QED BY <3>1, <3>2, <3>3
  <2>7. \A g \in Range(db.history), h \in new :
          ~ /\ g.instance = h.instance
            /\ g.execution = h.execution
            /\ g.event.id = h.event.id
    BY <2>5 DEF CanAppend
  <2> HIDE DEF new, b3
  <2>8. \A g, h \in Range(db'.history) :
          /\ g.instance = h.instance
          /\ g.execution = h.execution
          /\ g.event.id = h.event.id
          => g = h
    BY <2>6, <2>7, <1>1 DEF Core, IdsOk
  <2> QED BY <2>4, <2>8 DEF IdsOk
<1>10. QueuesOk'
  <2>1. \A r \in Range(db'.worker_queue) :
          r.item.instance \in Instance /\ r.item.epoch = epoch[r.item.instance]
    BY <1>4 DEF Core, QueuesOk
  <2>2. \A r \in Range(db'.orchestrator_queue) :
          /\ r.item.kind \in MessageKinds
          /\ Starts(r.item) => r.item.instance \in Instance
          /\ r.item.kind \in {"ActivityCompleted", "ExternalRaised"} =>
               r.item.instance \in Instance /\ r.item.epoch = epoch[r.item.instance]
    BY <1>5 DEF Core, QueuesOk, MessageKinds
  <2> QED BY <2>1, <2>2 DEF QueuesOk
<1>11. DOMAIN db'.instances = DOMAIN db.instances \cup (IF Named(metadata) THEN {i} ELSE {})
  BY <1>1 DEF AckedInstances, Named
<1>12. HistoryOk'
  <2>1. DOMAIN db'.instances \subseteq Instance
    BY <1>3, <1>11 DEF Core, HistoryOk, TurnWrites
  <2>2. \A h \in new : /\ h.instance \in DOMAIN db'.instances
                       /\ h.event.epoch = epoch[h.instance]
                       /\ h.event.kind # "Unreadable"
    <3> TAKE h \in new
    <3>1. PICK x \in DOMAIN delta : h.instance = i /\ h.event = delta[x]
      OBVIOUS
    <3>2. delta # <<>>
      BY <3>1
    <3>3. i \in Instance
      BY <3>2, <1>3 DEF TurnWrites
    <3>4. i \in DOMAIN db'.instances
      BY <3>2, <1>3, <1>11 DEF TurnWrites
    <3>5. delta[x].epoch = turn.epoch /\ delta[x].kind # "Unreadable"
      BY DEF TurnWrites
    <3> QED BY <3>1, <3>3, <3>4, <3>5, <1>3
  <2>3. \A h \in Range(db.history) : /\ h.instance \in DOMAIN db'.instances
                                     /\ h.event.epoch = epoch[h.instance]
                                     /\ h.event.kind # "Unreadable"
    BY <1>11 DEF Core, HistoryOk
  <2> HIDE DEF new
  <2> QED BY <2>1, <2>2, <2>3, <1>1 DEF HistoryOk
<1>13. WorkerOk'
  <2>1. worker # Null => worker.lock_token # Null
    BY NullAssumption DEF Core, WorkerOk, TokensOk
  <2> QED BY <2>1, <1>1, <1>4 DEF Core, WorkerOk
<1>14. NoOrphanRow'
  <2> SUFFICES ASSUME NEW j \in DOMAIN db'.instances, db'.instances[j].parent # Null
               PROVE  db'.instances[j].parent \in DOMAIN db'.instances
    BY DEF NoOrphanRow
  <2>1. CASE j \in DOMAIN db.instances
    BY <2>1, <1>1, <1>11 DEF AckedInstances, Core, NoOrphanRow
  <2>2. CASE j \notin DOMAIN db.instances
    <3>1. j = i /\ Named(metadata)
      BY <2>2, <1>11
    <3>2. db'.instances[j].parent = metadata.parent
      BY <2>2, <1>1 DEF AckedInstances
    <3>3. metadata.parent \in DOMAIN db.instances \cup {i}
      BY <2>2, <3>1, <3>2 DEF ParentKnown, Named
    <3> QED BY <3>1, <3>2, <3>3, <1>11
  <2> QED BY <2>1, <2>2
<1> QED BY <1>7, <1>8, <1>9, <1>10, <1>12, <1>13, <1>14

(* kv_store keeps what the execution began with, and a turn that begins an  *)
(* execution has been given what is in kv_store.                           *)
LEMMA AckedSnapshots ==
    ASSUME Core, turn # Null, NEW execution, NEW delta, NEW workers, NEW items,
           NEW metadata, NEW first \in BOOLEAN,
           TurnWrites(execution, delta, workers, items, metadata, first),
           NEW i \in LockedBy(db, turn.lock_token),
           Acked(db, db', i, execution, delta, workers, items, metadata),
           begun' = IF first THEN [begun EXCEPT ![turn.instance] = turn.kv_snapshot]
                    ELSE begun
    PROVE  SnapshotsOk'
<1> SUFFICES ASSUME NEW j \in DOMAIN db'.instances
             PROVE  LET rows == HistoryOf(db', j, db'.instances[j].current_execution_id)
                    IN  \/ rows = {}
                        \/ \E h \in rows : h.event.kind \in TerminalKinds
                        \/ Of(db'.kv_store, j) = begun'[j]
  BY DEF SnapshotsOk
<1> DEFINE new == {[instance |-> i, execution |-> execution, event |-> delta[x]] :
                     x \in DOMAIN delta}
<1>1. /\ AckedInstances(db, db', i, execution, metadata)
      /\ Range(db'.history) = Range(db.history) \cup new
      /\ AckedKv(db, db', i, delta, metadata)
  BY DEF Acked
<1>2. /\ i = turn.instance
      /\ turn.kv_snapshot = Of(db.kv_store, i)
      /\ i \in DOMAIN db.instances =>
           turn.execution_id = db.instances[i].current_execution_id
      /\ i \notin DOMAIN db.instances => turn.history = <<>>
  BY DEF Core, TurnHeld
<1>3. DOMAIN begun = Instance /\ DOMAIN db.instances \subseteq Instance
  BY DEF Core, VarsOk, HistoryOk
<1>4. \A h \in new : h.instance = i /\ h.execution = execution
  OBVIOUS
<1>5. \A x \in DOMAIN delta : \E h \in new :
        h.instance = i /\ h.execution = execution /\ h.event = delta[x]
  <2> TAKE x \in DOMAIN delta
  <2> DEFINE h == [instance |-> i, execution |-> execution, event |-> delta[x]]
  <2>1. h \in new
    OBVIOUS
  <2>2. h.instance = i /\ h.execution = execution /\ h.event = delta[x]
    OBVIOUS
  <2> QED BY <2>1, <2>2
<1>6. delta = <<>> => new = {}
  OBVIOUS
<1> HIDE DEF new
<1>7. \A k \in DOMAIN db.instances :
        LET rows == HistoryOf(db, k, db.instances[k].current_execution_id)
        IN  \/ rows = {}
            \/ \E h \in rows : h.event.kind \in TerminalKinds
            \/ Of(db.kv_store, k) = begun[k]
  BY DEF Core, SnapshotsOk
<1>8. CASE j # i
  <2>1. j \in DOMAIN db.instances /\ db'.instances[j] = db.instances[j]
    BY <1>8, <1>1 DEF AckedInstances
  <2>2. \A e : HistoryOf(db', j, e) = HistoryOf(db, j, e)
    BY <1>1, <1>4, <1>8 DEF HistoryOf
  <2>3. Of(db'.kv_store, j) = Of(db.kv_store, j) /\ begun'[j] = begun[j]
    BY <2>1, <1>1, <1>2, <1>3, <1>8 DEF AckedKv
  <2> QED BY <2>1, <2>2, <2>3, <1>7
<1>9. CASE j = i
  <2> DEFINE rows == HistoryOf(db', i, db'.instances[i].current_execution_id)
  <2>1. i \in DOMAIN db.instances =>
          /\ execution \in Nat /\ turn.execution_id \in Nat
          /\ db'.instances[i].current_execution_id =
               IF execution > turn.execution_id THEN execution ELSE turn.execution_id
    BY <1>1, <1>2 DEF AckedInstances, TurnWrites, Core, TurnOk
  <2>2. execution \in {turn.execution_id, turn.execution_id + 1}
    BY DEF TurnWrites
  <2>3. i \notin DOMAIN db.instances => db'.instances[i].current_execution_id = execution
    BY <1>1, <1>9 DEF AckedInstances
  <2>4. db'.instances[i].current_execution_id = execution
    BY <2>1, <2>2, <2>3
  <2>5. metadata.status # Null => \E h \in rows : h.event.kind \in TerminalKinds
    <3>1. metadata.status # Null => \E x \in DOMAIN delta : delta[x].kind \in TerminalKinds
      BY DEF TurnWrites
    <3> QED BY <3>1, <2>4, <1>1, <1>5 DEF HistoryOf
  <2>6. metadata.status = Null => Of(db'.kv_store, i) = Of(db.kv_store, i)
    <3>1. ~IsTerminal(Null)
      BY NullAssumption DEF IsTerminal
    <3> QED BY <3>1, <1>1 DEF AckedKv
  <2>7. CASE first /\ Named(metadata)
    <3>1. i \in Instance
      BY <2>7, <1>2 DEF TurnWrites
    <3>2. begun'[i] = turn.kv_snapshot
      BY <2>7, <3>1, <1>2, <1>3
    <3> QED BY <3>2, <2>5, <2>6, <1>2, <1>9
  <2>8. CASE ~first /\ delta = <<>> /\ metadata.status = Null /\ ~Named(metadata)
             /\ execution = turn.execution_id
    <3>1. i \in DOMAIN db.instances
      BY <2>8, <1>1, <1>9 DEF AckedInstances, Named
    <3>2. HistoryOf(db', i, execution) = HistoryOf(db, i, execution)
      BY <2>8, <1>1, <1>6 DEF HistoryOf
    <3>3. db.instances[i].current_execution_id = execution
      BY <2>8, <3>1, <1>2
    <3> QED BY <3>1, <3>2, <3>3, <2>4, <2>6, <2>8, <1>7, <1>9
  <2>9. CASE ~first /\ turn.kv_snapshot = begun[turn.instance]
    BY <2>5, <2>6, <2>9, <1>2, <1>9
  <2> QED BY <2>7, <2>8, <2>9 DEF TurnWrites
<1> QED BY <1>8, <1>9

(* The ack of a turn, refused or not. *)
LEMMA TurnAcked ==
    ASSUME IInv, turn # Null, NEW execution, NEW delta, NEW workers, NEW items,
           NEW metadata, NEW cancelled, NEW first \in BOOLEAN,
           TurnWrites(execution, delta, workers, items, metadata, first),
           LET r == ack_orchestration_item(db, turn.lock_token, execution, delta,
                                           workers, items, metadata, cancelled)
           IN  /\ db' = r.db
               /\ begun' = IF r.ans.ok /\ first
                           THEN [begun EXCEPT ![turn.instance] = turn.kv_snapshot]
                           ELSE begun,
           turn' = Null, UNCHANGED <<worker, reader, admin, epoch>>, Watch
    PROVE  IInv'
<1> DEFINE r == ack_orchestration_item(db, turn.lock_token, execution, delta,
                                       workers, items, metadata, cancelled)
<1>1. AckOutcome(db, r, turn.lock_token, execution, delta, workers, items, metadata)
  <2>1. /\ Len(delta) \in Nat /\ DOMAIN delta = 1..Len(delta)
        /\ Len(workers) \in Nat /\ DOMAIN workers = 1..Len(workers)
        /\ Len(items) \in Nat /\ DOMAIN items = 1..Len(items) /\ Listed(items)
    BY DEF TurnWrites, Listed
  <2> QED BY <2>1, AckFacts DEF IInv, Core
<1> HIDE DEF r
<1>2. /\ db' = r.db
      /\ begun' = IF r.ans.ok /\ first
                  THEN [begun EXCEPT ![turn.instance] = turn.kv_snapshot] ELSE begun
  BY DEF r
<1>3. TurnOk' /\ TurnHeld' /\ TurnSnapshot'
  BY DEF TurnOk, TurnHeld, TurnSnapshot
<1>4. VarsOk'
  BY <1>2 DEF IInv, Core, VarsOk
<1>5. CASE r.db = db /\ ~r.ans.ok
  <2>1. IsDb(db)' /\ RowsOk(db)' /\ TokensOk(db)' /\ IdsOk(db)'
    BY <1>2, <1>5 DEF IInv, Core, IsDb, RowsOk, TokensOk, IdsOk
  <2>2. QueuesOk' /\ HistoryOk' /\ WorkerOk' /\ NoOrphanRow'
    BY <1>2, <1>5 DEF IInv, Core, QueuesOk, HistoryOk, WorkerOk, NoOrphanRow
  <2>3. SnapshotsOk'
    BY <1>2, <1>5 DEF IInv, Core, SnapshotsOk
  <2>4. Core'
    BY <2>1, <2>2, <2>3, <1>3, <1>4 DEF Core
  <2>5. ReaderOk'
    BY <1>2, <1>5, ReaderKept DEF IInv, StoreFollowed
  <2>6. PruneOk'
    BY <1>2, <1>5 DEF IInv, PruneOk
  <2> QED BY <2>4, <2>5, <2>6 DEF IInv
<1>6. ASSUME r.ans.ok, NEW i \in LockedBy(db, turn.lock_token),
             ParentKnown(db, i, metadata), CanAppend(db, i, execution, delta),
             Acked(db, r.db, i, execution, delta, workers, items, metadata)
      PROVE  IInv'
  <2>1. Acked(db, db', i, execution, delta, workers, items, metadata)
    BY <1>2, <1>6
  <2>2. /\ RowsOk(db)' /\ TokensOk(db)' /\ IdsOk(db)'
        /\ QueuesOk' /\ HistoryOk' /\ WorkerOk' /\ NoOrphanRow'
    BY <2>1, <1>6, AckedRows DEF IInv
  <2>3. SnapshotsOk'
    BY <2>1, <1>2, <1>6, AckedSnapshots DEF IInv
  <2>4. IsDb(db')
    BY <2>1 DEF Acked
  <2>5. Core'
    BY <2>2, <2>3, <2>4, <1>3, <1>4 DEF Core
  <2>6. StoreFollowed
    BY <2>1 DEF Acked, AckedKv, StoreFollowed
  <2>7. ReaderOk'
    BY <2>6, ReaderKept DEF IInv
  <2>8. PruneOk'
    <3>1. metadata.status # Null => metadata.status # "Running"
      BY DEF TurnWrites
    <3>2. AckedExecutions(db, db', i, execution, metadata)
      BY <2>1 DEF Acked
    <3> QED BY <3>1, <3>2 DEF AckedExecutions, IInv, PruneOk
  <2> QED BY <2>5, <2>7, <2>8 DEF IInv
<1> QED BY <1>1, <1>5, <1>6 DEF AckOutcome

(* The last of the rows that are selected. *)
LEMMA LastPicked ==
    ASSUME NEW q, Listed(q), NEW K \in SUBSET DOMAIN q
    PROVE  /\ Pick(q, K) = <<>> <=> K = {}
           /\ \A m \in K : (\A n \in K : n <= m) => Last(Pick(q, K)) = q[m]
<1>1. Len(q) \in Nat /\ DOMAIN q = 1..Len(q)
  BY DEF Listed
<1>2. Enumerated(K)
  BY <1>1, PlaceFacts
<1>3. Pick(q, K) = <<>> <=> K = {}
  BY <1>2, PickEmpty
<1>4. ASSUME NEW m \in K, \A n \in K : n <= m PROVE Last(Pick(q, K)) = q[m]
  <2> DEFINE c == Cardinality(K)
  <2>1. PICK n \in 1..c : Place(K, n) = m
    BY <1>2 DEF Enumerated
  <2>2. c \in Nat /\ c \in 1..c
    BY <2>1, <1>2 DEF Enumerated
  <2>3. Place(K, c) \in K /\ (n = c \/ Place(K, n) < Place(K, c))
    BY <2>1, <2>2, <1>2 DEF Enumerated
  <2>4. Place(K, c) <= m /\ Place(K, c) \in Int /\ m \in Int
    BY <2>3, <1>1, <1>4
  <2>5. Place(K, c) = m
    BY <2>1, <2>3, <2>4
  <2>6. Len(Pick(q, K)) = c /\ \A x \in 1..c : Pick(q, K)[x] = q[Place(K, x)]
    BY <1>2, PickFacts
  <2>7. Pick(q, K)[c] = q[Place(K, c)]
    BY <2>2, <2>6
  <2> QED BY <2>5, <2>6, <2>7 DEF Last
<1> QED BY <1>3, <1>4

(* An execution's events say that it has ended. *)
Finished(events) == Says(events, TerminalKinds)

(* An event writes a value, never NULL. *)
Writes(event) == event.kind = "KeyValueSet" => event.value # Null

(* The events of a turn after those of the execution before it: a first    *)
(* turn begins with OrchestrationStarted, and no other has it.             *)
Begins(base, delta, status) ==
  /\ \A x \in DOMAIN delta :
       delta[x].kind = "OrchestrationStarted" => x = 1 /\ base = <<>>
  /\ base = <<>> => /\ 1 \in DOMAIN delta /\ delta[1].kind = "OrchestrationStarted"
                    /\ delta[1].status = status

(* What a turn says to whoever reads the history after it. *)
TurnSays(execution, delta, items, metadata) ==
  LET base == Baseline(turn)
  IN  /\ ~Ended(turn) /\ execution = ExecutionToUse(turn) /\ Listed(delta)
      /\ \A x \in DOMAIN delta : delta[x].id = Len(base) + x /\ Writes(delta[x])
      /\ \A s : (\A m \in Range(turn.messages) : Starts(m) => m.status = s)
                  => Begins(base, delta, s)
      /\ turn.instance # Root => \A x \in DOMAIN delta : delta[x].kind # "CustomStatusUpdated"
      /\ metadata.status \in {Null, "Completed", "ContinuedAsNew", "Failed"}
      /\ metadata.status # Null <=> Finished(delta)
      /\ base = <<>> => Named(metadata)
      /\ \A x \in DOMAIN items :
           /\ items[x].kind \in {"StartOrchestration", "ContinueAsNew", "SubOrchCompleted"}
           /\ items[x].kind = "StartOrchestration" =>
                items[x].instance = Kid /\ items[x].status = Null
           /\ items[x].kind = "ContinueAsNew" =>
                /\ items[x].instance = turn.instance
                /\ items[x].status = AccumulatedStatus(base \o delta)
                /\ Finished(delta)

(* An event that a turn makes, before it has an id. *)
EventKinds ==
  {"OrchestrationStarted", "ExternalRaised", "ActivityCompleted", "SubOrchCompleted",
   "KeyValueSet", "KeyValueCleared", "KeyValuesCleared", "CustomStatusUpdated",
   "ActivityScheduled", "SubOrchestrationScheduled", "OrchestrationCompleted",
   "OrchestrationContinuedAsNew", "OrchestrationFailed"}

Event(e) ==
  /\ "kind" \in DOMAIN e /\ e.kind \in EventKinds
  /\ e.kind = "OrchestrationStarted" =>
       /\ {"name", "version", "status"} \subseteq DOMAIN e
       /\ e.name = "Orch" /\ e.version = "1.0.0"
  /\ e.kind = "KeyValueSet" => "value" \in DOMAIN e
  /\ Writes(e)

Events(q) == Listed(q) /\ \A e \in Range(q) : Event(e)

(* A turn's events in a row. *)
LEMMA ConcatEvents ==
    ASSUME NEW q, Events(q), NEW p, Events(p)
    PROVE  Events(q \o p) /\ Range(q \o p) = Range(q) \cup Range(p)
  BY ConcatRows DEF Events

(* What comes behind the first events of a turn does not begin it. *)
LEMMA BeginsConcat ==
    ASSUME NEW base, NEW q, Listed(q), NEW p, Listed(p), NEW status,
           Begins(base, q, status), \A e \in Range(p) : e.kind # "OrchestrationStarted"
    PROVE  Begins(base, q \o p, status)
<1> DEFINE all == q \o p
           a == Len(q)
           b == Len(p)
<1>1. /\ a \in Nat /\ b \in Nat /\ DOMAIN all = 1..(a + b)
      /\ DOMAIN q = 1..a /\ DOMAIN p = 1..b
      /\ \A k \in 1..a : all[k] = q[k]
      /\ \A k \in (a + 1)..(a + b) : all[k] = p[k - a]
  BY ConcatList
<1>2. \A k \in (a + 1)..(a + b) : all[k].kind # "OrchestrationStarted"
  <2> TAKE k \in (a + 1)..(a + b)
  <2>1. k - a \in 1..b
    BY <1>1
  <2>2. p[k - a] \in Range(p)
    BY <2>1, <1>1 DEF Range
  <2> QED BY <2>2, <1>1
<1> HIDE DEF all, a, b
<1>3. \A x \in DOMAIN all : x \in 1..a \/ x \in (a + 1)..(a + b)
  BY <1>1
<1>4. base = <<>> => 1 \in 1..a /\ 1 \in DOMAIN all
  BY <1>1 DEF Begins
<1>5. Begins(base, all, status)
  BY <1>1, <1>2, <1>3, <1>4 DEF Begins
<1> QED BY <1>5 DEF all

(* The OrchestrationStarted of a first turn. *)
LEMMA StartEventsFacts ==
    ASSUME NEW item, Listed(item.messages),
           Baseline(item) = <<>> => Filtered(item.messages, Starts) # <<>>
    PROVE  /\ Events(StartEvents(item))
           /\ \A e \in Range(StartEvents(item)) : e.kind = "OrchestrationStarted"
           /\ \E status :
                /\ Begins(Baseline(item), StartEvents(item), status)
                /\ Baseline(item) = <<>> =>
                     \E m \in Range(item.messages) : Starts(m) /\ m.status = status
<1>1. CASE Baseline(item) # <<>>
  <2>1. StartEvents(item) = <<>>
    BY <1>1 DEF StartEvents
  <2>2. DOMAIN <<>> = {}
    OBVIOUS
  <2> QED BY <1>1, <2>1, <2>2, NoRow DEF Events, Begins
<1>2. CASE Baseline(item) = <<>>
  <2> DEFINE K == {x \in DOMAIN item.messages : Starts(item.messages[x])}
             starts == Pick(item.messages, K)
             e == [kind |-> "OrchestrationStarted", name |-> "Orch", version |-> "1.0.0",
                   parent |-> starts[1].parent, status |-> starts[1].status,
                   epoch |-> item.epoch]
  <2>1. starts # <<>> /\ StartEvents(item) = <<e>>
    BY <1>2 DEF StartEvents, Filtered
  <2>2. \E m \in Range(item.messages) : Starts(m) /\ m.status = starts[1].status
    <3>1. Listed(starts) /\ Range(starts) = {item.messages[k] : k \in K}
      BY PickRows
    <3> HIDE DEF starts
    <3>2. 1 \in DOMAIN starts
      BY <2>1, <3>1 DEF Listed
    <3>3. PICK k \in K : starts[1] = item.messages[k]
      BY <3>1, <3>2 DEF Range
    <3>4. item.messages[k] \in Range(item.messages) /\ Starts(item.messages[k])
      BY DEF Range
    <3> QED BY <3>3, <3>4
  <2> DEFINE status == starts[1].status
  <2> HIDE DEF starts
  <2>3. Event(e) /\ e.kind = "OrchestrationStarted" /\ e.status = status
    BY <2>2 DEF Event, EventKinds, Writes
  <2> HIDE DEF e
  <2>4. Listed(<<e>>) /\ Range(<<e>>) = {e}
    BY OneRow
  <2>5. DOMAIN <<e>> = {1} /\ <<e>>[1] = e
    OBVIOUS
  <2>6. Events(<<e>>) /\ Begins(<<>>, <<e>>, status)
    BY <2>3, <2>4, <2>5 DEF Events, Begins
  <2>7. \E m \in Range(item.messages) : Starts(m) /\ m.status = status
    BY <2>2
  <2> HIDE DEF status
  <2> QED BY <2>1, <2>3, <2>4, <2>6, <2>7, <1>2
<1> QED BY <1>1, <1>2

(* The messages that become events. *)
LEMMA ArrivalsFacts ==
    ASSUME NEW item, Listed(item.messages),
           \A m \in Range(item.messages) : m.kind \in MessageKinds
    PROVE  /\ Events(Arrivals(item))
           /\ \A e \in Range(Arrivals(item)) :
                e.kind \in {"ExternalRaised", "ActivityCompleted", "SubOrchCompleted"}
<1> DEFINE K == {x \in DOMAIN item.messages : ~Starts(item.messages[x])}
           others == Pick(item.messages, K)
           arrivals == [x \in DOMAIN others |->
                          IF others[x].kind = "ActivityCompleted"
                          THEN [kind |-> "ActivityCompleted", source |-> others[x].id]
                          ELSE [kind |-> others[x].kind]]
<1>1. arrivals = Arrivals(item)
  BY DEF Arrivals, Filtered
<1>2. Listed(others) /\ Range(others) = {item.messages[k] : k \in K}
  BY PickRows
<1>3. \A x \in DOMAIN others :
        others[x].kind \in {"ExternalRaised", "ActivityCompleted", "SubOrchCompleted"}
  <2> TAKE x \in DOMAIN others
  <2>1. others[x] \in Range(others)
    BY DEF Range
  <2>2. PICK k \in K : others[x] = item.messages[k]
    BY <2>1, <1>2
  <2>3. item.messages[k] \in Range(item.messages)
    BY DEF Range
  <2> QED BY <2>2, <2>3 DEF MessageKinds, Starts
<1> HIDE DEF K, others
<1>4. Listed(arrivals)
  <2>1. Len(others) \in Nat /\ DOMAIN others = 1..Len(others)
    BY <1>2 DEF Listed
  <2>2. arrivals = [x \in 1..Len(others) |-> arrivals[x]]
    BY <2>1
  <2> HIDE DEF arrivals
  <2> QED BY <2>1, <2>2, MappedRows
<1>5. \A x \in DOMAIN others :
        /\ Event(arrivals[x])
        /\ arrivals[x].kind \in {"ExternalRaised", "ActivityCompleted", "SubOrchCompleted"}
  BY <1>3 DEF Event, EventKinds, Writes
<1>6. DOMAIN arrivals = DOMAIN others
  OBVIOUS
<1> HIDE DEF arrivals
<1>7. \A e \in Range(arrivals) :
        /\ Event(e)
        /\ e.kind \in {"ExternalRaised", "ActivityCompleted", "SubOrchCompleted"}
  BY <1>5, <1>6 DEF Range
<1> QED BY <1>1, <1>4, <1>7 DEF Events

(* What the orchestration's code does. *)
LEMMA EffectFacts ==
    /\ \A q \in Effect :
         Events(q) /\ \A e \in Range(q) : e.kind # "OrchestrationStarted"
    /\ \A q \in Ending :
         Events(q) /\ \A e \in Range(q) : e.kind \in Final
<1>1. ASSUME NEW e, Event(e)
      PROVE  Events(<<e>>) /\ Range(<<e>>) = {e}
  <2>1. Listed(<<e>>) /\ Range(<<e>>) = {e}
    BY OneRow
  <2> QED BY <2>1, <1>1 DEF Events
<1>2. Events(<<>>) /\ Range(<<>>) = {}
  BY NoRow DEF Events
<1> DEFINE Code(q) == Events(q) /\ \A e \in Range(q) : e.kind # "OrchestrationStarted"
<1>3. ASSUME NEW q \in Effect PROVE Code(q)
  <2>1. CASE q = <<>>
    BY <2>1, <1>2
  <2>2. ASSUME NEW k \in Key, NEW x \in Value,
               q = <<[kind |-> "KeyValueSet", key |-> k, value |-> x]>>
        PROVE  Code(q)
    <3> DEFINE e == [kind |-> "KeyValueSet", key |-> k, value |-> x]
    <3>1. Event(e) /\ e.kind # "OrchestrationStarted"
      BY ValueAssumption DEF Event, EventKinds, Writes
    <3> HIDE DEF e
    <3> QED BY <3>1, <1>1, <2>2 DEF e
  <2>3. ASSUME NEW k \in Key, q = <<[kind |-> "KeyValueCleared", key |-> k]>>
        PROVE  Code(q)
    <3> DEFINE e == [kind |-> "KeyValueCleared", key |-> k]
    <3>1. Event(e) /\ e.kind # "OrchestrationStarted"
      BY DEF Event, EventKinds, Writes
    <3> HIDE DEF e
    <3> QED BY <3>1, <1>1, <2>3 DEF e
  <2>4. ASSUME NEW x, q = <<[kind |-> "CustomStatusUpdated", status |-> x]>>
        PROVE  Code(q)
    <3> DEFINE e == [kind |-> "CustomStatusUpdated", status |-> x]
    <3>1. Event(e) /\ e.kind # "OrchestrationStarted"
      BY DEF Event, EventKinds, Writes
    <3> HIDE DEF e
    <3> QED BY <3>1, <1>1, <2>4 DEF e
  <2>5. ASSUME NEW k \in {"KeyValuesCleared", "ActivityScheduled",
                          "SubOrchestrationScheduled"},
               q = <<[kind |-> k]>>
        PROVE  Code(q)
    <3> DEFINE e == [kind |-> k]
    <3>1. Event(e) /\ e.kind # "OrchestrationStarted"
      BY DEF Event, EventKinds, Writes
    <3> HIDE DEF e
    <3> QED BY <3>1, <1>1, <2>5 DEF e
  <2> QED BY <2>1, <2>2, <2>3, <2>4, <2>5 DEF Effect
<1>4. ASSUME NEW q \in Ending
      PROVE  Events(q) /\ \A e \in Range(q) : e.kind \in Final
  <2>1. ASSUME NEW k \in Final, q = <<[kind |-> k]>>
        PROVE  Events(q) /\ \A e \in Range(q) : e.kind \in Final
    <3> DEFINE e == [kind |-> k]
    <3>1. Event(e) /\ e.kind \in Final
      BY DEF Event, EventKinds, Writes, Final
    <3> HIDE DEF e
    <3> QED BY <3>1, <1>1, <2>1 DEF e
  <2>2. q = <<>> \/ \E k \in Final : q = <<[kind |-> k]>>
    BY DEF Ending, Final
  <2> QED BY <2>1, <2>2, <1>2
<1> QED BY <1>3, <1>4

(* A stored event has the kind, name and version it was made with. *)
LEMMA NumberedFacts ==
    ASSUME NEW q, Events(q), NEW from, NEW e
    PROVE  LET p == Numbered(q, from, e)
           IN  /\ Listed(p) /\ DOMAIN p = DOMAIN q /\ Len(p) = Len(q)
               /\ \A x \in DOMAIN q :
                    /\ p[x].id = from + x /\ p[x].epoch = e
                    /\ p[x].kind = q[x].kind /\ Event(p[x])
                    /\ q[x].kind = "OrchestrationStarted" => p[x].status = q[x].status
<1> DEFINE p == Numbered(q, from, e)
<1>1. Len(q) \in Nat /\ DOMAIN q = 1..Len(q)
  BY DEF Events, Listed
<1>2. p = [x \in 1..Len(q) |-> Extended([id |-> from + x, epoch |-> e], q[x])]
  BY <1>1 DEF Numbered
<1>3. ASSUME NEW x \in DOMAIN q
      PROVE  /\ p[x].id = from + x /\ p[x].epoch = e
             /\ p[x].kind = q[x].kind /\ Event(p[x])
             /\ q[x].kind = "OrchestrationStarted" => p[x].status = q[x].status
  <2>1. Event(q[x])
    BY DEF Events, Range
  <2> DEFINE row == [id |-> from + x, epoch |-> e]
  <2>2. /\ DOMAIN row = {"id", "epoch"} /\ row.id = from + x /\ row.epoch = e
    OBVIOUS
  <2>3. p[x] = Extended(row, q[x])
    BY <1>1, <1>2
  <2> HIDE DEF row, p
  <2>4. /\ DOMAIN p[x] = {"id", "epoch"} \cup DOMAIN q[x]
        /\ p[x].id = from + x /\ p[x].epoch = e
        /\ \A f \in DOMAIN q[x] \ {"id", "epoch"} : p[x][f] = q[x][f]
    BY <2>2, <2>3 DEF Extended
  <2>5. p[x].kind = q[x].kind
    BY <2>1, <2>4 DEF Event
  <2>6. q[x].kind = "OrchestrationStarted" =>
          /\ p[x].name = q[x].name /\ p[x].version = q[x].version
          /\ p[x].status = q[x].status
    BY <2>1, <2>4 DEF Event
  <2>7. q[x].kind = "KeyValueSet" => p[x].value = q[x].value
    BY <2>1, <2>4 DEF Event
  <2>8. Event(p[x])
    BY <2>1, <2>4, <2>5, <2>6, <2>7 DEF Event, Writes
  <2> QED BY <2>4, <2>5, <2>6, <2>8
<1>4. p = [x \in 1..Len(q) |-> p[x]] /\ DOMAIN p = 1..Len(q)
  BY <1>2
<1> HIDE DEF p
<1>5. Listed(p)
  BY <1>1, <1>4, MappedRows
<1>6. Len(p) = Len(q)
  BY <1>1, <1>4, <1>5 DEF Listed
<1> QED BY <1>1, <1>3, <1>4, <1>5, <1>6 DEF p

(* What a turn says of the execution: a status only with the event that     *)
(* ends it, a name and a version if it began.                              *)
LEMMA MetadataFacts ==
    ASSUME NEW delta, Events(delta)
    PROVE  LET m == Metadata(delta)
           IN  /\ m.status # Null =>
                    /\ m.status \in {"Completed", "ContinuedAsNew", "Failed"}
                    /\ \E x \in DOMAIN delta : delta[x].kind \in TerminalKinds
               /\ m.status = Null => ~Finished(delta)
               /\ (\E e \in Range(delta) : e.kind = "OrchestrationStarted") => Named(m)
<1> DEFINE K == {x \in DOMAIN delta : delta[x].kind = "OrchestrationStarted"}
           started == Pick(delta, K)
           named == IF started = <<>> THEN NoMetadata
                    ELSE [NoMetadata EXCEPT !.name = started[1].name,
                                            !.version = started[1].version,
                                            !.parent = started[1].parent]
           m == Metadata(delta)
<1>1. m = CASE Says(delta, {"OrchestrationFailed"}) -> [named EXCEPT !.status = "Failed"]
            [] Says(delta, {"OrchestrationCompleted"}) ->
                 [named EXCEPT !.status = "Completed"]
            [] Says(delta, {"OrchestrationContinuedAsNew"}) ->
                 [named EXCEPT !.status = "ContinuedAsNew"]
            [] OTHER -> named
  BY DEF Metadata, Filtered
<1>2. Listed(started) /\ Range(started) = {delta[k] : k \in K}
  BY PickRows DEF Events
<1>3. Len(started) \in Nat /\ DOMAIN started = 1..Len(started)
      /\ (Len(started) = 0 <=> started = <<>>)
  BY <1>2 DEF Listed
<1>4. started # <<>> => Named([name |-> started[1].name, version |-> started[1].version])
  <2> SUFFICES ASSUME started # <<>>
               PROVE  started[1].name # Null /\ started[1].version # Null
    BY DEF Named
  <2>1. started[1] \in Range(started)
    <3> HIDE DEF started, K
    <3>1. 1 \in DOMAIN started
      BY <1>3
    <3> QED BY <3>1 DEF Range
  <2>2. PICK k \in K : started[1] = delta[k]
    BY <2>1, <1>2
  <2>3. Event(delta[k]) /\ delta[k].kind = "OrchestrationStarted"
    BY DEF Events, Range
  <2> QED BY <2>2, <2>3, NameAssumption DEF Event
<1>5. (\E e \in Range(delta) : e.kind = "OrchestrationStarted") => started # <<>>
  <2>1. (\E e \in Range(delta) : e.kind = "OrchestrationStarted") => K # {}
    BY DEF Range
  <2>2. K # {} => Range(started) # {}
    BY <1>2
  <2> QED BY <2>1, <2>2, NoRow
<1> HIDE DEF K, started
<1> DEFINE MetadataFields == {"name", "version", "status", "output", "parent", "pinned"}
<1>6. /\ DOMAIN named = MetadataFields /\ named.status = Null
      /\ started # <<>> => named.name = started[1].name /\ named.version = started[1].version
  BY DEF NoMetadata
<1> HIDE DEF named, m
<1>7. \A s : LET n == [named EXCEPT !.status = s]
             IN  n.status = s /\ n.name = named.name /\ n.version = named.version
  BY <1>6
<1>8. /\ m.name = named.name /\ m.version = named.version
      /\ \/ m.status = Null /\ ~Finished(delta)
         \/ m.status = "Failed" /\ Says(delta, {"OrchestrationFailed"})
         \/ m.status = "Completed" /\ Says(delta, {"OrchestrationCompleted"})
         \/ m.status = "ContinuedAsNew" /\ Says(delta, {"OrchestrationContinuedAsNew"})
  <2>1. Finished(delta) => \/ Says(delta, {"OrchestrationFailed"})
                           \/ Says(delta, {"OrchestrationCompleted"})
                           \/ Says(delta, {"OrchestrationContinuedAsNew"})
    BY DEF Finished, Says, TerminalKinds
  <2> QED BY <2>1, <1>1, <1>6, <1>7
<1>9. m.status # Null => /\ m.status \in {"Completed", "ContinuedAsNew", "Failed"}
                         /\ \E x \in DOMAIN delta : delta[x].kind \in TerminalKinds
  BY <1>8 DEF Says, Range, TerminalKinds
<1>11. m.status = Null => ~Finished(delta)
  BY <1>8, NullAssumption
<1>10. started # <<>> => Named(m)
  BY <1>4, <1>6, <1>8 DEF Named
<1> QED BY <1>5, <1>9, <1>10, <1>11 DEF m

(* The activities that a turn schedules. *)
LEMMA WorkerItemsFacts ==
    ASSUME NEW item, NEW delta, Events(delta)
    PROVE  LET w == WorkerItems(item, delta)
           IN  /\ Listed(w)
               /\ \A x \in DOMAIN w : w[x].instance = item.instance /\ w[x].epoch = item.epoch
<1> DEFINE K == {x \in DOMAIN delta : delta[x].kind = "ActivityScheduled" /\ ~Says(delta, Final)}
           calls == Pick(delta, K)
           w == [x \in DOMAIN calls |->
                   [kind |-> "ActivityExecute", instance |-> item.instance,
                    execution_id |-> ExecutionToUse(item), id |-> calls[x].id,
                    session |-> Null, tag |-> Null, epoch |-> item.epoch]]
<1>1. WorkerItems(item, delta) = w
  BY DEF WorkerItems, Filtered
<1>2. Listed(calls)
  BY PickRows DEF Events
<1> HIDE DEF K, calls
<1>3. \A x \in DOMAIN w : w[x].instance = item.instance /\ w[x].epoch = item.epoch
  OBVIOUS
<1>4. Len(calls) \in Nat /\ DOMAIN calls = 1..Len(calls)
  BY <1>2 DEF Listed
<1>5. w = [x \in 1..Len(calls) |-> w[x]]
  BY <1>4
<1> HIDE DEF w
<1>6. Listed(w)
  BY <1>4, <1>5, MappedRows
<1> QED BY <1>1, <1>3, <1>6

(* The messages that a turn sends. *)
LEMMA OrchestratorItemsFacts ==
    ASSUME NEW item, item.instance \in Instance, NEW parent, NEW delta, NEW history
    PROVE  LET o == OrchestratorItems(item, parent, delta, history)
           IN  /\ Listed(o)
               /\ \A x \in DOMAIN o :
                    /\ o[x].kind \in {"StartOrchestration", "ContinueAsNew", "SubOrchCompleted"}
                    /\ Starts(o[x]) => o[x].instance \in Instance
                    /\ o[x].kind = "StartOrchestration" =>
                         o[x].instance = Kid /\ o[x].status = Null
                    /\ o[x].kind = "ContinueAsNew" =>
                         /\ o[x].instance = item.instance
                         /\ o[x].status = AccumulatedStatus(history)
                         /\ Says(delta, {"OrchestrationContinuedAsNew"})
<1> DEFINE start == StartItem(Kid, Root)
           again == [StartItem(item.instance, Null) EXCEPT
                       !.kind = "ContinueAsNew", !.status = AccumulatedStatus(history)]
           answer == [kind |-> "SubOrchCompleted", instance |-> parent, epoch |-> Null]
           c1 == Says(delta, {"SubOrchestrationScheduled"}) /\ ~Says(delta, Final)
           c2 == Says(delta, {"OrchestrationContinuedAsNew"})
           c3 == Says(delta, {"OrchestrationCompleted"}) /\ parent # Null
           Fits(x) == /\ x.kind \in {"StartOrchestration", "ContinueAsNew", "SubOrchCompleted"}
                      /\ Starts(x) => x.instance \in Instance
                      /\ x.kind = "StartOrchestration" => x.instance = Kid /\ x.status = Null
                      /\ x.kind = "ContinueAsNew" =>
                           /\ x.instance = item.instance
                           /\ x.status = AccumulatedStatus(history) /\ c2
           p1 == IF c1 THEN <<start>> ELSE <<>>
           p2 == IF c2 THEN <<again>> ELSE <<>>
           p3 == IF c3 THEN <<answer>> ELSE <<>>
<1>1. OrchestratorItems(item, parent, delta, history) = p1 \o p2 \o p3
  BY DEF OrchestratorItems
<1>2. Fits(start) /\ (c2 => Fits(again)) /\ Fits(answer)
  BY DEF StartItem, Instance, Starts
<1> HIDE DEF start, again, answer, c1, c2, c3
<1>3. ASSUME NEW e PROVE Listed(<<e>>) /\ Range(<<e>>) = {e}
  BY OneRow
<1>4. Listed(p1) /\ \A x \in Range(p1) : Fits(x)
  <2>1. Listed(<<start>>) /\ Range(<<start>>) = {start}
    BY OneRow
  <2> HIDE DEF Fits
  <2> QED BY <2>1, <1>2, NoRow
<1>5. Listed(p2) /\ \A x \in Range(p2) : Fits(x)
  <2>1. Listed(<<again>>) /\ Range(<<again>>) = {again}
    BY OneRow
  <2>2. Listed(<<>>) /\ Range(<<>>) = {}
    BY NoRow
  <2> HIDE DEF Fits
  <2> QED BY <2>1, <2>2, <1>2
<1>6. Listed(p3) /\ \A x \in Range(p3) : Fits(x)
  <2>1. Listed(<<answer>>) /\ Range(<<answer>>) = {answer}
    BY OneRow
  <2> HIDE DEF Fits
  <2> QED BY <2>1, <1>2, NoRow
<1> HIDE DEF p1, p2, p3
<1>7. Listed(p1 \o p2) /\ Range(p1 \o p2) = Range(p1) \cup Range(p2)
  BY <1>4, <1>5, ConcatRows
<1> DEFINE p12 == p1 \o p2
<1> HIDE DEF p12
<1>8. Listed(p12 \o p3) /\ Range(p12 \o p3) = Range(p12) \cup Range(p3)
  BY <1>6, <1>7, ConcatRows DEF p12
<1> DEFINE o == p12 \o p3
<1>9. \A x \in DOMAIN o : o[x] \in Range(o)
  BY DEF Range
<1> HIDE DEF o
<1>10. \A x \in DOMAIN o : Fits(o[x])
  <2> HIDE DEF Fits
  <2> QED BY <1>4, <1>5, <1>6, <1>7, <1>8, <1>9 DEF o, p12
<1> QED BY <1>1, <1>8, <1>10 DEF o, p12, c2

(* A batch that is acknowledged unprocessed writes nothing. *)
LEMMA UnprocessedAcked == ASSUME IInv, AckUnprocessed PROVE IInv'
<1> DEFINE none == <<>>
           no == FALSE
           r == ack_orchestration_item(db, turn.lock_token, turn.execution_id, none,
                                       none, none, NoMetadata, {})
<1>1. /\ turn # Null /\ db' = r.db /\ turn' = Null
      /\ UNCHANGED <<worker, reader, admin, epoch, begun>> /\ Watch
  BY DEF AckUnprocessed
<1>2. Listed(none) /\ DOMAIN none = {} /\ none = <<>>
  BY NoRow
<1>3. NoMetadata.status = Null /\ ~Named(NoMetadata)
  BY DEF NoMetadata, Named
<1>4. no \in BOOLEAN /\ ~no
  OBVIOUS
<1>5. begun' = IF r.ans.ok /\ no THEN [begun EXCEPT ![turn.instance] = turn.kv_snapshot]
               ELSE begun
  BY <1>1
<1> HIDE DEF none, no
<1>6. TurnWrites(turn.execution_id, none, none, none, NoMetadata, no)
  BY <1>2, <1>3, <1>4 DEF TurnWrites
<1> QED BY <1>1, <1>4, <1>5, <1>6, TurnAcked

(* What a turn hands to its ack. *)
TurnHands(execution, delta, workers, items, metadata, cancelled, first) ==
  /\ TurnWrites(execution, delta, workers, items, metadata, first)
  /\ TurnSays(execution, delta, items, metadata)
  /\ LET r == ack_orchestration_item(db, turn.lock_token, execution, delta, workers,
                                     items, metadata, cancelled)
     IN  /\ db' = r.db
         /\ begun' = IF r.ans.ok /\ first
                     THEN [begun EXCEPT ![turn.instance] = turn.kv_snapshot] ELSE begun

(* A turn numbers its events after those of the history, begins an          *)
(* execution if there is none, and says at its end how it ended.           *)
LEMMA TurnMade ==
    ASSUME IInv, NEW effect \in Effect, NEW ending \in Ending, RunTurn(effect, ending)
    PROVE  \E execution, delta, workers, items, metadata, cancelled, first :
             /\ first \in BOOLEAN
             /\ TurnHands(execution, delta, workers, items, metadata, cancelled, first)
<1> DEFINE base == Baseline(turn)
           events == StartEvents(turn) \o Arrivals(turn) \o effect \o ending
           wrote == Numbered(events, Len(base), turn.epoch)
           over == OverLimit(turn, wrote)
           failure == <<[kind |-> "OrchestrationFailed"]>>
           failed == Numbered(failure, Len(base) + Len(wrote), turn.epoch)
           delta == IF over THEN wrote \o failed ELSE wrote
           history == base \o wrote
           execution == ExecutionToUse(turn)
           workers == IF over THEN <<>> ELSE WorkerItems(turn, wrote)
           items == IF over THEN <<>>
                    ELSE OrchestratorItems(turn, history[1].parent, wrote, history)
           metadata == Metadata(delta)
           cancelled == IF ending = <<>> THEN {} ELSE Outstanding(turn, history)
           first == base = <<>>
           r == ack_orchestration_item(db, turn.lock_token, execution, delta, workers,
                                       items, metadata, cancelled)
<1>1. /\ turn # Null /\ ~Ended(turn) /\ ~Nameless(turn)
      /\ db' = r.db /\ turn' = Null
      /\ begun' = IF r.ans.ok /\ first
                  THEN [begun EXCEPT ![turn.instance] = turn.kv_snapshot] ELSE begun
      /\ UNCHANGED <<worker, reader, admin, epoch>> /\ Watch
  BY DEF RunTurn
<1>2. /\ Listed(turn.messages) /\ Listed(turn.history)
      /\ \A m \in Range(turn.messages) :
           m.kind \in MessageKinds /\ (Starts(m) => turn.instance \in Instance)
      /\ turn.history # <<>> => turn.instance \in Instance
  BY <1>1 DEF IInv, Core, TurnOk
<1>30. turn.instance # Root => effect = <<>>
  <2>1. turn.instance # Root => Len(effect) <= 0
    BY DEF RunTurn
  <2>2. Listed(effect)
    BY EffectFacts DEF Events
  <2>3. Len(effect) \in Nat /\ DOMAIN effect = 1..Len(effect)
        /\ effect \in Seq(Range(effect))
    BY <2>2 DEF Listed
  <2> QED BY <2>1, <2>3
<1>31. base = <<>> => Filtered(turn.messages, Starts) # <<>>
  <2> DEFINE K == {x \in DOMAIN turn.messages : Starts(turn.messages[x])}
             C == {x \in DOMAIN turn.messages : turn.messages[x].kind = "ContinueAsNew"}
  <2>1. Continues(turn) = Pick(turn.messages, C)
        /\ Filtered(turn.messages, Starts) = Pick(turn.messages, K)
    BY DEF Continues, Filtered
  <2>2. K \in SUBSET DOMAIN turn.messages /\ C \in SUBSET DOMAIN turn.messages
        /\ C \subseteq K
    BY DEF Starts
  <2> HIDE DEF K, C
  <2>3. /\ Pick(turn.messages, K) = <<>> <=> K = {}
        /\ Pick(turn.messages, C) = <<>> <=> C = {}
    BY <2>2, <1>2, LastPicked
  <2> QED BY <2>1, <2>2, <2>3, <1>1 DEF Baseline, Nameless
<1>3. turn.instance \in Instance
  <2> SUFFICES ASSUME turn.history = <<>> PROVE turn.instance \in Instance
    BY <1>2
  <2> DEFINE K == {x \in DOMAIN turn.messages : Starts(turn.messages[x])}
  <2>1. Pick(turn.messages, K) # <<>>
    BY <1>1 DEF Nameless, Filtered
  <2>2. Listed(Pick(turn.messages, K))
        /\ Range(Pick(turn.messages, K)) = {turn.messages[k] : k \in K}
    BY <1>2, PickRows
  <2>3. K # {}
    <3> SUFFICES ASSUME K = {} PROVE FALSE
      OBVIOUS
    <3> DEFINE p == Pick(turn.messages, K)
    <3>1. Range(p) = {} /\ Listed(p) /\ p # <<>>
      BY <2>1, <2>2
    <3> HIDE DEF p, K
    <3>2. Len(p) \in Nat /\ DOMAIN p = 1..Len(p) /\ Len(p) # 0
      BY <3>1 DEF Listed
    <3>3. 1 \in DOMAIN p
      BY <3>2
    <3> QED BY <3>1, <3>3 DEF Range
  <2>4. PICK k \in K : TRUE
    BY <2>3
  <2>5. turn.messages[k] \in Range(turn.messages) /\ Starts(turn.messages[k])
    BY <2>4 DEF Range
  <2> QED BY <2>5, <1>2
<1>4. PICK status :
        /\ Events(events) /\ Begins(base, events, status)
        /\ base = <<>> => \E m \in Range(turn.messages) : Starts(m) /\ m.status = status
        /\ turn.instance # Root => \A e \in Range(events) : e.kind # "CustomStatusUpdated"
  <2> DEFINE s == StartEvents(turn)
             a == Arrivals(turn)
  <2>1. /\ Events(s) /\ Events(a) /\ Events(effect) /\ Events(ending)
        /\ \A e \in Range(s) : e.kind = "OrchestrationStarted"
        /\ \A e \in Range(a) :
             e.kind \in {"ExternalRaised", "ActivityCompleted", "SubOrchCompleted"}
        /\ \A e \in Range(effect) : e.kind # "OrchestrationStarted"
        /\ \A e \in Range(ending) : e.kind \in Final
    BY <1>2, <1>31, StartEventsFacts, ArrivalsFacts, EffectFacts
  <2>10. PICK status :
           /\ Begins(base, s, status)
           /\ base = <<>> => \E m \in Range(turn.messages) : Starts(m) /\ m.status = status
    BY <1>2, <1>31, StartEventsFacts
  <2> HIDE DEF s, a, base
  <2>2. Events(s \o a) /\ Range(s \o a) = Range(s) \cup Range(a)
    BY <2>1, ConcatEvents
  <2>11. Begins(base, s \o a, status)
    BY <2>1, <2>10, BeginsConcat DEF Events
  <2> DEFINE sa == s \o a
  <2> HIDE DEF sa
  <2>3. Events(sa \o effect) /\ Range(sa \o effect) = Range(sa) \cup Range(effect)
    BY <2>1, <2>2, ConcatEvents DEF sa
  <2>12. Begins(base, sa \o effect, status)
    BY <2>1, <2>2, <2>11, BeginsConcat DEF Events, sa
  <2> DEFINE sae == sa \o effect
  <2> HIDE DEF sae
  <2>4. Events(sae \o ending) /\ Range(sae \o ending) = Range(sae) \cup Range(ending)
    BY <2>1, <2>3, ConcatEvents DEF sae
  <2>13. Begins(base, sae \o ending, status)
    <3>1. \A e \in Range(ending) : e.kind # "OrchestrationStarted"
      BY <2>1 DEF Final
    <3> QED BY <3>1, <2>1, <2>3, <2>12, BeginsConcat DEF Events, sae
  <2>5. sae \o ending = events
    BY DEF sae, sa, s, a
  <2>6. turn.instance # Root => Range(effect) = {}
    BY <1>30, NoRow
  <2> HIDE DEF events
  <2>7. \A e \in Range(events) :
          \/ e \in Range(s) \/ e \in Range(a) \/ e \in Range(effect) \/ e \in Range(ending)
    BY <2>2, <2>3, <2>4, <2>5 DEF sae, sa
  <2>8. turn.instance # Root => \A e \in Range(events) : e.kind # "CustomStatusUpdated"
    BY <2>1, <2>6, <2>7 DEF Final
  <2> QED BY <2>4, <2>5, <2>8, <2>10, <2>13
<1>5. Len(base) \in Nat
  BY <1>2 DEF Baseline, Listed
<1> HIDE DEF events, base
<1>6. /\ Listed(wrote) /\ DOMAIN wrote = DOMAIN events /\ Len(wrote) = Len(events)
      /\ \A x \in DOMAIN events :
           /\ wrote[x].id = Len(base) + x /\ wrote[x].epoch = turn.epoch
           /\ wrote[x].kind = events[x].kind /\ Event(wrote[x])
           /\ events[x].kind = "OrchestrationStarted" => wrote[x].status = events[x].status
  BY <1>4, NumberedFacts
<1> HIDE DEF wrote
<1>7. Len(wrote) \in Nat /\ DOMAIN wrote = 1..Len(wrote)
  BY <1>6 DEF Listed
<1>8. /\ Listed(failed) /\ DOMAIN failed = {1} /\ Len(failed) = 1
      /\ failed[1].id = Len(base) + Len(wrote) + 1 /\ failed[1].epoch = turn.epoch
      /\ Event(failed[1]) /\ failed[1].kind = "OrchestrationFailed"
  <2> DEFINE e == [kind |-> "OrchestrationFailed"]
  <2>1. Event(e) /\ e.kind = "OrchestrationFailed"
    BY DEF Event, EventKinds, Writes
  <2> HIDE DEF e
  <2>2. Listed(<<e>>) /\ Range(<<e>>) = {e}
    BY OneRow
  <2>3. Events(<<e>>) /\ DOMAIN <<e>> = {1} /\ Len(<<e>>) = 1
        /\ <<e>>[1].kind = "OrchestrationFailed"
    BY <2>1, <2>2 DEF Events
  <2>4. Events(failure) /\ DOMAIN failure = {1} /\ Len(failure) = 1
        /\ failure[1].kind = "OrchestrationFailed"
    BY <2>3 DEF e
  <2> DEFINE from == Len(base) + Len(wrote)
  <2> HIDE DEF failure, from
  <2>5. /\ Listed(Numbered(failure, from, turn.epoch))
        /\ DOMAIN Numbered(failure, from, turn.epoch) = DOMAIN failure
        /\ Len(Numbered(failure, from, turn.epoch)) = Len(failure)
        /\ \A x \in DOMAIN failure :
             /\ Numbered(failure, from, turn.epoch)[x].id = from + x
             /\ Numbered(failure, from, turn.epoch)[x].epoch = turn.epoch
             /\ Numbered(failure, from, turn.epoch)[x].kind = failure[x].kind
             /\ Event(Numbered(failure, from, turn.epoch)[x])
    BY <2>4, NumberedFacts
  <2> QED BY <2>4, <2>5 DEF from
<1> HIDE DEF failed
<1>9. /\ Listed(delta)
      /\ \A x \in DOMAIN delta :
           delta[x].id = Len(base) + x /\ delta[x].epoch = turn.epoch /\ Event(delta[x])
      /\ \A x \in DOMAIN delta :
           \/ x \in DOMAIN wrote /\ delta[x] = wrote[x]
           \/ delta[x].kind = "OrchestrationFailed"
      /\ Begins(base, delta, status)
  <2>10. Begins(base, wrote, status)
    BY <1>4, <1>6 DEF Begins
  <2>1. CASE ~over
    BY <2>1, <2>10, <1>6
  <2>2. CASE over
    <3>1. Listed(wrote \o failed)
      BY <1>6, <1>8, ConcatRows
    <3>10. Begins(base, wrote \o failed, status)
      <4>1. \A e \in Range(failed) : e.kind # "OrchestrationStarted"
        BY <1>8 DEF Range
      <4> QED BY <4>1, <2>10, <1>6, <1>8, BeginsConcat
    <3>2. /\ DOMAIN (wrote \o failed) = 1..(Len(wrote) + 1)
          /\ \A x \in 1..Len(wrote) : (wrote \o failed)[x] = wrote[x]
          /\ (wrote \o failed)[Len(wrote) + 1] = failed[1]
      <4> DEFINE S == Range(wrote) \cup Range(failed)
      <4>1. wrote \in Seq(S) /\ failed \in Seq(S)
        BY <1>6, <1>8 DEF Listed
      <4> HIDE DEF S
      <4>2. /\ DOMAIN (wrote \o failed) = 1..(Len(wrote) + Len(failed))
            /\ \A k \in 1..Len(wrote) : (wrote \o failed)[k] = wrote[k]
            /\ \A k \in 1..Len(failed) : (wrote \o failed)[Len(wrote) + k] = failed[k]
        BY <4>1, ConcatFacts
      <4> QED BY <4>2, <1>8
    <3>3. delta = wrote \o failed
      BY <2>2
    <3> HIDE DEF delta, over
    <3>4. \A x \in DOMAIN delta : x \in 1..Len(wrote) \/ x = Len(wrote) + 1
      BY <3>2, <3>3, <1>7
    <3>5. \A x \in DOMAIN wrote : x \in DOMAIN delta /\ delta[x] = wrote[x]
      BY <3>2, <3>3, <1>7
    <3>6. delta[Len(wrote) + 1].id = Len(base) + (Len(wrote) + 1)
      BY <3>2, <3>3, <1>5, <1>7, <1>8
    <3>7. \A x \in DOMAIN delta :
            delta[x].id = Len(base) + x /\ delta[x].epoch = turn.epoch /\ Event(delta[x])
      BY <3>2, <3>3, <3>4, <3>5, <3>6, <1>6, <1>7, <1>8
    <3>8. \A x \in DOMAIN delta :
            \/ x \in DOMAIN wrote /\ delta[x] = wrote[x]
            \/ delta[x].kind = "OrchestrationFailed"
      BY <3>2, <3>3, <3>4, <1>7, <1>8
    <3> QED BY <3>1, <3>3, <3>7, <3>8, <3>10
  <2> QED BY <2>1, <2>2
<1>10. Events(delta)
  BY <1>9 DEF Events, Range
<1>11. base = <<>> => \E e \in Range(delta) : e.kind = "OrchestrationStarted"
  <2> HIDE DEF delta
  <2> QED BY <1>9 DEF Begins, Range
<1>20. turn.instance # Root => \A x \in DOMAIN delta : delta[x].kind # "CustomStatusUpdated"
  <2> HIDE DEF delta
  <2> QED BY <1>4, <1>6, <1>9 DEF Range
<1>21. ~over => delta = wrote
  OBVIOUS
<1> HIDE DEF delta
<1>12. /\ metadata.status # Null =>
            /\ metadata.status \in {"Completed", "ContinuedAsNew", "Failed"}
            /\ \E x \in DOMAIN delta : delta[x].kind \in TerminalKinds
       /\ metadata.status = Null => ~Finished(delta)
       /\ base = <<>> => Named(metadata)
  BY <1>10, <1>11, MetadataFacts
<1>13. /\ Listed(workers)
       /\ \A x \in DOMAIN workers :
            workers[x].instance = turn.instance /\ workers[x].epoch = turn.epoch
  <2>1. Events(wrote)
    BY <1>6 DEF Events, Range
  <2> QED BY <2>1, WorkerItemsFacts, NoRow
<1>14. /\ Listed(items)
       /\ \A x \in DOMAIN items :
            /\ items[x].kind \in {"StartOrchestration", "ContinueAsNew", "SubOrchCompleted"}
            /\ Starts(items[x]) => items[x].instance \in Instance
            /\ items[x].kind = "StartOrchestration" =>
                 items[x].instance = Kid /\ items[x].status = Null
            /\ items[x].kind = "ContinueAsNew" =>
                 /\ items[x].instance = turn.instance
                 /\ items[x].status = AccumulatedStatus(base \o delta)
                 /\ Finished(delta)
  <2>1. CASE over
    <3>1. items = <<>>
      BY <2>1
    <3>2. DOMAIN <<>> = {}
      OBVIOUS
    <3> HIDE DEF items
    <3> QED BY <3>1, <3>2, NoRow
  <2>2. CASE ~over
    <3> DEFINE o == OrchestratorItems(turn, history[1].parent, wrote, history)
    <3>1. items = o /\ delta = wrote /\ history = base \o delta
      BY <2>2, <1>21
    <3> HIDE DEF history, items, over
    <3>2. /\ Listed(o)
          /\ \A x \in DOMAIN o :
               /\ o[x].kind \in {"StartOrchestration", "ContinueAsNew", "SubOrchCompleted"}
               /\ Starts(o[x]) => o[x].instance \in Instance
               /\ o[x].kind = "StartOrchestration" =>
                    o[x].instance = Kid /\ o[x].status = Null
               /\ o[x].kind = "ContinueAsNew" =>
                    /\ o[x].instance = turn.instance
                    /\ o[x].status = AccumulatedStatus(history)
                    /\ Says(wrote, {"OrchestrationContinuedAsNew"})
      BY <1>3, OrchestratorItemsFacts
    <3>3. Says(wrote, {"OrchestrationContinuedAsNew"}) => Finished(wrote)
      BY DEF Says, Finished, TerminalKinds
    <3> HIDE DEF o
    <3> QED BY <3>1, <3>2, <3>3
  <2> QED BY <2>1, <2>2
<1>15. execution \in {turn.execution_id, turn.execution_id + 1}
  BY DEF ExecutionToUse
<1>16. base # <<>> => /\ turn.history # <<>> /\ execution = turn.execution_id
                      /\ turn.kv_snapshot = begun[turn.instance]
  BY <1>1 DEF base, Baseline, ExecutionToUse, IInv, Core, TurnSnapshot
<1>17. first \in BOOLEAN /\ (first <=> base = <<>>)
  OBVIOUS
<1>18. \A x \in DOMAIN delta : delta[x].kind # "Unreadable"
  BY <1>9 DEF Event, EventKinds
<1>22. execution = ExecutionToUse(turn) /\ base = Baseline(turn)
  BY DEF base
<1> HIDE DEF workers, items, metadata, cancelled, first, execution
<1>19. TurnWrites(execution, delta, workers, items, metadata, first)
  <2>1. \E b \in Nat : \A x \in DOMAIN delta :
          /\ delta[x].id = b + x /\ delta[x].epoch = turn.epoch
          /\ delta[x].kind # "Unreadable"
    BY <1>5, <1>9, <1>18
  <2> QED BY <2>1, <1>3, <1>9, <1>12, <1>13, <1>14, <1>15, <1>16, <1>17 DEF TurnWrites
<1>23. TurnSays(execution, delta, items, metadata)
  <2>1. \A s : (\A m \in Range(turn.messages) : Starts(m) => m.status = s)
                => Begins(base, delta, s)
    BY <1>4, <1>9 DEF Begins
  <2>2. \A x \in DOMAIN delta : delta[x].id = Len(base) + x /\ Writes(delta[x])
    BY <1>9 DEF Event
  <2>3. metadata.status # Null <=> Finished(delta)
    BY <1>12 DEF Finished, Says, Range
  <2>4. metadata.status \in {Null, "Completed", "ContinuedAsNew", "Failed"}
    BY <1>12
  <2> QED BY <2>1, <2>2, <2>3, <2>4, <1>1, <1>9, <1>12, <1>14, <1>20, <1>22 DEF TurnSays
<1>24. TurnHands(execution, delta, workers, items, metadata, cancelled, first)
  BY <1>1, <1>19, <1>23 DEF TurnHands
<1> QED BY <1>17, <1>24

(* A turn and its ack. *)
LEMMA TurnRuns ==
    ASSUME IInv, NEW effect \in Effect, NEW ending \in Ending, RunTurn(effect, ending)
    PROVE  IInv'
<1>1. /\ turn # Null /\ turn' = Null
      /\ UNCHANGED <<worker, reader, admin, epoch>> /\ Watch
  BY DEF RunTurn
<1>2. PICK execution, delta, workers, items, metadata, cancelled, first :
        /\ first \in BOOLEAN
        /\ TurnHands(execution, delta, workers, items, metadata, cancelled, first)
  BY TurnMade
<1> QED BY <1>1, <1>2, TurnAcked DEF TurnHands

-----------------------------------------------------------------------------
(* The theorems.                                                           *)

(* Every step of the system keeps the invariant. *)
LEMMA StepKeeps == ASSUME IInv, Next PROVE IInv'
  BY ClientSends, ReadSteps, TurnFetched, LockGoes, TurnRuns, UnprocessedAcked,
     ActivityFetched, ActivityCompletes, AdminReads, DeletionCommits, PruningCommits
     DEF Next

(* Nothing changes in a step that stutters. *)
LEMMA StutterKeeps == ASSUME IInv, UNCHANGED vars PROVE IInv'
<1>1. UNCHANGED <<db, turn, worker, reader, admin, epoch, begun, seen>>
  BY DEF vars
<1>2. Core'
  BY <1>1, CoreStays DEF IInv
<1>3. PruneOk' /\ ReaderOk'
  BY <1>1 DEF IInv, PruneOk, ReaderOk
<1> QED BY <1>2, <1>3 DEF IInv

(* The inductive invariant. *)
THEOREM Invariant == Spec => []IInv
<1>1. IInv /\ [Next]_vars => IInv'
  BY StepKeeps, StutterKeeps
<1> QED BY InitCore, <1>1, PTL DEF Spec

(* Each turn of an execution is given the snapshot that its first turn was  *)
(* given, whatever has been written since.                                 *)
THEOREM SnapshotKeptHolds == Spec => []SnapshotKept
<1>1. IInv => SnapshotKept
  BY DEF IInv, Core, TurnSnapshot, SnapshotKept
<1> QED BY <1>1, Invariant, PTL

(* get_kv_value answers a value that the key had during the call. *)
THEOREM ReadIsLinearizableHolds == Spec => []ReadIsLinearizable
<1>1. IInv => ReadIsLinearizable
  BY DEF IInv, ReaderOk, ReadIsLinearizable
<1> QED BY <1>1, Invariant, PTL

(* Nothing of a deleted incarnation is stored for the next one. *)
THEOREM OneIncarnationHolds == Spec => []OneIncarnation
<1>1. IInv => OneIncarnation
  BY DEF IInv, Core, QueuesOk, HistoryOk, OneIncarnation
<1> QED BY <1>1, Invariant, PTL

(* A sub-orchestration is never without its parent. *)
THEOREM NoOrphanRowHolds == Spec => []NoOrphanRow
<1>1. IInv => NoOrphanRow
  BY DEF IInv, Core
<1> QED BY <1>1, Invariant, PTL

(* Pruning spares running executions, and the current one it has read. *)
THEOREM PruneSparesRunningHolds == Spec => PruneSparesRunning
<1>1. ASSUME IInv, PruneCommits, NEW e \in ExecutionIds(db, Root),
             \/ db.executions[<<Root, e>>].status = "Running"
             \/ e = admin.current /\ e = db.instances[Root].current_execution_id
      PROVE  e \in ExecutionIds(db', Root)
  <2> DEFINE ids == admin.ids
  <2>1. /\ db' = PruneTransaction(db, Root, ids).db
        /\ admin # Null /\ admin.op = "prune"
    BY <1>1 DEF PruneCommits
  <2>2. e \notin ids
    BY <1>1, <2>1 DEF IInv, PruneOk
  <2> HIDE DEF ids
  <2>3. db'.executions = Without(db.executions, {<<Root, x>> : x \in ids})
    <3>1. PrunedRows(db, db', Root, ids)
      BY <1>1, <2>1, PruneFacts DEF IInv, Core
    <3> QED BY <3>1 DEF PrunedRows
  <2>4. <<Root, e>> \in DOMAIN db.executions
    BY <1>1, ExecutionKey DEF IInv, Core
  <2>5. <<Root, e>> \in DOMAIN db'.executions
    BY <2>2, <2>3, <2>4 DEF Without
  <2>6. RowsOk(db')
    BY <1>1, PruningCommits DEF IInv, Core
  <2> QED BY <2>5, <2>6, ExecutionKey
<1>2. IInv /\ [Next]_vars =>
        [PruneCommits =>
           \A e \in ExecutionIds(db, Root) :
             \/ db.executions[<<Root, e>>].status = "Running"
             \/ e = admin.current /\ e = db.instances[Root].current_execution_id
             => e \in ExecutionIds(db', Root)]_vars
  BY <1>1
<1> QED BY <1>2, Invariant, PTL DEF Spec, PruneSparesRunning

-----------------------------------------------------------------------------
(* Counting and folding.                                                   *)

(* The states that a replay goes through, and those of kv_delta.           *)
ReplayRun(g, start, events) ==
  /\ DOMAIN g = 0..Len(events) /\ g[0] = start
  /\ \A n \in 1..Len(events) : g[n] = Apply(g[n - 1], events[n])

KvRun(g, store, start, events) ==
  /\ DOMAIN g = 0..Len(events) /\ g[0] = start
  /\ \A n \in 1..Len(events) : g[n] = Materialize(store, g[n - 1], events[n])

(* A replay goes through its states one event at a time. *)
LEMMA ReplayRuns ==
    ASSUME NEW start, NEW events, Len(events) \in Nat
    PROVE  \E g : ReplayRun(g, start, events) /\ g[Len(events)] = Replayed(start, events)
<1> DEFINE L == Len(events)
           G(g, l) == g = [n \in 0..l |-> IF n = 0 THEN start
                                          ELSE Apply(g[n - 1], events[n])]
           T == {l \in 0..L : \E g : G(g, l)}
<1>1. 0 \in T
  <2> DEFINE g == [n \in 0..0 |-> start]
  <2>1. G(g, 0)
    OBVIOUS
  <2>2. 0 \in 0..L
    OBVIOUS
  <2> QED BY <2>1, <2>2
<1>2. ASSUME NEW l \in 0..(L - 1), l \in T PROVE l + 1 \in T
  <2>1. PICK g : G(g, l)
    BY <1>2
  <2> DEFINE h == [n \in 0..(l + 1) |-> IF n = l + 1 THEN Apply(g[l], events[l + 1])
                                        ELSE g[n]]
  <2>2. \A n \in 0..l : g[n] = IF n = 0 THEN start ELSE Apply(g[n - 1], events[n])
    BY <2>1
  <2>3. \A n \in 0..(l + 1) :
          h[n] = IF n = 0 THEN start ELSE Apply(h[n - 1], events[n])
    <3> TAKE n \in 0..(l + 1)
    <3>1. CASE n = l + 1
      BY <3>1
    <3>2. CASE n \in 0..l
      BY <2>2, <3>2
    <3> QED BY <3>1, <3>2
  <2>4. h = [n \in 0..(l + 1) |-> h[n]]
    OBVIOUS
  <2> HIDE DEF h
  <2>5. G(h, l + 1)
    BY <2>3, <2>4
  <2>6. l + 1 \in 0..L
    OBVIOUS
  <2> QED BY <2>5, <2>6
<1> HIDE DEF T
<1>3. L \in T
  <2>1. L \in Nat /\ L \in 0..L
    OBVIOUS
  <2> HIDE DEF L
  <2>2. \A n \in 0..L : n \in T
    BY <1>1, <1>2, <2>1, CountUp
  <2> QED BY <2>1, <2>2
<1>4. PICK h : G(h, L)
  BY <1>3 DEF T
<1> DEFINE g == CHOOSE g : g = [n \in 0..Len(events) |->
                                  IF n = 0 THEN start ELSE Apply(g[n - 1], events[n])]
<1>5. Replayed(start, events) = g[L]
  BY DEF Replayed
<1>6. G(g, L)
  BY <1>4
<1> HIDE DEF g
<1>7. ReplayRun(g, start, events)
  BY <1>6 DEF ReplayRun
<1> QED BY <1>5, <1>7

(* The same of what a turn's events make of kv_delta. *)
LEMMA KvRuns ==
    ASSUME NEW store, NEW start, NEW events, Len(events) \in Nat
    PROVE  \E g : /\ KvRun(g, store, start, events)
                  /\ g[Len(events)] = Materialized(store, start, events)
<1> DEFINE L == Len(events)
           G(g, l) == g = [n \in 0..l |-> IF n = 0 THEN start
                                          ELSE Materialize(store, g[n - 1], events[n])]
           T == {l \in 0..L : \E g : G(g, l)}
<1>1. 0 \in T
  <2> DEFINE g == [n \in 0..0 |-> start]
  <2>1. G(g, 0)
    OBVIOUS
  <2>2. 0 \in 0..L
    OBVIOUS
  <2> QED BY <2>1, <2>2
<1>2. ASSUME NEW l \in 0..(L - 1), l \in T PROVE l + 1 \in T
  <2>1. PICK g : G(g, l)
    BY <1>2
  <2> DEFINE h == [n \in 0..(l + 1) |-> IF n = l + 1
                                        THEN Materialize(store, g[l], events[l + 1])
                                        ELSE g[n]]
  <2>2. \A n \in 0..l : g[n] = IF n = 0 THEN start
                               ELSE Materialize(store, g[n - 1], events[n])
    BY <2>1
  <2>3. \A n \in 0..(l + 1) :
          h[n] = IF n = 0 THEN start ELSE Materialize(store, h[n - 1], events[n])
    <3> TAKE n \in 0..(l + 1)
    <3>1. CASE n = l + 1
      BY <3>1
    <3>2. CASE n \in 0..l
      BY <2>2, <3>2
    <3> QED BY <3>1, <3>2
  <2>4. h = [n \in 0..(l + 1) |-> h[n]]
    OBVIOUS
  <2> HIDE DEF h
  <2>5. G(h, l + 1)
    BY <2>3, <2>4
  <2>6. l + 1 \in 0..L
    OBVIOUS
  <2> QED BY <2>5, <2>6
<1> HIDE DEF T
<1>3. L \in T
  <2>1. L \in Nat /\ L \in 0..L
    OBVIOUS
  <2> HIDE DEF L
  <2>2. \A n \in 0..L : n \in T
    BY <1>1, <1>2, <2>1, CountUp
  <2> QED BY <2>1, <2>2
<1>4. PICK h : G(h, L)
  BY <1>3 DEF T
<1> DEFINE g == CHOOSE g : g = [n \in 0..Len(events) |->
                                  IF n = 0 THEN start
                                  ELSE Materialize(store, g[n - 1], events[n])]
<1>5. Materialized(store, start, events) = g[L]
  BY DEF Materialized
<1>6. G(g, L)
  BY <1>4
<1> HIDE DEF g
<1>7. KvRun(g, store, start, events)
  BY <1>6 DEF KvRun
<1> QED BY <1>5, <1>7

(* There is one replay from a start. *)
LEMMA ReplayEnds ==
    ASSUME NEW start, NEW events, Len(events) \in Nat, NEW g, ReplayRun(g, start, events)
    PROVE  g[Len(events)] = Replayed(start, events)
<1>1. PICK h : ReplayRun(h, start, events) /\ h[Len(events)] = Replayed(start, events)
  BY ReplayRuns
<1> DEFINE L == Len(events)
           T == {n \in 0..L : g[n] = h[n]}
<1>2. 0 \in T
  BY <1>1 DEF ReplayRun
<1>3. ASSUME NEW n \in 0..(L - 1), n \in T PROVE n + 1 \in T
  <2>1. n + 1 \in 1..L /\ (n + 1) - 1 = n
    OBVIOUS
  <2>2. g[n + 1] = Apply(g[n], events[n + 1]) /\ h[n + 1] = Apply(h[n], events[n + 1])
    BY <2>1, <1>1 DEF ReplayRun
  <2> QED BY <2>1, <2>2, <1>3
<1> HIDE DEF T
<1>4. L \in T
  <2>1. L \in Nat /\ L \in 0..L
    OBVIOUS
  <2> HIDE DEF L
  <2>2. \A n \in 0..L : n \in T
    BY <1>2, <1>3, <2>1, CountUp
  <2> QED BY <2>1, <2>2
<1> QED BY <1>1, <1>4 DEF T

(* Events behind events are replayed after them. *)
LEMMA ReplayConcat ==
    ASSUME NEW start, NEW q, Listed(q), NEW p, Listed(p)
    PROVE  Replayed(start, q \o p) = Replayed(Replayed(start, q), p)
<1>1. /\ Len(q \o p) = Len(q) + Len(p) /\ Len(q) \in Nat /\ Len(p) \in Nat
      /\ \A k \in 1..Len(q) : (q \o p)[k] = q[k]
      /\ \A k \in (Len(q) + 1)..(Len(q) + Len(p)) : (q \o p)[k] = p[k - Len(q)]
  BY ConcatList
<1> DEFINE middle == Replayed(start, q)
           a == Len(q)
           b == Len(p)
<1>2. PICK g : ReplayRun(g, start, q) /\ g[a] = middle
  BY <1>1, ReplayRuns
<1> HIDE DEF middle
<1>3. PICK h : ReplayRun(h, middle, p) /\ h[b] = Replayed(middle, p)
  BY <1>1, ReplayRuns
<1> DEFINE f == [n \in 0..(a + b) |-> IF n <= a THEN g[n] ELSE h[n - a]]
           s == q \o p
<1>4. f[0] = start
  BY <1>1, <1>2 DEF ReplayRun
<1>5. ASSUME NEW n \in 1..(a + b) PROVE f[n] = Apply(f[n - 1], s[n])
  <2>1. CASE n <= a
    <3>1. g[n] = Apply(g[n - 1], q[n]) /\ s[n] = q[n]
      BY <2>1, <1>1, <1>2 DEF ReplayRun
    <3> QED BY <3>1, <2>1, <1>1
  <2>2. CASE n > a
    <3>1. n - a \in 1..b
      BY <2>2, <1>1
    <3>2. h[n - a] = Apply(h[(n - a) - 1], p[n - a])
      BY <3>1, <1>3 DEF ReplayRun
    <3>3. s[n] = p[n - a]
      BY <2>2, <1>1
    <3>4. f[n] = h[n - a]
      BY <2>2, <1>1
    <3>5. f[n - 1] = h[(n - a) - 1]
      <4>1. CASE n = a + 1
        BY <4>1, <1>1, <1>2, <1>3 DEF ReplayRun
      <4>2. CASE n > a + 1
        BY <4>2, <1>1
      <4> QED BY <4>1, <4>2, <2>2, <1>1
    <3> QED BY <3>2, <3>3, <3>4, <3>5
  <2> QED BY <2>1, <2>2, <1>1
<1>6. f[a + b] = h[b]
  BY <1>1, <1>2, <1>3 DEF ReplayRun
<1>7. DOMAIN f = 0..(a + b)
  OBVIOUS
<1> HIDE DEF f, s
<1>8. Len(s) = a + b
  BY <1>1 DEF s
<1>9. ReplayRun(f, start, s)
  BY <1>4, <1>5, <1>7, <1>8 DEF ReplayRun
<1>10. Len(s) \in Nat
  BY <1>1, <1>8
<1>11. f[Len(s)] = Replayed(start, s)
  BY <1>9, <1>10, ReplayEnds
<1> QED BY <1>3, <1>6, <1>8, <1>11 DEF s, middle

(* Replaying nothing. *)
LEMMA ReplayNothing ==
    ASSUME NEW start
    PROVE  Replayed(start, <<>>) = start
<1> DEFINE none == <<>>
<1>1. Len(none) = 0 /\ Len(none) \in Nat
  OBVIOUS
<1> HIDE DEF none
<1>2. PICK g : ReplayRun(g, start, none) /\ g[Len(none)] = Replayed(start, none)
  BY <1>1, ReplayRuns
<1>3. Replayed(start, none) = start
  BY <1>1, <1>2 DEF ReplayRun
<1> QED BY <1>3 DEF none

(* A turn without events leaves kv_delta as it was. *)
LEMMA NothingMaterialized ==
    ASSUME NEW store, NEW start
    PROVE  Materialized(store, start, <<>>) = start
<1> DEFINE none == <<>>
<1>1. Len(none) = 0 /\ Len(none) \in Nat
  OBVIOUS
<1> HIDE DEF none
<1>2. PICK g : /\ KvRun(g, store, start, none)
               /\ g[Len(none)] = Materialized(store, start, none)
  BY <1>1, KvRuns
<1>3. Materialized(store, start, none) = start
  BY <1>1, <1>2 DEF KvRun
<1> QED BY <1>3 DEF none

(* Tables map keys to values. *)
TableOk(table) == table = [k \in DOMAIN table |-> table[k]]

(* One event does to kv_delta what the replay of it does to the overlay. *)
LEMMA MaterializeApplies ==
    ASSUME NEW store, NEW delta, NEW event, Writes(event)
    PROVE  Apply(Merged(store, delta), event)
             = Merged(store, Materialize(store, delta, event))
<1> DEFINE m == Merged(store, delta)
           d == Materialize(store, delta, event)
           gone == {k \in DOMAIN delta : delta[k] = Null}
<1>1. /\ DOMAIN m = (DOMAIN store \cup DOMAIN delta) \ gone
      /\ \A k \in DOMAIN m : m[k] = IF k \in DOMAIN delta THEN delta[k] ELSE store[k]
      /\ m = [k \in DOMAIN m |-> m[k]]
  BY DEF Merged
<1> HIDE DEF m
<1>2. CASE event.kind = "KeyValueSet"
  <2>1. d = Put(delta, event.key, event.value) /\ event.value # Null
    BY <1>2 DEF Materialize, Writes
  <2> DEFINE a == Put(m, event.key, event.value)
             b == Merged(store, Put(delta, event.key, event.value))
  <2>2. DOMAIN a = DOMAIN m \cup {event.key} /\ a = [k \in DOMAIN a |-> a[k]]
    BY DEF Put
  <2>3. DOMAIN b = DOMAIN a /\ b = [k \in DOMAIN b |-> b[k]]
    BY <1>1, <2>1, <2>2 DEF Merged, Put
  <2>4. \A k \in DOMAIN a : a[k] = b[k]
    BY <1>1, <2>1, <2>2, <2>3 DEF Merged, Put
  <2> HIDE DEF a, b
  <2>5. a = b
    BY <2>2, <2>3, <2>4
  <2>6. Apply(m, event) = a
    BY <1>2 DEF Apply, a
  <2> QED BY <2>1, <2>5, <2>6 DEF b, m
<1>3. CASE event.kind = "KeyValueCleared"
  <2>1. d = Put(delta, event.key, Null)
    BY <1>3 DEF Materialize
  <2> DEFINE a == Without(m, {event.key})
             b == Merged(store, Put(delta, event.key, Null))
  <2>2. DOMAIN a = DOMAIN m \ {event.key} /\ a = [k \in DOMAIN a |-> a[k]]
    BY DEF Without
  <2>3. DOMAIN b = DOMAIN a /\ b = [k \in DOMAIN b |-> b[k]]
    BY <1>1, <2>1, <2>2 DEF Merged, Put
  <2>4. \A k \in DOMAIN a : a[k] = b[k]
    BY <1>1, <2>1, <2>2, <2>3 DEF Merged, Put, Without
  <2> HIDE DEF a, b
  <2>5. a = b
    BY <2>2, <2>3, <2>4
  <2>6. Apply(m, event) = a
    BY <1>3 DEF Apply, a
  <2> QED BY <2>1, <2>5, <2>6 DEF b, m
<1>4. CASE event.kind = "KeyValuesCleared"
  <2>1. d = [k \in DOMAIN delta \cup DOMAIN store |-> Null]
    BY <1>4 DEF Materialize
  <2>2. Merged(store, d) = [k \in {} |-> Null]
    BY <2>1 DEF Merged
  <2>3. Apply(m, event) = EmptyTable
    BY <1>4 DEF Apply
  <2>4. EmptyTable = [k \in {} |-> Null]
    BY DEF EmptyTable
  <2> QED BY <2>2, <2>3, <2>4 DEF m
<1>5. CASE event.kind \notin {"KeyValueSet", "KeyValueCleared", "KeyValuesCleared"}
  BY <1>5 DEF Apply, Materialize, m
<1> QED BY <1>2, <1>3, <1>4, <1>5

(* What a turn's events make of kv_delta overlays kv_store as their replay  *)
(* over the overlay does.                                                  *)
LEMMA MaterializedReplays ==
    ASSUME NEW store, NEW delta, NEW events, Listed(events),
           \A e \in Range(events) : Writes(e)
    PROVE  Replayed(Merged(store, delta), events)
             = Merged(store, Materialized(store, delta, events))
<1> DEFINE L == Len(events)
           m == Merged(store, delta)
<1>1. L \in Nat /\ DOMAIN events = 1..L
  BY DEF Listed
<1>2. PICK g : ReplayRun(g, m, events) /\ g[L] = Replayed(m, events)
  BY <1>1, ReplayRuns
<1>3. PICK h : KvRun(h, store, delta, events) /\ h[L] = Materialized(store, delta, events)
  BY <1>1, KvRuns
<1> DEFINE T == {n \in 0..L : g[n] = Merged(store, h[n])}
<1>4. 0 \in T
  BY <1>1, <1>2, <1>3 DEF ReplayRun, KvRun
<1>5. ASSUME NEW n \in 0..(L - 1), n \in T PROVE n + 1 \in T
  <2>1. n + 1 \in 1..L /\ (n + 1) - 1 = n
    BY <1>1
  <2>2. /\ g[n + 1] = Apply(g[n], events[n + 1])
        /\ h[n + 1] = Materialize(store, h[n], events[n + 1])
    BY <2>1, <1>2, <1>3 DEF ReplayRun, KvRun
  <2>3. Writes(events[n + 1])
    BY <2>1, <1>1 DEF Range
  <2>4. g[n] = Merged(store, h[n])
    BY <1>5
  <2>5. g[n + 1] = Merged(store, h[n + 1])
    BY <2>2, <2>3, <2>4, MaterializeApplies
  <2> QED BY <2>1, <2>5
<1> HIDE DEF T, L, m
<1>6. L \in T
  <2>1. \A n \in 0..L : n \in T
    BY <1>1, <1>4, <1>5, CountUp
  <2> QED BY <2>1, <1>1
<1> QED BY <1>2, <1>3, <1>6 DEF T, m

(* Nothing overlaid. *)
LEMMA MergedNothing ==
    ASSUME NEW table, TableOk(table)
    PROVE  Merged(table, EmptyTable) = table
<1>1. DOMAIN EmptyTable = {}
  BY DEF EmptyTable
<1>2. Merged(table, EmptyTable) = [k \in DOMAIN table |-> table[k]]
  BY <1>1 DEF Merged
<1> QED BY <1>2 DEF TableOk

(* Two tables agree about a key. *)
Agree(a, b, k) ==
  (k \in DOMAIN a <=> k \in DOMAIN b) /\ (k \in DOMAIN a => a[k] = b[k])

(* An event decides about a key, whatever was there, or leaves it alone. *)
LEMMA ApplyDecides ==
    ASSUME NEW event, NEW k
    PROVE  \/ \A a, b : Agree(Apply(a, event), Apply(b, event), k)
           \/ \A a : Agree(Apply(a, event), a, k)
<1>0. DOMAIN EmptyTable = {}
  BY DEF EmptyTable
<1>1. CASE event.kind = "KeyValueSet"
  <2>1. \A a : Apply(a, event) = Put(a, event.key, event.value)
    BY <1>1 DEF Apply
  <2>2. \A a, key, value : Agree(Put(a, key, value), a, k) \/ k = key
    BY DEF Put, Agree
  <2>3. \A a, b, value : Agree(Put(a, k, value), Put(b, k, value), k)
    BY DEF Put, Agree
  <2> QED BY <2>1, <2>2, <2>3
<1>2. CASE event.kind = "KeyValueCleared"
  <2>1. \A a : Apply(a, event) = Without(a, {event.key})
    BY <1>2 DEF Apply
  <2>2. \A a, key : Agree(Without(a, {key}), a, k) \/ k = key
    BY DEF Without, Agree
  <2>3. \A a, b : Agree(Without(a, {k}), Without(b, {k}), k)
    BY DEF Without, Agree
  <2> QED BY <2>1, <2>2, <2>3
<1>3. CASE event.kind = "KeyValuesCleared"
  <2>1. \A a : Apply(a, event) = EmptyTable
    BY <1>3 DEF Apply
  <2> QED BY <2>1 DEF Agree
<1>4. CASE event.kind \notin {"KeyValueSet", "KeyValueCleared", "KeyValuesCleared"}
  <2>1. \A a : Apply(a, event) = a
    BY <1>4 DEF Apply
  <2> QED BY <2>1 DEF Agree
<1> QED BY <1>1, <1>2, <1>3, <1>4

(* An event leaves a table. *)
LEMMA ApplyTable ==
    ASSUME NEW table, TableOk(table), NEW event
    PROVE  TableOk(Apply(table, event))
<1>1. TableOk(EmptyTable)
  BY DEF EmptyTable, TableOk
<1>2. TableOk(Put(table, event.key, event.value)) /\ TableOk(Without(table, {event.key}))
  BY DEF Put, Without, TableOk
<1> QED BY <1>1, <1>2 DEF Apply

(* Replayed over its own outcome a history changes nothing. *)
LEMMA ReplayAgain ==
    ASSUME NEW start, TableOk(start), NEW events, Listed(events)
    PROVE  /\ Replayed(Replayed(start, events), events) = Replayed(start, events)
           /\ TableOk(Replayed(start, events))
<1> DEFINE L == Len(events)
           end == Replayed(start, events)
<1>1. L \in Nat
  BY DEF Listed
<1>2. PICK g : ReplayRun(g, start, events) /\ g[L] = end
  BY <1>1, ReplayRuns
<1> HIDE DEF end
<1>3. PICK h : ReplayRun(h, end, events) /\ h[L] = Replayed(end, events)
  BY <1>1, ReplayRuns
<1>4. \A n \in 0..(L - 1) : /\ g[n + 1] = Apply(g[n], events[n + 1])
                            /\ h[n + 1] = Apply(h[n], events[n + 1])
  <2> TAKE n \in 0..(L - 1)
  <2>1. n + 1 \in 1..L /\ (n + 1) - 1 = n
    BY <1>1
  <2> QED BY <2>1, <1>2, <1>3 DEF ReplayRun
<1> DEFINE G == {n \in 0..L : TableOk(g[n])}
<1>5. TableOk(end)
  <2>1. 0 \in G
    BY <1>1, <1>2 DEF ReplayRun
  <2>2. ASSUME NEW n \in 0..(L - 1), n \in G PROVE n + 1 \in G
    BY <2>2, <1>1, <1>4, ApplyTable
  <2> HIDE DEF G, L
  <2>3. \A n \in 0..L : n \in G
    BY <2>1, <2>2, <1>1, CountUp
  <2>4. L \in G
    BY <2>3, <1>1
  <2> QED BY <2>4, <1>2 DEF G
<1> DEFINE H == {n \in 0..L : TableOk(h[n])}
<1>6. TableOk(h[L])
  <2>1. 0 \in H
    BY <1>1, <1>3, <1>5 DEF ReplayRun
  <2>2. ASSUME NEW n \in 0..(L - 1), n \in H PROVE n + 1 \in H
    BY <2>2, <1>1, <1>4, ApplyTable
  <2> HIDE DEF H, L
  <2>3. \A n \in 0..L : n \in H
    BY <2>1, <2>2, <1>1, CountUp
  <2>4. L \in H
    BY <2>3, <1>1
  <2> QED BY <2>4 DEF H
<1>7. ASSUME NEW k PROVE Agree(h[L], end, k)
  <2> DEFINE T == {n \in 0..L : \/ Agree(g[n], h[n], k)
                                \/ Agree(g[n], start, k) /\ Agree(h[n], end, k)}
  <2>1. 0 \in T
    BY <1>1, <1>2, <1>3 DEF ReplayRun, Agree
  <2>2. ASSUME NEW n \in 0..(L - 1), n \in T PROVE n + 1 \in T
    <3>1. n + 1 \in 0..L
      BY <1>1
    <3>2. CASE \A a, b : Agree(Apply(a, events[n + 1]), Apply(b, events[n + 1]), k)
      <4>1. Agree(g[n + 1], h[n + 1], k)
        BY <3>2, <1>4
      <4> QED BY <4>1, <3>1
    <3>3. CASE \A a : Agree(Apply(a, events[n + 1]), a, k)
      <4>1. Agree(g[n + 1], g[n], k) /\ Agree(h[n + 1], h[n], k)
        BY <3>3, <1>4
      <4>2. \/ Agree(g[n], h[n], k)
            \/ Agree(g[n], start, k) /\ Agree(h[n], end, k)
        BY <2>2
      <4>3. \/ Agree(g[n + 1], h[n + 1], k)
            \/ Agree(g[n + 1], start, k) /\ Agree(h[n + 1], end, k)
        BY <4>1, <4>2 DEF Agree
      <4> QED BY <4>3, <3>1
    <3> QED BY <3>2, <3>3, ApplyDecides
  <2> HIDE DEF T, L
  <2>3. \A n \in 0..L : n \in T
    BY <2>1, <2>2, <1>1, CountUp
  <2>4. L \in T
    BY <2>3, <1>1
  <2>5. \/ Agree(g[L], h[L], k)
        \/ Agree(g[L], start, k) /\ Agree(h[L], end, k)
    BY <2>4 DEF T
  <2> QED BY <2>5, <1>2 DEF Agree
<1>8. h[L] = end
  <2> DEFINE last == h[L]
  <2>1. TableOk(last) /\ TableOk(end) /\ \A k : Agree(last, end, k)
    BY <1>5, <1>6, <1>7
  <2> HIDE DEF last
  <2>2. DOMAIN last = DOMAIN end /\ \A k \in DOMAIN last : last[k] = end[k]
    BY <2>1 DEF Agree
  <2>3. last = [k \in DOMAIN last |-> last[k]] /\ end = [k \in DOMAIN end |-> end[k]]
    BY <2>1 DEF TableOk
  <2>4. last = end
    BY <2>2, <2>3
  <2> QED BY <2>4 DEF last
<1> QED BY <1>3, <1>5, <1>8 DEF end

-----------------------------------------------------------------------------
(* The custom status of a history.                                         *)

(* The events that decide about the status. *)
Decides(e) ==
  \/ e.kind = "OrchestrationStarted" /\ e.status # Null
  \/ e.kind = "CustomStatusUpdated"

(* The status of a history is that of the last event that decides. *)
LEMMA AccumulatedFacts ==
    ASSUME NEW q, Listed(q)
    PROVE  /\ (\A x \in DOMAIN q : ~Decides(q[x])) => AccumulatedStatus(q) = Null
           /\ \A m \in DOMAIN q :
                Decides(q[m]) /\ (\A n \in DOMAIN q : Decides(q[n]) => n <= m)
                  => AccumulatedStatus(q) = q[m].status
<1> DEFINE K == {x \in DOMAIN q : \/ q[x].kind = "OrchestrationStarted" /\ q[x].status # Null
                                  \/ q[x].kind = "CustomStatusUpdated"}
<1>1. AccumulatedStatus(q) = IF Pick(q, K) = <<>> THEN Null ELSE Last(Pick(q, K)).status
  BY DEF AccumulatedStatus, Filtered
<1>2. \A x \in DOMAIN q : x \in K <=> Decides(q[x])
  BY DEF Decides
<1>3. K \in SUBSET DOMAIN q
  OBVIOUS
<1> HIDE DEF K
<1>4. /\ Pick(q, K) = <<>> <=> K = {}
      /\ \A m \in K : (\A n \in K : n <= m) => Last(Pick(q, K)) = q[m]
  BY <1>3, LastPicked
<1> QED BY <1>1, <1>2, <1>3, <1>4

(* The status that a turn's events leave is that of the last of them that   *)
(* sets one.                                                               *)
LEMMA AfterFacts ==
    ASSUME NEW old, NEW q, Listed(q)
    PROVE  /\ (\A x \in DOMAIN q : q[x].kind # "CustomStatusUpdated")
                => StatusAfter(old, q) = old
           /\ \A m \in DOMAIN q :
                /\ q[m].kind = "CustomStatusUpdated"
                /\ \A n \in DOMAIN q : q[n].kind = "CustomStatusUpdated" => n <= m
                => StatusAfter(old, q) = q[m].status
<1> DEFINE K == {x \in DOMAIN q : q[x].kind = "CustomStatusUpdated"}
<1>1. StatusAfter(old, q) = IF Pick(q, K) = <<>> THEN old ELSE Last(Pick(q, K)).status
  BY DEF StatusAfter, Filtered
<1>2. \A x \in DOMAIN q : x \in K <=> q[x].kind = "CustomStatusUpdated"
  OBVIOUS
<1>3. K \in SUBSET DOMAIN q
  OBVIOUS
<1> HIDE DEF K
<1>4. /\ Pick(q, K) = <<>> <=> K = {}
      /\ \A m \in K : (\A n \in K : n <= m) => Last(Pick(q, K)) = q[m]
  BY <1>3, LastPicked
<1> QED BY <1>1, <1>2, <1>3, <1>4

(* What the ack of a turn makes of the status is what the history says. *)
LEMMA StatusFollows ==
    ASSUME NEW base, Listed(base), NEW delta, Listed(delta), NEW old,
           Begins(base, delta, old), base # <<>> => old = AccumulatedStatus(base)
    PROVE  StatusAfter(old, delta) = AccumulatedStatus(base \o delta)
<1> DEFINE s == base \o delta
           a == Len(base)
           b == Len(delta)
<1>1. /\ Listed(s) /\ a \in Nat /\ b \in Nat /\ DOMAIN s = 1..(a + b)
      /\ DOMAIN base = 1..a /\ DOMAIN delta = 1..b
      /\ \A k \in 1..a : s[k] = base[k]
      /\ \A k \in (a + 1)..(a + b) : s[k] = delta[k - a]
  BY ConcatList
<1>2. base = <<>> => a = 0
  OBVIOUS
<1>20. \A x \in 1..b : a + x \in (a + 1)..(a + b) /\ s[a + x] = delta[x]
  <2> TAKE x \in 1..b
  <2>1. a + x \in (a + 1)..(a + b) /\ (a + x) - a = x
    BY <1>1
  <2> QED BY <2>1, <1>1
<1> DEFINE U == {x \in DOMAIN delta : delta[x].kind = "CustomStatusUpdated"}
<1> HIDE DEF s, a, b
<1>3. CASE U # {}
  <2>1. PICK m \in U : \A n \in U : n <= m
    <3>1. U \in SUBSET (1..b)
      BY <1>1
    <3> HIDE DEF U
    <3> QED BY <3>1, <1>1, <1>3, LastExists
  <2>2. /\ m \in 1..b /\ delta[m].kind = "CustomStatusUpdated"
        /\ \A n \in 1..b : delta[n].kind = "CustomStatusUpdated" => n <= m
    BY <2>1, <1>1
  <2>3. StatusAfter(old, delta) = delta[m].status
    <3>1. /\ m \in DOMAIN delta /\ delta[m].kind = "CustomStatusUpdated"
          /\ \A n \in DOMAIN delta : delta[n].kind = "CustomStatusUpdated" => n <= m
      BY <2>2, <1>1
    <3> QED BY <3>1, AfterFacts
  <2>4. a + m \in DOMAIN s /\ s[a + m] = delta[m] /\ Decides(s[a + m])
    BY <2>2, <1>1, <1>20 DEF Decides
  <2>5. ASSUME NEW n \in DOMAIN s, Decides(s[n]) PROVE n <= a + m
    <3> SUFFICES ASSUME n > a + m PROVE FALSE
      BY <2>2, <1>1
    <3>1. n - a \in 1..b /\ n \in (a + 1)..(a + b) /\ n - a > m
      <4>1. a \in Nat /\ b \in Nat /\ m \in Nat /\ m >= 1 /\ n \in 1..(a + b)
        BY <2>2, <1>1
      <4>2. n \in Nat /\ n > a + m
        BY <4>1
      <4> QED BY <4>1, <4>2
    <3>2. Decides(delta[n - a])
      BY <3>1, <1>1, <2>5
    <3>3. delta[n - a].kind = "OrchestrationStarted"
      BY <3>1, <3>2, <2>2 DEF Decides
    <3>4. n - a = 1
      BY <3>1, <3>3, <1>1 DEF Begins
    <3> QED BY <3>1, <3>4, <2>2, <1>1
  <2>6. AccumulatedStatus(s) = s[a + m].status
    BY <2>4, <2>5, <1>1, AccumulatedFacts
  <2> QED BY <2>3, <2>4, <2>6 DEF s
<1>4. CASE U = {}
  <2>1. \A x \in 1..b : delta[x].kind # "CustomStatusUpdated"
    BY <1>1, <1>4
  <2>2. StatusAfter(old, delta) = old
    BY <2>1, <1>1, AfterFacts
  <2>3. CASE base = <<>>
    <3>1. /\ 1 \in 1..b /\ delta[1].kind = "OrchestrationStarted" /\ delta[1].status = old
          /\ a = 0
      BY <2>3, <1>1, <1>2 DEF Begins
    <3>2. \A n \in 1..b : s[n] = delta[n] /\ n \in DOMAIN s
      BY <3>1, <1>1
    <3>3. DOMAIN s = 1..b
      BY <3>1, <1>1
    <3>4. \A n \in 1..b : Decides(delta[n]) => n = 1
      BY <2>1, <1>1 DEF Begins, Decides
    <3>5. CASE old = Null
      <4>1. \A n \in DOMAIN s : ~Decides(s[n])
        BY <3>1, <3>2, <3>3, <3>4, <3>5 DEF Decides
      <4>2. AccumulatedStatus(s) = Null
        BY <4>1, <1>1, AccumulatedFacts
      <4> QED BY <4>2, <2>2, <3>5 DEF s
    <3>6. CASE old # Null
      <4>1. 1 \in DOMAIN s /\ Decides(s[1]) /\ s[1].status = old
        BY <3>1, <3>2, <3>6 DEF Decides
      <4>2. \A n \in DOMAIN s : Decides(s[n]) => n <= 1
        BY <3>2, <3>3, <3>4
      <4>3. AccumulatedStatus(s) = s[1].status
        BY <4>1, <4>2, <1>1, AccumulatedFacts
      <4> QED BY <4>1, <4>3, <2>2 DEF s
    <3> QED BY <3>5, <3>6
  <2>4. CASE base # <<>>
    <3>1. \A n \in DOMAIN s : Decides(s[n]) => n \in 1..a /\ Decides(base[n])
      <4> SUFFICES ASSUME NEW n \in DOMAIN s, Decides(s[n])
                   PROVE  n \in 1..a /\ Decides(base[n])
        OBVIOUS
      <4>1. CASE n \in 1..a
        BY <4>1, <1>1
      <4>2. CASE n \in (a + 1)..(a + b)
        <5>1. n - a \in 1..b /\ Decides(delta[n - a])
          BY <4>2, <1>1
        <5>2. delta[n - a].kind = "OrchestrationStarted"
          BY <5>1, <2>1 DEF Decides
        <5> QED BY <5>1, <5>2, <2>4, <1>1 DEF Begins
      <4> QED BY <4>1, <4>2, <1>1
    <3>2. \A n \in 1..a : n \in DOMAIN s /\ s[n] = base[n]
      BY <1>1
    <3> DEFINE V == {x \in 1..a : Decides(base[x])}
    <3>3. CASE V = {}
      <4>1. AccumulatedStatus(base) = Null
        BY <3>3, <1>1, AccumulatedFacts
      <4>2. \A n \in DOMAIN s : ~Decides(s[n])
        BY <3>1, <3>3
      <4>3. AccumulatedStatus(s) = Null
        BY <4>2, <1>1, AccumulatedFacts
      <4> QED BY <4>1, <4>3, <2>2, <2>4 DEF s
    <3>4. CASE V # {}
      <4>1. PICK m \in V : \A n \in V : n <= m
        <5>1. V \in SUBSET (1..a)
          OBVIOUS
        <5> HIDE DEF V
        <5> QED BY <5>1, <3>4, <1>1, LastExists
      <4>2. m \in 1..a /\ Decides(base[m]) /\ \A n \in 1..a : Decides(base[n]) => n <= m
        BY <4>1
      <4>3. AccumulatedStatus(base) = base[m].status
        BY <4>2, <1>1, AccumulatedFacts
      <4>4. AccumulatedStatus(s) = s[m].status
        BY <4>2, <3>1, <3>2, <1>1, AccumulatedFacts
      <4> QED BY <4>2, <4>3, <4>4, <3>2, <2>2, <2>4 DEF s
    <3> QED BY <3>3, <3>4
  <2> QED BY <2>3, <2>4
<1> QED BY <1>3, <1>4

-----------------------------------------------------------------------------
(* The history of an execution.                                            *)

(* The events of an execution are numbered from 1. *)
Dense(d, i, e) ==
  \E n \in Nat : {h.event.id : h \in HistoryOf(d, i, e)} = 1..n

(* Then an event's number is its place. *)
LEMMA DenseEvents ==
    ASSUME NEW d, IdsOk(d), NEW i, NEW e, NEW n \in Nat,
           {h.event.id : h \in HistoryOf(d, i, e)} = 1..n
    PROVE  LET events == EventsOf(d, i, e)
           IN  /\ Listed(events) /\ Len(events) = n /\ DOMAIN events = 1..n
               /\ \A h \in HistoryOf(d, i, e) : events[h.event.id] = h.event
               /\ events = [k \in 1..n |-> events[k]]
<1> DEFINE rows == HistoryOf(d, i, e)
           ids == {h.event.id : h \in rows}
           s == [k \in ids |-> (CHOOSE h \in rows : h.event.id = k).event]
           events == EventsOf(d, i, e)
<1>1. events = Pick(s, ids)
  BY DEF EventsOf, InOrder
<1>2. \A h \in rows : s[h.event.id] = h.event
  <2>1. \A g, h \in rows : g.event.id = h.event.id => g = h
    BY DEF HistoryOf, IdsOk
  <2> HIDE DEF rows
  <2> QED BY <2>1
<1>3. ids = 1..n /\ DOMAIN s = ids
  OBVIOUS
<1> HIDE DEF rows, ids
<1>4. s = [k \in 1..n |-> s[k]]
  BY <1>3
<1> HIDE DEF s
<1>5. Listed(s) /\ s \in Seq(Range(s)) /\ Len(s) = n
  BY <1>4, MappedRows DEF Listed
<1>6. Pick(s, DOMAIN s) = s
  BY <1>5, PickAll
<1>7. events = s
  BY <1>1, <1>3, <1>6
<1> HIDE DEF events
<1>8. DOMAIN events = 1..n
  BY <1>3, <1>7
<1> QED BY <1>2, <1>4, <1>5, <1>7, <1>8 DEF events, rows

(* The rows that an ack appends. *)
NewRows(i, execution, delta) ==
  {[instance |-> i, execution |-> execution, event |-> delta[x]] : x \in DOMAIN delta}

(* Events appended to an execution come after those it has. *)
LEMMA AppendedEvents ==
    ASSUME NEW d, IdsOk(d), NEW e, IdsOk(e), NEW i, NEW execution, NEW delta, Listed(delta),
           Range(e.history) = Range(d.history) \cup NewRows(i, execution, delta),
           Dense(d, i, execution),
           \A x \in DOMAIN delta : delta[x].id = Len(EventsOf(d, i, execution)) + x
    PROVE  /\ EventsOf(e, i, execution) = EventsOf(d, i, execution) \o delta
           /\ Dense(e, i, execution)
<1> DEFINE base == EventsOf(d, i, execution)
           all == EventsOf(e, i, execution)
           old == HistoryOf(d, i, execution)
           new == HistoryOf(e, i, execution)
           b == Len(delta)
<1>1. PICK n \in Nat : {h.event.id : h \in old} = 1..n
  BY DEF Dense
<1>2. /\ Listed(base) /\ Len(base) = n /\ DOMAIN base = 1..n
      /\ \A h \in old : base[h.event.id] = h.event
  BY <1>1, DenseEvents
<1>3. b \in Nat /\ DOMAIN delta = 1..b
  BY DEF Listed
<1>4. \A h \in NewRows(i, execution, delta) :
        /\ h.instance = i /\ h.execution = execution
        /\ \E x \in DOMAIN delta : h.event = delta[x]
  BY DEF NewRows
<1>5. new = old \cup NewRows(i, execution, delta)
  BY <1>4 DEF HistoryOf
<1>6. \A x \in DOMAIN delta : \E h \in NewRows(i, execution, delta) : h.event = delta[x]
  <2> TAKE x \in DOMAIN delta
  <2> DEFINE h == [instance |-> i, execution |-> execution, event |-> delta[x]]
  <2>1. h \in NewRows(i, execution, delta) /\ h.event = delta[x]
    BY DEF NewRows
  <2> QED BY <2>1
<1> DEFINE ids == {h.event.id : h \in new}
<1>7. ids = 1..(n + b)
  <2>1. \A h \in new : h.event.id \in 1..(n + b)
    <3> TAKE h \in new
    <3>1. CASE h \in old
      <4>1. h.event.id \in 1..n
        BY <3>1, <1>1
      <4> QED BY <4>1, <1>3
    <3>2. CASE h \in NewRows(i, execution, delta)
      <4>1. PICK x \in DOMAIN delta : h.event = delta[x]
        BY <3>2, <1>4
      <4>2. h.event.id = n + x
        BY <4>1, <1>2
      <4> QED BY <4>2, <1>3
    <3> QED BY <3>1, <3>2, <1>5
  <2>2. \A k \in 1..(n + b) : \E h \in new : h.event.id = k
    <3> TAKE k \in 1..(n + b)
    <3>1. CASE k \in 1..n
      BY <3>1, <1>1, <1>5
    <3>2. CASE k \in (n + 1)..(n + b)
      <4>1. k - n \in 1..b
        BY <3>2, <1>3
      <4>2. PICK h \in NewRows(i, execution, delta) : h.event = delta[k - n]
        BY <4>1, <1>3, <1>6
      <4>3. h.event.id = n + (k - n)
        BY <4>1, <4>2, <1>2, <1>3
      <4> QED BY <4>2, <4>3, <1>5, <3>2
    <3> QED BY <3>1, <3>2, <1>3
  <2> HIDE DEF new
  <2> QED BY <2>1, <2>2
<1>8. n + b \in Nat
  BY <1>3
<1>9. Dense(e, i, execution)
  BY <1>7, <1>8 DEF Dense
<1>10. /\ Listed(all) /\ DOMAIN all = 1..(n + b)
       /\ \A h \in new : all[h.event.id] = h.event
       /\ all = [k \in 1..(n + b) |-> all[k]]
  BY <1>7, <1>8, DenseEvents
<1> HIDE DEF base, all, old, new, ids
<1> DEFINE s == base \o delta
<1>11. /\ Listed(s) /\ DOMAIN s = 1..(n + b) /\ Len(s) = n + b
       /\ \A k \in 1..n : s[k] = base[k]
       /\ \A k \in (n + 1)..(n + b) : s[k] = delta[k - n]
  BY <1>2, ConcatList
<1> HIDE DEF s
<1>12. s = [k \in 1..(n + b) |-> s[k]]
  BY <1>11, <1>8 DEF Listed
<1>13. ASSUME NEW k \in 1..(n + b) PROVE all[k] = s[k]
  <2>1. CASE k \in 1..n
    <3>1. PICK h \in old : h.event.id = k
      BY <2>1, <1>1 DEF old
    <3>2. base[k] = h.event /\ all[k] = h.event
      BY <3>1, <1>2, <1>5, <1>10
    <3> QED BY <3>2, <2>1, <1>11
  <2>2. CASE k \in (n + 1)..(n + b)
    <3>1. k - n \in 1..b
      BY <2>2, <1>3
    <3>2. PICK h \in NewRows(i, execution, delta) : h.event = delta[k - n]
      BY <3>1, <1>3, <1>6
    <3>3. h.event.id = n + (k - n)
      BY <3>1, <3>2, <1>2, <1>3 DEF base
    <3>4. h.event.id = k
      BY <3>3, <2>2, <1>1
    <3>5. h \in new
      BY <1>5
    <3>6. all[k] = delta[k - n]
      BY <3>2, <3>4, <3>5, <1>10
    <3> QED BY <3>6, <2>2, <1>11
  <2> QED BY <2>1, <2>2, <1>3
<1>14. all = s
  BY <1>10, <1>12, <1>13
<1> QED BY <1>9, <1>14 DEF all, s, base

-----------------------------------------------------------------------------
(* What clients see: the second invariant. It ties the columns that clients *)
(* read to the history of the current execution.                           *)

(* The tables of values are functions of keys. *)
TablesOk == \A i \in DOMAIN db.kv_store : TableOk(db.kv_store[i])

(* No execution is later than the current one. *)
NoneLater ==
  \A h \in Range(db.history) :
    /\ h.execution \in Nat
    /\ h.execution <= db.instances[h.instance].current_execution_id

(* The events of each execution are numbered without a gap. *)
HistoryDense == \A i, e : Dense(db, i, e)

(* An execution that has ended has an event that says so. *)
EndsWritten ==
  \A x \in DOMAIN db.executions :
    db.executions[x].status # "Running" =>
      \E h \in HistoryOf(db, x[1], x[2]) : h.event.kind \in TerminalKinds

(* Only an execution that is going on overlays kv_store. *)
OverlayOpen ==
  \A i : \/ Of(db.kv_delta, i) = EmptyTable
         \/ /\ i \in DOMAIN db.instances
            /\ CurrentEvents(i) # <<>> /\ ~Finished(CurrentEvents(i))

(* The sub-orchestration sets no status. *)
KidPlain == Polled(db, Kid) = Null

DataOk ==
  /\ TablesOk /\ NoneLater /\ HistoryDense /\ EndsWritten /\ OverlayOpen /\ KidPlain
  /\ StatusIsAccumulated /\ ClientSeesReplay

(* No message waits for its time. *)
Timely ==
  /\ db.now \in Nat
  /\ \A r \in Range(db.orchestrator_queue) : r.visible_at <= db.now

(* A message that starts an execution carries the status of its instance;   *)
(* the one that continues comes after the end of the execution.            *)
StartsCarry ==
  \A r \in Range(db.orchestrator_queue) :
    /\ Starts(r.item) => r.item.status = Polled(db, r.item.instance)
    /\ r.item.kind = "ContinueAsNew" =>
         /\ r.item.instance \in DOMAIN db.instances
         /\ CurrentEvents(r.item.instance) = <<>> \/ Finished(CurrentEvents(r.item.instance))

(* A turn that holds its lock: its history is the one stored, unless that   *)
(* was pruned; its messages are in the queue, and so is no other start.    *)
TurnCurrent ==
  turn # Null =>
    /\ Continues(turn) # <<>> => turn.history = <<>> \/ Finished(turn.history)
    /\ \A i \in LockedBy(db, turn.lock_token) :
         /\ i \in DOMAIN db.instances =>
              \/ turn.history = CurrentEvents(i)
              \/ Finished(turn.history) /\ CurrentEvents(i) = <<>>
         /\ Continues(turn) # <<>> => i \in DOMAIN db.instances
         /\ \A m \in Range(turn.messages) : Starts(m) => m.status = Polled(db, i)
         /\ \E r \in Range(db.orchestrator_queue) : r.item.instance = i
         /\ \A r \in Range(db.orchestrator_queue) :
              Starts(r.item) /\ r.item.instance = i => r.lock_token = turn.lock_token

MessagesOk == Timely /\ StartsCarry /\ TurnCurrent

SeenInv == DataOk /\ MessagesOk

(* The second invariant holds of the empty database. *)
LEMMA InitSeen == Init => SeenInv
<1> SUFFICES ASSUME Init PROVE SeenInv
  OBVIOUS
<1> USE DEF Init, EmptyDb, EmptyTable
<1>1. DOMAIN <<>> = {} /\ Range(<<>>) = {}
  BY DEF Range
<1>2. HistoryDense
  <2>1. \A i, e : HistoryOf(db, i, e) = {}
    BY <1>1 DEF HistoryOf
  <2>2. {} = 1..0 /\ 0 \in Nat
    OBVIOUS
  <2>3. \A i, e : {h.event.id : h \in HistoryOf(db, i, e)} = {}
    BY <2>1
  <2> QED BY <2>2, <2>3 DEF HistoryDense, Dense
<1>3. TablesOk /\ NoneLater /\ EndsWritten /\ OverlayOpen /\ KidPlain
  BY <1>1 DEF TablesOk, NoneLater, EndsWritten, OverlayOpen, KidPlain, Polled, Of
<1>4. StatusIsAccumulated /\ ClientSeesReplay
  BY <1>1 DEF StatusIsAccumulated, ClientSeesReplay
<1>5. Timely /\ StartsCarry /\ TurnCurrent
  BY <1>1 DEF Timely, StartsCarry, TurnCurrent
<1> QED BY <1>2, <1>3, <1>4, <1>5 DEF SeenInv, DataOk, MessagesOk

(* What clients see stays while the tables of the data do. *)
LEMMA DataStays ==
    ASSUME DataOk, db'.instances = db.instances, db'.executions = db.executions,
           db'.history = db.history, db'.kv_store = db.kv_store,
           db'.kv_delta = db.kv_delta
    PROVE  /\ DataOk'
           /\ \A i : CurrentEvents(i)' = CurrentEvents(i)
<1>1. /\ \A i, e : HistoryOf(db', i, e) = HistoryOf(db, i, e)
      /\ \A i, e : EventsOf(db', i, e) = EventsOf(db, i, e)
  BY DEF HistoryOf, EventsOf
<1>2. /\ \A i : CurrentEvents(i)' = CurrentEvents(i)
      /\ \A i : Polled(db', i) = Polled(db, i) /\ View(db', i) = View(db, i)
  BY <1>1 DEF CurrentEvents, Polled, View
<1>3. TablesOk' /\ NoneLater' /\ EndsWritten' /\ OverlayOpen' /\ KidPlain'
  BY <1>1, <1>2 DEF DataOk, TablesOk, NoneLater, EndsWritten, OverlayOpen, KidPlain
<1>4. HistoryDense'
  <2>1. ASSUME NEW i, NEW e PROVE Dense(db', i, e)
    <3>1. HistoryOf(db', i, e) = HistoryOf(db, i, e)
      BY <1>1
    <3>2. Dense(db, i, e)
      BY DEF DataOk, HistoryDense
    <3> QED BY <3>1, <3>2 DEF Dense
  <2> QED BY <2>1 DEF HistoryDense
<1>5. StatusIsAccumulated' /\ ClientSeesReplay'
  BY <1>2 DEF DataOk, StatusIsAccumulated, ClientSeesReplay, Pruned
<1> QED BY <1>2, <1>3, <1>4, <1>5 DEF DataOk

(* New messages that start nothing, and locks that go, leave the turn and   *)
(* the messages in the queue in order.                                     *)
LEMMA MessagesStay ==
    ASSUME SeenInv, db'.instances = db.instances, db'.executions = db.executions,
           db'.history = db.history, db'.kv_store = db.kv_store,
           db'.kv_delta = db.kv_delta, db'.now = db.now, turn' = turn,
           \A token : LockedBy(db', token) \subseteq LockedBy(db, token),
           Range(db.orchestrator_queue) \subseteq Range(db'.orchestrator_queue),
           \A r \in Range(db'.orchestrator_queue) :
             \/ r \in Range(db.orchestrator_queue)
             \/ ~Starts(r.item) /\ r.visible_at <= db.now
    PROVE  SeenInv'
<1>1. DataOk' /\ \A i : CurrentEvents(i)' = CurrentEvents(i)
  BY DataStays DEF SeenInv
<1>2. \A i : Polled(db', i) = Polled(db, i)
  BY DEF Polled
<1>3. Timely'
  BY DEF SeenInv, MessagesOk, Timely
<1>4. StartsCarry'
  BY <1>1, <1>2 DEF SeenInv, MessagesOk, StartsCarry, Starts
<1>5. TurnCurrent'
  <2> SUFFICES ASSUME turn # Null PROVE TurnCurrent'
    BY DEF TurnCurrent
  <2>1. Continues(turn) # <<>> => turn.history = <<>> \/ Finished(turn.history)
    BY DEF SeenInv, MessagesOk, TurnCurrent
  <2>2. ASSUME NEW i \in LockedBy(db', turn.lock_token)
        PROVE  /\ i \in DOMAIN db.instances =>
                    \/ turn.history = CurrentEvents(i)
                    \/ Finished(turn.history) /\ CurrentEvents(i) = <<>>
               /\ Continues(turn) # <<>> => i \in DOMAIN db.instances
               /\ \A m \in Range(turn.messages) : Starts(m) => m.status = Polled(db, i)
               /\ \E r \in Range(db'.orchestrator_queue) : r.item.instance = i
               /\ \A r \in Range(db'.orchestrator_queue) :
                    Starts(r.item) /\ r.item.instance = i => r.lock_token = turn.lock_token
    <3>1. i \in LockedBy(db, turn.lock_token)
      OBVIOUS
    <3> QED BY <3>1 DEF SeenInv, MessagesOk, TurnCurrent
  <2> QED BY <2>1, <2>2, <1>1, <1>2 DEF TurnCurrent
<1> QED BY <1>1, <1>3, <1>4, <1>5 DEF SeenInv, MessagesOk

(* A selection that is not empty has selected something. *)
LEMMA PickedSome ==
    ASSUME NEW q, Listed(q), NEW K \in SUBSET DOMAIN q, Pick(q, K) # <<>>
    PROVE  \E k \in K : q[k] \in Range(q)
<1>1. K # {}
  BY LastPicked
<1> QED BY <1>1 DEF Range

(* The steps that change nothing of what clients see. *)
LEMMA SeenStays ==
    ASSUME IInv, SeenInv,
           \/ (\E k \in Key : ReadKvDelta(k)) \/ ReadKvStore \/ ReadReturns
           \/ (\E force \in BOOLEAN : DeleteBegins(force)) \/ BulkSelects
           \/ ReadTree \/ CheckStatus \/ PruneSelects
           \/ (\E n \in {Null, 1} : PruneBegins([KeepsAll EXCEPT !.keep_last = n]))
           \/ UNCHANGED vars
    PROVE  SeenInv'
<1>1. db' = db /\ turn' = turn
  BY DEF ReadKvDelta, ReadKvStore, ReadReturns, DeleteBegins, BulkSelects, ReadTree,
         CheckStatus, PruneBegins, PruneSelects, vars
<1> QED BY <1>1, MessagesStay DEF SeenInv, MessagesOk, Timely, LockedBy

(* A lock that expires. *)
LEMMA SeenLockGoes ==
    ASSUME IInv, SeenInv, NEW i \in Instance, LockExpires(i) PROVE SeenInv'
<1>1. /\ db' = [db EXCEPT !.instance_locks = Without(@, {i})]
      /\ turn' = turn
  BY DEF LockExpires
<1>2. /\ Only(db, db', {"instance_locks"})
      /\ db'.instance_locks = Without(db.instance_locks, {i})
  BY <1>1 DEF IInv, Core, IsDb, Only, DbFields
<1>3. /\ db'.instances = db.instances /\ db'.executions = db.executions
      /\ db'.history = db.history /\ db'.orchestrator_queue = db.orchestrator_queue
      /\ db'.kv_store = db.kv_store /\ db'.kv_delta = db.kv_delta /\ db'.now = db.now
  BY <1>2 DEF Only, DbFields
<1>4. /\ DOMAIN db'.instance_locks \subseteq DOMAIN db.instance_locks
      /\ \A j \in DOMAIN db'.instance_locks : db'.instance_locks[j] = db.instance_locks[j]
  BY <1>2 DEF Without
<1>5. \A token : LockedBy(db', token) \subseteq LockedBy(db, token)
  BY <1>4 DEF LockedBy
<1> QED BY <1>1, <1>3, <1>5, MessagesStay

(* A fetched activity. *)
LEMMA SeenActivityFetched == ASSUME IInv, SeenInv, FetchActivity PROVE SeenInv'
<1> DEFINE filter == [mode |-> "DefaultOnly", tags |-> {}]
           r == fetch_work_item(db, 1, Null, filter)
<1>1. r.ans.some /\ db' = r.db /\ turn' = turn
  BY DEF FetchActivity
<1> HIDE DEF filter
<1>2. FetchedWork(db, r)
  BY <1>1, FetchWorkFacts DEF IInv, Core
<1> HIDE DEF r
<1>3. /\ db'.instances = db.instances /\ db'.executions = db.executions
      /\ db'.history = db.history /\ db'.orchestrator_queue = db.orchestrator_queue
      /\ db'.kv_store = db.kv_store /\ db'.kv_delta = db.kv_delta /\ db'.now = db.now
      /\ db'.instance_locks = db.instance_locks
  BY <1>1, <1>2 DEF FetchedWork, Only, DbFields
<1> QED BY <1>1, <1>3, MessagesStay DEF LockedBy

(* A completed activity. *)
LEMMA SeenActivityCompletes == ASSUME IInv, SeenInv, CompleteActivity PROVE SeenInv'
<1> DEFINE done == [kind |-> "ActivityCompleted", instance |-> worker.item.instance,
                    id |-> worker.item.id, epoch |-> worker.item.epoch]
           e == ack_work_item(db, worker.lock_token, done).db
<1>1. db' = e /\ turn' = turn
  BY DEF CompleteActivity
<1>2. done.kind = "ActivityCompleted"
  OBVIOUS
<1> HIDE DEF done
<1>3. e = db \/ AckedWork(db, e, worker.lock_token, done)
  BY <1>2, AckWorkFacts DEF IInv, Core
<1> HIDE DEF e
<1>4. CASE e = db
  BY <1>1, <1>4, MessagesStay DEF SeenInv, MessagesOk, Timely, LockedBy
<1>5. CASE AckedWork(db, e, worker.lock_token, done)
  <2>1. /\ db'.instances = db.instances /\ db'.executions = db.executions
        /\ db'.history = db.history /\ db'.instance_locks = db.instance_locks
        /\ db'.kv_store = db.kv_store /\ db'.kv_delta = db.kv_delta /\ db'.now = db.now
        /\ Range(db.orchestrator_queue) \subseteq Range(db'.orchestrator_queue)
    BY <1>1, <1>5 DEF AckedWork, Only, DbFields
  <2>2. \A r \in Range(db'.orchestrator_queue) :
          \/ r \in Range(db.orchestrator_queue)
          \/ r.item = done /\ r.visible_at = db.now + 0
    BY <1>1, <1>5 DEF AckedWork
  <2>3. ~Starts(done) /\ db.now + 0 <= db.now
    BY <1>2 DEF Starts, SeenInv, MessagesOk, Timely
  <2> QED BY <1>1, <2>1, <2>2, <2>3, MessagesStay DEF LockedBy
<1> QED BY <1>3, <1>4, <1>5

(* A client raises an event. *)
LEMMA SeenEventRaised == ASSUME IInv, SeenInv, RaiseEvent PROVE SeenInv'
<1> DEFINE item == [kind |-> "ExternalRaised", instance |-> Root, epoch |-> epoch[Root]]
           row == OrchestratorRow(item, db.now + 0)
           e == enqueue_for_orchestrator(db, item, 0).db
<1>1. db' = e /\ turn' = turn
  BY DEF RaiseEvent
<1>2. item.kind = "ExternalRaised"
  OBVIOUS
<1> HIDE DEF item
<1>3. /\ Only(db, e, {"orchestrator_queue"})
      /\ Range(e.orchestrator_queue) = Range(db.orchestrator_queue) \cup {row}
  BY <1>2, MessageSent DEF IInv, Core, IsOrchestratorItem
<1>4. row.item = item /\ row.visible_at = db.now + 0
  BY DEF OrchestratorRow
<1> HIDE DEF row, e
<1>5. /\ db'.instances = db.instances /\ db'.executions = db.executions
      /\ db'.history = db.history /\ db'.instance_locks = db.instance_locks
      /\ db'.kv_store = db.kv_store /\ db'.kv_delta = db.kv_delta /\ db'.now = db.now
  BY <1>1, <1>3 DEF Only, DbFields
<1>6. ~Starts(row.item) /\ row.visible_at <= db.now
  BY <1>2, <1>4 DEF Starts, SeenInv, MessagesOk, Timely
<1> QED BY <1>1, <1>3, <1>5, <1>6, MessagesStay DEF LockedBy

(* A client starts the root, which is not there and has no messages.       *)
LEMMA SeenRootStarted == ASSUME IInv, SeenInv, StartRoot PROVE SeenInv'
<1> DEFINE item == StartItem(Root, Null)
           row == OrchestratorRow(item, db.now + 0)
           e == enqueue_for_orchestrator(db, item, 0).db
<1>1. /\ db' = e /\ turn' = turn /\ Root \notin DOMAIN db.instances
      /\ \A r \in Range(db.orchestrator_queue) : r.item.instance # Root
  BY DEF StartRoot
<1>2. /\ item.kind = "StartOrchestration" /\ item.instance = Root /\ item.status = Null
  BY DEF StartItem
<1> HIDE DEF item
<1>3. /\ Only(db, e, {"orchestrator_queue"})
      /\ Range(e.orchestrator_queue) = Range(db.orchestrator_queue) \cup {row}
  BY <1>2, MessageSent DEF IInv, Core, IsOrchestratorItem
<1>4. row.item = item /\ row.visible_at = db.now + 0
  BY DEF OrchestratorRow
<1> HIDE DEF row, e
<1>5. /\ db'.instances = db.instances /\ db'.executions = db.executions
      /\ db'.history = db.history /\ db'.instance_locks = db.instance_locks
      /\ db'.kv_store = db.kv_store /\ db'.kv_delta = db.kv_delta /\ db'.now = db.now
  BY <1>1, <1>3 DEF Only, DbFields
<1>6. DataOk' /\ \A i : CurrentEvents(i)' = CurrentEvents(i)
  BY <1>5, DataStays DEF SeenInv
<1>7. /\ \A i : Polled(db', i) = Polled(db, i)
      /\ \A token : LockedBy(db', token) = LockedBy(db, token)
  BY <1>5 DEF Polled, LockedBy
<1>8. Timely'
  BY <1>1, <1>3, <1>4, <1>5 DEF SeenInv, MessagesOk, Timely
<1>9. StartsCarry'
  <2>1. row.item.status = Polled(db, row.item.instance)
    BY <1>1, <1>2, <1>4 DEF Polled
  <2>2. row.item.kind # "ContinueAsNew"
    BY <1>2, <1>4
  <2> QED BY <2>1, <2>2, <1>1, <1>3, <1>5, <1>6, <1>7 DEF SeenInv, MessagesOk, StartsCarry
<1>10. TurnCurrent'
  <2> SUFFICES ASSUME turn # Null PROVE TurnCurrent'
    BY <1>1 DEF TurnCurrent
  <2>1. \A i \in LockedBy(db, turn.lock_token) : i # Root
    BY <1>1 DEF SeenInv, MessagesOk, TurnCurrent
  <2>2. \A i \in LockedBy(db, turn.lock_token) :
          /\ \E r \in Range(db'.orchestrator_queue) : r.item.instance = i
          /\ \A r \in Range(db'.orchestrator_queue) :
               Starts(r.item) /\ r.item.instance = i => r.lock_token = turn.lock_token
    BY <2>1, <1>1, <1>2, <1>3, <1>4 DEF SeenInv, MessagesOk, TurnCurrent
  <2> QED BY <2>2, <1>1, <1>5, <1>6, <1>7 DEF SeenInv, MessagesOk, TurnCurrent
<1> QED BY <1>6, <1>8, <1>9, <1>10 DEF SeenInv, MessagesOk

(* A fetched turn: everything that starts its instance is among its         *)
(* messages, and its history is the one stored.                            *)
LEMMA SeenTurnFetched == ASSUME IInv, SeenInv, FetchTurn PROVE SeenInv'
<1> DEFINE r == fetch_orchestration_item(db, 1, Null)
<1>1. /\ r.ans.some /\ db' = r.db
      /\ turn' = Extended(r.ans, [epoch |-> epoch[r.ans.instance]])
  BY DEF FetchTurn
<1>2. PICK i : FetchedTurn(db, r, i)
  <2>1. \A h \in Range(db.history) : h.instance \in DOMAIN db.instances
    BY DEF IInv, Core, HistoryOk
  <2> QED BY <1>1, <2>1, FetchFacts DEF IInv, Core
<1> HIDE DEF r
<1>3. i \in DOMAIN db.instances => r.ans.history = CurrentEvents(i)
  BY <1>2, TurnGiven DEF IInv, CurrentEvents
<1>4. /\ DOMAIN r.ans = ItemFields /\ r.ans.lock_token = r.db.tokens
      /\ MessagesOf(db, r.ans, i) /\ Locked(db, r.db, i)
      /\ \E q \in Range(db.orchestrator_queue) : q.item.instance = i
  BY <1>2 DEF FetchedTurn
<1>5. /\ turn'.lock_token = r.ans.lock_token
      /\ turn'.history = r.ans.history /\ turn'.messages = r.ans.messages
  BY <1>1, <1>4 DEF Extended, ItemFields
<1>6. /\ db'.instances = db.instances /\ db'.executions = db.executions
      /\ db'.history = db.history /\ db'.now = db.now
      /\ db'.kv_store = db.kv_store /\ db'.kv_delta = db.kv_delta
      /\ db'.tokens = db.tokens + 1 /\ db.tokens \in Nat
  BY <1>1, <1>4 DEF Locked, Only, DbFields, IInv, Core, TokensOk
<1>7. DataOk' /\ \A j : CurrentEvents(j)' = CurrentEvents(j)
  BY <1>6, DataStays DEF SeenInv
<1>8. \A j : Polled(db', j) = Polled(db, j)
  BY <1>6 DEF Polled
<1>9. /\ \A p \in Range(db'.orchestrator_queue) :
           \E q \in Range(db.orchestrator_queue) :
             /\ p.item = q.item /\ p.visible_at = q.visible_at
             /\ p.item.instance = i /\ p.visible_at <= db.now => p.lock_token = db'.tokens
      /\ \A q \in Range(db.orchestrator_queue) :
           \E p \in Range(db'.orchestrator_queue) : p.item = q.item
  BY <1>1, <1>4 DEF Locked
<1>10. \A j \in LockedBy(db', turn'.lock_token) : j = i
  <2>1. \A j \in DOMAIN db.instance_locks : db.instance_locks[j].lock_token # db.tokens + 1
    BY <1>6 DEF IInv, Core, TokensOk
  <2>2. turn'.lock_token = db.tokens + 1
    BY <1>1, <1>4, <1>5, <1>6
  <2>3. /\ DOMAIN db'.instance_locks = DOMAIN db.instance_locks \cup {i}
        /\ \A j \in DOMAIN db.instance_locks :
             j # i => db'.instance_locks[j] = db.instance_locks[j]
    BY <1>1, <1>4 DEF Locked
  <2> QED BY <2>1, <2>2, <2>3 DEF LockedBy
<1>11. Timely'
  BY <1>6, <1>9 DEF SeenInv, MessagesOk, Timely
<1>12. StartsCarry'
  BY <1>6, <1>7, <1>8, <1>9 DEF SeenInv, MessagesOk, StartsCarry
<1>13. TurnCurrent'
  <2>1. \A m \in Range(turn'.messages) :
          m.instance = i /\ \E q \in Range(db.orchestrator_queue) : m = q.item
    BY <1>4, <1>5 DEF MessagesOf
  <2>2. Continues(turn') # <<>> =>
          /\ i \in DOMAIN db.instances
          /\ CurrentEvents(i) = <<>> \/ Finished(CurrentEvents(i))
    <3> DEFINE K == {x \in DOMAIN turn'.messages : turn'.messages[x].kind = "ContinueAsNew"}
    <3>1. Listed(turn'.messages)
      BY <1>4, <1>5 DEF MessagesOf
    <3>2. Continues(turn') = Pick(turn'.messages, K)
      BY DEF Continues, Filtered
    <3> SUFFICES ASSUME Pick(turn'.messages, K) # <<>>
                 PROVE  /\ i \in DOMAIN db.instances
                        /\ CurrentEvents(i) = <<>> \/ Finished(CurrentEvents(i))
      BY <3>2
    <3>3. PICK k \in K : turn'.messages[k] \in Range(turn'.messages)
      <4>1. K \in SUBSET DOMAIN turn'.messages
        OBVIOUS
      <4> HIDE DEF K
      <4> QED BY <4>1, <3>1, PickedSome
    <3>4. turn'.messages[k].kind = "ContinueAsNew"
      OBVIOUS
    <3>5. PICK q \in Range(db.orchestrator_queue) : turn'.messages[k] = q.item
      BY <3>3, <2>1
    <3> QED BY <3>3, <3>4, <3>5, <2>1 DEF SeenInv, MessagesOk, StartsCarry
  <2>3. Continues(turn') # <<>> => turn'.history = <<>> \/ Finished(turn'.history)
    BY <2>2, <1>3, <1>5
  <2>4. \A m \in Range(turn'.messages) : Starts(m) => m.status = Polled(db, i)
    BY <2>1 DEF SeenInv, MessagesOk, StartsCarry
  <2>5. \E p \in Range(db'.orchestrator_queue) : p.item.instance = i
    BY <1>4, <1>9
  <2>6. \A p \in Range(db'.orchestrator_queue) :
          Starts(p.item) /\ p.item.instance = i => p.lock_token = turn'.lock_token
    BY <1>1, <1>4, <1>5, <1>9 DEF SeenInv, MessagesOk, Timely
  <2> QED BY <2>2, <2>3, <2>4, <2>5, <2>6, <1>3, <1>5, <1>6, <1>7, <1>8, <1>10
          DEF TurnCurrent
<1> QED BY <1>7, <1>11, <1>12, <1>13 DEF SeenInv, MessagesOk

(* An execution that has ended says so to whoever reads its history. *)
LEMMA EndedIsFinished ==
    ASSUME Core, DataOk, NEW x \in DOMAIN db.executions,
           db.executions[x].status # "Running"
    PROVE  Finished(EventsOf(db, x[1], x[2]))
<1>1. PICK h \in HistoryOf(db, x[1], x[2]) : h.event.kind \in TerminalKinds
  BY DEF DataOk, EndsWritten
<1>2. h.event \in Range(EventsOf(db, x[1], x[2]))
  BY EventsFacts DEF Core
<1> QED BY <1>1, <1>2 DEF Finished, Says

(* A deletion that commits. *)
LEMMA SeenDeletionCommits == ASSUME IInv, SeenInv, DeleteCommits PROVE SeenInv'
<1> DEFINE ids == admin.ids
           r == DeleteTransaction(db, ids)
<1>1. db' = r.db /\ turn' = turn
  BY DEF DeleteCommits
<1> HIDE DEF ids
<1>2. r.db = db \/ Deleted(db, r.db, ids)
  <2>1. CASE WouldOrphan(db, ids)
    BY <2>1 DEF DeleteTransaction, Refused, Reply
  <2>2. CASE ~WouldOrphan(db, ids)
    BY <2>2, DeleteFacts, DeletedOk DEF DeleteTransaction, Reply, IInv, Core
  <2> QED BY <2>1, <2>2
<1> HIDE DEF r
<1>3. CASE r.db = db
  BY <1>1, <1>3, MessagesStay DEF SeenInv, MessagesOk, Timely, LockedBy
<1>4. CASE Deleted(db, r.db, ids)
  <2>1. /\ db'.now = db.now
        /\ db'.instances = Without(db.instances, ids)
        /\ db'.executions =
             Without(db.executions, {x \in DOMAIN db.executions : x[1] \in ids})
        /\ db'.instance_locks = Without(db.instance_locks, ids)
        /\ db'.kv_store = Without(db.kv_store, ids)
        /\ db'.kv_delta = Without(db.kv_delta, ids)
        /\ Range(db'.history) = {h \in Range(db.history) : h.instance \notin ids}
        /\ Range(db'.orchestrator_queue) =
             {q \in Range(db.orchestrator_queue) : q.item.instance \notin ids}
    BY <1>1, <1>4 DEF Deleted
  <2>2. /\ DOMAIN db'.instances = DOMAIN db.instances \ ids
        /\ \A i \in DOMAIN db'.instances : db'.instances[i] = db.instances[i]
        /\ \A x \in DOMAIN db'.executions :
             x \in DOMAIN db.executions /\ x[1] \notin ids
        /\ \A x \in DOMAIN db'.executions : db'.executions[x] = db.executions[x]
        /\ DOMAIN db'.instance_locks = DOMAIN db.instance_locks \ ids
        /\ \A i \in DOMAIN db'.instance_locks :
             db'.instance_locks[i] = db.instance_locks[i]
    BY <2>1 DEF Without
  <2>3. /\ \A i : i \notin ids => /\ Of(db'.kv_store, i) = Of(db.kv_store, i)
                                  /\ Of(db'.kv_delta, i) = Of(db.kv_delta, i)
        /\ \A i : i \in ids => Of(db'.kv_delta, i) = EmptyTable
        /\ DOMAIN db'.kv_store \subseteq DOMAIN db.kv_store
        /\ \A i \in DOMAIN db'.kv_store : db'.kv_store[i] = db.kv_store[i]
    BY <2>1 DEF Of, Without
  <2>4. /\ \A i, e : i \notin ids => HistoryOf(db', i, e) = HistoryOf(db, i, e)
        /\ \A i, e : i \in ids => HistoryOf(db', i, e) = {}
    BY <2>1 DEF HistoryOf
  <2>5. \A i, e : i \notin ids => EventsOf(db', i, e) = EventsOf(db, i, e)
    BY <2>4 DEF EventsOf
  <2>6. \A i : i \in DOMAIN db.instances /\ i \notin ids =>
          i \in DOMAIN db'.instances /\ CurrentEvents(i)' = CurrentEvents(i)
    BY <2>2, <2>5 DEF CurrentEvents
  <2>7. /\ \A i : i \notin ids => Polled(db', i) = Polled(db, i)
        /\ \A i : i \in ids => Polled(db', i) = Null
        /\ \A i : i \notin ids => View(db', i) = View(db, i)
    BY <2>2, <2>3 DEF Polled, View
  <2>8. TablesOk' /\ KidPlain'
    BY <2>3, <2>7 DEF SeenInv, DataOk, TablesOk, KidPlain
  <2>9. NoneLater'
    <3> SUFFICES ASSUME NEW h \in Range(db.history), h.instance \notin ids
                 PROVE  /\ h.execution \in Nat
                        /\ h.execution <= db'.instances[h.instance].current_execution_id
      BY <2>1 DEF NoneLater
    <3>1. h.instance \in DOMAIN db'.instances
      BY <2>2 DEF IInv, Core, HistoryOk
    <3> QED BY <3>1, <2>2 DEF SeenInv, DataOk, NoneLater
  <2>10. HistoryDense'
    <3>1. ASSUME NEW i, NEW e, i \notin ids PROVE Dense(db', i, e)
      <4>1. HistoryOf(db', i, e) = HistoryOf(db, i, e)
        BY <2>4, <3>1
      <4>2. Dense(db, i, e)
        BY DEF SeenInv, DataOk, HistoryDense
      <4> QED BY <4>1, <4>2 DEF Dense
    <3>2. ASSUME NEW i, NEW e, i \in ids PROVE Dense(db', i, e)
      <4>1. {h.event.id : h \in HistoryOf(db', i, e)} = {}
        BY <2>4, <3>2
      <4>2. {} = 1..0 /\ 0 \in Nat
        OBVIOUS
      <4> QED BY <4>1, <4>2 DEF Dense
    <3> QED BY <3>1, <3>2 DEF HistoryDense
  <2>11. EndsWritten'
    <3> SUFFICES ASSUME NEW x \in DOMAIN db'.executions,
                        db'.executions[x].status # "Running"
                 PROVE  \E h \in HistoryOf(db', x[1], x[2]) : h.event.kind \in TerminalKinds
      BY DEF EndsWritten
    <3>1. HistoryOf(db', x[1], x[2]) = HistoryOf(db, x[1], x[2])
      BY <2>2, <2>4
    <3> QED BY <3>1, <2>2 DEF SeenInv, DataOk, EndsWritten
  <2>12. OverlayOpen'
    <3> SUFFICES ASSUME NEW i, Of(db'.kv_delta, i) # EmptyTable
                 PROVE  /\ i \in DOMAIN db'.instances
                        /\ CurrentEvents(i)' # <<>> /\ ~Finished(CurrentEvents(i)')
      BY DEF OverlayOpen
    <3>1. i \notin ids
      BY <2>3
    <3> QED BY <3>1, <2>3, <2>6 DEF SeenInv, DataOk, OverlayOpen
  <2>13. StatusIsAccumulated' /\ ClientSeesReplay'
    BY <2>2, <2>3, <2>6, <2>7
       DEF SeenInv, DataOk, StatusIsAccumulated, ClientSeesReplay, Pruned
  <2>14. Timely'
    BY <2>1 DEF SeenInv, MessagesOk, Timely
  <2>15. StartsCarry'
    BY <2>1, <2>6, <2>7 DEF SeenInv, MessagesOk, StartsCarry
  <2>16. TurnCurrent'
    <3> SUFFICES ASSUME turn # Null PROVE TurnCurrent'
      BY <1>1 DEF TurnCurrent
    <3>1. Continues(turn) # <<>> => turn.history = <<>> \/ Finished(turn.history)
      BY DEF SeenInv, MessagesOk, TurnCurrent
    <3>2. \A i \in LockedBy(db', turn.lock_token) :
            i \in LockedBy(db, turn.lock_token) /\ i \notin ids
      BY <2>2 DEF LockedBy
    <3>3. ASSUME NEW i \in LockedBy(db', turn.lock_token)
          PROVE  /\ i \in DOMAIN db'.instances =>
                      \/ turn.history = CurrentEvents(i)'
                      \/ Finished(turn.history) /\ CurrentEvents(i)' = <<>>
                 /\ Continues(turn) # <<>> => i \in DOMAIN db'.instances
                 /\ \A m \in Range(turn.messages) :
                      Starts(m) => m.status = Polled(db', i)
                 /\ \E q \in Range(db'.orchestrator_queue) : q.item.instance = i
                 /\ \A q \in Range(db'.orchestrator_queue) :
                      Starts(q.item) /\ q.item.instance = i =>
                        q.lock_token = turn.lock_token
      <4>1. i \in LockedBy(db, turn.lock_token) /\ i \notin ids
        BY <3>2
      <4> QED BY <4>1, <2>1, <2>2, <2>6, <2>7 DEF SeenInv, MessagesOk, TurnCurrent
    <3> QED BY <3>1, <3>3, <1>1 DEF TurnCurrent
  <2> QED BY <2>8, <2>9, <2>10, <2>11, <2>12, <2>13, <2>14, <2>15, <2>16
          DEF SeenInv, DataOk, MessagesOk
<1> QED BY <1>2, <1>3, <1>4

(* A pruning that commits: an execution that it removes has ended, and the  *)
(* overlay of its instance went into kv_store then.                        *)
LEMMA SeenPruningCommits == ASSUME IInv, SeenInv, PruneCommits PROVE SeenInv'
<1> DEFINE ids == admin.ids
           e == PruneTransaction(db, Root, ids).db
<1>1. db' = e /\ turn' = turn
  BY DEF PruneCommits
<1>2. \A x \in ids : /\ <<Root, x>> \in DOMAIN db.executions
                     /\ db.executions[<<Root, x>>].status # "Running"
  BY DEF PruneCommits, IInv, PruneOk
<1> HIDE DEF ids
<1>3. PrunedRows(db, e, Root, ids)
  BY PruneFacts DEF IInv, Core
<1> HIDE DEF e
<1>4. /\ db'.instances = db.instances /\ db'.now = db.now
      /\ db'.instance_locks = db.instance_locks
      /\ db'.kv_store = db.kv_store /\ db'.kv_delta = db.kv_delta
      /\ db'.orchestrator_queue = db.orchestrator_queue
      /\ db'.executions = Without(db.executions, {<<Root, x>> : x \in ids})
      /\ Range(db'.history) =
           {h \in Range(db.history) : ~(h.instance = Root /\ h.execution \in ids)}
  BY <1>1, <1>3 DEF PrunedRows, DbFields
<1>5. /\ \A i, x : ~(i = Root /\ x \in ids) => HistoryOf(db', i, x) = HistoryOf(db, i, x)
      /\ \A x \in ids : HistoryOf(db', Root, x) = {}
  BY <1>4 DEF HistoryOf
<1>6. /\ \A i, x : ~(i = Root /\ x \in ids) => EventsOf(db', i, x) = EventsOf(db, i, x)
      /\ \A x \in ids : EventsOf(db', Root, x) = <<>>
  BY <1>5, NothingFiltered DEF EventsOf
<1>7. \A x \in ids : Finished(EventsOf(db, Root, x))
  <2> TAKE x \in ids
  <2> DEFINE key == <<Root, x>>
  <2>1. /\ key \in DOMAIN db.executions /\ db.executions[key].status # "Running"
        /\ key[1] = Root /\ key[2] = x
    BY <1>2
  <2> HIDE DEF key
  <2>2. Finished(EventsOf(db, key[1], key[2]))
    BY <2>1, EndedIsFinished DEF IInv, SeenInv
  <2> QED BY <2>1, <2>2
<1>8. \A i : \/ CurrentEvents(i)' = CurrentEvents(i)
             \/ CurrentEvents(i)' = <<>> /\ Finished(CurrentEvents(i))
  BY <1>4, <1>6, <1>7 DEF CurrentEvents
<1>9. \A i : Polled(db', i) = Polled(db, i) /\ View(db', i) = View(db, i)
  BY <1>4 DEF Polled, View
<1>10. TablesOk' /\ KidPlain' /\ Timely'
  BY <1>4, <1>9 DEF SeenInv, DataOk, MessagesOk, TablesOk, KidPlain, Timely
<1>11. NoneLater'
  BY <1>4 DEF SeenInv, DataOk, NoneLater
<1>12. HistoryDense'
  <2>1. ASSUME NEW i, NEW x, ~(i = Root /\ x \in ids) PROVE Dense(db', i, x)
    <3>1. HistoryOf(db', i, x) = HistoryOf(db, i, x)
      BY <1>5, <2>1
    <3>2. Dense(db, i, x)
      BY DEF SeenInv, DataOk, HistoryDense
    <3> QED BY <3>1, <3>2 DEF Dense
  <2>2. ASSUME NEW x \in ids PROVE Dense(db', Root, x)
    <3>1. {h.event.id : h \in HistoryOf(db', Root, x)} = {}
      BY <1>5
    <3>2. {} = 1..0 /\ 0 \in Nat
      OBVIOUS
    <3> QED BY <3>1, <3>2 DEF Dense
  <2> QED BY <2>1, <2>2 DEF HistoryDense
<1>13. EndsWritten'
  <2> SUFFICES ASSUME NEW x \in DOMAIN db'.executions, db'.executions[x].status # "Running"
               PROVE  \E h \in HistoryOf(db', x[1], x[2]) : h.event.kind \in TerminalKinds
    BY DEF EndsWritten
  <2>1. /\ x \in DOMAIN db.executions /\ db'.executions[x] = db.executions[x]
        /\ x \notin {<<Root, y>> : y \in ids}
    BY <1>4 DEF Without
  <2>2. x = <<x[1], x[2]>>
    BY <2>1 DEF IInv, Core, RowsOk
  <2>3. ~(x[1] = Root /\ x[2] \in ids)
    BY <2>1, <2>2
  <2> QED BY <2>1, <2>3, <1>5 DEF SeenInv, DataOk, EndsWritten
<1>14. OverlayOpen'
  BY <1>4, <1>8 DEF SeenInv, DataOk, OverlayOpen
<1>15. StatusIsAccumulated' /\ ClientSeesReplay'
  BY <1>4, <1>8, <1>9 DEF SeenInv, DataOk, StatusIsAccumulated, ClientSeesReplay, Pruned
<1>16. StartsCarry'
  BY <1>4, <1>8, <1>9 DEF SeenInv, MessagesOk, StartsCarry
<1>17. TurnCurrent'
  BY <1>1, <1>4, <1>8, <1>9 DEF SeenInv, MessagesOk, TurnCurrent, LockedBy
<1> QED BY <1>10, <1>11, <1>12, <1>13, <1>14, <1>15, <1>16, <1>17
        DEF SeenInv, DataOk, MessagesOk

(* What an ack must leave of the instance whose turn it is. *)
AckedSeen(i, items) ==
  /\ TableOk(Of(db'.kv_store, i))
  /\ \A x : Dense(db', i, x)
  /\ \A h \in Range(db'.history) :
       h.instance = i =>
         h.execution \in Nat /\ h.execution <= db'.instances[i].current_execution_id
  /\ \A x \in DOMAIN db'.executions :
       x[1] = i /\ db'.executions[x].status # "Running" =>
         \E h \in HistoryOf(db', i, x[2]) : h.event.kind \in TerminalKinds
  /\ \/ Of(db'.kv_delta, i) = EmptyTable
     \/ /\ i \in DOMAIN db'.instances
        /\ CurrentEvents(i)' # <<>> /\ ~Finished(CurrentEvents(i)')
  /\ i = Kid => Polled(db', i) = Null
  /\ i \in DOMAIN db'.instances /\ CurrentEvents(i)' # <<>> =>
       /\ Polled(db', i) = AccumulatedStatus(CurrentEvents(i)')
       /\ Replayed(Of(db'.kv_store, i), CurrentEvents(i)') = View(db', i)
  /\ \A x \in DOMAIN items :
       /\ items[x].kind # "TimerFired"
       /\ items[x].kind = "StartOrchestration" =>
            items[x].instance = Kid /\ items[x].status = Null
       /\ items[x].kind = "ContinueAsNew" =>
            /\ items[x].instance = i /\ i \in DOMAIN db'.instances
            /\ items[x].status = Polled(db', i)
            /\ CurrentEvents(i)' = <<>> \/ Finished(CurrentEvents(i)')

(* Then what clients see is right everywhere: an ack leaves the other       *)
(* instances alone and takes every message that starts its own.            *)
LEMMA AckedIsSeen ==
    ASSUME IInv, SeenInv, turn # Null, turn' = Null, NEW execution, NEW delta, NEW workers,
           NEW items, NEW metadata, NEW i \in LockedBy(db, turn.lock_token),
           Acked(db, db', i, execution, delta, workers, items, metadata),
           Taken(db, db', turn.lock_token, items), AckedSeen(i, items)
    PROVE  SeenInv'
<1>1. /\ db'.now = db.now
      /\ AckedInstances(db, db', i, execution, metadata)
      /\ AckedExecutions(db, db', i, execution, metadata)
      /\ AckedStatus(db, db', i, delta)
      /\ AckedKv(db, db', i, delta, metadata)
      /\ Range(db'.history) = Range(db.history) \cup NewRows(i, execution, delta)
  BY DEF Acked, NewRows
<1>2. \A h \in NewRows(i, execution, delta) : h.instance = i
  BY DEF NewRows
<1>3. \A j : j # i =>
        /\ j \in DOMAIN db'.instances <=> j \in DOMAIN db.instances
        /\ j \in DOMAIN db.instances => db'.instances[j] = db.instances[j]
        /\ Of(db'.kv_store, j) = Of(db.kv_store, j)
        /\ Of(db'.kv_delta, j) = Of(db.kv_delta, j)
  BY <1>1 DEF AckedInstances, AckedKv
<1>4. \A j, x : j # i => HistoryOf(db', j, x) = HistoryOf(db, j, x)
  BY <1>1, <1>2 DEF HistoryOf
<1>5. \A j : j # i => Polled(db', j) = Polled(db, j) /\ View(db', j) = View(db, j)
  BY <1>3 DEF Polled, View
<1>6. \A j : j # i /\ j \in DOMAIN db.instances => CurrentEvents(j)' = CurrentEvents(j)
  BY <1>3, <1>4 DEF CurrentEvents, EventsOf
<1>7. TablesOk'
  <2> SUFFICES ASSUME NEW j \in DOMAIN db'.kv_store PROVE TableOk(db'.kv_store[j])
    BY DEF TablesOk
  <2>1. db'.kv_store[j] = Of(db'.kv_store, j)
    BY DEF Of
  <2>2. CASE j = i
    BY <2>1, <2>2 DEF AckedSeen
  <2>3. CASE j # i
    <3>1. Of(db'.kv_store, j) = Of(db.kv_store, j)
      BY <2>3, <1>3
    <3>2. j \in DOMAIN db.kv_store => TableOk(db.kv_store[j])
      BY DEF SeenInv, DataOk, TablesOk
    <3>3. TableOk(EmptyTable)
      BY DEF TableOk, EmptyTable
    <3> QED BY <2>1, <3>1, <3>2, <3>3 DEF Of
  <2> QED BY <2>2, <2>3
<1>8. NoneLater'
  <2> SUFFICES ASSUME NEW h \in Range(db'.history)
               PROVE  /\ h.execution \in Nat
                      /\ h.execution <= db'.instances[h.instance].current_execution_id
    BY DEF NoneLater
  <2>1. CASE h.instance = i
    BY <2>1 DEF AckedSeen
  <2>2. CASE h.instance # i
    <3>1. h \in Range(db.history) /\ h.instance \in DOMAIN db.instances
      BY <2>2, <1>1, <1>2 DEF IInv, Core, HistoryOk
    <3> QED BY <3>1, <2>2, <1>3 DEF SeenInv, DataOk, NoneLater
  <2> QED BY <2>1, <2>2
<1>9. HistoryDense'
  <2>1. ASSUME NEW j, NEW x, j # i PROVE Dense(db', j, x)
    <3>1. HistoryOf(db', j, x) = HistoryOf(db, j, x)
      BY <2>1, <1>4
    <3>2. Dense(db, j, x)
      BY DEF SeenInv, DataOk, HistoryDense
    <3> QED BY <3>1, <3>2 DEF Dense
  <2>2. \A x : Dense(db', i, x)
    BY DEF AckedSeen
  <2> QED BY <2>1, <2>2 DEF HistoryDense
<1>10. EndsWritten'
  <2> SUFFICES ASSUME NEW x \in DOMAIN db'.executions, db'.executions[x].status # "Running"
               PROVE  \E h \in HistoryOf(db', x[1], x[2]) : h.event.kind \in TerminalKinds
    BY DEF EndsWritten
  <2>1. CASE x[1] = i
    BY <2>1 DEF AckedSeen
  <2>2. CASE x[1] # i
    <3> DEFINE key == <<i, execution>>
    <3>1. x # key
      BY <2>2
    <3>2. x \in DOMAIN db.executions /\ db'.executions[x].status = db.executions[x].status
      BY <3>1, <1>1 DEF AckedExecutions
    <3> QED BY <3>2, <2>2, <1>4 DEF SeenInv, DataOk, EndsWritten
  <2> QED BY <2>1, <2>2
<1>11. OverlayOpen'
  <2> SUFFICES ASSUME NEW j, Of(db'.kv_delta, j) # EmptyTable
               PROVE  /\ j \in DOMAIN db'.instances
                      /\ CurrentEvents(j)' # <<>> /\ ~Finished(CurrentEvents(j)')
    BY DEF OverlayOpen
  <2>1. CASE j = i
    BY <2>1 DEF AckedSeen
  <2>2. CASE j # i
    BY <2>2, <1>3, <1>6 DEF SeenInv, DataOk, OverlayOpen
  <2> QED BY <2>1, <2>2
<1>12. KidPlain'
  BY <1>5 DEF AckedSeen, SeenInv, DataOk, KidPlain
<1>13. StatusIsAccumulated'
  <2> SUFFICES ASSUME NEW j \in DOMAIN db'.instances, CurrentEvents(j)' # <<>>
               PROVE  db'.instances[j].custom_status = AccumulatedStatus(CurrentEvents(j)')
    BY DEF StatusIsAccumulated, Pruned
  <2>1. CASE j = i
    BY <2>1 DEF AckedSeen, Polled
  <2>2. CASE j # i
    BY <2>2, <1>3, <1>6 DEF SeenInv, DataOk, StatusIsAccumulated, Pruned
  <2> QED BY <2>1, <2>2
<1>14. ClientSeesReplay'
  <2> SUFFICES ASSUME NEW j \in DOMAIN db'.instances, CurrentEvents(j)' # <<>>
               PROVE  Replayed(Of(db'.kv_store, j), CurrentEvents(j)') = View(db', j)
    BY DEF ClientSeesReplay, Pruned
  <2>1. CASE j = i
    BY <2>1 DEF AckedSeen
  <2>2. CASE j # i
    BY <2>2, <1>3, <1>5, <1>6 DEF SeenInv, DataOk, ClientSeesReplay, Pruned
  <2> QED BY <2>1, <2>2
<1>15. Timely'
  <2> SUFFICES ASSUME NEW r \in Range(db'.orchestrator_queue)
               PROVE  r.visible_at <= db.now
    BY <1>1 DEF SeenInv, MessagesOk, Timely
  <2>1. r \in Range(db.orchestrator_queue) \/ r.visible_at = db.now
    BY DEF Taken, AckedSeen
  <2> QED BY <2>1 DEF SeenInv, MessagesOk, Timely
<1>16. StartsCarry'
  <2> SUFFICES ASSUME NEW r \in Range(db'.orchestrator_queue)
               PROVE  /\ Starts(r.item) => r.item.status = Polled(db', r.item.instance)
                      /\ r.item.kind = "ContinueAsNew" =>
                           /\ r.item.instance \in DOMAIN db'.instances
                           /\ \/ CurrentEvents(r.item.instance)' = <<>>
                              \/ Finished(CurrentEvents(r.item.instance)')
    BY DEF StartsCarry
  <2>1. ASSUME r \in Range(db.orchestrator_queue), r.lock_token # turn.lock_token, Starts(r.item)
        PROVE  /\ r.item.status = Polled(db', r.item.instance)
               /\ r.item.kind = "ContinueAsNew" =>
                    /\ r.item.instance \in DOMAIN db'.instances
                    /\ \/ CurrentEvents(r.item.instance)' = <<>>
                       \/ Finished(CurrentEvents(r.item.instance)')
    <3>1. r.item.instance # i
      BY <2>1 DEF SeenInv, MessagesOk, TurnCurrent
    <3> QED BY <2>1, <3>1, <1>3, <1>5, <1>6 DEF SeenInv, MessagesOk, StartsCarry
  <2>2. ASSUME NEW x \in DOMAIN items, r.item = items[x]
        PROVE  /\ Starts(r.item) => r.item.status = Polled(db', r.item.instance)
               /\ r.item.kind = "ContinueAsNew" =>
                    /\ r.item.instance \in DOMAIN db'.instances
                    /\ \/ CurrentEvents(r.item.instance)' = <<>>
                       \/ Finished(CurrentEvents(r.item.instance)')
    BY <2>2, <1>12 DEF AckedSeen, Starts, KidPlain
  <2> QED BY <2>1, <2>2 DEF Taken, Starts
<1>17. TurnCurrent'
  BY DEF TurnCurrent
<1> QED BY <1>7, <1>8, <1>9, <1>10, <1>11, <1>12, <1>13, <1>14, <1>15, <1>16, <1>17
        DEF SeenInv, DataOk, MessagesOk

(* A batch that is acknowledged unprocessed shows clients nothing. *)
LEMMA SeenUnprocessed == ASSUME IInv, SeenInv, AckUnprocessed PROVE SeenInv'
<1> DEFINE none == <<>>
           cancelled == {}
           execution == turn.execution_id
           r == ack_orchestration_item(db, turn.lock_token, execution, none,
                                       none, none, NoMetadata, cancelled)
<1>1. /\ turn # Null /\ db' = r.db /\ turn' = Null
  BY DEF AckUnprocessed
<1>2. Listed(none) /\ DOMAIN none = {} /\ none = <<>> /\ Range(none) = {}
  BY NoRow
<1>3. /\ NoMetadata.status = Null /\ ~Named(NoMetadata) /\ ~IsTerminal(Null)
  BY NullAssumption DEF NoMetadata, Named, IsTerminal
<1> HIDE DEF none, cancelled
<1>4. AckOutcome(db, r, turn.lock_token, execution, none, none, none, NoMetadata)
  <2> DEFINE zero == 0
  <2>1. zero \in Nat /\ DOMAIN none = 1..zero
    BY <1>2
  <2> HIDE DEF zero, execution
  <2> QED BY <1>2, <2>1, AckFacts DEF IInv, Core
<1> HIDE DEF r
<1>5. CASE r.db = db
  <2>1. DataOk'
    BY <1>1, <1>5, DataStays DEF SeenInv
  <2>2. TurnCurrent'
    BY <1>1 DEF TurnCurrent
  <2>3. \A j : CurrentEvents(j)' = CurrentEvents(j) /\ Polled(db', j) = Polled(db, j)
    BY <1>1, <1>5 DEF CurrentEvents
  <2>4. Timely' /\ StartsCarry'
    BY <1>1, <1>5, <2>3 DEF SeenInv, MessagesOk, Timely, StartsCarry
  <2> QED BY <2>1, <2>2, <2>4 DEF SeenInv, MessagesOk
<1>6. ASSUME NEW i \in LockedBy(db, turn.lock_token),
             Acked(db, r.db, i, execution, none, none, none, NoMetadata),
             Taken(db, r.db, turn.lock_token, none)
      PROVE  SeenInv'
  <2>1. /\ Acked(db, db', i, execution, none, none, none, NoMetadata)
        /\ Taken(db, db', turn.lock_token, none)
    BY <1>1, <1>6
  <2>2. /\ AckedInstances(db, db', i, execution, NoMetadata)
        /\ AckedExecutions(db, db', i, execution, NoMetadata)
        /\ AckedStatus(db, db', i, none)
        /\ AckedKv(db, db', i, none, NoMetadata)
    BY <2>1 DEF Acked
  <2>3. Range(db'.history) = Range(db.history)
    BY <2>1, <1>2 DEF Acked
  <2>4. \A x : HistoryOf(db', i, x) = HistoryOf(db, i, x)
    BY <2>3 DEF HistoryOf
  <2>5. /\ DOMAIN db'.instances = DOMAIN db.instances
        /\ i \in DOMAIN db.instances =>
             db'.instances[i].current_execution_id = db.instances[i].current_execution_id
    <3>1. i \in DOMAIN db.instances => execution = db.instances[i].current_execution_id
      BY <1>1 DEF IInv, Core, TurnHeld
    <3> QED BY <2>2, <3>1, <1>3 DEF AckedInstances, Named
  <2>6. i \in DOMAIN db.instances => CurrentEvents(i)' = CurrentEvents(i)
    BY <2>4, <2>5 DEF CurrentEvents, EventsOf
  <2>7. StatusAfter(Polled(db, i), none) = Polled(db, i)
    BY <1>2, AfterFacts
  <2>8. Polled(db', i) = Polled(db, i)
    BY <2>2, <2>5, <2>7 DEF AckedStatus, Polled
  <2>9. Of(db'.kv_store, i) = Of(db.kv_store, i) /\ Of(db'.kv_delta, i) = Of(db.kv_delta, i)
    BY <2>2, <1>2, <1>3, NothingMaterialized DEF AckedKv
  <2>10. TableOk(Of(db'.kv_store, i))
    <3>1. TableOk(EmptyTable)
      BY DEF TableOk, EmptyTable
    <3> QED BY <3>1, <2>9 DEF Of, SeenInv, DataOk, TablesOk
  <2>11. \A x : Dense(db', i, x)
    BY <2>4 DEF Dense, SeenInv, DataOk, HistoryDense
  <2>12. \A h \in Range(db'.history) :
           h.instance = i =>
             h.execution \in Nat /\ h.execution <= db'.instances[i].current_execution_id
    BY <2>3, <2>5 DEF SeenInv, DataOk, NoneLater, IInv, Core, HistoryOk
  <2>13. \A x \in DOMAIN db'.executions :
           x[1] = i /\ db'.executions[x].status # "Running" =>
             \E h \in HistoryOf(db', i, x[2]) : h.event.kind \in TerminalKinds
    BY <2>2, <2>4, <1>3 DEF AckedExecutions, SeenInv, DataOk, EndsWritten
  <2>14. \/ Of(db'.kv_delta, i) = EmptyTable
         \/ /\ i \in DOMAIN db'.instances
            /\ CurrentEvents(i)' # <<>> /\ ~Finished(CurrentEvents(i)')
    BY <2>5, <2>6, <2>9 DEF SeenInv, DataOk, OverlayOpen
  <2>15. i = Kid => Polled(db', i) = Null
    BY <2>8 DEF SeenInv, DataOk, KidPlain
  <2>16. i \in DOMAIN db'.instances /\ CurrentEvents(i)' # <<>> =>
           /\ Polled(db', i) = AccumulatedStatus(CurrentEvents(i)')
           /\ Replayed(Of(db'.kv_store, i), CurrentEvents(i)') = View(db', i)
    BY <2>5, <2>6, <2>8, <2>9
       DEF Polled, View, SeenInv, DataOk, StatusIsAccumulated, ClientSeesReplay, Pruned
  <2>17. AckedSeen(i, none)
    BY <1>2, <2>10, <2>11, <2>12, <2>13, <2>14, <2>15, <2>16 DEF AckedSeen
  <2> HIDE DEF execution
  <2> QED BY <1>1, <2>1, <2>17, AckedIsSeen
<1> QED BY <1>4, <1>5, <1>6 DEF AckOutcome

(* A turn that holds its lock goes on where the stored history ends.        *)
LEMMA TurnGoesOn ==
    ASSUME IInv, SeenInv, turn # Null, ~Ended(turn),
           NEW i \in LockedBy(db, turn.lock_token)
    PROVE  LET base == Baseline(turn)
               execution == ExecutionToUse(turn)
           IN  /\ i = turn.instance
               /\ Listed(base) /\ ~Finished(base)
               /\ execution \in Nat
               /\ EventsOf(db, i, execution) = base
               /\ i \in DOMAIN db.instances =>
                    \/ execution = db.instances[i].current_execution_id
                    \/ execution = db.instances[i].current_execution_id + 1
               /\ base # <<>> => i \in DOMAIN db.instances /\ CurrentEvents(i) = base
               /\ base = <<>> => Of(db.kv_delta, i) = EmptyTable
<1> DEFINE base == Baseline(turn)
           execution == ExecutionToUse(turn)
<1>1. /\ i = turn.instance
      /\ i \in DOMAIN db.instances =>
           turn.execution_id = db.instances[i].current_execution_id
      /\ i \notin DOMAIN db.instances => turn.history = <<>>
      /\ turn.execution_id \in Nat /\ Listed(turn.history)
  BY DEF IInv, Core, TurnHeld, TurnOk
<1>2. /\ Continues(turn) # <<>> => turn.history = <<>> \/ Finished(turn.history)
      /\ i \in DOMAIN db.instances =>
           \/ turn.history = CurrentEvents(i)
           \/ Finished(turn.history) /\ CurrentEvents(i) = <<>>
      /\ Continues(turn) # <<>> => i \in DOMAIN db.instances
  BY DEF SeenInv, MessagesOk, TurnCurrent
<1>3. Finished(turn.history) => Continues(turn) # <<>>
  BY DEF Ended, Finished, Says, TerminalKinds
<1>4. ~Finished(<<>>)
  BY NoRow DEF Finished, Says
<1>5. \A x : i \notin DOMAIN db.instances => EventsOf(db, i, x) = <<>>
  <2>1. \A x : i \notin DOMAIN db.instances => HistoryOf(db, i, x) = {}
    BY DEF HistoryOf, IInv, Core, HistoryOk
  <2> QED BY <2>1, NothingFiltered DEF EventsOf
<1>6. \/ Of(db.kv_delta, i) = EmptyTable
      \/ /\ i \in DOMAIN db.instances
         /\ CurrentEvents(i) # <<>> /\ ~Finished(CurrentEvents(i))
  BY DEF SeenInv, DataOk, OverlayOpen
<1>7. CASE Continues(turn) # <<>>
  <2>1. base = <<>> /\ execution = turn.execution_id + 1
    BY <1>7 DEF Baseline, ExecutionToUse
  <2>2. i \in DOMAIN db.instances
    BY <1>2, <1>7
  <2>3. EventsOf(db, i, execution) = <<>>
    <3>1. ASSUME NEW h \in HistoryOf(db, i, execution) PROVE FALSE
      <4>1. h \in Range(db.history) /\ h.instance = i /\ h.execution = execution
        BY DEF HistoryOf
      <4>2. h.execution <= turn.execution_id
        BY <4>1, <2>2, <1>1 DEF SeenInv, DataOk, NoneLater
      <4> QED BY <4>1, <4>2, <2>1, <1>1
    <3>2. HistoryOf(db, i, execution) = {}
      BY <3>1
    <3> QED BY <3>2, NothingFiltered DEF EventsOf
  <2>4. Of(db.kv_delta, i) = EmptyTable
    BY <1>2, <1>6, <1>7, <2>2
  <2>5. Listed(base)
    BY <2>1, NoRow
  <2> QED BY <1>1, <1>4, <2>1, <2>2, <2>3, <2>4, <2>5
<1>8. CASE Continues(turn) = <<>>
  <2>1. base = turn.history /\ execution = turn.execution_id
    BY <1>8 DEF Baseline, ExecutionToUse
  <2>2. ~Finished(turn.history)
    BY <1>3, <1>8
  <2>3. CASE i \in DOMAIN db.instances
    <3>1. turn.history = CurrentEvents(i)
      BY <2>2, <2>3, <1>2
    <3>2. EventsOf(db, i, execution) = CurrentEvents(i)
      BY <2>1, <2>3, <1>1 DEF CurrentEvents
    <3> QED BY <1>1, <1>6, <2>1, <2>2, <2>3, <3>1, <3>2
  <2>4. CASE i \notin DOMAIN db.instances
    BY <1>1, <1>5, <1>6, <2>1, <2>2, <2>4
  <2> QED BY <2>3, <2>4
<1> QED BY <1>7, <1>8

(* The ack of a turn shows clients what its history says. *)
LEMMA SeenTurnAcked ==
    ASSUME IInv, SeenInv, turn # Null, turn' = Null, NEW execution, NEW delta, NEW workers,
           NEW items, NEW metadata, TurnSays(execution, delta, items, metadata),
           NEW i \in LockedBy(db, turn.lock_token), IdsOk(db'),
           Acked(db, db', i, execution, delta, workers, items, metadata),
           Taken(db, db', turn.lock_token, items)
    PROVE  SeenInv'
<1> DEFINE base == Baseline(turn)
           all == base \o delta
           store == Of(db.kv_store, i)
           overlay == Of(db.kv_delta, i)
           mutated == Materialized(store, overlay, delta)
<1>1. /\ ~Ended(turn) /\ execution = ExecutionToUse(turn) /\ Listed(delta)
      /\ \A x \in DOMAIN delta : delta[x].id = Len(base) + x /\ Writes(delta[x])
      /\ \A s : (\A m \in Range(turn.messages) : Starts(m) => m.status = s)
                  => Begins(base, delta, s)
      /\ turn.instance # Root =>
           \A x \in DOMAIN delta : delta[x].kind # "CustomStatusUpdated"
      /\ metadata.status \in {Null, "Completed", "ContinuedAsNew", "Failed"}
      /\ metadata.status # Null <=> Finished(delta)
      /\ base = <<>> => Named(metadata)
      /\ \A x \in DOMAIN items :
           /\ items[x].kind \in {"StartOrchestration", "ContinueAsNew", "SubOrchCompleted"}
           /\ items[x].kind = "StartOrchestration" =>
                items[x].instance = Kid /\ items[x].status = Null
           /\ items[x].kind = "ContinueAsNew" =>
                /\ items[x].instance = turn.instance
                /\ items[x].status = AccumulatedStatus(all)
                /\ Finished(delta)
  BY DEF TurnSays
<1>2. /\ i = turn.instance /\ Listed(base) /\ ~Finished(base) /\ execution \in Nat
      /\ EventsOf(db, i, execution) = base
      /\ i \in DOMAIN db.instances =>
           \/ execution = db.instances[i].current_execution_id
           \/ execution = db.instances[i].current_execution_id + 1
      /\ base # <<>> => i \in DOMAIN db.instances /\ CurrentEvents(i) = base
      /\ base = <<>> => overlay = EmptyTable
  BY <1>1, TurnGoesOn
<1>3. /\ AckedInstances(db, db', i, execution, metadata)
      /\ AckedExecutions(db, db', i, execution, metadata)
      /\ AckedStatus(db, db', i, delta)
      /\ AckedKv(db, db', i, delta, metadata)
      /\ Range(db'.history) = Range(db.history) \cup NewRows(i, execution, delta)
  BY DEF Acked, NewRows
<1>4. /\ Dense(db, i, execution) /\ IdsOk(db)
      /\ \A x : Dense(db, i, x)
  BY DEF SeenInv, DataOk, HistoryDense, IInv, Core
<1> HIDE DEF base, all
<1>5. EventsOf(db', i, execution) = all /\ Dense(db', i, execution)
  <2> DEFINE e == db'
  <2>1. /\ IdsOk(e) /\ Range(e.history) = Range(db.history) \cup NewRows(i, execution, delta)
        /\ \A x \in DOMAIN delta : delta[x].id = Len(EventsOf(db, i, execution)) + x
    BY <1>1, <1>2, <1>3
  <2>3. Listed(delta) /\ IdsOk(db) /\ Dense(db, i, execution)
    BY <1>1, <1>4
  <2> DEFINE d == db
  <2> HIDE DEF e, d
  <2>4. /\ IdsOk(d) /\ IdsOk(e) /\ Listed(delta) /\ Dense(d, i, execution)
        /\ Range(e.history) = Range(d.history) \cup NewRows(i, execution, delta)
        /\ \A x \in DOMAIN delta : delta[x].id = Len(EventsOf(d, i, execution)) + x
    BY <2>1, <2>3 DEF d
  <2>2. /\ EventsOf(e, i, execution) = EventsOf(db, i, execution) \o delta
        /\ Dense(e, i, execution)
    BY <2>4, AppendedEvents DEF d
  <2> QED BY <2>2, <1>2 DEF all, e
<1>6. \A h \in NewRows(i, execution, delta) : h.instance = i /\ h.execution = execution
  BY DEF NewRows
<1>7. \A x : x # execution => HistoryOf(db', i, x) = HistoryOf(db, i, x)
  BY <1>3, <1>6 DEF HistoryOf
<1>8. \A x : HistoryOf(db, i, x) \subseteq HistoryOf(db', i, x)
  BY <1>3 DEF HistoryOf
<1>9. \A x : Dense(db', i, x)
  <2>1. ASSUME NEW x, x # execution PROVE Dense(db', i, x)
    BY <1>4, <1>7, <2>1 DEF Dense
  <2> QED BY <2>1, <1>5
<1>10. i \in DOMAIN db'.instances =>
         /\ db'.instances[i].current_execution_id = execution
         /\ CurrentEvents(i)' = all
  <2>1. i \in DOMAIN db'.instances => db'.instances[i].current_execution_id = execution
    <3>1. i \in DOMAIN db.instances => db.instances[i].current_execution_id \in Nat
      BY DEF IInv, Core, RowsOk
    <3> QED BY <3>1, <1>2, <1>3 DEF AckedInstances
  <2> QED BY <2>1, <1>5 DEF CurrentEvents
<1>11. i \in DOMAIN db'.instances
  BY <1>1, <1>2, <1>3 DEF AckedInstances, Named
<1>12. Listed(all) /\ Range(all) = Range(base) \cup Range(delta)
  BY <1>1, <1>2, ConcatRows DEF all
<1>13. Finished(delta) <=> Finished(all)
  BY <1>2, <1>12 DEF Finished, Says
<1>14. all # <<>>
  <2>1. base # <<>> \/ delta # <<>>
    <3>1. base = <<>> => delta # <<>>
      <4>1. \A m \in Range(turn.messages) : Starts(m) => m.status = Polled(db, i)
        BY DEF SeenInv, MessagesOk, TurnCurrent
      <4>2. Begins(base, delta, Polled(db, i))
        BY <4>1, <1>1
      <4> QED BY <4>2 DEF Begins
    <3> QED BY <3>1
  <2>2. Range(base) # {} \/ Range(delta) # {}
    BY <2>1, <1>1, <1>2 DEF Listed
  <2> QED BY <2>2, <1>12, NoRow
<1>15. TableOk(store)
  <2>1. TableOk(EmptyTable)
    BY DEF TableOk, EmptyTable
  <2> QED BY <2>1 DEF Of, SeenInv, DataOk, TablesOk
(* The status.                                                             *)
<1>16. Polled(db', i) = AccumulatedStatus(all)
  <2>1. Begins(base, delta, Polled(db, i))
    <3>1. \A m \in Range(turn.messages) : Starts(m) => m.status = Polled(db, i)
      BY DEF SeenInv, MessagesOk, TurnCurrent
    <3> QED BY <3>1, <1>1
  <2>2. base # <<>> => Polled(db, i) = AccumulatedStatus(base)
    BY <1>2 DEF SeenInv, DataOk, StatusIsAccumulated, Pruned, Polled
  <2>3. StatusAfter(Polled(db, i), delta) = AccumulatedStatus(all)
    BY <2>1, <2>2, <1>1, <1>2, StatusFollows DEF all
  <2> QED BY <2>3, <1>3, <1>11 DEF AckedStatus, Polled
<1>17. i = Kid => Polled(db', i) = Null
  <2> SUFFICES ASSUME i = Kid PROVE Polled(db', i) = Null
    OBVIOUS
  <2>1. \A x \in DOMAIN delta : delta[x].kind # "CustomStatusUpdated"
    BY <1>1, <1>2, KidAssumption
  <2>2. StatusAfter(Polled(db, i), delta) = Polled(db, i)
    BY <2>1, <1>1, AfterFacts
  <2> QED BY <2>2, <1>3, <1>11 DEF AckedStatus, Polled, SeenInv, DataOk, KidPlain
(* The key-value store.                                                    *)
<1>18. Replayed(store, base) = Merged(store, overlay)
  <2>1. CASE base # <<>>
    BY <2>1, <1>2 DEF SeenInv, DataOk, ClientSeesReplay, Pruned, View
  <2>2. CASE base = <<>>
    BY <2>2, <1>2, <1>15, ReplayNothing, MergedNothing
  <2> QED BY <2>1, <2>2
<1>19. Replayed(store, all) = Merged(store, mutated)
  <2>1. Replayed(store, all) = Replayed(Replayed(store, base), delta)
    BY <1>1, <1>2, ReplayConcat DEF all
  <2>2. \A e \in Range(delta) : Writes(e)
    BY <1>1 DEF Range
  <2> HIDE DEF store, overlay, mutated
  <2>3. Replayed(Merged(store, overlay), delta) = Merged(store, mutated)
    BY <2>2, <1>1, MaterializedReplays DEF mutated
  <2> QED BY <2>1, <2>3, <1>18
<1>20. /\ TableOk(Of(db'.kv_store, i))
       /\ Replayed(Of(db'.kv_store, i), all) = View(db', i)
       /\ metadata.status # Null => Of(db'.kv_delta, i) = EmptyTable
  <2>1. CASE metadata.status = Null
    <3>1. ~IsTerminal(metadata.status)
      BY <2>1, NullAssumption DEF IsTerminal
    <3>2. Of(db'.kv_delta, i) = mutated /\ Of(db'.kv_store, i) = store
      BY <3>1, <1>3 DEF AckedKv
    <3> QED BY <3>2, <2>1, <1>15, <1>19 DEF View
  <2>2. CASE metadata.status # Null
    <3> DEFINE merged == Merged(store, mutated)
    <3>1. IsTerminal(metadata.status)
      BY <2>2, <1>1 DEF IsTerminal
    <3>2. Of(db'.kv_delta, i) = EmptyTable /\ Of(db'.kv_store, i) = merged
      BY <3>1, <1>3 DEF AckedKv
    <3> HIDE DEF store, mutated
    <3>3. /\ Replayed(Replayed(store, all), all) = Replayed(store, all)
          /\ TableOk(Replayed(store, all))
      BY <1>12, <1>15, ReplayAgain
    <3>4. Replayed(merged, all) = merged /\ TableOk(merged)
      BY <3>3, <1>19
    <3> HIDE DEF merged
    <3>5. Merged(merged, EmptyTable) = merged
      BY <3>4, MergedNothing
    <3> QED BY <3>2, <3>4, <3>5, <2>2 DEF View
  <2> QED BY <2>1, <2>2
(* The rest.                                                               *)
<1>21. \A h \in Range(db'.history) :
         h.instance = i =>
           h.execution \in Nat /\ h.execution <= db'.instances[i].current_execution_id
  <2> SUFFICES ASSUME NEW h \in Range(db'.history), h.instance = i
               PROVE  h.execution \in Nat /\ h.execution <= execution
    BY <1>10, <1>11
  <2>1. CASE h \in NewRows(i, execution, delta)
    BY <2>1, <1>2, <1>6
  <2>2. CASE h \in Range(db.history)
    <3>1. /\ i \in DOMAIN db.instances /\ h.execution \in Nat
          /\ h.execution <= db.instances[i].current_execution_id
          /\ db.instances[i].current_execution_id \in Nat
      BY <2>2 DEF SeenInv, DataOk, NoneLater, IInv, Core, HistoryOk, RowsOk
    <3> QED BY <3>1, <1>2
  <2> QED BY <2>1, <2>2, <1>3
<1>22. \A x \in DOMAIN db'.executions :
         x[1] = i /\ db'.executions[x].status # "Running" =>
           \E h \in HistoryOf(db', i, x[2]) : h.event.kind \in TerminalKinds
  <2> SUFFICES ASSUME NEW x \in DOMAIN db'.executions, x[1] = i,
                      db'.executions[x].status # "Running"
               PROVE  \E h \in HistoryOf(db', i, x[2]) : h.event.kind \in TerminalKinds
    OBVIOUS
  <2> DEFINE key == <<i, execution>>
  <2>1. CASE x = key /\ metadata.status # Null
    <3>1. x[2] = execution
      BY <2>1
    <3>2. PICK e \in Range(EventsOf(db', i, execution)) : e.kind \in TerminalKinds
      BY <2>1, <1>1, <1>5, <1>13 DEF Finished, Says
    <3>3. PICK h \in HistoryOf(db', i, execution) : h.event = e
      BY <3>2, EventsFacts
    <3> QED BY <3>1, <3>2, <3>3
  <2>2. CASE ~(x = key /\ metadata.status # Null)
    <3>1. x \in DOMAIN db.executions /\ db.executions[x].status # "Running"
      <4> HIDE DEF key
      <4> QED BY <2>2, <1>3 DEF AckedExecutions, key
    <3> QED BY <3>1, <1>8 DEF SeenInv, DataOk, EndsWritten
  <2> QED BY <2>1, <2>2
<1>23. AckedSeen(i, items)
  <2>1. \/ Of(db'.kv_delta, i) = EmptyTable
        \/ CurrentEvents(i)' # <<>> /\ ~Finished(CurrentEvents(i)')
    BY <1>1, <1>10, <1>11, <1>13, <1>14, <1>20
  <2>2. \A x \in DOMAIN items :
          /\ items[x].kind # "TimerFired"
          /\ items[x].kind = "StartOrchestration" =>
               items[x].instance = Kid /\ items[x].status = Null
          /\ items[x].kind = "ContinueAsNew" =>
               /\ items[x].instance = i /\ i \in DOMAIN db'.instances
               /\ items[x].status = Polled(db', i)
               /\ CurrentEvents(i)' = <<>> \/ Finished(CurrentEvents(i)')
    BY <1>1, <1>2, <1>10, <1>11, <1>13, <1>16
  <2>3. /\ Polled(db', i) = AccumulatedStatus(CurrentEvents(i)')
        /\ Replayed(Of(db'.kv_store, i), CurrentEvents(i)') = View(db', i)
    BY <1>10, <1>11, <1>16, <1>20
  <2> QED BY <2>1, <2>2, <2>3, <1>9, <1>11, <1>17, <1>20, <1>21, <1>22 DEF AckedSeen
<1> QED BY <1>23, AckedIsSeen

(* A turn shows clients what its history says. *)
LEMMA SeenTurnRuns ==
    ASSUME IInv, SeenInv, NEW effect \in Effect, NEW ending \in Ending,
           RunTurn(effect, ending)
    PROVE  SeenInv'
<1>1. turn # Null /\ turn' = Null
  BY DEF RunTurn
<1>2. IdsOk(db')
  BY TurnRuns DEF IInv, Core
<1>3. PICK execution, delta, workers, items, metadata, cancelled, first :
        /\ first \in BOOLEAN
        /\ TurnHands(execution, delta, workers, items, metadata, cancelled, first)
  BY TurnMade
<1> DEFINE r == ack_orchestration_item(db, turn.lock_token, execution, delta, workers,
                                       items, metadata, cancelled)
<1>4. /\ TurnWrites(execution, delta, workers, items, metadata, first)
      /\ TurnSays(execution, delta, items, metadata)
      /\ db' = r.db
  BY <1>3 DEF TurnHands
<1>5. AckOutcome(db, r, turn.lock_token, execution, delta, workers, items, metadata)
  <2>1. /\ Len(delta) \in Nat /\ DOMAIN delta = 1..Len(delta)
        /\ Len(workers) \in Nat /\ DOMAIN workers = 1..Len(workers)
        /\ Len(items) \in Nat /\ DOMAIN items = 1..Len(items) /\ Listed(items)
    BY <1>4 DEF TurnWrites, Listed
  <2> QED BY <2>1, AckFacts DEF IInv, Core
<1> HIDE DEF r
<1>6. CASE r.db = db
  <2>1. DataOk' /\ \A j : CurrentEvents(j)' = CurrentEvents(j)
    BY <1>4, <1>6, DataStays DEF SeenInv
  <2>2. TurnCurrent'
    BY <1>1 DEF TurnCurrent
  <2>3. Timely' /\ StartsCarry'
    BY <1>4, <1>6, <2>1 DEF SeenInv, MessagesOk, Timely, StartsCarry
  <2> QED BY <2>1, <2>2, <2>3 DEF SeenInv, MessagesOk
<1>7. ASSUME NEW i \in LockedBy(db, turn.lock_token),
             Acked(db, r.db, i, execution, delta, workers, items, metadata),
             Taken(db, r.db, turn.lock_token, items)
      PROVE  SeenInv'
  BY <1>1, <1>2, <1>4, <1>7, SeenTurnAcked
<1> QED BY <1>5, <1>6, <1>7 DEF AckOutcome

-----------------------------------------------------------------------------
(* The theorems of the second invariant.                                   *)

(* Every step of the system keeps the second invariant too. *)
LEMMA StepSeen == ASSUME IInv, SeenInv, Next PROVE SeenInv'
  BY SeenStays, SeenLockGoes, SeenActivityFetched, SeenActivityCompletes, SeenEventRaised,
     SeenRootStarted, SeenTurnFetched, SeenDeletionCommits, SeenPruningCommits,
     SeenUnprocessed, SeenTurnRuns
     DEF Next

(* The second invariant, inductive with the first: what clients see and     *)
(* what the messages carry follows from the history that is stored.        *)
THEOREM SeenInvariant == Spec => []SeenInv
<1>1. Init => SeenInv
  BY InitSeen
<1>2. IInv /\ SeenInv /\ [Next]_vars => SeenInv'
  BY StepSeen, SeenStays
<1> QED BY <1>1, <1>2, Invariant, PTL DEF Spec

(* The custom status that clients poll is the one that the history of the   *)
(* current execution says.                                                 *)
THEOREM StatusIsAccumulatedHolds == Spec => []StatusIsAccumulated
<1>1. SeenInv => StatusIsAccumulated
  BY DEF SeenInv, DataOk
<1> QED BY <1>1, SeenInvariant, PTL

(* The values that clients read are those that the history of the current   *)
(* execution makes of the snapshot that it started from.                   *)
THEOREM ClientSeesReplayHolds == Spec => []ClientSeesReplay
<1>1. SeenInv => ClientSeesReplay
  BY DEF SeenInv, DataOk
<1> QED BY <1>1, SeenInvariant, PTL

=============================================================================
