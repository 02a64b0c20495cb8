-------------------------- MODULE ValidationAdmin ---------------------------
(***************************************************************************)
(* The validation functions of src/src/provider_validation/deletion.rs,    *)
(* bulk_deletion.rs, prune.rs and management.rs: what the management       *)
(* interface lists, deletes and prunes.                                    *)
(***************************************************************************)
EXTENDS Validation

Exists(i) == Query("get_instance_info", i, Succeeds)
Gone(i) == Query("get_instance_info", i, Fails)
Deleted(n) == Says([instances_deleted |-> n])
ForEach(ids, Make(_)) == [x \in DOMAIN ids |-> Make(ids[x])]

create_completed_instance_with_parent(i, parent) ==
  Seed(i, [Ending("Completed", "done") EXCEPT !.parent = parent], <<Started(1)>>)
create_completed_instance(i) == create_completed_instance_with_parent(i, Null)
create_failed_instance(i) == Seed(i, Ending("Failed", "error"), <<Started(1)>>)
create_cancelled_instance(i) == Seed(i, Ending("Failed", "cancelled"), <<Started(1)>>)
create_child_instance(i, parent) ==
  Seed(i, [Ending("Completed", "done") EXCEPT !.name = "ChildOrch", !.parent = parent],
       <<[Started(1) EXCEPT !.name = "ChildOrch"]>>)

(* A root "r", its children "c1" and "c2", and "g", a child of c2. *)
Family ==
  create_completed_instance("r") \o create_child_instance("c1", "r")
  \o create_child_instance("c2", "r") \o create_child_instance("g", "c2")

test_delete_terminal_instances == Alone(
  create_completed_instance("A") \o create_failed_instance("B")
  \o create_cancelled_instance("C")
  \o <<Exists("A"), Exists("B"), Exists("C"),
       Delete("A", FALSE, Says([instances_deleted |-> 1, executions_deleted |-> 1,
                                events_deleted |-> 1])),
       Gone("A"), Delete("B", FALSE, Deleted(1)), Gone("B"),
       Delete("C", FALSE, Deleted(1)), Gone("C")>>)

test_delete_running_rejected_force_succeeds == Alone(
  create_instance("A")
  \o <<Delete("A", FALSE, Fails), Exists("A"), Delete("A", TRUE, Deleted(1)), Gone("A")>>)

test_delete_nonexistent_instance == Alone(<<Delete("A", FALSE, Fails)>>)

(* The instance id is free again: queues, locks and rows are gone. *)
test_delete_cleans_queues_and_locks == Alone(
  <<Enqueue(start_item("A")), EnqueueWork(Activity("A", 1)), Fetch(GetsItem),
    Ack(Mine, 1, <<Started(1)>>, Ending("Completed", Null)),
    Delete("A", FALSE, Says([queue_messages_deleted |-> 1])),
    Enqueue([start_item("A") EXCEPT !.name = "ReusedOrch", !.version = "2.0.0"]),
    Fetch(Gets([name |-> "ReusedOrch"])),
    Ack(Mine, 1, <<Started(1)>>, [Named EXCEPT !.name = "ReusedOrch", !.version = "2.0.0"]),
    Query("get_instance_info", "A", Says([name |-> "ReusedOrch"])),
    Delete("A", TRUE, Succeeds)>>)

test_cascade_delete_hierarchy == Alone(
  create_completed_instance("r") \o create_completed_instance_with_parent("c1", "r")
  \o create_completed_instance_with_parent("c2", "r")
  \o create_completed_instance_with_parent("g", "c1")
  \o ForEach(<<"r", "c1", "c2", "g">>, Exists)
  \o <<Delete("c1", FALSE, Fails), Delete("c1", TRUE, Fails), Delete("g", FALSE, Fails),
       Delete("r", FALSE, Says([instances_deleted |-> 4, executions_deleted |-> 4]))>>
  \o ForEach(<<"r", "c1", "c2", "g">>, Gone))

(* An ack of a turn that was fetched before the deletion. *)
test_force_delete_prevents_ack_recreation == Alone(
  create_instance("A")
  \o <<Enqueue(poke_item("A")), Fetch(GetsItem), Delete("A", TRUE, Deleted(1)),
       AckAll(Mine, 1, <<Event(2, "ExternalEvent")>>, <<>>, <<>>, NoMetadata, {}, Fails),
       Gone("A")>>)

test_list_children == Alone(
  Family
  \o <<Query("list_children", "r", [ids |-> {"c1", "c2"}]),
       Query("list_children", "c2", [ids |-> {"g"}]),
       Query("list_children", "g", [ids |-> {}]),
       Query("list_children", "none", [ids |-> {}]), Delete("r", TRUE, Succeeds)>>)

test_delete_get_parent_id == Alone(
  create_completed_instance("r") \o create_child_instance("c1", "r")
  \o <<Query("get_parent_id", "r", Says([parent |-> Null])),
       Query("get_parent_id", "c1", Says([parent |-> "r"])),
       Query("get_parent_id", "none", Fails), Delete("r", TRUE, Succeeds)>>)

test_delete_get_instance_tree == Alone(
  Family
  \o <<Query("get_instance_tree", "r", [ids |-> {"r", "c1", "c2", "g"}, size |-> 4]),
       Query("get_instance_tree", "g", [ids |-> {"g"}, size |-> 1]),
       Delete("r", TRUE, Succeeds)>>)

test_delete_instances_atomic == Alone(
  LET ids == <<"A", "B", "C">>
  IN  Flat(ForEach(ids, create_completed_instance)) \o ForEach(ids, Exists)
      \o <<DeleteAtomic({"A", "B", "C"}, FALSE,
             Says([instances_deleted |-> 3, executions_deleted |-> 3]))>>
      \o ForEach(ids, Gone))

test_delete_instances_atomic_force == Alone(
  create_completed_instance("A") \o create_instance("B")
  \o <<DeleteAtomic({"A", "B"}, FALSE, Fails), Exists("A"), Exists("B"),
       DeleteAtomic({"A", "B"}, TRUE, Deleted(2)), Gone("A"), Gone("B")>>)

test_delete_instances_atomic_orphan_detection == Alone(
  create_completed_instance("r") \o create_child_instance("c1", "r")
  \o <<Exists("r"), Exists("c1"), DeleteAtomic({"r"}, FALSE, Fails), Exists("r"),
       Exists("c1"), DeleteAtomic({"r", "c1"}, FALSE, Succeeds), Gone("r"), Gone("c1")>>)

(* The worker's lock of the first life of the id is no lock in the second. *)
test_stale_activity_after_delete_recreate == Alone(
  <<Enqueue(start_item("A")), Fetch(GetsItem),
    AckWork(Mine, 1, <<Started(1), Event(2, "ActivityScheduled")>>, <<Activity("A", 2)>>,
            Named),
    FetchWork(GetsItem), Delete("A", TRUE, Deleted(1)), Gone("A")>>
  \o create_instance("A")
  \o <<Query("get_instance_info", "A", Says([name |-> "TestOrch"])),
       AckWorkItem(2, Message("ActivityCompleted", "A", 2), Fails),
       Enqueue(poke_item("A")), Fetch(Gets([messages |-> <<poke_item("A")>>])),
       Ack(Mine, 1, <<>>, [NoMetadata EXCEPT !.status = "Completed"]),
       Delete("A", TRUE, Succeeds)>>)

DeletionTests ==
  <<test_delete_terminal_instances, test_delete_running_rejected_force_succeeds,
    test_delete_nonexistent_instance, test_delete_cleans_queues_and_locks,
    test_cascade_delete_hierarchy, test_force_delete_prevents_ack_recreation,
    test_list_children, test_delete_get_parent_id, test_delete_get_instance_tree,
    test_delete_instances_atomic, test_delete_instances_atomic_force,
    test_delete_instances_atomic_orphan_detection,
    test_stale_activity_after_delete_recreate>>

-----------------------------------------------------------------------------
(* bulk_deletion.rs                                                        *)

OfIds(ids) == [NoFilter EXCEPT !.instance_ids = ids]
OfTime(ids, time) == [OfIds(ids) EXCEPT !.completed_before = time]
AtMost(n) == [NoFilter EXCEPT !.limit = n]

test_delete_instance_bulk_filter_combinations == Alone(
  Flat(ForEach(<<"A", "B", "C", "D", "E">>, create_completed_instance))
  \o <<DeleteBulk(OfIds({"A", "B"}), Deleted(2)), Gone("A"), Gone("B"), Exists("C"),
       DeleteBulk(OfIds({"none1", "none2"}), Deleted(0)),
       DeleteBulk(NoFilter, Deleted(3)), Gone("C"), Gone("D"), Gone("E")>>)

test_delete_instance_bulk_safety_and_limits == Alone(
  create_completed_instance("A") \o create_completed_instance("B")
  \o create_instance("C") \o create_instance("D")
  \o <<DeleteBulk(OfIds({"A", "B", "C", "D"}), Deleted(2)), Exists("C"), Exists("D")>>
  \o Flat(ForEach(<<"E", "F", "G", "H">>, create_completed_instance))
  \o <<DeleteBulk(AtMost(2), Deleted(2)), DeleteBulk(AtMost(2), Deleted(2)),
       DeleteBulk(AtMost(2), Deleted(0))>>)

test_delete_instance_bulk_completed_before_filter == Alone(
  <<Sleep(10)>> \o create_completed_instance("A") \o create_completed_instance("B")
  \o <<Sleep(10), DeleteBulk(OfTime({"A", "B"}, 0), Deleted(0)), Exists("A"), Exists("B"),
       DeleteBulk(OfTime({"A", "B"}, 20), Deleted(2)), Gone("A"), Gone("B")>>)

test_delete_instance_bulk_cascades_to_children == Alone(
  LET all == <<"p1", "a", "p2", "b", "c", "d", "alone">>
      parents == <<Null, "p1", Null, "p2", "p2", "p2", Null>>
  IN  Flat([x \in DOMAIN all |->
              create_completed_instance_with_parent(all[x], parents[x])])
      \o ForEach(all, Exists)
      \o <<DeleteBulk(OfIds({"p1", "p2", "alone"}), Deleted(7))>>
      \o ForEach(all, Gone))

-----------------------------------------------------------------------------
(* prune.rs                                                                *)

Executions(i, ids) == Query("list_executions", i, [ids |-> ids])
InfoIs(i, fields) == Query("get_instance_info", i, Says(fields))
Keeping(n) == [KeepsAll EXCEPT !.keep_last = n]

(* Executions 1..n, all but the last continued as new. *)
MultiExecution(i, n, final) ==
  Flat([e \in 1..n |->
    <<Enqueue([start_item(i) EXCEPT !.kind =
                 IF e = 1 THEN "StartOrchestration" ELSE "ContinueAsNew"]),
      Fetch(GetsItem),
      Ack(Mine, e, <<Started(1)>>,
          Ending(IF e = n THEN final ELSE "ContinuedAsNew", Null))>>])
create_multi_execution_instance(i, n) == MultiExecution(i, n, "Completed")
create_running_multi_execution_instance(i, n) == MultiExecution(i, n, "Running")

test_prune_options_combinations == Alone(
  create_multi_execution_instance("A", 4)
  \o <<Executions("A", 1..4), Prune("A", Keeping(2), Says([instances_processed |-> 1])),
       Executions("A", {3, 4})>>
  \o create_multi_execution_instance("B", 3)
  \o <<InfoIs("B", [current_execution_id |-> 3]), Prune("B", KeepsAll, Succeeds),
       Executions("B", {3})>>)

(* keep_last of None, 0 and 1 all leave exactly the current execution. *)
test_prune_safety == Alone(
  LET options == <<KeepsAll, Keeping(0), Keeping(1)>>
      ids == <<"B", "C", "D">>
  IN  create_multi_execution_instance("A", 3)
      \o <<Prune("A", Keeping(0), Succeeds), InfoIs("A", [current_execution_id |-> 3]),
           Prune("none", Keeping(1), Fails)>>
      \o Flat([x \in DOMAIN ids |->
           create_multi_execution_instance(ids[x], 4)
           \o <<InfoIs(ids[x], [status |-> "Completed", current_execution_id |-> 4]),
                Prune(ids[x], options[x], Says([executions_deleted |-> 3])),
                Executions(ids[x], {4})>>]))

test_prune_bulk == Alone(
  Flat([x \in 1..3 |-> create_multi_execution_instance(<<"A", "B", "C">>[x], 4)])
  \o <<PruneBulk(OfIds({"A", "B"}), Keeping(1),
                 Says([instances_processed |-> 2, executions_deleted |-> 6])),
       Executions("A", {4}), Executions("B", {4}), Executions("C", 1..4)>>)

test_prune_bulk_includes_running_instances == Alone(
  create_running_multi_execution_instance("A", 3)
  \o <<Executions("A", 1..3), InfoIs("A", [status |-> "Running", current_execution_id |-> 3]),
       PruneBulk(OfIds({"A"}), Keeping(1),
                 Says([instances_processed |-> 1, executions_deleted |-> 2])),
       Executions("A", {3}), InfoIs("A", [status |-> "Running"])>>)

BulkTests ==
  <<test_delete_instance_bulk_filter_combinations,
    test_delete_instance_bulk_safety_and_limits,
    test_delete_instance_bulk_completed_before_filter,
    test_delete_instance_bulk_cascades_to_children,
    test_prune_options_combinations, test_prune_safety, test_prune_bulk,
    test_prune_bulk_includes_running_instances>>

-----------------------------------------------------------------------------
(* management.rs                                                           *)

Stats(i, fields) == Query("get_instance_stats", i, Gets(fields))
Turn(i, events, metadata) ==
  <<Enqueue(poke_item(i)), Fetch(GetsItem), Ack(Mine, 1, events, metadata)>>
CompletedNow == [NoMetadata EXCEPT !.status = "Completed", !.output = "done"]

test_list_instances == Alone(
  Flat(ForEach(<<"A", "B", "C">>, create_instance))
  \o <<QueryAll("list_instances", [ids |-> {"A", "B", "C"}])>>)

test_list_instances_by_status == Alone(
  create_completed_instance("A") \o <<ListByStatus("Completed", [ids |-> {"A"}])>>)

test_list_executions == Alone(
  Seed("A", NoMetadata, <<Started(1)>>) \o <<Executions("A", {1})>>)

test_get_instance_info == Alone(
  Seed("A", [Named EXCEPT !.name = "InfoOrch", !.version = "2.0.0"], <<Started(1)>>)
  \o <<InfoIs("A", [name |-> "InfoOrch", version |-> "2.0.0",
                    current_execution_id |-> 1])>>)

test_get_execution_info == Alone(
  Seed("A", [NoMetadata EXCEPT !.status = "Completed", !.output = "result"], <<Started(1)>>)
  \o <<ExecutionInfo("A", 1, Says([status |-> "Completed", output |-> "result"]))>>)

test_get_system_metrics == Alone(
  <<QueryAll("get_system_metrics", [total_instances |-> 0])>> \o create_instance("A")
  \o <<QueryAll("get_system_metrics", [total_instances |-> 1, total_events |-> 1])>>)

test_get_queue_depths == Alone(
  <<QueryAll("get_queue_depths", [orchestrator_queue |-> 0]), Enqueue(start_item("A")),
    QueryAll("get_queue_depths", [orchestrator_queue |-> 1])>>)

test_get_instance_stats_nonexistent == Alone(<<Query("get_instance_stats", "A", GetsNothing)>>)

test_get_instance_stats_history == Alone(
  create_instance("A")
  \o <<Stats("A", [history_event_count |-> 1, kv_user_key_count |-> 0,
                   queue_pending_count |-> 0])>>)

test_get_instance_stats_kv == Alone(
  create_instance("A")
  \o Turn("A", <<Set(100, "k1", "aaa"), Set(101, "k2", "bbbbb"),
                 Event(102, "OrchestrationCompleted")>>, CompletedNow)
  \o <<Stats("A", [kv_user_key_count |-> 2])>>)

test_get_instance_stats_carry_forward == Alone(
  Seed("A", Named, <<[Started(1) EXCEPT !.carried = 3]>>)
  \o <<Stats("A", [queue_pending_count |-> 3, history_event_count |-> 1,
                   kv_user_key_count |-> 0])>>)

test_get_instance_stats_kv_delta_only == Alone(
  create_instance("A")
  \o Turn("A", <<Set(100, "dk1", "xxx"), Set(101, "dk2", "yyyyyy"),
                 Event(102, "ActivityScheduled")>>, NoMetadata)
  \o <<Stats("A", [kv_user_key_count |-> 2, queue_pending_count |-> 0])>>)

test_get_instance_stats_kv_merged == Alone(
  create_instance("A")
  \o Turn("A", <<Set(100, "mk1", "aaa"), Set(101, "mk2", "bb"),
                 Event(102, "ActivityScheduled")>>, NoMetadata)
  \o <<Stats("A", [kv_user_key_count |-> 2])>>
  \o Turn("A", <<Set(200, "mk1", "zzzzz"), Event(201, "OrchestrationCompleted")>>,
          CompletedNow)
  \o <<Stats("A", [kv_user_key_count |-> 2, queue_pending_count |-> 0])>>)

ManagementTests ==
  <<test_list_instances, test_list_instances_by_status, test_list_executions,
    test_get_instance_info, test_get_execution_info, test_get_system_metrics,
    test_get_queue_depths, test_get_instance_stats_nonexistent,
    test_get_instance_stats_history, test_get_instance_stats_kv,
    test_get_instance_stats_carry_forward, test_get_instance_stats_kv_delta_only,
    test_get_instance_stats_kv_merged>>

AdminTests == DeletionTests \o BulkTests \o ManagementTests

=============================================================================
