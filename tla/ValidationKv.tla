---------------------------- MODULE ValidationKv ----------------------------
(***************************************************************************)
(* The validation functions of src/src/provider_validation/kv_store.rs and *)
(* custom_status.rs.  KV lives in two tables: kv_delta holds what the      *)
(* current execution wrote, and the end of an execution merges it into     *)
(* kv_store, from which the next fetch takes its snapshot.                 *)
(***************************************************************************)
EXTENDS Validation

ack_with_delta(i, e, delta) ==
  <<Enqueue(poke_item(i)), Fetch(GetsItem), Ack(Mine, e, delta, NoMetadata)>>

(* Poke the instance and look at the snapshot its fetch carries. *)
SnapshotIs(i, e, snapshot) ==
  <<Enqueue(poke_item(i)), Fetch(Gets([kv_snapshot |-> snapshot])),
    Ack(Mine, e, <<>>, NoMetadata)>>

continue_as_new(i, e) ==
  <<Enqueue(poke_item(i)), Fetch(GetsItem),
    Ack(Mine, e - 1, <<>>, Ending("ContinuedAsNew", Null)),
    Enqueue([start_item(i) EXCEPT !.kind = "ContinueAsNew"]), Fetch(GetsItem),
    Ack(Mine, e, <<Started(1)>>, Named)>>

complete_instance(i, e) ==
  <<Enqueue(poke_item(i)), Fetch(GetsItem),
    Ack(Mine, e, <<Event(9999, "OrchestrationCompleted")>>,
        Ending("Completed", "done"))>>

KeepLast(n) == [KeepsAll EXCEPT !.keep_last = n]

test_kv_set_and_get == Alone(
  create_instance("A") \o ack_with_delta("A", 1, <<Set(100, "counter", "42")>>)
  \o <<KvIs("A", "counter", "42")>>)

test_kv_overwrite == Alone(
  create_instance("A") \o ack_with_delta("A", 1, <<Set(100, "status", "old")>>)
  \o <<KvIs("A", "status", "old")>>
  \o ack_with_delta("A", 1, <<Set(101, "status", "new")>>)
  \o <<KvIs("A", "status", "new")>>)

test_kv_clear_single == Alone(
  create_instance("A") \o ack_with_delta("A", 1, <<Set(100, "k", "x")>>)
  \o <<KvIs("A", "k", "x")>>
  \o ack_with_delta("A", 1, <<Cleared(101, "k")>>) \o <<KvIs("A", "k", Null)>>)

test_kv_clear_all == Alone(
  create_instance("A")
  \o ack_with_delta("A", 1, <<Set(100, "a", "1"), Set(101, "b", "2")>>)
  \o <<KvIs("A", "a", "1"), KvIs("A", "b", "2")>>
  \o ack_with_delta("A", 1, <<AllCleared(102)>>)
  \o <<KvIs("A", "a", Null), KvIs("A", "b", Null)>>)

test_kv_get_nonexistent == Alone(create_instance("A") \o <<KvIs("A", "nope", Null)>>)

test_kv_snapshot_in_fetch == Alone(
  create_instance("A")
  \o ack_with_delta("A", 1, <<Set(100, "x", "10"), Set(101, "y", "20")>>)
  \o complete_instance("A", 1)
  \o SnapshotIs("A", 1, [x |-> "10", y |-> "20"]))

test_kv_snapshot_after_clear_single == Alone(
  create_instance("A")
  \o ack_with_delta("A", 1, <<Set(100, "keep", "yes"), Set(101, "remove", "bye")>>)
  \o ack_with_delta("A", 1, <<Cleared(102, "remove")>>)
  \o complete_instance("A", 1) \o SnapshotIs("A", 1, [keep |-> "yes"]))

test_kv_snapshot_after_clear_all == Alone(
  create_instance("A")
  \o ack_with_delta("A", 1, <<Set(100, "a", "1"), Set(101, "b", "2")>>)
  \o ack_with_delta("A", 1, <<AllCleared(102)>>) \o SnapshotIs("A", 1, <<>>))

test_kv_execution_id_tracking == Alone(
  create_instance("A") \o ack_with_delta("A", 1, <<Set(100, "shared", "1")>>)
  \o <<KvIs("A", "shared", "1")>>
  \o continue_as_new("A", 2) \o ack_with_delta("A", 2, <<Set(200, "shared", "2")>>)
  \o <<KvIs("A", "shared", "2"), Prune("A", KeepLast(1), Succeeds),
       KvIs("A", "shared", "2")>>)

test_kv_cross_execution_overwrite == Alone(
  create_instance("A") \o ack_with_delta("A", 1, <<Set(100, "k", "v1")>>)
  \o <<KvIs("A", "k", "v1")>>
  \o continue_as_new("A", 2) \o ack_with_delta("A", 2, <<Set(200, "k", "v2")>>)
  \o <<KvIs("A", "k", "v2")>>)

test_kv_cross_execution_remove_readd == Alone(
  create_instance("A") \o ack_with_delta("A", 1, <<Set(100, "cycle", "exec1")>>)
  \o <<KvIs("A", "cycle", "exec1")>>
  \o continue_as_new("A", 2) \o ack_with_delta("A", 2, <<Cleared(200, "cycle")>>)
  \o <<KvIs("A", "cycle", Null)>>
  \o continue_as_new("A", 3)
  \o ack_with_delta("A", 3, <<Set(300, "cycle", "exec3")>>)
  \o <<KvIs("A", "cycle", "exec3")>>)

test_kv_prune_preserves_overwritten == Alone(
  create_instance("A") \o ack_with_delta("A", 1, <<Set(100, "survive", "v1")>>)
  \o continue_as_new("A", 2) \o ack_with_delta("A", 2, <<Set(200, "survive", "v2")>>)
  \o <<Prune("A", KeepLast(1), Succeeds), KvIs("A", "survive", "v2")>>)

test_kv_prune_preserves_all_keys == Alone(
  create_instance("A") \o ack_with_delta("A", 1, <<Set(100, "orphan", "survives")>>)
  \o continue_as_new("A", 2) \o ack_with_delta("A", 2, <<Set(200, "keeper", "alive")>>)
  \o <<KvIs("A", "orphan", "survives"), KvIs("A", "keeper", "alive"),
       Prune("A", KeepLast(1), Succeeds),
       KvIs("A", "orphan", "survives"), KvIs("A", "keeper", "alive")>>)

test_kv_instance_isolation == Alone(
  create_instance("A") \o create_instance("B")
  \o ack_with_delta("A", 1, <<Set(100, "k", "from_a")>>)
  \o ack_with_delta("B", 1, <<Set(100, "k", "from_b")>>)
  \o <<KvIs("A", "k", "from_a"), KvIs("B", "k", "from_b")>>)

test_kv_delete_instance_cascades == Alone(
  create_instance("A") \o ack_with_delta("A", 1, <<Set(100, "doomed", "bye")>>)
  \o complete_instance("A", 1)
  \o <<KvIs("A", "doomed", "bye"), Delete("A", FALSE, Succeeds),
       KvIs("A", "doomed", Null)>>)

test_kv_clear_nonexistent_key == Alone(
  create_instance("A") \o ack_with_delta("A", 1, <<Cleared(100, "never_existed")>>)
  \o <<KvIs("A", "never_existed", Null)>>)

test_kv_get_unknown_instance == Alone(<<KvIs("no-such-instance", "key", Null)>>)

test_kv_set_after_clear == Alone(
  create_instance("A")
  \o ack_with_delta("A", 1, <<Set(100, "old_a", "1"), Set(101, "old_b", "2")>>)
  \o ack_with_delta("A", 1, <<AllCleared(102), Set(103, "new_x", "fresh")>>)
  \o <<KvIs("A", "old_a", Null), KvIs("A", "old_b", Null),
       KvIs("A", "new_x", "fresh")>>)

test_kv_empty_value == Alone(
  create_instance("A") \o ack_with_delta("A", 1, <<Set(100, "blank", "")>>)
  \o <<KvIs("A", "blank", "")>>)

test_kv_snapshot_empty == Alone(create_instance("A") \o SnapshotIs("A", 1, <<>>))

test_kv_snapshot_cross_execution == Alone(
  create_instance("A") \o ack_with_delta("A", 1, <<Set(100, "A", "from_exec1")>>)
  \o continue_as_new("A", 2) \o ack_with_delta("A", 2, <<Set(200, "B", "from_exec2")>>)
  \o SnapshotIs("A", 2, [A |-> "from_exec1"]))

test_kv_prune_current_execution_protected == Alone(
  create_instance("A") \o ack_with_delta("A", 1, <<Set(100, "alive", "yes")>>)
  \o <<Prune("A", KeepLast(1), Succeeds), KvIs("A", "alive", "yes")>>)

test_kv_delete_instance_with_children == Alone(
  create_instance("P") \o ack_with_delta("P", 1, <<Set(100, "parent_key", "p")>>)
  \o Seed("C", [Named EXCEPT !.parent = "P"], <<Started(1)>>)
  \o ack_with_delta("C", 1, <<Set(100, "child_key", "c")>>)
  \o complete_instance("C", 1) \o complete_instance("P", 1)
  \o <<Delete("P", FALSE, Succeeds), KvIs("P", "parent_key", Null),
       KvIs("C", "child_key", Null)>>)

test_kv_clear_isolation == Alone(
  create_instance("A") \o create_instance("B")
  \o ack_with_delta("A", 1, <<Set(100, "shared", "from_a")>>)
  \o ack_with_delta("B", 1, <<Set(100, "shared", "from_b")>>)
  \o ack_with_delta("A", 1, <<AllCleared(101)>>)
  \o <<KvIs("A", "shared", Null), KvIs("B", "shared", "from_b")>>)

test_kv_delta_snapshot_excludes_current_execution == Alone(
  create_instance("A") \o ack_with_delta("A", 1, <<Set(100, "counter", "1")>>)
  \o <<KvIs("A", "counter", "1")>> \o SnapshotIs("A", 1, <<>>))

test_kv_delta_snapshot_includes_completed_execution == Alone(
  create_instance("A") \o ack_with_delta("A", 1, <<Set(100, "counter", "5")>>)
  \o continue_as_new("A", 2) \o SnapshotIs("A", 2, [counter |-> "5"]))

test_kv_delta_client_reads_merged == Alone(
  create_instance("A")
  \o ack_with_delta("A", 1, <<Set(100, "color", "red"), Set(101, "size", "large")>>)
  \o complete_instance("A", 1)
  \o ack_with_delta("A", 2, <<Set(200, "color", "blue"), Set(201, "shape", "circle")>>)
  \o <<KvIs("A", "color", "blue"), KvIs("A", "size", "large"),
       KvIs("A", "shape", "circle")>>)

test_kv_delta_tombstone_overrides_store == Alone(
  create_instance("A") \o ack_with_delta("A", 1, <<Set(100, "temp", "exists")>>)
  \o complete_instance("A", 1) \o ack_with_delta("A", 2, <<Cleared(200, "temp")>>)
  \o <<KvIs("A", "temp", Null)>>)

test_kv_delta_clear_all_tombstones_store == Alone(
  create_instance("A")
  \o ack_with_delta("A", 1, <<Set(100, "a", "1"), Set(101, "b", "2")>>)
  \o complete_instance("A", 1)
  \o ack_with_delta("A", 2, <<AllCleared(200), Set(201, "c", "3")>>)
  \o <<KvIs("A", "a", Null), KvIs("A", "b", Null), KvIs("A", "c", "3")>>)

test_kv_delta_merged_on_completion == Alone(
  create_instance("A") \o ack_with_delta("A", 1, <<Set(100, "result", "42")>>)
  \o complete_instance("A", 1) \o <<KvIs("A", "result", "42")>>)

test_kv_delta_merged_on_can == Alone(
  create_instance("A")
  \o ack_with_delta("A", 1, <<Set(100, "version", "1"), Set(101, "progress", "50%")>>)
  \o ack_with_delta("A", 1, <<Set(102, "progress", "100%")>>)
  \o continue_as_new("A", 2)
  \o SnapshotIs("A", 2, [version |-> "1", progress |-> "100%"]))

test_kv_delta_delete_instance_cascades == Alone(
  create_instance("A") \o ack_with_delta("A", 1, <<Set(100, "data", "important")>>)
  \o <<KvIs("A", "data", "important"), Delete("A", TRUE, Succeeds),
       KvIs("A", "data", Null)>>)

test_kv_delta_prune_untouched_key_survives == Alone(
  create_instance("A") \o ack_with_delta("A", 1, <<Set(100, "stale", "1")>>)
  \o continue_as_new("A", 2) \o ack_with_delta("A", 2, <<Set(200, "other", "2")>>)
  \o continue_as_new("A", 3)
  \o <<KvIs("A", "stale", "1"), KvIs("A", "other", "2"),
       Prune("A", KeepLast(1), Succeeds),
       KvIs("A", "stale", "1"), KvIs("A", "other", "2")>>
  \o SnapshotIs("A", 3, [stale |-> "1", other |-> "2"]))

KvTests ==
  <<test_kv_set_and_get, test_kv_overwrite, test_kv_clear_single,
    test_kv_clear_all, test_kv_get_nonexistent, test_kv_snapshot_in_fetch,
    test_kv_snapshot_after_clear_single, test_kv_snapshot_after_clear_all,
    test_kv_execution_id_tracking, test_kv_cross_execution_overwrite,
    test_kv_cross_execution_remove_readd, test_kv_prune_preserves_overwritten,
    test_kv_prune_preserves_all_keys, test_kv_instance_isolation,
    test_kv_delete_instance_cascades, test_kv_clear_nonexistent_key,
    test_kv_get_unknown_instance, test_kv_set_after_clear, test_kv_empty_value,
    test_kv_snapshot_empty, test_kv_snapshot_cross_execution,
    test_kv_prune_current_execution_protected,
    test_kv_delete_instance_with_children, test_kv_clear_isolation,
    test_kv_delta_snapshot_excludes_current_execution,
    test_kv_delta_snapshot_includes_completed_execution,
    test_kv_delta_client_reads_merged, test_kv_delta_tombstone_overrides_store,
    test_kv_delta_clear_all_tombstones_store, test_kv_delta_merged_on_completion,
    test_kv_delta_merged_on_can, test_kv_delta_delete_instance_cascades,
    test_kv_delta_prune_untouched_key_survives>>

-----------------------------------------------------------------------------
(* custom_status.rs: poke the instance and ack a turn that updates it.     *)

UpdateStatus(i, delta) == ack_with_delta(i, 1, delta)
StatusIs(i, seen, status, version) ==
  CustomStatus(i, seen, Gets([status |-> status, version |-> version]))

test_custom_status_set == Alone(
  create_instance("A") \o UpdateStatus("A", <<StatusUpdate(100, "progress")>>)
  \o <<StatusIs("A", 0, "progress", 1)>>)

test_custom_status_clear == Alone(
  create_instance("A") \o UpdateStatus("A", <<StatusUpdate(100, "temp")>>)
  \o <<CustomStatus("A", 0, Gets([status |-> "temp"]))>>
  \o UpdateStatus("A", <<StatusUpdate(101, Null)>>) \o <<StatusIs("A", 0, Null, 2)>>)

test_custom_status_none_preserves == Alone(
  create_instance("A") \o UpdateStatus("A", <<StatusUpdate(100, "keep-me")>>)
  \o UpdateStatus("A", <<>>) \o <<StatusIs("A", 0, "keep-me", 1)>>)

test_custom_status_version_increments == Alone(
  create_instance("A") \o UpdateStatus("A", <<StatusUpdate(100, "a")>>)
  \o <<CustomStatus("A", 0, Gets([version |-> 1]))>>
  \o UpdateStatus("A", <<StatusUpdate(101, "b")>>)
  \o <<CustomStatus("A", 0, Gets([version |-> 2]))>>
  \o UpdateStatus("A", <<StatusUpdate(102, Null)>>) \o <<StatusIs("A", 0, Null, 3)>>)

test_custom_status_polling_no_change == Alone(
  create_instance("A") \o UpdateStatus("A", <<StatusUpdate(100, "v1")>>)
  \o <<CustomStatus("A", 1, GetsNothing), CustomStatus("A", 0, GetsItem)>>)

test_custom_status_nonexistent_instance ==
  Alone(<<CustomStatus("does-not-exist", 0, GetsNothing)>>)

test_custom_status_default_on_new_instance ==
  Alone(create_instance("A") \o <<CustomStatus("A", 0, GetsNothing)>>)

StatusTests ==
  <<test_custom_status_set, test_custom_status_clear,
    test_custom_status_none_preserves, test_custom_status_version_increments,
    test_custom_status_polling_no_change,
    test_custom_status_nonexistent_instance,
    test_custom_status_default_on_new_instance>>

=============================================================================
