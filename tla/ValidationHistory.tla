------------------------- MODULE ValidationHistory --------------------------
(***************************************************************************)
(* The validation functions of src/src/provider_validation/atomicity.rs,   *)
(* error_handling.rs, instance_creation.rs, multi_execution.rs,            *)
(* cancellation.rs and capability_filtering.rs: what one ack commits or    *)
(* refuses as a whole, and what the next fetch is given of it.             *)
(***************************************************************************)
EXTENDS Validation

Scheduled(id, name) == [id |-> id, kind |-> "ActivityScheduled", name |-> name]
TestOrch(version) == [Named EXCEPT !.version = version]
StartedAs(id, name, version) ==
  [Started(id) EXCEPT !.name = name, !.version = version]
AckWith(token, execution, delta, metadata, want) ==
  AckAll(token, execution, delta, <<>>, <<>>, metadata, {}, want)

(* The history after an ack that answered Fails is the one before it. *)
HistoryIs(i, events) == Read(i, Says([events |-> events]))

test_atomicity_failure_rollback == Alone(
  Seed("A", NoMetadata, <<Started(1)>>)
  \o <<HistoryIs("A", <<Started(1)>>), Enqueue(start_item("A")), Fetch(GetsItem),
       AckWith(Mine, 1, <<Started(1)>>, NoMetadata, Fails),
       HistoryIs("A", <<Started(1)>>), Fetch(GetsNothing)>>)

test_multi_operation_atomic_ack == Alone(
  LET events == <<Started(1), Scheduled(2, "a"), Scheduled(3, "b"), Scheduled(4, "c"),
                  Event(5, "TimerCreated")>>
      messages == <<[kind |-> "TimerFired", instance |-> "A", id |-> 1, fire_at_ms |-> 0],
                    poke_item("A")>>
  IN  <<Enqueue(start_item("A")), Fetch(GetsItem),
        AckAll(Mine, 1, events, <<Activity("A", 1), Activity("A", 2), Activity("A", 3)>>,
               messages, NoMetadata, {}, Succeeds),
        HistoryIs("A", events), FetchWork(GetsItem), FetchWork(GetsItem),
        FetchWork(GetsItem), FetchWork(GetsNothing),
        Fetch(Gets([messages |-> messages]))>>)

test_lock_released_only_on_successful_ack == Alone(
  <<Enqueue(start_item("A")), FetchFor(5000, Null, GetsItem),
    FetchFor(5000, Null, GetsNothing),
    AckWith(99, 1, <<Started(2)>>, NoMetadata, Fails),
    FetchFor(5000, Null, GetsNothing), Sleep(5100),
    FetchFor(5000, Null, Gets([instance |-> "A"]))>>)

test_concurrent_ack_prevention ==
  << << <<Enqueue(start_item("A")), Fetch(GetsItem)>> >>,
     [t \in 1..2 |-> <<AckWith(1, 1, <<Started(1)>>, NoMetadata, Anything)>>],
     << <<Won(1), HistoryIs("A", <<Started(1)>>)>> >> >>

(* error_handling.rs *)
test_invalid_lock_token_on_ack == Alone(<<AckWith(99, 1, <<>>, NoMetadata, Fails)>>)

test_duplicate_event_id_rejection == Alone(
  Seed("A", NoMetadata, <<Started(1)>>)
  \o <<Enqueue(start_item("A")), Fetch(GetsItem),
       AckWith(Mine, 1, <<Scheduled(1, "Activity")>>, NoMetadata, Fails),
       HistoryIs("A", <<Started(1)>>)>>)

test_missing_instance_metadata == Alone(<<HistoryIs("A", <<>>)>>)

test_lock_expiration_during_ack == Alone(
  <<Enqueue(start_item("A")), FetchFor(5000, Null, GetsItem), Sleep(5100),
    AckWith(Mine, 1, <<Started(1)>>, NoMetadata, Fails)>>)

test_read_corrupted_history_returns_error == Alone(
  create_instance("A") \o <<HistoryIs("A", <<Started(1)>>), Corrupt("A"), Read("A", Fails)>>)

test_read_with_execution_corrupted_history_returns_error == Alone(
  create_instance("A")
  \o <<ReadExecution("A", 1, Says([events |-> <<Started(1)>>])), Corrupt("A"),
       ReadExecution("A", 1, Fails)>>)

(* instance_creation.rs *)
test_instance_creation_via_metadata == Alone(
  <<Enqueue(start_item("A")),
    Fetch(Gets([instance |-> "A", name |-> "TestOrch", execution_id |-> 1,
                history |-> <<>>])),
    Ack(Mine, 1, <<StartedAs(1, "TestOrch", "2.0.0")>>, TestOrch("2.0.0")),
    Enqueue(start_item("A")),
    Fetch(Gets([instance |-> "A", name |-> "TestOrch", version |-> "2.0.0",
                execution_id |-> 1, history_len |-> 1])),
    Ack(Mine, 1, <<>>, NoMetadata)>>)

test_no_instance_creation_on_enqueue == Alone(
  <<Enqueue(start_item("A")), Query("get_instance_info", "A", Fails),
    Fetch(Gets([instance |-> "A"])), Ack(Mine, 1, <<Started(1)>>, Named)>>)

test_null_version_handling == Alone(
  <<Enqueue([start_item("A") EXCEPT !.version = Null]), Fetch(Gets([instance |-> "A"])),
    Ack(Mine, 1, <<StartedAs(1, "TestOrch", "3.0.0")>>, TestOrch("3.0.0")),
    Enqueue(start_item("A")), Fetch(Gets([version |-> "3.0.0"])),
    Ack(Mine, 1, <<>>, NoMetadata)>>)

test_sub_orchestration_instance_creation == Alone(
  LET child == [start_item("B") EXCEPT !.name = "ChildOrch", !.version = Null]
      started == StartedAs(1, "ChildOrch", "1.5.0")
  IN  <<Enqueue(start_item("A")), Fetch(GetsItem),
        AckAll(Mine, 1, <<StartedAs(1, "ParentOrch", "1.0.0")>>, <<>>, <<child>>,
               [Named EXCEPT !.name = "ParentOrch"], {}, Succeeds),
        Fetch(Gets([instance |-> "B", name |-> "ChildOrch"])),
        Ack(Mine, 1, <<started>>, [Named EXCEPT !.name = "ChildOrch", !.version = "1.5.0"]),
        Enqueue(child), Fetch(Gets([instance |-> "B", version |-> "1.5.0"])),
        Ack(Mine, 1, <<>>, NoMetadata)>>)

-----------------------------------------------------------------------------
(* multi_execution.rs                                                      *)

Execution(e, events, metadata) ==
  <<Enqueue(start_item("A")), Fetch(GetsItem), Ack(Mine, e, events, metadata)>>
ExecutionHistory(e, events) == ReadExecution("A", e, Says([events |-> events]))

test_execution_isolation == Alone(
  LET first == <<Started(1), Scheduled(2, "Activity1"), Event(3, "OrchestrationCompleted")>>
      second == <<Started(1), Event(2, "OrchestrationCompleted")>>
  IN  Execution(1, first, NoMetadata) \o Execution(2, second, NoMetadata)
      \o <<ExecutionHistory(1, first), ExecutionHistory(2, second), HistoryIs("A", second)>>)

test_latest_execution_detection == Alone(
  Execution(1, <<Scheduled(1, "A")>>, NoMetadata)
  \o Execution(2, <<Scheduled(1, "B")>>, NoMetadata)
  \o <<HistoryIs("A", <<Scheduled(1, "B")>>), ExecutionHistory(1, <<Scheduled(1, "A")>>)>>)

test_execution_id_sequencing == Alone(
  Execution(1, <<Started(1)>>, Named) \o Execution(2, <<Started(1)>>, Named)
  \o <<Enqueue(start_item("A")), Fetch(Gets([execution_id |-> 2]))>>)

(* The second fetch, if there is something to fetch, is of execution 2. *)
test_continue_as_new_creates_new_execution == Alone(
  Execution(1, <<Started(1)>>, NoMetadata)
  \o <<Enqueue([start_item("A") EXCEPT !.kind = "ContinueAsNew"]), Fetch(GetsItem),
       Ack(Mine, 2, <<Started(1)>>, NoMetadata), Fetch(GetsNothing)>>)

test_execution_history_persistence == Alone(
  LET names == <<"Activity-1", "Activity-2", "Activity-3">>
  IN  Flat([e \in 1..3 |-> Execution(e, <<Scheduled(1, names[e])>>, NoMetadata)])
      \o [e \in 1..3 |-> ExecutionHistory(e, <<Scheduled(1, names[e])>>)]
      \o <<HistoryIs("A", <<Scheduled(1, names[3])>>)>>)

AckTests ==
  <<test_atomicity_failure_rollback, test_multi_operation_atomic_ack,
    test_lock_released_only_on_successful_ack, test_concurrent_ack_prevention,
    test_invalid_lock_token_on_ack, test_duplicate_event_id_rejection,
    test_missing_instance_metadata, test_lock_expiration_during_ack,
    test_read_corrupted_history_returns_error,
    test_read_with_execution_corrupted_history_returns_error,
    test_instance_creation_via_metadata, test_no_instance_creation_on_enqueue,
    test_null_version_handling, test_sub_orchestration_instance_creation,
    test_execution_isolation, test_latest_execution_detection,
    test_execution_id_sequencing, test_continue_as_new_creates_new_execution,
    test_execution_history_persistence>>

-----------------------------------------------------------------------------
(* cancellation.rs.  The first functions end the orchestration in several  *)
(* ways in the turn that schedules the activity: the item is there anyway. *)

Doing(status, output) ==
  [NoMetadata EXCEPT !.name = "TestOrch", !.status = status, !.output = output]
Scheduling(work, events, metadata) ==
  <<Enqueue(start_item("A")), Fetch(GetsItem),
    AckWork(Mine, 1, <<Started(1)>> \o events, work, metadata)>>
One == <<Activity("A", 1)>>
Cancelling(ids, want) ==
  <<Enqueue(poke_item("A")), Fetch(GetsItem),
    AckAll(Mine, 1, <<>>, <<>>, <<>>, NoMetadata, {<<"A", 1, id>> : id \in ids}, want)>>
Fetched == <<EnqueueWork(Activity("A", 1)), FetchWork(GetsItem)>>

test_fetch_returns_running_state_for_active_orchestration == Alone(
  Scheduling(One, <<>>, Doing("Running", Null)) \o <<FetchWork(GetsItem)>>)

test_fetch_returns_terminal_state_when_orchestration_completed == Alone(
  Scheduling(One, <<Event(2, "OrchestrationCompleted")>>, Doing("Completed", "done"))
  \o <<FetchWork(GetsItem)>>)

test_fetch_returns_terminal_state_when_orchestration_failed == Alone(
  Scheduling(One, <<Event(2, "OrchestrationFailed")>>, Doing("Failed", Null))
  \o <<FetchWork(GetsItem)>>)

test_fetch_returns_terminal_state_when_orchestration_continued_as_new == Alone(
  Scheduling(One, <<Event(2, "OrchestrationContinuedAsNew")>>,
             Doing("ContinuedAsNew", "new-input"))
  \o <<FetchWork(GetsItem)>>)

test_fetch_returns_missing_state_when_instance_deleted == Alone(Fetched)

test_renew_returns_running_when_orchestration_active == Alone(
  Scheduling(One, <<>>, Doing("Running", Null))
  \o <<FetchWork(GetsItem), RenewWork(Mine, 30000, Succeeds)>>)

(* The end of the orchestration alone does not take the worker's lock. *)
test_renew_returns_terminal_when_orchestration_completed == Alone(
  Scheduling(One, <<>>, Doing("Running", Null))
  \o <<FetchWork(GetsItem), Enqueue(poke_item("A")), Fetch(GetsItem),
       Ack(3, 1, <<Event(2, "OrchestrationCompleted")>>,
           [NoMetadata EXCEPT !.status = "Completed", !.output = "done"]),
       RenewWork(2, 30000, Succeeds)>>)

test_renew_returns_missing_when_instance_deleted == Alone(
  Fetched \o <<RenewWork(Mine, 30000, Succeeds)>>)

test_ack_work_item_none_deletes_without_enqueue == Alone(
  Fetched \o <<AckWorkItem(Mine, Null, Succeeds), FetchWork(GetsNothing),
               Fetch(GetsNothing)>>)

test_cancelled_activities_deleted_from_worker_queue == Alone(
  Scheduling([id \in 1..3 |-> Activity("A", id)], <<>>, Doing("Running", Null))
  \o <<FetchWork(GetsItem), AbandonWork(Mine, Null, FALSE, Succeeds)>>
  \o Cancelling({1, 2}, Succeeds)
  \o <<FetchWork(Gets([item |-> Activity("A", 3)])), FetchWork(GetsNothing)>>)

test_ack_work_item_fails_when_entry_deleted == Alone(
  Fetched
  \o <<AckWorkItem(Mine, Null, Succeeds),
       AckWorkItem(Mine, Message("ActivityCompleted", "A", 1), Fails)>>)

test_renew_fails_when_entry_deleted == Alone(
  Fetched \o <<AckWorkItem(Mine, Null, Succeeds), RenewWork(Mine, 30000, Fails)>>)

test_cancelling_nonexistent_activities_is_idempotent == Alone(
  <<Enqueue(start_item("A")), Fetch(GetsItem),
    AckAll(Mine, 1, <<Started(1)>>, <<>>, <<>>, [NoMetadata EXCEPT !.name = "TestOrch"],
           {<<"A", 1, 999>>, <<"A", 1, 1>>}, Succeeds)>>)

test_batch_cancellation_deletes_multiple_activities == Alone(
  Scheduling([id \in 1..5 |-> Activity("A", id)], <<>>, Doing("Running", Null))
  \o Cancelling(1..5, Succeeds) \o <<FetchWork(GetsNothing)>>)

test_same_activity_in_worker_items_and_cancelled_is_noop == Alone(
  <<Enqueue(start_item("A")), Fetch(GetsItem),
    AckAll(Mine, 1, <<Started(1)>>, <<Activity("A", 2), Activity("A", 3)>>, <<>>,
           Doing("Running", Null), {<<"A", 1, 2>>}, Succeeds),
    FetchWork(Gets([item |-> Activity("A", 3)])), AckWorkItem(Mine, Null, Succeeds),
    FetchWork(GetsNothing)>>)

(* This provider deletes the activity with the instance, so the branch that *)
(* acks an orphan is not taken.                                             *)
test_orphan_activity_after_instance_force_deletion == Alone(
  Scheduling(One, <<>>, [Named EXCEPT !.status = "Running"])
  \o <<Delete("A", TRUE, Says([instances_deleted |-> 1])),
       Query("get_instance_info", "A", Fails), FetchWork(GetsNothing)>>)

CancellationTests ==
  <<test_fetch_returns_running_state_for_active_orchestration,
    test_fetch_returns_terminal_state_when_orchestration_completed,
    test_fetch_returns_terminal_state_when_orchestration_failed,
    test_fetch_returns_terminal_state_when_orchestration_continued_as_new,
    test_fetch_returns_missing_state_when_instance_deleted,
    test_renew_returns_running_when_orchestration_active,
    test_renew_returns_terminal_when_orchestration_completed,
    test_renew_returns_missing_when_instance_deleted,
    test_ack_work_item_none_deletes_without_enqueue,
    test_cancelled_activities_deleted_from_worker_queue,
    test_ack_work_item_fails_when_entry_deleted, test_renew_fails_when_entry_deleted,
    test_cancelling_nonexistent_activities_is_idempotent,
    test_batch_cancellation_deletes_multiple_activities,
    test_same_activity_in_worker_items_and_cancelled_is_noop,
    test_orphan_activity_after_instance_force_deletion>>

-----------------------------------------------------------------------------
(* capability_filtering.rs                                                 *)

filter_for_range(min, max) == << <<min, max>> >>
V1 == filter_for_range(<<1, 0, 0>>, <<1, 9, 9>>)
V2 == filter_for_range(<<2, 0, 0>>, <<2, 9, 9>>)
UpToV1 == filter_for_range(<<0, 0, 0>>, <<1, 9, 9>>)
FetchFiltered(filter, want) == FetchFor(30000, filter, want)
Pinned(version) == [Named EXCEPT !.pinned = version]

(* The ack that pins the version leaves a message behind to fetch. *)
SeedAck(token, i, version) ==
  AckAll(token, 1, <<Started(1)>>, <<>>, <<poke_item(i)>>, Pinned(version), {}, Succeeds)
seed_instance_with_version(i, version) ==
  <<Enqueue(start_item(i)), Fetch(GetsItem), SeedAck(Mine, i, version)>>

(* Seeding B while A has a message: A is fetched on the way, and abandoned. *)
SeedBoth(version_a, version_b) ==
  seed_instance_with_version("A", version_a)
  \o <<Enqueue(start_item("B")), Fetch(Gets([instance |-> "A"])),
       Fetch(Gets([instance |-> "B"])), SeedAck(3, "B", version_b),
       Abandon(2, Null, TRUE, Succeeds)>>
seed_and_corrupt_history(i, version) ==
  seed_instance_with_version(i, version) \o <<Corrupt(i)>>
BadHistory == Gets([history_error |-> TRUE, history |-> <<>>])

test_fetch_with_filter_none_returns_any_item == Alone(
  seed_instance_with_version("A", <<1, 2, 3>>) \o <<Fetch(GetsItem)>>)

test_fetch_with_compatible_filter_returns_item == Alone(
  seed_instance_with_version("A", <<1, 2, 3>>) \o <<FetchFiltered(V1, GetsItem)>>)

test_fetch_with_incompatible_filter_skips_item == Alone(
  seed_instance_with_version("A", <<1, 2, 3>>) \o <<FetchFiltered(V2, GetsNothing)>>)

test_fetch_filter_skips_incompatible_selects_compatible == Alone(
  SeedBoth(<<1, 0, 0>>, <<2, 0, 0>>)
  \o <<FetchFiltered(V2, Gets([instance |-> "B"])), Abandon(Mine, Null, TRUE, Succeeds),
       FetchFiltered(V1, Gets([instance |-> "A"]))>>)

test_fetch_filter_does_not_lock_skipped_instances == Alone(
  seed_instance_with_version("A", <<1, 0, 0>>)
  \o <<FetchFiltered(V2, GetsNothing), FetchFiltered(UpToV1, GetsItem)>>)

test_fetch_filter_null_pinned_version_always_compatible == Alone(
  create_instance("A")
  \o <<Enqueue(poke_item("A")),
       FetchFiltered(filter_for_range(<<99, 0, 0>>, <<99, 9, 9>>), GetsItem)>>)

(* Both ends of the range are in it; 2.0.0 is tried on a fresh provider. *)
test_fetch_filter_boundary_versions_inside == Alone(
  LET range == filter_for_range(<<1, 0, 0>>, <<1, 9, 99>>)
  IN  SeedBoth(<<1, 0, 0>>, <<1, 9, 99>>)
      \o <<FetchFiltered(range, Gets([instance |-> "A"])),
           FetchFiltered(range, Gets([instance |-> "B"]))>>)

test_fetch_filter_boundary_versions == Alone(
  seed_instance_with_version("A", <<2, 0, 0>>)
  \o <<FetchFiltered(filter_for_range(<<1, 0, 0>>, <<1, 9, 99>>), GetsNothing),
       Fetch(GetsItem)>>)

test_pinned_version_stored_via_ack_metadata == Alone(
  seed_instance_with_version("A", <<3, 1, 4>>)
  \o <<FetchFiltered(filter_for_range(<<3, 0, 0>>, <<3, 9, 9>>), GetsItem)>>)

test_pinned_version_immutable_across_ack_cycles == Alone(
  seed_instance_with_version("A", <<1, 0, 0>>)
  \o <<FetchFiltered(UpToV1, GetsItem), Ack(Mine, 1, <<>>, Named),
       Enqueue(poke_item("A")), FetchFiltered(UpToV1, GetsItem)>>)

test_continue_as_new_execution_gets_own_pinned_version == Alone(
  seed_instance_with_version("A", <<1, 0, 0>>)
  \o <<FetchFiltered(UpToV1, GetsItem),
       AckAll(Mine, 1, <<Event(2, "OrchestrationContinuedAsNew")>>, <<>>,
              <<[start_item("A") EXCEPT !.kind = "ContinueAsNew"]>>,
              Ending("ContinuedAsNew", Null), {}, Succeeds),
       Fetch(GetsItem), Ack(Mine, 2, <<Started(1)>>, Pinned(<<2, 0, 0>>)),
       Enqueue(poke_item("A")), FetchFiltered(V2, GetsItem),
       Abandon(Mine, Null, TRUE, Succeeds), FetchFiltered(V1, GetsNothing)>>)

test_filter_with_empty_supported_versions_returns_nothing == Alone(
  seed_instance_with_version("A", <<1, 0, 0>>) \o <<FetchFiltered(<<>>, GetsNothing)>>)

test_concurrent_filtered_fetch_no_double_lock == Alone(
  seed_instance_with_version("A", <<1, 0, 0>>)
  \o <<FetchFiltered(UpToV1, GetsItem), FetchFiltered(UpToV1, GetsNothing)>>)

test_ack_stores_pinned_version_via_metadata_update == Alone(
  create_instance("A")
  \o <<Enqueue(poke_item("A")), Fetch(GetsItem), Ack(Mine, 1, <<>>, Pinned(<<1, 2, 3>>)),
       Enqueue(poke_item("A")), FetchFiltered(V1, GetsItem)>>)

test_provider_updates_pinned_version_when_told == Alone(
  seed_instance_with_version("A", <<1, 0, 0>>)
  \o <<FetchFiltered(UpToV1, GetsItem), Ack(Mine, 1, <<>>, Pinned(<<2, 0, 0>>)),
       Enqueue(poke_item("A")),
       FetchFiltered(filter_for_range(<<2, 0, 0>>, <<2, 0, 0>>), GetsItem),
       Abandon(Mine, Null, TRUE, Succeeds),
       FetchFiltered(filter_for_range(<<1, 0, 0>>, <<1, 0, 0>>), GetsNothing)>>)

test_fetch_corrupted_history_filtered_vs_unfiltered == Alone(
  seed_and_corrupt_history("A", <<1, 0, 0>>)
  \o <<FetchFiltered(V2, GetsNothing), Fetch(BadHistory),
       Abandon(Mine, Null, TRUE, Succeeds)>>)

(* A history that cannot be read still counts attempts, towards poison. *)
test_fetch_deserialization_error_increments_attempt_count == Alone(
  seed_and_corrupt_history("A", <<1, 0, 0>>)
  \o <<FetchFor(50, Null, BadHistory), Abandon(Mine, Null, FALSE, Succeeds), Sleep(100),
       FetchFor(50, Null, Gets([history_error |-> TRUE, attempts |-> 2])),
       Abandon(Mine, Null, FALSE, Succeeds)>>)

test_fetch_deserialization_error_eventually_reaches_poison == Alone(
  seed_and_corrupt_history("A", <<1, 0, 0>>)
  \o Flat([n \in 1..5 |->
       <<FetchFor(50, Null, Gets([history_error |-> TRUE, attempts |-> n])),
         Abandon(Mine, Null, FALSE, Succeeds), Sleep(100)>>]))

test_fetch_filter_applied_before_history_deserialization == Alone(
  seed_and_corrupt_history("A", <<99, 0, 0>>)
  \o <<FetchFiltered(filter_for_range(<<1, 0, 0>>, <<2, 0, 0>>), GetsNothing),
       Fetch(BadHistory), Abandon(Mine, Null, TRUE, Succeeds)>>)

test_fetch_single_range_only_uses_first_range == Alone(
  LET two == << <<<<1, 0, 0>>, <<1, 5, 0>>>>, <<<<3, 0, 0>>, <<3, 5, 0>>>> >>
  IN  SeedBoth(<<1, 0, 0>>, <<3, 0, 0>>)
      \o <<FetchFiltered(two, Gets([instance |-> "A"])), Abandon(Mine, Null, TRUE, Succeeds),
           FetchFiltered(two, Gets([instance |-> "A"]))>>)

test_ack_appends_event_to_corrupted_history == Alone(
  seed_and_corrupt_history("A", <<1, 0, 0>>)
  \o <<Fetch(BadHistory),
       Ack(Mine, 1, <<Event(99999, "OrchestrationFailed")>>, Ending("Failed", "poison")),
       Query("get_instance_info", "A", Says([status |-> "Failed", output |-> "poison"]))>>)

CapabilityTests ==
  <<test_fetch_with_filter_none_returns_any_item,
    test_fetch_with_compatible_filter_returns_item,
    test_fetch_with_incompatible_filter_skips_item,
    test_fetch_filter_skips_incompatible_selects_compatible,
    test_fetch_filter_does_not_lock_skipped_instances,
    test_fetch_filter_null_pinned_version_always_compatible,
    test_fetch_filter_boundary_versions_inside, test_fetch_filter_boundary_versions,
    test_pinned_version_stored_via_ack_metadata,
    test_pinned_version_immutable_across_ack_cycles,
    test_continue_as_new_execution_gets_own_pinned_version,
    test_filter_with_empty_supported_versions_returns_nothing,
    test_concurrent_filtered_fetch_no_double_lock,
    test_ack_stores_pinned_version_via_metadata_update,
    test_provider_updates_pinned_version_when_told,
    test_fetch_corrupted_history_filtered_vs_unfiltered,
    test_fetch_deserialization_error_increments_attempt_count,
    test_fetch_deserialization_error_eventually_reaches_poison,
    test_fetch_filter_applied_before_history_deserialization,
    test_fetch_single_range_only_uses_first_range,
    test_ack_appends_event_to_corrupted_history>>

HistoryTests == AckTests \o CancellationTests \o CapabilityTests

=============================================================================
