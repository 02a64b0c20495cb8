-------------------------- MODULE ValidationQueues --------------------------
(***************************************************************************)
(* The validation functions of src/src/provider_validation/                *)
(* tag_filtering.rs, lock_expiration.rs, queue_semantics.rs,               *)
(* poison_message.rs and instance_locking.rs: who is given which queued    *)
(* item, when, and for how long.  Where a function spawns many tasks, it   *)
(* spawns three here, run in every order.                                  *)
(***************************************************************************)
EXTENDS Validation

lock_timeout == 5000

tagged_activity(i, id, tag) == [Activity(i, id) EXCEPT !.tag = tag]
Tags(mode, tags) == [mode |-> mode, tags |-> tags]
FetchTags(filter, want) == FetchWorkFor(5000, Null, filter, want)
Work(item) == Gets([item |-> item])
FetchShort(ms, want) == FetchWorkFor(ms, Null, DefaultOnly, want)
Finish(token, i, id, want) ==
  AckWorkItem(token, Message("ActivityCompleted", i, id), want)
FetchO(want) == FetchFor(lock_timeout, Null, want)
GetsInstance(i) == Gets([instance |-> i])
Attempt(n) == Gets([attempts |-> n])

(* The four activities most functions here enqueue. *)
Plain(id) == tagged_activity("A", id, Null)
Gpu(id) == tagged_activity("A", id, "gpu")
Cpu(id) == tagged_activity("A", id, "cpu")
EnqueueAll(items) == [x \in DOMAIN items |-> EnqueueWork(items[x])]

test_default_only_fetches_untagged == Alone(
  EnqueueAll(<<Plain(1), Gpu(2), Plain(3)>>)
  \o <<FetchTags(DefaultOnly, Work(Plain(1))), FetchTags(DefaultOnly, Work(Plain(3))),
       FetchTags(DefaultOnly, GetsNothing)>>)

test_tags_fetches_only_matching == Alone(
  EnqueueAll(<<Plain(1), Gpu(2), Cpu(3), Gpu(4)>>)
  \o <<FetchTags(Tags("Tags", {"gpu"}), Work(Gpu(2))),
       FetchTags(Tags("Tags", {"gpu"}), Work(Gpu(4))),
       FetchTags(Tags("Tags", {"gpu"}), GetsNothing)>>)

test_default_and_fetches_untagged_and_matching == Alone(
  EnqueueAll(<<Plain(1), Gpu(2), Cpu(3)>>)
  \o <<FetchTags(Tags("DefaultAnd", {"gpu"}), Work(Plain(1))),
       FetchTags(Tags("DefaultAnd", {"gpu"}), Work(Gpu(2))),
       FetchTags(Tags("DefaultAnd", {"gpu"}), GetsNothing)>>)

test_none_filter_returns_nothing == Alone(
  EnqueueAll(<<Plain(1), Gpu(2)>>) \o <<FetchTags(Tags("None", {}), GetsNothing)>>)

test_multi_tag_filter == Alone(
  LET both == Tags("Tags", {"gpu", "tpu"})
      tpu == tagged_activity("A", 2, "tpu")
  IN  EnqueueAll(<<Gpu(1), tpu, Cpu(3), Plain(4)>>)
      \o <<FetchTags(both, Work(Gpu(1))), FetchTags(both, Work(tpu)),
           FetchTags(both, GetsNothing)>>)

test_tag_round_trip_preservation == Alone(
  <<EnqueueWork(Gpu(1)), FetchTags(Tags("Tags", {"gpu"}), Work(Gpu(1)))>>)

test_any_filter_fetches_everything == Alone(
  LET any == Tags("Any", {})
  IN  EnqueueAll(<<Plain(1), Gpu(2), Cpu(3)>>)
      \o <<FetchTags(any, GetsItem), FetchTags(any, GetsItem), FetchTags(any, GetsItem),
           FetchTags(any, GetsNothing)>>)

test_tag_survives_abandon_and_refetch == Alone(
  EnqueueAll(<<Gpu(1), Plain(2)>>)
  \o <<FetchTags(Tags("Tags", {"gpu"}), Work(Gpu(1))),
       AbandonWork(1, Null, FALSE, Succeeds),
       FetchTags(Tags("Tags", {"gpu"}),
                 Gets([item |-> Gpu(1), attempts |-> 2, lock_token |-> 2])),
       FetchTags(DefaultOnly, Work(Plain(2)))>>)

test_multi_runtime_tag_isolation == Alone(
  LET fpga == tagged_activity("A", 4, "fpga")
      gpu_cpu == Tags("Tags", {"gpu", "cpu"})
      cpu_fpga == Tags("Tags", {"cpu", "fpga"})
  IN  EnqueueAll(<<Plain(1), Gpu(2), Cpu(3), fpga, Gpu(5)>>)
      \o <<FetchTags(DefaultOnly, Work(Plain(1))), FetchTags(DefaultOnly, GetsNothing),
           FetchTags(gpu_cpu, Work(Gpu(2))), FetchTags(gpu_cpu, Work(Cpu(3))),
           FetchTags(cpu_fpga, Work(fpga)), FetchTags(cpu_fpga, GetsNothing),
           FetchTags(Tags("Any", {}), Work(Gpu(5))),
           FetchTags(Tags("Any", {}), GetsNothing)>>)

test_tag_preserved_through_ack_orchestration_item == Alone(
  <<Enqueue(start_item("A")), Fetch(GetsItem),
    AckWork(Mine, 1, <<Started(1)>>, <<Gpu(10), Plain(11)>>, NoMetadata),
    FetchTags(DefaultOnly, Work(Plain(11))), AckWorkItem(Mine, Null, Succeeds),
    FetchTags(DefaultOnly, GetsNothing),
    FetchTags(Tags("Tags", {"gpu"}), Work(Gpu(10)))>>)

TagTests ==
  <<test_default_only_fetches_untagged, test_tags_fetches_only_matching,
    test_default_and_fetches_untagged_and_matching,
    test_none_filter_returns_nothing, test_multi_tag_filter,
    test_tag_round_trip_preservation, test_any_filter_fetches_everything,
    test_tag_survives_abandon_and_refetch, test_multi_runtime_tag_isolation,
    test_tag_preserved_through_ack_orchestration_item>>

-----------------------------------------------------------------------------
(* lock_expiration.rs                                                      *)

test_lock_expires_after_timeout == Alone(
  <<Enqueue(start_item("A")), FetchO(GetsItem), FetchO(GetsNothing),
    Sleep(lock_timeout + 100), FetchO(Gets([instance |-> "A", lock_token |-> 2])),
    AckAll(1, 1, <<>>, <<>>, <<>>, NoMetadata, {}, Fails)>>)

test_abandon_releases_lock_immediately == Alone(
  <<Enqueue(start_item("A")), FetchO(GetsItem), FetchO(GetsNothing),
    Abandon(Mine, Null, FALSE, Succeeds), FetchO(GetsInstance("A"))>>)

test_lock_renewal_on_ack == Alone(
  <<Enqueue(start_item("A")), FetchO(GetsItem), FetchO(GetsNothing),
    Enqueue(start_item("A")), FetchO(GetsNothing),
    Ack(Mine, 1, <<Started(1)>>, NoMetadata), FetchO(GetsInstance("A"))>>)

test_concurrent_lock_attempts_respect_expiration ==
  << << <<Enqueue(start_item("A")), FetchO(GetsItem)>> >>,
     [t \in 1..3 |-> <<Sleep((t - 1) * 50), FetchO(GetsNothing)>>],
     << <<Sleep(lock_timeout), FetchO(GetsInstance("A"))>> >> >>

test_worker_lock_renewal_success == Alone(
  <<EnqueueWork(Plain(1)), FetchShort(lock_timeout, GetsItem),
    FetchShort(lock_timeout, GetsNothing), Sleep(100),
    RenewWork(Mine, lock_timeout, Succeeds), FetchShort(lock_timeout, GetsNothing)>>)

test_worker_lock_renewal_invalid_token == Alone(<<RenewWork(99, 30000, Fails)>>)

test_worker_lock_renewal_after_expiration == Alone(
  <<EnqueueWork(Plain(1)), FetchShort(1000, GetsItem), Sleep(lock_timeout + 100),
    RenewWork(Mine, lock_timeout, Fails)>>)

test_worker_lock_renewal_extends_timeout == Alone(
  <<Enqueue(start_item("A")), Fetch(GetsItem),
    AckWork(Mine, 1, <<Started(1)>>, <<Plain(1)>>,
            [NoMetadata EXCEPT !.name = "TestOrch", !.status = "Running"]),
    FetchShort(lock_timeout, GetsItem), Sleep(3000),
    RenewWork(Mine, lock_timeout, Succeeds), Sleep(2000),
    FetchShort(lock_timeout, GetsNothing)>>)

test_worker_lock_renewal_after_ack == Alone(
  <<EnqueueWork(Plain(1)), FetchShort(lock_timeout, GetsItem),
    Finish(Mine, "A", 1, Succeeds), RenewWork(Mine, lock_timeout, Fails)>>)

test_abandon_work_item_releases_lock == Alone(
  <<EnqueueWork(Plain(1)), FetchShort(lock_timeout, Work(Plain(1))),
    FetchShort(lock_timeout, GetsNothing), AbandonWork(1, Null, FALSE, Succeeds),
    FetchShort(lock_timeout, Gets([item |-> Plain(1), lock_token |-> 2])),
    Finish(2, "A", 1, Succeeds)>>)

test_abandon_work_item_with_delay == Alone(
  <<EnqueueWork(Plain(1)), FetchShort(lock_timeout, GetsItem),
    AbandonWork(Mine, 500, FALSE, Succeeds), FetchShort(lock_timeout, GetsNothing),
    Sleep(600), FetchShort(lock_timeout, Work(Plain(1))), Finish(Mine, "A", 1, Succeeds)>>)

test_worker_ack_fails_after_lock_expiry == Alone(
  <<EnqueueWork(Plain(1)), FetchShort(1000, GetsItem), Sleep(1200),
    Finish(Mine, "A", 1, Fails), FetchShort(5000, GetsItem)>>)

test_orchestration_lock_renewal_after_expiration == Alone(
  <<Enqueue(start_item("A")), FetchO(GetsItem), Sleep(lock_timeout + 100),
    Renew(Mine, lock_timeout, Fails)>>)

ExpirationTests ==
  <<test_lock_expires_after_timeout, test_abandon_releases_lock_immediately,
    test_lock_renewal_on_ack, test_concurrent_lock_attempts_respect_expiration,
    test_worker_lock_renewal_success, test_worker_lock_renewal_invalid_token,
    test_worker_lock_renewal_after_expiration,
    test_worker_lock_renewal_extends_timeout, test_worker_lock_renewal_after_ack,
    test_abandon_work_item_releases_lock, test_abandon_work_item_with_delay,
    test_worker_ack_fails_after_lock_expiry,
    test_orchestration_lock_renewal_after_expiration>>

-----------------------------------------------------------------------------
(* queue_semantics.rs                                                      *)

test_worker_queue_fifo_ordering == Alone(
  EnqueueAll([id \in 1..5 |-> Plain(id)])
  \o [id \in 1..5 |-> FetchWork(Work(Plain(id)))] \o <<FetchWork(GetsNothing)>>)

test_worker_peek_lock_semantics == Alone(
  <<EnqueueWork(Plain(1)), FetchWork(GetsItem), FetchWork(GetsNothing),
    Finish(Mine, "A", 1, Succeeds), FetchWork(GetsNothing)>>)

(* The completion is enqueued by the transaction that removes the item. *)
test_worker_ack_atomicity == Alone(
  Seed("A", NoMetadata, <<Started(1)>>)
  \o <<EnqueueWork(Plain(1)), FetchWork(GetsItem), Finish(Mine, "A", 1, Succeeds),
       FetchWork(GetsNothing),
       Fetch(Gets([instance |-> "A",
                   messages |-> <<Message("ActivityCompleted", "A", 1)>>]))>>)

test_timer_delayed_visibility == Alone(
  LET timer == [kind |-> "TimerFired", instance |-> "A", id |-> 1, fire_at_ms |-> 0]
  IN  Seed("A", NoMetadata, <<Started(1)>>)
      \o <<EnqueueIn(timer, 5000, Succeeds), Fetch(GetsNothing), Sleep(5100),
           Fetch(Gets([instance |-> "A", messages |-> <<timer>>]))>>)

test_lost_lock_token_handling == Alone(
  <<EnqueueWork(Plain(1)), FetchShort(lock_timeout, GetsItem),
    FetchShort(lock_timeout, GetsNothing), Sleep(lock_timeout + 100),
    FetchShort(lock_timeout, Work(Plain(1)))>>)

test_worker_item_immediate_visibility == Alone(
  <<EnqueueWork(Plain(1)), FetchShort(lock_timeout, Work(Plain(1))),
    Finish(Mine, "A", 1, Succeeds)>>)

test_worker_delayed_visibility_skips_future_items == Alone(
  <<EnqueueWork(Plain(1)), EnqueueWork(Plain(2)),
    FetchShort(lock_timeout, Work(Plain(1))), AbandonWork(1, 500, FALSE, Succeeds),
    FetchShort(lock_timeout, Work(Plain(2))), FetchShort(lock_timeout, GetsNothing),
    Sleep(600), FetchShort(lock_timeout, Work(Plain(1))),
    Finish(2, "A", 2, Succeeds), Finish(3, "A", 1, Succeeds)>>)

test_orphan_queue_messages_dropped == Alone(
  LET message == Message("QueueMessage", "B", 3)
  IN  <<Enqueue(Message("QueueMessage", "A", 1)), Enqueue(Message("QueueMessage", "A", 2)),
        FetchFor(5000, Null, GetsNothing), FetchFor(5000, Null, GetsNothing)>>
      \o create_instance("B")
      \o <<Enqueue(message),
           FetchFor(5000, Null, Gets([instance |-> "B", messages |-> <<message>>])),
           Ack(Mine, 1, <<>>, NoMetadata)>>)

SemanticsTests ==
  <<test_worker_queue_fifo_ordering, test_worker_peek_lock_semantics,
    test_worker_ack_atomicity, test_timer_delayed_visibility,
    test_lost_lock_token_handling, test_worker_item_immediate_visibility,
    test_worker_delayed_visibility_skips_future_items,
    test_orphan_queue_messages_dropped>>

-----------------------------------------------------------------------------
(* poison_message.rs                                                       *)

orchestration_attempt_count_starts_at_one == Alone(
  <<Enqueue(start_item("A")), FetchO(Attempt(1)), Ack(Mine, 1, <<>>, NoMetadata)>>)

orchestration_attempt_count_increments_on_refetch == Alone(
  <<Enqueue(start_item("A")), FetchO(Attempt(1)), Abandon(Mine, Null, FALSE, Succeeds),
    FetchO(Attempt(2)), Abandon(Mine, Null, FALSE, Succeeds),
    FetchO(Attempt(3)), Ack(Mine, 1, <<>>, NoMetadata)>>)

worker_attempt_count_starts_at_one == Alone(
  <<EnqueueWork(Plain(1)), FetchShort(lock_timeout, Attempt(1)),
    Finish(Mine, "A", 1, Succeeds)>>)

worker_attempt_count_increments_on_lock_expiry == Alone(
  <<EnqueueWork(Plain(1)), FetchShort(1000, Attempt(1)), Sleep(1100),
    FetchShort(1000, Attempt(2)), Finish(Mine, "A", 1, Succeeds)>>)

attempt_count_is_per_message == Alone(
  LET second == tagged_activity("B", 2, Null)
  IN  <<EnqueueWork(Plain(1)), EnqueueWork(second),
        FetchShort(lock_timeout, Gets([item |-> Plain(1), attempts |-> 1])),
        FetchShort(lock_timeout, Gets([item |-> second, attempts |-> 1])),
        Finish(1, "A", 1, Succeeds), Finish(2, "B", 2, Succeeds)>>)

abandon_work_item_ignore_attempt_decrements == Alone(
  <<EnqueueWork(Plain(1)), FetchShort(lock_timeout, Attempt(1)),
    AbandonWork(Mine, Null, FALSE, Succeeds), FetchShort(lock_timeout, Attempt(2)),
    AbandonWork(Mine, Null, TRUE, Succeeds), FetchShort(lock_timeout, Attempt(2)),
    Finish(Mine, "A", 1, Succeeds)>>)

abandon_orchestration_item_ignore_attempt_decrements == Alone(
  <<Enqueue(start_item("A")), FetchO(Attempt(1)), Abandon(Mine, Null, FALSE, Succeeds),
    FetchO(Attempt(2)), Abandon(Mine, Null, TRUE, Succeeds), FetchO(Attempt(2)),
    Ack(Mine, 1, <<>>, NoMetadata)>>)

ignore_attempt_never_goes_negative == Alone(
  <<EnqueueWork(Plain(1)), FetchShort(lock_timeout, Attempt(1)),
    AbandonWork(Mine, Null, TRUE, Succeeds), FetchShort(lock_timeout, Attempt(1)),
    AbandonWork(Mine, Null, TRUE, Succeeds), FetchShort(lock_timeout, Attempt(1)),
    Finish(Mine, "A", 1, Succeeds)>>)

max_attempt_count_across_message_batch == Alone(
  <<Enqueue(start_item("A")), FetchO(Gets([attempts |-> 1, message_count |-> 1])),
    Abandon(Mine, Null, FALSE, Succeeds), FetchO(Attempt(2)),
    Enqueue(Message("ActivityCompleted", "A", 1)), Abandon(Mine, Null, FALSE, Succeeds),
    FetchO(Gets([message_count |-> 2, attempts |-> 3])),
    Ack(Mine, 1, <<>>, NoMetadata)>>)

PoisonTests ==
  <<orchestration_attempt_count_starts_at_one,
    orchestration_attempt_count_increments_on_refetch,
    worker_attempt_count_starts_at_one,
    worker_attempt_count_increments_on_lock_expiry, attempt_count_is_per_message,
    abandon_work_item_ignore_attempt_decrements,
    abandon_orchestration_item_ignore_attempt_decrements,
    ignore_attempt_never_goes_negative, max_attempt_count_across_message_batch>>

-----------------------------------------------------------------------------
(* instance_locking.rs                                                     *)

Completed(id) == Message("ActivityCompleted", "A", id)

test_exclusive_instance_lock == Alone(
  <<Enqueue(start_item("A")), FetchO(GetsItem), FetchO(GetsNothing),
    Sleep(lock_timeout + 100), FetchO(Gets([lock_token |-> 2]))>>)

test_lock_token_uniqueness == Alone(
  LET ids == <<"A", "B", "C", "D", "E">>
  IN  [x \in DOMAIN ids |-> Enqueue(start_item(ids[x]))]
      \o [x \in DOMAIN ids |-> Fetch(Gets([lock_token |-> x]))])

test_invalid_lock_token_rejection == Alone(
  <<Enqueue(start_item("A")), Fetch(GetsItem),
    AckAll(99, 1, <<>>, <<>>, <<>>, NoMetadata, {}, Fails),
    Abandon(99, Null, FALSE, Fails), Fetch(GetsNothing)>>)

test_concurrent_instance_fetching ==
  << << <<Enqueue(start_item("A")), Enqueue(start_item("B")),
          Enqueue(start_item("C"))>> >>,
     [t \in 1..3 |-> <<Fetch(GetsItem)>>],
     << <<Won(3), Fetch(GetsNothing)>> >> >>

test_completions_arriving_during_lock_blocked == Alone(
  <<Enqueue(start_item("A")), FetchO(GetsInstance("A")),
    Enqueue(Completed(1)), Enqueue(Completed(2)), Enqueue(Completed(3)),
    FetchO(GetsNothing), Sleep(lock_timeout + 100),
    FetchO(Gets([instance |-> "A",
      messages |-> <<start_item("A"), Completed(1), Completed(2), Completed(3)>>]))>>)

test_cross_instance_lock_isolation == Alone(
  create_instance("A") \o create_instance("B")
  \o <<Enqueue(start_item("A")), Enqueue(start_item("B")),
       Fetch(GetsInstance("A")), Fetch(GetsInstance("B")),
       Ack(Mine, 1, <<>>, Named), Enqueue(Message("ActivityCompleted", "B", 1)),
       Fetch(GetsInstance("B"))>>)

test_message_tagging_during_lock == Alone(
  create_instance("A")
  \o <<Enqueue(Completed(1)), Enqueue(Completed(2)),
       Fetch(Gets([instance |-> "A", message_count |-> 2])), Enqueue(Completed(3)),
       Ack(Mine, 1, <<>>, NoMetadata),
       Fetch(Gets([instance |-> "A", messages |-> <<Completed(3)>>]))>>)

test_ack_only_affects_locked_messages == Alone(
  create_instance("A")
  \o <<Enqueue(Completed(1)), Fetch(Gets([message_count |-> 1])),
       Enqueue(Completed(2)), Enqueue(Completed(3)), Fetch(GetsNothing),
       Ack(Mine, 1, <<>>, NoMetadata),
       Fetch(Gets([instance |-> "A", messages |-> <<Completed(2), Completed(3)>>]))>>)

test_multi_threaded_lock_contention ==
  << << <<Enqueue(start_item("A"))>> >>, [t \in 1..3 |-> <<Fetch(Succeeds)>>],
     << <<Won(1), Fetch(GetsNothing)>> >> >>

(* More tasks than instances: each instance is won once. *)
test_multi_threaded_no_duplicate_processing ==
  << << <<Enqueue(start_item("A")), Enqueue(start_item("B"))>> >>,
     [t \in 1..4 |-> <<Fetch(Succeeds)>>], << <<Won(2), Fetch(GetsNothing)>> >> >>

(* The sleeps of its three tasks fix the order of their fetches. *)
test_multi_threaded_lock_expiration_recovery == Alone(
  <<Enqueue(start_item("A")), FetchO(GetsInstance("A")), Sleep(200),
    FetchO(GetsNothing), Sleep(lock_timeout - 100), FetchO(GetsInstance("A"))>>)

LockingTests ==
  <<test_exclusive_instance_lock, test_lock_token_uniqueness,
    test_invalid_lock_token_rejection, test_concurrent_instance_fetching,
    test_completions_arriving_during_lock_blocked,
    test_cross_instance_lock_isolation, test_message_tagging_during_lock,
    test_ack_only_affects_locked_messages, test_multi_threaded_lock_contention,
    test_multi_threaded_no_duplicate_processing,
    test_multi_threaded_lock_expiration_recovery>>

QueueTests ==
  TagTests \o ExpirationTests \o SemanticsTests \o PoisonTests \o LockingTests

=============================================================================
