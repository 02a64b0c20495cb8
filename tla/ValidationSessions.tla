------------------------- MODULE ValidationSessions -------------------------
(***************************************************************************)
(* The validation functions of src/src/provider_validation/sessions.rs: an *)
(* item that names a session goes only to the worker that owns the         *)
(* session, for as long as the session's own lock lasts.                   *)
(***************************************************************************)
EXTENDS Validation

session_activity(i, id, session) == [Activity(i, id) EXCEPT !.session = session]
session_config_with_lock(owner, lock) == [owner |-> owner, lock |-> lock]
session_config(owner) == session_config_with_lock(owner, 30000)

FetchSession(config, want) == FetchWorkFor(5000, config, DefaultOnly, want)
FetchAs(worker, want) == FetchSession(session_config(worker), want)
GetsWork(item) == Gets([item |-> item])
GetsAgain(item, attempts) == Gets([item |-> item, attempts |-> attempts])
DoneWork(want) == AckWorkItem(Mine, Null, want)
Completion(i, id) == Message("ActivityCompleted", i, id)

On1(id) == session_activity("A", id, "s1")

(* Worker A claims the session with its first item, and finishes the item. *)
ClaimedFor(lock) ==
  <<EnqueueWork(On1(1)), FetchSession(session_config_with_lock("wA", lock), GetsItem),
    DoneWork(Succeeds)>>
Claimed == ClaimedFor(30000)

test_non_session_items_fetchable_by_any_worker == Alone(
  <<EnqueueWork(Activity("A", 1)), FetchAs("wA", GetsItem)>>)

test_session_item_claimable_when_no_session == Alone(
  <<EnqueueWork(On1(1)), FetchAs("wA", GetsWork(On1(1)))>>)

test_session_affinity_same_worker == Alone(
  Claimed \o <<EnqueueWork(On1(2)), FetchAs("wA", GetsItem)>>)

test_session_affinity_blocks_other_worker == Alone(
  Claimed \o <<EnqueueWork(On1(2)), FetchAs("wB", GetsNothing)>>)

test_different_sessions_different_workers == Alone(
  LET On2(id) == session_activity("B", id, "s2")
  IN  Claimed
      \o <<EnqueueWork(On2(1)), FetchAs("wB", GetsItem), DoneWork(Succeeds),
           EnqueueWork(On1(2)), EnqueueWork(On2(2)),
           FetchAs("wA", GetsWork(On1(2))), FetchAs("wB", GetsWork(On2(2)))>>)

test_mixed_session_and_non_session_items == Alone(
  Claimed \o <<EnqueueWork(On1(2)), EnqueueWork(Activity("B", 1)),
               FetchAs("wB", GetsWork(Activity("B", 1)))>>)

test_session_claimable_after_lock_expiry == Alone(
  ClaimedFor(50) \o <<Sleep(100), EnqueueWork(On1(2)), FetchAs("wB", GetsItem)>>)

test_none_session_skips_session_items == Alone(
  <<EnqueueWork(On1(1)), EnqueueWork(Activity("B", 2)),
    FetchSession(Null, GetsWork(Activity("B", 2))), DoneWork(Succeeds),
    FetchSession(Null, GetsNothing), FetchAs("wA", GetsWork(On1(1)))>>)

test_some_session_returns_all_items == Alone(
  LET items == <<session_activity("A", 1, "sA"), session_activity("B", 2, "sB"),
                 session_activity("C", 3, "sC"), Activity("D", 4)>>
  IN  [x \in DOMAIN items |-> EnqueueWork(items[x])]
      \o Flat([x \in DOMAIN items |->
                 <<FetchAs("shared", GetsWork(items[x])), DoneWork(Succeeds)>>])
      \o <<FetchAs("shared", GetsNothing)>>)

test_renew_session_lock_active == Alone(
  ClaimedFor(5000)
  \o <<RenewSessions({"wA"}, 30000, 300000, [count |-> 1]),
       EnqueueWork(session_activity("B", 1, "s2")), FetchAs("wA", GetsItem),
       DoneWork(Succeeds), RenewSessions({"wA"}, 30000, 300000, [count |-> 2])>>)

test_renew_session_lock_skips_idle == Alone(
  Claimed \o <<RenewSessions({"wA"}, 30000, 0, [count |-> 0])>>)

test_renew_session_lock_no_sessions == Alone(
  <<RenewSessions({"wA"}, 30000, 300000, [count |-> 0])>>)

test_cleanup_removes_expired_no_items == Alone(
  ClaimedFor(50) \o <<Sleep(100), CleanupSessions([count |-> 1])>>)

test_cleanup_keeps_sessions_with_pending_items == Alone(
  ClaimedFor(50)
  \o <<EnqueueWork(On1(2)), Sleep(100), CleanupSessions([count |-> 0])>>)

test_cleanup_keeps_active_sessions == Alone(
  ClaimedFor(300000) \o <<CleanupSessions([count |-> 0])>>)

(* Work on an item counts as activity of its session; the claim alone is    *)
(* older than the idle window of 200 ms.                                    *)
test_ack_updates_session_last_activity == Alone(
  <<EnqueueWork(On1(1)), FetchAs("wA", GetsItem), Sleep(250),
    AckWorkItem(Mine, Completion("A", 1), Succeeds),
    RenewSessions({"wA"}, 30000, 200, [count |-> 1])>>)

test_renew_work_item_updates_session_last_activity == Alone(
  <<EnqueueWork(On1(1)), FetchAs("wA", GetsItem), Sleep(250),
    RenewWork(Mine, 30000, Succeeds),
    RenewSessions({"wA"}, 30000, 200, [count |-> 1])>>)

test_session_items_processed_in_order == Alone(
  [id \in 1..3 |-> EnqueueWork(On1(id))]
  \o Flat([id \in 1..3 |-> <<FetchAs("wA", GetsWork(On1(id))), DoneWork(Succeeds)>>]))

test_non_session_items_returned_with_session_config == Alone(
  Claimed \o <<EnqueueWork(Activity("B", 1)), FetchAs("wA", GetsWork(Activity("B", 1)))>>)

test_shared_worker_id_any_caller_can_fetch_owned_session == Alone(
  [id \in 1..2 |-> EnqueueWork(On1(id))]
  \o Flat([id \in 1..2 |-> <<FetchAs("p1", GetsWork(On1(id))), DoneWork(Succeeds)>>])
  \o <<EnqueueWork(On1(3)), FetchAs("p2", GetsNothing)>>)

test_concurrent_session_claim_only_one_wins == Alone(
  <<EnqueueWork(On1(1)), EnqueueWork(On1(2)), FetchAs("wA", GetsItem),
    FetchAs("wB", GetsNothing), AckWorkItem(1, Null, Succeeds)>>)

test_session_takeover_after_lock_expiry == Alone(
  ClaimedFor(50)
  \o <<EnqueueWork(On1(2)), Sleep(100), FetchAs("wB", GetsWork(On1(2)))>>)

test_cleanup_then_new_item_recreates_session == Alone(
  ClaimedFor(50)
  \o <<Sleep(100), CleanupSessions([count |-> 1]), EnqueueWork(On1(2)),
       FetchAs("wB", GetsWork(On1(2)))>>)

test_abandoned_session_item_retryable == Alone(
  <<EnqueueWork(On1(1)), FetchAs("wA", GetsAgain(On1(1), 1)),
    AbandonWork(Mine, Null, FALSE, Succeeds),
    FetchAs("wA", GetsAgain(On1(1), 2)), DoneWork(Succeeds),
    FetchAs("wA", GetsNothing)>>)

test_abandoned_session_item_ignore_attempt == Alone(
  <<EnqueueWork(On1(1)), FetchAs("wA", GetsAgain(On1(1), 1)),
    AbandonWork(Mine, 1, TRUE, Succeeds), Sleep(10),
    FetchAs("wA", GetsAgain(On1(1), 1)), DoneWork(Succeeds)>>)

test_renew_session_lock_after_expiry_returns_zero == Alone(
  ClaimedFor(50) \o <<Sleep(100), RenewSessions({"wA"}, 30000, 300000, [count |-> 0])>>)

test_original_worker_reclaims_expired_session == Alone(
  ClaimedFor(50)
  \o <<EnqueueWork(On1(2)), Sleep(100), FetchAs("wA", GetsWork(On1(2)))>>)

(* The item's lock and the session's lock expire independently. *)
test_activity_lock_expires_session_lock_valid_same_worker_refetches == Alone(
  <<EnqueueWork(On1(1)), FetchWorkFor(500, session_config("wA"), DefaultOnly, GetsItem),
    Sleep(600), FetchAs("wB", GetsNothing), FetchAs("wA", GetsAgain(On1(1), 2)),
    DoneWork(Succeeds)>>)

test_session_lock_expires_new_owner_gets_redelivery == Alone(
  <<EnqueueWork(On1(1)), FetchSession(session_config_with_lock("wA", 200), GetsItem),
    Sleep(300), EnqueueWork(On1(2)), FetchAs("wB", GetsWork(On1(2))),
    DoneWork(Succeeds), AbandonWork(1, Null, FALSE, Anything),
    FetchAs("wB", GetsAgain(On1(1), 2)), DoneWork(Succeeds)>>)

test_session_lock_expires_same_worker_reacquires == Alone(
  ClaimedFor(200)
  \o <<Sleep(300), EnqueueWork(On1(2)),
       FetchSession(session_config_with_lock("wA", 200), GetsWork(On1(2))),
       DoneWork(Succeeds)>>)

test_both_locks_expire_different_worker_claims == Alone(
  <<EnqueueWork(On1(1)),
    FetchWorkFor(200, session_config_with_lock("wA", 200), DefaultOnly, GetsItem),
    Sleep(400), FetchAs("wB", GetsAgain(On1(1), 2)), DoneWork(Succeeds)>>)

test_session_lock_expires_activity_lock_valid_ack_succeeds == Alone(
  <<EnqueueWork(On1(1)),
    FetchWorkFor(30000, session_config_with_lock("wA", 200), DefaultOnly, GetsItem),
    Sleep(300), AckWorkItem(Mine, Completion("A", 1), Succeeds)>>)

test_session_lock_renewal_extends_past_original_timeout == Alone(
  ClaimedFor(1000)
  \o <<Sleep(600), RenewSessions({"wA"}, 1000, 300000, [count |-> 1]), Sleep(400),
       EnqueueWork(On1(2)), FetchAs("wB", GetsNothing), FetchAs("wA", GetsItem)>>)

SessionTests ==
  <<test_non_session_items_fetchable_by_any_worker,
    test_session_item_claimable_when_no_session,
    test_session_affinity_same_worker,
    test_session_affinity_blocks_other_worker,
    test_different_sessions_different_workers,
    test_mixed_session_and_non_session_items,
    test_session_claimable_after_lock_expiry,
    test_none_session_skips_session_items,
    test_some_session_returns_all_items,
    test_renew_session_lock_active,
    test_renew_session_lock_skips_idle,
    test_renew_session_lock_no_sessions,
    test_cleanup_removes_expired_no_items,
    test_cleanup_keeps_sessions_with_pending_items,
    test_cleanup_keeps_active_sessions,
    test_ack_updates_session_last_activity,
    test_renew_work_item_updates_session_last_activity,
    test_session_items_processed_in_order,
    test_non_session_items_returned_with_session_config,
    test_shared_worker_id_any_caller_can_fetch_owned_session,
    test_concurrent_session_claim_only_one_wins,
    test_session_takeover_after_lock_expiry,
    test_cleanup_then_new_item_recreates_session,
    test_abandoned_session_item_retryable,
    test_abandoned_session_item_ignore_attempt,
    test_renew_session_lock_after_expiry_returns_zero,
    test_original_worker_reclaims_expired_session,
    test_activity_lock_expires_session_lock_valid_same_worker_refetches,
    test_session_lock_expires_new_owner_gets_redelivery,
    test_session_lock_expires_same_worker_reacquires,
    test_both_locks_expire_different_worker_claims,
    test_session_lock_expires_activity_lock_valid_ack_succeeds,
    test_session_lock_renewal_extends_past_original_timeout>>

=============================================================================
