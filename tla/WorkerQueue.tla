---------------------------- MODULE WorkerQueue ----------------------------
(***************************************************************************)
(* The worker queue of the SQLite/Turso provider (tables worker_queue and  *)
(* sessions) and the worker dispatchers that execute activities from it:   *)
(* fetching under a lock, the activity manager that renews the lock and    *)
(* detects cancellation, acknowledgement, abandonment, poison handling,    *)
(* session affinity with its per-runtime limit, and crashes.               *)
(*                                                                         *)
(* A row is named by its AUTOINCREMENT id; each activity is scheduled once *)
(* and so is its row.  Time is a countdown, as in OrchestratorQueue: a     *)
(* row's `left' is locked_until - now (0: unlocked or expired), `hide' is  *)
(* visible_at - now, and a session's `idle' is last_activity_at +          *)
(* session_idle_timeout - now.                                             *)
(***************************************************************************)
EXTENDS Integers, FiniteSets

CONSTANTS
    Runtime,         \* the processes
    Worker,          \* worker slots, over all the runtimes
    Host,            \* the runtime of each slot
    Session,         \* session ids
    NoSession,       \* the NULL session_id
    Tag,             \* activity tags, the default (NULL) tag being one
    Accepts,         \* worker_tag_filter: the tags each slot fetches
    StableIds,       \* is worker_node_id configured?
    LockTimeout,     \* worker_lock_timeout, in ticks
    SessionTimeout,  \* session_lock_timeout
    IdleTimeout,     \* session_idle_timeout
    MaxSessions,     \* max_sessions_per_runtime
    MaxAttempts,     \* RuntimeOptions.max_attempts
    MaxDelay,        \* longest backoff, in ticks
    RenewErrors,     \* may a renewal fail though the lock is valid?
    MaxRows,         \* bound: activities ever scheduled
    MaxTokens,       \* bound: tokens of one row referenced at the same time
    MaxFaults        \* bound: crashes, stopped tasks, provider errors, late slots

(* start_with_options panics unless session_idle_timeout is greater than   *)
(* the renewal interval of the worker lock, which in ticks is at most      *)
(* LockTimeout - 1.                                                        *)
ASSUME WorkerAssumption ==
    /\ IsFiniteSet(Worker) /\ Host \in [Worker -> Runtime]
    /\ Accepts \in [Worker -> SUBSET Tag]
    /\ NoSession \notin Session
    /\ StableIds \in BOOLEAN /\ RenewErrors \in BOOLEAN
    /\ LockTimeout \in Nat \ {0} /\ SessionTimeout \in Nat \ {0}
    /\ IdleTimeout \in Nat /\ IdleTimeout > LockTimeout - 1
    /\ MaxSessions \in Nat /\ MaxAttempts \in Nat /\ MaxDelay \in Nat \ {0}
    /\ MaxRows \in Nat /\ MaxTokens \in Nat /\ MaxFaults \in Nat

VARIABLES
    queue,           \* worker_queue: live row id |-> row
    sessions,        \* sessions: session id |-> row
    pc,              \* what each slot is doing
    item,            \* the work item each slot holds
    managing,        \* runtimes whose session manager renews
    epoch,           \* restarts of each runtime (its runtime_id)
    reported,        \* completions enqueued for the orchestrator, per row
    dropped,         \* rows acknowledged without a completion
    cancelled,       \* activities cancelled by their orchestration
    starts,          \* times the handler of each activity was invoked
    nextRow,         \* the next AUTOINCREMENT id
    faults           \* faults still allowed

vars == <<queue, sessions, pc, item, managing, epoch, reported, dropped,
          cancelled, starts, nextRow, faults>>

Row == 1..MaxRows
NoRow == 0
Token == 1..MaxTokens
NoToken == 0

(* Attempts past the limit are alike, and an uncounted abandonment takes   *)
(* back at most the fetch it follows.                                      *)
Attempt == 0..(MaxAttempts + 2)

RowRecord == [sess : Session \cup {NoSession}, tag : Tag, hide : 0..MaxDelay,
              tok : Token \cup {NoToken}, left : 0..LockTimeout, att : Attempt]

OwnerId == (Runtime \cup Worker) \X Nat

SessionRecord == [owner : OwnerId, left : 0..SessionTimeout, idle : 0..IdleTimeout]

(* renewing: the activity manager runs; signalled: it fired the            *)
(* cancellation token.                                                     *)
Item == [row : Row \cup {NoRow}, sess : Session \cup {NoSession},
         tok : Token \cup {NoToken}, att : Attempt,
         renewing : BOOLEAN, signalled : BOOLEAN]

NoItem == [row |-> NoRow, sess |-> NoSession, tok |-> NoToken, att |-> 0,
           renewing |-> FALSE, signalled |-> FALSE]

(* "plain" is a fetch in non-session mode; "guarded" holds a SessionGuard, *)
(* "over" has found the limit exceeded, "giveback" has dropped its guard;  *)
(* "acking" and "stopping" are about to ack with and without a completion; *)
(* "failed" had its ack refused.                                           *)
Stage == {"idle", "polled", "plain", "fetched", "guarded", "over", "giveback",
          "running", "acking", "stopping", "failed"}

Init ==
    /\ queue = [a \in {} |-> {}]
    /\ sessions = [s \in {} |-> {}]
    /\ pc = [w \in Worker |-> "idle"]
    /\ item = [w \in Worker |-> NoItem]
    /\ managing = Runtime
    /\ epoch = [h \in Runtime |-> 0]
    /\ reported = [a \in Row |-> 0]
    /\ dropped = {}
    /\ cancelled = {}
    /\ starts = [a \in Row |-> 0]
    /\ nextRow = 1
    /\ faults = MaxFaults

----------------------------------------------------------------------------
(* The tables. *)

(* session_owner: the node id shared by every slot, or one id per slot     *)
(* which includes the runtime_id of this run of the process.               *)
Owner(w) == IF StableIds THEN <<Host[w], 0>> ELSE <<w, epoch[Host[w]]>>

Owners(h) == {Owner(w) : w \in {v \in Worker : Host[v] = h}}

(* LEFT JOIN sessions s ON ... AND s.locked_until > now *)
SessionHeld(s) == s \in DOMAIN sessions /\ sessions[s].left > 0

(* Mutant: a session nobody owns is not claimed. *)
ClaimableIfOwned(w, s) == SessionHeld(s) /\ sessions[s].owner = Owner(w)

Claimable(w, s) == SessionHeld(s) => sessions[s].owner = Owner(w)

(* Mutant: the fetch does not look at the lock. *)
CandidatesLocked(w) ==
    {a \in DOMAIN queue :
        /\ queue[a].hide = 0
        /\ queue[a].tag \in Accepts[w]
        /\ \/ queue[a].sess = NoSession
           \/ pc[w] = "polled" /\ Claimable(w, queue[a].sess)}

Candidates(w) ==
    {a \in DOMAIN queue :
        /\ queue[a].hide = 0 /\ queue[a].left = 0
        /\ queue[a].tag \in Accepts[w]
        /\ \/ queue[a].sess = NoSession
           \/ pc[w] = "polled" /\ Claimable(w, queue[a].sess)}

(* ORDER BY q.id LIMIT 1 *)
IsHead(w, a) == a \in Candidates(w) /\ \A b \in Candidates(w) : a <= b

(* generate_lock_token: a value nobody refers to.  A token is only ever     *)
(* used with the row it was generated for, so the model numbers the tokens *)
(* of each row.                                                            *)
TokensOf(a) ==
    {queue[a].tok} \cup {item[w].tok : w \in {v \in Worker : item[v].row = a}}

FreeTokens(a) == Token \ TokensOf(a)

FreshToken(a) == CHOOSE t \in FreeTokens(a) : TRUE

Bump(att) == IF att = MaxAttempts + 2 THEN att ELSE att + 1

Decay(n) == IF n = 0 THEN 0 ELSE n - 1

(* The row still carries the token of w's fetch. *)
Holds(w) ==
    /\ item[w].row \in DOMAIN queue
    /\ queue[item[w].row].tok = item[w].tok

(* ... AND locked_until > now *)
HoldsValid(w) == Holds(w) /\ queue[item[w].row].left > 0

Delete(a) == queue' = [b \in (DOMAIN queue) \ {a} |-> queue[b]]

(* Mutant: last_activity_at is only set by the fetch. *)
TouchNever(s) == sessions' = sessions

Touched(x) == [x EXCEPT !.idle = IdleTimeout]

(* UPDATE sessions SET last_activity_at = now                              *)
(* WHERE session_id = ? AND locked_until > now                             *)
Touch(s) ==
    sessions' = [r \in DOMAIN sessions |->
                    IF r = s /\ SessionHeld(s)
                      THEN Touched(sessions[r])
                      ELSE sessions[r]]

(* SessionTracker::distinct_count of a runtime: the sessions for which a   *)
(* SessionGuard lives.                                                     *)
InFlight(h) ==
    {item[w].sess : w \in {v \in Worker :
        /\ Host[v] = h
        /\ pc[v] \in {"guarded", "over", "running", "acking", "stopping", "failed"}}}
      \ {NoSession}

Idle(w) ==
    /\ pc' = [pc EXCEPT ![w] = "idle"]
    /\ item' = [item EXCEPT ![w] = NoItem]

Fault == faults > 0 /\ faults' = faults - 1

----------------------------------------------------------------------------
(* The orchestrator's side: both are statements of ack_orchestration_item. *)

NewRow(s, g) == [sess |-> s, tag |-> g, hide |-> 0, tok |-> NoToken, left |-> 0, att |-> 0]

Schedule(s, g) ==
    /\ nextRow <= MaxRows
    /\ queue' = [a \in (DOMAIN queue) \cup {nextRow} |->
                    IF a = nextRow THEN NewRow(s, g) ELSE queue[a]]
    /\ nextRow' = nextRow + 1
    /\ UNCHANGED <<sessions, pc, item, managing, epoch, reported, dropped,
                   cancelled, starts, faults>>

(* Mutant: a row that a worker has locked is left to it. *)
CancelUnlocked(a) ==
    /\ a < nextRow
    /\ a \notin cancelled
    /\ cancelled' = cancelled \cup {a}
    /\ IF a \in DOMAIN queue /\ queue[a].left > 0 THEN UNCHANGED queue ELSE Delete(a)
    /\ UNCHANGED <<sessions, pc, item, managing, epoch, reported, dropped,
                   starts, nextRow, faults>>

(* Lock stealing: the row is deleted, locked or not, if it is still there. *)
Cancel(a) ==
    /\ a < nextRow
    /\ a \notin cancelled
    /\ cancelled' = cancelled \cup {a}
    /\ Delete(a)
    /\ UNCHANGED <<sessions, pc, item, managing, epoch, reported, dropped,
                   starts, nextRow, faults>>

----------------------------------------------------------------------------
(* process_next_work_item, up to the point where the activity runs. *)

(* The capacity check before the fetch: at the limit the fetch ignores     *)
(* session rows.  It is only a hint, other slots may pass it meanwhile.    *)
Poll(w) ==
    /\ pc[w] = "idle"
    /\ pc' = [pc EXCEPT ![w] =
                 IF Cardinality(InFlight(Host[w])) >= MaxSessions THEN "plain" ELSE "polled"]
    /\ UNCHANGED <<queue, sessions, item, managing, epoch, reported, dropped,
                   cancelled, starts, nextRow, faults>>

(* Mutant: ON CONFLICT leaves last_activity_at as it was. *)
ClaimInactive(w, s) ==
    sessions' =
        IF s = NoSession THEN sessions
        ELSE [r \in (DOMAIN sessions) \cup {s} |->
                IF r = s THEN [owner |-> Owner(w), left |-> SessionTimeout,
                               idle |-> IF s \in DOMAIN sessions THEN sessions[s].idle
                                        ELSE IdleTimeout]
                         ELSE sessions[r]]

(* INSERT ... ON CONFLICT DO UPDATE ... WHERE expired or already mine; the *)
(* SELECT of the same transaction has excluded every other case.           *)
Claim(w, s) ==
    sessions' =
        IF s = NoSession THEN sessions
        ELSE [r \in (DOMAIN sessions) \cup {s} |->
                IF r = s THEN [owner |-> Owner(w), left |-> SessionTimeout,
                               idle |-> IdleTimeout]
                         ELSE sessions[r]]

Leased(r, t) == [r EXCEPT !.tok = t, !.left = LockTimeout, !.att = Bump(@)]

Fetch(w) ==
    /\ pc[w] \in {"polled", "plain"}
    /\ \E a \in Candidates(w) :
          /\ IsHead(w, a)
          /\ FreeTokens(a) # {}
          /\ queue' = [queue EXCEPT ![a] = Leased(@, FreshToken(a))]
          /\ Claim(w, queue[a].sess)
          /\ item' = [item EXCEPT ![w] =
                [row |-> a, sess |-> queue[a].sess, tok |-> FreshToken(a),
                 att |-> Bump(queue[a].att), renewing |-> FALSE, signalled |-> FALSE]]
          /\ pc' = [pc EXCEPT ![w] =
                IF queue[a].sess = NoSession THEN "guarded" ELSE "fetched"]
    /\ UNCHANGED <<managing, epoch, reported, dropped, cancelled, starts, nextRow, faults>>

FetchNone(w) ==
    /\ pc[w] \in {"polled", "plain"}
    /\ Candidates(w) = {}
    /\ pc' = [pc EXCEPT ![w] = "idle"]
    /\ UNCHANGED <<queue, sessions, item, managing, epoch, reported, dropped,
                   cancelled, starts, nextRow, faults>>

(* SessionGuard::new increments the tracker; the re-check is a second      *)
(* acquisition of its mutex.                                               *)
Guard(w) ==
    /\ pc[w] = "fetched"
    /\ pc' = [pc EXCEPT ![w] = "guarded"]
    /\ UNCHANGED <<queue, sessions, item, managing, epoch, reported, dropped,
                   cancelled, starts, nextRow, faults>>

(* Mutant: the check before the fetch is trusted. *)
OverCapacityNever(w) == FALSE

OverCapacity(w) ==
    item[w].sess # NoSession /\ Cardinality(InFlight(Host[w])) > MaxSessions

Overflow(w) ==
    /\ pc[w] = "guarded"
    /\ OverCapacity(w)
    /\ pc' = [pc EXCEPT ![w] = "over"]
    /\ UNCHANGED <<queue, sessions, item, managing, epoch, reported, dropped,
                   cancelled, starts, nextRow, faults>>

(* drop(guard) *)
DropGuard(w) ==
    /\ pc[w] = "over"
    /\ pc' = [pc EXCEPT ![w] = "giveback"]
    /\ UNCHANGED <<queue, sessions, item, managing, epoch, reported, dropped,
                   cancelled, starts, nextRow, faults>>

(* Mutant: every abandonment takes its attempt back. *)
ReleasedUncounted(r, delay, ignoreAttempt) ==
    [r EXCEPT !.tok = NoToken, !.left = 0, !.hide = delay, !.att = Decay(@)]

Released(r, delay, ignoreAttempt) ==
    [r EXCEPT !.tok = NoToken, !.left = 0, !.hide = delay,
              !.att = IF ignoreAttempt THEN Decay(@) ELSE @]

(* abandon_work_item: by token, expired or not; the result is ignored.     *)
Abandon(w, delay, ignoreAttempt) ==
    queue' = [a \in DOMAIN queue |->
                 IF Holds(w) /\ a = item[w].row
                   THEN Released(queue[a], delay, ignoreAttempt)
                   ELSE queue[a]]

GiveBack(w) ==
    /\ pc[w] = "giveback"
    /\ \E delay \in 1..MaxDelay : Abandon(w, delay, TRUE)
    /\ Idle(w)
    /\ UNCHANGED <<sessions, managing, epoch, reported, dropped, cancelled,
                   starts, nextRow, faults>>

----------------------------------------------------------------------------
(* ack_work_item: the row is deleted and its completion enqueued in one    *)
(* transaction, or nothing happens and an error is returned.               *)

(* Mutant: nobody looks whether the DELETE found a row. *)
AckUnchecked(w, a) == Delete(a) /\ Touch(item[w].sess)

AckCommit(w, a) ==
    /\ HoldsValid(w)
    /\ Delete(a)
    /\ Touch(item[w].sess)

(* Mutant: the INSERT of the completion is missing. *)
AckSilently(w, a) == AckCommit(w, a) /\ UNCHANGED reported

AckWith(w, a) ==
    /\ AckCommit(w, a)
    /\ reported' = [reported EXCEPT ![a] = @ + 1]

AckRefused(w) ==
    /\ \/ ~HoldsValid(w) /\ UNCHANGED faults
       \/ Fault
    /\ UNCHANGED <<queue, sessions, reported>>

(* Mutant: a poisoned item is skipped. *)
PoisonSkipped(w) ==
    /\ pc[w] = "guarded"
    /\ ~OverCapacity(w)
    /\ item[w].att > MaxAttempts
    /\ Idle(w)
    /\ UNCHANGED <<queue, sessions, managing, epoch, reported, dropped, cancelled,
                   starts, nextRow, faults>>

(* handle_poison_message; an error of the ack is ignored. *)
Poison(w) ==
    /\ pc[w] = "guarded"
    /\ ~OverCapacity(w)
    /\ item[w].att > MaxAttempts
    /\ \/ AckWith(w, item[w].row) /\ UNCHANGED faults
       \/ AckRefused(w)
    /\ Idle(w)
    /\ UNCHANGED <<managing, epoch, dropped, cancelled, starts, nextRow>>

Renewing(x, b) == [x EXCEPT !.renewing = b]

(* execute_activity with a registered handler: the manager is spawned and  *)
(* the handler invoked.                                                    *)
Start(w) ==
    /\ pc[w] = "guarded"
    /\ ~OverCapacity(w)
    /\ item[w].att <= MaxAttempts
    /\ pc' = [pc EXCEPT ![w] = "running"]
    /\ item' = [item EXCEPT ![w] = Renewing(@, TRUE)]
    /\ starts' = [starts EXCEPT ![item[w].row] = @ + 1]
    /\ UNCHANGED <<queue, sessions, managing, epoch, reported, dropped,
                   cancelled, nextRow, faults>>

(* abandon_unregistered_activity, with the backoff of this attempt *)
Unregistered(w) ==
    /\ pc[w] = "guarded"
    /\ ~OverCapacity(w)
    /\ item[w].att <= MaxAttempts
    /\ \E delay \in 1..MaxDelay : Abandon(w, delay, FALSE)
    /\ Idle(w)
    /\ UNCHANGED <<sessions, managing, epoch, reported, dropped, cancelled,
                   starts, nextRow, faults>>

----------------------------------------------------------------------------
(* run_activity_with_cancellation and handle_activity_outcome. *)

(* The handler returns (a result, an error or a panic).  If the token was  *)
(* signalled as well, select! may take either branch.                      *)
Finish(w) ==
    /\ pc[w] = "running"
    /\ pc' = [pc EXCEPT ![w] = "acking"]
    /\ item' = [item EXCEPT ![w] = Renewing(@, FALSE)]
    /\ UNCHANGED <<queue, sessions, managing, epoch, reported, dropped,
                   cancelled, starts, nextRow, faults>>

(* Mutant: after the grace period the handler is awaited, not aborted. *)
StopNever(w) == FALSE

(* The cancellation branch: the grace period, then abort. *)
Stop(w) ==
    /\ pc[w] = "running"
    /\ item[w].signalled
    /\ pc' = [pc EXCEPT ![w] = "stopping"]
    /\ UNCHANGED <<queue, sessions, item, managing, epoch, reported, dropped,
                   cancelled, starts, nextRow, faults>>

AckResult(w) ==
    /\ pc[w] = "acking"
    /\ AckWith(w, item[w].row)
    /\ Idle(w)
    /\ UNCHANGED <<managing, epoch, dropped, cancelled, starts, nextRow, faults>>

AckNone(w) ==
    /\ pc[w] = "stopping"
    /\ AckCommit(w, item[w].row)
    /\ dropped' = dropped \cup {item[w].row}
    /\ Idle(w)
    /\ UNCHANGED <<managing, epoch, reported, cancelled, starts, nextRow, faults>>

AckFailed(w) ==
    /\ pc[w] \in {"acking", "stopping"}
    /\ AckRefused(w)
    /\ pc' = [pc EXCEPT ![w] = "failed"]
    /\ UNCHANGED <<item, managing, epoch, dropped, cancelled, starts, nextRow>>

(* abandon_work_item(token, 100ms, ignore_attempt = false) *)
AbandonFailed(w) ==
    /\ pc[w] = "failed"
    /\ \E delay \in 1..MaxDelay : Abandon(w, delay, FALSE)
    /\ Idle(w)
    /\ UNCHANGED <<sessions, managing, epoch, reported, dropped, cancelled,
                   starts, nextRow, faults>>

----------------------------------------------------------------------------
(* The activity manager (spawn_activity_manager). *)

Signalled(x) == [x EXCEPT !.renewing = FALSE, !.signalled = TRUE]

Signal(w) == item' = [item EXCEPT ![w] = Signalled(@)]

Extended(r) == [r EXCEPT !.left = LockTimeout]

Renew(w) ==
    /\ pc[w] = "running"
    /\ item[w].renewing
    /\ IF HoldsValid(w)
         THEN /\ queue[item[w].row].left < LockTimeout
              /\ queue' = [queue EXCEPT ![item[w].row] = Extended(@)]
              /\ Touch(item[w].sess)
              /\ UNCHANGED item
         ELSE Signal(w) /\ UNCHANGED <<queue, sessions>>
    /\ UNCHANGED <<pc, managing, epoch, reported, dropped, cancelled, starts,
                   nextRow, faults>>

(* The renewal returns a storage error: every error, retryable or not, is  *)
(* taken for a cancellation.                                               *)
RenewError(w) ==
    /\ RenewErrors
    /\ pc[w] = "running"
    /\ item[w].renewing
    /\ Fault
    /\ Signal(w)
    /\ UNCHANGED <<queue, sessions, pc, managing, epoch, reported, dropped,
                   cancelled, starts, nextRow>>

(* The manager stops because the runtime is shutting down; the handler is  *)
(* not told.                                                               *)
Stall(w) ==
    /\ pc[w] = "running"
    /\ item[w].renewing
    /\ Fault
    /\ item' = [item EXCEPT ![w] = Renewing(@, FALSE)]
    /\ UNCHANGED <<queue, sessions, pc, managing, epoch, reported, dropped,
                   cancelled, starts, nextRow>>

----------------------------------------------------------------------------
(* The session manager of a runtime (run_session_manager). *)

(* renew_session_lock: owned by one of us, not expired, not idle *)
Renewable(h, s) ==
    /\ SessionHeld(s)
    /\ sessions[s].owner \in Owners(h)
    /\ sessions[s].idle > 0

Prolonged(x) == [x EXCEPT !.left = SessionTimeout]

RenewSessions(h) ==
    /\ h \in managing
    /\ \E s \in Session : Renewable(h, s) /\ sessions[s].left < SessionTimeout
    /\ sessions' = [s \in DOMAIN sessions |->
                       IF Renewable(h, s)
                         THEN Prolonged(sessions[s])
                         ELSE sessions[s]]
    /\ UNCHANGED <<queue, pc, item, managing, epoch, reported, dropped,
                   cancelled, starts, nextRow, faults>>

(* cleanup_orphaned_sessions: expired, and no row of the queue names it *)
Orphaned(s) == sessions[s].left = 0 /\ \A a \in DOMAIN queue : queue[a].sess # s

CleanupSessions(h) ==
    /\ h \in managing
    /\ \E s \in DOMAIN sessions : Orphaned(s)
    /\ sessions' = [s \in {r \in DOMAIN sessions : ~Orphaned(r)} |-> sessions[s]]
    /\ UNCHANGED <<queue, pc, item, managing, epoch, reported, dropped,
                   cancelled, starts, nextRow, faults>>

(* Its renewals fail, or it has left its loop because of a shutdown. *)
StopManaging(h) ==
    /\ h \in managing
    /\ Fault
    /\ managing' = managing \ {h}
    /\ UNCHANGED <<queue, sessions, pc, item, epoch, reported, dropped,
                   cancelled, starts, nextRow>>

(* The process dies and is started again, under a new runtime_id. *)
Crash(h) ==
    /\ Fault
    /\ pc' = [w \in Worker |-> IF Host[w] = h THEN "idle" ELSE pc[w]]
    /\ item' = [w \in Worker |-> IF Host[w] = h THEN NoItem ELSE item[w]]
    /\ managing' = managing \cup {h}
    /\ epoch' = [epoch EXCEPT ![h] = @ + 1]
    /\ UNCHANGED <<queue, sessions, reported, dropped, cancelled, starts, nextRow>>

(* calculate_renewal_interval leaves time to spare: what is being renewed  *)
(* is renewed before it expires.                                           *)
RenewalDue ==
    \/ \E w \in Worker :
          /\ pc[w] = "running" /\ item[w].renewing
          /\ HoldsValid(w) /\ queue[item[w].row].left = 1
    \/ \E h \in managing, s \in Session :
          Renewable(h, s) /\ sessions[s].left = 1

(* A slot that holds an item without running it is about to finish with    *)
(* it; that its lock expires all the same is possible but a fault.         *)
Late ==
    \E w \in Worker :
        /\ pc[w] \in {"fetched", "guarded", "over", "giveback",
                     "acking", "stopping", "failed"}
        /\ HoldsValid(w) /\ queue[item[w].row].left = 1

AgedRow(r) == [r EXCEPT !.hide = Decay(@), !.left = Decay(@)]

AgedSession(x) == [x EXCEPT !.left = Decay(@), !.idle = Decay(@)]

Tick ==
    /\ ~RenewalDue
    /\ IF Late THEN Fault ELSE UNCHANGED faults
    /\ \/ \E a \in DOMAIN queue : queue[a].hide > 0 \/ queue[a].left > 0
       \/ \E s \in DOMAIN sessions : sessions[s].left > 0
    /\ queue' = [a \in DOMAIN queue |-> AgedRow(queue[a])]
    /\ sessions' = [s \in DOMAIN sessions |-> AgedSession(sessions[s])]
    /\ UNCHANGED <<pc, item, managing, epoch, reported, dropped, cancelled,
                   starts, nextRow>>

----------------------------------------------------------------------------
(* The steps a slot takes by itself, without the handler's return. *)
Advance(w) ==
    \/ Poll(w) \/ Fetch(w) \/ FetchNone(w) \/ Guard(w) \/ Overflow(w)
    \/ DropGuard(w) \/ GiveBack(w)
    \/ Poison(w) \/ Start(w) \/ Unregistered(w)
    \/ Stop(w) \/ AckResult(w) \/ AckNone(w) \/ AckFailed(w) \/ AbandonFailed(w)

Next ==
    \/ \E s \in Session \cup {NoSession}, g \in Tag : Schedule(s, g)
    \/ \E a \in Row : Cancel(a)
    \/ \E w \in Worker :
          Advance(w) \/ Finish(w) \/ Renew(w) \/ RenewError(w) \/ Stall(w)
    \/ \E h \in Runtime :
          RenewSessions(h) \/ CleanupSessions(h) \/ StopManaging(h) \/ Crash(h)
    \/ Tick

Spec == Init /\ [][Next]_vars

(* Worker loops, activity managers, session managers and the clock keep    *)
(* going; nothing is said of the handlers, nor of the cleanup sweep.       *)
FairSpec ==
    /\ Spec
    /\ \A w \in Worker : WF_vars(Advance(w)) /\ WF_vars(Renew(w))
    /\ \A h \in Runtime : WF_vars(RenewSessions(h))
    /\ WF_vars(Tick)

----------------------------------------------------------------------------
(* Properties. *)

(* Every variable has its type: rows and sessions carry the columns of     *)
(* their tables, each slot a stage of process_next_work_item and an item.  *)
TypeOK ==
    /\ DOMAIN queue \subseteq Row /\ queue \in [DOMAIN queue -> RowRecord]
    /\ DOMAIN sessions \subseteq Session
    /\ sessions \in [DOMAIN sessions -> SessionRecord]
    /\ pc \in [Worker -> Stage] /\ item \in [Worker -> Item]
    /\ managing \subseteq Runtime /\ epoch \in [Runtime -> Nat]
    /\ reported \in [Row -> Nat] /\ starts \in [Row -> Nat]
    /\ dropped \subseteq Row /\ cancelled \subseteq Row
    /\ nextRow \in 1..(MaxRows + 1) /\ faults \in 0..MaxFaults

(* At most one completion per activity reaches the orchestrator queue,     *)
(* however often the activity was fetched, executed, expired or retried:   *)
(* the row and the completion change hands in one ack_work_item.           *)
ReportedOnce ==
    \A a \in Row :
        /\ reported[a] <= 1
        /\ reported[a] = 1 => a \notin DOMAIN queue /\ a \notin dropped

(* An activity whose row is gone was reported, dropped by the cancellation *)
(* branch of a worker, or cancelled by its orchestration; a crash, an      *)
(* expired lock or a refused ack never loses it.                           *)
NothingForgotten ==
    \A a \in Row :
        a < nextRow /\ a \notin DOMAIN queue =>
            reported[a] = 1 \/ a \in dropped \/ a \in cancelled

(* Once the ack_orchestration_item that cancels an activity has committed, *)
(* no completion of it is enqueued, though a worker may still be running   *)
(* it or be about to acknowledge it.                                       *)
NoReportAfterCancel ==
    [][\A a \in cancelled : reported'[a] = reported[a]]_vars

(* The lock of an activity that is being renewed is not lost: as long as   *)
(* the manager runs, only a cancellation ends it.                          *)
LockKept ==
    [][\A w \in Worker :
          /\ pc[w] = "running" /\ item[w].renewing /\ HoldsValid(w)
          /\ (pc[w] = "running" /\ item[w].renewing)'
          => HoldsValid(w)' \/ item[w].row \in cancelled']_vars

(* The handler of an activity is invoked at most max_attempts times, over  *)
(* all the slots, crashes, expiries, late starts and uncounted returns.    *)
StartsBounded == \A a \in Row : starts[a] <= MaxAttempts

(* A runtime never executes activities of more than                        *)
(* max_sessions_per_runtime sessions at once, though the check before the  *)
(* fetch is only a hint.                                                   *)
SessionLimit ==
    \A h \in Runtime :
        Cardinality({item[w].sess : w \in {v \in Worker :
            Host[v] = h /\ pc[v] = "running"}} \ {NoSession}) <= MaxSessions

(* As long as their session managers renew, no two workers hold valid      *)
(* locks on activities of one session unless they share a session owner.   *)
SessionAffinity ==
    \A v, w \in Worker :
        /\ HoldsValid(v) /\ HoldsValid(w)
        /\ item[v].sess = item[w].sess /\ item[v].sess # NoSession
        /\ Host[v] \in managing /\ Host[w] \in managing
        => Owner(v) = Owner(w)

(* As long as its session manager renews, a runtime owns the session of    *)
(* every activity it holds under a valid lock, and the session does not    *)
(* get idle before that lock expires, so that it can be renewed till then: *)
(* fetch, renewals, expiry and takeover of a session keep the times of the *)
(* two tables in step.                                                     *)
Pinned(w) ==
    /\ SessionHeld(item[w].sess)
    /\ sessions[item[w].sess].owner = Owner(w)
    /\ sessions[item[w].sess].idle >= queue[item[w].row].left

SessionsPinned ==
    \A w \in Worker :
        HoldsValid(w) /\ item[w].sess # NoSession /\ Host[w] \in managing => Pinned(w)

(* If no handler runs for ever, every scheduled activity that some slot    *)
(* accepts is reported or cancelled in the end: retries, poisoning, lock   *)
(* and session expiry only delay it.  (Two slots over the session limit    *)
(* may hand their items back to each other for ever.)                      *)
HandlersReturn == \A w \in Worker : []<>(pc[w] # "running")

EveryActivityEnds ==
    HandlersReturn =>
        \A a \in Row :
            (a \in DOMAIN queue /\ \E w \in Worker : queue[a].tag \in Accepts[w])
                ~> (reported[a] = 1 \/ a \in cancelled)

(* A handler that never returns is stopped after its activity has been     *)
(* cancelled: the next renewal finds no row and signals, and when the      *)
(* grace period is over the handler is aborted.  Unless its manager has    *)
(* stopped without a signal: then nobody stops the handler.                *)
Stalled(w) == pc[w] = "running" /\ ~item[w].renewing /\ ~item[w].signalled

CancelledStops ==
    \A w \in Worker, a \in Row :
        (pc[w] = "running" /\ item[w].row = a /\ item[w].renewing /\ a \in cancelled)
            ~> (pc[w] # "running" \/ Stalled(w))

(* The strengthening that makes the safety properties inductive.  Where    *)
(* each activity is: in the queue and neither reported, dropped nor        *)
(* cancelled, or gone for one of these reasons, the first two excluding    *)
(* each other.                                                             *)
Accounted(a) ==
    /\ reported[a] \in {0, 1}
    /\ reported[a] = 1 => a \notin dropped
    /\ a \in DOMAIN queue \/ a >= nextRow =>
          reported[a] = 0 /\ a \notin dropped /\ a \notin cancelled
    /\ a \in DOMAIN queue => a < nextRow
    /\ a < nextRow /\ a \notin DOMAIN queue =>
          reported[a] = 1 \/ a \in dropped \/ a \in cancelled

(* Two slots that refer to one row have different lock tokens, and only    *)
(* slots with an item have one.                                            *)
TokensApart ==
    \A v, w \in Worker :
        v # w /\ item[v].row = item[w].row /\ item[v].row # NoRow
            => item[v].tok # item[w].tok

(* The tokens, sessions and completions of the worker queue are consistent *)
(* with what each slot believes it holds.                                  *)
IndInv == TypeOK /\ (\A a \in Row : Accounted(a)) /\ TokensApart /\ SessionsPinned

(* What the cancellation branch of run_activity_with_cancellation assumes: *)
(* an item acknowledged without a completion is one whose orchestration    *)
(* does not wait for it, also when its renewal failed because another slot *)
(* had taken it over.  A renewal that fails for a storage error is taken   *)
(* for a cancellation too, and breaks this.                                *)
DropsOnlyCancelled == RenewErrors \/ dropped \subseteq cancelled
=============================================================================
