------------------------- MODULE OrchestratorQueue -------------------------
(***************************************************************************)
(* The orchestrator queue of the SQLite/Turso provider (tables             *)
(* orchestrator_queue, instance_locks, instances, history) and the         *)
(* orchestration dispatchers that take turns on it.                        *)
(*                                                                         *)
(* Every provider operation is one database transaction, hence one atomic  *)
(* action.  What a dispatcher read in an earlier transaction it keeps in   *)
(* item[d], which may be stale when it is used.  Time is a countdown:      *)
(* `left' is locked_until - now and `hide' is visible_at - now, both       *)
(* stopping at 0; a lock is valid while left > 0, a row visible when       *)
(* hide = 0.  A history is the sequence of the turns committed by          *)
(* ack_orchestration_item, each with the rows it consumed.                 *)
(***************************************************************************)
EXTENDS Integers, Sequences, FiniteSets

CONSTANTS
    Instance,        \* orchestration instance ids
    Dispatcher,      \* orchestration workers, over all the runtimes
    Unsupported,     \* instances pinned outside the supported version range
    LockTimeout,     \* orchestrator_lock_timeout, in ticks
    MaxAttempts,     \* RuntimeOptions.max_attempts
    MaxDelay,        \* longest backoff or timer delay, in ticks
    Stray,           \* do clients address instances never started?
    MaxRows,         \* bound: rows ever enqueued
    MaxTokens,       \* bound: lock tokens referenced at the same time
    MaxFaults,       \* bound: crashes and stopped renewal tasks
    MaxAckErrors     \* bound: acks that fail though their lock is valid

ASSUME QueueAssumption ==
    /\ Instance # {} /\ Unsupported \subseteq Instance
    /\ Stray \in BOOLEAN
    /\ LockTimeout \in Nat \ {0} /\ MaxAttempts \in Nat /\ MaxDelay \in Nat
    /\ MaxRows \in Nat /\ MaxTokens \in Nat
    /\ MaxFaults \in Nat /\ MaxAckErrors \in Nat

VARIABLES
    queue,           \* orchestrator_queue: live row id |-> row
    locks,           \* instance_locks; tok = NoToken when there is no row
    hist,            \* history: the committed turns of each instance
    known,           \* instances that have a row in `instances'
    pc,              \* what each dispatcher is doing
    item,            \* the OrchestrationItem each dispatcher works on
    nextRow,         \* the next AUTOINCREMENT id
    faults, ackErrs  \* faults and ack errors still allowed

vars == <<queue, locks, hist, known, pc, item, nextRow, faults, ackErrs>>

Row == 1..MaxRows
Token == 1..MaxTokens
NoToken == 0
NoLock == [tok |-> NoToken, left |-> 0]

(* ContinueAsNew gives a batch its context just as StartOrchestration does. *)
Kind == {"Start", "Queue", "Other"}

RowRecord == [inst : Instance, kind : Kind, hide : 0..MaxDelay,
              tok : Token \cup {NoToken}, att : 0..(MaxAttempts + 1)]

Lock == [tok : Token \cup {NoToken}, left : 0..LockTimeout]

(* "turn" and "completed" are written by a turn of the orchestration,      *)
(* "completed" with a terminal event; "failed" is written in its place by  *)
(* the runtime (poison, or an ack that failed).                            *)
Entry == [kind : {"turn", "completed", "failed"}, rows : SUBSET Row]

Item == [inst : Instance, tok : Token \cup {NoToken}, rows : SUBSET Row,
         snap : Seq(Entry), over : BOOLEAN, renewing : BOOLEAN]

NoItem == [inst |-> CHOOSE i \in Instance : TRUE, tok |-> NoToken, rows |-> {},
           snap |-> <<>>, over |-> FALSE, renewing |-> FALSE]

Init ==
    /\ queue = [m \in {} |-> {}]
    /\ locks = [i \in Instance |-> NoLock]
    /\ hist = [i \in Instance |-> <<>>]
    /\ known = {}
    /\ pc = [d \in Dispatcher |-> "idle"]
    /\ item = [d \in Dispatcher |-> NoItem]
    /\ nextRow = 1
    /\ faults = MaxFaults
    /\ ackErrs = MaxAckErrors

----------------------------------------------------------------------------
(* The tables. *)

Visible(m) == queue[m].hide = 0

(* LEFT JOIN instance_locks: no lock row, or locked_until <= now *)
Free(i) == locks[i].left = 0

(* The version is pinned by the turn that writes OrchestrationStarted; a   *)
(* poisoned first turn leaves it NULL, and NULL passes the filter.         *)
FilteredOut(i) ==
    i \in Unsupported /\ \E k \in 1..Len(hist[i]) : hist[i][k].kind # "failed"

Candidates ==
    {m \in DOMAIN queue :
        Visible(m) /\ Free(queue[m].inst) /\ ~FilteredOut(queue[m].inst)}

(* ORDER BY q.id LIMIT 1 *)
IsHead(m) == m \in Candidates /\ \A n \in Candidates : m <= n

(* UPDATE ... WHERE instance_id = ?2 AND visible_at <= ?3 *)
Batch(i) == {m \in DOMAIN queue : queue[m].inst = i /\ Visible(m)}

(* Mutant: the ack deletes by instance, late arrivals included. *)
FetchedByInstance(t) ==
    {m \in DOMAIN queue :
        \E n \in DOMAIN queue : queue[n].tok = t /\ queue[n].inst = queue[m].inst}

(* DELETE FROM orchestrator_queue WHERE lock_token = ? *)
Fetched(t) == {m \in DOMAIN queue : queue[m].tok = t}

HasContext(i) == i \in known \/ \E m \in Batch(i) : queue[m].kind = "Start"

OnlyQueueMessages(i) == \A m \in Batch(i) : queue[m].kind = "Queue"

(* Mutant: a failed orchestration is not terminal. *)
TerminalIfCompleted(h) == \E k \in 1..Len(h) : h[k].kind = "completed"

Terminal(h) == \E k \in 1..Len(h) : h[k].kind \in {"completed", "failed"}

TokensInUse ==
    {queue[m].tok : m \in DOMAIN queue} \cup {locks[i].tok : i \in Instance}
        \cup {item[d].tok : d \in Dispatcher}

FreeTokens == Token \ TokensInUse

(* generate_lock_token: a value nobody refers to *)
FreshToken == CHOOSE t \in FreeTokens : TRUE

(* Mutant: abandoning gives the attempt back. *)
BumpNever(att) == att

(* attempt_count + 1; only its comparison with max_attempts matters *)
Bump(att) == IF att > MaxAttempts THEN att ELSE att + 1

Decay(n) == IF n = 0 THEN 0 ELSE n - 1

----------------------------------------------------------------------------
(* Statements shared by several transactions. *)

AddRow(base, i, kind, hide) ==
    [m \in (DOMAIN base) \cup {nextRow} |->
        IF m = nextRow
          THEN [inst |-> i, kind |-> kind, hide |-> hide, tok |-> NoToken, att |-> 0]
          ELSE base[m]]

(* What a turn of instance i may send: a sub-orchestration or a new        *)
(* execution is started, a parent (which exists) is told of its child's    *)
(* end, and a timer message goes to i itself, hidden until fire_at_ms.     *)
Sendable(i, target, kind, hide) ==
    \/ kind = "Start" /\ hide = 0
    \/ kind = "Other" /\ target \in known /\ hide = 0
    \/ kind = "Other" /\ target = i

(* The queue becomes base, with the message the turn of i sends if any.    *)
Emits(i, base) ==
    \/ queue' = base /\ UNCHANGED nextRow
    \/ /\ nextRow <= MaxRows
       /\ \E target \in Instance, kind \in Kind, hide \in 0..MaxDelay :
             /\ Sendable(i, target, kind, hide)
             /\ queue' = AddRow(base, target, kind, hide)
       /\ nextRow' = nextRow + 1

(* Mutant: the statement that deletes the rows is missing. *)
DeleteNothing(R) == queue

Delete(R) == [m \in (DOMAIN queue) \ R |-> queue[m]]

(* Mutant: the instance is locked, no matter by whom. *)
LockedByAnyone(d) == locks[item[d].inst].left > 0

LockValid(d) ==
    /\ locks[item[d].inst].tok = item[d].tok
    /\ locks[item[d].inst].left > 0

(* Mutant: history rows are written with INSERT OR REPLACE. *)
AppendableAlways(d) == TRUE

(* Events are numbered on from the history that was fetched: the primary   *)
(* key rejects them when the stored history is longer.                     *)
Appendable(d) == Len(hist[item[d].inst]) = Len(item[d].snap)

Unlock(d) == locks' = [locks EXCEPT ![item[d].inst] = NoLock]

Idle(d) ==
    /\ pc' = [pc EXCEPT ![d] = "idle"]
    /\ item' = [item EXCEPT ![d] = NoItem]

(* ack_orchestration_item with a non-empty history_delta: the entry names  *)
(* the rows the turn was given; the rows deleted are those of its token.   *)
AckTurn(d, kind) ==
    /\ LockValid(d) /\ Appendable(d)
    /\ hist' = [hist EXCEPT ![item[d].inst] =
                   Append(@, [kind |-> kind, rows |-> item[d].rows])]
    /\ Unlock(d)
    /\ Idle(d)

(* A provider error that outlives the five retries of                      *)
(* ack_orchestration_with_changes.                                         *)
AckError == ackErrs > 0 /\ ackErrs' = ackErrs - 1

AckRejected(d, appends) ==
    \/ ~(LockValid(d) /\ (appends => Appendable(d))) /\ UNCHANGED ackErrs
    \/ AckError

(* abandon_orchestration_item(token, delay, ignore_attempt = false): the   *)
(* lock row need not be valid, only there; every visible row of the        *)
(* instance is hidden, and keeps its old token.                            *)
Abandon(d, delay) ==
    LET i == item[d].inst IN
    IF locks[i].tok = item[d].tok
      THEN /\ Unlock(d)
           /\ queue' = [m \in DOMAIN queue |->
                           IF m \in Batch(i) THEN [queue[m] EXCEPT !.hide = delay]
                                             ELSE queue[m]]
      ELSE UNCHANGED <<locks, queue>>

----------------------------------------------------------------------------
(* Clients and workers. *)

(* A client can start an instance twice, or send a queue message to an     *)
(* instance that does not exist.  Anything else (raise_event,              *)
(* cancel_instance, an activity's completion) goes to an instance that was *)
(* started, unless Stray.                                                  *)
Enqueue(i, kind) ==
    /\ nextRow <= MaxRows
    /\ kind = "Other" =>
          \/ Stray
          \/ i \in known
          \/ \E m \in DOMAIN queue : queue[m].inst = i /\ queue[m].kind = "Start"
    /\ queue' = AddRow(queue, i, kind, 0)
    /\ nextRow' = nextRow + 1
    /\ UNCHANGED <<locks, hist, known, pc, item, faults, ackErrs>>

----------------------------------------------------------------------------
(* fetch_orchestration_item.  When the head row's instance has no context  *)
(* and not only queue messages, the transaction rolls back and the fetch   *)
(* returns None: nothing changes, and no other instance is tried.          *)

(* Mutant: the attempts of a batch are those of its newest message. *)
OverLimitByNewest(b) ==
    \E m \in b : (\A n \in b : n <= m) /\ Bump(queue[m].att) > MaxAttempts

(* attempt_count of the item is the highest of its messages, compared with *)
(* max_attempts.                                                           *)
OverLimit(b) == \E m \in b : Bump(queue[m].att) > MaxAttempts

Lease(d, i, t) ==
    /\ queue' = [m \in DOMAIN queue |->
                    IF m \in Batch(i)
                      THEN [queue[m] EXCEPT !.tok = t, !.att = Bump(@)]
                      ELSE queue[m]]
    /\ locks' = [locks EXCEPT ![i] = [tok |-> t, left |-> LockTimeout]]
    /\ item' = [item EXCEPT ![d] =
          [inst |-> i, tok |-> t, rows |-> Batch(i),
           snap |-> IF i \in known THEN hist[i] ELSE <<>>,
           over |-> OverLimit(Batch(i)),
           renewing |-> TRUE]]

Fetch(d) ==
    /\ pc[d] = "idle"
    /\ FreeTokens # {}
    /\ \E m \in Candidates :
          /\ IsHead(m)
          /\ HasContext(queue[m].inst)
          /\ Lease(d, queue[m].inst, FreshToken)
    /\ pc' = [pc EXCEPT ![d] = "busy"]
    /\ UNCHANGED <<hist, known, nextRow, faults, ackErrs>>

(* Queue messages sent before their instance was started are deleted; the  *)
(* lock row taken at the start of the transaction is deleted with them.    *)
DropOrphans(d) ==
    /\ pc[d] = "idle"
    /\ \E m \in Candidates :
          LET i == queue[m].inst IN
             /\ IsHead(m)
             /\ ~HasContext(i)
             /\ OnlyQueueMessages(i)
             /\ queue' = Delete(Batch(i))
             /\ locks' = [locks EXCEPT ![i] = NoLock]
    /\ UNCHANGED <<hist, known, pc, item, nextRow, faults, ackErrs>>

----------------------------------------------------------------------------
(* The lock renewal task of an item, and the clock. *)

StopRenewal(x) == [x EXCEPT !.renewing = FALSE]

(* UPDATE ... WHERE lock_token = ?2 AND locked_until > ?3; the task stops  *)
(* at the first renewal that finds no such row.                            *)
Renew(d) ==
    /\ pc[d] # "idle"
    /\ item[d].renewing
    /\ IF LockValid(d)
         THEN /\ locks[item[d].inst].left < LockTimeout
              /\ locks' = [locks EXCEPT ![item[d].inst] =
                              [tok |-> item[d].tok, left |-> LockTimeout]]
              /\ UNCHANGED item
         ELSE /\ item' = [item EXCEPT ![d] = StopRenewal(@)]
              /\ UNCHANGED locks
    /\ UNCHANGED <<queue, hist, known, pc, nextRow, faults, ackErrs>>

(* The renewal task stops early: a renewal returned an error, or the       *)
(* runtime is shutting down while the turn is still running.               *)
Stall(d) ==
    /\ pc[d] # "idle"
    /\ item[d].renewing
    /\ faults > 0
    /\ faults' = faults - 1
    /\ item' = [item EXCEPT ![d] = StopRenewal(@)]
    /\ UNCHANGED <<queue, locks, hist, known, pc, nextRow, ackErrs>>

(* calculate_renewal_interval leaves time to spare: a running renewal task *)
(* renews its lock before it expires.                                      *)
RenewalDue ==
    \E d \in Dispatcher :
        pc[d] # "idle" /\ item[d].renewing /\ LockValid(d)
                       /\ locks[item[d].inst].left = 1

Tick ==
    /\ ~RenewalDue
    /\ \/ \E i \in Instance : locks[i].left > 0
       \/ \E m \in DOMAIN queue : queue[m].hide > 0
    /\ locks' = [i \in Instance |-> [locks[i] EXCEPT !.left = Decay(@)]]
    /\ queue' = [m \in DOMAIN queue |-> [queue[m] EXCEPT !.hide = Decay(@)]]
    /\ UNCHANGED <<hist, known, pc, item, nextRow, faults, ackErrs>>

----------------------------------------------------------------------------
(* process_orchestration_item: one turn of a dispatcher that holds an item. *)

(* The runtime-side version check, made before anything else.              *)
Incompatible(d) == item[d].inst \in Unsupported /\ item[d].snap # <<>>

VersionGate(d) ==
    /\ pc[d] = "busy"
    /\ Incompatible(d)
    /\ \E delay \in 0..MaxDelay : delay > 0 /\ Abandon(d, delay)
    /\ Idle(d)
    /\ UNCHANGED <<hist, known, nextRow, faults, ackErrs>>

Poisoned(d) == pc[d] = "busy" /\ ~Incompatible(d) /\ item[d].over

(* fail_orchestration_as_poison: whatever the history says, a failure is   *)
(* appended, and the parent is told if there is one.                       *)
Poison(d) ==
    /\ Poisoned(d)
    /\ AckTurn(d, "failed")
    /\ known' = known \cup {item[d].inst}
    /\ Emits(item[d].inst, Delete(Fetched(item[d].tok)))
    /\ UNCHANGED <<faults, ackErrs>>

(* The result of the poison ack is ignored: the item is simply dropped.    *)
PoisonRejected(d) ==
    /\ Poisoned(d)
    /\ AckRejected(d, TRUE)
    /\ Idle(d)
    /\ UNCHANGED <<queue, locks, hist, known, nextRow, faults>>

Running(d) == pc[d] = "busy" /\ ~Incompatible(d) /\ ~item[d].over

(* The orchestration (at this version) is not registered here. *)
Release(d) ==
    /\ Running(d)
    /\ ~Terminal(item[d].snap)
    /\ \E delay \in 0..MaxDelay : delay > 0 /\ Abandon(d, delay)
    /\ Idle(d)
    /\ UNCHANGED <<hist, known, nextRow, faults, ackErrs>>

(* The fetched history is terminal: the batch is acked without a turn.     *)
AckTerminal(d) ==
    /\ Running(d)
    /\ Terminal(item[d].snap)
    /\ LockValid(d)
    /\ queue' = Delete(Fetched(item[d].tok))
    /\ Unlock(d)
    /\ Idle(d)
    /\ UNCHANGED <<hist, known, nextRow, faults, ackErrs>>

AckTerminalRejected(d) ==
    /\ Running(d)
    /\ Terminal(item[d].snap)
    /\ AckRejected(d, FALSE)
    /\ Idle(d)
    /\ UNCHANGED <<queue, locks, hist, known, nextRow, faults>>

(* The turn ran; its history, messages and metadata are committed.         *)
Commit(d, kind) ==
    /\ Running(d)
    /\ ~Terminal(item[d].snap)
    /\ AckTurn(d, kind)
    /\ known' = known \cup {item[d].inst}
    /\ Emits(item[d].inst, Delete(Fetched(item[d].tok)))
    /\ UNCHANGED <<faults, ackErrs>>

CommitRejected(d) ==
    /\ Running(d)
    /\ ~Terminal(item[d].snap)
    /\ AckRejected(d, TRUE)
    /\ pc' = [pc EXCEPT ![d] = "nack"]
    /\ UNCHANGED <<queue, locks, hist, known, item, nextRow, faults>>

(* The turn's ack failed: an infrastructure failure is appended to the     *)
(* fetched history instead.  Its metadata carries no orchestration name,   *)
(* so that no row is added to `instances'.                                 *)
FailureAck(d) ==
    /\ pc[d] = "nack"
    /\ AckTurn(d, "failed")
    /\ queue' = Delete(Fetched(item[d].tok))
    /\ UNCHANGED <<known, nextRow, faults, ackErrs>>

(* That failed as well.  The future of abandon_orchestration_item is       *)
(* dropped and never runs: the lock stays until it expires.                *)
FailureAckRejected(d) ==
    /\ pc[d] = "nack"
    /\ AckRejected(d, TRUE)
    /\ Idle(d)
    /\ UNCHANGED <<queue, locks, hist, known, nextRow, faults>>

(* The process of d dies and is started again. *)
Crash(d) ==
    /\ pc[d] # "idle"
    /\ faults > 0
    /\ faults' = faults - 1
    /\ Idle(d)
    /\ UNCHANGED <<queue, locks, hist, known, nextRow, ackErrs>>

----------------------------------------------------------------------------
Dispatch(d) ==
    \/ Fetch(d) \/ DropOrphans(d)
    \/ VersionGate(d)
    \/ Poison(d) \/ PoisonRejected(d)
    \/ Release(d)
    \/ AckTerminal(d) \/ AckTerminalRejected(d)
    \/ \E kind \in {"turn", "completed"} : Commit(d, kind)
    \/ CommitRejected(d)
    \/ FailureAck(d) \/ FailureAckRejected(d)

Next ==
    \/ \E i \in Instance, kind \in Kind : Enqueue(i, kind)
    \/ \E d \in Dispatcher : Dispatch(d) \/ Renew(d) \/ Stall(d) \/ Crash(d)
    \/ Tick

Spec == Init /\ [][Next]_vars

(* Each dispatcher is a task in a loop, and a clock does not stop.  Nobody *)
(* has to send a message, and no fault has to happen.                      *)
Fairness ==
    /\ \A d \in Dispatcher : WF_vars(Dispatch(d))
    /\ \A d \in Dispatcher : WF_vars(Renew(d))
    /\ WF_vars(Tick)

FairSpec == Spec /\ Fairness
----------------------------------------------------------------------------
(* Properties. *)

(* Every variable has its type.  The interesting part: row ids never run   *)
(* past the AUTOINCREMENT counter, and countdowns do not go below zero.    *)
TypeOK ==
    /\ nextRow \in 1..(MaxRows + 1)
    /\ DOMAIN queue \subseteq 1..(nextRow - 1)
    /\ \A m \in DOMAIN queue : queue[m] \in RowRecord
    /\ locks \in [Instance -> Lock]
    /\ hist \in [Instance -> Seq(Entry)]
    /\ known \in SUBSET Instance
    /\ pc \in [Dispatcher -> {"idle", "busy", "nack"}]
    /\ item \in [Dispatcher -> Item]
    /\ faults \in 0..MaxFaults
    /\ ackErrs \in 0..MaxAckErrors

(* While a dispatcher's token is still the one in the lock row, nobody     *)
(* else touches its instance: the history it fetched is the stored one     *)
(* (or the instance had no row to read it by), and the rows carrying its   *)
(* token, those the ack will delete, are exactly the rows it fetched.      *)
Owns(d) == pc[d] # "idle" /\ locks[item[d].inst].tok = item[d].tok

FreshItem ==
    \A d \in Dispatcher : Owns(d) =>
        /\ \/ item[d].snap = hist[item[d].inst]
           \/ item[d].inst \notin known /\ item[d].snap = <<>>
        /\ Fetched(item[d].tok) = item[d].rows

(* No message takes part in two turns, and a message that took part in one *)
(* is not in the queue: lock expiry, takeover, late acks, retries and      *)
(* crashes never make a turn see a message a committed turn consumed.      *)
ConsumedRows(i) == UNION {hist[i][k].rows : k \in 1..Len(hist[i])}

ConsumedOnce ==
    \A i \in Instance :
        /\ ConsumedRows(i) \cap DOMAIN queue = {}
        /\ \A j \in Instance \ {i} : ConsumedRows(i) \cap ConsumedRows(j) = {}
        /\ \A k, n \in 1..Len(hist[i]) :
              k # n => hist[i][k].rows \cap hist[i][n].rows = {}

(* After a terminal event the orchestration code is not run again: only    *)
(* failures written by the runtime can follow it.                          *)
TurnsStopAtTerminal ==
    \A i \in Instance : \A k, n \in 1..Len(hist[i]) :
        (k < n /\ hist[i][k].kind # "turn") => hist[i][n].kind = "failed"

(* A row leaves the queue only because a committed turn consumed it, or    *)
(* because its instance can run no turn any more, or was never started     *)
(* while nothing but queue messages waited for it.                         *)
NoMessageLost ==
    [][\A m \in (DOMAIN queue) \ (DOMAIN queue') :
          LET i == queue[m].inst IN
             \/ /\ Len(hist'[i]) = Len(hist[i]) + 1
                /\ m \in hist'[i][Len(hist'[i])].rows
             \/ Terminal(hist[i])
             \/ hist[i] = <<>> /\ queue[m].kind = "Queue"]_vars

(* A turn is only committed on messages that were fetched at most          *)
(* max_attempts times, this fetch included, by whatever dispatchers: a     *)
(* message that was given back, or whose dispatcher crashed or lost the    *)
(* lock, fails its instance as poison when it has used up its attempts,    *)
(* however new the messages are that it is fetched with.                   *)
AttemptsBounded ==
    [][\A i \in Instance :
          Len(hist'[i]) > Len(hist[i]) =>
              LET e == hist'[i][Len(hist'[i])] IN
              e.kind # "failed" =>
                  \A m \in e.rows \cap DOMAIN queue : queue[m].att <= MaxAttempts]_vars

(* The queue, its locks and its dispatchers implement the abstract inbox.  *)
Inbox == INSTANCE DurableInbox
            WITH inbox <- [m \in DOMAIN queue |-> queue[m].inst],
                 log <- hist, fresh <- nextRow

InboxSpec == Inbox!Spec

(* Every message is consumed in the end, whatever was abandoned, expired,  *)
(* delayed or crashed on the way.                                          *)
EveryMessageHandled ==
    \A m \in Row : m \in DOMAIN queue ~> m \notin DOMAIN queue

----------------------------------------------------------------------------
(* The inductive invariant behind these properties. *)

(* Tokens tell dispatchers apart, and a new row carries none. *)
TokensDistinct ==
    \A d \in Dispatcher :
        /\ pc[d] = "idle" <=> item[d].tok = NoToken
        /\ \A e \in Dispatcher \ {d} :
              item[d].tok = item[e].tok => item[d].tok = NoToken

(* What an owner holds is its own: FreshItem, and the rows it fetched are  *)
(* rows of its instance.                                                   *)
HeldBy(d) ==
    Owns(d) =>
        /\ \/ item[d].snap = hist[item[d].inst]
           \/ item[d].inst \notin known /\ item[d].snap = <<>>
        /\ Fetched(item[d].tok) = item[d].rows
        /\ item[d].rows # {}
        /\ \A m \in item[d].rows : queue[m].inst = item[d].inst

Held == \A d \in Dispatcher : HeldBy(d)

(* An instance without a row in `instances' has run no turn.               *)
Unstarted ==
    \A i \in Instance \ known : hist[i] = <<>> \/ Terminal(hist[i])

(* Consumed rows were enqueued, and are gone. *)
ConsumedGone ==
    \A i \in Instance : \A k \in 1..Len(hist[i]) :
        /\ hist[i][k].rows \cap DOMAIN queue = {}
        /\ \A m \in hist[i][k].rows : m < nextRow

ConsumedApart ==
    \A i, j \in Instance : \A k \in 1..Len(hist[i]), n \in 1..Len(hist[j]) :
        i # j \/ k # n => hist[i][k].rows \cap hist[j][n].rows = {}

(* The inductive invariant: the type invariant, the ownership discipline   *)
(* of lock tokens, and the accounting of consumed rows.                    *)
IndInv ==
    /\ TypeOK
    /\ TokensDistinct
    /\ Held
    /\ Unstarted
    /\ ConsumedGone
    /\ ConsumedApart
    /\ TurnsStopAtTerminal

----------------------------------------------------------------------------
(* What a comment in the code says, and the code does not do. *)

(* cancel_instance: "Instance doesn't exist: Cancellation is no-op".  A    *)
(* no-op cannot keep an instance that a client starts from running.        *)
StartsHandled ==
    \A m \in Row :
        (m \in DOMAIN queue /\ queue[m].kind = "Start") ~> m \notin DOMAIN queue
=============================================================================
