----------------------------- MODULE Lifecycle -----------------------------
(***************************************************************************)
(* The life of orchestration instances: executions and continue-as-new,    *)
(* activities, timers and sub-orchestrations with the routing of their     *)
(* results, event queues and their carry-forward, cancellation.            *)
(*                                                                         *)
(* A turn (process_orchestration_item and run_single_execution_atomic) is  *)
(* one step: OrchestratorQueue shows that a fetch and its ack act as one,  *)
(* on a batch that leaves out what arrived in between.  Rows are in id     *)
(* order, so what arrived later is a suffix; the fetch came after the last *)
(* turn of the instance, so it saw every row of that time (`old').  The    *)
(* user's code is a free choice of what it schedules, drops, dequeues and  *)
(* returns.  The event id of a schedule is its position among the          *)
(* schedules of its execution.  A detached start is like one by a client.  *)
(***************************************************************************)
EXTENDS Integers, Sequences, FiniteSets, Subsequence

CONSTANTS
    Runtime,         \* the processes that take turns
    Instance,        \* orchestration instance ids
    NoInstance,
    Registered,      \* instance |-> processes that have its orchestration registered
    Root,            \* instances that clients start
    Mailbox,         \* those of them that clients send queue messages to
    Child,           \* <<parent, schedule id>> |-> id of the sub-orchestration
    Kinds,           \* instance |-> kinds of calls its code makes
    Continues,       \* instances whose code may continue as new
    MaxStarts,       \* bound: starts sent by clients
    MaxExec,         \* bound: executions of an instance
    MaxCalls,        \* bound: instance |-> schedules in an execution
    MaxData,         \* bound: queue messages ever sent
    MaxWaits,        \* bound: instance |-> dequeues left without a message
    MaxCancels,      \* bound: cancellations requested by clients
    MaxCarry,        \* MAX_CARRY_FORWARD_EVENTS
    MaxFaults        \* bound: abandoned, poisoned and failed turns, restarts

ASSUME LifecycleAssumption ==
    /\ NoInstance \notin Instance
    /\ Registered \in [Instance -> SUBSET Runtime]
    /\ Kinds \in [Instance -> SUBSET {"activity", "timer", "child"}]
    /\ Root \subseteq Instance /\ Mailbox \subseteq Root /\ Continues \subseteq Instance
    /\ MaxCalls \in [Instance -> Nat]
    /\ \A c \in DOMAIN Child :
          c[1] \in Instance /\ c[2] \in 1..MaxCalls[c[1]] /\ Child[c] \in Instance
    /\ MaxWaits \in [Instance -> Nat]
    /\ MaxStarts \in Nat /\ MaxExec \in Nat \ {0} /\ MaxData \in Nat
    /\ MaxCancels \in Nat /\ MaxCarry \in Nat /\ MaxFaults \in Nat

(* The id of a sub-orchestration is built from the id of its parent and    *)
(* the event id of the schedule, and clients use ids of their own.         *)
ASSUME ChildAssumption ==
    /\ \A c, d \in DOMAIN Child : Child[c] = Child[d] => c = d
    /\ \A c \in DOMAIN Child : Child[c] \notin Root /\ Child[c] # c[1]

VARIABLES
    inst,            \* the current execution of each instance
    inbox,           \* the rows of each instance in orchestrator_queue
    old,             \* how many of them the next fetch cannot miss
    work,            \* worker_queue: activities not yet acknowledged
    tracked,         \* current_execution_ids of each runtime (0: no entry)
    eaten,           \* queue messages dequeued so far, in order
    abrupt,          \* instances failed by the runtime, not by a turn
    starts, sent, cancels, faults    \* bounded events so far

vars == <<inst, inbox, old, work, tracked, eaten, abrupt, starts, sent, cancels, faults>>

Exec == 1..MaxExec
CallId == UNION {1..MaxCalls[i] : i \in Instance}
Data == 1..MaxData

(* parent_instance and parent_id; `from', the parent's execution, is not   *)
(* in the code: it only serves to state properties.                        *)
NoLink == [inst |-> NoInstance, id |-> 0, from |-> 0]
Link == [inst : Instance, id : CallId, from : Exec] \cup {NoLink}

CallKind == {"activity", "timer", "child"}

(* dropped: a *CancelRequested event names it; res: its completion event   *)
Call == [kind : CallKind, dropped : BOOLEAN, res : {"none", "ok", "err"}]

(* What the history of the current execution says: its schedules, the      *)
(* arrivals of the event queue, how many of them completed subscriptions   *)
(* took, and how many subscriptions have neither a message nor a           *)
(* cancellation event.                                                     *)
Execution ==
    [exec : 0..MaxExec,
     status : {"none", "running", "completed", "failed", "continued"},
     link : Link, cancel : BOOLEAN, calls : Seq(Call),
     arrived : Seq(Data), taken : Nat, waiting : Nat]

Fresh(e, status, link) ==
    [exec |-> e, status |-> status, link |-> link, cancel |-> FALSE, calls |-> <<>>,
     arrived |-> <<>>, taken |-> 0, waiting |-> 0]

(* Work items.  res: success, application error or system error; `idle',   *)
(* the subscriptions of the continued execution without a message, is not  *)
(* in the code: it only serves to state properties.                        *)
Start(link) == [type |-> "start", link |-> link]
ContinueAsNew(carry, idle) == [type |-> "can", carry |-> carry, idle |-> idle]
Done(kind, e, k, res, from) ==
    [type |-> "done", kind |-> kind, exec |-> e, id |-> k, res |-> res, from |-> from]
QueueMessage(d) == [type |-> "queue", data |-> d]
CancelInstance == [type |-> "cancel"]

(* hide: 0 when visible, n when hidden by the n-th fault (an abandonment), *)
(* Pending for a timer that is not due.                                    *)
Pending == -1
Row(i, msg, hide) == [to |-> i, msg |-> msg, hide |-> hide]

Init ==
    /\ inst = [i \in Instance |-> Fresh(0, "none", NoLink)]
    /\ inbox = [i \in Instance |-> <<>>]
    /\ old = [i \in Instance |-> 0]
    /\ work = {}
    /\ tracked = [r \in Runtime |-> [i \in Instance |-> 0]]
    /\ eaten = [i \in Instance |-> <<>>]
    /\ abrupt = {}
    /\ starts = 0 /\ sent = 0 /\ cancels = 0 /\ faults = 0

----------------------------------------------------------------------------
(* Batches. *)

Has(box, type) == \E k \in DOMAIN box : box[k].msg.type = type

RowsOf(box, type) == Pick(box, {k \in DOMAIN box : box[k].msg.type = type})

Visible(box) == Pick(box, {k \in DOMAIN box : box[k].hide = 0})

(* The batch fetched when the inbox had n rows. *)
Batch(i, n) == Pick(inbox[i], {k \in 1..n : inbox[i][k].hide = 0})

(* Mutant: every row of the instance is deleted, fetched or not. *)
RestNone(i, n) == <<>>

(* What the deletion of that batch leaves. *)
Rest(i, n) ==
    Pick(inbox[i], {k \in DOMAIN inbox[i] : k > n \/ inbox[i][k].hide # 0})

(* WorkItemReader: of several starts the first in the batch counts.        *)
IsContinueAsNew(b) ==
    \E k \in DOMAIN b :
        b[k].msg.type = "can" /\ \A j \in 1..(k - 1) : b[j].msg.type # "start"

Carried(b) == IF IsContinueAsNew(b) THEN RowsOf(b, "can")[1].msg.carry ELSE <<>>

(* The provider does not deliver a batch without a context. *)
Deliverable(i, b) ==
    b # <<>> /\ (inst[i].status = "none" => Has(b, "start") \/ Has(b, "can"))

(* Mutant: a continued execution is terminal whatever the batch holds. *)
EndedWhenContinued(i, b) == inst[i].status \in {"completed", "failed", "continued"}

Ended(i, b) ==
    \/ inst[i].status \in {"completed", "failed"}
    \/ inst[i].status = "continued" /\ ~IsContinueAsNew(b)

(* Mutant: the new execution keeps its number. *)
OpenSame(i, b) ==
    IF IsContinueAsNew(b) THEN Fresh(inst[i].exec, "running", NoLink)
    ELSE IF inst[i].status = "none" THEN Fresh(1, "running", RowsOf(b, "start")[1].msg.link)
    ELSE inst[i]

(* Mutant: executions are counted from zero. *)
OpenFromZero(i, b) ==
    IF IsContinueAsNew(b) THEN Fresh(inst[i].exec + 1, "running", NoLink)
    ELSE IF inst[i].status = "none" THEN Fresh(0, "running", RowsOf(b, "start")[1].msg.link)
    ELSE inst[i]

(* The execution a batch is for: ContinueAsNew begins the next one, with   *)
(* an empty history and no parent.                                         *)
Open(i, b) ==
    IF IsContinueAsNew(b) THEN Fresh(inst[i].exec + 1, "running", NoLink)
    ELSE IF inst[i].status = "none" THEN Fresh(1, "running", RowsOf(b, "start")[1].msg.link)
    ELSE inst[i]

----------------------------------------------------------------------------
(* prep_completions: the messages of batch b that become events of x. *)

Answers(b) == {k \in DOMAIN b : b[k].msg.type = "done"}

Outcome(m) == IF m.res = "ok" THEN "ok" ELSE "err"

IsForCurrentExecution(x, m) == m.exec = x.exec

(* There is an event of the same kind; ActivityFailed is not looked up.    *)
IsAlreadyInHistory(x, m) ==
    /\ m.id \in DOMAIN x.calls
    /\ x.calls[m.id].kind = m.kind /\ x.calls[m.id].res = Outcome(m)
    /\ ~(m.kind = "activity" /\ Outcome(m) = "err")

Considered(x, m) == IsForCurrentExecution(x, m) /\ ~IsAlreadyInHistory(x, m)

(* The considered answers that no earlier one in the batch repeats.        *)
Materialized(x, b) ==
    {b[n].msg : n \in {k \in Answers(b) :
        /\ Considered(x, b[k].msg)
        /\ ~\E j \in Answers(b) :
              /\ j < k /\ Considered(x, b[j].msg)
              /\ b[j].msg.id = b[k].msg.id /\ b[j].msg.kind = b[k].msg.kind}}

(* There is no such schedule, or its completion was delivered before.      *)
Unexpected(x, m) ==
    \/ m.id \notin DOMAIN x.calls
    \/ x.calls[m.id].kind # m.kind
    \/ x.calls[m.id].res # "none"

Aborts(x, b) == \E m \in Materialized(x, b) : Unexpected(x, m) \/ m.res = "sys"

Resolved(x, b) ==
    [k \in DOMAIN x.calls |->
        LET ms == {m \in Materialized(x, b) : m.id = k /\ ~Unexpected(x, m)} IN
        IF ms = {} THEN x.calls[k]
        ELSE [x.calls[k] EXCEPT !.res = Outcome(CHOOSE m \in ms : TRUE)]]

Arrivals(b) ==
    LET rows == RowsOf(b, "queue") IN [n \in DOMAIN rows |-> rows[n].msg.data]

(* Mutant: the carried messages come after the new ones. *)
AppliedCarryLast(x, b) ==
    [x EXCEPT !.calls = Resolved(x, b),
              !.arrived = @ \o Arrivals(b) \o Carried(b),
              !.cancel = @ \/ Has(b, "cancel")]

Applied(x, b) ==
    [x EXCEPT !.calls = Resolved(x, b),
              !.arrived = @ \o Carried(b) \o Arrivals(b),
              !.cancel = @ \/ Has(b, "cancel")]

----------------------------------------------------------------------------
(* What the orchestration code may do in a turn. *)

Outstanding(x) ==
    {k \in DOMAIN x.calls : x.calls[k].res = "none" /\ ~x.calls[k].dropped}

(* Something the code waited for has completed, so that it may drop the    *)
(* losers of a select.                                                     *)
Progress(x, y) ==
    y.taken > x.taken \/ \E k \in DOMAIN x.calls : x.calls[k].res # y.calls[k].res

(* It schedules new calls; ids are taken in order. *)
Scheduled(i, y) ==
    UNION {{[y EXCEPT !.calls = [k \in 1..n |->
                IF k \in DOMAIN kind
                  THEN [kind |-> kind[k], dropped |-> FALSE, res |-> "none"]
                  ELSE y.calls[k]]] :
              kind \in {f \in [(Len(y.calls) + 1)..n -> Kinds[i]] :
                          \A k \in DOMAIN f : f[k] = "child" => <<i, k>> \in DOMAIN Child}} :
           n \in Len(y.calls)..MaxCalls[i]}

(* It dequeues: subscriptions take the arrivals in order.  Some are left   *)
(* without a message, be it that there is none, that the code does not     *)
(* await them or that one before them was dropped in this turn.            *)
Dequeued(i, y) ==
    UNION {{[y EXCEPT !.taken = n, !.waiting = w] : w \in 0..MaxWaits[i]} :
           n \in y.taken..Len(y.arrived)}

Drop(z, D) ==
    [z EXCEPT !.calls = [k \in DOMAIN z.calls |->
        IF k \in D THEN [z.calls[k] EXCEPT !.dropped = TRUE] ELSE z.calls[k]]]

----------------------------------------------------------------------------
(* The effects of a turn. *)

(* get_execution_id_for_instance(parent, None) *)
ExecutionId(r, p) == IF tracked[r][p] = 0 THEN 1 ELSE tracked[r][p]

(* Mutant: a parent is told of success only. *)
NotifySuccess(r, link, res) ==
    IF link.inst = NoInstance \/ res # "ok" THEN <<>>
    ELSE <<Row(link.inst,
               Done("child", ExecutionId(r, link.inst), link.id, res, link.from), 0)>>

Notify(r, link, res) ==
    IF link.inst = NoInstance THEN <<>>
    ELSE <<Row(link.inst,
               Done("child", ExecutionId(r, link.inst), link.id, res, link.from), 0)>>

(* One row per call of z in D that has an effect on the queue. *)
CancelChildren(i, z, D) ==
    LET ids == Pick([k \in DOMAIN z.calls |-> k],
                    {k \in DOMAIN z.calls : k \in D /\ z.calls[k].kind = "child"})
    IN  [n \in DOMAIN ids |-> Row(Child[<<i, ids[n]>>], CancelInstance, 0)]

(* The rows of the calls that z has in addition to y. *)
NewRows(i, y, z) ==
    LET ids == Pick([k \in DOMAIN z.calls |-> k],
                    {k \in DOMAIN z.calls : k > Len(y.calls) /\ z.calls[k].kind # "activity"})
    IN  [n \in DOMAIN ids |->
           IF z.calls[ids[n]].kind = "timer"
             THEN Row(i, Done("timer", z.exec, ids[n], "ok", z.exec), Pending)
             ELSE Row(Child[<<i, ids[n]>>],
                      Start([inst |-> i, id |-> ids[n], from |-> z.exec]), 0)]

Activities(i, z, D) ==
    {<<i, z.exec, k>> : k \in {j \in D : z.calls[j].kind = "activity"}}

(* The batch is deleted and the rows of `out' are inserted. *)
Ack(i, n, out) ==
    /\ inbox' = [j \in Instance |->
                 (IF j = i THEN Rest(i, n) ELSE inbox[j])
                     \o Pick(out, {k \in DOMAIN out : out[k].to = j})]
    /\ old' = [old EXCEPT ![i] = Len(inbox'[i])]

(* Mutant: the activities of the old execution are left alone. *)
TerminateOnly(i, z, status) ==
    /\ inst' = [inst EXCEPT ![i] = Fresh(z.exec, status, z.link)]
    /\ UNCHANGED work

(* A terminal event: what the history says is not read again, its link     *)
(* excepted, and in-flight activities are cancelled.                       *)
Terminate(i, z, status) ==
    /\ inst' = [inst EXCEPT ![i] = Fresh(z.exec, status, z.link)]
    /\ work' = work \ Activities(i, z, Outstanding(z))

----------------------------------------------------------------------------
(* process_orchestration_item, on the first n rows of i's inbox.           *)

(* The history is terminal: the batch is acknowledged without a turn.      *)
AckEnded(i, n) ==
    /\ Deliverable(i, Batch(i, n)) /\ Ended(i, Batch(i, n))
    /\ Ack(i, n, <<>>)
    /\ UNCHANGED <<inst, work, tracked, eaten, abrupt, starts, sent, cancels, faults>>

(* A turn that is run: x is the execution before it, y with its messages.  *)
Before(i, n) == Open(i, Batch(i, n))
After(i, n) == Applied(Before(i, n), Batch(i, n))
Turn(i, n) == Deliverable(i, Batch(i, n)) /\ ~Ended(i, Batch(i, n))
Abort(i, n) == Aborts(Before(i, n), Batch(i, n))

(* The code is not run; outstanding sub-orchestrations are not told.       *)
FailTurn(r, i, n) ==
    /\ Turn(i, n) /\ Abort(i, n)
    /\ Terminate(i, After(i, n), "failed")
    /\ Ack(i, n, Notify(r, After(i, n).link, "sys"))
    /\ UNCHANGED <<tracked, eaten, abrupt, starts, sent, cancels, faults>>

(* The code panics: nothing it dropped is collected. *)
Panic(r, i, n) ==
    /\ Turn(i, n) /\ ~Abort(i, n)
    /\ Terminate(i, After(i, n), "failed")
    /\ Ack(i, n, Notify(r, After(i, n).link, "app"))
    /\ UNCHANGED <<tracked, eaten, abrupt, starts, sent, cancels, faults>>

(* A cancellation takes precedence over what the code returned; calls it   *)
(* made in this turn are outstanding though they were never started.       *)
CancelTurn(r, i, n) ==
    /\ Turn(i, n) /\ ~Abort(i, n) /\ After(i, n).cancel
    /\ \E z \in Scheduled(i, After(i, n)) :
          /\ Terminate(i, z, "failed")
          /\ Ack(i, n, CancelChildren(i, z, Outstanding(z)) \o Notify(r, z.link, "app"))
    /\ UNCHANGED <<tracked, eaten, abrupt, starts, sent, cancels, faults>>

(* The code returns; the futures it still holds are dropped.               *)
ReturnTurn(r, i, n) ==
    /\ Turn(i, n) /\ ~Abort(i, n) /\ ~After(i, n).cancel
    /\ \E z \in Scheduled(i, After(i, n)), res \in {"ok", "app"} :
          /\ Terminate(i, z, IF res = "ok" THEN "completed" ELSE "failed")
          /\ Ack(i, n, Notify(r, z.link, res) \o CancelChildren(i, z, Outstanding(z)))
    /\ UNCHANGED <<tracked, eaten, abrupt, starts, sent, cancels, faults>>

(* Mutant: the subscription that completed last is counted twice. *)
UnmatchedOffByOne(z) ==
    SubSeq(z.arrived, z.taken + z.waiting + (IF z.taken > 0 THEN 2 ELSE 1), Len(z.arrived))

(* collect_unmatched_queue_messages: each subscription that has no         *)
(* cancellation event takes an arrival, whether it got a message or not.   *)
Unmatched(z) == SubSeq(z.arrived, z.taken + z.waiting + 1, Len(z.arrived))

(* The subscriptions that the code drops in this turn, those it made in it *)
(* included, stay without a cancellation event: continue-as-new returns    *)
(* before they are written.                                                *)
ContinueAsNewTurn(i, n) ==
    LET x == Before(i, n)
        y == After(i, n)
    IN
    /\ Turn(i, n) /\ ~Abort(i, n) /\ ~y.cancel
    /\ i \in Continues /\ x.exec < MaxExec
    /\ \E z \in Dequeued(i, y) :
          /\ z.waiting >= x.waiting - (z.taken - x.taken)
          /\ Terminate(i, z, "continued")
          /\ LET rest == Unmatched(z)
                 most == IF Len(rest) > MaxCarry THEN MaxCarry ELSE Len(rest)
             IN  Ack(i, n, <<Row(i, ContinueAsNew(SubSeq(rest, 1, most), z.waiting), 0)>>)
          /\ eaten' = [eaten EXCEPT ![i] = @ \o SubSeq(z.arrived, x.taken + 1, z.taken)]
    /\ UNCHANGED <<tracked, abrupt, starts, sent, cancels, faults>>

(* The execution goes on: new calls are sent out, dropped ones cancelled.  *)
ContinueTurn(r, i, n) ==
    LET x == Before(i, n)
        y == After(i, n)
    IN
    /\ Turn(i, n) /\ ~Abort(i, n) /\ ~y.cancel
    /\ \E q \in Dequeued(i, y), D \in SUBSET Outstanding(y) : \E z \in Scheduled(i, q) :
          LET added == (Len(y.calls) + 1)..Len(z.calls) IN
          /\ D # {} \/ z.waiting < x.waiting => Progress(x, z)
          /\ inst' = [inst EXCEPT ![i] = Drop(z, D)]
          /\ work' = (work \ Activities(i, z, D)) \cup Activities(i, z, added)
          /\ Ack(i, n, NewRows(i, y, z) \o CancelChildren(i, z, D))
          /\ tracked' = IF \E k \in added : z.calls[k].kind # "child"
                           THEN [tracked EXCEPT ![r][i] = z.exec] ELSE tracked
          /\ eaten' = [eaten EXCEPT ![i] = @ \o SubSeq(z.arrived, x.taken + 1, z.taken)]
    /\ UNCHANGED <<abrupt, starts, sent, cancels, faults>>

----------------------------------------------------------------------------
(* Turns that end otherwise. *)

Fault == faults < MaxFaults /\ faults' = faults + 1

(* The orchestration is not registered here: every visible row is hidden.  *)
Abandon(i) ==
    /\ Turn(i, Len(inbox[i]))
    /\ Fault
    /\ inbox' = [inbox EXCEPT ![i] =
          [k \in DOMAIN @ |-> IF @[k].hide = 0 THEN [@[k] EXCEPT !.hide = faults'] ELSE @[k]]]
    /\ old' = [old EXCEPT ![i] = Len(inbox[i])]
    /\ UNCHANGED <<inst, work, tracked, eaten, abrupt, starts, sent, cancels>>

Reappear(i, h) ==
    /\ \E k \in DOMAIN inbox[i] : inbox[i][k].hide = h
    /\ inbox' = [inbox EXCEPT ![i] =
          [k \in DOMAIN @ |-> IF @[k].hide = h THEN [@[k] EXCEPT !.hide = 0] ELSE @[k]]]
    /\ UNCHANGED <<inst, old, work, tracked, eaten, abrupt, starts, sent, cancels, faults>>

(* fail_orchestration_as_poison: the history is not looked at, activities  *)
(* and sub-orchestrations are left alone.                                  *)
Poison(r, i, n) ==
    LET b == Batch(i, n)
        x == IF inst[i].status = "none" THEN Open(i, b) ELSE inst[i]
    IN
    /\ Deliverable(i, b)
    /\ Fault
    /\ inst' = [inst EXCEPT ![i] = Fresh(x.exec, "failed", x.link)]
    /\ Ack(i, n, Notify(r, x.link, "sys"))
    /\ abrupt' = abrupt \cup {i}
    /\ UNCHANGED <<work, tracked, eaten, starts, sent, cancels>>

(* The ack of a turn failed for good, and a failure is committed in its    *)
(* place: nobody is told.  (For a first turn see OrchestratorQueue.)       *)
FailureAck(i, n) ==
    /\ Turn(i, n) /\ inst[i].status # "none"
    /\ Fault
    /\ inst' = [inst EXCEPT ![i] = Fresh(Before(i, n).exec, "failed", Before(i, n).link)]
    /\ Ack(i, n, <<>>)
    /\ abrupt' = abrupt \cup {i}
    /\ UNCHANGED <<work, tracked, eaten, starts, sent, cancels>>

(* A process is started again: the map of execution ids is in memory.      *)
Restart(r) ==
    /\ Fault
    /\ tracked' = [tracked EXCEPT ![r] = [i \in Instance |-> 0]]
    /\ UNCHANGED <<inst, inbox, old, work, eaten, abrupt, starts, sent, cancels>>

----------------------------------------------------------------------------
(* Clients, workers and timers. *)

Enqueue(i, msg) == inbox' = [inbox EXCEPT ![i] = Append(@, Row(i, msg, 0))]

(* An instance that was started, if perhaps not yet fetched. *)
Known(i) == inst[i].status # "none" \/ Has(inbox[i], "start")

StartOrchestration(i) ==
    /\ starts < MaxStarts
    /\ starts' = starts + 1
    /\ Enqueue(i, Start(NoLink))
    /\ UNCHANGED <<inst, old, work, tracked, eaten, abrupt, sent, cancels, faults>>

EnqueueEvent(i) ==
    /\ sent < MaxData /\ Known(i)
    /\ sent' = sent + 1
    /\ Enqueue(i, QueueMessage(sent'))
    /\ UNCHANGED <<inst, old, work, tracked, eaten, abrupt, starts, cancels, faults>>

RequestCancel(i) ==
    /\ cancels < MaxCancels /\ Known(i)
    /\ cancels' = cancels + 1
    /\ Enqueue(i, CancelInstance)
    /\ UNCHANGED <<inst, old, work, tracked, eaten, abrupt, starts, sent, faults>>

(* The clock reaches fire_at_ms: the row becomes visible. *)
Fire(i, k) ==
    /\ inbox[i][k].hide = Pending
    /\ inbox' = [inbox EXCEPT ![i][k].hide = 0]
    /\ UNCHANGED <<inst, old, work, tracked, eaten, abrupt, starts, sent, cancels, faults>>

(* ack_work_item *)
CompleteActivity(a, res) ==
    /\ work' = work \ {a}
    /\ Enqueue(a[1], Done("activity", a[2], a[3], res, a[2]))
    /\ UNCHANGED <<inst, old, tracked, eaten, abrupt, starts, sent, cancels, faults>>

----------------------------------------------------------------------------
Next ==
    \/ \E i \in Root : StartOrchestration(i)
    \/ \E i \in Mailbox : EnqueueEvent(i)
    \/ \E i \in Instance : RequestCancel(i) \/ Abandon(i)
    \/ \E i \in Instance, h \in 1..MaxFaults : Reappear(i, h)
    \/ \E i \in Instance : \E k \in DOMAIN inbox[i] : Fire(i, k)
    \/ \E a \in work, res \in {"ok", "app", "sys"} : CompleteActivity(a, res)
    \/ \E i \in Instance : \E n \in old[i]..Len(inbox[i]) :
          \/ AckEnded(i, n) \/ ContinueAsNewTurn(i, n) \/ FailureAck(i, n)
          \/ \E r \in Registered[i] :
                \/ FailTurn(r, i, n) \/ Panic(r, i, n) \/ CancelTurn(r, i, n)
                \/ ReturnTurn(r, i, n) \/ ContinueTurn(r, i, n)
          \/ \E r \in Runtime : Poison(r, i, n)
    \/ \E r \in Runtime : Restart(r)

Spec == Init /\ [][Next]_vars

----------------------------------------------------------------------------
(* Properties. *)

Message ==
    [type : {"start"}, link : Link] \cup [type : {"can"}, carry : Seq(Data), idle : Nat]
    \cup [type : {"done"}, kind : CallKind, exec : Exec, id : CallId,
          res : {"ok", "app", "sys"}, from : Exec]
    \cup [type : {"queue"}, data : Data] \cup [type : {"cancel"}]

Rows(i) == [to : {i}, msg : Message, hide : Pending..MaxFaults]

(* Every variable has its type; in particular every row is in the inbox of *)
(* its addressee, every activity belongs to an execution, an execution has *)
(* a number once it exists and takes no more messages than have arrived.   *)
TypeOK ==
    /\ inst \in [Instance -> Execution]
    /\ \A i \in Instance :
          /\ inst[i].status = "none" <=> inst[i].exec = 0
          /\ Len(inst[i].calls) <= MaxCalls[i]
          /\ inst[i].taken <= Len(inst[i].arrived)
    /\ DOMAIN inbox = Instance /\ \A i \in Instance : inbox[i] \in Seq(Rows(i))
    /\ old \in [Instance -> Nat] /\ \A i \in Instance : old[i] <= Len(inbox[i])
    /\ work \subseteq Instance \X Exec \X CallId
    /\ tracked \in [Runtime -> [Instance -> 0..MaxExec]]
    /\ eaten \in [Instance -> Seq(Data)]
    /\ abrupt \subseteq Instance
    /\ starts \in 0..MaxStarts /\ sent \in 0..MaxData
    /\ cancels \in 0..MaxCancels /\ faults \in 0..MaxFaults

(* A message that will fail its instance's next turn as nondeterministic.  *)
Incriminating(i, m) ==
    /\ inst[i].status = "running"
    /\ m.type = "done"
    /\ Considered(inst[i], m) /\ Unexpected(inst[i], m)

Messages(i) == {inbox[i][k].msg : k \in DOMAIN inbox[i]}

(* A completion of an activity or a timer always finds its schedule open,  *)
(* also when it was on its way while its instance continued as new with    *)
(* other schedules under the same ids.                                     *)
OwnAnswersMatch ==
    \A i \in Instance : \A m \in Messages(i) :
        Incriminating(i, m) => m.kind = "child"

(* An activity waits for a worker or runs only as long as the execution    *)
(* that scheduled it goes on and wants its result.  (A poisoned instance   *)
(* does leave activities behind.)                                          *)
NoOrphanWork ==
    \A a \in work :
        \/ a[1] \in abrupt
        \/ /\ inst[a[1]].status = "running" /\ inst[a[1]].exec = a[2]
           /\ a[3] \in Outstanding(inst[a[1]])

(* An instance that continued as new has its next execution in the inbox,  *)
(* unless it was started twice, by a client or by two executions of its    *)
(* parent: a start ahead of the ContinueAsNew in its batch makes the batch *)
(* look as one for the ended execution.                                    *)
ContinuationPending ==
    \A i \in Instance :
        inst[i].status = "continued" =>
            \/ Has(inbox[i], "can")
            \/ starts > 1
            \/ \E c \in DOMAIN Child : Child[c] = i /\ inst[c[1]].exec > 1

(* What an instance dequeued, has buffered, carries on or has in its       *)
(* inbox, in the order in which it will be seen.                           *)
Buffered(x) == SubSeq(x.arrived, x.taken + 1, Len(x.arrived))

InTransit(i) ==
    LET c == RowsOf(inbox[i], "can") IN
    (IF c = <<>> THEN <<>> ELSE c[1].msg.carry) \o Arrivals(inbox[i])

Stream(i) == eaten[i] \o Buffered(inst[i]) \o InTransit(i)

(* No queue message is dequeued twice, over any number of executions, and  *)
(* they are dequeued in the order in which they were sent as long as no    *)
(* turn was abandoned (which hides messages, and lets later ones pass).    *)
QueueOrder ==
    \A i \in Instance :
        LET s == Stream(i) IN
        \A j, k \in DOMAIN s :
            j < k => IF faults = 0 THEN s[j] < s[k] ELSE s[j] # s[k]

(* No message gets lost in a turn after which the execution goes on.       *)
Streamed(i) == LET s == Stream(i) IN {s[k] : k \in DOMAIN s}

QueueKept ==
    [][\A i \in Instance :
          inst'[i].status = "running" => Streamed(i) \subseteq Streamed(i)']_vars

(* Continue-as-new loses a queue message for each dequeue it leaves        *)
(* without one, which is counted as having taken one (Unmatched), and the  *)
(* newest ones beyond the carry-forward limit, but no others.  One         *)
(* exception: while the ContinueAsNew is hidden by an abandonment, or      *)
(* stands behind a second start, the instance looks ended, and what is in  *)
(* the batch is acknowledged away (Ended).                                 *)
QueueCarried ==
    [][\A i \in Instance :
          /\ inst'[i].status = "continued"
          /\ inst[i].status = "continued" => IsContinueAsNew(Visible(inbox[i]))
          => LET lost == Streamed(i) \ Streamed(i)'
                 can == RowsOf(inbox'[i], "can")[1].msg
                 At(d) == CHOOSE k \in DOMAIN Stream(i) : Stream(i)[k] = d
                 Newest(d) == /\ Len(can.carry) = MaxCarry
                              /\ \A n \in DOMAIN can.carry : At(can.carry[n]) < At(d)
             IN  lost # {} => Cardinality({d \in lost : ~Newest(d)}) <= can.idle]_vars

(* A parent that waits for a child is going to hear of it: the child is    *)
(* being started, runs for this very call, or has answered it.  This needs *)
(* that the parent has not continued as new (its children then stamp their *)
(* answers with the number of its new execution, by ExecutionId), nor the  *)
(* child, and that the runtime has not failed the child.                   *)
Answering(i, k) ==
    LET c == Child[<<i, k>>]
        link == [inst |-> i, id |-> k, from |-> inst[i].exec]
    IN
    \/ Start(link) \in Messages(c)
    \/ inst[c].status = "running" /\ inst[c].link = link
    \/ \E m \in Messages(i) :
          m.type = "done" /\ m.kind = "child" /\ m.id = k /\ m.exec = inst[i].exec

AwaitedChildAnswers ==
    \A i \in Instance : inst[i].status = "running" =>
        \A k \in Outstanding(inst[i]) :
            inst[i].calls[k].kind = "child" =>
                \/ Answering(i, k)
                \/ inst[i].exec > 1
                \/ Child[<<i, k>>] \in abrupt \cup Continues

=============================================================================
