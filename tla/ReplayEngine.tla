---------------------------- MODULE ReplayEngine ----------------------------
(***************************************************************************)
(* The replay engine: how one execution of an orchestration runs turn by   *)
(* turn, each turn running its code again from the beginning against the   *)
(* history that the turns before it have written.                          *)
(*                                                                         *)
(* The code is any deterministic code made of rounds.  A round emits some  *)
(* actions, then waits for all of their futures (join) or for one of them  *)
(* (select2, which polls them in its argument order and drops the losers). *)
(* Which round comes next may depend on everything observed so far, and    *)
(* what an action carries is all that has been observed: the variable code *)
(* is a function from observations to rounds, chosen when it is first      *)
(* needed and the same ever after.  Left out are code that wakes its own   *)
(* task, panics, answers that are system errors (they abort the turn), and *)
(* the limit of 100 iterations of the quiescence loop.                     *)
(*                                                                         *)
(* The id of an event is its position in the history.  There is one name   *)
(* of external events and one queue.                                       *)
(***************************************************************************)
EXTENDS Integers, Sequences, FiniteSets, SequencesExt, Subsequence

CONSTANTS
  Scenario,  \* what to run: the rounds that the code may be made of, and bounds
             \* on the rounds, on the messages of a turn, on external events,
             \* on messages of the queue and on cancellations by a client
  None

Answered == {"Activity", "SubOrch", "Timer"}
Awaited  == Answered \cup {"External", "Queue", "ContinueAsNew"}

(* A round waits for something; a note (a status, a value) is only emitted. *)
ASSUME ScenarioAssumption ==
  \A s \in Scenario :
    /\ s.batch \in Nat \ {0}
    /\ s.depth \in Nat /\ s.raised \in Nat /\ s.queued \in Nat /\ s.cancels \in Nat
    /\ \A r \in s.rounds :
         /\ r.acts \in Seq(Awaited \cup {"Note"})
         /\ \E x \in DOMAIN r.acts : r.acts[x] \in Awaited
         /\ r.wait \in {"all", "any"} /\ r.flip \in BOOLEAN

ASSUME NoneAssumption == None \notin Nat

VARIABLES
  scenario,  \* the member of Scenario that this behaviour runs
  code,      \* the code, as far as it has been needed
  history,   \* the events of the execution that are stored
  delta,     \* history_delta: the events of this turn
  ctx,       \* the OrchestrationContext of this turn, and its future
  eng,       \* the variables of execute_orchestration
  last       \* what the code had observed when the last turn ended

vars == <<scenario, code, history, delta, ctx, eng, last>>

-----------------------------------------------------------------------------
Event(kind, what, src, data) ==
  [kind |-> kind, what |-> what, src |-> src, data |-> data]

Working == history \o delta

(* The empty round ends the code. *)
Return == [acts |-> <<>>, wait |-> "all", flip |-> FALSE]

(* The context of a turn.  awaits, wait and got are the future's own:      *)
(* the tokens it is waiting for, in the order it polls them, and what the  *)
(* ones that completed gave (an event id).  A token is a number.           *)
NewContext ==
  [seen |-> <<>>, awaits |-> <<>>, wait |-> "all", got |-> <<>>,
   kinds |-> <<>>, bound |-> <<>>, results |-> <<>>,
   subs |-> <<>>, arrivals |-> <<>>, cancelled |-> {},
   qsubs |-> <<>>, qarrivals |-> <<>>, qcancelled |-> {},
   dropped |-> {}, output |-> FALSE]

Engine(phase) ==
  [phase |-> phase, pos |-> 1, fifo |-> <<>>, open |-> {}, must_poll |-> TRUE,
   pending |-> <<>>]

(* Where the code is: what it has observed, and its futures. *)
Observed(c) ==
  [seen |-> c.seen, got |-> c.got, dropped |-> c.dropped,
   bound |-> [t \in {x \in DOMAIN c.bound : c.kinds[x] \in Awaited} |-> c.bound[t]]]

Init ==
  /\ scenario \in Scenario
  /\ code = <<>>
  /\ history = <<>>
  /\ delta = <<>>
  /\ ctx = NewContext
  /\ eng = Engine("idle")
  /\ last = Observed(NewContext)

-----------------------------------------------------------------------------
(* The context: OrchestrationContext and CtxInner.                         *)

Without(s, gone) == Pick(s, {x \in DOMAIN s : s[x] \notin gone})

(* What subscription id finds at its place among the arrivals. *)
AtPlace(subs, arrivals, id) ==
  LET places == {x \in DOMAIN subs \cap DOMAIN arrivals : subs[x] = id}
  IN  IF places = {} THEN None ELSE arrivals[CHOOSE x \in places : TRUE]

(* Mutant of Arrival: cancelled subscriptions keep their places. *)
Arrival_Positional(subs, cancelled, arrivals, id) ==
  IF id \in cancelled THEN None ELSE AtPlace(subs, arrivals, id)

(* The arrival that belongs to subscription id: subscriptions and arrivals *)
(* are matched in order, the cancelled subscriptions left out.  (A future  *)
(* that has completed is not polled again, so that a subscription need not *)
(* be known as resolved.)                                                  *)
Arrival(subs, cancelled, arrivals, id) ==
  AtPlace(Without(subs, cancelled), arrivals, id)

get_external_event(c, id) == Arrival(c.subs, c.cancelled, c.arrivals, id)

get_queue_message(c, id) == Arrival(c.qsubs, c.qcancelled, c.qarrivals, id)

(* Mutant of has_pending_subscription_slot: an event is always taken in. *)
HasSlot_Always(c) == c.subs # <<>>

has_pending_subscription_slot(c) ==
  Len(Without(c.subs, c.cancelled)) > Len(c.arrivals)

(* One poll of the future of a token. *)
Resolve(c, t) ==
  CASE c.kinds[t] \in Answered /\ t \in DOMAIN c.results -> c.results[t]
    [] c.kinds[t] = "External" /\ t \in DOMAIN c.bound -> get_external_event(c, c.bound[t])
    [] c.kinds[t] = "Queue" /\ t \in DOMAIN c.bound -> get_queue_message(c, c.bound[t])
    [] OTHER -> None

(* What a future has given so far. *)
Given(c, t) == IF c.got[t] # None THEN c.got[t] ELSE Resolve(c, t)

Completed(c) == {x \in DOMAIN c.awaits : Given(c, c.awaits[x]) # None}

Ready(c) ==
  IF c.wait = "all" THEN Completed(c) = DOMAIN c.awaits ELSE Completed(c) # {}

(* The future that wins a select2: the first that is ready. *)
Winner(c) ==
  c.awaits[CHOOSE x \in Completed(c) : \A y \in Completed(c) : x <= y]

(* What the round gave: of a select2 only what won. *)
Outcome(c) ==
  LET taken == IF c.wait = "all" THEN c.awaits ELSE <<Winner(c)>>
  IN  [x \in DOMAIN taken |-> <<taken[x], Given(c, taken[x])>>]

Seen(c) == Append(c.seen, Outcome(c))

(* The code enters a round: its actions are emitted, with new tokens. *)
Enter(c, r) ==
  LET n == Len(c.kinds)
      own == [x \in DOMAIN r.acts |-> n + x]
      awaits == Pick(own, {x \in DOMAIN own : r.acts[x] \in Awaited})
      losers == IF c.wait = "any" THEN Range(c.awaits) \ {Winner(c)} ELSE {}
  IN  [ctx |-> [c EXCEPT !.seen = Seen(c),
                         !.dropped = @ \cup losers,
                         !.kinds = @ \o r.acts,
                         !.awaits = IF r.flip THEN Reverse(awaits) ELSE awaits,
                         !.wait = r.wait,
                         !.got = [t \in Range(awaits) |-> None],
                         !.output = r.acts = <<>>],
       emitted |-> [x \in DOMAIN own |->
                      [token |-> own[x], kind |-> r.acts[x], data |-> Seen(c)]]]

(* poll_orchestration_future.  A new round waits for tokens that are not   *)
(* bound yet, so that one poll enters one round at most.                   *)
poll(c, k) ==
  IF Ready(c) THEN Enter(c, k[Seen(c)])
  ELSE [ctx |-> IF c.wait = "any" THEN c
                ELSE [c EXCEPT !.got = [t \in DOMAIN c.got |-> Given(c, t)]],
        emitted |-> <<>>]

(* The code that a poll may find: what is new about it is one round. *)
Codes(c) ==
  IF ~Ready(c) \/ Seen(c) \in DOMAIN code THEN {code}
  ELSE {[x \in DOMAIN code \cup {Seen(c)} |-> IF x = Seen(c) THEN r ELSE code[x]] :
          r \in IF Len(c.seen) < scenario.depth THEN scenario.rounds \cup {Return} ELSE {Return}}

(* bind_token, bind_external_subscription and bind_queue_subscription. *)
Bind(c, token, id) ==
  [c EXCEPT !.bound = [t \in DOMAIN @ \cup {token} |-> IF t = token THEN id ELSE @[t]],
            !.subs = IF c.kinds[token] = "External" THEN Append(@, id) ELSE @,
            !.qsubs = IF c.kinds[token] = "Queue" THEN Append(@, id) ELSE @]

(* get_cancelled_activity_ids and its like. *)
DroppedIds(c, kind) ==
  {c.bound[t] : t \in {x \in c.dropped \cap DOMAIN c.bound : c.kinds[x] = kind}}

-----------------------------------------------------------------------------
(* prep_completions: messages become events; a second completion of the    *)
(* same schedule and a second cancellation are ignored.                    *)
prep_completions(start, messages) ==
  LET Redundant(d, e) ==
        \E x \in Range(history \o d) :
          /\ e.kind \in {"Completed", "CancelRequested"}
          /\ x.kind = e.kind /\ x.src = e.src
      prep[n \in 0..Len(messages)] ==
        IF n = 0 THEN start
        ELSE IF Redundant(prep[n - 1], messages[n]) THEN prep[n - 1]
        ELSE Append(prep[n - 1], messages[n])
  IN  prep[Len(messages)]

Count(kind) == Cardinality({x \in DOMAIN history : history[x].kind = kind})

Limit(kind) ==
  CASE kind = "ExternalEvent" -> scenario.raised
    [] kind = "QueueEvent" -> scenario.queued
    [] OTHER -> scenario.cancels

(* Whatever may be in the instance's queue: answers to what it has         *)
(* scheduled, dropped or not, and what clients send.                       *)
Messages ==
  {Event("Completed", history[x].what, x, None) :
     x \in {y \in DOMAIN history : /\ history[y].kind = "Scheduled"
                                   /\ history[y].what \in Answered}}
  \cup {Event(kind, None, None, None) :
          kind \in {k \in {"ExternalEvent", "QueueEvent", "CancelRequested"} : Count(k) < Limit(k)}}

(* A turn begins; the first one with the message that starts the           *)
(* orchestration.                                                          *)
BeginTurn ==
  /\ eng.phase = "idle"
  /\ LET first == history = <<>>
     IN  \E n \in (IF first THEN 0 ELSE 1)..(IF first THEN scenario.batch - 1 ELSE scenario.batch) :
           \E batch \in [1..n -> Messages] :
             delta' = prep_completions(
                        IF first THEN <<Event("Started", None, None, None)>> ELSE <<>>, batch)
  /\ ctx' = NewContext
  /\ eng' = Engine("replay")
  /\ UNCHANGED <<scenario, code, history, last>>

-----------------------------------------------------------------------------
(* execute_orchestration: the loop over the history.                       *)

Replaying == eng.phase = "replay" /\ ~ctx.output

Poll ==
  /\ Replaying
  /\ eng.must_poll
  /\ \E k \in Codes(ctx) :
       LET p == poll(ctx, k)
       IN  /\ code' = k
           /\ ctx' = p.ctx
           /\ eng' = [eng EXCEPT !.fifo = @ \o p.emitted, !.must_poll = FALSE]
  /\ UNCHANGED <<scenario, history, delta, last>>

Applying(kinds) ==
  /\ Replaying
  /\ ~eng.must_poll
  /\ eng.pos <= Len(Working)
  /\ Working[eng.pos].kind \in kinds
  /\ UNCHANGED <<scenario, code, history, delta, last>>

Fail == eng' = [eng EXCEPT !.phase = "nondeterminism"] /\ UNCHANGED ctx

Applied(must, fifo, open) ==
  eng' = [eng EXCEPT !.pos = @ + 1, !.must_poll = must, !.fifo = fifo, !.open = open]

(* Timers match by position and waits by their name; the others also by    *)
(* what they carry.                                                        *)
action_matches_event_kind(action, event) ==
  /\ action.kind = event.what
  /\ action.kind \in {"Activity", "SubOrch", "Note"} => action.data = event.data

(* Mutant of Expected: the action emitted last is taken first. *)
Expected_Last(event) == eng.fifo # <<>> /\ action_matches_event_kind(Last(eng.fifo), event)

Expected(event) == eng.fifo # <<>> /\ action_matches_event_kind(Head(eng.fifo), event)

(* Mutant of Wakes: the code is not polled when its queue wait is bound. *)
Wakes_Never(event) == FALSE

(* A wait for the queue may be answered as soon as it is bound. *)
Wakes(event) == event.what = "Queue"

(* match_and_bind_schedule *)
ApplySchedule ==
  /\ Applying({"Scheduled"})
  /\ LET event == Working[eng.pos]
     IN  IF ~Expected(event) THEN Fail
         ELSE /\ ctx' = Bind(ctx, Head(eng.fifo).token, eng.pos)
              /\ Applied(Wakes(event), Tail(eng.fifo), eng.open \cup {eng.pos})

(* CustomStatusUpdated, KeyValueSet and their like consume an action if    *)
(* there is one.                                                           *)
ApplyNote ==
  /\ Applying({"Noted"})
  /\ IF eng.fifo # <<>> /\ ~Expected(Working[eng.pos]) THEN Fail
     ELSE /\ Applied(FALSE, IF eng.fifo = <<>> THEN <<>> ELSE Tail(eng.fifo), eng.open)
          /\ UNCHANGED ctx

(* deliver_result *)
ApplyCompletion ==
  /\ Applying({"Completed"})
  /\ LET src == Working[eng.pos].src
         token == CHOOSE t \in DOMAIN ctx.bound : ctx.bound[t] = src
     IN  IF src \notin eng.open THEN Fail
         ELSE /\ ctx' = [ctx EXCEPT !.results =
                           [t \in DOMAIN @ \cup {token} |-> IF t = token THEN eng.pos ELSE @[t]]]
              /\ Applied(TRUE, eng.fifo, eng.open \ {src})

(* An event without a subscription to take it stays in the history only. *)
ApplyExternalEvent ==
  /\ Applying({"ExternalEvent"})
  /\ LET taken == has_pending_subscription_slot(ctx)
     IN  /\ ctx' = [ctx EXCEPT !.arrivals = IF taken THEN Append(@, eng.pos) ELSE @]
         /\ Applied(taken, eng.fifo, eng.open)

ApplyQueueEvent ==
  /\ Applying({"QueueEvent"})
  /\ ctx' = [ctx EXCEPT !.qarrivals = Append(@, eng.pos)]
  /\ Applied(TRUE, eng.fifo, eng.open)

ApplyCancelled ==
  /\ Applying({"Cancelled"})
  /\ LET event == Working[eng.pos]
     IN  ctx' = [ctx EXCEPT
           !.cancelled = IF event.what = "External" THEN @ \cup {event.src} ELSE @,
           !.qcancelled = IF event.what = "Queue" THEN @ \cup {event.src} ELSE @]
  /\ Applied(FALSE, eng.fifo, eng.open)

ApplyOther ==
  /\ Applying({"Started", "CancelRequested"})
  /\ Applied(FALSE, eng.fifo, eng.open)
  /\ UNCHANGED ctx

-----------------------------------------------------------------------------
(* The end of a turn.                                                      *)

(* Continue-as-new has no event. *)
action_to_event(a) ==
  IF a.kind \in Awaited THEN Event("Scheduled", a.kind, None, a.data)
  ELSE Event("Noted", a.kind, None, a.data)

(* convert_emitted_actions: the actions beyond the history become events   *)
(* and their tokens are bound to them.                                     *)
Converted(new, a) ==
  [ctx |-> Bind(new.ctx, a.token, Len(history) + Len(new.delta) + 1),
   delta |-> IF a.kind = "ContinueAsNew" THEN new.delta
             ELSE Append(new.delta, action_to_event(a))]

convert_emitted_actions(c, d, actions) ==
  LET new[n \in 0..Len(actions)] ==
        IF n = 0 THEN [ctx |-> c, delta |-> d] ELSE Converted(new[n - 1], actions[n])
  IN  new[Len(actions)]

Kinds(actions) == [x \in DOMAIN actions |-> actions[x].kind]

(* The history has been replayed, or the code has returned: dropped waits  *)
(* for the queue are marked, and what the code did is converted.           *)
Convert ==
  /\ eng.phase = "replay"
  /\ ctx.output \/ (eng.pos > Len(Working) /\ ~eng.must_poll)
  /\ LET marked == [ctx EXCEPT !.qcancelled = @ \cup DroppedIds(ctx, "Queue")]
         new == convert_emitted_actions(marked, delta, eng.fifo)
     IN  /\ ctx' = new.ctx
         /\ delta' = new.delta
         /\ eng' = [eng EXCEPT !.phase = "quiesce", !.fifo = <<>>,
                               !.pending = @ \o Kinds(eng.fifo)]
  /\ UNCHANGED <<scenario, code, history, last>>

(* Mutant of Unsettled: no loop. *)
Unsettled_Never == FALSE

Unsettled == ~ctx.output /\ eng.pending # <<>>

(* run_quiescence_loop: poll again while that brings new actions. *)
Quiesce ==
  /\ eng.phase = "quiesce"
  /\ Unsettled
  /\ \E k \in Codes(ctx) :
       LET p == poll(ctx, k)
           new == convert_emitted_actions(p.ctx, delta, p.emitted)
       IN  /\ code' = k
           /\ ctx' = new.ctx
           /\ delta' = new.delta
           /\ eng' = [eng EXCEPT !.pending = @ \o Kinds(p.emitted),
                                 !.phase = IF p.emitted = <<>> THEN "finalize" ELSE @]
  /\ UNCHANGED <<scenario, history, last>>

Settle ==
  /\ eng.phase = "quiesce"
  /\ ~Unsettled
  /\ eng' = [eng EXCEPT !.phase = "finalize"]
  /\ UNCHANGED <<scenario, code, history, delta, ctx, last>>

Recorded(kind) ==
  {e.src : e \in {x \in Range(Working) : x.kind = "Cancelled" /\ x.what = kind}}

Stops == \/ \E e \in Range(Working) : e.kind = "CancelRequested"
         \/ "ContinueAsNew" \in Range(eng.pending)

(* finalize_turn, cancelled or continued as new: nothing more is recorded. *)
Stop ==
  /\ eng.phase = "finalize"
  /\ Stops
  /\ eng' = [eng EXCEPT !.phase = "ended"]
  /\ history' = Working
  /\ delta' = <<>>
  /\ UNCHANGED <<scenario, code, ctx, last>>

Cancellable == <<"Activity", "SubOrch", "External", "Queue">>

(* Mutant of NewlyDropped: forgets what is already recorded. *)
NewlyDropped_All(kind) == DroppedIds(ctx, kind)

NewlyDropped(kind) == DroppedIds(ctx, kind) \ Recorded(kind)

(* collect_cancelled_from_context: the recorded decisions must have been   *)
(* made again, and new ones are recorded, in the order of a hash set.      *)
Finalize ==
  /\ eng.phase = "finalize"
  /\ ~Stops
  /\ UNCHANGED <<scenario, code, ctx>>
  /\ IF \E kind \in Range(Cancellable) : ~(Recorded(kind) \subseteq DroppedIds(ctx, kind))
     THEN /\ eng' = [eng EXCEPT !.phase = "nondeterminism"]
          /\ UNCHANGED <<history, delta, last>>
     ELSE /\ \E a \in SetToSeqs(NewlyDropped("Activity")),
                s \in SetToSeqs(NewlyDropped("SubOrch")),
                x \in SetToSeqs(NewlyDropped("External")),
                q \in SetToSeqs(NewlyDropped("Queue")) :
               LET Crumbs(kind, ids) ==
                     [i \in DOMAIN ids |-> Event("Cancelled", kind, ids[i], None)]
               IN  history' = Working \o Crumbs("Activity", a) \o Crumbs("SubOrch", s)
                                \o Crumbs("External", x) \o Crumbs("Queue", q)
          /\ delta' = <<>>
          /\ eng' = Engine(IF ctx.output THEN "ended" ELSE "idle")
          /\ last' = Observed(ctx)

Next ==
  \/ BeginTurn \/ Poll
  \/ ApplySchedule \/ ApplyNote \/ ApplyCompletion \/ ApplyExternalEvent
  \/ ApplyQueueEvent \/ ApplyCancelled \/ ApplyOther
  \/ Convert \/ Quiesce \/ Settle \/ Stop \/ Finalize

Spec == Init /\ [][Next]_vars

-----------------------------------------------------------------------------
(* Properties.                                                             *)

(* Code that has not changed never fails as nondeterministic: whatever     *)
(* order messages came in and however they were batched into turns, the    *)
(* actions it emits while its history is replayed are the ones of the      *)
(* history, in their order (match_and_bind_schedule), every completion     *)
(* finds its schedule open, and every recorded cancellation is decided     *)
(* again (collect_cancelled_from_context).                                 *)
ReplayAgrees == eng.phase # "nondeterminism"

(* When a turn has replayed what is stored, the code is where the turn     *)
(* before left it: it has observed the same results in the same rounds,    *)
(* its tokens are bound to the same events and it has dropped the same     *)
(* futures.                                                                *)
ReplayResumes ==
  Replaying /\ ~eng.must_poll /\ history # <<>> /\ eng.pos = Len(history) + 1 =>
    Observed(ctx) = last

Taken(kind) ==
  UNION {{p \in Range(ctx.seen[x]) : ctx.kinds[p[1]] = kind} : x \in DOMAIN ctx.seen}

Delivered(kind) == {x \in 1..(eng.pos - 1) : Working[x].kind = kind}

(* The queue is a mailbox: what the code has dequeued are the oldest       *)
(* messages, each once and in order, also when waits were dropped in       *)
(* between and messages came before anyone waited (get_queue_message).     *)
QueueIsFifo ==
  eng.phase \in {"replay", "quiesce", "finalize"} =>
    LET taken == Taken("Queue")
        got == {p[2] : p \in taken}
    IN  /\ \A p, q \in taken : p[1] < q[1] => p[2] < q[2]
        /\ \A x \in Delivered("QueueEvent") : (\E y \in got : x < y) => x \in got

(* An external event goes to a subscription that was there when it came:   *)
(* one that arrives for a subscription that has been dropped is not kept   *)
(* for the next (has_pending_subscription_slot).                           *)
NoStaleEvent == \A p \in Taken("External") : p[2] > ctx.bound[p[1]]

(* A turn ends only when the code can do nothing more: no wait that is     *)
(* already answered is left until some other message wakes the instance    *)
(* (run_quiescence_loop).                                                  *)
NothingLeftToPoll == eng.phase = "finalize" /\ ~ctx.output => ~Ready(ctx)

(* Each future that the code has dropped, and nothing else, is recorded as *)
(* cancelled in the history, once, however often the drop is replayed:     *)
(* each record is also a cancellation sent to the worker or to the child.  *)
DropsRecordedOnce ==
  eng.phase = "idle" =>
    LET crumbs == {x \in DOMAIN history : history[x].kind = "Cancelled"}
    IN  /\ {history[x].src : x \in crumbs} =
             {last.bound[t] : t \in {x \in last.dropped : ctx.kinds[x] # "Timer"}}
        /\ \A x, y \in crumbs : history[x].src = history[y].src => x = y

=============================================================================
