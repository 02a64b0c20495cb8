------------------------------ MODULE MCReplay ------------------------------
(* Instances of ReplayEngine for TLC. *)
EXTENDS ReplayEngine

Joined(acts) == [acts |-> acts, wait |-> "all", flip |-> FALSE]
Raced(acts) == [acts |-> acts, wait |-> "any", flip |-> FALSE]
Flipped(r) == [r EXCEPT !.flip = TRUE]

(* Activities, sub-orchestrations and timers in joins and races, two       *)
(* messages to a turn.                                                     *)
Tasks ==
  [batch |-> 2, depth |-> 3, raised |-> 0, queued |-> 0, cancels |-> 0,
   rounds |-> {Joined(<<"Note", "Activity">>), Joined(<<"Activity", "Timer">>),
               Raced(<<"Activity", "Timer">>), Flipped(Raced(<<"Activity", "SubOrch">>))}]

(* Messages and events that are waited for without a race, and perhaps     *)
(* come before anyone waits.                                               *)
Waits ==
  [batch |-> 2, depth |-> 2, raised |-> 1, queued |-> 2, cancels |-> 1,
   rounds |-> {Joined(<<"Queue">>), Joined(<<"Activity", "Queue">>),
               Joined(<<"Queue", "External">>), Joined(<<"ContinueAsNew">>)}]

(* Races between waits for events, messages and timers, one message to a   *)
(* turn.                                                                   *)
Races ==
  [batch |-> 1, depth |-> 3, raised |-> 2, queued |-> 2, cancels |-> 0,
   rounds |-> {Joined(<<"External">>), Joined(<<"Queue">>),
               Raced(<<"Timer", "External">>), Raced(<<"Timer", "Queue">>),
               Flipped(Raced(<<"External", "Queue">>))}]

AllScenarios == {Tasks, Waits, Races}

(* A wait for the queue that may time out, then the next wait, two         *)
(* messages to a turn.                                                     *)
DequeueWithTimeout ==
  {[batch |-> 2, depth |-> 3, raised |-> 0, queued |-> 1, cancels |-> 0,
    rounds |-> {Raced(<<"Timer", "Queue">>), Joined(<<"Queue">>), Joined(<<"Activity">>)}]}
=============================================================================
