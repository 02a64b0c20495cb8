---------------------------- MODULE MCValidation ----------------------------
(* Runs the validation suite: one behaviour per function and per order of   *)
(* the calls of its concurrent tasks.                                       *)
EXTENDS ValidationKv, ValidationSessions, ValidationQueues,
        ValidationHistory, ValidationAdmin

Tests ==
  KvTests \o StatusTests \o SessionTests \o QueueTests \o HistoryTests
  \o AdminTests

VARIABLES
  db,        \* the provider's database
  test,      \* the validation function being run, an index of Tests
  stage,     \* its current stage
  pc,        \* per thread of the stage, the calls it has made
  mine,      \* per thread, the lock token of its last successful fetch
  wins,      \* fetches that got an item and acks that were accepted, since
             \* the last concurrent stage began
  last       \* the last call's answer and what the test asserts of it

vars == <<db, test, stage, pc, mine, wins, last>>

Threads == Tests[test][stage]

Init ==
  /\ db = EmptyDb
  /\ test \in DOMAIN Tests
  /\ stage = 1
  /\ pc = [t \in DOMAIN Threads |-> 0]
  /\ mine = [t \in DOMAIN Threads |-> 0]
  /\ wins = 0
  /\ last = [answer |-> <<>>, want |-> Anything]

Perform(call, token) ==
  IF call.op \in QueueCalls
  THEN QueueCall(db, call, IF "token" \in DOMAIN call /\ call.token # Mine
                           THEN call.token ELSE token)
  ELSE StoreCall(db, call, wins)

(* Thread t makes its next call. *)
Step(t) ==
  /\ pc[t] < Len(Threads[t])
  /\ LET call == Threads[t][pc[t] + 1]
         result == Perform(call, mine[t])
         got == "lock_token" \in DOMAIN result.ans
     IN  /\ db' = result.db
         /\ last' = [answer |-> result.ans, want |-> call.want]
         /\ mine' = [mine EXCEPT ![t] = IF got THEN result.ans.lock_token ELSE @]
         /\ wins' = IF got \/ (call.op = "ack_orchestration_item" /\ result.ans.ok)
                    THEN wins + 1 ELSE wins
  /\ pc' = [pc EXCEPT ![t] = @ + 1]
  /\ UNCHANGED <<test, stage>>

(* The tasks of a stage are joined before the next one begins. *)
NextStage ==
  /\ \A t \in DOMAIN pc : pc[t] = Len(Threads[t])
  /\ stage < Len(Tests[test])
  /\ stage' = stage + 1
  /\ pc' = [t \in DOMAIN Tests[test][stage'] |-> 0]
  /\ mine' = [t \in DOMAIN Tests[test][stage'] |-> mine[1]]
  /\ wins' = IF Len(Tests[test][stage']) > 1 THEN 0 ELSE wins
  /\ UNCHANGED <<db, test, last>>

Next == (\E t \in DOMAIN pc : Step(t)) \/ NextStage

Spec == Init /\ [][Next]_vars

(* Every answer of the provider is the one that the validation function     *)
(* asserts, in every order of the calls its tasks make.                     *)
Conforms == Agrees(last.answer, last.want)

=============================================================================
