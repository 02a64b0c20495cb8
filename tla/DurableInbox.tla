---------------------------- MODULE DurableInbox ----------------------------
(***************************************************************************)
(* What duroxide promises a caller about the messages of an orchestration  *)
(* instance, with no queues, locks, tokens, dispatchers or clocks in it:   *)
(* a message waits in the inbox of its instance until ONE turn of that     *)
(* instance takes it, the turn and the message it sends become visible in  *)
(* a single step, and an instance that has reached a terminal event runs   *)
(* no further turn.  OrchestratorQueue is shown to implement this module.  *)
(***************************************************************************)
EXTENDS Naturals, Sequences

CONSTANT Instance        \* orchestration instance ids

VARIABLES
    inbox,               \* a function: the messages waiting |-> their instance
    log,                 \* log[i]: the committed turns of i, in commit order
    fresh                \* every message number at or above it is unused

inboxVars == <<inbox, log, fresh>>

TurnKind == {"turn", "completed", "failed"}

Terminal(h) == \E k \in 1..Len(h) : h[k].kind \in {"completed", "failed"}

Without(R) == [m \in (DOMAIN inbox) \ R |-> inbox[m]]

(* The inbox becomes box, or box and one new message.  How many messages a *)
(* step sends does not matter to the promise; that they appear with it does. *)
Sends(box) ==
    \/ inbox' = box /\ fresh' = fresh
    \/ \E i \in Instance :
          /\ inbox' = [m \in (DOMAIN box) \cup {fresh} |->
                          IF m = fresh THEN i ELSE box[m]]
          /\ fresh' = fresh + 1

Init ==
    /\ inbox = [m \in {} |-> {}]
    /\ log = [i \in Instance |-> <<>>]
    /\ fresh = 1

(* A client or a worker sends a message. *)
Send == Sends(inbox) /\ UNCHANGED log

(* Instance i takes the messages R in one turn of the given kind. *)
Turn(i, R, kind) ==
    /\ R # {}
    /\ \A m \in R : inbox[m] = i
    /\ Terminal(log[i]) => kind = "failed"
    /\ log' = [log EXCEPT ![i] = Append(@, [kind |-> kind, rows |-> R])]
    /\ Sends(Without(R))

(* Messages may be thrown away without a turn only when their instance can *)
(* no longer run one, or has never run one.                                *)
Discard(i, R) ==
    /\ R # {}
    /\ \A m \in R : inbox[m] = i
    /\ log[i] = <<>> \/ Terminal(log[i])
    /\ inbox' = Without(R)
    /\ UNCHANGED <<log, fresh>>

Next ==
    \/ Send
    \/ \E i \in Instance, R \in SUBSET DOMAIN inbox :
          \/ Discard(i, R)
          \/ \E kind \in TurnKind : Turn(i, R, kind)

Spec == Init /\ [][Next]_inboxVars
=============================================================================
