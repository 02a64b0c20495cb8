---------------------- MODULE OrchestratorQueue_proofs ----------------------
(***************************************************************************)
(* Proofs about the orchestrator queue, for every number of instances and  *)
(* dispatchers and every value of the timeouts, limits and bounds.         *)
(***************************************************************************)
EXTENDS OrchestratorQueue, LockRenewal, TLAPS

(* A fetch takes a token that nobody has.                                  *)
LEMMA FreshTokenFacts ==
    ASSUME FreeTokens # {}
    PROVE  /\ FreshToken \in Token
           /\ FreshToken \notin TokensInUse
           /\ FreshToken # NoToken
<1>1. FreshToken \in FreeTokens
  BY DEF FreshToken
<1>2. QED
  BY <1>1, QueueAssumption DEF FreeTokens, Token, NoToken

(* A dispatcher without a turn holds an item as well.                      *)
LEMMA NoItemType == NoItem \in Item
  BY QueueAssumption DEF NoItem, Item, Token, NoToken

(***************************************************************************)
(* Type correctness.  The steps of a dispatcher share a few patterns, each *)
(* with a lemma of its own: going idle, adding a row, deleting rows.       *)
(***************************************************************************)

(* A row is added, perhaps after others were deleted.                      *)
LEMMA AddRowType ==
    ASSUME TypeOK, nextRow <= MaxRows, NEW i \in Instance, NEW kind \in Kind,
           NEW hide \in 0..MaxDelay, NEW R, NEW q,
           q = AddRow(Delete(R), i, kind, hide)
    PROVE  /\ DOMAIN q \subseteq 1..nextRow
           /\ \A m \in DOMAIN q : q[m] \in RowRecord
<1>1. [inst |-> i, kind |-> kind, hide |-> hide, tok |-> NoToken, att |-> 0] \in RowRecord
  BY QueueAssumption DEF RowRecord, NoToken
<1>2. QED
  BY <1>1 DEF TypeOK, AddRow, Delete

(* A dispatcher ends its turn.                                             *)
LEMMA IdleType ==
    ASSUME TypeOK, NEW d \in Dispatcher, Idle(d)
    PROVE  /\ pc' \in [Dispatcher -> {"idle", "busy", "nack"}]
           /\ item' \in [Dispatcher -> Item]
  BY NoItemType DEF TypeOK, Idle

(* The lock of an instance is given back.                                  *)
LEMMA UnlockType ==
    ASSUME TypeOK, NEW d \in Dispatcher, Unlock(d)
    PROVE  locks' \in [Instance -> Lock]
<1>1. NoLock \in Lock
  BY QueueAssumption DEF NoLock, Lock, NoToken
<1>2. QED
  BY <1>1 DEF TypeOK, Unlock

(* Rows are deleted (the consumed ones of an ack).                         *)
LEMMA DeleteType ==
    ASSUME TypeOK, NEW R, queue' = Delete(R), nextRow' = nextRow
    PROVE  /\ DOMAIN queue' \subseteq 1..(nextRow' - 1)
           /\ \A m \in DOMAIN queue' : queue'[m] \in RowRecord
  BY DEF TypeOK, Delete

(* The ack of a turn appends to the history.                               *)
LEMMA AckTurnType ==
    ASSUME TypeOK, NEW d \in Dispatcher,
           NEW kind \in {"turn", "completed", "failed"}, AckTurn(d, kind)
    PROVE  /\ hist' \in [Instance -> Seq(Entry)]
           /\ locks' \in [Instance -> Lock]
           /\ pc' \in [Dispatcher -> {"idle", "busy", "nack"}]
           /\ item' \in [Dispatcher -> Item]
<1>1. [kind |-> kind, rows |-> item[d].rows] \in Entry
  BY DEF Entry, TypeOK, Item
<1>2. hist' \in [Instance -> Seq(Entry)]
  BY <1>1 DEF AckTurn, TypeOK, Item
<1>3. QED
  BY <1>2, IdleType, UnlockType DEF AckTurn

(* What a turn sends is one row at most, in the place of what it consumed. *)
LEMMA EmitsType ==
    ASSUME TypeOK, NEW i \in Instance, NEW R, Emits(i, Delete(R))
    PROVE  /\ nextRow' \in 1..(MaxRows + 1)
           /\ DOMAIN queue' \subseteq 1..(nextRow' - 1)
           /\ \A m \in DOMAIN queue' : queue'[m] \in RowRecord
<1>1. CASE queue' = Delete(R) /\ UNCHANGED nextRow
  BY <1>1, DeleteType DEF TypeOK
<1>2. CASE /\ nextRow <= MaxRows
           /\ \E target \in Instance, kind \in Kind, hide \in 0..MaxDelay :
                 queue' = AddRow(Delete(R), target, kind, hide)
           /\ nextRow' = nextRow + 1
  <2>1. PICK target \in Instance, kind \in Kind, hide \in 0..MaxDelay :
             queue' = AddRow(Delete(R), target, kind, hide)
    BY <1>2
  <2>2. DOMAIN queue' \subseteq 1..nextRow /\ \A m \in DOMAIN queue' : queue'[m] \in RowRecord
    BY <1>2, <2>1, AddRowType
  <2>3. QED
    BY <1>2, <2>2, QueueAssumption DEF TypeOK
<1>3. QED
  BY <1>1, <1>2 DEF Emits

(* An item is given back, its rows hidden for a while.                     *)
LEMMA AbandonType ==
    ASSUME TypeOK, NEW d \in Dispatcher, NEW delay \in 0..MaxDelay,
           Abandon(d, delay), nextRow' = nextRow
    PROVE  /\ locks' \in [Instance -> Lock]
           /\ DOMAIN queue' \subseteq 1..(nextRow' - 1)
           /\ \A m \in DOMAIN queue' : queue'[m] \in RowRecord
<1>1. CASE locks[item[d].inst].tok = item[d].tok
  <2>1. locks' \in [Instance -> Lock]
    BY <1>1, UnlockType DEF Abandon
  <2>2. \A m \in DOMAIN queue : [queue[m] EXCEPT !.hide = delay] \in RowRecord
    BY DEF TypeOK, RowRecord
  <2>3. QED
    BY <1>1, <2>1, <2>2 DEF Abandon, TypeOK
<1>2. CASE locks[item[d].inst].tok # item[d].tok
  BY <1>2 DEF Abandon, TypeOK
<1>3. QED
  BY <1>1, <1>2

(* Records of which one field changes.                                     *)
LEMMA RecordUpdates ==
    /\ \A r \in RowRecord, t \in Token, a \in 0..(MaxAttempts + 1) :
          [r EXCEPT !.tok = t, !.att = a] \in RowRecord
    /\ \A r \in RowRecord, n \in 0..MaxDelay : [r EXCEPT !.hide = n] \in RowRecord
    /\ \A l \in Lock, n \in 0..LockTimeout : [l EXCEPT !.left = n] \in Lock
    /\ \A x \in Item : [x EXCEPT !.renewing = FALSE] \in Item
  BY DEF RowRecord, Lock, Item

(* The attempt count is capped.                                            *)
LEMMA BumpType ==
    ASSUME NEW a \in 0..(MaxAttempts + 1) PROVE Bump(a) \in 0..(MaxAttempts + 1)
  BY QueueAssumption DEF Bump

(* A timer that runs down stays within its bound.                          *)
LEMMA DecayType ==
    ASSUME NEW N \in Nat, NEW n \in 0..N PROVE Decay(n) \in 0..N
  BY DEF Decay

(* A fetch locks an instance and tags its visible rows.                    *)
LEMMA LeaseType ==
    ASSUME TypeOK, NEW d \in Dispatcher, NEW i \in Instance, NEW t \in Token,
           Lease(d, i, t), nextRow' = nextRow
    PROVE  /\ locks' \in [Instance -> Lock]
           /\ DOMAIN queue' \subseteq 1..(nextRow' - 1)
           /\ \A m \in DOMAIN queue' : queue'[m] \in RowRecord
           /\ item' \in [Dispatcher -> Item]
<1>1. [tok |-> t, left |-> LockTimeout] \in Lock
  BY QueueAssumption DEF Lock
<1>2. ASSUME NEW m \in DOMAIN queue
      PROVE  [queue[m] EXCEPT !.tok = t, !.att = Bump(@)] \in RowRecord
  <2>1. queue[m] \in RowRecord /\ queue[m].att \in 0..(MaxAttempts + 1)
    BY DEF TypeOK, RowRecord
  <2>2. Bump(queue[m].att) \in 0..(MaxAttempts + 1)
    BY <2>1, BumpType
  <2>3. QED
    BY <2>1, <2>2, RecordUpdates
<1>3. DOMAIN queue' = DOMAIN queue
  BY DEF Lease
<1>4. \A m \in DOMAIN queue' : queue'[m] \in RowRecord
  BY <1>2, <1>3 DEF Lease, TypeOK
<1>5. Batch(i) \in SUBSET Row
  BY QueueAssumption DEF TypeOK, Batch, Row
<1>6. (IF i \in known THEN hist[i] ELSE <<>>) \in Seq(Entry)
  BY DEF TypeOK
<1>7. item' \in [Dispatcher -> Item]
  BY <1>5, <1>6 DEF TypeOK, Lease, Item, OverLimit
<1>8. QED
  BY <1>1, <1>3, <1>4, <1>7 DEF Lease, TypeOK

(* Every step of the queue keeps the types.                                *)
LEMMA TypeStep == TypeOK /\ [Next]_vars => TypeOK'
<1> SUFFICES ASSUME TypeOK, [Next]_vars PROVE TypeOK'
  OBVIOUS
<1> USE QueueAssumption
<1>1. ASSUME NEW i \in Instance, NEW kind \in Kind, Enqueue(i, kind) PROVE TypeOK'
  <2>1. queue = Delete({}) \/ queue' = AddRow(Delete({}), i, kind, 0)
    BY <1>1 DEF Enqueue, AddRow, Delete
  <2>2. [inst |-> i, kind |-> kind, hide |-> 0, tok |-> NoToken, att |-> 0] \in RowRecord
    BY DEF RowRecord, NoToken
  <2>3. DOMAIN queue' \subseteq 1..nextRow /\ \A m \in DOMAIN queue' : queue'[m] \in RowRecord
    BY <1>1, <2>2 DEF Enqueue, AddRow, TypeOK
  <2>4. QED
    BY <1>1, <2>3 DEF Enqueue, TypeOK
<1>2. ASSUME NEW d \in Dispatcher, Fetch(d) PROVE TypeOK'
  <2>1. PICK m \in Candidates : Lease(d, queue[m].inst, FreshToken)
    BY <1>2 DEF Fetch
  <2>2. queue[m].inst \in Instance /\ FreshToken \in Token
    BY <1>2, FreshTokenFacts DEF Fetch, Candidates, TypeOK, RowRecord
  <2>3. QED
    BY <1>2, <2>1, <2>2, LeaseType DEF Fetch, TypeOK
<1>3. ASSUME NEW d \in Dispatcher, DropOrphans(d) PROVE TypeOK'
  <2>1. PICK m \in Candidates : /\ queue' = Delete(Batch(queue[m].inst))
                                /\ locks' = [locks EXCEPT ![queue[m].inst] = NoLock]
    BY <1>3 DEF DropOrphans
  <2>2. NoLock \in Lock
    BY DEF NoLock, Lock, NoToken
  <2>3. QED
    BY <1>3, <2>1, <2>2, DeleteType DEF DropOrphans, TypeOK
<1>4. ASSUME NEW d \in Dispatcher, VersionGate(d) \/ Release(d) PROVE TypeOK'
  <2>1. PICK delay \in 0..MaxDelay : Abandon(d, delay)
    BY <1>4 DEF VersionGate, Release
  <2>2. nextRow' = nextRow /\ Idle(d)
    BY <1>4 DEF VersionGate, Release
  <2>3. QED
    BY <1>4, <2>1, <2>2, AbandonType, IdleType DEF VersionGate, Release, TypeOK
<1>5. ASSUME NEW d \in Dispatcher,
             Poison(d) \/ \E kind \in {"turn", "completed"} : Commit(d, kind)
      PROVE  TypeOK'
  <2>1. PICK kind \in {"turn", "completed", "failed"} : AckTurn(d, kind)
    BY <1>5 DEF Poison, Commit
  <2>2. item[d].inst \in Instance
    BY DEF TypeOK, Item
  <2>3. Emits(item[d].inst, Delete(Fetched(item[d].tok)))
    BY <1>5 DEF Poison, Commit
  <2>4. known' \in SUBSET Instance /\ UNCHANGED <<faults, ackErrs>>
    BY <1>5, <2>2 DEF Poison, Commit, TypeOK
  <2>5. QED
    BY <2>1, <2>2, <2>3, <2>4, AckTurnType, EmitsType DEF TypeOK
<1>6. ASSUME NEW d \in Dispatcher, AckTerminal(d) PROVE TypeOK'
  BY <1>6, DeleteType, UnlockType, IdleType DEF AckTerminal, TypeOK
<1>7. ASSUME NEW d \in Dispatcher, FailureAck(d) PROVE TypeOK'
  BY <1>7, DeleteType, AckTurnType DEF FailureAck, TypeOK
<1>8. ASSUME NEW d \in Dispatcher,
             PoisonRejected(d) \/ AckTerminalRejected(d) \/ FailureAckRejected(d)
      PROVE  TypeOK'
  <2>1. Idle(d) /\ UNCHANGED <<queue, locks, hist, known, nextRow, faults>>
    BY <1>8 DEF PoisonRejected, AckTerminalRejected, FailureAckRejected
  <2>2. ackErrs' \in 0..MaxAckErrors
    BY <1>8 DEF PoisonRejected, AckTerminalRejected, FailureAckRejected,
                AckRejected, AckError, TypeOK
  <2>3. QED
    BY <2>1, <2>2, IdleType DEF TypeOK
<1>9. ASSUME NEW d \in Dispatcher, CommitRejected(d) PROVE TypeOK'
  BY <1>9 DEF CommitRejected, AckRejected, AckError, TypeOK
<1>10. ASSUME NEW d \in Dispatcher, Renew(d) \/ Stall(d) PROVE TypeOK'
  <2>1. item[d].inst \in Instance
    BY DEF TypeOK, Item
  <2>2. CASE Renew(d) /\ LockValid(d)
    <3>1. [tok |-> item[d].tok, left |-> LockTimeout] \in Lock
      BY DEF TypeOK, Item, Lock
    <3>2. QED
      BY <2>2, <3>1 DEF Renew, TypeOK
  <2>3. CASE Stall(d) \/ (Renew(d) /\ ~LockValid(d))
    <3>1. StopRenewal(item[d]) \in Item
      BY RecordUpdates DEF TypeOK, StopRenewal
    <3>2. item' = [item EXCEPT ![d] = StopRenewal(item[d])]
      BY <2>3 DEF Renew, Stall
    <3>3. item' \in [Dispatcher -> Item] /\ faults' \in 0..MaxFaults
      BY <2>3, <3>1, <3>2 DEF TypeOK, Renew, Stall
    <3>4. QED
      BY <2>3, <3>3 DEF Renew, Stall, TypeOK
  <2>4. QED
    BY <1>10, <2>2, <2>3
<1>11. ASSUME NEW d \in Dispatcher, Crash(d) PROVE TypeOK'
  BY <1>11, IdleType DEF Crash, TypeOK
<1>12. ASSUME Tick PROVE TypeOK'
  <2>1. ASSUME NEW i \in Instance PROVE [locks[i] EXCEPT !.left = Decay(@)] \in Lock
    <3>1. locks[i] \in Lock /\ locks[i].left \in 0..LockTimeout
      BY DEF TypeOK, Lock
    <3>2. QED
      BY <3>1, DecayType, RecordUpdates
  <2>2. ASSUME NEW m \in DOMAIN queue
        PROVE  [queue[m] EXCEPT !.hide = Decay(@)] \in RowRecord
    <3>1. queue[m] \in RowRecord /\ queue[m].hide \in 0..MaxDelay
      BY DEF TypeOK, RowRecord
    <3>2. QED
      BY <3>1, DecayType, RecordUpdates
  <2>3. QED
    BY <1>12, <2>1, <2>2 DEF Tick, TypeOK
<1>13. CASE UNCHANGED vars
  BY <1>13 DEF vars, TypeOK
<1>14. QED
  BY <1>1, <1>2, <1>3, <1>4, <1>5, <1>6, <1>7, <1>8, <1>9, <1>10, <1>11, <1>12, <1>13
  DEF Next, Dispatch

(***************************************************************************)
(* Ownership.  A step of one dispatcher leaves alone what another one      *)
(* owns: its lock row, its history, and the rows that carry its token.     *)
(***************************************************************************)

(* The owner's view survives a step that keeps its item, does not bring a  *)
(* lost lock back, and keeps the rows with its token and their instance.   *)
LEMMA HeldFrame ==
    ASSUME NEW e \in Dispatcher, HeldBy(e),
           Owns(e)' => Owns(e),
           item'[e].inst = item[e].inst, item'[e].tok = item[e].tok,
           item'[e].rows = item[e].rows, item'[e].snap = item[e].snap,
           Owns(e)' => /\ hist'[item[e].inst] = hist[item[e].inst]
                       /\ item[e].inst \in known' => item[e].inst \in known
                       /\ Fetched(item[e].tok)' = Fetched(item[e].tok)
                       /\ \A m \in Fetched(item[e].tok) : queue'[m].inst = queue[m].inst
    PROVE  HeldBy(e)'
<1>1. Fetched(item[e].tok)' = {m \in DOMAIN queue' : queue'[m].tok = item[e].tok}
  BY DEF Fetched
<1>2. QED
  BY <1>1 DEF HeldBy, Fetched

(* A dispatcher that has gone idle owns nothing. *)
LEMMA HeldIdle ==
    ASSUME NEW d \in Dispatcher, pc'[d] = "idle"
    PROVE  HeldBy(d)'
  BY DEF HeldBy, Owns

(* A dispatcher that ends its turn gives its token back.                   *)
LEMMA TokensIdle ==
    ASSUME TypeOK, TokensDistinct, NEW d \in Dispatcher, Idle(d)
    PROVE  TokensDistinct'
  BY DEF TokensDistinct, Idle, TypeOK, NoItem

(* Steps that start and end no turn leave the tokens where they are.       *)
LEMMA TokensSame ==
    ASSUME TokensDistinct,
           \A d \in Dispatcher : /\ pc'[d] = "idle" <=> pc[d] = "idle"
                                 /\ item'[d].tok = item[d].tok
    PROVE  TokensDistinct'
  BY DEF TokensDistinct

(* What a dispatcher may rely on when its ack is accepted. *)
LEMMA AckFacts ==
    ASSUME IndInv, NEW d \in Dispatcher, pc[d] # "idle", LockValid(d)
    PROVE  /\ item[d].inst \in Instance
           /\ item[d].tok \in Token
           /\ Appendable(d) => item[d].snap = hist[item[d].inst]
           /\ Terminal(item[d].snap) => Terminal(hist[item[d].inst])
           /\ Fetched(item[d].tok) = item[d].rows
           /\ Fetched(item[d].tok) # {}
           /\ \A m \in Fetched(item[d].tok) : queue[m].inst = item[d].inst
<1>1. item[d].inst \in Instance /\ item[d].tok \in Token \cup {NoToken}
  BY DEF IndInv, TypeOK, Item
<1>2. item[d].tok # NoToken
  BY DEF IndInv, TokensDistinct
<1>3. Owns(d) /\ HeldBy(d)
  BY DEF Owns, LockValid, IndInv, Held
<1>4. hist[item[d].inst] \in Seq(Entry)
  BY <1>1 DEF IndInv, TypeOK
<1>5. ASSUME Appendable(d), item[d].snap = <<>> PROVE hist[item[d].inst] = <<>>
  BY <1>4, <1>5 DEF Appendable
<1>6. item[d].snap = <<>> => ~Terminal(item[d].snap)
  BY DEF Terminal
<1>7. QED
  BY <1>1, <1>2, <1>3, <1>5, <1>6 DEF HeldBy

(***************************************************************************)
(* The accounting of consumed rows.                                        *)
(***************************************************************************)

(* The rows that a history names are numbers of rows.                      *)
LEMMA ConsumedAreRows ==
    ASSUME TypeOK, NEW i \in Instance, NEW k \in 1..Len(hist[i]), NEW m \in hist[i][k].rows
    PROVE  m \in Nat
<1>1. hist[i] \in Seq(Entry)
  BY DEF TypeOK
<1>2. hist[i][k] \in Entry
  BY <1>1
<1>3. hist[i][k].rows \in SUBSET Row
  BY <1>2 DEF Entry
<1>4. QED
  BY <1>3, QueueAssumption DEF Row

(* Only an ack writes history: other steps keep the accounting when they   *)
(* add no row below the AUTOINCREMENT counter.                             *)
LEMMA AccountFrame ==
    ASSUME IndInv, TypeOK', hist' = hist, known' = known,
           DOMAIN queue' \subseteq (DOMAIN queue) \cup {nextRow},
           nextRow' \in {nextRow, nextRow + 1}
    PROVE  Unstarted' /\ ConsumedGone' /\ ConsumedApart' /\ TurnsStopAtTerminal'
<1>1. nextRow \in Nat
  BY QueueAssumption DEF IndInv, TypeOK
<1>2. ConsumedGone'
  <2>1. ASSUME NEW i \in Instance, NEW k \in 1..Len(hist[i]), NEW m \in hist[i][k].rows
        PROVE  m < nextRow /\ m \notin DOMAIN queue
    BY <2>1 DEF IndInv, ConsumedGone
  <2>2. ASSUME NEW i \in Instance, NEW k \in 1..Len(hist[i]), NEW m \in hist[i][k].rows
        PROVE  m < nextRow' /\ m \notin DOMAIN queue'
    <3>1. m \in Nat
      BY ConsumedAreRows DEF IndInv
    <3>2. QED
      BY <1>1, <2>1, <3>1
  <2>3. QED
    BY <2>2 DEF ConsumedGone
<1>3. QED
  BY <1>2 DEF IndInv, Unstarted, ConsumedApart, TurnsStopAtTerminal, Terminal

(* An accepted ack appends one entry, with rows no other entry has. *)
LEMMA AccountAck ==
    ASSUME IndInv, TypeOK', NEW d \in Dispatcher, pc[d] # "idle",
           NEW kind \in {"turn", "completed", "failed"}, AckTurn(d, kind),
           kind # "failed" => ~Terminal(item[d].snap),
           \/ known' = known \cup {item[d].inst}
           \/ known' = known /\ kind = "failed",
           DOMAIN queue' \subseteq ((DOMAIN queue) \ Fetched(item[d].tok)) \cup {nextRow},
           nextRow' \in {nextRow, nextRow + 1}
    PROVE  Unstarted' /\ ConsumedGone' /\ ConsumedApart' /\ TurnsStopAtTerminal'
<1> DEFINE i == item[d].inst
           R == Fetched(item[d].tok)
           n == Len(hist[i]) + 1
<1>1. LockValid(d) /\ Appendable(d)
  BY DEF AckTurn
<1>2. i \in Instance /\ item[d].snap = hist[i] /\ item[d].rows = R
  BY <1>1, AckFacts
<1>3. nextRow \in Nat /\ R \subseteq DOMAIN queue /\ \A m \in DOMAIN queue : m \in Nat /\ m < nextRow
  BY QueueAssumption DEF IndInv, TypeOK, Fetched
<1>4. \A j \in Instance : hist[j] \in Seq(Entry) /\ hist'[j] \in Seq(Entry)
  BY DEF IndInv, TypeOK
<1>5. \A j \in Instance \ {i} : hist'[j] = hist[j]
  BY DEF AckTurn, IndInv, TypeOK
<1>6. hist'[i] = Append(hist[i], [kind |-> kind, rows |-> R])
  BY <1>2 DEF AckTurn, IndInv, TypeOK
<1>7. /\ Len(hist'[i]) = n /\ n \in Nat
      /\ hist'[i][n] = [kind |-> kind, rows |-> R]
      /\ \A k \in 1..Len(hist[i]) : hist'[i][k] = hist[i][k]
  BY <1>2, <1>4, <1>6
<1>8. ASSUME NEW j \in Instance, NEW k \in 1..Len(hist[j]), NEW m \in hist[j][k].rows
      PROVE  m \in Nat /\ m < nextRow /\ m \notin DOMAIN queue
  <2>1. m \in Nat
    BY <1>8, ConsumedAreRows DEF IndInv
  <2>2. QED
    BY <2>1, <1>8 DEF IndInv, ConsumedGone
<1>9. ASSUME NEW j \in Instance, NEW k \in 1..Len(hist'[j])
      PROVE  \/ j = i /\ k = n /\ hist'[j][k].rows = R /\ hist'[j][k].kind = kind
             \/ k \in 1..Len(hist[j]) /\ hist'[j][k] = hist[j][k]
  <2>1. CASE j = i
    BY <1>4, <1>7, <2>1
  <2>2. CASE j # i
    BY <1>5, <2>2
  <2>3. QED
    BY <2>1, <2>2
<1>10. ConsumedGone'
  <2>1. ASSUME NEW j \in Instance, NEW k \in 1..Len(hist'[j]), NEW m \in hist'[j][k].rows
        PROVE  m < nextRow' /\ m \notin DOMAIN queue'
    BY <1>3, <1>8, <1>9
  <2>2. QED
    BY <2>1 DEF ConsumedGone
<1>11. ConsumedApart'
  <2>1. ASSUME NEW j \in Instance, NEW l \in Instance,
               NEW k \in 1..Len(hist'[j]), NEW q \in 1..Len(hist'[l]), j # l \/ k # q
        PROVE  hist'[j][k].rows \cap hist'[l][q].rows = {}
    <3>1. CASE k \in 1..Len(hist[j]) /\ hist'[j][k] = hist[j][k] /\
               q \in 1..Len(hist[l]) /\ hist'[l][q] = hist[l][q]
      BY <2>1, <3>1 DEF IndInv, ConsumedApart
    <3>2. CASE hist'[j][k].rows = R /\ q \in 1..Len(hist[l]) /\ hist'[l][q] = hist[l][q]
      BY <1>3, <1>8, <3>2
    <3>3. CASE hist'[l][q].rows = R /\ k \in 1..Len(hist[j]) /\ hist'[j][k] = hist[j][k]
      BY <1>3, <1>8, <3>3
    <3>4. QED
      BY <1>9, <2>1, <3>1, <3>2, <3>3
  <2>2. QED
    BY <2>1 DEF ConsumedApart
<1>12. Unstarted'
  <2>1. ASSUME NEW j \in Instance \ known' PROVE hist'[j] = <<>> \/ Terminal(hist'[j])
    <3>1. CASE j = i
      BY <1>7, <3>1 DEF Terminal
    <3>2. CASE j # i
      BY <1>5, <3>2 DEF IndInv, Unstarted
    <3>3. QED
      BY <3>1, <3>2
  <2>2. QED
    BY <2>1 DEF Unstarted, Terminal
<1>13. TurnsStopAtTerminal'
  <2>1. ASSUME NEW j \in Instance, NEW k \in 1..Len(hist'[j]), NEW q \in 1..Len(hist'[j]),
               k < q, hist'[j][k].kind # "turn"
        PROVE  hist'[j][q].kind = "failed"
    <3>1. CASE q \in 1..Len(hist[j]) /\ hist'[j][q] = hist[j][q]
      <4>1. k \in 1..Len(hist[j]) /\ hist'[j][k] = hist[j][k]
        BY <1>4, <1>9, <2>1, <3>1
      <4>2. QED
        BY <2>1, <3>1, <4>1 DEF IndInv, TurnsStopAtTerminal
    <3>2. CASE j = i /\ q = n /\ hist'[j][q].kind = kind
      <4>1. k \in 1..Len(hist[i]) /\ hist'[i][k] = hist[i][k]
        BY <1>4, <1>7, <2>1, <3>2
      <4>2. hist[i][k] \in Entry
        BY <1>2, <1>4, <4>1
      <4>3. hist[i][k].kind \in {"completed", "failed"}
        BY <2>1, <3>2, <4>1, <4>2 DEF Entry
      <4>4. Terminal(item[d].snap)
        BY <1>2, <4>1, <4>3 DEF Terminal
      <4>5. QED
        BY <3>2, <4>4
    <3>3. QED
      BY <1>9, <3>1, <3>2
  <2>2. QED
    BY <2>1 DEF TurnsStopAtTerminal
<1>14. QED
  BY <1>10, <1>11, <1>12, <1>13

(***************************************************************************)
(* Ownership, action by action.                                            *)
(***************************************************************************)

(* Rows are deleted, or a row without a token is added: an owner whose own *)
(* rows are not among the deleted ones still has them.                     *)
LEMMA RowsKept ==
    ASSUME TypeOK, NEW R, NEW e \in Dispatcher, item[e].tok # NoToken,
           R \cap Fetched(item[e].tok) = {}, item'[e].tok = item[e].tok,
           \/ queue' = Delete(R)
           \/ \E i \in Instance, kind \in Kind, hide \in 0..MaxDelay :
                 queue' = AddRow(Delete(R), i, kind, hide)
    PROVE  /\ Fetched(item[e].tok)' = Fetched(item[e].tok)
           /\ \A m \in Fetched(item[e].tok) : queue'[m].inst = queue[m].inst
<1>1. nextRow \notin DOMAIN queue
  BY QueueAssumption DEF TypeOK
<1>2. CASE queue' = Delete(R)
  BY <1>2 DEF Fetched, Delete
<1>3. ASSUME NEW i \in Instance, NEW kind \in Kind, NEW hide \in 0..MaxDelay,
             queue' = AddRow(Delete(R), i, kind, hide)
      PROVE  /\ Fetched(item[e].tok)' = Fetched(item[e].tok)
             /\ \A m \in Fetched(item[e].tok) : queue'[m].inst = queue[m].inst
  <2>1. /\ DOMAIN queue' = ((DOMAIN queue) \ R) \cup {nextRow}
        /\ queue'[nextRow].tok = NoToken
        /\ \A m \in (DOMAIN queue) \ R : queue'[m] = queue[m]
    BY <1>1, <1>3 DEF AddRow, Delete
  <2>2. QED
    BY <1>1, <2>1 DEF Fetched
<1>4. QED
  BY <1>2, <1>3

(* The columns tok and inst of the rows are kept. *)
LEMMA RowsSame ==
    ASSUME NEW e \in Dispatcher, item'[e].tok = item[e].tok,
           DOMAIN queue' = DOMAIN queue,
           \A m \in DOMAIN queue : /\ queue'[m].tok = queue[m].tok
                                   /\ queue'[m].inst = queue[m].inst
    PROVE  /\ Fetched(item[e].tok)' = Fetched(item[e].tok)
           /\ \A m \in Fetched(item[e].tok) : queue'[m].inst = queue[m].inst
  BY DEF Fetched

(* Two busy dispatchers have different tokens.                             *)
LEMMA OthersTokens ==
    ASSUME IndInv, NEW d \in Dispatcher, NEW e \in Dispatcher \ {d}, pc[e] # "idle"
    PROVE  item[e].tok # NoToken /\ item[d].tok # item[e].tok
  BY DEF IndInv, TokensDistinct

(* A new row has no token, so no dispatcher comes to hold it.              *)
LEMMA EnqueueHeld ==
    ASSUME IndInv, NEW i \in Instance, NEW kind \in Kind, Enqueue(i, kind)
    PROVE  TokensDistinct' /\ Held'
<1>1. TokensDistinct'
  BY TokensSame DEF Enqueue, IndInv
<1>2. ASSUME NEW e \in Dispatcher PROVE HeldBy(e)'
  <2>1. CASE pc[e] = "idle"
    BY <2>1, HeldIdle DEF Enqueue
  <2>2. CASE pc[e] # "idle"
    <3>1. item[e].tok # NoToken
      BY <2>2 DEF IndInv, TokensDistinct
    <3>2. queue' = AddRow(Delete({}), i, kind, 0)
      BY DEF Enqueue, AddRow, Delete
    <3>3. 0 \in 0..MaxDelay
      BY QueueAssumption
    <3>4. /\ Fetched(item[e].tok)' = Fetched(item[e].tok)
          /\ \A m \in Fetched(item[e].tok) : queue'[m].inst = queue[m].inst
      BY <3>1, <3>2, <3>3, RowsKept DEF Enqueue, IndInv
    <3>5. QED
      BY <3>4, HeldFrame DEF Enqueue, IndInv, Held, Owns
  <2>3. QED
    BY <2>1, <2>2
<1>3. QED
  BY <1>1, <1>2 DEF Held

(* A fetch by d of instance i takes i away from a previous owner, and      *)
(* gives d the rows of i and nothing of anybody else.                      *)
LEMMA FetchHeld ==
    ASSUME IndInv, NEW d \in Dispatcher, Fetch(d)
    PROVE  TokensDistinct' /\ Held'
<1>1. PICK m \in Candidates : Lease(d, queue[m].inst, FreshToken)
  BY DEF Fetch
<1> DEFINE i == queue[m].inst
           t == FreshToken
<1>2. TypeOK
  BY DEF IndInv
<1>3. m \in Batch(i) /\ i \in Instance
  BY <1>2 DEF Candidates, Batch, TypeOK, RowRecord
<1>4. t \in Token /\ t \notin TokensInUse /\ t # NoToken
  BY FreshTokenFacts DEF Fetch
<1>5. /\ \A n \in DOMAIN queue : queue[n].tok # t
      /\ \A e \in Dispatcher : item[e].tok # t
  BY <1>4 DEF TokensInUse
<1> HIDE DEF t
<1>6. /\ item'[d] = [inst |-> i, tok |-> t, rows |-> Batch(i),
                     snap |-> IF i \in known THEN hist[i] ELSE <<>>,
                     over |-> OverLimit(Batch(i)),
                     renewing |-> TRUE]
      /\ \A e \in Dispatcher \ {d} : item'[e] = item[e]
  BY <1>1, <1>2 DEF Lease, TypeOK, t
<1>7. pc'[d] = "busy" /\ \A e \in Dispatcher \ {d} : pc'[e] = pc[e]
  BY <1>2 DEF Fetch, TypeOK
<1>8. TokensDistinct'
  BY <1>4, <1>5, <1>6, <1>7 DEF TokensDistinct, IndInv
<1>9. /\ DOMAIN queue' = DOMAIN queue
      /\ \A n \in DOMAIN queue : queue'[n].inst = queue[n].inst
      /\ \A n \in DOMAIN queue : queue'[n].tok = IF n \in Batch(i) THEN t ELSE queue[n].tok
  <2>1. DOMAIN queue' = DOMAIN queue
    BY <1>1 DEF Lease
  <2>2. ASSUME NEW n \in DOMAIN queue
        PROVE  /\ queue'[n].inst = queue[n].inst
               /\ queue'[n].tok = IF n \in Batch(i) THEN t ELSE queue[n].tok
    <3>1. queue[n] \in RowRecord
      BY <1>2 DEF TypeOK
    <3>2. CASE n \in Batch(i)
      <4>1. queue'[n] = [queue[n] EXCEPT !.tok = t, !.att = Bump(@)]
        BY <1>1, <3>2 DEF Lease, t
      <4>2. QED
        BY <3>1, <3>2, <4>1 DEF RowRecord
    <3>3. CASE n \notin Batch(i)
      BY <1>1, <3>3 DEF Lease
    <3>4. QED
      BY <3>2, <3>3
  <2>3. QED
    BY <2>1, <2>2
<1>10. HeldBy(d)'
  <2>1. Fetched(item[d].tok)' = {n \in DOMAIN queue' : queue'[n].tok = t}
    BY <1>6 DEF Fetched
  <2>2. {n \in DOMAIN queue' : queue'[n].tok = t} = Batch(i)
    BY <1>5, <1>9 DEF Batch
  <2>3. \A n \in Batch(i) : queue'[n].inst = i
    BY <1>9 DEF Batch
  <2>4. item'[d].rows = Batch(i) /\ item'[d].inst = i
    BY <1>6
  <2>5. \/ item'[d].snap = hist'[i]
        \/ i \notin known' /\ item'[d].snap = <<>>
    BY <1>6 DEF Fetch
  <2>6. QED
    BY <1>3, <2>1, <2>2, <2>3, <2>4, <2>5 DEF HeldBy
<1>11. ASSUME NEW e \in Dispatcher \ {d} PROVE HeldBy(e)'
  <2>1. CASE pc[e] = "idle"
    BY <1>7, <2>1, HeldIdle
  <2>2. CASE item[e].inst = i
    <3>1. locks'[i].tok = t
      BY <1>1, <1>2, <1>3 DEF Lease, TypeOK, t
    <3>2. QED
      BY <1>5, <1>6, <2>2, <3>1 DEF HeldBy, Owns
  <2>3. CASE pc[e] # "idle" /\ item[e].inst # i
    <3>1. locks'[item[e].inst] = locks[item[e].inst]
      BY <1>1, <1>2, <1>3, <2>3 DEF Lease, TypeOK, Item
    <3>2. Owns(e)' <=> Owns(e)
      BY <1>6, <1>7, <3>1 DEF Owns
    <3>3. ASSUME Owns(e)
          PROVE  /\ Fetched(item[e].tok)' = Fetched(item[e].tok)
                 /\ \A n \in Fetched(item[e].tok) : queue'[n].inst = queue[n].inst
      <4>1. \A n \in Fetched(item[e].tok) : queue[n].inst = item[e].inst
        BY <3>3 DEF IndInv, Held, HeldBy
      <4>2. \A n \in Fetched(item[e].tok) : n \notin Batch(i)
        BY <2>3, <4>1 DEF Batch
      <4>3. QED
        BY <1>5, <1>6, <1>9, <4>2 DEF Fetched
    <3>4. QED
      BY <1>6, <3>2, <3>3, HeldFrame DEF Fetch, IndInv, Held
  <2>4. QED
    BY <2>1, <2>2, <2>3
<1>12. QED
  BY <1>8, <1>10, <1>11 DEF Held

(* Rows of an unknown instance are dropped when nobody holds them.         *)
LEMMA DropOrphansHeld ==
    ASSUME IndInv, NEW d \in Dispatcher, DropOrphans(d)
    PROVE  TokensDistinct' /\ Held'
<1>1. PICK m \in Candidates : /\ queue' = Delete(Batch(queue[m].inst))
                              /\ locks' = [locks EXCEPT ![queue[m].inst] = NoLock]
  BY DEF DropOrphans
<1> DEFINE i == queue[m].inst
<1>2. TypeOK /\ i \in Instance
  BY DEF IndInv, Candidates, TypeOK, RowRecord
<1>3. TokensDistinct'
  BY TokensSame DEF DropOrphans, IndInv
<1>4. ASSUME NEW e \in Dispatcher PROVE HeldBy(e)'
  <2>1. CASE pc[e] = "idle"
    BY <2>1, HeldIdle DEF DropOrphans
  <2>2. CASE pc[e] # "idle" /\ item[e].inst = i
    <3>1. item[e].tok # NoToken
      BY <2>2 DEF IndInv, TokensDistinct
    <3>2. locks'[i].tok = NoToken
      BY <1>1, <1>2 DEF TypeOK, NoLock
    <3>3. QED
      BY <2>2, <3>1, <3>2 DEF DropOrphans, HeldBy, Owns
  <2>3. CASE pc[e] # "idle" /\ item[e].inst # i
    <3>1. locks'[item[e].inst] = locks[item[e].inst]
      BY <1>1, <1>2, <2>3 DEF TypeOK, Item
    <3>2. Owns(e)' <=> Owns(e)
      BY <3>1 DEF Owns, DropOrphans
    <3>3. item[e].tok # NoToken
      BY <2>3 DEF IndInv, TokensDistinct
    <3>4. Owns(e) => Batch(i) \cap Fetched(item[e].tok) = {}
      BY <2>3 DEF IndInv, Held, HeldBy, Batch
    <3>5. Owns(e) => /\ Fetched(item[e].tok)' = Fetched(item[e].tok)
                     /\ \A n \in Fetched(item[e].tok) : queue'[n].inst = queue[n].inst
      BY <1>1, <1>2, <3>3, <3>4, RowsKept DEF DropOrphans
    <3>6. QED
      BY <3>2, <3>5, HeldFrame DEF DropOrphans, IndInv, Held
  <2>4. QED
    BY <2>1, <2>2, <2>3
<1>5. QED
  BY <1>3, <1>4 DEF Held

(* d gives its item up, and other instances' locks are left alone. *)
LEMMA IdleFacts ==
    ASSUME TypeOK, NEW d \in Dispatcher, Idle(d)
    PROVE  /\ pc'[d] = "idle"
           /\ \A e \in Dispatcher \ {d} : pc'[e] = pc[e] /\ item'[e] = item[e]
  BY DEF Idle, TypeOK

(* Giving back a lock leaves the locks of other instances.                 *)
LEMMA UnlockFacts ==
    ASSUME IndInv, NEW d \in Dispatcher, Unlock(d)
    PROVE  /\ locks'[item[d].inst].tok = NoToken
           /\ \A j \in Instance \ {item[d].inst} : locks'[j] = locks[j]
<1>1. item[d].inst \in Instance
  BY DEF IndInv, TypeOK, Item
<1>2. QED
  BY <1>1 DEF Unlock, IndInv, TypeOK, NoLock

(* The general step of a dispatcher d that ends its turn and deletes the   *)
(* lock row: the rows it deletes are its own.                              *)
LEMMA EndOfTurnHeld ==
    ASSUME IndInv, NEW d \in Dispatcher, pc[d] # "idle", Idle(d), Unlock(d),
           \A j \in Instance \ {item[d].inst} : hist'[j] = hist[j],
           known' \in {known, known \cup {item[d].inst}},
           \A e \in Dispatcher \ {d} :
              (pc[e] # "idle" /\ item'[e].tok = item[e].tok) =>
                /\ Fetched(item[e].tok)' = Fetched(item[e].tok)
                /\ \A m \in Fetched(item[e].tok) : queue'[m].inst = queue[m].inst
    PROVE  TokensDistinct' /\ Held'
<1>1. TypeOK
  BY DEF IndInv
<1>2. /\ pc'[d] = "idle"
      /\ \A e \in Dispatcher \ {d} : pc'[e] = pc[e] /\ item'[e] = item[e]
  BY <1>1, IdleFacts
<1>3. TokensDistinct'
  BY <1>1, TokensIdle DEF IndInv
<1>4. HeldBy(d)'
  BY <1>2, HeldIdle
<1>5. ASSUME NEW e \in Dispatcher \ {d} PROVE HeldBy(e)'
  <2>1. CASE pc[e] = "idle"
    BY <1>2, <2>1, HeldIdle
  <2>2. CASE pc[e] # "idle" /\ item[e].inst = item[d].inst
    <3>1. item[e].tok # NoToken
      BY <2>2 DEF IndInv, TokensDistinct
    <3>2. QED
      BY <1>2, <2>2, <3>1, UnlockFacts DEF HeldBy, Owns
  <2>3. CASE pc[e] # "idle" /\ item[e].inst # item[d].inst
    <3>1. item[e].inst \in Instance
      BY <1>1 DEF TypeOK, Item
    <3>2. Owns(e)' <=> Owns(e)
      BY <1>2, <2>3, <3>1, UnlockFacts DEF Owns
    <3>3. QED
      BY <1>2, <2>3, <3>1, <3>2, HeldFrame DEF IndInv, Held
  <2>4. QED
    BY <2>1, <2>2, <2>3
<1>6. QED
  BY <1>3, <1>4, <1>5 DEF Held

(* d gives its item up and nothing else changes: its token is left behind  *)
(* in the lock row and in the rows until the lock expires.                 *)
LEMMA DropItemHeld ==
    ASSUME IndInv, NEW d \in Dispatcher, Idle(d),
           UNCHANGED <<queue, locks, hist, known>>
    PROVE  TokensDistinct' /\ Held'
<1>1. TypeOK
  BY DEF IndInv
<1>2. /\ pc'[d] = "idle"
      /\ \A e \in Dispatcher \ {d} : pc'[e] = pc[e] /\ item'[e] = item[e]
  BY <1>1, IdleFacts
<1>3. TokensDistinct'
  BY <1>1, TokensIdle DEF IndInv
<1>4. ASSUME NEW e \in Dispatcher \ {d} PROVE HeldBy(e)'
  <2>1. Owns(e)' <=> Owns(e)
    BY <1>2 DEF Owns
  <2>2. /\ Fetched(item[e].tok)' = Fetched(item[e].tok)
        /\ \A m \in Fetched(item[e].tok) : queue'[m].inst = queue[m].inst
    BY <1>2, RowsSame
  <2>3. QED
    BY <1>2, <2>1, <2>2, HeldFrame DEF IndInv, Held
<1>5. QED
  BY <1>2, <1>3, <1>4, HeldIdle DEF Held

(* Giving an item back leaves no row with its token.                       *)
LEMMA AbandonHeld ==
    ASSUME IndInv, NEW d \in Dispatcher, pc[d] # "idle", NEW delay \in 0..MaxDelay,
           Abandon(d, delay), Idle(d), UNCHANGED <<hist, known>>
    PROVE  TokensDistinct' /\ Held' /\ DOMAIN queue' = DOMAIN queue
<1>1. CASE locks[item[d].inst].tok = item[d].tok
  <2>1. /\ DOMAIN queue' = DOMAIN queue
        /\ \A m \in DOMAIN queue : /\ queue'[m].tok = queue[m].tok
                                    /\ queue'[m].inst = queue[m].inst
    <3>1. DOMAIN queue' = DOMAIN queue
      BY <1>1 DEF Abandon
    <3>2. ASSUME NEW m \in DOMAIN queue
          PROVE  queue'[m].tok = queue[m].tok /\ queue'[m].inst = queue[m].inst
      <4>1. queue[m] \in RowRecord
        BY DEF IndInv, TypeOK
      <4>2. queue'[m] = [queue[m] EXCEPT !.hide = delay] \/ queue'[m] = queue[m]
        BY <1>1 DEF Abandon
      <4>3. QED
        BY <4>1, <4>2 DEF RowRecord
    <3>3. QED
      BY <3>1, <3>2
  <2>2. Unlock(d)
    BY <1>1 DEF Abandon
  <2>3. QED
    BY <2>1, <2>2, RowsSame, EndOfTurnHeld
<1>2. CASE locks[item[d].inst].tok # item[d].tok
  BY <1>2, DropItemHeld DEF Abandon
<1>3. QED
  BY <1>1, <1>2

(* What the queue may be after an accepted ack. *)
LEMMA EmitsFacts ==
    ASSUME NEW i, NEW R, Emits(i, Delete(R))
    PROVE  /\ \/ queue' = Delete(R)
              \/ \E j \in Instance, kind \in Kind, hide \in 0..MaxDelay :
                    queue' = AddRow(Delete(R), j, kind, hide)
           /\ DOMAIN queue' \subseteq ((DOMAIN queue) \ R) \cup {nextRow}
           /\ nextRow' \in {nextRow, nextRow + 1}
  BY DEF Emits, AddRow, Delete

(* The rows an accepted ack deletes are nobody else's. *)
LEMMA AckHeld ==
    ASSUME IndInv, NEW d \in Dispatcher, pc[d] # "idle", Idle(d), Unlock(d),
           \A j \in Instance \ {item[d].inst} : hist'[j] = hist[j],
           known' \in {known, known \cup {item[d].inst}},
           \/ queue' = Delete(Fetched(item[d].tok))
           \/ \E j \in Instance, kind \in Kind, hide \in 0..MaxDelay :
                 queue' = AddRow(Delete(Fetched(item[d].tok)), j, kind, hide)
    PROVE  TokensDistinct' /\ Held'
<1>1. ASSUME NEW e \in Dispatcher \ {d}, pc[e] # "idle", item'[e].tok = item[e].tok
      PROVE  /\ Fetched(item[e].tok)' = Fetched(item[e].tok)
             /\ \A m \in Fetched(item[e].tok) : queue'[m].inst = queue[m].inst
  <2>1. item[e].tok # NoToken /\ item[d].tok # item[e].tok
    BY <1>1, OthersTokens
  <2>2. Fetched(item[d].tok) \cap Fetched(item[e].tok) = {}
    BY <2>1 DEF Fetched
  <2>3. QED
    BY <1>1, <2>1, <2>2, RowsKept DEF IndInv
<1>2. QED
  BY <1>1, EndOfTurnHeld

(* Renew, Stall, Tick and a rejected commit touch no token and no history. *)
LEMMA QuietHeld ==
    ASSUME IndInv, UNCHANGED <<hist, known>>,
           DOMAIN queue' = DOMAIN queue,
           \A m \in DOMAIN queue : /\ queue'[m].tok = queue[m].tok
                                   /\ queue'[m].inst = queue[m].inst,
           \A i \in Instance : locks'[i].tok = locks[i].tok,
           \A e \in Dispatcher :
              /\ pc'[e] = "idle" <=> pc[e] = "idle"
              /\ item'[e].inst = item[e].inst /\ item'[e].tok = item[e].tok
              /\ item'[e].rows = item[e].rows /\ item'[e].snap = item[e].snap
    PROVE  TokensDistinct' /\ Held'
<1>1. TokensDistinct'
  BY TokensSame DEF IndInv
<1>2. ASSUME NEW e \in Dispatcher PROVE HeldBy(e)'
  <2>1. item[e].inst \in Instance
    BY DEF IndInv, TypeOK, Item
  <2>2. Owns(e)' <=> Owns(e)
    BY <2>1 DEF Owns
  <2>3. QED
    BY <2>1, <2>2, RowsSame, HeldFrame DEF IndInv, Held
<1>3. QED
  BY <1>1, <1>2 DEF Held

(* The end of the renewal task changes nothing else of an item.            *)
LEMMA StopRenewalKeeps ==
    ASSUME NEW x \in Item
    PROVE  LET y == StopRenewal(x) IN
              y.inst = x.inst /\ y.tok = x.tok /\ y.rows = x.rows /\ y.snap = x.snap
  BY DEF StopRenewal, Item

(* A renewal, late or not, moves no row.                                   *)
LEMMA RenewHeld ==
    ASSUME IndInv, NEW d \in Dispatcher, Renew(d) \/ Stall(d)
    PROVE  TokensDistinct' /\ Held' /\ queue' = queue /\ hist' = hist
           /\ known' = known /\ nextRow' = nextRow
<1>1. /\ queue' = queue /\ hist' = hist /\ known' = known /\ nextRow' = nextRow
      /\ pc' = pc
  BY DEF Renew, Stall
<1>2. item[d] \in Item /\ item[d].inst \in Instance
  BY DEF IndInv, TypeOK, Item
<1>3. item' = item \/ item' = [item EXCEPT ![d] = StopRenewal(item[d])]
  BY DEF Renew, Stall
<1>4. \A e \in Dispatcher :
         /\ item'[e].inst = item[e].inst /\ item'[e].tok = item[e].tok
         /\ item'[e].rows = item[e].rows /\ item'[e].snap = item[e].snap
  BY <1>2, <1>3, StopRenewalKeeps DEF IndInv, TypeOK
<1>5. \A i \in Instance : locks'[i].tok = locks[i].tok
  BY <1>2 DEF Renew, Stall, LockValid, IndInv, TypeOK
<1>6. QED
  BY <1>1, <1>4, <1>5, QuietHeld

(* Time that passes moves no row.                                          *)
LEMMA TickHeld ==
    ASSUME IndInv, Tick
    PROVE  TokensDistinct' /\ Held' /\ DOMAIN queue' = DOMAIN queue
<1>1. DOMAIN queue' = DOMAIN queue
  BY DEF Tick
<1>2. ASSUME NEW m \in DOMAIN queue
      PROVE  queue'[m].tok = queue[m].tok /\ queue'[m].inst = queue[m].inst
  <2>1. queue[m] \in RowRecord
    BY DEF IndInv, TypeOK
  <2>2. queue'[m] = [queue[m] EXCEPT !.hide = Decay(@)]
    BY DEF Tick
  <2>3. QED
    BY <2>1, <2>2 DEF RowRecord
<1>3. ASSUME NEW i \in Instance PROVE locks'[i].tok = locks[i].tok
  <2>1. locks[i] \in Lock
    BY DEF IndInv, TypeOK
  <2>2. locks'[i] = [locks[i] EXCEPT !.left = Decay(@)]
    BY DEF Tick
  <2>3. QED
    BY <2>1, <2>2 DEF Lock
<1>4. QED
  BY <1>1, <1>2, <1>3, QuietHeld DEF Tick

(* The beginning.                                                          *)
LEMMA InitInv == Init => IndInv
<1> SUFFICES ASSUME Init PROVE IndInv
  OBVIOUS
<1> USE QueueAssumption
<1>1. TypeOK
  <2>1. NoLock \in Lock
    BY DEF NoLock, Lock, NoToken
  <2>2. QED
    BY <2>1, NoItemType DEF Init, TypeOK
<1>2. TokensDistinct /\ Held /\ Unstarted
  BY DEF Init, TokensDistinct, Held, HeldBy, Owns, Unstarted, NoItem
<1>3. ConsumedGone /\ ConsumedApart /\ TurnsStopAtTerminal
  BY DEF Init, ConsumedGone, ConsumedApart, TurnsStopAtTerminal
<1>4. QED
  BY <1>1, <1>2, <1>3 DEF IndInv

(* Every step of the queue keeps the inductive invariant.                  *)
LEMMA IndStep == IndInv /\ [Next]_vars => IndInv'
<1> SUFFICES ASSUME IndInv, [Next]_vars PROVE IndInv'
  OBVIOUS
<1>1. TypeOK'
  BY TypeStep DEF IndInv
<1>2. ASSUME NEW i \in Instance, NEW kind \in Kind, Enqueue(i, kind) PROVE IndInv'
  <2>1. DOMAIN queue' \subseteq (DOMAIN queue) \cup {nextRow}
    BY <1>2 DEF Enqueue, AddRow
  <2>2. QED
    BY <1>1, <1>2, <2>1, EnqueueHeld, AccountFrame DEF Enqueue, IndInv
<1>3. ASSUME NEW d \in Dispatcher, Fetch(d) PROVE IndInv'
  <2>1. DOMAIN queue' = DOMAIN queue
    BY <1>3 DEF Fetch, Lease
  <2>2. QED
    BY <1>1, <1>3, <2>1, FetchHeld, AccountFrame DEF Fetch, IndInv
<1>4. ASSUME NEW d \in Dispatcher, DropOrphans(d) PROVE IndInv'
  <2>1. DOMAIN queue' \subseteq DOMAIN queue
    BY <1>4 DEF DropOrphans, Delete
  <2>2. QED
    BY <1>1, <1>4, <2>1, DropOrphansHeld, AccountFrame DEF DropOrphans, IndInv
<1>5. ASSUME NEW d \in Dispatcher, VersionGate(d) \/ Release(d) PROVE IndInv'
  <2>1. PICK delay \in 0..MaxDelay : Abandon(d, delay)
    BY <1>5 DEF VersionGate, Release
  <2>2. Idle(d) /\ pc[d] # "idle" /\ UNCHANGED <<hist, known, nextRow>>
    BY <1>5 DEF VersionGate, Release, Running
  <2>3. QED
    BY <1>1, <2>1, <2>2, AbandonHeld, AccountFrame DEF IndInv
<1>6. ASSUME NEW d \in Dispatcher,
             Poison(d) \/ FailureAck(d) \/ \E kind \in {"turn", "completed"} : Commit(d, kind)
      PROVE  IndInv'
  <2>1. PICK kind \in {"turn", "completed", "failed"} :
             AckTurn(d, kind) /\ (kind # "failed" => ~Terminal(item[d].snap))
                              /\ (FailureAck(d) => kind = "failed")
    BY <1>6 DEF Poison, FailureAck, Commit
  <2>2. pc[d] # "idle"
    BY <1>6 DEF Poison, Poisoned, FailureAck, Commit, Running
  <2>3. /\ \/ queue' = Delete(Fetched(item[d].tok))
           \/ \E j \in Instance, k \in Kind, hide \in 0..MaxDelay :
                 queue' = AddRow(Delete(Fetched(item[d].tok)), j, k, hide)
        /\ DOMAIN queue' \subseteq ((DOMAIN queue) \ Fetched(item[d].tok)) \cup {nextRow}
        /\ nextRow' \in {nextRow, nextRow + 1}
    BY <1>6, EmitsFacts DEF Poison, FailureAck, Commit, Delete
  <2>4. \/ known' = known \cup {item[d].inst}
        \/ known' = known /\ kind = "failed"
    BY <1>6, <2>1 DEF Poison, FailureAck, Commit
  <2>5. /\ Idle(d) /\ Unlock(d)
        /\ \A j \in Instance \ {item[d].inst} : hist'[j] = hist[j]
    BY <2>1 DEF AckTurn, IndInv, TypeOK
  <2>6. TokensDistinct' /\ Held'
    BY <2>2, <2>3, <2>4, <2>5, AckHeld
  <2>7. Unstarted' /\ ConsumedGone' /\ ConsumedApart' /\ TurnsStopAtTerminal'
    BY <1>1, <2>1, <2>2, <2>3, <2>4, AccountAck
  <2>8. QED
    BY <1>1, <2>6, <2>7 DEF IndInv
<1>7. ASSUME NEW d \in Dispatcher, AckTerminal(d) PROVE IndInv'
  <2>1. pc[d] # "idle" /\ Idle(d) /\ Unlock(d) /\ UNCHANGED <<hist, known, nextRow>>
        /\ queue' = Delete(Fetched(item[d].tok))
    BY <1>7 DEF AckTerminal, Running
  <2>2. DOMAIN queue' \subseteq DOMAIN queue
    BY <2>1 DEF Delete
  <2>3. QED
    BY <1>1, <2>1, <2>2, AckHeld, AccountFrame DEF IndInv
<1>8. ASSUME NEW d \in Dispatcher,
             PoisonRejected(d) \/ AckTerminalRejected(d) \/ FailureAckRejected(d) \/ Crash(d)
      PROVE  IndInv'
  <2>1. Idle(d) /\ UNCHANGED <<queue, locks, hist, known, nextRow>>
    BY <1>8 DEF PoisonRejected, AckTerminalRejected, FailureAckRejected, Crash
  <2>2. QED
    BY <1>1, <2>1, DropItemHeld, AccountFrame DEF IndInv
<1>9. ASSUME NEW d \in Dispatcher, CommitRejected(d) PROVE IndInv'
  <2>1. \A e \in Dispatcher : pc'[e] = "idle" <=> pc[e] = "idle"
    BY <1>9 DEF CommitRejected, Running, IndInv, TypeOK
  <2>2. QED
    BY <1>1, <1>9, <2>1, QuietHeld, AccountFrame DEF CommitRejected, IndInv
<1>10. ASSUME NEW d \in Dispatcher, Renew(d) \/ Stall(d) PROVE IndInv'
  BY <1>1, <1>10, RenewHeld, AccountFrame DEF IndInv
<1>11. ASSUME Tick PROVE IndInv'
  BY <1>1, <1>11, TickHeld, AccountFrame DEF Tick, IndInv
<1>12. CASE UNCHANGED vars
  BY <1>1, <1>12, QuietHeld, AccountFrame DEF vars, IndInv
<1>13. QED
  BY <1>2, <1>3, <1>4, <1>5, <1>6, <1>7, <1>8, <1>9, <1>10, <1>11, <1>12
  DEF Next, Dispatch

(***************************************************************************)
(* The theorems.                                                           *)
(***************************************************************************)

(* The inductive invariant holds in every state. *)
THEOREM QueueInvariant == Spec => []IndInv
<1>1. QED
  BY InitInv, IndStep, PTL DEF Spec

(* The tables and the dispatchers' items always have their types. *)
THEOREM TypeCorrect == Spec => []TypeOK
<1>1. IndInv => TypeOK
  BY DEF IndInv
<1>2. QED
  BY <1>1, QueueInvariant, PTL

(* Ownership: while its token is in the lock row, what a dispatcher        *)
(* fetched is what the tables hold (fetch, renew, ack, abandon, expiry).   *)
THEOREM OwnershipTheorem == Spec => []FreshItem
<1>1. IndInv => FreshItem
  BY DEF IndInv, Held, HeldBy, FreshItem
<1>2. QED
  BY <1>1, QueueInvariant, PTL

(* Exactly-once consumption: ack_orchestration_item never lets a message   *)
(* take part in two committed turns.                                       *)
THEOREM ConsumedOnceTheorem == Spec => []ConsumedOnce
<1>1. IndInv => ConsumedOnce
  <2> SUFFICES ASSUME IndInv PROVE ConsumedOnce
    OBVIOUS
  <2>1. ASSUME NEW i \in Instance PROVE ConsumedRows(i) \cap DOMAIN queue = {}
    BY DEF IndInv, ConsumedGone, ConsumedRows
  <2>2. ASSUME NEW i \in Instance, NEW j \in Instance \ {i}
        PROVE  ConsumedRows(i) \cap ConsumedRows(j) = {}
    BY DEF IndInv, ConsumedApart, ConsumedRows
  <2>3. ASSUME NEW i \in Instance, NEW k \in 1..Len(hist[i]), NEW n \in 1..Len(hist[i]), k # n
        PROVE  hist[i][k].rows \cap hist[i][n].rows = {}
    BY <2>3 DEF IndInv, ConsumedApart
  <2>4. QED
    BY <2>1, <2>2, <2>3 DEF ConsumedOnce
<1>2. QED
  BY <1>1, QueueInvariant, PTL

(* No orchestration code runs after a terminal event, although the poison  *)
(* path may still append failures.                                         *)
THEOREM TurnsStopTheorem == Spec => []TurnsStopAtTerminal
<1>1. IndInv => TurnsStopAtTerminal
  BY DEF IndInv
<1>2. QED
  BY <1>1, QueueInvariant, PTL

(***************************************************************************)
(* The attempts of what a turn is committed on.                            *)
(***************************************************************************)

(* The rows that carry the token of a dispatcher, unless it found them     *)
(* over the limit, have attempts left; this is so when it holds the lock   *)
(* no more as well, since only a fetch counts, and it sets a new token.    *)
CountedBy(d) ==
    pc[d] # "idle" /\ ~item[d].over =>
        \A m \in Fetched(item[d].tok) : queue[m].att <= MaxAttempts

Counted == \A d \in Dispatcher : CountedBy(d)

(* Rows keep token and attempts, or have no token; nobody begins a turn.   *)
LEMMA CountedFrame ==
    ASSUME IndInv, Counted,
           \A m \in DOMAIN queue' :
              \/ queue'[m].tok = NoToken
              \/ /\ m \in DOMAIN queue
                 /\ queue'[m].tok = queue[m].tok /\ queue'[m].att = queue[m].att,
           \A d \in Dispatcher :
              \/ pc'[d] = "idle"
              \/ /\ pc[d] # "idle" /\ item'[d].tok = item[d].tok
                 /\ item'[d].over = item[d].over
    PROVE  Counted'
<1> SUFFICES ASSUME NEW d \in Dispatcher, (pc[d] # "idle")', ~item'[d].over,
                    NEW m \in DOMAIN queue', queue'[m].tok = item'[d].tok
             PROVE  queue'[m].att <= MaxAttempts
  BY DEF Counted, CountedBy, Fetched
<1>1. pc[d] # "idle" /\ item'[d].tok = item[d].tok /\ item'[d].over = item[d].over
  OBVIOUS
<1>2. item[d].tok # NoToken
  BY <1>1 DEF IndInv, TokensDistinct
<1>3. m \in Fetched(item[d].tok) /\ queue'[m].att = queue[m].att
  BY <1>1, <1>2 DEF Fetched
<1>4. QED
  BY <1>1, <1>3 DEF Counted, CountedBy

(* An emitted row is new and has no token. *)
LEMMA CountedRows ==
    ASSUME TypeOK, NEW R,
           \/ queue' = Delete(R)
           \/ \E i \in Instance, kind \in Kind, hide \in 0..MaxDelay :
                 queue' = AddRow(Delete(R), i, kind, hide)
    PROVE  \A m \in DOMAIN queue' :
              \/ queue'[m].tok = NoToken
              \/ /\ m \in DOMAIN queue
                 /\ queue'[m].tok = queue[m].tok /\ queue'[m].att = queue[m].att
<1>1. CASE queue' = Delete(R)
  BY <1>1 DEF Delete
<1>2. ASSUME NEW i \in Instance, NEW kind \in Kind, NEW hide \in 0..MaxDelay,
             queue' = AddRow(Delete(R), i, kind, hide), NEW m \in DOMAIN queue'
      PROVE  \/ queue'[m].tok = NoToken
             \/ m \in DOMAIN queue /\ queue'[m] = queue[m]
  BY <1>2 DEF AddRow, Delete
<1>3. QED
  BY <1>1, <1>2

(* A fetch counts its rows, and compares the highest count with the limit. *)
LEMMA CountedFetch ==
    ASSUME IndInv, Counted, NEW d \in Dispatcher, Fetch(d)
    PROVE  Counted'
<1>1. PICK n \in Candidates : Lease(d, queue[n].inst, FreshToken)
  BY DEF Fetch
<1> DEFINE b == Batch(queue[n].inst)
           t == FreshToken
<1>2. TypeOK
  BY DEF IndInv
<1>3. t \notin TokensInUse
  BY FreshTokenFacts DEF Fetch
<1> HIDE DEF t
<1>4. /\ item'[d].tok = t /\ item'[d].over = OverLimit(b)
      /\ \A e \in Dispatcher \ {d} : item'[e] = item[e] /\ pc'[e] = pc[e]
  BY <1>1, <1>2 DEF Lease, Fetch, TypeOK, t
<1>5. /\ DOMAIN queue' = DOMAIN queue
      /\ \A m \in (DOMAIN queue) \ b : queue'[m] = queue[m]
  BY <1>1 DEF Lease
<1>6. ASSUME NEW m \in b
      PROVE  m \in DOMAIN queue /\ queue'[m].tok = t /\ queue'[m].att = Bump(queue[m].att)
  <2>1. m \in DOMAIN queue /\ queue[m] \in RowRecord
    BY <1>2 DEF Batch, TypeOK
  <2>2. queue'[m] = [queue[m] EXCEPT !.tok = t, !.att = Bump(@)]
    BY <1>1, <2>1 DEF Lease, t
  <2>3. QED
    BY <2>1, <2>2 DEF RowRecord
<1>7. ASSUME NEW e \in Dispatcher, (pc[e] # "idle")', ~item'[e].over,
             NEW m \in DOMAIN queue', queue'[m].tok = item'[e].tok
      PROVE  queue'[m].att <= MaxAttempts
  <2>1. CASE e = d
    <3>1. m \in b
      <4>1. m \in DOMAIN queue => queue[m].tok # t
        BY <1>3 DEF TokensInUse
      <4>2. QED
        BY <1>4, <1>5, <1>7, <2>1, <4>1
    <3>2. ~OverLimit(b)
      BY <1>4, <1>7, <2>1
    <3>3. Bump(queue[m].att) \in 0..(MaxAttempts + 1)
      <4>1. queue[m].att \in 0..(MaxAttempts + 1)
        BY <1>2, <1>6, <3>1 DEF TypeOK, RowRecord
      <4>2. QED
        BY <4>1, BumpType
    <3>4. Bump(queue[m].att) <= MaxAttempts
      BY <3>1, <3>2, <3>3, QueueAssumption DEF OverLimit
    <3>5. QED
      BY <1>6, <3>1, <3>4
  <2>2. CASE e # d
    <3>1. item'[e] = item[e] /\ pc[e] # "idle"
      BY <1>4, <1>7, <2>2
    <3>2. item[e].tok # t
      BY <1>3 DEF TokensInUse
    <3>3. m \notin b
      BY <1>6, <1>7, <3>1, <3>2
    <3>4. m \in Fetched(item[e].tok) /\ queue'[m] = queue[m]
      BY <1>5, <1>7, <3>1, <3>3 DEF Fetched
    <3>5. QED
      BY <1>7, <3>1, <3>4 DEF Counted, CountedBy
  <2>3. QED
    BY <2>1, <2>2
<1>8. QED
  BY <1>7 DEF Counted, CountedBy, Fetched

(* Every step keeps the counts within the limit. *)
LEMMA CountedStep == IndInv /\ Counted /\ [Next]_vars => Counted'
<1> SUFFICES ASSUME IndInv, Counted, [Next]_vars PROVE Counted'
  OBVIOUS
<1>1. TypeOK
  BY DEF IndInv
<1>2. ASSUME NEW i \in Instance, NEW kind \in Kind, Enqueue(i, kind) PROVE Counted'
  <2>1. queue' = AddRow(Delete({}), i, kind, 0) /\ 0 \in 0..MaxDelay
    BY <1>2, QueueAssumption DEF Enqueue, AddRow, Delete
  <2>2. QED
    BY <1>1, <1>2, <2>1, CountedRows, CountedFrame DEF Enqueue
<1>3. ASSUME NEW d \in Dispatcher, Fetch(d) PROVE Counted'
  BY <1>3, CountedFetch
<1>4. ASSUME NEW d \in Dispatcher, DropOrphans(d) PROVE Counted'
  <2>1. \E R : queue' = Delete(R)
    BY <1>4 DEF DropOrphans
  <2>2. QED
    BY <1>1, <1>4, <2>1, CountedRows, CountedFrame DEF DropOrphans
<1>5. ASSUME NEW d \in Dispatcher, VersionGate(d) \/ Release(d) PROVE Counted'
  <2>1. PICK delay \in 0..MaxDelay : Abandon(d, delay)
    BY <1>5 DEF VersionGate, Release
  <2>2. DOMAIN queue' = DOMAIN queue
    BY <2>1 DEF Abandon
  <2>3. ASSUME NEW m \in DOMAIN queue
        PROVE  queue'[m].tok = queue[m].tok /\ queue'[m].att = queue[m].att
    <3>1. queue'[m] = [queue[m] EXCEPT !.hide = delay] \/ queue'[m] = queue[m]
      BY <2>1 DEF Abandon
    <3>2. queue[m] \in RowRecord
      BY <1>1 DEF TypeOK
    <3>3. QED
      BY <3>1, <3>2 DEF RowRecord
  <2>4. Idle(d)
    BY <1>5 DEF VersionGate, Release
  <2>5. QED
    BY <1>1, <2>2, <2>3, <2>4, IdleFacts, CountedFrame
<1>6. ASSUME NEW d \in Dispatcher,
             Poison(d) \/ FailureAck(d) \/ AckTerminal(d)
               \/ \E kind \in {"turn", "completed"} : Commit(d, kind)
      PROVE  Counted'
  <2>1. Idle(d)
    BY <1>6 DEF Poison, FailureAck, AckTerminal, Commit, AckTurn
  <2>2. \/ queue' = Delete(Fetched(item[d].tok))
        \/ \E j \in Instance, k \in Kind, hide \in 0..MaxDelay :
              queue' = AddRow(Delete(Fetched(item[d].tok)), j, k, hide)
    BY <1>6, EmitsFacts DEF Poison, FailureAck, AckTerminal, Commit
  <2>3. QED
    BY <1>1, <2>1, <2>2, IdleFacts, CountedRows, CountedFrame
<1>7. ASSUME NEW d \in Dispatcher,
             PoisonRejected(d) \/ AckTerminalRejected(d) \/ FailureAckRejected(d) \/ Crash(d)
      PROVE  Counted'
  <2>1. Idle(d) /\ UNCHANGED queue
    BY <1>7 DEF PoisonRejected, AckTerminalRejected, FailureAckRejected, Crash
  <2>2. QED
    BY <1>1, <2>1, IdleFacts, CountedFrame
<1>8. ASSUME NEW d \in Dispatcher, CommitRejected(d) PROVE Counted'
  <2>1. UNCHANGED <<queue, item>> /\ \A e \in Dispatcher : pc'[e] = "idle" <=> pc[e] = "idle"
    BY <1>1, <1>8 DEF CommitRejected, Running, TypeOK
  <2>2. QED
    BY <2>1, CountedFrame
<1>9. ASSUME NEW d \in Dispatcher, Renew(d) \/ Stall(d) PROVE Counted'
  <2>1. item' = item \/ item' = [item EXCEPT ![d] = StopRenewal(@)]
    BY <1>9 DEF Renew, Stall
  <2>2. ASSUME NEW e \in Dispatcher
        PROVE  item'[e].tok = item[e].tok /\ item'[e].over = item[e].over
    <3>1. item[d] \in Item
      BY <1>1 DEF TypeOK
    <3>2. /\ StopRenewal(item[d]).tok = item[d].tok
          /\ StopRenewal(item[d]).over = item[d].over
      BY <3>1 DEF StopRenewal, Item
    <3>3. QED
      BY <1>1, <2>1, <3>2 DEF TypeOK
  <2>3. UNCHANGED <<queue, pc>>
    BY <1>9 DEF Renew, Stall
  <2>4. QED
    BY <2>2, <2>3, CountedFrame
<1>10. ASSUME Tick PROVE Counted'
  <2>1. UNCHANGED <<pc, item>> /\ DOMAIN queue' = DOMAIN queue
    BY <1>10 DEF Tick
  <2>2. ASSUME NEW m \in DOMAIN queue
        PROVE  queue'[m].tok = queue[m].tok /\ queue'[m].att = queue[m].att
    <3>1. queue'[m] = [queue[m] EXCEPT !.hide = Decay(queue[m].hide)]
      BY <1>10 DEF Tick
    <3>2. queue[m] \in RowRecord
      BY <1>1 DEF TypeOK
    <3>3. QED
      BY <3>1, <3>2 DEF RowRecord
  <2>3. QED
    BY <2>1, <2>2, CountedFrame
<1>11. CASE UNCHANGED vars
  BY <1>11, CountedFrame DEF vars
<1>12. QED
  BY <1>2, <1>3, <1>4, <1>5, <1>6, <1>7, <1>8, <1>9, <1>10, <1>11 DEF Next, Dispatch

(* Retries are bounded: a turn is committed only on messages fetched at    *)
(* most max_attempts times, over crashes, takeovers and abandonments.      *)
THEOREM AttemptsBoundedTheorem == Spec => AttemptsBounded
<1> DEFINE Bounded(i) ==
       Len(hist'[i]) > Len(hist[i]) =>
           LET e == hist'[i][Len(hist'[i])] IN
           e.kind # "failed" =>
               \A m \in e.rows \cap DOMAIN queue : queue[m].att <= MaxAttempts
<1>1. ASSUME IndInv, Counted, [Next]_vars, NEW i \in Instance PROVE Bounded(i)
  <2>1. TypeOK /\ hist[i] \in Seq(Entry)
    BY <1>1 DEF IndInv, TypeOK
  <2>2. ASSUME NEW d \in Dispatcher,
               Poison(d) \/ FailureAck(d) \/ \E kind \in {"turn", "completed"} : Commit(d, kind)
        PROVE  Bounded(i)
    <3>1. PICK kind \in {"turn", "completed", "failed"} :
               AckTurn(d, kind) /\ (kind # "failed" => Running(d))
      BY <2>2 DEF Poison, FailureAck, Commit
    <3>2. pc[d] # "idle" /\ LockValid(d)
      BY <2>2, <3>1 DEF Poison, Poisoned, FailureAck, Commit, Running, AckTurn
    <3>3. item[d].inst \in Instance /\ Fetched(item[d].tok) = item[d].rows
      BY <1>1, <3>2, AckFacts
    <3>4. CASE i # item[d].inst
      <4>1. hist'[i] = hist[i]
        BY <2>1, <3>1, <3>4 DEF AckTurn, TypeOK
      <4>2. Len(hist[i]) \in Nat
        BY <2>1
      <4>3. QED
        BY <4>1, <4>2
    <3>5. CASE i = item[d].inst
      <4>1. hist'[i] = Append(hist[i], [kind |-> kind, rows |-> item[d].rows])
        BY <2>1, <3>1, <3>5 DEF AckTurn, TypeOK
      <4>2. hist'[i][Len(hist'[i])] = [kind |-> kind, rows |-> item[d].rows]
        BY <2>1, <4>1
      <4>3. ASSUME kind # "failed", NEW m \in item[d].rows PROVE queue[m].att <= MaxAttempts
        <5>1. ~item[d].over /\ m \in Fetched(item[d].tok)
          BY <3>1, <3>3, <4>3 DEF Running
        <5>2. QED
          BY <1>1, <3>2, <5>1 DEF Counted, CountedBy
      <4>4. QED
        BY <4>2, <4>3
    <3>6. QED
      BY <3>4, <3>5
  <2>3. CASE hist' = hist
    BY <2>1, <2>3
  <2>4. QED
    <3>1. CASE Next
      <4>1. CASE \E d \in Dispatcher : Poison(d) \/ FailureAck(d)
                   \/ \E kind \in {"turn", "completed"} : Commit(d, kind)
        BY <2>2, <4>1
      <4>2. ASSUME NEW d \in Dispatcher, VersionGate(d) \/ Release(d) PROVE hist' = hist
        BY <4>2 DEF VersionGate, Release
      <4>3. ASSUME NEW d \in Dispatcher,
                   Fetch(d) \/ DropOrphans(d) \/ PoisonRejected(d) \/ AckTerminal(d)
                     \/ AckTerminalRejected(d) \/ CommitRejected(d) \/ FailureAckRejected(d)
                     \/ Renew(d) \/ Stall(d) \/ Crash(d)
            PROVE  hist' = hist
        BY <4>3 DEF Fetch, DropOrphans, PoisonRejected, AckTerminal, AckTerminalRejected,
                    CommitRejected, FailureAckRejected, Renew, Stall, Crash
      <4>4. ASSUME NEW j \in Instance, NEW kind \in Kind, Enqueue(j, kind) PROVE hist' = hist
        BY <4>4 DEF Enqueue
      <4>5. Tick => hist' = hist
        BY DEF Tick
      <4>6. QED
        BY <2>3, <3>1, <4>1, <4>2, <4>3, <4>4, <4>5 DEF Next, Dispatch
    <3>2. CASE UNCHANGED vars
      BY <2>3, <3>2 DEF vars
    <3>3. QED
      BY <1>1, <3>1, <3>2
<1>2. IndInv /\ Counted /\ [Next]_vars => [\A i \in Instance : Bounded(i)]_vars
  BY <1>1
<1>3. Init => Counted
  BY DEF Init, Counted, CountedBy
<1>4. QED
  BY <1>2, <1>3, CountedStep, QueueInvariant, PTL DEF Spec, AttemptsBounded

(***************************************************************************)
(* Refinement.                                                             *)
(***************************************************************************)

(* What the abstract inbox does not see.                                   *)
LEMMA SameInbox ==
    ASSUME DOMAIN queue' = DOMAIN queue,
           \A m \in DOMAIN queue : queue'[m].inst = queue[m].inst,
           hist' = hist, nextRow' = nextRow
    PROVE  UNCHANGED Inbox!inboxVars
  BY DEF Inbox!inboxVars

(* The abstract inbox without some rows.                                   *)
LEMMA WithoutRows ==
    ASSUME NEW R
    PROVE  Inbox!Without(R) = [m \in (DOMAIN queue) \ R |-> queue[m].inst]
  BY DEF Inbox!Without

(* Rows deleted from the queue leave the abstract inbox.                   *)
LEMMA DeleteRefines ==
    ASSUME NEW R, queue' = Delete(R)
    PROVE  [m \in DOMAIN queue' |-> queue'[m].inst] = Inbox!Without(R)
  BY WithoutRows DEF Delete

(* What a turn sends is what the abstract inbox sends.                     *)
LEMMA EmitsRefines ==
    ASSUME TypeOK, NEW d \in Dispatcher,
           Emits(item[d].inst, Delete(Fetched(item[d].tok)))
    PROVE  Inbox!Sends(Inbox!Without(Fetched(item[d].tok)))
<1> DEFINE R == Fetched(item[d].tok)
<1> HIDE DEF R
<1>0. Emits(item[d].inst, Delete(R))
  BY DEF R
<1> SUFFICES Inbox!Sends(Inbox!Without(R))
  BY DEF R
<1>1. CASE queue' = Delete(R) /\ UNCHANGED nextRow
  BY <1>1, DeleteRefines DEF Inbox!Sends
<1>2. ASSUME NEW j \in Instance, NEW kind \in Kind, NEW hide \in 0..MaxDelay,
             queue' = AddRow(Delete(R), j, kind, hide), nextRow' = nextRow + 1
      PROVE  Inbox!Sends(Inbox!Without(R))
  <2>1. nextRow \notin DOMAIN queue
    BY QueueAssumption DEF TypeOK
  <2>2. [m \in DOMAIN queue' |-> queue'[m].inst]
           = [m \in ((DOMAIN queue) \ R) \cup {nextRow} |->
                 IF m = nextRow THEN j ELSE queue[m].inst]
    BY <1>2, <2>1 DEF AddRow, Delete
  <2>3. [m \in (DOMAIN Inbox!Without(R)) \cup {nextRow} |->
            IF m = nextRow THEN j ELSE Inbox!Without(R)[m]]
           = [m \in ((DOMAIN queue) \ R) \cup {nextRow} |->
                 IF m = nextRow THEN j ELSE queue[m].inst]
    BY WithoutRows
  <2>4. QED
    BY <1>2, <2>2, <2>3 DEF Inbox!Sends
<1>3. QED
  BY <1>0, <1>1, <1>2 DEF Emits

(* A client that enqueues is a step of the abstract inbox.                 *)
LEMMA EnqueueRefines ==
    ASSUME TypeOK, NEW i \in Instance, NEW kind \in Kind, Enqueue(i, kind)
    PROVE  Inbox!Next
<1>1. nextRow \notin DOMAIN queue
  BY QueueAssumption DEF TypeOK
<1>2. [m \in DOMAIN queue' |-> queue'[m].inst]
         = [m \in (DOMAIN queue) \cup {nextRow} |->
               IF m = nextRow THEN i ELSE queue[m].inst]
  BY <1>1 DEF Enqueue, AddRow
<1>3. QED
  BY <1>2 DEF Enqueue, Inbox!Next, Inbox!Send, Inbox!Sends

(* Rows leave without a turn: the instance is terminal, or never ran one. *)
LEMMA DiscardRefines ==
    ASSUME NEW i \in Instance, NEW R, R # {}, R \subseteq DOMAIN queue,
           \A m \in R : queue[m].inst = i,
           hist[i] = <<>> \/ Terminal(hist[i]),
           queue' = Delete(R), hist' = hist, nextRow' = nextRow
    PROVE  Inbox!Next
<1>1. Inbox!Discard(i, R)
  BY DeleteRefines DEF Inbox!Discard, Inbox!Terminal, Terminal
<1>2. QED
  BY <1>1 DEF Inbox!Next

(* An accepted ack is one turn of the abstract inbox. *)
LEMMA AckRefines ==
    ASSUME IndInv, NEW d \in Dispatcher, pc[d] # "idle",
           NEW kind \in {"turn", "completed", "failed"}, AckTurn(d, kind),
           kind # "failed" => ~Terminal(item[d].snap),
           Inbox!Sends(Inbox!Without(Fetched(item[d].tok)))
    PROVE  Inbox!Next
<1> DEFINE i == item[d].inst
           R == Fetched(item[d].tok)
<1>1. /\ i \in Instance /\ item[d].snap = hist[i] /\ item[d].rows = R
      /\ R # {} /\ \A m \in R : queue[m].inst = i
  BY AckFacts DEF AckTurn
<1>2. R \in SUBSET DOMAIN queue
  BY DEF Fetched
<1>3. hist' = [hist EXCEPT ![i] = Append(@, [kind |-> kind, rows |-> R])]
  BY <1>1 DEF AckTurn
<1>4. Terminal(hist[i]) => kind = "failed"
  BY <1>1
<1> HIDE DEF i, R
<1>5. Inbox!Turn(i, R, kind)
  BY <1>1, <1>2, <1>3, <1>4 DEF Inbox!Turn, Inbox!Terminal, Terminal, R
<1>6. QED
  BY <1>1, <1>2, <1>5 DEF Inbox!Next, Inbox!TurnKind

(* Every step of the queue is one of the abstract inbox, or none.          *)
LEMMA RefinementStep ==
    IndInv /\ [Next]_vars => [Inbox!Next]_(Inbox!inboxVars)
<1> SUFFICES ASSUME IndInv, [Next]_vars PROVE [Inbox!Next]_(Inbox!inboxVars)
  OBVIOUS
<1>1. TypeOK
  BY DEF IndInv
<1>2. ASSUME NEW i \in Instance, NEW kind \in Kind, Enqueue(i, kind) PROVE Inbox!Next
  BY <1>1, <1>2, EnqueueRefines
<1>3. ASSUME NEW d \in Dispatcher, Fetch(d) PROVE UNCHANGED Inbox!inboxVars
  <2>1. PICK m \in Candidates : Lease(d, queue[m].inst, FreshToken)
    BY <1>3 DEF Fetch
  <2>2. DOMAIN queue' = DOMAIN queue
    BY <2>1 DEF Lease
  <2>3. ASSUME NEW n \in DOMAIN queue PROVE queue'[n].inst = queue[n].inst
    <3>1. queue[n] \in RowRecord
      BY <1>1 DEF TypeOK
    <3>2. \/ queue'[n] = [queue[n] EXCEPT !.tok = FreshToken, !.att = Bump(@)]
          \/ queue'[n] = queue[n]
      BY <2>1 DEF Lease
    <3>3. QED
      BY <3>1, <3>2 DEF RowRecord
  <2>4. QED
    BY <1>3, <2>2, <2>3, SameInbox DEF Fetch
<1>4. ASSUME NEW d \in Dispatcher, DropOrphans(d) PROVE Inbox!Next
  <2>1. PICK m \in Candidates : /\ queue' = Delete(Batch(queue[m].inst))
                                /\ ~HasContext(queue[m].inst)
    BY <1>4 DEF DropOrphans
  <2> DEFINE i == queue[m].inst
  <2>2. i \in Instance /\ m \in Batch(i) /\ Batch(i) \subseteq DOMAIN queue
    BY <1>1 DEF Candidates, TypeOK, RowRecord, Batch
  <2>3. \A n \in Batch(i) : queue[n].inst = i
    BY DEF Batch
  <2>4. hist[i] = <<>> \/ Terminal(hist[i])
    BY <2>1, <2>2 DEF HasContext, IndInv, Unstarted
  <2>5. hist' = hist /\ nextRow' = nextRow
    BY <1>4 DEF DropOrphans
  <2> HIDE DEF i
  <2>6. queue' = Delete(Batch(i))
    BY <2>1 DEF i
  <2>7. QED
    BY <2>2, <2>3, <2>4, <2>5, <2>6, DiscardRefines
<1>5. ASSUME NEW d \in Dispatcher, VersionGate(d) \/ Release(d)
      PROVE  UNCHANGED Inbox!inboxVars
  <2>1. PICK delay \in 0..MaxDelay : Abandon(d, delay)
    BY <1>5 DEF VersionGate, Release
  <2>2. DOMAIN queue' = DOMAIN queue
    BY <2>1 DEF Abandon
  <2>3. ASSUME NEW n \in DOMAIN queue PROVE queue'[n].inst = queue[n].inst
    <3>1. queue[n] \in RowRecord
      BY <1>1 DEF TypeOK
    <3>2. \/ queue'[n] = [queue[n] EXCEPT !.hide = delay]
          \/ queue'[n] = queue[n]
      BY <2>1 DEF Abandon
    <3>3. QED
      BY <3>1, <3>2 DEF RowRecord
  <2>4. QED
    BY <1>5, <2>2, <2>3, SameInbox DEF VersionGate, Release
<1>6. ASSUME NEW d \in Dispatcher,
             Poison(d) \/ FailureAck(d) \/ \E kind \in {"turn", "completed"} : Commit(d, kind)
      PROVE  Inbox!Next
  <2>1. PICK kind \in {"turn", "completed", "failed"} :
             AckTurn(d, kind) /\ (kind # "failed" => ~Terminal(item[d].snap))
    BY <1>6 DEF Poison, FailureAck, Commit
  <2>2. pc[d] # "idle"
    BY <1>6 DEF Poison, Poisoned, FailureAck, Commit, Running
  <2>3. item[d].inst \in Instance
    BY <1>1 DEF TypeOK, Item
  <2>4. Emits(item[d].inst, Delete(Fetched(item[d].tok)))
    BY <1>6 DEF Poison, FailureAck, Commit, Emits
  <2>5. Inbox!Sends(Inbox!Without(Fetched(item[d].tok)))
    BY <1>1, <2>3, <2>4, EmitsRefines
  <2>6. QED
    BY <2>1, <2>2, <2>5, AckRefines
<1>7. ASSUME NEW d \in Dispatcher, AckTerminal(d) PROVE Inbox!Next
  <2> DEFINE i == item[d].inst
             R == Fetched(item[d].tok)
  <2>1. LockValid(d) /\ pc[d] # "idle"
    BY <1>7 DEF AckTerminal, Running
  <2>2. /\ i \in Instance /\ Terminal(hist[i])
        /\ R # {} /\ \A m \in R : queue[m].inst = i
    BY <1>7, <2>1, AckFacts DEF AckTerminal
  <2>3. R \subseteq DOMAIN queue
    BY DEF Fetched
  <2>4. queue' = Delete(R) /\ hist' = hist /\ nextRow' = nextRow
    BY <1>7 DEF AckTerminal
  <2> HIDE DEF i, R
  <2>5. QED
    BY <2>2, <2>3, <2>4, DiscardRefines
<1>8. ASSUME NEW d \in Dispatcher,
             PoisonRejected(d) \/ AckTerminalRejected(d) \/ FailureAckRejected(d)
               \/ CommitRejected(d) \/ Crash(d) \/ Renew(d) \/ Stall(d)
      PROVE  UNCHANGED Inbox!inboxVars
  <2>1. UNCHANGED <<queue, hist, nextRow>>
    BY <1>8 DEF PoisonRejected, AckTerminalRejected, FailureAckRejected,
                CommitRejected, Crash, Renew, Stall
  <2>2. QED
    BY <2>1, SameInbox
<1>9. ASSUME Tick PROVE UNCHANGED Inbox!inboxVars
  <2>1. ASSUME NEW n \in DOMAIN queue PROVE queue'[n].inst = queue[n].inst
    <3>1. queue[n] \in RowRecord
      BY <1>1 DEF TypeOK
    <3>2. queue'[n] = [queue[n] EXCEPT !.hide = Decay(@)]
      BY <1>9 DEF Tick
    <3>3. QED
      BY <3>1, <3>2 DEF RowRecord
  <2>2. QED
    BY <1>9, <2>1, SameInbox DEF Tick
<1>10. CASE UNCHANGED vars
  BY <1>10, SameInbox DEF vars
<1>11. QED
  BY <1>2, <1>3, <1>4, <1>5, <1>6, <1>7, <1>8, <1>9, <1>10 DEF Next, Dispatch

(* The provider's tables and the dispatchers implement the inbox: every    *)
(* committed ack is one atomic turn of one instance, every deletion        *)
(* without a turn is a permitted discard, everything else is a stutter.    *)
THEOREM InboxRefinement == Spec => InboxSpec
<1>1. Init => Inbox!Init
  BY DEF Init, Inbox!Init
<1>2. QED
  BY <1>1, QueueInvariant, RefinementStep, PTL DEF Spec, InboxSpec, Inbox!Spec

(* A row leaves the queue only consumed by a turn, or of an instance that  *)
(* can run none, or as a queue message sent before its instance existed.   *)
THEOREM NoMessageLostTheorem == Spec => NoMessageLost
<1> DEFINE Accounted(m) ==
       LET i == queue[m].inst IN
          \/ /\ Len(hist'[i]) = Len(hist[i]) + 1
             /\ m \in hist'[i][Len(hist'[i])].rows
          \/ Terminal(hist[i])
          \/ hist[i] = <<>> /\ queue[m].kind = "Queue"
<1>1. ASSUME IndInv, [Next]_vars, NEW m \in (DOMAIN queue) \ (DOMAIN queue')
      PROVE  Accounted(m)
  <2>1. TypeOK
    BY <1>1 DEF IndInv
  <2>2. CASE \E d \in Dispatcher : DropOrphans(d)
    <3>1. PICK d \in Dispatcher : DropOrphans(d)
      BY <2>2
    <3>2. PICK n \in Candidates : /\ queue' = Delete(Batch(queue[n].inst))
                                  /\ ~HasContext(queue[n].inst)
                                  /\ OnlyQueueMessages(queue[n].inst)
      BY <3>1 DEF DropOrphans
    <3>3. m \in Batch(queue[n].inst)
      BY <1>1, <3>2 DEF Delete
    <3>4. queue[m].inst = queue[n].inst /\ queue[m].kind = "Queue"
      BY <3>2, <3>3 DEF Batch, OnlyQueueMessages
    <3>5. queue[n].inst \in Instance \ known
      BY <2>1, <3>2 DEF Candidates, TypeOK, RowRecord, HasContext
    <3>6. hist[queue[n].inst] = <<>> \/ Terminal(hist[queue[n].inst])
      BY <1>1, <3>5 DEF IndInv, Unstarted
    <3>7. QED
      BY <3>4, <3>6
  <2>3. CASE \E d \in Dispatcher : AckTerminal(d)
    <3>1. PICK d \in Dispatcher : AckTerminal(d)
      BY <2>3
    <3>2. LockValid(d) /\ pc[d] # "idle" /\ Terminal(item[d].snap)
      BY <3>1 DEF AckTerminal, Running
    <3>3. m \in Fetched(item[d].tok)
      BY <1>1, <3>1 DEF AckTerminal, Delete
    <3>4. QED
      BY <1>1, <3>2, <3>3, AckFacts
  <2>4. CASE \E d \in Dispatcher : Poison(d) \/ FailureAck(d)
                \/ \E kind \in {"turn", "completed"} : Commit(d, kind)
    <3>1. PICK d \in Dispatcher : Poison(d) \/ FailureAck(d)
                \/ \E kind \in {"turn", "completed"} : Commit(d, kind)
      BY <2>4
    <3>2. PICK kind \in {"turn", "completed", "failed"} : AckTurn(d, kind)
      BY <3>1 DEF Poison, FailureAck, Commit
    <3>3. pc[d] # "idle" /\ LockValid(d)
      BY <3>1, <3>2 DEF Poison, Poisoned, FailureAck, Commit, Running, AckTurn
    <3>4. DOMAIN queue \ Fetched(item[d].tok) \subseteq DOMAIN queue'
      BY <3>1 DEF Poison, FailureAck, Commit, Emits, AddRow, Delete
    <3>5. m \in Fetched(item[d].tok)
      BY <1>1, <3>4
    <3>6. /\ queue[m].inst = item[d].inst /\ item[d].inst \in Instance
          /\ item[d].rows = Fetched(item[d].tok)
      BY <1>1, <3>3, <3>5, AckFacts
    <3>7. hist[item[d].inst] \in Seq(Entry)
      BY <2>1, <3>6 DEF TypeOK
    <3>8. hist'[item[d].inst]
             = Append(hist[item[d].inst], [kind |-> kind, rows |-> Fetched(item[d].tok)])
      BY <2>1, <3>2, <3>6 DEF AckTurn, TypeOK
    <3>9. /\ Len(hist'[item[d].inst]) = Len(hist[item[d].inst]) + 1
          /\ hist'[item[d].inst][Len(hist[item[d].inst]) + 1].rows = Fetched(item[d].tok)
      BY <3>7, <3>8
    <3>10. QED
      BY <3>5, <3>6, <3>9
  <2>5. QED
    <3>1. CASE Next
      <4>1. ASSUME NEW i \in Instance, NEW kind \in Kind, Enqueue(i, kind) PROVE FALSE
        BY <1>1, <4>1 DEF Enqueue, AddRow
      <4>2. ASSUME NEW d \in Dispatcher, Fetch(d) PROVE FALSE
        BY <1>1, <4>2 DEF Fetch, Lease
      <4>3. ASSUME NEW d \in Dispatcher, VersionGate(d) \/ Release(d) PROVE FALSE
        BY <1>1, <4>3 DEF VersionGate, Release, Abandon
      <4>4. ASSUME NEW d \in Dispatcher,
                   PoisonRejected(d) \/ AckTerminalRejected(d) \/ FailureAckRejected(d)
                     \/ CommitRejected(d) \/ Crash(d) \/ Renew(d) \/ Stall(d)
            PROVE  FALSE
        BY <1>1, <4>4 DEF PoisonRejected, AckTerminalRejected, FailureAckRejected,
                          CommitRejected, Crash, Renew, Stall
      <4>5. ~Tick
        BY <1>1 DEF Tick
      <4>6. QED
        BY <2>2, <2>3, <2>4, <3>1, <4>1, <4>2, <4>3, <4>4, <4>5 DEF Next, Dispatch
    <3>2. CASE UNCHANGED vars
      BY <1>1, <3>2 DEF vars
    <3>3. QED
      BY <1>1, <3>1, <3>2
<1>2. IndInv /\ [Next]_vars =>
         [\A m \in (DOMAIN queue) \ (DOMAIN queue') : Accounted(m)]_vars
  BY <1>1
<1>3. QED
  BY <1>2, QueueInvariant, PTL DEF Spec, NoMessageLost

-----------------------------------------------------------------------------
(* The sleep leaves time to renew exactly when the lock is held for more   *)
(* than the minimum of one second and, where the buffer counts, there is   *)
(* one: then RenewalDue is a sound assumption.  With a lock timeout of one *)
(* second or less, or a buffer of zero with a long timeout, the renewal    *)
(* comes when the lock has expired, whatever else happens.                 *)
THEOREM RenewsInTime ==
  ASSUME NEW lock_timeout \in Nat, NEW buffer \in Nat
  PROVE  calculate_renewal_interval(lock_timeout, buffer) < lock_timeout <=>
           /\ lock_timeout > Second
           /\ lock_timeout >= 15 * Second => buffer > 0
<1>1. CASE lock_timeout >= 15 * Second
  <2>1. CASE buffer <= lock_timeout
    BY <1>1, <2>1 DEF calculate_renewal_interval, Most, Least, Second
  <2>2. CASE ~(buffer <= lock_timeout)
    BY <1>1, <2>2 DEF calculate_renewal_interval, Most, Least, Second
  <2>. QED BY <2>1, <2>2
<1>2. CASE ~(lock_timeout >= 15 * Second)
  <2>1. PICK h \in Int : h = (lock_timeout + 1999) \div 2000
    OBVIOUS
  <2>2. 2000 * h <= lock_timeout + 1999 /\ lock_timeout + 1999 < 2000 * (h + 1)
    BY <2>1
  <2>3. calculate_renewal_interval(lock_timeout, buffer) = Most(h * 1000, 1000)
    BY <1>2, <2>1 DEF calculate_renewal_interval, HalfRoundedUp, Second
  <2>4. CASE lock_timeout > 1000
    <3>1. h * 1000 < lock_timeout
      BY <2>2, <2>4
    <3>. QED BY <1>2, <2>3, <2>4, <3>1 DEF Most, Second
  <2>5. CASE ~(lock_timeout > 1000)
    BY <1>2, <2>3, <2>5 DEF Most, Second
  <2>. QED BY <2>4, <2>5
<1>. QED BY <1>1, <1>2
=============================================================================
