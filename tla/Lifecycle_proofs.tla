-------------------------- MODULE Lifecycle_proofs --------------------------
(***************************************************************************)
(* Theorems about the life of orchestration instances, for every set of    *)
(* instances, processes, sub-orchestrations and bounds: the types, that a  *)
(* completion finds its schedule open, that no activity outlives the       *)
(* execution that wants it, that a continuation is not lost and that a     *)
(* parent hears of the child it waits for.                                 *)
(***************************************************************************)
EXTENDS Lifecycle, Subsequence_proofs, SequenceTheorems

AnyRow == [to : Instance, msg : Message, hide : Pending..MaxFaults]

----------------------------------------------------------------------------
(* Types. *)

(* The bounds and what is made of them. *)
LEMMA BoundFacts ==
    /\ MaxExec \in Nat \ {0} /\ MaxFaults \in Nat /\ MaxData \in Nat /\ MaxCarry \in Nat
    /\ 1 \in Exec /\ Exec \subseteq Nat \ {0} /\ 0..MaxExec = Exec \cup {0}
    /\ CallId \subseteq Nat \ {0} /\ NoInstance \notin Instance
    /\ \A i \in Instance : MaxCalls[i] \in Nat /\ 1..MaxCalls[i] \subseteq CallId
    /\ Pending = -1 /\ 0 \in Pending..MaxFaults /\ Pending \in Pending..MaxFaults
<1>1. MaxExec \in Nat \ {0} /\ MaxFaults \in Nat /\ MaxData \in Nat /\ MaxCarry \in Nat
      /\ NoInstance \notin Instance
  BY LifecycleAssumption
<1>2. \A i \in Instance : MaxCalls[i] \in Nat
  BY LifecycleAssumption
<1>3. CallId \subseteq Nat \ {0} /\ \A i \in Instance : 1..MaxCalls[i] \subseteq CallId
  BY <1>2 DEF CallId
<1>4. 1 \in Exec /\ Exec \subseteq Nat \ {0} /\ 0..MaxExec = Exec \cup {0}
  BY <1>1 DEF Exec
<1>5. Pending = -1 /\ 0 \in Pending..MaxFaults /\ Pending \in Pending..MaxFaults
  BY <1>1 DEF Pending
<1> QED BY <1>1, <1>2, <1>3, <1>4, <1>5

(* What a work item of each type carries. *)
LEMMA MessageFacts ==
    ASSUME NEW m \in Message
    PROVE  /\ m.type \in {"start", "can", "done", "queue", "cancel"}
           /\ m.type = "start" => m.link \in Link /\ m = Start(m.link)
           /\ m.type = "can" => m.carry \in Seq(Data) /\ m.idle \in Nat
           /\ m.type = "done" => /\ m.kind \in CallKind /\ m.exec \in Exec /\ m.id \in CallId
                                 /\ m.res \in {"ok", "app", "sys"}
           /\ m.type = "queue" => m.data \in Data
BY DEF Message, Start

(* The work items that are made are work items. *)
LEMMA MessageTypes ==
    /\ \A l \in Link : Start(l) \in Message /\ Start(l).type = "start" /\ Start(l).link = l
    /\ \A c \in Seq(Data), n \in Nat :
          LET m == ContinueAsNew(c, n)
          IN  m \in Message /\ m.type = "can" /\ m.carry = c /\ m.idle = n
    /\ \A kind \in CallKind, e \in Exec, k \in CallId, res \in {"ok", "app", "sys"}, f \in Exec :
          LET m == Done(kind, e, k, res, f)
          IN  /\ m \in Message /\ m.type = "done" /\ m.kind = kind /\ m.exec = e /\ m.id = k
              /\ m.res = res
    /\ \A d \in Data : /\ QueueMessage(d) \in Message /\ QueueMessage(d).type = "queue"
                       /\ QueueMessage(d).data = d
    /\ CancelInstance \in Message /\ CancelInstance.type = "cancel"
<1>1. \A l \in Link : Start(l) \in Message /\ Start(l).type = "start" /\ Start(l).link = l
  BY DEF Message, Start
<1>2. \A c \in Seq(Data), n \in Nat :
          LET m == ContinueAsNew(c, n)
          IN  m \in Message /\ m.type = "can" /\ m.carry = c /\ m.idle = n
  BY DEF Message, ContinueAsNew
<1>3. \A kind \in CallKind, e \in Exec, k \in CallId, res \in {"ok", "app", "sys"}, f \in Exec :
          LET m == Done(kind, e, k, res, f)
          IN  /\ m \in Message /\ m.type = "done" /\ m.kind = kind /\ m.exec = e /\ m.id = k
              /\ m.res = res
  BY DEF Message, Done
<1>4. \A d \in Data : /\ QueueMessage(d) \in Message /\ QueueMessage(d).type = "queue"
                      /\ QueueMessage(d).data = d
  BY DEF Message, QueueMessage
<1>5. CancelInstance \in Message /\ CancelInstance.type = "cancel"
  BY DEF Message, CancelInstance
<1> QED BY <1>1, <1>2, <1>3, <1>4, <1>5

(* A row belongs to its addressee. *)
LEMMA RowFacts ==
    ASSUME NEW i \in Instance, NEW m \in Message, NEW h \in Pending..MaxFaults
    PROVE  /\ Row(i, m, h) \in Rows(i) /\ Row(i, m, h) \in AnyRow
           /\ Row(i, m, h).to = i /\ Row(i, m, h).msg = m /\ Row(i, m, h).hide = h
BY DEF Row, Rows, AnyRow

(* The same row, in all the inboxes or in that of its addressee. *)
LEMMA AnyRowFacts ==
    /\ \A i \in Instance : Rows(i) \subseteq AnyRow
    /\ \A i \in Instance : \A row \in Rows(i) : row.to = i /\ row.msg \in Message
    /\ \A row \in AnyRow : row \in Rows(row.to) /\ row.to \in Instance /\ row.msg \in Message
BY DEF Rows, AnyRow

(* A fresh execution. *)
LEMMA FreshFacts ==
    ASSUME NEW e \in 0..MaxExec, NEW l \in Link,
           NEW st \in {"none", "running", "completed", "failed", "continued"}
    PROVE  /\ Fresh(e, st, l) \in Execution
           /\ Fresh(e, st, l).exec = e /\ Fresh(e, st, l).status = st /\ Fresh(e, st, l).link = l
           /\ Fresh(e, st, l).calls = <<>> /\ Fresh(e, st, l).arrived = <<>>
           /\ Fresh(e, st, l).taken = 0 /\ Fresh(e, st, l).waiting = 0
BY DEF Fresh, Execution

----------------------------------------------------------------------------
(* Inboxes: what a step deletes from them, keeps and adds. *)

(* The rows that a turn on the first n rows of i's inbox fetches. *)
BatchRows(i, n) == {k \in 1..n : inbox[i][k].hide = 0}

(* The inbox of j after a step: the messages that are not gone and those   *)
(* of `out' that are sent to j, each once.                                 *)
Moved(j, gone, out) ==
    \E org \in [DOMAIN inbox'[j] -> Int] :
        /\ \A k \in DOMAIN inbox'[j] :
              \/ /\ org[k] \in DOMAIN inbox[j] \ gone
                 /\ inbox'[j][k].msg = inbox[j][org[k]].msg
              \/ /\ -org[k] \in DOMAIN out /\ out[-org[k]].to = j
                 /\ inbox'[j][k].msg = out[-org[k]].msg
        /\ \A k, l \in DOMAIN inbox'[j] : org[k] = org[l] => k = l
        /\ \A l \in DOMAIN inbox[j] \ gone :
              \E k \in DOMAIN inbox'[j] : org[k] = l /\ inbox'[j][k].msg = inbox[j][l].msg
        /\ \A l \in DOMAIN out : out[l].to = j =>
              \E k \in DOMAIN inbox'[j] : org[k] = -l /\ inbox'[j][k].msg = out[l].msg

(* A batch consists of the fetched rows. *)
LEMMA BatchFacts ==
    ASSUME TypeOK, NEW i \in Instance, NEW n \in old[i]..Len(inbox[i])
    PROVE  /\ n \in Nat /\ BatchRows(i, n) \subseteq DOMAIN inbox[i]
           /\ Enumerated(BatchRows(i, n)) /\ Batch(i, n) = Pick(inbox[i], BatchRows(i, n))
           /\ Batch(i, n) \in Seq(Rows(i))
           /\ \A k \in DOMAIN Batch(i, n) :
                 \E l \in BatchRows(i, n) : Batch(i, n)[k] = inbox[i][l]
           /\ \A l \in BatchRows(i, n) :
                 \E k \in DOMAIN Batch(i, n) : Batch(i, n)[k] = inbox[i][l]
<1>1. inbox[i] \in Seq(Rows(i)) /\ old[i] \in Nat
  BY DEF TypeOK
<1>2. n \in Nat /\ BatchRows(i, n) \subseteq DOMAIN inbox[i]
  BY <1>1 DEF BatchRows
<1>3. Batch(i, n) = Pick(inbox[i], BatchRows(i, n))
  BY DEF Batch, BatchRows
<1>4. Enumerated(BatchRows(i, n))
  <2>1. BatchRows(i, n) \in SUBSET (1..n)
    BY DEF BatchRows
  <2> QED BY <1>2, <2>1, PlaceFacts
<1>5. Batch(i, n) \in Seq(Rows(i))
  <2>1. \A k \in BatchRows(i, n) : inbox[i][k] \in Rows(i)
    BY <1>1, <1>2
  <2> QED BY <1>3, <1>4, <2>1, PickType
<1>6. /\ DOMAIN Batch(i, n) = 1..Cardinality(BatchRows(i, n))
      /\ \A m \in 1..Cardinality(BatchRows(i, n)) :
            Batch(i, n)[m] = inbox[i][Place(BatchRows(i, n), m)]
  <2>1. /\ DOMAIN Pick(inbox[i], BatchRows(i, n)) = 1..Cardinality(BatchRows(i, n))
        /\ \A m \in 1..Cardinality(BatchRows(i, n)) :
              Pick(inbox[i], BatchRows(i, n))[m] = inbox[i][Place(BatchRows(i, n), m)]
    BY <1>4, PickFacts
  <2> QED BY <1>3, <2>1
<1>7. /\ \A k \in DOMAIN Batch(i, n) :
            \E l \in BatchRows(i, n) : Batch(i, n)[k] = inbox[i][l]
      /\ \A l \in BatchRows(i, n) :
            \E k \in DOMAIN Batch(i, n) : Batch(i, n)[k] = inbox[i][l]
  BY <1>4, <1>6 DEF Enumerated
<1> QED BY <1>2, <1>3, <1>4, <1>5, <1>7

(* ack_orchestration_item deletes the batch of i and inserts `out'. *)
LEMMA AckMoves ==
    ASSUME TypeOK, NEW i \in Instance, NEW n \in old[i]..Len(inbox[i]),
           NEW out \in Seq(AnyRow), Ack(i, n, out), NEW j \in Instance
    PROVE  /\ Moved(j, IF j = i THEN BatchRows(i, n) ELSE {}, out)
           /\ inbox'[j] \in Seq(Rows(j))
<1> DEFINE K == IF j = i THEN (DOMAIN inbox[j]) \ BatchRows(i, n) ELSE DOMAIN inbox[j]
           O == {k \in DOMAIN out : out[k].to = j}
<1>1. inbox[j] \in Seq(Rows(j)) /\ inbox[j] \in Seq(AnyRow) /\ inbox[i] \in Seq(Rows(i))
  BY AnyRowFacts DEF TypeOK
<1>2. (IF j = i THEN Rest(i, n) ELSE inbox[j]) = Pick(inbox[j], K)
  <2>1. CASE j = i
    <3>1. {k \in DOMAIN inbox[i] : k > n \/ inbox[i][k].hide # 0}
            = (DOMAIN inbox[i]) \ BatchRows(i, n)
      <4>1. n \in Nat /\ DOMAIN inbox[i] \subseteq Nat \ {0}
        BY <1>1, BatchFacts
      <4> QED BY <4>1 DEF BatchRows
    <3> QED BY <2>1, <3>1 DEF Rest
  <2>2. CASE j # i
    BY <1>1, <2>2, PickAll
  <2> QED BY <2>1, <2>2
<1>3. inbox'[j] = Pick(inbox[j], K) \o Pick(out, O)
  BY <1>2 DEF Ack
<1>4. K \in SUBSET DOMAIN inbox[j] /\ O \in SUBSET DOMAIN out
  OBVIOUS
<1>4a. K = DOMAIN inbox[j] \ (IF j = i THEN BatchRows(i, n) ELSE {})
  OBVIOUS
<1> HIDE DEF K, O
<1>5. Joined(inbox'[j], inbox[j], K, out, O)
  BY <1>1, <1>3, <1>4, JoinFacts
<1>6. inbox'[j] \in Seq(AnyRow)
  BY <1>1, <1>3, <1>4, JoinFacts
<1>7. \A k \in DOMAIN inbox'[j] : inbox'[j][k].to = j
  <2>1. \A k \in DOMAIN inbox[j] : inbox[j][k].to = j
    BY <1>1, AnyRowFacts
  <2> QED BY <1>4, <1>5, <2>1 DEF O, Joined
<1>8. inbox'[j] \in Seq(Rows(j))
  <2>1. \A k \in DOMAIN inbox'[j] : inbox'[j][k] \in Rows(j)
    BY <1>6, <1>7, AnyRowFacts
  <2> QED BY <1>6, <2>1
<1>9. PICK org \in [DOMAIN inbox'[j] -> Int] :
        /\ \A k \in DOMAIN inbox'[j] :
              \/ org[k] \in K /\ inbox'[j][k] = inbox[j][org[k]]
              \/ -org[k] \in O /\ inbox'[j][k] = out[-org[k]]
        /\ \A k, l \in DOMAIN inbox'[j] : org[k] = org[l] => k = l
        /\ \A k \in K : \E l \in DOMAIN inbox'[j] : org[l] = k /\ inbox'[j][l] = inbox[j][k]
        /\ \A k \in O : \E l \in DOMAIN inbox'[j] : org[l] = -k /\ inbox'[j][l] = out[k]
  BY <1>5 DEF Joined
<1>10. /\ \A k \in DOMAIN inbox'[j] :
             \/ org[k] \in K /\ inbox'[j][k].msg = inbox[j][org[k]].msg
             \/ /\ -org[k] \in DOMAIN out /\ out[-org[k]].to = j
                /\ inbox'[j][k].msg = out[-org[k]].msg
       /\ \A k \in K :
             \E l \in DOMAIN inbox'[j] : org[l] = k /\ inbox'[j][l].msg = inbox[j][k].msg
       /\ \A k \in DOMAIN out : out[k].to = j =>
             \E l \in DOMAIN inbox'[j] : org[l] = -k /\ inbox'[j][l].msg = out[k].msg
  BY <1>9 DEF O
<1>11. Moved(j, IF j = i THEN BatchRows(i, n) ELSE {}, out)
  BY <1>4a, <1>9, <1>10 DEF Moved
<1> QED BY <1>8, <1>11

(* A message is added to the inbox of i. *)
LEMMA EnqueueMoves ==
    ASSUME TypeOK, NEW i \in Instance, NEW m \in Message, Enqueue(i, m), NEW j \in Instance
    PROVE  /\ Moved(j, {}, <<Row(i, m, 0)>>)
           /\ inbox'[j] \in Seq(Rows(j))
<1> DEFINE row == Row(i, m, 0)
           L == Len(inbox[j])
<1>1. inbox[j] \in Seq(Rows(j)) /\ DOMAIN inbox = Instance /\ L \in Nat /\ DOMAIN inbox[j] = 1..L
  BY DEF TypeOK
<1>2. row \in Rows(i) /\ row.to = i /\ row.msg = m
  BY BoundFacts, RowFacts
<1>3. <<row>>[1] = row /\ DOMAIN <<row>> = {1}
  OBVIOUS
<1> HIDE DEF row
<1>4. CASE j = i
  <2> DEFINE org == [k \in 1..(L + 1) |-> IF k <= L THEN k ELSE -1]
  <2>1. inbox'[j] = Append(inbox[j], row)
    BY <1>1, <1>4 DEF Enqueue, row
  <2>2. /\ inbox'[j] \in Seq(Rows(j)) /\ DOMAIN inbox'[j] = 1..(L + 1)
        /\ \A k \in 1..L : inbox'[j][k] = inbox[j][k]
        /\ inbox'[j][L + 1] = row
    BY <1>1, <1>2, <1>4, <2>1
  <2>3. /\ org \in [DOMAIN inbox'[j] -> Int]
        /\ \A k \in 1..L : org[k] = k
        /\ org[L + 1] = -1
    BY <1>1, <2>2
  <2> HIDE DEF org, L
  <2>4. \A k \in DOMAIN inbox'[j] :
              \/ /\ org[k] \in DOMAIN inbox[j] \ {}
                 /\ inbox'[j][k].msg = inbox[j][org[k]].msg
              \/ /\ -org[k] \in DOMAIN <<row>> /\ <<row>>[-org[k]].to = j
                 /\ inbox'[j][k].msg = <<row>>[-org[k]].msg
    <3> SUFFICES ASSUME NEW k \in DOMAIN inbox'[j]
                 PROVE  \/ /\ org[k] \in DOMAIN inbox[j] \ {}
                           /\ inbox'[j][k].msg = inbox[j][org[k]].msg
                        \/ /\ -org[k] \in DOMAIN <<row>> /\ <<row>>[-org[k]].to = j
                           /\ inbox'[j][k].msg = <<row>>[-org[k]].msg
      OBVIOUS
    <3>1. k \in 1..L \/ k = L + 1
      BY <1>1, <2>2
    <3>2. CASE k \in 1..L
      BY <1>1, <2>2, <2>3, <3>2
    <3>3. CASE k = L + 1
      <4>1. -org[k] = 1
        BY <2>3, <3>3
      <4> QED BY <1>2, <1>3, <1>4, <2>2, <3>3, <4>1
    <3> QED BY <3>1, <3>2, <3>3
  <2>5. \A k, l \in DOMAIN inbox'[j] : org[k] = org[l] => k = l
    BY <1>1, <2>2, <2>3
  <2>6. \A l \in DOMAIN inbox[j] \ {} :
           \E k \in DOMAIN inbox'[j] : org[k] = l /\ inbox'[j][k].msg = inbox[j][l].msg
    <3> SUFFICES ASSUME NEW l \in 1..L
                 PROVE  l \in DOMAIN inbox'[j] /\ org[l] = l /\ inbox'[j][l] = inbox[j][l]
      BY <1>1
    <3> QED BY <1>1, <2>2, <2>3
  <2>7. \A l \in DOMAIN <<row>> : <<row>>[l].to = j =>
           \E k \in DOMAIN inbox'[j] : org[k] = -l /\ inbox'[j][k].msg = <<row>>[l].msg
    BY <1>1, <1>3, <2>2, <2>3
  <2>8. Moved(j, {}, <<row>>)
    BY <2>3, <2>4, <2>5, <2>6, <2>7 DEF Moved
  <2> QED BY <2>2, <2>8 DEF row
<1>5. CASE j # i
  <2> DEFINE org == [k \in 1..L |-> k]
  <2>1. inbox'[j] = inbox[j]
    BY <1>1, <1>5 DEF Enqueue
  <2>2. org \in [DOMAIN inbox'[j] -> Int] /\ \A k \in 1..L : org[k] = k
    BY <1>1, <2>1
  <2> HIDE DEF org, L
  <2>3. Moved(j, {}, <<row>>)
    BY <1>1, <1>2, <1>3, <1>5, <2>1, <2>2 DEF Moved
  <2> QED BY <1>1, <2>1, <2>3 DEF row
<1> QED BY <1>4, <1>5

(* Rows are hidden or appear: no message comes or goes. *)
LEMMA StillMoves ==
    ASSUME NEW j, NEW L \in Nat, DOMAIN inbox[j] = 1..L, DOMAIN inbox'[j] = 1..L,
           \A k \in 1..L : inbox'[j][k].msg = inbox[j][k].msg
    PROVE  Moved(j, {}, <<>>)
<1> DEFINE org == [k \in 1..L |-> k]
<1>1. org \in [DOMAIN inbox'[j] -> Int] /\ \A k \in 1..L : org[k] = k
  OBVIOUS
<1>2. DOMAIN <<>> = {}
  OBVIOUS
<1> HIDE DEF org
<1> QED BY <1>1, <1>2 DEF Moved

(* The messages after a step are those that were not deleted and those     *)
(* that were added.                                                        *)
LEMMA MovedMessages ==
    ASSUME NEW j, NEW gone, NEW out, Moved(j, gone, out)
    PROVE  /\ \A m \in Messages(j)' :
                 \/ \E l \in DOMAIN inbox[j] \ gone : inbox[j][l].msg = m
                 \/ \E l \in DOMAIN out : out[l].to = j /\ out[l].msg = m
           /\ \A l \in DOMAIN inbox[j] \ gone : inbox[j][l].msg \in Messages(j)'
           /\ \A l \in DOMAIN out : out[l].to = j => out[l].msg \in Messages(j)'
<1>1. PICK org \in [DOMAIN inbox'[j] -> Int] :
        /\ \A k \in DOMAIN inbox'[j] :
              \/ /\ org[k] \in DOMAIN inbox[j] \ gone
                 /\ inbox'[j][k].msg = inbox[j][org[k]].msg
              \/ /\ -org[k] \in DOMAIN out /\ out[-org[k]].to = j
                 /\ inbox'[j][k].msg = out[-org[k]].msg
        /\ \A l \in DOMAIN inbox[j] \ gone :
              \E k \in DOMAIN inbox'[j] : org[k] = l /\ inbox'[j][k].msg = inbox[j][l].msg
        /\ \A l \in DOMAIN out : out[l].to = j =>
              \E k \in DOMAIN inbox'[j] : org[k] = -l /\ inbox'[j][k].msg = out[l].msg
  BY DEF Moved
<1>2. \A m \in Messages(j)' :
         \/ \E l \in DOMAIN inbox[j] \ gone : inbox[j][l].msg = m
         \/ \E l \in DOMAIN out : out[l].to = j /\ out[l].msg = m
  BY <1>1 DEF Messages
<1>3. ASSUME NEW l \in DOMAIN inbox[j] \ gone PROVE inbox[j][l].msg \in Messages(j)'
  BY <1>1 DEF Messages
<1>4. ASSUME NEW l \in DOMAIN out, out[l].to = j PROVE out[l].msg \in Messages(j)'
  BY <1>1, <1>4 DEF Messages
<1> QED BY <1>2, <1>3, <1>4

----------------------------------------------------------------------------
(* What a batch does to an execution. *)

(* The rows of one type. *)
LEMMA RowsOfFacts ==
    ASSUME NEW i \in Instance, NEW b \in Seq(Rows(i)), NEW type
    PROVE  LET K == {k \in DOMAIN b : b[k].msg.type = type}
               rows == RowsOf(b, type)
           IN  /\ Enumerated(K) /\ rows \in Seq(Rows(i)) /\ Len(rows) = Cardinality(K)
               /\ \A n \in 1..Len(rows) : Place(K, n) \in K /\ rows[n] = b[Place(K, n)]
               /\ \A n \in DOMAIN rows : rows[n].msg.type = type /\ rows[n].msg \in Message
               /\ Has(b, type) <=> rows # <<>>
               /\ Has(b, type) => 1 \in DOMAIN rows
<1> DEFINE K == {k \in DOMAIN b : b[k].msg.type = type}
           rows == Pick(b, K)
<1>1. K \in SUBSET (1..Len(b)) /\ Len(b) \in Nat
  OBVIOUS
<1>2. Enumerated(K)
  BY <1>1, PlaceFacts
<1>3. rows \in Seq(Rows(i))
  <2>1. \A k \in K : b[k] \in Rows(i)
    OBVIOUS
  <2> QED BY <1>2, <2>1, PickType
<1>4. Has(b, type) <=> K # {}
  BY DEF Has
<1>5. \A k \in K : b[k].msg.type = type /\ b[k].msg \in Message
  <2>1. \A k \in K : b[k] \in Rows(i)
    OBVIOUS
  <2> QED BY <2>1, AnyRowFacts
<1>6. rows = RowsOf(b, type)
  BY DEF RowsOf
<1> HIDE DEF K, rows
<1>7. rows = <<>> <=> K = {}
  BY <1>2, PickEmpty DEF rows
<1>8. Len(rows) = Cardinality(K) /\ \A n \in 1..Cardinality(K) : rows[n] = b[Place(K, n)]
  BY <1>2, PickFacts DEF rows
<1>9. \A n \in 1..Len(rows) : Place(K, n) \in K /\ rows[n] = b[Place(K, n)]
  BY <1>2, <1>8 DEF Enumerated
<1>10. DOMAIN rows = 1..Len(rows) /\ (rows # <<>> => 1 \in DOMAIN rows)
  BY <1>3
<1>11. \A n \in DOMAIN rows : rows[n].msg.type = type /\ rows[n].msg \in Message
  BY <1>5, <1>9, <1>10
<1> QED BY <1>2, <1>3, <1>4, <1>6, <1>7, <1>8, <1>9, <1>10, <1>11 DEF K

(* The queue messages of a batch, and those a ContinueAsNew carries. *)
LEMMA ArrivalTypes ==
    ASSUME NEW i \in Instance, NEW b \in Seq(Rows(i))
    PROVE  Arrivals(b) \in Seq(Data) /\ Carried(b) \in Seq(Data)
<1>1. Arrivals(b) \in Seq(Data)
  <2> DEFINE rows == RowsOf(b, "queue")
  <2>1. /\ rows \in Seq(Rows(i))
        /\ \A n \in DOMAIN rows : rows[n].msg.type = "queue" /\ rows[n].msg \in Message
    BY RowsOfFacts
  <2>2. \A n \in DOMAIN rows : rows[n].msg.data \in Data
    BY <2>1, MessageFacts
  <2>3. DOMAIN rows = 1..Len(rows) /\ Len(rows) \in Nat
    BY <2>1
  <2> QED BY <2>2, <2>3 DEF Arrivals
<1>2. Carried(b) \in Seq(Data)
  <2>1. CASE IsContinueAsNew(b)
    <3>1. Has(b, "can")
      BY <2>1 DEF IsContinueAsNew, Has
    <3>2. 1 \in DOMAIN RowsOf(b, "can")
      BY <3>1, RowsOfFacts
    <3>3. RowsOf(b, "can")[1].msg.type = "can" /\ RowsOf(b, "can")[1].msg \in Message
      BY <3>2, RowsOfFacts
    <3>4. RowsOf(b, "can")[1].msg.carry \in Seq(Data)
      BY <3>3, MessageFacts
    <3> QED BY <2>1, <3>4 DEF Carried
  <2>2. CASE ~IsContinueAsNew(b)
    BY <2>2 DEF Carried
  <2> QED BY <2>1, <2>2
<1> QED BY <1>1, <1>2

(* The completions that become events are in the batch, and of this        *)
(* execution.                                                              *)
LEMMA MaterializedFacts ==
    ASSUME NEW x, NEW i \in Instance, NEW b \in Seq(Rows(i)), NEW m \in Materialized(x, b)
    PROVE  /\ m.type = "done" /\ m.exec = x.exec /\ m \in Message
           /\ \E k \in DOMAIN b : b[k].msg = m
<1>1. \A k \in DOMAIN b : b[k].msg \in Message
  BY AnyRowFacts
<1> QED BY <1>1 DEF Materialized, Answers, Considered, IsForCurrentExecution

(* Completions change nothing but the results of their calls. *)
LEMMA ResolvedFacts ==
    ASSUME NEW x \in Execution, NEW i \in Instance, NEW b \in Seq(Rows(i))
    PROVE  /\ Resolved(x, b) \in Seq(Call) /\ Len(Resolved(x, b)) = Len(x.calls)
           /\ DOMAIN Resolved(x, b) = DOMAIN x.calls
           /\ \A k \in DOMAIN x.calls :
                 /\ Resolved(x, b)[k].kind = x.calls[k].kind
                 /\ Resolved(x, b)[k].dropped = x.calls[k].dropped
                 /\ \/ Resolved(x, b)[k].res = x.calls[k].res
                    \/ \E m \in Materialized(x, b) : m.id = k /\ ~Unexpected(x, m)
                 /\ \A m \in Materialized(x, b) :
                       m.id = k /\ ~Unexpected(x, m) => Resolved(x, b)[k].res # "none"
<1>1. x.calls \in Seq(Call)
  BY DEF Execution
<1>2. DOMAIN x.calls = 1..Len(x.calls) /\ Len(x.calls) \in Nat
  BY <1>1
<1>3. \A k \in DOMAIN x.calls : x.calls[k] \in Call
  BY <1>1
<1> DEFINE ms(k) == {m \in Materialized(x, b) : m.id = k /\ ~Unexpected(x, m)}
           r(k) == Outcome(CHOOSE m \in ms(k) : TRUE)
<1>4. \A k \in DOMAIN x.calls :
         Resolved(x, b)[k] = IF ms(k) = {} THEN x.calls[k] ELSE [x.calls[k] EXCEPT !.res = r(k)]
  BY DEF Resolved
<1>5. \A k : r(k) \in {"ok", "err"}
  BY DEF Outcome
<1> HIDE DEF r
<1>6. \A c \in Call, y \in {"ok", "err"} :
         LET d == [c EXCEPT !.res = y]
         IN  d \in Call /\ d.kind = c.kind /\ d.dropped = c.dropped /\ d.res = y /\ d.res # "none"
  BY DEF Call
<1>7. DOMAIN Resolved(x, b) = DOMAIN x.calls
  BY DEF Resolved
<1>8. ASSUME NEW k \in DOMAIN x.calls
      PROVE  /\ Resolved(x, b)[k] \in Call
             /\ Resolved(x, b)[k].kind = x.calls[k].kind
             /\ Resolved(x, b)[k].dropped = x.calls[k].dropped
             /\ Resolved(x, b)[k].res = x.calls[k].res \/ ms(k) # {}
             /\ ms(k) # {} => Resolved(x, b)[k].res # "none"
  <2> HIDE DEF ms
  <2>1. x.calls[k] \in Call /\ r(k) \in {"ok", "err"}
    BY <1>3, <1>5
  <2>2. CASE ms(k) = {}
    BY <1>4, <2>1, <2>2
  <2>3. CASE ms(k) # {}
    <3>1. Resolved(x, b)[k] = [x.calls[k] EXCEPT !.res = r(k)]
      BY <1>4, <2>3
    <3> DEFINE d == [x.calls[k] EXCEPT !.res = r(k)]
    <3>2. /\ d \in Call /\ d.kind = x.calls[k].kind /\ d.dropped = x.calls[k].dropped
          /\ d.res # "none"
      BY <1>6, <2>1
    <3> HIDE DEF d
    <3>3. Resolved(x, b)[k] = d
      BY <3>1 DEF d
    <3> QED BY <2>3, <3>2, <3>3
  <2> QED BY <2>2, <2>3
<1>9. Resolved(x, b) \in Seq(Call) /\ Len(Resolved(x, b)) = Len(x.calls)
  <2>1. Resolved(x, b) = [k \in 1..Len(x.calls) |-> Resolved(x, b)[k]]
    BY <1>2 DEF Resolved
  <2>2. \A k \in 1..Len(x.calls) : Resolved(x, b)[k] \in Call
    BY <1>2, <1>8
  <2> HIDE DEF ms
  <2> QED BY <1>2, <2>1, <2>2
<1> QED BY <1>7, <1>8, <1>9

(* The execution with the messages of a batch. *)
LEMMA AppliedFacts ==
    ASSUME NEW x \in Execution, NEW i \in Instance, NEW b \in Seq(Rows(i))
    PROVE  LET y == Applied(x, b)
           IN  /\ y \in Execution
               /\ y.exec = x.exec /\ y.status = x.status /\ y.link = x.link
               /\ y.taken = x.taken /\ y.waiting = x.waiting
               /\ y.calls = Resolved(x, b)
               /\ y.arrived = (x.arrived \o Carried(b)) \o Arrivals(b)
<1>1. Resolved(x, b) \in Seq(Call) /\ Arrivals(b) \in Seq(Data) /\ Carried(b) \in Seq(Data)
  BY ResolvedFacts, ArrivalTypes
<1>2. x.arrived \in Seq(Data)
  BY DEF Execution
<1>3. (x.arrived \o Carried(b)) \o Arrivals(b) \in Seq(Data)
  BY <1>1, <1>2
<1> DEFINE a == (x.arrived \o Carried(b)) \o Arrivals(b)
           c == x.cancel \/ Has(b, "cancel")
           r == Resolved(x, b)
<1>4. Applied(x, b) = [x EXCEPT !.calls = r, !.arrived = a, !.cancel = c]
  BY DEF Applied
<1>5. c \in BOOLEAN /\ a \in Seq(Data) /\ r \in Seq(Call)
  BY <1>1, <1>3
<1> HIDE DEF a, c, r
<1> QED BY <1>4, <1>5 DEF Execution, a, r

----------------------------------------------------------------------------
(* What the code does to an execution. *)

(* z is y with more calls, which are new, and otherwise the same. *)
Extends(i, y, z) ==
    /\ z \in Execution
    /\ z.exec = y.exec /\ z.status = y.status /\ z.link = y.link
    /\ z.arrived = y.arrived /\ z.taken = y.taken /\ z.waiting = y.waiting
    /\ Len(y.calls) <= Len(z.calls) /\ Len(z.calls) <= MaxCalls[i]
    /\ \A k \in DOMAIN y.calls : k \in DOMAIN z.calls /\ z.calls[k] = y.calls[k]
    /\ \A k \in DOMAIN z.calls \ DOMAIN y.calls :
          /\ z.calls[k].res = "none" /\ ~z.calls[k].dropped
          /\ z.calls[k].kind = "child" => <<i, k>> \in DOMAIN Child

(* Scheduling extends the execution. *)
LEMMA ScheduledFacts ==
    ASSUME NEW i \in Instance, NEW y \in Execution, Len(y.calls) <= MaxCalls[i],
           NEW z \in Scheduled(i, y)
    PROVE  Extends(i, y, z)
<1>1. y.calls \in Seq(Call) /\ Len(y.calls) \in Nat /\ DOMAIN y.calls = 1..Len(y.calls)
  BY DEF Execution
<1>2. MaxCalls[i] \in Nat /\ Kinds[i] \subseteq CallKind
  BY LifecycleAssumption DEF CallKind
<1>3a. PICK n \in Len(y.calls)..MaxCalls[i] :
         \E kind \in {f \in [(Len(y.calls) + 1)..n -> Kinds[i]] :
                         \A k \in DOMAIN f : f[k] = "child" => <<i, k>> \in DOMAIN Child} :
            z = [y EXCEPT !.calls = [k \in 1..n |->
                   IF k \in DOMAIN kind
                     THEN [kind |-> kind[k], dropped |-> FALSE, res |-> "none"]
                     ELSE y.calls[k]]]
  BY DEF Scheduled
<1>3. PICK kind \in {f \in [(Len(y.calls) + 1)..n -> Kinds[i]] :
                        \A k \in DOMAIN f : f[k] = "child" => <<i, k>> \in DOMAIN Child} :
         z = [y EXCEPT !.calls = [k \in 1..n |->
                IF k \in DOMAIN kind
                  THEN [kind |-> kind[k], dropped |-> FALSE, res |-> "none"]
                  ELSE y.calls[k]]]
  BY <1>3a
<1> DEFINE cs == [k \in 1..n |->
                     IF k \in DOMAIN kind
                       THEN [kind |-> kind[k], dropped |-> FALSE, res |-> "none"]
                       ELSE y.calls[k]]
<1>4. n \in Nat /\ DOMAIN kind = (Len(y.calls) + 1)..n
  BY <1>1, <1>2
<1>5. \A k \in 1..n : IF k <= Len(y.calls) THEN k \in DOMAIN y.calls /\ k \notin DOMAIN kind
                                           ELSE k \in DOMAIN kind
  BY <1>1, <1>4
<1>6. \A k \in DOMAIN kind : /\ kind[k] \in CallKind
                             /\ kind[k] = "child" => <<i, k>> \in DOMAIN Child
  BY <1>2
<1>7. ASSUME NEW k \in 1..n, ~(k <= Len(y.calls))
      PROVE  /\ cs[k] \in Call /\ cs[k].res = "none" /\ ~cs[k].dropped
             /\ cs[k].kind = "child" => <<i, k>> \in DOMAIN Child
  <2>1. k \in DOMAIN kind /\ kind[k] \in CallKind
    BY <1>5, <1>6, <1>7
  <2>2. cs[k] = [kind |-> kind[k], dropped |-> FALSE, res |-> "none"]
    BY <2>1
  <2> QED BY <1>6, <2>1, <2>2 DEF Call
<1>8. ASSUME NEW k \in 1..n, k <= Len(y.calls) PROVE cs[k] = y.calls[k] /\ cs[k] \in Call
  BY <1>1, <1>5, <1>8
<1>9. cs \in Seq(Call) /\ Len(cs) = n /\ DOMAIN cs = 1..n
  <2>1. \A k \in 1..n : cs[k] \in Call
    BY <1>7, <1>8
  <2>2. cs = [k \in 1..n |-> cs[k]]
    OBVIOUS
  <2> HIDE DEF cs
  <2> QED BY <1>4, <2>1, <2>2
<1>10. z = [y EXCEPT !.calls = cs]
  BY <1>3
<1> HIDE DEF cs
<1>11. /\ z \in Execution /\ z.calls = cs
       /\ z.exec = y.exec /\ z.status = y.status /\ z.link = y.link
       /\ z.arrived = y.arrived /\ z.taken = y.taken /\ z.waiting = y.waiting
  BY <1>9, <1>10 DEF Execution
<1>12. Len(y.calls) <= Len(z.calls) /\ Len(z.calls) <= MaxCalls[i]
  BY <1>1, <1>2, <1>9, <1>11
<1>13. \A k \in DOMAIN y.calls : k \in DOMAIN z.calls /\ z.calls[k] = y.calls[k]
  <2> SUFFICES ASSUME NEW k \in DOMAIN y.calls PROVE k \in 1..n /\ cs[k] = y.calls[k]
    BY <1>9, <1>11
  <2>1. k \in 1..n /\ k <= Len(y.calls)
    BY <1>1, <1>4
  <2> QED BY <1>8, <2>1
<1>14. \A k \in DOMAIN z.calls \ DOMAIN y.calls :
          /\ z.calls[k].res = "none" /\ ~z.calls[k].dropped
          /\ z.calls[k].kind = "child" => <<i, k>> \in DOMAIN Child
  <2> SUFFICES ASSUME NEW k \in 1..n, k \notin DOMAIN y.calls PROVE ~(k <= Len(y.calls))
    BY <1>7, <1>9, <1>11
  <2> QED BY <1>1
<1> QED BY <1>11, <1>12, <1>13, <1>14 DEF Extends

(* Dequeuing takes messages that have arrived. *)
LEMMA DequeuedFacts ==
    ASSUME NEW i \in Instance, NEW y \in Execution, y.taken <= Len(y.arrived),
           NEW z \in Dequeued(i, y)
    PROVE  /\ z \in Execution
           /\ z.exec = y.exec /\ z.status = y.status /\ z.link = y.link
           /\ z.calls = y.calls /\ z.arrived = y.arrived
           /\ y.taken <= z.taken /\ z.taken <= Len(z.arrived)
<1>1. y.taken \in Nat /\ Len(y.arrived) \in Nat
  BY DEF Execution
<1>2. PICK n \in y.taken..Len(y.arrived), w \in 0..MaxWaits[i] :
        z = [y EXCEPT !.taken = n, !.waiting = w]
  BY DEF Dequeued
<1>3. n \in Nat /\ y.taken <= n /\ n <= Len(y.arrived) /\ w \in Nat
  BY <1>1, LifecycleAssumption
<1>4. /\ z \in Execution /\ z.taken = n
      /\ z.exec = y.exec /\ z.status = y.status /\ z.link = y.link
      /\ z.calls = y.calls /\ z.arrived = y.arrived
  BY <1>2, <1>3 DEF Execution
<1> QED BY <1>3, <1>4

(* Dropping a future changes nothing else. *)
LEMMA DropFacts ==
    ASSUME NEW z \in Execution, NEW D \in SUBSET DOMAIN z.calls
    PROVE  LET u == Drop(z, D)
           IN  /\ u \in Execution
               /\ u.exec = z.exec /\ u.status = z.status /\ u.link = z.link
               /\ u.arrived = z.arrived /\ u.taken = z.taken /\ u.waiting = z.waiting
               /\ DOMAIN u.calls = DOMAIN z.calls /\ Len(u.calls) = Len(z.calls)
               /\ \A k \in DOMAIN z.calls :
                     /\ u.calls[k].kind = z.calls[k].kind /\ u.calls[k].res = z.calls[k].res
                     /\ k \notin D => u.calls[k] = z.calls[k]
                     /\ k \in D => u.calls[k].dropped
<1>1. z.calls \in Seq(Call) /\ Len(z.calls) \in Nat /\ DOMAIN z.calls = 1..Len(z.calls)
  BY DEF Execution
<1> DEFINE cs == [k \in DOMAIN z.calls |->
                     IF k \in D THEN [z.calls[k] EXCEPT !.dropped = TRUE] ELSE z.calls[k]]
<1>2. \A c \in Call : LET d == [c EXCEPT !.dropped = TRUE]
                      IN  d \in Call /\ d.kind = c.kind /\ d.res = c.res /\ d.dropped
  BY DEF Call
<1>3. ASSUME NEW k \in DOMAIN z.calls
      PROVE  /\ cs[k] \in Call
             /\ cs[k].kind = z.calls[k].kind /\ cs[k].res = z.calls[k].res
             /\ k \notin D => cs[k] = z.calls[k]
             /\ k \in D => cs[k].dropped
  <2>1. z.calls[k] \in Call
    BY <1>1
  <2>2. CASE k \in D
    <3> DEFINE d == [z.calls[k] EXCEPT !.dropped = TRUE]
    <3>1. d \in Call /\ d.kind = z.calls[k].kind /\ d.res = z.calls[k].res /\ d.dropped
      BY <1>2, <2>1
    <3>2. cs[k] = d
      BY <2>2
    <3> HIDE DEF d, cs
    <3> QED BY <2>2, <3>1, <3>2
  <2>3. CASE k \notin D
    BY <2>1, <2>3
  <2> QED BY <2>2, <2>3
<1>4. Drop(z, D) = [z EXCEPT !.calls = cs]
  BY DEF Drop
<1>5. cs \in Seq(Call) /\ DOMAIN cs = DOMAIN z.calls /\ Len(cs) = Len(z.calls)
  <2>1. cs = [k \in 1..Len(z.calls) |-> cs[k]] /\ DOMAIN cs = DOMAIN z.calls
    BY <1>1
  <2>2. \A k \in 1..Len(z.calls) : cs[k] \in Call
    BY <1>1, <1>3
  <2> HIDE DEF cs
  <2> QED BY <1>1, <2>1, <2>2
<1> HIDE DEF cs
<1>6. LET u == Drop(z, D)
      IN  /\ u \in Execution /\ u.calls = cs
          /\ u.exec = z.exec /\ u.status = z.status /\ u.link = z.link
          /\ u.arrived = z.arrived /\ u.taken = z.taken /\ u.waiting = z.waiting
  BY <1>4, <1>5 DEF Execution
<1> QED BY <1>3, <1>5, <1>6

----------------------------------------------------------------------------
(* The inductive invariant. *)

(* A completion of an activity or of a timer. *)
Own(m) == m.type = "done" /\ m.kind # "child"

(* There is one continuation at most, and one completion of each call. *)
Twins(l, m) ==
    \/ l.type = "can" /\ m.type = "can"
    \/ Own(l) /\ Own(m) /\ l.kind = m.kind /\ l.exec = m.exec /\ l.id = m.id

NoTwins(i) ==
    \A j, k \in DOMAIN inbox[i] : j # k => ~Twins(inbox[i][j].msg, inbox[i][k].msg)

(* A continuation is pending only for an execution that has ended. *)
Continuation(i) ==
    \A m \in Messages(i) : m.type = "can" =>
        inst[i].status \notin {"none", "running"} /\ inst[i].exec < MaxExec

OpenCall(x, k, kind) ==
    k \in DOMAIN x.calls /\ x.calls[k].kind = kind /\ x.calls[k].res = "none"

(* A completion is of an earlier execution, or of an open call. *)
AnswersOpen(i) ==
    \A m \in Messages(i) : Own(m) =>
        /\ m.exec <= inst[i].exec
        /\ m.exec = inst[i].exec /\ inst[i].status = "running" => OpenCall(inst[i], m.id, m.kind)

ChildrenNamed(i) ==
    \A k \in DOMAIN inst[i].calls :
        inst[i].calls[k].kind = "child" => <<i, k>> \in DOMAIN Child

(* An activity in the worker queue is wanted, and has not been completed. *)
Wanted(a) ==
    /\ \/ a[1] \in abrupt
       \/ /\ inst[a[1]].status = "running" /\ inst[a[1]].exec = a[2]
          /\ a[3] \in Outstanding(inst[a[1]]) /\ inst[a[1]].calls[a[3]].kind = "activity"
    /\ a[2] <= inst[a[1]].exec
    /\ \A m \in Messages(a[1]) :
          ~(m.type = "done" /\ m.kind = "activity" /\ m.exec = a[2] /\ m.id = a[3])

LifeInv ==
    /\ TypeOK
    /\ \A i \in Instance : NoTwins(i) /\ Continuation(i) /\ AnswersOpen(i) /\ ChildrenNamed(i)
    /\ \A a \in work : Wanted(a)
    /\ \A i \in abrupt : inst[i].status = "failed"

(* The execution that a turn is about: the current one, or the next one,   *)
(* whose messages are all in the batch or still to come.                   *)
LEMMA BeforeFacts ==
    ASSUME LifeInv, NEW i \in Instance, NEW n \in old[i]..Len(inbox[i]), Turn(i, n)
    PROVE  LET x == Before(i, n)
           IN  /\ x \in Execution /\ x.status = "running" /\ x.exec \in Exec
               /\ Len(x.calls) <= MaxCalls[i] /\ x.taken <= Len(x.arrived)
               /\ \A k \in DOMAIN x.calls : x.calls[k].kind = "child" => <<i, k>> \in DOMAIN Child
               /\ \/ inst[i].status = "running" /\ x = inst[i] /\ ~IsContinueAsNew(Batch(i, n))
                  \/ /\ inst[i].status \in {"none", "continued"} /\ x.exec = inst[i].exec + 1
                     /\ x.calls = <<>> /\ x.arrived = <<>> /\ x.taken = 0
               /\ \A l \in DOMAIN inbox[i] \ BatchRows(i, n) : inbox[i][l].msg.type # "can"
<1> DEFINE b == Batch(i, n)
           x == Before(i, n)
           K == BatchRows(i, n)
<1>0. TypeOK /\ NoTwins(i) /\ Continuation(i) /\ ChildrenNamed(i)
  BY DEF LifeInv
<1>1. /\ inst[i] \in Execution /\ (inst[i].status = "none" <=> inst[i].exec = 0)
      /\ Len(inst[i].calls) <= MaxCalls[i] /\ inst[i].taken <= Len(inst[i].arrived)
  BY <1>0 DEF TypeOK
<1>2. /\ b \in Seq(Rows(i)) /\ K \subseteq DOMAIN inbox[i]
      /\ \A k \in DOMAIN b : \E l \in K : b[k] = inbox[i][l]
  BY <1>0, BatchFacts
<1>3. \A k \in DOMAIN b : b[k].msg \in Messages(i)
  BY <1>2 DEF Messages
<1>4. /\ Deliverable(i, b) /\ ~Ended(i, b)
      /\ x = IF IsContinueAsNew(b) THEN Fresh(inst[i].exec + 1, "running", NoLink)
             ELSE IF inst[i].status = "none" THEN Fresh(1, "running", RowsOf(b, "start")[1].msg.link)
             ELSE inst[i]
  BY DEF Turn, Before, Open
<1> HIDE DEF b, x, K
<1>5. inst[i].status \in {"none", "running", "completed", "failed", "continued"}
      /\ inst[i].exec \in 0..MaxExec
  BY <1>1 DEF Execution
<1>6. IsContinueAsNew(b) => inst[i].status \notin {"none", "running"} /\ inst[i].exec < MaxExec
  BY <1>0, <1>3 DEF IsContinueAsNew, Continuation
<1>7. CASE inst[i].status = "running"
  <2>1. x = inst[i] /\ ~IsContinueAsNew(b)
    BY <1>4, <1>6, <1>7
  <2>2. inst[i].exec \in Exec
    BY <1>1, <1>5, <1>7, BoundFacts
  <2>3. \A l \in DOMAIN inbox[i] \ K : inbox[i][l].msg.type # "can"
    BY <1>0, <1>7 DEF Continuation, Messages
  <2> QED BY <1>0, <1>1, <1>7, <2>1, <2>2, <2>3 DEF ChildrenNamed, x, b, K
<1>8. CASE inst[i].status \in {"none", "continued"}
  <2>1. \A l \in DOMAIN inbox[i] \ K : inbox[i][l].msg.type # "can"
    <3>1. CASE inst[i].status = "none"
      BY <1>0, <3>1 DEF Continuation, Messages
    <3>2. CASE inst[i].status = "continued"
      <4>1. PICK k \in DOMAIN b : b[k].msg.type = "can"
        BY <1>4, <3>2 DEF Ended, IsContinueAsNew
      <4>2. PICK l \in K : inbox[i][l].msg.type = "can"
        BY <1>2, <4>1
      <4> QED BY <1>0, <1>2, <4>2 DEF NoTwins, Twins
    <3> QED BY <1>8, <3>1, <3>2
  <2>2. \E e \in Exec, l \in Link : x = Fresh(e, "running", l) /\ e = inst[i].exec + 1
    <3>1. CASE inst[i].status = "none"
      <4>1. ~IsContinueAsNew(b) /\ ~Has(b, "can")
        BY <1>0, <1>3, <1>6, <3>1 DEF Has, Continuation
      <4>2. Has(b, "start")
        BY <1>4, <3>1, <4>1 DEF Deliverable
      <4>3. 1 \in DOMAIN RowsOf(b, "start")
        BY <1>2, <4>2, RowsOfFacts
      <4>4. RowsOf(b, "start")[1].msg.type = "start" /\ RowsOf(b, "start")[1].msg \in Message
        BY <1>2, <4>3, RowsOfFacts
      <4>5. RowsOf(b, "start")[1].msg.link \in Link
        BY <4>4, MessageFacts
      <4>6. inst[i].exec = 0 /\ 1 \in Exec
        BY <1>1, <3>1, BoundFacts
      <4> QED BY <1>4, <3>1, <4>1, <4>5, <4>6
    <3>2. CASE inst[i].status = "continued"
      <4>1. IsContinueAsNew(b)
        BY <1>4, <3>2 DEF Ended
      <4>2. inst[i].exec + 1 \in Exec
        BY <1>5, <1>6, <4>1, BoundFacts DEF Exec
      <4>3. NoLink \in Link
        BY DEF Link
      <4> QED BY <1>4, <4>1, <4>2, <4>3
    <3> QED BY <1>8, <3>1, <3>2
  <2>3. PICK e \in Exec, l \in Link : x = Fresh(e, "running", l) /\ e = inst[i].exec + 1
    BY <2>2
  <2>4. /\ x \in Execution /\ x.exec = e /\ x.status = "running"
        /\ x.calls = <<>> /\ x.arrived = <<>> /\ x.taken = 0
    <3>1. e \in 0..MaxExec
      BY BoundFacts
    <3> QED BY <2>3, <3>1, FreshFacts
  <2>5. Len(x.calls) <= MaxCalls[i] /\ x.taken <= Len(x.arrived) /\ DOMAIN x.calls = {}
    <3>1. Len(x.calls) = 0 /\ Len(x.arrived) = 0 /\ DOMAIN x.calls = {}
      BY <2>4
    <3> QED BY <2>4, <3>1, BoundFacts
  <2> QED BY <1>8, <2>1, <2>3, <2>4, <2>5 DEF x, b, K
<1> QED BY <1>4, <1>5, <1>7, <1>8 DEF Ended

(* A row of the batch is a completion of call k of x. *)
Answered(i, n, x, k) ==
    \E l \in BatchRows(i, n) :
        /\ inbox[i][l].msg.type = "done" /\ inbox[i][l].msg.exec = x.exec
        /\ inbox[i][l].msg.id = k /\ inbox[i][l].msg.kind = x.calls[k].kind

(* The execution with its messages: a call gets its result from a          *)
(* completion in the batch.                                                *)
LEMMA AfterFacts ==
    ASSUME LifeInv, NEW i \in Instance, NEW n \in old[i]..Len(inbox[i]), Turn(i, n)
    PROVE  LET x == Before(i, n)
               y == After(i, n)
           IN  /\ y \in Execution /\ y.status = "running" /\ y.exec = x.exec /\ y.link = x.link
               /\ y.taken = x.taken /\ y.waiting = x.waiting /\ y.taken <= Len(y.arrived)
               /\ DOMAIN y.calls = DOMAIN x.calls /\ Len(y.calls) = Len(x.calls)
               /\ Len(y.calls) <= MaxCalls[i]
               /\ \A k \in DOMAIN y.calls :
                     /\ y.calls[k].kind = x.calls[k].kind /\ y.calls[k].dropped = x.calls[k].dropped
                     /\ y.calls[k].kind = "child" => <<i, k>> \in DOMAIN Child
                     /\ y.calls[k].res = x.calls[k].res \/ Answered(i, n, x, k)
<1> DEFINE b == Batch(i, n)
           x == Before(i, n)
           y == After(i, n)
<1>1. TypeOK /\ y = Applied(x, b)
  BY DEF LifeInv, After
<1>2. /\ b \in Seq(Rows(i))
      /\ \A k \in DOMAIN b : \E l \in BatchRows(i, n) : b[k] = inbox[i][l]
  BY <1>1, BatchFacts
<1>3. /\ x \in Execution /\ x.status = "running"
      /\ Len(x.calls) <= MaxCalls[i] /\ x.taken <= Len(x.arrived)
      /\ \A k \in DOMAIN x.calls : x.calls[k].kind = "child" => <<i, k>> \in DOMAIN Child
  BY BeforeFacts
<1> HIDE DEF b, x, y
<1>4. /\ y \in Execution
      /\ y.exec = x.exec /\ y.status = x.status /\ y.link = x.link
      /\ y.taken = x.taken /\ y.waiting = x.waiting
      /\ y.calls = Resolved(x, b)
      /\ y.arrived = (x.arrived \o Carried(b)) \o Arrivals(b)
  BY <1>1, <1>2, <1>3, AppliedFacts
<1>5. /\ DOMAIN y.calls = DOMAIN x.calls /\ Len(y.calls) = Len(x.calls)
      /\ \A k \in DOMAIN x.calls :
            /\ y.calls[k].kind = x.calls[k].kind
            /\ y.calls[k].dropped = x.calls[k].dropped
            /\ \/ y.calls[k].res = x.calls[k].res
               \/ \E m \in Materialized(x, b) : m.id = k /\ ~Unexpected(x, m)
  BY <1>2, <1>3, <1>4, ResolvedFacts
<1>6. y.taken <= Len(y.arrived)
  <2>1. x.arrived \in Seq(Data) /\ Carried(b) \in Seq(Data) /\ Arrivals(b) \in Seq(Data)
    BY <1>2, <1>3, ArrivalTypes DEF Execution
  <2>2. Len(y.arrived) = Len(x.arrived) + Len(Carried(b)) + Len(Arrivals(b))
    BY <1>4, <2>1
  <2>3. Len(x.arrived) \in Nat /\ Len(Carried(b)) \in Nat /\ Len(Arrivals(b)) \in Nat /\ x.taken \in Nat
    BY <1>3, <2>1 DEF Execution
  <2> QED BY <1>3, <1>4, <2>2, <2>3
<1>7. ASSUME NEW k \in DOMAIN x.calls,
             \E m \in Materialized(x, b) : m.id = k /\ ~Unexpected(x, m)
      PROVE  Answered(i, n, x, k)
  <2>1. PICK m \in Materialized(x, b) : m.id = k /\ ~Unexpected(x, m)
    BY <1>7
  <2>2. m.type = "done" /\ m.exec = x.exec /\ \E q \in DOMAIN b : b[q].msg = m
    BY <1>2, MaterializedFacts
  <2>3. m.kind = x.calls[k].kind
    BY <2>1 DEF Unexpected
  <2>4. PICK l \in BatchRows(i, n) : inbox[i][l].msg = m
    BY <1>2, <2>2
  <2> QED BY <2>1, <2>2, <2>3, <2>4 DEF Answered
<1> QED BY <1>3, <1>4, <1>5, <1>6, <1>7 DEF x, y

----------------------------------------------------------------------------
(* What a turn sends. *)

(* A parent is told at most once, and by an answer of the kind "child". *)
LEMMA NotifyFacts ==
    ASSUME TypeOK, NEW r \in Runtime, NEW link \in Link, NEW res \in {"ok", "app", "sys"}
    PROVE  /\ Notify(r, link, res) \in Seq(AnyRow)
           /\ \A k \in DOMAIN Notify(r, link, res) :
                 /\ Notify(r, link, res)[k].msg.type = "done"
                 /\ Notify(r, link, res)[k].msg.kind = "child"
           /\ link.inst # NoInstance =>
                 /\ 1 \in DOMAIN Notify(r, link, res)
                 /\ Notify(r, link, res)[1].to = link.inst
                 /\ Notify(r, link, res)[1].msg.id = link.id
                 /\ Notify(r, link, res)[1].msg.exec = ExecutionId(r, link.inst)
<1>1. CASE link.inst = NoInstance
  <2>1. Notify(r, link, res) = <<>>
    BY <1>1 DEF Notify
  <2> QED BY <1>1, <2>1
<1>2. CASE link.inst # NoInstance
  <2> DEFINE m == Done("child", ExecutionId(r, link.inst), link.id, res, link.from)
             row == Row(link.inst, m, 0)
  <2>1. link \in [inst : Instance, id : CallId, from : Exec]
    BY <1>2 DEF Link, NoLink
  <2>2. link.inst \in Instance /\ link.id \in CallId /\ link.from \in Exec
    BY <2>1
  <2>3. ExecutionId(r, link.inst) \in Exec
    <3>1. tracked[r][link.inst] \in 0..MaxExec
      BY <2>2 DEF TypeOK
    <3> QED BY <3>1, BoundFacts DEF ExecutionId
  <2>4. /\ m \in Message /\ m.type = "done" /\ m.kind = "child"
        /\ m.id = link.id /\ m.exec = ExecutionId(r, link.inst)
    BY <2>2, <2>3, MessageTypes DEF CallKind
  <2> HIDE DEF m
  <2>5. row \in AnyRow /\ row.to = link.inst /\ row.msg = m
    BY <2>2, <2>4, BoundFacts, RowFacts
  <2>6. Notify(r, link, res) = <<row>>
    BY <1>2 DEF Notify, m
  <2> HIDE DEF row
  <2>7. <<row>> \in Seq(AnyRow) /\ DOMAIN <<row>> = {1} /\ <<row>>[1] = row
    BY <2>5
  <2> QED BY <2>4, <2>5, <2>6, <2>7
<1> QED BY <1>1, <1>2

(* The children that are cancelled hear of it. *)
LEMMA CancelFacts ==
    ASSUME NEW i \in Instance, NEW z \in Execution, NEW D,
           \A k \in DOMAIN z.calls : z.calls[k].kind = "child" => <<i, k>> \in DOMAIN Child
    PROVE  /\ CancelChildren(i, z, D) \in Seq(AnyRow)
           /\ \A k \in DOMAIN CancelChildren(i, z, D) :
                 CancelChildren(i, z, D)[k].msg.type = "cancel"
<1> DEFINE K == {k \in DOMAIN z.calls : k \in D /\ z.calls[k].kind = "child"}
           s == [k \in DOMAIN z.calls |-> k]
           ids == Pick(s, K)
<1>1. Len(z.calls) \in Nat /\ DOMAIN z.calls = 1..Len(z.calls)
  BY DEF Execution
<1>2. Enumerated(K)
  <2>1. K \in SUBSET (1..Len(z.calls))
    BY <1>1
  <2> QED BY <1>1, <2>1, PlaceFacts
<1>3. \A k \in K : s[k] = k /\ Child[<<i, k>>] \in Instance
  BY LifecycleAssumption
<1>4. CancelChildren(i, z, D) = [n \in DOMAIN ids |-> Row(Child[<<i, ids[n]>>], CancelInstance, 0)]
  BY DEF CancelChildren
<1> HIDE DEF K, s
<1>5. ids \in Seq(K) /\ Len(ids) \in Nat /\ DOMAIN ids = 1..Len(ids)
  <2>1. ids \in Seq(K)
    BY <1>2, <1>3, PickType
  <2> QED BY <2>1
<1> HIDE DEF ids
<1>6. \A k \in K : LET row == Row(Child[<<i, k>>], CancelInstance, 0)
                   IN  row \in AnyRow /\ row.msg.type = "cancel"
  BY <1>3, BoundFacts, MessageTypes, RowFacts
<1>7. \A n \in 1..Len(ids) : ids[n] \in K
  BY <1>5
<1> QED BY <1>4, <1>5, <1>6, <1>7

(* The row of a new call: a timer, or the start of a child. *)
NewRow(i, z, k) ==
    IF z.calls[k].kind = "timer"
      THEN Row(i, Done("timer", z.exec, k, "ok", z.exec), Pending)
      ELSE Row(Child[<<i, k>>], Start([inst |-> i, id |-> k, from |-> z.exec]), 0)

NewCalls(y, z) ==
    {k \in DOMAIN z.calls \ DOMAIN y.calls : z.calls[k].kind # "activity"}

IsNewRow(i, z, k, row) ==
    /\ row \in AnyRow
    /\ z.calls[k].kind = "timer" =>
          /\ row.to = i /\ row.msg.type = "done" /\ row.msg.kind = "timer"
          /\ row.msg.exec = z.exec /\ row.msg.id = k
    /\ z.calls[k].kind # "timer" =>
          /\ z.calls[k].kind = "child" /\ <<i, k>> \in DOMAIN Child
          /\ row.to = Child[<<i, k>>]
          /\ row.msg = Start([inst |-> i, id |-> k, from |-> z.exec])
          /\ [inst |-> i, id |-> k, from |-> z.exec] \in Link
          /\ row.msg.type = "start"

(* What such a row is. *)
LEMMA NewRowFacts ==
    ASSUME NEW i \in Instance, NEW y \in Execution, NEW z, Extends(i, y, z), z.exec \in Exec,
           NEW k \in NewCalls(y, z)
    PROVE  IsNewRow(i, z, k, NewRow(i, z, k))
<1>1. /\ z \in Execution /\ k \in DOMAIN z.calls /\ z.calls[k].kind # "activity"
      /\ Len(z.calls) <= MaxCalls[i]
      /\ z.calls[k].kind = "child" => <<i, k>> \in DOMAIN Child
  BY DEF Extends, NewCalls
<1>2. k \in CallId /\ z.calls[k] \in Call
  <2>1. Len(z.calls) \in Nat /\ DOMAIN z.calls = 1..Len(z.calls) /\ z.calls \in Seq(Call)
    BY <1>1 DEF Execution
  <2>2. MaxCalls[i] \in Nat /\ 1..MaxCalls[i] \subseteq CallId
    BY BoundFacts
  <2>3. k \in 1..MaxCalls[i]
    BY <1>1, <2>1, <2>2
  <2> QED BY <1>1, <2>1, <2>2, <2>3
<1>3. z.calls[k].kind \in {"timer", "child"}
  BY <1>1, <1>2 DEF Call, CallKind
<1>4. CASE z.calls[k].kind = "timer"
  <2> DEFINE m == Done("timer", z.exec, k, "ok", z.exec)
  <2>1. m \in Message /\ m.type = "done" /\ m.kind = "timer" /\ m.exec = z.exec /\ m.id = k
    BY <1>2, MessageTypes DEF CallKind
  <2> HIDE DEF m
  <2>2. Row(i, m, Pending) \in AnyRow /\ Row(i, m, Pending).to = i /\ Row(i, m, Pending).msg = m
    BY <2>1, BoundFacts, RowFacts
  <2>3. NewRow(i, z, k) = Row(i, m, Pending)
    BY <1>4 DEF NewRow, m
  <2> QED BY <1>4, <2>1, <2>2, <2>3 DEF IsNewRow
<1>5. CASE z.calls[k].kind = "child"
  <2> DEFINE l == [inst |-> i, id |-> k, from |-> z.exec]
             c == Child[<<i, k>>]
  <2>1. c \in Instance
    BY <1>1, <1>5, LifecycleAssumption
  <2>2. l \in Link
    BY <1>2 DEF Link
  <2> HIDE DEF l, c
  <2>3. Start(l) \in Message /\ Start(l).type = "start"
    BY <2>2, MessageTypes
  <2>4. /\ Row(c, Start(l), 0) \in AnyRow /\ Row(c, Start(l), 0).to = c
        /\ Row(c, Start(l), 0).msg = Start(l)
    BY <2>1, <2>3, BoundFacts, RowFacts
  <2>5. NewRow(i, z, k) = Row(c, Start(l), 0)
    BY <1>5 DEF NewRow, c, l
  <2> QED BY <1>1, <1>5, <2>2, <2>3, <2>4, <2>5 DEF c, l, IsNewRow
<1> QED BY <1>3, <1>4, <1>5

(* One row for each new call that is not an activity. *)
Announced(out, i, y, z) ==
    \E f \in [DOMAIN out -> NewCalls(y, z)] :
        /\ \A n \in DOMAIN out : out[n] = NewRow(i, z, f[n])
        /\ \A m, n \in DOMAIN out : f[m] = f[n] => m = n
        /\ \A k \in NewCalls(y, z) : \E n \in DOMAIN out : f[n] = k

(* These are the rows that a turn inserts for its new calls. *)
LEMMA NewRowsFacts ==
    ASSUME NEW i \in Instance, NEW y \in Execution, NEW z, Extends(i, y, z), z.exec \in Exec
    PROVE  NewRows(i, y, z) \in Seq(AnyRow) /\ Announced(NewRows(i, y, z), i, y, z)
<1> DEFINE K == {k \in DOMAIN z.calls : k > Len(y.calls) /\ z.calls[k].kind # "activity"}
           s == [k \in DOMAIN z.calls |-> k]
           ids == Pick(s, K)
<1>1. /\ Len(z.calls) \in Nat /\ DOMAIN z.calls = 1..Len(z.calls)
      /\ Len(y.calls) \in Nat /\ DOMAIN y.calls = 1..Len(y.calls)
  BY DEF Extends, Execution
<1>2. K \in SUBSET (1..Len(z.calls))
  BY <1>1
<1>3. Enumerated(K)
  BY <1>1, <1>2, PlaceFacts
<1>4. K = NewCalls(y, z)
  BY <1>1 DEF NewCalls
<1>5. NewRows(i, y, z) = [n \in DOMAIN ids |-> NewRow(i, z, ids[n])]
  BY DEF NewRows, NewRow
<1>6. \A k \in K : s[k] = k
  OBVIOUS
<1> HIDE DEF K, s
<1>7. /\ Len(ids) = Cardinality(K) /\ DOMAIN ids = 1..Cardinality(K)
      /\ \A n \in 1..Cardinality(K) : ids[n] = s[Place(K, n)]
  BY <1>3, PickFacts
<1> HIDE DEF ids
<1>8. /\ Cardinality(K) \in Nat
      /\ \A n \in 1..Cardinality(K) : ids[n] \in K
      /\ \A m, n \in 1..Cardinality(K) : m < n => ids[m] < ids[n]
      /\ \A k \in K : \E n \in 1..Cardinality(K) : ids[n] = k
  <2>1. /\ Cardinality(K) \in Nat
        /\ \A n \in 1..Cardinality(K) : Place(K, n) \in K
        /\ \A m, n \in 1..Cardinality(K) : m < n => Place(K, m) < Place(K, n)
        /\ \A k \in K : \E n \in 1..Cardinality(K) : Place(K, n) = k
    BY <1>3 DEF Enumerated
  <2>2. \A n \in 1..Cardinality(K) : ids[n] = Place(K, n)
    BY <1>6, <1>7, <2>1
  <2> QED BY <2>1, <2>2
<1>9. K \subseteq Nat
  BY <1>3 DEF Enumerated
<1>10. \A m, n \in DOMAIN ids : ids[m] = ids[n] => m = n
  <2> SUFFICES ASSUME NEW m \in 1..Cardinality(K), NEW n \in 1..Cardinality(K), ids[m] = ids[n]
               PROVE  m = n
    BY <1>7
  <2>1. ids[m] \in Nat /\ ids[n] \in Nat
    BY <1>8, <1>9
  <2>2. ~(m < n) /\ ~(n < m)
    BY <1>8, <2>1
  <2> QED BY <1>8, <2>2
<1>11. \A k \in K : NewRow(i, z, k) \in AnyRow
  BY <1>4, NewRowFacts DEF IsNewRow
<1>12. NewRows(i, y, z) \in Seq(AnyRow)
  BY <1>5, <1>7, <1>8, <1>11
<1>13. DOMAIN NewRows(i, y, z) = DOMAIN ids
  BY <1>5
<1>14. Announced(NewRows(i, y, z), i, y, z)
  <2> DEFINE f == [n \in DOMAIN ids |-> ids[n]]
  <2>1. f \in [DOMAIN NewRows(i, y, z) -> NewCalls(y, z)] /\ \A n \in DOMAIN ids : f[n] = ids[n]
    BY <1>4, <1>7, <1>8, <1>13
  <2> HIDE DEF f
  <2>2. \A n \in DOMAIN NewRows(i, y, z) : NewRows(i, y, z)[n] = NewRow(i, z, f[n])
    BY <1>5, <1>13, <2>1
  <2>3. \A m, n \in DOMAIN NewRows(i, y, z) : f[m] = f[n] => m = n
    BY <1>10, <1>13, <2>1
  <2>4. \A k \in NewCalls(y, z) : \E n \in DOMAIN NewRows(i, y, z) : f[n] = k
    BY <1>4, <1>7, <1>8, <1>13, <2>1
  <2> QED BY <2>1, <2>2, <2>3, <2>4 DEF Announced
<1> QED BY <1>12, <1>14

----------------------------------------------------------------------------
(* How the parts of the invariant carry over a step. *)

(* A message that is no continuation and no completion of an own call. *)
Quiet(m) == m.type # "can" /\ ~Own(m)

(* The rows of `out' for j are such messages. *)
QuietTo(j, out) == \A k \in DOMAIN out : out[k].to = j => Quiet(out[k].msg)

(* No message of `out' for j repeats another one or one that was kept. *)
LEMMA MovedTwins ==
    ASSUME NEW j, NEW gone, NEW out, Moved(j, gone, out), NoTwins(j),
           \A k \in DOMAIN inbox[j] \ gone, l \in DOMAIN out :
              out[l].to = j => ~Twins(inbox[j][k].msg, out[l].msg),
           \A k, l \in DOMAIN out :
              k # l /\ out[k].to = j /\ out[l].to = j => ~Twins(out[k].msg, out[l].msg)
    PROVE  NoTwins(j)'
<1>1. PICK org \in [DOMAIN inbox'[j] -> Int] :
        /\ \A k \in DOMAIN inbox'[j] :
              \/ /\ org[k] \in DOMAIN inbox[j] \ gone
                 /\ inbox'[j][k].msg = inbox[j][org[k]].msg
              \/ /\ -org[k] \in DOMAIN out /\ out[-org[k]].to = j
                 /\ inbox'[j][k].msg = out[-org[k]].msg
        /\ \A k, l \in DOMAIN inbox'[j] : org[k] = org[l] => k = l
  BY DEF Moved
<1> SUFFICES ASSUME NEW k \in DOMAIN inbox'[j], NEW l \in DOMAIN inbox'[j], k # l
             PROVE  ~Twins(inbox'[j][k].msg, inbox'[j][l].msg)
  BY DEF NoTwins, Twins, Own
<1>2. org[k] \in Int /\ org[l] \in Int /\ org[k] # org[l]
  BY <1>1
<1>3. -org[k] # -org[l]
  BY <1>2
<1>4. \A a, b : Twins(a, b) => Twins(b, a)
  BY DEF Twins
<1>5. CASE org[k] \in DOMAIN inbox[j] \ gone /\ inbox'[j][k].msg = inbox[j][org[k]].msg
  <2>1. CASE org[l] \in DOMAIN inbox[j] \ gone /\ inbox'[j][l].msg = inbox[j][org[l]].msg
    BY <1>2, <1>5, <2>1 DEF NoTwins
  <2>2. CASE /\ -org[l] \in DOMAIN out /\ out[-org[l]].to = j
             /\ inbox'[j][l].msg = out[-org[l]].msg
    BY <1>5, <2>2
  <2> QED BY <1>1, <2>1, <2>2
<1>6. CASE /\ -org[k] \in DOMAIN out /\ out[-org[k]].to = j
           /\ inbox'[j][k].msg = out[-org[k]].msg
  <2>1. CASE org[l] \in DOMAIN inbox[j] \ gone /\ inbox'[j][l].msg = inbox[j][org[l]].msg
    BY <1>4, <1>6, <2>1
  <2>2. CASE /\ -org[l] \in DOMAIN out /\ out[-org[l]].to = j
             /\ inbox'[j][l].msg = out[-org[l]].msg
    BY <1>3, <1>6, <2>2
  <2> QED BY <1>1, <2>1, <2>2
<1> QED BY <1>1, <1>5, <1>6

(* Quiet messages repeat nothing. *)
LEMMA QuietTwins ==
    ASSUME NEW j, NEW gone, NEW out, Moved(j, gone, out), NoTwins(j), QuietTo(j, out)
    PROVE  NoTwins(j)'
<1>1. \A l, m : Quiet(m) => ~Twins(l, m)
  BY DEF Quiet, Twins
<1> QED BY <1>1, MovedTwins DEF QuietTo

(* After a step that adds only quiet messages, a continuation or an own    *)
(* completion was there before.                                            *)
LEMMA QuietMessages ==
    ASSUME NEW j, NEW gone, NEW out, Moved(j, gone, out), QuietTo(j, out),
           NEW m \in Messages(j)', ~Quiet(m)
    PROVE  \E l \in DOMAIN inbox[j] \ gone : inbox[j][l].msg = m
BY MovedMessages DEF QuietTo

(* The part of the invariant that is about one instance. *)
InstInv(i) == NoTwins(i) /\ Continuation(i) /\ AnswersOpen(i) /\ ChildrenNamed(i)

(* It survives a step that leaves the execution alone and sends the        *)
(* instance only quiet messages.                                           *)
LEMMA QuietFrame ==
    ASSUME NEW j, NEW gone, NEW out, Moved(j, gone, out), QuietTo(j, out),
           InstInv(j), inst'[j] = inst[j]
    PROVE  InstInv(j)'
<1>1. NoTwins(j)'
  BY QuietTwins DEF InstInv
<1>2. \A m \in Messages(j)' : ~Quiet(m) => m \in Messages(j)
  BY QuietMessages DEF Messages
<1>3. \A m : (m.type = "can" \/ Own(m)) => ~Quiet(m)
  BY DEF Quiet
<1>4. Continuation(j)'
  BY <1>2, <1>3 DEF InstInv, Continuation
<1>5. AnswersOpen(j)'
  BY <1>2, <1>3 DEF InstInv, AnswersOpen, OpenCall, Own
<1>6. ChildrenNamed(j)'
  BY DEF InstInv, ChildrenNamed
<1> QED BY <1>1, <1>4, <1>5, <1>6 DEF InstInv

(* An activity of an execution that a step leaves alone. *)
LEMMA WantedFrame ==
    ASSUME NEW a, Wanted(a), NEW gone, NEW out, Moved(a[1], gone, out),
           \A l \in DOMAIN out : out[l].to = a[1] =>
              ~(/\ out[l].msg.type = "done" /\ out[l].msg.kind = "activity"
                /\ out[l].msg.exec = a[2] /\ out[l].msg.id = a[3]),
           inst'[a[1]] = inst[a[1]] \/ (a[1] \in abrupt' /\ a[2] <= inst'[a[1]].exec),
           abrupt \subseteq abrupt'
    PROVE  Wanted(a)'
<1>1. \A m \in Messages(a[1])' :
         ~(m.type = "done" /\ m.kind = "activity" /\ m.exec = a[2] /\ m.id = a[3])
  <2> SUFFICES ASSUME NEW m \in Messages(a[1])'
               PROVE  ~(m.type = "done" /\ m.kind = "activity" /\ m.exec = a[2] /\ m.id = a[3])
    OBVIOUS
  <2>1. \/ \E l \in DOMAIN inbox[a[1]] \ gone : inbox[a[1]][l].msg = m
        \/ \E l \in DOMAIN out : out[l].to = a[1] /\ out[l].msg = m
    BY MovedMessages
  <2>2. CASE \E l \in DOMAIN inbox[a[1]] \ gone : inbox[a[1]][l].msg = m
    <3>1. m \in Messages(a[1])
      BY <2>2 DEF Messages
    <3> QED BY <3>1 DEF Wanted
  <2>3. CASE \E l \in DOMAIN out : out[l].to = a[1] /\ out[l].msg = m
    BY <2>3
  <2> QED BY <2>1, <2>2, <2>3
<1>2. /\ \/ a[1] \in abrupt'
         \/ /\ inst'[a[1]].status = "running" /\ inst'[a[1]].exec = a[2]
            /\ a[3] \in Outstanding(inst'[a[1]]) /\ inst'[a[1]].calls[a[3]].kind = "activity"
      /\ a[2] <= inst'[a[1]].exec
  BY DEF Wanted
<1> QED BY <1>1, <1>2 DEF Wanted, Outstanding

----------------------------------------------------------------------------
(* How the types carry over a step. *)

BoxOK ==
    /\ DOMAIN inbox = Instance /\ \A i \in Instance : inbox[i] \in Seq(Rows(i))
    /\ old \in [Instance -> Nat] /\ \A i \in Instance : old[i] <= Len(inbox[i])

InstOK(i, x) ==
    /\ x \in Execution
    /\ x.status = "none" <=> x.exec = 0
    /\ Len(x.calls) <= MaxCalls[i]
    /\ x.taken <= Len(x.arrived)

WorkOK == work \subseteq Instance \X Exec \X CallId

RestOK ==
    /\ tracked \in [Runtime -> [Instance -> 0..MaxExec]]
    /\ eaten \in [Instance -> Seq(Data)]
    /\ abrupt \subseteq Instance
    /\ starts \in 0..MaxStarts /\ sent \in 0..MaxData
    /\ cancels \in 0..MaxCancels /\ faults \in 0..MaxFaults

(* The parts of the type invariant. *)
LEMMA TypeParts ==
    TypeOK <=> /\ inst \in [Instance -> Execution] /\ \A i \in Instance : InstOK(i, inst[i])
               /\ BoxOK /\ WorkOK /\ RestOK
<1>1. TypeOK => /\ inst \in [Instance -> Execution] /\ \A i \in Instance : InstOK(i, inst[i])
                /\ BoxOK /\ WorkOK /\ RestOK
  <2> SUFFICES ASSUME TypeOK
               PROVE  /\ inst \in [Instance -> Execution]
                      /\ \A i \in Instance : InstOK(i, inst[i])
                      /\ BoxOK /\ WorkOK /\ RestOK
    OBVIOUS
  <2>1. inst \in [Instance -> Execution] /\ \A i \in Instance : InstOK(i, inst[i])
    BY DEF TypeOK, InstOK
  <2>2. BoxOK /\ WorkOK /\ RestOK
    BY DEF TypeOK, BoxOK, WorkOK, RestOK
  <2> QED BY <2>1, <2>2
<1>2. ASSUME inst \in [Instance -> Execution], \A i \in Instance : InstOK(i, inst[i]),
             BoxOK, WorkOK, RestOK
      PROVE  TypeOK
  BY <1>2 DEF TypeOK, InstOK, BoxOK, WorkOK, RestOK
<1> QED BY <1>1, <1>2

(* The inboxes after an ack, and what the next fetch will see of them. *)
LEMMA AckBox ==
    ASSUME TypeOK, NEW i \in Instance, NEW n \in old[i]..Len(inbox[i]),
           NEW out \in Seq(AnyRow), Ack(i, n, out)
    PROVE  BoxOK'
<1>1. DOMAIN inbox' = Instance /\ \A j \in Instance : inbox'[j] \in Seq(Rows(j))
  BY AckMoves DEF Ack
<1>2. /\ \A j \in Instance : inbox[j] \in Seq(Rows(j)) /\ old[j] <= Len(inbox[j])
      /\ old \in [Instance -> Nat]
  BY DEF TypeOK
<1>3. old' = [old EXCEPT ![i] = Len(inbox'[i])] /\ Len(inbox'[i]) \in Nat
  BY <1>1 DEF Ack
<1>4. old' \in [Instance -> Nat] /\ old'[i] = Len(inbox'[i])
  BY <1>2, <1>3
<1>5. ASSUME NEW j \in Instance, j # i PROVE old'[j] <= Len(inbox'[j])
  <2> DEFINE O == {k \in DOMAIN out : out[k].to = j}
  <2>1. inbox'[j] = inbox[j] \o Pick(out, O)
    BY <1>5 DEF Ack
  <2>2. Enumerated(O)
    <3>1. O \in SUBSET (1..Len(out)) /\ Len(out) \in Nat
      OBVIOUS
    <3> QED BY <3>1, PlaceFacts
  <2>3. Pick(out, O) \in Seq(AnyRow)
    <3>1. \A k \in O : out[k] \in AnyRow
      OBVIOUS
    <3> HIDE DEF O
    <3> QED BY <2>2, <3>1, PickType
  <2> HIDE DEF O
  <2>4. inbox[j] \in Seq(AnyRow)
    BY <1>2, AnyRowFacts
  <2>5. Len(inbox'[j]) = Len(inbox[j]) + Len(Pick(out, O))
    BY <2>1, <2>3, <2>4
  <2>6. Len(inbox[j]) \in Nat /\ Len(Pick(out, O)) \in Nat /\ old[j] \in Nat
    BY <1>2, <2>3
  <2>7. old'[j] = old[j]
    BY <1>2, <1>3, <1>5
  <2> QED BY <1>2, <2>5, <2>6, <2>7
<1>6. \A j \in Instance : old'[j] <= Len(inbox'[j])
  BY <1>3, <1>4, <1>5
<1> QED BY <1>1, <1>4, <1>6 DEF BoxOK

(* The inboxes after a message was added. *)
LEMMA EnqueueBox ==
    ASSUME TypeOK, NEW i \in Instance, NEW m \in Message, Enqueue(i, m), UNCHANGED old
    PROVE  BoxOK'
<1>1. DOMAIN inbox' = Instance /\ \A j \in Instance : inbox'[j] \in Seq(Rows(j))
  BY EnqueueMoves DEF Enqueue, TypeOK
<1>2. /\ \A j \in Instance : inbox[j] \in Seq(Rows(j)) /\ old[j] <= Len(inbox[j])
      /\ old \in [Instance -> Nat] /\ DOMAIN inbox = Instance
  BY DEF TypeOK
<1>3. \A j \in Instance : Len(inbox[j]) \in Nat /\ old[j] \in Nat
  BY <1>2
<1>4. Len(inbox'[i]) = Len(inbox[i]) + 1
  <2>1. Row(i, m, 0) \in Rows(i)
    BY BoundFacts, RowFacts
  <2>2. inbox'[i] = Append(inbox[i], Row(i, m, 0))
    BY <1>2 DEF Enqueue
  <2> QED BY <1>2, <2>1, <2>2
<1>5. \A j \in Instance : j # i => inbox'[j] = inbox[j]
  BY <1>2 DEF Enqueue
<1>6. \A j \in Instance : old[j] <= Len(inbox'[j])
  BY <1>2, <1>3, <1>4, <1>5
<1> QED BY <1>1, <1>2, <1>6 DEF BoxOK

(* One execution changes. *)
LEMMA InstUpdate ==
    ASSUME TypeOK, NEW i \in Instance, NEW u, InstOK(i, u), inst' = [inst EXCEPT ![i] = u]
    PROVE  /\ inst' \in [Instance -> Execution] /\ \A j \in Instance : InstOK(j, inst'[j])
           /\ inst'[i] = u /\ \A j \in Instance : j # i => inst'[j] = inst[j]
<1>1. inst \in [Instance -> Execution] /\ \A j \in Instance : InstOK(j, inst[j])
  BY TypeParts
<1>2. inst'[i] = u /\ \A j \in Instance : j # i => inst'[j] = inst[j]
  BY <1>1
<1>3. inst' \in [Instance -> Execution]
  BY <1>1 DEF InstOK
<1> QED BY <1>1, <1>2, <1>3

(* The type invariant after a step, from its parts. *)
LEMMA TypeNext ==
    ASSUME inst' \in [Instance -> Execution], \A i \in Instance : InstOK(i, inst'[i]),
           BoxOK', WorkOK', RestOK'
    PROVE  TypeOK'
BY DEF TypeOK, InstOK, BoxOK, WorkOK, RestOK

----------------------------------------------------------------------------
(* Turns after which the execution has ended. *)

(* Only the last turn of an execution sends a continuation, and nobody     *)
(* sends completions of own calls from it.                                 *)
FinalRows(i, n, e, out) ==
    /\ \A j \in Instance : j # i => QuietTo(j, out)
    /\ \/ QuietTo(i, out)
       \/ /\ DOMAIN out = {1} /\ ~Own(out[1].msg) /\ e < MaxExec
          /\ \A l \in DOMAIN inbox[i] \ BatchRows(i, n) : inbox[i][l].msg.type # "can"

(* The instances after a step in which the execution of i ends. *)
LEMMA EndedInstances ==
    ASSUME LifeInv, NEW i \in Instance, NEW n \in old[i]..Len(inbox[i]),
           NEW out \in Seq(AnyRow), Ack(i, n, out),
           NEW e \in Exec, inst[i].exec <= e, NEW l \in Link,
           NEW st \in {"completed", "failed", "continued"},
           inst' = [inst EXCEPT ![i] = Fresh(e, st, l)],
           FinalRows(i, n, e, out),
           \/ e = inst[i].exec
           \/ \A k \in DOMAIN inbox[i] \ BatchRows(i, n) : inbox[i][k].msg.type # "can"
    PROVE  /\ inst' \in [Instance -> Execution] /\ \A j \in Instance : InstOK(j, inst'[j])
           /\ inst'[i] = Fresh(e, st, l) /\ inst'[i].exec = e /\ inst'[i].status = st
           /\ \A j \in Instance : j # i => inst'[j] = inst[j]
           /\ \A j \in Instance : InstInv(j)'
<1>1. TypeOK /\ \A j \in Instance : InstInv(j)
  BY DEF LifeInv, InstInv
<1>2. e \in 0..MaxExec /\ e \in Nat \ {0} /\ MaxExec \in Nat /\ inst[i].exec \in Nat
  <2>1. inst[i].exec \in 0..MaxExec
    BY <1>1 DEF TypeOK, Execution
  <2> QED BY <2>1, BoundFacts
<1> DEFINE u == Fresh(e, st, l)
<1>3. /\ u \in Execution /\ u.exec = e /\ u.status = st /\ u.calls = <<>>
      /\ u.arrived = <<>> /\ u.taken = 0
  BY <1>2, FreshFacts
<1>4. inst' = [inst EXCEPT ![i] = u]
  OBVIOUS
<1> HIDE DEF u
<1>5. InstOK(i, u)
  <2>1. Len(u.calls) = 0 /\ Len(u.arrived) = 0
    BY <1>3
  <2>2. u.status # "none"
    BY <1>3
  <2> QED BY <1>2, <1>3, <2>1, <2>2, BoundFacts DEF InstOK
<1>6. /\ inst' \in [Instance -> Execution] /\ \A j \in Instance : InstOK(j, inst'[j])
      /\ inst'[i] = u /\ \A j \in Instance : j # i => inst'[j] = inst[j]
  BY <1>1, <1>4, <1>5, InstUpdate
<1>7. ASSUME NEW j \in Instance, j # i PROVE InstInv(j)'
  <2>1. Moved(j, {}, out)
    BY <1>1, <1>7, AckMoves
  <2>2. QuietTo(j, out)
    BY <1>7 DEF FinalRows
  <2> QED BY <1>1, <1>6, <1>7, <2>1, <2>2, QuietFrame
<1>8. Moved(i, BatchRows(i, n), out)
  BY <1>1, AckMoves
<1>9. \A m \in Messages(i)' : Own(m) => m \in Messages(i)
  <2> SUFFICES ASSUME NEW m \in Messages(i)', Own(m) PROVE m \in Messages(i)
    BY DEF Own
  <2>1. CASE QuietTo(i, out)
    BY <1>8, <2>1, QuietMessages DEF Quiet, Messages
  <2>2. CASE DOMAIN out = {1} /\ ~Own(out[1].msg)
    <3>1. \/ \E k \in DOMAIN inbox[i] \ BatchRows(i, n) : inbox[i][k].msg = m
          \/ \E k \in DOMAIN out : out[k].to = i /\ out[k].msg = m
      BY <1>8, MovedMessages
    <3>2. \E k \in DOMAIN inbox[i] : inbox[i][k].msg = m
      BY <2>2, <3>1
    <3> QED BY <3>2 DEF Messages
  <2> QED BY <2>1, <2>2 DEF FinalRows
<1>10. NoTwins(i)'
  <2>1. CASE QuietTo(i, out)
    BY <1>1, <1>8, <2>1, QuietTwins DEF InstInv
  <2>2. CASE /\ DOMAIN out = {1} /\ ~Own(out[1].msg)
             /\ \A k \in DOMAIN inbox[i] \ BatchRows(i, n) : inbox[i][k].msg.type # "can"
    BY <1>1, <1>8, <2>2, MovedTwins DEF InstInv, Twins
  <2> QED BY <2>1, <2>2 DEF FinalRows
<1>11. Continuation(i)'
  <2> SUFFICES ASSUME NEW m \in Messages(i)', m.type = "can" PROVE e < MaxExec
    BY <1>3, <1>6 DEF Continuation
  <2>1. CASE QuietTo(i, out)
    <3>1. PICK k \in DOMAIN inbox[i] \ BatchRows(i, n) : inbox[i][k].msg = m
      BY <1>8, <2>1, QuietMessages DEF Quiet
    <3>2. e = inst[i].exec /\ m \in Messages(i)
      BY <3>1 DEF Messages
    <3> QED BY <1>1, <3>2 DEF InstInv, Continuation
  <2>2. CASE e < MaxExec
    BY <2>2
  <2> QED BY <2>1, <2>2 DEF FinalRows
<1>12. AnswersOpen(i)'
  <2> SUFFICES ASSUME NEW m \in Messages(i)', Own(m) PROVE m.exec <= e
    BY <1>3, <1>6 DEF AnswersOpen, Own
  <2>1. m \in Messages(i) /\ m.exec <= inst[i].exec
    BY <1>1, <1>9 DEF InstInv, AnswersOpen
  <2>2. m \in Message
    <3>1. \A k \in DOMAIN inbox[i] : inbox[i][k] \in Rows(i)
      BY <1>1 DEF TypeOK
    <3> QED BY <2>1, <3>1, AnyRowFacts DEF Messages
  <2>3. m.exec \in Nat
    BY <2>2, MessageFacts, BoundFacts DEF Own
  <2> QED BY <1>2, <2>1, <2>3
<1>13. ChildrenNamed(i)'
  <2>1. DOMAIN u.calls = {}
    BY <1>3
  <2> QED BY <1>6, <2>1 DEF ChildrenNamed
<1>14. InstInv(i)'
  BY <1>10, <1>11, <1>12, <1>13 DEF InstInv
<1> QED BY <1>3, <1>6, <1>7, <1>14 DEF u

(* When a turn ends the execution of i, all its activities are withdrawn:  *)
(* an instance that takes a turn was not failed by the runtime, and a call *)
(* whose activity is still in the queue has no result yet.                 *)
LEMMA Withdrawn ==
    ASSUME LifeInv, NEW i \in Instance, NEW n \in old[i]..Len(inbox[i]), Turn(i, n),
           NEW z, z.exec = Before(i, n).exec,
           \A k \in DOMAIN After(i, n).calls :
              k \in DOMAIN z.calls /\ z.calls[k] = After(i, n).calls[k],
           NEW a \in work, a[1] = i
    PROVE  /\ inst[i].status = "running" /\ Before(i, n) = inst[i] /\ a[2] = z.exec
           /\ a[3] \in Outstanding(inst[i]) /\ a[3] \in Outstanding(After(i, n))
           /\ z.calls[a[3]].kind = "activity"
           /\ a \in Activities(i, z, Outstanding(z))
<1> DEFINE x == Before(i, n)
           y == After(i, n)
<1>1. Wanted(a) /\ a = <<a[1], a[2], a[3]>> /\ BatchRows(i, n) \subseteq DOMAIN inbox[i]
  <2>1. TypeOK /\ Wanted(a) /\ work \subseteq Instance \X Exec \X CallId
    BY DEF LifeInv, TypeOK
  <2> QED BY <2>1, BatchFacts
<1>2. \/ inst[i].status = "running" /\ x = inst[i]
      \/ inst[i].status \in {"none", "continued"}
  BY BeforeFacts
<1>3. i \notin abrupt
  BY <1>2 DEF LifeInv
<1>4. /\ inst[i].status = "running" /\ x = inst[i] /\ x.exec = a[2]
      /\ a[3] \in Outstanding(x) /\ x.calls[a[3]].kind = "activity"
      /\ \A m \in Messages(i) :
            ~(m.type = "done" /\ m.kind = "activity" /\ m.exec = a[2] /\ m.id = a[3])
  BY <1>1, <1>2, <1>3 DEF Wanted
<1> HIDE DEF x, y
<1>5. a[3] \in DOMAIN x.calls /\ x.calls[a[3]].res = "none" /\ ~x.calls[a[3]].dropped
  BY <1>4 DEF Outstanding
<1>6. DOMAIN y.calls = DOMAIN x.calls
  BY AfterFacts DEF x, y
<1>7. /\ y.calls[a[3]].kind = "activity" /\ ~y.calls[a[3]].dropped
      /\ y.calls[a[3]].res = x.calls[a[3]].res \/ Answered(i, n, x, a[3])
  <2>1. \A k \in DOMAIN y.calls :
           /\ y.calls[k].kind = x.calls[k].kind /\ y.calls[k].dropped = x.calls[k].dropped
           /\ y.calls[k].res = x.calls[k].res \/ Answered(i, n, x, k)
    BY AfterFacts DEF x, y
  <2> QED BY <1>4, <1>5, <1>6, <2>1
<1>8. y.calls[a[3]].res = "none"
  BY <1>1, <1>4, <1>5, <1>7 DEF Messages, Answered
<1>9. a[3] \in Outstanding(y) /\ a[3] \in DOMAIN y.calls
  BY <1>5, <1>6, <1>7, <1>8 DEF Outstanding
<1>10. a[3] \in Outstanding(z) /\ z.calls[a[3]].kind = "activity"
  BY <1>7, <1>8, <1>9 DEF Outstanding, y
<1>11. a[2] = z.exec
  BY <1>4 DEF x
<1>12. a \in Activities(i, z, Outstanding(z))
  BY <1>1, <1>10, <1>11 DEF Activities
<1> QED BY <1>4, <1>9, <1>10, <1>11, <1>12 DEF x, y

(* A turn that ends the execution. *)
LEMMA EndTurn ==
    ASSUME LifeInv, NEW i \in Instance, NEW n \in old[i]..Len(inbox[i]), Turn(i, n),
           NEW z \in Execution, z.exec = Before(i, n).exec,
           \A k \in DOMAIN After(i, n).calls :
              k \in DOMAIN z.calls /\ z.calls[k] = After(i, n).calls[k],
           NEW st \in {"completed", "failed", "continued"}, Terminate(i, z, st),
           NEW out \in Seq(AnyRow), Ack(i, n, out), FinalRows(i, n, z.exec, out),
           eaten' \in [Instance -> Seq(Data)],
           UNCHANGED <<tracked, abrupt, starts, sent, cancels, faults>>
    PROVE  LifeInv'
<1>1. TypeOK /\ WorkOK /\ RestOK
  BY TypeParts DEF LifeInv
<1>2. /\ z.exec \in Exec /\ z.link \in Link /\ inst[i].exec <= z.exec
      /\ inst[i].status \in {"none", "running", "continued"}
      /\ \/ z.exec = inst[i].exec
         \/ \A k \in DOMAIN inbox[i] \ BatchRows(i, n) : inbox[i][k].msg.type # "can"
  <2>1. /\ z.exec \in Exec /\ (z.exec = inst[i].exec \/ z.exec = inst[i].exec + 1)
        /\ inst[i].status \in {"none", "running", "continued"}
        /\ \A l \in DOMAIN inbox[i] \ BatchRows(i, n) : inbox[i][l].msg.type # "can"
    BY BeforeFacts
  <2>2. z.link \in Link /\ inst[i].exec \in Nat
    BY <1>1, BoundFacts DEF TypeOK, Execution
  <2> QED BY <2>1, <2>2, BoundFacts
<1>3. inst' = [inst EXCEPT ![i] = Fresh(z.exec, st, z.link)]
  BY DEF Terminate
<1>4. /\ inst' \in [Instance -> Execution] /\ \A j \in Instance : InstOK(j, inst'[j])
      /\ \A j \in Instance : j # i => inst'[j] = inst[j]
      /\ \A j \in Instance : InstInv(j)'
  BY <1>2, <1>3, EndedInstances
<1>5. BoxOK'
  BY <1>1, AckBox
<1>6. work' = work \ Activities(i, z, Outstanding(z))
  BY DEF Terminate
<1>7. WorkOK' /\ RestOK'
  BY <1>1, <1>6 DEF WorkOK, RestOK
<1>8. TypeOK'
  BY <1>4, <1>5, <1>7, TypeNext
<1>9. ASSUME NEW a \in work' PROVE Wanted(a)'
  <2>1. a \in work /\ Wanted(a) /\ a[1] \in Instance
    BY <1>1, <1>6 DEF LifeInv, WorkOK
  <2>2. a[1] # i
    BY <1>6, <2>1, Withdrawn
  <2>3. Moved(a[1], {}, out)
    BY <1>1, <2>1, <2>2, AckMoves
  <2>4. QuietTo(a[1], out)
    BY <2>1, <2>2 DEF FinalRows
  <2>5. \A l \in DOMAIN out : out[l].to = a[1] =>
           ~(/\ out[l].msg.type = "done" /\ out[l].msg.kind = "activity"
             /\ out[l].msg.exec = a[2] /\ out[l].msg.id = a[3])
    BY <2>4 DEF QuietTo, Quiet, Own
  <2>6. inst'[a[1]] = inst[a[1]]
    BY <1>4, <2>1, <2>2
  <2> QED BY <2>1, <2>3, <2>5, <2>6, WantedFrame
<1>10. \A j \in abrupt' : inst'[j].status = "failed"
  BY <1>1, <1>2, <1>4 DEF LifeInv, RestOK
<1> QED BY <1>4, <1>8, <1>9, <1>10 DEF LifeInv, InstInv

(* Rows of which none is a continuation or a completion of an own call. *)
QuietRows(out) == out \in Seq(AnyRow) /\ \A k \in DOMAIN out : Quiet(out[k].msg)

(* They are so for every addressee, and joined to others. *)
LEMMA QuietRowsFacts ==
    /\ \A i, n, e, out : QuietRows(out) => FinalRows(i, n, e, out) /\ out \in Seq(AnyRow)
    /\ \A j, out : QuietRows(out) => QuietTo(j, out)
    /\ QuietRows(<<>>)
    /\ \A s, t : QuietRows(s) /\ QuietRows(t) => QuietRows(s \o t)
<1>1. \A j, out : QuietRows(out) => QuietTo(j, out)
  BY DEF QuietRows, QuietTo
<1>2. \A i, n, e, out : QuietRows(out) => FinalRows(i, n, e, out) /\ out \in Seq(AnyRow)
  BY <1>1 DEF FinalRows, QuietRows
<1>3. QuietRows(<<>>)
  BY DEF QuietRows
<1>4. ASSUME NEW s, NEW t, QuietRows(s), QuietRows(t) PROVE QuietRows(s \o t)
  <2>1. s \in Seq(AnyRow) /\ t \in Seq(AnyRow)
    BY <1>4 DEF QuietRows
  <2>2. s \o t \in Seq(AnyRow) /\ DOMAIN (s \o t) = 1..(Len(s) + Len(t))
    BY <2>1
  <2>3. ASSUME NEW k \in 1..(Len(s) + Len(t)) PROVE Quiet((s \o t)[k].msg)
    <3>1. CASE k <= Len(s)
      <4>1. k \in DOMAIN s /\ (s \o t)[k] = s[k]
        BY <2>1, <2>3, <3>1
      <4> QED BY <1>4, <4>1 DEF QuietRows
    <3>2. CASE ~(k <= Len(s))
      <4>1. k - Len(s) \in DOMAIN t /\ (s \o t)[k] = t[k - Len(s)]
        BY <2>1, <2>3, <3>2
      <4> QED BY <1>4, <4>1 DEF QuietRows
    <3> QED BY <3>1, <3>2
  <2> QED BY <2>2, <2>3 DEF QuietRows
<1> QED BY <1>1, <1>2, <1>3, <1>4

(* The answer to a parent and the cancellations of children are such rows. *)
LEMMA QuietSends ==
    ASSUME TypeOK
    PROVE  /\ \A r \in Runtime, link \in Link, res \in {"ok", "app", "sys"} :
                 QuietRows(Notify(r, link, res))
           /\ \A i \in Instance, z \in Execution : \A D :
                 (\A k \in DOMAIN z.calls : z.calls[k].kind = "child" => <<i, k>> \in DOMAIN Child)
                 => QuietRows(CancelChildren(i, z, D))
<1>1. ASSUME NEW r \in Runtime, NEW link \in Link, NEW res \in {"ok", "app", "sys"}
      PROVE  QuietRows(Notify(r, link, res))
  BY NotifyFacts DEF QuietRows, Quiet, Own
<1>2. ASSUME NEW i \in Instance, NEW z \in Execution, NEW D,
             \A k \in DOMAIN z.calls : z.calls[k].kind = "child" => <<i, k>> \in DOMAIN Child
      PROVE  QuietRows(CancelChildren(i, z, D))
  BY <1>2, CancelFacts DEF QuietRows, Quiet, Own
<1> QED BY <1>1, <1>2

(* The calls of an execution that has been extended have their children. *)
LEMMA ExtendedChildren ==
    ASSUME LifeInv, NEW i \in Instance, NEW n \in old[i]..Len(inbox[i]), Turn(i, n),
           NEW z \in Scheduled(i, After(i, n))
    PROVE  /\ z \in Execution /\ z.exec = Before(i, n).exec /\ z.link \in Link
           /\ \A k \in DOMAIN After(i, n).calls :
                 k \in DOMAIN z.calls /\ z.calls[k] = After(i, n).calls[k]
           /\ \A k \in DOMAIN z.calls : z.calls[k].kind = "child" => <<i, k>> \in DOMAIN Child
<1> DEFINE y == After(i, n)
<1>1. /\ y \in Execution /\ y.exec = Before(i, n).exec /\ Len(y.calls) <= MaxCalls[i]
      /\ \A k \in DOMAIN y.calls : y.calls[k].kind = "child" => <<i, k>> \in DOMAIN Child
  BY AfterFacts
<1> HIDE DEF y
<1>2. Extends(i, y, z)
  BY <1>1, ScheduledFacts DEF y
<1>3. z \in Execution /\ z.link \in Link
  BY <1>2 DEF Extends, Execution
<1> QED BY <1>1, <1>2, <1>3 DEF Extends, y

(* The turns that end an execution preserve the invariant. *)
LEMMA EndingTurns ==
    ASSUME LifeInv, NEW i \in Instance, NEW n \in old[i]..Len(inbox[i]), NEW r \in Runtime,
           FailTurn(r, i, n) \/ Panic(r, i, n) \/ CancelTurn(r, i, n) \/ ReturnTurn(r, i, n)
    PROVE  LifeInv'
<1> DEFINE y == After(i, n)
<1>1. Turn(i, n) /\ TypeOK /\ UNCHANGED <<tracked, eaten, abrupt, starts, sent, cancels, faults>>
  BY DEF LifeInv, FailTurn, Panic, CancelTurn, ReturnTurn
<1>2. eaten' \in [Instance -> Seq(Data)]
  BY <1>1 DEF TypeOK
<1>3. ASSUME NEW res \in {"ok", "app", "sys"},
             Terminate(i, y, "failed"), Ack(i, n, Notify(r, y.link, res))
      PROVE  LifeInv'
  <2>1. y \in Execution /\ y.exec = Before(i, n).exec
    BY <1>1, AfterFacts
  <2>2. y.link \in Link
    BY <2>1 DEF Execution
  <2>3. QuietRows(Notify(r, y.link, res))
    BY <1>1, <2>2, QuietSends
  <2>4. /\ FinalRows(i, n, y.exec, Notify(r, y.link, res))
        /\ Notify(r, y.link, res) \in Seq(AnyRow)
    BY <2>3, QuietRowsFacts
  <2> QED BY <1>1, <1>2, <1>3, <2>1, <2>4, EndTurn
<1>4. ASSUME NEW z \in Scheduled(i, y), NEW st \in {"completed", "failed", "continued"},
             NEW res \in {"ok", "app", "sys"}, NEW out, Terminate(i, z, st), Ack(i, n, out),
             \/ out = CancelChildren(i, z, Outstanding(z)) \o Notify(r, z.link, res)
             \/ out = Notify(r, z.link, res) \o CancelChildren(i, z, Outstanding(z))
      PROVE  LifeInv'
  <2>1. /\ z \in Execution /\ z.exec = Before(i, n).exec /\ z.link \in Link
        /\ \A k \in DOMAIN y.calls : k \in DOMAIN z.calls /\ z.calls[k] = y.calls[k]
        /\ \A k \in DOMAIN z.calls : z.calls[k].kind = "child" => <<i, k>> \in DOMAIN Child
    BY <1>1, ExtendedChildren
  <2>2. QuietRows(Notify(r, z.link, res)) /\ QuietRows(CancelChildren(i, z, Outstanding(z)))
    BY <1>1, <2>1, QuietSends
  <2>3. QuietRows(out)
    BY <1>4, <2>2, QuietRowsFacts
  <2>4. FinalRows(i, n, z.exec, out) /\ out \in Seq(AnyRow)
    BY <2>3, QuietRowsFacts
  <2> QED BY <1>1, <1>2, <1>4, <2>1, <2>4, EndTurn
<1>5. CASE FailTurn(r, i, n)
  BY <1>3, <1>5 DEF FailTurn
<1>6. CASE Panic(r, i, n)
  BY <1>3, <1>6 DEF Panic
<1>7. CASE CancelTurn(r, i, n)
  <2>1. PICK z \in Scheduled(i, y) :
           /\ Terminate(i, z, "failed")
           /\ Ack(i, n, CancelChildren(i, z, Outstanding(z)) \o Notify(r, z.link, "app"))
    BY <1>7 DEF CancelTurn
  <2> HIDE DEF y
  <2> QED BY <1>4, <2>1
<1>8. CASE ReturnTurn(r, i, n)
  <2>1. PICK z \in Scheduled(i, y), res \in {"ok", "app"} :
           /\ Terminate(i, z, IF res = "ok" THEN "completed" ELSE "failed")
           /\ Ack(i, n, Notify(r, z.link, res) \o CancelChildren(i, z, Outstanding(z)))
    BY <1>8 DEF ReturnTurn
  <2>2. (IF res = "ok" THEN "completed" ELSE "failed") \in {"completed", "failed", "continued"}
    OBVIOUS
  <2> HIDE DEF y
  <2> QED BY <1>4, <2>1, <2>2
<1> QED BY <1>5, <1>6, <1>7, <1>8

(* A part of a sequence. *)
LEMMA SubSeqType ==
    ASSUME NEW S, NEW s \in Seq(S), NEW m \in Nat \ {0}, NEW n \in Nat, n <= Len(s)
    PROVE  /\ SubSeq(s, m, n) \in Seq(S)
           /\ m <= n => Len(SubSeq(s, m, n)) = n - m + 1
           /\ m > n => Len(SubSeq(s, m, n)) = 0
<1>1. \A k \in m..n : s[k] \in S
  OBVIOUS
<1> QED BY <1>1, SubSeqProperties

(* A turn that continues as new: what it leaves behind. *)
HandsOn(i, n) ==
    \E z \in Execution, row \in AnyRow :
        /\ z.exec = Before(i, n).exec /\ Terminate(i, z, "continued")
        /\ Ack(i, n, <<row>>) /\ row.to = i /\ row.msg.type = "can"

(* It keeps the invariant. *)
LEMMA ContinuingTurn ==
    ASSUME LifeInv, NEW i \in Instance, NEW n \in old[i]..Len(inbox[i]), ContinueAsNewTurn(i, n)
    PROVE  LifeInv' /\ HandsOn(i, n)
<1> DEFINE x == Before(i, n)
           y == After(i, n)
           rest(z) == Unmatched(z)
           carry(z) == SubSeq(rest(z), 1, IF Len(rest(z)) > MaxCarry THEN MaxCarry ELSE Len(rest(z)))
<1>1. /\ Turn(i, n) /\ TypeOK /\ x.exec < MaxExec
      /\ UNCHANGED <<tracked, abrupt, starts, sent, cancels, faults>>
  BY DEF LifeInv, ContinueAsNewTurn
<1>2. PICK z \in Dequeued(i, y) :
        /\ Terminate(i, z, "continued")
        /\ Ack(i, n, <<Row(i, ContinueAsNew(carry(z), z.waiting), 0)>>)
        /\ eaten' = [eaten EXCEPT ![i] = @ \o SubSeq(z.arrived, x.taken + 1, z.taken)]
  BY DEF ContinueAsNewTurn
<1>3. y \in Execution /\ y.exec = x.exec /\ y.taken <= Len(y.arrived) /\ y.taken = x.taken
  BY <1>1, AfterFacts
<1>4. /\ z \in Execution /\ z.exec = x.exec /\ z.calls = y.calls
      /\ y.taken <= z.taken /\ z.taken <= Len(z.arrived)
  <2> HIDE DEF x, y
  <2> QED BY <1>3, DequeuedFacts
<1>5. /\ x.taken \in Nat /\ z.taken \in Nat /\ z.waiting \in Nat
      /\ z.arrived \in Seq(Data) /\ Len(z.arrived) \in Nat
  <2> HIDE DEF x, y
  <2> QED BY <1>3, <1>4 DEF Execution
<1>6. rest(z) \in Seq(Data) /\ Len(rest(z)) \in Nat
  <2>1. rest(z) = SubSeq(z.arrived, z.taken + z.waiting + 1, Len(z.arrived))
    BY DEF Unmatched
  <2> HIDE DEF rest
  <2>2. z.taken + z.waiting + 1 \in Nat \ {0} /\ Len(z.arrived) <= Len(z.arrived)
    BY <1>5
  <2>3. SubSeq(z.arrived, z.taken + z.waiting + 1, Len(z.arrived)) \in Seq(Data)
    BY <1>5, <2>2, SubSeqType
  <2> QED BY <2>1, <2>3
<1>7. carry(z) \in Seq(Data)
  <2> HIDE DEF rest
  <2>1. MaxCarry \in Nat
    BY BoundFacts
  <2> QED BY <1>6, <2>1, SubSeqType
<1> HIDE DEF carry, x, y
<1>8. eaten' \in [Instance -> Seq(Data)]
  <2>1. SubSeq(z.arrived, x.taken + 1, z.taken) \in Seq(Data)
    BY <1>4, <1>5, SubSeqType
  <2>2. eaten \in [Instance -> Seq(Data)]
    BY <1>1 DEF TypeOK
  <2>3. eaten[i] \o SubSeq(z.arrived, x.taken + 1, z.taken) \in Seq(Data)
    BY <2>1, <2>2
  <2> HIDE DEF rest
  <2> QED BY <1>2, <2>2, <2>3
<1> DEFINE row == Row(i, ContinueAsNew(carry(z), z.waiting), 0)
<1> DEFINE m == ContinueAsNew(carry(z), z.waiting)
<1>16. m \in Message /\ m.type = "can"
  BY <1>5, <1>7, MessageTypes
<1>9. row \in AnyRow /\ row.to = i /\ row.msg.type = "can"
  <2> HIDE DEF m
  <2>1. row = Row(i, m, 0)
    BY DEF m
  <2> HIDE DEF row
  <2> QED BY <1>16, <2>1, BoundFacts, RowFacts
<1>10. Ack(i, n, <<row>>)
  BY <1>2
<1> HIDE DEF row
<1>11. /\ <<row>> \in Seq(AnyRow) /\ DOMAIN <<row>> = {1} /\ <<row>>[1] = row
  BY <1>9
<1>12. \A l \in DOMAIN inbox[i] \ BatchRows(i, n) : inbox[i][l].msg.type # "can"
  BY <1>1, BeforeFacts
<1>13. FinalRows(i, n, z.exec, <<row>>)
  BY <1>1, <1>4, <1>9, <1>11, <1>12 DEF FinalRows, QuietTo, Own
<1>14. LifeInv'
  BY <1>1, <1>2, <1>4, <1>8, <1>10, <1>11, <1>13, EndTurn DEF x, y
<1>15. HandsOn(i, n)
  BY <1>2, <1>4, <1>9, <1>10 DEF x, HandsOn
<1> QED BY <1>14, <1>15

(* A step that leaves the executions alone and adds only quiet messages. *)
LEMMA SteadyStep ==
    ASSUME LifeInv, NEW out, QuietRows(out),
           \A j \in Instance : \E gone : Moved(j, gone, out),
           BoxOK', RestOK', UNCHANGED <<inst, work, abrupt>>
    PROVE  LifeInv'
<1>1. TypeOK /\ \A j \in Instance : InstInv(j)
  BY DEF LifeInv, InstInv
<1>2. ASSUME NEW j \in Instance PROVE InstInv(j)'
  <2>1. PICK gone : Moved(j, gone, out)
    OBVIOUS
  <2> QED BY <1>1, <2>1, QuietRowsFacts, QuietFrame
<1>3. ASSUME NEW a \in work' PROVE Wanted(a)'
  <2>1. a \in work /\ Wanted(a) /\ a[1] \in Instance
    BY <1>1 DEF LifeInv, TypeOK
  <2>2. PICK gone : Moved(a[1], gone, out)
    BY <2>1
  <2>3. \A k \in DOMAIN out : out[k].to = a[1] =>
           ~(/\ out[k].msg.type = "done" /\ out[k].msg.kind = "activity"
             /\ out[k].msg.exec = a[2] /\ out[k].msg.id = a[3])
    BY DEF QuietRows, Quiet, Own
  <2> QED BY <2>1, <2>2, <2>3, WantedFrame
<1>4. TypeOK'
  <2>1. inst \in [Instance -> Execution] /\ (\A j \in Instance : InstOK(j, inst[j])) /\ WorkOK
    BY <1>1, TypeParts
  <2>2. WorkOK'
    BY <2>1 DEF WorkOK
  <2> QED BY <2>1, <2>2, TypeNext
<1>5. \A j \in abrupt' : inst'[j].status = "failed"
  BY DEF LifeInv
<1> QED BY <1>2, <1>3, <1>4, <1>5 DEF LifeInv, InstInv

(* A batch for an execution that has ended is deleted. *)
LEMMA EndedAck ==
    ASSUME LifeInv, NEW i \in Instance, NEW n \in old[i]..Len(inbox[i]), AckEnded(i, n)
    PROVE  LifeInv'
<1>1. /\ TypeOK /\ RestOK /\ Ack(i, n, <<>>)
      /\ UNCHANGED <<inst, work, tracked, eaten, abrupt, starts, sent, cancels, faults>>
  BY TypeParts DEF LifeInv, AckEnded
<1>2. QuietRows(<<>>) /\ <<>> \in Seq(AnyRow)
  BY QuietRowsFacts
<1>3. \A j \in Instance : \E gone : Moved(j, gone, <<>>)
  BY <1>1, <1>2, AckMoves
<1>4. BoxOK' /\ RestOK'
  BY <1>1, <1>2, AckBox DEF RestOK
<1> QED BY <1>1, <1>2, <1>3, <1>4, SteadyStep

(* A client sends a message. *)
LEMMA ClientSteps ==
    ASSUME LifeInv, NEW i \in Instance,
           StartOrchestration(i) \/ EnqueueEvent(i) \/ RequestCancel(i)
    PROVE  LifeInv'
<1>1. /\ TypeOK /\ RestOK
      /\ UNCHANGED <<inst, old, work, tracked, eaten, abrupt, faults>>
  BY TypeParts DEF LifeInv, StartOrchestration, EnqueueEvent, RequestCancel
<1>2. \E m \in Message : Enqueue(i, m) /\ Quiet(m) /\ RestOK'
  <2>1. CASE StartOrchestration(i)
    <3>1. starts' \in 0..MaxStarts /\ UNCHANGED <<sent, cancels>>
      BY <1>1, <2>1, LifecycleAssumption DEF StartOrchestration, RestOK
    <3>2. Start(NoLink) \in Message /\ Quiet(Start(NoLink))
      <4>1. NoLink \in Link
        BY DEF Link
      <4> QED BY <4>1, MessageTypes DEF Quiet, Own
    <3> QED BY <1>1, <2>1, <3>1, <3>2 DEF StartOrchestration, RestOK
  <2>2. CASE EnqueueEvent(i)
    <3>1. sent' \in 0..MaxData /\ sent' \in Data /\ UNCHANGED <<starts, cancels>>
      BY <1>1, <2>2, LifecycleAssumption DEF EnqueueEvent, RestOK, Data
    <3>2. QueueMessage(sent') \in Message /\ Quiet(QueueMessage(sent'))
      BY <3>1, MessageTypes DEF Quiet, Own
    <3> QED BY <1>1, <2>2, <3>1, <3>2 DEF EnqueueEvent, RestOK
  <2>3. CASE RequestCancel(i)
    <3>1. cancels' \in 0..MaxCancels /\ UNCHANGED <<starts, sent>>
      BY <1>1, <2>3, LifecycleAssumption DEF RequestCancel, RestOK
    <3>2. CancelInstance \in Message /\ Quiet(CancelInstance)
      BY MessageTypes DEF Quiet, Own
    <3> QED BY <1>1, <2>3, <3>1, <3>2 DEF RequestCancel, RestOK
  <2> QED BY <2>1, <2>2, <2>3
<1>3. PICK m \in Message : Enqueue(i, m) /\ Quiet(m) /\ RestOK'
  BY <1>2
<1> DEFINE row == Row(i, m, 0)
<1>4. row \in AnyRow /\ row.msg = m
  BY BoundFacts, RowFacts
<1>5. \A j \in Instance : Moved(j, {}, <<row>>)
  BY <1>1, <1>3, EnqueueMoves
<1>6. BoxOK'
  BY <1>1, <1>3, EnqueueBox
<1> HIDE DEF row
<1>7. QuietRows(<<row>>)
  BY <1>3, <1>4 DEF QuietRows
<1> QED BY <1>1, <1>3, <1>5, <1>6, <1>7, SteadyStep

(* Rows are hidden or appear, a timer becomes due. *)
LEMMA HidingSteps ==
    ASSUME LifeInv, NEW i \in Instance,
           \/ Abandon(i)
           \/ \E h \in 1..MaxFaults : Reappear(i, h)
           \/ \E k \in DOMAIN inbox[i] : Fire(i, k)
    PROVE  LifeInv' /\ \A j \in Instance : Moved(j, {}, <<>>)
<1> DEFINE L == Len(inbox[i])
<1>1. /\ TypeOK /\ RestOK /\ BoxOK
      /\ UNCHANGED <<inst, work, tracked, eaten, abrupt, starts, sent, cancels>>
  BY TypeParts DEF LifeInv, Abandon, Reappear, Fire
<1>2. /\ inbox[i] \in Seq(Rows(i)) /\ L \in Nat /\ DOMAIN inbox[i] = 1..L
      /\ old \in [Instance -> Nat] /\ old[i] <= L
  BY <1>1 DEF BoxOK
<1>3. faults' \in 0..MaxFaults
  BY <1>1, BoundFacts DEF RestOK, Abandon, Reappear, Fire, Fault
<1>4. PICK f \in [1..L -> Pending..MaxFaults] :
         inbox' = [inbox EXCEPT ![i] = [k \in 1..L |-> [inbox[i][k] EXCEPT !.hide = f[k]]]]
  <2>1. \A k \in 1..L : /\ inbox[i][k] \in Rows(i) /\ inbox[i][k].hide \in Pending..MaxFaults
                        /\ inbox[i][k] = [inbox[i][k] EXCEPT !.hide = inbox[i][k].hide]
    <3>1. \A row \in Rows(i) : row.hide \in Pending..MaxFaults /\ row = [row EXCEPT !.hide = row.hide]
      BY DEF Rows
    <3> QED BY <1>2, <3>1
  <2>2. CASE Abandon(i)
    <3> DEFINE f == [k \in 1..L |-> IF inbox[i][k].hide = 0 THEN faults' ELSE inbox[i][k].hide]
    <3>0. faults' \in Pending..MaxFaults
      BY <1>3, BoundFacts
    <3>1. f \in [1..L -> Pending..MaxFaults]
      BY <2>1, <3>0
    <3>2. inbox' = [inbox EXCEPT ![i] =
            [k \in 1..L |-> IF inbox[i][k].hide = 0 THEN [inbox[i][k] EXCEPT !.hide = faults']
                                                    ELSE inbox[i][k]]]
      BY <1>1, <1>2, <2>2 DEF Abandon, BoxOK
    <3>3. \A k \in 1..L :
            (IF inbox[i][k].hide = 0 THEN [inbox[i][k] EXCEPT !.hide = faults'] ELSE inbox[i][k])
              = [inbox[i][k] EXCEPT !.hide = f[k]]
      BY <2>1
    <3> HIDE DEF f, L
    <3> QED BY <3>1, <3>2, <3>3
  <2>3. ASSUME NEW h \in 1..MaxFaults, Reappear(i, h)
        PROVE  \E f \in [1..L -> Pending..MaxFaults] :
                  inbox' = [inbox EXCEPT ![i] =
                              [k \in 1..L |-> [inbox[i][k] EXCEPT !.hide = f[k]]]]
    <3> DEFINE f == [k \in 1..L |-> IF inbox[i][k].hide = h THEN 0 ELSE inbox[i][k].hide]
    <3>1. f \in [1..L -> Pending..MaxFaults]
      BY <2>1, BoundFacts
    <3>2. inbox' = [inbox EXCEPT ![i] =
            [k \in 1..L |-> IF inbox[i][k].hide = h THEN [inbox[i][k] EXCEPT !.hide = 0]
                                                    ELSE inbox[i][k]]]
      BY <1>1, <1>2, <2>3 DEF Reappear, BoxOK
    <3>3. \A k \in 1..L :
            (IF inbox[i][k].hide = h THEN [inbox[i][k] EXCEPT !.hide = 0] ELSE inbox[i][k])
              = [inbox[i][k] EXCEPT !.hide = f[k]]
      BY <2>1
    <3> HIDE DEF f, L
    <3> QED BY <3>1, <3>2, <3>3
  <2>4. ASSUME NEW n \in DOMAIN inbox[i], Fire(i, n)
        PROVE  \E f \in [1..L -> Pending..MaxFaults] :
                  inbox' = [inbox EXCEPT ![i] =
                              [k \in 1..L |-> [inbox[i][k] EXCEPT !.hide = f[k]]]]
    <3> DEFINE f == [k \in 1..L |-> IF k = n THEN 0 ELSE inbox[i][k].hide]
    <3>1. f \in [1..L -> Pending..MaxFaults]
      BY <2>1, BoundFacts
    <3>2. inbox' = [inbox EXCEPT ![i] = [inbox[i] EXCEPT ![n] = [inbox[i][n] EXCEPT !.hide = 0]]]
      BY <1>1, <1>2, <2>4 DEF Fire, BoxOK
    <3>3. [inbox[i] EXCEPT ![n] = [inbox[i][n] EXCEPT !.hide = 0]]
            = [k \in 1..L |-> IF k = n THEN [inbox[i][n] EXCEPT !.hide = 0] ELSE inbox[i][k]]
      BY <1>2
    <3>4. \A k \in 1..L :
            (IF k = n THEN [inbox[i][n] EXCEPT !.hide = 0] ELSE inbox[i][k])
              = [inbox[i][k] EXCEPT !.hide = f[k]]
      BY <2>1
    <3> HIDE DEF f, L
    <3> QED BY <3>1, <3>2, <3>3, <3>4
  <2> QED BY <2>2, <2>3, <2>4
<1> HIDE DEF L
<1>5. /\ DOMAIN inbox' = Instance /\ \A j \in Instance : j # i => inbox'[j] = inbox[j]
      /\ inbox'[i] = [k \in 1..L |-> [inbox[i][k] EXCEPT !.hide = f[k]]]
  BY <1>1, <1>4 DEF BoxOK
<1>6. \A k \in 1..L : /\ [inbox[i][k] EXCEPT !.hide = f[k]] \in Rows(i)
                      /\ [inbox[i][k] EXCEPT !.hide = f[k]].msg = inbox[i][k].msg
  <2>1. \A row \in Rows(i), h \in Pending..MaxFaults :
           [row EXCEPT !.hide = h] \in Rows(i) /\ [row EXCEPT !.hide = h].msg = row.msg
    BY DEF Rows
  <2>2. \A k \in 1..L : inbox[i][k] \in Rows(i) /\ f[k] \in Pending..MaxFaults
    BY <1>2, <1>4
  <2> QED BY <2>1, <2>2
<1>7. /\ inbox'[i] \in Seq(Rows(i)) /\ Len(inbox'[i]) = L /\ DOMAIN inbox'[i] = 1..L
      /\ \A k \in 1..L : inbox'[i][k].msg = inbox[i][k].msg
  <2> DEFINE g(k) == [inbox[i][k] EXCEPT !.hide = f[k]]
  <2>1. inbox'[i] = [k \in 1..L |-> g(k)]
    BY <1>5
  <2>2. \A k \in 1..L : g(k) \in Rows(i) /\ g(k).msg = inbox[i][k].msg
    BY <1>6
  <2> HIDE DEF g
  <2> QED BY <1>2, <2>1, <2>2
<1>8. \A j \in Instance : Moved(j, {}, <<>>)
  <2> SUFFICES ASSUME NEW j \in Instance PROVE Moved(j, {}, <<>>)
    OBVIOUS
  <2>1. CASE j = i
    BY <1>2, <1>7, <2>1, StillMoves
  <2>2. CASE j # i
    <3>1. inbox[j] \in Seq(Rows(j)) /\ inbox'[j] = inbox[j]
      BY <1>1, <1>5, <2>2 DEF BoxOK
    <3>2. DOMAIN inbox[j] = 1..Len(inbox[j]) /\ Len(inbox[j]) \in Nat
      BY <3>1
    <3> QED BY <3>1, <3>2, StillMoves
  <2> QED BY <2>1, <2>2
<1>9. BoxOK'
  <2>1. old' = old \/ old' = [old EXCEPT ![i] = L]
    BY DEF Abandon, Reappear, Fire, L
  <2>2. old' \in [Instance -> Nat] /\ (old'[i] = L \/ old'[i] = old[i])
        /\ \A j \in Instance : j # i => old'[j] = old[j]
    BY <1>2, <2>1
  <2>3. \A j \in Instance : inbox'[j] \in Seq(Rows(j))
    BY <1>1, <1>5, <1>7 DEF BoxOK
  <2>4. \A j \in Instance : old'[j] <= Len(inbox'[j])
    <3>1. \A j \in Instance : j # i => old'[j] <= Len(inbox'[j])
      BY <1>1, <1>5, <2>2 DEF BoxOK
    <3>2. old'[i] <= Len(inbox'[i])
      BY <1>2, <1>7, <2>2
    <3> QED BY <3>1, <3>2
  <2> QED BY <1>5, <2>2, <2>3, <2>4 DEF BoxOK
<1>10. RestOK' /\ QuietRows(<<>>)
  BY <1>1, <1>3, QuietRowsFacts DEF RestOK
<1>11. LifeInv'
  BY <1>1, <1>8, <1>9, <1>10, SteadyStep
<1> QED BY <1>8, <1>11

(* A process is started again. *)
LEMMA RestartStep ==
    ASSUME LifeInv, NEW r \in Runtime, Restart(r)
    PROVE  LifeInv'
<1>1. /\ TypeOK /\ RestOK /\ BoxOK
      /\ UNCHANGED <<inst, inbox, old, work, eaten, abrupt, starts, sent, cancels>>
  BY TypeParts DEF LifeInv, Restart
<1>2. BoxOK'
  BY <1>1 DEF BoxOK
<1>3. faults' \in 0..MaxFaults
  BY <1>1, BoundFacts DEF Restart, Fault, RestOK
<1>4. tracked' \in [Runtime -> [Instance -> 0..MaxExec]]
  BY <1>1, BoundFacts DEF Restart, RestOK
<1>5. RestOK' /\ QuietRows(<<>>)
  BY <1>1, <1>3, <1>4, QuietRowsFacts DEF RestOK
<1>6. ASSUME NEW j \in Instance PROVE Moved(j, {}, <<>>)
  <2>1. inbox[j] \in Seq(Rows(j)) /\ inbox'[j] = inbox[j]
    BY <1>1 DEF BoxOK
  <2>2. DOMAIN inbox[j] = 1..Len(inbox[j]) /\ Len(inbox[j]) \in Nat
    BY <2>1
  <2> QED BY <2>1, <2>2, StillMoves
<1> QED BY <1>1, <1>2, <1>5, <1>6, SteadyStep

(* The runtime fails an instance: no message is special to that step, and  *)
(* what it leaves in the worker queue is excused.                          *)
LEMMA AbruptEnd ==
    ASSUME LifeInv, NEW i \in Instance, NEW n \in old[i]..Len(inbox[i]),
           NEW e \in Exec, inst[i].exec <= e, NEW l \in Link,
           inst' = [inst EXCEPT ![i] = Fresh(e, "failed", l)],
           \/ e = inst[i].exec
           \/ \A k \in DOMAIN inbox[i] \ BatchRows(i, n) : inbox[i][k].msg.type # "can",
           NEW out, QuietRows(out), Ack(i, n, out), abrupt' = abrupt \cup {i}, Fault,
           UNCHANGED <<work, tracked, eaten, starts, sent, cancels>>
    PROVE  LifeInv'
<1>1. TypeOK /\ WorkOK /\ RestOK
  BY TypeParts DEF LifeInv
<1>2. out \in Seq(AnyRow) /\ FinalRows(i, n, e, out)
  BY QuietRowsFacts
<1>3. /\ inst' \in [Instance -> Execution] /\ \A j \in Instance : InstOK(j, inst'[j])
      /\ inst'[i].exec = e /\ inst'[i].status = "failed"
      /\ \A j \in Instance : j # i => inst'[j] = inst[j]
      /\ \A j \in Instance : InstInv(j)'
  BY <1>2, EndedInstances
<1>4. BoxOK'
  BY <1>1, <1>2, AckBox
<1>5. faults' \in 0..MaxFaults
  <2>1. faults \in 0..MaxFaults /\ faults < MaxFaults /\ faults' = faults + 1 /\ MaxFaults \in Nat
    BY <1>1, BoundFacts DEF Fault, RestOK
  <2> QED BY <2>1
<1>6. WorkOK' /\ RestOK'
  BY <1>1, <1>5 DEF WorkOK, RestOK
<1>7. TypeOK'
  BY <1>3, <1>4, <1>6, TypeNext
<1>8. ASSUME NEW a \in work' PROVE Wanted(a)'
  <2>1. a \in work /\ Wanted(a) /\ a[1] \in Instance /\ a[2] \in Exec
    BY <1>1 DEF LifeInv, WorkOK
  <2>2. PICK gone : Moved(a[1], gone, out)
    BY <1>1, <1>2, <2>1, AckMoves
  <2>3. \A k \in DOMAIN out : out[k].to = a[1] =>
           ~(/\ out[k].msg.type = "done" /\ out[k].msg.kind = "activity"
             /\ out[k].msg.exec = a[2] /\ out[k].msg.id = a[3])
    BY DEF QuietRows, Quiet, Own
  <2>4. inst'[a[1]] = inst[a[1]] \/ (a[1] \in abrupt' /\ a[2] <= inst'[a[1]].exec)
    <3>1. CASE a[1] = i
      <4>1. a[2] <= inst[i].exec
        BY <2>1, <3>1 DEF Wanted
      <4>2. a[2] \in Nat /\ e \in Nat /\ inst[i].exec \in Nat
        BY <1>1, <2>1, BoundFacts DEF TypeOK, Execution
      <4> QED BY <1>3, <3>1, <4>1, <4>2
    <3>2. CASE a[1] # i
      BY <1>3, <2>1, <3>2
    <3> QED BY <3>1, <3>2
  <2> QED BY <2>1, <2>2, <2>3, <2>4, WantedFrame
<1>9. \A j \in abrupt' : inst'[j].status = "failed"
  BY <1>1, <1>3 DEF LifeInv, RestOK
<1> QED BY <1>3, <1>7, <1>8, <1>9 DEF LifeInv, InstInv

(* How the runtime fails an instance. *)
FailedBy(i, n) ==
    \E e \in Exec, l \in Link : \E out :
        /\ inst[i].exec <= e /\ inst' = [inst EXCEPT ![i] = Fresh(e, "failed", l)]
        /\ out = <<>> \/ \E r \in Runtime : out = Notify(r, l, "sys")
        /\ Ack(i, n, out)

(* fail_orchestration_as_poison and the failure that replaces an ack. *)
LEMMA AbruptTurns ==
    ASSUME LifeInv, NEW i \in Instance, NEW n \in old[i]..Len(inbox[i]),
           FailureAck(i, n) \/ \E r \in Runtime : Poison(r, i, n)
    PROVE  LifeInv' /\ FailedBy(i, n)
<1>1. TypeOK /\ inst[i] \in Execution /\ (inst[i].status = "none" <=> inst[i].exec = 0)
  BY DEF LifeInv, TypeOK
<1>2. inst[i].exec \in Nat /\ inst[i].exec \in 0..MaxExec /\ inst[i].link \in Link
  BY <1>1, BoundFacts DEF Execution
<1>3. CASE FailureAck(i, n)
  <2> DEFINE x == Before(i, n)
  <2>1. Turn(i, n)
    BY <1>3 DEF FailureAck
  <2>2. /\ x \in Execution /\ x.exec \in Exec
        /\ x = inst[i] \/ x.exec = inst[i].exec + 1
        /\ \A k \in DOMAIN inbox[i] \ BatchRows(i, n) : inbox[i][k].msg.type # "can"
    BY <2>1, BeforeFacts
  <2>3. /\ inst' = [inst EXCEPT ![i] = Fresh(x.exec, "failed", x.link)]
        /\ Ack(i, n, <<>>) /\ abrupt' = abrupt \cup {i} /\ Fault
        /\ UNCHANGED <<work, tracked, eaten, starts, sent, cancels>>
    BY <1>3 DEF FailureAck
  <2> HIDE DEF x
  <2>4. x.link \in Link /\ inst[i].exec <= x.exec
    BY <1>2, <2>2, BoundFacts DEF Execution
  <2>5. QuietRows(<<>>)
    BY QuietRowsFacts
  <2>6. FailedBy(i, n)
    BY <2>2, <2>3, <2>4 DEF FailedBy
  <2> QED BY <2>2, <2>3, <2>4, <2>5, <2>6, AbruptEnd
<1>4. ASSUME NEW r \in Runtime, Poison(r, i, n) PROVE LifeInv' /\ FailedBy(i, n)
  <2> DEFINE b == Batch(i, n)
             x == IF inst[i].status = "none" THEN Open(i, b) ELSE inst[i]
  <2>1. /\ Deliverable(i, b) /\ Fault
        /\ inst' = [inst EXCEPT ![i] = Fresh(x.exec, "failed", x.link)]
        /\ Ack(i, n, Notify(r, x.link, "sys")) /\ abrupt' = abrupt \cup {i}
        /\ UNCHANGED <<work, tracked, eaten, starts, sent, cancels>>
    BY <1>4 DEF Poison
  <2>2. /\ x.exec \in Exec /\ x.link \in Link /\ inst[i].exec <= x.exec
        /\ \/ x.exec = inst[i].exec
           \/ \A k \in DOMAIN inbox[i] \ BatchRows(i, n) : inbox[i][k].msg.type # "can"
    <3>1. CASE inst[i].status = "none"
      <4>1. Turn(i, n)
        BY <2>1, <3>1 DEF Turn, Ended
      <4>2. x = Before(i, n)
        BY <3>1 DEF Before
      <4>3. /\ x \in Execution /\ x.exec \in Exec /\ x.exec = inst[i].exec + 1
            /\ \A k \in DOMAIN inbox[i] \ BatchRows(i, n) : inbox[i][k].msg.type # "can"
        BY <3>1, <4>1, <4>2, BeforeFacts
      <4> HIDE DEF x
      <4> QED BY <1>2, <4>3, BoundFacts DEF Execution
    <3>2. CASE inst[i].status # "none"
      <4>1. x = inst[i]
        BY <3>2
      <4>2. x.exec \in Exec
        BY <1>1, <1>2, <3>2, <4>1, BoundFacts
      <4> QED BY <1>2, <4>1, <4>2
    <3> QED BY <3>1, <3>2
  <2> HIDE DEF x
  <2>3. QuietRows(Notify(r, x.link, "sys"))
    BY <1>1, <2>2, QuietSends
  <2>4. FailedBy(i, n)
    BY <2>1, <2>2 DEF FailedBy
  <2> QED BY <2>1, <2>2, <2>3, <2>4, AbruptEnd
<1> QED BY <1>3, <1>4

----------------------------------------------------------------------------
(* A turn after which the execution goes on, and the workers. *)

(* In a turn, a completion of an own call with the number of its execution *)
(* belongs to a call that was open before.                                 *)
LEMMA OwnOfTurn ==
    ASSUME LifeInv, NEW i \in Instance, NEW n \in old[i]..Len(inbox[i]), Turn(i, n),
           NEW m \in Messages(i), Own(m)
    PROVE  /\ m \in Message /\ m.exec \in Nat /\ m.exec <= Before(i, n).exec
           /\ m.exec = Before(i, n).exec => OpenCall(Before(i, n), m.id, m.kind)
<1> DEFINE x == Before(i, n)
<1>1. TypeOK /\ AnswersOpen(i)
  BY DEF LifeInv
<1>2. m \in Message
  <2>1. \A k \in DOMAIN inbox[i] : inbox[i][k] \in Rows(i)
    BY <1>1 DEF TypeOK
  <2> QED BY <2>1, AnyRowFacts DEF Messages
<1>3. m.exec \in Nat /\ inst[i].exec \in Nat
  BY <1>1, <1>2, MessageFacts, BoundFacts DEF Own, TypeOK, Execution
<1>4. /\ m.exec <= inst[i].exec
      /\ m.exec = inst[i].exec /\ inst[i].status = "running" => OpenCall(inst[i], m.id, m.kind)
  BY <1>1 DEF AnswersOpen
<1>5. \/ inst[i].status = "running" /\ x = inst[i]
      \/ x.exec = inst[i].exec + 1
  BY BeforeFacts
<1> HIDE DEF x
<1>6. m.exec <= x.exec /\ (m.exec = x.exec => OpenCall(x, m.id, m.kind))
  BY <1>3, <1>4, <1>5
<1> QED BY <1>2, <1>3, <1>6 DEF x

(* The row of a timer that z has in addition to y. *)
TimerRow(i, y, z, row) ==
    /\ row.to = i /\ row.msg.type = "done" /\ row.msg.kind = "timer"
    /\ row.msg.exec = z.exec /\ row.msg.id \in NewCalls(y, z)
    /\ z.calls[row.msg.id].kind = "timer"

(* What such a turn sends: new timers, each once, and quiet messages. *)
TurnRows(i, y, z, out) ==
    /\ out \in Seq(AnyRow)
    /\ \A k \in DOMAIN out : Quiet(out[k].msg) \/ TimerRow(i, y, z, out[k])
    /\ \A k, l \in DOMAIN out :
          /\ k # l /\ TimerRow(i, y, z, out[k]) /\ TimerRow(i, y, z, out[l])
          => out[k].msg.id # out[l].msg.id

(* The rows of the new calls, followed by cancellations, are such rows. *)
LEMMA TurnRowsFacts ==
    ASSUME NEW i \in Instance, NEW y \in Execution, NEW z, Extends(i, y, z), z.exec \in Exec,
           NEW s, QuietRows(s)
    PROVE  TurnRows(i, y, z, NewRows(i, y, z) \o s)
<1> DEFINE t == NewRows(i, y, z)
           out == t \o s
<1>1. t \in Seq(AnyRow) /\ Announced(t, i, y, z)
  BY NewRowsFacts
<1>2. s \in Seq(AnyRow) /\ \A k \in DOMAIN s : Quiet(s[k].msg)
  BY DEF QuietRows
<1>3. PICK f \in [DOMAIN t -> NewCalls(y, z)] :
        /\ \A k \in DOMAIN t : t[k] = NewRow(i, z, f[k])
        /\ \A k, l \in DOMAIN t : f[k] = f[l] => k = l
  BY <1>1 DEF Announced
<1> HIDE DEF t
<1>4. /\ out \in Seq(AnyRow) /\ DOMAIN out = 1..(Len(t) + Len(s))
      /\ Len(t) \in Nat /\ Len(s) \in Nat /\ DOMAIN t = 1..Len(t) /\ DOMAIN s = 1..Len(s)
      /\ \A k \in 1..Len(t) : out[k] = t[k]
      /\ \A k \in 1..Len(s) : out[Len(t) + k] = s[k]
  BY <1>1, <1>2
<1> HIDE DEF out
<1>5. ASSUME NEW k \in DOMAIN t
      PROVE  /\ Quiet(t[k].msg) \/ TimerRow(i, y, z, t[k])
             /\ TimerRow(i, y, z, t[k]) => t[k].msg.id = f[k]
  <2>1. PICK c \in NewCalls(y, z) : c = f[k] /\ t[k] = NewRow(i, z, c)
    BY <1>3
  <2>2. IsNewRow(i, z, c, t[k])
    BY <2>1, NewRowFacts
  <2>3. CASE z.calls[c].kind = "timer"
    BY <2>1, <2>2, <2>3 DEF TimerRow, IsNewRow
  <2>4. CASE z.calls[c].kind # "timer"
    <3>1. t[k].msg.type = "start"
      BY <2>2, <2>4 DEF IsNewRow
    <3> QED BY <3>1 DEF Quiet, Own, TimerRow
  <2> QED BY <2>3, <2>4
<1>6. ASSUME NEW k \in DOMAIN out
      PROVE  \/ k \in DOMAIN t /\ out[k] = t[k]
             \/ Quiet(out[k].msg)
  <2>1. CASE k <= Len(t)
    BY <1>4, <2>1
  <2>2. CASE ~(k <= Len(t))
    <3>1. k - Len(t) \in 1..Len(s) /\ k = Len(t) + (k - Len(t))
      BY <1>4, <2>2
    <3> QED BY <1>2, <1>4, <3>1
  <2> QED BY <2>1, <2>2
<1>7. \A k \in DOMAIN out : Quiet(out[k].msg) \/ TimerRow(i, y, z, out[k])
  BY <1>5, <1>6
<1>8. \A row : TimerRow(i, y, z, row) => ~Quiet(row.msg)
  BY DEF TimerRow, Quiet, Own
<1>9. ASSUME NEW k \in DOMAIN out, NEW l \in DOMAIN out, k # l,
             TimerRow(i, y, z, out[k]), TimerRow(i, y, z, out[l])
      PROVE  out[k].msg.id # out[l].msg.id
  <2>1. /\ k \in DOMAIN t /\ l \in DOMAIN t /\ out[k] = t[k] /\ out[l] = t[l]
    BY <1>6, <1>8, <1>9
  <2>2. t[k].msg.id = f[k] /\ t[l].msg.id = f[l]
    BY <1>5, <1>9, <2>1
  <2> QED BY <1>3, <1>9, <2>1, <2>2
<1> QED BY <1>4, <1>7, <1>9 DEF TurnRows, out, t

(* What the code made of its execution: q has dequeued, z has scheduled    *)
(* and u has dropped.                                                      *)
Continued(i, x, y, z, u, D) ==
    /\ InstOK(i, u) /\ u.status = "running" /\ u.exec = x.exec /\ z.exec = x.exec
    /\ z \in Execution /\ D \subseteq DOMAIN y.calls
    /\ DOMAIN u.calls = DOMAIN z.calls /\ DOMAIN y.calls \subseteq DOMAIN z.calls
    /\ DOMAIN z.calls \subseteq CallId /\ y.taken <= z.taken /\ z.taken <= Len(z.arrived)
    /\ \A k \in DOMAIN y.calls : z.calls[k] = y.calls[k]
    /\ \A k \in DOMAIN z.calls :
          /\ z.calls[k].kind = "child" => <<i, k>> \in DOMAIN Child
          /\ u.calls[k].kind = z.calls[k].kind /\ u.calls[k].res = z.calls[k].res
          /\ k \notin D => u.calls[k] = z.calls[k]
          /\ k \notin DOMAIN y.calls => z.calls[k].res = "none" /\ ~z.calls[k].dropped

(* It is as said, and the rows of the turn are those of new timers, starts *)
(* and cancellations.                                                      *)
LEMMA ContinuedFacts ==
    ASSUME LifeInv, NEW i \in Instance, NEW n \in old[i]..Len(inbox[i]), Turn(i, n),
           NEW q \in Dequeued(i, After(i, n)), NEW D \in SUBSET Outstanding(After(i, n)),
           NEW z \in Scheduled(i, q)
    PROVE  /\ Continued(i, Before(i, n), After(i, n), z, Drop(z, D), D)
           /\ TurnRows(i, After(i, n), z, NewRows(i, After(i, n), z) \o CancelChildren(i, z, D))
           /\ Extends(i, q, z) /\ q \in Execution /\ q.calls = After(i, n).calls
<1> DEFINE x == Before(i, n)
           y == After(i, n)
           u == Drop(z, D)
<1>1. /\ y \in Execution /\ y.status = "running" /\ y.exec = x.exec
      /\ y.taken <= Len(y.arrived) /\ Len(y.calls) <= MaxCalls[i]
      /\ \A k \in DOMAIN y.calls : y.calls[k].kind = "child" => <<i, k>> \in DOMAIN Child
  BY AfterFacts
<1>2. x.exec \in Exec /\ TypeOK
  BY BeforeFacts DEF LifeInv
<1> HIDE DEF x, y, u
<1>3. /\ q \in Execution /\ q.exec = y.exec /\ q.status = y.status /\ q.calls = y.calls
      /\ y.taken <= q.taken /\ q.taken <= Len(q.arrived)
  BY <1>1, DequeuedFacts DEF y
<1>4. Extends(i, q, z)
  BY <1>1, <1>3, ScheduledFacts
<1>5. /\ z \in Execution /\ z.exec = x.exec /\ z.status = "running"
      /\ y.taken <= z.taken /\ z.taken <= Len(z.arrived) /\ Len(z.calls) <= MaxCalls[i]
      /\ \A k \in DOMAIN y.calls : k \in DOMAIN z.calls /\ z.calls[k] = y.calls[k]
      /\ \A k \in DOMAIN z.calls \ DOMAIN y.calls :
            /\ z.calls[k].res = "none" /\ ~z.calls[k].dropped
            /\ z.calls[k].kind = "child" => <<i, k>> \in DOMAIN Child
  BY <1>1, <1>3, <1>4 DEF Extends
<1>6. D \in SUBSET DOMAIN y.calls /\ D \in SUBSET DOMAIN z.calls
  BY <1>5 DEF Outstanding, y
<1>7. /\ u \in Execution /\ u.exec = z.exec /\ u.status = z.status
      /\ u.arrived = z.arrived /\ u.taken = z.taken
      /\ DOMAIN u.calls = DOMAIN z.calls /\ Len(u.calls) = Len(z.calls)
      /\ \A k \in DOMAIN z.calls :
            /\ u.calls[k].kind = z.calls[k].kind /\ u.calls[k].res = z.calls[k].res
            /\ k \notin D => u.calls[k] = z.calls[k]
  BY <1>5, <1>6, DropFacts DEF u
<1>8. InstOK(i, u)
  <2>1. u.exec # 0 /\ u.status # "none"
    BY <1>2, <1>5, <1>7, BoundFacts
  <2> QED BY <1>5, <1>7, <2>1 DEF InstOK
<1>9. \A k \in DOMAIN z.calls : z.calls[k].kind = "child" => <<i, k>> \in DOMAIN Child
  BY <1>1, <1>5
<1>10. DOMAIN z.calls \subseteq CallId
  <2>1. DOMAIN z.calls = 1..Len(z.calls) /\ Len(z.calls) \in Nat
    BY <1>5 DEF Execution
  <2>2. MaxCalls[i] \in Nat /\ 1..MaxCalls[i] \subseteq CallId
    BY BoundFacts
  <2>3. 1..Len(z.calls) \subseteq 1..MaxCalls[i]
    BY <1>5, <2>1, <2>2
  <2> QED BY <2>1, <2>2, <2>3
<1>11. Continued(i, x, y, z, u, D)
  BY <1>5, <1>6, <1>7, <1>8, <1>9, <1>10 DEF Continued
<1>12. QuietRows(CancelChildren(i, z, D))
  BY <1>2, <1>5, <1>9, QuietSends
<1>13. TurnRows(i, q, z, NewRows(i, q, z) \o CancelChildren(i, z, D))
  BY <1>2, <1>3, <1>4, <1>5, <1>12, TurnRowsFacts
<1>14. NewRows(i, q, z) = NewRows(i, y, z) /\ NewCalls(q, z) = NewCalls(y, z)
  BY <1>3 DEF NewRows, NewCalls
<1>15. TurnRows(i, y, z, NewRows(i, y, z) \o CancelChildren(i, z, D))
  <2> DEFINE out == NewRows(i, y, z) \o CancelChildren(i, z, D)
  <2>1. TurnRows(i, q, z, out)
    BY <1>13, <1>14
  <2>2. \A row : TimerRow(i, q, z, row) <=> TimerRow(i, y, z, row)
    BY <1>14 DEF TimerRow
  <2> HIDE DEF out
  <2>3. TurnRows(i, y, z, out)
    BY <2>1, <2>2 DEF TurnRows
  <2> QED BY <2>3 DEF out
<1> QED BY <1>3, <1>4, <1>11, <1>15 DEF x, y, u

(* The instances after such a turn. *)
LEMMA ContinuedInstances ==
    ASSUME LifeInv, NEW i \in Instance, NEW n \in old[i]..Len(inbox[i]), Turn(i, n),
           NEW z, NEW u, NEW D, Continued(i, Before(i, n), After(i, n), z, u, D),
           NEW out, TurnRows(i, After(i, n), z, out), Ack(i, n, out),
           inst' = [inst EXCEPT ![i] = u]
    PROVE  /\ inst' \in [Instance -> Execution] /\ \A j \in Instance : InstOK(j, inst'[j])
           /\ inst'[i] = u /\ \A j \in Instance : j # i => inst'[j] = inst[j]
           /\ \A j \in Instance : InstInv(j)'
<1> DEFINE x == Before(i, n)
           y == After(i, n)
           K == BatchRows(i, n)
<1>1. TypeOK /\ \A j \in Instance : InstInv(j)
  BY DEF LifeInv, InstInv
<1>2. out \in Seq(AnyRow) /\ Moved(i, K, out)
  BY <1>1, AckMoves DEF TurnRows
<1>3. /\ inst' \in [Instance -> Execution] /\ \A j \in Instance : InstOK(j, inst'[j])
      /\ inst'[i] = u /\ \A j \in Instance : j # i => inst'[j] = inst[j]
  BY <1>1, InstUpdate DEF Continued
<1>4. ASSUME NEW j \in Instance, j # i PROVE InstInv(j)'
  <2>1. Moved(j, {}, out)
    BY <1>1, <1>2, <1>4, AckMoves
  <2>2. QuietTo(j, out)
    BY <1>4 DEF TurnRows, TimerRow, QuietTo
  <2> QED BY <1>1, <1>3, <1>4, <2>1, <2>2, QuietFrame
<1>5. K \subseteq DOMAIN inbox[i] /\ \A l \in DOMAIN inbox[i] \ K : inbox[i][l].msg.type # "can"
  BY <1>1, BatchFacts, BeforeFacts
<1>6. \A m \in Messages(i) : Own(m) =>
         /\ m.exec \in Nat /\ m.exec <= x.exec
         /\ m.exec = x.exec => OpenCall(x, m.id, m.kind)
  BY OwnOfTurn DEF Own
<1>7. /\ DOMAIN y.calls = DOMAIN x.calls
      /\ \A k \in DOMAIN y.calls :
            /\ y.calls[k].kind = x.calls[k].kind
            /\ y.calls[k].res = x.calls[k].res \/ Answered(i, n, x, k)
  BY AfterFacts
<1> HIDE DEF x, y, K
<1>8. NoTwins(i)'
  <2>1. ASSUME NEW k \in DOMAIN inbox[i] \ K, NEW l \in DOMAIN out, out[l].to = i
        PROVE  ~Twins(inbox[i][k].msg, out[l].msg)
    <3> DEFINE m == inbox[i][k].msg
    <3> SUFFICES ASSUME Twins(m, out[l].msg) PROVE FALSE
      OBVIOUS
    <3>1. m \in Messages(i)
      BY DEF Messages
    <3>2. TimerRow(i, y, z, out[l])
      BY DEF Twins, Quiet, TurnRows, y
    <3>3. Own(m) /\ m.id \in NewCalls(y, z) /\ m.exec = z.exec
      BY <3>2 DEF Twins, TimerRow
    <3>4. z.exec = x.exec
      BY DEF Continued, x
    <3>5. m.id \in DOMAIN x.calls
      BY <1>6, <3>1, <3>3, <3>4 DEF OpenCall
    <3> QED BY <1>7, <3>3, <3>5 DEF NewCalls
  <2>2. ASSUME NEW k \in DOMAIN out, NEW l \in DOMAIN out, k # l
        PROVE  ~Twins(out[k].msg, out[l].msg)
    <3> SUFFICES ASSUME Twins(out[k].msg, out[l].msg) PROVE FALSE
      OBVIOUS
    <3>1. TimerRow(i, y, z, out[k]) /\ TimerRow(i, y, z, out[l])
      BY DEF Twins, Quiet, TurnRows, y
    <3>2. out[k].msg.id # out[l].msg.id
      BY <2>2, <3>1 DEF TurnRows, y
    <3> QED BY <3>1, <3>2 DEF Twins, TimerRow
  <2> QED BY <1>1, <1>2, <2>1, <2>2, MovedTwins DEF InstInv
<1>9. ASSUME NEW m \in Messages(i)', ~Quiet(m)
      PROVE  \/ \E l \in DOMAIN inbox[i] \ K : inbox[i][l].msg = m
             \/ \E l \in DOMAIN out : out[l].msg = m /\ TimerRow(i, y, z, out[l])
  <2>1. \/ \E l \in DOMAIN inbox[i] \ K : inbox[i][l].msg = m
        \/ \E l \in DOMAIN out : out[l].to = i /\ out[l].msg = m
    BY <1>2, MovedMessages
  <2> QED BY <1>9, <2>1 DEF TurnRows, y
<1>10. Continuation(i)'
  <2> SUFFICES ASSUME NEW m \in Messages(i)', m.type = "can" PROVE FALSE
    BY DEF Continuation
  <2>1. ~Quiet(m)
    BY DEF Quiet
  <2> QED BY <1>5, <1>9, <2>1 DEF TimerRow
<1>11. u.exec = x.exec /\ z.exec = x.exec
  BY DEF Continued, x
<1>12. AnswersOpen(i)'
  <2> SUFFICES ASSUME NEW m \in Messages(i)', Own(m)
               PROVE  m.exec <= u.exec /\ (m.exec = u.exec => OpenCall(u, m.id, m.kind))
    BY <1>3 DEF AnswersOpen, Own, OpenCall
  <2>1. ~Quiet(m)
    BY DEF Quiet
  <2>2. CASE \E l \in DOMAIN inbox[i] \ K : inbox[i][l].msg = m
    <3>1. PICK l \in DOMAIN inbox[i] \ K : inbox[i][l].msg = m
      BY <2>2
    <3>2. m.exec <= x.exec /\ (m.exec = x.exec => OpenCall(x, m.id, m.kind))
      BY <1>6, <3>1 DEF Messages
    <3>3. ASSUME m.exec = x.exec PROVE OpenCall(u, m.id, m.kind)
      <4>1. /\ m.id \in DOMAIN x.calls /\ x.calls[m.id].kind = m.kind
            /\ x.calls[m.id].res = "none"
        BY <3>2, <3>3 DEF OpenCall
      <4>2. ~Answered(i, n, x, m.id)
        <5> SUFFICES ASSUME Answered(i, n, x, m.id) PROVE FALSE
          OBVIOUS
        <5>1. PICK k \in K : /\ inbox[i][k].msg.type = "done" /\ inbox[i][k].msg.exec = x.exec
                             /\ inbox[i][k].msg.id = m.id /\ inbox[i][k].msg.kind = m.kind
          BY <4>1 DEF Answered, K
        <5>2. k # l /\ k \in DOMAIN inbox[i] /\ l \in DOMAIN inbox[i]
          BY <1>5, <3>1
        <5>3. Twins(inbox[i][k].msg, inbox[i][l].msg)
          BY <3>1, <3>3, <5>1 DEF Twins, Own
        <5> QED BY <1>1, <5>2, <5>3 DEF InstInv, NoTwins
      <4>3. /\ m.id \in DOMAIN y.calls /\ y.calls[m.id].kind = m.kind
            /\ y.calls[m.id].res = "none"
        BY <1>7, <4>1, <4>2
      <4>4. /\ m.id \in DOMAIN z.calls /\ z.calls[m.id] = y.calls[m.id]
            /\ DOMAIN u.calls = DOMAIN z.calls
            /\ u.calls[m.id].kind = z.calls[m.id].kind /\ u.calls[m.id].res = z.calls[m.id].res
        BY <4>3 DEF Continued, y
      <4> QED BY <4>3, <4>4 DEF OpenCall
    <3> QED BY <1>11, <3>2, <3>3
  <2>3. CASE \E l \in DOMAIN out : out[l].msg = m /\ TimerRow(i, y, z, out[l])
    <3>1. /\ m.kind = "timer" /\ m.exec = z.exec /\ m.id \in NewCalls(y, z)
          /\ z.calls[m.id].kind = "timer"
      BY <2>3 DEF TimerRow
    <3>2. m.id \in DOMAIN z.calls /\ m.id \notin DOMAIN y.calls
      BY <3>1 DEF NewCalls
    <3>3. OpenCall(u, m.id, m.kind)
      BY <3>1, <3>2 DEF Continued, OpenCall, y
    <3>4. x.exec \in Nat
      BY BeforeFacts, BoundFacts DEF x
    <3> QED BY <1>11, <3>1, <3>3, <3>4
  <2> QED BY <1>9, <2>1, <2>2, <2>3
<1>13. ChildrenNamed(i)'
  BY <1>3 DEF ChildrenNamed, Continued
<1>14. InstInv(i)'
  BY <1>8, <1>10, <1>12, <1>13 DEF InstInv
<1> QED BY <1>3, <1>4, <1>14

(* A turn after which the execution goes on. *)
LEMMA GoingOn ==
    ASSUME LifeInv, NEW i \in Instance, NEW n \in old[i]..Len(inbox[i]),
           NEW r \in Runtime, ContinueTurn(r, i, n)
    PROVE  LifeInv'
<1> DEFINE x == Before(i, n)
           y == After(i, n)
<1>1. /\ Turn(i, n) /\ TypeOK /\ WorkOK /\ RestOK
      /\ UNCHANGED <<abrupt, starts, sent, cancels, faults>>
  BY TypeParts DEF LifeInv, ContinueTurn
<1>2. PICK q \in Dequeued(i, y), D \in SUBSET Outstanding(y) : \E z \in Scheduled(i, q) :
        LET added == (Len(y.calls) + 1)..Len(z.calls) IN
        /\ inst' = [inst EXCEPT ![i] = Drop(z, D)]
        /\ work' = (work \ Activities(i, z, D)) \cup Activities(i, z, added)
        /\ Ack(i, n, NewRows(i, y, z) \o CancelChildren(i, z, D))
        /\ tracked' = IF \E k \in added : z.calls[k].kind # "child"
                         THEN [tracked EXCEPT ![r][i] = z.exec] ELSE tracked
        /\ eaten' = [eaten EXCEPT ![i] = @ \o SubSeq(z.arrived, x.taken + 1, z.taken)]
  BY DEF ContinueTurn
<1>3. PICK z \in Scheduled(i, q) :
        LET added == (Len(y.calls) + 1)..Len(z.calls) IN
        /\ inst' = [inst EXCEPT ![i] = Drop(z, D)]
        /\ work' = (work \ Activities(i, z, D)) \cup Activities(i, z, added)
        /\ Ack(i, n, NewRows(i, y, z) \o CancelChildren(i, z, D))
        /\ tracked' = IF \E k \in added : z.calls[k].kind # "child"
                         THEN [tracked EXCEPT ![r][i] = z.exec] ELSE tracked
        /\ eaten' = [eaten EXCEPT ![i] = @ \o SubSeq(z.arrived, x.taken + 1, z.taken)]
  BY <1>2
<1> DEFINE u == Drop(z, D)
           out == NewRows(i, y, z) \o CancelChildren(i, z, D)
           added == (Len(y.calls) + 1)..Len(z.calls)
<1>4. Continued(i, x, y, z, u, D) /\ TurnRows(i, y, z, out)
  BY <1>1, ContinuedFacts
<1>5. inst' = [inst EXCEPT ![i] = u] /\ Ack(i, n, out)
  BY <1>3
<1>6. work' = (work \ Activities(i, z, D)) \cup Activities(i, z, added)
  BY <1>3
<1> HIDE DEF u, out
<1>7. /\ inst' \in [Instance -> Execution] /\ \A j \in Instance : InstOK(j, inst'[j])
      /\ inst'[i] = u /\ \A j \in Instance : j # i => inst'[j] = inst[j]
      /\ \A j \in Instance : InstInv(j)'
  BY <1>1, <1>4, <1>5, ContinuedInstances
<1>8. /\ x.exec \in Exec /\ x.taken \in Nat /\ y.taken = x.taken
      /\ DOMAIN y.calls = DOMAIN x.calls
      /\ DOMAIN y.calls = 1..Len(y.calls) /\ Len(y.calls) \in Nat
      /\ inst[i].status \in {"none", "running", "continued"}
  <2>1. x \in Execution /\ x.exec \in Exec /\ inst[i].status \in {"none", "running", "continued"}
    BY <1>1, BeforeFacts
  <2>2. y \in Execution /\ y.taken = x.taken /\ DOMAIN y.calls = DOMAIN x.calls
    BY <1>1, AfterFacts
  <2> HIDE DEF x, y
  <2> QED BY <2>1, <2>2 DEF Execution
<1> HIDE DEF x, y
<1>9. /\ z \in Execution /\ z.exec = x.exec /\ u.exec = x.exec /\ u.status = "running"
      /\ DOMAIN z.calls \subseteq CallId /\ DOMAIN u.calls = DOMAIN z.calls
      /\ D \subseteq DOMAIN y.calls /\ y.taken <= z.taken /\ z.taken <= Len(z.arrived)
      /\ \A k \in DOMAIN y.calls : k \in DOMAIN z.calls /\ z.calls[k] = y.calls[k]
  BY <1>4 DEF Continued
<1>10. added = DOMAIN z.calls \ DOMAIN y.calls
  <2>1. DOMAIN z.calls = 1..Len(z.calls) /\ Len(z.calls) \in Nat
    BY <1>9 DEF Execution
  <2> QED BY <1>8, <2>1
<1>11. \A a \in Activities(i, z, added) :
          \E k \in added : a = <<i, z.exec, k>> /\ z.calls[k].kind = "activity"
  BY DEF Activities
<1> HIDE DEF added
<1>12. WorkOK'
  <2>1. \A a \in Activities(i, z, added) : a \in Instance \X Exec \X CallId
    BY <1>8, <1>9, <1>10, <1>11
  <2> QED BY <1>1, <1>6, <2>1 DEF WorkOK
<1>13. RestOK'
  <2>1. tracked' \in [Runtime -> [Instance -> 0..MaxExec]]
    <3>1. tracked \in [Runtime -> [Instance -> 0..MaxExec]] /\ z.exec \in 0..MaxExec
      BY <1>1, <1>8, <1>9, BoundFacts DEF RestOK
    <3> DEFINE row == [tracked[r] EXCEPT ![i] = z.exec]
    <3>2. tracked' = tracked \/ tracked' = [tracked EXCEPT ![r] = row]
      BY <1>3
    <3>3. row \in [Instance -> 0..MaxExec]
      BY <3>1
    <3> HIDE DEF row
    <3> QED BY <3>1, <3>2, <3>3
  <2>2. eaten' \in [Instance -> Seq(Data)]
    <3>1. z.arrived \in Seq(Data) /\ z.taken \in Nat
      BY <1>9 DEF Execution
    <3>2. SubSeq(z.arrived, x.taken + 1, z.taken) \in Seq(Data)
      BY <1>8, <1>9, <3>1, SubSeqType
    <3>3. eaten \in [Instance -> Seq(Data)]
      BY <1>1 DEF RestOK
    <3>4. eaten[i] \o SubSeq(z.arrived, x.taken + 1, z.taken) \in Seq(Data)
      BY <3>2, <3>3
    <3> QED BY <1>3, <3>3, <3>4
  <2> QED BY <1>1, <2>1, <2>2 DEF RestOK
<1>14. TypeOK'
  <2>1. BoxOK'
    BY <1>1, <1>4, <1>5, AckBox DEF TurnRows
  <2> QED BY <1>7, <1>12, <1>13, <2>1, TypeNext
<1>15. out \in Seq(AnyRow) /\ Moved(i, BatchRows(i, n), out)
  BY <1>1, <1>4, <1>5, AckMoves DEF TurnRows
<1>16. \A k \in DOMAIN out : ~(out[k].msg.type = "done" /\ out[k].msg.kind = "activity")
  BY <1>4 DEF TurnRows, Quiet, Own, TimerRow
<1>17. ASSUME NEW a \in work, a[1] # i PROVE Wanted(a)'
  <2>1. Wanted(a) /\ a[1] \in Instance
    BY <1>1 DEF LifeInv, WorkOK
  <2>2. Moved(a[1], {}, out)
    BY <1>1, <1>5, <1>15, <1>17, <2>1, AckMoves
  <2>3. inst'[a[1]] = inst[a[1]]
    BY <1>7, <1>17, <2>1
  <2> QED BY <1>1, <1>16, <2>1, <2>2, <2>3, WantedFrame
<1>18. ASSUME NEW a, a = <<i, z.exec, a[3]>>, a[3] \in DOMAIN z.calls \ D,
             z.calls[a[3]].kind = "activity", z.calls[a[3]].res = "none",
             ~z.calls[a[3]].dropped,
             \A m \in Messages(i) :
                ~(m.type = "done" /\ m.kind = "activity" /\ m.exec = a[2] /\ m.id = a[3])
       PROVE  Wanted(a)'
  <2>1. a[1] = i /\ a[2] = z.exec
    BY <1>18
  <2>2. u.calls[a[3]] = z.calls[a[3]]
    BY <1>4, <1>18 DEF Continued
  <2>3. a[3] \in Outstanding(u) /\ u.calls[a[3]].kind = "activity"
    BY <1>9, <1>18, <2>2 DEF Outstanding
  <2>4. \A m \in Messages(i)' :
           ~(m.type = "done" /\ m.kind = "activity" /\ m.exec = a[2] /\ m.id = a[3])
    <3> SUFFICES ASSUME NEW m \in Messages(i)', m.type = "done", m.kind = "activity",
                        m.exec = a[2], m.id = a[3]
                 PROVE  FALSE
      OBVIOUS
    <3>1. \/ \E l \in DOMAIN inbox[i] \ BatchRows(i, n) : inbox[i][l].msg = m
          \/ \E l \in DOMAIN out : out[l].to = i /\ out[l].msg = m
      BY <1>15, MovedMessages
    <3>2. m \in Messages(i)
      BY <1>16, <3>1 DEF Messages
    <3> QED BY <1>18, <3>2
  <2>5. u.exec \in Nat
    BY <1>8, <1>9, BoundFacts
  <2>6. /\ inst'[a[1]].status = "running" /\ inst'[a[1]].exec = a[2]
        /\ a[3] \in Outstanding(inst'[a[1]]) /\ inst'[a[1]].calls[a[3]].kind = "activity"
        /\ a[2] <= inst'[a[1]].exec
    BY <1>7, <1>9, <2>1, <2>3, <2>5
  <2>7. \A m \in Messages(a[1])' :
           ~(m.type = "done" /\ m.kind = "activity" /\ m.exec = a[2] /\ m.id = a[3])
    BY <2>1, <2>4
  <2> QED BY <2>6, <2>7 DEF Wanted, Outstanding
<1>19. ASSUME NEW a \in work, a[1] = i, a \notin Activities(i, z, D) PROVE Wanted(a)'
  <2>1. /\ inst[i].status = "running" /\ a[2] = z.exec /\ a[3] \in Outstanding(y)
        /\ z.calls[a[3]].kind = "activity"
    BY <1>1, <1>9, <1>19, Withdrawn DEF x, y
  <2>2. Wanted(a) /\ a = <<a[1], a[2], a[3]>>
    BY <1>1 DEF LifeInv, WorkOK
  <2>3. a = <<i, z.exec, a[3]>>
    BY <1>19, <2>1, <2>2
  <2>4. a[3] \notin D
    BY <1>19, <2>1, <2>3 DEF Activities
  <2>5. /\ a[3] \in DOMAIN y.calls /\ y.calls[a[3]].res = "none" /\ ~y.calls[a[3]].dropped
    BY <2>1 DEF Outstanding
  <2>6. \A m \in Messages(i) :
           ~(m.type = "done" /\ m.kind = "activity" /\ m.exec = a[2] /\ m.id = a[3])
    BY <1>19, <2>2 DEF Wanted
  <2> QED BY <1>9, <1>18, <2>1, <2>3, <2>4, <2>5, <2>6
<1>20. ASSUME NEW a \in Activities(i, z, added) PROVE Wanted(a)'
  <2>1. PICK k \in added : a = <<i, z.exec, k>> /\ z.calls[k].kind = "activity"
    BY <1>11
  <2>2. a[3] = k /\ a[2] = z.exec /\ a = <<i, z.exec, a[3]>> /\ k \in DOMAIN z.calls \ D
    BY <1>9, <1>10, <2>1
  <2>3. z.calls[k].res = "none" /\ ~z.calls[k].dropped
    BY <1>4, <1>10, <2>1 DEF Continued
  <2>4. \A m \in Messages(i) :
           ~(m.type = "done" /\ m.kind = "activity" /\ m.exec = a[2] /\ m.id = a[3])
    <3> SUFFICES ASSUME NEW m \in Messages(i), m.type = "done", m.kind = "activity",
                        m.exec = x.exec, m.id = k
                 PROVE  FALSE
      BY <1>9, <2>2
    <3>1. Own(m)
      BY DEF Own
    <3>2. OpenCall(x, m.id, m.kind)
      BY <1>1, <3>1, OwnOfTurn DEF x
    <3> QED BY <1>8, <1>10, <2>1, <3>2 DEF OpenCall
  <2> QED BY <1>18, <2>1, <2>2, <2>3, <2>4
<1>21. \A a \in work' : Wanted(a)'
  BY <1>6, <1>17, <1>19, <1>20
<1>22. \A j \in abrupt' : inst'[j].status = "failed"
  BY <1>1, <1>7, <1>8 DEF LifeInv, RestOK
<1> QED BY <1>7, <1>14, <1>21, <1>22 DEF LifeInv, InstInv

(* A worker completes an activity. *)
LEMMA WorkerStep ==
    ASSUME LifeInv, NEW a \in work, NEW res \in {"ok", "app", "sys"}, CompleteActivity(a, res)
    PROVE  LifeInv'
<1> DEFINE m == Done("activity", a[2], a[3], res, a[2])
           i == a[1]
<1>1. /\ TypeOK /\ WorkOK /\ RestOK /\ Wanted(a) /\ Enqueue(i, m) /\ work' = work \ {a}
      /\ UNCHANGED <<inst, old, tracked, eaten, abrupt, starts, sent, cancels, faults>>
      /\ \A j \in Instance : InstInv(j)
  BY TypeParts DEF LifeInv, CompleteActivity, InstInv
<1>2. i \in Instance /\ a[2] \in Exec /\ a[3] \in CallId /\ a = <<a[1], a[2], a[3]>>
  BY <1>1 DEF WorkOK
<1>3. /\ m \in Message /\ m.type = "done" /\ m.kind = "activity" /\ m.exec = a[2] /\ m.id = a[3]
  BY <1>2, MessageTypes DEF CallKind
<1> HIDE DEF m
<1> DEFINE row == Row(i, m, 0)
<1>4. row.to = i /\ row.msg = m
  BY <1>2, <1>3, BoundFacts, RowFacts
<1>5. BoxOK' /\ \A j \in Instance : Moved(j, {}, <<row>>)
  BY <1>1, <1>2, <1>3, EnqueueMoves, EnqueueBox
<1> HIDE DEF row
<1>6. DOMAIN <<row>> = {1} /\ <<row>>[1] = row
  OBVIOUS
<1>7. TypeOK'
  <2>1. inst \in [Instance -> Execution] /\ (\A j \in Instance : InstOK(j, inst[j]))
    BY <1>1, TypeParts
  <2>2. WorkOK' /\ RestOK'
    BY <1>1 DEF WorkOK, RestOK
  <2> QED BY <1>1, <1>5, <2>1, <2>2, TypeNext
<1>8. ASSUME NEW j \in Instance, j # i PROVE InstInv(j)'
  <2>1. QuietTo(j, <<row>>)
    BY <1>4, <1>6, <1>8 DEF QuietTo
  <2>2. Moved(j, {}, <<row>>) /\ InstInv(j) /\ inst'[j] = inst[j]
    BY <1>1, <1>5
  <2> QED BY <2>1, <2>2, QuietFrame
<1>9. Moved(i, {}, <<row>>) /\ InstInv(i)
  BY <1>1, <1>2, <1>5
<1>10. \A l \in Messages(i)' : l \in Messages(i) \/ l = m
  <2> SUFFICES ASSUME NEW l \in Messages(i)' PROVE l \in Messages(i) \/ l = m
    OBVIOUS
  <2>1. \/ \E k \in DOMAIN inbox[i] \ {} : inbox[i][k].msg = l
        \/ \E k \in DOMAIN <<row>> : <<row>>[k].to = i /\ <<row>>[k].msg = l
    BY <1>9, MovedMessages
  <2> QED BY <1>4, <1>6, <2>1 DEF Messages
<1>11. NoTwins(i)'
  <2>1. \A k \in DOMAIN inbox[i] : ~Twins(inbox[i][k].msg, m)
    BY <1>1, <1>3 DEF Wanted, Twins, Own, Messages
  <2>2. /\ \A k \in DOMAIN inbox[i] \ {}, l \in DOMAIN <<row>> :
             <<row>>[l].to = i => ~Twins(inbox[i][k].msg, <<row>>[l].msg)
        /\ \A k, l \in DOMAIN <<row>> : ~(k # l)
    BY <1>4, <1>6, <2>1
  <2>3. NoTwins(i)
    BY <1>9 DEF InstInv
  <2> QED BY <1>9, <2>2, <2>3, MovedTwins
<1>12. Continuation(i)'
  BY <1>1, <1>3, <1>9, <1>10 DEF InstInv, Continuation
<1>13. AnswersOpen(i)'
  <2>1. m.exec <= inst[i].exec
    BY <1>1, <1>3 DEF Wanted
  <2>2. m.exec = inst[i].exec /\ inst[i].status = "running" => OpenCall(inst[i], m.id, m.kind)
    <3>1. i \in abrupt => inst[i].status = "failed"
      BY DEF LifeInv
    <3> QED BY <1>1, <1>3, <3>1 DEF Wanted, Outstanding, OpenCall
  <2>3. \A l \in Messages(i) : Own(l) =>
           /\ l.exec <= inst[i].exec
           /\ l.exec = inst[i].exec /\ inst[i].status = "running" => OpenCall(inst[i], l.id, l.kind)
    BY <1>9 DEF InstInv, AnswersOpen
  <2>4. inst' = inst
    BY <1>1
  <2> QED BY <1>10, <2>1, <2>2, <2>3, <2>4 DEF AnswersOpen, OpenCall, Own
<1>14. ChildrenNamed(i)'
  BY <1>1, <1>9 DEF InstInv, ChildrenNamed
<1>15. InstInv(i)'
  BY <1>11, <1>12, <1>13, <1>14 DEF InstInv
<1>16. ASSUME NEW b \in work' PROVE Wanted(b)'
  <2>1. b \in work /\ b # a /\ Wanted(b) /\ b[1] \in Instance /\ b = <<b[1], b[2], b[3]>>
    BY <1>1 DEF LifeInv, WorkOK
  <2>2. ~(b[1] = i /\ a[2] = b[2] /\ a[3] = b[3])
    BY <1>2, <2>1
  <2>3. Moved(b[1], {}, <<row>>)
    BY <1>5, <2>1
  <2>4. \A l \in DOMAIN <<row>> : <<row>>[l].to = b[1] =>
           ~(/\ <<row>>[l].msg.type = "done" /\ <<row>>[l].msg.kind = "activity"
             /\ <<row>>[l].msg.exec = b[2] /\ <<row>>[l].msg.id = b[3])
    BY <1>3, <1>4, <1>6, <2>2
  <2>5. inst'[b[1]] = inst[b[1]] /\ abrupt \subseteq abrupt'
    BY <1>1
  <2> QED BY <2>1, <2>3, <2>4, <2>5, WantedFrame
<1>17. \A j \in abrupt' : inst'[j].status = "failed"
  BY <1>1 DEF LifeInv
<1> QED BY <1>7, <1>8, <1>15, <1>16, <1>17 DEF LifeInv, InstInv

----------------------------------------------------------------------------
(* The invariant, and what follows from it. *)

(* It holds at first. *)
LEMMA LifeInit == Init => LifeInv
<1> SUFFICES ASSUME Init PROVE LifeInv
  OBVIOUS
<1> DEFINE u == Fresh(0, "none", NoLink)
<1>1. /\ u \in Execution /\ u.exec = 0 /\ u.status = "none" /\ u.calls = <<>>
      /\ u.arrived = <<>> /\ u.taken = 0
  <2>1. 0 \in 0..MaxExec /\ NoLink \in Link
    BY BoundFacts DEF Link
  <2> QED BY <2>1, FreshFacts
<1>2. \A i \in Instance : inst[i] = u /\ inbox[i] = <<>> /\ old[i] = 0
  BY DEF Init
<1>3. inst \in [Instance -> Execution]
  BY <1>1 DEF Init
<1> HIDE DEF u
<1>4. \A i \in Instance : InstOK(i, inst[i])
  <2>1. Len(u.calls) = 0 /\ Len(u.arrived) = 0
    BY <1>1
  <2> QED BY <1>1, <1>2, <2>1, BoundFacts DEF InstOK
<1>5. BoxOK
  <2>1. \A S : <<>> \in Seq(S) /\ Len(<<>>) = 0
    OBVIOUS
  <2> QED BY <1>2, <2>1 DEF BoxOK, Init
<1>6. WorkOK
  BY DEF WorkOK, Init
<1>7. RestOK
  <2>1. 0 \in 0..MaxExec /\ 0 \in 0..MaxStarts /\ 0 \in 0..MaxData /\ 0 \in 0..MaxCancels
        /\ 0 \in 0..MaxFaults
    BY LifecycleAssumption
  <2>2. <<>> \in Seq(Data)
    OBVIOUS
  <2> QED BY <2>1, <2>2 DEF RestOK, Init
<1>8. TypeOK
  BY <1>3, <1>4, <1>5, <1>6, <1>7, TypeParts
<1>9. \A i \in Instance : DOMAIN inbox[i] = {} /\ Messages(i) = {} /\ DOMAIN inst[i].calls = {}
  BY <1>1, <1>2 DEF Messages
<1>10. \A i \in Instance : NoTwins(i) /\ Continuation(i) /\ AnswersOpen(i) /\ ChildrenNamed(i)
  BY <1>9 DEF NoTwins, Continuation, AnswersOpen, ChildrenNamed
<1>11. work = {} /\ abrupt = {}
  BY DEF Init
<1> QED BY <1>8, <1>10, <1>11 DEF LifeInv

(* Every step preserves it. *)
LEMMA LifeNext == LifeInv /\ [Next]_vars => LifeInv'
<1> SUFFICES ASSUME LifeInv, [Next]_vars PROVE LifeInv'
  OBVIOUS
<1>0. \A i \in Instance : Registered[i] \subseteq Runtime
  BY LifecycleAssumption
<1>1. CASE UNCHANGED vars
  BY <1>1 DEF vars, LifeInv, TypeOK, NoTwins, Continuation, AnswersOpen, ChildrenNamed, Wanted,
     Messages, Outstanding
<1>2. ASSUME NEW i \in Root, StartOrchestration(i) PROVE LifeInv'
  <2>1. i \in Instance
    BY LifecycleAssumption
  <2> QED BY <1>2, <2>1, ClientSteps
<1>3. ASSUME NEW i \in Mailbox, EnqueueEvent(i) PROVE LifeInv'
  <2>1. i \in Instance
    BY LifecycleAssumption
  <2> QED BY <1>3, <2>1, ClientSteps
<1>4. ASSUME NEW i \in Instance, RequestCancel(i) PROVE LifeInv'
  BY <1>4, ClientSteps
<1>5. ASSUME NEW i \in Instance,
             \/ Abandon(i)
             \/ \E h \in 1..MaxFaults : Reappear(i, h)
             \/ \E k \in DOMAIN inbox[i] : Fire(i, k)
      PROVE  LifeInv'
  BY <1>5, HidingSteps
<1>6. ASSUME NEW a \in work, NEW res \in {"ok", "app", "sys"}, CompleteActivity(a, res)
      PROVE  LifeInv'
  BY <1>6, WorkerStep
<1>7. ASSUME NEW i \in Instance, NEW n \in old[i]..Len(inbox[i]), AckEnded(i, n) PROVE LifeInv'
  BY <1>7, EndedAck
<1>8. ASSUME NEW i \in Instance, NEW n \in old[i]..Len(inbox[i]), ContinueAsNewTurn(i, n)
      PROVE  LifeInv'
  BY <1>8, ContinuingTurn
<1>9. ASSUME NEW i \in Instance, NEW n \in old[i]..Len(inbox[i]),
             FailureAck(i, n) \/ \E r \in Runtime : Poison(r, i, n)
      PROVE  LifeInv'
  BY <1>9, AbruptTurns
<1>10. ASSUME NEW i \in Instance, NEW n \in old[i]..Len(inbox[i]), NEW r \in Runtime,
              FailTurn(r, i, n) \/ Panic(r, i, n) \/ CancelTurn(r, i, n) \/ ReturnTurn(r, i, n)
       PROVE  LifeInv'
  BY <1>10, EndingTurns
<1>11. ASSUME NEW i \in Instance, NEW n \in old[i]..Len(inbox[i]), NEW r \in Runtime,
              ContinueTurn(r, i, n)
       PROVE  LifeInv'
  BY <1>11, GoingOn
<1>12. ASSUME NEW r \in Runtime, Restart(r) PROVE LifeInv'
  BY <1>12, RestartStep
<1> QED BY <1>0, <1>1, <1>2, <1>3, <1>4, <1>5, <1>6, <1>7, <1>8, <1>9, <1>10, <1>11, <1>12 DEF Next

(* So it always holds: completions and continuations are unique in an      *)
(* inbox, each completion is for an open call or for an execution that is  *)
(* over, and each activity in the worker queue is wanted.                  *)
THEOREM LifeInvariant == Spec => []LifeInv
BY LifeInit, LifeNext, PTL DEF Spec

(* Every variable has its type in every reachable state: executions keep   *)
(* within their bounds, and every row is in the inbox of its addressee.    *)
THEOREM LifecycleTypes == Spec => []TypeOK
<1>1. LifeInv => TypeOK
  BY DEF LifeInv
<1> QED BY <1>1, LifeInvariant, PTL

(* A completion of an activity or a timer never looks nondeterministic to  *)
(* its instance, over any number of executions that reuse schedule ids.    *)
THEOREM OwnAnswersMatchTheorem == Spec => []OwnAnswersMatch
<1>1. LifeInv => OwnAnswersMatch
  <2> SUFFICES ASSUME LifeInv, NEW i \in Instance, NEW m \in Messages(i), Incriminating(i, m)
               PROVE  m.kind = "child"
    BY DEF OwnAnswersMatch
  <2>1. AnswersOpen(i)
    BY DEF LifeInv
  <2> QED BY <2>1 DEF Incriminating, Considered, IsForCurrentExecution, Unexpected, AnswersOpen,
                      Own, OpenCall
<1> QED BY <1>1, LifeInvariant, PTL

(* No activity outlives the execution that wants its result, except those  *)
(* of an instance that the runtime failed.                                 *)
THEOREM NoOrphanWorkTheorem == Spec => []NoOrphanWork
<1>1. LifeInv => NoOrphanWork
  BY DEF LifeInv, NoOrphanWork, Wanted
<1> QED BY <1>1, LifeInvariant, PTL
=============================================================================
