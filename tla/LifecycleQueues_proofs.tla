----------------------- MODULE LifecycleQueues_proofs -----------------------
(***************************************************************************)
(* Theorems about the event queue of an instance.  Its stream, what the    *)
(* instance dequeued, has buffered, carries on and has in its inbox, is    *)
(* followed through every step: a step leaves messages of the stream out,  *)
(* keeps their order unless turns were abandoned, or adds a new message at *)
(* the end.                                                                *)
(***************************************************************************)
EXTENDS Lifecycle_proofs, FiniteSetTheorems

----------------------------------------------------------------------------
(* The queue messages of an inbox. *)

QueueRows(box) == {k \in DOMAIN box : box[k].msg.type = "queue"}

Payload(box) == [k \in DOMAIN box |-> box[k].msg.data]

(* The queue messages of `new' are those of `box' at P, in their order. *)
Kept(new, box, P) ==
    \E g \in [QueueRows(new) -> P] :
        /\ \A k \in QueueRows(new) : new[k].msg = box[g[k]].msg
        /\ \A j, k \in QueueRows(new) : j < k => g[j] < g[k]
        /\ \A p \in P : \E k \in QueueRows(new) : g[k] = p

(* And they are in rows of `box', as these were. *)
Copied(new, box, P) ==
    Kept(new, box, P) /\ \A k \in QueueRows(new) : \E l \in DOMAIN box : new[k] = box[l]

(* An inbox keeps its own messages. *)
LEMMA KeptSelf ==
    ASSUME NEW box, NEW new, DOMAIN new = DOMAIN box,
           \A k \in DOMAIN box : new[k].msg = box[k].msg
    PROVE  Kept(new, box, QueueRows(box))
<1> DEFINE g == [k \in QueueRows(box) |-> k]
<1>1. QueueRows(new) = QueueRows(box)
  BY DEF QueueRows
<1>2. g \in [QueueRows(new) -> QueueRows(box)] /\ \A k \in QueueRows(new) : g[k] = k
  BY <1>1
<1>3. \A k \in QueueRows(new) : new[k].msg = box[k].msg
  BY DEF QueueRows
<1> HIDE DEF g
<1> QED BY <1>1, <1>2, <1>3 DEF Kept

(* What is kept is listed. *)
LEMMA KeptListed ==
    ASSUME NEW i \in Instance, NEW new \in Seq(Rows(i)), NEW box \in Seq(Rows(i)),
           NEW P \in SUBSET DOMAIN box, Kept(new, box, P)
    PROVE  Arrivals(new) \in Seq(Data) /\ Lists(Arrivals(new), Payload(box), P)
<1> DEFINE K == QueueRows(new)
           u == Arrivals(new)
           n == Cardinality(K)
<1>1. u \in Seq(Data)
  BY ArrivalTypes
<1> HIDE DEF K, u, n
<1>0. K = {k \in DOMAIN new : new[k].msg.type = "queue"}
  BY DEF K, QueueRows
<1>2. /\ Enumerated(K) /\ Len(RowsOf(new, "queue")) = n
      /\ RowsOf(new, "queue") \in Seq(Rows(i))
      /\ \A m \in 1..Len(RowsOf(new, "queue")) :
            Place(K, m) \in K /\ RowsOf(new, "queue")[m] = new[Place(K, m)]
  BY <1>0, RowsOfFacts DEF n
<1>3. DOMAIN u = 1..n /\ \A m \in 1..n : u[m] = new[Place(K, m)].msg.data
  <2>1. DOMAIN RowsOf(new, "queue") = 1..n
    BY <1>2
  <2>2. u = [m \in DOMAIN RowsOf(new, "queue") |-> RowsOf(new, "queue")[m].msg.data]
    BY DEF Arrivals, u
  <2> QED BY <1>2, <2>1, <2>2
<1>4. PICK g \in [K -> P] :
        /\ \A k \in K : new[k].msg = box[g[k]].msg
        /\ \A j, k \in K : j < k => g[j] < g[k]
        /\ \A p \in P : \E k \in K : g[k] = p
  BY DEF Kept, K
<1> DEFINE h == [m \in 1..n |-> g[Place(K, m)]]
<1>5. /\ n \in Nat /\ \A m \in 1..n : Place(K, m) \in K
      /\ \A l, m \in 1..n : l < m => Place(K, l) < Place(K, m)
      /\ \A k \in K : \E m \in 1..n : Place(K, m) = k
  BY <1>2 DEF Enumerated, n
<1>6. h \in [DOMAIN u -> P] /\ \A m \in 1..n : h[m] = g[Place(K, m)]
  BY <1>3, <1>4, <1>5
<1> HIDE DEF h
<1>7. ASSUME NEW m \in DOMAIN u PROVE u[m] = Payload(box)[h[m]]
  <2>1. Place(K, m) \in K /\ h[m] = g[Place(K, m)] /\ h[m] \in DOMAIN box
    BY <1>3, <1>4, <1>5, <1>6
  <2>2. new[Place(K, m)].msg = box[h[m]].msg
    BY <1>4, <2>1
  <2> QED BY <1>3, <2>1, <2>2 DEF Payload
<1>8. ASSUME NEW l \in DOMAIN u, NEW m \in DOMAIN u, l < m PROVE h[l] < h[m]
  BY <1>3, <1>4, <1>5, <1>6, <1>8
<1>9. ASSUME NEW p \in P PROVE \E m \in DOMAIN u : h[m] = p
  <2>1. PICK k \in K : g[k] = p
    BY <1>4
  <2>2. PICK m \in 1..n : Place(K, m) = k
    BY <1>5
  <2> QED BY <1>3, <1>6, <2>1, <2>2
<1>10. Lists(u, Payload(box), P)
  BY <1>6, <1>7, <1>8, <1>9 DEF Lists
<1> QED BY <1>1, <1>10 DEF u

(* The queue messages of an inbox, and of a batch. *)
LEMMA BoxListed ==
    ASSUME NEW i \in Instance, NEW box \in Seq(Rows(i))
    PROVE  /\ Arrivals(box) \in Seq(Data) /\ QueueRows(box) \in SUBSET DOMAIN box
           /\ Lists(Arrivals(box), Payload(box), QueueRows(box))
<1>1. QueueRows(box) \in SUBSET DOMAIN box
  BY DEF QueueRows
<1>2. Kept(box, box, QueueRows(box))
  BY KeptSelf
<1> QED BY <1>1, <1>2, KeptListed

(* A selection of rows, followed by rows that are no queue messages.       *)
LEMMA PickKept ==
    ASSUME NEW i \in Instance, NEW box \in Seq(Rows(i)), NEW K \in SUBSET DOMAIN box,
           NEW new, NEW tail \in Seq(AnyRow), new = Pick(box, K) \o tail,
           \A k \in DOMAIN tail : tail[k].msg.type # "queue"
    PROVE  Copied(new, box, K \cap QueueRows(box))
<1> DEFINE s == Pick(box, K)
           n == Cardinality(K)
           P == K \cap QueueRows(box)
           g == [k \in QueueRows(new) |-> Place(K, k)]
<1>1. Enumerated(K)
  <2>1. K \in SUBSET (1..Len(box)) /\ Len(box) \in Nat
    OBVIOUS
  <2> QED BY <2>1, PlaceFacts
<1>2. /\ Len(s) = n /\ \A m \in 1..n : s[m] = box[Place(K, m)]
  BY <1>1, PickFacts
<1>3. s \in Seq(AnyRow)
  <2>1. \A k \in K : box[k] \in AnyRow
    BY AnyRowFacts
  <2> QED BY <1>1, <2>1, PickType
<1> HIDE DEF s
<1>4. /\ DOMAIN new = 1..(n + Len(tail)) /\ n \in Nat /\ Len(tail) \in Nat
      /\ \A k \in 1..n : new[k] = s[k]
      /\ \A k \in (n + 1)..(n + Len(tail)) : new[k] = tail[k - n]
  BY <1>2, <1>3, ConcatFacts DEF s
<1> HIDE DEF n
<1>5. /\ \A m \in 1..n : Place(K, m) \in K
      /\ \A l, m \in 1..n : l < m => Place(K, l) < Place(K, m)
      /\ \A k \in K : \E m \in 1..n : Place(K, m) = k
  BY <1>1 DEF Enumerated, n
<1>6. ASSUME NEW k \in QueueRows(new)
      PROVE  k \in 1..n /\ new[k] = box[Place(K, k)] /\ Place(K, k) \in P
  <2>1. k \in 1..(n + Len(tail)) /\ new[k].msg.type = "queue"
    BY <1>4 DEF QueueRows
  <2>2. k <= n
    <3>1. ASSUME ~(k <= n) PROVE FALSE
      <4>1. k \in (n + 1)..(n + Len(tail)) /\ k - n \in DOMAIN tail
        BY <1>4, <2>1, <3>1
      <4> QED BY <1>4, <2>1, <4>1
    <3> QED BY <3>1
  <2>3. k \in 1..n
    BY <1>4, <2>1, <2>2
  <2>4. new[k] = box[Place(K, k)] /\ Place(K, k) \in K
    BY <1>2, <1>4, <1>5, <2>3 DEF n
  <2> QED BY <2>1, <2>3, <2>4 DEF QueueRows
<1>7. g \in [QueueRows(new) -> P] /\ \A k \in QueueRows(new) : g[k] = Place(K, k)
  BY <1>6
<1> HIDE DEF g
<1>8. \A k \in QueueRows(new) : new[k].msg = box[g[k]].msg
  BY <1>6, <1>7
<1>9. ASSUME NEW j \in QueueRows(new), NEW k \in QueueRows(new), j < k PROVE g[j] < g[k]
  BY <1>5, <1>6, <1>7, <1>9
<1>10. ASSUME NEW p \in P PROVE \E k \in QueueRows(new) : g[k] = p
  <2>1. PICK m \in 1..n : Place(K, m) = p
    BY <1>5
  <2>2. m \in DOMAIN new /\ new[m] = box[p]
    BY <1>2, <1>4, <2>1 DEF n
  <2>3. m \in QueueRows(new)
    BY <2>2 DEF QueueRows
  <2> QED BY <1>7, <2>1, <2>3
<1>11. Kept(new, box, P)
  BY <1>7, <1>8, <1>9, <1>10 DEF Kept
<1>12. \A k \in QueueRows(new) : \E l \in DOMAIN box : new[k] = box[l]
  BY <1>6
<1> QED BY <1>11, <1>12 DEF Copied

----------------------------------------------------------------------------
(* The stream of an instance, from its parts. *)

CarryOf(box) ==
    LET c == RowsOf(box, "can") IN IF c = <<>> THEN <<>> ELSE c[1].msg.carry

Flow(e, x, box) == (e \o Buffered(x)) \o (CarryOf(box) \o Arrivals(box))

(* It is made of these parts, before and after a step. *)
LEMMA StreamParts ==
    ASSUME NEW i
    PROVE  /\ Stream(i) = Flow(eaten[i], inst[i], inbox[i])
           /\ Stream(i)' = Flow(eaten'[i], inst'[i], inbox'[i])
BY DEF Stream, InTransit, Flow, CarryOf, Buffered, Arrivals, RowsOf

(* The rows of a kind are rows of the inbox. *)
LEMMA RowsFrom ==
    ASSUME NEW i \in Instance, NEW b \in Seq(Rows(i)), NEW type
    PROVE  /\ RowsOf(b, type) \in Seq(Rows(i))
           /\ \A n \in DOMAIN RowsOf(b, type) :
                 \E k \in DOMAIN b : b[k].msg.type = type /\ RowsOf(b, type)[n] = b[k]
           /\ \A n \in DOMAIN RowsOf(b, type) :
                 RowsOf(b, type)[n].msg.type = type /\ RowsOf(b, type)[n].msg \in Message
           /\ Has(b, type) <=> RowsOf(b, type) # <<>>
           /\ Has(b, type) => 1 \in DOMAIN RowsOf(b, type)
<1> DEFINE K == {k \in DOMAIN b : b[k].msg.type = type}
           rows == RowsOf(b, type)
<1>1. rows \in Seq(Rows(i))
  BY RowsOfFacts
<1>2. \A n \in DOMAIN rows : rows[n].msg.type = type /\ rows[n].msg \in Message
  BY RowsOfFacts
<1>3. Has(b, type) => 1 \in DOMAIN rows
  BY RowsOfFacts
<1>4. Enumerated(K) /\ rows = Pick(b, K)
  <2>1. K \in SUBSET (1..Len(b)) /\ Len(b) \in Nat
    OBVIOUS
  <2>2. Enumerated(K)
    BY <2>1, PlaceFacts
  <2> QED BY <2>2 DEF RowsOf
<1>5. K \subseteq DOMAIN b /\ \A k \in K : b[k].msg.type = type
  OBVIOUS
<1> HIDE DEF K
<1>6. /\ DOMAIN Pick(b, K) = 1..Cardinality(K)
      /\ \A m \in 1..Cardinality(K) : Pick(b, K)[m] = b[Place(K, m)]
  BY <1>4, PickFacts
<1> HIDE DEF rows
<1>7. ASSUME NEW n \in DOMAIN rows
      PROVE  \E k \in DOMAIN b : b[k].msg.type = type /\ rows[n] = b[k]
  <2>1. n \in 1..Cardinality(K) /\ rows[n] = b[Place(K, n)]
    BY <1>4, <1>6
  <2>2. Place(K, n) \in K
    BY <1>4, <2>1 DEF Enumerated
  <2> QED BY <1>5, <2>1, <2>2
<1>8. Has(b, type) => rows # <<>>
  BY <1>3
<1>9. rows # <<>> => Has(b, type)
  <2>1. rows # <<>> => 1 \in DOMAIN rows
    BY <1>1
  <2> QED BY <1>7, <2>1 DEF Has
<1> QED BY <1>1, <1>2, <1>3, <1>7, <1>8, <1>9 DEF rows

(* What is carried on in an inbox: that of its ContinueAsNew. *)
LEMMA CarryFacts ==
    ASSUME NEW i \in Instance, NEW box \in Seq(Rows(i))
    PROVE  /\ CarryOf(box) \in Seq(Data)
           /\ ~Has(box, "can") => CarryOf(box) = <<>>
           /\ Has(box, "can") => \E k \in DOMAIN box : /\ box[k].msg.type = "can"
                                                       /\ CarryOf(box) = box[k].msg.carry
           /\ Carried(box) = IF IsContinueAsNew(box) THEN CarryOf(box) ELSE <<>>
<1> DEFINE c == RowsOf(box, "can")
<1>1. /\ c \in Seq(Rows(i))
      /\ \A n \in DOMAIN c : \E k \in DOMAIN box : box[k].msg.type = "can" /\ c[n] = box[k]
      /\ \A n \in DOMAIN c : c[n].msg.type = "can" /\ c[n].msg \in Message
      /\ Has(box, "can") <=> c # <<>>
      /\ Has(box, "can") => 1 \in DOMAIN c
  BY RowsFrom
<1>2. CarryOf(box) = IF c = <<>> THEN <<>> ELSE c[1].msg.carry
  BY DEF CarryOf
<1>3. IsContinueAsNew(box) => Has(box, "can")
  BY DEF IsContinueAsNew, Has
<1>4. Carried(box) = IF IsContinueAsNew(box) THEN c[1].msg.carry ELSE <<>>
  BY DEF Carried
<1> HIDE DEF c
<1>5. CASE Has(box, "can")
  <2>1. 1 \in DOMAIN c /\ CarryOf(box) = c[1].msg.carry
    BY <1>1, <1>2, <1>5
  <2>2. c[1].msg.carry \in Seq(Data)
    BY <1>1, <2>1, MessageFacts
  <2>3. PICK k \in DOMAIN box : box[k].msg.type = "can" /\ c[1] = box[k]
    BY <1>1, <2>1
  <2> QED BY <1>4, <1>5, <2>1, <2>2, <2>3
<1>6. CASE ~Has(box, "can")
  <2>1. CarryOf(box) = <<>> /\ <<>> \in Seq(Data)
    BY <1>1, <1>2, <1>6
  <2> QED BY <1>3, <1>4, <1>6, <2>1
<1> QED BY <1>5, <1>6

(* The same ContinueAsNew before and after: the same is carried on. *)
LEMMA CarrySame ==
    ASSUME NEW i \in Instance, NEW box \in Seq(Rows(i)), NEW new \in Seq(Rows(i)),
           \A k, l \in DOMAIN box : k # l => ~Twins(box[k].msg, box[l].msg),
           \A k \in DOMAIN new : new[k].msg.type = "can" =>
              \E l \in DOMAIN box : box[l].msg = new[k].msg
    PROVE  /\ CarryOf(new) = <<>> \/ CarryOf(new) = CarryOf(box)
           /\ (Has(box, "can") => Has(new, "can")) => CarryOf(new) = CarryOf(box)
           /\ Has(new, "can") => Has(box, "can")
<1>1. \A k, l \in DOMAIN box : box[k].msg.type = "can" /\ box[l].msg.type = "can" => k = l
  BY DEF Twins
<1>2. /\ ~Has(box, "can") => CarryOf(box) = <<>>
      /\ Has(box, "can") => \E k \in DOMAIN box : /\ box[k].msg.type = "can"
                                                  /\ CarryOf(box) = box[k].msg.carry
  BY CarryFacts
<1>3. /\ ~Has(new, "can") => CarryOf(new) = <<>>
      /\ Has(new, "can") => \E k \in DOMAIN new : /\ new[k].msg.type = "can"
                                                  /\ CarryOf(new) = new[k].msg.carry
  BY CarryFacts
<1>4. CASE Has(new, "can")
  <2>1. PICK k \in DOMAIN new : new[k].msg.type = "can" /\ CarryOf(new) = new[k].msg.carry
    BY <1>3, <1>4
  <2>2. PICK l \in DOMAIN box : box[l].msg = new[k].msg
    BY <2>1
  <2>3. Has(box, "can")
    BY <2>1, <2>2 DEF Has
  <2>4. PICK m \in DOMAIN box : box[m].msg.type = "can" /\ CarryOf(box) = box[m].msg.carry
    BY <1>2, <2>3
  <2>5. l = m
    BY <1>1, <2>1, <2>2, <2>4
  <2> QED BY <2>1, <2>2, <2>3, <2>4, <2>5
<1>5. CASE ~Has(new, "can")
  BY <1>2, <1>3, <1>5
<1> QED BY <1>4, <1>5

(* Its parts are sequences of messages. *)
LEMMA FlowTypes ==
    ASSUME NEW i \in Instance, NEW e \in Seq(Data), NEW x \in Execution, NEW box \in Seq(Rows(i))
    PROVE  /\ Buffered(x) = Behind(x.arrived, x.taken) /\ Buffered(x) \in Seq(Data)
           /\ CarryOf(box) \in Seq(Data) /\ Arrivals(box) \in Seq(Data)
           /\ e \o Buffered(x) \in Seq(Data) /\ CarryOf(box) \o Arrivals(box) \in Seq(Data)
           /\ Flow(e, x, box) \in Seq(Data)
<1>1. Buffered(x) = Behind(x.arrived, x.taken)
  BY DEF Buffered, Behind
<1>2. x.arrived \in Seq(Data) /\ x.taken \in Nat
  BY DEF Execution
<1>3. Buffered(x) \in Seq(Data)
  BY <1>1, <1>2, BehindFacts
<1>4. CarryOf(box) \in Seq(Data) /\ Arrivals(box) \in Seq(Data)
  BY CarryFacts, ArrivalTypes
<1>5. e \o Buffered(x) \in Seq(Data) /\ CarryOf(box) \o Arrivals(box) \in Seq(Data)
  BY <1>3, <1>4, ConcatFacts
<1>6. Flow(e, x, box) \in Seq(Data)
  BY <1>5, ConcatFacts DEF Flow
<1> QED BY <1>1, <1>3, <1>4, <1>5, <1>6

(* The parts that a step leaves out. *)
LEMMA FlowInside ==
    ASSUME NEW i \in Instance, NEW e \in Seq(Data),
           NEW x \in Execution, NEW box \in Seq(Rows(i)),
           NEW u \in Execution, NEW new \in Seq(Rows(i)),
           (u.arrived = x.arrived /\ u.taken = x.taken) \/ Buffered(u) = <<>>,
           CarryOf(new) = CarryOf(box) \/ CarryOf(new) = <<>>,
           NEW P \in SUBSET QueueRows(box), Kept(new, box, P)
    PROVE  /\ Inside(Flow(e, u, new), Flow(e, x, box), TRUE)
           /\ /\ u.arrived = x.arrived /\ u.taken = x.taken /\ CarryOf(new) = CarryOf(box)
              /\ P = QueueRows(box)
              => Covers(Flow(e, u, new), Flow(e, x, box))
<1>1. /\ Buffered(x) \in Seq(Data) /\ CarryOf(box) \in Seq(Data) /\ Arrivals(box) \in Seq(Data)
      /\ e \o Buffered(x) \in Seq(Data) /\ CarryOf(box) \o Arrivals(box) \in Seq(Data)
      /\ Buffered(x) = Behind(x.arrived, x.taken)
  BY FlowTypes
<1>2. /\ Buffered(u) \in Seq(Data) /\ CarryOf(new) \in Seq(Data) /\ Arrivals(new) \in Seq(Data)
      /\ e \o Buffered(u) \in Seq(Data) /\ CarryOf(new) \o Arrivals(new) \in Seq(Data)
      /\ Buffered(u) = Behind(u.arrived, u.taken)
  BY FlowTypes
<1>3. /\ Lists(Arrivals(box), Payload(box), QueueRows(box))
      /\ QueueRows(box) \in SUBSET DOMAIN box
  BY BoxListed
<1>4. Lists(Arrivals(new), Payload(box), P)
  <2>1. P \in SUBSET DOMAIN box
    BY <1>3
  <2> QED BY <2>1, KeptListed
<1>5. /\ Inside(Arrivals(new), Arrivals(box), TRUE)
      /\ P = QueueRows(box) => Covers(Arrivals(new), Arrivals(box))
  <2>1. QueueRows(box) \in SUBSET Int
    BY <1>3
  <2> QED BY <1>1, <1>2, <1>3, <1>4, <2>1, ListedInside
<1>6. /\ Inside(e, e, TRUE) /\ Covers(e, e)
      /\ Inside(Buffered(u), Buffered(x), TRUE)
      /\ u.arrived = x.arrived /\ u.taken = x.taken => Covers(Buffered(u), Buffered(x))
  <2>1. Inside(e, e, TRUE) /\ Covers(e, e)
    BY InsideSelf
  <2>2. /\ Inside(Buffered(x), Buffered(x), TRUE) /\ Inside(<<>>, Buffered(x), TRUE)
        /\ Covers(Buffered(x), Buffered(x))
    BY <1>1, InsideSelf
  <2>3. u.arrived = x.arrived /\ u.taken = x.taken => Buffered(u) = Buffered(x)
    BY <1>1, <1>2
  <2> QED BY <2>1, <2>2, <2>3
<1>7. /\ Inside(CarryOf(new), CarryOf(box), TRUE)
      /\ CarryOf(new) = CarryOf(box) => Covers(CarryOf(new), CarryOf(box))
  BY <1>1, InsideSelf
<1>8. /\ Inside(e \o Buffered(u), e \o Buffered(x), TRUE)
      /\ Inside(CarryOf(new) \o Arrivals(new), CarryOf(box) \o Arrivals(box), TRUE)
  BY <1>1, <1>2, <1>5, <1>6, <1>7, InsideConcat
<1>9. Inside(Flow(e, u, new), Flow(e, x, box), TRUE)
  BY <1>1, <1>2, <1>8, InsideConcat DEF Flow
<1>10. ASSUME u.arrived = x.arrived, u.taken = x.taken, CarryOf(new) = CarryOf(box),
              P = QueueRows(box)
       PROVE  Covers(Flow(e, u, new), Flow(e, x, box))
  <2>1. /\ Covers(e \o Buffered(u), e \o Buffered(x))
        /\ Covers(CarryOf(new) \o Arrivals(new), CarryOf(box) \o Arrivals(box))
    BY <1>1, <1>2, <1>5, <1>6, <1>7, <1>10, CoversConcat
  <2> QED BY <1>1, <1>2, <2>1, CoversConcat DEF Flow
<1> QED BY <1>9, <1>10

----------------------------------------------------------------------------
(* The order of the messages. *)

Arranged(s, ordered) ==
    \A j, k \in DOMAIN s : j < k => IF ordered THEN s[j] < s[k] ELSE s[j] # s[k]

UpTo(s, n) == \A k \in DOMAIN s : s[k] <= n

(* Messages are numbered in the order in which they are sent. *)
LEMMA DataFacts ==
    ASSUME NEW s \in Seq(Data)
    PROVE  DOMAIN s \subseteq Int /\ \A k \in DOMAIN s : s[k] \in Int
<1>1. \A d \in Data : d \in Int
  BY BoundFacts DEF Data
<1>2. \A k \in DOMAIN s : s[k] \in Data
  OBVIOUS
<1>3. DOMAIN s \subseteq Int
  OBVIOUS
<1> QED BY <1>1, <1>2, <1>3

(* What lies inside an arranged sequence is arranged. *)
LEMMA OrderInside ==
    ASSUME NEW s \in Seq(Data), NEW u \in Seq(Data), NEW o \in BOOLEAN, NEW p \in BOOLEAN,
           NEW q \in BOOLEAN, q => o /\ p, Inside(u, s, o), Arranged(s, p), NEW n, UpTo(s, n)
    PROVE  Arranged(u, q) /\ UpTo(u, n)
<1>1. PICK f : Embeds(f, u, s, o)
  BY DEF Inside
<1>2. /\ \A k \in DOMAIN u : f[k] \in DOMAIN s /\ u[k] = s[f[k]]
      /\ \A j, k \in DOMAIN u : j < k => f[j] # f[k] /\ (o => f[j] < f[k])
  BY <1>1 DEF Embeds
<1>3. DOMAIN s \subseteq Int /\ \A k \in DOMAIN s : s[k] \in Int
  BY DataFacts
<1>4. ASSUME NEW j \in DOMAIN u, NEW k \in DOMAIN u, j < k
      PROVE  IF q THEN u[j] < u[k] ELSE u[j] # u[k]
  <2>1. f[j] \in DOMAIN s /\ f[k] \in DOMAIN s /\ f[j] # f[k] /\ (o => f[j] < f[k])
    BY <1>2, <1>4
  <2>2. f[j] < f[k] \/ f[k] < f[j]
    BY <1>3, <2>1
  <2>3. s[f[j]] \in Int /\ s[f[k]] \in Int
    BY <1>3, <2>1
  <2>4. s[f[j]] # s[f[k]]
    BY <2>1, <2>2, <2>3 DEF Arranged
  <2>5. q => s[f[j]] < s[f[k]]
    BY <2>1 DEF Arranged
  <2> QED BY <1>2, <2>4, <2>5
<1>5. Arranged(u, q)
  BY <1>4 DEF Arranged
<1>6. UpTo(u, n)
  BY <1>2 DEF UpTo
<1> QED BY <1>5, <1>6

(* A new message comes last. *)
LEMMA OrderAppend ==
    ASSUME NEW s \in Seq(Data), NEW o \in BOOLEAN, Arranged(s, o), NEW n \in Nat, UpTo(s, n),
           n + 1 \in Data
    PROVE  /\ Append(s, n + 1) \in Seq(Data) /\ Arranged(Append(s, n + 1), o)
           /\ UpTo(Append(s, n + 1), n + 1)
<1> DEFINE t == Append(s, n + 1)
           L == Len(s)
<1>1. /\ t \in Seq(Data) /\ L \in Nat /\ DOMAIN s = 1..L /\ DOMAIN t = 1..(L + 1)
      /\ \A k \in 1..L : t[k] = s[k]
      /\ t[L + 1] = n + 1
  OBVIOUS
<1>2. \A k \in 1..L : s[k] \in Int /\ s[k] <= n
  BY <1>1, DataFacts DEF UpTo
<1> HIDE DEF t, L
<1>3. ASSUME NEW j \in DOMAIN t, NEW k \in DOMAIN t, j < k
      PROVE  IF o THEN t[j] < t[k] ELSE t[j] # t[k]
  <2>1. j \in 1..L /\ t[j] = s[j]
    BY <1>1, <1>3
  <2>2. CASE k \in 1..L
    BY <1>1, <1>3, <2>1, <2>2 DEF Arranged
  <2>3. CASE k = L + 1
    BY <1>1, <1>2, <2>1, <2>3
  <2> QED BY <1>1, <2>2, <2>3
<1>4. ASSUME NEW k \in DOMAIN t PROVE t[k] <= n + 1
  <2>2. CASE k \in 1..L
    BY <1>1, <1>2, <2>2
  <2>3. CASE k = L + 1
    BY <1>1, <2>3
  <2> QED BY <1>1, <2>2, <2>3
<1> QED BY <1>1, <1>3, <1>4 DEF t, Arranged, UpTo

----------------------------------------------------------------------------
(* The inductive invariant. *)

(* Only a running execution has messages. *)
Blank(i) == inst[i].status # "running" => inst[i].arrived = <<>> /\ inst[i].taken = 0

(* Only an abandonment hides messages. *)
Shown(i) == faults = 0 => \A k \in QueueRows(inbox[i]) : inbox[i][k].hide = 0

(* No fetch misses a ContinueAsNew. *)
CanOld(i) == \A k \in DOMAIN inbox[i] : inbox[i][k].msg.type = "can" => k <= old[i]

InOrder(i) == Arranged(Stream(i), faults = 0) /\ UpTo(Stream(i), sent)

QueueInv ==
    /\ LifeInv
    /\ \A i \in Instance : Blank(i) /\ Shown(i) /\ CanOld(i) /\ InOrder(i)

(* What a step may do to a stream. *)
FlowsOn(i) ==
    \/ sent <= sent' /\ Inside(Stream(i)', Stream(i), faults = 0)
    \/ sent' = sent + 1 /\ Inside(Stream(i)', Append(Stream(i), sent + 1), TRUE)

(* The streams of an invariant state. *)
LEMMA StreamTypes ==
    /\ TypeOK => \A i \in Instance : /\ Stream(i) \in Seq(Data) /\ eaten[i] \in Seq(Data)
                                     /\ inst[i] \in Execution /\ inbox[i] \in Seq(Rows(i))
    /\ TypeOK' => \A i \in Instance : /\ Stream(i)' \in Seq(Data) /\ eaten'[i] \in Seq(Data)
                                      /\ inst'[i] \in Execution /\ inbox'[i] \in Seq(Rows(i))
<1>1. ASSUME TypeOK, NEW i \in Instance
      PROVE  /\ Stream(i) \in Seq(Data) /\ eaten[i] \in Seq(Data)
             /\ inst[i] \in Execution /\ inbox[i] \in Seq(Rows(i))
  <2>1. eaten[i] \in Seq(Data) /\ inst[i] \in Execution /\ inbox[i] \in Seq(Rows(i))
    BY <1>1 DEF TypeOK
  <2>2. Flow(eaten[i], inst[i], inbox[i]) \in Seq(Data)
    BY <2>1, FlowTypes
  <2> QED BY <2>1, <2>2, StreamParts
<1>2. ASSUME TypeOK', NEW i \in Instance
      PROVE  /\ Stream(i)' \in Seq(Data) /\ eaten'[i] \in Seq(Data)
             /\ inst'[i] \in Execution /\ inbox'[i] \in Seq(Rows(i))
  <2>1. eaten'[i] \in Seq(Data) /\ inst'[i] \in Execution /\ inbox'[i] \in Seq(Rows(i))
    BY <1>2 DEF TypeOK
  <2>2. Flow(eaten'[i], inst'[i], inbox'[i]) \in Seq(Data)
    BY <2>1, FlowTypes
  <2> QED BY <2>1, <2>2, StreamParts
<1> QED BY <1>1, <1>2

(* Such a step keeps the order. *)
LEMMA OrderStep ==
    ASSUME TypeOK, TypeOK', NEW i \in Instance, InOrder(i), FlowsOn(i), faults' = 0 => faults = 0
    PROVE  InOrder(i)'
<1> DEFINE s == Stream(i)
           u == Stream(i)'
           o == faults = 0
           q == faults' = 0
<1>1. /\ s \in Seq(Data) /\ u \in Seq(Data) /\ sent \in Nat
      /\ sent' \in 0..MaxData /\ MaxData \in Nat
  <2>1. s \in Seq(Data) /\ u \in Seq(Data)
    BY StreamTypes
  <2>2. sent \in 0..MaxData /\ sent' \in 0..MaxData
    BY DEF TypeOK
  <2>3. MaxData \in Nat
    BY BoundFacts
  <2> HIDE DEF s, u
  <2> QED BY <2>1, <2>2, <2>3
<1>2. Arranged(s, o) /\ UpTo(s, sent)
  BY DEF InOrder
<1>3. o \in BOOLEAN /\ q \in BOOLEAN /\ (q => o)
  OBVIOUS
<1> HIDE DEF s, u, o, q
<1>4. CASE sent <= sent' /\ Inside(u, s, o)
  <2>1. Arranged(u, q) /\ UpTo(u, sent)
    BY <1>1, <1>2, <1>3, <1>4, OrderInside
  <2>2. \A k \in DOMAIN u : u[k] \in Int
    BY <1>1, DataFacts
  <2>3. UpTo(u, sent')
    BY <1>1, <1>4, <2>1, <2>2 DEF UpTo
  <2> QED BY <2>1, <2>3 DEF InOrder, u, q
<1>5. CASE sent' = sent + 1 /\ Inside(u, Append(s, sent + 1), TRUE)
  <2>1. sent + 1 \in Data
    BY <1>1, <1>5 DEF Data
  <2>2. /\ Append(s, sent + 1) \in Seq(Data) /\ Arranged(Append(s, sent + 1), o)
        /\ UpTo(Append(s, sent + 1), sent + 1)
    BY <1>1, <1>2, <1>3, <2>1, OrderAppend
  <2>3. Arranged(u, q) /\ UpTo(u, sent + 1)
    BY <1>1, <1>3, <1>5, <2>2, OrderInside
  <2> QED BY <1>5, <2>3 DEF InOrder, u, q
<1> QED BY <1>4, <1>5 DEF FlowsOn, s, u, o

----------------------------------------------------------------------------
(* Instances whose queue a step does not touch. *)

(* Rows that are neither queue messages nor continuations. *)
Plain(out) ==
    out \in Seq(AnyRow) /\ \A k \in DOMAIN out : out[k].msg.type \notin {"queue", "can"}

Undisturbed(j) ==
    FlowsOn(j) /\ Covers(Stream(j)', Stream(j)) /\ Blank(j)' /\ Shown(j)' /\ CanOld(j)'

(* What lies inside in order lies inside. *)
LEMMA InsideWeaker ==
    ASSUME NEW u, NEW s, Inside(u, s, TRUE), NEW o
    PROVE  Inside(u, s, o)
<1>1. PICK f : Embeds(f, u, s, TRUE)
  BY DEF Inside
<1>2. Embeds(f, u, s, o)
  BY <1>1 DEF Embeds
<1> QED BY <1>2 DEF Inside

(* The execution and the queue messages are as before. *)
LEMMA SameQueue ==
    ASSUME QueueInv, TypeOK', NEW j \in Instance,
           Kept(inbox'[j], inbox[j], QueueRows(inbox[j])),
           CarryOf(inbox'[j]) = CarryOf(inbox[j]),
           inst'[j] = inst[j], eaten'[j] = eaten[j], sent <= sent'
    PROVE  FlowsOn(j) /\ Covers(Stream(j)', Stream(j)) /\ Blank(j)'
<1>1. TypeOK /\ Blank(j)
  BY DEF QueueInv, LifeInv
<1>2. /\ eaten[j] \in Seq(Data) /\ inst[j] \in Execution /\ inbox[j] \in Seq(Rows(j))
      /\ inbox'[j] \in Seq(Rows(j))
  BY <1>1, StreamTypes
<1>3. /\ Inside(Flow(eaten[j], inst[j], inbox'[j]), Flow(eaten[j], inst[j], inbox[j]), TRUE)
      /\ Covers(Flow(eaten[j], inst[j], inbox'[j]), Flow(eaten[j], inst[j], inbox[j]))
  BY <1>2, FlowInside
<1>4. Inside(Stream(j)', Stream(j), TRUE) /\ Covers(Stream(j)', Stream(j))
  BY <1>3, StreamParts
<1>5. Inside(Stream(j)', Stream(j), faults = 0)
  BY <1>4, InsideWeaker
<1>6. Blank(j)'
  BY <1>1 DEF Blank
<1> QED BY <1>4, <1>5, <1>6 DEF FlowsOn

(* Other rows are added to the inbox. *)
LEMMA Bystander ==
    ASSUME QueueInv, TypeOK', NEW j \in Instance, NEW tail, Plain(tail),
           inbox'[j] = inbox[j] \o tail,
           inst'[j] = inst[j], eaten'[j] = eaten[j], old'[j] = old[j], sent <= sent',
           faults' = 0 => faults = 0
    PROVE  Undisturbed(j)
<1> DEFINE box == inbox[j]
           new == inbox'[j]
<1>1. TypeOK /\ NoTwins(j) /\ Shown(j) /\ CanOld(j)
  BY DEF QueueInv, LifeInv
<1>2. box \in Seq(Rows(j)) /\ new \in Seq(Rows(j)) /\ box \in Seq(AnyRow) /\ tail \in Seq(AnyRow)
  <2>1. box \in Seq(Rows(j)) /\ new \in Seq(Rows(j))
    BY <1>1, StreamTypes
  <2>2. tail \in Seq(AnyRow)
    BY DEF Plain
  <2> HIDE DEF box, new
  <2>3. Rows(j) \subseteq AnyRow
    BY AnyRowFacts
  <2>4. box \in Seq(AnyRow)
    BY <2>1, <2>3
  <2> QED BY <2>1, <2>2, <2>4
<1> HIDE DEF box, new
<1>3. new = Pick(box, DOMAIN box) \o tail
  <2>1. Pick(box, DOMAIN box) = box
    BY <1>2, PickAll
  <2> QED BY <2>1 DEF box, new
<1>4. /\ DOMAIN box = 1..Len(box) /\ Len(box) \in Nat /\ Len(tail) \in Nat
      /\ DOMAIN new = 1..(Len(box) + Len(tail)) /\ DOMAIN tail = 1..Len(tail)
      /\ \A k \in 1..Len(box) : new[k] = box[k]
      /\ \A k \in (Len(box) + 1)..(Len(box) + Len(tail)) : new[k] = tail[k - Len(box)]
  <2>1. new = box \o tail
    BY DEF box, new
  <2> QED BY <1>2, <2>1, ConcatFacts
<1>5. \A k \in DOMAIN tail : tail[k].msg.type # "queue" /\ tail[k].msg.type # "can"
  BY DEF Plain
<1>6. /\ Kept(new, box, QueueRows(box))
      /\ \A k \in QueueRows(new) : \E l \in DOMAIN box : new[k] = box[l]
  <2>1. DOMAIN box \cap QueueRows(box) = QueueRows(box) /\ DOMAIN box \in SUBSET DOMAIN box
    BY DEF QueueRows
  <2>2. \A k \in DOMAIN tail : tail[k].msg.type # "queue"
    BY <1>5
  <2> DEFINE K == DOMAIN box
  <2>3. K \in SUBSET DOMAIN box /\ new = Pick(box, K) \o tail
    BY <1>3
  <2> HIDE DEF K
  <2>4. Copied(new, box, K \cap QueueRows(box))
    BY <1>2, <2>2, <2>3, PickKept
  <2> QED BY <2>1, <2>4 DEF K, Copied
<1>7. ASSUME NEW k \in DOMAIN new, new[k].msg.type = "can"
      PROVE  k \in DOMAIN box /\ new[k] = box[k]
  <2>1. CASE k \in 1..Len(box)
    BY <1>4, <2>1
  <2>2. CASE k \notin 1..Len(box)
    <3>1. k \in (Len(box) + 1)..(Len(box) + Len(tail)) /\ k - Len(box) \in DOMAIN tail
      BY <1>4, <2>2
    <3> QED BY <1>4, <1>5, <1>7, <3>1
  <2> QED BY <2>1, <2>2
<1>8. CarryOf(new) = CarryOf(box)
  <2>1. \A k, l \in DOMAIN box : k # l => ~Twins(box[k].msg, box[l].msg)
    BY <1>1 DEF NoTwins, box
  <2>2. Has(box, "can") => Has(new, "can")
    BY <1>4 DEF Has
  <2>3. \A k \in DOMAIN new : new[k].msg.type = "can" =>
           \E l \in DOMAIN box : box[l].msg = new[k].msg
    BY <1>7
  <2> QED BY <1>2, <2>1, <2>2, <2>3, CarrySame
<1>9. CanOld(j)'
  BY <1>1, <1>7 DEF CanOld, box, new
<1>10. Shown(j)'
  BY <1>1, <1>6 DEF Shown, QueueRows, box, new
<1>11. FlowsOn(j) /\ Covers(Stream(j)', Stream(j)) /\ Blank(j)'
  BY <1>6, <1>8, SameQueue DEF box, new
<1> QED BY <1>9, <1>10, <1>11 DEF Undisturbed

(* The inbox is as before. *)
LEMMA Untouched ==
    ASSUME QueueInv, TypeOK', NEW j \in Instance, inbox'[j] = inbox[j],
           inst'[j] = inst[j], eaten'[j] = eaten[j], old'[j] = old[j], sent <= sent',
           faults' = 0 => faults = 0
    PROVE  Undisturbed(j)
<1>1. Plain(<<>>)
  BY DEF Plain
<1>2. inbox[j] \in Seq(Rows(j))
  BY DEF QueueInv, LifeInv, TypeOK
<1>3. inbox'[j] = inbox[j] \o <<>>
  BY <1>2, ConcatEmptySeq
<1> QED BY <1>1, <1>3, Bystander

(* An ack leaves the inboxes of the others in place and adds to them.      *)
LEMMA AckOthers ==
    ASSUME TypeOK, NEW i \in Instance, NEW n \in old[i]..Len(inbox[i]),
           NEW out \in Seq(AnyRow), Ack(i, n, out), NEW j \in Instance, j # i,
           \A k \in DOMAIN out : out[k].to = j => out[k].msg.type \notin {"queue", "can"}
    PROVE  old'[j] = old[j] /\ \E tail : Plain(tail) /\ inbox'[j] = inbox[j] \o tail
<1> DEFINE O == {k \in DOMAIN out : out[k].to = j}
           tail == Pick(out, O)
<1>1. inbox'[j] = inbox[j] \o tail
  BY DEF Ack
<1>2. old'[j] = old[j]
  BY DEF Ack, TypeOK
<1>3. Enumerated(O)
  <2>1. O \in SUBSET (1..Len(out)) /\ Len(out) \in Nat
    OBVIOUS
  <2> QED BY <2>1, PlaceFacts
<1>4. tail \in Seq({out[k] : k \in O})
  BY <1>3, PickFacts
<1>5. \A k \in O : out[k] \in AnyRow /\ out[k].msg.type \notin {"queue", "can"}
  OBVIOUS
<1> HIDE DEF O, tail
<1>6. \A k \in DOMAIN tail : tail[k] \in AnyRow /\ tail[k].msg.type \notin {"queue", "can"}
  BY <1>4, <1>5
<1>7. Plain(tail)
  BY <1>4, <1>6 DEF Plain
<1> QED BY <1>1, <1>2, <1>7

----------------------------------------------------------------------------
(* What every step does to every queue. *)

Advances(j) == FlowsOn(j) /\ Blank(j)' /\ Shown(j)' /\ CanOld(j)'

(* What continue-as-new may lose. *)
Handed(j) ==
    LET lost == Streamed(j) \ Streamed(j)'
        can == RowsOf(inbox'[j], "can")[1].msg
        At(d) == CHOOSE k \in DOMAIN Stream(j) : Stream(j)[k] = d
        Newest(d) == /\ Len(can.carry) = MaxCarry
                     /\ \A n \in DOMAIN can.carry : At(can.carry[n]) < At(d)
    IN  lost # {} => Cardinality({d \in lost : ~Newest(d)}) <= can.idle

(* The steps of which this is claimed. *)
GoesOn(j) ==
    /\ inst'[j].status = "continued"
    /\ inst[j].status = "continued" => IsContinueAsNew(Visible(inbox[j]))

Conducts(j) ==
    /\ Advances(j)
    /\ inst'[j].status = "running" => Covers(Stream(j)', Stream(j))
    /\ GoesOn(j) => Handed(j)

(* Nothing is lost where nothing is missing. *)
LEMMA CoversStreamed ==
    ASSUME NEW j, Covers(Stream(j)', Stream(j))
    PROVE  Streamed(j) \subseteq Streamed(j)' /\ Handed(j)
<1>1. Streamed(j) \subseteq Streamed(j)'
  BY DEF Streamed, Covers
<1>2. Streamed(j) \ Streamed(j)' = {}
  BY <1>1
<1> QED BY <1>1, <1>2 DEF Handed

(* A queue that is not touched. *)
LEMMA UndisturbedConducts ==
    ASSUME NEW j, Undisturbed(j)
    PROVE  Conducts(j)
BY CoversStreamed DEF Undisturbed, Conducts, Advances

(* The invariant after a step, from its parts. *)
LEMMA QueueInvNext ==
    ASSUME QueueInv, LifeInv', \A j \in Instance : Advances(j), faults' = 0 => faults = 0
    PROVE  QueueInv'
<1>1. TypeOK /\ TypeOK'
  BY DEF QueueInv, LifeInv
<1>2. ASSUME NEW j \in Instance PROVE (Blank(j) /\ Shown(j) /\ CanOld(j) /\ InOrder(j))'
  <2>1. InOrder(j) /\ FlowsOn(j)
    BY DEF QueueInv, Advances
  <2>2. InOrder(j)'
    BY <1>1, <2>1, OrderStep
  <2> QED BY <2>2 DEF Advances
<1> QED BY <1>2 DEF QueueInv

----------------------------------------------------------------------------
(* Turns after which the execution has ended. *)

(* The inbox of an instance whose batch is acknowledged. *)
LEMMA AckOwn ==
    ASSUME TypeOK, TypeOK', NEW i \in Instance, NEW n \in old[i]..Len(inbox[i]), Shown(i),
           NEW out \in Seq(AnyRow), Ack(i, n, out),
           \A k \in DOMAIN out : out[k].msg.type # "queue", faults' = 0 => faults = 0
    PROVE  /\ Kept(inbox'[i], inbox[i], QueueRows(inbox[i]) \ BatchRows(i, n))
           /\ CanOld(i)' /\ Shown(i)'
<1> DEFINE box == inbox[i]
           new == inbox'[i]
           K == DOMAIN box \ BatchRows(i, n)
           O == {k \in DOMAIN out : out[k].to = i}
           tail == Pick(out, O)
<1>1. box \in Seq(Rows(i)) /\ new \in Seq(Rows(i))
  BY StreamTypes
<1>2. new = Pick(box, K) \o tail
  <2>1. {k \in DOMAIN inbox[i] : k > n \/ inbox[i][k].hide # 0} = K
    <3>1. n \in Nat /\ DOMAIN inbox[i] \subseteq Nat \ {0}
      BY <1>1, BatchFacts
    <3> QED BY <3>1 DEF BatchRows
  <2> QED BY <2>1 DEF Ack, Rest
<1>3. Enumerated(O)
  <2>1. O \in SUBSET (1..Len(out)) /\ Len(out) \in Nat
    OBVIOUS
  <2> QED BY <2>1, PlaceFacts
<1>4. tail \in Seq({out[k] : k \in O})
  BY <1>3, PickFacts
<1>5. \A k \in O : out[k] \in AnyRow /\ out[k].msg.type # "queue"
  OBVIOUS
<1>6. K \in SUBSET DOMAIN box /\ K \cap QueueRows(box) = QueueRows(box) \ BatchRows(i, n)
  BY DEF QueueRows
<1> HIDE DEF O, tail, K, box, new
<1>7. tail \in Seq(AnyRow) /\ \A k \in DOMAIN tail : tail[k].msg.type # "queue"
  BY <1>4, <1>5
<1>8. Copied(new, box, K \cap QueueRows(box))
  BY <1>1, <1>2, <1>6, <1>7, PickKept
<1>9. Shown(i)'
  BY <1>8 DEF Copied, Shown, QueueRows, box, new
<1>10. CanOld(i)'
  <2>1. old'[i] = Len(inbox'[i])
    BY DEF Ack, TypeOK
  <2>2. \A k \in DOMAIN new : k <= Len(new)
    BY <1>1
  <2> QED BY <2>1, <2>2 DEF CanOld, new
<1> QED BY <1>6, <1>8, <1>9, <1>10 DEF Copied, box, new

(* What remains of a queue when an execution has ended and its batch is    *)
(* acknowledged.                                                           *)
LEMMA AckLoses ==
    ASSUME QueueInv, TypeOK', NEW i \in Instance, NEW n \in old[i]..Len(inbox[i]),
           NEW out, Plain(out), Ack(i, n, out),
           inst'[i].arrived = <<>>, inst'[i].taken = 0, inst'[i].status # "running",
           eaten'[i] = eaten[i], sent <= sent', faults' = 0 => faults = 0
    PROVE  Advances(i)
<1>1. TypeOK /\ NoTwins(i) /\ Shown(i) /\ out \in Seq(AnyRow)
      /\ \A k \in DOMAIN out : out[k].msg.type # "queue" /\ out[k].msg.type # "can"
  BY DEF QueueInv, LifeInv, Plain
<1>2. /\ Kept(inbox'[i], inbox[i], QueueRows(inbox[i]) \ BatchRows(i, n))
      /\ CanOld(i)' /\ Shown(i)'
  BY <1>1, AckOwn
<1>3. /\ eaten[i] \in Seq(Data) /\ inst[i] \in Execution /\ inbox[i] \in Seq(Rows(i))
      /\ inbox'[i] \in Seq(Rows(i)) /\ inst'[i] \in Execution
  BY <1>1, StreamTypes
<1>4. Buffered(inst'[i]) = <<>>
  <2>1. SubSeq(<<>>, 0 + 1, Len(<<>>)) = <<>>
    OBVIOUS
  <2> QED BY <2>1 DEF Buffered
<1>5. CarryOf(inbox'[i]) = CarryOf(inbox[i]) \/ CarryOf(inbox'[i]) = <<>>
  <2> DEFINE box == inbox[i]
             new == inbox'[i]
  <2>1. \A k, l \in DOMAIN box : k # l => ~Twins(box[k].msg, box[l].msg)
    BY <1>1 DEF NoTwins
  <2>2. ASSUME NEW k \in DOMAIN new, new[k].msg.type = "can"
        PROVE  \E l \in DOMAIN box : box[l].msg = new[k].msg
    <3>1. Moved(i, BatchRows(i, n), out)
      BY <1>1, AckMoves
    <3>2. new[k].msg \in Messages(i)'
      BY DEF Messages
    <3>3. \/ \E l \in DOMAIN box \ BatchRows(i, n) : box[l].msg = new[k].msg
          \/ \E l \in DOMAIN out : out[l].to = i /\ out[l].msg = new[k].msg
      BY <3>1, <3>2, MovedMessages
    <3> QED BY <1>1, <2>2, <3>3
  <2>3. box \in Seq(Rows(i)) /\ new \in Seq(Rows(i))
    BY <1>3
  <2>4. \A k \in DOMAIN new : new[k].msg.type = "can" =>
           \E l \in DOMAIN box : box[l].msg = new[k].msg
    BY <2>2
  <2> HIDE DEF box, new
  <2>5. CarryOf(new) = <<>> \/ CarryOf(new) = CarryOf(box)
    BY <2>1, <2>3, <2>4, CarrySame
  <2> QED BY <2>5 DEF box, new
<1>6. Inside(Flow(eaten[i], inst'[i], inbox'[i]), Flow(eaten[i], inst[i], inbox[i]), TRUE)
  <2>1. QueueRows(inbox[i]) \ BatchRows(i, n) \in SUBSET QueueRows(inbox[i])
    OBVIOUS
  <2> QED BY <1>2, <1>3, <1>4, <1>5, <2>1, FlowInside
<1>7. Inside(Stream(i)', Stream(i), faults = 0)
  BY <1>6, StreamParts, InsideWeaker
<1>8. Blank(i)'
  BY DEF Blank
<1> QED BY <1>2, <1>7, <1>8 DEF Advances, FlowsOn

(* Answers to parents, cancellations and the rows of new calls are no      *)
(* queue messages and no continuations.                                    *)
LEMMA PlainSends ==
    ASSUME TypeOK
    PROVE  /\ \A r \in Runtime, link \in Link, res \in {"ok", "app", "sys"} :
                 Plain(Notify(r, link, res))
           /\ \A i \in Instance, z \in Execution : \A D :
                 (\A k \in DOMAIN z.calls : z.calls[k].kind = "child" => <<i, k>> \in DOMAIN Child)
                 => Plain(CancelChildren(i, z, D))
           /\ \A i \in Instance, y \in Execution : \A z :
                 Extends(i, y, z) /\ z.exec \in Exec => Plain(NewRows(i, y, z))
           /\ Plain(<<>>)
           /\ \A s, t : Plain(s) /\ Plain(t) => Plain(s \o t)
<1>1. ASSUME NEW r \in Runtime, NEW link \in Link, NEW res \in {"ok", "app", "sys"}
      PROVE  Plain(Notify(r, link, res))
  BY NotifyFacts DEF Plain
<1>2. ASSUME NEW i \in Instance, NEW z \in Execution, NEW D,
             \A k \in DOMAIN z.calls : z.calls[k].kind = "child" => <<i, k>> \in DOMAIN Child
      PROVE  Plain(CancelChildren(i, z, D))
  BY <1>2, CancelFacts DEF Plain
<1>3. ASSUME NEW i \in Instance, NEW y \in Execution, NEW z, Extends(i, y, z), z.exec \in Exec
      PROVE  Plain(NewRows(i, y, z))
  <2> DEFINE out == NewRows(i, y, z)
  <2>1. out \in Seq(AnyRow) /\ Announced(out, i, y, z)
    BY <1>3, NewRowsFacts
  <2> HIDE DEF out
  <2>2. PICK f \in [DOMAIN out -> NewCalls(y, z)] : \A n \in DOMAIN out : out[n] = NewRow(i, z, f[n])
    BY <2>1 DEF Announced
  <2>3. ASSUME NEW n \in DOMAIN out PROVE out[n].msg.type \notin {"queue", "can"}
    <3>1. IsNewRow(i, z, f[n], out[n])
      BY <1>3, <2>2, NewRowFacts
    <3> QED BY <3>1 DEF IsNewRow
  <2> QED BY <2>1, <2>3 DEF Plain, out
<1>4. Plain(<<>>)
  BY DEF Plain
<1>5. ASSUME NEW s, NEW t, Plain(s), Plain(t) PROVE Plain(s \o t)
  <2>1. s \in Seq(AnyRow) /\ t \in Seq(AnyRow)
    BY <1>5 DEF Plain
  <2>2. /\ s \o t \in Seq(AnyRow) /\ DOMAIN (s \o t) = 1..(Len(s) + Len(t))
        /\ Len(s) \in Nat /\ Len(t) \in Nat
        /\ DOMAIN s = 1..Len(s) /\ DOMAIN t = 1..Len(t)
        /\ \A k \in 1..Len(s) : (s \o t)[k] = s[k]
        /\ \A k \in (Len(s) + 1)..(Len(s) + Len(t)) : (s \o t)[k] = t[k - Len(s)]
    BY <2>1, ConcatFacts
  <2>3. ASSUME NEW k \in DOMAIN (s \o t) PROVE (s \o t)[k].msg.type \notin {"queue", "can"}
    <3>1. CASE k \in 1..Len(s)
      BY <1>5, <2>2, <3>1 DEF Plain
    <3>2. CASE k \in (Len(s) + 1)..(Len(s) + Len(t))
      <4>1. k - Len(s) \in DOMAIN t
        BY <2>2, <3>2
      <4> QED BY <1>5, <2>2, <3>2, <4>1 DEF Plain
    <3> QED BY <2>2, <3>1, <3>2
  <2> QED BY <2>2, <2>3 DEF Plain
<1> QED BY <1>1, <1>2, <1>3, <1>4, <1>5

(* The others, when an instance takes a turn. *)
LEMMA AckElsewhere ==
    ASSUME QueueInv, TypeOK', NEW i \in Instance, NEW n \in old[i]..Len(inbox[i]),
           NEW out \in Seq(AnyRow), Ack(i, n, out), NEW j \in Instance, j # i,
           \A k \in DOMAIN out : out[k].to = j => out[k].msg.type \notin {"queue", "can"},
           inst'[j] = inst[j], eaten'[j] = eaten[j], sent <= sent', faults' = 0 => faults = 0
    PROVE  Conducts(j)
<1>1. TypeOK
  BY DEF QueueInv, LifeInv
<1>2. old'[j] = old[j] /\ \E tail : Plain(tail) /\ inbox'[j] = inbox[j] \o tail
  BY <1>1, AckOthers
<1>3. PICK tail : Plain(tail) /\ inbox'[j] = inbox[j] \o tail
  BY <1>2
<1>4. Undisturbed(j)
  BY <1>2, <1>3, Bystander
<1> QED BY <1>4, UndisturbedConducts

(* A turn after which the execution of i has ended, for good. *)
LEMMA FinalTurn ==
    ASSUME QueueInv, LifeInv', NEW i \in Instance, NEW n \in old[i]..Len(inbox[i]),
           NEW out, Plain(out), Ack(i, n, out),
           NEW e \in 0..MaxExec, NEW l \in Link, NEW st \in {"completed", "failed"},
           inst' = [inst EXCEPT ![i] = Fresh(e, st, l)],
           UNCHANGED <<eaten, sent>>, faults' = 0 => faults = 0
    PROVE  \A j \in Instance : Conducts(j)
<1>1. TypeOK /\ TypeOK' /\ inst \in [Instance -> Execution] /\ sent \in Nat
      /\ out \in Seq(AnyRow)
  <2>1. TypeOK /\ TypeOK' /\ out \in Seq(AnyRow)
    BY DEF QueueInv, LifeInv, Plain
  <2>2. inst \in [Instance -> Execution] /\ sent \in 0..MaxData
    BY <2>1 DEF TypeOK
  <2> QED BY <2>1, <2>2, BoundFacts
<1>2. /\ inst'[i] = Fresh(e, st, l) /\ \A j \in Instance : j # i => inst'[j] = inst[j]
  BY <1>1
<1>3. inst'[i].arrived = <<>> /\ inst'[i].taken = 0 /\ inst'[i].status = st
  BY <1>2, FreshFacts
<1>4. sent <= sent'
  BY <1>1
<1>5. Advances(i)
  BY <1>1, <1>3, <1>4, AckLoses
<1>6. Conducts(i)
  BY <1>3, <1>5 DEF Conducts, GoesOn
<1>7. ASSUME NEW j \in Instance, j # i PROVE Conducts(j)
  <2>1. \A k \in DOMAIN out : out[k].to = j => out[k].msg.type \notin {"queue", "can"}
    BY DEF Plain
  <2>2. inst'[j] = inst[j] /\ eaten'[j] = eaten[j]
    BY <1>2, <1>7
  <2> QED BY <1>1, <1>4, <1>7, <2>1, <2>2, AckElsewhere
<1> QED BY <1>6, <1>7

(* The turns that end an execution. *)
LEMMA EndingQueues ==
    ASSUME QueueInv, LifeInv', NEW i \in Instance, NEW n \in old[i]..Len(inbox[i]),
           NEW r \in Runtime,
           FailTurn(r, i, n) \/ Panic(r, i, n) \/ CancelTurn(r, i, n) \/ ReturnTurn(r, i, n)
    PROVE  \A j \in Instance : Conducts(j)
<1> DEFINE y == After(i, n)
<1>1. LifeInv /\ TypeOK /\ Turn(i, n) /\ UNCHANGED <<eaten, sent>> /\ faults' = faults
  BY DEF QueueInv, LifeInv, FailTurn, Panic, CancelTurn, ReturnTurn
<1>2. y \in Execution /\ y.exec \in 0..MaxExec /\ y.link \in Link
  <2>1. y \in Execution
    BY <1>1, AfterFacts
  <2> HIDE DEF y
  <2> QED BY <2>1 DEF Execution
<1>3. ASSUME NEW z \in Execution, NEW st \in {"completed", "failed"}, Terminate(i, z, st),
             NEW out, Plain(out), Ack(i, n, out)
      PROVE  \A j \in Instance : Conducts(j)
  <2>1. z.exec \in 0..MaxExec /\ z.link \in Link
    BY DEF Execution
  <2>2. inst' = [inst EXCEPT ![i] = Fresh(z.exec, st, z.link)]
    BY <1>3 DEF Terminate
  <2> QED BY <1>1, <1>3, <2>1, <2>2, FinalTurn
<1>4. \A z \in Scheduled(i, y) :
         /\ z \in Execution /\ z.link \in Link
         /\ \A k \in DOMAIN z.calls : z.calls[k].kind = "child" => <<i, k>> \in DOMAIN Child
  BY <1>1, ExtendedChildren
<1>5. CASE FailTurn(r, i, n)
  <2>1. Terminate(i, y, "failed") /\ Ack(i, n, Notify(r, y.link, "sys"))
    BY <1>5 DEF FailTurn
  <2>2. Plain(Notify(r, y.link, "sys"))
    BY <1>1, <1>2, PlainSends
  <2> QED BY <1>2, <1>3, <2>1, <2>2
<1>6. CASE Panic(r, i, n)
  <2>1. Terminate(i, y, "failed") /\ Ack(i, n, Notify(r, y.link, "app"))
    BY <1>6 DEF Panic
  <2>2. Plain(Notify(r, y.link, "app"))
    BY <1>1, <1>2, PlainSends
  <2> QED BY <1>2, <1>3, <2>1, <2>2
<1>7. CASE CancelTurn(r, i, n)
  <2>1. PICK z \in Scheduled(i, y) :
          /\ Terminate(i, z, "failed")
          /\ Ack(i, n, CancelChildren(i, z, Outstanding(z)) \o Notify(r, z.link, "app"))
    BY <1>7 DEF CancelTurn
  <2> HIDE DEF y
  <2>2. Plain(CancelChildren(i, z, Outstanding(z))) /\ Plain(Notify(r, z.link, "app"))
    BY <1>1, <1>4, PlainSends
  <2>3. Plain(CancelChildren(i, z, Outstanding(z)) \o Notify(r, z.link, "app"))
    BY <1>1, <2>2, PlainSends
  <2> QED BY <1>3, <1>4, <2>1, <2>3
<1>8. CASE ReturnTurn(r, i, n)
  <2>1. PICK z \in Scheduled(i, y), res \in {"ok", "app"} :
          /\ Terminate(i, z, IF res = "ok" THEN "completed" ELSE "failed")
          /\ Ack(i, n, Notify(r, z.link, res) \o CancelChildren(i, z, Outstanding(z)))
    BY <1>8 DEF ReturnTurn
  <2> HIDE DEF y
  <2>2. Plain(CancelChildren(i, z, Outstanding(z))) /\ Plain(Notify(r, z.link, res))
    BY <1>1, <1>4, PlainSends
  <2>3. Plain(Notify(r, z.link, res) \o CancelChildren(i, z, Outstanding(z)))
    BY <1>1, <2>2, PlainSends
  <2>4. (IF res = "ok" THEN "completed" ELSE "failed") \in {"completed", "failed"}
    OBVIOUS
  <2> QED BY <1>3, <1>4, <2>1, <2>3, <2>4
<1> QED BY <1>5, <1>6, <1>7, <1>8

(* The failures by the runtime. *)
LEMMA AbruptQueues ==
    ASSUME QueueInv, LifeInv', NEW i \in Instance, NEW n \in old[i]..Len(inbox[i]),
           FailureAck(i, n) \/ \E r \in Runtime : Poison(r, i, n)
    PROVE  \A j \in Instance : Conducts(j)
<1>1. LifeInv /\ TypeOK /\ UNCHANGED <<eaten, sent>> /\ faults' = faults + 1 /\ faults \in Nat
  <2>1. LifeInv /\ TypeOK
    BY DEF QueueInv, LifeInv
  <2>2. faults \in 0..MaxFaults
    BY <2>1 DEF TypeOK
  <2> QED BY <2>1, <2>2, BoundFacts DEF FailureAck, Poison, Fault
<1>2. FailedBy(i, n)
  BY <1>1, AbruptTurns
<1>3. PICK e \in Exec, l \in Link :
        \E out : /\ inst' = [inst EXCEPT ![i] = Fresh(e, "failed", l)]
                 /\ out = <<>> \/ \E r \in Runtime : out = Notify(r, l, "sys")
                 /\ Ack(i, n, out)
  BY <1>2 DEF FailedBy
<1>4. PICK out : /\ inst' = [inst EXCEPT ![i] = Fresh(e, "failed", l)]
                 /\ out = <<>> \/ \E r \in Runtime : out = Notify(r, l, "sys")
                 /\ Ack(i, n, out)
  BY <1>3
<1>5. Plain(out)
  BY <1>1, <1>4, PlainSends
<1>6. e \in 0..MaxExec /\ ~(faults' = 0)
  BY <1>1, BoundFacts
<1> QED BY <1>1, <1>4, <1>5, <1>6, FinalTurn

(* Which rows of a selection tell that it is for a new execution. *)
LEMMA CanPick ==
    ASSUME NEW i \in Instance, NEW box \in Seq(Rows(i)), NEW K \in SUBSET DOMAIN box
    PROVE  IsContinueAsNew(Pick(box, K)) <=>
              \E k \in K : /\ box[k].msg.type = "can"
                           /\ \A l \in K : l < k => box[l].msg.type # "start"
<1> DEFINE b == Pick(box, K)
           c == Cardinality(K)
           First(k) == box[k].msg.type = "can" /\ \A l \in K : l < k => box[l].msg.type # "start"
<1>1. Enumerated(K)
  <2>1. K \in SUBSET (1..Len(box)) /\ Len(box) \in Nat
    OBVIOUS
  <2> QED BY <2>1, PlaceFacts
<1>2. DOMAIN b = 1..c /\ \A m \in 1..c : b[m] = box[Place(K, m)]
  BY <1>1, PickFacts
<1>3. /\ c \in Nat /\ K \subseteq Nat \ {0} /\ \A m \in 1..c : Place(K, m) \in K
      /\ \A l, m \in 1..c : l < m => Place(K, l) < Place(K, m)
      /\ \A k \in K : \E m \in 1..c : Place(K, m) = k
  BY <1>1 DEF Enumerated
<1> HIDE DEF b, c
<1>4. ASSUME NEW m \in DOMAIN b, b[m].msg.type = "can",
             \A j \in 1..(m - 1) : b[j].msg.type # "start"
      PROVE  \E k \in K : First(k)
  <2>1. m \in 1..c /\ Place(K, m) \in K /\ box[Place(K, m)].msg.type = "can"
    BY <1>2, <1>3, <1>4
  <2>2. ASSUME NEW l \in K, l < Place(K, m) PROVE box[l].msg.type # "start"
    <3>1. PICK j \in 1..c : Place(K, j) = l
      BY <1>3
    <3>2. j < m
      <4>1. ~(m < j) /\ m # j
        BY <1>3, <2>1, <2>2, <3>1
      <4> QED BY <1>3, <2>1, <4>1
    <3>3. j \in 1..(m - 1)
      BY <1>3, <2>1, <3>2
    <3> QED BY <1>2, <1>4, <3>1, <3>3
  <2> QED BY <2>1, <2>2
<1>5. ASSUME NEW k \in K, First(k)
      PROVE  \E m \in DOMAIN b : b[m].msg.type = "can" /\ \A j \in 1..(m - 1) : b[j].msg.type # "start"
  <2>1. PICK m \in 1..c : Place(K, m) = k
    BY <1>3
  <2>2. m \in DOMAIN b /\ b[m].msg.type = "can"
    BY <1>2, <1>5, <2>1
  <2>3. ASSUME NEW j \in 1..(m - 1) PROVE b[j].msg.type # "start"
    <3>1. j \in 1..c /\ j < m
      BY <1>3
    <3>2. Place(K, j) \in K /\ Place(K, j) < k
      BY <1>3, <2>1, <3>1
    <3> QED BY <1>2, <1>5, <3>1, <3>2
  <2> QED BY <2>2, <2>3
<1>6. IsContinueAsNew(b) <=>
        \E m \in DOMAIN b : b[m].msg.type = "can" /\ \A j \in 1..(m - 1) : b[j].msg.type # "start"
  BY DEF IsContinueAsNew
<1> QED BY <1>4, <1>5, <1>6 DEF b

(* A batch that is acknowledged without a turn: the execution has ended,   *)
(* or the ContinueAsNew is not what the batch is for.                      *)
LEMMA EndedQueues ==
    ASSUME QueueInv, LifeInv', NEW i \in Instance, NEW n \in old[i]..Len(inbox[i]), AckEnded(i, n)
    PROVE  \A j \in Instance : Conducts(j)
<1>1. /\ TypeOK /\ TypeOK' /\ Blank(i) /\ CanOld(i) /\ Ack(i, n, <<>>) /\ Ended(i, Batch(i, n))
      /\ UNCHANGED <<inst, eaten, sent, faults>> /\ inbox[i] \in Seq(Rows(i)) /\ old[i] \in Nat
  BY DEF QueueInv, LifeInv, AckEnded, TypeOK
<1>2. sent <= sent'
  <2>1. sent \in 0..MaxData
    BY <1>1 DEF TypeOK
  <2> QED BY <1>1, <2>1, BoundFacts
<1>3. inst[i].status # "running" /\ inst'[i] = inst[i]
  BY <1>1 DEF Ended
<1>4. inst'[i].arrived = <<>> /\ inst'[i].taken = 0 /\ inst'[i].status # "running"
  BY <1>1, <1>3 DEF Blank
<1>5. Plain(<<>>)
  BY <1>1, PlainSends
<1>6. Advances(i)
  BY <1>1, <1>2, <1>4, <1>5, AckLoses
<1>7. ASSUME inst[i].status = "continued", IsContinueAsNew(Visible(inbox[i])) PROVE FALSE
  <2> DEFINE box == inbox[i]
             V == {k \in DOMAIN box : box[k].hide = 0}
  <2>1. ~IsContinueAsNew(Batch(i, n))
    BY <1>1, <1>7 DEF Ended
  <2>2. /\ Batch(i, n) = Pick(box, BatchRows(i, n)) /\ BatchRows(i, n) \subseteq DOMAIN box
        /\ n \in Nat
    BY <1>1, BatchFacts
  <2>3. IsContinueAsNew(Pick(box, V))
    BY <1>7 DEF Visible
  <2>4. V \in SUBSET DOMAIN box
    OBVIOUS
  <2> HIDE DEF V
  <2>5. PICK k \in V : box[k].msg.type = "can" /\ \A l \in V : l < k => box[l].msg.type # "start"
    BY <1>1, <2>3, <2>4, CanPick
  <2>6. k \in BatchRows(i, n)
    BY <1>1, <2>2, <2>5 DEF V, BatchRows, CanOld
  <2>7. BatchRows(i, n) \subseteq V
    BY <2>2 DEF BatchRows, V
  <2>8. IsContinueAsNew(Pick(box, BatchRows(i, n)))
    BY <1>1, <2>2, <2>5, <2>6, <2>7, CanPick
  <2> QED BY <2>1, <2>2, <2>8
<1>8. Conducts(i)
  BY <1>3, <1>6, <1>7 DEF Conducts, GoesOn
<1>9. ASSUME NEW j \in Instance, j # i PROVE Conducts(j)
  <2>1. <<>> \in Seq(AnyRow) /\ \A k \in DOMAIN <<>> : FALSE
    OBVIOUS
  <2> QED BY <1>1, <1>2, <1>9, <2>1, AckElsewhere
<1> QED BY <1>8, <1>9

----------------------------------------------------------------------------
(* Clients, workers and timers. *)

(* A row is added to an inbox. *)
LEMMA EnqueueFacts ==
    ASSUME TypeOK, NEW i \in Instance, NEW m \in Message, Enqueue(i, m)
    PROVE  LET row == Row(i, m, 0)
               box == inbox[i]
               new == inbox'[i]
           IN  /\ row \in AnyRow /\ row.msg = m /\ row.hide = 0
               /\ new = Append(box, row) /\ new = box \o <<row>>
               /\ box \in Seq(Rows(i)) /\ new \in Seq(Rows(i))
               /\ Len(box) \in Nat /\ DOMAIN box = 1..Len(box) /\ DOMAIN new = 1..(Len(box) + 1)
               /\ new[Len(box) + 1] = row /\ \A k \in 1..Len(box) : new[k] = box[k]
               /\ \A j \in Instance : j # i => inbox'[j] = inbox[j]
<1> DEFINE row == Row(i, m, 0)
           box == inbox[i]
           new == inbox'[i]
<1>1. row \in AnyRow /\ row \in Rows(i) /\ row.msg = m /\ row.hide = 0
  BY BoundFacts, RowFacts
<1>2. DOMAIN inbox = Instance /\ box \in Seq(Rows(i))
  BY DEF TypeOK
<1>3. /\ new = Append(box, row) /\ \A j \in Instance : j # i => inbox'[j] = inbox[j]
  BY <1>2 DEF Enqueue
<1> HIDE DEF row, box, new
<1>4. /\ new \in Seq(Rows(i)) /\ Len(box) \in Nat /\ DOMAIN box = 1..Len(box)
      /\ DOMAIN new = 1..(Len(box) + 1)
      /\ new[Len(box) + 1] = row /\ \A k \in 1..Len(box) : new[k] = box[k]
  BY <1>1, <1>2, <1>3
<1>5. new = box \o <<row>>
  BY <1>1, <1>2, <1>3
<1> QED BY <1>1, <1>2, <1>3, <1>4, <1>5 DEF row, box, new

(* A message that does not concern the queue. *)
LEMMA EnqueuePlain ==
    ASSUME QueueInv, LifeInv', NEW i \in Instance, NEW m \in Message, Enqueue(i, m),
           m.type \notin {"queue", "can"}, UNCHANGED <<inst, old, eaten, sent, faults>>
    PROVE  \A j \in Instance : Conducts(j)
<1> DEFINE row == Row(i, m, 0)
<1>1. TypeOK /\ TypeOK'
  BY DEF QueueInv, LifeInv
<1>2. /\ row \in AnyRow /\ row.msg = m /\ inbox'[i] = inbox[i] \o <<row>>
      /\ \A j \in Instance : j # i => inbox'[j] = inbox[j]
  BY <1>1, EnqueueFacts
<1>3. sent <= sent'
  <2>1. sent \in 0..MaxData
    BY <1>1 DEF TypeOK
  <2> QED BY <2>1, BoundFacts
<1> HIDE DEF row
<1>4. Plain(<<row>>)
  BY <1>2 DEF Plain
<1>5. Undisturbed(i)
  BY <1>1, <1>2, <1>3, <1>4, Bystander
<1>6. ASSUME NEW j \in Instance, j # i PROVE Undisturbed(j)
  <2>1. inbox'[j] = inbox[j]
    BY <1>2, <1>6
  <2> QED BY <1>1, <1>3, <2>1, Untouched
<1> QED BY <1>5, <1>6, UndisturbedConducts

(* A queue message is sent: it comes last in the stream. *)
LEMMA EnqueueQueue ==
    ASSUME QueueInv, LifeInv', NEW i \in Instance, EnqueueEvent(i)
    PROVE  \A j \in Instance : Conducts(j)
<1> DEFINE d == sent + 1
           m == QueueMessage(d)
           row == Row(i, m, 0)
           box == inbox[i]
           new == inbox'[i]
           e == eaten[i]
           x == inst[i]
           t == Len(box) + 1
<1>1. /\ TypeOK /\ TypeOK' /\ Enqueue(i, m) /\ sent' = sent + 1 /\ sent < MaxData
      /\ UNCHANGED <<inst, old, eaten, faults>> /\ Shown(i) /\ CanOld(i) /\ Blank(i) /\ NoTwins(i)
  BY DEF QueueInv, LifeInv, EnqueueEvent
<1>2. d \in Data /\ sent \in Nat /\ sent <= sent'
  <2>1. sent \in 0..MaxData /\ MaxData \in Nat
    BY <1>1, BoundFacts DEF TypeOK
  <2> QED BY <1>1, <2>1 DEF Data
<1>3. m \in Message /\ m.type = "queue" /\ m.data = d
  BY <1>2, MessageTypes
<1>4. /\ row.msg = m /\ row.hide = 0
      /\ box \in Seq(Rows(i)) /\ new \in Seq(Rows(i))
      /\ Len(box) \in Nat /\ DOMAIN box = 1..Len(box) /\ DOMAIN new = 1..(Len(box) + 1)
      /\ new[Len(box) + 1] = row /\ \A k \in 1..Len(box) : new[k] = box[k]
      /\ \A j \in Instance : j # i => inbox'[j] = inbox[j]
  BY <1>1, <1>3, EnqueueFacts
<1>5. e \in Seq(Data) /\ x \in Execution
  BY <1>1, StreamTypes
<1>6. /\ Stream(i) = Flow(e, x, box) /\ Stream(i)' = Flow(e, x, new)
  BY <1>1, StreamParts
<1> HIDE DEF m, row, box, new, e, x
<1>7. /\ t \in Int /\ QueueRows(new) = QueueRows(box) \cup {t} /\ QueueRows(box) \in SUBSET Int
      /\ \A p \in QueueRows(box) : p < t /\ Payload(box)[p] = Payload(new)[p]
      /\ Payload(new)[t] = d
  <2>1. t \in Int /\ t \in DOMAIN new /\ new[t].msg.type = "queue" /\ Payload(new)[t] = d
    BY <1>3, <1>4 DEF Payload
  <2>2. \A k \in DOMAIN box : /\ k \in DOMAIN new /\ new[k] = box[k] /\ k < t
                              /\ Payload(box)[k] = Payload(new)[k] /\ k \in Int
    BY <1>4 DEF Payload
  <2>3. DOMAIN new = DOMAIN box \cup {t}
    BY <1>4
  <2> HIDE DEF t
  <2> QED BY <2>1, <2>2, <2>3 DEF QueueRows
<1>8. /\ Arrivals(box) \in Seq(Data) /\ Lists(Arrivals(box), Payload(box), QueueRows(box))
      /\ Arrivals(new) \in Seq(Data) /\ Lists(Arrivals(new), Payload(new), QueueRows(new))
  BY <1>4, BoxListed
<1>9. Inside(Arrivals(new), Append(Arrivals(box), d), TRUE) /\ Covers(Arrivals(new), Arrivals(box))
  <2>1. Inside(Arrivals(new), Append(Arrivals(box), Payload(new)[t]), TRUE)
        /\ Covers(Arrivals(new), Arrivals(box))
    <3> HIDE DEF t, d
    <3> DEFINE P == QueueRows(box)
               u == Arrivals(new)
               w == Arrivals(box)
               f == Payload(box)
               g == Payload(new)
    <3>1. /\ u \in Seq(Data) /\ w \in Seq(Data) /\ P \in SUBSET Int /\ t \in Int
          /\ \A p \in P : p < t /\ f[p] = g[p]
      BY <1>7, <1>8
    <3>2. g[t] \in Data
      BY <1>2, <1>7
    <3>3. Lists(w, f, P) /\ Lists(u, g, P \cup {t})
      BY <1>7, <1>8
    <3> HIDE DEF P, u, w, f, g
    <3>4. Grows(u, w, g[t])
      BY <3>1, <3>2, <3>3, ListedMore
    <3> QED BY <3>4 DEF Grows, u, w, g
  <2> QED BY <1>7, <2>1
<1>10. CarryOf(new) = CarryOf(box) /\ CarryOf(box) \in Seq(Data)
  <2>1. \A k, l \in DOMAIN box : k # l => ~Twins(box[k].msg, box[l].msg)
    BY <1>1 DEF NoTwins, box
  <2>2. Has(box, "can") => Has(new, "can")
    BY <1>4 DEF Has
  <2>3. \A k \in DOMAIN new : new[k].msg.type = "can" =>
           \E l \in DOMAIN box : box[l].msg = new[k].msg
    <3>1. \A k \in DOMAIN new : k \in 1..Len(box) \/ k = t
      BY <1>4
    <3> QED BY <1>3, <1>4, <3>1
  <2>4. CarryOf(box) \in Seq(Data)
    BY <1>4, CarryFacts
  <2> QED BY <1>4, <2>1, <2>2, <2>3, <2>4, CarrySame
<1> DEFINE h == e \o Buffered(x)
           c == CarryOf(box)
           a == Arrivals(box)
           b == Arrivals(new)
<1>11. h \in Seq(Data) /\ c \in Seq(Data) /\ a \in Seq(Data) /\ b \in Seq(Data)
  BY <1>4, <1>5, <1>8, <1>10, FlowTypes
<1>12. Stream(i) = h \o (c \o a) /\ Stream(i)' = h \o (c \o b)
  BY <1>6, <1>10 DEF Flow
<1>13. Inside(b, Append(a, d), TRUE) /\ Covers(b, a)
  BY <1>9
<1> HIDE DEF h, c, a, b, d, t
<1>14. Append(h \o (c \o a), d) = h \o (c \o Append(a, d)) /\ Append(a, d) \in Seq(Data)
  <2>1. /\ Append(a, d) = a \o <<d>> /\ <<d>> \in Seq(Data) /\ Append(a, d) \in Seq(Data)
        /\ h \o (c \o a) \in Seq(Data) /\ c \o a \in Seq(Data)
    BY <1>2, <1>11
  <2>2. Append(h \o (c \o a), d) = (h \o (c \o a)) \o <<d>>
    BY <1>2, <2>1
  <2>3. /\ (h \o (c \o a)) \o <<d>> = h \o ((c \o a) \o <<d>>)
        /\ (c \o a) \o <<d>> = c \o (a \o <<d>>)
    <3> DEFINE s == c \o a
               q == <<d>>
    <3>1. s \in Seq(Data) /\ q \in Seq(Data)
      BY <2>1
    <3>2. (c \o a) \o q = c \o (a \o q)
      <4> HIDE DEF q
      <4>1. c \in Seq(Data) /\ a \in Seq(Data)
        BY <1>11
      <4> QED BY ONLY <3>1, <4>1, ConcatAssociative
    <3>3. (h \o s) \o q = h \o (s \o q)
      <4> HIDE DEF s, q
      <4>1. h \in Seq(Data)
        BY <1>11
      <4> QED BY ONLY <3>1, <4>1, ConcatAssociative
    <3> QED BY <3>2, <3>3
  <2> QED BY <2>1, <2>2, <2>3
<1>15. Inside(h \o (c \o b), h \o (c \o Append(a, d)), TRUE) /\ Covers(h \o (c \o b), h \o (c \o a))
  <2>1. /\ c \o b \in Seq(Data) /\ c \o a \in Seq(Data) /\ c \o Append(a, d) \in Seq(Data)
    BY <1>11, <1>14
  <2>2. /\ Inside(c, c, TRUE) /\ Inside(h, h, TRUE) /\ Covers(c, c) /\ Covers(h, h)
    BY <1>11, InsideSelf
  <2>3. Inside(c \o b, c \o Append(a, d), TRUE)
    BY <1>11, <1>13, <1>14, <2>2, InsideConcat
  <2>4. Covers(c \o b, c \o a)
    BY <1>11, <1>13, <2>2, CoversConcat
  <2>5. Inside(h \o (c \o b), h \o (c \o Append(a, d)), TRUE)
    BY <1>11, <2>1, <2>2, <2>3, InsideConcat
  <2>6. Covers(h \o (c \o b), h \o (c \o a))
    BY <1>11, <2>1, <2>2, <2>4, CoversConcat
  <2> QED BY <2>5, <2>6
<1>16. FlowsOn(i) /\ Covers(Stream(i)', Stream(i))
  BY <1>1, <1>12, <1>14, <1>15 DEF FlowsOn, d
<1>17. CanOld(i)' /\ Shown(i)' /\ Blank(i)'
  <2>0. \A k \in DOMAIN new : k \in 1..Len(box) \/ k = t
    BY <1>4 DEF t
  <2>1. \A k \in DOMAIN new : new[k].msg.type = "can" => k \in DOMAIN box /\ new[k] = box[k]
    BY <1>3, <1>4, <2>0 DEF t
  <2>2. CanOld(i)'
    BY <1>1, <2>1 DEF CanOld, box, new
  <2>3. \A k \in DOMAIN new : new[k].hide = 0 \/ (k \in DOMAIN box /\ new[k] = box[k])
    BY <1>4, <2>0 DEF t
  <2>4. Shown(i)'
    BY <1>1, <2>3 DEF Shown, QueueRows, box, new
  <2>5. Blank(i)'
    BY <1>1 DEF Blank
  <2> QED BY <2>2, <2>4, <2>5
<1>18. Undisturbed(i)
  BY <1>16, <1>17 DEF Undisturbed
<1>19. ASSUME NEW j \in Instance, j # i PROVE Undisturbed(j)
  <2>1. inbox'[j] = inbox[j]
    BY <1>4, <1>19
  <2> QED BY <1>1, <1>2, <2>1, Untouched
<1> QED BY <1>18, <1>19, UndisturbedConducts

(* The other steps that only add a message. *)
LEMMA PlainSteps ==
    ASSUME QueueInv, LifeInv',
           \/ \E i \in Instance : StartOrchestration(i) \/ RequestCancel(i)
           \/ \E a \in work, res \in {"ok", "app", "sys"} : CompleteActivity(a, res)
    PROVE  \A j \in Instance : Conducts(j)
<1>1. ASSUME NEW i \in Instance, StartOrchestration(i) PROVE \A j \in Instance : Conducts(j)
  <2>1. Start(NoLink) \in Message /\ Start(NoLink).type = "start"
    BY MessageTypes DEF Link
  <2>2. Enqueue(i, Start(NoLink)) /\ UNCHANGED <<inst, old, eaten, sent, faults>>
    BY <1>1 DEF StartOrchestration
  <2> QED BY <2>1, <2>2, EnqueuePlain
<1>2. ASSUME NEW i \in Instance, RequestCancel(i) PROVE \A j \in Instance : Conducts(j)
  <2>1. CancelInstance \in Message /\ CancelInstance.type = "cancel"
    BY MessageTypes
  <2>2. Enqueue(i, CancelInstance) /\ UNCHANGED <<inst, old, eaten, sent, faults>>
    BY <1>2 DEF RequestCancel
  <2> QED BY <2>1, <2>2, EnqueuePlain
<1>3. ASSUME NEW a \in work, NEW res \in {"ok", "app", "sys"}, CompleteActivity(a, res)
      PROVE  \A j \in Instance : Conducts(j)
  <2> DEFINE m == Done("activity", a[2], a[3], res, a[2])
  <2>1. a[1] \in Instance /\ a[2] \in Exec /\ a[3] \in CallId
    BY DEF QueueInv, LifeInv, TypeOK
  <2>2. m \in Message /\ m.type = "done"
    BY <2>1, MessageTypes DEF CallKind
  <2>3. Enqueue(a[1], m) /\ UNCHANGED <<inst, old, eaten, sent, faults>>
    BY <1>3 DEF CompleteActivity
  <2> HIDE DEF m
  <2> QED BY <2>1, <2>2, <2>3, EnqueuePlain
<1> QED BY <1>1, <1>2, <1>3

(* Rows are hidden or appear. *)
LEMMA HidingQueues ==
    ASSUME QueueInv, LifeInv', NEW i \in Instance,
           \/ Abandon(i)
           \/ \E h \in 1..MaxFaults : Reappear(i, h)
           \/ \E k \in DOMAIN inbox[i] : Fire(i, k)
    PROVE  \A j \in Instance : Conducts(j)
<1> DEFINE box == inbox[i]
           new == inbox'[i]
<1>1. /\ TypeOK /\ TypeOK' /\ UNCHANGED <<inst, eaten, sent>> /\ NoTwins(i) /\ CanOld(i) /\ Shown(i)
      /\ DOMAIN inbox = Instance /\ old \in [Instance -> Nat] /\ old[i] <= Len(inbox[i])
      /\ faults \in 0..MaxFaults /\ sent \in 0..MaxData /\ inbox[i] \in Seq(Rows(i))
  BY DEF QueueInv, LifeInv, TypeOK, Abandon, Reappear, Fire
<1>2. (faults' = 0 => faults = 0) /\ sent <= sent'
  <2>1. faults' = faults \/ faults' = faults + 1
    BY DEF Abandon, Reappear, Fire, Fault
  <2> QED BY <1>1, <2>1, BoundFacts
<1>3. /\ \A j \in Instance : j # i => inbox'[j] = inbox[j] /\ old'[j] = old[j]
      /\ old'[i] = old[i] \/ old'[i] = Len(inbox[i])
  BY <1>1 DEF Abandon, Reappear, Fire
<1>4. /\ DOMAIN new = DOMAIN box
      /\ \A k \in DOMAIN box : /\ new[k].msg = box[k].msg
                               /\ faults' = 0 => new[k].hide = box[k].hide \/ new[k].hide = 0
  <2>0. \A k \in DOMAIN box : box[k] \in Rows(i)
    BY <1>1
  <2>1. \A row \in Rows(i), h \in Int :
           [row EXCEPT !.hide = h].msg = row.msg /\ [row EXCEPT !.hide = h].hide = h
    BY DEF Rows
  <2>2. CASE Abandon(i)
    <3>1. new = [k \in DOMAIN box |->
                   IF box[k].hide = 0 THEN [box[k] EXCEPT !.hide = faults'] ELSE box[k]]
      BY <1>1, <2>2 DEF Abandon
    <3>2. faults' \in Int /\ faults' # 0
      BY <1>1, <2>2, BoundFacts DEF Abandon, Fault
    <3> HIDE DEF new, box
    <3> QED BY <2>0, <2>1, <3>1, <3>2
  <2>3. ASSUME NEW h \in 1..MaxFaults, Reappear(i, h)
        PROVE  /\ DOMAIN new = DOMAIN box
               /\ \A k \in DOMAIN box :
                     /\ new[k].msg = box[k].msg
                     /\ faults' = 0 => new[k].hide = box[k].hide \/ new[k].hide = 0
    <3>1. new = [k \in DOMAIN box |->
                   IF box[k].hide = h THEN [box[k] EXCEPT !.hide = 0] ELSE box[k]]
      BY <1>1, <2>3 DEF Reappear
    <3>2. 0 \in Int
      OBVIOUS
    <3> HIDE DEF new, box
    <3> QED BY <2>0, <2>1, <3>1, <3>2
  <2>4. ASSUME NEW n \in DOMAIN inbox[i], Fire(i, n)
        PROVE  /\ DOMAIN new = DOMAIN box
               /\ \A k \in DOMAIN box :
                     /\ new[k].msg = box[k].msg
                     /\ faults' = 0 => new[k].hide = box[k].hide \/ new[k].hide = 0
    <3>1. new = [box EXCEPT ![n] = [box[n] EXCEPT !.hide = 0]]
      BY <1>1, <2>4 DEF Fire
    <3>2. 0 \in Int
      OBVIOUS
    <3> HIDE DEF new, box
    <3> QED BY <2>0, <2>1, <3>1, <3>2
  <2> QED BY <2>2, <2>3, <2>4
<1>5. Kept(new, box, QueueRows(box))
  <2> HIDE DEF new, box
  <2> QED BY <1>4, KeptSelf
<1>6. CarryOf(new) = CarryOf(box)
  <2>1. box \in Seq(Rows(i)) /\ new \in Seq(Rows(i))
    BY <1>1, StreamTypes
  <2>2. \A k, l \in DOMAIN box : k # l => ~Twins(box[k].msg, box[l].msg)
    BY <1>1 DEF NoTwins
  <2> HIDE DEF new, box
  <2>3. \A k \in DOMAIN new : new[k].msg.type = "can" =>
           \E l \in DOMAIN box : box[l].msg = new[k].msg
    BY <1>4
  <2>4. Has(box, "can") => Has(new, "can")
    BY <1>4 DEF Has
  <2> QED BY <2>1, <2>2, <2>3, <2>4, CarrySame
<1>7. FlowsOn(i) /\ Covers(Stream(i)', Stream(i)) /\ Blank(i)'
  BY <1>1, <1>2, <1>5, <1>6, SameQueue
<1>8. CanOld(i)'
  <2>1. \A k \in DOMAIN box : k <= Len(box)
    BY <1>1
  <2>2. \A k \in DOMAIN box : box[k].msg.type = "can" => k <= old[i]
    BY <1>1 DEF CanOld
  <2>3. \A k \in DOMAIN new : new[k].msg.type = "can" => k <= old'[i]
    <3> HIDE DEF new
    <3> QED BY <1>3, <1>4, <2>1, <2>2
  <2> QED BY <2>3 DEF CanOld
<1>9. Shown(i)'
  <2>1. faults' = 0 => \A k \in QueueRows(box) : box[k].hide = 0
    BY <1>1, <1>2 DEF Shown
  <2>2. QueueRows(new) = QueueRows(box) /\ QueueRows(box) \subseteq DOMAIN box
    BY <1>4 DEF QueueRows
  <2>3. faults' = 0 => \A k \in QueueRows(new) : new[k].hide = 0
    <3> HIDE DEF new, box
    <3> QED BY <1>4, <2>1, <2>2
  <2> QED BY <2>3 DEF Shown, QueueRows
<1>10. Undisturbed(i)
  BY <1>7, <1>8, <1>9 DEF Undisturbed
<1>11. ASSUME NEW j \in Instance, j # i PROVE Undisturbed(j)
  <2>1. inbox'[j] = inbox[j] /\ old'[j] = old[j] /\ inst'[j] = inst[j] /\ eaten'[j] = eaten[j]
    BY <1>1, <1>3, <1>11
  <2> QED BY <1>1, <1>2, <2>1, Untouched
<1> QED BY <1>10, <1>11, UndisturbedConducts

(* Nothing happens to the queues. *)
LEMMA IdleQueues ==
    ASSUME QueueInv, LifeInv', UNCHANGED vars \/ \E r \in Runtime : Restart(r)
    PROVE  \A j \in Instance : Conducts(j)
<1>1. TypeOK /\ TypeOK' /\ faults \in 0..MaxFaults /\ sent \in 0..MaxData
  BY DEF QueueInv, LifeInv, TypeOK
<1>2. UNCHANGED <<inst, inbox, old, eaten, sent>> /\ (faults' = faults \/ faults' = faults + 1)
  BY DEF vars, Restart, Fault
<1>3. (faults' = 0 => faults = 0) /\ sent <= sent'
  BY <1>1, <1>2, BoundFacts
<1>4. \A j \in Instance : Undisturbed(j)
  BY <1>1, <1>2, <1>3, Untouched
<1> QED BY <1>4, UndisturbedConducts

----------------------------------------------------------------------------
(* Turns after which the instance goes on. *)

(* The queue messages of the batch. *)
LEMMA BatchListed ==
    ASSUME TypeOK, NEW i \in Instance, NEW n \in old[i]..Len(inbox[i])
    PROVE  /\ Arrivals(Batch(i, n)) \in Seq(Data)
           /\ Lists(Arrivals(Batch(i, n)), Payload(inbox[i]),
                    BatchRows(i, n) \cap QueueRows(inbox[i]))
<1> DEFINE box == inbox[i]
           b == Batch(i, n)
           K == BatchRows(i, n)
<1>1. /\ b \in Seq(Rows(i)) /\ b = Pick(box, K) /\ K \in SUBSET DOMAIN box
      /\ box \in Seq(Rows(i))
  BY BatchFacts DEF TypeOK
<1>2. <<>> \in Seq(AnyRow) /\ \A k \in DOMAIN <<>> : FALSE
  OBVIOUS
<1>3. b = Pick(box, K) \o <<>>
  <2> HIDE DEF b
  <2> QED BY <1>1, ConcatEmptySeq
<1> HIDE DEF box, b, K
<1>4. Copied(b, box, K \cap QueueRows(box))
  BY <1>1, <1>2, <1>3, PickKept
<1>5. K \cap QueueRows(box) \in SUBSET DOMAIN box
  BY <1>1
<1>6. Kept(b, box, K \cap QueueRows(box))
  BY <1>4 DEF Copied
<1>7. Arrivals(b) \in Seq(Data) /\ Lists(Arrivals(b), Payload(box), K \cap QueueRows(box))
  BY <1>1, <1>5, <1>6, KeptListed
<1> QED BY <1>7 DEF box, b, K

(* What an execution has at hand in a turn: what it had buffered, what was *)
(* carried on to it and what arrived.                                      *)
LEMMA AtHand ==
    ASSUME QueueInv, NEW i \in Instance, NEW n \in old[i]..Len(inbox[i]), Turn(i, n)
    PROVE  LET x == Before(i, n)
               y == After(i, n)
           IN  /\ y.arrived \in Seq(Data) /\ x.taken \in 0..Len(y.arrived)
               /\ Behind(y.arrived, x.taken) =
                     (Buffered(inst[i]) \o CarryOf(inbox[i])) \o Arrivals(Batch(i, n))
<1> DEFINE box == inbox[i]
           b == Batch(i, n)
           x == Before(i, n)
           y == After(i, n)
           u == inst[i]
<1>1. /\ LifeInv /\ TypeOK /\ Blank(i) /\ NoTwins(i) /\ Continuation(i) /\ ~Ended(i, b)
      /\ u \in Execution /\ box \in Seq(Rows(i))
  BY DEF QueueInv, LifeInv, TypeOK, Turn
<1>2. /\ b \in Seq(Rows(i))
      /\ \A k \in DOMAIN b : \E l \in DOMAIN box : b[k] = box[l]
  BY <1>1, BatchFacts
<1>3. /\ x \in Execution /\ x.taken <= Len(x.arrived)
      /\ \/ u.status = "running" /\ x = u /\ ~IsContinueAsNew(b)
         \/ /\ u.status \in {"none", "continued"}
            /\ x.calls = <<>> /\ x.arrived = <<>> /\ x.taken = 0
  BY <1>1, BeforeFacts
<1>5. x.arrived = u.arrived /\ x.taken = u.taken
  BY <1>1, <1>3 DEF Blank
<1>6. y.arrived = (x.arrived \o Carried(b)) \o Arrivals(b)
  <2>1. y = Applied(x, b)
    BY DEF After
  <2> HIDE DEF x, y, b
  <2> QED BY <1>2, <1>3, <2>1, AppliedFacts
<1>7. Carried(b) = CarryOf(box)
  <2>1. Carried(b) = IF IsContinueAsNew(b) THEN CarryOf(b) ELSE <<>>
    BY <1>2, CarryFacts
  <2>2. CASE u.status = "continued"
    <3>1. IsContinueAsNew(b)
      BY <1>1, <2>2 DEF Ended
    <3>2. Has(b, "can")
      BY <3>1 DEF IsContinueAsNew, Has
    <3>3. \A k, l \in DOMAIN box : k # l => ~Twins(box[k].msg, box[l].msg)
      BY <1>1 DEF NoTwins
    <3>4. \A k \in DOMAIN b : b[k].msg.type = "can" => \E l \in DOMAIN box : box[l].msg = b[k].msg
      BY <1>2
    <3> HIDE DEF b, box
    <3>5. CarryOf(b) = CarryOf(box)
      BY <1>1, <1>2, <3>2, <3>3, <3>4, CarrySame
    <3> QED BY <2>1, <3>1, <3>5
  <2>3. CASE u.status \in {"none", "running"}
    <3>1. \A k \in DOMAIN box : box[k].msg.type # "can"
      BY <1>1, <2>3 DEF Continuation, Messages
    <3>2. ~Has(box, "can") /\ ~IsContinueAsNew(b)
      BY <1>2, <3>1 DEF Has, IsContinueAsNew
    <3>3. CarryOf(box) = <<>>
      BY <1>1, <3>2, CarryFacts
    <3> QED BY <2>1, <3>2, <3>3
  <2> QED BY <1>3, <2>2, <2>3
<1>8. /\ Arrivals(b) \in Seq(Data) /\ CarryOf(box) \in Seq(Data)
      /\ Buffered(u) = Behind(u.arrived, u.taken) /\ Buffered(u) \in Seq(Data)
      /\ u.arrived \in Seq(Data) /\ u.taken \in Nat
  <2>1. Arrivals(b) \in Seq(Data)
    BY <1>2, ArrivalTypes
  <2>2. CarryOf(box) \in Seq(Data)
    BY <1>1, CarryFacts
  <2>3. Buffered(u) = Behind(u.arrived, u.taken)
    BY DEF Buffered, Behind
  <2>4. u.arrived \in Seq(Data) /\ u.taken \in Nat
    BY <1>1 DEF Execution
  <2>5. Behind(u.arrived, u.taken) \in Seq(Data)
    BY <2>4, BehindFacts
  <2> QED BY <2>1, <2>2, <2>3, <2>4, <2>5
<1> DEFINE A == u.arrived
           t == u.taken
           C == CarryOf(box)
           R == Arrivals(b)
<1>9. /\ A \in Seq(Data) /\ C \in Seq(Data) /\ R \in Seq(Data) /\ t \in Nat
      /\ t <= Len(A) /\ y.arrived = (A \o C) \o R
  BY <1>3, <1>5, <1>6, <1>7, <1>8
<1> HIDE DEF A, t, C, R
<1>10. /\ A \o C \in Seq(Data) /\ Len(A \o C) = Len(A) + Len(C) /\ Len(A) \in Nat /\ Len(C) \in Nat
       /\ Len(R) \in Nat
  BY <1>9
<1>11. t \in 0..Len(A) /\ t \in 0..Len(A \o C)
  BY <1>9, <1>10
<1>12. Behind(A \o C, t) = Behind(A, t) \o C
  BY <1>9, <1>11, BehindConcat
<1>13. Behind((A \o C) \o R, t) = Behind(A \o C, t) \o R
  <2> DEFINE s == A \o C
  <2>1. s \in Seq(Data) /\ t \in 0..Len(s)
    BY <1>10, <1>11
  <2> HIDE DEF s
  <2>2. Behind(s \o R, t) = Behind(s, t) \o R
    BY <1>9, <2>1, BehindConcat
  <2> QED BY <2>2 DEF s
<1>14. Behind(y.arrived, x.taken) = (Buffered(u) \o C) \o R
  BY <1>5, <1>8, <1>9, <1>12, <1>13 DEF A, t
<1>15. y.arrived \in Seq(Data) /\ x.taken \in 0..Len(y.arrived)
  <2> DEFINE s == A \o C
  <2>1. s \in Seq(Data) /\ Len(s) = Len(A) + Len(C)
    BY <1>10
  <2> HIDE DEF s
  <2>2. s \o R \in Seq(Data) /\ Len(s \o R) = Len(s) + Len(R)
    BY <1>9, <2>1, ConcatFacts
  <2>3. y.arrived = s \o R
    BY <1>9 DEF s
  <2>4. x.taken = t
    BY <1>5 DEF t
  <2> QED BY <1>9, <1>10, <2>1, <2>2, <2>3, <2>4
<1> QED BY <1>14, <1>15 DEF C, R

(* Messages behind messages behind messages. *)
LEMMA Associative ==
    \A s, t, u \in Seq(Data) : (s \o t) \o u = s \o (t \o u)
<1> SUFFICES ASSUME NEW s \in Seq(Data), NEW t \in Seq(Data), NEW u \in Seq(Data)
             PROVE  (s \o t) \o u = s \o (t \o u)
  OBVIOUS
<1> QED BY ConcatAssociative

(* With what stays in the inbox, that is the stream again: nothing is      *)
(* missing, it is in the same order unless rows were hidden, and what is   *)
(* at hand is always in order.                                             *)
LEMMA TurnInside ==
    ASSUME QueueInv, TypeOK', NEW i \in Instance, NEW n \in old[i]..Len(inbox[i]), Turn(i, n),
           Kept(inbox'[i], inbox[i], QueueRows(inbox[i]) \ BatchRows(i, n))
    PROVE  LET W == eaten[i] \o Behind(After(i, n).arrived, Before(i, n).taken)
               R == Arrivals(inbox'[i])
           IN  /\ W \in Seq(Data) /\ R \in Seq(Data) /\ W \o R \in Seq(Data)
               /\ Inside(W, Stream(i), TRUE)
               /\ Inside(W \o R, Stream(i), faults = 0)
               /\ Covers(W \o R, Stream(i))
<1> DEFINE box == inbox[i]
           new == inbox'[i]
           K == BatchRows(i, n)
           Q == QueueRows(box)
           e == eaten[i]
           f == Buffered(inst[i])
           c == CarryOf(box)
           a == Arrivals(box)
           b == Arrivals(Batch(i, n))
           r == Arrivals(new)
           d == Payload(box)
<1>1. /\ TypeOK /\ Shown(i) /\ box \in Seq(Rows(i)) /\ new \in Seq(Rows(i))
      /\ e \in Seq(Data) /\ inst[i] \in Execution
  <2>1. TypeOK /\ Shown(i)
    BY DEF QueueInv, LifeInv
  <2> QED BY <2>1, StreamTypes
<1>2. Behind(After(i, n).arrived, Before(i, n).taken) = (f \o c) \o b
  BY AtHand
<1>3. Stream(i) = (e \o f) \o (c \o a)
  BY StreamParts DEF Flow
<1>4. f \in Seq(Data) /\ c \in Seq(Data) /\ a \in Seq(Data)
  BY <1>1, FlowTypes
<1>5. b \in Seq(Data) /\ Lists(b, d, K \cap Q)
  BY <1>1, BatchListed
<1>6. a \in Seq(Data) /\ Q \in SUBSET DOMAIN box /\ Lists(a, d, Q)
  BY <1>1, BoxListed
<1>7. r \in Seq(Data) /\ Lists(r, d, Q \ K)
  <2>1. Q \ K \in SUBSET DOMAIN box
    BY <1>6
  <2> HIDE DEF Q, K, box, new
  <2> QED BY <1>1, <2>1, KeptListed DEF Q, K, box, new
<1>8. /\ Q \in SUBSET Int /\ K \cap Q \in SUBSET Q /\ Q \ K \in SUBSET Q
      /\ (K \cap Q) \cap (Q \ K) = {} /\ (K \cap Q) \cup (Q \ K) = Q
  <2>1. DOMAIN box \subseteq Int
    BY <1>1
  <2> HIDE DEF Q, K, box
  <2> QED BY <1>6, <2>1
<1>9. faults = 0 => \A p \in K \cap Q, q \in Q \ K : p < q
  <2> SUFFICES ASSUME faults = 0, NEW p \in K \cap Q, NEW q \in Q \ K PROVE p < q
    OBVIOUS
  <2>1. p \in 1..n /\ n \in Nat
    BY <1>1, BatchFacts DEF BatchRows
  <2>2. q \in DOMAIN box /\ box[q].hide = 0
    BY <1>1 DEF Shown, QueueRows
  <2>3. q \notin 1..n
    BY <2>2 DEF BatchRows
  <2>4. q \in Nat \ {0}
    BY <1>1, <2>2
  <2> QED BY <2>1, <2>3, <2>4
<1> HIDE DEF box, new, K, Q, e, f, c, a, b, r, d
<1>10. Inside(b \o r, a, faults = 0) /\ Covers(b \o r, a)
  <2> DEFINE P == K \cap Q
             L == Q \ K
             o == faults = 0
  <2>1. /\ Q \in SUBSET Int /\ P \in SUBSET Q /\ L \in SUBSET Q /\ P \cap L = {} /\ P \cup L = Q
        /\ Lists(b, d, P) /\ Lists(r, d, L) /\ Lists(a, d, Q)
        /\ (o => \A p \in P, q \in L : p < q)
    BY <1>5, <1>6, <1>7, <1>8, <1>9
  <2> HIDE DEF P, L, o
  <2>2. Inside(b \o r, a, o) /\ (P \cup L = Q => Covers(b \o r, a))
    BY <1>5, <1>6, <1>7, <2>1, ListedApart
  <2> QED BY <2>1, <2>2 DEF o
<1>11. Inside(b, a, TRUE)
  BY <1>5, <1>6, <1>8, ListedInside
<1> DEFINE W == e \o ((f \o c) \o b)
           g == (e \o f) \o c
<1>12. /\ f \o c \in Seq(Data) /\ (f \o c) \o b \in Seq(Data) /\ W \in Seq(Data)
       /\ e \o f \in Seq(Data) /\ g \in Seq(Data) /\ c \o a \in Seq(Data) /\ b \o r \in Seq(Data)
  BY <1>1, <1>4, <1>5, <1>6, <1>7, ConcatFacts
<1>13. W = g \o b /\ (e \o f) \o (c \o a) = g \o a /\ W \o r = g \o (b \o r)
  <2>1. (e \o f) \o (c \o a) = ((e \o f) \o c) \o a
    <3> DEFINE s == e \o f
    <3>1. s \in Seq(Data)
      BY <1>12
    <3> HIDE DEF s
    <3>2. s \o (c \o a) = (s \o c) \o a
      BY <1>4, <3>1, Associative
    <3> QED BY <3>2 DEF s
  <2>2. e \o ((f \o c) \o b) = ((e \o f) \o c) \o b
    <3> DEFINE s == f \o c
    <3>1. s \in Seq(Data)
      BY <1>12
    <3>2. e \o s = (e \o f) \o c
      BY <1>1, <1>4, Associative
    <3> HIDE DEF s
    <3>3. e \o (s \o b) = (e \o s) \o b
      BY <1>1, <1>5, <3>1, Associative
    <3>4. e \o (s \o b) = ((e \o f) \o c) \o b
      BY <3>2, <3>3
    <3> QED BY <3>4 DEF s
  <2>3. W = g \o b
    BY <2>2
  <2>4. g \in Seq(Data) /\ b \in Seq(Data) /\ r \in Seq(Data)
    BY <1>5, <1>7, <1>12
  <2>5. (g \o b) \o r = g \o (b \o r)
    <3> HIDE DEF W, g
    <3> QED BY <2>4, Associative
  <2> QED BY <2>1, <2>3, <2>5
<1> HIDE DEF W, g
<1>14. Inside(g, g, TRUE) /\ Inside(g, g, faults = 0) /\ Covers(g, g)
  BY <1>12, InsideSelf
<1>15. Inside(g \o b, g \o a, TRUE)
  BY <1>5, <1>6, <1>11, <1>12, <1>14, InsideConcat
<1>16. Inside(g \o (b \o r), g \o a, faults = 0)
  BY <1>6, <1>10, <1>12, <1>14, InsideConcat
<1>17. Covers(g \o (b \o r), g \o a)
  BY <1>6, <1>10, <1>12, <1>14, CoversConcat
<1>18. Stream(i) = g \o a
  BY <1>3, <1>13
<1>19. /\ W \in Seq(Data) /\ r \in Seq(Data) /\ W \o r \in Seq(Data)
       /\ Inside(W, Stream(i), TRUE) /\ Inside(W \o r, Stream(i), faults = 0)
       /\ Covers(W \o r, Stream(i))
  BY <1>7, <1>12, <1>13, <1>15, <1>16, <1>17, <1>18, ConcatFacts
<1> QED BY <1>2, <1>19 DEF W, r, e, new

(* What is dequeued now and what is left: all that is at hand. *)
LEMMA Dequeues ==
    ASSUME NEW e \in Seq(Data), NEW s \in Seq(Data), NEW a \in 0..Len(s), NEW b \in a..Len(s)
    PROVE  /\ SubSeq(s, a + 1, b) \in Seq(Data) /\ Behind(s, b) \in Seq(Data)
           /\ e \o SubSeq(s, a + 1, b) \in Seq(Data)
           /\ (e \o SubSeq(s, a + 1, b)) \o Behind(s, b) = e \o Behind(s, a)
<1> DEFINE p == SubSeq(s, a + 1, b)
           q == Behind(s, b)
<1>1. p \in Seq(Data) /\ p \o q = Behind(s, a)
  BY BehindConcat
<1>2. q \in Seq(Data)
  <2>1. b \in Nat
    OBVIOUS
  <2> QED BY <2>1, BehindFacts
<1> HIDE DEF p, q
<1>3. e \o p \in Seq(Data) /\ (e \o p) \o q = e \o (p \o q)
  BY <1>1, <1>2, Associative, ConcatFacts
<1> QED BY <1>1, <1>2, <1>3 DEF p, q

(* After a turn of i that sends no continuation, none is in its inbox. *)
LEMMA NoCarry ==
    ASSUME QueueInv, TypeOK', NEW i \in Instance, NEW n \in old[i]..Len(inbox[i]), Turn(i, n),
           NEW out, Plain(out), Ack(i, n, out)
    PROVE  CarryOf(inbox'[i]) = <<>>
<1>1. LifeInv /\ TypeOK /\ out \in Seq(AnyRow)
  BY DEF QueueInv, LifeInv, Plain
<1>2. \A l \in DOMAIN inbox[i] \ BatchRows(i, n) : inbox[i][l].msg.type # "can"
  BY <1>1, BeforeFacts
<1>3. Moved(i, BatchRows(i, n), out)
  BY <1>1, AckMoves
<1>4. \A m \in Messages(i)' : m.type # "can"
  BY <1>2, <1>3, MovedMessages DEF Plain
<1>5. ~Has(inbox'[i], "can")
  BY <1>4 DEF Has, Messages
<1>6. inbox'[i] \in Seq(Rows(i))
  BY <1>1, StreamTypes
<1> QED BY <1>5, <1>6, CarryFacts

(* A turn after which the execution goes on: no message is lost. *)
LEMMA GoingOnQueues ==
    ASSUME QueueInv, LifeInv', NEW i \in Instance, NEW n \in old[i]..Len(inbox[i]),
           NEW r \in Runtime, ContinueTurn(r, i, n)
    PROVE  \A j \in Instance : Conducts(j)
<1> DEFINE x == Before(i, n)
           y == After(i, n)
           out(z, D) == NewRows(i, y, z) \o CancelChildren(i, z, D)
<1>1. /\ LifeInv /\ TypeOK /\ TypeOK' /\ Turn(i, n) /\ UNCHANGED <<sent, faults>> /\ Shown(i)
      /\ inst \in [Instance -> Execution] /\ eaten \in [Instance -> Seq(Data)]
      /\ sent \in 0..MaxData
  BY DEF QueueInv, LifeInv, TypeOK, ContinueTurn
<1>2. PICK q \in Dequeued(i, y), D \in SUBSET Outstanding(y) : \E z \in Scheduled(i, q) :
        /\ inst' = [inst EXCEPT ![i] = Drop(z, D)] /\ Ack(i, n, out(z, D))
        /\ eaten' = [eaten EXCEPT ![i] = @ \o SubSeq(z.arrived, x.taken + 1, z.taken)]
  BY DEF ContinueTurn
<1>3. PICK z \in Scheduled(i, q) :
        /\ inst' = [inst EXCEPT ![i] = Drop(z, D)] /\ Ack(i, n, out(z, D))
        /\ eaten' = [eaten EXCEPT ![i] = @ \o SubSeq(z.arrived, x.taken + 1, z.taken)]
  BY <1>2
<1>4. /\ Continued(i, x, y, z, Drop(z, D), D) /\ Extends(i, q, z) /\ q \in Execution
      /\ q.calls = y.calls
  BY <1>1, <1>2, <1>3, ContinuedFacts
<1>5. /\ y \in Execution /\ y.taken = x.taken /\ y.taken <= Len(y.arrived)
      /\ x.exec \in Exec
  BY <1>1, AfterFacts, BeforeFacts
<1>6. /\ y.arrived \in Seq(Data) /\ x.taken \in 0..Len(y.arrived)
  BY <1>1, AtHand
<1>7. Plain(out(z, D))
  <2>1. z \in Execution /\ z.exec = x.exec
        /\ \A k \in DOMAIN z.calls : z.calls[k].kind = "child" => <<i, k>> \in DOMAIN Child
    BY <1>4 DEF Continued
  <2>2. NewRows(i, y, z) = NewRows(i, q, z)
    BY <1>4 DEF NewRows
  <2> HIDE DEF x, y
  <2>3. Plain(NewRows(i, y, z))
    BY <1>1, <1>4, <1>5, <2>1, <2>2, PlainSends
  <2>4. Plain(CancelChildren(i, z, D))
    BY <1>1, <2>1, PlainSends
  <2> QED BY <1>1, <2>3, <2>4, PlainSends
<1> HIDE DEF x, y, out
<1>8. /\ q.arrived = y.arrived /\ y.taken <= q.taken /\ q.taken <= Len(q.arrived)
  BY <1>5, DequeuedFacts
<1>9. /\ z.arrived = y.arrived /\ z.taken \in x.taken..Len(y.arrived)
      /\ z \in Execution
  <2>1. z.arrived = q.arrived /\ z.taken = q.taken /\ z \in Execution
    BY <1>4 DEF Extends
  <2>2. z.taken \in Nat
    BY <2>1 DEF Execution
  <2> QED BY <1>5, <1>6, <1>8, <2>1, <2>2
<1> DEFINE u == Drop(z, D)
<1>10. /\ u \in Execution /\ u.arrived = z.arrived /\ u.taken = z.taken /\ u.status = "running"
  <2>1. D \in SUBSET DOMAIN z.calls /\ u.status = "running"
    BY <1>4 DEF Continued
  <2>2. Drop(z, D) \in Execution /\ Drop(z, D).arrived = z.arrived /\ Drop(z, D).taken = z.taken
    BY <1>9, <2>1, DropFacts
  <2> QED BY <2>1, <2>2
<1> HIDE DEF u
<1>11. /\ inst'[i] = u /\ \A j \in Instance : j # i => inst'[j] = inst[j] /\ eaten'[j] = eaten[j]
       /\ eaten'[i] = eaten[i] \o SubSeq(y.arrived, x.taken + 1, z.taken)
  BY <1>1, <1>3, <1>9 DEF u
<1> DEFINE e == eaten[i]
           s == y.arrived
           R == Arrivals(inbox'[i])
           W == e \o Behind(s, x.taken)
<1>12. /\ eaten'[i] \in Seq(Data) /\ Behind(s, z.taken) \in Seq(Data)
       /\ eaten'[i] \o Behind(s, z.taken) = W
  <2>1. e \in Seq(Data) /\ s \in Seq(Data) /\ x.taken \in 0..Len(s) /\ z.taken \in x.taken..Len(s)
    BY <1>1, <1>6, <1>9
  <2> DEFINE a == x.taken
             b == z.taken
  <2>2. a \in 0..Len(s) /\ b \in a..Len(s)
    BY <2>1
  <2>3. eaten'[i] = e \o SubSeq(s, a + 1, b)
    BY <1>11
  <2> HIDE DEF a, b, e, s
  <2>4. /\ Behind(s, b) \in Seq(Data) /\ e \o SubSeq(s, a + 1, b) \in Seq(Data)
        /\ (e \o SubSeq(s, a + 1, b)) \o Behind(s, b) = e \o Behind(s, a)
    BY <2>1, <2>2, Dequeues
  <2>5. eaten'[i] \in Seq(Data) /\ eaten'[i] \o Behind(s, b) = e \o Behind(s, a)
    BY <2>3, <2>4
  <2> QED BY <2>4, <2>5 DEF a, b, e, s
<1>13. CarryOf(inbox'[i]) = <<>>
  BY <1>1, <1>3, <1>7, NoCarry
<1>14. /\ Kept(inbox'[i], inbox[i], QueueRows(inbox[i]) \ BatchRows(i, n))
       /\ CanOld(i)' /\ Shown(i)'
  <2>1. out(z, D) \in Seq(AnyRow) /\ \A k \in DOMAIN out(z, D) : out(z, D)[k].msg.type # "queue"
    BY <1>7 DEF Plain
  <2> QED BY <1>1, <1>3, <2>1, AckOwn
<1>15. /\ W \in Seq(Data) /\ R \in Seq(Data) /\ Inside(W \o R, Stream(i), faults = 0)
       /\ Covers(W \o R, Stream(i))
  BY <1>1, <1>14, TurnInside DEF x, y
<1>16. Stream(i)' = W \o R
  <2>1. Stream(i)' = Flow(eaten'[i], u, inbox'[i])
    BY <1>11, StreamParts
  <2>2. Buffered(u) = Behind(s, z.taken)
    BY <1>9, <1>10 DEF Buffered, Behind
  <2>3. <<>> \o R = R
    BY <1>15, ConcatEmptySeq
  <2> QED BY <1>12, <1>13, <2>1, <2>2, <2>3 DEF Flow
<1>17. sent <= sent'
  BY <1>1, BoundFacts
<1>18. Undisturbed(i)
  <2>1. FlowsOn(i) /\ Covers(Stream(i)', Stream(i))
    BY <1>15, <1>16, <1>17 DEF FlowsOn
  <2>2. Blank(i)'
    BY <1>10, <1>11 DEF Blank
  <2> QED BY <1>14, <2>1, <2>2 DEF Undisturbed
<1>19. ASSUME NEW j \in Instance, j # i PROVE Conducts(j)
  <2>1. /\ out(z, D) \in Seq(AnyRow)
        /\ \A k \in DOMAIN out(z, D) : out(z, D)[k].msg.type \notin {"queue", "can"}
    BY <1>7 DEF Plain
  <2>2. inst'[j] = inst[j] /\ eaten'[j] = eaten[j]
    BY <1>11, <1>19
  <2> QED BY <1>1, <1>3, <1>17, <1>19, <2>1, <2>2, AckElsewhere
<1> QED BY <1>18, <1>19, UndisturbedConducts


----------------------------------------------------------------------------
(* Continue-as-new. *)

(* The continuation of an inbox, when there is one. *)
LEMMA CarriedAlone ==
    ASSUME NEW i \in Instance, NEW box \in Seq(Rows(i)), Has(box, "can"), NEW msg,
           \A k \in DOMAIN box : box[k].msg.type = "can" => box[k].msg = msg
    PROVE  CarryOf(box) = msg.carry /\ RowsOf(box, "can")[1].msg = msg
<1>1. CarryOf(box) = msg.carry
  BY CarryFacts
<1>2. /\ 1 \in DOMAIN RowsOf(box, "can")
      /\ \A n \in DOMAIN RowsOf(box, "can") :
            \E k \in DOMAIN box : box[k].msg.type = "can" /\ RowsOf(box, "can")[n] = box[k]
  BY RowsFrom
<1>3. PICK k \in DOMAIN box : box[k].msg.type = "can" /\ RowsOf(box, "can")[1] = box[k]
  BY <1>2
<1> QED BY <1>1, <1>3

(* The messages that remain when each dequeue without one is counted as    *)
(* having taken one.                                                       *)
LEMMA UnmatchedFacts ==
    ASSUME NEW i \in Instance, NEW y \in Execution, y.taken <= Len(y.arrived),
           NEW z \in Dequeued(i, y)
    PROVE  /\ z.waiting \in Nat
           /\ Unmatched(z) = Behind(z.arrived, z.taken + z.waiting)
           /\ Unmatched(z) \in Seq(Data)
           /\ Inside(Unmatched(z), Behind(z.arrived, z.taken), TRUE)
<1> DEFINE s == z.arrived
           t == z.taken
           v == z.taken + z.waiting
<1>1. z \in Execution
  BY DequeuedFacts
<1>2. s \in Seq(Data) /\ t \in Nat /\ z.waiting \in Nat /\ v \in Nat /\ t <= v
  BY <1>1 DEF Execution
<1>3. Unmatched(z) = Behind(s, v)
  BY DEF Unmatched, Behind
<1> HIDE DEF s, t, v
<1>4. Behind(s, v) \in Seq(Data)
  BY <1>2, BehindFacts
<1>5. Inside(Behind(s, v), Behind(s, t), TRUE)
  BY <1>2, SubSeqInside
<1> QED BY <1>2, <1>3, <1>4, <1>5 DEF s, t, v

(* Where a message is, and that it is behind others. *)
PlaceOf(s, v) == CHOOSE k \in DOMAIN s : s[k] = v

Ahead(c, v, s) == \A n \in DOMAIN c : PlaceOf(s, c[n]) < PlaceOf(s, v)

(* A message is in one place. *)
LEMMA AtFacts ==
    ASSUME NEW s \in Seq(Data), NEW o \in BOOLEAN, Arranged(s, o), NEW k \in DOMAIN s
    PROVE  PlaceOf(s, s[k]) = k
<1> DEFINE m == PlaceOf(s, s[k])
<1>1. m \in DOMAIN s /\ s[m] = s[k]
  BY DEF PlaceOf
<1> HIDE DEF m
<1>2. DOMAIN s \subseteq Int /\ s[k] \in Int
  BY DataFacts
<1>3. ~(m < k) /\ ~(k < m)
  BY <1>1, <1>2 DEF Arranged
<1> QED BY <1>1, <1>2, <1>3 DEF m

(* A message is among the messages of a sequence. *)
Member(v, s) == \E k \in DOMAIN s : s[k] = v

(* What is in the parts is in the whole. *)
LEMMA MemberConcat ==
    ASSUME NEW s \in Seq(Data), NEW t \in Seq(Data), NEW v
    PROVE  Member(v, s \o t) <=> Member(v, s) \/ Member(v, t)
<1> DEFINE w == s \o t
           a == Len(s)
           b == Len(t)
<1>1. /\ DOMAIN w = 1..(a + b) /\ a \in Nat /\ b \in Nat /\ DOMAIN s = 1..a /\ DOMAIN t = 1..b
      /\ \A k \in 1..a : w[k] = s[k]
      /\ \A k \in 1..b : w[a + k] = t[k]
      /\ \A k \in (a + 1)..(a + b) : w[k] = t[k - a]
  BY ConcatFacts
<1> HIDE DEF w, a, b
<1>2. ASSUME NEW k \in DOMAIN w, w[k] = v PROVE Member(v, s) \/ Member(v, t)
  <2>1. CASE k \in 1..a
    BY <1>1, <1>2, <2>1 DEF Member
  <2>2. CASE k \in (a + 1)..(a + b)
    <3>1. k - a \in 1..b
      BY <1>1, <2>2
    <3> QED BY <1>1, <1>2, <2>2, <3>1 DEF Member
  <2> QED BY <1>1, <2>1, <2>2
<1>3. ASSUME NEW k \in DOMAIN s, s[k] = v PROVE Member(v, w)
  <2>1. k \in 1..(a + b)
    BY <1>1
  <2> QED BY <1>1, <1>3, <2>1 DEF Member
<1>4. ASSUME NEW k \in DOMAIN t, t[k] = v PROVE Member(v, w)
  <2>1. a + k \in 1..(a + b)
    BY <1>1
  <2> QED BY <1>1, <1>4, <2>1 DEF Member
<1>5. Member(v, w) => Member(v, s) \/ Member(v, t)
  BY <1>2 DEF Member
<1>6. Member(v, s) \/ Member(v, t) => Member(v, w)
  BY <1>3, <1>4 DEF Member
<1> QED BY <1>5, <1>6 DEF w

(* When the messages r that remain are cut after the first m, what is lost *)
(* of them comes behind all that is carried on.                            *)
LEMMA CutTail ==
    ASSUME NEW s \in Seq(Data), NEW o \in BOOLEAN, Arranged(s, o),
           NEW e \in Seq(Data), NEW r \in Seq(Data),
           NEW m \in 0..Len(r), NEW c, c = SubSeq(r, 1, m),
           Inside(e \o r, s, TRUE),
           NEW d \in DOMAIN s, Member(s[d], r), ~Member(s[d], c)
    PROVE  m < Len(r) /\ Ahead(c, s[d], s)
<1> DEFINE w == e \o r
           a == Len(e)
           b == Len(r)
<1>1. /\ w \in Seq(Data) /\ a \in Nat /\ b \in Nat /\ DOMAIN r = 1..b
      /\ DOMAIN w = 1..(a + b)
      /\ \A k \in 1..b : w[a + k] = r[k]
  BY ConcatFacts
<1>2. c \in Seq(Data) /\ DOMAIN c = 1..m /\ \A k \in 1..m : c[k] = r[k]
  <2>1. c \in Seq(Data) /\ Len(c) = m /\ \A k \in 1..m : c[k] = r[k]
    BY SubSeqInside
  <2> QED BY <2>1
<1>3. PICK p \in DOMAIN r : r[p] = s[d]
  BY DEF Member
<1> HIDE DEF w, a, b
<1>4. m \in Nat /\ m <= b
  BY DEF b
<1>5. p \in 1..b /\ p > m
  <2>1. p \notin 1..m
    BY <1>2, <1>3 DEF Member
  <2> QED BY <1>1, <1>4, <2>1
<1>6. PICK f : Embeds(f, w, s, TRUE)
  BY DEF Inside, w
<1>7. /\ \A k \in DOMAIN w : f[k] \in DOMAIN s /\ w[k] = s[f[k]]
      /\ \A j, k \in DOMAIN w : j < k => f[j] < f[k]
  BY <1>6 DEF Embeds
<1>8. ASSUME NEW n \in DOMAIN c
      PROVE  PlaceOf(s, c[n]) < PlaceOf(s, s[d])
  <2>1. n \in 1..m /\ n \in 1..b /\ n < p
    BY <1>1, <1>2, <1>4, <1>5
  <2>2. a + n \in DOMAIN w /\ a + p \in DOMAIN w /\ a + n < a + p
    BY <1>1, <1>5, <2>1
  <2>3. w[a + n] = c[n] /\ w[a + p] = s[d]
    BY <1>1, <1>2, <1>3, <1>5, <2>1
  <2>4. f[a + n] \in DOMAIN s /\ f[a + p] \in DOMAIN s /\ f[a + n] < f[a + p]
    BY <1>7, <2>2
  <2>5. s[f[a + n]] = c[n] /\ s[f[a + p]] = s[d]
    BY <1>7, <2>2, <2>3
  <2>6. PlaceOf(s, s[f[a + n]]) = f[a + n]
    BY <2>4, AtFacts
  <2>7. PlaceOf(s, s[f[a + p]]) = f[a + p]
    BY <2>4, AtFacts
  <2> QED BY <2>4, <2>5, <2>6, <2>7
<1>9. m < b
  BY <1>1, <1>4, <1>5
<1> QED BY <1>8, <1>9 DEF b, Ahead

(* The first w elements of a sequence are w at most, and what is not among *)
(* them is among the others.                                               *)
LEMMA HeadFacts ==
    ASSUME NEW s \in Seq(Data), NEW t \in Nat, NEW w \in Nat, t <= Len(s)
    PROVE  LET B == Behind(s, t)
               head == {B[k] : k \in 1..w}
           IN  /\ IsFiniteSet(head) /\ Cardinality(head) <= w
               /\ \A v : Member(v, B) => v \in head \/ Member(v, Behind(s, t + w))
<1> DEFINE B == Behind(s, t)
           head == {B[k] : k \in 1..w}
           g == [k \in 1..w |-> B[k]]
<1>1. IsFiniteSet(1..w) /\ Cardinality(1..w) \in Nat /\ Cardinality(1..w) <= w
  <2>1. IsFiniteSet(1..w) /\ Cardinality(1..w) = IF 1 > w THEN 0 ELSE w - 1 + 1
    BY FS_Interval
  <2> QED BY <2>1
<1>2. g \in Surjection(1..w, head)
  BY DEF Surjection
<1>3. IsFiniteSet(head) /\ Cardinality(head) <= Cardinality(1..w)
  <2> HIDE DEF g, head
  <2> QED BY <1>1, <1>2, FS_Surjection
<1>4. Cardinality(head) \in Nat
  <2> HIDE DEF head
  <2> QED BY <1>3, FS_CardinalityType
<1>5. Cardinality(head) <= w
  <2> HIDE DEF head
  <2> QED BY <1>1, <1>3, <1>4
<1>6. ASSUME NEW v, Member(v, B), v \notin head PROVE Member(v, Behind(s, t + w))
  <2> DEFINE C == Behind(s, t + w)
             n == Len(s)
  <2>1. n \in Nat /\ t + w \in Nat
    OBVIOUS
  <2>2. /\ B \in Seq(Data) /\ Len(B) = n - t
        /\ \A k \in 1..(n - t) : B[k] = s[t + k]
    BY BehindFacts
  <2>3. /\ C \in Seq(Data) /\ Len(C) = IF t + w <= n THEN n - (t + w) ELSE 0
        /\ \A k \in 1..(n - (t + w)) : C[k] = s[t + w + k]
    BY <2>1, BehindFacts
  <2>4. PICK k \in DOMAIN B : B[k] = v
    BY <1>6 DEF Member
  <2>5. k \notin 1..w
    BY <1>6, <2>4
  <2> HIDE DEF B, C, n, head
  <2>6. k \in 1..(n - t)
    BY <2>2, <2>4
  <2>7. k - w \in 1..(n - (t + w)) /\ t + w + (k - w) = t + k
    BY <2>1, <2>5, <2>6
  <2>8. C[k - w] = v
    BY <2>2, <2>3, <2>4, <2>6, <2>7
  <2>9. k - w \in DOMAIN C
    BY <2>1, <2>3, <2>7
  <2> QED BY <2>8, <2>9 DEF Member, C
<1> QED BY <1>3, <1>5, <1>6

(* A turn that continues as new: the stream is that of before, without the *)
(* messages beyond the limit and one for each dequeue without a message.   *)
LEMMA ContinuingQueues ==
    ASSUME QueueInv, LifeInv', NEW i \in Instance, NEW n \in old[i]..Len(inbox[i]),
           ContinueAsNewTurn(i, n)
    PROVE  \A j \in Instance : Conducts(j)
<1> DEFINE x == Before(i, n)
           y == After(i, n)
           r(z) == Unmatched(z)
           m(z) == IF Len(r(z)) > MaxCarry THEN MaxCarry ELSE Len(r(z))
           c(z) == SubSeq(r(z), 1, m(z))
<1>1. /\ LifeInv /\ TypeOK /\ TypeOK' /\ Turn(i, n) /\ UNCHANGED <<sent, faults>> /\ Shown(i)
      /\ inst \in [Instance -> Execution] /\ eaten \in [Instance -> Seq(Data)]
      /\ sent \in 0..MaxData /\ InOrder(i)
  BY DEF QueueInv, LifeInv, TypeOK, ContinueAsNewTurn
<1>2. PICK z \in Dequeued(i, y) :
        /\ Terminate(i, z, "continued")
        /\ Ack(i, n, <<Row(i, ContinueAsNew(c(z), z.waiting), 0)>>)
        /\ eaten' = [eaten EXCEPT ![i] = @ \o SubSeq(z.arrived, x.taken + 1, z.taken)]
  BY DEF ContinueAsNewTurn
<1>3. /\ y \in Execution /\ y.taken = x.taken /\ y.taken <= Len(y.arrived)
      /\ y.arrived \in Seq(Data) /\ x.taken \in 0..Len(y.arrived)
  BY <1>1, AfterFacts, AtHand
<1> DEFINE s == y.arrived
           t == z.taken
           B == Behind(s, t)
           R == Arrivals(inbox'[i])
           u == Fresh(z.exec, "continued", z.link)
           idle == z.waiting
           msg == ContinueAsNew(c(z), idle)
           row == Row(i, msg, 0)
<1>4. /\ z \in Execution /\ z.arrived = s /\ t \in x.taken..Len(s)
  <2> HIDE DEF x, y
  <2>1. z \in Execution /\ z.arrived = y.arrived /\ y.taken <= z.taken /\ z.taken <= Len(z.arrived)
    BY <1>3, DequeuedFacts
  <2>2. z.taken \in Nat
    BY <2>1 DEF Execution
  <2> QED BY <1>3, <2>1, <2>2
<1>5. /\ r(z) \in Seq(Data) /\ Inside(r(z), B, TRUE)
      /\ idle \in Nat /\ r(z) = Behind(s, t + idle)
  <2> HIDE DEF x, y
  <2> QED BY <1>3, <1>4, UnmatchedFacts
<1> HIDE DEF x, y, r
<1>6. m(z) \in 0..Len(r(z)) /\ (m(z) < Len(r(z)) => m(z) = MaxCarry)
  <2>1. MaxCarry \in Nat /\ Len(r(z)) \in Nat
    BY <1>5, BoundFacts
  <2> QED BY <2>1
<1> HIDE DEF m
<1>7. c(z) \in Seq(Data) /\ Len(c(z)) = m(z) /\ Inside(c(z), r(z), TRUE)
  BY <1>5, <1>6, SubSeqInside
<1>8. c(z) = SubSeq(r(z), 1, m(z))
  OBVIOUS
<1> HIDE DEF c
<1>26. msg \in Message /\ msg.type = "can" /\ msg.carry = c(z) /\ msg.idle = idle
  <2> HIDE DEF idle
  <2> QED BY <1>5, <1>7, MessageTypes
<1> HIDE DEF msg
<1>9. row \in AnyRow /\ row.to = i /\ row.msg.type = "can" /\ row.msg = msg
  <2>1. row = Row(i, msg, 0)
    OBVIOUS
  <2> HIDE DEF row
  <2> QED BY <1>26, <2>1, BoundFacts, RowFacts
<1>10. Ack(i, n, <<row>>)
  BY <1>2 DEF msg
<1> HIDE DEF row
<1>11. /\ <<row>> \in Seq(AnyRow) /\ DOMAIN <<row>> = {1} /\ <<row>>[1] = row
  BY <1>9
<1>12. /\ inbox'[i] \in Seq(Rows(i)) /\ CarryOf(inbox'[i]) = c(z)
       /\ RowsOf(inbox'[i], "can")[1].msg = msg
  <2> DEFINE new == inbox'[i]
  <2>1. Moved(i, BatchRows(i, n), <<row>>) /\ new \in Seq(Rows(i))
    BY <1>1, <1>10, <1>11, AckMoves
  <2>2. \A l \in DOMAIN inbox[i] \ BatchRows(i, n) : inbox[i][l].msg.type # "can"
    BY <1>1, BeforeFacts
  <2>3. row.msg \in Messages(i)'
    BY <1>9, <1>11, <2>1, MovedMessages
  <2>4. \A v \in Messages(i)' : v.type = "can" => v = row.msg
    BY <1>11, <2>1, <2>2, MovedMessages
  <2>5. Has(new, "can")
    BY <1>9, <2>3 DEF Messages, Has
  <2>6. \A k \in DOMAIN new : new[k].msg.type = "can" => new[k].msg = msg
    BY <1>9, <2>4 DEF Messages
  <2> HIDE DEF new
  <2>7. CarryOf(new) = msg.carry /\ RowsOf(new, "can")[1].msg = msg
    BY <2>1, <2>5, <2>6, CarriedAlone
  <2> QED BY <1>26, <2>1, <2>7 DEF new
<1>13. /\ inst'[i] = u /\ eaten'[i] = eaten[i] \o SubSeq(s, x.taken + 1, t)
       /\ \A j \in Instance : j # i => inst'[j] = inst[j] /\ eaten'[j] = eaten[j]
  BY <1>1, <1>2, <1>4 DEF Terminate
<1>14. /\ u.status = "continued" /\ u.arrived = <<>> /\ u.taken = 0 /\ Buffered(u) = <<>>
  <2>1. z.exec \in 0..MaxExec /\ z.link \in Link
    BY <1>4 DEF Execution
  <2>2. u.status = "continued" /\ u.arrived = <<>> /\ u.taken = 0
    BY <2>1, FreshFacts
  <2>3. SubSeq(<<>>, 0 + 1, Len(<<>>)) = <<>>
    OBVIOUS
  <2> HIDE DEF u
  <2> QED BY <2>2, <2>3 DEF Buffered
<1> HIDE DEF u
<1> DEFINE e == eaten[i]
           f == eaten'[i]
           W == e \o Behind(s, x.taken)
<1>15. f \in Seq(Data) /\ B \in Seq(Data) /\ f \o B = W
  <2> DEFINE a == x.taken
  <2>1. e \in Seq(Data) /\ s \in Seq(Data) /\ a \in 0..Len(s) /\ t \in a..Len(s)
    BY <1>1, <1>3, <1>4
  <2>2. f = e \o SubSeq(s, a + 1, t)
    BY <1>13
  <2> HIDE DEF a, e, s, t, f
  <2>3. /\ Behind(s, t) \in Seq(Data) /\ e \o SubSeq(s, a + 1, t) \in Seq(Data)
        /\ (e \o SubSeq(s, a + 1, t)) \o Behind(s, t) = e \o Behind(s, a)
    BY <2>1, Dequeues
  <2>4. f \in Seq(Data) /\ f \o Behind(s, t) = e \o Behind(s, a)
    BY <2>2, <2>3
  <2> QED BY <2>3, <2>4 DEF a
<1>16. /\ Kept(inbox'[i], inbox[i], QueueRows(inbox[i]) \ BatchRows(i, n))
       /\ CanOld(i)' /\ Shown(i)'
  BY <1>1, <1>9, <1>10, <1>11, AckOwn
<1>17. /\ W \in Seq(Data) /\ R \in Seq(Data) /\ W \o R \in Seq(Data)
       /\ Inside(W, Stream(i), TRUE)
       /\ Inside(W \o R, Stream(i), faults = 0)
       /\ Covers(W \o R, Stream(i))
  BY <1>1, <1>16, TurnInside DEF x, y
<1>18. Stream(i)' = f \o (c(z) \o R)
  <2>1. Stream(i)' = Flow(f, u, inbox'[i])
    BY <1>13, StreamParts
  <2>2. f \o <<>> = f
    BY <1>15, ConcatEmptySeq
  <2> QED BY <1>12, <1>14, <2>1, <2>2 DEF Flow
<1>19. sent <= sent' /\ Stream(i) \in Seq(Data)
  BY <1>1, BoundFacts, StreamTypes
<1> HIDE DEF B, R, W, f, s, t
<1> DEFINE q == c(z)
           rest == r(z)
<1>20. /\ rest \in Seq(Data) /\ q \in Seq(Data) /\ Inside(rest, B, TRUE) /\ Inside(q, rest, TRUE)
  BY <1>5, <1>7
<1>21. FlowsOn(i)
  <2> HIDE DEF q, rest
  <2>1. Inside(q, B, TRUE)
    <3>1. TRUE \in BOOLEAN /\ (TRUE /\ TRUE) = TRUE
      OBVIOUS
    <3>2. Inside(q, B, TRUE /\ TRUE)
      BY <1>15, <1>20, <3>1, InsideChain
    <3> QED BY <3>1, <3>2
  <2>2. Inside(R, R, TRUE) /\ Inside(f, f, TRUE)
    BY <1>15, <1>17, InsideSelf
  <2>3. q \o R \in Seq(Data) /\ B \o R \in Seq(Data)
    BY <1>15, <1>17, <1>20, ConcatFacts
  <2>4. Inside(q \o R, B \o R, TRUE)
    BY <1>15, <1>17, <1>20, <2>1, <2>2, InsideConcat
  <2> DEFINE v == q \o R
             w == B \o R
  <2>5. v \in Seq(Data) /\ w \in Seq(Data) /\ Inside(v, w, TRUE)
    BY <2>3, <2>4
  <2>6. f \o w = W \o R
    BY <1>15, <1>17, Associative
  <2> HIDE DEF v, w
  <2>7. Inside(f \o v, f \o w, TRUE)
    BY <1>15, <2>2, <2>5, InsideConcat
  <2>8. f \o v \in Seq(Data)
    BY <1>15, <2>5, ConcatFacts
  <2> DEFINE a == f \o v
             b == W \o R
             o == faults = 0
  <2>9. /\ a \in Seq(Data) /\ b \in Seq(Data) /\ Inside(a, b, TRUE) /\ Inside(b, Stream(i), o)
        /\ o \in BOOLEAN /\ TRUE \in BOOLEAN
    BY <1>17, <2>6, <2>7, <2>8
  <2> HIDE DEF a, b, o
  <2>10. Inside(a, Stream(i), TRUE /\ o)
    BY <1>19, <2>9, InsideChain
  <2>11. (TRUE /\ o) = o
    BY <2>9
  <2>12. Inside(a, Stream(i), o)
    BY <2>10, <2>11
  <2>13. Stream(i)' = a
    BY <1>18 DEF a, v, q
  <2>14. Inside(Stream(i)', Stream(i), faults = 0)
    BY <2>12, <2>13 DEF o
  <2> QED BY <1>19, <2>14 DEF FlowsOn
<1>22. Advances(i)
  <2>1. Blank(i)'
    BY <1>13, <1>14 DEF Blank
  <2> QED BY <1>16, <1>21, <2>1 DEF Advances
<1> DEFINE S == Stream(i)
           T == Stream(i)'
           o == faults = 0
           k == m(z)
           head == {B[l] : l \in 1..idle}
<1>27. /\ S \in Seq(Data) /\ o \in BOOLEAN /\ Arranged(S, o)
       /\ f \in Seq(Data) /\ B \in Seq(Data) /\ R \in Seq(Data)
       /\ rest \in Seq(Data) /\ q \in Seq(Data) /\ k \in 0..Len(rest) /\ q = SubSeq(rest, 1, k)
       /\ Covers((f \o B) \o R, S) /\ Inside(f \o B, S, TRUE) /\ T = f \o (q \o R)
  BY <1>1, <1>6, <1>8, <1>15, <1>17, <1>18, <1>19, <1>20 DEF InOrder
<1>28. (k < Len(rest) => k = MaxCarry) /\ Len(q) = k
  BY <1>6, <1>7
<1>29. /\ IsFiniteSet(head) /\ Cardinality(head) <= idle
       /\ \A v : Member(v, B) => v \in head \/ Member(v, rest)
  <2>1. s \in Seq(Data) /\ t \in Nat /\ t <= Len(s)
    BY <1>3, <1>4 DEF s
  <2> HIDE DEF head, idle, t
  <2> QED BY <1>5, <2>1, HeadFacts DEF B, head
<1> HIDE DEF q, rest, o, k, S, T, head
<1>30. Inside(f \o rest, S, TRUE)
  <2>1. Inside(f, f, TRUE)
    BY <1>27, InsideSelf
  <2>2. Inside(f \o rest, f \o B, TRUE)
    BY <1>20, <1>27, <2>1, InsideConcat
  <2>3. f \o rest \in Seq(Data) /\ f \o B \in Seq(Data)
    BY <1>27, ConcatFacts
  <2> DEFINE a == f \o rest
             b == f \o B
  <2>4. a \in Seq(Data) /\ b \in Seq(Data) /\ Inside(a, b, TRUE) /\ Inside(b, S, TRUE)
    BY <1>27, <2>2, <2>3
  <2> HIDE DEF a, b
  <2>5. Inside(a, S, TRUE /\ TRUE)
    BY <1>27, <2>4, InsideChain
  <2> QED BY <2>5 DEF a
<1>31. ASSUME NEW v \in Streamed(i) \ Streamed(i)', v \notin head
       PROVE  Len(q) = MaxCarry /\ Ahead(q, v, S)
  <2>1. PICK d \in DOMAIN S : S[d] = v
    BY DEF Streamed, S
  <2>2. ~Member(v, T)
    BY <1>31 DEF Streamed, T, Member
  <2>3. ~Member(v, f) /\ ~Member(v, q) /\ ~Member(v, R)
    <3>1. q \o R \in Seq(Data)
      BY <1>27, ConcatFacts
    <3>2. Member(v, T) <=> Member(v, f) \/ Member(v, q \o R)
      BY <1>27, <3>1, MemberConcat
    <3>3. Member(v, q \o R) <=> Member(v, q) \/ Member(v, R)
      BY <1>27, MemberConcat
    <3> QED BY <2>2, <3>2, <3>3
  <2>4. Member(v, B)
    <3>1. f \o B \in Seq(Data)
      BY <1>27, ConcatFacts
    <3>2. Member(v, (f \o B) \o R)
      BY <1>27, <2>1 DEF Covers, Member
    <3>3. Member(v, f \o B) \/ Member(v, R)
      BY <1>27, <3>1, <3>2, MemberConcat
    <3>4. Member(v, f \o B) <=> Member(v, f) \/ Member(v, B)
      BY <1>27, MemberConcat
    <3> QED BY <2>3, <3>3, <3>4
  <2>5. Member(v, rest)
    BY <1>29, <1>31, <2>4
  <2>6. k < Len(rest) /\ Ahead(q, S[d], S)
    BY <1>27, <1>30, <2>1, <2>3, <2>5, CutTail
  <2> QED BY <1>28, <2>1, <2>6
<1>23. Handed(i)
  <2> DEFINE lost == Streamed(i) \ Streamed(i)'
             N(v) == Len(q) = MaxCarry /\ Ahead(q, v, S)
             X == {v \in lost : ~N(v)}
  <2>1. X \subseteq head
    BY <1>31
  <2>2. Cardinality(X) <= Cardinality(head) /\ IsFiniteSet(X)
    <3> HIDE DEF X
    <3> QED BY <1>29, <2>1, FS_Subset
  <2>3. Cardinality(X) \in Nat /\ Cardinality(head) \in Nat
    <3> HIDE DEF X
    <3> QED BY <1>29, <2>2, FS_CardinalityType
  <2>4. Cardinality(X) <= idle
    <3> HIDE DEF X, idle
    <3> QED BY <1>5, <1>29, <2>2, <2>3
  <2>5. LET can == RowsOf(inbox'[i], "can")[1].msg
        IN  can.carry = q /\ can.idle = idle
    BY <1>12, <1>26 DEF q
  <2> HIDE DEF idle
  <2> QED BY <2>4, <2>5 DEF Handed, S, Ahead, PlaceOf
<1>24. Conducts(i)
  BY <1>13, <1>14, <1>22, <1>23 DEF Conducts
<1>25. ASSUME NEW j \in Instance, j # i PROVE Conducts(j)
  <2>1. \A l \in DOMAIN <<row>> : <<row>>[l].to = j => <<row>>[l].msg.type \notin {"queue", "can"}
    BY <1>9, <1>11, <1>25
  <2>2. inst'[j] = inst[j] /\ eaten'[j] = eaten[j]
    BY <1>13, <1>25
  <2> QED BY <1>1, <1>10, <1>11, <1>19, <1>25, <2>1, <2>2, AckElsewhere
<1> QED BY <1>24, <1>25


----------------------------------------------------------------------------
(* The invariant, and what follows from it. *)

(* It holds at first. *)
LEMMA QueueInit == Init => QueueInv
<1> SUFFICES ASSUME Init PROVE QueueInv
  OBVIOUS
<1>1. LifeInv /\ TypeOK
  BY LifeInit DEF LifeInv
<1>2. ASSUME NEW i \in Instance PROVE Blank(i) /\ Shown(i) /\ CanOld(i) /\ InOrder(i)
  <2> DEFINE u == Fresh(0, "none", NoLink)
  <2>1. inst[i] = u /\ inbox[i] = <<>> /\ eaten[i] = <<>>
    BY DEF Init
  <2>2. u.status = "none" /\ u.arrived = <<>> /\ u.taken = 0
    <3>1. 0 \in 0..MaxExec /\ NoLink \in Link
      BY BoundFacts DEF Link
    <3> QED BY <3>1, FreshFacts
  <2> HIDE DEF u
  <2>3. Blank(i)
    BY <2>1, <2>2 DEF Blank
  <2>4. DOMAIN inbox[i] = {}
    BY <2>1
  <2>5. Shown(i) /\ CanOld(i)
    BY <2>4 DEF Shown, QueueRows, CanOld
  <2>6. Stream(i) = <<>>
    <3>1. Buffered(u) = <<>>
      <4>1. SubSeq(<<>>, 0 + 1, Len(<<>>)) = <<>>
        OBVIOUS
      <4> QED BY <2>2, <4>1 DEF Buffered
    <3>2. inbox[i] \in Seq(Rows(i)) /\ ~Has(inbox[i], "can")
      BY <1>1, <2>4, StreamTypes DEF Has
    <3>3. CarryOf(inbox[i]) = <<>>
      BY <3>2, CarryFacts
    <3>4. Arrivals(inbox[i]) = <<>>
      <4>1. /\ Arrivals(inbox[i]) \in Seq(Data)
            /\ Lists(Arrivals(inbox[i]), Payload(inbox[i]), QueueRows(inbox[i]))
        BY <3>2, BoxListed
      <4>2. QueueRows(inbox[i]) = {}
        BY <2>4 DEF QueueRows
      <4>3. DOMAIN Arrivals(inbox[i]) = {}
        BY <4>1, <4>2 DEF Lists
      <4> QED BY <4>1, <4>3
    <3>5. (<<>> \o <<>>) \o (<<>> \o <<>>) = <<>>
      OBVIOUS
    <3> QED BY <2>1, <3>1, <3>3, <3>4, <3>5, StreamParts DEF Flow
  <2>7. InOrder(i)
    <3>1. DOMAIN Stream(i) = {}
      BY <2>6
    <3> QED BY <3>1 DEF InOrder, Arranged, UpTo
  <2> QED BY <2>3, <2>5, <2>7
<1> QED BY <1>1, <1>2 DEF QueueInv

(* What every step does to the queues. *)
LEMMA QueueSteps ==
    ASSUME QueueInv, [Next]_vars
    PROVE  LifeInv' /\ \A j \in Instance : Conducts(j)
<1>0. LifeInv'
  BY LifeNext DEF QueueInv
<1>1. \A i \in Instance : Registered[i] \subseteq Runtime
  BY LifecycleAssumption
<1> DEFINE Good == \A j \in Instance : Conducts(j)
<1>2. ASSUME UNCHANGED vars PROVE Good
  BY <1>0, <1>2, IdleQueues
<1>3. ASSUME NEW i \in Root, StartOrchestration(i) PROVE Good
  <2>1. i \in Instance
    BY LifecycleAssumption
  <2> QED BY <1>0, <1>3, <2>1, PlainSteps
<1>4. ASSUME NEW i \in Mailbox, EnqueueEvent(i) PROVE Good
  <2>1. i \in Instance
    BY LifecycleAssumption
  <2> QED BY <1>0, <1>4, <2>1, EnqueueQueue
<1>5. ASSUME NEW i \in Instance, RequestCancel(i) PROVE Good
  BY <1>0, <1>5, PlainSteps
<1>6. ASSUME NEW i \in Instance,
             \/ Abandon(i)
             \/ \E h \in 1..MaxFaults : Reappear(i, h)
             \/ \E k \in DOMAIN inbox[i] : Fire(i, k)
      PROVE  Good
  BY <1>0, <1>6, HidingQueues
<1>7. ASSUME NEW a \in work, NEW res \in {"ok", "app", "sys"}, CompleteActivity(a, res)
      PROVE  Good
  BY <1>0, <1>7, PlainSteps
<1>8. ASSUME NEW i \in Instance, NEW n \in old[i]..Len(inbox[i]), AckEnded(i, n) PROVE Good
  BY <1>0, <1>8, EndedQueues
<1>9. ASSUME NEW i \in Instance, NEW n \in old[i]..Len(inbox[i]), ContinueAsNewTurn(i, n)
      PROVE  Good
  BY <1>0, <1>9, ContinuingQueues
<1>10. ASSUME NEW i \in Instance, NEW n \in old[i]..Len(inbox[i]),
              FailureAck(i, n) \/ \E r \in Runtime : Poison(r, i, n)
       PROVE  Good
  BY <1>0, <1>10, AbruptQueues
<1>11. ASSUME NEW i \in Instance, NEW n \in old[i]..Len(inbox[i]), NEW r \in Runtime,
              FailTurn(r, i, n) \/ Panic(r, i, n) \/ CancelTurn(r, i, n) \/ ReturnTurn(r, i, n)
       PROVE  Good
  BY <1>0, <1>11, EndingQueues
<1>12. ASSUME NEW i \in Instance, NEW n \in old[i]..Len(inbox[i]), NEW r \in Runtime,
              ContinueTurn(r, i, n)
       PROVE  Good
  BY <1>0, <1>12, GoingOnQueues
<1>13. ASSUME NEW r \in Runtime, Restart(r) PROVE Good
  BY <1>0, <1>13, IdleQueues
<1> HIDE DEF Good
<1>14. ASSUME Next PROVE Good
  <2>1. CASE \/ \E i \in Root : StartOrchestration(i)
             \/ \E i \in Mailbox : EnqueueEvent(i)
             \/ \E i \in Instance : RequestCancel(i) \/ Abandon(i)
             \/ \E i \in Instance, h \in 1..MaxFaults : Reappear(i, h)
             \/ \E i \in Instance : \E k \in DOMAIN inbox[i] : Fire(i, k)
             \/ \E a \in work, res \in {"ok", "app", "sys"} : CompleteActivity(a, res)
             \/ \E r \in Runtime : Restart(r)
    BY <1>3, <1>4, <1>5, <1>6, <1>7, <1>13, <2>1
  <2>2. ASSUME NEW i \in Instance, NEW n \in old[i]..Len(inbox[i]),
               \/ AckEnded(i, n) \/ ContinueAsNewTurn(i, n) \/ FailureAck(i, n)
               \/ \E r \in Registered[i] :
                     \/ FailTurn(r, i, n) \/ Panic(r, i, n) \/ CancelTurn(r, i, n)
                     \/ ReturnTurn(r, i, n) \/ ContinueTurn(r, i, n)
               \/ \E r \in Runtime : Poison(r, i, n)
        PROVE  Good
    BY <1>1, <1>8, <1>9, <1>10, <1>11, <1>12, <2>2
  <2> QED BY <1>14, <2>1, <2>2 DEF Next
<1>15. Good
  BY <1>2, <1>14
<1> QED BY <1>0, <1>15 DEF Good

(* Faults are counted, never forgotten. *)
LEMMA FaultsStay ==
    ASSUME TypeOK, [Next]_vars, faults' = 0
    PROVE  faults = 0
<1>1. faults \in Nat
  BY BoundFacts DEF TypeOK
<1>2. faults' = faults \/ faults' = faults + 1
  BY DEF Next, vars, StartOrchestration, EnqueueEvent, RequestCancel, Abandon, Reappear, Fire,
         CompleteActivity, AckEnded, ContinueAsNewTurn, FailureAck, FailTurn, Panic, CancelTurn,
         ReturnTurn, ContinueTurn, Poison, Restart, Fault
<1> QED BY <1>1, <1>2

(* Every step preserves the invariant. *)
LEMMA QueueNext == QueueInv /\ [Next]_vars => QueueInv'
<1> SUFFICES ASSUME QueueInv, [Next]_vars PROVE QueueInv'
  OBVIOUS
<1>1. LifeInv' /\ \A j \in Instance : Conducts(j)
  BY QueueSteps
<1>2. \A j \in Instance : Advances(j)
  BY <1>1 DEF Conducts
<1>3. faults' = 0 => faults = 0
  BY FaultsStay DEF QueueInv, LifeInv
<1> QED BY <1>1, <1>2, <1>3, QueueInvNext

(* So it always holds: only running executions buffer messages, only       *)
(* abandoned ones are hidden, every fetch sees a ContinueAsNew, and the    *)
(* stream of each instance is in order and has nothing that was not sent.  *)
THEOREM StreamInvariant == Spec => []QueueInv
BY QueueInit, QueueNext, PTL DEF Spec

(* No queue message is dequeued twice, over any number of executions, and  *)
(* as long as no turn was abandoned they are dequeued as they were sent.   *)
THEOREM QueueOrderTheorem == Spec => []QueueOrder
<1>1. QueueInv => QueueOrder
  BY DEF QueueInv, InOrder, Arranged, QueueOrder
<1> QED BY <1>1, StreamInvariant, PTL

(* No queue message gets lost in a step after which the execution of its   *)
(* instance goes on, whatever else is in the batch of a turn.              *)
THEOREM QueueKeptTheorem == Spec => QueueKept
<1> DEFINE Keeps == \A i \in Instance :
              inst'[i].status = "running" => Streamed(i) \subseteq Streamed(i)'
<1>1. ASSUME QueueInv, [Next]_vars PROVE Keeps
  <2>1. \A j \in Instance : Conducts(j)
    BY <1>1, QueueSteps
  <2> QED BY <2>1, CoversStreamed DEF Conducts
<1>2. QueueInv /\ [Next]_vars => [Keeps]_vars
  BY <1>1
<1>3. ([][Keeps]_vars) => QueueKept
  BY DEF QueueKept
<1> HIDE DEF Keeps
<1> QED BY <1>2, <1>3, StreamInvariant, PTL DEF Spec

(* Continue-as-new carries on all queue messages but the newest beyond the *)
(* limit and at most one for each dequeue that it leaves without a         *)
(* message, unless the batch is taken for one of the execution that ended. *)
THEOREM QueueCarriedTheorem == Spec => QueueCarried
<1> DEFINE Carries == \A i \in Instance : GoesOn(i) => Handed(i)
<1>1. ASSUME QueueInv, [Next]_vars PROVE Carries
  <2>1. \A j \in Instance : Conducts(j)
    BY <1>1, QueueSteps
  <2> QED BY <2>1 DEF Conducts
<1>2. QueueInv /\ [Next]_vars => [Carries]_vars
  BY <1>1
<1>3. ([][Carries]_vars) => QueueCarried
  BY DEF QueueCarried, GoesOn, Handed
<1> HIDE DEF Carries
<1> QED BY <1>2, <1>3, StreamInvariant, PTL DEF Spec
=============================================================================
