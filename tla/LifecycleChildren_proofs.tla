---------------------- MODULE LifecycleChildren_proofs ----------------------
(***************************************************************************)
(* Theorems about starts, continuations and sub-orchestrations: an         *)
(* instance that continued as new is not forgotten, and a parent that      *)
(* waits for a child is going to hear of it.  Both rest on where starts    *)
(* come from: the id of a child belongs to one schedule of one parent, so  *)
(* that a child is started once in the first execution of its parent.      *)
(***************************************************************************)
EXTENDS Lifecycle_proofs

----------------------------------------------------------------------------
(* The inductive invariant. *)

HasStart(c) == Has(inbox[c], "start")

(* The instance was neither started nor is it going to be. *)
Unborn(c) == inst[c].status = "none" /\ ~HasStart(c)

(* A start is for an instance that does not exist yet, and the only one. *)
OneStart(c) ==
    /\ \A k, l \in DOMAIN inbox[c] :
          inbox[c][k].msg.type = "start" /\ inbox[c][l].msg.type = "start" => k = l
    /\ HasStart(c) => inst[c].status = "none"

(* Schedule k was not reached in any execution up to x. *)
NotYet(x, k) == x.exec = 0 \/ (x.exec = 1 /\ x.status = "running" /\ k > Len(x.calls))

Startable(c) == c \in Root \/ \E d \in DOMAIN Child : Child[d] = c

StartedTwice(c) == starts > 1 \/ \E d \in DOMAIN Child : Child[d] = c /\ inst[d[1]].exec > 1

StartInv ==
    /\ \A c \in Instance : HasStart(c) => Startable(c)
    /\ \A d \in DOMAIN Child :
          /\ NotYet(inst[d[1]], d[2]) => Unborn(Child[d])
          /\ inst[d[1]].exec <= 1 => OneStart(Child[d])
    /\ \A c \in Root : (starts = 0 => Unborn(c)) /\ (starts <= 1 => OneStart(c))

TrackedInv == \A r \in Runtime, i \in Instance : tracked[r][i] <= inst[i].exec

Remembered(c) ==
    inst[c].status = "continued" => Has(inbox[c], "can") \/ StartedTwice(c)

(* The first execution of a parent hears of its children. *)
Awaiting(x, k) ==
    /\ x.status = "running" /\ x.exec = 1
    /\ k \in Outstanding(x) /\ x.calls[k].kind = "child"

Heard(i, k) == Awaiting(inst[i], k) => Answering(i, k) \/ Child[<<i, k>>] \in abrupt \cup Continues

RouteInv ==
    /\ LifeInv /\ StartInv /\ TrackedInv
    /\ \A i \in Instance : Remembered(i) /\ \A k : Heard(i, k)

----------------------------------------------------------------------------
(* What a step on the inbox of i does to the starts. *)

(* The row starts a child of i, at a call that i had not reached before    *)
(* unless in an earlier execution.                                         *)
StartRow(i, row) ==
    \E k : /\ <<i, k>> \in DOMAIN Child /\ row.to = Child[<<i, k>>]
           /\ ~NotYet(inst'[i], k)
           /\ NotYet(inst[i], k) \/ inst'[i].exec > 1

(* The batch of the first n rows of i's inbox is replaced by `out'. *)
Acted(i, n, out) ==
    /\ out \in Seq(AnyRow) /\ Deliverable(i, Batch(i, n))
    /\ Moved(i, BatchRows(i, n), out)
    /\ \A j \in Instance : j # i => Moved(j, {}, out) /\ inst'[j] = inst[j]
    /\ inst'[i] \in Execution /\ inst'[i].status # "none" /\ inst[i].exec <= inst'[i].exec
    /\ \A k \in Nat : NotYet(inst'[i], k) => NotYet(inst[i], k)
    /\ starts' = starts /\ abrupt \subseteq abrupt'
    /\ \A k \in DOMAIN out : out[k].msg.type = "start" => StartRow(i, out[k])
    /\ \A k, l \in DOMAIN out :
          /\ out[k].msg.type = "start" /\ out[l].msg.type = "start" /\ out[k].to = out[l].to
          => k = l

(* An inbox has a row of a type if it has such a message. *)
LEMMA HasMessage ==
    /\ \A j, type : Has(inbox[j], type) <=> \E m \in Messages(j) : m.type = type
    /\ \A j, type : Has(inbox'[j], type) <=> \E m \in Messages(j)' : m.type = type
BY DEF Has, Messages

(* A start that is there after a step was kept or added. *)
LEMMA MovedHas ==
    ASSUME NEW j, NEW gone, NEW out, Moved(j, gone, out), NEW type
    PROVE  /\ Has(inbox'[j], type) =>
                 \/ \E l \in DOMAIN inbox[j] \ gone : inbox[j][l].msg.type = type
                 \/ \E l \in DOMAIN out : out[l].to = j /\ out[l].msg.type = type
           /\ \A l \in DOMAIN inbox[j] \ gone :
                 inbox[j][l].msg.type = type => Has(inbox'[j], type)
           /\ \A l \in DOMAIN out :
                 out[l].to = j /\ out[l].msg.type = type => Has(inbox'[j], type)
<1>1. /\ \A m \in Messages(j)' :
            \/ \E l \in DOMAIN inbox[j] \ gone : inbox[j][l].msg = m
            \/ \E l \in DOMAIN out : out[l].to = j /\ out[l].msg = m
      /\ \A l \in DOMAIN inbox[j] \ gone : inbox[j][l].msg \in Messages(j)'
      /\ \A l \in DOMAIN out : out[l].to = j => out[l].msg \in Messages(j)'
  BY MovedMessages
<1>2. ASSUME Has(inbox'[j], type)
      PROVE  \/ \E l \in DOMAIN inbox[j] \ gone : inbox[j][l].msg.type = type
             \/ \E l \in DOMAIN out : out[l].to = j /\ out[l].msg.type = type
  <2>1. PICK m \in Messages(j)' : m.type = type
    BY <1>2, HasMessage
  <2> QED BY <1>1, <2>1
<1>3. ASSUME NEW l \in DOMAIN inbox[j] \ gone, inbox[j][l].msg.type = type
      PROVE  Has(inbox'[j], type)
  BY <1>1, <1>3, HasMessage
<1>4. ASSUME NEW l \in DOMAIN out, out[l].to = j, out[l].msg.type = type
      PROVE  Has(inbox'[j], type)
  BY <1>1, <1>4, HasMessage
<1> QED BY <1>2, <1>3, <1>4

(* There is one start after a step if there was one before and none was    *)
(* added, or none was kept and one was added.                              *)
LEMMA MovedOneStart ==
    ASSUME NEW j, NEW gone, NEW out, Moved(j, gone, out),
           \A k, l \in DOMAIN inbox[j] \ gone :
              inbox[j][k].msg.type = "start" /\ inbox[j][l].msg.type = "start" => k = l,
           \A k, l \in DOMAIN out :
              /\ out[k].msg.type = "start" /\ out[l].msg.type = "start"
              /\ out[k].to = j /\ out[l].to = j
              => k = l,
           \A k \in DOMAIN inbox[j] \ gone, l \in DOMAIN out :
              ~(/\ inbox[j][k].msg.type = "start"
                /\ out[l].msg.type = "start" /\ out[l].to = j),
           HasStart(j)' => inst'[j].status = "none"
    PROVE  OneStart(j)'
<1>1. PICK org \in [DOMAIN inbox'[j] -> Int] :
        /\ \A k \in DOMAIN inbox'[j] :
              \/ /\ org[k] \in DOMAIN inbox[j] \ gone
                 /\ inbox'[j][k].msg = inbox[j][org[k]].msg
              \/ /\ -org[k] \in DOMAIN out /\ out[-org[k]].to = j
                 /\ inbox'[j][k].msg = out[-org[k]].msg
        /\ \A k, l \in DOMAIN inbox'[j] : org[k] = org[l] => k = l
  BY DEF Moved
<1>2. ASSUME NEW k \in DOMAIN inbox'[j], NEW l \in DOMAIN inbox'[j],
             inbox'[j][k].msg.type = "start", inbox'[j][l].msg.type = "start"
      PROVE  k = l
  <2>1. org[k] \in Int /\ org[l] \in Int /\ (-org[k] = -org[l] => org[k] = org[l])
    BY <1>1
  <2>2. CASE org[k] \in DOMAIN inbox[j] \ gone /\ inbox'[j][k].msg = inbox[j][org[k]].msg
    <3>1. CASE org[l] \in DOMAIN inbox[j] \ gone /\ inbox'[j][l].msg = inbox[j][org[l]].msg
      BY <1>1, <1>2, <2>2, <3>1
    <3>2. CASE /\ -org[l] \in DOMAIN out /\ out[-org[l]].to = j
               /\ inbox'[j][l].msg = out[-org[l]].msg
      BY <1>2, <2>2, <3>2
    <3> QED BY <1>1, <3>1, <3>2
  <2>3. CASE /\ -org[k] \in DOMAIN out /\ out[-org[k]].to = j
             /\ inbox'[j][k].msg = out[-org[k]].msg
    <3>1. CASE org[l] \in DOMAIN inbox[j] \ gone /\ inbox'[j][l].msg = inbox[j][org[l]].msg
      BY <1>2, <2>3, <3>1
    <3>2. CASE /\ -org[l] \in DOMAIN out /\ out[-org[l]].to = j
               /\ inbox'[j][l].msg = out[-org[l]].msg
      BY <1>1, <1>2, <2>1, <2>3, <3>2
    <3> QED BY <1>1, <3>1, <3>2
  <2> QED BY <1>1, <2>2, <2>3
<1> QED BY <1>2 DEF OneStart

(* The first batch of an instance has a start, and no continuation. *)
LEMMA FirstBatch ==
    ASSUME LifeInv, NEW i \in Instance, NEW n \in old[i]..Len(inbox[i]),
           Deliverable(i, Batch(i, n)), inst[i].status = "none"
    PROVE  /\ ~Has(Batch(i, n), "can") /\ Has(Batch(i, n), "start")
           /\ \E l \in BatchRows(i, n) : inbox[i][l].msg.type = "start"
<1> DEFINE b == Batch(i, n)
<1>1. TypeOK /\ Continuation(i)
  BY DEF LifeInv
<1>2. /\ BatchRows(i, n) \subseteq DOMAIN inbox[i]
      /\ \A k \in DOMAIN b : \E l \in BatchRows(i, n) : b[k] = inbox[i][l]
  BY <1>1, BatchFacts
<1> HIDE DEF b
<1>3. ~Has(b, "can")
  BY <1>1, <1>2 DEF Has, Continuation, Messages
<1>4. Has(b, "start")
  BY <1>3 DEF Deliverable, b
<1>5. \E l \in BatchRows(i, n) : inbox[i][l].msg.type = "start"
  BY <1>2, <1>4 DEF Has
<1> QED BY <1>3, <1>4, <1>5 DEF b

(* An instance with one start, to which the step sends no other. *)
LEMMA OneStartFrame ==
    ASSUME LifeInv, NEW i \in Instance, NEW n \in old[i]..Len(inbox[i]), NEW out,
           Acted(i, n, out), NEW c \in Instance, OneStart(c),
           \A k \in DOMAIN out : out[k].msg.type = "start" => out[k].to # c
    PROVE  OneStart(c)'
<1>1. PICK gone : Moved(c, gone, out) /\ gone = IF c = i THEN BatchRows(i, n) ELSE {}
  BY DEF Acted
<1>2. HasStart(c)' => inst'[c].status = "none"
  <2> SUFFICES ASSUME HasStart(c)' PROVE inst'[c].status = "none"
    OBVIOUS
  <2>1. PICK l \in DOMAIN inbox[c] \ gone : inbox[c][l].msg.type = "start"
    BY <1>1, MovedHas DEF HasStart, Has
  <2>2. inst[c].status = "none"
    BY <2>1 DEF OneStart, HasStart, Has
  <2>3. c # i
    <3> SUFFICES ASSUME c = i PROVE FALSE
      OBVIOUS
    <3>1. PICK k \in BatchRows(i, n) : inbox[i][k].msg.type = "start"
      BY <2>2, FirstBatch DEF Acted
    <3>2. BatchRows(i, n) \subseteq DOMAIN inbox[i]
      BY BatchFacts DEF LifeInv
    <3> QED BY <1>1, <2>1, <3>1, <3>2 DEF OneStart
  <2> QED BY <2>2, <2>3 DEF Acted
<1>3. \A k, l \in DOMAIN inbox[c] :
         inbox[c][k].msg.type = "start" /\ inbox[c][l].msg.type = "start" => k = l
  BY DEF OneStart
<1> QED BY <1>1, <1>2, <1>3, MovedOneStart

(* Where starts come from, after such a step. *)
LEMMA ActedStarts ==
    ASSUME LifeInv, StartInv, NEW i \in Instance, NEW n \in old[i]..Len(inbox[i]), NEW out,
           Acted(i, n, out)
    PROVE  StartInv'
<1>1. ASSUME NEW k \in DOMAIN out, out[k].msg.type = "start", NEW d \in DOMAIN Child,
             out[k].to = Child[d]
      PROVE  /\ d[1] = i /\ i # Child[d]
             /\ ~NotYet(inst'[d[1]], d[2])
             /\ NotYet(inst[d[1]], d[2]) \/ inst'[d[1]].exec > 1
  <2>1. PICK e : /\ <<i, e>> \in DOMAIN Child /\ out[k].to = Child[<<i, e>>]
                 /\ ~NotYet(inst'[i], e)
                 /\ NotYet(inst[i], e) \/ inst'[i].exec > 1
    BY <1>1 DEF Acted, StartRow
  <2>2. d = <<i, e>>
    BY <1>1, <2>1, ChildAssumption
  <2>3. d[1] = i /\ d[2] = e
    BY <2>2
  <2>4. Child[d] # d[1]
    BY ChildAssumption
  <2> QED BY <2>1, <2>3, <2>4
<1>2. ASSUME NEW k \in DOMAIN out, out[k].msg.type = "start" PROVE Startable(out[k].to) /\ out[k].to \notin Root
  BY <1>2, ChildAssumption DEF Acted, StartRow, Startable
<1>3. \A j \in Instance : Moved(j, IF j = i THEN BatchRows(i, n) ELSE {}, out)
  BY DEF Acted
<1>4. \A j \in Instance :
         HasStart(j)' => HasStart(j) \/ \E l \in DOMAIN out : out[l].to = j /\ out[l].msg.type = "start"
  <2> SUFFICES ASSUME NEW j \in Instance, HasStart(j)'
               PROVE  HasStart(j) \/ \E l \in DOMAIN out : out[l].to = j /\ out[l].msg.type = "start"
    OBVIOUS
  <2>1. PICK gone : Moved(j, gone, out)
    BY <1>3
  <2> QED BY <2>1, MovedHas DEF HasStart, Has
<1>5. \A c \in Instance : HasStart(c)' => Startable(c)
  BY <1>2, <1>4 DEF StartInv
<1>6. ASSUME NEW d \in DOMAIN Child, NotYet(inst'[d[1]], d[2]) PROVE Unborn(Child[d])'
  <2>1. Child[d] \in Instance /\ d[1] \in Instance /\ d[2] \in Nat
    BY LifecycleAssumption
  <2>2. NotYet(inst[d[1]], d[2])
    BY <1>6, <2>1 DEF Acted
  <2>3. inst[Child[d]].status = "none" /\ ~HasStart(Child[d])
    BY <2>2 DEF StartInv, Unborn
  <2>4. Child[d] # i
    <3>1. ASSUME Child[d] = i PROVE FALSE
      <4>1. \E l \in BatchRows(i, n) : inbox[i][l].msg.type = "start"
        BY <2>3, <3>1, FirstBatch DEF Acted
      <4>2. BatchRows(i, n) \subseteq DOMAIN inbox[i]
        BY BatchFacts DEF LifeInv
      <4> QED BY <2>3, <3>1, <4>1, <4>2 DEF HasStart, Has
    <3> QED BY <3>1
  <2>5. ~HasStart(Child[d])'
    BY <1>1, <1>4, <1>6, <2>1, <2>3
  <2>6. inst'[Child[d]].status = "none"
    BY <2>1, <2>3, <2>4 DEF Acted
  <2> QED BY <2>5, <2>6 DEF Unborn
<1>7. ASSUME NEW d \in DOMAIN Child, inst'[d[1]].exec <= 1 PROVE OneStart(Child[d])'
  <2>1. Child[d] \in Instance /\ d[1] \in Instance
    BY LifecycleAssumption
  <2>2. inst[d[1]].exec <= 1
    <3>1. inst[d[1]].exec \in Nat /\ inst[i].exec \in Nat /\ inst'[i].exec \in Nat
      <4>1. inst'[i] \in Execution /\ inst[i] \in Execution /\ inst[d[1]] \in Execution
        BY <2>1 DEF LifeInv, TypeOK, Acted
      <4>2. \A x \in Execution : x.exec \in Nat
        BY BoundFacts DEF Execution
      <4> QED BY <4>1, <4>2
    <3> QED BY <1>7, <2>1, <3>1 DEF Acted
  <2>3. OneStart(Child[d])
    BY <2>2 DEF StartInv
  <2>4. CASE \A k \in DOMAIN out : out[k].msg.type = "start" => out[k].to # Child[d]
    BY <2>1, <2>3, <2>4, OneStartFrame
  <2>5. CASE \E k \in DOMAIN out : out[k].msg.type = "start" /\ out[k].to = Child[d]
    <3>1. /\ d[1] = i /\ i # Child[d]
          /\ NotYet(inst[d[1]], d[2]) \/ inst'[d[1]].exec > 1
      BY <1>1, <2>5
    <3>2. NotYet(inst[d[1]], d[2])
      <4>1. inst'[d[1]].exec \in Nat
        BY <3>1, BoundFacts DEF Acted, Execution
      <4> QED BY <1>7, <3>1, <4>1
    <3>3. inst[Child[d]].status = "none" /\ ~HasStart(Child[d])
      BY <3>2 DEF StartInv, Unborn
    <3>4. Moved(Child[d], {}, out) /\ inst'[Child[d]].status = "none"
      BY <2>1, <3>1, <3>3 DEF Acted
    <3>5. \A k \in DOMAIN inbox[Child[d]] : inbox[Child[d]][k].msg.type # "start"
      BY <3>3 DEF HasStart, Has
    <3>6. \A k, l \in DOMAIN out :
             /\ out[k].msg.type = "start" /\ out[l].msg.type = "start"
             /\ out[k].to = Child[d] /\ out[l].to = Child[d]
             => k = l
      BY DEF Acted
    <3> QED BY <3>4, <3>5, <3>6, MovedOneStart
  <2> QED BY <2>4, <2>5
<1>8. ASSUME NEW c \in Root PROVE (starts' = 0 => Unborn(c)') /\ (starts' <= 1 => OneStart(c)')
  <2>1. c \in Instance
    BY LifecycleAssumption
  <2>2. \A k \in DOMAIN out : out[k].msg.type = "start" => out[k].to # c
    BY <1>2
  <2>3. ASSUME starts' <= 1 PROVE OneStart(c)'
    <3>1. OneStart(c)
      BY <2>3 DEF StartInv, Acted
    <3> QED BY <2>1, <2>2, <3>1, OneStartFrame
  <2>4. ASSUME starts' = 0 PROVE Unborn(c)'
    <3>1. inst[c].status = "none" /\ ~HasStart(c)
      BY <2>4 DEF StartInv, Unborn, Acted
    <3>2. c # i
      <4>1. ASSUME c = i PROVE FALSE
        <5>1. \E l \in BatchRows(i, n) : inbox[i][l].msg.type = "start"
          BY <3>1, <4>1, FirstBatch DEF Acted
        <5>2. BatchRows(i, n) \subseteq DOMAIN inbox[i]
          BY BatchFacts DEF LifeInv
        <5> QED BY <3>1, <4>1, <5>1, <5>2 DEF HasStart, Has
      <4> QED BY <4>1
    <3>3. ~HasStart(c)'
      BY <1>4, <2>1, <2>2, <3>1
    <3>4. inst'[c].status = "none"
      BY <2>1, <3>1, <3>2 DEF Acted
    <3> QED BY <3>3, <3>4 DEF Unborn
  <2> QED BY <2>3, <2>4
<1> QED BY <1>5, <1>6, <1>7, <1>8 DEF StartInv, Startable

----------------------------------------------------------------------------
(* What a step on the inbox of i does to continuations and children. *)

(* The execution ids that the processes remember are not ahead. *)
TrackedBy(i) ==
    \A r \in Runtime, j \in Instance :
        \/ tracked'[r][j] = tracked[r][j]
        \/ j = i /\ tracked'[r][j] = inst'[i].exec

(* An execution continues as new in this step, or did so before and its    *)
(* batch is not the one of the next execution.                             *)
ContinuationKept(i, n, out) ==
    inst'[i].status = "continued" =>
        \/ \E l \in DOMAIN out : out[l].to = i /\ out[l].msg.type = "can"
        \/ inst[i].status = "continued" /\ ~IsContinueAsNew(Batch(i, n))

(* What i waits for after the step it has just started, or it waited for   *)
(* it before and the answer is not in the batch.                           *)
AwaitsMore(i, n, out) ==
    \A k : Awaiting(inst'[i], k) =>
        \/ \E l \in DOMAIN out :
              /\ <<i, k>> \in DOMAIN Child /\ out[l].to = Child[<<i, k>>]
              /\ out[l].msg = Start([inst |-> i, id |-> k, from |-> inst'[i].exec])
        \/ /\ Awaiting(inst[i], k)
           /\ \A l \in BatchRows(i, n) :
                 LET m == inbox[i][l].msg
                 IN  ~(m.type = "done" /\ m.kind = "child" /\ m.id = k /\ m.exec = inst[i].exec)

(* The parent of the execution that a batch is for. *)
TurnLink(i, n, link) ==
    /\ link.inst \in Instance
    /\ \/ inst[i].status = "running" /\ inst[i].link = link
       \/ inst[i].status = "none" /\ RowsOf(Batch(i, n), "start")[1].msg.link = link

(* The execution goes on, or the parent is told. *)
Tells(out, link) ==
    \E r \in Runtime, l \in DOMAIN out :
        /\ out[l].to = link.inst
        /\ out[l].msg.type = "done" /\ out[l].msg.kind = "child" /\ out[l].msg.id = link.id
        /\ out[l].msg.exec = ExecutionId(r, link.inst)

ParentTold(i, n, out) ==
    \A link : TurnLink(i, n, link) =>
        \/ i \in abrupt' \cup Continues
        \/ inst'[i].status = "running" /\ inst'[i].link = link
        \/ Tells(out, link)

(* Every execution number is a natural number. *)
LEMMA ExecNat == \A x \in Execution : x.exec \in Nat /\ x.exec \in 0..MaxExec
BY BoundFacts DEF Execution

(* The execution ids that are remembered stay behind. *)
LEMMA ActedTracked ==
    ASSUME LifeInv, TrackedInv, NEW i \in Instance, NEW n \in old[i]..Len(inbox[i]), NEW out,
           Acted(i, n, out), TrackedBy(i)
    PROVE  TrackedInv'
<1> SUFFICES ASSUME NEW r \in Runtime, NEW j \in Instance PROVE tracked'[r][j] <= inst'[j].exec
  BY DEF TrackedInv
<1>1. inst[j].exec \in Nat /\ inst'[j].exec \in Nat /\ inst[j].exec <= inst'[j].exec
  <2>1. inst[j] \in Execution /\ inst'[i] \in Execution
    BY DEF LifeInv, TypeOK, Acted
  <2>2. inst'[j] = inst[j] \/ (j = i /\ inst[i].exec <= inst'[i].exec)
    BY DEF Acted
  <2> QED BY <2>1, <2>2, ExecNat
<1>2. tracked[r][j] \in Nat /\ tracked[r][j] <= inst[j].exec
  <2>1. tracked[r][j] \in 0..MaxExec
    BY DEF LifeInv, TypeOK
  <2> QED BY <2>1, BoundFacts DEF TrackedInv
<1> QED BY <1>1, <1>2 DEF TrackedBy

(* A continuation is remembered: the step that deletes it begins the next  *)
(* execution, unless the instance was started twice.                       *)
LEMMA ActedRemembered ==
    ASSUME LifeInv, StartInv, NEW i \in Instance, NEW n \in old[i]..Len(inbox[i]), NEW out,
           Acted(i, n, out), ContinuationKept(i, n, out),
           NEW c \in Instance, Remembered(c)
    PROVE  Remembered(c)'
<1>1. ASSUME NEW j \in Instance, StartedTwice(j) PROVE StartedTwice(j)'
  <2>1. CASE starts > 1
    BY <2>1 DEF StartedTwice, Acted
  <2>2. CASE \E d \in DOMAIN Child : Child[d] = j /\ inst[d[1]].exec > 1
    <3>1. PICK d \in DOMAIN Child : Child[d] = j /\ inst[d[1]].exec > 1
      BY <2>2
    <3>2. d[1] \in Instance
      BY LifecycleAssumption
    <3>3. inst[d[1]] \in Execution /\ inst'[i] \in Execution /\ inst[i] \in Execution
      BY <3>2 DEF LifeInv, TypeOK, Acted
    <3>4. inst'[d[1]] = inst[d[1]] \/ (d[1] = i /\ inst[i].exec <= inst'[i].exec)
      BY <3>2 DEF Acted
    <3>5. inst'[d[1]].exec > 1
      BY <3>1, <3>3, <3>4, ExecNat
    <3> QED BY <3>1, <3>5 DEF StartedTwice
  <2> QED BY <1>1, <2>1, <2>2 DEF StartedTwice
<1> SUFFICES ASSUME inst'[c].status = "continued"
             PROVE  Has(inbox'[c], "can") \/ StartedTwice(c)'
  BY DEF Remembered
<1>2. CASE c # i
  <2>1. inst[c].status = "continued" /\ Moved(c, {}, out)
    BY <1>2 DEF Acted
  <2>2. Has(inbox[c], "can") => Has(inbox'[c], "can")
    <3> SUFFICES ASSUME Has(inbox[c], "can") PROVE Has(inbox'[c], "can")
      OBVIOUS
    <3>1. PICK l \in DOMAIN inbox[c] \ {} : inbox[c][l].msg.type = "can"
      BY DEF Has
    <3> QED BY <2>1, <3>1, MovedHas
  <2> QED BY <1>1, <2>1, <2>2 DEF Remembered
<1>3. CASE c = i
  <2>1. Moved(i, BatchRows(i, n), out)
    BY DEF Acted
  <2>2. CASE \E l \in DOMAIN out : out[l].to = i /\ out[l].msg.type = "can"
    BY <1>3, <2>1, <2>2, MovedHas
  <2>3. CASE inst[i].status = "continued" /\ ~IsContinueAsNew(Batch(i, n))
    <3> DEFINE b == Batch(i, n)
    <3>1. Has(inbox[i], "can") \/ StartedTwice(i)
      BY <1>3, <2>3 DEF Remembered
    <3>2. ASSUME Has(inbox[i], "can"), ~Has(inbox'[i], "can") PROVE StartedTwice(i)
      <4>1. PICK l \in DOMAIN inbox[i] : inbox[i][l].msg.type = "can"
        BY <3>2 DEF Has
      <4>2. l \in BatchRows(i, n)
        BY <2>1, <3>2, <4>1, MovedHas
      <4>3. TypeOK
        BY DEF LifeInv
      <4>4. /\ b \in Seq(Rows(i)) /\ BatchRows(i, n) \subseteq DOMAIN inbox[i]
            /\ \A k \in DOMAIN b : \E q \in BatchRows(i, n) : b[k] = inbox[i][q]
            /\ \A q \in BatchRows(i, n) : \E k \in DOMAIN b : b[k] = inbox[i][q]
        BY <4>3, BatchFacts
      <4>5. PICK k \in DOMAIN b : b[k].msg.type = "can"
        BY <4>1, <4>2, <4>4
      <4>6. PICK j \in 1..(k - 1) : b[j].msg.type = "start"
        BY <2>3, <4>5 DEF IsContinueAsNew
      <4>7. j \in DOMAIN b
        <5>1. DOMAIN b = 1..Len(b) /\ Len(b) \in Nat
          BY <4>4
        <5> HIDE DEF b
        <5> QED BY <4>5, <4>6, <5>1
      <4>8. HasStart(i)
        <5>1. PICK q \in BatchRows(i, n) : b[j] = inbox[i][q]
          BY <4>4, <4>7
        <5>2. q \in DOMAIN inbox[i] /\ inbox[i][q].msg.type = "start"
          BY <4>4, <4>6, <5>1
        <5> QED BY <5>2 DEF HasStart, Has
      <4>9. ~OneStart(i) /\ Startable(i)
        BY <2>3, <4>8 DEF OneStart, StartInv
      <4>10. CASE i \in Root
        <5>1. ~(starts <= 1) /\ starts \in Nat
          BY <4>3, <4>9, <4>10, LifecycleAssumption DEF StartInv, TypeOK
        <5> QED BY <5>1 DEF StartedTwice
      <4>11. CASE \E d \in DOMAIN Child : Child[d] = i
        <5>1. PICK d \in DOMAIN Child : Child[d] = i
          BY <4>11
        <5>2. ~(inst[d[1]].exec <= 1)
          BY <4>9, <5>1 DEF StartInv
        <5>3. inst[d[1]] \in Execution
          BY <4>3, LifecycleAssumption DEF TypeOK
        <5>4. inst[d[1]].exec > 1
          BY <5>2, <5>3, ExecNat
        <5> QED BY <5>1, <5>4 DEF StartedTwice
      <4> QED BY <4>9, <4>10, <4>11 DEF Startable
    <3> QED BY <1>1, <1>3, <3>1, <3>2
  <2> QED BY <1>3, <2>2, <2>3 DEF ContinuationKept
<1> QED BY <1>2, <1>3

(* The three ways in which the first execution of a parent is going to     *)
(* hear of call k.                                                         *)
Birth(i, k) == [inst |-> i, id |-> k, from |-> 1]

AnswerTo(k, m) == m.type = "done" /\ m.kind = "child" /\ m.id = k /\ m.exec = 1

Underway(i, k) ==
    \/ Start(Birth(i, k)) \in Messages(Child[<<i, k>>])
    \/ /\ inst[Child[<<i, k>>]].status = "running"
       /\ inst[Child[<<i, k>>]].link = Birth(i, k)
    \/ \E m \in Messages(i) : AnswerTo(k, m)

(* Before a step and after it. *)
LEMMA AnsweringWays ==
    /\ \A i, k : inst[i].exec = 1 => (Answering(i, k) <=> Underway(i, k))
    /\ \A i, k : inst'[i].exec = 1 => (Answering(i, k)' <=> Underway(i, k)')
BY DEF Answering, Underway, Birth, AnswerTo

(* What a parent waits for has an instance id of its own. *)
LEMMA AwaitedChild ==
    ASSUME LifeInv, NEW i \in Instance, NEW k, Awaiting(inst[i], k)
    PROVE  /\ <<i, k>> \in DOMAIN Child /\ Child[<<i, k>>] \in Instance
           /\ Child[<<i, k>>] # i
<1>1. ChildrenNamed(i) /\ k \in DOMAIN inst[i].calls /\ inst[i].calls[k].kind = "child"
  BY DEF LifeInv, Awaiting, Outstanding
<1>2. <<i, k>> \in DOMAIN Child
  BY <1>1 DEF ChildrenNamed
<1> QED BY <1>2, LifecycleAssumption, ChildAssumption

(* The first row of a type is a row of the batch. *)
LEMMA FirstRow ==
    ASSUME NEW i \in Instance, NEW b \in Seq(Rows(i)), NEW type, Has(b, type)
    PROVE  \E k \in DOMAIN b : RowsOf(b, type)[1] = b[k] /\ b[k].msg.type = type
<1> DEFINE K == {k \in DOMAIN b : b[k].msg.type = type}
<1>1. K \in SUBSET (1..Len(b)) /\ Len(b) \in Nat
  OBVIOUS
<1>2. Enumerated(K)
  BY <1>1, PlaceFacts
<1>3. PICK k \in K : TRUE
  BY DEF Has
<1>4. RowsOf(b, type) = Pick(b, K)
  BY DEF RowsOf
<1>5. \A m \in K : m \in DOMAIN b /\ b[m].msg.type = type
  OBVIOUS
<1> HIDE DEF K
<1>6. 1 \in 1..Cardinality(K) /\ Place(K, 1) \in K
  BY <1>2, <1>3 DEF Enumerated
<1>7. \A m \in 1..Cardinality(K) : Pick(b, K)[m] = b[Place(K, m)]
  BY <1>2, PickFacts
<1>8. Pick(b, K)[1] = b[Place(K, 1)]
  BY <1>6, <1>7
<1> QED BY <1>4, <1>5, <1>6, <1>8

(* The only start of an instance tells whose child it is. *)
LEMMA OnlyStart ==
    ASSUME LifeInv, NEW i \in Instance, NEW n \in old[i]..Len(inbox[i]),
           Deliverable(i, Batch(i, n)), OneStart(i), NEW link, Start(link) \in Messages(i)
    PROVE  inst[i].status = "none" /\ RowsOf(Batch(i, n), "start")[1].msg.link = link
<1> DEFINE b == Batch(i, n)
           rows == RowsOf(b, "start")
<1>0. TypeOK /\ Start(link).type = "start" /\ Start(link).link = link
  BY DEF LifeInv, Start
<1>1. PICK q \in DOMAIN inbox[i] : inbox[i][q].msg = Start(link)
  BY DEF Messages
<1>2. inst[i].status = "none"
  BY <1>0, <1>1 DEF OneStart, HasStart, Has
<1>3. Has(b, "start")
  BY <1>2, FirstBatch
<1>4. /\ b \in Seq(Rows(i)) /\ BatchRows(i, n) \subseteq DOMAIN inbox[i]
      /\ \A k \in DOMAIN b : \E l \in BatchRows(i, n) : b[k] = inbox[i][l]
  BY <1>0, BatchFacts
<1> HIDE DEF b
<1>5. \E k \in DOMAIN b : rows[1] = b[k] /\ b[k].msg.type = "start"
  BY <1>3, <1>4, FirstRow
<1> HIDE DEF rows
<1>6. PICK l \in DOMAIN inbox[i] : rows[1] = inbox[i][l] /\ inbox[i][l].msg.type = "start"
  BY <1>4, <1>5
<1>7. l = q
  BY <1>0, <1>1, <1>6 DEF OneStart
<1> QED BY <1>0, <1>1, <1>2, <1>6, <1>7 DEF rows, b

(* A parent goes on hearing of the child it waits for. *)
LEMMA ActedHeard ==
    ASSUME LifeInv, StartInv, TrackedInv,
           NEW i \in Instance, NEW n \in old[i]..Len(inbox[i]), NEW out,
           Acted(i, n, out), AwaitsMore(i, n, out), ParentTold(i, n, out),
           NEW p \in Instance, NEW k, Heard(p, k)
    PROVE  Heard(p, k)'
<1> DEFINE c == Child[<<p, k>>]
<1> SUFFICES ASSUME Awaiting(inst'[p], k), c \notin abrupt' \cup Continues
             PROVE  Underway(p, k)'
  BY AnsweringWays DEF Heard, Awaiting
<1>0. c \notin abrupt \cup Continues
  BY DEF Acted
<1>1. ASSUME Awaiting(inst[p], k) PROVE Underway(p, k)
  BY <1>0, <1>1, AnsweringWays DEF Heard, Awaiting
<1>2. ASSUME NEW j \in Instance, j # i
      PROVE  inst'[j] = inst[j] /\ \A m \in Messages(j) : m \in Messages(j)'
  <2>1. inst'[j] = inst[j] /\ Moved(j, {}, out)
    BY <1>2 DEF Acted
  <2>2. \A l \in DOMAIN inbox[j] \ {} : inbox[j][l].msg \in Messages(j)'
    BY <2>1, MovedMessages
  <2> QED BY <2>1, <2>2 DEF Messages
<1>3. CASE p = i
  <2>1. CASE \E l \in DOMAIN out :
                /\ <<i, k>> \in DOMAIN Child /\ out[l].to = Child[<<i, k>>]
                /\ out[l].msg = Start([inst |-> i, id |-> k, from |-> inst'[i].exec])
    <3>1. PICK l \in DOMAIN out :
             /\ <<i, k>> \in DOMAIN Child /\ out[l].to = Child[<<i, k>>]
             /\ out[l].msg = Start([inst |-> i, id |-> k, from |-> inst'[i].exec])
      BY <2>1
    <3>2. c \in Instance /\ c # i
      BY <1>3, <3>1, LifecycleAssumption, ChildAssumption
    <3>3. out[l].msg = Start(Birth(p, k)) /\ out[l].to = c
      BY <1>3, <3>1 DEF Awaiting, Birth
    <3>4. Moved(c, {}, out)
      BY <3>2 DEF Acted
    <3>5. Start(Birth(p, k)) \in Messages(c)'
      BY <3>3, <3>4, MovedMessages
    <3> QED BY <3>5 DEF Underway
  <2>2. CASE /\ Awaiting(inst[i], k)
             /\ \A l \in BatchRows(i, n) :
                   LET m == inbox[i][l].msg
                   IN  ~(/\ m.type = "done" /\ m.kind = "child" /\ m.id = k
                         /\ m.exec = inst[i].exec)
    <3>1. c \in Instance /\ c # i /\ Underway(p, k)
      BY <1>1, <1>3, <2>2, AwaitedChild
    <3>2. inst'[c] = inst[c] /\ \A m \in Messages(c) : m \in Messages(c)'
      BY <1>2, <3>1
    <3>3. CASE \E m \in Messages(i) : AnswerTo(k, m)
      <4>1. PICK l \in DOMAIN inbox[i] : AnswerTo(k, inbox[i][l].msg)
        BY <3>3 DEF Messages
      <4>2. l \notin BatchRows(i, n)
        BY <2>2, <4>1 DEF AnswerTo, Awaiting
      <4>3. Moved(i, BatchRows(i, n), out)
        BY DEF Acted
      <4>4. inbox[i][l].msg \in Messages(i)'
        BY <4>1, <4>2, <4>3, MovedMessages
      <4> QED BY <1>3, <4>1, <4>4 DEF Underway, AnswerTo
    <3> QED BY <1>3, <3>1, <3>2, <3>3 DEF Underway
  <2> QED BY <1>3, <2>1, <2>2 DEF AwaitsMore
<1>4. CASE p # i
  <2>1. Awaiting(inst[p], k) /\ inst'[p] = inst[p] /\ \A m \in Messages(p) : m \in Messages(p)'
    BY <1>2, <1>4
  <2>2. <<p, k>> \in DOMAIN Child /\ c \in Instance /\ c # p /\ Underway(p, k)
    BY <1>1, <2>1, AwaitedChild
  <2>3. CASE \E m \in Messages(p) : AnswerTo(k, m)
    BY <2>1, <2>3 DEF Underway, AnswerTo
  <2>4. CASE c # i
    <3>1. inst'[c] = inst[c] /\ \A m \in Messages(c) : m \in Messages(c)'
      BY <1>2, <2>2, <2>4
    <3> QED BY <2>2, <2>3, <3>1 DEF Underway
  <2>5. CASE c = i /\ ~\E m \in Messages(p) : AnswerTo(k, m)
    <3>1. inst[p].exec = 1 /\ <<p, k>>[1] = p
      BY <2>1 DEF Awaiting
    <3>2. OneStart(i) /\ Deliverable(i, Batch(i, n))
      BY <2>2, <2>5, <3>1 DEF StartInv, Acted
    <3>3. TurnLink(i, n, Birth(p, k))
      <4>1. Birth(p, k).inst \in Instance
        BY DEF Birth
      <4>2. CASE Start(Birth(p, k)) \in Messages(i)
        BY <3>2, <4>1, <4>2, OnlyStart DEF TurnLink
      <4>3. CASE inst[i].status = "running" /\ inst[i].link = Birth(p, k)
        BY <4>1, <4>3 DEF TurnLink
      <4> QED BY <2>2, <2>5, <4>2, <4>3 DEF Underway
    <3>4. CASE inst'[i].status = "running" /\ inst'[i].link = Birth(p, k)
      BY <2>5, <3>4 DEF Underway
    <3>5. CASE Tells(out, Birth(p, k))
      <4>1. PICK r \in Runtime, l \in DOMAIN out :
               /\ out[l].to = Birth(p, k).inst
               /\ out[l].msg.type = "done" /\ out[l].msg.kind = "child"
               /\ out[l].msg.id = Birth(p, k).id
               /\ out[l].msg.exec = ExecutionId(r, Birth(p, k).inst)
        BY <3>5 DEF Tells
      <4>2. Birth(p, k).inst = p /\ Birth(p, k).id = k
        BY DEF Birth
      <4>3. ExecutionId(r, p) = 1
        <5>1. tracked[r][p] \in 0..MaxExec /\ tracked[r][p] <= 1
          BY <3>1 DEF LifeInv, TypeOK, TrackedInv
        <5>2. tracked[r][p] = 0 \/ tracked[r][p] = 1
          BY <5>1, BoundFacts
        <5> QED BY <5>2 DEF ExecutionId
      <4>4. Moved(p, {}, out)
        BY <1>4 DEF Acted
      <4>5. out[l].msg \in Messages(p)'
        BY <4>1, <4>2, <4>4, MovedMessages
      <4>6. AnswerTo(k, out[l].msg)
        BY <4>1, <4>2, <4>3 DEF AnswerTo
      <4> QED BY <4>5, <4>6 DEF Underway, AnswerTo
    <3> QED BY <2>5, <3>3, <3>4, <3>5 DEF ParentTold
  <2> QED BY <2>3, <2>4, <2>5
<1> QED BY <1>3, <1>4

----------------------------------------------------------------------------
(* Steps in which no instance takes a turn. *)

(* No row is deleted, and the rows of `out' are added; a client has        *)
(* started a root or nothing was started.                                  *)
Idle(out) ==
    /\ inst' = inst /\ abrupt' = abrupt
    /\ \A j \in Instance : Moved(j, {}, out)
    /\ \A r \in Runtime, j \in Instance : tracked'[r][j] \in {tracked[r][j], 0}
    /\ \/ starts' = starts /\ \A k \in DOMAIN out : out[k].msg.type # "start"
       \/ /\ starts' = starts + 1 /\ DOMAIN out = {1} /\ out[1].msg.type = "start"
          /\ out[1].to \in Root

(* Starts that are not for c leave its starts alone. *)
LEMMA IdleStart ==
    ASSUME NEW out, Idle(out), NEW c \in Instance,
           \A k \in DOMAIN out : out[k].msg.type = "start" => out[k].to # c
    PROVE  /\ HasStart(c)' => HasStart(c)
           /\ OneStart(c) => OneStart(c)'
           /\ Unborn(c) => Unborn(c)'
<1>1. Moved(c, {}, out) /\ inst' = inst
  BY DEF Idle
<1>2. HasStart(c)' => HasStart(c)
  <2>1. HasStart(c)' => \/ \E l \in DOMAIN inbox[c] \ {} : inbox[c][l].msg.type = "start"
                        \/ \E l \in DOMAIN out : out[l].to = c /\ out[l].msg.type = "start"
    BY <1>1, MovedHas DEF HasStart
  <2> QED BY <2>1 DEF HasStart, Has
<1>3. OneStart(c) => OneStart(c)'
  <2> SUFFICES ASSUME OneStart(c) PROVE OneStart(c)'
    OBVIOUS
  <2>1. HasStart(c)' => inst'[c].status = "none"
    BY <1>1, <1>2 DEF OneStart
  <2>2. \A k, l \in DOMAIN inbox[c] :
           inbox[c][k].msg.type = "start" /\ inbox[c][l].msg.type = "start" => k = l
    BY DEF OneStart
  <2> QED BY <1>1, <2>1, <2>2, MovedOneStart
<1> QED BY <1>1, <1>2, <1>3 DEF Unborn

(* Such a step keeps the rules about starts. *)
LEMMA IdleStarts ==
    ASSUME TypeOK, StartInv, NEW out, Idle(out)
    PROVE  StartInv'
<1>1. inst' = inst
  BY DEF Idle
<1>2. \A k \in DOMAIN out : out[k].msg.type = "start" => out[k].to \in Root
  BY DEF Idle
<1>3. ASSUME NEW c \in Instance, HasStart(c)' PROVE Startable(c)
  <2>1. CASE c \in Root
    BY <2>1 DEF Startable
  <2>2. CASE c \notin Root
    <3>1. HasStart(c)
      BY <1>2, <1>3, <2>2, IdleStart
    <3> QED BY <3>1 DEF StartInv
  <2> QED BY <2>1, <2>2
<1>4. ASSUME NEW d \in DOMAIN Child
      PROVE  /\ NotYet(inst'[d[1]], d[2]) => Unborn(Child[d])'
             /\ inst'[d[1]].exec <= 1 => OneStart(Child[d])'
  <2>1. Child[d] \in Instance /\ Child[d] \notin Root
    BY LifecycleAssumption, ChildAssumption
  <2>2. /\ OneStart(Child[d]) => OneStart(Child[d])'
        /\ Unborn(Child[d]) => Unborn(Child[d])'
    BY <1>2, <2>1, IdleStart
  <2> QED BY <1>1, <2>2 DEF StartInv
<1>5. ASSUME NEW c \in Root PROVE (starts' = 0 => Unborn(c)') /\ (starts' <= 1 => OneStart(c)')
  <2>1. c \in Instance /\ starts \in Nat
    BY LifecycleAssumption DEF TypeOK
  <2>2. CASE starts' = starts /\ \A k \in DOMAIN out : out[k].msg.type # "start"
    <3>1. /\ OneStart(c) => OneStart(c)'
          /\ Unborn(c) => Unborn(c)'
      BY <2>1, <2>2, IdleStart
    <3> QED BY <2>2, <3>1 DEF StartInv
  <2>3. CASE starts' = starts + 1 /\ DOMAIN out = {1}
    <3>1. ASSUME starts' <= 1 PROVE OneStart(c)'
      <4>1. starts = 0
        BY <2>1, <2>3, <3>1
      <4>2. inst[c].status = "none" /\ \A k \in DOMAIN inbox[c] : inbox[c][k].msg.type # "start"
        BY <4>1 DEF StartInv, Unborn, HasStart, Has
      <4>3. Moved(c, {}, out) /\ inst'[c].status = "none"
        BY <1>1, <2>1, <4>2 DEF Idle
      <4>4. \A k, l \in DOMAIN out : k = l
        BY <2>3
      <4> QED BY <4>2, <4>3, <4>4, MovedOneStart
    <3>2. starts' # 0
      BY <2>1, <2>3
    <3> QED BY <3>1, <3>2
  <2> QED BY <2>2, <2>3 DEF Idle
<1> QED BY <1>3, <1>4, <1>5 DEF StartInv, Startable

(* And all the rest. *)
LEMMA IdleRoute ==
    ASSUME RouteInv, LifeInv', NEW out, Idle(out)
    PROVE  RouteInv'
<1>0. TypeOK /\ starts \in Nat /\ StartInv
  BY DEF RouteInv, LifeInv, TypeOK
<1>1. StartInv'
  BY <1>0, IdleStarts
<1>2. inst' = inst /\ abrupt' = abrupt /\ \A j \in Instance : Moved(j, {}, out)
  BY DEF Idle
<1>3. TrackedInv'
  <2> SUFFICES ASSUME NEW r \in Runtime, NEW j \in Instance PROVE tracked'[r][j] <= inst'[j].exec
    BY DEF TrackedInv
  <2>1. inst[j].exec \in Nat
    BY <1>0, ExecNat DEF TypeOK
  <2>2. tracked'[r][j] = tracked[r][j] \/ tracked'[r][j] = 0
    BY DEF Idle
  <2>3. tracked[r][j] <= inst[j].exec
    BY DEF RouteInv, TrackedInv
  <2> QED BY <1>2, <2>1, <2>2, <2>3
<1>4. ASSUME NEW j \in Instance, NEW m \in Messages(j) PROVE m \in Messages(j)'
  <2>1. \A l \in DOMAIN inbox[j] \ {} : inbox[j][l].msg \in Messages(j)'
    BY <1>2, MovedMessages
  <2> QED BY <1>4, <2>1 DEF Messages
<1>5. ASSUME NEW c \in Instance PROVE Remembered(c)'
  <2>1. ASSUME Has(inbox[c], "can") PROVE Has(inbox'[c], "can")
    <3>1. PICK m \in Messages(c) : m.type = "can"
      BY <2>1, HasMessage
    <3>2. m \in Messages(c)'
      BY <1>4
    <3> QED BY <3>1, <3>2, HasMessage
  <2>2. starts > 1 => starts' > 1
    BY <1>0 DEF Idle
  <2>3. Remembered(c)
    BY DEF RouteInv
  <2> QED BY <1>2, <2>1, <2>2, <2>3 DEF Remembered, StartedTwice
<1>6. ASSUME NEW i \in Instance, NEW k PROVE Heard(i, k)'
  <2> SUFFICES ASSUME Awaiting(inst[i], k), Child[<<i, k>>] \notin abrupt \cup Continues
               PROVE  Underway(i, k)'
    BY <1>2, AnsweringWays DEF Heard, Awaiting
  <2>1. Underway(i, k)
    BY AnsweringWays DEF RouteInv, Heard, Awaiting
  <2>2. Child[<<i, k>>] \in Instance
    BY AwaitedChild DEF RouteInv
  <2> QED BY <1>2, <1>4, <2>1, <2>2 DEF Underway, AnswerTo
<1> QED BY <1>1, <1>3, <1>5, <1>6 DEF RouteInv

(* Clients, workers and timers, abandonments and restarts. *)
LEMMA ClientsIdle ==
    ASSUME LifeInv, NEW i \in Instance,
           \/ i \in Root /\ StartOrchestration(i)
           \/ EnqueueEvent(i) \/ RequestCancel(i)
    PROVE  \E out : Idle(out)
<1>1. TypeOK /\ UNCHANGED <<inst, tracked, abrupt>>
  BY DEF LifeInv, StartOrchestration, EnqueueEvent, RequestCancel
<1>2. \E m \in Message : /\ Enqueue(i, m)
                         /\ \/ m.type # "start" /\ starts' = starts
                            \/ m.type = "start" /\ i \in Root /\ starts' = starts + 1
  <2>1. CASE i \in Root /\ StartOrchestration(i)
    <3>1. NoLink \in Link
      BY DEF Link
    <3> QED BY <2>1, <3>1, MessageTypes DEF StartOrchestration
  <2>2. CASE EnqueueEvent(i)
    <3>1. sent' \in Data
      BY <1>1, <2>2, LifecycleAssumption DEF EnqueueEvent, TypeOK, Data
    <3> QED BY <2>2, <3>1, MessageTypes DEF EnqueueEvent
  <2>3. CASE RequestCancel(i)
    BY <2>3, MessageTypes DEF RequestCancel
  <2> QED BY <2>1, <2>2, <2>3
<1>3. PICK m \in Message : /\ Enqueue(i, m)
                           /\ \/ m.type # "start" /\ starts' = starts
                              \/ m.type = "start" /\ i \in Root /\ starts' = starts + 1
  BY <1>2
<1> DEFINE row == Row(i, m, 0)
<1>4. row.to = i /\ row.msg = m
  BY BoundFacts, RowFacts
<1>5. \A j \in Instance : Moved(j, {}, <<row>>)
  BY <1>1, <1>3, EnqueueMoves
<1> HIDE DEF row
<1>6. DOMAIN <<row>> = {1} /\ <<row>>[1] = row
  OBVIOUS
<1>7. Idle(<<row>>)
  BY <1>1, <1>3, <1>4, <1>5, <1>6 DEF Idle
<1> QED BY <1>7

(* Hiding, reappearing and firing rows starts nothing, nor does a restart. *)
LEMMA OthersIdle ==
    ASSUME LifeInv,
           \/ \E i \in Instance : \/ Abandon(i)
                                  \/ \E h \in 1..MaxFaults : Reappear(i, h)
                                  \/ \E k \in DOMAIN inbox[i] : Fire(i, k)
           \/ \E r \in Runtime : Restart(r)
    PROVE  \E out : Idle(out)
<1>1. TypeOK /\ UNCHANGED <<inst, abrupt, starts>>
  BY DEF LifeInv, Abandon, Reappear, Fire, Restart
<1>2. \A j \in Instance : Moved(j, {}, <<>>)
  <2>1. CASE \E i \in Instance : \/ Abandon(i)
                                 \/ \E h \in 1..MaxFaults : Reappear(i, h)
                                 \/ \E k \in DOMAIN inbox[i] : Fire(i, k)
    BY <2>1, HidingSteps
  <2>2. CASE \E r \in Runtime : Restart(r)
    <3> SUFFICES ASSUME NEW j \in Instance PROVE Moved(j, {}, <<>>)
      OBVIOUS
    <3>1. inbox[j] \in Seq(Rows(j)) /\ inbox'[j] = inbox[j]
      BY <1>1, <2>2 DEF TypeOK, Restart
    <3>2. DOMAIN inbox[j] = 1..Len(inbox[j]) /\ Len(inbox[j]) \in Nat
      BY <3>1
    <3> QED BY <3>1, <3>2, StillMoves
  <2> QED BY <2>1, <2>2
<1>3. \A r \in Runtime, j \in Instance : tracked'[r][j] \in {tracked[r][j], 0}
  <2>1. CASE tracked' = tracked
    BY <2>1
  <2>2. CASE \E r \in Runtime : Restart(r)
    <3>1. PICK r \in Runtime : tracked' = [tracked EXCEPT ![r] = [i \in Instance |-> 0]]
      BY <2>2 DEF Restart
    <3>2. tracked \in [Runtime -> [Instance -> 0..MaxExec]]
      BY <1>1 DEF TypeOK
    <3> QED BY <3>1, <3>2
  <2> QED BY <2>1, <2>2 DEF Abandon, Reappear, Fire
<1>4. Idle(<<>>)
  BY <1>1, <1>2, <1>3 DEF Idle
<1> QED BY <1>4

(* Nor does the completion of an activity. *)
LEMMA WorkersIdle ==
    ASSUME LifeInv, NEW a \in work, NEW res \in {"ok", "app", "sys"}, CompleteActivity(a, res)
    PROVE  \E out : Idle(out)
<1> DEFINE m == Done("activity", a[2], a[3], res, a[2])
<1>1. TypeOK /\ Enqueue(a[1], m) /\ UNCHANGED <<inst, tracked, abrupt, starts>>
  BY DEF LifeInv, CompleteActivity
<1>2. a[1] \in Instance /\ a[2] \in Exec /\ a[3] \in CallId
  BY <1>1 DEF TypeOK
<1>3. m \in Message /\ m.type = "done"
  BY <1>2, MessageTypes DEF CallKind
<1> HIDE DEF m
<1> DEFINE row == Row(a[1], m, 0)
<1>4. row.msg = m
  BY <1>2, <1>3, BoundFacts, RowFacts
<1>5. \A j \in Instance : Moved(j, {}, <<row>>)
  BY <1>1, <1>2, <1>3, EnqueueMoves
<1> HIDE DEF row
<1>6. DOMAIN <<row>> = {1} /\ <<row>>[1] = row
  OBVIOUS
<1>7. Idle(<<row>>)
  BY <1>1, <1>3, <1>4, <1>5, <1>6 DEF Idle
<1> QED BY <1>7

----------------------------------------------------------------------------
(* Turns. *)

Took(i, n, out) ==
    /\ Acted(i, n, out) /\ TrackedBy(i)
    /\ ContinuationKept(i, n, out) /\ AwaitsMore(i, n, out) /\ ParentTold(i, n, out)

(* A turn keeps the invariant. *)
LEMMA TookRoute ==
    ASSUME RouteInv, LifeInv', NEW i \in Instance, NEW n \in old[i]..Len(inbox[i]), NEW out,
           Took(i, n, out)
    PROVE  RouteInv'
<1>1. /\ LifeInv /\ StartInv /\ TrackedInv
      /\ Acted(i, n, out) /\ TrackedBy(i)
      /\ ContinuationKept(i, n, out) /\ AwaitsMore(i, n, out) /\ ParentTold(i, n, out)
  BY DEF RouteInv, Took
<1>2. StartInv' /\ TrackedInv'
  BY <1>1, ActedStarts, ActedTracked
<1>3. ASSUME NEW c \in Instance PROVE Remembered(c)'
  <2>1. Remembered(c)
    BY DEF RouteInv
  <2> QED BY <1>1, <2>1, ActedRemembered
<1>4. ASSUME NEW p \in Instance, NEW k PROVE Heard(p, k)'
  <2>1. Heard(p, k)
    BY DEF RouteInv
  <2> QED BY <1>1, <2>1, ActedHeard
<1> QED BY <1>2, <1>3, <1>4 DEF RouteInv

(* A turn runs for the parent that its batch or its history names. *)
LEMMA TurnParent ==
    ASSUME LifeInv, NEW i \in Instance, NEW n \in old[i]..Len(inbox[i]), Turn(i, n),
           NEW link, TurnLink(i, n, link)
    PROVE  Before(i, n).link = link /\ link.inst \in Instance
<1>1. link.inst \in Instance
  BY DEF TurnLink
<1>2. CASE inst[i].status = "running" /\ inst[i].link = link
  <2>1. Before(i, n) = inst[i]
    BY <1>2, BeforeFacts
  <2> QED BY <1>1, <1>2, <2>1
<1>3. CASE inst[i].status = "none" /\ RowsOf(Batch(i, n), "start")[1].msg.link = link
  <2>1. ~Has(Batch(i, n), "can")
    BY <1>3, FirstBatch DEF Turn
  <2>2. ~IsContinueAsNew(Batch(i, n))
    BY <2>1 DEF IsContinueAsNew, Has
  <2>3. Before(i, n) = Fresh(1, "running", link)
    BY <1>3, <2>2 DEF Before, Open
  <2> QED BY <1>1, <2>3 DEF Fresh
<1> QED BY <1>2, <1>3 DEF TurnLink

(* Rows that start nothing. *)
StartsNone(out) == out \in Seq(AnyRow) /\ \A k \in DOMAIN out : out[k].msg.type # "start"

(* Rows that start nothing, put behind each other. *)
LEMMA JoinedRows ==
    ASSUME NEW s, NEW t, StartsNone(s), StartsNone(t)
    PROVE  /\ StartsNone(s \o t)
           /\ \A link : Tells(s, link) \/ Tells(t, link) => Tells(s \o t, link)
<1>1. s \in Seq(AnyRow) /\ t \in Seq(AnyRow)
  BY DEF StartsNone
<1>2. /\ s \o t \in Seq(AnyRow)
      /\ \A k \in DOMAIN s : k \in DOMAIN (s \o t) /\ (s \o t)[k] = s[k]
      /\ \A k \in DOMAIN t : k + Len(s) \in DOMAIN (s \o t) /\ (s \o t)[k + Len(s)] = t[k]
      /\ \A k \in DOMAIN (s \o t) : \/ k \in DOMAIN s /\ (s \o t)[k] = s[k]
                                    \/ k - Len(s) \in DOMAIN t /\ (s \o t)[k] = t[k - Len(s)]
  BY <1>1
<1>3. StartsNone(s \o t)
  BY <1>2 DEF StartsNone
<1> DEFINE u == s \o t
<1> HIDE DEF u
<1>4. \A link : Tells(s, link) => Tells(u, link)
  <2>1. \A k \in DOMAIN s : k \in DOMAIN u /\ u[k] = s[k]
    BY <1>2 DEF u
  <2> QED BY <2>1 DEF Tells
<1>5. \A link : Tells(t, link) => Tells(u, link)
  <2>1. \A k \in DOMAIN t : \E l \in DOMAIN u : u[l] = t[k]
    BY <1>2 DEF u
  <2> QED BY <2>1 DEF Tells
<1> QED BY <1>3, <1>4, <1>5 DEF u

(* Answers and cancellations start nothing; an answer tells the parent. *)
LEMMA SentRows ==
    ASSUME TypeOK
    PROVE  /\ StartsNone(<<>>)
           /\ \A r \in Runtime, link \in Link, res \in {"ok", "app", "sys"} :
                 /\ StartsNone(Notify(r, link, res))
                 /\ link.inst \in Instance => Tells(Notify(r, link, res), link)
           /\ \A i \in Instance, z \in Execution : \A D :
                 (\A k \in DOMAIN z.calls : z.calls[k].kind = "child" => <<i, k>> \in DOMAIN Child)
                 => StartsNone(CancelChildren(i, z, D))
<1>1. StartsNone(<<>>)
  BY DEF StartsNone
<1>2. ASSUME NEW r \in Runtime, NEW link \in Link, NEW res \in {"ok", "app", "sys"}
      PROVE  /\ StartsNone(Notify(r, link, res))
             /\ link.inst \in Instance => Tells(Notify(r, link, res), link)
  <2> DEFINE s == Notify(r, link, res)
  <2>1. /\ s \in Seq(AnyRow)
        /\ \A k \in DOMAIN s : s[k].msg.type = "done" /\ s[k].msg.kind = "child"
        /\ link.inst # NoInstance =>
              /\ 1 \in DOMAIN s /\ s[1].to = link.inst /\ s[1].msg.id = link.id
              /\ s[1].msg.exec = ExecutionId(r, link.inst)
    BY NotifyFacts
  <2> HIDE DEF s
  <2>2. StartsNone(s)
    BY <2>1 DEF StartsNone
  <2>3. link.inst \in Instance => Tells(s, link)
    BY <2>1, BoundFacts DEF Tells
  <2> QED BY <2>2, <2>3 DEF s
<1>3. ASSUME NEW i \in Instance, NEW z \in Execution, NEW D,
             \A k \in DOMAIN z.calls : z.calls[k].kind = "child" => <<i, k>> \in DOMAIN Child
      PROVE  StartsNone(CancelChildren(i, z, D))
  <2> DEFINE s == CancelChildren(i, z, D)
  <2>1. s \in Seq(AnyRow) /\ \A k \in DOMAIN s : s[k].msg.type = "cancel"
    BY <1>3, CancelFacts
  <2> HIDE DEF s
  <2>2. StartsNone(s)
    BY <2>1 DEF StartsNone
  <2> QED BY <2>2 DEF s
<1> QED BY <1>1, <1>2, <1>3

(* A turn in which an execution ends. *)
LEMMA LastTurn ==
    ASSUME LifeInv, NEW i \in Instance, NEW n \in old[i]..Len(inbox[i]),
           Deliverable(i, Batch(i, n)), NEW out, StartsNone(out), Ack(i, n, out),
           NEW e \in Exec, inst[i].exec <= e, NEW l \in Link,
           NEW st \in {"completed", "failed", "continued"},
           inst' = [inst EXCEPT ![i] = Fresh(e, st, l)],
           tracked' = tracked, starts' = starts, abrupt \subseteq abrupt',
           st = "continued" => \E k \in DOMAIN out : out[k].to = i /\ out[k].msg.type = "can",
           \A link : TurnLink(i, n, link) => i \in abrupt' \cup Continues \/ Tells(out, link)
    PROVE  Took(i, n, out)
<1>1. TypeOK /\ out \in Seq(AnyRow)
  BY DEF LifeInv, StartsNone
<1>2. \A j \in Instance : Moved(j, IF j = i THEN BatchRows(i, n) ELSE {}, out)
  BY <1>1, AckMoves
<1>3. inst'[i] = Fresh(e, st, l) /\ \A j \in Instance : j # i => inst'[j] = inst[j]
  BY <1>1 DEF TypeOK
<1>4. inst'[i] \in Execution /\ inst'[i].exec = e /\ inst'[i].status = st
  <2>1. e \in 0..MaxExec
    BY BoundFacts
  <2> QED BY <1>3, <2>1, FreshFacts
<1>5. st # "running" /\ st # "none" /\ e # 0
  BY BoundFacts
<1>6. \A k : ~NotYet(inst'[i], k) /\ ~Awaiting(inst'[i], k)
  BY <1>4, <1>5 DEF NotYet, Awaiting
<1>7. Acted(i, n, out)
  BY <1>1, <1>2, <1>3, <1>4, <1>5, <1>6 DEF Acted, StartsNone
<1>8. TrackedBy(i) /\ AwaitsMore(i, n, out)
  BY <1>6 DEF TrackedBy, AwaitsMore
<1>9. ContinuationKept(i, n, out) /\ ParentTold(i, n, out)
  BY <1>4 DEF ContinuationKept, ParentTold
<1> QED BY <1>7, <1>8, <1>9 DEF Took

(* Every turn in which an execution ends tells the parent. *)
LEMMA EndingTook ==
    ASSUME LifeInv, NEW i \in Instance, NEW n \in old[i]..Len(inbox[i]), NEW r \in Runtime,
           FailTurn(r, i, n) \/ Panic(r, i, n) \/ CancelTurn(r, i, n) \/ ReturnTurn(r, i, n)
    PROVE  \E out : Took(i, n, out)
<1> DEFINE x == Before(i, n)
           y == After(i, n)
<1>1. /\ Turn(i, n) /\ TypeOK /\ Deliverable(i, Batch(i, n))
      /\ UNCHANGED <<tracked, starts, abrupt>>
  BY DEF LifeInv, Turn, FailTurn, Panic, CancelTurn, ReturnTurn
<1>2. /\ y \in Execution /\ y.exec = x.exec /\ y.link = x.link /\ Len(y.calls) <= MaxCalls[i]
      /\ \A k \in DOMAIN y.calls : y.calls[k].kind = "child" => <<i, k>> \in DOMAIN Child
  BY <1>1, AfterFacts
<1>3. x.exec \in Exec /\ inst[i].exec <= x.exec
  <2>1. x.exec \in Exec /\ (x = inst[i] \/ x.exec = inst[i].exec + 1) /\ inst[i] \in Execution
    BY <1>1, BeforeFacts DEF TypeOK
  <2> HIDE DEF x
  <2> QED BY <2>1, ExecNat
<1>4. \A link : TurnLink(i, n, link) => x.link = link /\ link.inst \in Instance
  BY <1>1, TurnParent
<1> HIDE DEF x
<1>5. ASSUME NEW z \in Execution, z.exec = x.exec, z.link = x.link,
             NEW res \in {"ok", "app", "sys"}, NEW st \in {"completed", "failed"},
             Terminate(i, z, st),
             NEW out, Ack(i, n, out), StartsNone(out),
             z.link.inst \in Instance => Tells(out, z.link)
      PROVE  Took(i, n, out)
  <2>1. z.link \in Link
    BY DEF Execution
  <2>2. inst' = [inst EXCEPT ![i] = Fresh(x.exec, st, z.link)]
    BY <1>5 DEF Terminate
  <2>3. \A link : TurnLink(i, n, link) => Tells(out, link)
    BY <1>4, <1>5
  <2>4. st # "continued" /\ st \in {"completed", "failed", "continued"}
    OBVIOUS
  <2> QED BY <1>1, <1>3, <1>5, <2>1, <2>2, <2>3, <2>4, LastTurn
<1>6. ASSUME NEW res \in {"ok", "app", "sys"},
             Terminate(i, y, "failed"), Ack(i, n, Notify(r, y.link, res))
      PROVE  \E out : Took(i, n, out)
  <2>1. y.link \in Link
    BY <1>2 DEF Execution
  <2>2. /\ StartsNone(Notify(r, y.link, res))
        /\ y.link.inst \in Instance => Tells(Notify(r, y.link, res), y.link)
    BY <1>1, <2>1, SentRows
  <2> HIDE DEF y
  <2> QED BY <1>2, <1>5, <1>6, <2>2
<1>7. ASSUME NEW z \in Scheduled(i, y), NEW st \in {"completed", "failed"},
             NEW res \in {"ok", "app", "sys"}, NEW out, Terminate(i, z, st), Ack(i, n, out),
             \/ out = CancelChildren(i, z, Outstanding(z)) \o Notify(r, z.link, res)
             \/ out = Notify(r, z.link, res) \o CancelChildren(i, z, Outstanding(z))
      PROVE  Took(i, n, out)
  <2>1. /\ z \in Execution /\ z.exec = x.exec /\ z.link \in Link
        /\ \A k \in DOMAIN z.calls : z.calls[k].kind = "child" => <<i, k>> \in DOMAIN Child
    BY <1>1, ExtendedChildren DEF x
  <2>2. z.link = x.link
    <3>1. Extends(i, y, z)
      BY <1>2, ScheduledFacts
    <3> QED BY <1>2, <3>1 DEF Extends
  <2> DEFINE s == Notify(r, z.link, res)
             t == CancelChildren(i, z, Outstanding(z))
  <2>3. StartsNone(s) /\ StartsNone(t) /\ (z.link.inst \in Instance => Tells(s, z.link))
    BY <1>1, <2>1, SentRows
  <2>4. StartsNone(out) /\ (z.link.inst \in Instance => Tells(out, z.link))
    <3>1. out = s \o t \/ out = t \o s
      BY <1>7
    <3> HIDE DEF s, t
    <3> QED BY <2>3, <3>1, JoinedRows
  <2> QED BY <1>5, <1>7, <2>1, <2>2, <2>4
<1>8. CASE FailTurn(r, i, n)
  BY <1>6, <1>8 DEF FailTurn
<1>9. CASE Panic(r, i, n)
  BY <1>6, <1>9 DEF Panic
<1>10. CASE CancelTurn(r, i, n)
  <2>1. PICK z \in Scheduled(i, y) :
           /\ Terminate(i, z, "failed")
           /\ Ack(i, n, CancelChildren(i, z, Outstanding(z)) \o Notify(r, z.link, "app"))
    BY <1>10 DEF CancelTurn
  <2> HIDE DEF y
  <2> QED BY <1>7, <2>1
<1>11. CASE ReturnTurn(r, i, n)
  <2>1. PICK z \in Scheduled(i, y), res \in {"ok", "app"} :
           /\ Terminate(i, z, IF res = "ok" THEN "completed" ELSE "failed")
           /\ Ack(i, n, Notify(r, z.link, res) \o CancelChildren(i, z, Outstanding(z)))
    BY <1>11 DEF ReturnTurn
  <2>2. (IF res = "ok" THEN "completed" ELSE "failed") \in {"completed", "failed"}
    OBVIOUS
  <2> HIDE DEF y
  <2> QED BY <1>7, <2>1, <2>2
<1> QED BY <1>8, <1>9, <1>10, <1>11

(* Turns that end otherwise: continued as new, failed by the runtime, or   *)
(* of an execution that had ended before.                                  *)
LEMMA OtherTook ==
    ASSUME LifeInv, NEW i \in Instance, NEW n \in old[i]..Len(inbox[i]),
           \/ ContinueAsNewTurn(i, n) \/ FailureAck(i, n) \/ AckEnded(i, n)
           \/ \E r \in Runtime : Poison(r, i, n)
    PROVE  \E out : Took(i, n, out)
<1>1. /\ TypeOK /\ Deliverable(i, Batch(i, n))
      /\ tracked' = tracked /\ starts' = starts /\ abrupt \subseteq abrupt'
  BY DEF LifeInv, Turn, ContinueAsNewTurn, FailureAck, AckEnded, Poison
<1>2. inst[i] \in Execution /\ inst[i].exec \in Nat
  BY <1>1, ExecNat DEF TypeOK
<1>3. CASE ContinueAsNewTurn(i, n)
  <2>1. Turn(i, n) /\ i \in Continues
    BY <1>3 DEF ContinueAsNewTurn
  <2>2. PICK z \in Execution, row \in AnyRow :
           /\ z.exec = Before(i, n).exec /\ Terminate(i, z, "continued")
           /\ Ack(i, n, <<row>>) /\ row.to = i /\ row.msg.type = "can"
    BY <1>3, ContinuingTurn DEF HandsOn
  <2>3. z.exec \in Exec /\ (z.exec = inst[i].exec \/ z.exec = inst[i].exec + 1)
    BY <2>1, <2>2, BeforeFacts
  <2>4. z.link \in Link /\ inst[i].exec <= z.exec
    BY <1>2, <2>3 DEF Execution
  <2>5. DOMAIN <<row>> = {1} /\ <<row>>[1] = row /\ <<row>> \in Seq(AnyRow)
    OBVIOUS
  <2>6. /\ StartsNone(<<row>>)
        /\ \E k \in DOMAIN <<row>> : <<row>>[k].to = i /\ <<row>>[k].msg.type = "can"
    BY <2>2, <2>5 DEF StartsNone
  <2>7. inst' = [inst EXCEPT ![i] = Fresh(z.exec, "continued", z.link)]
    BY <2>2 DEF Terminate
  <2>8. Took(i, n, <<row>>)
    BY <1>1, <2>1, <2>2, <2>3, <2>4, <2>6, <2>7, LastTurn
  <2> QED BY <2>8
<1>4. CASE FailureAck(i, n) \/ \E r \in Runtime : Poison(r, i, n)
  <2>1. i \in abrupt'
    BY <1>4 DEF FailureAck, Poison
  <2>2. PICK e, l, out :
           /\ e \in Exec /\ l \in Link
           /\ inst[i].exec <= e /\ inst' = [inst EXCEPT ![i] = Fresh(e, "failed", l)]
           /\ out = <<>> \/ \E r \in Runtime : out = Notify(r, l, "sys")
           /\ Ack(i, n, out)
    BY <1>4, AbruptTurns DEF FailedBy
  <2>3. StartsNone(out)
    BY <1>1, <2>2, SentRows
  <2>4. Took(i, n, out)
    BY <1>1, <2>1, <2>2, <2>3, LastTurn
  <2> QED BY <2>4
<1>5. CASE AckEnded(i, n)
  <2>1. /\ inst' = inst /\ Ack(i, n, <<>>) /\ Ended(i, Batch(i, n)) /\ <<>> \in Seq(AnyRow)
        /\ DOMAIN <<>> = {}
    BY <1>5 DEF AckEnded
  <2>2. \A j \in Instance : Moved(j, IF j = i THEN BatchRows(i, n) ELSE {}, <<>>)
    BY <1>1, <2>1, AckMoves
  <2>3. inst[i].status # "none" /\ inst[i].status # "running"
    BY <2>1 DEF Ended
  <2>4. Acted(i, n, <<>>)
    BY <1>1, <1>2, <2>1, <2>2, <2>3 DEF Acted
  <2>5. TrackedBy(i) /\ AwaitsMore(i, n, <<>>) /\ ParentTold(i, n, <<>>)
    BY <1>1, <2>1, <2>3 DEF TrackedBy, AwaitsMore, Awaiting, ParentTold, TurnLink
  <2>6. ContinuationKept(i, n, <<>>)
    BY <2>1 DEF ContinuationKept, Ended
  <2> QED BY <2>4, <2>5, <2>6 DEF Took
<1> QED BY <1>3, <1>4, <1>5

(* A turn that goes on starts the children of its new calls, each once. *)
Begins(i, y, z, out) ==
    /\ out \in Seq(AnyRow)
    /\ \A k \in DOMAIN out : out[k].msg.type = "start" =>
          \E c \in NewCalls(y, z) : <<i, c>> \in DOMAIN Child /\ out[k].to = Child[<<i, c>>]
    /\ \A k, l \in DOMAIN out :
          /\ out[k].msg.type = "start" /\ out[l].msg.type = "start" /\ out[k].to = out[l].to
          => k = l
    /\ \A c \in NewCalls(y, z) : z.calls[c].kind = "child" =>
          \E l \in DOMAIN out :
              /\ <<i, c>> \in DOMAIN Child /\ out[l].to = Child[<<i, c>>]
              /\ out[l].msg = Start([inst |-> i, id |-> c, from |-> z.exec])

(* What goes on sends the starts of its new children, and nothing else     *)
(* that starts an instance.                                                *)
LEMMA BeginsFacts ==
    ASSUME NEW i \in Instance, NEW y \in Execution, NEW z, Extends(i, y, z), z.exec \in Exec,
           NEW s, StartsNone(s)
    PROVE  Begins(i, y, z, NewRows(i, y, z) \o s)
<1> DEFINE t == NewRows(i, y, z)
           out == t \o s
<1>1. t \in Seq(AnyRow) /\ Announced(t, i, y, z)
  BY NewRowsFacts
<1>2. s \in Seq(AnyRow) /\ \A k \in DOMAIN s : s[k].msg.type # "start"
  BY DEF StartsNone
<1>3. PICK f \in [DOMAIN t -> NewCalls(y, z)] :
         /\ \A k \in DOMAIN t : t[k] = NewRow(i, z, f[k])
         /\ \A k, l \in DOMAIN t : f[k] = f[l] => k = l
         /\ \A c \in NewCalls(y, z) : \E k \in DOMAIN t : f[k] = c
  BY <1>1 DEF Announced
<1>4. \A c \in NewCalls(y, z) : IsNewRow(i, z, c, NewRow(i, z, c))
  BY NewRowFacts
<1>5. \A k \in DOMAIN t : f[k] \in NewCalls(y, z) /\ IsNewRow(i, z, f[k], t[k])
  BY <1>3, <1>4
<1> HIDE DEF t
<1>6. /\ out \in Seq(AnyRow)
      /\ \A k \in DOMAIN t : k \in DOMAIN out /\ out[k] = t[k]
      /\ \A k \in DOMAIN out : \/ k \in DOMAIN t /\ out[k] = t[k]
                               \/ k - Len(t) \in DOMAIN s /\ out[k] = s[k - Len(t)]
  BY <1>1, <1>2
<1> HIDE DEF out
<1>7. ASSUME NEW k \in DOMAIN out, out[k].msg.type = "start"
      PROVE  /\ k \in DOMAIN t /\ f[k] \in NewCalls(y, z)
             /\ <<i, f[k]>> \in DOMAIN Child /\ out[k].to = Child[<<i, f[k]>>]
  <2>1. k \in DOMAIN t /\ out[k] = t[k]
    BY <1>2, <1>6, <1>7
  <2>2. z.calls[f[k]].kind # "timer"
    BY <1>5, <1>7, <2>1 DEF IsNewRow
  <2> QED BY <1>5, <2>1, <2>2 DEF IsNewRow
<1>8. ASSUME NEW k \in DOMAIN out, NEW l \in DOMAIN out,
             out[k].msg.type = "start", out[l].msg.type = "start", out[k].to = out[l].to
      PROVE  k = l
  <2>1. <<i, f[k]>> = <<i, f[l]>>
    BY <1>7, <1>8, ChildAssumption
  <2>2. f[k] = f[l] /\ k \in DOMAIN t /\ l \in DOMAIN t
    BY <1>7, <1>8, <2>1
  <2> QED BY <1>3, <2>2
<1>9. ASSUME NEW c \in NewCalls(y, z), z.calls[c].kind = "child"
      PROVE  \E l \in DOMAIN out :
                /\ <<i, c>> \in DOMAIN Child /\ out[l].to = Child[<<i, c>>]
                /\ out[l].msg = Start([inst |-> i, id |-> c, from |-> z.exec])
  <2>1. PICK l \in DOMAIN t : f[l] = c
    BY <1>3
  <2>2. l \in DOMAIN out /\ out[l] = t[l] /\ IsNewRow(i, z, c, t[l])
    BY <1>5, <1>6, <2>1
  <2> QED BY <1>9, <2>2 DEF IsNewRow
<1> QED BY <1>6, <1>7, <1>8, <1>9 DEF Begins, out, t

(* A nonempty set of positions has a least one. *)
LEMMA LeastPosition ==
    ASSUME NEW L \in Nat, NEW K \in SUBSET (1..L), NEW k \in K
    PROVE  \E p \in K : \A j \in K : ~(j < p)
<1>1. Enumerated(K)
  BY PlaceFacts
<1>2. 1 \in 1..Cardinality(K) /\ Place(K, 1) \in K
  BY <1>1 DEF Enumerated
<1>3. ASSUME NEW j \in K PROVE ~(j < Place(K, 1))
  <2>1. PICK m \in 1..Cardinality(K) : Place(K, m) = j
    BY <1>1 DEF Enumerated
  <2>2. m = 1 \/ (1 < m /\ Place(K, 1) < Place(K, m))
    BY <1>1, <1>2, <2>1 DEF Enumerated
  <2>3. Place(K, 1) \in Nat /\ j \in Nat
    BY <1>1, <1>2 DEF Enumerated
  <2> QED BY <2>1, <2>2, <2>3
<1> QED BY <1>2, <1>3

(* An answer to an open call resolves it: the first of them in the batch   *)
(* becomes its completion event.                                           *)
LEMMA AnswerResolves ==
    ASSUME NEW x \in Execution, NEW i \in Instance, NEW b \in Seq(Rows(i)),
           NEW k \in DOMAIN x.calls, x.calls[k].res = "none", NEW n \in DOMAIN b,
           b[n].msg.type = "done", b[n].msg.kind = x.calls[k].kind, b[n].msg.id = k,
           b[n].msg.exec = x.exec
    PROVE  Resolved(x, b)[k].res # "none"
<1> DEFINE P == {p \in DOMAIN b : /\ b[p].msg.type = "done" /\ b[p].msg.kind = x.calls[k].kind
                                  /\ b[p].msg.id = k /\ b[p].msg.exec = x.exec}
<1>1. n \in P /\ P \in SUBSET (1..Len(b)) /\ Len(b) \in Nat
  OBVIOUS
<1>2. PICK p \in P : \A j \in P : ~(j < p)
  BY <1>1, LeastPosition
<1>3. \A m : m.id = k /\ m.exec = x.exec => Considered(x, m)
  BY DEF Considered, IsForCurrentExecution, IsAlreadyInHistory, Outcome
<1>4. b[p].msg \in Materialized(x, b)
  <2>1. p \in Answers(b) /\ Considered(x, b[p].msg)
    BY <1>2, <1>3 DEF Answers
  <2>2. ~\E j \in Answers(b) :
            /\ j < p /\ Considered(x, b[j].msg)
            /\ b[j].msg.id = b[p].msg.id /\ b[j].msg.kind = b[p].msg.kind
    BY <1>2 DEF Answers, Considered, IsForCurrentExecution
  <2> QED BY <2>1, <2>2 DEF Materialized
<1>5. ~Unexpected(x, b[p].msg) /\ b[p].msg.id = k
  BY <1>2 DEF Unexpected
<1> HIDE DEF P
<1> QED BY <1>4, <1>5, ResolvedFacts

(* A turn after which the execution goes on. *)
LEMMA GoingOnTook ==
    ASSUME LifeInv, NEW i \in Instance, NEW n \in old[i]..Len(inbox[i]), NEW r \in Runtime,
           ContinueTurn(r, i, n)
    PROVE  \E out : Took(i, n, out)
<1> DEFINE x == Before(i, n)
           y == After(i, n)
           b == Batch(i, n)
<1>1. /\ Turn(i, n) /\ TypeOK /\ Deliverable(i, b) /\ UNCHANGED <<abrupt, starts>>
      /\ inst \in [Instance -> Execution] /\ inst[i].exec \in Nat
  <2>1. /\ Turn(i, n) /\ TypeOK /\ Deliverable(i, b) /\ UNCHANGED <<abrupt, starts>>
    BY DEF LifeInv, ContinueTurn, Turn
  <2> QED BY <2>1, ExecNat DEF TypeOK
<1>2. PICK q \in Dequeued(i, y), D \in SUBSET Outstanding(y) : \E z \in Scheduled(i, q) :
        /\ inst' = [inst EXCEPT ![i] = Drop(z, D)]
        /\ Ack(i, n, NewRows(i, y, z) \o CancelChildren(i, z, D))
        /\ tracked' \in {[tracked EXCEPT ![r][i] = z.exec], tracked}
  BY DEF ContinueTurn
<1>3. PICK z \in Scheduled(i, q) :
        /\ inst' = [inst EXCEPT ![i] = Drop(z, D)]
        /\ Ack(i, n, NewRows(i, y, z) \o CancelChildren(i, z, D))
        /\ tracked' \in {[tracked EXCEPT ![r][i] = z.exec], tracked}
  BY <1>2
<1> DEFINE u == Drop(z, D)
           out == NewRows(i, y, z) \o CancelChildren(i, z, D)
<1>4. /\ Continued(i, x, y, z, u, D)
      /\ Extends(i, q, z) /\ q \in Execution /\ q.calls = y.calls
  BY <1>1, ContinuedFacts
<1>5. /\ x \in Execution /\ x.exec \in Exec
      /\ \/ inst[i].status = "running" /\ x = inst[i]
         \/ x.exec = inst[i].exec + 1 /\ x.calls = <<>>
  BY <1>1, BeforeFacts
<1>6. /\ y \in Execution /\ y.link = x.link /\ y.taken <= Len(y.arrived)
      /\ DOMAIN y.calls = DOMAIN x.calls /\ Len(y.calls) = Len(x.calls)
      /\ \A k \in DOMAIN y.calls :
            y.calls[k].kind = x.calls[k].kind /\ y.calls[k].dropped = x.calls[k].dropped
  BY <1>1, AfterFacts
<1>7. b \in Seq(Rows(i)) /\ \A l \in BatchRows(i, n) : \E k \in DOMAIN b : b[k] = inbox[i][l]
  BY <1>1, BatchFacts
<1>8. y.calls = Resolved(x, b)
  BY <1>5, <1>7, AppliedFacts DEF After
<1>9. \A link : TurnLink(i, n, link) => x.link = link
  BY <1>1, TurnParent
<1> HIDE DEF x, y, b
<1>10. q.link = x.link
  BY <1>6, DequeuedFacts
<1>11. z \in Execution /\ z.link = x.link /\ z.exec = x.exec
  BY <1>4, <1>10 DEF Extends, Continued
<1>12. Begins(i, y, z, out)
  <2>1. \A k \in DOMAIN z.calls : z.calls[k].kind = "child" => <<i, k>> \in DOMAIN Child
    BY <1>4 DEF Continued
  <2>2. StartsNone(CancelChildren(i, z, D))
    BY <1>1, <1>11, <2>1, SentRows
  <2>3. z.exec \in Exec
    BY <1>5, <1>11
  <2>4. Begins(i, q, z, NewRows(i, q, z) \o CancelChildren(i, z, D))
    BY <1>4, <2>2, <2>3, BeginsFacts
  <2>5. NewRows(i, q, z) = NewRows(i, y, z) /\ NewCalls(q, z) = NewCalls(y, z)
    BY <1>4 DEF NewRows, NewCalls
  <2> QED BY <2>4, <2>5 DEF Begins
<1>13. /\ u.link = z.link /\ DOMAIN u.calls = DOMAIN z.calls /\ Len(u.calls) = Len(z.calls)
       /\ \A k \in D : k \in DOMAIN z.calls => u.calls[k].dropped
  <2>1. D \in SUBSET DOMAIN z.calls
    BY <1>4 DEF Continued
  <2> QED BY <1>11, <2>1, DropFacts
<1>14. Ack(i, n, out) /\ inst' = [inst EXCEPT ![i] = u]
  BY <1>3
<1> HIDE DEF u, out
<1>15. /\ u \in Execution /\ u.status = "running" /\ u.exec = x.exec
       /\ \A k \in DOMAIN y.calls : k \in DOMAIN z.calls /\ z.calls[k] = y.calls[k]
       /\ \A k \in DOMAIN z.calls :
             /\ u.calls[k].kind = z.calls[k].kind /\ u.calls[k].res = z.calls[k].res
             /\ k \notin D => u.calls[k] = z.calls[k]
  BY <1>4 DEF Continued, InstOK
<1>16. inst'[i] = u /\ \A j \in Instance : j # i => inst'[j] = inst[j]
  BY <1>1, <1>14
<1>17. /\ DOMAIN u.calls = 1..Len(u.calls) /\ Len(u.calls) \in Nat
       /\ DOMAIN x.calls = 1..Len(x.calls) /\ Len(x.calls) \in Nat
       /\ Len(x.calls) <= Len(u.calls) /\ u.exec \in Nat /\ u.exec # 0
  <2>1. u.calls \in Seq(Call) /\ x.calls \in Seq(Call)
    BY <1>5, <1>15 DEF Execution
  <2>2. Len(x.calls) <= Len(u.calls)
    BY <1>4, <1>6, <1>13 DEF Extends
  <2> QED BY <1>5, <1>15, <2>1, <2>2, BoundFacts
<1>18. \A k \in Nat : NotYet(u, k) => NotYet(inst[i], k)
  BY <1>1, <1>5, <1>15, <1>17 DEF NotYet
<1>19. ASSUME NEW k \in DOMAIN out, out[k].msg.type = "start" PROVE StartRow(i, out[k])
  <2>1. PICK c \in NewCalls(y, z) : <<i, c>> \in DOMAIN Child /\ out[k].to = Child[<<i, c>>]
    BY <1>12, <1>19 DEF Begins
  <2>2. c \in DOMAIN u.calls /\ c \notin DOMAIN x.calls
    BY <1>6, <1>13, <2>1 DEF NewCalls
  <2>3. c \in Nat /\ c <= Len(u.calls) /\ c > Len(x.calls)
    BY <1>17, <2>2
  <2>4. ~NotYet(u, c)
    BY <1>17, <2>3 DEF NotYet
  <2>5. NotYet(inst[i], c) \/ u.exec > 1
    BY <1>1, <1>5, <1>15, <1>17, <2>3 DEF NotYet
  <2> QED BY <1>16, <2>1, <2>4, <2>5 DEF StartRow
<1>20. Acted(i, n, out)
  <2>1. out \in Seq(AnyRow)
    BY <1>12 DEF Begins
  <2>2. \A j \in Instance : Moved(j, IF j = i THEN BatchRows(i, n) ELSE {}, out)
    BY <1>1, <1>14, <2>1, AckMoves
  <2>3. inst[i].exec <= u.exec
    BY <1>1, <1>5, <1>15
  <2>4. \A k, l \in DOMAIN out :
           /\ out[k].msg.type = "start" /\ out[l].msg.type = "start" /\ out[k].to = out[l].to
           => k = l
    BY <1>12 DEF Begins
  <2> QED BY <1>1, <1>15, <1>16, <1>18, <1>19, <2>1, <2>2, <2>3, <2>4 DEF Acted, b
<1>21. TrackedBy(i)
  <2>1. tracked \in [Runtime -> [Instance -> 0..MaxExec]]
    BY <1>1 DEF TypeOK
  <2>2. z.exec = inst'[i].exec
    BY <1>11, <1>15, <1>16
  <2>3. tracked' = tracked \/ tracked' = [tracked EXCEPT ![r][i] = z.exec]
    BY <1>3
  <2>4. ASSUME NEW s \in Runtime, NEW j \in Instance
        PROVE  tracked'[s][j] = tracked[s][j] \/ (j = i /\ tracked'[s][j] = z.exec)
    <3>1. tracked[s] \in [Instance -> 0..MaxExec]
      BY <2>1
    <3> QED BY <2>1, <2>3, <3>1
  <2> QED BY <2>2, <2>4 DEF TrackedBy
<1>22. ContinuationKept(i, n, out) /\ ParentTold(i, n, out)
  BY <1>9, <1>11, <1>13, <1>15, <1>16 DEF ContinuationKept, ParentTold
<1>23. AwaitsMore(i, n, out)
  <2> SUFFICES ASSUME NEW k, Awaiting(u, k)
               PROVE  \/ \E l \in DOMAIN out :
                           /\ <<i, k>> \in DOMAIN Child /\ out[l].to = Child[<<i, k>>]
                           /\ out[l].msg = Start([inst |-> i, id |-> k, from |-> u.exec])
                      \/ /\ Awaiting(inst[i], k)
                         /\ \A l \in BatchRows(i, n) :
                               ~(/\ inbox[i][l].msg.type = "done"
                                 /\ inbox[i][l].msg.kind = "child" /\ inbox[i][l].msg.id = k
                                 /\ inbox[i][l].msg.exec = inst[i].exec)
    BY <1>16 DEF AwaitsMore
  <2>1. /\ k \in DOMAIN z.calls /\ k \notin D /\ z.calls[k].kind = "child"
        /\ z.calls[k].res = "none" /\ ~z.calls[k].dropped /\ u.exec = 1
    BY <1>13, <1>15 DEF Awaiting, Outstanding
  <2>2. CASE k \notin DOMAIN y.calls
    <3>1. k \in NewCalls(y, z)
      BY <2>1, <2>2 DEF NewCalls
    <3> QED BY <1>11, <1>12, <1>15, <2>1, <3>1 DEF Begins
  <2>3. CASE k \in DOMAIN y.calls
    <3>1. /\ k \in DOMAIN x.calls /\ y.calls[k] = z.calls[k]
          /\ x.calls[k].kind = "child" /\ ~x.calls[k].dropped
      BY <1>6, <1>15, <2>1, <2>3
    <3>2. inst[i].status = "running" /\ x = inst[i] /\ x.exec = 1
      BY <1>5, <1>15, <2>1, <3>1
    <3>3. x.calls[k].res = "none"
      <4>1. \/ Resolved(x, b)[k].res = x.calls[k].res
            \/ \E m \in Materialized(x, b) : m.id = k /\ ~Unexpected(x, m)
        BY <1>5, <1>7, <3>1, ResolvedFacts
      <4> QED BY <1>8, <2>1, <3>1, <4>1 DEF Unexpected
    <3>4. Awaiting(inst[i], k)
      BY <3>1, <3>2, <3>3 DEF Awaiting, Outstanding
    <3>5. ASSUME NEW l \in BatchRows(i, n), inbox[i][l].msg.type = "done",
                 inbox[i][l].msg.kind = "child", inbox[i][l].msg.id = k,
                 inbox[i][l].msg.exec = inst[i].exec
          PROVE  FALSE
      <4>1. PICK m \in DOMAIN b : b[m] = inbox[i][l]
        BY <1>7
      <4>2. Resolved(x, b)[k].res # "none"
        BY <1>5, <1>7, <3>1, <3>2, <3>3, <3>5, <4>1, AnswerResolves
      <4> QED BY <1>8, <2>1, <3>1, <4>2
    <3> QED BY <3>4, <3>5
  <2> QED BY <2>2, <2>3
<1>24. Took(i, n, out)
  BY <1>20, <1>21, <1>22, <1>23 DEF Took
<1> QED BY <1>24

----------------------------------------------------------------------------
(* The invariant and the theorems. *)

(* The invariant holds initially, *)
LEMMA RouteInit == Init => RouteInv
<1> SUFFICES ASSUME Init PROVE RouteInv
  OBVIOUS
<1>1. LifeInv
  BY LifeInit
<1>2. \A i \in Instance : /\ inst[i] = Fresh(0, "none", NoLink) /\ inbox[i] = <<>>
                          /\ \A r \in Runtime : tracked[r][i] = 0
  BY DEF Init
<1>3. \A i \in Instance : inst[i].status = "none" /\ inst[i].exec = 0
  BY <1>2 DEF Fresh
<1>4. \A i \in Instance : ~HasStart(i) /\ Unborn(i) /\ OneStart(i)
  BY <1>2, <1>3 DEF HasStart, Has, Unborn, OneStart
<1>5. StartInv
  BY <1>4, LifecycleAssumption DEF StartInv
<1>6. TrackedInv
  BY <1>2, <1>3 DEF TrackedInv
<1>7. \A i \in Instance : Remembered(i) /\ \A k : Heard(i, k)
  BY <1>3 DEF Remembered, Heard, Awaiting
<1> QED BY <1>1, <1>5, <1>6, <1>7 DEF RouteInv

(* and every step preserves it. *)
LEMMA RouteNext == RouteInv /\ [Next]_vars => RouteInv'
<1> SUFFICES ASSUME RouteInv, [Next]_vars PROVE RouteInv'
  OBVIOUS
<1>0. LifeInv /\ LifeInv' /\ TypeOK /\ \A i \in Instance : Registered[i] \subseteq Runtime
  BY LifeNext, LifecycleAssumption DEF RouteInv, LifeInv
<1>1. CASE UNCHANGED vars
  <2>1. UNCHANGED <<inst, inbox, abrupt, tracked, starts>>
    BY <1>1 DEF vars
  <2>2. ASSUME NEW j \in Instance PROVE Moved(j, {}, <<>>)
    <3>1. inbox[j] \in Seq(Rows(j)) /\ inbox'[j] = inbox[j]
      BY <1>0, <2>1 DEF TypeOK
    <3>2. DOMAIN inbox[j] = 1..Len(inbox[j]) /\ Len(inbox[j]) \in Nat
      BY <3>1
    <3> QED BY <3>1, <3>2, StillMoves
  <2>3. Idle(<<>>)
    BY <2>1, <2>2 DEF Idle
  <2> QED BY <1>0, <2>3, IdleRoute
<1>2. ASSUME NEW i \in Root, StartOrchestration(i) PROVE RouteInv'
  <2>1. i \in Instance
    BY LifecycleAssumption
  <2> QED BY <1>0, <1>2, <2>1, ClientsIdle, IdleRoute
<1>3. ASSUME NEW i \in Mailbox, EnqueueEvent(i) PROVE RouteInv'
  <2>1. i \in Instance
    BY LifecycleAssumption
  <2> QED BY <1>0, <1>3, <2>1, ClientsIdle, IdleRoute
<1>4. ASSUME NEW i \in Instance, RequestCancel(i) PROVE RouteInv'
  BY <1>0, <1>4, ClientsIdle, IdleRoute
<1>5. ASSUME \/ \E i \in Instance : \/ Abandon(i)
                                    \/ \E h \in 1..MaxFaults : Reappear(i, h)
                                    \/ \E k \in DOMAIN inbox[i] : Fire(i, k)
             \/ \E r \in Runtime : Restart(r)
      PROVE  RouteInv'
  BY <1>0, <1>5, OthersIdle, IdleRoute
<1>6. ASSUME NEW a \in work, NEW res \in {"ok", "app", "sys"}, CompleteActivity(a, res)
      PROVE  RouteInv'
  BY <1>0, <1>6, WorkersIdle, IdleRoute
<1>7. ASSUME NEW i \in Instance, NEW n \in old[i]..Len(inbox[i]),
             \/ ContinueAsNewTurn(i, n) \/ FailureAck(i, n) \/ AckEnded(i, n)
             \/ \E r \in Runtime : Poison(r, i, n)
      PROVE  RouteInv'
  BY <1>0, <1>7, OtherTook, TookRoute
<1>8. ASSUME NEW i \in Instance, NEW n \in old[i]..Len(inbox[i]), NEW r \in Runtime,
             FailTurn(r, i, n) \/ Panic(r, i, n) \/ CancelTurn(r, i, n) \/ ReturnTurn(r, i, n)
      PROVE  RouteInv'
  BY <1>0, <1>8, EndingTook, TookRoute
<1>9. ASSUME NEW i \in Instance, NEW n \in old[i]..Len(inbox[i]), NEW r \in Runtime,
             ContinueTurn(r, i, n)
      PROVE  RouteInv'
  BY <1>0, <1>9, GoingOnTook, TookRoute
<1> QED BY <1>0, <1>1, <1>2, <1>3, <1>4, <1>5, <1>6, <1>7, <1>8, <1>9 DEF Next

(* So it always holds: an instance is started at most once unless clients  *)
(* or several executions of its parent do so, no process is ahead of the   *)
(* executions it stamps answers for, and the ways an answer takes stay     *)
(* open.                                                                   *)
THEOREM RouteInvariant == Spec => []RouteInv
BY RouteInit, RouteNext, PTL DEF Spec

(* An instance that continued as new has its next execution in the inbox,  *)
(* unless it was started twice.                                            *)
THEOREM ContinuationPendingTheorem == Spec => []ContinuationPending
<1>1. RouteInv => ContinuationPending
  BY DEF RouteInv, ContinuationPending, Remembered, StartedTwice
<1> QED BY <1>1, RouteInvariant, PTL

(* A parent in its first execution that waits for a child is going to hear *)
(* of it, unless the child continues as new or the runtime failed it.      *)
THEOREM AwaitedChildAnswersTheorem == Spec => []AwaitedChildAnswers
<1>1. RouteInv => AwaitedChildAnswers
  <2> SUFFICES ASSUME RouteInv, NEW i \in Instance, inst[i].status = "running",
                      NEW k \in Outstanding(inst[i]), inst[i].calls[k].kind = "child",
                      ~(inst[i].exec > 1)
               PROVE  Answering(i, k) \/ Child[<<i, k>>] \in abrupt \cup Continues
    BY DEF AwaitedChildAnswers
  <2>1. inst[i] \in Execution /\ (inst[i].status = "none" <=> inst[i].exec = 0)
    BY DEF RouteInv, LifeInv, TypeOK
  <2>2. inst[i].exec = 1
    BY <2>1, ExecNat
  <2>3. Awaiting(inst[i], k) /\ Heard(i, k)
    BY <2>2 DEF Awaiting, RouteInv
  <2> QED BY <2>3 DEF Heard
<1> QED BY <1>1, RouteInvariant, PTL
=============================================================================
