------------------------ MODULE WorkerQueue_proofs -------------------------
(***************************************************************************)
(* The safety properties of WorkerQueue, proved for every set of runtimes, *)
(* slots, sessions and tags and every value of the timeouts and limits.    *)
(* The inductive invariant is IndInv; the lemmas below say what each kind  *)
(* of step does to a row, a session or an item, and then that each step    *)
(* preserves it.                                                           *)
(***************************************************************************)
EXTENDS WorkerQueue, FiniteSetTheorems, TLAPS

----------------------------------------------------------------------------
(* Rows, sessions and items. *)

(* Counting down stays within the range of the counter. *)
LEMMA DecayFacts ==
    ASSUME NEW n \in Nat
    PROVE  /\ Decay(n) \in 0..n
           /\ n > 1 => Decay(n) > 0 /\ Decay(n) = n - 1
           /\ n <= 1 => Decay(n) = 0
BY DEF Decay

(* A fetched row is locked for LockTimeout under its new token. *)
LEMMA LeasedFacts ==
    ASSUME NEW r \in RowRecord, NEW t \in Token
    PROVE  /\ Leased(r, t) \in RowRecord
           /\ Leased(r, t).tok = t /\ Leased(r, t).left = LockTimeout
<1>1. LockTimeout \in Nat /\ LockTimeout > 0 /\ MaxAttempts \in Nat
  BY WorkerAssumption
<1>2. Leased(r, t).tok = t /\ Leased(r, t).left = LockTimeout
  BY DEF Leased, RowRecord
<1> DEFINE x == [r EXCEPT !.tok = t]
           y == [x EXCEPT !.left = LockTimeout]
<1>3. x \in RowRecord
  BY DEF RowRecord
<1>4. Leased(r, t) = [y EXCEPT !.att = Bump(@)]
  BY DEF Leased
<1> HIDE DEF x
<1>5. y \in RowRecord
  BY <1>1, <1>3 DEF RowRecord
<1> HIDE DEF y
<1>6. [y EXCEPT !.att = Bump(@)] \in RowRecord
  BY <1>1, <1>5 DEF RowRecord, Bump, Attempt
<1> QED BY <1>2, <1>4, <1>6

(* An abandoned row is unlocked. *)
LEMMA ReleasedFacts ==
    ASSUME NEW r \in RowRecord, NEW d \in 0..MaxDelay, NEW ig \in BOOLEAN
    PROVE  Released(r, d, ig) \in RowRecord /\ Released(r, d, ig).left = 0
<1>1. LockTimeout \in Nat /\ MaxAttempts \in Nat
  BY WorkerAssumption
<1>2. Released(r, d, ig).left = 0
  BY DEF Released, RowRecord
<1> DEFINE x == [r EXCEPT !.tok = NoToken]
           y == [x EXCEPT !.left = 0]
           z == [y EXCEPT !.hide = d]
<1>3. x \in RowRecord
  BY DEF RowRecord
<1>4. Released(r, d, ig) = [z EXCEPT !.att = IF ig THEN Decay(@) ELSE @]
  BY DEF Released
<1> HIDE DEF x
<1>5. y \in RowRecord
  BY <1>1, <1>3 DEF RowRecord
<1> HIDE DEF y
<1>6. z \in RowRecord
  BY <1>5 DEF RowRecord
<1> HIDE DEF z
<1>7. [z EXCEPT !.att = IF ig THEN Decay(@) ELSE @] \in RowRecord
  BY <1>1, <1>6 DEF RowRecord, Decay, Attempt
<1> QED BY <1>2, <1>4, <1>7

(* A renewed row keeps its token. *)
LEMMA ExtendedFacts ==
    ASSUME NEW r \in RowRecord
    PROVE  /\ Extended(r) \in RowRecord
           /\ Extended(r).tok = r.tok /\ Extended(r).left = LockTimeout
BY WorkerAssumption DEF Extended, RowRecord

(* Time shortens the lock of a row and leaves its token. *)
LEMMA AgedRowFacts ==
    ASSUME NEW r \in RowRecord
    PROVE  /\ AgedRow(r) \in RowRecord
           /\ AgedRow(r).tok = r.tok /\ AgedRow(r).left = Decay(r.left)
<1>1. r.left \in Nat /\ r.hide \in Nat /\ LockTimeout \in Nat /\ MaxDelay \in Nat
  BY WorkerAssumption DEF RowRecord
<1>2. Decay(r.left) \in 0..LockTimeout /\ Decay(r.hide) \in 0..MaxDelay
  BY <1>1 DEF Decay, RowRecord
<1> QED BY <1>1, <1>2 DEF AgedRow, RowRecord

(* Time shortens the lock and the idle time of a session. *)
LEMMA AgedSessionFacts ==
    ASSUME NEW x \in SessionRecord
    PROVE  /\ AgedSession(x) \in SessionRecord
           /\ AgedSession(x).owner = x.owner
           /\ AgedSession(x).left = Decay(x.left) /\ AgedSession(x).idle = Decay(x.idle)
<1>1. x.left \in Nat /\ x.idle \in Nat /\ SessionTimeout \in Nat /\ IdleTimeout \in Nat
  BY WorkerAssumption DEF SessionRecord
<1>2. Decay(x.left) \in 0..SessionTimeout /\ Decay(x.idle) \in 0..IdleTimeout
  BY <1>1 DEF Decay, SessionRecord
<1> QED BY <1>1, <1>2 DEF AgedSession, SessionRecord

(* The flags of an item do not concern its row, session and token. *)
LEMMA FlagFacts ==
    ASSUME NEW x \in Item, NEW b \in BOOLEAN
    PROVE  /\ Renewing(x, b) \in Item /\ Signalled(x) \in Item
           /\ Renewing(x, b).row = x.row /\ Renewing(x, b).sess = x.sess
           /\ Renewing(x, b).tok = x.tok /\ Renewing(x, b).renewing = b
           /\ Signalled(x).row = x.row /\ Signalled(x).sess = x.sess
           /\ Signalled(x).tok = x.tok /\ Signalled(x).renewing = FALSE
BY DEF Renewing, Signalled, Item

(* A slot without an item refers to no row. *)
LEMMA NoItemFacts == NoItem \in Item /\ NoItem.row = NoRow /\ NoRow \notin Row
BY WorkerAssumption DEF NoItem, Item, NoRow, Row, NoToken, Attempt

(* generate_lock_token returns a token nobody refers to. *)
LEMMA FreshFacts ==
    ASSUME NEW a, FreeTokens(a) # {}
    PROVE  /\ FreshToken(a) \in Token
           /\ FreshToken(a) # queue[a].tok
           /\ \A w \in Worker : item[w].row = a => FreshToken(a) # item[w].tok
<1>1. FreshToken(a) \in FreeTokens(a)
  BY DEF FreshToken
<1> QED BY <1>1 DEF FreeTokens, TokensOf

(* Touching a session keeps its owner and its lock, and never brings the   *)
(* end of its idle time nearer.                                            *)
LEMMA TouchFacts ==
    ASSUME NEW s, Touch(s), sessions \in [DOMAIN sessions -> SessionRecord]
    PROVE  /\ DOMAIN sessions' = DOMAIN sessions
           /\ sessions' \in [DOMAIN sessions -> SessionRecord]
           /\ \A r \in DOMAIN sessions :
                 /\ sessions'[r].owner = sessions[r].owner
                 /\ sessions'[r].left = sessions[r].left
                 /\ sessions'[r].idle >= sessions[r].idle
                 /\ r = s /\ SessionHeld(s) => sessions'[r].idle = IdleTimeout
<1>1. IdleTimeout \in Nat
  BY WorkerAssumption
<1>2. ASSUME NEW x \in SessionRecord
      PROVE  /\ Touched(x) \in SessionRecord
             /\ Touched(x).owner = x.owner /\ Touched(x).left = x.left
             /\ Touched(x).idle = IdleTimeout
             /\ x.idle \in Nat /\ IdleTimeout >= x.idle
  BY <1>1 DEF SessionRecord, Touched
<1> QED BY <1>1, <1>2 DEF Touch

----------------------------------------------------------------------------
(* Parts of the invariant that a step leaves alone. *)

(* The session owner of a slot depends only on the epochs. *)
LEMMA OwnerFrame ==
    ASSUME UNCHANGED epoch, NEW w \in Worker
    PROVE  Owner(w)' = Owner(w)
BY DEF Owner

(* Nothing is reported, dropped, cancelled or deleted: the account stays. *)
LEMMA AccountFrame ==
    ASSUME \A a \in Row : Accounted(a), DOMAIN queue' = DOMAIN queue,
           UNCHANGED <<reported, dropped, cancelled, nextRow>>
    PROVE  (\A a \in Row : Accounted(a))'
BY DEF Accounted

(* A slot that changes its item to one of the same row and token, or to    *)
(* none, keeps the tokens apart.                                           *)
LEMMA TokenFrame ==
    ASSUME item \in [Worker -> Item], TokensApart, NEW w \in Worker, NEW x \in Item,
           item' = [item EXCEPT ![w] = x],
           x.row = NoRow \/ (x.row = item[w].row /\ x.tok = item[w].tok)
    PROVE  TokensApart'
BY DEF TokensApart

(* Rows and sessions as they are: a slot that keeps or loses its item      *)
(* disturbs no pinned session.                                             *)
LEMMA PinFrame ==
    ASSUME item \in [Worker -> Item], SessionsPinned, NEW w \in Worker, NEW x \in Item,
           DOMAIN queue \subseteq Row,
           item' = [item EXCEPT ![w] = x],
           x.row = NoRow \/ (x.row = item[w].row /\ x.tok = item[w].tok /\ x.sess = item[w].sess),
           managing' \subseteq managing, UNCHANGED <<queue, sessions, epoch>>
    PROVE  SessionsPinned'
<1> SUFFICES ASSUME NEW v \in Worker, HoldsValid(v)', (item[v].sess # NoSession)',
                    (Host[v] \in managing)'
             PROVE  Pinned(v)'
  BY DEF SessionsPinned
<1>1. item'[v].row = item[v].row /\ item'[v].tok = item[v].tok /\ item'[v].sess = item[v].sess
  BY NoItemFacts DEF HoldsValid, Holds
<1>2. Pinned(v)
  BY <1>1 DEF SessionsPinned, HoldsValid, Holds
<1> QED BY <1>1, <1>2, OwnerFrame DEF Pinned, SessionHeld

----------------------------------------------------------------------------
(* Each step preserves the invariant. *)

(* Poll, FetchNone, Guard, Overflow, DropGuard, Stop: only the stage of    *)
(* one slot changes.                                                       *)
LEMMA QuietStep ==
    ASSUME IndInv, pc' \in [Worker -> Stage],
           UNCHANGED <<queue, sessions, item, managing, epoch, reported, dropped,
                       cancelled, starts, nextRow, faults>>
    PROVE  IndInv'
BY DEF IndInv, TypeOK, Accounted, TokensApart, SessionsPinned, HoldsValid, Holds,
       Pinned, SessionHeld, Owner

(* Start, Finish, RenewError, Stall and a failed Renew: one slot changes   *)
(* the flags of its item; Poison with its ack refused: it loses it.        *)
LEMMA ItemStep ==
    ASSUME IndInv, NEW w \in Worker, NEW x \in Item,
           x.row = NoRow \/ (x.row = item[w].row /\ x.tok = item[w].tok /\ x.sess = item[w].sess),
           item' = [item EXCEPT ![w] = x],
           pc' \in [Worker -> Stage], starts' \in [Row -> Nat], faults' \in 0..MaxFaults,
           UNCHANGED <<queue, sessions, managing, epoch, reported, dropped,
                       cancelled, nextRow>>
    PROVE  IndInv'
<1>1. TypeOK'
  BY DEF IndInv, TypeOK
<1>2. (\A a \in Row : Accounted(a))'
  BY AccountFrame DEF IndInv
<1>3. TokensApart'
  BY TokenFrame DEF IndInv, TypeOK
<1>4. SessionsPinned'
  BY PinFrame DEF IndInv, TypeOK
<1> QED BY <1>1, <1>2, <1>3, <1>4 DEF IndInv

(* GiveBack, Unregistered, AbandonFailed: the row is unlocked, if it still *)
(* carries the token of the slot.                                          *)
LEMMA AbandonStep ==
    ASSUME IndInv, NEW w \in Worker, NEW d \in 1..MaxDelay, NEW ig \in BOOLEAN,
           Abandon(w, d, ig), Idle(w),
           UNCHANGED <<sessions, managing, epoch, reported, dropped, cancelled,
                       starts, nextRow, faults>>
    PROVE  IndInv'
<1>1. DOMAIN queue' = DOMAIN queue /\ d \in 0..MaxDelay
  BY DEF Abandon
<1>2. \A a \in DOMAIN queue :
        \/ queue'[a] = queue[a]
        \/ queue'[a] \in RowRecord /\ queue'[a].left = 0
  BY <1>1, ReleasedFacts DEF Abandon, IndInv, TypeOK
<1>3. TypeOK'
  <2>1. queue' \in [DOMAIN queue' -> RowRecord] /\ DOMAIN queue' \subseteq Row
    BY <1>1, <1>2 DEF Abandon, IndInv, TypeOK
  <2> QED BY <2>1, NoItemFacts DEF Idle, IndInv, TypeOK, Stage
<1>4. (\A a \in Row : Accounted(a))'
  BY <1>1, AccountFrame DEF IndInv
<1>5. TokensApart'
  BY TokenFrame, NoItemFacts DEF IndInv, TypeOK, Idle
<1>6. SessionsPinned'
  <2> SUFFICES ASSUME NEW v \in Worker, HoldsValid(v)', (item[v].sess # NoSession)',
                      (Host[v] \in managing)'
               PROVE  Pinned(v)'
    BY DEF SessionsPinned
  <2>1. item'[v] = item[v]
    BY NoItemFacts, <1>1 DEF HoldsValid, Holds, Idle, IndInv, TypeOK
  <2>2. queue'[item[v].row] = queue[item[v].row]
    BY <1>1, <1>2, <2>1 DEF HoldsValid, Holds
  <2>3. Pinned(v)
    BY <1>1, <2>1, <2>2 DEF IndInv, SessionsPinned, HoldsValid, Holds
  <2> QED BY <2>1, <2>2, <2>3, OwnerFrame DEF Pinned, SessionHeld
<1> QED BY <1>3, <1>4, <1>5, <1>6 DEF IndInv

(* ack_work_item with or without a completion: the row leaves the queue    *)
(* with the one reason for which it does.                                  *)
LEMMA AckStep ==
    ASSUME IndInv, NEW w \in Worker, AckCommit(w, item[w].row), Idle(w),
           \/ /\ reported' = [reported EXCEPT ![item[w].row] = @ + 1]
              /\ UNCHANGED dropped
           \/ /\ dropped' = dropped \cup {item[w].row}
              /\ UNCHANGED reported,
           UNCHANGED <<managing, epoch, cancelled, starts, nextRow, faults>>
    PROVE  IndInv'
<1> DEFINE a == item[w].row
<1>1. a \in DOMAIN queue /\ a \in Row
  BY DEF AckCommit, HoldsValid, Holds, IndInv, TypeOK
<1>2. queue' = [b \in (DOMAIN queue) \ {a} |-> queue[b]]
  BY DEF AckCommit, Delete
<1>3. /\ DOMAIN sessions' = DOMAIN sessions
      /\ sessions' \in [DOMAIN sessions -> SessionRecord]
      /\ \A r \in DOMAIN sessions :
            /\ sessions'[r].owner = sessions[r].owner
            /\ sessions'[r].left = sessions[r].left
            /\ sessions'[r].idle >= sessions[r].idle
  <2> DEFINE s == item[w].sess
  <2>1. Touch(s) /\ sessions \in [DOMAIN sessions -> SessionRecord]
    BY DEF AckCommit, IndInv, TypeOK
  <2> HIDE DEF s
  <2> QED BY <2>1, TouchFacts
<1>4. TypeOK'
  BY <1>1, <1>2, <1>3, NoItemFacts DEF Idle, IndInv, TypeOK, Stage
<1>5. (\A b \in Row : Accounted(b))'
  <2> SUFFICES ASSUME NEW b \in Row PROVE Accounted(b)'
    OBVIOUS
  <2>1. Accounted(b) /\ Accounted(a) /\ reported \in [Row -> Nat] /\ a \in Row
    BY <1>1 DEF IndInv, TypeOK
  <2>2. DOMAIN queue' = (DOMAIN queue) \ {a}
    BY <1>2
  <2>3. CASE b # a
    <3>1. reported'[b] = reported[b] /\ (b \in dropped' <=> b \in dropped)
      BY <2>1, <2>3
    <3> QED BY <2>1, <2>2, <2>3, <3>1 DEF Accounted
  <2>4. CASE b = a
    <3>1. reported[b] = 0 /\ b \notin dropped /\ b < nextRow /\ b \notin cancelled
      BY <1>1, <2>1, <2>4 DEF Accounted
    <3>2. \/ reported'[b] = 1 /\ b \notin dropped'
          \/ reported'[b] = 0 /\ b \in dropped'
      BY <2>1, <2>4, <3>1
    <3>3. ~(b \in DOMAIN queue' \/ b >= nextRow')
      BY <2>2, <2>4, <3>1 DEF IndInv, TypeOK, Row
    <3> QED BY <3>1, <3>2, <3>3 DEF Accounted
  <2> QED BY <2>3, <2>4
<1>6. TokensApart'
  BY TokenFrame, NoItemFacts DEF IndInv, TypeOK, Idle
<1>7. SessionsPinned'
  <2> SUFFICES ASSUME NEW v \in Worker, HoldsValid(v)', (item[v].sess # NoSession)',
                      (Host[v] \in managing)'
               PROVE  Pinned(v)'
    BY DEF SessionsPinned
  <2>1. item'[v] = item[v]
    BY NoItemFacts, <1>2 DEF HoldsValid, Holds, Idle, IndInv, TypeOK
  <2>2. item[v].row \in DOMAIN queue /\ queue'[item[v].row] = queue[item[v].row]
    BY <1>2, <2>1 DEF HoldsValid, Holds
  <2>3. Pinned(v)
    BY <2>1, <2>2 DEF IndInv, SessionsPinned, HoldsValid, Holds
  <2>4. /\ item[v].sess \in DOMAIN sessions
        /\ sessions[item[v].sess].idle \in Nat /\ sessions'[item[v].sess].idle \in Nat
        /\ queue[item[v].row].left \in Nat
    BY <1>3, <2>2, <2>3 DEF Pinned, SessionHeld, IndInv, TypeOK, SessionRecord, RowRecord
  <2> QED BY <1>3, <2>1, <2>2, <2>3, <2>4, OwnerFrame DEF Pinned, SessionHeld
<1> QED BY <1>4, <1>5, <1>6, <1>7 DEF IndInv

(* A lock is renewed: the other slots that refer to the row hold other     *)
(* tokens, and the session is touched with it.                             *)
LEMMA RenewStep ==
    ASSUME IndInv, NEW w \in Worker, HoldsValid(w), Touch(item[w].sess),
           queue' = [queue EXCEPT ![item[w].row] = Extended(@)],
           UNCHANGED <<item, pc, managing, epoch, reported, dropped, cancelled, starts,
                       nextRow, faults>>
    PROVE  IndInv'
<1> DEFINE a == item[w].row
<1>1. a \in DOMAIN queue /\ a \in Row /\ queue[a] \in RowRecord
  BY DEF HoldsValid, Holds, IndInv, TypeOK
<1>2. /\ DOMAIN queue' = DOMAIN queue
      /\ queue'[a] \in RowRecord /\ queue'[a].left = LockTimeout
      /\ \A b \in DOMAIN queue : b # a => queue'[b] = queue[b]
  BY <1>1, ExtendedFacts
<1>3. /\ DOMAIN sessions' = DOMAIN sessions
      /\ sessions' \in [DOMAIN sessions -> SessionRecord]
      /\ \A r \in DOMAIN sessions :
            /\ sessions'[r].owner = sessions[r].owner
            /\ sessions'[r].left = sessions[r].left
            /\ sessions'[r].idle >= sessions[r].idle
            /\ r = item[w].sess /\ SessionHeld(r) => sessions'[r].idle = IdleTimeout
  <2> DEFINE s == item[w].sess
  <2>1. Touch(s) /\ sessions \in [DOMAIN sessions -> SessionRecord]
    BY DEF IndInv, TypeOK
  <2> HIDE DEF s
  <2> QED BY <2>1, TouchFacts DEF s
<1>4. TypeOK'
  BY <1>1, <1>2, <1>3 DEF IndInv, TypeOK
<1>5. (\A b \in Row : Accounted(b))'
  BY <1>2, AccountFrame DEF IndInv
<1>6. TokensApart'
  BY DEF IndInv, TokensApart
<1>7. SessionsPinned'
  <2> SUFFICES ASSUME NEW v \in Worker, HoldsValid(v)', (item[v].sess # NoSession)',
                      (Host[v] \in managing)'
               PROVE  Pinned(v)'
    BY DEF SessionsPinned
  <2>1. v = w \/ item[v].row # a
    <3> SUFFICES ASSUME v # w, item[v].row = a PROVE FALSE
      OBVIOUS
    <3>1. item[v].tok = item[w].tok
      <4>1. queue'[a].tok = queue[a].tok
        BY <1>1, ExtendedFacts
      <4> QED BY <4>1 DEF HoldsValid, Holds
    <3>2. a # NoRow
      BY <1>1, NoItemFacts
    <3> QED BY <3>1, <3>2 DEF IndInv, TokensApart
  <2>2. HoldsValid(v)
    BY <1>2, <2>1 DEF HoldsValid, Holds
  <2>3. Pinned(v)
    BY <2>2 DEF IndInv, SessionsPinned
  <2>4. /\ item[v].sess \in DOMAIN sessions
        /\ sessions[item[v].sess].idle \in Nat /\ sessions'[item[v].sess].idle \in Nat
        /\ queue[item[v].row].left \in Nat
    BY <1>3, <2>2, <2>3 DEF Pinned, SessionHeld, HoldsValid, Holds, IndInv, TypeOK,
                            SessionRecord, RowRecord
  <2>5. sessions'[item[v].sess].idle >= queue'[item[v].row].left
    <3>1. CASE v = w
      <4>1. sessions'[item[w].sess].idle = IdleTimeout
        BY <1>3, <2>3, <2>4, <3>1 DEF Pinned
      <4> QED BY <1>2, <4>1, <3>1, WorkerAssumption
    <3>2. CASE item[v].row # a
      <4>1. queue'[item[v].row] = queue[item[v].row]
        BY <1>2, <2>2, <3>2 DEF HoldsValid, Holds
      <4>2. sessions[item[v].sess].idle >= queue[item[v].row].left
        BY <2>3 DEF Pinned
      <4> QED BY <1>3, <2>4, <4>1, <4>2
    <3> QED BY <2>1, <3>1, <3>2
  <2> QED BY <1>3, <2>3, <2>4, <2>5, OwnerFrame DEF Pinned, SessionHeld
<1> QED BY <1>4, <1>5, <1>6, <1>7 DEF IndInv

(* fetch_work_item: the row is locked under a token nobody refers to, and  *)
(* its session is claimed by a slot that no other owner excludes.          *)
LEMMA FetchStep ==
    ASSUME IndInv, NEW w \in Worker, Fetch(w)
    PROVE  IndInv'
<1>1. PICK a \in Candidates(w) :
          /\ FreeTokens(a) # {}
          /\ queue' = [queue EXCEPT ![a] = Leased(@, FreshToken(a))]
          /\ Claim(w, queue[a].sess)
          /\ item' = [item EXCEPT ![w] =
                [row |-> a, sess |-> queue[a].sess, tok |-> FreshToken(a),
                 att |-> Bump(queue[a].att), renewing |-> FALSE, signalled |-> FALSE]]
          /\ pc' = [pc EXCEPT ![w] =
                IF queue[a].sess = NoSession THEN "guarded" ELSE "fetched"]
  BY DEF Fetch
<1>2. UNCHANGED <<managing, epoch, reported, dropped, cancelled, starts, nextRow, faults>>
  BY DEF Fetch
<1> DEFINE s == queue[a].sess
           t == FreshToken(a)
           x == [row |-> a, sess |-> s, tok |-> t, att |-> Bump(queue[a].att),
                 renewing |-> FALSE, signalled |-> FALSE]
<1>3. a \in DOMAIN queue /\ a \in Row /\ queue[a] \in RowRecord /\ queue[a].left = 0
  BY DEF Candidates, IndInv, TypeOK
<1>4. s \in Session \cup {NoSession} /\ (s # NoSession => Claimable(w, s))
  BY <1>3 DEF Candidates, RowRecord
<1>5. /\ t \in Token
      /\ \A v \in Worker : item[v].row = a => t # item[v].tok
  BY <1>1, FreshFacts
<1>6. x \in Item
  <2>1. Bump(queue[a].att) \in Attempt
    BY <1>3, WorkerAssumption DEF RowRecord, Bump, Attempt
  <2> QED BY <1>3, <1>4, <1>5, <2>1 DEF Item
<1>7. /\ DOMAIN queue' = DOMAIN queue
      /\ queue'[a] \in RowRecord /\ queue'[a].tok = t /\ queue'[a].left = LockTimeout
      /\ \A b \in DOMAIN queue : b # a => queue'[b] = queue[b]
  BY <1>1, <1>3, <1>5, LeasedFacts
<1>8. /\ item'[w] = x /\ item'[w].row = a /\ item'[w].tok = t /\ item'[w].sess = s
      /\ \A v \in Worker : v # w => item'[v] = item[v]
  BY <1>1 DEF IndInv, TypeOK
<1>9. /\ s = NoSession => sessions' = sessions
      /\ s # NoSession =>
           /\ DOMAIN sessions' = DOMAIN sessions \cup {s}
           /\ sessions'[s] = [owner |-> Owner(w), left |-> SessionTimeout, idle |-> IdleTimeout]
           /\ \A r \in DOMAIN sessions : r # s => sessions'[r] = sessions[r]
           /\ sessions' = [r \in DOMAIN sessions' |-> sessions'[r]]
  BY <1>1 DEF Claim
<1>10. Owner(w) \in OwnerId
  BY WorkerAssumption DEF Owner, OwnerId, IndInv, TypeOK
<1>11. TypeOK'
  <2>1. DOMAIN sessions' \subseteq Session /\ sessions' \in [DOMAIN sessions' -> SessionRecord]
    <3>1. CASE s = NoSession
      BY <1>9, <3>1 DEF IndInv, TypeOK
    <3>2. CASE s # NoSession
      <4>1. sessions'[s] \in SessionRecord
        BY <1>9, <1>10, <3>2, WorkerAssumption DEF SessionRecord
      <4>2. \A r \in DOMAIN sessions' : sessions'[r] \in SessionRecord
        BY <1>9, <3>2, <4>1 DEF IndInv, TypeOK
      <4> QED BY <1>4, <1>9, <3>2, <4>2 DEF IndInv, TypeOK
    <3> QED BY <3>1, <3>2
  <2>2. DOMAIN queue' \subseteq Row /\ queue' \in [DOMAIN queue' -> RowRecord]
    BY <1>1, <1>7 DEF IndInv, TypeOK
  <2>3. item' \in [Worker -> Item] /\ pc' \in [Worker -> Stage]
    BY <1>1, <1>6 DEF IndInv, TypeOK, Stage
  <2> QED BY <1>2, <2>1, <2>2, <2>3 DEF IndInv, TypeOK
<1>12. (\A b \in Row : Accounted(b))'
  BY <1>2, <1>7, AccountFrame DEF IndInv
<1>13. TokensApart'
  BY <1>5, <1>8 DEF IndInv, TokensApart
<1>14. SessionsPinned'
  <2> SUFFICES ASSUME NEW v \in Worker, HoldsValid(v)', (item[v].sess # NoSession)',
                      (Host[v] \in managing)'
               PROVE  Pinned(v)'
    BY DEF SessionsPinned
  <2>0. Owner(v)' = Owner(v) /\ Owner(w)' = Owner(w)
    BY <1>2, OwnerFrame
  <2>1. CASE v = w
    <3>1. s # NoSession
      BY <1>8, <2>1
    <3>2. /\ sessions'[s].owner = Owner(w) /\ sessions'[s].left = SessionTimeout
          /\ sessions'[s].idle = IdleTimeout /\ s \in DOMAIN sessions'
      BY <1>9, <3>1
    <3> QED BY <1>7, <1>8, <2>0, <2>1, <3>2, WorkerAssumption DEF Pinned, SessionHeld
  <2>2. CASE v # w
    <3>1. item'[v] = item[v] /\ item[v].row \in DOMAIN queue
      BY <1>7, <1>8, <2>2 DEF HoldsValid, Holds
    <3>2. item[v].row # a
      BY <1>5, <1>7, <3>1 DEF HoldsValid, Holds
    <3>3. queue'[item[v].row] = queue[item[v].row]
      BY <1>7, <3>1, <3>2
    <3>4. Pinned(v)
      BY <1>2, <3>1, <3>3 DEF IndInv, SessionsPinned, HoldsValid, Holds
    <3>5. CASE s = NoSession \/ item[v].sess # s
      <4>1. /\ item[v].sess \in DOMAIN sessions'
            /\ sessions'[item[v].sess] = sessions[item[v].sess]
        BY <1>9, <3>4, <3>5 DEF Pinned, SessionHeld
      <4> QED BY <2>0, <3>1, <3>3, <3>4, <4>1 DEF Pinned, SessionHeld
    <3>6. CASE s # NoSession /\ item[v].sess = s
      <4>1. Owner(v) = Owner(w)
        BY <1>4, <3>4, <3>6 DEF Pinned, Claimable
      <4>2. /\ sessions'[s].owner = Owner(w) /\ sessions'[s].left = SessionTimeout
            /\ sessions'[s].idle = IdleTimeout /\ s \in DOMAIN sessions'
        BY <1>9, <3>6
      <4>3. queue[item[v].row].left \in 0..LockTimeout
        BY <3>1 DEF IndInv, TypeOK, RowRecord
      <4> QED BY <2>0, <3>1, <3>3, <3>6, <4>1, <4>2, <4>3, WorkerAssumption
              DEF Pinned, SessionHeld
    <3> QED BY <3>5, <3>6
  <2> QED BY <2>1, <2>2
<1> QED BY <1>11, <1>12, <1>13, <1>14 DEF IndInv

(* ack_orchestration_item schedules an activity: its row is unlocked. *)
LEMMA ScheduleStep ==
    ASSUME IndInv, NEW s \in Session \cup {NoSession}, NEW g \in Tag, Schedule(s, g)
    PROVE  IndInv'
<1>1. nextRow \in Row /\ nextRow' = nextRow + 1 /\ MaxRows \in Nat
  BY WorkerAssumption DEF Schedule, IndInv, TypeOK, Row
<1>2. NewRow(s, g) \in RowRecord /\ NewRow(s, g).left = 0
  BY WorkerAssumption DEF NewRow, RowRecord, NoToken, Attempt
<1>3. nextRow \notin DOMAIN queue
  BY <1>1 DEF IndInv, Accounted, TypeOK
<1>4. /\ DOMAIN queue' = DOMAIN queue \cup {nextRow}
      /\ queue'[nextRow] = NewRow(s, g)
      /\ \A b \in DOMAIN queue : queue'[b] = queue[b]
      /\ queue' = [b \in DOMAIN queue' |-> queue'[b]]
  BY <1>3 DEF Schedule
<1>5. UNCHANGED <<sessions, pc, item, managing, epoch, reported, dropped,
                  cancelled, starts, faults>>
  BY DEF Schedule
<1>6. TypeOK'
  <2>1. \A b \in DOMAIN queue' : queue'[b] \in RowRecord
    BY <1>2, <1>4 DEF IndInv, TypeOK
  <2>2. DOMAIN queue' \subseteq Row /\ queue' \in [DOMAIN queue' -> RowRecord]
    BY <1>1, <1>4, <2>1 DEF IndInv, TypeOK
  <2>3. nextRow' \in 1..(MaxRows + 1)
    BY <1>1 DEF Row
  <2> QED BY <1>5, <2>2, <2>3 DEF IndInv, TypeOK
<1>7. (\A b \in Row : Accounted(b))'
  BY <1>1, <1>4, <1>5 DEF IndInv, Accounted, TypeOK, Row
<1>8. TokensApart'
  BY <1>5 DEF IndInv, TokensApart
<1>9. SessionsPinned'
  <2> SUFFICES ASSUME NEW v \in Worker, HoldsValid(v)', (item[v].sess # NoSession)',
                      (Host[v] \in managing)'
               PROVE  Pinned(v)'
    BY DEF SessionsPinned
  <2>1. item[v].row \in DOMAIN queue /\ queue'[item[v].row] = queue[item[v].row]
    BY <1>2, <1>4, <1>5 DEF HoldsValid, Holds
  <2>2. Pinned(v)
    BY <1>5, <2>1 DEF IndInv, SessionsPinned, HoldsValid, Holds
  <2> QED BY <1>5, <2>1, <2>2, OwnerFrame DEF Pinned, SessionHeld
<1> QED BY <1>6, <1>7, <1>8, <1>9 DEF IndInv

(* ack_orchestration_item steals the lock of a cancelled activity. *)
LEMMA CancelStep ==
    ASSUME IndInv, NEW a \in Row, Cancel(a)
    PROVE  IndInv'
<1>1. queue' = [b \in (DOMAIN queue) \ {a} |-> queue[b]] /\ a < nextRow
  BY DEF Cancel, Delete
<1>2. UNCHANGED <<sessions, pc, item, managing, epoch, reported, dropped,
                  starts, nextRow, faults>> /\ cancelled' = cancelled \cup {a}
  BY DEF Cancel
<1>3. TypeOK'
  BY <1>1, <1>2 DEF IndInv, TypeOK
<1>4. (\A b \in Row : Accounted(b))'
  BY <1>1, <1>2 DEF IndInv, Accounted, TypeOK, Row
<1>5. TokensApart'
  BY <1>2 DEF IndInv, TokensApart
<1>6. SessionsPinned'
  <2> SUFFICES ASSUME NEW v \in Worker, HoldsValid(v)', (item[v].sess # NoSession)',
                      (Host[v] \in managing)'
               PROVE  Pinned(v)'
    BY DEF SessionsPinned
  <2>1. item[v].row \in DOMAIN queue /\ queue'[item[v].row] = queue[item[v].row]
    BY <1>1, <1>2 DEF HoldsValid, Holds
  <2>2. Pinned(v)
    BY <1>2, <2>1 DEF IndInv, SessionsPinned, HoldsValid, Holds
  <2> QED BY <1>2, <2>1, <2>2, OwnerFrame DEF Pinned, SessionHeld
<1> QED BY <1>3, <1>4, <1>5, <1>6 DEF IndInv

(* The session manager renews what its runtime owns, and removes only      *)
(* expired sessions, which pin nothing.                                    *)
LEMMA SessionManagerStep ==
    ASSUME IndInv, NEW h \in Runtime, RenewSessions(h) \/ CleanupSessions(h)
    PROVE  IndInv'
<1>1. UNCHANGED <<queue, pc, item, managing, epoch, reported, dropped,
                  cancelled, starts, nextRow, faults>>
  BY DEF RenewSessions, CleanupSessions
<1>2. /\ DOMAIN sessions' \subseteq DOMAIN sessions
      /\ sessions' = [r \in DOMAIN sessions' |-> sessions'[r]]
      /\ \A r \in DOMAIN sessions : sessions[r].left > 0 => r \in DOMAIN sessions'
      /\ \A r \in DOMAIN sessions' :
            /\ sessions'[r] \in SessionRecord
            /\ sessions'[r].owner = sessions[r].owner
            /\ sessions'[r].idle = sessions[r].idle
            /\ sessions[r].left > 0 => sessions'[r].left > 0
  <2>0. /\ sessions \in [DOMAIN sessions -> SessionRecord]
        /\ SessionTimeout \in Nat /\ SessionTimeout > 0
    BY WorkerAssumption DEF IndInv, TypeOK
  <2>1. CASE RenewSessions(h)
    <3>1. ASSUME NEW x \in SessionRecord
          PROVE  /\ Prolonged(x) \in SessionRecord /\ Prolonged(x).owner = x.owner
                 /\ Prolonged(x).idle = x.idle /\ Prolonged(x).left = SessionTimeout
      BY <2>0 DEF Prolonged, SessionRecord
    <3> QED BY <2>0, <2>1, <3>1 DEF RenewSessions
  <2>2. CASE CleanupSessions(h)
    BY <2>0, <2>2 DEF CleanupSessions, Orphaned
  <2> QED BY <2>1, <2>2
<1>3. TypeOK'
  BY <1>1, <1>2 DEF IndInv, TypeOK
<1>4. (\A b \in Row : Accounted(b))'
  BY <1>1, AccountFrame DEF IndInv
<1>5. TokensApart'
  BY <1>1 DEF IndInv, TokensApart
<1>6. SessionsPinned'
  <2> SUFFICES ASSUME NEW v \in Worker, HoldsValid(v)', (item[v].sess # NoSession)',
                      (Host[v] \in managing)'
               PROVE  Pinned(v)'
    BY DEF SessionsPinned
  <2>1. Pinned(v)
    BY <1>1 DEF IndInv, SessionsPinned, HoldsValid, Holds
  <2> QED BY <1>1, <1>2, <2>1, OwnerFrame DEF Pinned, SessionHeld
<1> QED BY <1>3, <1>4, <1>5, <1>6 DEF IndInv

(* A session manager that stops makes fewer promises. *)
LEMMA StopManagingStep ==
    ASSUME IndInv, NEW h \in Runtime, StopManaging(h)
    PROVE  IndInv'
<1>1. faults' \in 0..MaxFaults
  BY WorkerAssumption DEF StopManaging, Fault, IndInv, TypeOK
<1>2. TypeOK' /\ (\A b \in Row : Accounted(b))' /\ TokensApart'
  BY <1>1, AccountFrame DEF StopManaging, IndInv, TypeOK, TokensApart
<1>3. SessionsPinned'
  BY OwnerFrame DEF StopManaging, IndInv, SessionsPinned, HoldsValid, Holds, Pinned, SessionHeld
<1> QED BY <1>2, <1>3 DEF IndInv

(* After a crash the slots of the runtime refer to nothing. *)
LEMMA CrashStep ==
    ASSUME IndInv, NEW h \in Runtime, Crash(h)
    PROVE  IndInv'
<1>1. UNCHANGED <<queue, sessions, reported, dropped, cancelled, starts, nextRow>>
  BY DEF Crash
<1>2. faults' \in 0..MaxFaults
  BY WorkerAssumption DEF Crash, Fault, IndInv, TypeOK
<1>3. \A w \in Worker :
        \/ Host[w] = h /\ item'[w].row = NoRow
        \/ Host[w] # h /\ item'[w] = item[w] /\ Owner(w)' = Owner(w)
  BY NoItemFacts, WorkerAssumption DEF Crash, Owner, IndInv, TypeOK
<1>4. TypeOK'
  BY <1>1, <1>2, NoItemFacts DEF Crash, IndInv, TypeOK, Stage
<1>5. (\A b \in Row : Accounted(b))'
  BY <1>1, AccountFrame DEF IndInv
<1>6. TokensApart'
  BY <1>3 DEF IndInv, TokensApart
<1>7. SessionsPinned'
  <2> SUFFICES ASSUME NEW v \in Worker, HoldsValid(v)', (item[v].sess # NoSession)',
                      (Host[v] \in managing)'
               PROVE  Pinned(v)'
    BY DEF SessionsPinned
  <2>1. Host[v] # h /\ item'[v] = item[v] /\ Owner(v)' = Owner(v)
    BY <1>1, <1>3, NoItemFacts DEF HoldsValid, Holds, IndInv, TypeOK
  <2>2. Host[v] \in managing
    BY <2>1 DEF Crash
  <2>3. Pinned(v)
    BY <1>1, <2>1, <2>2 DEF IndInv, SessionsPinned, HoldsValid, Holds
  <2> QED BY <1>1, <2>1, <2>3 DEF Pinned, SessionHeld
<1> QED BY <1>4, <1>5, <1>6, <1>7 DEF IndInv

(* The clock: a session that pins an item cannot expire before the item's  *)
(* lock does, because it is not idle and so its manager has to renew it.   *)
LEMMA TickStep ==
    ASSUME IndInv, Tick
    PROVE  IndInv'
<1>1. UNCHANGED <<pc, item, managing, epoch, reported, dropped, cancelled, starts, nextRow>>
  BY DEF Tick
<1>2. /\ queue' = [a \in DOMAIN queue |-> AgedRow(queue[a])]
      /\ sessions' = [s \in DOMAIN sessions |-> AgedSession(sessions[s])]
      /\ ~RenewalDue
  BY DEF Tick
<1>3. /\ queue \in [DOMAIN queue -> RowRecord] /\ sessions \in [DOMAIN sessions -> SessionRecord]
      /\ DOMAIN queue' = DOMAIN queue /\ DOMAIN sessions' = DOMAIN sessions
  BY <1>2 DEF IndInv, TypeOK
<1>4. faults' \in 0..MaxFaults
  BY WorkerAssumption DEF Tick, Fault, IndInv, TypeOK
<1>5. TypeOK'
  <2>1. \A a \in DOMAIN queue : AgedRow(queue[a]) \in RowRecord
    BY <1>3, AgedRowFacts
  <2>2. \A s \in DOMAIN sessions : AgedSession(sessions[s]) \in SessionRecord
    BY <1>3, AgedSessionFacts
  <2> QED BY <1>1, <1>2, <1>4, <2>1, <2>2 DEF IndInv, TypeOK
<1>6. (\A b \in Row : Accounted(b))'
  BY <1>1, <1>3, AccountFrame DEF IndInv
<1>7. TokensApart'
  BY <1>1 DEF IndInv, TokensApart
<1>8. SessionsPinned'
  <2> SUFFICES ASSUME NEW v \in Worker, HoldsValid(v)', (item[v].sess # NoSession)',
                      (Host[v] \in managing)'
               PROVE  Pinned(v)'
    BY DEF SessionsPinned
  <2> DEFINE a == item[v].row
             s == item[v].sess
  <2>1. a \in DOMAIN queue /\ queue[a] \in RowRecord /\ queue'[a] = AgedRow(queue[a])
    BY <1>1, <1>2, <1>3 DEF HoldsValid, Holds
  <2>2. queue[a].left \in Nat /\ queue[a].left > 1 /\ queue'[a].left = queue[a].left - 1
    <3>1. queue[a].left \in Nat
      BY <2>1 DEF RowRecord
    <3>2. Decay(queue[a].left) > 0
      BY <1>1, <2>1, AgedRowFacts DEF HoldsValid
    <3> QED BY <2>1, <3>1, <3>2, AgedRowFacts, DecayFacts
  <2>3. Pinned(v)
    BY <1>1, <2>1, <2>2, AgedRowFacts DEF IndInv, SessionsPinned, HoldsValid, Holds
  <2>4. s \in DOMAIN sessions /\ sessions[s] \in SessionRecord /\ s \in Session
    BY <1>3, <2>3 DEF Pinned, SessionHeld, IndInv, TypeOK
  <2>5. sessions[s].left \in Nat /\ sessions[s].idle \in Nat /\ sessions[s].idle > 1
    BY <2>2, <2>3, <2>4 DEF Pinned, SessionRecord
  <2>6. Host[v] \in managing /\ Renewable(Host[v], s)
    BY <1>1, <2>3, <2>5 DEF Pinned, Renewable, Owners
  <2>7. sessions[s].left > 1
    BY <1>2, <2>3, <2>4, <2>5, <2>6 DEF RenewalDue, Pinned, SessionHeld
  <2>8. /\ sessions'[s].owner = sessions[s].owner
        /\ sessions'[s].left = sessions[s].left - 1
        /\ sessions'[s].idle = sessions[s].idle - 1
    BY <1>2, <2>4, <2>5, <2>7, AgedSessionFacts, DecayFacts
  <2> QED BY <1>1, <1>3, <2>2, <2>3, <2>4, <2>5, <2>7, <2>8, OwnerFrame
          DEF Pinned, SessionHeld
<1> QED BY <1>5, <1>6, <1>7, <1>8 DEF IndInv

(* Steps of one slot. *)
LEMMA SlotStep ==
    ASSUME IndInv, NEW w \in Worker,
           Advance(w) \/ Finish(w) \/ Renew(w) \/ RenewError(w) \/ Stall(w)
    PROVE  IndInv'
<1>1. /\ pc \in [Worker -> Stage] /\ item \in [Worker -> Item] /\ item[w] \in Item
      /\ starts \in [Row -> Nat] /\ faults \in 0..MaxFaults /\ MaxFaults \in Nat
  BY WorkerAssumption DEF IndInv, TypeOK
<1>2. Fault => faults' \in 0..MaxFaults
  BY <1>1 DEF Fault
<1>3. CASE Poll(w) \/ FetchNone(w) \/ Guard(w) \/ Overflow(w) \/ DropGuard(w) \/ Stop(w)
  <2>1. pc' \in [Worker -> Stage]
    BY <1>1, <1>3 DEF Poll, FetchNone, Guard, Overflow, DropGuard, Stop, Stage
  <2>2. UNCHANGED <<queue, sessions, item, managing, epoch, reported, dropped,
                    cancelled, starts, nextRow, faults>>
    BY <1>3 DEF Poll, FetchNone, Guard, Overflow, DropGuard, Stop
  <2> QED BY <2>1, <2>2, QuietStep
<1>4. CASE Fetch(w)
  BY <1>4, FetchStep
<1>5. CASE GiveBack(w) \/ Unregistered(w) \/ AbandonFailed(w)
  <2>1. /\ \E d \in 1..MaxDelay, ig \in BOOLEAN : Abandon(w, d, ig)
        /\ Idle(w)
        /\ UNCHANGED <<sessions, managing, epoch, reported, dropped, cancelled,
                       starts, nextRow, faults>>
    BY <1>5 DEF GiveBack, Unregistered, AbandonFailed
  <2> QED BY <2>1, AbandonStep
<1>6. CASE Poison(w)
  <2>1. CASE AckWith(w, item[w].row) /\ UNCHANGED faults
    BY <1>6, <2>1, AckStep DEF Poison, AckWith
  <2>2. CASE AckRefused(w)
    <3>1. faults' \in 0..MaxFaults
      BY <1>1, <1>2, <2>2 DEF AckRefused
    <3>2. pc' \in [Worker -> Stage] /\ item' = [item EXCEPT ![w] = NoItem]
      BY <1>1, <1>6 DEF Poison, Idle, Stage
    <3> QED BY <1>1, <1>6, <2>2, <3>1, <3>2, NoItemFacts, ItemStep DEF Poison, AckRefused
  <2> QED BY <1>6, <2>1, <2>2 DEF Poison
<1>7. CASE Start(w)
  <2>1. PICK x \in Item : x = Renewing(item[w], TRUE)
    BY <1>1, FlagFacts
  <2>2. x.row = item[w].row /\ x.tok = item[w].tok /\ x.sess = item[w].sess
    BY <1>1, <2>1, FlagFacts
  <2>3. item' = [item EXCEPT ![w] = x]
    BY <1>7, <2>1 DEF Start
  <2>4. pc' \in [Worker -> Stage] /\ starts' \in [Row -> Nat]
    <3>1. pc' \in [Worker -> Stage]
      BY <1>1, <1>7 DEF Start, Stage
    <3>2. starts' = [starts EXCEPT ![item[w].row] = @ + 1]
      BY <1>7 DEF Start
    <3>3. starts' \in [Row -> Nat]
      <4>1. PICK b : b = item[w].row
        OBVIOUS
      <4>2. \A a \in Row : starts[a] \in Nat /\ starts[a] + 1 \in Nat
        BY <1>1
      <4>3. starts' = [a \in Row |-> IF a = b THEN starts[a] + 1 ELSE starts[a]]
        BY <1>1, <3>2, <4>1
      <4> QED BY <4>2, <4>3
    <3> QED BY <3>1, <3>3
  <2> QED BY <1>1, <1>7, <2>2, <2>3, <2>4, ItemStep DEF Start
<1>8. CASE AckResult(w)
  BY <1>8, AckStep DEF AckResult, AckWith
<1>9. CASE AckNone(w)
  BY <1>9, AckStep DEF AckNone
<1>10. CASE AckFailed(w)
  <2>1. pc' \in [Worker -> Stage] /\ faults' \in 0..MaxFaults
    BY <1>1, <1>2, <1>10 DEF AckFailed, AckRefused, Stage
  <2>2. item' = [item EXCEPT ![w] = item[w]]
    BY <1>1, <1>10 DEF AckFailed
  <2>3. PICK x \in Item : x = item[w]
    BY <1>1
  <2> QED BY <1>1, <1>10, <2>1, <2>2, <2>3, ItemStep DEF AckFailed, AckRefused
<1>11. CASE Finish(w) \/ Stall(w)
  <2>1. PICK x \in Item : x = Renewing(item[w], FALSE)
    BY <1>1, FlagFacts
  <2>2. x.row = item[w].row /\ x.tok = item[w].tok /\ x.sess = item[w].sess
    BY <1>1, <2>1, FlagFacts
  <2>3. item' = [item EXCEPT ![w] = x]
    BY <1>11, <2>1 DEF Finish, Stall
  <2>4. pc' \in [Worker -> Stage] /\ faults' \in 0..MaxFaults
    BY <1>1, <1>2, <1>11 DEF Finish, Stall, Stage
  <2> QED BY <1>1, <1>11, <2>2, <2>3, <2>4, ItemStep DEF Finish, Stall
<1>12. ASSUME Signal(w), UNCHANGED <<queue, sessions, pc, managing, epoch, reported,
                                     dropped, cancelled, starts, nextRow>>,
              faults' \in 0..MaxFaults
       PROVE  IndInv'
  <2>1. PICK x \in Item : x = Signalled(item[w])
    BY <1>1, FlagFacts
  <2>2. x.row = item[w].row /\ x.tok = item[w].tok /\ x.sess = item[w].sess
    BY <1>1, <2>1, FlagFacts
  <2>3. item' = [item EXCEPT ![w] = x]
    BY <1>12, <2>1 DEF Signal
  <2> QED BY <1>1, <1>12, <2>2, <2>3, ItemStep
<1>13. CASE RenewError(w)
  BY <1>2, <1>12, <1>13 DEF RenewError
<1>14. CASE Renew(w)
  <2>1. CASE HoldsValid(w)
    BY <1>14, <2>1, RenewStep DEF Renew
  <2>2. CASE ~HoldsValid(w)
    BY <1>1, <1>12, <1>14, <2>2 DEF Renew
  <2> QED BY <2>1, <2>2
<1> QED BY <1>3, <1>4, <1>5, <1>6, <1>7, <1>8, <1>9, <1>10, <1>11, <1>13, <1>14 DEF Advance

(* The empty queue satisfies the invariant. *)
LEMMA InitInv == Init => IndInv
<1> SUFFICES ASSUME Init PROVE IndInv
  OBVIOUS
<1>1. DOMAIN queue = {} /\ DOMAIN sessions = {}
  BY DEF Init
<1>2. TypeOK
  BY <1>1, NoItemFacts, WorkerAssumption DEF Init, TypeOK, Stage
<1>3. \A a \in Row : Accounted(a)
  BY <1>1, WorkerAssumption DEF Init, Accounted, Row
<1>4. TokensApart
  BY NoItemFacts DEF Init, TokensApart
<1>5. SessionsPinned
  BY <1>1 DEF SessionsPinned, HoldsValid, Holds
<1> QED BY <1>2, <1>3, <1>4, <1>5 DEF IndInv

(* Every step of the specification preserves it. *)
LEMMA NextInv == IndInv /\ [Next]_vars => IndInv'
<1> SUFFICES ASSUME IndInv, [Next]_vars PROVE IndInv'
  OBVIOUS
<1>1. CASE \E s \in Session \cup {NoSession}, g \in Tag : Schedule(s, g)
  BY <1>1, ScheduleStep
<1>2. CASE \E a \in Row : Cancel(a)
  BY <1>2, CancelStep
<1>3. CASE \E w \in Worker :
             Advance(w) \/ Finish(w) \/ Renew(w) \/ RenewError(w) \/ Stall(w)
  BY <1>3, SlotStep
<1>4. CASE \E h \in Runtime :
             RenewSessions(h) \/ CleanupSessions(h) \/ StopManaging(h) \/ Crash(h)
  BY <1>4, SessionManagerStep, StopManagingStep, CrashStep
<1>5. CASE Tick
  BY <1>5, TickStep
<1>6. CASE UNCHANGED vars
  BY <1>6, QuietStep DEF vars, IndInv, TypeOK
<1> QED BY <1>1, <1>2, <1>3, <1>4, <1>5, <1>6 DEF Next

----------------------------------------------------------------------------
(* The theorems. *)

(* The worker queue, the sessions table and what the slots believe they    *)
(* hold stay consistent, whatever fetch_work_item, ack_work_item,          *)
(* abandon_work_item, renewals, cancellations and crashes do.              *)
THEOREM WorkerInvariant == Spec => []IndInv
BY InitInv, NextInv, PTL DEF Spec

(* ack_work_item never enqueues two completions of one activity. *)
THEOREM ReportedOnceTheorem == Spec => []ReportedOnce
<1>1. IndInv => ReportedOnce
  BY DEF IndInv, TypeOK, Accounted, ReportedOnce
<1> QED BY <1>1, WorkerInvariant, PTL

(* A row leaves worker_queue only with a completion, with an ack of the    *)
(* cancellation branch, or cancelled by its orchestration.                 *)
THEOREM NothingForgottenTheorem == Spec => []NothingForgotten
<1>1. IndInv => NothingForgotten
  BY DEF IndInv, Accounted, NothingForgotten
<1> QED BY <1>1, WorkerInvariant, PTL

(* The session of an activity held under a valid lock belongs to the       *)
(* holder and outlasts the lock, by what fetch_work_item, the renewals and *)
(* ack_work_item write to the two tables.                                  *)
THEOREM SessionsPinnedTheorem == Spec => []SessionsPinned
<1>1. IndInv => SessionsPinned
  BY DEF IndInv
<1> QED BY <1>1, WorkerInvariant, PTL

(* Two slots with valid locks on activities of one session have one owner  *)
(* id, as long as both session managers renew.                             *)
THEOREM SessionAffinityTheorem == Spec => []SessionAffinity
<1>1. IndInv => SessionAffinity
  BY DEF IndInv, SessionsPinned, Pinned, SessionAffinity
<1> QED BY <1>1, WorkerInvariant, PTL

(* No completion of a cancelled activity is enqueued: its row is gone, so  *)
(* no ack_work_item finds it.                                              *)
THEOREM NoReportAfterCancelTheorem == Spec => NoReportAfterCancel
<1>1. ASSUME IndInv, Next, NEW a \in cancelled
      PROVE  reported'[a] = reported[a]
  <2>1. a \in Row /\ a \notin DOMAIN queue /\ reported \in [Row -> Nat]
    BY <1>1 DEF IndInv, TypeOK, Accounted
  <2>2. ASSUME NEW w \in Worker, AckWith(w, item[w].row)
        PROVE  reported'[a] = reported[a]
    BY <2>1, <2>2 DEF AckWith, AckCommit, HoldsValid, Holds
  <2>3. ASSUME NEW w \in Worker,
               Advance(w) \/ Finish(w) \/ Renew(w) \/ RenewError(w) \/ Stall(w)
        PROVE  reported'[a] = reported[a]
    <3>1. CASE Poison(w)
      BY <2>2, <3>1 DEF Poison, AckRefused
    <3>2. CASE AckResult(w)
      BY <2>2, <3>2 DEF AckResult
    <3>3. CASE AckFailed(w)
      BY <3>3 DEF AckFailed, AckRefused
    <3>4. CASE \/ Poll(w) \/ Fetch(w) \/ FetchNone(w) \/ Guard(w) \/ Overflow(w)
               \/ DropGuard(w) \/ GiveBack(w) \/ Start(w) \/ Unregistered(w)
               \/ Stop(w) \/ AckNone(w) \/ AbandonFailed(w)
               \/ Finish(w) \/ Renew(w) \/ RenewError(w) \/ Stall(w)
      BY <3>4 DEF Poll, Fetch, FetchNone, Guard, Overflow, DropGuard, GiveBack, Start,
                  Unregistered, Stop, AckNone, AbandonFailed, Finish, Renew, RenewError, Stall
    <3> QED BY <2>3, <3>1, <3>2, <3>3, <3>4 DEF Advance
  <2>4. CASE \/ \E s \in Session \cup {NoSession}, g \in Tag : Schedule(s, g)
             \/ \E b \in Row : Cancel(b)
             \/ \E h \in Runtime :
                   RenewSessions(h) \/ CleanupSessions(h) \/ StopManaging(h) \/ Crash(h)
             \/ Tick
    BY <2>4 DEF Schedule, Cancel, RenewSessions, CleanupSessions, StopManaging, Crash, Tick
  <2> QED BY <1>1, <2>3, <2>4 DEF Next
<1>2. IndInv /\ [Next]_vars => [\A a \in cancelled : reported'[a] = reported[a]]_vars
  BY <1>1
<1> QED BY <1>2, WorkerInvariant, PTL DEF Spec, NoReportAfterCancel

(* What LockKept says of one step and one slot. *)
KeepsLock(w) ==
    /\ pc[w] = "running" /\ item[w].renewing /\ HoldsValid(w)
    /\ (pc[w] = "running" /\ item[w].renewing)'
    => HoldsValid(w)' \/ item[w].row \in cancelled'

(* A slot's own steps: it renews, or it leaves the running stage, or its   *)
(* manager stops.                                                          *)
LEMMA OwnStepKeeps ==
    ASSUME IndInv, NEW w \in Worker,
           Advance(w) \/ Finish(w) \/ Renew(w) \/ RenewError(w) \/ Stall(w)
    PROVE  KeepsLock(w)
<1> SUFFICES ASSUME pc[w] = "running", item[w].renewing, HoldsValid(w),
                    (pc[w] = "running" /\ item[w].renewing)'
             PROVE  HoldsValid(w)' \/ item[w].row \in cancelled'
  BY DEF KeepsLock
<1>1. pc \in [Worker -> Stage] /\ item \in [Worker -> Item] /\ item[w] \in Item
  BY DEF IndInv, TypeOK
<1>2. CASE Advance(w)
  BY <1>1, <1>2 DEF Advance, Poll, Fetch, FetchNone, Guard, Overflow, DropGuard, GiveBack,
         Poison, Start, Unregistered, Stop, AckResult, AckNone, AckFailed, AbandonFailed
<1>3. CASE Finish(w) \/ Stall(w)
  BY <1>1, <1>3, FlagFacts DEF Finish, Stall
<1>4. CASE RenewError(w)
  BY <1>1, <1>4, FlagFacts DEF RenewError, Signal
<1>5. CASE Renew(w)
  <2>1. item' = item /\ queue' = [queue EXCEPT ![item[w].row] = Extended(@)]
    BY <1>5 DEF Renew
  <2>2. item[w].row \in DOMAIN queue /\ queue[item[w].row] \in RowRecord
    BY DEF HoldsValid, Holds, IndInv, TypeOK
  <2> QED BY <2>1, <2>2, ExtendedFacts, WorkerAssumption DEF HoldsValid, Holds
<1> QED BY <1>2, <1>3, <1>4, <1>5

(* The steps of another slot: whatever it does by token, its token is not  *)
(* the one of the row; and it fetches no row that is locked.               *)
LEMMA OtherStepKeeps ==
    ASSUME IndInv, NEW w \in Worker, NEW v \in Worker, v # w,
           Advance(v) \/ Finish(v) \/ Renew(v) \/ RenewError(v) \/ Stall(v)
    PROVE  KeepsLock(w)
<1> SUFFICES ASSUME HoldsValid(w) PROVE HoldsValid(w)'
  BY DEF KeepsLock
<1>1. pc \in [Worker -> Stage] /\ item \in [Worker -> Item]
  BY DEF IndInv, TypeOK
<1>2. /\ item[w].row \in DOMAIN queue /\ queue[item[w].row] \in RowRecord
      /\ queue[item[w].row].left > 0 /\ item[w].row # NoRow
  BY NoItemFacts DEF HoldsValid, Holds, IndInv, TypeOK
<1>3. Holds(v) => item[v].row # item[w].row
  BY <1>2 DEF HoldsValid, Holds, IndInv, TokensApart
<1>4. item'[w] = item[w]
  BY <1>1 DEF Advance, Poll, Fetch, FetchNone, Guard, Overflow, DropGuard, GiveBack,
         Poison, Start, Unregistered, Stop, AckResult, AckNone, AckFailed, AbandonFailed,
         Finish, Renew, RenewError, Stall, Idle, Signal
<1> SUFFICES item[w].row \in DOMAIN queue' /\ queue'[item[w].row] = queue[item[w].row]
  BY <1>2, <1>4 DEF HoldsValid, Holds
<1>5. CASE Fetch(v)
  BY <1>2, <1>5 DEF Fetch, Candidates
<1>6. ASSUME NEW d \in 1..MaxDelay, NEW ig \in BOOLEAN, Abandon(v, d, ig)
      PROVE  item[w].row \in DOMAIN queue' /\ queue'[item[w].row] = queue[item[w].row]
  BY <1>2, <1>3, <1>6 DEF Abandon
<1>7. CASE GiveBack(v) \/ Unregistered(v) \/ AbandonFailed(v)
  BY <1>6, <1>7 DEF GiveBack, Unregistered, AbandonFailed
<1>8. ASSUME AckCommit(v, item[v].row)
      PROVE  item[w].row \in DOMAIN queue' /\ queue'[item[w].row] = queue[item[w].row]
  BY <1>2, <1>3, <1>8 DEF AckCommit, HoldsValid, Delete
<1>9. CASE Poison(v) \/ AckResult(v) \/ AckNone(v)
  BY <1>2, <1>8, <1>9 DEF Poison, AckResult, AckNone, AckWith, AckRefused
<1>10. CASE Renew(v)
  BY <1>2, <1>3, <1>10 DEF Renew, HoldsValid
<1>11. CASE \/ Poll(v) \/ FetchNone(v) \/ Guard(v) \/ Overflow(v) \/ DropGuard(v)
            \/ Start(v) \/ Stop(v) \/ AckFailed(v) \/ Finish(v) \/ RenewError(v) \/ Stall(v)
  BY <1>2, <1>11 DEF Poll, FetchNone, Guard, Overflow, DropGuard, Start, Stop, AckFailed,
         AckRefused, Finish, RenewError, Stall
<1> QED BY <1>5, <1>7, <1>9, <1>10, <1>11 DEF Advance

(* As long as the activity manager of a slot runs, the lock of its item is *)
(* lost only to a cancellation.                                            *)
THEOREM LockKeptTheorem == Spec => LockKept
<1>1. ASSUME IndInv, Next, NEW w \in Worker
      PROVE  KeepsLock(w)
  <2>0. HoldsValid(w) => item[w].row \in DOMAIN queue /\ item[w].row \in Row
                         /\ queue[item[w].row] \in RowRecord
    BY <1>1 DEF HoldsValid, Holds, IndInv, TypeOK
  <2>1. CASE \E v \in Worker :
               Advance(v) \/ Finish(v) \/ Renew(v) \/ RenewError(v) \/ Stall(v)
    BY <1>1, <2>1, OwnStepKeeps, OtherStepKeeps
  <2>2. CASE \E s \in Session \cup {NoSession}, g \in Tag : Schedule(s, g)
    <3>1. HoldsValid(w) => item[w].row # nextRow
      BY <1>1, <2>0 DEF IndInv, TypeOK, Accounted, Row
    <3> QED BY <2>0, <2>2, <3>1 DEF KeepsLock, Schedule, HoldsValid, Holds
  <2>3. CASE \E a \in Row : Cancel(a)
    BY <2>0, <2>3 DEF KeepsLock, Cancel, Delete, HoldsValid, Holds
  <2>4. CASE \E h \in Runtime :
               RenewSessions(h) \/ CleanupSessions(h) \/ StopManaging(h) \/ Crash(h)
    BY <1>1, <2>4 DEF KeepsLock, RenewSessions, CleanupSessions, StopManaging, Crash,
                      HoldsValid, Holds, IndInv, TypeOK
  <2>5. CASE Tick
    <3> SUFFICES ASSUME pc[w] = "running", item[w].renewing, HoldsValid(w)
                 PROVE  HoldsValid(w)'
      BY DEF KeepsLock
    <3>1. queue[item[w].row].left \in Nat /\ queue[item[w].row].left > 1
      BY <2>0, <2>5 DEF Tick, RenewalDue, HoldsValid, RowRecord
    <3>2. item' = item /\ queue'[item[w].row] = AgedRow(queue[item[w].row])
          /\ DOMAIN queue' = DOMAIN queue
      BY <2>0, <2>5 DEF Tick
    <3> QED BY <2>0, <3>1, <3>2, AgedRowFacts, DecayFacts DEF HoldsValid, Holds
  <2> QED BY <1>1, <2>1, <2>2, <2>3, <2>4, <2>5 DEF Next
<1>2. IndInv /\ [Next]_vars => [\A w \in Worker : KeepsLock(w)]_vars
  BY <1>1
<1>3. ([][\A w \in Worker : KeepsLock(w)]_vars) => LockKept
  BY DEF LockKept, KeepsLock
<1> QED BY <1>2, <1>3, WorkerInvariant, PTL DEF Spec

----------------------------------------------------------------------------
(***************************************************************************)
(* The limits that the worker dispatchers keep: how often a handler is     *)
(* invoked, how many sessions a runtime executes, and which items the      *)
(* cancellation branch acknowledges.  They rest on IndInv and on two       *)
(* invariants more: Slot, what a slot knows about the row it fetched, and  *)
(* Bounded, which counts the invocations that have happened or still may,  *)
(* against the attempts that the row has recorded.                         *)
(***************************************************************************)

Unoccupied == {"idle", "polled", "plain"}

(* A slot has an item exactly when it has fetched one.  The token of an    *)
(* item is a real one; while the row carries it, the row's attempts are    *)
(* those of the fetch.  The cancellation branch is taken after a signal    *)
(* only, and, unless renewals fail for other reasons, a signal means that  *)
(* the lock is lost for good.                                              *)
Slot(w) ==
    /\ pc[w] \in Unoccupied <=> item[w].row = NoRow
    /\ item[w].row # NoRow => item[w].row < nextRow /\ item[w].tok \in Token
    /\ Holds(w) => queue[item[w].row].att = item[w].att
    /\ pc[w] = "stopping" => item[w].signalled
    /\ item[w].signalled /\ ~RenewErrors => ~HoldsValid(w)

SlotsInv == \A w \in Worker : Slot(w)

(* The slots that have fetched a row, may still invoke its handler, and    *)
(* have neither done so nor given the item back.                           *)
Going(a) ==
    {w \in Worker : /\ item[w].row = a /\ item[w].att <= MaxAttempts
                    /\ pc[w] \in {"fetched", "guarded", "over", "giveback"}}

Bounded(a) ==
    /\ a >= nextRow => starts[a] = 0
    /\ starts[a] + Cardinality(Going(a)) <= MaxAttempts
    /\ a \in DOMAIN queue => starts[a] + Cardinality(Going(a)) <= queue[a].att

AttemptsInv == \A a \in Row : Bounded(a)

----------------------------------------------------------------------------
(* Sets of slots are finite and can be counted. *)
LEMMA Counting ==
    ASSUME NEW S \in SUBSET Worker, NEW T \in SUBSET Worker
    PROVE  /\ Cardinality(S) \in Nat /\ Cardinality(T) \in Nat
           /\ T \subseteq S => Cardinality(T) <= Cardinality(S)
           /\ \A w \in S : T \subseteq S \ {w} => Cardinality(T) + 1 <= Cardinality(S)
           /\ \A w \in Worker : T \subseteq S \cup {w} => Cardinality(T) <= Cardinality(S) + 1
<1>1. IsFiniteSet(S) /\ IsFiniteSet(T)
  BY WorkerAssumption, FS_Subset
<1>2. Cardinality(S) \in Nat /\ Cardinality(T) \in Nat
  BY <1>1, FS_CardinalityType
<1>3. T \subseteq S => Cardinality(T) <= Cardinality(S)
  BY <1>1, FS_Subset
<1>4. ASSUME NEW w \in S, T \subseteq S \ {w}
      PROVE  Cardinality(T) + 1 <= Cardinality(S)
  <2>1. IsFiniteSet(S \ {w}) /\ Cardinality(S \ {w}) = Cardinality(S) - 1
    BY <1>1, FS_RemoveElement
  <2>2. Cardinality(T) <= Cardinality(S \ {w})
    BY <1>4, <2>1, FS_Subset
  <2> QED BY <1>2, <2>1, <2>2
<1>5. ASSUME NEW w \in Worker, T \subseteq S \cup {w}
      PROVE  Cardinality(T) <= Cardinality(S) + 1
  <2>1. /\ IsFiniteSet(S \cup {w})
        /\ Cardinality(S \cup {w}) = IF w \in S THEN Cardinality(S) ELSE Cardinality(S) + 1
    BY <1>1, FS_AddElement
  <2>2. Cardinality(T) <= Cardinality(S \cup {w})
    BY <1>5, <2>1, FS_Subset
  <2>3. Cardinality(S \cup {w}) \in Nat
    BY <2>1, FS_CardinalityType
  <2> QED BY <1>2, <2>1, <2>2, <2>3
<1> QED BY <1>2, <1>3, <1>4, <1>5

(* Attempts are counted by the fetch, and uncounted by some releases. *)
LEMMA AttemptFacts ==
    ASSUME NEW r \in RowRecord, NEW t \in Token, NEW d \in 0..MaxDelay, NEW ig \in BOOLEAN
    PROVE  /\ r.att \in 0..(MaxAttempts + 2) /\ MaxAttempts \in Nat
           /\ Leased(r, t).att = Bump(r.att)
           /\ Released(r, d, ig).att = (IF ig THEN Decay(r.att) ELSE r.att)
           /\ Released(r, d, ig).tok = NoToken
           /\ Extended(r).att = r.att /\ Extended(r).tok = r.tok
           /\ AgedRow(r).att = r.att /\ AgedRow(r).tok = r.tok
           /\ AgedRow(r).left > 0 => r.left > 0
<1>1. r.att \in 0..(MaxAttempts + 2) /\ MaxAttempts \in Nat /\ r.left \in Nat
  BY WorkerAssumption DEF RowRecord, Attempt
<1>2. Leased(r, t).att = Bump(r.att)
  BY DEF Leased, RowRecord
<1>3. Released(r, d, ig).att = (IF ig THEN Decay(r.att) ELSE r.att)
      /\ Released(r, d, ig).tok = NoToken
  BY DEF Released, RowRecord
<1>4. Extended(r).att = r.att /\ Extended(r).tok = r.tok
  BY DEF Extended, RowRecord
<1>5. AgedRow(r).att = r.att /\ AgedRow(r).tok = r.tok /\ AgedRow(r).left = Decay(r.left)
  BY DEF AgedRow, RowRecord
<1>6. Decay(r.left) > 0 => r.left > 0
  BY <1>1 DEF Decay
<1> QED BY <1>1, <1>2, <1>3, <1>4, <1>5, <1>6

(* The tokens are not the missing one. *)
LEMMA TokenFacts == NoToken \notin Token
BY WorkerAssumption DEF NoToken, Token

----------------------------------------------------------------------------
(* What a slot knows. *)

(* A step after which the row carries the token of v's item only if it did *)
(* before, with the same attempts and a lock that was valid if it is.      *)
Undisturbed(v) ==
    Holds(v)' =>
        /\ Holds(v) /\ queue'[item[v].row].att = queue[item[v].row].att
        /\ queue'[item[v].row].left > 0 => queue[item[v].row].left > 0

(* Such a step leaves alone what v knows, if v keeps its item. *)
LEMMA SlotFrame ==
    ASSUME IndInv, NEW v \in Worker, Slot(v), Undisturbed(v),
           item'[v].row = item[v].row, item'[v].tok = item[v].tok,
           item'[v].att = item[v].att, item'[v].signalled = item[v].signalled,
           pc'[v] \in Unoccupied <=> pc[v] \in Unoccupied,
           pc'[v] = "stopping" => item[v].signalled,
           nextRow' \in {nextRow, nextRow + 1}
    PROVE  Slot(v)'
<1>1. item[v].row \in Int /\ nextRow \in Int
  BY WorkerAssumption DEF IndInv, TypeOK, Item, Row, NoRow
<1>2. item'[v].row # NoRow => item'[v].row < nextRow' /\ item'[v].tok \in Token
  BY <1>1 DEF Slot
<1>3. Holds(v)' => queue'[item'[v].row].att = item'[v].att
  BY DEF Slot, Undisturbed
<1>4. item'[v].signalled /\ ~RenewErrors => ~HoldsValid(v)'
  BY DEF Slot, Undisturbed, HoldsValid
<1> QED BY <1>2, <1>3, <1>4 DEF Slot

(* A slot that has no item knows nothing. *)
LEMMA SlotEmpty ==
    ASSUME IndInv', NEW v \in Worker, item'[v] = NoItem, pc'[v] \in Unoccupied
    PROVE  Slot(v)'
<1>1. item'[v].row = NoRow /\ ~item'[v].signalled
  BY DEF NoItem
<1>2. ~Holds(v)'
  BY <1>1, NoItemFacts DEF Holds, IndInv, TypeOK
<1> QED BY <1>1, <1>2 DEF Slot, HoldsValid, Unoccupied

(* Nothing in the queue changes, or rows are deleted. *)
LEMMA DeleteUndisturbed ==
    ASSUME NEW v \in Worker, item'[v].row = item[v].row, item'[v].tok = item[v].tok,
           DOMAIN queue' \subseteq DOMAIN queue,
           \A a \in DOMAIN queue' : queue'[a] = queue[a]
    PROVE  Undisturbed(v)
BY DEF Undisturbed, Holds

(* A slot abandons: a row that it releases carries no token. *)
LEMMA AbandonUndisturbed ==
    ASSUME IndInv, NEW v \in Worker, NEW w \in Worker, Slot(v),
           NEW d \in 1..MaxDelay, NEW ig \in BOOLEAN, Abandon(w, d, ig),
           item'[v].row = item[v].row, item'[v].tok = item[v].tok
    PROVE  Undisturbed(v)
<1> SUFFICES ASSUME Holds(v)'
             PROVE  item[v].row \in DOMAIN queue /\ queue'[item[v].row] = queue[item[v].row]
  BY DEF Undisturbed, Holds
<1>1. DOMAIN queue' = DOMAIN queue /\ d \in 0..MaxDelay
  BY DEF Abandon
<1>2. item[v].row \in DOMAIN queue /\ queue[item[v].row] \in RowRecord /\ item[v].row # NoRow
  BY <1>1, NoItemFacts DEF Holds, IndInv, TypeOK
<1>3. queue'[item[v].row].tok # NoToken
  BY <1>2, TokenFacts DEF Holds, Slot
<1>4. PICK t \in Token : TRUE
  BY <1>2 DEF Slot
<1>5. Released(queue[item[v].row], d, ig).tok = NoToken
  BY <1>1, <1>2, <1>4, AttemptFacts
<1> QED BY <1>1, <1>2, <1>3, <1>5 DEF Abandon

(* A slot renews: the rows of the others carry other tokens. *)
LEMMA RenewUndisturbed ==
    ASSUME IndInv, NEW v \in Worker, NEW w \in Worker, HoldsValid(w), v # w,
           queue' = [queue EXCEPT ![item[w].row] = Extended(@)],
           item' = item
    PROVE  Undisturbed(v)
<1> SUFFICES ASSUME Holds(v)'
             PROVE  item[v].row \in DOMAIN queue /\ queue'[item[v].row] = queue[item[v].row]
  BY DEF Undisturbed, Holds
<1>1. item[v].row \in DOMAIN queue /\ item[v].row # NoRow /\ queue[item[v].row] \in RowRecord
  BY NoItemFacts DEF Holds, IndInv, TypeOK
<1>2. item[v].row = item[w].row => FALSE
  <2> SUFFICES ASSUME item[v].row = item[w].row PROVE FALSE
    OBVIOUS
  <2>1. queue'[item[v].row].tok = queue[item[v].row].tok
    BY <1>1, ExtendedFacts
  <2> QED BY <1>1, <2>1 DEF Holds, HoldsValid, IndInv, TokensApart
<1> QED BY <1>1, <1>2

(* Steps of a slot, as the others see them. *)
LEMMA OtherSlot ==
    ASSUME IndInv, SlotsInv, NEW w \in Worker, NEW v \in Worker, v # w,
           Advance(w) \/ Finish(w) \/ Renew(w) \/ RenewError(w) \/ Stall(w)
    PROVE  Slot(v)'
<1>1. pc \in [Worker -> Stage] /\ item \in [Worker -> Item]
  BY DEF IndInv, TypeOK
<1>2. item'[v] = item[v] /\ pc'[v] = pc[v] /\ nextRow' = nextRow
  BY <1>1 DEF Advance, Poll, Fetch, FetchNone, Guard, Overflow, DropGuard, GiveBack,
         Poison, Start, Unregistered, Stop, AckResult, AckNone, AckFailed, AbandonFailed,
         Finish, Renew, RenewError, Stall, Idle, Signal
<1> SUFFICES Undisturbed(v)
  BY <1>2, SlotFrame DEF SlotsInv, Slot
<1>3. CASE Fetch(w)
  <2>1. PICK a \in Candidates(w) : FreeTokens(a) # {}
                                   /\ queue' = [queue EXCEPT ![a] = Leased(@, FreshToken(a))]
    BY <1>3 DEF Fetch
  <2>2. a \in DOMAIN queue /\ queue[a] \in RowRecord /\ FreshToken(a) \in Token
    BY <2>1, FreshFacts DEF Candidates, IndInv, TypeOK
  <2>3. item[v].row = a => queue'[a].tok # item[v].tok
    BY <2>1, <2>2, FreshFacts, LeasedFacts
  <2> QED BY <1>2, <2>1, <2>2, <2>3 DEF Undisturbed, Holds
<1>4. CASE GiveBack(w) \/ Unregistered(w) \/ AbandonFailed(w)
  <2>1. \E d \in 1..MaxDelay, ig \in BOOLEAN : Abandon(w, d, ig)
    BY <1>4 DEF GiveBack, Unregistered, AbandonFailed
  <2> QED BY <1>2, <2>1, AbandonUndisturbed DEF SlotsInv
<1>5. CASE AckCommit(w, item[w].row)
  BY <1>2, <1>5, DeleteUndisturbed DEF AckCommit, Delete
<1>6. CASE Renew(w) /\ HoldsValid(w)
  BY <1>6, RenewUndisturbed DEF Renew
<1>7. CASE UNCHANGED queue
  BY <1>2, <1>7, DeleteUndisturbed
<1> QED BY <1>3, <1>4, <1>5, <1>6, <1>7
        DEF Advance, Poll, FetchNone, Guard, Overflow, DropGuard, Poison, Start, Stop,
            AckResult, AckNone, AckFailed, AckWith, AckRefused, Finish, Renew, RenewError, Stall

(* Steps of the slot itself. *)
LEMMA OwnSlot ==
    ASSUME IndInv, IndInv', SlotsInv, NEW w \in Worker,
           Advance(w) \/ Finish(w) \/ Renew(w) \/ RenewError(w) \/ Stall(w)
    PROVE  Slot(w)'
<1>1. pc \in [Worker -> Stage] /\ item \in [Worker -> Item] /\ item[w] \in Item /\ Slot(w)
  BY DEF IndInv, TypeOK, SlotsInv
<1>2. CASE Poll(w) \/ FetchNone(w) \/ Guard(w) \/ Overflow(w) \/ DropGuard(w) \/ Stop(w)
  <2>1. UNCHANGED <<queue, item, nextRow>>
    BY <1>2 DEF Poll, FetchNone, Guard, Overflow, DropGuard, Stop
  <2>2. /\ pc'[w] \in Unoccupied <=> pc[w] \in Unoccupied
        /\ pc'[w] = "stopping" => item[w].signalled
    BY <1>1, <1>2 DEF Poll, FetchNone, Guard, Overflow, DropGuard, Stop, Unoccupied
  <2> QED BY <1>1, <2>1, <2>2, SlotFrame, DeleteUndisturbed
<1>3. CASE Fetch(w)
  <2>1. PICK a \in Candidates(w) :
          /\ FreeTokens(a) # {}
          /\ queue' = [queue EXCEPT ![a] = Leased(@, FreshToken(a))]
          /\ item' = [item EXCEPT ![w] =
                [row |-> a, sess |-> queue[a].sess, tok |-> FreshToken(a),
                 att |-> Bump(queue[a].att), renewing |-> FALSE, signalled |-> FALSE]]
          /\ pc' = [pc EXCEPT ![w] =
                IF queue[a].sess = NoSession THEN "guarded" ELSE "fetched"]
          /\ nextRow' = nextRow
    BY <1>3 DEF Fetch
  <2>2. a \in DOMAIN queue /\ a \in Row /\ queue[a] \in RowRecord /\ FreshToken(a) \in Token
    BY <2>1, FreshFacts DEF Candidates, IndInv, TypeOK
  <2>3. /\ item'[w].row = a /\ item'[w].tok \in Token /\ ~item'[w].signalled
        /\ item'[w].att = Bump(queue[a].att)
    BY <1>1, <2>1, <2>2
  <2>4. queue'[a].att = Bump(queue[a].att)
    <3>1. 0 \in 0..MaxDelay /\ TRUE \in BOOLEAN
      BY WorkerAssumption
    <3> QED BY <2>1, <2>2, <3>1, AttemptFacts
  <2>5. a < nextRow /\ a # NoRow /\ pc'[w] \notin Unoccupied /\ pc'[w] # "stopping"
    BY <1>1, <2>1, <2>2, NoItemFacts DEF IndInv, Accounted, Unoccupied
  <2> QED BY <2>1, <2>3, <2>4, <2>5 DEF Slot
<1>4. CASE \/ GiveBack(w) \/ Unregistered(w) \/ AbandonFailed(w) \/ Poison(w)
           \/ AckResult(w) \/ AckNone(w)
  <2>1. item'[w] = NoItem /\ pc'[w] \in Unoccupied
    BY <1>1, <1>4 DEF GiveBack, Unregistered, AbandonFailed, Poison, AckResult, AckNone,
                      Idle, Unoccupied
  <2> QED BY <2>1, SlotEmpty
<1>5. CASE Start(w) \/ Finish(w) \/ Stall(w) \/ AckFailed(w)
  <2>1. UNCHANGED <<queue, nextRow>>
    BY <1>5 DEF Start, Finish, Stall, AckFailed, AckRefused
  <2>2. /\ item'[w].row = item[w].row /\ item'[w].tok = item[w].tok
        /\ item'[w].att = item[w].att /\ item'[w].signalled = item[w].signalled
    <3>1. ASSUME NEW b \in BOOLEAN
          PROVE  LET x == Renewing(item[w], b)
                 IN  x.row = item[w].row /\ x.tok = item[w].tok /\ x.att = item[w].att
                     /\ x.signalled = item[w].signalled
      BY <1>1 DEF Renewing, Item
    <3>2. CASE Start(w)
      BY <1>1, <3>1, <3>2 DEF Start
    <3>3. CASE Finish(w) \/ Stall(w)
      BY <1>1, <3>1, <3>3 DEF Finish, Stall
    <3>4. CASE AckFailed(w)
      BY <3>4 DEF AckFailed
    <3> QED BY <1>5, <3>2, <3>3, <3>4
  <2>3. /\ pc'[w] \in Unoccupied <=> pc[w] \in Unoccupied
        /\ pc'[w] # "stopping"
    BY <1>1, <1>5 DEF Start, Finish, Stall, AckFailed, Unoccupied
  <2> QED BY <1>1, <2>1, <2>2, <2>3, SlotFrame, DeleteUndisturbed
<1>6. CASE Renew(w) /\ HoldsValid(w)
  <2>1. UNCHANGED <<pc, item, nextRow>> /\ queue' = [queue EXCEPT ![item[w].row] = Extended(@)]
    BY <1>6 DEF Renew
  <2>2. item[w].row \in DOMAIN queue /\ queue[item[w].row] \in RowRecord
        /\ queue[item[w].row].left > 0
    BY <1>6 DEF HoldsValid, Holds, IndInv, TypeOK
  <2>3. queue'[item[w].row].att = queue[item[w].row].att
    BY <2>1, <2>2 DEF Extended, RowRecord
  <2>4. Undisturbed(w)
    BY <1>6, <2>2, <2>3 DEF Undisturbed, HoldsValid
  <2> QED BY <1>1, <2>1, <2>4, SlotFrame DEF Slot
<1>7. CASE \/ RenewError(w)
           \/ Renew(w) /\ ~HoldsValid(w)
  <2>1. UNCHANGED <<queue, pc, nextRow>> /\ pc[w] = "running"
        /\ item' = [item EXCEPT ![w] = Signalled(@)]
    BY <1>7 DEF RenewError, Renew, Signal
  <2>2. /\ item'[w].row = item[w].row /\ item'[w].tok = item[w].tok
        /\ item'[w].att = item[w].att
    BY <1>1, <2>1 DEF Signalled, Item
  <2>3. RenewErrors \/ ~HoldsValid(w)'
    BY <1>7, <2>1, <2>2 DEF RenewError, HoldsValid, Holds
  <2> QED BY <1>1, <2>1, <2>2, <2>3 DEF Slot, Holds, Unoccupied
<1> QED BY <1>2, <1>3, <1>4, <1>5, <1>6, <1>7 DEF Advance

(* Every step preserves what the slots know. *)
LEMMA SlotsStep ==
    ASSUME IndInv, IndInv', SlotsInv, [Next]_vars
    PROVE  SlotsInv'
<1> SUFFICES ASSUME NEW v \in Worker PROVE Slot(v)'
  BY DEF SlotsInv
<1>0. Slot(v) /\ queue \in [DOMAIN queue -> RowRecord] /\ item[v] \in Item
  BY DEF SlotsInv, IndInv, TypeOK
<1>1. CASE \E s \in Session \cup {NoSession}, g \in Tag : Schedule(s, g)
  <2>1. UNCHANGED <<pc, item>> /\ nextRow' = nextRow + 1
    BY <1>1 DEF Schedule
  <2>2. item[v].row \in DOMAIN queue' => item[v].row \in DOMAIN queue
                                         /\ queue'[item[v].row] = queue[item[v].row]
    <3>1. item[v].row # nextRow
      BY <1>0, WorkerAssumption DEF Slot, IndInv, TypeOK, NoRow
    <3> QED BY <1>1, <3>1 DEF Schedule
  <2>3. Undisturbed(v)
    BY <2>1, <2>2 DEF Undisturbed, Holds
  <2> QED BY <1>0, <2>1, <2>3, SlotFrame DEF Slot
<1>2. CASE \E a \in Row : Cancel(a)
  <2>1. UNCHANGED <<pc, item, nextRow>>
    BY <1>2 DEF Cancel
  <2>2. Undisturbed(v)
    BY <1>2, <2>1, DeleteUndisturbed DEF Cancel, Delete
  <2> QED BY <1>0, <2>1, <2>2, SlotFrame DEF Slot
<1>3. CASE \E w \in Worker :
             Advance(w) \/ Finish(w) \/ Renew(w) \/ RenewError(w) \/ Stall(w)
  BY <1>3, OwnSlot, OtherSlot
<1>4. CASE \E h \in Runtime : RenewSessions(h) \/ CleanupSessions(h) \/ StopManaging(h)
  <2>1. UNCHANGED <<queue, pc, item, nextRow>>
    BY <1>4 DEF RenewSessions, CleanupSessions, StopManaging
  <2> QED BY <1>0, <2>1, SlotFrame, DeleteUndisturbed DEF Slot
<1>5. CASE \E h \in Runtime : Crash(h)
  <2>1. UNCHANGED <<queue, nextRow>>
    BY <1>5 DEF Crash
  <2>2. CASE item'[v] = item[v] /\ pc'[v] = pc[v]
    BY <1>0, <2>1, <2>2, SlotFrame, DeleteUndisturbed DEF Slot
  <2>3. CASE item'[v] = NoItem /\ pc'[v] = "idle"
    BY <2>3, SlotEmpty DEF Unoccupied
  <2> QED BY <1>5, <2>2, <2>3 DEF Crash
<1>6. CASE Tick
  <2>1. UNCHANGED <<pc, item, nextRow>> /\ queue' = [a \in DOMAIN queue |-> AgedRow(queue[a])]
    BY <1>6 DEF Tick
  <2>2. Undisturbed(v)
    <3> SUFFICES ASSUME Holds(v)'
                 PROVE  /\ Holds(v) /\ queue'[item[v].row].att = queue[item[v].row].att
                        /\ queue'[item[v].row].left > 0 => queue[item[v].row].left > 0
      BY DEF Undisturbed
    <3>1. /\ item[v].row \in DOMAIN queue /\ queue[item[v].row] \in RowRecord
          /\ queue'[item[v].row] = AgedRow(queue[item[v].row])
      BY <1>0, <2>1 DEF Holds
    <3>2. item[v].tok \in Token /\ 0 \in 0..MaxDelay /\ TRUE \in BOOLEAN
      BY <1>0, <3>1, NoItemFacts, WorkerAssumption DEF Slot, IndInv, TypeOK
    <3> QED BY <2>1, <3>1, <3>2, AttemptFacts DEF Holds
  <2> QED BY <1>0, <2>1, <2>2, SlotFrame DEF Slot
<1>7. CASE UNCHANGED vars
  BY <1>0, <1>7, SlotFrame, DeleteUndisturbed DEF vars, Slot
<1> QED BY <1>1, <1>2, <1>3, <1>4, <1>5, <1>6, <1>7 DEF Next

----------------------------------------------------------------------------
(* Attempts. *)

(* The count for a row, if nothing starts and no slot is added to those    *)
(* that may.                                                               *)
LEMMA BoundedFrame ==
    ASSUME IndInv, NEW a \in Row, Bounded(a), starts'[a] = starts[a],
           Going(a)' \subseteq Going(a), nextRow' \in {nextRow, nextRow + 1},
           a \in DOMAIN queue' => a \in DOMAIN queue /\ queue'[a].att = queue[a].att
    PROVE  Bounded(a)'
<1>1. /\ Cardinality(Going(a)) \in Nat /\ Cardinality(Going(a)') \in Nat
      /\ Cardinality(Going(a)') <= Cardinality(Going(a))
  <2>1. Going(a) \subseteq Worker /\ Going(a)' \subseteq Worker
    BY DEF Going
  <2> QED BY <2>1, Counting
<1>2. starts[a] \in Nat /\ MaxAttempts \in Nat /\ nextRow \in Nat /\ a \in Nat
  BY WorkerAssumption DEF IndInv, TypeOK, Row
<1>3. a \in DOMAIN queue => queue[a].att \in Nat
  BY WorkerAssumption DEF IndInv, TypeOK, RowRecord, Attempt
<1> QED BY <1>1, <1>2, <1>3 DEF Bounded

(* The fetch counts an attempt, and adds a slot unless the attempts are    *)
(* used up.                                                                *)
LEMMA BoundedFetch ==
    ASSUME IndInv, SlotsInv, NEW w \in Worker, Fetch(w), NEW b \in Row, Bounded(b)
    PROVE  Bounded(b)'
<1>1. PICK a \in Candidates(w) :
        /\ FreeTokens(a) # {}
        /\ queue' = [queue EXCEPT ![a] = Leased(@, FreshToken(a))]
        /\ item' = [item EXCEPT ![w] =
              [row |-> a, sess |-> queue[a].sess, tok |-> FreshToken(a),
               att |-> Bump(queue[a].att), renewing |-> FALSE, signalled |-> FALSE]]
        /\ pc' = [pc EXCEPT ![w] =
              IF queue[a].sess = NoSession THEN "guarded" ELSE "fetched"]
        /\ UNCHANGED <<starts, nextRow>>
  BY DEF Fetch
<1>2. /\ a \in DOMAIN queue /\ a \in Row /\ queue[a] \in RowRecord /\ FreshToken(a) \in Token
      /\ DOMAIN queue' = DOMAIN queue
  BY <1>1, FreshFacts DEF Candidates, IndInv, TypeOK
<1>3. /\ queue'[a].att = Bump(queue[a].att) /\ queue[a].att \in 0..(MaxAttempts + 2)
      /\ MaxAttempts \in Nat
      /\ \A c \in DOMAIN queue : c # a => queue'[c] = queue[c]
  <2>1. 0 \in 0..MaxDelay /\ TRUE \in BOOLEAN
    BY WorkerAssumption
  <2> QED BY <1>1, <1>2, <2>1, AttemptFacts
<1>4. pc \in [Worker -> Stage] /\ item \in [Worker -> Item]
  BY DEF IndInv, TypeOK
<1>5. /\ item'[w].row = a /\ item'[w].att = Bump(queue[a].att)
      /\ \A v \in Worker : v # w => item'[v] = item[v] /\ pc'[v] = pc[v]
  BY <1>1, <1>4
<1>6. CASE b # a
  <2>1. Going(b)' \subseteq Going(b)
    BY <1>5, <1>6 DEF Going
  <2> QED BY <1>1, <1>2, <1>3, <1>6, <2>1, BoundedFrame
<1>7. CASE b = a
  <2>1. /\ Going(a) \subseteq Worker /\ Going(a)' \subseteq Worker
        /\ Going(a)' \subseteq Going(a) \cup {w}
        /\ Bump(queue[a].att) > MaxAttempts => Going(a)' \subseteq Going(a)
    <3>1. Bump(queue[a].att) \in Nat
      BY <1>3 DEF Bump
    <3> QED BY <1>3, <1>5, <3>1 DEF Going
  <2>2. /\ Cardinality(Going(a)) \in Nat /\ Cardinality(Going(a)') \in Nat
        /\ Cardinality(Going(a)') <= Cardinality(Going(a)) + 1
        /\ Bump(queue[a].att) > MaxAttempts => Cardinality(Going(a)') <= Cardinality(Going(a))
    BY <2>1, Counting
  <2>3. starts[a] \in Nat /\ starts' = starts /\ nextRow' = nextRow
    BY <1>1, <1>2 DEF IndInv, TypeOK
  <2>4. /\ a >= nextRow => starts[a] = 0
        /\ starts[a] + Cardinality(Going(a)) <= MaxAttempts
        /\ starts[a] + Cardinality(Going(a)) <= queue[a].att
    BY <1>2, <1>7 DEF Bounded
  <2>5. /\ starts[a] + Cardinality(Going(a)') <= MaxAttempts
        /\ starts[a] + Cardinality(Going(a)') <= Bump(queue[a].att)
    <3>1. CASE Bump(queue[a].att) > MaxAttempts
      BY <1>3, <2>2, <2>3, <2>4, <3>1 DEF Bump
    <3>2. CASE ~(Bump(queue[a].att) > MaxAttempts)
      <4>1. Bump(queue[a].att) = queue[a].att + 1 /\ queue[a].att + 1 <= MaxAttempts
        BY <1>3, <3>2 DEF Bump
      <4> QED BY <1>3, <2>2, <2>3, <2>4, <4>1
    <3> QED BY <3>1, <3>2
  <2> QED BY <1>3, <1>7, <2>3, <2>4, <2>5 DEF Bounded
<1> QED BY <1>6, <1>7

(* An uncounted return takes back the attempt of the slot that returns its *)
(* item, and that slot will not start it.                                  *)
LEMMA BoundedGiveBack ==
    ASSUME IndInv, SlotsInv, NEW w \in Worker, GiveBack(w), NEW b \in Row, Bounded(b)
    PROVE  Bounded(b)'
<1>1. PICK d \in 1..MaxDelay : Abandon(w, d, TRUE)
  BY DEF GiveBack
<1>2. UNCHANGED <<starts, nextRow>> /\ Idle(w) /\ pc[w] = "giveback"
  BY DEF GiveBack
<1>3. pc \in [Worker -> Stage] /\ item \in [Worker -> Item] /\ Slot(w)
  BY DEF IndInv, TypeOK, SlotsInv
<1>4. /\ \A v \in Worker : v # w => item'[v] = item[v] /\ pc'[v] = pc[v]
      /\ pc'[w] = "idle"
  BY <1>2, <1>3 DEF Idle
<1>5. Going(b)' \subseteq Going(b) \ {w}
  BY <1>4 DEF Going
<1>6. CASE ~Holds(w) \/ b # item[w].row
  <2>1. b \in DOMAIN queue' => b \in DOMAIN queue /\ queue'[b] = queue[b]
    BY <1>1, <1>6 DEF Abandon
  <2> QED BY <1>2, <1>5, <2>1, BoundedFrame
<1>7. CASE Holds(w) /\ b = item[w].row
  <2>1. /\ b \in DOMAIN queue /\ queue[b] \in RowRecord /\ queue[b].att = item[w].att
        /\ queue'[b] = Released(queue[b], d, TRUE)
    BY <1>1, <1>3, <1>7 DEF Holds, Slot, Abandon, IndInv, TypeOK
  <2>2. /\ queue[b].att \in 0..(MaxAttempts + 2) /\ MaxAttempts \in Nat
        /\ queue'[b].att = Decay(queue[b].att)
    <3>1. d \in 0..MaxDelay /\ TRUE \in BOOLEAN
      BY WorkerAssumption
    <3>2. item[w].tok \in Token
      BY <1>3, <1>7, NoItemFacts DEF Slot
    <3>3. /\ queue[b].att \in 0..(MaxAttempts + 2) /\ MaxAttempts \in Nat
          /\ Released(queue[b], d, TRUE).att = (IF TRUE THEN Decay(queue[b].att) ELSE queue[b].att)
      BY <2>1, <3>1, <3>2, AttemptFacts
    <3> QED BY <2>1, <3>3
  <2>3. /\ Cardinality(Going(b)) \in Nat /\ Cardinality(Going(b)') \in Nat
        /\ Cardinality(Going(b)') <= Cardinality(Going(b))
        /\ w \in Going(b) => Cardinality(Going(b)') + 1 <= Cardinality(Going(b))
    <3>1. Going(b) \subseteq Worker /\ Going(b)' \subseteq Worker
      BY DEF Going
    <3> QED BY <1>5, <3>1, Counting
  <2>4. item[w].att <= MaxAttempts => w \in Going(b)
    BY <1>2, <1>7 DEF Going
  <2>5. /\ b >= nextRow => starts[b] = 0
        /\ starts[b] + Cardinality(Going(b)) <= MaxAttempts
        /\ starts[b] + Cardinality(Going(b)) <= queue[b].att
    BY <2>1 DEF Bounded
  <2>6. starts[b] \in Nat
    BY DEF IndInv, TypeOK
  <2>7. /\ starts[b] + Cardinality(Going(b)') <= MaxAttempts
        /\ starts[b] + Cardinality(Going(b)') <= Decay(queue[b].att)
    <3>1. CASE item[w].att <= MaxAttempts
      BY <2>1, <2>2, <2>3, <2>4, <2>5, <2>6, <3>1 DEF Decay
    <3>2. CASE ~(item[w].att <= MaxAttempts)
      BY <2>1, <2>2, <2>3, <2>5, <2>6, <3>2 DEF Decay
    <3> QED BY <3>1, <3>2
  <2> QED BY <1>2, <2>2, <2>5, <2>7 DEF Bounded
<1> QED BY <1>6, <1>7

(* The handler is invoked: the slot was one of those that might. *)
LEMMA BoundedStart ==
    ASSUME IndInv, SlotsInv, NEW w \in Worker, Start(w), NEW b \in Row, Bounded(b)
    PROVE  Bounded(b)'
<1>1. /\ pc[w] = "guarded" /\ item[w].att <= MaxAttempts
      /\ pc' = [pc EXCEPT ![w] = "running"]
      /\ item' = [item EXCEPT ![w] = Renewing(@, TRUE)]
      /\ starts' = [starts EXCEPT ![item[w].row] = @ + 1]
      /\ UNCHANGED <<queue, nextRow>>
  BY DEF Start
<1>2. pc \in [Worker -> Stage] /\ item \in [Worker -> Item] /\ Slot(w) /\ starts \in [Row -> Nat]
  BY DEF IndInv, TypeOK, SlotsInv
<1>3. Going(b)' \subseteq Going(b) \ {w}
  <2>1. \A v \in Worker : v # w => item'[v] = item[v] /\ pc'[v] = pc[v]
    BY <1>1, <1>2
  <2>2. pc'[w] = "running"
    BY <1>1, <1>2
  <2> QED BY <2>1, <2>2 DEF Going
<1>4. CASE b # item[w].row
  <2>1. starts'[b] = starts[b]
    BY <1>1, <1>2, <1>4
  <2> QED BY <1>1, <1>3, <2>1, BoundedFrame
<1>5. CASE b = item[w].row
  <2>1. w \in Going(b) /\ starts'[b] = starts[b] + 1 /\ starts[b] \in Nat
    BY <1>1, <1>2, <1>5 DEF Going
  <2>2. /\ Cardinality(Going(b)) \in Nat /\ Cardinality(Going(b)') \in Nat
        /\ Cardinality(Going(b)') + 1 <= Cardinality(Going(b))
    <3>1. Going(b) \subseteq Worker /\ Going(b)' \subseteq Worker
      BY DEF Going
    <3> QED BY <1>3, <2>1, <3>1, Counting
  <2>3. b < nextRow /\ nextRow \in Nat /\ b \in Nat /\ MaxAttempts \in Nat
    <3>1. item[w].row # NoRow
      BY <1>5, NoItemFacts
    <3>2. b < nextRow
      BY <1>2, <1>5, <3>1 DEF Slot
    <3> QED BY <3>2, WorkerAssumption DEF IndInv, TypeOK, Row
  <2>4. b \in DOMAIN queue => queue[b].att \in Nat
    BY WorkerAssumption DEF IndInv, TypeOK, RowRecord, Attempt
  <2> QED BY <1>1, <2>1, <2>2, <2>3, <2>4 DEF Bounded
<1> QED BY <1>4, <1>5

(* The other steps of a slot add it to no set of those that may start. *)
LEMMA BoundedSlot ==
    ASSUME IndInv, SlotsInv, NEW w \in Worker, NEW b \in Row, Bounded(b),
           Advance(w) \/ Finish(w) \/ Renew(w) \/ RenewError(w) \/ Stall(w)
    PROVE  Bounded(b)'
<1>1. pc \in [Worker -> Stage] /\ item \in [Worker -> Item] /\ item[w] \in Item
  BY DEF IndInv, TypeOK
<1>2. CASE Fetch(w) \/ GiveBack(w) \/ Start(w)
  BY <1>2, BoundedFetch, BoundedGiveBack, BoundedStart
<1> SUFFICES ASSUME ~(Fetch(w) \/ GiveBack(w) \/ Start(w))
             PROVE  Bounded(b)'
  BY <1>2
<1>3. UNCHANGED <<starts, nextRow>>
  BY DEF Advance, Poll, FetchNone, Guard, Overflow, DropGuard, Poison, Unregistered, Stop,
         AckResult, AckNone, AckFailed, AbandonFailed, Finish, Renew, RenewError, Stall
<1>4. Going(b)' \subseteq Going(b)
  <2>1. \A v \in Worker : v # w => item'[v] = item[v] /\ pc'[v] = pc[v]
    BY <1>1 DEF Advance, Poll, FetchNone, Guard, Overflow, DropGuard, Poison, Unregistered,
           Stop, AckResult, AckNone, AckFailed, AbandonFailed, Finish, Renew, RenewError,
           Stall, Idle, Signal
  <2>2. \/ pc'[w] \notin {"fetched", "guarded", "over", "giveback"}
        \/ item'[w] = item[w] /\ pc[w] \in {"fetched", "guarded", "over", "giveback"}
    BY <1>1 DEF Advance, Poll, FetchNone, Guard, Overflow, DropGuard, Poison, Unregistered,
           Stop, AckResult, AckNone, AckFailed, AbandonFailed, Finish, Renew, RenewError,
           Stall, Idle
  <2> QED BY <2>1, <2>2 DEF Going
<1>5. b \in DOMAIN queue' => b \in DOMAIN queue /\ queue'[b].att = queue[b].att
  <2>1. queue \in [DOMAIN queue -> RowRecord]
    BY DEF IndInv, TypeOK
  <2>2. CASE Unregistered(w) \/ AbandonFailed(w)
    <3>1. PICK d \in 1..MaxDelay : Abandon(w, d, FALSE)
      BY <2>2 DEF Unregistered, AbandonFailed
    <3>2. \A r \in RowRecord : Released(r, d, FALSE).att = r.att
      BY DEF Released, RowRecord
    <3> QED BY <2>1, <3>1, <3>2 DEF Abandon
  <2>3. CASE AckCommit(w, item[w].row)
    BY <2>3 DEF AckCommit, Delete
  <2>4. CASE Renew(w) /\ HoldsValid(w)
    <3>1. queue' = [queue EXCEPT ![item[w].row] = Extended(@)]
      BY <2>4 DEF Renew
    <3>2. \A r \in RowRecord : Extended(r).att = r.att
      BY DEF Extended, RowRecord
    <3> QED BY <2>1, <3>1, <3>2
  <2>5. CASE UNCHANGED queue
    BY <2>5
  <2> QED BY <2>2, <2>3, <2>4, <2>5
          DEF Advance, Poll, FetchNone, Guard, Overflow, DropGuard, Poison, Stop,
              AckResult, AckNone, AckFailed, AckWith, AckRefused, Finish, Renew, RenewError, Stall
<1> QED BY <1>3, <1>4, <1>5, BoundedFrame

(* Every step preserves the count. *)
LEMMA AttemptsStep ==
    ASSUME IndInv, SlotsInv, AttemptsInv, [Next]_vars
    PROVE  AttemptsInv'
<1> SUFFICES ASSUME NEW b \in Row PROVE Bounded(b)'
  BY DEF AttemptsInv
<1>0. Bounded(b)
  BY DEF AttemptsInv
<1>1. CASE \E s \in Session \cup {NoSession}, g \in Tag : Schedule(s, g)
  <2>1. PICK s, g : queue' = [a \in (DOMAIN queue) \cup {nextRow} |->
                                IF a = nextRow THEN NewRow(s, g) ELSE queue[a]]
    BY <1>1 DEF Schedule
  <2>2. UNCHANGED <<pc, item, starts>> /\ nextRow' = nextRow + 1
    BY <1>1 DEF Schedule
  <2>3. Going(b)' = Going(b)
    BY <2>2 DEF Going
  <2>4. CASE b # nextRow
    BY <1>0, <2>1, <2>2, <2>3, <2>4, BoundedFrame
  <2>5. CASE b = nextRow
    <3>1. Going(b) = {}
      BY <2>5, NoItemFacts DEF Going, SlotsInv, Slot, IndInv, TypeOK
    <3>2. Cardinality(Going(b)') = 0
      BY <2>3, <3>1, FS_EmptySet
    <3>3. starts[b] = 0 /\ queue'[b].att = 0
      BY <1>0, <2>1, <2>5 DEF Bounded, NewRow, IndInv, TypeOK
    <3> QED BY <2>2, <3>2, <3>3, WorkerAssumption DEF Bounded
  <2> QED BY <2>4, <2>5
<1>2. CASE \E a \in Row : Cancel(a)
  <2>1. UNCHANGED <<pc, item, starts, nextRow>>
    BY <1>2 DEF Cancel
  <2>2. Going(b)' = Going(b)
    BY <2>1 DEF Going
  <2>3. b \in DOMAIN queue' => b \in DOMAIN queue /\ queue'[b] = queue[b]
    BY <1>2 DEF Cancel, Delete
  <2> QED BY <1>0, <2>1, <2>2, <2>3, BoundedFrame
<1>3. CASE \E w \in Worker :
             Advance(w) \/ Finish(w) \/ Renew(w) \/ RenewError(w) \/ Stall(w)
  BY <1>0, <1>3, BoundedSlot
<1>4. CASE \E h \in Runtime : RenewSessions(h) \/ CleanupSessions(h) \/ StopManaging(h)
  <2>1. UNCHANGED <<queue, pc, item, starts, nextRow>>
    BY <1>4 DEF RenewSessions, CleanupSessions, StopManaging
  <2>2. Going(b)' = Going(b)
    BY <2>1 DEF Going
  <2> QED BY <1>0, <2>1, <2>2, BoundedFrame
<1>5. CASE \E h \in Runtime : Crash(h)
  <2>1. UNCHANGED <<queue, starts, nextRow>>
    BY <1>5 DEF Crash
  <2>2. Going(b)' \subseteq Going(b)
    BY <1>5 DEF Going, Crash
  <2> QED BY <1>0, <2>1, <2>2, BoundedFrame
<1>6. CASE Tick
  <2>1. UNCHANGED <<pc, item, starts, nextRow>> /\ queue' = [a \in DOMAIN queue |-> AgedRow(queue[a])]
    BY <1>6 DEF Tick
  <2>2. Going(b)' = Going(b)
    BY <2>1 DEF Going
  <2>3. b \in DOMAIN queue' => b \in DOMAIN queue /\ queue'[b].att = queue[b].att
    <3>1. \A r \in RowRecord : AgedRow(r).att = r.att
      BY DEF AgedRow, RowRecord
    <3> QED BY <2>1, <3>1 DEF IndInv, TypeOK
  <2> QED BY <1>0, <2>1, <2>2, <2>3, BoundedFrame
<1>7. CASE UNCHANGED vars
  <2>1. Going(b)' = Going(b)
    BY <1>7 DEF Going, vars
  <2> QED BY <1>0, <1>7, <2>1, BoundedFrame DEF vars
<1> QED BY <1>1, <1>2, <1>3, <1>4, <1>5, <1>6, <1>7 DEF Next

----------------------------------------------------------------------------
(* The theorems. *)

(* Nothing is fetched or started in the beginning. *)
LEMMA InitLimits == Init => SlotsInv /\ AttemptsInv
<1> SUFFICES ASSUME Init PROVE SlotsInv /\ AttemptsInv
  OBVIOUS
<1>1. DOMAIN queue = {} /\ \A w \in Worker : item[w] = NoItem /\ pc[w] = "idle"
  BY DEF Init
<1>2. SlotsInv
  BY <1>1 DEF SlotsInv, Slot, Holds, HoldsValid, NoItem, Unoccupied
<1>3. \A a \in Row : Going(a) = {}
  BY <1>1 DEF Going
<1>4. AttemptsInv
  <2> SUFFICES ASSUME NEW a \in Row PROVE Bounded(a)
    BY DEF AttemptsInv
  <2>1. starts[a] = 0 /\ Cardinality(Going(a)) = 0 /\ a \notin DOMAIN queue
    BY <1>1, <1>3, FS_EmptySet DEF Init
  <2>2. MaxAttempts \in Nat
    BY WorkerAssumption
  <2> QED BY <2>1, <2>2 DEF Bounded
<1> QED BY <1>2, <1>4

(* What the slots know and the count of attempts are invariants: no fetch, *)
(* expiry, uncounted return, late start or crash breaks them.              *)
THEOREM LimitsInvariant == Spec => [](SlotsInv /\ AttemptsInv)
<1>1. IndInv /\ IndInv' /\ SlotsInv /\ AttemptsInv /\ [Next]_vars => (SlotsInv /\ AttemptsInv)'
  BY SlotsStep, AttemptsStep
<1> QED BY <1>1, InitLimits, WorkerInvariant, PTL DEF Spec

(* execute_activity invokes the handler of an activity at most             *)
(* max_attempts times, whatever the slots do.                              *)
THEOREM StartsBoundedTheorem == Spec => []StartsBounded
<1>1. IndInv /\ AttemptsInv => StartsBounded
  <2> SUFFICES ASSUME IndInv, AttemptsInv, NEW a \in Row PROVE starts[a] <= MaxAttempts
    BY DEF StartsBounded
  <2>1. starts[a] + Cardinality(Going(a)) <= MaxAttempts
    BY DEF AttemptsInv, Bounded
  <2>2. Cardinality(Going(a)) \in Nat
    <3>1. Going(a) \subseteq Worker
      BY DEF Going
    <3> QED BY <3>1, Counting
  <2>3. starts[a] \in Nat /\ MaxAttempts \in Nat
    BY WorkerAssumption DEF IndInv, TypeOK
  <2> QED BY <2>1, <2>2, <2>3
<1> QED BY <1>1, LimitsInvariant, WorkerInvariant, PTL

(* The cancellation branch of run_activity_with_cancellation acknowledges  *)
(* only items that their orchestration cancelled, if a renewal fails for   *)
(* no other reason than a lost lock: a signalled slot has no lock left to  *)
(* acknowledge under, so an item another slot took over is not dropped.    *)
THEOREM DropsOnlyCancelledTheorem == Spec => []DropsOnlyCancelled
<1>1. Init => DropsOnlyCancelled
  BY DEF Init, DropsOnlyCancelled
<1>2. ASSUME SlotsInv, DropsOnlyCancelled, [Next]_vars
      PROVE  DropsOnlyCancelled'
  <2> SUFFICES ASSUME ~RenewErrors PROVE dropped' \subseteq cancelled'
    BY DEF DropsOnlyCancelled
  <2>1. \A w \in Worker : ~AckNone(w)
    BY <1>2 DEF AckNone, AckCommit, SlotsInv, Slot
  <2>2. dropped' = dropped
    BY <1>2, <2>1 DEF Next, vars, Schedule, Cancel, Advance, Poll, Fetch, FetchNone, Guard, Overflow,
         DropGuard, GiveBack, Poison, Start, Unregistered, Stop, AckResult, AckFailed,
         AbandonFailed, Finish, Renew, RenewError, Stall, RenewSessions, CleanupSessions,
         StopManaging, Crash, Tick
  <2>3. cancelled \subseteq cancelled'
    BY <1>2, <2>1 DEF Next, vars, Schedule, Cancel, Advance, Poll, Fetch, FetchNone, Guard, Overflow,
         DropGuard, GiveBack, Poison, Start, Unregistered, Stop, AckResult, AckFailed,
         AbandonFailed, Finish, Renew, RenewError, Stall, RenewSessions, CleanupSessions,
         StopManaging, Crash, Tick
  <2> QED BY <1>2, <2>2, <2>3 DEF DropsOnlyCancelled
<1> QED BY <1>1, <1>2, LimitsInvariant, PTL DEF Spec

----------------------------------------------------------------------------
(* The sessions of a runtime. *)

(* The sessions whose activities a runtime executes. *)
Executing(h) ==
    {item[w].sess : w \in {v \in Worker : Host[v] = h /\ pc[v] = "running"}} \ {NoSession}

(* The sessions named by some slots are finitely many. *)
LEMMA SessionsFinite ==
    ASSUME NEW W \in SUBSET Worker
    PROVE  IsFiniteSet({item[w].sess : w \in W} \ {NoSession})
<1>1. IsFiniteSet(W)
  BY WorkerAssumption, FS_Subset
<1> DEFINE T == {item[w].sess : w \in W}
<1> DEFINE f == [w \in W |-> item[w].sess]
<1>2. f \in Surjection(W, T)
  BY DEF Surjection
<1>3. IsFiniteSet(T)
  BY <1>1, <1>2, FS_Surjection
<1> QED BY <1>3, FS_Subset

(* A slot executes after a step what it executed before, unless the step   *)
(* invokes its handler.                                                    *)
LEMMA ExecutingStep ==
    ASSUME TypeOK, [Next]_vars, NEW v \in Worker, pc'[v] = "running"
    PROVE  item'[v].sess = item[v].sess /\ (pc[v] = "running" \/ Start(v))
<1>1. pc \in [Worker -> Stage] /\ item \in [Worker -> Item] /\ item[v] \in Item
  BY DEF TypeOK
<1>2. \A b \in BOOLEAN : Renewing(item[v], b).sess = item[v].sess
  BY <1>1 DEF Renewing, Item
<1>3. Signalled(item[v]).sess = item[v].sess
  BY <1>1 DEF Signalled, Item
<1>4. ASSUME NEW w \in Worker,
             Advance(w) \/ Finish(w) \/ Renew(w) \/ RenewError(w) \/ Stall(w)
      PROVE  item'[v].sess = item[v].sess /\ (pc[v] = "running" \/ Start(v))
  <2>1. CASE v # w
    <3>1. item'[v] = item[v] /\ pc'[v] = pc[v]
      BY <1>1, <1>4, <2>1
         DEF Advance, Poll, Fetch, FetchNone, Guard, Overflow, DropGuard, GiveBack,
             Poison, Start, Unregistered, Stop, AckResult, AckNone, AckFailed, AbandonFailed,
             Finish, Renew, RenewError, Stall, Idle, Signal
    <3> QED BY <3>1
  <2>2. CASE v = w /\ Start(w)
    BY <1>1, <1>2, <2>2 DEF Start
  <2>3. CASE v = w /\ (Renew(w) \/ RenewError(w) \/ Stall(w))
    BY <1>1, <1>2, <1>3, <2>3 DEF Renew, RenewError, Stall, Signal
  <2>4. v = w => Start(w) \/ Renew(w) \/ RenewError(w) \/ Stall(w)
    BY <1>1, <1>4
       DEF Advance, Poll, Fetch, FetchNone, Guard, Overflow, DropGuard, GiveBack,
           Poison, Unregistered, Stop, AckResult, AckNone, AckFailed, AbandonFailed, Finish, Idle
  <2> QED BY <2>1, <2>2, <2>3, <2>4
<1>5. CASE \E h \in Runtime : Crash(h)
  BY <1>1, <1>5 DEF Crash
<1>6. CASE ~\E w \in Worker :
             Advance(w) \/ Finish(w) \/ Renew(w) \/ RenewError(w) \/ Stall(w)
  BY <1>5, <1>6 DEF Next, vars, Schedule, Cancel, RenewSessions, CleanupSessions,
                    StopManaging, Tick
<1> QED BY <1>4, <1>6

(* A runtime never executes activities of more sessions than               *)
(* max_sessions_per_runtime: what passes the check of the guard is among   *)
(* the sessions that the tracker counts, and it counts all that execute.   *)
THEOREM SessionLimitTheorem == Spec => []SessionLimit
<1>1. Init => SessionLimit
  <2> SUFFICES ASSUME Init, NEW h \in Runtime PROVE Cardinality(Executing(h)) <= MaxSessions
    BY DEF SessionLimit, Executing
  <2>1. Executing(h) = {}
    BY DEF Init, Executing
  <2>2. MaxSessions \in Nat
    BY WorkerAssumption
  <2> QED BY <2>1, <2>2, FS_EmptySet
<1>2. ASSUME TypeOK, SessionLimit, [Next]_vars
      PROVE  SessionLimit'
  <2> SUFFICES ASSUME NEW h \in Runtime PROVE Cardinality(Executing(h)') <= MaxSessions
    BY DEF SessionLimit, Executing
  <2>1. /\ Cardinality(Executing(h)) <= MaxSessions
        /\ IsFiniteSet(Executing(h)) /\ IsFiniteSet(InFlight(h))
    BY <1>2, SessionsFinite DEF SessionLimit, Executing, InFlight
  <2>2. ASSUME NEW S, IsFiniteSet(S), Cardinality(S) <= MaxSessions, Executing(h)' \subseteq S
        PROVE  Cardinality(Executing(h)') <= MaxSessions
    <3>1. Cardinality(Executing(h)') <= Cardinality(S) /\ IsFiniteSet(Executing(h)')
      BY <2>2, FS_Subset
    <3>2. Cardinality(Executing(h)') \in Nat /\ Cardinality(S) \in Nat /\ MaxSessions \in Nat
      BY <2>2, <3>1, FS_CardinalityType, WorkerAssumption
    <3> QED BY <2>2, <3>1, <3>2
  <2>3. CASE \E w \in Worker : Start(w) /\ Host[w] = h /\ item[w].sess # NoSession
    <3>1. PICK w \in Worker : Start(w) /\ Host[w] = h /\ item[w].sess # NoSession
      BY <2>3
    <3>2. Cardinality(InFlight(h)) <= MaxSessions
      <4>1. ~(Cardinality(InFlight(h)) > MaxSessions)
        BY <3>1 DEF Start, OverCapacity
      <4>2. Cardinality(InFlight(h)) \in Nat /\ MaxSessions \in Nat
        BY <2>1, FS_CardinalityType, WorkerAssumption
      <4> QED BY <4>1, <4>2
    <3>3. \A v \in Worker : pc'[v] = "running" =>
              item'[v].sess = item[v].sess /\ pc[v] \in {"running", "guarded"}
      BY <1>2, ExecutingStep DEF Start
    <3>4. Executing(h)' \subseteq InFlight(h)
      BY <3>3 DEF Executing, InFlight
    <3> QED BY <2>1, <2>2, <3>2, <3>4
  <2>4. CASE ~\E w \in Worker : Start(w) /\ Host[w] = h /\ item[w].sess # NoSession
    <3>1. \A v \in Worker : pc'[v] = "running" /\ Host[v] = h /\ item'[v].sess # NoSession =>
              item'[v].sess = item[v].sess /\ pc[v] = "running"
      BY <1>2, <2>4, ExecutingStep
    <3>2. Executing(h)' \subseteq Executing(h)
      BY <3>1 DEF Executing
    <3> QED BY <2>1, <2>2, <3>2
  <2> QED BY <2>3, <2>4
<1>3. Spec => []TypeOK
  <2>1. IndInv => TypeOK
    BY DEF IndInv
  <2> QED BY <2>1, WorkerInvariant, PTL
<1> QED BY <1>1, <1>2, <1>3, PTL DEF Spec

============================================================================
