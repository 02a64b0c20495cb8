------------------------ MODULE ReplayEngine_proofs -------------------------
(***************************************************************************)
(* Proofs about the replay engine, for every set of rounds that the code   *)
(* may be made of and every bound on messages, events and cancellations.   *)
(*                                                                         *)
(* The loop over the history is a function of where it is (After), and     *)
(* what is known of a place of the loop (Good) holds whatever history it   *)
(* runs over.  The invariant Inv says it of the turn that is running.      *)
(***************************************************************************)
EXTENDS ReplayEngine, Subsequence_proofs

-----------------------------------------------------------------------------
(* The context and the actions that are not matched yet.                   *)

CtxFields ==
  {"seen", "awaits", "wait", "got", "kinds", "bound", "results", "subs", "arrivals",
   "cancelled", "qsubs", "qarrivals", "qcancelled", "dropped", "output"}

Acts == Seq(Awaited \cup {"Note"})

(* The tokens whose actions have a future. *)
Asked(c) == {t \in DOMAIN c.kinds : c.kinds[t] \in Awaited}

(* The first m tokens are bound, notes perhaps not. What the code waits    *)
(* for is the latest that it has asked for.                                *)
Core(c, m) ==
  /\ DOMAIN c = CtxFields
  /\ c.kinds \in Acts
  /\ m \in 0..Len(c.kinds)
  /\ DOMAIN c.bound \subseteq 1..m
  /\ \A t \in Asked(c) : t <= m => t \in DOMAIN c.bound
  /\ DOMAIN c.results \subseteq DOMAIN c.bound
  /\ c.dropped \subseteq Asked(c)
  /\ Listed(c.awaits) /\ Range(c.awaits) \subseteq Asked(c)
  /\ DOMAIN c.got = Range(c.awaits)
  /\ c.wait \in {"all", "any"}
  /\ \A s \in Range(c.awaits), t \in Asked(c) : s < t => t \in Range(c.awaits)

(* Later tokens are bound to later events, and those exist. *)
Ids(c, top) ==
  /\ \A t \in DOMAIN c.bound : c.bound[t] \in 1..top /\ c.kinds[t] # "ContinueAsNew"
  /\ \A s, t \in DOMAIN c.bound : s < t => c.bound[s] < c.bound[t]

(* The actions that follow the m-th, in order. *)
Emitted(c, m, fifo) ==
  /\ Listed(fifo) /\ m + Len(fifo) = Len(c.kinds)
  /\ \A x \in DOMAIN fifo : fifo[x].token = m + x /\ fifo[x].kind = c.kinds[m + x]

RoundOk(r) ==
  /\ r.acts \in Acts
  /\ r.acts # <<>> => \E x \in DOMAIN r.acts : r.acts[x] \in Awaited
  /\ r.wait \in {"all", "any"} /\ r.flip \in BOOLEAN

CodeOk(k) == \A s \in DOMAIN k : RoundOk(k[s])

(* What is never taken back. *)
Grown(c, d) ==
  /\ \A t \in DOMAIN c.kinds : t \in DOMAIN d.kinds /\ d.kinds[t] = c.kinds[t]
  /\ \A t \in DOMAIN c.bound : t \in DOMAIN d.bound /\ d.bound[t] = c.bound[t]
  /\ c.dropped \subseteq d.dropped

(* More has been dropped, and what was has the same ids. *)
LEMMA GrownDrops ==
    ASSUME NEW c, NEW d, Grown(c, d), c.dropped \subseteq DOMAIN c.kinds
    PROVE  \A kind : DroppedIds(c, kind) \subseteq DroppedIds(d, kind)
  BY DEF Grown, DroppedIds

(* The new context that a turn begins with. *)
LEMMA NewCore == Core(NewContext, 0) /\ \A top \in Nat : Ids(NewContext, top)
<1>1. /\ NewContext.kinds = <<>> /\ NewContext.bound = <<>> /\ NewContext.results = <<>>
      /\ NewContext.dropped = {} /\ NewContext.awaits = <<>> /\ NewContext.got = <<>>
      /\ NewContext.wait = "all" /\ DOMAIN NewContext = CtxFields
  BY DEF NewContext, CtxFields
<1>2. DOMAIN <<>> = {} /\ Len(<<>>) = 0 /\ <<>> \in Acts
  BY DEF Acts
<1> QED BY <1>1, <1>2, NoRow DEF Core, Ids, Asked

(* Turning a list around. *)
LEMMA ReverseRows ==
    ASSUME NEW q, Listed(q)
    PROVE  Listed(Reverse(q)) /\ Range(Reverse(q)) = Range(q) /\ Len(Reverse(q)) = Len(q)
<1>1. Len(q) \in Nat /\ DOMAIN q = 1..Len(q)
  BY DEF Listed
<1> DEFINE r == Reverse(q)
<1>2. r = [i \in 1..Len(q) |-> q[(Len(q) - i) + 1]]
  BY DEF Reverse
<1>3. \A i \in 1..Len(q) : (Len(q) - i) + 1 \in 1..Len(q) /\ (Len(q) - ((Len(q) - i) + 1)) + 1 = i
  BY <1>1
<1>4. DOMAIN r = 1..Len(q) /\ \A i \in 1..Len(q) : r[i] = q[(Len(q) - i) + 1]
  BY <1>2
<1>5. Range(r) = Range(q)
  BY <1>1, <1>3, <1>4 DEF Range
<1>6. r \in Seq(Range(q)) /\ Len(r) = Len(q)
  <2>1. r \in [1..Len(q) -> Range(q)]
    BY <1>1, <1>2, <1>3 DEF Range
  <2> QED BY <1>1, <2>1
<1> QED BY <1>5, <1>6 DEF Listed

(* The kinds s and behind them the kinds u. *)
Appended(s, u, v) ==
  /\ Len(s) \in Nat /\ Len(u) \in Nat
  /\ DOMAIN s = 1..Len(s) /\ DOMAIN u = 1..Len(u)
  /\ v \in Acts /\ Len(v) = Len(s) + Len(u)
  /\ DOMAIN v = 1..(Len(s) + Len(u))
  /\ \A k \in 1..Len(s) : v[k] = s[k]
  /\ \A k \in 1..Len(u) : v[Len(s) + k] = u[k]

(* The kinds of actions emitted one after another. *)
LEMMA ActsConcat == ASSUME NEW s \in Acts, NEW u \in Acts PROVE Appended(s, u, s \o u)
<1> DEFINE S == Awaited \cup {"Note"}
<1>1. Acts = Seq(S)
  BY DEF Acts
<1>2. s \in Seq(S) /\ u \in Seq(S)
  BY <1>1
<1> HIDE DEF S
<1> QED BY <1>1, <1>2, ConcatFacts DEF Appended

(* What a round leaves of the context that it is entered in. *)
Entered(c, d, r) ==
  /\ DOMAIN d = DOMAIN c
  /\ d.seen = Seen(c) /\ d.wait = r.wait /\ d.output = (r.acts = <<>>)
  /\ d.kinds = c.kinds \o r.acts
  /\ Listed(d.awaits)
  /\ Range(d.awaits) =
       {t \in (Len(c.kinds) + 1)..Len(d.kinds) : d.kinds[t] \in Awaited}
  /\ d.got = [t \in Range(d.awaits) |-> None]
  /\ c.dropped \subseteq d.dropped
  /\ d.dropped \subseteq c.dropped \cup Range(c.awaits)
  /\ c.wait = "all" => d.dropped = c.dropped
  /\ d.bound = c.bound /\ d.results = c.results
  /\ d.subs = c.subs /\ d.arrivals = c.arrivals /\ d.cancelled = c.cancelled
  /\ d.qsubs = c.qsubs /\ d.qarrivals = c.qarrivals /\ d.qcancelled = c.qcancelled

(* Entering a round. *)
LEMMA EnterFacts ==
    ASSUME NEW c, NEW m, Core(c, m), NEW r, RoundOk(r)
    PROVE  /\ Entered(c, Enter(c, r).ctx, r)
           /\ LET e == Enter(c, r).emitted
              IN  /\ Listed(e) /\ Len(e) = Len(r.acts)
                  /\ \A x \in 1..Len(r.acts) :
                       e[x].token = Len(c.kinds) + x /\ e[x].kind = r.acts[x]
<1> DEFINE n == Len(c.kinds)
           l == Len(r.acts)
           own == [x \in DOMAIN r.acts |-> n + x]
           K == {x \in DOMAIN own : r.acts[x] \in Awaited}
           awaits == Pick(own, K)
           losers == IF c.wait = "any" THEN Range(c.awaits) \ {Winner(c)} ELSE {}
           d == Enter(c, r).ctx
           e == Enter(c, r).emitted
<1>1. /\ n \in Nat /\ l \in Nat /\ DOMAIN r.acts = 1..l /\ r.acts \in Acts
      /\ c.kinds \in Acts /\ r.flip \in BOOLEAN
      /\ DOMAIN c = CtxFields
  BY DEF Core, RoundOk
<1>2. d = [c EXCEPT !.seen = Seen(c),
                    !.dropped = @ \cup losers,
                    !.kinds = @ \o r.acts,
                    !.awaits = IF r.flip THEN Reverse(awaits) ELSE awaits,
                    !.wait = r.wait,
                    !.got = [t \in Range(awaits) |-> None],
                    !.output = r.acts = <<>>]
  BY DEF Enter
<1>3. e = [x \in 1..l |-> [token |-> own[x], kind |-> r.acts[x], data |-> Seen(c)]]
  BY <1>1 DEF Enter
<1>4. Listed(own)
  <2>1. own = [x \in 1..l |-> own[x]]
    BY <1>1
  <2> HIDE DEF own, l
  <2> QED BY <1>1, <2>1, MappedRows
<1>5. DOMAIN own = 1..l /\ \A x \in 1..l : own[x] = n + x
  BY <1>1
<1>6. Listed(awaits) /\ Range(awaits) = {own[x] : x \in K}
  <2>1. K \in SUBSET DOMAIN own
    OBVIOUS
  <2> HIDE DEF own, K
  <2> QED BY <1>4, <2>1, PickRows
<1>7. /\ c.kinds \o r.acts \in Acts /\ Len(c.kinds \o r.acts) = n + l
      /\ \A x \in 1..l : (c.kinds \o r.acts)[n + x] = r.acts[x]
  <2>1. Appended(c.kinds, r.acts, c.kinds \o r.acts)
    BY <1>1, ActsConcat
  <2> QED BY <2>1 DEF Appended
<1>8. Range(awaits) = {t \in (n + 1)..(n + l) : (c.kinds \o r.acts)[t] \in Awaited}
  <2> DEFINE R == {t \in (n + 1)..(n + l) : (c.kinds \o r.acts)[t] \in Awaited}
  <2>1. ASSUME NEW t \in Range(awaits) PROVE t \in R
    <3>1. PICK x \in K : t = own[x]
      BY <1>6
    <3>2. x \in 1..l /\ t = n + x /\ r.acts[x] \in Awaited
      BY <1>5, <3>1
    <3>3. (c.kinds \o r.acts)[n + x] \in Awaited
      BY <1>7, <3>2
    <3>4. n + x \in (n + 1)..(n + l)
      <4> HIDE DEF n, l
      <4> QED BY <1>1, <3>2
    <3> QED BY <3>2, <3>3, <3>4
  <2>2. ASSUME NEW t \in R PROVE t \in Range(awaits)
    <3>1. t - n \in 1..l /\ n + (t - n) = t
      <4> HIDE DEF n, l
      <4> QED BY <1>1
    <3>2. r.acts[t - n] \in Awaited
      BY <1>7, <3>1
    <3>3. t - n \in K /\ own[t - n] = t
      BY <1>5, <3>1, <3>2
    <3> HIDE DEF own, K
    <3> QED BY <1>6, <3>3
  <2> HIDE DEF R
  <2>3. Range(awaits) = R
    BY <2>1, <2>2
  <2> QED BY <2>3 DEF R
<1> HIDE DEF own, K
<1> DEFINE a == IF r.flip THEN Reverse(awaits) ELSE awaits
<1>9. Listed(a) /\ Range(a) = Range(awaits)
  <2> HIDE DEF awaits
  <2> QED BY <1>1, <1>6, ReverseRows
<1>10. losers \subseteq Range(c.awaits) /\ (c.wait = "all" => losers = {})
  OBVIOUS
<1> HIDE DEF awaits, losers
<1>11. /\ DOMAIN d = CtxFields /\ d.seen = Seen(c) /\ d.wait = r.wait /\ d.output = (r.acts = <<>>)
       /\ d.kinds = c.kinds \o r.acts /\ d.awaits = a
       /\ d.got = [t \in Range(awaits) |-> None] /\ d.dropped = c.dropped \cup losers
       /\ d.bound = c.bound /\ d.results = c.results
       /\ d.subs = c.subs /\ d.arrivals = c.arrivals /\ d.cancelled = c.cancelled
       /\ d.qsubs = c.qsubs /\ d.qarrivals = c.qarrivals /\ d.qcancelled = c.qcancelled
  <2> HIDE DEF d
  <2> QED BY <1>1, <1>2 DEF CtxFields
<1>12. Entered(c, d, r)
  <2> HIDE DEF d, a
  <2> QED BY <1>1, <1>7, <1>8, <1>9, <1>10, <1>11 DEF Entered
<1>13. /\ Listed(e) /\ Len(e) = l
       /\ \A x \in 1..l : e[x].token = n + x /\ e[x].kind = r.acts[x]
  <2>1. e = [x \in 1..l |-> e[x]]
    BY <1>3
  <2>2. Listed(e)
    <3> HIDE DEF e, l
    <3> QED BY <1>1, <2>1, MappedRows
  <2>3. Len(e) = l
    <3> HIDE DEF e
    <3> QED BY <1>1, <2>1
  <2>4. \A x \in 1..l : e[x].token = n + x /\ e[x].kind = r.acts[x]
    <3> HIDE DEF e
    <3> QED BY <1>3, <1>5
  <2> QED BY <2>2, <2>3, <2>4
<1> QED BY <1>12, <1>13

(* A round keeps the shape of the context. *)
LEMMA EnteredCore ==
    ASSUME NEW c, NEW m, Core(c, m), NEW r, RoundOk(r), NEW d, Entered(c, d, r)
    PROVE  /\ Core(d, m) /\ Grown(c, d)
           /\ \A top : Ids(c, top) => Ids(d, top)
           /\ Len(d.kinds) = Len(c.kinds) + Len(r.acts)
<1> DEFINE n == Len(c.kinds)
           l == Len(r.acts)
<1>1. /\ n \in Nat /\ l \in Nat /\ DOMAIN c.kinds = 1..n /\ m \in 0..n
      /\ d.kinds \in Acts /\ Len(d.kinds) = n + l
      /\ DOMAIN d.kinds = 1..(n + l)
      /\ \A t \in 1..n : d.kinds[t] = c.kinds[t]
  <2>1. /\ c.kinds \in Acts /\ r.acts \in Acts
        /\ m \in 0..Len(c.kinds) /\ d.kinds = c.kinds \o r.acts
    BY DEF Core, RoundOk, Entered
  <2>2. Appended(c.kinds, r.acts, d.kinds)
    BY <2>1, ActsConcat
  <2> QED BY <2>1, <2>2 DEF Appended
<1> HIDE DEF n, l
<1>2. \A t : t \in Asked(d) /\ t <= m => t \in Asked(c)
  BY <1>1 DEF Asked
<1>3. Asked(c) \subseteq Asked(d)
  BY <1>1 DEF Asked
<1>4. \A t : t \in Range(d.awaits) <=> t \in Asked(d) /\ t > n
  <2>1. Range(d.awaits) = {t \in (n + 1)..(n + l) : d.kinds[t] \in Awaited}
    BY <1>1 DEF Entered, n
  <2>2. Asked(d) = {t \in 1..(n + l) : d.kinds[t] \in Awaited}
    BY <1>1 DEF Asked
  <2>3. \A t : t \in (n + 1)..(n + l) <=> t \in 1..(n + l) /\ t > n
    BY <1>1
  <2> QED BY <2>1, <2>2, <2>3
<1>5. \A s \in Range(d.awaits), t \in Asked(d) : s < t => t \in Range(d.awaits)
  BY <1>1, <1>4 DEF Asked
<1>6. d.dropped \subseteq Asked(d)
  BY <1>3 DEF Entered, Core
<1>7. DOMAIN d.got = Range(d.awaits)
  BY DEF Entered
<1>8. Core(d, m)
  <2>1. m \in 0..Len(d.kinds)
    BY <1>1
  <2>2. \A t \in Asked(d) : t <= m => t \in DOMAIN d.bound
    BY <1>2 DEF Entered, Core
  <2>3. d.wait \in {"all", "any"}
    BY DEF Entered, RoundOk
  <2> QED BY <1>1, <1>4, <1>5, <1>6, <1>7, <2>1, <2>2, <2>3 DEF Core, Entered
<1>9. Grown(c, d)
  <2>1. \A t \in DOMAIN c.kinds : t \in DOMAIN d.kinds /\ d.kinds[t] = c.kinds[t]
    BY <1>1
  <2> QED BY <2>1 DEF Grown, Entered
<1>10. ASSUME NEW top, Ids(c, top) PROVE Ids(d, top)
  <2>1. \A t \in DOMAIN c.bound : t \in 1..n
    BY <1>1 DEF Core
  <2>2. \A t \in DOMAIN c.bound : d.kinds[t] = c.kinds[t]
    BY <1>1, <2>1
  <2> QED BY <1>10, <2>2 DEF Ids, Entered
<1> QED BY <1>1, <1>8, <1>9, <1>10 DEF n, l

(* Actions behind actions. *)
LEMMA EmittedMore ==
    ASSUME NEW c, NEW m \in Nat, NEW f, Emitted(c, m, f), c.kinds \in Acts,
           NEW r, NEW d, Appended(c.kinds, r.acts, d.kinds), NEW e,
           Listed(e), Len(e) = Len(r.acts),
           \A x \in 1..Len(r.acts) : e[x].token = Len(c.kinds) + x /\ e[x].kind = r.acts[x]
    PROVE  Emitted(d, m, f \o e)
<1> DEFINE n == Len(c.kinds)
           l == Len(r.acts)
           g == f \o e
<1>1. /\ n \in Nat /\ l \in Nat /\ DOMAIN c.kinds = 1..n
      /\ Len(d.kinds) = n + l
      /\ \A t \in 1..n : d.kinds[t] = c.kinds[t]
      /\ \A x \in 1..l : d.kinds[n + x] = r.acts[x]
  BY DEF Appended
<1>2. Listed(f) /\ m + Len(f) = n /\ DOMAIN f = 1..Len(f)
  BY DEF Emitted, Listed
<1>0. Len(e) = l
  OBVIOUS
<1> HIDE DEF l, n
<1>3. /\ Listed(g) /\ Len(g) = Len(f) + l /\ Len(f) \in Nat
      /\ DOMAIN g = 1..(Len(f) + l)
      /\ \A x \in 1..Len(f) : g[x] = f[x]
      /\ \A x \in (Len(f) + 1)..(Len(f) + l) : g[x] = e[x - Len(f)]
  <2>1. /\ Listed(f \o e) /\ Len(f \o e) = Len(f) + Len(e)
        /\ Len(f) \in Nat
        /\ DOMAIN (f \o e) = 1..(Len(f) + Len(e))
        /\ \A k \in 1..Len(f) : (f \o e)[k] = f[k]
        /\ \A k \in (Len(f) + 1)..(Len(f) + Len(e)) : (f \o e)[k] = e[k - Len(f)]
    BY <1>2, ConcatList
  <2> QED BY <1>0, <2>1 DEF g
<1> HIDE DEF g
<1>4. ASSUME NEW x \in DOMAIN g PROVE g[x].token = m + x /\ g[x].kind = d.kinds[m + x]
  <2>0. x \in 1..Len(f) \/ x \in (Len(f) + 1)..(Len(f) + l)
    BY <1>1, <1>3, <1>4
  <2>1. CASE x \in 1..Len(f)
    <3>1. g[x].token = m + x /\ g[x].kind = c.kinds[m + x] /\ m + x \in 1..n
      BY <1>1, <1>2, <1>3, <2>1 DEF Emitted
    <3> QED BY <1>1, <3>1
  <2>2. CASE x \in (Len(f) + 1)..(Len(f) + l)
    <3> DEFINE y == x - Len(f)
    <3>1. y \in 1..l /\ n + y = m + x
      BY <1>1, <1>2, <1>3, <2>2
    <3>2. g[x] = e[y] /\ e[y].token = n + y /\ e[y].kind = r.acts[y] /\ d.kinds[n + y] = r.acts[y]
      BY <1>1, <1>3, <2>2, <3>1 DEF n, l
    <3> HIDE DEF y
    <3> QED BY <3>1, <3>2
  <2> QED BY <2>0, <2>1, <2>2
<1>5. m + Len(g) = Len(d.kinds)
  <2>1. Len(g) = Len(f) + l /\ Len(f) \in Nat
    BY <1>3
  <2>2. m + Len(f) = n
    BY <1>2
  <2>3. n \in Nat /\ l \in Nat /\ Len(d.kinds) = n + l
    BY <1>1
  <2> QED BY <2>1, <2>2, <2>3
<1> QED BY <1>3, <1>4, <1>5 DEF Emitted, g

(* What a poll that comes too early leaves. *)
Polled(c, d) ==
  /\ DOMAIN d = DOMAIN c
  /\ \A f \in DOMAIN c \ {"got"} : d[f] = c[f]
  /\ d.got = IF c.wait = "any" THEN c.got ELSE [t \in DOMAIN c.got |-> Given(c, t)]

(* A poll enters a round or waits on. *)
LEMMA PollCases ==
    ASSUME NEW c, NEW m, Core(c, m), NEW k, CodeOk(k), Ready(c) => Seen(c) \in DOMAIN k
    PROVE  \/ /\ Ready(c) /\ RoundOk(k[Seen(c)]) /\ poll(c, k) = Enter(c, k[Seen(c)])
              /\ Entered(c, poll(c, k).ctx, k[Seen(c)])
           \/ ~Ready(c) /\ Polled(c, poll(c, k).ctx) /\ poll(c, k).emitted = <<>>
<1>1. ASSUME Ready(c)
      PROVE  /\ RoundOk(k[Seen(c)]) /\ poll(c, k) = Enter(c, k[Seen(c)])
             /\ Entered(c, poll(c, k).ctx, k[Seen(c)])
  <2>1. RoundOk(k[Seen(c)])
    BY <1>1 DEF CodeOk
  <2>2. poll(c, k) = Enter(c, k[Seen(c)])
    BY <1>1 DEF poll
  <2> DEFINE r == k[Seen(c)]
  <2>3. RoundOk(r) /\ poll(c, k) = Enter(c, r)
    BY <2>1, <2>2
  <2> HIDE DEF r
  <2>4. Entered(c, Enter(c, r).ctx, r)
    BY <2>3, EnterFacts
  <2>5. Entered(c, poll(c, k).ctx, r)
    BY <2>3, <2>4
  <2> QED BY <2>1, <2>2, <2>5 DEF r
<1>2. ASSUME ~Ready(c)
      PROVE  Polled(c, poll(c, k).ctx) /\ poll(c, k).emitted = <<>>
  <2> DEFINE d == IF c.wait = "any" THEN c ELSE [c EXCEPT !.got = [t \in DOMAIN c.got |-> Given(c, t)]]
  <2>1. poll(c, k) = [ctx |-> d, emitted |-> <<>>]
    BY <1>2 DEF poll
  <2>2. DOMAIN c = CtxFields
    BY DEF Core
  <2>3. Polled(c, d)
    BY <2>2 DEF Polled, CtxFields
  <2> HIDE DEF d
  <2> QED BY <2>1, <2>3
<1> QED BY <1>1, <1>2

(* Waiting on keeps the shape of the context. *)
LEMMA PolledCore ==
    ASSUME NEW c, NEW m, Core(c, m), NEW d, Polled(c, d)
    PROVE  /\ Core(d, m) /\ Grown(c, d)
           /\ \A top : Ids(c, top) => Ids(d, top)
           /\ \A f : Emitted(c, m, f) => Emitted(d, m, f)
<1>1. /\ d.kinds = c.kinds /\ d.bound = c.bound /\ d.results = c.results
      /\ d.dropped = c.dropped /\ d.awaits = c.awaits /\ d.wait = c.wait
      /\ DOMAIN d = CtxFields
  BY DEF Core, CtxFields, Polled
<1>2. DOMAIN d.got = DOMAIN c.got
  BY DEF Polled
<1>3. Asked(d) = Asked(c)
  BY <1>1 DEF Asked
<1>4. Core(d, m)
  BY <1>1, <1>2, <1>3 DEF Core
<1>5. Grown(c, d)
  BY <1>1 DEF Grown
<1>6. \A top : Ids(c, top) => Ids(d, top)
  BY <1>1 DEF Ids
<1>7. \A f : Emitted(c, m, f) => Emitted(d, m, f)
  BY <1>1 DEF Emitted
<1> QED BY <1>4, <1>5, <1>6, <1>7

(* A poll keeps the shape of the context and of the actions. *)
LEMMA PollCore ==
    ASSUME NEW c, NEW m, Core(c, m), NEW k, CodeOk(k), Ready(c) => Seen(c) \in DOMAIN k,
           NEW f, Emitted(c, m, f)
    PROVE  /\ Core(poll(c, k).ctx, m) /\ Grown(c, poll(c, k).ctx)
           /\ \A top : Ids(c, top) => Ids(poll(c, k).ctx, top)
           /\ Emitted(poll(c, k).ctx, m, f \o poll(c, k).emitted)
           /\ poll(c, k).ctx.bound = c.bound /\ poll(c, k).ctx.results = c.results
           /\ Listed(poll(c, k).emitted)
<1>1. ASSUME Ready(c), RoundOk(k[Seen(c)]), poll(c, k) = Enter(c, k[Seen(c)]),
             Entered(c, poll(c, k).ctx, k[Seen(c)])
      PROVE  /\ Core(poll(c, k).ctx, m) /\ Grown(c, poll(c, k).ctx)
             /\ \A top : Ids(c, top) => Ids(poll(c, k).ctx, top)
             /\ Emitted(poll(c, k).ctx, m, f \o poll(c, k).emitted)
             /\ poll(c, k).ctx.bound = c.bound /\ poll(c, k).ctx.results = c.results
             /\ Listed(poll(c, k).emitted)
  <2> DEFINE r == k[Seen(c)]
             p == poll(c, k)
             d == p.ctx
             e == p.emitted
  <2>1. RoundOk(r) /\ p = Enter(c, r) /\ Entered(c, d, r)
    BY <1>1
  <2>2. /\ Listed(Enter(c, r).emitted) /\ Len(Enter(c, r).emitted) = Len(r.acts)
        /\ \A x \in 1..Len(r.acts) : /\ Enter(c, r).emitted[x].token = Len(c.kinds) + x
                                     /\ Enter(c, r).emitted[x].kind = r.acts[x]
    <3> HIDE DEF r
    <3> QED BY <2>1, EnterFacts
  <2>3. /\ Listed(e) /\ Len(e) = Len(r.acts)
        /\ \A x \in 1..Len(r.acts) : e[x].token = Len(c.kinds) + x /\ e[x].kind = r.acts[x]
    BY <2>1, <2>2
  <2> HIDE DEF r, p
  <2> HIDE DEF d, e
  <2>4. Core(d, m) /\ Grown(c, d) /\ \A top : Ids(c, top) => Ids(d, top)
    BY <2>1, EnteredCore
  <2>5. Appended(c.kinds, r.acts, d.kinds)
    <3>1. c.kinds \in Acts /\ r.acts \in Acts /\ d.kinds = c.kinds \o r.acts
      BY <2>1 DEF Core, RoundOk, Entered
    <3> QED BY <3>1, ActsConcat
  <2>6. c.kinds \in Acts /\ m \in Nat
    BY DEF Core
  <2>7. Emitted(d, m, f \o e)
    BY <2>3, <2>5, <2>6, EmittedMore
  <2>8. d.bound = c.bound /\ d.results = c.results
    BY <2>1 DEF Entered
  <2> QED BY <2>3, <2>4, <2>7, <2>8 DEF p, d, e
<1>2. ASSUME Polled(c, poll(c, k).ctx), poll(c, k).emitted = <<>>
      PROVE  /\ Core(poll(c, k).ctx, m) /\ Grown(c, poll(c, k).ctx)
             /\ \A top : Ids(c, top) => Ids(poll(c, k).ctx, top)
             /\ Emitted(poll(c, k).ctx, m, f \o poll(c, k).emitted)
             /\ poll(c, k).ctx.bound = c.bound /\ poll(c, k).ctx.results = c.results
             /\ Listed(poll(c, k).emitted)
  <2> DEFINE d == poll(c, k).ctx
  <2>1. Polled(c, d)
    BY <1>2
  <2> HIDE DEF d
  <2>2. /\ Core(d, m) /\ Grown(c, d)
        /\ \A top : Ids(c, top) => Ids(d, top)
        /\ Emitted(d, m, f)
    BY <2>1, PolledCore
  <2>3. f \o <<>> = f
    BY DEF Emitted, Listed
  <2>4. d.bound = c.bound /\ d.results = c.results
    BY <2>1 DEF Polled, Core, CtxFields
  <2> QED BY <1>2, <2>2, <2>3, <2>4, NoRow DEF d
<1> QED BY <1>1, <1>2, PollCases

(* Binding a token. *)
LEMMA BindFacts ==
    ASSUME NEW c, DOMAIN c = CtxFields, NEW t, NEW id
    PROVE  /\ DOMAIN Bind(c, t, id) = CtxFields
           /\ \A f \in CtxFields \ {"bound", "subs", "qsubs"} : Bind(c, t, id)[f] = c[f]
           /\ DOMAIN Bind(c, t, id).bound = DOMAIN c.bound \cup {t}
           /\ \A s \in DOMAIN c.bound \cup {t} :
                Bind(c, t, id).bound[s] = IF s = t THEN id ELSE c.bound[s]
           /\ Bind(c, t, id).subs = IF c.kinds[t] = "External" THEN Append(c.subs, id) ELSE c.subs
           /\ Bind(c, t, id).qsubs = IF c.kinds[t] = "Queue" THEN Append(c.qsubs, id) ELSE c.qsubs
  BY DEF Bind, CtxFields

(* Binding the next token. *)
LEMMA BindCore ==
    ASSUME NEW c, NEW m, Core(c, m), m < Len(c.kinds), NEW id
    PROVE  /\ Core(Bind(c, m + 1, id), m + 1)
           /\ Bind(c, m + 1, id).kinds = c.kinds
           /\ Grown(c, Bind(c, m + 1, id))
           /\ \A top \in Nat : Ids(c, top) /\ id \in Nat /\ top < id /\ c.kinds[m + 1] # "ContinueAsNew"
                => Ids(Bind(c, m + 1, id), id)
<1> DEFINE d == Bind(c, m + 1, id)
<1>1. /\ DOMAIN d = CtxFields
      /\ \A f \in CtxFields \ {"bound", "subs", "qsubs"} : d[f] = c[f]
      /\ DOMAIN d.bound = DOMAIN c.bound \cup {m + 1}
      /\ \A s \in DOMAIN c.bound \cup {m + 1} :
           d.bound[s] = IF s = m + 1 THEN id ELSE c.bound[s]
  <2>1. DOMAIN c = CtxFields
    BY DEF Core
  <2> DEFINE t == m + 1
  <2> HIDE DEF t
  <2>2. /\ DOMAIN Bind(c, t, id) = CtxFields
        /\ \A f \in CtxFields \ {"bound", "subs", "qsubs"} : Bind(c, t, id)[f] = c[f]
        /\ DOMAIN Bind(c, t, id).bound = DOMAIN c.bound \cup {t}
        /\ \A s \in DOMAIN c.bound \cup {t} :
             Bind(c, t, id).bound[s] = IF s = t THEN id ELSE c.bound[s]
    BY <2>1, BindFacts
  <2> QED BY <2>2 DEF t
<1> HIDE DEF d
<1>2. /\ d.kinds = c.kinds /\ d.results = c.results /\ d.dropped = c.dropped
      /\ d.awaits = c.awaits /\ d.wait = c.wait /\ d.got = c.got
  BY <1>1 DEF CtxFields
<1>3. Asked(d) = Asked(c)
  BY <1>2 DEF Asked
<1>4. m \in Nat /\ m + 1 \in 0..Len(d.kinds) /\ Len(c.kinds) \in Nat /\ DOMAIN c.kinds = 1..Len(c.kinds)
  BY <1>2 DEF Core, Acts
<1>5. \A t \in Asked(d) : t <= m + 1 => t \in DOMAIN d.bound
  <2>1. \A t \in Asked(d) : t \in Nat
    BY <1>2, <1>4 DEF Asked
  <2>2. \A t \in Asked(d) : t <= m => t \in DOMAIN c.bound
    BY <1>3 DEF Core
  <2> QED BY <1>1, <1>4, <2>1, <2>2
<1>6. \A t \in DOMAIN c.bound : t \in 1..m
  BY DEF Core
<1>7. DOMAIN d.bound \subseteq 1..(m + 1)
  BY <1>1, <1>4, <1>6
<1>8. DOMAIN d.results \subseteq DOMAIN d.bound
  BY <1>1, <1>2 DEF Core
<1>9. Core(d, m + 1)
  BY <1>1, <1>2, <1>3, <1>4, <1>5, <1>7, <1>8 DEF Core
<1>10. Grown(c, d)
  BY <1>1, <1>2, <1>4, <1>6 DEF Grown
<1>11. ASSUME NEW top \in Nat, Ids(c, top), id \in Nat, top < id, c.kinds[m + 1] # "ContinueAsNew"
       PROVE  Ids(d, id)
  <2>1. \A t \in DOMAIN c.bound : t < m + 1 /\ d.bound[t] = c.bound[t]
    BY <1>1, <1>4, <1>6
  <2>2. d.bound[m + 1] = id
    BY <1>1
  <2>3. \A t \in DOMAIN c.bound : c.bound[t] \in 1..top /\ c.kinds[t] # "ContinueAsNew"
    BY <1>11 DEF Ids
  <2>4. ASSUME NEW t \in DOMAIN d.bound PROVE d.bound[t] \in 1..id /\ d.kinds[t] # "ContinueAsNew"
    <3>1. t = m + 1 \/ t \in DOMAIN c.bound
      BY <1>1
    <3>2. id \in 1..id
      BY <1>11
    <3> QED BY <1>2, <1>11, <2>1, <2>2, <2>3, <3>1, <3>2
  <2>5. ASSUME NEW s \in DOMAIN d.bound, NEW t \in DOMAIN d.bound, s < t
        PROVE  d.bound[s] < d.bound[t]
    <3>1. s \in 1..(m + 1) /\ t \in 1..(m + 1)
      BY <1>7
    <3>2. s # m + 1
      BY <2>5, <3>1, <1>4
    <3>3. s \in DOMAIN c.bound
      BY <1>1, <3>2
    <3>4. CASE t = m + 1
      BY <1>11, <2>1, <2>2, <2>3, <3>3, <3>4
    <3>5. CASE t # m + 1
      <4>1. t \in DOMAIN c.bound
        BY <1>1, <3>5
      <4> QED BY <1>11, <2>1, <2>5, <3>3, <4>1 DEF Ids
    <3> QED BY <3>4, <3>5
  <2> QED BY <2>4, <2>5 DEF Ids
<1> QED BY <1>2, <1>9, <1>10, <1>11 DEF d

(* A result is delivered to a token that is bound. *)
LEMMA DeliverCore ==
    ASSUME NEW c, NEW m, Core(c, m), NEW t \in DOMAIN c.bound, NEW d,
           DOMAIN d = CtxFields, \A f \in CtxFields \ {"results"} : d[f] = c[f],
           DOMAIN d.results = DOMAIN c.results \cup {t}
    PROVE  /\ Core(d, m) /\ Grown(c, d) /\ d.kinds = c.kinds /\ d.bound = c.bound
           /\ \A top : Ids(c, top) => Ids(d, top)
<1>1. /\ DOMAIN d = CtxFields
      /\ d.kinds = c.kinds /\ d.bound = c.bound /\ d.dropped = c.dropped
      /\ d.awaits = c.awaits /\ d.wait = c.wait /\ d.got = c.got
      /\ DOMAIN d.results = DOMAIN c.results \cup {t}
  BY DEF Core, CtxFields
<1>2. Asked(d) = Asked(c)
  BY <1>1 DEF Asked
<1> QED BY <1>1, <1>2 DEF Core, Grown, Ids

(* Other fields of the context do not matter for its shape. *)
LEMMA OtherCore ==
    ASSUME NEW c, NEW m, Core(c, m), NEW d, DOMAIN d = CtxFields,
           \A f \in {"kinds", "bound", "results", "dropped", "awaits", "wait", "got"} : d[f] = c[f]
    PROVE  /\ Core(d, m) /\ Grown(c, d) /\ d.kinds = c.kinds /\ d.bound = c.bound
           /\ \A top : Ids(c, top) => Ids(d, top)
<1>1. /\ d.kinds = c.kinds /\ d.bound = c.bound /\ d.dropped = c.dropped
      /\ d.awaits = c.awaits /\ d.wait = c.wait /\ d.got = c.got /\ d.results = c.results
  OBVIOUS
<1>2. Asked(d) = Asked(c)
  BY <1>1 DEF Asked
<1> QED BY <1>1, <1>2 DEF Core, Grown, Ids

-----------------------------------------------------------------------------
(* The replay loop as a function: where one iteration leads.               *)

EventKinds ==
  {"Scheduled", "Noted", "Completed", "ExternalEvent", "QueueEvent", "Cancelled", "Started",
   "CancelRequested"}

EventOk(w, x) ==
  /\ w[x].kind \in EventKinds
  /\ w[x].kind = "Scheduled" => w[x].what \in Awaited \ {"ContinueAsNew"}
  /\ w[x].kind = "Noted" => w[x].what = "Note"
  /\ w[x].kind = "Cancelled" => w[x].what \in Range(Cancellable)
  /\ w[x].kind = "Completed" =>
       w[x].src \in 1..(x - 1) /\ w[w[x].src].kind = "Scheduled" /\ w[w[x].src].what \in Answered

(* A history as turns write it: a schedule is completed once. *)
EventsOk(w) ==
  /\ Listed(w)
  /\ \A x \in DOMAIN w : EventOk(w, x)
  /\ \A x, y \in DOMAIN w :
       w[x].kind = "Completed" /\ w[y].kind = "Completed" /\ w[x].src = w[y].src => x = y

ConfFields == {"ctx", "fifo", "open", "must", "pos"}

(* Where the loop is. *)
Conf ==
  [ctx |-> ctx, fifo |-> eng.fifo, open |-> eng.open, must |-> eng.must_poll, pos |-> eng.pos]

Started == [ctx |-> NewContext, fifo |-> <<>>, open |-> {}, must |-> TRUE, pos |-> 1]

(* The event is the one that the loop expects. *)
Fits(m, e) ==
  /\ e.kind = "Scheduled" => m.fifo # <<>> /\ action_matches_event_kind(Head(m.fifo), e)
  /\ e.kind = "Noted" /\ m.fifo # <<>> => action_matches_event_kind(Head(m.fifo), e)
  /\ e.kind = "Completed" => e.src \in m.open

(* The iteration does not fail, and the code knows what to do. *)
Goes(m, k, w) ==
  /\ ~m.ctx.output
  /\ m.must /\ Ready(m.ctx) => Seen(m.ctx) \in DOMAIN k
  /\ ~m.must => m.pos <= Len(w) /\ Fits(m, w[m.pos])

AfterPoll(m, k) ==
  [ctx |-> poll(m.ctx, k).ctx, fifo |-> m.fifo \o poll(m.ctx, k).emitted, open |-> m.open,
   must |-> FALSE, pos |-> m.pos]

Delivered_to(c, src) == CHOOSE t \in DOMAIN c.bound : c.bound[t] = src

ContextAfter(m, e) ==
  LET c == m.ctx
      token == Delivered_to(c, e.src)
  IN  CASE e.kind = "Scheduled" -> Bind(c, Head(m.fifo).token, m.pos)
        [] e.kind = "Completed" ->
             [c EXCEPT !.results =
                [t \in DOMAIN @ \cup {token} |-> IF t = token THEN m.pos ELSE @[t]]]
        [] e.kind = "ExternalEvent" ->
             [c EXCEPT !.arrivals =
                IF has_pending_subscription_slot(c) THEN Append(@, m.pos) ELSE @]
        [] e.kind = "QueueEvent" -> [c EXCEPT !.qarrivals = Append(@, m.pos)]
        [] e.kind = "Cancelled" ->
             [c EXCEPT !.cancelled = IF e.what = "External" THEN @ \cup {e.src} ELSE @,
                       !.qcancelled = IF e.what = "Queue" THEN @ \cup {e.src} ELSE @]
        [] OTHER -> c

AfterEvent(m, e) ==
  [ctx |-> ContextAfter(m, e),
   fifo |-> IF e.kind \in {"Scheduled", "Noted"} /\ m.fifo # <<>> THEN Tail(m.fifo) ELSE m.fifo,
   open |-> CASE e.kind = "Scheduled" -> m.open \cup {m.pos}
              [] e.kind = "Completed" -> m.open \ {e.src}
              [] OTHER -> m.open,
   must |-> CASE e.kind = "Scheduled" -> e.what = "Queue"
              [] e.kind = "ExternalEvent" -> has_pending_subscription_slot(m.ctx)
              [] OTHER -> e.kind \in {"Completed", "QueueEvent"},
   pos |-> m.pos + 1]

After(m, k, w) == IF m.must THEN AfterPoll(m, k) ELSE AfterEvent(m, w[m.pos])

Unmatched(m) == Len(m.ctx.kinds) - Len(m.fifo)

(* The loop has applied the events before pos: tokens are bound to the     *)
(* schedules there, and the ones without a completion are open.            *)
Good(m, w) ==
  /\ DOMAIN m = ConfFields
  /\ m.pos \in 1..(Len(w) + 1)
  /\ Core(m.ctx, Unmatched(m)) /\ Emitted(m.ctx, Unmatched(m), m.fifo)
  /\ Ids(m.ctx, m.pos - 1)
  /\ \A t \in DOMAIN m.ctx.bound :
       w[m.ctx.bound[t]].kind = "Scheduled" /\ w[m.ctx.bound[t]].what = m.ctx.kinds[t]
  /\ \A x \in 1..(m.pos - 1) :
       w[x].kind = "Scheduled" => \E t \in DOMAIN m.ctx.bound : m.ctx.bound[t] = x
  /\ m.open = {x \in 1..(m.pos - 1) :
                 /\ w[x].kind = "Scheduled"
                 /\ \A y \in 1..(m.pos - 1) : w[y].kind = "Completed" => w[y].src # x}

(* The loop begins well. *)
LEMMA StartedGood == ASSUME NEW w, Listed(w) PROVE Good(Started, w)
<1>1. /\ DOMAIN Started = ConfFields /\ Started.pos = 1 /\ Started.fifo = <<>> /\ Started.open = {}
      /\ Started.ctx = NewContext
  BY DEF Started, ConfFields
<1>2. NewContext.kinds = <<>> /\ NewContext.bound = <<>>
  BY DEF NewContext
<1>3. DOMAIN <<>> = {} /\ Len(<<>>) = 0
  OBVIOUS
<1>4. Unmatched(Started) = 0
  BY <1>1, <1>2, <1>3 DEF Unmatched
<1>5. Emitted(NewContext, 0, <<>>)
  BY <1>2, <1>3, NoRow DEF Emitted
<1>6. Core(NewContext, 0) /\ Ids(NewContext, 0)
  BY NewCore
<1>7. Len(w) \in Nat
  BY DEF Listed
<1>8. Started.pos - 1 = 0 /\ Started.pos \in 1..(Len(w) + 1)
  BY <1>1, <1>7
<1>9. Ids(Started.ctx, Started.pos - 1)
  BY <1>1, <1>6, <1>8
<1>10. \A x : x \notin 1..(Started.pos - 1)
  BY <1>8
<1> QED BY <1>1, <1>2, <1>3, <1>4, <1>5, <1>6, <1>8, <1>9, <1>10 DEF Good

(* A sequence is a table. *)
LEMMA SeqListed == ASSUME NEW S, NEW u \in Seq(S) PROVE Listed(u)
<1>1. u \in [1..Len(u) -> Range(u)] /\ Len(u) \in Nat
  BY DEF Range
<1> QED BY <1>1 DEF Listed

(* The first of the actions that are not matched. *)
LEMMA HeadFacts ==
    ASSUME NEW c, NEW m \in Nat, NEW f, Emitted(c, m, f), f # <<>>
    PROVE  /\ Head(f).token = m + 1 /\ Head(f).kind = c.kinds[m + 1]
           /\ Emitted(c, m + 1, Tail(f)) /\ m < Len(c.kinds) /\ Len(Tail(f)) = Len(f) - 1
           /\ Len(f) \in Nat
<1>1. Len(f) \in Nat \ {0} /\ DOMAIN f = 1..Len(f) /\ Head(f) = f[1]
  BY DEF Emitted, Listed
<1>2. Head(f).token = m + 1 /\ Head(f).kind = c.kinds[m + 1]
  BY <1>1 DEF Emitted
<1> DEFINE l == Len(f) - 1
<1>3. /\ Tail(f) \in Seq(Range(f)) /\ Len(Tail(f)) = l
      /\ \A x \in 1..l : Tail(f)[x] = f[x + 1]
  BY <1>1 DEF Emitted, Listed
<1>4. DOMAIN Tail(f) = 1..l
  BY <1>3
<1>6. Listed(Tail(f))
  BY <1>3, SeqListed
<1>7. \A x \in 1..l : Tail(f)[x].token = (m + 1) + x /\ Tail(f)[x].kind = c.kinds[(m + 1) + x]
  <2> TAKE x \in 1..l
  <2>1. x + 1 \in DOMAIN f /\ m + (x + 1) = (m + 1) + x
    BY <1>1
  <2> QED BY <1>3, <2>1 DEF Emitted
<1>8. (m + 1) + l = Len(c.kinds) /\ m < Len(c.kinds)
  BY <1>1 DEF Emitted
<1> HIDE DEF l
<1>9. Emitted(c, m + 1, Tail(f))
  BY <1>3, <1>4, <1>6, <1>7, <1>8 DEF Emitted
<1> QED BY <1>1, <1>2, <1>3, <1>8, <1>9 DEF l

(* A poll leaves the loop well. *)
LEMMA PollGood ==
    ASSUME NEW m, NEW w, Good(m, w), NEW k, CodeOk(k), m.must, Goes(m, k, w)
    PROVE  /\ Good(AfterPoll(m, k), w) /\ Grown(m.ctx, AfterPoll(m, k).ctx)
           /\ AfterPoll(m, k).pos = m.pos /\ AfterPoll(m, k).must = FALSE
           /\ Unmatched(AfterPoll(m, k)) = Unmatched(m)
<1> DEFINE c == m.ctx
           f == m.fifo
           b == Unmatched(m)
           p == poll(c, k)
           n == AfterPoll(m, k)
<1>1. /\ DOMAIN m = ConfFields
      /\ Core(c, b) /\ Emitted(c, b, f) /\ Ids(c, m.pos - 1)
      /\ (Ready(c) => Seen(c) \in DOMAIN k)
  BY DEF Good, Goes
<1>2. /\ DOMAIN n = ConfFields /\ n.ctx = p.ctx /\ n.fifo = f \o p.emitted /\ n.must = FALSE
      /\ n.pos = m.pos /\ n.open = m.open
  BY <1>1 DEF AfterPoll, ConfFields
<1> HIDE DEF c, f, b
<1>3. /\ Core(p.ctx, b) /\ Grown(c, p.ctx)
      /\ (\A top : Ids(c, top) => Ids(p.ctx, top))
      /\ Emitted(p.ctx, b, f \o p.emitted)
      /\ p.ctx.bound = c.bound
  BY <1>1, PollCore
<1> HIDE DEF p, n
<1>4. Unmatched(n) = b
  <2>1. b \in Nat /\ b + Len(n.fifo) = Len(n.ctx.kinds)
    BY <1>1, <1>2, <1>3 DEF Core, Emitted
  <2>2. Len(n.fifo) \in Nat
    BY <1>2, <1>3 DEF Emitted, Listed
  <2> QED BY <2>1, <2>2 DEF Unmatched
<1>5. \A t \in DOMAIN c.bound : n.ctx.kinds[t] = c.kinds[t]
  BY <1>2, <1>3, <1>1 DEF Grown, Core, Acts
<1>6. /\ m.pos \in 1..(Len(w) + 1)
      /\ \A t \in DOMAIN c.bound :
           w[c.bound[t]].kind = "Scheduled" /\ w[c.bound[t]].what = c.kinds[t]
      /\ \A x \in 1..(m.pos - 1) :
           w[x].kind = "Scheduled" => \E t \in DOMAIN c.bound : c.bound[t] = x
      /\ \A x : x \in m.open <=>
           /\ x \in 1..(m.pos - 1) /\ w[x].kind = "Scheduled"
           /\ \A y \in 1..(m.pos - 1) : w[y].kind = "Completed" => w[y].src # x
  BY DEF Good, c
<1>7. Good(n, w)
  <2>1. \A t \in DOMAIN n.ctx.bound :
          w[n.ctx.bound[t]].kind = "Scheduled" /\ w[n.ctx.bound[t]].what = n.ctx.kinds[t]
    BY <1>2, <1>3, <1>5, <1>6
  <2>2. \A x \in 1..(n.pos - 1) :
          w[x].kind = "Scheduled" => \E t \in DOMAIN n.ctx.bound : n.ctx.bound[t] = x
    BY <1>2, <1>3, <1>6
  <2>3. \A x : x \in n.open <=>
          /\ x \in 1..(n.pos - 1) /\ w[x].kind = "Scheduled"
          /\ \A y \in 1..(n.pos - 1) : w[y].kind = "Completed" => w[y].src # x
    BY <1>2, <1>6
  <2>4. /\ Core(n.ctx, Unmatched(n)) /\ Emitted(n.ctx, Unmatched(n), n.fifo)
        /\ Ids(n.ctx, n.pos - 1)
    BY <1>1, <1>2, <1>3, <1>4
  <2>5. DOMAIN n = ConfFields /\ n.pos \in 1..(Len(w) + 1)
    BY <1>2, <1>6
  <2> QED BY <2>1, <2>2, <2>3, <2>4, <2>5 DEF Good
<1> QED BY <1>2, <1>3, <1>4, <1>7 DEF n, c, b

(* How many actions have been matched. *)
LEMMA UnmatchedIs ==
    ASSUME NEW m, NEW b \in Nat, Emitted(m.ctx, b, m.fifo)
    PROVE  Unmatched(m) = b
<1> DEFINE l == Len(m.fifo)
           n == Len(m.ctx.kinds)
<1>1. b + l = n /\ l \in Nat
  BY DEF Emitted, Listed
<1> HIDE DEF l, n
<1>2. n - l = b
  BY <1>1
<1> QED BY <1>2 DEF Unmatched, l, n

(* The parts of Good that an event may change. *)
LEMMA EventGoodParts ==
    ASSUME NEW m, NEW w, Good(m, w), EventsOk(w), m.pos <= Len(w),
           NEW n, n = AfterEvent(m, w[m.pos]),
           Core(n.ctx, Unmatched(n)), Emitted(n.ctx, Unmatched(n), n.fifo), Ids(n.ctx, n.pos - 1),
           Fits(m, w[m.pos]),
           \A t \in DOMAIN n.ctx.bound :
             w[n.ctx.bound[t]].kind = "Scheduled" /\ w[n.ctx.bound[t]].what = n.ctx.kinds[t],
           Grown(m.ctx, n.ctx),
           w[m.pos].kind = "Scheduled" => \E t \in DOMAIN n.ctx.bound : n.ctx.bound[t] = m.pos
    PROVE  Good(n, w)
<1> DEFINE p == m.pos
           e == w[m.pos]
<1>1. p \in 1..Len(w) /\ Len(w) \in Nat /\ e.kind \in EventKinds
  BY DEF Good, EventsOk, EventOk, Listed
<1>2. /\ DOMAIN n = ConfFields /\ n.pos = p + 1
      /\ n.open = CASE e.kind = "Scheduled" -> m.open \cup {p}
                    [] e.kind = "Completed" -> m.open \ {e.src}
                    [] OTHER -> m.open
  BY DEF AfterEvent, ConfFields
<1>3. \A x : x \in 1..(n.pos - 1) <=> x \in 1..(p - 1) \/ x = p
  <2> HIDE DEF p
  <2> QED BY <1>1, <1>2
<1>4. \A x \in 1..(n.pos - 1) :
        w[x].kind = "Scheduled" => \E t \in DOMAIN n.ctx.bound : n.ctx.bound[t] = x
  <2>1. \A x \in 1..(p - 1) :
          w[x].kind = "Scheduled" => \E t \in DOMAIN m.ctx.bound : m.ctx.bound[t] = x
    BY DEF Good
  <2>2. \A t \in DOMAIN m.ctx.bound : t \in DOMAIN n.ctx.bound /\ n.ctx.bound[t] = m.ctx.bound[t]
    BY DEF Grown
  <2> HIDE DEF e
  <2> QED BY <1>3, <2>1, <2>2
<1>5. \A x : x \in n.open <=>
        /\ x \in 1..(n.pos - 1) /\ w[x].kind = "Scheduled"
        /\ \A y \in 1..(n.pos - 1) : w[y].kind = "Completed" => w[y].src # x
  <2>0. \A x : x \in m.open <=>
          /\ x \in 1..(p - 1) /\ w[x].kind = "Scheduled"
          /\ \A y \in 1..(p - 1) : w[y].kind = "Completed" => w[y].src # x
    BY DEF Good
  <2>1. CASE e.kind = "Scheduled"
    <3>1. n.open = m.open \cup {p}
      BY <1>2, <2>1
    <3>2. \A y \in 1..(p - 1) : w[y].kind = "Completed" => w[y].src # p
      <4> TAKE y \in 1..(p - 1)
      <4>1. y \in DOMAIN w
        BY <1>1 DEF EventsOk, Listed
      <4>2. w[y].kind = "Completed" => w[y].src \in 1..(y - 1)
        BY <4>1 DEF EventsOk, EventOk
      <4> HIDE DEF p
      <4> QED BY <1>1, <4>2
    <3>3. p \notin 1..(p - 1) /\ w[p].kind # "Completed" /\ w[p].kind = "Scheduled"
      BY <1>1, <2>1
    <3> QED BY <1>3, <2>0, <3>1, <3>2, <3>3
  <2>2. CASE e.kind = "Completed"
    <3>1. n.open = m.open \ {e.src} /\ w[p].kind = "Completed" /\ w[p].src = e.src
      BY <1>2, <2>2
    <3> HIDE DEF e
    <3> QED BY <1>3, <2>0, <3>1
  <2>3. CASE e.kind # "Scheduled" /\ e.kind # "Completed"
    <3>1. n.open = m.open
      BY <1>2, <2>3
    <3>2. w[p].kind # "Scheduled" /\ w[p].kind # "Completed"
      BY <2>3
    <3> QED BY <1>3, <2>0, <3>1, <3>2
  <2> QED BY <2>1, <2>2, <2>3
<1>6. n.pos \in 1..(Len(w) + 1)
  <2> HIDE DEF p
  <2> QED BY <1>1, <1>2
<1>7. n.open = {x \in 1..(n.pos - 1) :
                  /\ w[x].kind = "Scheduled"
                  /\ \A y \in 1..(n.pos - 1) : w[y].kind = "Completed" => w[y].src # x}
  BY <1>5
<1> QED BY <1>2, <1>4, <1>6, <1>7 DEF Good

(* The event of an action binds the action's token. *)
LEMMA ScheduleGood ==
    ASSUME NEW m, NEW w, Good(m, w), EventsOk(w), m.pos <= Len(w), Fits(m, w[m.pos]),
           w[m.pos].kind = "Scheduled"
    PROVE  LET n == AfterEvent(m, w[m.pos])
           IN  /\ Good(n, w) /\ Grown(m.ctx, n.ctx) /\ n.fifo = Tail(m.fifo) /\ m.fifo # <<>>
               /\ n.ctx = Bind(m.ctx, Unmatched(m) + 1, m.pos)
               /\ Unmatched(n) = Unmatched(m) + 1 /\ Unmatched(m) < Len(m.ctx.kinds)
               /\ m.ctx.kinds[Unmatched(m) + 1] = w[m.pos].what
<1> DEFINE n == AfterEvent(m, w[m.pos])
           e == w[m.pos]
           b == Unmatched(m)
           c == m.ctx
           f == m.fifo
           p == m.pos
<1>1. /\ Core(c, b) /\ Emitted(c, b, f) /\ Ids(c, p - 1)
      /\ \A t \in DOMAIN c.bound : w[c.bound[t]].kind = "Scheduled" /\ w[c.bound[t]].what = c.kinds[t]
      /\ p \in 1..Len(w) /\ Len(w) \in Nat
  BY DEF Good, EventsOk, Listed
<1>2. b \in Nat
  BY <1>1 DEF Core
<1>3. f # <<>> /\ Head(f).kind = e.what
  BY DEF Fits, action_matches_event_kind
<1>4. e.what # "ContinueAsNew"
  BY <1>1 DEF EventsOk, EventOk, Listed
<1> HIDE DEF b, c, f
<1>5. /\ Head(f).token = b + 1 /\ Head(f).kind = c.kinds[b + 1]
      /\ Emitted(c, b + 1, Tail(f)) /\ b < Len(c.kinds) /\ Len(Tail(f)) = Len(f) - 1
      /\ Len(f) \in Nat
  BY <1>1, <1>2, <1>3, HeadFacts
<1>6. /\ n.ctx = Bind(c, Head(f).token, p) /\ n.fifo = Tail(f) /\ n.pos = p + 1
  BY <1>3 DEF AfterEvent, ContextAfter, c, f
<1> HIDE DEF n, p, e
<1>7. n.ctx = Bind(c, b + 1, p)
  BY <1>5, <1>6
<1>8. /\ Core(n.ctx, b + 1) /\ n.ctx.kinds = c.kinds /\ Grown(c, n.ctx)
      /\ Ids(n.ctx, p)
  <2>1. c.kinds[b + 1] # "ContinueAsNew"
    BY <1>3, <1>4, <1>5
  <2>2. p - 1 \in Nat /\ p \in Nat /\ p - 1 < p
    BY <1>1
  <2>3. /\ Core(Bind(c, b + 1, p), b + 1) /\ Bind(c, b + 1, p).kinds = c.kinds
        /\ Grown(c, Bind(c, b + 1, p))
        /\ \A top \in Nat : Ids(c, top) /\ p \in Nat /\ top < p /\ c.kinds[b + 1] # "ContinueAsNew"
             => Ids(Bind(c, b + 1, p), p)
    BY <1>1, <1>5, BindCore
  <2> QED BY <1>1, <1>7, <2>1, <2>2, <2>3
<1>9. Emitted(n.ctx, b + 1, n.fifo)
  BY <1>5, <1>6, <1>8 DEF Emitted
<1>10. Unmatched(n) = b + 1
  <2> DEFINE a == b + 1
  <2>1. a \in Nat /\ Emitted(n.ctx, a, n.fifo)
    BY <1>2, <1>9
  <2> HIDE DEF a
  <2> QED BY <2>1, UnmatchedIs DEF a
<1>11. DOMAIN n.ctx.bound = DOMAIN c.bound \cup {b + 1} /\ n.ctx.bound[b + 1] = p
  <2>1. DOMAIN c = CtxFields
    BY <1>1 DEF Core
  <2> DEFINE t == b + 1
  <2> HIDE DEF t
  <2>2. /\ DOMAIN Bind(c, t, p).bound = DOMAIN c.bound \cup {t}
        /\ \A s \in DOMAIN c.bound \cup {t} :
             Bind(c, t, p).bound[s] = IF s = t THEN p ELSE c.bound[s]
    BY <2>1, BindFacts
  <2>3. DOMAIN Bind(c, t, p).bound = DOMAIN c.bound \cup {t} /\ Bind(c, t, p).bound[t] = p
    BY <2>2
  <2> QED BY <1>7, <2>3 DEF t
<1>12. \A t \in DOMAIN n.ctx.bound :
         w[n.ctx.bound[t]].kind = "Scheduled" /\ w[n.ctx.bound[t]].what = n.ctx.kinds[t]
  <2> TAKE t \in DOMAIN n.ctx.bound
  <2>1. CASE t \in DOMAIN c.bound
    BY <1>1, <1>8, <2>1 DEF Grown
  <2>2. CASE t = b + 1
    <3>1. w[p].kind = "Scheduled" /\ w[p].what = c.kinds[b + 1]
      BY <1>3, <1>5 DEF e, p
    <3> QED BY <1>8, <1>11, <2>2, <3>1
  <2> QED BY <1>11, <2>1, <2>2
<1>13. Good(n, w)
  <2>1. Ids(n.ctx, n.pos - 1)
    <3>1. n.pos - 1 = p
      BY <1>1, <1>6
    <3> QED BY <1>8, <3>1
  <2>2. \E t \in DOMAIN n.ctx.bound : n.ctx.bound[t] = m.pos
    BY <1>11 DEF p
  <2> HIDE DEF Fits
  <2>3. n = AfterEvent(m, w[m.pos]) /\ Grown(m.ctx, n.ctx)
    BY <1>8 DEF n, c
  <2> QED BY <1>8, <1>9, <1>10, <1>12, <2>1, <2>2, <2>3, EventGoodParts
<1>14. m.ctx.kinds[Unmatched(m) + 1] = w[m.pos].what
  BY <1>3, <1>5 DEF c, b, e
<1> QED BY <1>3, <1>5, <1>6, <1>7, <1>8, <1>10, <1>13, <1>14 DEF n, c, f, b, p

(* Any other event leaves what is bound as it is. *)
LEMMA EventGood ==
    ASSUME NEW m, NEW w, Good(m, w), EventsOk(w), m.pos <= Len(w), Fits(m, w[m.pos]),
           w[m.pos].kind # "Scheduled"
    PROVE  LET n == AfterEvent(m, w[m.pos])
           IN  /\ Good(n, w) /\ Grown(m.ctx, n.ctx)
               /\ n.ctx.kinds = m.ctx.kinds /\ n.ctx.bound = m.ctx.bound
<1> DEFINE n == AfterEvent(m, w[m.pos])
           e == w[m.pos]
           b == Unmatched(m)
           c == m.ctx
           f == m.fifo
           p == m.pos
<1>1. /\ Core(c, b) /\ Emitted(c, b, f) /\ Ids(c, p - 1)
      /\ \A t \in DOMAIN c.bound : w[c.bound[t]].kind = "Scheduled" /\ w[c.bound[t]].what = c.kinds[t]
      /\ p \in 1..Len(w) /\ Len(w) \in Nat /\ EventOk(w, p)
  BY DEF Good, EventsOk, Listed
<1>2. b \in Nat /\ DOMAIN c = CtxFields
  BY <1>1 DEF Core
<1>3. n.ctx = ContextAfter(m, e) /\ n.pos = p + 1
      /\ n.fifo = IF e.kind = "Noted" /\ f # <<>> THEN Tail(f) ELSE f
  BY DEF AfterEvent
<1>4. /\ Core(n.ctx, b) /\ Grown(c, n.ctx) /\ n.ctx.kinds = c.kinds /\ n.ctx.bound = c.bound
      /\ \A top : Ids(c, top) => Ids(n.ctx, top)
  <2>1. CASE e.kind = "Completed"
    <3> DEFINE t == Delivered_to(c, e.src)
    <3>1. n.ctx = [c EXCEPT !.results = [s \in DOMAIN @ \cup {t} |-> IF s = t THEN p ELSE @[s]]]
      BY <1>3, <2>1 DEF ContextAfter
    <3>2. t \in DOMAIN c.bound
      <4>1. e.src \in m.open
        BY <2>1 DEF Fits
      <4>2. \E s \in DOMAIN c.bound : c.bound[s] = e.src
        BY <4>1 DEF Good
      <4> HIDE DEF c, e
      <4> QED BY <4>2 DEF Delivered_to
    <3> DEFINE d == n.ctx
    <3>3. d = [c EXCEPT !.results = [s \in DOMAIN @ \cup {t} |-> IF s = t THEN p ELSE @[s]]]
      BY <3>1
    <3> HIDE DEF t, d, p, c, b
    <3>5. /\ DOMAIN d = CtxFields /\ \A g \in CtxFields \ {"results"} : d[g] = c[g]
          /\ DOMAIN d.results = DOMAIN c.results \cup {t}
      BY <1>2, <3>3 DEF CtxFields
    <3>4. /\ Core(d, b) /\ Grown(c, d) /\ d.kinds = c.kinds /\ d.bound = c.bound
          /\ \A top : Ids(c, top) => Ids(d, top)
      BY <1>1, <3>2, <3>5, DeliverCore
    <3> QED BY <3>4 DEF d
  <2>2. CASE e.kind # "Completed"
    <3>1. /\ DOMAIN n.ctx = CtxFields
          /\ \A g \in {"kinds", "bound", "results", "dropped", "awaits", "wait", "got"} : n.ctx[g] = c[g]
      <4>1. CASE e.kind = "ExternalEvent"
        BY <1>2, <1>3, <4>1 DEF ContextAfter, CtxFields
      <4>2. CASE e.kind = "QueueEvent"
        BY <1>2, <1>3, <4>2 DEF ContextAfter, CtxFields
      <4>3. CASE e.kind = "Cancelled"
        BY <1>2, <1>3, <4>3 DEF ContextAfter, CtxFields
      <4>4. CASE e.kind \notin {"ExternalEvent", "QueueEvent", "Cancelled"}
        BY <1>2, <1>3, <2>2, <4>4 DEF ContextAfter, CtxFields
      <4> QED BY <4>1, <4>2, <4>3, <4>4
    <3> DEFINE d == n.ctx
    <3>2. DOMAIN d = CtxFields /\ \A g \in {"kinds", "bound", "results", "dropped", "awaits", "wait", "got"} : d[g] = c[g]
      BY <3>1
    <3> HIDE DEF d, c, b
    <3>3. /\ Core(d, b) /\ Grown(c, d) /\ d.kinds = c.kinds /\ d.bound = c.bound
          /\ \A top : Ids(c, top) => Ids(d, top)
      BY <1>1, <3>2, OtherCore
    <3> QED BY <3>3 DEF d
  <2> QED BY <2>1, <2>2
<1> HIDE DEF n, c, f, b, p
<1>5. Core(n.ctx, Unmatched(n)) /\ Emitted(n.ctx, Unmatched(n), n.fifo)
  <2>1. CASE e.kind = "Noted" /\ f # <<>>
    <3>1. /\ Head(f).token = b + 1 /\ Head(f).kind = c.kinds[b + 1]
          /\ Emitted(c, b + 1, Tail(f)) /\ b < Len(c.kinds)
      BY <1>1, <1>2, <2>1, HeadFacts
    <3>2. Emitted(n.ctx, b + 1, n.fifo)
      BY <1>3, <1>4, <2>1, <3>1 DEF Emitted
    <3>3. c.kinds[b + 1] = "Note"
      <4>1. Head(f).kind = e.what /\ e.what = "Note"
        BY <1>1, <2>1 DEF Fits, action_matches_event_kind, EventOk, f, p
      <4> QED BY <3>1, <4>1
    <3>4. Core(n.ctx, b + 1)
      <4> DEFINE d == n.ctx
      <4>1. Core(d, b) /\ b + 1 \in 0..Len(d.kinds) /\ d.kinds[b + 1] = "Note"
        BY <1>1, <1>2, <1>4, <3>1, <3>3 DEF Core, Acts
      <4> HIDE DEF d
      <4>2. b + 1 \notin Asked(d)
        BY <4>1 DEF Asked, Awaited, Answered
      <4>3. DOMAIN d.bound \subseteq 1..(b + 1)
        <5>1. DOMAIN d.bound \subseteq 1..b
          BY <4>1 DEF Core
        <5> QED BY <1>2, <5>1
      <4>4. \A t \in Asked(d) : t <= b + 1 => t \in DOMAIN d.bound
        <5>1. \A t \in Asked(d) : t \in Nat
          BY <4>1 DEF Asked, Core, Acts
        <5>2. \A t \in Asked(d) : t <= b => t \in DOMAIN d.bound
          BY <4>1 DEF Core
        <5> QED BY <1>2, <4>2, <5>1, <5>2
      <4>5. Core(d, b + 1)
        BY <4>1, <4>3, <4>4 DEF Core
      <4> QED BY <4>5 DEF d
    <3>5. Unmatched(n) = b + 1
      <4> DEFINE a == b + 1
      <4>1. a \in Nat /\ Emitted(n.ctx, a, n.fifo)
        BY <1>2, <3>2
      <4> HIDE DEF a
      <4> QED BY <4>1, UnmatchedIs DEF a
    <3> QED BY <3>2, <3>4, <3>5
  <2>2. CASE ~(e.kind = "Noted" /\ f # <<>>)
    <3>1. n.fifo = f
      BY <1>3, <2>2
    <3>2. Emitted(n.ctx, b, n.fifo)
      BY <1>1, <1>4, <3>1 DEF Emitted
    <3>3. Unmatched(n) = b
      BY <1>2, <3>2, UnmatchedIs
    <3> QED BY <1>4, <3>2, <3>3
  <2> QED BY <2>1, <2>2
<1>6. Ids(n.ctx, n.pos - 1)
  <2>1. Ids(n.ctx, p - 1) /\ n.pos - 1 = p /\ p - 1 \in Nat /\ p \in Nat
    BY <1>1, <1>3, <1>4
  <2>2. \A i \in 1..(p - 1) : i \in 1..p
    BY <2>1
  <2> QED BY <2>1, <2>2 DEF Ids
<1>7. \A t \in DOMAIN n.ctx.bound :
        w[n.ctx.bound[t]].kind = "Scheduled" /\ w[n.ctx.bound[t]].what = n.ctx.kinds[t]
  BY <1>1, <1>4
<1>8. Good(n, w)
  <2>1. n = AfterEvent(m, w[m.pos]) /\ Grown(m.ctx, n.ctx)
    BY <1>4 DEF n, c
  <2> QED BY <1>5, <1>6, <1>7, <2>1, EventGoodParts
<1> QED BY <1>4, <1>8 DEF n, c

-----------------------------------------------------------------------------
(* What a turn adds to the history.                                        *)

(* A history with more events behind, none of them a completion. *)
LEMMA EventsMore ==
    ASSUME NEW w, EventsOk(w), NEW v, Listed(v), DOMAIN w \subseteq DOMAIN v,
           \A x \in DOMAIN w : v[x] = w[x],
           \A x \in DOMAIN v : x \notin DOMAIN w => EventOk(v, x) /\ v[x].kind # "Completed"
    PROVE  EventsOk(v)
<1>1. ASSUME NEW x \in DOMAIN v PROVE EventOk(v, x)
  <2>1. CASE x \in DOMAIN w
    <3>1. EventOk(w, x) /\ v[x] = w[x]
      BY <2>1 DEF EventsOk
    <3>2. DOMAIN w = 1..Len(w) /\ Len(w) \in Nat
      BY DEF EventsOk, Listed
    <3>3. w[x].kind = "Completed" => w[x].src \in DOMAIN w
      BY <2>1, <3>1, <3>2 DEF EventOk
    <3>4. w[x].kind = "Completed" => v[w[x].src] = w[w[x].src]
      BY <3>3
    <3> QED BY <3>1, <3>4 DEF EventOk
  <2>2. CASE x \notin DOMAIN w
    BY <2>2
  <2> QED BY <2>1, <2>2
<1>2. \A x, y \in DOMAIN v :
        v[x].kind = "Completed" /\ v[y].kind = "Completed" /\ v[x].src = v[y].src => x = y
  <2> TAKE x, y \in DOMAIN v
  <2> HAVE v[x].kind = "Completed" /\ v[y].kind = "Completed" /\ v[x].src = v[y].src
  <2>1. x \in DOMAIN w /\ y \in DOMAIN w
    OBVIOUS
  <2> QED BY <2>1 DEF EventsOk
<1> QED BY <1>1, <1>2 DEF EventsOk

(* The states that convert_emitted_actions goes through. *)
ConvertRun(g, c, d, actions) ==
  /\ DOMAIN g = 0..Len(actions) /\ g[0] = [ctx |-> c, delta |-> d]
  /\ \A n \in 1..Len(actions) : g[n] = Converted(g[n - 1], actions[n])

(* Actions are converted one at a time. *)
LEMMA ConvertRuns ==
    ASSUME NEW c, NEW d, NEW actions, Len(actions) \in Nat
    PROVE  \E g : /\ ConvertRun(g, c, d, actions)
                  /\ g[Len(actions)] = convert_emitted_actions(c, d, actions)
<1> DEFINE L == Len(actions)
           G(g, l) == g = [n \in 0..l |-> IF n = 0 THEN [ctx |-> c, delta |-> d]
                                          ELSE Converted(g[n - 1], actions[n])]
           T == {l \in 0..L : \E g : G(g, l)}
<1>1. 0 \in T
  <2> DEFINE g == [n \in 0..0 |-> [ctx |-> c, delta |-> d]]
  <2>1. G(g, 0)
    OBVIOUS
  <2>2. 0 \in 0..L
    OBVIOUS
  <2> QED BY <2>1, <2>2
<1>2. ASSUME NEW l \in 0..(L - 1), l \in T PROVE l + 1 \in T
  <2>1. PICK g : G(g, l)
    BY <1>2
  <2> DEFINE h == [n \in 0..(l + 1) |-> IF n = l + 1 THEN Converted(g[l], actions[l + 1])
                                        ELSE g[n]]
  <2>2. \A n \in 0..l : g[n] = IF n = 0 THEN [ctx |-> c, delta |-> d]
                               ELSE Converted(g[n - 1], actions[n])
    BY <2>1
  <2>3. \A n \in 0..(l + 1) :
          h[n] = IF n = 0 THEN [ctx |-> c, delta |-> d] ELSE Converted(h[n - 1], actions[n])
    <3> TAKE n \in 0..(l + 1)
    <3>1. CASE n = l + 1
      BY <3>1
    <3>2. CASE n \in 0..l
      BY <2>2, <3>2
    <3> QED BY <3>1, <3>2
  <2>4. h = [n \in 0..(l + 1) |-> h[n]]
    OBVIOUS
  <2> HIDE DEF h
  <2>5. G(h, l + 1)
    BY <2>3, <2>4
  <2>6. l + 1 \in 0..L
    OBVIOUS
  <2> QED BY <2>5, <2>6
<1> HIDE DEF T
<1>3. L \in T
  <2>1. L \in Nat /\ L \in 0..L
    OBVIOUS
  <2> HIDE DEF L
  <2>2. \A n \in 0..L : n \in T
    BY <1>1, <1>2, <2>1, CountUp
  <2> QED BY <2>1, <2>2
<1>4. PICK h : G(h, L)
  BY <1>3 DEF T
<1> DEFINE g == CHOOSE g : g = [n \in 0..Len(actions) |->
                                  IF n = 0 THEN [ctx |-> c, delta |-> d]
                                  ELSE Converted(g[n - 1], actions[n])]
<1>5. convert_emitted_actions(c, d, actions) = g[L]
  BY DEF convert_emitted_actions
<1>6. G(g, L)
  BY <1>4
<1> HIDE DEF g
<1>7. ConvertRun(g, c, d, actions)
  BY <1>6 DEF ConvertRun
<1> QED BY <1>5, <1>7

(* The event of an action. *)
LEMMA ActionEvent ==
    ASSUME NEW a, a.kind \in Awaited \cup {"Note"}, a.kind # "ContinueAsNew"
    PROVE  LET e == action_to_event(a)
           IN  /\ e.kind \in {"Scheduled", "Noted"}
               /\ e.kind = "Scheduled" => e.what \in Awaited \ {"ContinueAsNew"}
               /\ e.kind = "Noted" => e.what = "Note"
               /\ e.what = a.kind /\ e.data = a.data
               /\ e.kind = "Scheduled" <=> a.kind # "Note"
  BY DEF action_to_event, Event, Awaited, Answered

(* What a context and the new events become by conversion. *)
ConvertedOk(c, d, m, f, n, new) ==
  /\ Core(new.ctx, m + n) /\ new.ctx.kinds = c.kinds /\ Grown(c, new.ctx)
  /\ new.ctx.dropped = c.dropped /\ new.ctx.output = c.output
  /\ Listed(new.delta) /\ Len(d) <= Len(new.delta)
  /\ \A x \in 1..Len(d) : new.delta[x] = d[x]
  /\ \A x \in (Len(d) + 1)..Len(new.delta) :
       /\ new.delta[x].kind \in {"Scheduled", "Noted"}
       /\ new.delta[x].kind = "Scheduled" => new.delta[x].what \in Awaited \ {"ContinueAsNew"}
       /\ new.delta[x].kind = "Noted" => new.delta[x].what = "Note"
  /\ \/ \E x \in 1..n : f[x].kind = "ContinueAsNew"
     \/ /\ Ids(c, Len(history) + Len(d)) => Ids(new.ctx, Len(history) + Len(new.delta))
        /\ Len(new.delta) = Len(d) + n

(* One action more. *)
LEMMA ConvertStep ==
    ASSUME NEW c, NEW d, NEW m \in Nat, NEW f, Emitted(c, m, f), Len(history) \in Nat,
           Listed(d), c.kinds \in Acts,
           NEW n \in Nat, n < Len(f), NEW old, ConvertedOk(c, d, m, f, n, old)
    PROVE  ConvertedOk(c, d, m, f, n + 1, Converted(old, f[n + 1]))
<1> DEFINE a == f[n + 1]
           new == Converted(old, a)
           id == Len(history) + Len(old.delta) + 1
           b == m + n
           o == old.ctx
<1>1. /\ a.token = b + 1 /\ a.kind = c.kinds[b + 1] /\ b < Len(c.kinds) /\ b \in Nat
      /\ a.kind \in Awaited \cup {"Note"}
  <2>1. n + 1 \in DOMAIN f /\ m + (n + 1) = b + 1 /\ Len(f) \in Nat /\ m + Len(f) = Len(c.kinds)
    BY DEF Emitted, Listed
  <2>2. a.token = b + 1 /\ a.kind = c.kinds[b + 1] /\ b < Len(c.kinds) /\ b \in Nat
    BY <2>1 DEF Emitted
  <2>3. b + 1 \in DOMAIN c.kinds /\ \A x \in DOMAIN c.kinds : c.kinds[x] \in Awaited \cup {"Note"}
    BY <2>2 DEF Acts
  <2> QED BY <2>2, <2>3
<1>2. /\ Core(o, b) /\ o.kinds = c.kinds /\ Grown(c, o) /\ Listed(old.delta)
      /\ o.dropped = c.dropped /\ o.output = c.output
      /\ Len(old.delta) \in Nat /\ Len(d) \in Nat /\ Len(d) <= Len(old.delta)
  BY DEF ConvertedOk, Listed
<1>3. /\ new.ctx = Bind(o, b + 1, id)
      /\ new.delta = IF a.kind = "ContinueAsNew" THEN old.delta
                     ELSE Append(old.delta, action_to_event(a))
  BY <1>1 DEF Converted
<1> HIDE DEF new, o, a, b
<1>4. /\ Core(Bind(o, b + 1, id), b + 1)
      /\ Bind(o, b + 1, id).kinds = o.kinds
      /\ Grown(o, Bind(o, b + 1, id))
      /\ \A top \in Nat : Ids(o, top) /\ id \in Nat /\ top < id /\ o.kinds[b + 1] # "ContinueAsNew"
           => Ids(Bind(o, b + 1, id), id)
  <2> HIDE DEF id
  <2> QED BY <1>1, <1>2, BindCore
<1>5. /\ Core(new.ctx, m + (n + 1)) /\ new.ctx.kinds = c.kinds /\ Grown(c, new.ctx)
      /\ new.ctx.dropped = c.dropped /\ new.ctx.output = c.output
  <2>1. b + 1 = m + (n + 1)
    BY DEF b
  <2>2. Grown(c, new.ctx)
    BY <1>2, <1>3, <1>4 DEF Grown
  <2>3. /\ Bind(o, b + 1, id).dropped = o.dropped
        /\ Bind(o, b + 1, id).output = o.output
    <3> DEFINE t == b + 1
    <3> HIDE DEF t, id
    <3>1. DOMAIN o = CtxFields
      BY <1>2 DEF Core
    <3>2. \A g \in CtxFields \ {"bound", "subs", "qsubs"} : Bind(o, t, id)[g] = o[g]
      BY <3>1, BindFacts
    <3>3. Bind(o, t, id).dropped = o.dropped /\ Bind(o, t, id).output = o.output
      BY <3>2 DEF CtxFields
    <3> QED BY <3>3 DEF t
  <2> QED BY <1>2, <1>3, <1>4, <2>1, <2>2, <2>3
<1>6. CASE a.kind = "ContinueAsNew"
  <2>1. new.delta = old.delta
    BY <1>3, <1>6
  <2>2. \E x \in 1..(n + 1) : f[x].kind = "ContinueAsNew"
    BY <1>6 DEF a
  <2> QED BY <1>5, <2>1, <2>2 DEF ConvertedOk, new, a
<1>7. CASE a.kind # "ContinueAsNew"
  <2> DEFINE e == action_to_event(a)
             l == Len(old.delta)
  <2>1. /\ e.kind \in {"Scheduled", "Noted"}
        /\ e.kind = "Scheduled" => e.what \in Awaited \ {"ContinueAsNew"}
        /\ e.kind = "Noted" => e.what = "Note"
    BY <1>1, <1>7, ActionEvent
  <2>2. new.delta = Append(old.delta, e)
    BY <1>3, <1>7
  <2>3. Listed(new.delta)
    <3> HIDE DEF e
    <3> QED BY <1>2, <2>2, AppendRow
  <2> HIDE DEF e
  <2>4. /\ Len(new.delta) = l + 1 /\ new.delta[l + 1] = e
        /\ \A x \in 1..l : new.delta[x] = old.delta[x]
    BY <1>2, <2>2 DEF Listed
  <2>5. \A x \in 1..Len(d) : new.delta[x] = d[x]
    <3> TAKE x \in 1..Len(d)
    <3>1. x \in 1..l
      BY <1>2
    <3> QED BY <2>4, <3>1 DEF ConvertedOk
  <2>6. \A x \in (Len(d) + 1)..Len(new.delta) :
          /\ new.delta[x].kind \in {"Scheduled", "Noted"}
          /\ new.delta[x].kind = "Scheduled" => new.delta[x].what \in Awaited \ {"ContinueAsNew"}
          /\ new.delta[x].kind = "Noted" => new.delta[x].what = "Note"
    <3> TAKE x \in (Len(d) + 1)..Len(new.delta)
    <3>1. x = l + 1 \/ x \in (Len(d) + 1)..l
      BY <1>2, <2>4
    <3>2. CASE x = l + 1
      BY <2>1, <2>4, <3>2
    <3>3. CASE x \in (Len(d) + 1)..l
      <4>1. x \in 1..l
        BY <1>2, <3>3
      <4> QED BY <2>4, <3>3, <4>1 DEF ConvertedOk
    <3> QED BY <3>1, <3>2, <3>3
  <2>7. Len(d) <= Len(new.delta)
    BY <1>2, <2>4
  <2>8. ASSUME ~\E x \in 1..(n + 1) : f[x].kind = "ContinueAsNew"
        PROVE  /\ Ids(c, Len(history) + Len(d)) => Ids(new.ctx, Len(history) + Len(new.delta))
               /\ Len(new.delta) = Len(d) + (n + 1)
    <3>1. ~\E x \in 1..n : f[x].kind = "ContinueAsNew"
      BY <2>8
    <3>2. /\ Ids(c, Len(history) + Len(d)) => Ids(o, Len(history) + l)
          /\ l = Len(d) + n
      BY <3>1 DEF ConvertedOk, o
    <3>3. /\ Len(history) + l \in Nat /\ id \in Nat /\ Len(history) + l < id
          /\ id = Len(history) + Len(new.delta)
      BY <1>2, <2>4
    <3>4. o.kinds[b + 1] # "ContinueAsNew"
      BY <1>1, <1>2, <1>7
    <3>5. Ids(o, Len(history) + l) => Ids(new.ctx, id)
      <4> DEFINE top == Len(history) + l
      <4>1. top \in Nat /\ id \in Nat /\ top < id
        BY <3>3
      <4> HIDE DEF top, id
      <4>2. Ids(o, top) => Ids(new.ctx, id)
        BY <1>3, <1>4, <3>4, <4>1
      <4> QED BY <4>2 DEF top
    <3>6. Len(new.delta) = Len(d) + (n + 1)
      BY <1>2, <2>4, <3>2
    <3> QED BY <3>2, <3>3, <3>5, <3>6
  <2> QED BY <1>5, <2>3, <2>5, <2>6, <2>7, <2>8 DEF ConvertedOk, new, a
<1> QED BY <1>6, <1>7

(* Every action is converted. *)
LEMMA ConvertFacts ==
    ASSUME NEW c, NEW d, NEW m \in Nat, NEW f, Core(c, m), Emitted(c, m, f), Len(history) \in Nat,
           Listed(d)
    PROVE  /\ ConvertedOk(c, d, m, f, Len(f), convert_emitted_actions(c, d, f))
           /\ m + Len(f) = Len(c.kinds)
<1> DEFINE L == Len(f)
<1>1. L \in Nat /\ L \in 0..L /\ m + L = Len(c.kinds)
  BY DEF Emitted, Listed
<1>2. PICK g : ConvertRun(g, c, d, f) /\ g[L] = convert_emitted_actions(c, d, f)
  BY <1>1, ConvertRuns
<1> DEFINE T == {n \in 0..L : ConvertedOk(c, d, m, f, n, g[n])}
<1>3. 0 \in T
  <2>1. g[0] = [ctx |-> c, delta |-> d]
    BY <1>2 DEF ConvertRun
  <2>2. Grown(c, c) /\ m + 0 = m /\ Len(d) \in Nat /\ c.kinds = c.kinds
    BY DEF Grown, Listed
  <2> DEFINE o == g[0]
  <2>3. o.ctx = c /\ o.delta = d
    BY <2>1
  <2> HIDE DEF o
  <2>4. ConvertedOk(c, d, m, f, 0, o)
    BY <2>2, <2>3 DEF ConvertedOk
  <2> QED BY <1>1, <2>4 DEF o
<1>4. ASSUME NEW n \in 0..(L - 1), n \in T PROVE n + 1 \in T
  <2>1. g[n + 1] = Converted(g[n], f[n + 1])
    <3>1. n + 1 \in 1..L /\ (n + 1) - 1 = n
      BY <1>1
    <3> QED BY <1>2, <3>1 DEF ConvertRun
  <2>2. n \in Nat /\ n < L /\ n + 1 \in 0..L
    BY <1>1
  <2>3. ConvertedOk(c, d, m, f, n, g[n])
    BY <1>4
  <2>4. c.kinds \in Acts
    BY DEF Core
  <2> DEFINE o == g[n]
  <2>5. ConvertedOk(c, d, m, f, n, o)
    BY <2>3
  <2> HIDE DEF o
  <2>6. ConvertedOk(c, d, m, f, n + 1, Converted(o, f[n + 1]))
    BY <2>2, <2>4, <2>5, ConvertStep
  <2> QED BY <2>1, <2>2, <2>6 DEF o
<1> HIDE DEF L, T
<1>5. \A n \in 0..L : n \in T
  BY <1>1, <1>3, <1>4, CountUp
<1>6. ConvertedOk(c, d, m, f, L, g[L])
  BY <1>1, <1>5 DEF T
<1> QED BY <1>1, <1>2, <1>6 DEF L

(* A message that prep_completions ignores, and what it makes of another. *)
Known(d, e) ==
  \E x \in Range(history \o d) :
    /\ e.kind \in {"Completed", "CancelRequested"}
    /\ x.kind = e.kind /\ x.src = e.src

Prepared(d, e) == IF Known(d, e) THEN d ELSE Append(d, e)

PrepRun(g, start, messages) ==
  /\ DOMAIN g = 0..Len(messages) /\ g[0] = start
  /\ \A n \in 1..Len(messages) : g[n] = Prepared(g[n - 1], messages[n])

(* Messages are prepared one at a time. *)
LEMMA PrepRuns ==
    ASSUME NEW start, NEW messages, Len(messages) \in Nat
    PROVE  \E g : /\ PrepRun(g, start, messages)
                  /\ g[Len(messages)] = prep_completions(start, messages)
<1> DEFINE L == Len(messages)
           G(g, l) == g = [n \in 0..l |-> IF n = 0 THEN start
                                          ELSE Prepared(g[n - 1], messages[n])]
           T == {l \in 0..L : \E g : G(g, l)}
<1>1. 0 \in T
  <2> DEFINE g == [n \in 0..0 |-> start]
  <2>1. G(g, 0)
    OBVIOUS
  <2>2. 0 \in 0..L
    OBVIOUS
  <2> QED BY <2>1, <2>2
<1>2. ASSUME NEW l \in 0..(L - 1), l \in T PROVE l + 1 \in T
  <2>1. PICK g : G(g, l)
    BY <1>2
  <2> DEFINE h == [n \in 0..(l + 1) |-> IF n = l + 1 THEN Prepared(g[l], messages[l + 1])
                                        ELSE g[n]]
  <2>2. \A n \in 0..l : g[n] = IF n = 0 THEN start ELSE Prepared(g[n - 1], messages[n])
    BY <2>1
  <2>3. \A n \in 0..(l + 1) :
          h[n] = IF n = 0 THEN start ELSE Prepared(h[n - 1], messages[n])
    <3> TAKE n \in 0..(l + 1)
    <3>1. CASE n = l + 1
      BY <3>1
    <3>2. CASE n \in 0..l
      BY <2>2, <3>2
    <3> QED BY <3>1, <3>2
  <2>4. h = [n \in 0..(l + 1) |-> h[n]]
    OBVIOUS
  <2> HIDE DEF h
  <2>5. G(h, l + 1)
    BY <2>3, <2>4
  <2>6. l + 1 \in 0..L
    OBVIOUS
  <2> QED BY <2>5, <2>6
<1> HIDE DEF T
<1>3. L \in T
  <2>1. L \in Nat /\ L \in 0..L
    OBVIOUS
  <2> HIDE DEF L
  <2>2. \A n \in 0..L : n \in T
    BY <1>1, <1>2, <2>1, CountUp
  <2> QED BY <2>1, <2>2
<1>4. PICK h : G(h, L)
  BY <1>3 DEF T
<1> DEFINE g == CHOOSE g : g = [n \in 0..Len(messages) |->
                                  IF n = 0 THEN start
                                  ELSE Prepared(g[n - 1], messages[n])]
<1>5. prep_completions(start, messages) = g[L]
  BY DEF prep_completions, Prepared, Known
<1>6. G(g, L)
  BY <1>4
<1> HIDE DEF g
<1>7. PrepRun(g, start, messages)
  BY <1>6 DEF PrepRun
<1> QED BY <1>5, <1>7

MessageKinds == {"Completed", "ExternalEvent", "QueueEvent", "CancelRequested", "Started"}

(* The events that a turn begins with. *)
NewsOk(d) ==
  /\ Listed(d) /\ EventsOk(history \o d)
  /\ \A x \in DOMAIN d : d[x].kind \in MessageKinds

(* A message as the queue may hold it: a completion is of a schedule in    *)
(* the history.                                                            *)
MessageOk(e) ==
  /\ e.kind \in MessageKinds
  /\ e.kind = "Completed" =>
       e.src \in DOMAIN history /\ history[e.src].kind = "Scheduled" /\ history[e.src].what \in Answered

(* One message more. *)
LEMMA PrepStep ==
    ASSUME NEW d, NewsOk(d), NEW e, MessageOk(e), Listed(history)
    PROVE  NewsOk(Prepared(d, e))
<1> SUFFICES ASSUME ~Known(d, e) PROVE NewsOk(Append(d, e))
  BY DEF Prepared
<1> DEFINE v == history \o Append(d, e)
           w == history \o d
           h == Len(history)
           l == Len(d)
<1>1. /\ Listed(Append(d, e)) /\ Len(Append(d, e)) = l + 1 /\ Append(d, e)[l + 1] = e
      /\ \A x \in 1..l : Append(d, e)[x] = d[x]
      /\ l \in Nat /\ DOMAIN d = 1..l
  BY AppendRow DEF NewsOk, Listed
<1>2. Listed(d)
  BY DEF NewsOk
<1>3. /\ Listed(w) /\ Len(w) = h + l /\ h \in Nat /\ DOMAIN w = 1..(h + l) /\ DOMAIN history = 1..h
      /\ \A k \in 1..h : w[k] = history[k]
      /\ \A k \in (h + 1)..(h + l) : w[k] = d[k - h]
  BY <1>2, ConcatList
<1>4. /\ Listed(v) /\ Len(v) = h + (l + 1) /\ DOMAIN v = 1..(h + (l + 1))
      /\ \A k \in 1..h : v[k] = history[k]
      /\ \A k \in (h + 1)..(h + (l + 1)) : v[k] = Append(d, e)[k - h]
  <2> DEFINE a == Append(d, e)
  <2>1. Listed(a) /\ Len(a) = l + 1
    BY <1>1
  <2> HIDE DEF a, l
  <2>2. /\ Listed(history \o a) /\ Len(history \o a) = h + Len(a)
        /\ DOMAIN (history \o a) = 1..(h + Len(a))
        /\ \A k \in 1..h : (history \o a)[k] = history[k]
        /\ \A k \in (h + 1)..(h + Len(a)) : (history \o a)[k] = a[k - h]
    BY <2>1, ConcatList
  <2> QED BY <2>1, <2>2 DEF a
<1> DEFINE p == h + l + 1
<1> HIDE DEF v, w, h, l
<1>5. /\ p \in DOMAIN v /\ v[p] = e /\ DOMAIN v = DOMAIN w \cup {p} /\ p \notin DOMAIN w
      /\ p \in Nat
  <2>1. p - h = l + 1 /\ p \in (h + 1)..(h + (l + 1))
    BY <1>1, <1>3
  <2>2. v[p] = e
    BY <1>1, <1>4, <2>1
  <2> QED BY <1>1, <1>3, <1>4, <2>2
<1>6. \A x \in DOMAIN w : v[x] = w[x]
  <2> TAKE x \in DOMAIN w
  <2>1. CASE x \in 1..h
    BY <1>3, <1>4, <2>1
  <2>2. CASE x \in (h + 1)..(h + l)
    <3>1. x - h \in 1..l /\ x \in (h + 1)..(h + (l + 1))
      BY <1>1, <1>3, <2>2
    <3> QED BY <1>1, <1>3, <1>4, <2>2, <3>1
  <2> QED BY <1>1, <1>3, <2>1, <2>2
<1>7. e.kind = "Completed" => /\ e.src \in 1..(p - 1) /\ e.src \in DOMAIN w
                              /\ v[e.src].kind = "Scheduled" /\ v[e.src].what \in Answered
  <2> HAVE e.kind = "Completed"
  <2>1. e.src \in 1..h /\ history[e.src].kind = "Scheduled" /\ history[e.src].what \in Answered
    BY <1>3 DEF MessageOk
  <2> QED BY <1>1, <1>3, <1>4, <2>1
<1>8. ASSUME NEW x \in DOMAIN v PROVE EventOk(v, x)
  <2>1. CASE x \in DOMAIN w
    <3>1. EventOk(w, x) /\ v[x] = w[x]
      BY <1>6, <2>1 DEF NewsOk, EventsOk, w
    <3>2. w[x].kind = "Completed" => w[x].src \in DOMAIN w
      BY <1>3, <2>1, <3>1 DEF EventOk
    <3>3. w[x].kind = "Completed" => v[w[x].src] = w[w[x].src]
      BY <1>6, <3>2
    <3> QED BY <3>1, <3>3 DEF EventOk
  <2>2. CASE x = p
    <3>1. e.kind \in MessageKinds
      BY DEF MessageOk
    <3> HIDE DEF p
    <3> QED BY <1>5, <1>7, <2>2, <3>1 DEF EventOk, EventKinds, MessageKinds
  <2> QED BY <1>5, <2>1, <2>2
<1>9. ASSUME NEW x \in DOMAIN w, w[x].kind = "Completed", e.kind = "Completed"
      PROVE  w[x].src # e.src
  <2>1. w[x] \in Range(w)
    BY DEF Range
  <2> QED BY <1>9, <2>1 DEF Known, w
<1>10. \A x, y \in DOMAIN v :
         v[x].kind = "Completed" /\ v[y].kind = "Completed" /\ v[x].src = v[y].src => x = y
  <2> TAKE x, y \in DOMAIN v
  <2> HAVE v[x].kind = "Completed" /\ v[y].kind = "Completed" /\ v[x].src = v[y].src
  <2> HIDE DEF p
  <2>1. CASE x \in DOMAIN w /\ y \in DOMAIN w
    BY <1>6, <2>1 DEF NewsOk, EventsOk, w
  <2>2. CASE x \in DOMAIN w /\ y = p
    BY <1>5, <1>6, <1>9, <2>2
  <2>3. CASE x = p /\ y \in DOMAIN w
    BY <1>5, <1>6, <1>9, <2>3
  <2> QED BY <1>5, <2>1, <2>2, <2>3
<1>11. EventsOk(v)
  BY <1>4, <1>8, <1>10 DEF EventsOk
<1>12. \A x \in DOMAIN Append(d, e) : Append(d, e)[x].kind \in MessageKinds
  <2> TAKE x \in DOMAIN Append(d, e)
  <2>1. x \in 1..l \/ x = l + 1
    BY <1>1 DEF Listed
  <2> QED BY <1>1, <2>1 DEF NewsOk, MessageOk
<1> QED BY <1>1, <1>11, <1>12 DEF NewsOk, v

(* What a turn begins with, from whatever messages. *)
LEMMA PrepFacts ==
    ASSUME NEW start, NewsOk(start), NEW messages, Len(messages) \in Nat, Listed(history),
           \A n \in 1..Len(messages) : MessageOk(messages[n])
    PROVE  NewsOk(prep_completions(start, messages))
<1> DEFINE L == Len(messages)
<1>1. PICK g : PrepRun(g, start, messages) /\ g[L] = prep_completions(start, messages)
  BY PrepRuns
<1> DEFINE T == {n \in 0..L : NewsOk(g[n])}
<1>2. 0 \in T
  BY <1>1 DEF PrepRun
<1>3. ASSUME NEW n \in 0..(L - 1), n \in T PROVE n + 1 \in T
  <2>1. n + 1 \in 1..L /\ (n + 1) - 1 = n /\ n + 1 \in 0..L
    OBVIOUS
  <2>2. g[n + 1] = Prepared(g[n], messages[n + 1])
    BY <1>1, <2>1 DEF PrepRun
  <2>3. NewsOk(g[n]) /\ MessageOk(messages[n + 1])
    BY <1>3, <2>1
  <2>4. NewsOk(Prepared(g[n], messages[n + 1]))
    <3> DEFINE d == g[n]
               e == messages[n + 1]
    <3>1. NewsOk(d) /\ MessageOk(e)
      BY <2>3
    <3> HIDE DEF d, e
    <3>2. NewsOk(Prepared(d, e))
      BY <3>1, PrepStep
    <3> QED BY <3>2 DEF d, e
  <2> QED BY <2>1, <2>2, <2>4
<1>4. L \in Nat /\ L \in 0..L
  OBVIOUS
<1> HIDE DEF L, T
<1>5. \A n \in 0..L : n \in T
  BY <1>2, <1>3, <1>4, CountUp
<1>6. L \in T
  BY <1>4, <1>5
<1> QED BY <1>1, <1>6 DEF T

(* The events that conversion adds are events of a history. *)
LEMMA ConvertEvents ==
    ASSUME NEW c, NEW d, NEW m, NEW f, NEW n, NEW new, ConvertedOk(c, d, m, f, n, new),
           Listed(history), Listed(d), EventsOk(history \o d),
           \A x \in DOMAIN d : d[x].kind # "Cancelled"
    PROVE  /\ EventsOk(history \o new.delta)
           /\ \A x \in DOMAIN new.delta : new.delta[x].kind # "Cancelled"
           /\ Len(history \o new.delta) = Len(history) + Len(new.delta)
           /\ Len(history \o d) = Len(history) + Len(d)
<1> DEFINE h == Len(history)
           l == Len(d)
           e == new.delta
           w == history \o d
           v == history \o e
<1>1. /\ Listed(e) /\ l <= Len(e) /\ l \in Nat /\ Len(e) \in Nat
      /\ \A x \in 1..l : e[x] = d[x]
      /\ \A x \in (l + 1)..Len(e) :
           /\ e[x].kind \in {"Scheduled", "Noted"}
           /\ e[x].kind = "Scheduled" => e[x].what \in Awaited \ {"ContinueAsNew"}
           /\ e[x].kind = "Noted" => e[x].what = "Note"
  <2>1. Len(d) \in Nat
    BY DEF Listed
  <2>2. Listed(e) /\ l <= Len(e)
    BY DEF ConvertedOk
  <2>3. Len(e) \in Nat
    <3> HIDE DEF e
    <3> QED BY <2>2 DEF Listed
  <2>4. /\ \A x \in 1..l : e[x] = d[x]
        /\ \A x \in (l + 1)..Len(e) :
             /\ e[x].kind \in {"Scheduled", "Noted"}
             /\ e[x].kind = "Scheduled" => e[x].what \in Awaited \ {"ContinueAsNew"}
             /\ e[x].kind = "Noted" => e[x].what = "Note"
    BY DEF ConvertedOk
  <2> QED BY <2>1, <2>2, <2>3, <2>4
<1> HIDE DEF e
<1>2. /\ Listed(w) /\ Len(w) = h + l /\ h \in Nat /\ DOMAIN w = 1..(h + l)
      /\ \A k \in 1..h : w[k] = history[k]
      /\ \A k \in (h + 1)..(h + l) : w[k] = d[k - h]
  BY ConcatList
<1>3. /\ Listed(v) /\ Len(v) = h + Len(e) /\ DOMAIN v = 1..(h + Len(e)) /\ DOMAIN e = 1..Len(e)
      /\ \A k \in 1..h : v[k] = history[k]
      /\ \A k \in (h + 1)..(h + Len(e)) : v[k] = e[k - h]
  BY <1>1, ConcatList
<1> HIDE DEF v, w, h, l
<1>4. DOMAIN w \subseteq DOMAIN v /\ \A x \in DOMAIN w : v[x] = w[x]
  <2>1. ASSUME NEW x \in DOMAIN w PROVE x \in DOMAIN v /\ v[x] = w[x]
    <3>1. CASE x \in 1..h
      BY <1>1, <1>2, <1>3, <3>1
    <3>2. CASE x \in (h + 1)..(h + l)
      <4>1. x - h \in 1..l /\ x \in (h + 1)..(h + Len(e)) /\ x \in 1..(h + Len(e))
        BY <1>1, <1>2, <3>2
      <4> QED BY <1>1, <1>2, <1>3, <3>2, <4>1
    <3> QED BY <1>1, <1>2, <3>1, <3>2
  <2> QED BY <2>1
<1>5. ASSUME NEW x \in DOMAIN v, x \notin DOMAIN w
      PROVE  EventOk(v, x) /\ v[x].kind # "Completed"
  <2>1. x \in (h + 1)..(h + Len(e)) /\ x - h \in (l + 1)..Len(e)
    BY <1>1, <1>2, <1>3, <1>5
  <2>2. v[x] = e[x - h]
    BY <1>3, <2>1
  <2>3. /\ v[x].kind \in {"Scheduled", "Noted"}
        /\ v[x].kind = "Scheduled" => v[x].what \in Awaited \ {"ContinueAsNew"}
        /\ v[x].kind = "Noted" => v[x].what = "Note"
    BY <1>1, <2>1, <2>2
  <2> QED BY <2>3 DEF EventOk, EventKinds
<1>6. EventsOk(v)
  <2>1. EventsOk(w)
    BY DEF w
  <2> QED BY <1>3, <1>4, <1>5, <2>1, EventsMore
<1>7. \A x \in DOMAIN e : e[x].kind # "Cancelled"
  <2> TAKE x \in DOMAIN e
  <2>1. CASE x \in 1..l
    BY <1>1, <2>1 DEF l, Listed
  <2>2. CASE x \in (l + 1)..Len(e)
    BY <1>1, <2>2
  <2> QED BY <1>1, <1>3, <2>1, <2>2
<1> QED BY <1>2, <1>3, <1>6, <1>7 DEF e, v, w, h, l

(* A finite set as a list, each of its elements once. *)
LEMMA SetListed ==
    ASSUME NEW S, IsFiniteSet(S), NEW f \in SetToSeqs(S)
    PROVE  Listed(f) /\ Range(f) = S /\ \A x, y \in DOMAIN f : f[x] = f[y] => x = y
<1> DEFINE n == Cardinality(S)
<1>1. n \in Nat /\ IsFiniteSet(1..n) /\ Cardinality(1..n) = n
  <2>1. n \in Nat
    BY FS_CardinalityType
  <2> QED BY <2>1, FS_Interval
<1>2. f \in [1..n -> S] /\ \A x, y \in 1..n : x # y => f[x] # f[y]
  BY DEF SetToSeqs
<1>3. f \in Injection(1..n, S)
  BY <1>2 DEF Injection, IsInjective
<1> HIDE DEF n
<1>4. f \in Surjection(1..n, S)
  BY <1>1, <1>3, FS_Injection DEF n
<1>5. Range(f) = S
  BY <1>2, <1>4 DEF Surjection, Range
<1>6. Listed(f)
  <2>1. f \in Seq(S)
    BY <1>1, <1>2
  <2> QED BY <2>1, SeqListed
<1> QED BY <1>2, <1>5, <1>6

(* Dropped futures of different kinds have different ids. *)
LEMMA DroppedApart ==
    ASSUME NEW c, NEW m, Core(c, m), NEW top \in Nat, Ids(c, top)
    PROVE  /\ \A j : DroppedIds(c, j) \subseteq 1..top
           /\ \A j, k : j # k => DroppedIds(c, j) \cap DroppedIds(c, k) = {}
<1>1. \A j : DroppedIds(c, j) \subseteq 1..top
  BY DEF DroppedIds, Ids
<1>2. \A s, t \in DOMAIN c.bound : c.bound[s] = c.bound[t] => s = t
  <2> TAKE s, t \in DOMAIN c.bound
  <2> HAVE c.bound[s] = c.bound[t]
  <2>1. s \in Nat /\ t \in Nat /\ c.bound[s] \in Nat /\ c.bound[t] \in Nat
    BY DEF Core, Ids
  <2>2. ~(s < t) /\ ~(t < s)
    BY <2>1 DEF Ids
  <2> QED BY <2>1, <2>2
<1>3. \A j, k : j # k => DroppedIds(c, j) \cap DroppedIds(c, k) = {}
  <2> TAKE j, k
  <2> HAVE j # k
  <2>1. ASSUME NEW i, i \in DroppedIds(c, j), i \in DroppedIds(c, k) PROVE FALSE
    <3>1. PICK s \in c.dropped \cap DOMAIN c.bound : c.kinds[s] = j /\ i = c.bound[s]
      BY <2>1 DEF DroppedIds
    <3>2. PICK t \in c.dropped \cap DOMAIN c.bound : c.kinds[t] = k /\ i = c.bound[t]
      BY <2>1 DEF DroppedIds
    <3> QED BY <1>2, <3>1, <3>2
  <2> QED BY <2>1
<1> QED BY <1>1, <1>3

-----------------------------------------------------------------------------
(* The end of a turn: what is recorded as cancelled.                       *)

Crumb(kind, i) == Event("Cancelled", kind, i, None)

(* Each record is of another event. *)
Once(w) ==
  \A x, y \in DOMAIN w :
    w[x].kind = "Cancelled" /\ w[y].kind = "Cancelled" /\ w[x].src = w[y].src => x = y

(* w is what was there, and records of the dropped futures of some kinds.  *)
Recording(w, kinds) ==
  /\ Listed(w) /\ DOMAIN Working \subseteq DOMAIN w
  /\ \A x \in DOMAIN Working : w[x] = Working[x]
  /\ \A x \in DOMAIN w : x \notin DOMAIN Working =>
       w[x].kind = "Cancelled" /\ w[x].what \in kinds /\ w[x].src \in NewlyDropped(w[x].what)
  /\ \A kind \in kinds : \A i \in NewlyDropped(kind) : Crumb(kind, i) \in Range(w)
  /\ Once(w)

(* The records of one more kind. *)
LEMMA RecordingMore ==
    ASSUME NEW w, NEW kinds, kinds \subseteq Range(Cancellable), Recording(w, kinds),
           NEW kind \in Range(Cancellable), kind \notin kinds,
           NEW m, Core(ctx, m), NEW top \in Nat, Ids(ctx, top),
           EventsOk(Working), \A j \in Range(Cancellable) : Recorded(j) \subseteq DroppedIds(ctx, j),
           NEW ids \in SetToSeqs(NewlyDropped(kind)),
           NEW crumbs, crumbs = [i \in DOMAIN ids |-> Crumb(kind, ids[i])]
    PROVE  Recording(w \o crumbs, kinds \cup {kind})
<1> DEFINE S == NewlyDropped(kind)
           v == w \o crumbs
           l == Len(w)
           n == Len(crumbs)
<1>1. /\ \A j : DroppedIds(ctx, j) \subseteq 1..top
      /\ \A j, k : j # k => DroppedIds(ctx, j) \cap DroppedIds(ctx, k) = {}
  BY DroppedApart
<1>2. IsFiniteSet(S)
  <2>1. S \subseteq 1..top /\ IsFiniteSet(1..top)
    BY <1>1, FS_Interval DEF NewlyDropped
  <2> QED BY <2>1, FS_Subset
<1>3. Listed(ids) /\ Range(ids) = S /\ \A x, y \in DOMAIN ids : ids[x] = ids[y] => x = y
  <2> HIDE DEF S
  <2>1. ids \in SetToSeqs(S)
    BY DEF S
  <2> QED BY <1>2, <2>1, SetListed
<1>4. Len(ids) \in Nat /\ DOMAIN ids = 1..Len(ids)
  BY <1>3 DEF Listed
<1>5. /\ Listed(crumbs) /\ DOMAIN crumbs = DOMAIN ids /\ n = Len(ids)
      /\ \A x \in DOMAIN ids : crumbs[x] = Crumb(kind, ids[x])
  <2>1. DOMAIN crumbs = 1..Len(ids) /\ \A x \in 1..Len(ids) : crumbs[x] = Crumb(kind, ids[x])
    BY <1>4
  <2>2. crumbs = [x \in 1..Len(ids) |-> crumbs[x]]
    BY <2>1
  <2>3. Listed(crumbs)
    <3> DEFINE b == Len(ids)
    <3>1. b \in Nat /\ crumbs = [x \in 1..b |-> crumbs[x]]
      BY <1>4, <2>2
    <3> HIDE DEF b
    <3> QED BY <3>1, MappedRows
  <2>4. Len(crumbs) = Len(ids)
    BY <1>4, <2>1, <2>3 DEF Listed
  <2> QED BY <1>4, <2>1, <2>3, <2>4
<1>6. /\ Listed(v) /\ l \in Nat /\ n \in Nat /\ DOMAIN w = 1..l /\ DOMAIN crumbs = 1..n
      /\ DOMAIN v = 1..(l + n)
      /\ \A k \in 1..l : v[k] = w[k]
      /\ \A k \in (l + 1)..(l + n) : v[k] = crumbs[k - l]
  <2>1. Listed(w)
    BY DEF Recording
  <2> QED BY <1>5, <2>1, ConcatList
<1> HIDE DEF v, l, n
<1>7. ASSUME NEW x \in (l + 1)..(l + n)
      PROVE  /\ x - l \in DOMAIN ids /\ v[x] = Crumb(kind, ids[x - l])
             /\ v[x].kind = "Cancelled" /\ v[x].what = kind /\ v[x].src = ids[x - l]
             /\ v[x].src \in S
  <2>1. x - l \in 1..n
    BY <1>6
  <2>2. x - l \in DOMAIN ids
    BY <1>5, <1>6, <2>1
  <2>3. v[x] = Crumb(kind, ids[x - l])
    BY <1>5, <1>6, <2>2
  <2>4. ids[x - l] \in S
    BY <1>3, <2>2 DEF Range
  <2> QED BY <2>2, <2>3, <2>4 DEF Crumb, Event
<1>8. \A x \in DOMAIN v : x \in 1..l \/ x \in (l + 1)..(l + n)
  BY <1>6
<1>9. ASSUME NEW x \in DOMAIN w, w[x].kind = "Cancelled" PROVE w[x].src \notin S
  <2>1. CASE x \in DOMAIN Working
    <3>1. w[x] = Working[x] /\ w[x] \in Range(Working) /\ w[x].what \in Range(Cancellable)
      BY <1>9, <2>1 DEF Recording, EventsOk, EventOk, Range
    <3>2. w[x].src \in Recorded(w[x].what)
      BY <1>9, <3>1 DEF Recorded
    <3>3. w[x].src \in DroppedIds(ctx, w[x].what)
      BY <3>1, <3>2
    <3>4. CASE w[x].what = kind
      BY <3>2, <3>4 DEF NewlyDropped
    <3>5. CASE w[x].what # kind
      BY <1>1, <3>3, <3>5 DEF NewlyDropped
    <3> QED BY <3>4, <3>5
  <2>2. CASE x \notin DOMAIN Working
    <3>1. w[x].what \in kinds /\ w[x].src \in NewlyDropped(w[x].what)
      BY <2>2 DEF Recording
    <3>2. w[x].what # kind /\ w[x].src \in DroppedIds(ctx, w[x].what)
      BY <3>1 DEF NewlyDropped
    <3> QED BY <1>1, <3>2 DEF NewlyDropped
  <2> QED BY <2>1, <2>2
<1>10. Once(v)
  <2> SUFFICES ASSUME NEW x \in DOMAIN v, NEW y \in DOMAIN v,
                      v[x].kind = "Cancelled", v[y].kind = "Cancelled", v[x].src = v[y].src
               PROVE  x = y
    BY DEF Once
  <2>1. CASE x \in 1..l /\ y \in 1..l
    BY <1>6, <2>1 DEF Recording, Once
  <2>2. CASE x \in 1..l /\ y \in (l + 1)..(l + n)
    BY <1>6, <1>7, <1>9, <2>2
  <2>3. CASE x \in (l + 1)..(l + n) /\ y \in 1..l
    BY <1>6, <1>7, <1>9, <2>3
  <2>4. CASE x \in (l + 1)..(l + n) /\ y \in (l + 1)..(l + n)
    <3>1. x - l = y - l
      BY <1>3, <1>7, <2>4
    <3> QED BY <1>6, <2>4, <3>1
  <2> QED BY <1>8, <2>1, <2>2, <2>3, <2>4
<1>11. DOMAIN w \subseteq DOMAIN v
  BY <1>6
<1>12. \A x \in DOMAIN Working : x \in DOMAIN v /\ v[x] = Working[x]
  BY <1>6, <1>11 DEF Recording
<1>13. ASSUME NEW x \in DOMAIN v, x \notin DOMAIN Working
       PROVE  /\ v[x].kind = "Cancelled" /\ v[x].what \in kinds \cup {kind}
              /\ v[x].src \in NewlyDropped(v[x].what)
  <2>1. CASE x \in 1..l
    BY <1>6, <1>13, <2>1 DEF Recording
  <2>2. CASE x \in (l + 1)..(l + n)
    BY <1>7, <2>2
  <2> QED BY <1>8, <2>1, <2>2
<1>14. ASSUME NEW j \in kinds \cup {kind}, NEW i \in NewlyDropped(j) PROVE Crumb(j, i) \in Range(v)
  <2>1. CASE j \in kinds
    <3>1. PICK x \in DOMAIN w : w[x] = Crumb(j, i)
      BY <2>1 DEF Recording, Range
    <3> QED BY <1>6, <1>11, <3>1 DEF Range
  <2>2. CASE j = kind
    <3>1. PICK x \in DOMAIN ids : ids[x] = i
      BY <1>3, <2>2 DEF Range
    <3>2. l + x \in (l + 1)..(l + n) /\ (l + x) - l = x
      BY <1>5, <1>6, <3>1
    <3>3. l + x \in DOMAIN v
      BY <1>6, <3>2
    <3>4. v[l + x] = Crumb(j, i)
      BY <1>7, <2>2, <3>1, <3>2
    <3> QED BY <3>3, <3>4 DEF Range
  <2> QED BY <2>1, <2>2
<1> HIDE DEF S
<1>15. Recording(v, kinds \cup {kind})
  BY <1>6, <1>10, <1>12, <1>13, <1>14 DEF Recording
<1> QED BY <1>15 DEF v

-----------------------------------------------------------------------------
(* The inductive invariant.                                                *)

EngFields == {"phase", "pos", "fifo", "open", "must_poll", "pending"}

Phases == {"idle", "replay", "quiesce", "finalize", "ended", "nondeterminism"}

(* The histories. *)
StoredOk ==
  /\ scenario \in Scenario /\ CodeOk(code)
  /\ Listed(history) /\ Listed(delta) /\ EventsOk(Working)
  /\ Once(history)
  /\ \A x \in DOMAIN delta : delta[x].kind # "Cancelled"
  /\ DOMAIN eng = EngFields /\ eng.phase \in Phases

(* Between two turns the history is complete. *)
IdleOk ==
  eng.phase = "idle" =>
    /\ delta = <<>> /\ last = Observed(ctx)
    /\ Core(ctx, Len(ctx.kinds)) /\ Ids(ctx, Len(history))
    /\ \A kind \in Range(Cancellable) : Recorded(kind) = DroppedIds(ctx, kind)

ReplayOk ==
  eng.phase = "replay" =>
    /\ Good(Conf, Working) /\ eng.pending = <<>>
    /\ \A x \in DOMAIN delta : delta[x].kind \in MessageKinds

(* Everything that the code did is an event; continue-as-new has none, and *)
(* ends the execution.                                                     *)
QuietOk ==
  eng.phase \in {"quiesce", "finalize"} =>
    /\ Core(ctx, Len(ctx.kinds)) /\ Listed(eng.pending)
    /\ "ContinueAsNew" \in Range(eng.pending) \/ Ids(ctx, Len(Working))

Inv == StoredOk /\ IdleOk /\ ReplayOk /\ QuietOk

(* The beginning. *)
LEMMA InvInit == Init => Inv
<1> SUFFICES ASSUME Init PROVE Inv
  OBVIOUS
<1>1. /\ scenario \in Scenario /\ code = <<>> /\ history = <<>> /\ delta = <<>>
      /\ ctx = NewContext /\ eng = Engine("idle") /\ last = Observed(NewContext)
  BY DEF Init
<1>2. DOMAIN eng = EngFields /\ eng.phase = "idle"
  BY <1>1 DEF Engine, EngFields
<1>3. Working = <<>> /\ DOMAIN <<>> = {} /\ Len(<<>>) = 0
  BY <1>1 DEF Working
<1>4. StoredOk
  BY <1>1, <1>2, <1>3, NoRow DEF StoredOk, CodeOk, EventsOk, Once, Phases
<1>5. NewContext.kinds = <<>> /\ NewContext.dropped = {}
  BY DEF NewContext
<1>6. Core(ctx, Len(ctx.kinds)) /\ Ids(ctx, Len(history))
  BY <1>1, <1>3, <1>5, NewCore
<1>7. \A kind : Recorded(kind) = {} /\ DroppedIds(ctx, kind) = {}
  BY <1>1, <1>3, <1>5, NoRow DEF Recorded, DroppedIds
<1>8. IdleOk
  BY <1>1, <1>6, <1>7 DEF IdleOk
<1> QED BY <1>2, <1>4, <1>8 DEF Inv, ReplayOk, QuietOk

(* What a poll may find: code that knows what comes next. *)
LEMMA CodesFacts ==
    ASSUME scenario \in Scenario, CodeOk(code), NEW c, NEW k \in Codes(c)
    PROVE  /\ CodeOk(k) /\ (Ready(c) => Seen(c) \in DOMAIN k)
           /\ \A s \in DOMAIN code : s \in DOMAIN k /\ k[s] = code[s]
<1>1. CASE ~Ready(c) \/ Seen(c) \in DOMAIN code
  BY <1>1 DEF Codes
<1>2. CASE Ready(c) /\ Seen(c) \notin DOMAIN code
  <2>1. PICK r \in scenario.rounds \cup {Return} :
          k = [x \in DOMAIN code \cup {Seen(c)} |-> IF x = Seen(c) THEN r ELSE code[x]]
    BY <1>2 DEF Codes
  <2>2. RoundOk(r)
    <3>1. CASE r = Return
      BY <3>1 DEF Return, RoundOk, Acts
    <3>2. CASE r \in scenario.rounds
      BY <3>2, ScenarioAssumption DEF RoundOk, Acts
    <3> QED BY <2>1, <3>1, <3>2
  <2>3. /\ DOMAIN k = DOMAIN code \cup {Seen(c)}
        /\ \A x \in DOMAIN k : k[x] = IF x = Seen(c) THEN r ELSE code[x]
    BY <2>1
  <2> QED BY <1>2, <2>2, <2>3 DEF CodeOk
<1> QED BY <1>1, <1>2

(* The messages of a turn. *)
LEMMA MessagesOk == ASSUME NEW e \in Messages PROVE MessageOk(e)
  BY DEF Messages, MessageOk, MessageKinds, Event

(* A turn begins. *)
LEMMA InvBeginTurn == ASSUME Inv, BeginTurn PROVE Inv'
<1>1. /\ eng.phase = "idle" /\ ctx' = NewContext /\ eng' = Engine("replay")
      /\ UNCHANGED <<scenario, code, history, last>>
  BY DEF BeginTurn
<1> DEFINE first == history = <<>>
           start == IF first THEN <<Event("Started", None, None, None)>> ELSE <<>>
<1>2. PICK n \in (IF first THEN 0 ELSE 1)..(IF first THEN scenario.batch - 1 ELSE scenario.batch) :
        \E batch \in [1..n -> Messages] : delta' = prep_completions(start, batch)
  BY DEF BeginTurn
<1>3. PICK batch \in [1..n -> Messages] : delta' = prep_completions(start, batch)
  BY <1>2
<1>4. n \in Nat
  <2>1. scenario.batch \in Nat \ {0}
    BY ScenarioAssumption DEF Inv, StoredOk
  <2> QED BY <1>2, <2>1
<1>5. Len(batch) = n /\ \A x \in 1..Len(batch) : MessageOk(batch[x])
  <2>1. Len(batch) = n
    BY <1>3, <1>4
  <2> QED BY <1>3, <2>1, MessagesOk
<1>6. delta = <<>> /\ Listed(history) /\ EventsOk(history \o <<>>)
  BY <1>1 DEF Inv, IdleOk, StoredOk, Working
<1>7. history \o <<>> = history
  BY <1>6 DEF Listed
<1>8. NewsOk(start)
  <2>1. CASE first
    <3> DEFINE e == Event("Started", None, None, None)
    <3>1. e.kind = "Started"
      BY DEF Event
    <3>2. start = <<e>> /\ history \o <<e>> = <<e>>
      BY <2>1
    <3>3. /\ Listed(<<e>>) /\ DOMAIN <<e>> = 1..1 /\ <<e>>[1] = e
      BY OneRow
    <3> HIDE DEF e
    <3>4. EventsOk(<<e>>)
      BY <3>1, <3>3 DEF EventsOk, EventOk, EventKinds
    <3>5. e.kind \in MessageKinds
      BY <3>1 DEF MessageKinds
    <3> DEFINE row == <<e>>
    <3>7. \A x \in DOMAIN row : row[x].kind \in MessageKinds
      BY <3>3, <3>5
    <3>8. Listed(row) /\ EventsOk(history \o row)
      BY <3>2, <3>3, <3>4
    <3> HIDE DEF row
    <3>9. NewsOk(row)
      BY <3>7, <3>8 DEF NewsOk
    <3>6. NewsOk(<<e>>)
      BY <3>9 DEF row
    <3> HIDE DEF start
    <3> QED BY <3>2, <3>6
  <2>2. CASE ~first
    BY <1>6, <2>2, NoRow DEF NewsOk
  <2> HIDE DEF start, first
  <2> QED BY <2>1, <2>2
<1>9. NewsOk(delta')
  <2> HIDE DEF start
  <2>1. Len(batch) \in Nat
    BY <1>4, <1>5
  <2> QED BY <1>3, <1>5, <1>6, <1>8, <2>1, PrepFacts
<1>10. /\ DOMAIN eng' = EngFields /\ eng'.phase = "replay" /\ eng'.pending = <<>>
       /\ Conf' = Started
  BY <1>1 DEF Engine, EngFields, Conf, Started
<1>11. EventsOk(Working') /\ Listed(delta') /\ \A x \in DOMAIN delta' : delta'[x].kind \in MessageKinds
  BY <1>1, <1>9 DEF NewsOk, Working
<1>12. StoredOk'
  <2>1. /\ scenario' \in Scenario /\ CodeOk(code') /\ Listed(history')
        /\ Once(history')
    BY <1>1 DEF Inv, StoredOk
  <2>2. \A x \in DOMAIN delta' : delta'[x].kind # "Cancelled"
    BY <1>11 DEF MessageKinds
  <2> QED BY <1>10, <1>11, <2>1, <2>2 DEF StoredOk, Phases
<1>13. Good(Conf', Working')
  <2>1. Listed(Working')
    BY <1>11 DEF EventsOk
  <2> DEFINE w == Working'
  <2> HIDE DEF w
  <2>2. Good(Started, w)
    BY <2>1, StartedGood DEF w
  <2> QED BY <1>10, <2>2 DEF w
<1> QED BY <1>10, <1>11, <1>12, <1>13 DEF Inv, IdleOk, ReplayOk, QuietOk

(* What stays as it is while the loop runs. *)
LEMMA ReplayKeeps ==
    ASSUME Inv, UNCHANGED <<scenario, history, delta, last>>, CodeOk(code'),
           DOMAIN eng' = EngFields, eng'.phase \in {"replay", "nondeterminism"},
           eng.phase = "replay", eng'.pending = eng.pending,
           eng'.phase = "replay" => Good(Conf', Working)
    PROVE  Inv'
<1>1. Working' = Working
  BY DEF Working
<1>2. StoredOk'
  BY <1>1 DEF Inv, StoredOk, Phases, Once
<1> QED BY <1>1, <1>2 DEF Inv, IdleOk, ReplayOk, QuietOk

(* A poll is an iteration of the loop. *)
LEMMA PollIs ==
    ASSUME Inv, Poll
    PROVE  /\ eng.phase = "replay" /\ Conf.must /\ Goes(Conf, code', Working)
           /\ Conf' = AfterPoll(Conf, code') /\ CodeOk(code')
           /\ \A s \in DOMAIN code : s \in DOMAIN code' /\ code'[s] = code[s]
           /\ DOMAIN eng' = EngFields /\ eng'.phase = "replay" /\ eng'.pending = eng.pending
           /\ UNCHANGED <<scenario, history, delta, last>>
<1>1. PICK k \in Codes(ctx) :
        /\ code' = k /\ ctx' = poll(ctx, k).ctx
        /\ eng' = [eng EXCEPT !.fifo = @ \o poll(ctx, k).emitted, !.must_poll = FALSE]
  BY DEF Poll
<1>2. scenario \in Scenario /\ CodeOk(code) /\ DOMAIN eng = EngFields
  BY DEF Inv, StoredOk
<1>3. /\ CodeOk(k) /\ (Ready(ctx) => Seen(ctx) \in DOMAIN k)
      /\ \A s \in DOMAIN code : s \in DOMAIN k /\ k[s] = code[s]
  BY <1>1, <1>2, CodesFacts
<1>4. eng.phase = "replay" /\ ~ctx.output /\ eng.must_poll /\ UNCHANGED <<scenario, history, delta, last>>
  BY DEF Poll, Replaying
<1>5. Conf.must /\ Conf.ctx = ctx
  BY <1>4 DEF Conf
<1>6. Goes(Conf, code', Working)
  BY <1>1, <1>3, <1>4, <1>5 DEF Goes
<1>7. /\ DOMAIN eng' = EngFields /\ eng'.phase = eng.phase /\ eng'.pending = eng.pending
      /\ eng'.pos = eng.pos /\ eng'.open = eng.open /\ eng'.must_poll = FALSE
      /\ eng'.fifo = eng.fifo \o poll(ctx, k).emitted
  BY <1>1, <1>2 DEF EngFields
<1>8. Conf' = AfterPoll(Conf, code')
  <2>1. Conf' = [ctx |-> poll(ctx, k).ctx, fifo |-> eng.fifo \o poll(ctx, k).emitted,
                 open |-> eng.open, must |-> FALSE, pos |-> eng.pos]
    BY <1>1, <1>7 DEF Conf
  <2>2. Conf = [ctx |-> ctx, fifo |-> eng.fifo, open |-> eng.open, must |-> eng.must_poll,
                pos |-> eng.pos]
    BY DEF Conf
  <2>3. Conf.ctx = ctx /\ Conf.fifo = eng.fifo /\ Conf.open = eng.open /\ Conf.pos = eng.pos
    BY <2>2
  <2> QED BY <1>1, <2>1, <2>3 DEF AfterPoll
<1> QED BY <1>1, <1>3, <1>4, <1>5, <1>6, <1>7, <1>8

Applies ==
  \/ ApplySchedule \/ ApplyNote \/ ApplyCompletion \/ ApplyExternalEvent
  \/ ApplyQueueEvent \/ ApplyCancelled \/ ApplyOther

(* To apply an event is an iteration of the loop, unless it fails. *)
LEMMA AppliesIs ==
    ASSUME Inv, Applies
    PROVE  /\ eng.phase = "replay" /\ ~Conf.must /\ Conf.pos <= Len(Working) /\ ~ctx.output
           /\ DOMAIN eng' = EngFields /\ eng'.pending = eng.pending
           /\ UNCHANGED <<scenario, code, history, delta, last>>
           /\ \/ eng'.phase = "nondeterminism" /\ ~Fits(Conf, Working[Conf.pos])
              \/ /\ eng'.phase = "replay" /\ Fits(Conf, Working[Conf.pos])
                 /\ Conf' = AfterEvent(Conf, Working[Conf.pos])
<1> DEFINE e == Working[eng.pos]
<1>1. /\ eng.phase = "replay" /\ ~eng.must_poll /\ eng.pos <= Len(Working) /\ ~ctx.output
      /\ UNCHANGED <<scenario, code, history, delta, last>>
  BY DEF Applies, ApplySchedule, ApplyNote, ApplyCompletion, ApplyExternalEvent, ApplyQueueEvent,
         ApplyCancelled, ApplyOther, Applying, Replaying
<1>2. DOMAIN eng = EngFields
  BY DEF Inv, StoredOk
<1>3. /\ Conf.must = eng.must_poll /\ Conf.pos = eng.pos /\ Conf.ctx = ctx /\ Conf.fifo = eng.fifo
      /\ Conf.open = eng.open
  BY DEF Conf
<1>4. ASSUME NEW must, NEW fifo, NEW open, Applied(must, fifo, open)
      PROVE  /\ DOMAIN eng' = EngFields /\ eng'.phase = eng.phase /\ eng'.pending = eng.pending
             /\ Conf' = [ctx |-> ctx', fifo |-> fifo, open |-> open, must |-> must,
                         pos |-> eng.pos + 1]
  BY <1>2, <1>4 DEF Applied, EngFields, Conf
<1>5. ASSUME Fail
      PROVE  /\ DOMAIN eng' = EngFields /\ eng'.phase = "nondeterminism" /\ eng'.pending = eng.pending
  BY <1>2, <1>5 DEF Fail, EngFields
<1>6. CASE ApplySchedule
  <2>1. e.kind = "Scheduled"
    BY <1>6 DEF ApplySchedule, Applying
  <2>2. Fits(Conf, e) <=> Expected(e)
    BY <1>3, <2>1 DEF Fits, Expected
  <2>3. CASE ~Expected(e)
    BY <1>1, <1>3, <1>5, <1>6, <2>2, <2>3 DEF ApplySchedule
  <2>4. CASE Expected(e)
    <3>1. /\ ctx' = Bind(ctx, Head(eng.fifo).token, eng.pos)
          /\ Applied(Wakes(e), Tail(eng.fifo), eng.open \cup {eng.pos})
      BY <1>6, <2>4 DEF ApplySchedule
    <3>2. eng.fifo # <<>>
      BY <2>4 DEF Expected
    <3>3. /\ DOMAIN eng' = EngFields /\ eng'.phase = eng.phase /\ eng'.pending = eng.pending
          /\ Conf' = [ctx |-> ctx', fifo |-> Tail(eng.fifo), open |-> eng.open \cup {eng.pos},
                      must |-> Wakes(e), pos |-> eng.pos + 1]
      BY <1>4, <3>1
    <3>4. Conf' = AfterEvent(Conf, e)
      BY <1>3, <2>1, <3>1, <3>2, <3>3 DEF AfterEvent, ContextAfter, Wakes
    <3> QED BY <1>1, <1>3, <2>2, <2>4, <3>3, <3>4
  <2> QED BY <2>3, <2>4
<1>7. CASE ApplyNote
  <2>1. e.kind = "Noted"
    BY <1>7 DEF ApplyNote, Applying
  <2>2. Fits(Conf, e) <=> ~(eng.fifo # <<>> /\ ~Expected(e))
    BY <1>3, <2>1 DEF Fits, Expected
  <2>3. CASE eng.fifo # <<>> /\ ~Expected(e)
    BY <1>1, <1>3, <1>5, <1>7, <2>2, <2>3 DEF ApplyNote
  <2>4. CASE ~(eng.fifo # <<>> /\ ~Expected(e))
    <3> DEFINE f == IF eng.fifo = <<>> THEN <<>> ELSE Tail(eng.fifo)
    <3>1. ctx' = ctx /\ Applied(FALSE, f, eng.open)
      BY <1>7, <2>4 DEF ApplyNote
    <3>2. f = IF eng.fifo # <<>> THEN Tail(eng.fifo) ELSE eng.fifo
      OBVIOUS
    <3> HIDE DEF f
    <3>3. /\ DOMAIN eng' = EngFields /\ eng'.phase = eng.phase /\ eng'.pending = eng.pending
          /\ Conf' = [ctx |-> ctx', fifo |-> f, open |-> eng.open, must |-> FALSE,
                      pos |-> eng.pos + 1]
      BY <1>4, <3>1
    <3>4. ctx' = ContextAfter(Conf, e)
      BY <1>3, <2>1, <3>1 DEF ContextAfter
    <3> DEFINE o == CASE e.kind = "Scheduled" -> Conf.open \cup {Conf.pos}
                      [] e.kind = "Completed" -> Conf.open \ {e.src}
                      [] OTHER -> Conf.open
               b == CASE e.kind = "Scheduled" -> e.what = "Queue"
                      [] e.kind = "ExternalEvent" -> has_pending_subscription_slot(Conf.ctx)
                      [] OTHER -> e.kind \in {"Completed", "QueueEvent"}
    <3>5. o = eng.open
      BY <1>3, <2>1
    <3>6. b = FALSE
      BY <2>1
    <3>7. f = IF e.kind \in {"Scheduled", "Noted"} /\ Conf.fifo # <<>> THEN Tail(Conf.fifo)
              ELSE Conf.fifo
      BY <1>3, <2>1, <3>2
    <3>8. AfterEvent(Conf, e) = [ctx |-> ContextAfter(Conf, e), fifo |-> f, open |-> o, must |-> b,
                                 pos |-> Conf.pos + 1]
      BY <3>7 DEF AfterEvent
    <3> HIDE DEF o, b
    <3>9. Conf' = AfterEvent(Conf, e)
      BY <1>3, <3>3, <3>4, <3>5, <3>6, <3>8
    <3> QED BY <1>1, <1>3, <2>2, <2>4, <3>3, <3>9
  <2> QED BY <2>3, <2>4
<1>8. CASE ApplyCompletion
  <2>1. e.kind = "Completed"
    BY <1>8 DEF ApplyCompletion, Applying
  <2>2. Fits(Conf, e) <=> e.src \in eng.open
    BY <1>3, <2>1 DEF Fits
  <2>3. CASE e.src \notin eng.open
    BY <1>1, <1>3, <1>5, <1>8, <2>2, <2>3 DEF ApplyCompletion
  <2>4. CASE e.src \in eng.open
    <3> DEFINE token == CHOOSE t \in DOMAIN ctx.bound : ctx.bound[t] = e.src
    <3>1. /\ ctx' = [ctx EXCEPT !.results =
                       [t \in DOMAIN @ \cup {token} |-> IF t = token THEN eng.pos ELSE @[t]]]
          /\ Applied(TRUE, eng.fifo, eng.open \ {e.src})
      BY <1>8, <2>4 DEF ApplyCompletion
    <3>2. token = Delivered_to(ctx, e.src)
      BY DEF Delivered_to
    <3>3. /\ DOMAIN eng' = EngFields /\ eng'.phase = eng.phase /\ eng'.pending = eng.pending
          /\ Conf' = [ctx |-> ctx', fifo |-> eng.fifo, open |-> eng.open \ {e.src}, must |-> TRUE,
                      pos |-> eng.pos + 1]
      BY <1>4, <3>1
    <3> HIDE DEF token
    <3>4. ctx' = ContextAfter(Conf, e)
      BY <1>3, <2>1, <3>1, <3>2 DEF ContextAfter
    <3>5. Conf' = AfterEvent(Conf, e)
      BY <1>3, <2>1, <3>3, <3>4 DEF AfterEvent
    <3> QED BY <1>1, <1>3, <2>2, <2>4, <3>3, <3>5
  <2> QED BY <2>3, <2>4
<1>9. CASE ApplyExternalEvent
  <2>1. e.kind = "ExternalEvent"
    BY <1>9 DEF ApplyExternalEvent, Applying
  <2> DEFINE taken == has_pending_subscription_slot(ctx)
  <2>2. /\ ctx' = [ctx EXCEPT !.arrivals = IF taken THEN Append(@, eng.pos) ELSE @]
        /\ Applied(taken, eng.fifo, eng.open)
    BY <1>9 DEF ApplyExternalEvent
  <2>3. Fits(Conf, e)
    BY <2>1 DEF Fits
  <2>4. /\ DOMAIN eng' = EngFields /\ eng'.phase = eng.phase /\ eng'.pending = eng.pending
        /\ Conf' = [ctx |-> ctx', fifo |-> eng.fifo, open |-> eng.open, must |-> taken,
                    pos |-> eng.pos + 1]
    BY <1>4, <2>2
  <2>5. ctx' = ContextAfter(Conf, e)
    BY <1>3, <2>1, <2>2 DEF ContextAfter
  <2> DEFINE o == CASE e.kind = "Scheduled" -> Conf.open \cup {Conf.pos}
                    [] e.kind = "Completed" -> Conf.open \ {e.src}
                    [] OTHER -> Conf.open
             b == CASE e.kind = "Scheduled" -> e.what = "Queue"
                    [] e.kind = "ExternalEvent" -> has_pending_subscription_slot(Conf.ctx)
                    [] OTHER -> e.kind \in {"Completed", "QueueEvent"}
  <2>6. o = eng.open
    BY <1>3, <2>1
  <2>7. b = taken
    BY <1>3, <2>1
  <2>8. AfterEvent(Conf, e) = [ctx |-> ContextAfter(Conf, e), fifo |-> eng.fifo, open |-> o,
                               must |-> b, pos |-> Conf.pos + 1]
    BY <1>3, <2>1 DEF AfterEvent
  <2> HIDE DEF o, b
  <2>9. Conf' = AfterEvent(Conf, e)
    BY <1>3, <2>4, <2>5, <2>6, <2>7, <2>8
  <2> QED BY <1>1, <1>3, <2>3, <2>4, <2>9
<1>10. CASE ApplyQueueEvent
  <2>1. e.kind = "QueueEvent"
    BY <1>10 DEF ApplyQueueEvent, Applying
  <2>2. /\ ctx' = [ctx EXCEPT !.qarrivals = Append(@, eng.pos)]
        /\ Applied(TRUE, eng.fifo, eng.open)
    BY <1>10 DEF ApplyQueueEvent
  <2>3. Fits(Conf, e)
    BY <2>1 DEF Fits
  <2>4. /\ DOMAIN eng' = EngFields /\ eng'.phase = eng.phase /\ eng'.pending = eng.pending
        /\ Conf' = [ctx |-> ctx', fifo |-> eng.fifo, open |-> eng.open, must |-> TRUE,
                    pos |-> eng.pos + 1]
    BY <1>4, <2>2
  <2>5. ctx' = ContextAfter(Conf, e)
    BY <1>3, <2>1, <2>2 DEF ContextAfter
  <2> DEFINE o == CASE e.kind = "Scheduled" -> Conf.open \cup {Conf.pos}
                    [] e.kind = "Completed" -> Conf.open \ {e.src}
                    [] OTHER -> Conf.open
             b == CASE e.kind = "Scheduled" -> e.what = "Queue"
                    [] e.kind = "ExternalEvent" -> has_pending_subscription_slot(Conf.ctx)
                    [] OTHER -> e.kind \in {"Completed", "QueueEvent"}
  <2>6. o = eng.open
    BY <1>3, <2>1
  <2>7. b = TRUE
    BY <1>3, <2>1
  <2>8. AfterEvent(Conf, e) = [ctx |-> ContextAfter(Conf, e), fifo |-> eng.fifo, open |-> o,
                               must |-> b, pos |-> Conf.pos + 1]
    BY <1>3, <2>1 DEF AfterEvent
  <2> HIDE DEF o, b
  <2>9. Conf' = AfterEvent(Conf, e)
    BY <1>3, <2>4, <2>5, <2>6, <2>7, <2>8
  <2> QED BY <1>1, <1>3, <2>3, <2>4, <2>9
<1>11. CASE ApplyCancelled
  <2>1. e.kind = "Cancelled"
    BY <1>11 DEF ApplyCancelled, Applying
  <2>2. /\ ctx' = [ctx EXCEPT
             !.cancelled = IF e.what = "External" THEN @ \cup {e.src} ELSE @,
             !.qcancelled = IF e.what = "Queue" THEN @ \cup {e.src} ELSE @]
        /\ Applied(FALSE, eng.fifo, eng.open)
    BY <1>11 DEF ApplyCancelled
  <2>3. Fits(Conf, e)
    BY <2>1 DEF Fits
  <2>4. /\ DOMAIN eng' = EngFields /\ eng'.phase = eng.phase /\ eng'.pending = eng.pending
        /\ Conf' = [ctx |-> ctx', fifo |-> eng.fifo, open |-> eng.open, must |-> FALSE,
                    pos |-> eng.pos + 1]
    BY <1>4, <2>2
  <2>5. ctx' = ContextAfter(Conf, e)
    BY <1>3, <2>1, <2>2 DEF ContextAfter
  <2> DEFINE o == CASE e.kind = "Scheduled" -> Conf.open \cup {Conf.pos}
                    [] e.kind = "Completed" -> Conf.open \ {e.src}
                    [] OTHER -> Conf.open
             b == CASE e.kind = "Scheduled" -> e.what = "Queue"
                    [] e.kind = "ExternalEvent" -> has_pending_subscription_slot(Conf.ctx)
                    [] OTHER -> e.kind \in {"Completed", "QueueEvent"}
  <2>6. o = eng.open
    BY <1>3, <2>1
  <2>7. b = FALSE
    BY <1>3, <2>1
  <2>8. AfterEvent(Conf, e) = [ctx |-> ContextAfter(Conf, e), fifo |-> eng.fifo, open |-> o,
                               must |-> b, pos |-> Conf.pos + 1]
    BY <1>3, <2>1 DEF AfterEvent
  <2> HIDE DEF o, b
  <2>9. Conf' = AfterEvent(Conf, e)
    BY <1>3, <2>4, <2>5, <2>6, <2>7, <2>8
  <2> QED BY <1>1, <1>3, <2>3, <2>4, <2>9
<1>12. CASE ApplyOther
  <2>1. e.kind \in {"Started", "CancelRequested"}
    BY <1>12 DEF ApplyOther, Applying
  <2>2. ctx' = ctx /\ Applied(FALSE, eng.fifo, eng.open)
    BY <1>12 DEF ApplyOther
  <2>3. Fits(Conf, e)
    BY <2>1 DEF Fits
  <2>4. /\ DOMAIN eng' = EngFields /\ eng'.phase = eng.phase /\ eng'.pending = eng.pending
        /\ Conf' = [ctx |-> ctx', fifo |-> eng.fifo, open |-> eng.open, must |-> FALSE,
                    pos |-> eng.pos + 1]
    BY <1>4, <2>2
  <2>5. ctx' = ContextAfter(Conf, e)
    BY <1>3, <2>1, <2>2 DEF ContextAfter
  <2> DEFINE o == CASE e.kind = "Scheduled" -> Conf.open \cup {Conf.pos}
                    [] e.kind = "Completed" -> Conf.open \ {e.src}
                    [] OTHER -> Conf.open
             b == CASE e.kind = "Scheduled" -> e.what = "Queue"
                    [] e.kind = "ExternalEvent" -> has_pending_subscription_slot(Conf.ctx)
                    [] OTHER -> e.kind \in {"Completed", "QueueEvent"}
  <2>6. o = eng.open
    BY <1>3, <2>1
  <2>7. b = FALSE
    BY <1>3, <2>1
  <2>8. AfterEvent(Conf, e) = [ctx |-> ContextAfter(Conf, e), fifo |-> eng.fifo, open |-> o,
                               must |-> b, pos |-> Conf.pos + 1]
    BY <1>3, <2>1 DEF AfterEvent
  <2> HIDE DEF o, b
  <2>9. Conf' = AfterEvent(Conf, e)
    BY <1>3, <2>4, <2>5, <2>6, <2>7, <2>8
  <2> QED BY <1>1, <1>3, <2>3, <2>4, <2>9
<1> QED BY <1>6, <1>7, <1>8, <1>9, <1>10, <1>11, <1>12 DEF Applies

(* A poll keeps the invariant. *)
LEMMA InvPoll == ASSUME Inv, Poll PROVE Inv'
<1>1. /\ eng.phase = "replay" /\ Conf.must /\ Goes(Conf, code', Working)
      /\ Conf' = AfterPoll(Conf, code') /\ CodeOk(code')
      /\ DOMAIN eng' = EngFields /\ eng'.phase = "replay" /\ eng'.pending = eng.pending
      /\ UNCHANGED <<scenario, history, delta, last>>
  BY PollIs
<1> DEFINE k == code'
           n == Conf'
<1> HIDE DEF k, n
<1>2. Good(Conf, Working)
  BY <1>1 DEF Inv, ReplayOk
<1>3. Good(AfterPoll(Conf, k), Working)
  BY <1>1, <1>2, PollGood DEF k
<1>4. n = AfterPoll(Conf, k)
  BY <1>1 DEF k, n
<1>5. Good(n, Working)
  BY <1>3, <1>4
<1> QED BY <1>1, <1>5, ReplayKeeps DEF n

(* To apply an event keeps the invariant. *)
LEMMA InvApplies == ASSUME Inv, Applies PROVE Inv'
<1>1. /\ eng.phase = "replay" /\ ~Conf.must /\ Conf.pos <= Len(Working) /\ ~ctx.output
      /\ DOMAIN eng' = EngFields /\ eng'.pending = eng.pending
      /\ UNCHANGED <<scenario, code, history, delta, last>>
      /\ \/ eng'.phase = "nondeterminism" /\ ~Fits(Conf, Working[Conf.pos])
         \/ /\ eng'.phase = "replay" /\ Fits(Conf, Working[Conf.pos])
            /\ Conf' = AfterEvent(Conf, Working[Conf.pos])
  BY AppliesIs
<1>2. Good(Conf, Working) /\ EventsOk(Working) /\ CodeOk(code')
  BY <1>1 DEF Inv, ReplayOk, StoredOk
<1>3. ASSUME eng'.phase = "replay" PROVE Good(Conf', Working)
  <2> DEFINE e == Working[Conf.pos]
             n == Conf'
             m == Conf
  <2>1. Fits(m, Working[m.pos]) /\ n = AfterEvent(m, Working[m.pos]) /\ m.pos <= Len(Working)
    BY <1>1, <1>3
  <2> HIDE DEF n, m
  <2>2. Good(m, Working)
    BY <1>2 DEF m
  <2>3. Good(AfterEvent(m, Working[m.pos]), Working)
    <3>1. CASE Working[m.pos].kind = "Scheduled"
      BY <1>2, <2>1, <2>2, <3>1, ScheduleGood
    <3>2. CASE Working[m.pos].kind # "Scheduled"
      BY <1>2, <2>1, <2>2, <3>2, EventGood
    <3> QED BY <3>1, <3>2
  <2>4. Good(n, Working)
    BY <2>1, <2>3
  <2> QED BY <2>4 DEF n
<1> QED BY <1>1, <1>2, <1>3, ReplayKeeps

(* The kinds of the actions. *)
LEMMA KindsFacts ==
    ASSUME NEW f, Listed(f)
    PROVE  Listed(Kinds(f)) /\ \A x \in DOMAIN f : f[x].kind \in Range(Kinds(f))
<1>1. Len(f) \in Nat /\ DOMAIN f = 1..Len(f)
  BY DEF Listed
<1> DEFINE q == Kinds(f)
           n == Len(f)
<1>2. DOMAIN q = 1..n /\ \A x \in 1..n : q[x] = f[x].kind
  BY <1>1 DEF Kinds
<1>3. q = [x \in 1..n |-> q[x]]
  BY <1>1 DEF Kinds
<1> HIDE DEF q
<1>4. Listed(q)
  BY <1>1, <1>3, MappedRows
<1>5. \A x \in DOMAIN f : f[x].kind \in Range(q)
  BY <1>1, <1>2 DEF Range
<1> QED BY <1>4, <1>5 DEF q

(* What the code did is converted. *)
LEMMA ConvertedQuiet ==
    ASSUME StoredOk, UNCHANGED history, NEW c, NEW m \in Nat, NEW f, Core(c, m), Emitted(c, m, f),
           NEW pending, Listed(pending),
           "ContinueAsNew" \in Range(pending) \/ Ids(c, Len(Working)),
           ctx' = convert_emitted_actions(c, delta, f).ctx,
           delta' = convert_emitted_actions(c, delta, f).delta,
           eng'.pending = pending \o Kinds(f)
    PROVE  /\ EventsOk(Working') /\ Listed(delta') /\ \A x \in DOMAIN delta' : delta'[x].kind # "Cancelled"
           /\ Core(ctx', Len(ctx'.kinds)) /\ Listed(eng'.pending)
           /\ "ContinueAsNew" \in Range(eng'.pending) \/ Ids(ctx', Len(Working'))
<1> DEFINE new == convert_emitted_actions(c, delta, f)
           l == Len(f)
<1>1. /\ Listed(history) /\ Listed(delta) /\ EventsOk(history \o delta) /\ Len(history) \in Nat
      /\ \A x \in DOMAIN delta : delta[x].kind # "Cancelled"
  BY DEF StoredOk, Working, Listed
<1>2. ConvertedOk(c, delta, m, f, l, new) /\ m + l = Len(c.kinds)
  BY <1>1, ConvertFacts
<1>3. ctx' = new.ctx /\ delta' = new.delta
  OBVIOUS
<1> HIDE DEF new
<1>4. /\ EventsOk(history \o new.delta)
      /\ \A x \in DOMAIN new.delta : new.delta[x].kind # "Cancelled"
      /\ Len(history \o new.delta) = Len(history) + Len(new.delta)
      /\ Len(history \o delta) = Len(history) + Len(delta)
  BY <1>1, <1>2, ConvertEvents
<1>5. Working' = history \o new.delta /\ Working = history \o delta
  BY <1>3 DEF Working
<1>6. Core(new.ctx, m + l) /\ new.ctx.kinds = c.kinds /\ Listed(new.delta)
  BY <1>2 DEF ConvertedOk
<1>7. Core(ctx', Len(ctx'.kinds))
  BY <1>2, <1>3, <1>6
<1>8. /\ Listed(Kinds(f)) /\ \A x \in DOMAIN f : f[x].kind \in Range(Kinds(f))
      /\ l \in Nat /\ DOMAIN f = 1..l
  BY KindsFacts DEF Emitted, Listed
<1>9. /\ Listed(pending \o Kinds(f))
      /\ Range(pending \o Kinds(f)) = Range(pending) \cup Range(Kinds(f))
  BY <1>8, ConcatRows
<1>10. "ContinueAsNew" \in Range(eng'.pending) \/ Ids(ctx', Len(Working'))
  <2>1. CASE "ContinueAsNew" \in Range(pending)
    BY <1>9, <2>1
  <2>2. CASE \E x \in 1..l : f[x].kind = "ContinueAsNew"
    BY <1>8, <1>9, <2>2
  <2>3. CASE /\ Ids(c, Len(Working))
             /\ Ids(c, Len(history) + Len(delta)) => Ids(new.ctx, Len(history) + Len(new.delta))
    BY <1>3, <1>4, <1>5, <2>3
  <2> QED BY <1>2, <2>1, <2>2, <2>3 DEF ConvertedOk
<1> QED BY <1>3, <1>4, <1>5, <1>6, <1>7, <1>9, <1>10

(* The end of the history. *)
LEMMA InvConvert == ASSUME Inv, Convert PROVE Inv'
<1> DEFINE marked == [ctx EXCEPT !.qcancelled = @ \cup DroppedIds(ctx, "Queue")]
           new == convert_emitted_actions(marked, delta, eng.fifo)
           b == Unmatched(Conf)
<1>1. /\ eng.phase = "replay" /\ ctx' = new.ctx /\ delta' = new.delta
      /\ eng' = [eng EXCEPT !.phase = "quiesce", !.fifo = <<>>, !.pending = @ \o Kinds(eng.fifo)]
      /\ UNCHANGED <<scenario, code, history, last>>
  BY DEF Convert
<1>2. StoredOk /\ DOMAIN eng = EngFields
  BY DEF Inv, StoredOk
<1>3. Good(Conf, Working) /\ eng.pending = <<>>
  BY <1>1 DEF Inv, ReplayOk
<1>4. Conf.ctx = ctx /\ Conf.fifo = eng.fifo /\ Conf.pos = eng.pos
  BY DEF Conf
<1>5. /\ Core(ctx, b) /\ Emitted(ctx, b, eng.fifo) /\ Ids(ctx, eng.pos - 1)
      /\ eng.pos \in 1..(Len(Working) + 1)
  BY <1>3, <1>4 DEF Good
<1>6. b \in Nat /\ DOMAIN ctx = CtxFields /\ Len(Working) \in Nat
  <2>1. Listed(Working) /\ ctx.kinds \in Acts
    BY <1>2, <1>5 DEF StoredOk, EventsOk, Core
  <2>2. Len(Working) \in Nat /\ Len(ctx.kinds) \in Nat
    BY <2>1 DEF Listed, Acts
  <2> QED BY <1>5, <2>2 DEF Core
<1>7. DOMAIN marked = CtxFields /\ \A x \in CtxFields \ {"qcancelled"} : marked[x] = ctx[x]
  BY <1>6 DEF CtxFields
<1> HIDE DEF b
<1>8. /\ eng'.pending = <<>> \o Kinds(eng.fifo) /\ DOMAIN eng' = EngFields /\ eng'.phase = "quiesce"
  BY <1>1, <1>2, <1>3 DEF EngFields
<1>9. /\ ctx' = convert_emitted_actions(marked, delta, eng.fifo).ctx
      /\ delta' = convert_emitted_actions(marked, delta, eng.fifo).delta
  BY <1>1
<1> HIDE DEF new, marked
<1>10. \A f \in {"kinds", "bound", "results", "dropped", "awaits", "wait", "got"} : marked[f] = ctx[f]
  BY <1>7 DEF CtxFields
<1>11. /\ Core(marked, b) /\ marked.kinds = ctx.kinds /\ marked.bound = ctx.bound
       /\ \A top : Ids(ctx, top) => Ids(marked, top)
  BY <1>5, <1>7, <1>10, OtherCore
<1>12. Emitted(marked, b, eng.fifo)
  BY <1>5, <1>11 DEF Emitted
<1>13. Ids(marked, Len(Working))
  <2>1. Ids(marked, eng.pos - 1)
    BY <1>5, <1>11
  <2>2. \A i : i \in 1..(eng.pos - 1) => i \in 1..Len(Working)
    BY <1>5, <1>6
  <2> QED BY <2>1, <2>2 DEF Ids
<1>14. Listed(<<>>)
  BY NoRow
<1> DEFINE empty == <<>>
<1>15. Listed(empty) /\ eng'.pending = empty \o Kinds(eng.fifo)
  BY <1>8, <1>14
<1> HIDE DEF empty
<1>16. /\ EventsOk(Working') /\ Listed(delta') /\ \A x \in DOMAIN delta' : delta'[x].kind # "Cancelled"
       /\ Core(ctx', Len(ctx'.kinds)) /\ Listed(eng'.pending)
       /\ "ContinueAsNew" \in Range(eng'.pending) \/ Ids(ctx', Len(Working'))
  BY <1>1, <1>2, <1>6, <1>9, <1>11, <1>12, <1>13, <1>15, ConvertedQuiet
<1>17. StoredOk'
  BY <1>1, <1>2, <1>8, <1>16 DEF StoredOk, Once, Phases
<1> QED BY <1>8, <1>16, <1>17 DEF Inv, IdleOk, ReplayOk, QuietOk

(* A poll of the quiescence loop keeps the invariant. *)
LEMMA InvQuiesce == ASSUME Inv, Quiesce PROVE Inv'
<1>1. PICK k \in Codes(ctx) :
        LET p == poll(ctx, k)
            new == convert_emitted_actions(p.ctx, delta, p.emitted)
        IN  /\ code' = k /\ ctx' = new.ctx /\ delta' = new.delta
            /\ eng' = [eng EXCEPT !.pending = @ \o Kinds(p.emitted),
                                  !.phase = IF p.emitted = <<>> THEN "finalize" ELSE @]
  BY DEF Quiesce
<1> DEFINE c == poll(ctx, k).ctx
           f == poll(ctx, k).emitted
           n == Len(ctx.kinds)
           empty == <<>>
<1>2. eng.phase = "quiesce" /\ UNCHANGED <<scenario, history, last>>
  BY DEF Quiesce
<1>3. /\ StoredOk /\ DOMAIN eng = EngFields /\ scenario \in Scenario /\ CodeOk(code)
      /\ Core(ctx, n) /\ Listed(eng.pending)
      /\ "ContinueAsNew" \in Range(eng.pending) \/ Ids(ctx, Len(Working))
  BY <1>2 DEF Inv, StoredOk, QuietOk
<1>4. CodeOk(k) /\ (Ready(ctx) => Seen(ctx) \in DOMAIN k)
  BY <1>1, <1>3, CodesFacts
<1>5. /\ DOMAIN eng' = EngFields /\ eng'.phase \in {"quiesce", "finalize"}
      /\ eng'.pending = eng.pending \o Kinds(f)
      /\ code' = k /\ ctx' = convert_emitted_actions(c, delta, f).ctx
      /\ delta' = convert_emitted_actions(c, delta, f).delta
  BY <1>1, <1>2, <1>3 DEF EngFields
<1>6. n \in Nat
  <2>1. ctx.kinds \in Acts
    BY <1>3 DEF Core
  <2> QED BY <2>1 DEF Acts
<1> HIDE DEF n
<1>7. Listed(empty) /\ Len(empty) = 0 /\ DOMAIN empty = {}
  BY NoRow
<1>8. n + 0 = Len(ctx.kinds)
  BY <1>6 DEF n
<1> HIDE DEF empty
<1>9. Emitted(ctx, n, empty)
  BY <1>7, <1>8 DEF Emitted
<1>10. /\ Core(c, n) /\ \A top : Ids(ctx, top) => Ids(c, top)
       /\ Emitted(c, n, empty \o f) /\ Listed(f)
  BY <1>3, <1>4, <1>9, PollCore
<1> HIDE DEF c, f
<1>11. empty \o f = f
  BY <1>10 DEF Listed, empty
<1>12. Emitted(c, n, f) /\ ("ContinueAsNew" \in Range(eng.pending) \/ Ids(c, Len(Working)))
  BY <1>3, <1>10, <1>11
<1>13. /\ EventsOk(Working') /\ Listed(delta') /\ \A x \in DOMAIN delta' : delta'[x].kind # "Cancelled"
       /\ Core(ctx', Len(ctx'.kinds)) /\ Listed(eng'.pending)
       /\ "ContinueAsNew" \in Range(eng'.pending) \/ Ids(ctx', Len(Working'))
  BY <1>2, <1>3, <1>5, <1>6, <1>10, <1>12, ConvertedQuiet
<1>14. StoredOk'
  BY <1>2, <1>3, <1>4, <1>5, <1>13 DEF StoredOk, Once, Phases
<1> QED BY <1>5, <1>13, <1>14 DEF Inv, IdleOk, ReplayOk, QuietOk

(* The quiescence loop ends. *)
LEMMA InvSettle == ASSUME Inv, Settle PROVE Inv'
<1>1. /\ eng.phase = "quiesce" /\ UNCHANGED <<scenario, code, history, delta, ctx, last>>
      /\ eng' = [eng EXCEPT !.phase = "finalize"]
  BY DEF Settle
<1>2. DOMAIN eng' = EngFields /\ eng'.phase = "finalize" /\ eng'.pending = eng.pending
  BY <1>1 DEF Inv, StoredOk, EngFields
<1>3. Working' = Working
  BY <1>1 DEF Working
<1>4. StoredOk'
  BY <1>1, <1>2, <1>3 DEF Inv, StoredOk, Once, Phases
<1> QED BY <1>1, <1>2, <1>3, <1>4 DEF Inv, IdleOk, ReplayOk, QuietOk

(* The history and the turn have each future cancelled once. *)
LEMMA OnceWorking == ASSUME StoredOk PROVE Once(Working)
<1>1. /\ Listed(history) /\ Listed(delta) /\ Once(history)
      /\ \A x \in DOMAIN delta : delta[x].kind # "Cancelled"
  BY DEF StoredOk
<1> DEFINE w == Working
           h == Len(history)
           l == Len(delta)
<1>2. /\ DOMAIN w = 1..(h + l) /\ h \in Nat /\ l \in Nat /\ DOMAIN history = 1..h /\ DOMAIN delta = 1..l
      /\ \A k \in 1..h : w[k] = history[k]
      /\ \A k \in (h + 1)..(h + l) : w[k] = delta[k - h]
  BY <1>1, ConcatList DEF Working
<1> HIDE DEF w, h, l
<1>3. ASSUME NEW x \in DOMAIN w, w[x].kind = "Cancelled"
      PROVE  x \in DOMAIN history /\ w[x] = history[x]
  <2>1. CASE x \in 1..h
    BY <1>2, <2>1
  <2>2. CASE x \in (h + 1)..(h + l)
    <3>1. x - h \in 1..l /\ w[x] = delta[x - h]
      BY <1>2, <2>2
    <3> QED BY <1>1, <1>2, <1>3, <3>1
  <2>3. x \in 1..h \/ x \in (h + 1)..(h + l)
    BY <1>2
  <2> QED BY <2>1, <2>2, <2>3
<1>4. Once(w)
  BY <1>1, <1>3 DEF Once
<1> QED BY <1>4 DEF w

(* The execution stops. *)
LEMMA InvStop == ASSUME Inv, Stop PROVE Inv'
<1>1. /\ history' = Working /\ delta' = <<>> /\ eng' = [eng EXCEPT !.phase = "ended"]
      /\ UNCHANGED <<scenario, code, ctx, last>>
  BY DEF Stop
<1>2. StoredOk /\ EventsOk(Working) /\ DOMAIN eng = EngFields
  BY DEF Inv, StoredOk
<1>3. DOMAIN eng' = EngFields /\ eng'.phase = "ended"
  BY <1>1, <1>2 DEF EngFields
<1>4. Listed(Working)
  BY <1>2 DEF EventsOk
<1> DEFINE w == Working
<1>5. Working' = w
  <2>1. w \o <<>> = w
    BY <1>4 DEF Listed
  <2> HIDE DEF w
  <2>2. history' = w /\ delta' = <<>>
    BY <1>1 DEF w
  <2> QED BY <2>1, <2>2 DEF Working
<1>6. Once(w) /\ EventsOk(w) /\ Listed(w) /\ history' = w
  BY <1>1, <1>2, <1>4, OnceWorking
<1> HIDE DEF w
<1>7. Listed(delta') /\ DOMAIN delta' = {}
  BY <1>1, NoRow
<1>8. StoredOk'
  BY <1>1, <1>2, <1>3, <1>5, <1>6, <1>7 DEF StoredOk, Phases
<1> QED BY <1>3, <1>8 DEF Inv, IdleOk, ReplayOk, QuietOk

(* What has been recorded when everything has. *)
LEMMA AllRecorded ==
    ASSUME NEW w, Recording(w, Range(Cancellable)), Working' = w, UNCHANGED ctx,
           \A kind \in Range(Cancellable) : Recorded(kind) \subseteq DroppedIds(ctx, kind)
    PROVE  \A kind \in Range(Cancellable) : Recorded(kind)' = DroppedIds(ctx', kind)
<1> SUFFICES ASSUME NEW kind \in Range(Cancellable)
             PROVE  Recorded(kind)' = DroppedIds(ctx, kind)
  OBVIOUS
<1> DEFINE D == DroppedIds(ctx, kind)
           K == Range(Cancellable)
<1>1. /\ DOMAIN Working \subseteq DOMAIN w
      /\ \A x \in DOMAIN Working : w[x] = Working[x]
      /\ \A x \in DOMAIN w : x \notin DOMAIN Working =>
           w[x].kind = "Cancelled" /\ w[x].what \in K /\ w[x].src \in NewlyDropped(w[x].what)
      /\ \A i \in NewlyDropped(kind) : Crumb(kind, i) \in Range(w)
  BY DEF Recording
<1>2. Recorded(kind) \subseteq D
  OBVIOUS
<1>3. Recorded(kind)' = {w[x].src : x \in {y \in DOMAIN w : w[y].kind = "Cancelled" /\ w[y].what = kind}}
  <2>1. Recorded(kind)' = {e.src : e \in {x \in Range(w) : x.kind = "Cancelled" /\ x.what = kind}}
    BY DEF Recorded
  <2> QED BY <2>1 DEF Range
<1>4. Recorded(kind) =
        {Working[x].src : x \in {y \in DOMAIN Working : Working[y].kind = "Cancelled" /\ Working[y].what = kind}}
  BY DEF Recorded, Range
<1>5. NewlyDropped(kind) = D \ Recorded(kind)
  BY DEF NewlyDropped
<1>6. ASSUME NEW i \in D PROVE i \in Recorded(kind)'
  <2>1. CASE i \in Recorded(kind)
    <3>1. PICK x \in DOMAIN Working :
            Working[x].kind = "Cancelled" /\ Working[x].what = kind /\ Working[x].src = i
      BY <1>4, <2>1
    <3>2. x \in DOMAIN w /\ w[x] = Working[x]
      BY <1>1
    <3> QED BY <1>3, <3>1, <3>2
  <2>2. CASE i \in NewlyDropped(kind)
    <3>1. PICK x \in DOMAIN w : w[x] = Crumb(kind, i)
      BY <1>1, <2>2 DEF Range
    <3>2. w[x].kind = "Cancelled" /\ w[x].what = kind /\ w[x].src = i
      BY <3>1 DEF Crumb, Event
    <3> QED BY <1>3, <3>2
  <2> QED BY <1>5, <1>6, <2>1, <2>2
<1>7. ASSUME NEW i \in Recorded(kind)' PROVE i \in D
  <2>1. PICK x \in DOMAIN w : w[x].kind = "Cancelled" /\ w[x].what = kind /\ w[x].src = i
    BY <1>3, <1>7
  <2>2. CASE x \in DOMAIN Working
    BY <1>1, <1>2, <1>4, <2>1, <2>2
  <2>3. CASE x \notin DOMAIN Working
    BY <1>1, <1>5, <2>1, <2>3
  <2> QED BY <2>2, <2>3
<1> HIDE DEF D
<1>8. Recorded(kind)' = D
  BY <1>6, <1>7
<1> QED BY <1>8 DEF D

(* All four kinds of futures are recorded, one after the other. *)
LEMMA FinalizeRecords ==
    ASSUME Inv, Finalize, eng'.phase # "nondeterminism"
    PROVE  /\ Recording(history', Range(Cancellable)) /\ Listed(history')
           /\ delta' = <<>> /\ Working' = history' /\ UNCHANGED <<scenario, code, ctx>>
           /\ eng' = Engine(IF ctx.output THEN "ended" ELSE "idle") /\ last' = Observed(ctx)
           /\ \A kind \in Range(Cancellable) : Recorded(kind) \subseteq DroppedIds(ctx, kind)
           /\ Core(ctx, Len(ctx.kinds)) /\ Ids(ctx, Len(Working))
           /\ \E a \in SetToSeqs(NewlyDropped("Activity")), s \in SetToSeqs(NewlyDropped("SubOrch")),
                 x \in SetToSeqs(NewlyDropped("External")), q \in SetToSeqs(NewlyDropped("Queue")) :
                history' = Working \o [i \in DOMAIN a |-> Crumb("Activity", a[i])]
                                   \o [i \in DOMAIN s |-> Crumb("SubOrch", s[i])]
                                   \o [i \in DOMAIN x |-> Crumb("External", x[i])]
                                   \o [i \in DOMAIN q |-> Crumb("Queue", q[i])]
<1> DEFINE K == Range(Cancellable)
           n == Len(ctx.kinds)
           top == Len(Working)
<1>1. eng.phase = "finalize" /\ ~Stops /\ UNCHANGED <<scenario, code, ctx>>
  BY DEF Finalize
<1>2. \A kind \in K : Recorded(kind) \subseteq DroppedIds(ctx, kind)
  <2> SUFFICES ASSUME \E kind \in K : ~(Recorded(kind) \subseteq DroppedIds(ctx, kind)) PROVE FALSE
    OBVIOUS
  <2>1. eng' = [eng EXCEPT !.phase = "nondeterminism"]
    BY DEF Finalize
  <2>2. DOMAIN eng = EngFields
    BY DEF Inv, StoredOk
  <2> QED BY <2>1, <2>2 DEF EngFields
<1>3. PICK a \in SetToSeqs(NewlyDropped("Activity")), s \in SetToSeqs(NewlyDropped("SubOrch")),
           x \in SetToSeqs(NewlyDropped("External")), q \in SetToSeqs(NewlyDropped("Queue")) :
        history' = Working \o [i \in DOMAIN a |-> Crumb("Activity", a[i])]
                           \o [i \in DOMAIN s |-> Crumb("SubOrch", s[i])]
                           \o [i \in DOMAIN x |-> Crumb("External", x[i])]
                           \o [i \in DOMAIN q |-> Crumb("Queue", q[i])]
  BY <1>2 DEF Finalize, Crumb
<1>4. /\ delta' = <<>> /\ eng' = Engine(IF ctx.output THEN "ended" ELSE "idle")
      /\ last' = Observed(ctx)
  BY <1>2 DEF Finalize
<1>5. /\ Core(ctx, n) /\ Ids(ctx, top) /\ EventsOk(Working) /\ StoredOk
  <2>1. ~("ContinueAsNew" \in Range(eng.pending))
    BY <1>1 DEF Stops
  <2> QED BY <1>1, <2>1 DEF Inv, QuietOk, StoredOk
<1>6. top \in Nat /\ Listed(Working)
  BY <1>5 DEF EventsOk, Listed
<1>7. Cancellable = <<"Activity", "SubOrch", "External", "Queue">>
  BY DEF Cancellable
<1>8. K = {"Activity", "SubOrch", "External", "Queue"}
  <2>1. /\ DOMAIN Cancellable = 1..4 /\ Cancellable[1] = "Activity" /\ Cancellable[2] = "SubOrch"
        /\ Cancellable[3] = "External" /\ Cancellable[4] = "Queue"
    BY <1>7
  <2> QED BY <2>1 DEF Range
<1> HIDE DEF n, top
<1>9. Recording(Working, {})
  <2>1. Once(Working)
    BY <1>5, OnceWorking
  <2> QED BY <1>6, <2>1 DEF Recording
<1> DEFINE A == [i \in DOMAIN a |-> Crumb("Activity", a[i])]
           S == [i \in DOMAIN s |-> Crumb("SubOrch", s[i])]
           X == [i \in DOMAIN x |-> Crumb("External", x[i])]
           Q == [i \in DOMAIN q |-> Crumb("Queue", q[i])]
           w1 == Working \o A
           w2 == w1 \o S
           w3 == w2 \o X
           w4 == w3 \o Q
<1>10. history' = w4
  BY <1>3
<1>11. /\ A = [i \in DOMAIN a |-> Crumb("Activity", a[i])] /\ S = [i \in DOMAIN s |-> Crumb("SubOrch", s[i])]
       /\ X = [i \in DOMAIN x |-> Crumb("External", x[i])] /\ Q = [i \in DOMAIN q |-> Crumb("Queue", q[i])]
  OBVIOUS
<1> HIDE DEF A, S, X, Q
<1>12. Recording(w1, {} \cup {"Activity"})
  <2>1. {} \subseteq Range(Cancellable) /\ "Activity" \in Range(Cancellable) /\ "Activity" \notin {}
    BY <1>8
  <2> QED BY <1>2, <1>3, <1>5, <1>6, <1>9, <1>11, <2>1, RecordingMore
<1> HIDE DEF w1
<1>13. Recording(w2, {"Activity"} \cup {"SubOrch"})
  <2>1. /\ {"Activity"} \subseteq Range(Cancellable) /\ "SubOrch" \in Range(Cancellable)
        /\ "SubOrch" \notin {"Activity"}
    BY <1>8
  <2>2. Recording(w1, {"Activity"})
    <3>1. {} \cup {"Activity"} = {"Activity"}
      OBVIOUS
    <3> QED BY <1>12, <3>1
  <2> QED BY <1>2, <1>3, <1>5, <1>6, <1>11, <2>1, <2>2, RecordingMore
<1> HIDE DEF w2
<1>14. Recording(w3, {"Activity", "SubOrch"} \cup {"External"})
  <2>1. /\ {"Activity", "SubOrch"} \subseteq Range(Cancellable) /\ "External" \in Range(Cancellable)
        /\ "External" \notin {"Activity", "SubOrch"}
    BY <1>8
  <2>2. Recording(w2, {"Activity", "SubOrch"})
    <3>1. {"Activity"} \cup {"SubOrch"} = {"Activity", "SubOrch"}
      OBVIOUS
    <3> QED BY <1>13, <3>1
  <2> QED BY <1>2, <1>3, <1>5, <1>6, <1>11, <2>1, <2>2, RecordingMore
<1> HIDE DEF w3
<1>15. Recording(w4, {"Activity", "SubOrch", "External"} \cup {"Queue"})
  <2>1. /\ {"Activity", "SubOrch", "External"} \subseteq Range(Cancellable) /\ "Queue" \in Range(Cancellable)
        /\ "Queue" \notin {"Activity", "SubOrch", "External"}
    BY <1>8
  <2>2. Recording(w3, {"Activity", "SubOrch", "External"})
    <3>1. {"Activity", "SubOrch"} \cup {"External"} = {"Activity", "SubOrch", "External"}
      OBVIOUS
    <3> QED BY <1>14, <3>1
  <2> QED BY <1>2, <1>3, <1>5, <1>6, <1>11, <2>1, <2>2, RecordingMore
<1> HIDE DEF w4
<1>16. Recording(w4, K)
  <2>1. {"Activity", "SubOrch", "External"} \cup {"Queue"} = K
    BY <1>8
  <2> QED BY <1>15, <2>1
<1>17. Listed(w4)
  BY <1>16 DEF Recording
<1>18. Working' = w4
  <2>1. w4 \o <<>> = w4
    BY <1>17 DEF Listed
  <2>2. history' = w4 /\ delta' = <<>>
    BY <1>4, <1>10
  <2> QED BY <2>1, <2>2 DEF Working
<1> QED BY <1>1, <1>2, <1>3, <1>4, <1>5, <1>10, <1>16, <1>17, <1>18 DEF n, top

(* A turn ends. *)
LEMMA InvFinalize == ASSUME Inv, Finalize PROVE Inv'
<1>1. CASE eng'.phase = "nondeterminism"
  <2>1. eng.phase = "finalize" /\ UNCHANGED <<scenario, code, ctx>>
    BY DEF Finalize
  <2>2. CASE \E kind \in Range(Cancellable) : ~(Recorded(kind) \subseteq DroppedIds(ctx, kind))
    <3>1. eng' = [eng EXCEPT !.phase = "nondeterminism"] /\ UNCHANGED <<history, delta, last>>
      BY <2>2 DEF Finalize
    <3>2. DOMAIN eng' = EngFields
      BY <3>1 DEF Inv, StoredOk, EngFields
    <3>3. Working' = Working
      BY <3>1 DEF Working
    <3>4. StoredOk'
      BY <1>1, <2>1, <3>1, <3>2, <3>3 DEF Inv, StoredOk, Once, Phases
    <3> QED BY <1>1, <3>4 DEF Inv, IdleOk, ReplayOk, QuietOk
  <2>3. CASE ~\E kind \in Range(Cancellable) : ~(Recorded(kind) \subseteq DroppedIds(ctx, kind))
    <3>1. eng' = Engine(IF ctx.output THEN "ended" ELSE "idle")
      BY <2>3 DEF Finalize
    <3> QED BY <1>1, <3>1 DEF Engine
  <2> QED BY <2>2, <2>3
<1>2. CASE eng'.phase # "nondeterminism"
  <2> DEFINE w == history'
             n == Len(ctx.kinds)
  <2>1. /\ Recording(w, Range(Cancellable)) /\ Listed(w)
        /\ delta' = <<>> /\ Working' = w /\ UNCHANGED <<scenario, code, ctx>>
        /\ eng' = Engine(IF ctx.output THEN "ended" ELSE "idle") /\ last' = Observed(ctx)
        /\ \A kind \in Range(Cancellable) : Recorded(kind) \subseteq DroppedIds(ctx, kind)
        /\ Core(ctx, n) /\ Ids(ctx, Len(Working))
    BY <1>2, FinalizeRecords
  <2>2. history' = w
    OBVIOUS
  <2> HIDE DEF w
  <2>3. /\ Once(w) /\ DOMAIN Working \subseteq DOMAIN w /\ \A x \in DOMAIN Working : w[x] = Working[x]
        /\ \A x \in DOMAIN w : x \notin DOMAIN Working =>
             w[x].kind = "Cancelled" /\ w[x].what \in Range(Cancellable)
    BY <2>1 DEF Recording
  <2>4. StoredOk /\ EventsOk(Working)
    BY DEF Inv, StoredOk
  <2>5. EventsOk(w)
    <3>1. \A x \in DOMAIN w : x \notin DOMAIN Working => EventOk(w, x) /\ w[x].kind # "Completed"
      BY <2>3 DEF EventOk, EventKinds
    <3> QED BY <2>1, <2>3, <2>4, <3>1, EventsMore
  <2>6. DOMAIN eng' = EngFields /\ eng'.phase \in {"ended", "idle"}
    BY <2>1 DEF Engine, EngFields
  <2>7. Listed(delta') /\ DOMAIN delta' = {}
    BY <2>1, NoRow
  <2>8. StoredOk'
    BY <2>1, <2>2, <2>3, <2>4, <2>5, <2>6, <2>7 DEF StoredOk, Phases
  <2>9. \A kind \in Range(Cancellable) : Recorded(kind)' = DroppedIds(ctx', kind)
    BY <2>1, AllRecorded
  <2>10. Ids(ctx, Len(w))
    <3>1. Listed(Working)
      BY <2>4 DEF EventsOk
    <3>2. /\ DOMAIN Working = 1..Len(Working) /\ DOMAIN w = 1..Len(w)
      BY <2>1, <3>1 DEF Listed
    <3>3. \A i : i \in 1..Len(Working) => i \in 1..Len(w)
      BY <2>3, <3>2
    <3> QED BY <2>1, <3>3 DEF Ids
  <2>11. IdleOk'
    BY <2>1, <2>2, <2>9, <2>10 DEF IdleOk
  <2> QED BY <2>6, <2>8, <2>11 DEF Inv, ReplayOk, QuietOk
<1> QED BY <1>1, <1>2

(* Every step keeps the invariant. *)
LEMMA InvStep == ASSUME Inv, [Next]_vars PROVE Inv'
<1>1. CASE UNCHANGED vars
  <2>1. UNCHANGED <<scenario, code, history, delta, ctx, eng, last>>
    BY <1>1 DEF vars
  <2>2. Working' = Working /\ Conf' = Conf
    BY <2>1 DEF Working, Conf
  <2>3. \A kind : Recorded(kind)' = Recorded(kind)
    BY <2>2 DEF Recorded
  <2>4. StoredOk'
    BY <2>1, <2>2 DEF Inv, StoredOk, Once
  <2>5. IdleOk'
    BY <2>1, <2>3 DEF Inv, IdleOk
  <2> QED BY <2>1, <2>2, <2>4, <2>5 DEF Inv, ReplayOk, QuietOk
<1>2. CASE BeginTurn
  BY <1>2, InvBeginTurn
<1>3. CASE Poll
  BY <1>3, InvPoll
<1>4. CASE Applies
  BY <1>4, InvApplies
<1>5. CASE Convert
  BY <1>5, InvConvert
<1>6. CASE Quiesce
  BY <1>6, InvQuiesce
<1>7. CASE Settle
  BY <1>7, InvSettle
<1>8. CASE Stop
  BY <1>8, InvStop
<1>9. CASE Finalize
  BY <1>9, InvFinalize
<1> QED BY <1>1, <1>2, <1>3, <1>4, <1>5, <1>6, <1>7, <1>8, <1>9 DEF Next, Applies

(* Whatever the code does and however messages are batched: in a turn of   *)
(* execute_orchestration the loop has bound the tokens of the code to the   *)
(* schedules that it has passed, in order and of their kinds, and what a    *)
(* turn stores is what the next one can do the same with.                   *)
THEOREM InvHolds == Spec => []Inv
<1>1. Init => Inv
  BY InvInit
<1>2. Inv /\ [Next]_vars => Inv'
  BY InvStep
<1> QED BY <1>1, <1>2, PTL DEF Spec

(* Dropped futures are recorded once. *)
LEMMA InvDrops == Inv => DropsRecordedOnce
<1> SUFFICES ASSUME Inv, eng.phase = "idle"
             PROVE  LET crumbs == {x \in DOMAIN history : history[x].kind = "Cancelled"}
                    IN  /\ {history[x].src : x \in crumbs} =
                             {last.bound[t] : t \in {x \in last.dropped : ctx.kinds[x] # "Timer"}}
                        /\ \A x, y \in crumbs : history[x].src = history[y].src => x = y
  BY DEF DropsRecordedOnce
<1> DEFINE crumbs == {x \in DOMAIN history : history[x].kind = "Cancelled"}
           K == Range(Cancellable)
           n == Len(ctx.kinds)
<1>1. /\ StoredOk /\ delta = <<>> /\ last = Observed(ctx)
      /\ Core(ctx, n) /\ Ids(ctx, Len(history))
      /\ \A kind \in K : Recorded(kind) = DroppedIds(ctx, kind)
  BY DEF Inv, IdleOk
<1>2. Once(history) /\ Listed(history) /\ EventsOk(Working)
  BY <1>1 DEF StoredOk
<1>3. \A x, y \in crumbs : history[x].src = history[y].src => x = y
  BY <1>2 DEF Once
<1>4. Working = history
  BY <1>1, <1>2 DEF Working, Listed
<1>5. K = {"Activity", "SubOrch", "External", "Queue"}
  <2>1. /\ DOMAIN Cancellable = 1..4 /\ Cancellable[1] = "Activity" /\ Cancellable[2] = "SubOrch"
        /\ Cancellable[3] = "External" /\ Cancellable[4] = "Queue"
    BY DEF Cancellable
  <2> QED BY <2>1 DEF Range
<1>6. /\ last.dropped = ctx.dropped
      /\ last.bound = [t \in {x \in DOMAIN ctx.bound : ctx.kinds[x] \in Awaited} |-> ctx.bound[t]]
  BY <1>1 DEF Observed
<1>7. /\ n \in Nat /\ DOMAIN ctx.kinds = 1..n
  BY <1>1 DEF Core, Acts
<1>8. /\ ctx.dropped \subseteq Asked(ctx) /\ \A t \in Asked(ctx) : t <= n => t \in DOMAIN ctx.bound
  BY <1>1 DEF Core
<1>9. ASSUME NEW t \in ctx.dropped
      PROVE  /\ t \in DOMAIN ctx.bound /\ ctx.kinds[t] \in Awaited
             /\ last.bound[t] = ctx.bound[t] /\ ctx.kinds[t] \in K \cup {"Timer"}
  <2>1. t \in Asked(ctx) /\ t \in DOMAIN ctx.kinds /\ ctx.kinds[t] \in Awaited
    BY <1>8 DEF Asked
  <2>2. t \in DOMAIN ctx.bound
    BY <1>7, <1>8, <2>1
  <2>3. last.bound[t] = ctx.bound[t]
    BY <1>6, <2>1, <2>2
  <2>4. ctx.kinds[t] # "ContinueAsNew"
    BY <1>1, <2>2 DEF Ids
  <2> QED BY <1>5, <2>1, <2>2, <2>3, <2>4 DEF Awaited, Answered
<1>10. {history[x].src : x \in crumbs} = UNION {Recorded(kind) : kind \in K}
  <2>1. \A kind : Recorded(kind) =
          {history[x].src : x \in {y \in DOMAIN history : history[y].kind = "Cancelled" /\ history[y].what = kind}}
    BY <1>4 DEF Recorded, Range
  <2>2. \A x \in crumbs : history[x].what \in K
    BY <1>2, <1>4 DEF EventsOk, EventOk
  <2> QED BY <2>1, <2>2
<1>11. UNION {DroppedIds(ctx, kind) : kind \in K} =
         {last.bound[t] : t \in {x \in last.dropped : ctx.kinds[x] # "Timer"}}
  <2>1. "Timer" \notin K
    BY <1>5
  <2> HIDE DEF K
  <2>2. \A kind : DroppedIds(ctx, kind) =
          {ctx.bound[t] : t \in {x \in ctx.dropped \cap DOMAIN ctx.bound : ctx.kinds[x] = kind}}
    BY DEF DroppedIds
  <2>3. ASSUME NEW i \in UNION {DroppedIds(ctx, kind) : kind \in K}
        PROVE  i \in {last.bound[t] : t \in {x \in last.dropped : ctx.kinds[x] # "Timer"}}
    BY <1>6, <1>9, <2>1, <2>2
  <2>4. ASSUME NEW t \in last.dropped, ctx.kinds[t] # "Timer"
        PROVE  last.bound[t] \in UNION {DroppedIds(ctx, kind) : kind \in K}
    <3>1. /\ t \in ctx.dropped \cap DOMAIN ctx.bound /\ ctx.kinds[t] \in K
          /\ last.bound[t] = ctx.bound[t]
      BY <1>6, <1>9, <2>4
    <3>2. ctx.bound[t] \in DroppedIds(ctx, ctx.kinds[t])
      BY <2>2, <3>1
    <3> QED BY <3>1, <3>2
  <2> QED BY <2>3, <2>4
<1>12. UNION {Recorded(kind) : kind \in K} = UNION {DroppedIds(ctx, kind) : kind \in K}
  BY <1>1
<1> QED BY <1>3, <1>10, <1>11, <1>12

(* What collect_cancelled_from_context appends at the end of a turn, with   *)
(* what it skips because earlier turns have recorded it, are the futures    *)
(* the code has dropped: each once and no others, also over replays.        *)
THEOREM DropsRecordedOnceHolds == Spec => []DropsRecordedOnce
  BY InvHolds, InvDrops, PTL

-----------------------------------------------------------------------------
(* Code that does not race what it waits for from outside.                 *)

(* What comes without a schedule that asks for it. *)
Waited == {"External", "Queue"}

Rising(s) ==
  /\ Listed(s)
  /\ \A i \in DOMAIN s : s[i] \in Nat
  /\ \A i, j \in DOMAIN s : i < j => s[i] < s[j]

BoundIds(c, kind) == {c.bound[t] : t \in {x \in DOMAIN c.bound : c.kinds[x] = kind}}

(* As Ids, but continue-as-new, which has no event, has any id. *)
Later(c, top) ==
  /\ \A t \in DOMAIN c.bound : c.kinds[t] # "ContinueAsNew" => c.bound[t] \in 1..top
  /\ \A s, t \in DOMAIN c.bound :
       s < t /\ c.kinds[s] # "ContinueAsNew" /\ c.kinds[t] # "ContinueAsNew" => c.bound[s] < c.bound[t]

(* Subscriptions and what has arrived for them, none of them cancelled. *)
Mail(c) ==
  /\ c.cancelled = {} /\ c.qcancelled = {}
  /\ Rising(c.subs) /\ Range(c.subs) = BoundIds(c, "External")
  /\ Rising(c.qsubs) /\ Range(c.qsubs) = BoundIds(c, "Queue")
  /\ Rising(c.qarrivals)
  /\ Listed(c.arrivals) /\ Len(c.arrivals) <= Len(c.subs)
  /\ \A i \in DOMAIN c.arrivals : c.arrivals[i] \in Nat /\ c.arrivals[i] > c.subs[i]
  /\ \A t \in DOMAIN c.results : c.results[t] \in Nat

(* What the code has been given. *)
Takes(c) == UNION {Range(o) : o \in Range(c.seen)}

(* What the code has been given, and what it knows of what it waits for,   *)
(* is what the context gives; no wait is raced, and none is forgotten.     *)
Calm(c) ==
  /\ Listed(c.seen)
  /\ \A t \in c.dropped : c.kinds[t] \notin Waited
  /\ c.wait = "any" => \A t \in Range(c.awaits) : c.kinds[t] \notin Waited /\ c.got[t] = None
  /\ \A t \in Range(c.awaits) : c.got[t] = None \/ c.got[t] = Resolve(c, t)
  /\ \A p \in Takes(c) :
       /\ p[1] \in DOMAIN c.kinds
       /\ c.kinds[p[1]] \in Waited =>
            /\ p[1] \in DOMAIN c.bound /\ p[1] \notin Range(c.awaits)
            /\ p[2] = Resolve(c, p[1]) /\ p[2] # None
  /\ \A t \in DOMAIN c.kinds :
       c.kinds[t] \in Waited /\ t \notin Range(c.awaits) => \E p \in Takes(c) : p[1] = t

(* Nothing is left to poll, and the last poll has seen everything. *)
Full(c) ==
  /\ ~Ready(c)
  /\ c.wait = "all" => \A t \in Range(c.awaits) : c.got[t] = Resolve(c, t)

(* None of the list is left out. *)
LEMMA WithoutNone == ASSUME NEW s, Listed(s) PROVE Without(s, {}) = s
<1>1. {x \in DOMAIN s : s[x] \notin {}} = DOMAIN s
  OBVIOUS
<1>2. s \in Seq(Range(s))
  BY DEF Listed
<1> QED BY <1>1, <1>2, PickAll DEF Without

(* In a list that rises, an element has one place. *)
LEMMA AtPlaceIs ==
    ASSUME NEW s, Rising(s), NEW a, NEW i \in DOMAIN s
    PROVE  AtPlace(s, a, s[i]) = IF i \in DOMAIN a THEN a[i] ELSE None
<1> DEFINE places == {x \in DOMAIN s \cap DOMAIN a : s[x] = s[i]}
<1>1. DOMAIN s = 1..Len(s) /\ Len(s) \in Nat
  BY DEF Rising, Listed
<1>2. \A x \in places : x = i
  <2> SUFFICES ASSUME NEW x \in DOMAIN s, s[x] = s[i], x # i PROVE FALSE
    OBVIOUS
  <2>1. x < i \/ i < x
    BY <1>1
  <2>2. s[i] \in Nat /\ (s[x] < s[i] \/ s[i] < s[x])
    BY <2>1 DEF Rising
  <2> QED BY <2>2
<1>3. CASE i \in DOMAIN a
  <2>1. places = {i}
    BY <1>2, <1>3
  <2>2. (CHOOSE x \in places : TRUE) = i
    BY <2>1
  <2> QED BY <1>3, <2>1, <2>2 DEF AtPlace
<1>4. CASE i \notin DOMAIN a
  <2>1. places = {}
    BY <1>2, <1>4
  <2> QED BY <1>4, <2>1 DEF AtPlace
<1> QED BY <1>3, <1>4

(* One poll of the future of a token, kind by kind. *)
LEMMA ResolveCases ==
    ASSUME NEW c, NEW t
    PROVE  /\ c.kinds[t] \in Answered =>
                Resolve(c, t) = IF t \in DOMAIN c.results THEN c.results[t] ELSE None
           /\ c.kinds[t] = "External" =>
                Resolve(c, t) = IF t \in DOMAIN c.bound THEN get_external_event(c, c.bound[t]) ELSE None
           /\ c.kinds[t] = "Queue" =>
                Resolve(c, t) = IF t \in DOMAIN c.bound THEN get_queue_message(c, c.bound[t]) ELSE None
           /\ c.kinds[t] \notin Answered \cup Waited => Resolve(c, t) = None
  BY DEF Resolve, Answered, Waited

(* A future gives what its subscription finds at its place. *)
LEMMA ResolveMail ==
    ASSUME NEW c, Mail(c), NEW t \in DOMAIN c.bound
    PROVE  /\ c.kinds[t] = "External" =>
                \E i \in DOMAIN c.subs :
                  /\ c.subs[i] = c.bound[t]
                  /\ Resolve(c, t) = IF i \in DOMAIN c.arrivals THEN c.arrivals[i] ELSE None
           /\ c.kinds[t] = "Queue" =>
                \E i \in DOMAIN c.qsubs :
                  /\ c.qsubs[i] = c.bound[t]
                  /\ Resolve(c, t) = IF i \in DOMAIN c.qarrivals THEN c.qarrivals[i] ELSE None
<1>1. ASSUME c.kinds[t] = "External"
      PROVE  \E i \in DOMAIN c.subs :
                  /\ c.subs[i] = c.bound[t]
                  /\ Resolve(c, t) = IF i \in DOMAIN c.arrivals THEN c.arrivals[i] ELSE None
  <2>1. c.bound[t] \in Range(c.subs)
    BY <1>1 DEF Mail, BoundIds
  <2>2. PICK i \in DOMAIN c.subs : c.subs[i] = c.bound[t]
    BY <2>1 DEF Range
  <2>3. Rising(c.subs) /\ Without(c.subs, c.cancelled) = c.subs
    BY WithoutNone DEF Mail, Rising
  <2>4. Resolve(c, t) = AtPlace(c.subs, c.arrivals, c.subs[i])
    BY <1>1, <2>2, <2>3, ResolveCases DEF get_external_event, Arrival
  <2> QED BY <2>2, <2>3, <2>4, AtPlaceIs
<1>2. ASSUME c.kinds[t] = "Queue"
      PROVE  \E i \in DOMAIN c.qsubs :
                  /\ c.qsubs[i] = c.bound[t]
                  /\ Resolve(c, t) = IF i \in DOMAIN c.qarrivals THEN c.qarrivals[i] ELSE None
  <2>1. c.bound[t] \in Range(c.qsubs)
    BY <1>2 DEF Mail, BoundIds
  <2>2. PICK i \in DOMAIN c.qsubs : c.qsubs[i] = c.bound[t]
    BY <2>1 DEF Range
  <2>3. Rising(c.qsubs) /\ Without(c.qsubs, c.qcancelled) = c.qsubs
    BY WithoutNone DEF Mail, Rising
  <2>4. Resolve(c, t) = AtPlace(c.qsubs, c.qarrivals, c.qsubs[i])
    BY <1>2, <2>2, <2>3, ResolveCases DEF get_queue_message, Arrival
  <2> QED BY <2>2, <2>3, <2>4, AtPlaceIs
<1> QED BY <1>1, <1>2

(* What the futures give in c they give in d. *)
Kept(c, d) == \A t \in DOMAIN c.kinds : Resolve(c, t) # None => Resolve(d, t) = Resolve(c, t)

Still(c, d) == \A t \in DOMAIN c.kinds : Resolve(d, t) = Resolve(c, t)

(* What a poll of a token's future looks at. *)
LEMMA ResolveSame ==
    ASSUME NEW c, NEW d, NEW t, d.kinds[t] = c.kinds[t],
           \A f \in {"bound", "results", "subs", "arrivals", "cancelled", "qsubs", "qarrivals",
                     "qcancelled"} : d[f] = c[f]
    PROVE  Resolve(d, t) = Resolve(c, t)
<1>1. /\ d.bound = c.bound /\ d.results = c.results /\ d.subs = c.subs /\ d.arrivals = c.arrivals
      /\ d.cancelled = c.cancelled /\ d.qsubs = c.qsubs /\ d.qarrivals = c.qarrivals
      /\ d.qcancelled = c.qcancelled
  OBVIOUS
<1> QED BY <1>1 DEF Resolve, get_external_event, get_queue_message

(* What the future of an awaited token has given is what it gives. *)
LEMMA GivenIs ==
    ASSUME NEW c, Calm(c), NEW t \in Range(c.awaits)
    PROVE  Given(c, t) = Resolve(c, t)
  BY DEF Calm, Given

(* What a round gave: of a join everything, of a race what won. *)
LEMMA OutcomeFacts ==
    ASSUME NEW c, NEW m, Core(c, m), Ready(c)
    PROVE  /\ c.wait = "all" =>
                /\ \A p : p \in Range(Outcome(c)) <=> \E t \in Range(c.awaits) : p = <<t, Given(c, t)>>
                /\ \A t \in Range(c.awaits) : Given(c, t) # None
           /\ c.wait = "any" =>
                \E t \in Range(c.awaits) : /\ Given(c, t) # None
                                           /\ \A p : p \in Range(Outcome(c)) <=> p = <<t, Given(c, t)>>
<1>1. Listed(c.awaits) /\ c.wait \in {"all", "any"}
  BY DEF Core
<1>2. DOMAIN c.awaits = 1..Len(c.awaits) /\ Len(c.awaits) \in Nat
  BY <1>1 DEF Listed
<1>3. ASSUME c.wait = "all"
      PROVE  /\ \A p : p \in Range(Outcome(c)) <=> \E t \in Range(c.awaits) : p = <<t, Given(c, t)>>
             /\ \A t \in Range(c.awaits) : Given(c, t) # None
  <2>1. Outcome(c) = [x \in DOMAIN c.awaits |-> <<c.awaits[x], Given(c, c.awaits[x])>>]
    BY <1>3 DEF Outcome
  <2>2. Completed(c) = DOMAIN c.awaits
    BY <1>3 DEF Ready
  <2>3. \A x \in DOMAIN c.awaits : Given(c, c.awaits[x]) # None
    BY <2>2 DEF Completed
  <2> QED BY <2>1, <2>3 DEF Range
<1>4. ASSUME c.wait = "any"
      PROVE  \E t \in Range(c.awaits) : /\ Given(c, t) # None
                                        /\ \A p : p \in Range(Outcome(c)) <=> p = <<t, Given(c, t)>>
  <2> DEFINE w == Winner(c)
             K == Completed(c)
  <2>1. K # {} /\ K \in SUBSET (1..Len(c.awaits)) /\ \A x \in K : Given(c, c.awaits[x]) # None
    BY <1>2, <1>4 DEF Ready, Completed
  <2>2. \E x \in K : \A y \in K : x <= y
    <3> HIDE DEF K
    <3> QED BY <1>2, <2>1, FirstExists
  <2>3. PICK x \in K : w = c.awaits[x]
    BY <2>2 DEF Winner
  <2>4. w \in Range(c.awaits) /\ Given(c, w) # None
    BY <1>2, <2>1, <2>3 DEF Range
  <2>5. Outcome(c) = [y \in DOMAIN <<w>> |-> <<(<<w>>)[y], Given(c, (<<w>>)[y])>>]
    BY <1>4 DEF Outcome
  <2> HIDE DEF w
  <2>6. DOMAIN <<w>> = {1} /\ (<<w>>)[1] = w
    OBVIOUS
  <2>7. DOMAIN Outcome(c) = {1} /\ Outcome(c)[1] = <<w, Given(c, w)>>
    BY <2>5, <2>6
  <2>8. \A p : p \in Range(Outcome(c)) <=> p = <<w, Given(c, w)>>
    BY <2>7 DEF Range
  <2> QED BY <2>4, <2>8
<1> QED BY <1>1, <1>3, <1>4

(* A poll that comes too early. *)
LEMMA PolledCalm ==
    ASSUME NEW c, NEW m, Core(c, m), Calm(c), Mail(c), NEW d, Polled(c, d)
    PROVE  /\ Calm(d) /\ Mail(d) /\ Still(c, d) /\ (Ready(d) <=> Ready(c))
           /\ ~Ready(c) => Full(d)
<1>1. /\ DOMAIN d = CtxFields /\ \A f \in CtxFields \ {"got"} : d[f] = c[f]
      /\ d.got = IF c.wait = "any" THEN c.got ELSE [t \in DOMAIN c.got |-> Given(c, t)]
  BY DEF Core, Polled
<1>2. /\ d.seen = c.seen /\ d.awaits = c.awaits /\ d.wait = c.wait /\ d.kinds = c.kinds
      /\ d.bound = c.bound /\ d.results = c.results /\ d.subs = c.subs /\ d.arrivals = c.arrivals
      /\ d.cancelled = c.cancelled /\ d.qsubs = c.qsubs /\ d.qarrivals = c.qarrivals
      /\ d.qcancelled = c.qcancelled /\ d.dropped = c.dropped
  BY <1>1 DEF CtxFields
<1>3. Mail(d)
  BY <1>2 DEF Mail, BoundIds
<1>4. \A t : Resolve(d, t) = Resolve(c, t)
  BY <1>2, ResolveSame
<1>5. \A t \in Range(c.awaits) : d.got[t] = IF c.wait = "any" THEN c.got[t] ELSE Resolve(c, t)
  BY <1>1, GivenIs DEF Core
<1>6. Takes(d) = Takes(c)
  BY <1>2 DEF Takes
<1>7. c.wait \in {"all", "any"}
  BY DEF Core
<1>8. Calm(d)
  BY <1>2, <1>4, <1>5, <1>6, <1>7 DEF Calm
<1>9. \A t \in Range(c.awaits) : Given(d, t) = Given(c, t)
  BY <1>2, <1>4, <1>8, GivenIs
<1>10. Completed(d) = Completed(c)
  BY <1>2, <1>9 DEF Completed, Range
<1>11. Ready(d) <=> Ready(c)
  BY <1>2, <1>10 DEF Ready
<1>12. ~Ready(c) => Full(d)
  BY <1>2, <1>4, <1>5, <1>7, <1>11 DEF Full
<1> QED BY <1>3, <1>4, <1>8, <1>11, <1>12 DEF Still

CalmRound(r) == r.wait = "any" => \A x \in DOMAIN r.acts : r.acts[x] \notin Waited

CalmCode(k) == \A s \in DOMAIN k : CalmRound(k[s])

(* A round is entered. *)
LEMMA EnteredCalm ==
    ASSUME NEW c, NEW m, Core(c, m), Calm(c), Mail(c), Ready(c), NEW r, RoundOk(r), CalmRound(r),
           NEW d, Entered(c, d, r)
    PROVE  /\ Calm(d) /\ Mail(d) /\ Still(c, d)
           /\ r.acts # <<>> => Full(d)
<1> DEFINE n == Len(c.kinds)
           l == Len(r.acts)
<1>1. /\ d.seen = Append(c.seen, Outcome(c)) /\ d.wait = r.wait
      /\ Range(d.awaits) = {t \in (n + 1)..Len(d.kinds) : d.kinds[t] \in Awaited}
      /\ d.got = [t \in Range(d.awaits) |-> None]
      /\ d.dropped \subseteq c.dropped \cup Range(c.awaits)
      /\ c.wait = "all" => d.dropped = c.dropped
      /\ d.bound = c.bound /\ d.results = c.results
      /\ d.subs = c.subs /\ d.arrivals = c.arrivals /\ d.cancelled = c.cancelled
      /\ d.qsubs = c.qsubs /\ d.qarrivals = c.qarrivals /\ d.qcancelled = c.qcancelled
  BY DEF Entered, Seen
<1>2. Appended(c.kinds, r.acts, d.kinds)
  <2>1. c.kinds \in Acts /\ r.acts \in Acts /\ d.kinds = c.kinds \o r.acts
    BY DEF Core, RoundOk, Entered
  <2> QED BY <2>1, ActsConcat
<1>3. /\ n \in Nat /\ l \in Nat /\ DOMAIN c.kinds = 1..n /\ DOMAIN d.kinds = 1..(n + l)
      /\ Len(d.kinds) = n + l /\ DOMAIN r.acts = 1..l
      /\ \A t \in 1..n : d.kinds[t] = c.kinds[t]
      /\ \A t \in 1..l : d.kinds[n + t] = r.acts[t]
  BY <1>2 DEF Appended
<1>4. /\ DOMAIN c.bound \subseteq 1..n /\ DOMAIN c.results \subseteq DOMAIN c.bound
      /\ Range(c.awaits) \subseteq 1..n /\ c.dropped \subseteq 1..n
      /\ c.wait \in {"all", "any"}
  <2>1. m \in 0..n
    BY DEF Core
  <2>2. DOMAIN c.bound \subseteq 1..m
    BY DEF Core
  <2>3. \A x : x \in 1..m => x \in 1..n
    BY <1>3, <2>1
  <2> QED BY <1>3, <2>2, <2>3 DEF Core, Asked
<1> HIDE DEF n, l
<1>5. \A t \in 1..n : Resolve(d, t) = Resolve(c, t)
  <2> TAKE t \in 1..n
  <2>1. d.kinds[t] = c.kinds[t]
    BY <1>3
  <2> QED BY <1>1, <2>1, ResolveSame
<1>6. Still(c, d)
  BY <1>3, <1>5 DEF Still
<1>7. Mail(d)
  <2>1. \A kind : BoundIds(d, kind) = BoundIds(c, kind)
    <3> TAKE kind
    <3>1. {x \in DOMAIN d.bound : d.kinds[x] = kind} = {x \in DOMAIN c.bound : c.kinds[x] = kind}
      BY <1>1, <1>3, <1>4
    <3> QED BY <1>1, <3>1 DEF BoundIds
  <2> QED BY <1>1, <2>1 DEF Mail
<1>8. \A t \in (n + 1)..(n + l) : Resolve(d, t) = None
  <2> TAKE t \in (n + 1)..(n + l)
  <2>1. t \notin DOMAIN d.bound /\ t \notin DOMAIN d.results
    BY <1>1, <1>3, <1>4
  <2> QED BY <2>1 DEF Resolve
<1>9. /\ Listed(d.seen) /\ \A p : p \in Takes(d) <=> p \in Takes(c) \/ p \in Range(Outcome(c))
  <2> DEFINE o == Outcome(c)
  <2>1. Listed(d.seen) /\ Range(d.seen) = Range(c.seen) \cup {o}
    BY <1>1, AppendRow DEF Calm
  <2> HIDE DEF o
  <2>2. \A p : p \in Takes(d) <=> p \in Takes(c) \/ p \in Range(o)
    BY <2>1 DEF Takes
  <2> QED BY <2>1, <2>2 DEF o
<1>10. /\ c.wait = "all" =>
            /\ \A p : p \in Range(Outcome(c)) <=> \E t \in Range(c.awaits) : p = <<t, Given(c, t)>>
            /\ \A t \in Range(c.awaits) : Given(c, t) # None
       /\ c.wait = "any" =>
            \E t \in Range(c.awaits) : /\ Given(c, t) # None
                                       /\ \A p : p \in Range(Outcome(c)) <=> p = <<t, Given(c, t)>>
  BY OutcomeFacts
<1>11. ASSUME NEW p \in Range(Outcome(c))
       PROVE  p[1] \in Range(c.awaits) /\ p[2] = Resolve(c, p[1]) /\ p[2] # None
  <2>1. PICK t \in Range(c.awaits) : p = <<t, Given(c, t)>> /\ Given(c, t) # None
    BY <1>4, <1>10, <1>11
  <2>2. Given(c, t) = Resolve(c, t)
    BY <2>1, GivenIs
  <2> QED BY <2>1, <2>2
<1>12. \A t \in d.dropped : d.kinds[t] \notin Waited
  <2> TAKE t \in d.dropped
  <2>1. t \in 1..n
    BY <1>1, <1>4
  <2>2. c.kinds[t] \notin Waited
    BY <1>1, <1>4 DEF Calm
  <2> QED BY <1>3, <2>1, <2>2
<1>13. d.wait = "any" => \A t \in Range(d.awaits) : d.kinds[t] \notin Waited /\ d.got[t] = None
  <2> SUFFICES ASSUME r.wait = "any", NEW t \in Range(d.awaits)
               PROVE  d.kinds[t] \notin Waited /\ d.got[t] = None
    BY <1>1
  <2>1. t \in (n + 1)..(n + l)
    BY <1>1, <1>3
  <2>2. t - n \in 1..l /\ n + (t - n) = t
    BY <1>3, <2>1
  <2>3. d.kinds[t] = r.acts[t - n]
    BY <1>3, <2>2
  <2>4. r.acts[t - n] \notin Waited
    BY <1>3, <2>2 DEF CalmRound
  <2> QED BY <1>1, <2>3, <2>4
<1>14. \A p \in Takes(d) :
         /\ p[1] \in DOMAIN d.kinds
         /\ d.kinds[p[1]] \in Waited =>
              /\ p[1] \in DOMAIN d.bound /\ p[1] \notin Range(d.awaits)
              /\ p[2] = Resolve(d, p[1]) /\ p[2] # None
  <2> TAKE p \in Takes(d)
  <2>1. /\ p[1] \in 1..n
        /\ c.kinds[p[1]] \in Waited =>
             p[1] \in DOMAIN c.bound /\ p[2] = Resolve(c, p[1]) /\ p[2] # None
    <3>1. CASE p \in Takes(c)
      BY <1>3, <3>1 DEF Calm
    <3>2. CASE p \in Range(Outcome(c))
      <4>1. p[1] \in 1..n /\ p[2] = Resolve(c, p[1]) /\ p[2] # None
        BY <1>4, <1>11, <3>2
      <4>2. c.kinds[p[1]] \in Waited => p[1] \in DOMAIN c.bound
        BY <4>1 DEF Resolve, Waited, Answered
      <4> QED BY <4>1, <4>2
    <3> QED BY <1>9, <3>1, <3>2
  <2>2. d.kinds[p[1]] = c.kinds[p[1]] /\ Resolve(d, p[1]) = Resolve(c, p[1]) /\ p[1] \in DOMAIN d.kinds
    BY <1>3, <1>5, <2>1
  <2>3. p[1] \notin Range(d.awaits)
    BY <1>1, <1>3, <2>1
  <2> QED BY <1>1, <2>1, <2>2, <2>3
<1>15. \A t \in DOMAIN d.kinds :
         d.kinds[t] \in Waited /\ t \notin Range(d.awaits) => \E p \in Takes(d) : p[1] = t
  <2> SUFFICES ASSUME NEW t \in DOMAIN d.kinds, d.kinds[t] \in Waited, t \notin Range(d.awaits)
               PROVE  \E p \in Takes(d) : p[1] = t
    OBVIOUS
  <2>1. d.kinds[t] \in Awaited
    BY DEF Waited, Awaited
  <2>2. t \in 1..n
    BY <1>1, <1>3, <2>1
  <2>3. c.kinds[t] \in Waited /\ t \in DOMAIN c.kinds
    BY <1>3, <2>2
  <2>4. CASE t \in Range(c.awaits)
    <3>1. c.wait = "all"
      BY <1>4, <2>3, <2>4 DEF Calm
    <3>2. <<t, Given(c, t)>> \in Range(Outcome(c))
      BY <1>10, <2>4, <3>1
    <3>3. <<t, Given(c, t)>> \in Takes(d) /\ (<<t, Given(c, t)>>)[1] = t
      BY <1>9, <3>2
    <3> QED BY <3>3
  <2>5. CASE t \notin Range(c.awaits)
    BY <1>9, <2>3, <2>5 DEF Calm
  <2> QED BY <2>4, <2>5
<1>16. \A t \in Range(d.awaits) : d.got[t] = None
  BY <1>1
<1>17. Calm(d)
  BY <1>9, <1>12, <1>13, <1>14, <1>15, <1>16 DEF Calm
<1>18. ASSUME r.acts # <<>> PROVE Full(d)
  <2>1. \A t \in Range(d.awaits) : Given(d, t) = None /\ Resolve(d, t) = None
    BY <1>1, <1>3, <1>8, <1>16 DEF Given
  <2>2. Completed(d) = {}
    BY <2>1 DEF Completed, Range
  <2>3. Range(d.awaits) # {}
    <3>1. PICK x \in DOMAIN r.acts : r.acts[x] \in Awaited
      BY <1>18 DEF RoundOk
    <3>2. n + x \in (n + 1)..(n + l) /\ d.kinds[n + x] \in Awaited
      BY <1>3, <3>1
    <3> QED BY <1>1, <1>3, <3>2
  <2>4. DOMAIN d.awaits # {}
    BY <2>3 DEF Range
  <2>5. ~Ready(d)
    BY <2>2, <2>4 DEF Ready
  <2> QED BY <1>16, <2>1, <2>5 DEF Full
<1> QED BY <1>6, <1>7, <1>17, <1>18

(* What the code knows stays so while the context only learns more. *)
LEMMA CalmMoves ==
    ASSUME NEW c, NEW m, Core(c, m), Calm(c), NEW d, Kept(c, d), DOMAIN c.bound \subseteq DOMAIN d.bound,
           \A f \in {"seen", "awaits", "wait", "got", "kinds", "dropped"} : d[f] = c[f]
    PROVE  Calm(d) /\ (Still(c, d) /\ Full(c) => Full(d)) /\ (Still(c, d) => (Ready(d) <=> Ready(c)))
<1>1. /\ d.seen = c.seen /\ d.awaits = c.awaits /\ d.wait = c.wait /\ d.got = c.got
      /\ d.kinds = c.kinds /\ d.dropped = c.dropped
  OBVIOUS
<1>2. Range(c.awaits) \subseteq DOMAIN c.kinds
  BY DEF Core, Asked
<1>3. Takes(d) = Takes(c)
  BY <1>1 DEF Takes
<1>4. \A t \in DOMAIN c.kinds : Resolve(c, t) # None => Resolve(d, t) = Resolve(c, t)
  BY DEF Kept
<1>5. \A t \in Range(c.awaits) : c.got[t] = None \/ c.got[t] = Resolve(d, t)
  BY <1>2, <1>4 DEF Calm
<1>6. \A p \in Takes(c) : c.kinds[p[1]] \in Waited => p[2] = Resolve(d, p[1])
  BY <1>4 DEF Calm
<1>7. Calm(d)
  BY <1>1, <1>3, <1>5, <1>6 DEF Calm
<1>8. ASSUME Still(c, d) PROVE (Full(c) => Full(d)) /\ (Ready(d) <=> Ready(c))
  <2>1. \A t \in Range(c.awaits) : Resolve(d, t) = Resolve(c, t)
    BY <1>2, <1>8 DEF Still
  <2>2. \A t \in Range(c.awaits) : Given(d, t) = Given(c, t)
    BY <1>1, <2>1 DEF Given
  <2>3. Completed(d) = Completed(c)
    BY <1>1, <2>2 DEF Completed, Range
  <2>4. Ready(d) <=> Ready(c)
    BY <1>1, <2>3 DEF Ready
  <2>5. Full(c) => Full(d)
    BY <1>1, <2>1, <2>4 DEF Full
  <2> QED BY <2>4, <2>5
<1>9. Still(c, d) => (Full(c) => Full(d))
  BY <1>8
<1>10. Still(c, d) => (Ready(d) <=> Ready(c))
  BY <1>8
<1> QED BY <1>7, <1>9, <1>10

(* All of s is where it was in u. *)
Extends(s, u) == \A i \in DOMAIN s : i \in DOMAIN u /\ u[i] = s[i]

(* The elements of a list that rises differ. *)
LEMMA RisingApart ==
    ASSUME NEW s, Rising(s), NEW i \in DOMAIN s, NEW j \in DOMAIN s, s[i] = s[j]
    PROVE  i = j
<1>1. i \in Nat /\ j \in Nat
  BY DEF Rising, Listed
<1>2. s[i] \in Nat /\ s[j] \in Nat /\ (i < j => s[i] < s[j]) /\ (j < i => s[j] < s[i])
  BY DEF Rising
<1> QED BY <1>1, <1>2

(* What is appended to a list. *)
LEMMA AppendIs ==
    ASSUME NEW s, Listed(s), NEW x
    PROVE  /\ Listed(Append(s, x)) /\ Range(Append(s, x)) = Range(s) \cup {x}
           /\ Len(s) \in Nat /\ Len(Append(s, x)) = Len(s) + 1 /\ DOMAIN s = 1..Len(s)
           /\ DOMAIN Append(s, x) = 1..(Len(s) + 1)
           /\ Append(s, x)[Len(s) + 1] = x /\ \A i \in 1..Len(s) : Append(s, x)[i] = s[i]
           /\ Extends(s, Append(s, x))
<1>1. Listed(Append(s, x)) /\ Range(Append(s, x)) = Range(s) \cup {x}
  BY AppendRow
<1> DEFINE l == Len(s)
           S == Range(s) \cup {x}
<1>2. s \in Seq(S) /\ x \in S
  <2>1. s \in Seq(Range(s))
    BY DEF Listed
  <2> QED BY <2>1
<1> HIDE DEF S
<1>3. /\ l \in Nat /\ Len(Append(s, x)) = l + 1 /\ DOMAIN s = 1..l /\ DOMAIN Append(s, x) = 1..(l + 1)
      /\ Append(s, x)[l + 1] = x /\ \A i \in 1..l : Append(s, x)[i] = s[i]
  BY <1>2
<1>4. Extends(s, Append(s, x))
  BY <1>3 DEF Extends
<1> QED BY <1>1, <1>3, <1>4

(* The list with one more element. *)
OneMore(s, x, u) ==
  /\ Listed(u) /\ Range(u) = Range(s) \cup {x} /\ Extends(s, u)
  /\ Len(s) \in Nat /\ Len(u) = Len(s) + 1
  /\ DOMAIN s = 1..Len(s) /\ DOMAIN u = 1..Len(u)
  /\ u[Len(u)] = x

(* A list and one more element are such a list.                            *)
LEMMA AppendMore == ASSUME NEW s, Listed(s), NEW x, NEW u, u = Append(s, x) PROVE OneMore(s, x, u)
  BY AppendIs DEF OneMore

(* A list that rises further. *)
LEMMA RisingMore ==
    ASSUME NEW s, Rising(s), NEW x \in Nat, \A y \in Range(s) : y < x
    PROVE  Rising(Append(s, x))
<1> DEFINE u == Append(s, x)
           l == Len(s)
<1>1. /\ Listed(u) /\ l \in Nat /\ DOMAIN u = 1..(l + 1) /\ u[l + 1] = x /\ DOMAIN s = 1..l
      /\ \A i \in 1..l : u[i] = s[i]
  BY AppendIs DEF Rising
<1>2. \A i \in 1..l : s[i] < x
  BY <1>1 DEF Range
<1> HIDE DEF u, l
<1>3. \A i \in 1..(l + 1) : u[i] \in Nat
  <2> TAKE i \in 1..(l + 1)
  <2>1. CASE i = l + 1
    BY <1>1, <2>1
  <2>2. CASE i \in 1..l
    BY <1>1, <2>2 DEF Rising
  <2> QED BY <1>1, <2>1, <2>2
<1>4. \A i, j \in 1..(l + 1) : i < j => u[i] < u[j]
  <2> SUFFICES ASSUME NEW i \in 1..(l + 1), NEW j \in 1..(l + 1), i < j PROVE u[i] < u[j]
    OBVIOUS
  <2>1. i \in 1..l /\ u[i] = s[i]
    BY <1>1
  <2>2. CASE j = l + 1
    BY <1>1, <1>2, <2>1, <2>2
  <2>3. CASE j \in 1..l
    <3>1. u[j] = s[j] /\ i \in DOMAIN s /\ j \in DOMAIN s
      BY <1>1, <2>1, <2>3
    <3> QED BY <2>1, <3>1 DEF Rising
  <2> QED BY <1>1, <2>2, <2>3
<1>5. Rising(u)
  BY <1>1, <1>3, <1>4 DEF Rising
<1> QED BY <1>5 DEF u

GrowsTo(c, d) ==
  /\ Extends(c.bound, d.bound) /\ Extends(c.results, d.results)
  /\ Extends(c.subs, d.subs) /\ Extends(c.qsubs, d.qsubs)
  /\ Extends(c.arrivals, d.arrivals) /\ Extends(c.qarrivals, d.qarrivals)

(* What a future gives it goes on to give. *)
LEMMA ResolveGrows ==
    ASSUME NEW c, NEW d, Mail(c), Mail(d), GrowsTo(c, d), NEW t, d.kinds[t] = c.kinds[t]
    PROVE  /\ Resolve(c, t) # None => Resolve(d, t) = Resolve(c, t)
           /\ t \in DOMAIN c.bound /\ d.results = c.results /\ d.arrivals = c.arrivals
                /\ d.qarrivals = c.qarrivals => Resolve(d, t) = Resolve(c, t)
<1>1. CASE c.kinds[t] \in Answered
  <2>1. /\ Resolve(c, t) = IF t \in DOMAIN c.results THEN c.results[t] ELSE None
        /\ Resolve(d, t) = IF t \in DOMAIN d.results THEN d.results[t] ELSE None
    BY <1>1, ResolveCases
  <2>2. t \in DOMAIN c.results => t \in DOMAIN d.results /\ d.results[t] = c.results[t]
    BY DEF GrowsTo, Extends
  <2>3. Resolve(c, t) # None => t \in DOMAIN c.results
    BY <2>1
  <2> QED BY <2>1, <2>2, <2>3
<1>2. CASE c.kinds[t] = "External"
  <2>1. CASE t \in DOMAIN c.bound
    <3>1. t \in DOMAIN d.bound /\ d.bound[t] = c.bound[t]
      BY <2>1 DEF GrowsTo, Extends
    <3>2. PICK i \in DOMAIN c.subs :
             /\ c.subs[i] = c.bound[t]
             /\ Resolve(c, t) = IF i \in DOMAIN c.arrivals THEN c.arrivals[i] ELSE None
      BY <1>2, <2>1, ResolveMail
    <3>3. PICK j \in DOMAIN d.subs :
             /\ d.subs[j] = d.bound[t]
             /\ Resolve(d, t) = IF j \in DOMAIN d.arrivals THEN d.arrivals[j] ELSE None
      BY <1>2, <3>1, ResolveMail
    <3>4. i \in DOMAIN d.subs /\ d.subs[i] = c.subs[i]
      BY DEF GrowsTo, Extends
    <3>5. i = j
      BY <3>1, <3>2, <3>3, <3>4, RisingApart DEF Mail
    <3>6. i \in DOMAIN c.arrivals => i \in DOMAIN d.arrivals /\ d.arrivals[i] = c.arrivals[i]
      BY DEF GrowsTo, Extends
    <3> QED BY <3>2, <3>3, <3>5, <3>6
  <2>2. CASE t \notin DOMAIN c.bound
    BY <1>2, <2>2, ResolveCases
  <2> QED BY <2>1, <2>2
<1>3. CASE c.kinds[t] = "Queue"
  <2>1. CASE t \in DOMAIN c.bound
    <3>1. t \in DOMAIN d.bound /\ d.bound[t] = c.bound[t]
      BY <2>1 DEF GrowsTo, Extends
    <3>2. PICK i \in DOMAIN c.qsubs :
             /\ c.qsubs[i] = c.bound[t]
             /\ Resolve(c, t) = IF i \in DOMAIN c.qarrivals THEN c.qarrivals[i] ELSE None
      BY <1>3, <2>1, ResolveMail
    <3>3. PICK j \in DOMAIN d.qsubs :
             /\ d.qsubs[j] = d.bound[t]
             /\ Resolve(d, t) = IF j \in DOMAIN d.qarrivals THEN d.qarrivals[j] ELSE None
      BY <1>3, <3>1, ResolveMail
    <3>4. i \in DOMAIN d.qsubs /\ d.qsubs[i] = c.qsubs[i]
      BY DEF GrowsTo, Extends
    <3>5. i = j
      BY <3>1, <3>2, <3>3, <3>4, RisingApart DEF Mail
    <3>6. i \in DOMAIN c.qarrivals => i \in DOMAIN d.qarrivals /\ d.qarrivals[i] = c.qarrivals[i]
      BY DEF GrowsTo, Extends
    <3> QED BY <3>2, <3>3, <3>5, <3>6
  <2>2. CASE t \notin DOMAIN c.bound
    BY <1>3, <2>2, ResolveCases
  <2> QED BY <2>1, <2>2
<1>4. CASE c.kinds[t] \notin Answered \cup Waited
  BY <1>4, ResolveCases
<1> QED BY <1>1, <1>2, <1>3, <1>4 DEF Waited

(* Everything stays where it is. *)
LEMMA SelfExtends == \A s : Extends(s, s)
  BY DEF Extends

(* Binding the next token. *)
LEMMA BindCalm ==
    ASSUME NEW c, NEW m, Core(c, m), m < Len(c.kinds), Calm(c), Mail(c),
           NEW top \in Nat, Later(c, top), NEW id \in Nat, top < id,
           NEW d, d = Bind(c, m + 1, id)
    PROVE  /\ Calm(d) /\ Mail(d) /\ d.qarrivals = c.qarrivals
           /\ c.kinds[m + 1] # "Queue" => Still(c, d) /\ (Full(c) => Full(d))
           /\ Later(d, IF c.kinds[m + 1] = "ContinueAsNew" THEN top ELSE id)
<1> DEFINE b == m + 1
           kind == c.kinds[b]
<1>1. /\ DOMAIN d = CtxFields
      /\ \A f \in CtxFields \ {"bound", "subs", "qsubs"} : d[f] = c[f]
      /\ DOMAIN d.bound = DOMAIN c.bound \cup {b}
      /\ \A s \in DOMAIN c.bound \cup {b} : d.bound[s] = IF s = b THEN id ELSE c.bound[s]
      /\ d.subs = IF kind = "External" THEN Append(c.subs, id) ELSE c.subs
      /\ d.qsubs = IF kind = "Queue" THEN Append(c.qsubs, id) ELSE c.qsubs
  BY BindFacts DEF Core
<1>2. /\ m \in Nat /\ b \in DOMAIN c.kinds /\ b \notin DOMAIN c.bound /\ b \notin DOMAIN c.results
      /\ \A s \in DOMAIN c.bound : s \in Nat /\ s < b
  <2>1. c.kinds \in Acts /\ m \in 0..Len(c.kinds) /\ DOMAIN c.bound \subseteq 1..m
        /\ DOMAIN c.results \subseteq DOMAIN c.bound
    BY DEF Core
  <2>2. Len(c.kinds) \in Nat /\ DOMAIN c.kinds = 1..Len(c.kinds)
    BY <2>1 DEF Acts
  <2>3. m \in Nat /\ b \in 1..Len(c.kinds)
    BY <2>1, <2>2
  <2>4. \A s \in DOMAIN c.bound : s \in Nat /\ s < b
    BY <2>1, <2>3
  <2> QED BY <2>1, <2>2, <2>3, <2>4
<1> HIDE DEF b
<1>3. /\ d.seen = c.seen /\ d.awaits = c.awaits /\ d.wait = c.wait /\ d.got = c.got
      /\ d.kinds = c.kinds /\ d.dropped = c.dropped /\ d.results = c.results
      /\ d.arrivals = c.arrivals /\ d.qarrivals = c.qarrivals
      /\ d.cancelled = c.cancelled /\ d.qcancelled = c.qcancelled
  BY <1>1 DEF CtxFields
<1>4. \A k : BoundIds(d, k) = IF kind = k THEN BoundIds(c, k) \cup {id} ELSE BoundIds(c, k)
  <2> TAKE k
  <2>1. {x \in DOMAIN d.bound : d.kinds[x] = k} =
          {x \in DOMAIN c.bound : c.kinds[x] = k} \cup (IF kind = k THEN {b} ELSE {})
    BY <1>1, <1>3
  <2>2. BoundIds(d, k) = {d.bound[t] : t \in {x \in DOMAIN c.bound : c.kinds[x] = k}}
                           \cup {d.bound[t] : t \in (IF kind = k THEN {b} ELSE {})}
    BY <2>1 DEF BoundIds
  <2>3. {d.bound[t] : t \in {x \in DOMAIN c.bound : c.kinds[x] = k}} = BoundIds(c, k)
    BY <1>1, <1>2 DEF BoundIds
  <2>4. d.bound[b] = id
    BY <1>1
  <2>5. {d.bound[t] : t \in (IF kind = k THEN {b} ELSE {})} = IF kind = k THEN {id} ELSE {}
    BY <2>4
  <2> QED BY <2>2, <2>3, <2>5
<1>5. \A k \in Waited : \A y \in BoundIds(c, k) : y < id
  BY DEF BoundIds, Later, Waited
<1>6. /\ Rising(d.subs) /\ Range(d.subs) = BoundIds(d, "External") /\ Extends(c.subs, d.subs)
      /\ Len(c.subs) \in Nat /\ DOMAIN c.subs = 1..Len(c.subs)
      /\ Len(d.subs) \in Nat /\ Len(c.subs) <= Len(d.subs)
      /\ kind = "External" => Len(c.subs) < Len(d.subs) /\ d.subs[Len(d.subs)] = id
      /\ DOMAIN d.subs = 1..Len(d.subs)
  <2>1. Rising(c.subs) /\ Range(c.subs) = BoundIds(c, "External") /\ Listed(c.subs)
    BY DEF Mail, Rising
  <2>2. CASE kind = "External"
    <3>1. d.subs = Append(c.subs, id)
      BY <1>1, <2>2
    <3>2. Rising(Append(c.subs, id))
      BY <1>5, <2>1, RisingMore DEF Waited
    <3>3. OneMore(c.subs, id, d.subs)
      BY <2>1, <3>1, AppendMore
    <3>4. BoundIds(d, "External") = BoundIds(c, "External") \cup {id}
      BY <1>4, <2>2
    <3>5. Rising(d.subs)
      BY <3>1, <3>2
    <3> DEFINE a == Len(c.subs)
               z == Len(d.subs)
    <3>6. /\ Range(d.subs) = Range(c.subs) \cup {id} /\ Extends(c.subs, d.subs)
          /\ a \in Nat /\ z = a + 1 /\ DOMAIN c.subs = 1..a /\ DOMAIN d.subs = 1..z
          /\ d.subs[z] = id
      BY <3>3 DEF OneMore
    <3> HIDE DEF a, z
    <3>7. z \in Nat /\ a <= z /\ a < z
      BY <3>6
    <3>8. Range(d.subs) = BoundIds(d, "External")
      BY <2>1, <3>4, <3>6
    <3> QED BY <3>5, <3>6, <3>7, <3>8 DEF a, z
  <2>3. CASE kind # "External"
    <3>1. Len(c.subs) \in Nat /\ DOMAIN c.subs = 1..Len(c.subs)
      BY <2>1 DEF Listed
    <3>2. d.subs = c.subs /\ BoundIds(d, "External") = BoundIds(c, "External")
      BY <1>1, <1>4, <2>3
    <3>3. Rising(d.subs) /\ Range(d.subs) = BoundIds(d, "External") /\ Extends(c.subs, d.subs)
      BY <2>1, <3>2, SelfExtends
    <3> QED BY <2>3, <3>1, <3>2, <3>3
  <2> QED BY <2>2, <2>3
<1>7. Rising(d.qsubs) /\ Range(d.qsubs) = BoundIds(d, "Queue") /\ Extends(c.qsubs, d.qsubs)
  <2>1. Rising(c.qsubs) /\ Range(c.qsubs) = BoundIds(c, "Queue") /\ Listed(c.qsubs)
    BY DEF Mail, Rising
  <2>2. CASE kind = "Queue"
    <3>1. d.qsubs = Append(c.qsubs, id)
      BY <1>1, <2>2
    <3>2. Rising(Append(c.qsubs, id))
      BY <1>5, <2>1, RisingMore DEF Waited
    <3>3. OneMore(c.qsubs, id, d.qsubs)
      BY <2>1, <3>1, AppendMore
    <3>4. BoundIds(d, "Queue") = BoundIds(c, "Queue") \cup {id}
      BY <1>4, <2>2
    <3>5. Rising(d.qsubs)
      BY <3>1, <3>2
    <3> QED BY <2>1, <3>3, <3>4, <3>5 DEF OneMore
  <2>3. CASE kind # "Queue"
    <3>1. d.qsubs = c.qsubs /\ BoundIds(d, "Queue") = BoundIds(c, "Queue")
      BY <1>1, <1>4, <2>3
    <3> QED BY <2>1, <3>1, SelfExtends
  <2> QED BY <2>2, <2>3
<1>8. /\ Listed(c.arrivals) /\ Len(c.arrivals) \in Nat /\ DOMAIN c.arrivals = 1..Len(c.arrivals)
      /\ Len(c.arrivals) <= Len(c.subs)
  BY DEF Mail, Listed
<1>9. \A i \in DOMAIN c.arrivals : c.arrivals[i] \in Nat /\ c.arrivals[i] > d.subs[i]
  <2> TAKE i \in DOMAIN c.arrivals
  <2>1. i \in DOMAIN c.subs
    BY <1>6, <1>8
  <2> QED BY <1>6, <2>1 DEF Extends, Mail
<1>10. Len(c.arrivals) <= Len(d.subs)
  BY <1>6, <1>8
<1>11. Mail(d)
  BY <1>3, <1>6, <1>7, <1>8, <1>9, <1>10 DEF Mail
<1>12. GrowsTo(c, d)
  <2>1. Extends(c.bound, d.bound)
    BY <1>1, <1>2 DEF Extends
  <2> QED BY <1>3, <1>6, <1>7, <2>1, SelfExtends DEF GrowsTo
<1>13. \A t : /\ Resolve(c, t) # None => Resolve(d, t) = Resolve(c, t)
              /\ t \in DOMAIN c.bound => Resolve(d, t) = Resolve(c, t)
  BY <1>3, <1>11, <1>12, ResolveGrows
<1>14. Kept(c, d)
  BY <1>13 DEF Kept
<1>15. \A f \in {"seen", "awaits", "wait", "got", "kinds", "dropped"} : d[f] = c[f]
  BY <1>3
<1>16. DOMAIN c.bound \subseteq DOMAIN d.bound
  BY <1>1
<1>17. Calm(d) /\ (Still(c, d) /\ Full(c) => Full(d))
  BY <1>14, <1>15, <1>16, CalmMoves
<1>18. ASSUME kind # "Queue" PROVE Still(c, d)
  <2> SUFFICES ASSUME NEW t \in DOMAIN c.kinds PROVE Resolve(d, t) = Resolve(c, t)
    BY DEF Still
  <2>1. CASE t \in DOMAIN c.bound
    BY <1>13, <2>1
  <2>2. CASE t \notin DOMAIN c.bound /\ t # b
    <3>1. t \notin DOMAIN d.bound /\ t \notin DOMAIN c.results
      BY <1>1, <2>2 DEF Core
    <3> QED BY <1>3, <2>2, <3>1 DEF Resolve
  <2>3. CASE t = b
    <3>1. Resolve(c, b) = None
      BY <1>2 DEF Resolve
    <3>2. CASE kind = "External"
      <4>1. b \in DOMAIN d.bound /\ d.bound[b] = id /\ d.kinds[b] = "External"
        BY <1>1, <1>3, <3>2
      <4>2. PICK j \in DOMAIN d.subs :
              /\ d.subs[j] = d.bound[b]
              /\ Resolve(d, b) = IF j \in DOMAIN d.arrivals THEN d.arrivals[j] ELSE None
        BY <1>11, <4>1, ResolveMail
      <4> DEFINE i == Len(d.subs)
      <4>3. i \in DOMAIN d.subs /\ d.subs[i] = id
        BY <1>6, <3>2
      <4>4. i \notin DOMAIN d.arrivals
        BY <1>3, <1>6, <1>8, <3>2
      <4> HIDE DEF i
      <4>6. i = j
        BY <1>6, <4>1, <4>2, <4>3, RisingApart
      <4> QED BY <2>3, <3>1, <4>2, <4>4, <4>6
    <3>3. CASE kind # "External"
      <4>1. Resolve(d, b) = None
        BY <1>2, <1>3, <1>18, <3>3 DEF Resolve
      <4> QED BY <2>3, <3>1, <4>1
    <3> QED BY <3>2, <3>3
  <2> QED BY <2>1, <2>2, <2>3
<1>19. Later(d, IF kind = "ContinueAsNew" THEN top ELSE id)
  <2> DEFINE new == IF kind = "ContinueAsNew" THEN top ELSE id
  <2>1. new \in Nat /\ top <= new /\ (kind # "ContinueAsNew" => new = id)
    OBVIOUS
  <2> HIDE DEF new
  <2>2. \A t \in DOMAIN d.bound : d.kinds[t] # "ContinueAsNew" => d.bound[t] \in 1..new
    <3> TAKE t \in DOMAIN d.bound
    <3>1. CASE t = b
      BY <1>1, <1>3, <2>1, <3>1
    <3>2. CASE t \in DOMAIN c.bound
      <4>1. d.bound[t] = c.bound[t]
        BY <1>1, <1>2, <3>2
      <4>2. c.kinds[t] # "ContinueAsNew" => c.bound[t] \in 1..top
        BY <3>2 DEF Later
      <4> QED BY <1>3, <2>1, <4>1, <4>2
    <3> QED BY <1>1, <3>1, <3>2
  <2>3. ASSUME NEW s \in DOMAIN d.bound, NEW t \in DOMAIN d.bound,
               s < t, d.kinds[s] # "ContinueAsNew", d.kinds[t] # "ContinueAsNew"
        PROVE  d.bound[s] < d.bound[t]
    <3>1. s \in DOMAIN c.bound
      BY <1>1, <1>2, <2>3
    <3>2. d.bound[s] = c.bound[s] /\ c.bound[s] \in 1..top
      BY <1>1, <1>2, <1>3, <2>3, <3>1 DEF Later
    <3>3. CASE t = b
      BY <1>1, <3>2, <3>3
    <3>4. CASE t \in DOMAIN c.bound
      <4>1. d.bound[t] = c.bound[t]
        BY <1>1, <1>2, <3>4
      <4> QED BY <1>3, <2>3, <3>1, <3>2, <3>4, <4>1 DEF Later
    <3> QED BY <1>1, <3>3, <3>4
  <2>4. Later(d, new)
    BY <2>2, <2>3 DEF Later
  <2> QED BY <2>4 DEF new
<1> QED BY <1>3, <1>11, <1>17, <1>18, <1>19 DEF b

(* The context learns more of what has arrived. *)
LEMMA MoveCalm ==
    ASSUME NEW c, NEW m, Core(c, m), Calm(c), Mail(c), NEW d, Mail(d), GrowsTo(c, d),
           \A f \in {"seen", "awaits", "wait", "got", "kinds", "dropped"} : d[f] = c[f]
    PROVE  Calm(d)
<1>1. d.kinds = c.kinds
  OBVIOUS
<1>2. Kept(c, d)
  BY <1>1, ResolveGrows DEF Kept
<1>3. DOMAIN c.bound \subseteq DOMAIN d.bound
  BY DEF GrowsTo, Extends
<1> QED BY <1>2, <1>3, CalmMoves

(* The context does not change. *)
LEMMA SameCalm ==
    ASSUME NEW c, NEW m, Core(c, m), Calm(c), Mail(c), NEW d, \A f \in CtxFields : d[f] = c[f]
    PROVE  Calm(d) /\ Mail(d) /\ (Full(c) => Full(d))
<1>1. /\ d.seen = c.seen /\ d.awaits = c.awaits /\ d.wait = c.wait /\ d.got = c.got
      /\ d.kinds = c.kinds /\ d.dropped = c.dropped /\ d.results = c.results /\ d.bound = c.bound
      /\ d.arrivals = c.arrivals /\ d.qarrivals = c.qarrivals
      /\ d.cancelled = c.cancelled /\ d.qcancelled = c.qcancelled
      /\ d.subs = c.subs /\ d.qsubs = c.qsubs
  BY DEF CtxFields
<1>2. Mail(d)
  BY <1>1 DEF Mail, BoundIds
<1>3. \A t : Resolve(d, t) = Resolve(c, t)
  BY <1>1, ResolveSame
<1>4. Kept(c, d) /\ Still(c, d)
  BY <1>3 DEF Kept, Still
<1>5. \A f \in {"seen", "awaits", "wait", "got", "kinds", "dropped"} : d[f] = c[f]
  BY <1>1
<1>6. DOMAIN c.bound \subseteq DOMAIN d.bound
  BY <1>1
<1>7. Calm(d) /\ (Still(c, d) /\ Full(c) => Full(d))
  BY <1>4, <1>5, <1>6, CalmMoves
<1> QED BY <1>2, <1>4, <1>7

(* The messages of the queue that have been read. *)
Read(c, p, w) == Range(c.qarrivals) = {x \in 1..(p - 1) : w[x].kind = "QueueEvent"}

(* Only what a race may lose is cancelled. *)
Soft(w) == \A x \in DOMAIN w : w[x].kind = "Cancelled" => w[x].what \notin Waited

CalmConf(m, w) ==
  /\ Calm(m.ctx) /\ Mail(m.ctx) /\ Read(m.ctx, m.pos, w)
  /\ \A t \in DOMAIN m.ctx.results : m.ctx.bound[t] \notin m.open
  /\ ~m.must /\ ~m.ctx.output => Full(m.ctx)

(* A completion is delivered. *)
LEMMA ResultCalm ==
    ASSUME NEW c, NEW m, Core(c, m), Calm(c), Mail(c), NEW t \in DOMAIN c.bound,
           t \notin DOMAIN c.results, NEW p \in Nat,
           NEW d, \A f \in CtxFields \ {"results"} : d[f] = c[f],
           DOMAIN d.results = DOMAIN c.results \cup {t},
           \A x \in DOMAIN d.results : d.results[x] = IF x = t THEN p ELSE c.results[x]
    PROVE  Calm(d) /\ Mail(d)
<1>1. DOMAIN c = CtxFields
  BY DEF Core
<1>2. \A x \in DOMAIN d.results : d.results[x] = IF x = t THEN p ELSE c.results[x]
  OBVIOUS
<1>3. /\ d.seen = c.seen /\ d.awaits = c.awaits /\ d.wait = c.wait /\ d.got = c.got
      /\ d.kinds = c.kinds /\ d.dropped = c.dropped /\ d.bound = c.bound
      /\ d.arrivals = c.arrivals /\ d.qarrivals = c.qarrivals
      /\ d.cancelled = c.cancelled /\ d.qcancelled = c.qcancelled
      /\ d.subs = c.subs /\ d.qsubs = c.qsubs
  BY <1>1 DEF CtxFields
<1>4. \A x \in DOMAIN d.results : d.results[x] \in Nat
  BY <1>2 DEF Mail
<1>5. Mail(d)
  BY <1>3, <1>4 DEF Mail, BoundIds
<1>6. Extends(c.results, d.results)
  BY <1>2 DEF Extends
<1>7. GrowsTo(c, d)
  BY <1>3, <1>6, SelfExtends DEF GrowsTo
<1>8. \A f \in {"seen", "awaits", "wait", "got", "kinds", "dropped"} : d[f] = c[f]
  BY <1>3
<1>9. Calm(d)
  BY <1>5, <1>7, <1>8, MoveCalm
<1> QED BY <1>5, <1>9

(* An external event arrives for a subscription. *)
LEMMA ArrivalCalm ==
    ASSUME NEW c, NEW m, Core(c, m), Calm(c), Mail(c), has_pending_subscription_slot(c),
           NEW p \in Nat, Later(c, p - 1), NEW d, d = [c EXCEPT !.arrivals = Append(@, p)]
    PROVE  Calm(d) /\ Mail(d) /\ \A f \in CtxFields \ {"arrivals"} : d[f] = c[f]
<1>1. DOMAIN c = CtxFields
  BY DEF Core
<1>2. d.arrivals = Append(c.arrivals, p)
  BY <1>1 DEF CtxFields
<1>3. /\ d.seen = c.seen /\ d.awaits = c.awaits /\ d.wait = c.wait /\ d.got = c.got
      /\ d.kinds = c.kinds /\ d.dropped = c.dropped /\ d.bound = c.bound /\ d.results = c.results
      /\ d.qarrivals = c.qarrivals
      /\ d.cancelled = c.cancelled /\ d.qcancelled = c.qcancelled
      /\ d.subs = c.subs /\ d.qsubs = c.qsubs
  BY <1>1 DEF CtxFields
<1>4. \A f \in CtxFields \ {"arrivals"} : d[f] = c[f]
  BY <1>1
<1> DEFINE a == Len(c.arrivals)
           b == Len(c.subs)
<1>5. Rising(c.subs) /\ Listed(c.subs) /\ Listed(c.arrivals) /\ c.cancelled = {}
  BY DEF Mail, Rising
<1>6. Without(c.subs, c.cancelled) = c.subs
  BY <1>5, WithoutNone
<1>7. /\ Listed(d.arrivals) /\ Extends(c.arrivals, d.arrivals) /\ a \in Nat
      /\ Len(d.arrivals) = a + 1 /\ DOMAIN c.arrivals = 1..a
      /\ DOMAIN d.arrivals = 1..(a + 1) /\ d.arrivals[a + 1] = p
      /\ \A i \in 1..a : d.arrivals[i] = c.arrivals[i]
  BY <1>2, <1>5, AppendIs
<1>8. a < b /\ b \in Nat /\ DOMAIN c.subs = 1..b
  <2>1. Len(c.subs) \in Nat /\ DOMAIN c.subs = 1..Len(c.subs)
    BY <1>5 DEF Listed
  <2>2. a < b
    BY <1>6, <1>7, <2>1 DEF has_pending_subscription_slot
  <2> QED BY <2>1, <2>2
<1>9. \A i \in 1..b : c.subs[i] < p
  <2> TAKE i \in 1..b
  <2>1. c.subs[i] \in Range(c.subs)
    BY <1>8 DEF Range
  <2>2. c.subs[i] \in BoundIds(c, "External")
    BY <2>1 DEF Mail
  <2>3. c.subs[i] \in 1..(p - 1)
    BY <2>2 DEF BoundIds, Later
  <2> QED BY <2>3
<1> HIDE DEF a, b
<1>10. \A i \in DOMAIN d.arrivals : d.arrivals[i] \in Nat /\ d.arrivals[i] > d.subs[i]
  <2> TAKE i \in DOMAIN d.arrivals
  <2>1. CASE i = a + 1
    <3>1. a + 1 \in 1..b
      BY <1>7, <1>8
    <3>2. c.subs[i] \in Nat /\ c.subs[i] < p
      BY <1>8, <1>9, <2>1, <3>1, <1>5 DEF Rising
    <3> QED BY <1>3, <1>7, <2>1, <3>2
  <2>2. CASE i \in 1..a
    BY <1>3, <1>7, <2>2 DEF Mail
  <2> QED BY <1>7, <2>1, <2>2
<1>11. Len(d.arrivals) <= Len(d.subs)
  <2>1. a + 1 <= b
    BY <1>7, <1>8
  <2> QED BY <1>3, <1>7, <2>1 DEF b
<1>12. Mail(d)
  BY <1>3, <1>7, <1>10, <1>11 DEF Mail, BoundIds
<1>13. GrowsTo(c, d)
  BY <1>3, <1>7, SelfExtends DEF GrowsTo
<1>14. \A f \in {"seen", "awaits", "wait", "got", "kinds", "dropped"} : d[f] = c[f]
  BY <1>3
<1> QED BY <1>4, <1>12, <1>13, <1>14, MoveCalm

(* A message of the queue arrives. *)
LEMMA QueueCalm ==
    ASSUME NEW c, NEW m, Core(c, m), Calm(c), Mail(c), NEW p \in Nat,
           \A y \in Range(c.qarrivals) : y < p,
           NEW d, d = [c EXCEPT !.qarrivals = Append(@, p)]
    PROVE  /\ Calm(d) /\ Mail(d) /\ \A f \in CtxFields \ {"qarrivals"} : d[f] = c[f]
           /\ Range(d.qarrivals) = Range(c.qarrivals) \cup {p}
<1>1. DOMAIN c = CtxFields
  BY DEF Core
<1>2. d.qarrivals = Append(c.qarrivals, p)
  BY <1>1 DEF CtxFields
<1>3. /\ d.seen = c.seen /\ d.awaits = c.awaits /\ d.wait = c.wait /\ d.got = c.got
      /\ d.kinds = c.kinds /\ d.dropped = c.dropped /\ d.bound = c.bound /\ d.results = c.results
      /\ d.arrivals = c.arrivals
      /\ d.cancelled = c.cancelled /\ d.qcancelled = c.qcancelled
      /\ d.subs = c.subs /\ d.qsubs = c.qsubs
  BY <1>1 DEF CtxFields
<1>4. \A f \in CtxFields \ {"qarrivals"} : d[f] = c[f]
  BY <1>1
<1>5. Rising(c.qarrivals) /\ Listed(c.qarrivals)
  BY DEF Mail, Rising
<1>6. Rising(Append(c.qarrivals, p))
  BY <1>5, RisingMore
<1>7. OneMore(c.qarrivals, p, d.qarrivals)
  BY <1>2, <1>5, AppendMore
<1>8. Mail(d)
  BY <1>2, <1>3, <1>6 DEF Mail, BoundIds
<1>9. Extends(c.qarrivals, d.qarrivals) /\ Range(d.qarrivals) = Range(c.qarrivals) \cup {p}
  BY <1>7 DEF OneMore
<1>10. GrowsTo(c, d)
  BY <1>3, <1>9, SelfExtends DEF GrowsTo
<1>11. \A f \in {"seen", "awaits", "wait", "got", "kinds", "dropped"} : d[f] = c[f]
  BY <1>3
<1> QED BY <1>4, <1>8, <1>9, <1>10, <1>11, MoveCalm

(* What the loop makes of a context when the event says nothing to it. *)
LEMMA IdsLater == ASSUME NEW c, NEW top, Ids(c, top) PROVE Later(c, top)
  BY DEF Ids, Later

(* The messages read before the next position. *)
LEMMA ReadMore ==
    ASSUME NEW c, NEW d, NEW p \in Nat \ {0}, NEW w, Read(c, p, w),
           Range(d.qarrivals) = IF w[p].kind = "QueueEvent" THEN Range(c.qarrivals) \cup {p}
                                ELSE Range(c.qarrivals)
    PROVE  Read(d, p + 1, w)
<1>1. \A x : x \in 1..((p + 1) - 1) <=> x \in 1..(p - 1) \/ x = p
  OBVIOUS
<1> QED BY <1>1 DEF Read

(* An event is applied. *)
LEMMA EventCalm ==
    ASSUME NEW m, NEW w, Good(m, w), EventsOk(w), Soft(w), CalmConf(m, w), ~m.must,
           ~m.ctx.output, m.pos <= Len(w), Fits(m, w[m.pos])
    PROVE  CalmConf(AfterEvent(m, w[m.pos]), w) /\ ~AfterEvent(m, w[m.pos]).ctx.output
<1> DEFINE e == w[m.pos]
           n == AfterEvent(m, e)
           c == m.ctx
           d == n.ctx
           p == m.pos
           b == Unmatched(m)
<1>1. /\ d = ContextAfter(m, e) /\ n.pos = p + 1
      /\ n.open = CASE e.kind = "Scheduled" -> m.open \cup {p}
                    [] e.kind = "Completed" -> m.open \ {e.src}
                    [] OTHER -> m.open
      /\ n.must = CASE e.kind = "Scheduled" -> e.what = "Queue"
                    [] e.kind = "ExternalEvent" -> has_pending_subscription_slot(m.ctx)
                    [] OTHER -> e.kind \in {"Completed", "QueueEvent"}
  BY DEF AfterEvent
<1>2. /\ Core(c, b) /\ Ids(c, p - 1) /\ p \in Nat \ {0} /\ DOMAIN c = CtxFields
      /\ Later(c, p - 1) /\ b \in Nat
      /\ p \in DOMAIN w
      /\ DOMAIN c.results \subseteq DOMAIN c.bound
  <2>1. Listed(w)
    BY DEF EventsOk
  <2>2. Len(w) \in Nat /\ DOMAIN w = 1..Len(w)
    BY <2>1 DEF Listed
  <2>3. Core(c, b) /\ Ids(c, p - 1) /\ p \in 1..(Len(w) + 1)
    BY DEF Good
  <2>4. p \in Nat \ {0} /\ p \in DOMAIN w
    BY <2>2, <2>3
  <2>5. c.kinds \in Acts /\ b \in 0..Len(c.kinds)
    BY <2>3 DEF Core
  <2>6. b \in Nat
    BY <2>5 DEF Acts
  <2> QED BY <2>3, <2>4, <2>6, IdsLater DEF Core
<1>3. /\ Calm(c) /\ Mail(c) /\ Read(c, p, w) /\ Full(c)
      /\ \A t \in DOMAIN c.results : c.bound[t] \notin m.open
  BY DEF CalmConf
<1>4. EventOk(w, p)
  BY <1>2 DEF EventsOk
<1> HIDE DEF n, d, c, b, p, e
<1>5. ASSUME \A f \in CtxFields : d[f] = c[f], n.open = m.open, e.kind # "QueueEvent"
      PROVE  CalmConf(n, w) /\ ~n.ctx.output
  <2>1. /\ d.results = c.results /\ d.bound = c.bound /\ d.qarrivals = c.qarrivals
        /\ d.output = c.output
    BY <1>5 DEF CtxFields
  <2>2. Calm(d) /\ Mail(d) /\ Full(d)
    BY <1>2, <1>3, <1>5, SameCalm
  <2>3. Read(d, p + 1, w)
    BY <1>2, <1>3, <1>5, <2>1, ReadMore DEF e, p
  <2> QED BY <1>1, <1>3, <1>5, <2>1, <2>2, <2>3 DEF CalmConf, d, c
<1>6. ASSUME e.kind = "Scheduled"
      PROVE  CalmConf(n, w) /\ ~n.ctx.output
  <2>1. /\ d = Bind(c, b + 1, p) /\ b < Len(c.kinds) /\ c.kinds[b + 1] = e.what
    BY <1>6, ScheduleGood DEF n, d, c, b, p, e
  <2>2. e.what # "ContinueAsNew"
    BY <1>4, <1>6 DEF EventOk, e, p
  <2>3. p - 1 \in Nat /\ p \in Nat /\ p - 1 < p
    BY <1>2
  <2>4. /\ Calm(d) /\ Mail(d) /\ d.qarrivals = c.qarrivals
        /\ c.kinds[b + 1] # "Queue" => Still(c, d) /\ (Full(c) => Full(d))
    <3> DEFINE q == p - 1
    <3> HIDE DEF q
    <3>1. q \in Nat /\ q < p /\ Later(c, q)
      BY <1>2, <2>3 DEF q
    <3> QED BY <1>2, <1>3, <2>1, <2>3, <3>1, BindCalm
  <2>5. /\ DOMAIN d.bound = DOMAIN c.bound \cup {b + 1}
        /\ \A s \in DOMAIN c.bound \cup {b + 1} : d.bound[s] = IF s = b + 1 THEN p ELSE c.bound[s]
        /\ d.results = c.results /\ d.output = c.output
    BY <1>2, <2>1, BindFacts DEF CtxFields
  <2>6. Read(d, p + 1, w)
    BY <1>2, <1>3, <1>6, <2>4, ReadMore DEF e, p
  <2>7. n.must = (e.what = "Queue") /\ n.open = m.open \cup {p}
    BY <1>1, <1>6
  <2>8. \A t \in DOMAIN d.results : d.bound[t] \notin n.open
    <3> TAKE t \in DOMAIN d.results
    <3>1. t \in DOMAIN c.results /\ t \in DOMAIN c.bound
      BY <1>2, <2>5
    <3>2. t # b + 1
      <4>1. DOMAIN c.bound \subseteq 1..b
        BY <1>2 DEF Core
      <4> QED BY <1>2, <3>1, <4>1
    <3>3. d.bound[t] = c.bound[t] /\ c.bound[t] \in 1..(p - 1)
      BY <1>2, <2>5, <3>1, <3>2 DEF Ids
    <3> QED BY <1>2, <1>3, <2>7, <3>1, <3>3
  <2>9. ~n.must => Full(d)
    BY <1>3, <2>1, <2>4, <2>7
  <2>10. ~d.output
    BY <2>5 DEF c
  <2> QED BY <1>1, <2>4, <2>6, <2>8, <2>9, <2>10 DEF CalmConf, d
<1>7. ASSUME e.kind \in {"Noted", "Started", "CancelRequested"}
      PROVE  CalmConf(n, w) /\ ~n.ctx.output
  <2>1. d = c
    BY <1>1, <1>7 DEF ContextAfter, c
  <2>2. n.open = m.open /\ e.kind # "QueueEvent"
    BY <1>1, <1>7
  <2> QED BY <1>5, <2>1, <2>2
<1>8. ASSUME e.kind = "Cancelled"
      PROVE  CalmConf(n, w) /\ ~n.ctx.output
  <2>1. e.what \notin Waited
    BY <1>2, <1>8 DEF Soft, e, p
  <2>2. d = [c EXCEPT !.cancelled = IF e.what = "External" THEN @ \cup {e.src} ELSE @,
                      !.qcancelled = IF e.what = "Queue" THEN @ \cup {e.src} ELSE @]
    BY <1>1, <1>8 DEF ContextAfter, c
  <2>3. \A f \in CtxFields : d[f] = c[f]
    BY <1>2, <2>1, <2>2 DEF CtxFields, Waited
  <2>4. n.open = m.open /\ e.kind # "QueueEvent"
    BY <1>1, <1>8
  <2> QED BY <1>5, <2>3, <2>4
<1>9. ASSUME e.kind = "Completed"
      PROVE  CalmConf(n, w) /\ ~n.ctx.output
  <2> DEFINE t == Delivered_to(c, e.src)
  <2>1. e.src \in m.open
    BY <1>9 DEF Fits, e
  <2>2. \E s \in DOMAIN c.bound : c.bound[s] = e.src
    BY <2>1 DEF Good, c
  <2>3. t \in DOMAIN c.bound /\ c.bound[t] = e.src
    BY <2>2 DEF Delivered_to
  <2>4. d = [c EXCEPT !.results = [x \in DOMAIN @ \cup {t} |-> IF x = t THEN p ELSE @[x]]]
    BY <1>1, <1>9 DEF ContextAfter, c, p
  <2> HIDE DEF t
  <2>5. t \notin DOMAIN c.results
    BY <1>3, <2>1, <2>3
  <2>6. /\ \A f \in CtxFields \ {"results"} : d[f] = c[f]
        /\ DOMAIN d.results = DOMAIN c.results \cup {t}
        /\ \A x \in DOMAIN d.results : d.results[x] = IF x = t THEN p ELSE c.results[x]
    BY <1>2, <2>4 DEF CtxFields
  <2>12. Calm(d) /\ Mail(d)
    <3>1. p \in Nat
      BY <1>2
    <3> QED BY <1>2, <1>3, <2>3, <2>5, <2>6, <3>1, ResultCalm
  <2>7. d.bound = c.bound /\ d.qarrivals = c.qarrivals /\ d.output = c.output
    BY <2>6 DEF CtxFields
  <2>8. n.must /\ n.open = m.open \ {e.src}
    BY <1>1, <1>9
  <2>9. Read(d, p + 1, w)
    BY <1>2, <1>3, <1>9, <2>7, ReadMore DEF e, p
  <2>10. \A x \in DOMAIN d.results : d.bound[x] \notin n.open
    BY <1>3, <2>3, <2>6, <2>7, <2>8
  <2>11. ~d.output
    BY <2>7 DEF c
  <2> QED BY <1>1, <2>8, <2>9, <2>10, <2>11, <2>12 DEF CalmConf, d
<1>10. ASSUME e.kind = "ExternalEvent"
      PROVE  CalmConf(n, w) /\ ~n.ctx.output
  <2>1. d = [c EXCEPT !.arrivals = IF has_pending_subscription_slot(c) THEN Append(@, p) ELSE @]
    BY <1>1, <1>10 DEF ContextAfter, c, p
  <2>2. CASE has_pending_subscription_slot(c)
    <3>1. d = [c EXCEPT !.arrivals = Append(@, p)]
      BY <2>1, <2>2
    <3>2. Calm(d) /\ Mail(d) /\ \A f \in CtxFields \ {"arrivals"} : d[f] = c[f]
      BY <1>2, <1>3, <2>2, <3>1, ArrivalCalm
    <3>3. d.bound = c.bound /\ d.qarrivals = c.qarrivals /\ d.output = c.output /\ d.results = c.results
      BY <3>2 DEF CtxFields
    <3>4. n.must /\ n.open = m.open
      BY <1>1, <1>10, <2>2 DEF c
    <3>5. Read(d, p + 1, w)
      BY <1>2, <1>3, <1>10, <3>3, ReadMore DEF e, p
    <3>6. \A x \in DOMAIN d.results : d.bound[x] \notin n.open
      BY <1>3, <3>3, <3>4
    <3>7. ~d.output
      BY <3>3 DEF c
    <3> QED BY <1>1, <3>2, <3>4, <3>5, <3>6, <3>7 DEF CalmConf, d
  <2>3. CASE ~has_pending_subscription_slot(c)
    <3>1. d = [c EXCEPT !.arrivals = @]
      BY <2>1, <2>3
    <3>2. \A f \in CtxFields : d[f] = c[f]
      BY <1>2, <3>1 DEF CtxFields
    <3>3. n.open = m.open /\ e.kind # "QueueEvent"
      BY <1>1, <1>10
    <3> QED BY <1>5, <3>2, <3>3
  <2> QED BY <2>2, <2>3
<1>11. ASSUME e.kind = "QueueEvent"
      PROVE  CalmConf(n, w) /\ ~n.ctx.output
  <2>1. d = [c EXCEPT !.qarrivals = Append(@, p)]
    BY <1>1, <1>11 DEF ContextAfter, c, p
  <2>2. \A y \in Range(c.qarrivals) : y < p
    BY <1>2, <1>3 DEF Read
  <2>3. /\ Calm(d) /\ Mail(d) /\ \A f \in CtxFields \ {"qarrivals"} : d[f] = c[f]
        /\ Range(d.qarrivals) = Range(c.qarrivals) \cup {p}
    BY <1>2, <1>3, <2>1, <2>2, QueueCalm
  <2>4. d.bound = c.bound /\ d.output = c.output /\ d.results = c.results
    BY <2>3 DEF CtxFields
  <2>5. n.must /\ n.open = m.open
    BY <1>1, <1>11
  <2>6. Read(d, p + 1, w)
    BY <1>2, <1>3, <1>11, <2>3, ReadMore DEF e, p
  <2>7. \A x \in DOMAIN d.results : d.bound[x] \notin n.open
    BY <1>3, <2>4, <2>5
  <2>8. ~d.output
    BY <2>4 DEF c
  <2> QED BY <1>1, <2>3, <2>5, <2>6, <2>7, <2>8 DEF CalmConf, d
<1>12. CalmConf(n, w) /\ ~n.ctx.output
  <2>1. e.kind \in EventKinds
    BY <1>4 DEF EventOk, e, p
  <2> QED BY <1>6, <1>7, <1>8, <1>9, <1>10, <1>11, <2>1 DEF EventKinds
<1> QED BY <1>12 DEF n, e

(* The code is polled. *)
LEMMA PollCalm ==
    ASSUME NEW m, NEW w, Good(m, w), CalmConf(m, w), m.must,
           NEW k, CodeOk(k), CalmCode(k), Goes(m, k, w)
    PROVE  CalmConf(AfterPoll(m, k), w)
<1> DEFINE c == m.ctx
           d == poll(c, k).ctx
           n == AfterPoll(m, k)
           b == Unmatched(m)
<1>1. n.ctx = d /\ n.open = m.open /\ n.pos = m.pos
  BY DEF AfterPoll
<1>2. Core(c, b) /\ (Ready(c) => Seen(c) \in DOMAIN k) /\ Calm(c) /\ Mail(c)
  BY DEF Good, Goes, CalmConf
<1>3. \/ /\ Ready(c) /\ RoundOk(k[Seen(c)])
         /\ Entered(c, d, k[Seen(c)])
      \/ ~Ready(c) /\ Polled(c, d)
  BY <1>2, PollCases
<1> HIDE DEF d, n, c, b
<1>4. ASSUME Ready(c), RoundOk(k[Seen(c)]), Entered(c, d, k[Seen(c)])
      PROVE  CalmConf(n, w)
  <2> DEFINE r == k[Seen(c)]
  <2>1. CalmRound(r) /\ RoundOk(r) /\ Entered(c, d, r)
    BY <1>2, <1>4 DEF CalmCode
  <2> HIDE DEF r
  <2>2. Calm(d) /\ Mail(d) /\ (r.acts # <<>> => Full(d))
    BY <1>2, <1>4, <2>1, EnteredCalm
  <2>3. d.output = (r.acts = <<>>) /\ d.qarrivals = c.qarrivals /\ d.bound = c.bound
        /\ d.results = c.results
    BY <2>1 DEF Entered
  <2> QED BY <1>1, <2>2, <2>3 DEF CalmConf, Read, c
<1>5. ASSUME ~Ready(c), Polled(c, d)
      PROVE  CalmConf(n, w)
  <2>1. Calm(d) /\ Mail(d) /\ Full(d)
    BY <1>2, <1>5, PolledCalm
  <2>2. d.qarrivals = c.qarrivals /\ d.bound = c.bound /\ d.results = c.results
    BY <1>2, <1>5 DEF Polled, Core, CtxFields
  <2> QED BY <1>1, <2>1, <2>2 DEF CalmConf, Read, c
<1> QED BY <1>3, <1>4, <1>5 DEF n

(* What conversion makes of a calm context. *)
CalmlyOk(c, new) ==
  /\ Calm(new.ctx) /\ Mail(new.ctx) /\ new.ctx.qarrivals = c.qarrivals
  /\ Later(new.ctx, Len(history) + Len(new.delta))

(* One action more. *)
LEMMA ConvertCalmStep ==
    ASSUME NEW c, NEW d, NEW m \in Nat, NEW f, Emitted(c, m, f), Len(history) \in Nat,
           Listed(d), c.kinds \in Acts,
           NEW n \in Nat, n < Len(f), NEW old, ConvertedOk(c, d, m, f, n, old), CalmlyOk(c, old)
    PROVE  CalmlyOk(c, Converted(old, f[n + 1]))
<1> DEFINE a == f[n + 1]
           top == Len(history) + Len(old.delta)
           id == top + 1
           b == m + n
           o == old.ctx
           u == Converted(old, a).ctx
           v == Converted(old, a).delta
<1>1. a.token = b + 1 /\ a.kind = c.kinds[b + 1] /\ b < Len(c.kinds) /\ b \in Nat
  <2>1. n + 1 \in DOMAIN f /\ m + (n + 1) = b + 1 /\ Len(f) \in Nat /\ m + Len(f) = Len(c.kinds)
    BY DEF Emitted, Listed
  <2> QED BY <2>1 DEF Emitted
<1>2. /\ Core(o, b) /\ o.kinds = c.kinds /\ Listed(old.delta) /\ Len(old.delta) \in Nat
      /\ Calm(o) /\ Mail(o) /\ Later(o, top) /\ o.qarrivals = c.qarrivals
  BY DEF ConvertedOk, CalmlyOk, Listed
<1>3. /\ u = Bind(o, b + 1, id)
      /\ v = IF a.kind = "ContinueAsNew" THEN old.delta ELSE Append(old.delta, action_to_event(a))
  BY <1>1 DEF Converted
<1>4. top \in Nat /\ id \in Nat /\ top < id
  BY <1>2
<1>5. Len(history) + Len(v) = IF c.kinds[b + 1] = "ContinueAsNew" THEN top ELSE id
  <2> DEFINE e == action_to_event(a)
             s == old.delta
  <2> HIDE DEF e
  <2>1. CASE a.kind = "ContinueAsNew"
    BY <1>1, <1>3, <2>1
  <2>2. CASE a.kind # "ContinueAsNew"
    <3>1. v = Append(s, e) /\ Listed(s)
      BY <1>2, <1>3, <2>2 DEF e, s
    <3> HIDE DEF v, s
    <3>2. OneMore(s, e, v)
      BY <3>1, AppendMore
    <3>3. Len(v) = Len(s) + 1
      BY <3>2 DEF OneMore
    <3> QED BY <1>1, <1>2, <2>2, <3>3 DEF s
  <2> QED BY <2>1, <2>2
<1> HIDE DEF u, v, o, b, top, id, a
<1>6. /\ Calm(u) /\ Mail(u) /\ u.qarrivals = o.qarrivals
      /\ Later(u, IF o.kinds[b + 1] = "ContinueAsNew" THEN top ELSE id)
  BY <1>1, <1>2, <1>3, <1>4, BindCalm
<1> QED BY <1>2, <1>5, <1>6 DEF CalmlyOk, u, v, a

(* What the code did is converted. *)
LEMMA ConvertCalm ==
    ASSUME NEW c, NEW d, NEW m \in Nat, NEW f, Core(c, m), Emitted(c, m, f), Len(history) \in Nat,
           Listed(d), Calm(c), Mail(c), Later(c, Len(history) + Len(d))
    PROVE  /\ CalmlyOk(c, convert_emitted_actions(c, d, f))
           /\ f = <<>> => convert_emitted_actions(c, d, f) = [ctx |-> c, delta |-> d]
<1> DEFINE L == Len(f)
<1>1. L \in Nat /\ L \in 0..L /\ m + L = Len(c.kinds)
  BY DEF Emitted, Listed
<1>2. PICK g : ConvertRun(g, c, d, f) /\ g[L] = convert_emitted_actions(c, d, f)
  BY <1>1, ConvertRuns
<1> DEFINE T == {n \in 0..L : ConvertedOk(c, d, m, f, n, g[n]) /\ CalmlyOk(c, g[n])}
<1>0. g[0] = [ctx |-> c, delta |-> d]
  BY <1>2 DEF ConvertRun
<1>3. 0 \in T
  <2>2. Grown(c, c) /\ m + 0 = m /\ Len(d) \in Nat /\ c.kinds = c.kinds
    BY DEF Grown, Listed
  <2> DEFINE o == g[0]
  <2>3. o.ctx = c /\ o.delta = d
    BY <1>0
  <2> HIDE DEF o
  <2>4. ConvertedOk(c, d, m, f, 0, o)
    BY <2>2, <2>3 DEF ConvertedOk
  <2>5. CalmlyOk(c, o)
    BY <2>3 DEF CalmlyOk
  <2> QED BY <1>1, <2>4, <2>5 DEF o
<1>4. ASSUME NEW n \in 0..(L - 1), n \in T PROVE n + 1 \in T
  <2>1. g[n + 1] = Converted(g[n], f[n + 1])
    <3>1. n + 1 \in 1..L /\ (n + 1) - 1 = n
      BY <1>1
    <3> QED BY <1>2, <3>1 DEF ConvertRun
  <2>2. n \in Nat /\ n < L /\ n + 1 \in 0..L
    BY <1>1
  <2>3. ConvertedOk(c, d, m, f, n, g[n]) /\ CalmlyOk(c, g[n])
    BY <1>4
  <2>4. c.kinds \in Acts
    BY DEF Core
  <2> DEFINE o == g[n]
  <2>5. ConvertedOk(c, d, m, f, n, o) /\ CalmlyOk(c, o)
    BY <2>3
  <2> HIDE DEF o
  <2>6. ConvertedOk(c, d, m, f, n + 1, Converted(o, f[n + 1]))
    BY <2>2, <2>4, <2>5, ConvertStep
  <2>7. CalmlyOk(c, Converted(o, f[n + 1]))
    BY <2>2, <2>4, <2>5, ConvertCalmStep
  <2> QED BY <2>1, <2>2, <2>6, <2>7 DEF o
<1> HIDE DEF T
<1>5. \A n \in 0..L : n \in T
  <2> HIDE DEF L
  <2> QED BY <1>1, <1>3, <1>4, CountUp
<1>6. CalmlyOk(c, g[L])
  BY <1>1, <1>5 DEF T
<1>7. f = <<>> => L = 0
  OBVIOUS
<1> QED BY <1>0, <1>2, <1>6, <1>7

(* The oldest messages are taken first, each once. *)
LEMMA CalmFifo ==
    ASSUME NEW c, NEW m, Core(c, m), Calm(c), Mail(c), NEW top, Later(c, top),
           NEW taken, taken = {p \in Takes(c) : c.kinds[p[1]] = "Queue"}
    PROVE  /\ \A p, q \in taken : p[1] < q[1] => p[2] < q[2]
           /\ \A x \in Range(c.qarrivals) : (\E q \in taken : x < q[2]) => \E p \in taken : p[2] = x
<1> DEFINE At(t, i) == i \in DOMAIN c.qsubs /\ i \in DOMAIN c.qarrivals /\ c.qsubs[i] = c.bound[t]
<1>1. /\ Rising(c.qsubs) /\ Rising(c.qarrivals) /\ Range(c.qsubs) = BoundIds(c, "Queue")
      /\ Len(c.qsubs) \in Nat /\ DOMAIN c.qsubs = 1..Len(c.qsubs)
      /\ Len(c.qarrivals) \in Nat /\ DOMAIN c.qarrivals = 1..Len(c.qarrivals)
  BY DEF Mail, Rising, Listed
<1>2. \A t \in DOMAIN c.kinds : t \in Nat
  <2>1. c.kinds \in Acts
    BY DEF Core
  <2> QED BY <2>1 DEF Acts
<1>3. ASSUME NEW p \in taken
      PROVE  /\ p[1] \in DOMAIN c.kinds /\ p[1] \in DOMAIN c.bound /\ p[1] \notin Range(c.awaits)
             /\ c.kinds[p[1]] = "Queue" /\ p[2] = Resolve(c, p[1])
             /\ \E i : At(p[1], i) /\ p[2] = c.qarrivals[i]
  <2> DEFINE t == p[1]
  <2>1. p \in Takes(c) /\ c.kinds[t] = "Queue" /\ "Queue" \in Waited
    BY DEF Waited
  <2>2. t \in DOMAIN c.kinds /\ t \in DOMAIN c.bound /\ t \notin Range(c.awaits)
        /\ p[2] = Resolve(c, t) /\ p[2] # None
    BY <2>1 DEF Calm
  <2> HIDE DEF t
  <2>3. PICK i \in DOMAIN c.qsubs :
          /\ c.qsubs[i] = c.bound[t]
          /\ Resolve(c, t) = IF i \in DOMAIN c.qarrivals THEN c.qarrivals[i] ELSE None
    BY <2>1, <2>2, ResolveMail
  <2> QED BY <2>1, <2>2, <2>3 DEF t
<1>4. ASSUME NEW s \in DOMAIN c.bound, NEW t \in DOMAIN c.bound, c.kinds[s] = "Queue", c.kinds[t] = "Queue"
      PROVE  s < t => c.bound[s] < c.bound[t]
  BY <1>4 DEF Later
<1>5. ASSUME NEW p \in taken, NEW q \in taken, p[1] < q[1] PROVE p[2] < q[2]
  <2>1. PICK i : At(p[1], i) /\ p[2] = c.qarrivals[i]
    BY <1>3
  <2>2. PICK j : At(q[1], j) /\ q[2] = c.qarrivals[j]
    BY <1>3
  <2>3. c.qsubs[i] < c.qsubs[j]
    BY <1>3, <1>4, <1>5, <2>1, <2>2
  <2>4. i < j
    BY <1>1, <2>1, <2>2, <2>3 DEF Rising
  <2> QED BY <1>1, <2>1, <2>2, <2>4 DEF Rising
<1>6. ASSUME NEW x \in Range(c.qarrivals), NEW q \in taken, x < q[2]
      PROVE  \E p \in taken : p[2] = x
  <2>1. PICK i \in DOMAIN c.qarrivals : x = c.qarrivals[i]
    BY DEF Range
  <2>2. PICK j : At(q[1], j) /\ q[2] = c.qarrivals[j]
    BY <1>3
  <2>3. i < j /\ i \in DOMAIN c.qsubs
    BY <1>1, <1>6, <2>1, <2>2 DEF Rising
  <2>4. c.qsubs[i] \in BoundIds(c, "Queue") /\ c.qsubs[i] < c.qsubs[j]
    BY <1>1, <2>2, <2>3 DEF Rising, Range
  <2>5. PICK t \in DOMAIN c.bound : c.kinds[t] = "Queue" /\ c.bound[t] = c.qsubs[i]
    BY <2>4 DEF BoundIds
  <2>6. DOMAIN c.bound \subseteq DOMAIN c.kinds
    <3>1. c.kinds \in Acts /\ m \in 0..Len(c.kinds) /\ DOMAIN c.bound \subseteq 1..m
      BY DEF Core
    <3>2. Len(c.kinds) \in Nat /\ DOMAIN c.kinds = 1..Len(c.kinds)
      BY <3>1 DEF Acts
    <3> QED BY <3>1, <3>2
  <2>7. t < q[1]
    <3>1. q[1] \in Nat /\ t \in Nat /\ c.bound[q[1]] = c.qsubs[j] /\ q[1] \in DOMAIN c.bound
          /\ c.kinds[q[1]] = "Queue"
      BY <1>2, <1>3, <2>2, <2>5, <2>6
    <3>2. c.qsubs[i] \in Nat /\ c.qsubs[j] \in Nat
      BY <1>1, <2>2, <2>3 DEF Rising
    <3> QED BY <1>4, <2>4, <2>5, <3>1, <3>2
  <2>8. q[1] \in Asked(c)
    BY <1>3 DEF Asked, Awaited
  <2>9. t \notin Range(c.awaits)
    BY <1>3, <2>7, <2>8 DEF Core
  <2>10. PICK p \in Takes(c) : p[1] = t
    BY <2>5, <2>6, <2>9 DEF Calm, Waited
  <2>11. p \in taken
    BY <2>5, <2>10
  <2>12. PICK k : At(t, k) /\ p[2] = c.qarrivals[k]
    BY <1>3, <2>10, <2>11
  <2>13. k = i
    BY <1>1, <2>3, <2>5, <2>12, RisingApart
  <2> QED BY <2>1, <2>11, <2>12, <2>13
<1> QED BY <1>5, <1>6

(* Nothing that comes from outside is raced. *)
Unraced == \A r \in scenario.rounds : CalmRound(r)

(* In such a scenario, futures give what the context has for them, and a   *)
(* turn ends when the code can do nothing more.                            *)
CalmInv ==
  /\ CalmCode(code) /\ Soft(history)
  /\ Calm(ctx) /\ Mail(ctx)
  /\ eng.phase = "replay" => CalmConf(Conf, Working)
  /\ eng.phase \in {"quiesce", "finalize"} =>
       /\ eng.pos \in 1..(Len(Working) + 1)
       /\ Read(ctx, eng.pos, Working) /\ Later(ctx, Len(Working))
  /\ eng.phase = "finalize" \/ (eng.phase = "quiesce" /\ eng.pending = <<>>) =>
       ctx.output \/ Full(ctx)

(* A new context has nothing. *)
LEMMA NewCalm == /\ Calm(NewContext) /\ Mail(NewContext) /\ \A w : CalmConf(Started, w)
<1> DEFINE c == NewContext
<1>1. /\ c.seen = <<>> /\ c.awaits = <<>> /\ c.wait = "all" /\ c.kinds = <<>> /\ c.bound = <<>>
      /\ c.results = <<>> /\ c.subs = <<>> /\ c.arrivals = <<>> /\ c.cancelled = {}
      /\ c.qsubs = <<>> /\ c.qarrivals = <<>> /\ c.qcancelled = {} /\ c.dropped = {}
  BY DEF NewContext
<1>2. Listed(<<>>) /\ Len(<<>>) = 0 /\ DOMAIN <<>> = {} /\ Range(<<>>) = {}
  BY NoRow DEF Range
<1> HIDE DEF c
<1>3. Rising(<<>>) /\ \A kind : BoundIds(c, kind) = {}
  BY <1>1, <1>2 DEF Rising, BoundIds
<1>4. Mail(c)
  <2> DEFINE e == <<>>
  <2>1. /\ Listed(e) /\ Len(e) = 0 /\ DOMAIN e = {} /\ Range(e) = {} /\ Rising(e)
        /\ c.results = e /\ c.subs = e /\ c.arrivals = e /\ c.qsubs = e /\ c.qarrivals = e
    BY <1>1, <1>2, <1>3
  <2> HIDE DEF e
  <2>2. Len(c.arrivals) <= Len(c.subs) /\ DOMAIN c.arrivals = {} /\ DOMAIN c.results = {}
    BY <2>1
  <2> QED BY <1>1, <1>3, <2>1, <2>2 DEF Mail
<1>5. Takes(c) = {}
  BY <1>1, <1>2 DEF Takes
<1>6. Calm(c)
  BY <1>1, <1>2, <1>5 DEF Calm
<1>7. ASSUME NEW w PROVE CalmConf(Started, w)
  <2>1. Started.ctx = c /\ Started.must /\ Started.pos = 1
    BY DEF Started, c
  <2>2. 1..(1 - 1) = {}
    OBVIOUS
  <2>3. Read(c, 1, w)
    BY <1>1, <1>2, <2>2 DEF Read
  <2> QED BY <1>1, <1>2, <1>4, <1>6, <2>1, <2>3 DEF CalmConf
<1> QED BY <1>4, <1>6, <1>7 DEF c

(* The beginning. *)
LEMMA CalmInit == ASSUME Init PROVE CalmInv
<1>1. code = <<>> /\ history = <<>> /\ ctx = NewContext /\ eng = Engine("idle")
  BY DEF Init
<1>2. eng.phase = "idle" /\ DOMAIN <<>> = {}
  BY <1>1, NoRow DEF Engine
<1> QED BY <1>1, <1>2, NewCalm DEF CalmInv, CalmCode, Soft

(* The code of such a scenario. *)
LEMMA CodesCalm ==
    ASSUME Unraced, CalmCode(code), NEW c, NEW k \in Codes(c)
    PROVE  CalmCode(k)
<1>1. CASE ~Ready(c) \/ Seen(c) \in DOMAIN code
  BY <1>1 DEF Codes
<1>2. CASE ~(~Ready(c) \/ Seen(c) \in DOMAIN code)
  <2>1. PICK r \in scenario.rounds \cup {Return} :
          k = [x \in DOMAIN code \cup {Seen(c)} |-> IF x = Seen(c) THEN r ELSE code[x]]
    BY <1>2 DEF Codes
  <2>2. CalmRound(r)
    BY <2>1 DEF Unraced, CalmRound, Return
  <2> QED BY <2>1, <2>2 DEF CalmCode
<1> QED BY <1>1, <1>2

(* No event of a turn is a record of a drop. *)
LEMMA SoftWorking == ASSUME StoredOk, Soft(history) PROVE Soft(Working)
<1>1. /\ Listed(history) /\ Listed(delta) /\ \A x \in DOMAIN delta : delta[x].kind # "Cancelled"
  BY DEF StoredOk
<1> DEFINE h == Len(history)
           l == Len(delta)
           w == history \o delta
<1>2. /\ DOMAIN w = 1..(h + l) /\ h \in Nat /\ l \in Nat
      /\ \A k \in 1..h : w[k] = history[k]
      /\ \A k \in (h + 1)..(h + l) : w[k] = delta[k - h]
  BY <1>1, ConcatList DEF Listed
<1>3. DOMAIN history = 1..h /\ DOMAIN delta = 1..l
  BY <1>1 DEF Listed
<1> HIDE DEF w, h, l
<1>4. ASSUME NEW x \in DOMAIN w, w[x].kind = "Cancelled" PROVE w[x].what \notin Waited
  <2>1. CASE x \in 1..h
    BY <1>2, <1>3, <1>4, <2>1 DEF Soft
  <2>2. CASE x \in (h + 1)..(h + l)
    <3>1. x - h \in DOMAIN delta /\ w[x] = delta[x - h]
      BY <1>2, <1>3, <2>2
    <3> QED BY <1>1, <1>4, <3>1
  <2> QED BY <1>2, <2>1, <2>2
<1> QED BY <1>4 DEF Soft, Working, w

(* A turn begins. *)
LEMMA CalmBeginTurn == ASSUME Inv, CalmInv, BeginTurn PROVE CalmInv'
<1>1. /\ eng.phase = "idle" /\ ctx' = NewContext /\ eng' = Engine("replay")
      /\ UNCHANGED <<scenario, code, history, last>>
  BY DEF BeginTurn
<1>2. eng'.phase = "replay" /\ Conf' = Started
  BY <1>1 DEF Engine, Conf, Started
<1> DEFINE w == Working'
<1>3. CalmConf(Started, w)
  <2> HIDE DEF w
  <2> QED BY NewCalm
<1>4. CalmConf(Conf', Working')
  BY <1>2, <1>3
<1> QED BY <1>1, <1>2, <1>4, NewCalm DEF CalmInv

(* The code is polled. *)
LEMMA CalmPoll == ASSUME Inv, Unraced, CalmInv, Poll PROVE CalmInv'
<1>1. /\ eng.phase = "replay" /\ Conf.must /\ Goes(Conf, code', Working)
      /\ Conf' = AfterPoll(Conf, code') /\ CodeOk(code')
      /\ eng'.phase = "replay" /\ UNCHANGED <<scenario, history, delta, last>>
  BY PollIs
<1>2. CalmCode(code')
  <2>1. code' \in Codes(ctx)
    BY DEF Poll
  <2> QED BY <2>1, CodesCalm DEF CalmInv
<1>3. Good(Conf, Working) /\ CalmConf(Conf, Working)
  BY <1>1 DEF Inv, ReplayOk, CalmInv
<1> DEFINE k == code'
           n == Conf'
           m == Conf
           w == Working
<1>4. Conf'.ctx = ctx' /\ Working' = Working
  BY <1>1 DEF Conf, Working
<1>5. /\ Good(m, w) /\ CalmConf(m, w) /\ m.must /\ CodeOk(k) /\ CalmCode(k) /\ Goes(m, k, w)
      /\ n = AfterPoll(m, k) /\ n.ctx = ctx' /\ Working' = w
  BY <1>1, <1>2, <1>3, <1>4
<1> HIDE DEF k, m, w, n
<1>6. CalmConf(AfterPoll(m, k), w)
  BY <1>5, PollCalm
<1>7. CalmConf(n, w)
  BY <1>5, <1>6
<1>8. Calm(n.ctx) /\ Mail(n.ctx)
  BY <1>7 DEF CalmConf
<1>9. CalmConf(n, Working')
  BY <1>5, <1>7
<1>10. Calm(ctx') /\ Mail(ctx')
  BY <1>5, <1>8
<1> QED BY <1>1, <1>2, <1>9, <1>10 DEF CalmInv, n

(* An execution that fails leaves the context as it is. *)
LEMMA FailKeeps == ASSUME Inv, Applies, eng'.phase = "nondeterminism" PROVE ctx' = ctx
<1>1. DOMAIN eng = EngFields /\ eng.phase = "replay"
  BY AppliesIs DEF Inv, StoredOk
<1>2. ASSUME NEW must, NEW fifo, NEW open, Applied(must, fifo, open) PROVE FALSE
  BY <1>1, <1>2 DEF Applied, EngFields
<1>3. CASE ApplySchedule
  BY <1>2, <1>3 DEF ApplySchedule, Fail
<1>4. CASE ApplyNote
  BY <1>2, <1>4 DEF ApplyNote, Fail
<1>5. CASE ApplyCompletion
  BY <1>2, <1>5 DEF ApplyCompletion, Fail
<1>6. CASE ApplyExternalEvent
  BY <1>2, <1>6 DEF ApplyExternalEvent
<1>7. CASE ApplyQueueEvent
  BY <1>2, <1>7 DEF ApplyQueueEvent
<1>8. CASE ApplyCancelled
  BY <1>2, <1>8 DEF ApplyCancelled
<1>9. CASE ApplyOther
  BY <1>2, <1>9 DEF ApplyOther
<1> QED BY <1>3, <1>4, <1>5, <1>6, <1>7, <1>8, <1>9 DEF Applies

(* An event is applied. *)
LEMMA CalmApplies == ASSUME Inv, CalmInv, Applies PROVE CalmInv'
<1>1. /\ eng.phase = "replay" /\ ~Conf.must /\ Conf.pos <= Len(Working) /\ ~ctx.output
      /\ UNCHANGED <<scenario, code, history, delta, last>>
      /\ \/ eng'.phase = "nondeterminism" /\ ~Fits(Conf, Working[Conf.pos])
         \/ /\ eng'.phase = "replay" /\ Fits(Conf, Working[Conf.pos])
            /\ Conf' = AfterEvent(Conf, Working[Conf.pos])
  BY AppliesIs
<1>2. CASE eng'.phase = "nondeterminism"
  BY <1>1, <1>2, FailKeeps DEF CalmInv
<1>3. CASE eng'.phase = "replay"
  <2>1. Good(Conf, Working) /\ CalmConf(Conf, Working) /\ StoredOk /\ EventsOk(Working)
    BY <1>1 DEF Inv, ReplayOk, StoredOk, CalmInv
  <2>2. Soft(Working)
    BY <2>1, SoftWorking DEF CalmInv
  <2> DEFINE n == Conf'
             m == Conf
             w == Working
  <2>3. Conf'.ctx = ctx' /\ Working' = Working /\ Conf.ctx = ctx
    BY <1>1 DEF Conf, Working
  <2>4. /\ Good(m, w) /\ CalmConf(m, w) /\ EventsOk(w) /\ Soft(w) /\ ~m.must /\ ~m.ctx.output
        /\ m.pos <= Len(w) /\ Fits(m, w[m.pos]) /\ n = AfterEvent(m, w[m.pos])
        /\ n.ctx = ctx' /\ Working' = w
    BY <1>1, <1>3, <2>1, <2>2, <2>3
  <2> HIDE DEF m, w, n
  <2>5. CalmConf(AfterEvent(m, w[m.pos]), w)
    BY <2>4, EventCalm
  <2>6. CalmConf(n, w)
    BY <2>4, <2>5
  <2>7. Calm(n.ctx) /\ Mail(n.ctx)
    BY <2>6 DEF CalmConf
  <2>8. CalmConf(n, Working') /\ Calm(ctx') /\ Mail(ctx')
    BY <2>4, <2>6, <2>7
  <2> QED BY <1>1, <1>3, <2>8 DEF CalmInv, n
<1> QED BY <1>1, <1>2, <1>3

(* What the code did is converted, and nothing of the messages changes. *)
LEMMA CalmConverted ==
    ASSUME StoredOk, UNCHANGED history, NEW c, NEW m \in Nat, NEW f, Core(c, m), Emitted(c, m, f),
           Calm(c), Mail(c), Later(c, Len(Working)),
           NEW p, p \in 1..(Len(Working) + 1), Read(c, p, Working),
           ctx' = convert_emitted_actions(c, delta, f).ctx,
           delta' = convert_emitted_actions(c, delta, f).delta
    PROVE  /\ Calm(ctx') /\ Mail(ctx') /\ Later(ctx', Len(Working'))
           /\ p \in 1..(Len(Working') + 1) /\ Read(ctx', p, Working')
           /\ f = <<>> => ctx' = c
<1> DEFINE new == convert_emitted_actions(c, delta, f)
           h == Len(history)
           l == Len(delta)
           e == new.delta
           w == Working
           v == Working'
<1>1. /\ Listed(history) /\ Listed(delta) /\ h \in Nat /\ l \in Nat
  BY DEF StoredOk, Listed
<1>2. /\ Listed(w) /\ Len(w) = h + l /\ DOMAIN w = 1..(h + l)
      /\ \A k \in 1..h : w[k] = history[k]
      /\ \A k \in (h + 1)..(h + l) : w[k] = delta[k - h]
  BY <1>1, ConcatList DEF Working
<1>3. Later(c, Len(history) + Len(delta))
  BY <1>2
<1>4. /\ CalmlyOk(c, new)
      /\ f = <<>> => new = [ctx |-> c, delta |-> delta]
  BY <1>1, <1>3, ConvertCalm
<1>5. ConvertedOk(c, delta, m, f, Len(f), new)
  BY <1>1, ConvertFacts
<1>6. ctx' = new.ctx /\ delta' = e /\ v = history \o e
  BY DEF Working
<1> HIDE DEF new
<1>7. Listed(e) /\ l <= Len(e) /\ \A x \in 1..l : e[x] = delta[x]
  BY <1>5 DEF ConvertedOk
<1> HIDE DEF e
<1>8. Len(e) \in Nat
  BY <1>7 DEF Listed
<1>9. /\ Len(v) = h + Len(e)
      /\ \A k \in 1..h : v[k] = history[k]
      /\ \A k \in (h + 1)..(h + Len(e)) : v[k] = e[k - h]
  BY <1>1, <1>6, <1>7, ConcatList
<1> HIDE DEF w, v, h, l
<1>10. ASSUME NEW x \in 1..(p - 1) PROVE v[x] = w[x]
  <2>1. p \in 1..(h + l + 1)
    BY <1>2 DEF w
  <2>2. x \in 1..(h + l)
    BY <1>1, <2>1
  <2>3. CASE x \in 1..h
    BY <1>2, <1>9, <2>3
  <2>4. CASE x \in (h + 1)..(h + l)
    <3>1. x - h \in 1..l /\ x \in (h + 1)..(h + Len(e))
      BY <1>1, <1>7, <1>8, <2>4
    <3> QED BY <1>2, <1>7, <1>9, <2>4, <3>1
  <2> QED BY <1>1, <2>2, <2>3, <2>4
<1>11. Range(c.qarrivals) = {x \in 1..(p - 1) : w[x].kind = "QueueEvent"}
  BY DEF Read, w
<1>12. Read(new.ctx, p, v)
  BY <1>4, <1>10, <1>11 DEF Read, CalmlyOk
<1>13. p \in 1..(Len(v) + 1)
  <2>1. p \in 1..(h + l + 1)
    BY <1>2 DEF w
  <2> QED BY <1>1, <1>7, <1>8, <1>9, <2>1
<1>14. Calm(new.ctx) /\ Mail(new.ctx) /\ Later(new.ctx, Len(v))
  BY <1>4, <1>9 DEF CalmlyOk, e, h
<1>15. f = <<>> => new.ctx = c
  BY <1>4
<1> QED BY <1>6, <1>12, <1>13, <1>14, <1>15 DEF v

(* No wait from outside has been dropped. *)
LEMMA CalmDrops == ASSUME NEW c, Calm(c), NEW kind \in Waited PROVE DroppedIds(c, kind) = {}
  BY DEF Calm, DroppedIds

(* The end of the history. *)
LEMMA CalmConvert == ASSUME Inv, CalmInv, Convert PROVE CalmInv'
<1> DEFINE marked == [ctx EXCEPT !.qcancelled = @ \cup DroppedIds(ctx, "Queue")]
           b == Unmatched(Conf)
           f == eng.fifo
<1>1. /\ eng.phase = "replay"
      /\ ctx.output \/ (eng.pos > Len(Working) /\ ~eng.must_poll)
      /\ ctx' = convert_emitted_actions(marked, delta, f).ctx
      /\ delta' = convert_emitted_actions(marked, delta, f).delta
      /\ eng' = [eng EXCEPT !.phase = "quiesce", !.fifo = <<>>, !.pending = @ \o Kinds(f)]
      /\ UNCHANGED <<scenario, code, history, last>>
  BY DEF Convert
<1>2. StoredOk /\ DOMAIN eng = EngFields
  BY DEF Inv, StoredOk
<1>3. Good(Conf, Working) /\ eng.pending = <<>> /\ CalmConf(Conf, Working)
  BY <1>1 DEF Inv, ReplayOk, CalmInv
<1>4. Conf.ctx = ctx /\ Conf.fifo = f /\ Conf.pos = eng.pos /\ Conf.must = eng.must_poll
  BY DEF Conf
<1>5. /\ Core(ctx, b) /\ Emitted(ctx, b, f) /\ Ids(ctx, eng.pos - 1)
      /\ eng.pos \in 1..(Len(Working) + 1)
  BY <1>3, <1>4 DEF Good
<1>6. b \in Nat /\ DOMAIN ctx = CtxFields /\ Len(Working) \in Nat
  <2>1. Listed(Working) /\ ctx.kinds \in Acts
    BY <1>2, <1>5 DEF StoredOk, EventsOk, Core
  <2>2. Len(Working) \in Nat /\ Len(ctx.kinds) \in Nat
    BY <2>1 DEF Listed, Acts
  <2> QED BY <1>5, <2>2 DEF Core
<1>7. /\ Calm(ctx) /\ Mail(ctx) /\ Read(ctx, eng.pos, Working)
      /\ ~eng.must_poll /\ ~ctx.output => Full(ctx)
  BY <1>3, <1>4 DEF CalmConf
<1>8. \A x \in CtxFields : marked[x] = ctx[x]
  <2>1. DroppedIds(ctx, "Queue") = {}
    BY <1>7, CalmDrops DEF Waited
  <2> QED BY <1>6, <2>1
<1> HIDE DEF b, marked, f
<1>9. /\ Calm(marked) /\ Mail(marked) /\ (Full(ctx) => Full(marked))
      /\ marked.output = ctx.output /\ marked.qarrivals = ctx.qarrivals
      /\ marked.kinds = ctx.kinds /\ marked.bound = ctx.bound
  BY <1>5, <1>7, <1>8, SameCalm DEF CtxFields
<1>10. Later(marked, Len(Working)) /\ Core(marked, b) /\ Emitted(marked, b, f)
       /\ Read(marked, eng.pos, Working)
  <2>1. Later(ctx, eng.pos - 1)
    BY <1>5, IdsLater
  <2>2. \A i : i \in 1..(eng.pos - 1) => i \in 1..Len(Working)
    BY <1>5, <1>6
  <2>3. Later(marked, Len(Working))
    BY <1>9, <2>1, <2>2 DEF Later
  <2>4. \A x \in {"kinds", "bound", "results", "dropped", "awaits", "wait", "got"} : marked[x] = ctx[x]
    BY <1>8 DEF CtxFields
  <2>5. DOMAIN marked = CtxFields
    BY <1>6 DEF marked
  <2>6. Core(marked, b)
    BY <1>5, <2>4, <2>5, OtherCore
  <2> QED BY <1>5, <1>7, <1>9, <2>3, <2>6 DEF Emitted, Read
<1>11. /\ eng'.phase = "quiesce" /\ eng'.pos = eng.pos /\ eng'.pending = <<>> \o Kinds(f)
  BY <1>1, <1>2, <1>3 DEF EngFields
<1> DEFINE p == eng.pos
<1>12. /\ Calm(ctx') /\ Mail(ctx') /\ Later(ctx', Len(Working'))
       /\ p \in 1..(Len(Working') + 1) /\ Read(ctx', p, Working')
       /\ f = <<>> => ctx' = marked
  <2>1. /\ ctx' = convert_emitted_actions(marked, delta, f).ctx
        /\ delta' = convert_emitted_actions(marked, delta, f).delta
        /\ UNCHANGED history /\ p \in 1..(Len(Working) + 1) /\ Read(marked, p, Working)
    BY <1>1, <1>5, <1>10
  <2> HIDE DEF p
  <2> QED BY <1>2, <1>6, <1>9, <1>10, <2>1, CalmConverted
<1>13. eng'.pending = <<>> => f = <<>>
  <2>1. Listed(f) /\ Listed(Kinds(f)) /\ \A x \in DOMAIN f : f[x].kind \in Range(Kinds(f))
    BY <1>5, KindsFacts DEF Emitted
  <2>2. <<>> \o Kinds(f) = Kinds(f)
    BY <2>1 DEF Listed
  <2>3. ASSUME Kinds(f) = <<>> PROVE DOMAIN f = {}
    <3>1. Range(Kinds(f)) = {}
      BY <2>3, NoRow DEF Range
    <3> QED BY <2>1, <3>1
  <2>4. DOMAIN f = {} => f = <<>>
    <3>1. Len(f) \in Nat /\ DOMAIN f = 1..Len(f)
      BY <2>1 DEF Listed
    <3>2. ASSUME DOMAIN f = {} PROVE Len(f) = 0
      BY <3>1, <3>2
    <3> QED BY <2>1, <3>2 DEF Listed
  <2> QED BY <1>11, <2>2, <2>3, <2>4
<1>14. eng'.pending = <<>> => ctx'.output \/ Full(ctx')
  <2>1. ASSUME eng'.pending = <<>>, ~ctx.output PROVE Full(ctx)
    <3>1. ~eng.must_poll
      BY <1>1, <2>1
    <3> QED BY <1>7, <2>1, <3>1
  <2> QED BY <1>9, <1>12, <1>13, <2>1
<1> QED BY <1>1, <1>11, <1>12, <1>14 DEF CalmInv

(* A poll of the quiescence loop. *)
LEMMA CalmQuiesce == ASSUME Inv, Unraced, CalmInv, Quiesce PROVE CalmInv'
<1>1. PICK k \in Codes(ctx) :
        LET q == poll(ctx, k)
            new == convert_emitted_actions(q.ctx, delta, q.emitted)
        IN  /\ code' = k /\ ctx' = new.ctx /\ delta' = new.delta
            /\ eng' = [eng EXCEPT !.pending = @ \o Kinds(q.emitted),
                                  !.phase = IF q.emitted = <<>> THEN "finalize" ELSE @]
  BY DEF Quiesce
<1> DEFINE c == poll(ctx, k).ctx
           f == poll(ctx, k).emitted
           n == Len(ctx.kinds)
           p == eng.pos
           empty == <<>>
<1>2. eng.phase = "quiesce" /\ Unsettled /\ UNCHANGED <<scenario, history, last>>
  BY DEF Quiesce
<1>3. /\ StoredOk /\ DOMAIN eng = EngFields /\ scenario \in Scenario /\ CodeOk(code)
      /\ Core(ctx, n) /\ Listed(eng.pending)
      /\ Calm(ctx) /\ Mail(ctx) /\ CalmCode(code)
      /\ p \in 1..(Len(Working) + 1) /\ Read(ctx, p, Working) /\ Later(ctx, Len(Working))
  BY <1>2 DEF Inv, StoredOk, QuietOk, CalmInv
<1>4. CodeOk(k) /\ (Ready(ctx) => Seen(ctx) \in DOMAIN k) /\ CalmCode(k)
  BY <1>1, <1>3, CodesFacts, CodesCalm
<1>5. /\ eng'.phase = (IF f = <<>> THEN "finalize" ELSE "quiesce")
      /\ eng'.pending = eng.pending \o Kinds(f) /\ eng'.pos = p
      /\ code' = k /\ ctx' = convert_emitted_actions(c, delta, f).ctx
      /\ delta' = convert_emitted_actions(c, delta, f).delta
  BY <1>1, <1>2, <1>3 DEF EngFields
<1>6. n \in Nat
  <2>1. ctx.kinds \in Acts
    BY <1>3 DEF Core
  <2> QED BY <2>1 DEF Acts
<1> HIDE DEF n
<1>7. Listed(empty) /\ Len(empty) = 0 /\ DOMAIN empty = {}
  BY NoRow
<1>8. n + 0 = Len(ctx.kinds)
  BY <1>6 DEF n
<1> HIDE DEF empty
<1>9. Emitted(ctx, n, empty)
  BY <1>7, <1>8 DEF Emitted
<1>10. /\ Core(c, n) /\ Emitted(c, n, empty \o f) /\ Listed(f)
  BY <1>3, <1>4, <1>9, PollCore
<1>11. \/ /\ Ready(ctx) /\ RoundOk(k[Seen(ctx)]) /\ poll(ctx, k) = Enter(ctx, k[Seen(ctx)])
          /\ Entered(ctx, c, k[Seen(ctx)])
       \/ ~Ready(ctx) /\ Polled(ctx, c)
  BY <1>3, <1>4, PollCases
<1>12. /\ Calm(c) /\ Mail(c) /\ c.qarrivals = ctx.qarrivals /\ c.bound = ctx.bound
       /\ \A t \in DOMAIN c.bound : c.kinds[t] = ctx.kinds[t]
       /\ f = <<>> => c.output \/ Full(c)
  <2> DEFINE r == k[Seen(ctx)]
  <2>1. ASSUME Ready(ctx), RoundOk(r), poll(ctx, k) = Enter(ctx, r), Entered(ctx, c, r)
        PROVE  /\ Calm(c) /\ Mail(c) /\ c.qarrivals = ctx.qarrivals /\ c.bound = ctx.bound
               /\ f = <<>> => c.output \/ Full(c)
    <3>1. CalmRound(r)
      BY <1>4, <2>1 DEF CalmCode
    <3>2. f = <<>> => r.acts = <<>>
      <4>1. f = [x \in DOMAIN r.acts |-> [token |-> [y \in DOMAIN r.acts |-> Len(ctx.kinds) + y][x],
                                          kind |-> r.acts[x], data |-> Seen(ctx)]]
        BY <2>1 DEF Enter
      <4>2. f = <<>> => DOMAIN r.acts = {}
        <5>1. DOMAIN f = DOMAIN r.acts
          BY <4>1
        <5> QED BY <5>1, NoRow
      <4> DEFINE s == r.acts
      <4>3. Listed(s)
        BY <2>1, SeqListed DEF RoundOk, Acts
      <4>4. DOMAIN s = {} => s = <<>>
        <5> HIDE DEF s
        <5>1. Len(s) \in Nat /\ DOMAIN s = 1..Len(s)
          BY <4>3 DEF Listed
        <5>2. ASSUME DOMAIN s = {} PROVE Len(s) = 0
          BY <5>1, <5>2
        <5> QED BY <4>3, <5>2 DEF Listed
      <4> QED BY <4>2, <4>4
    <3> HIDE DEF r, c, f
    <3>3. Calm(c) /\ Mail(c)
      BY <1>3, <2>1, <3>1, EnteredCalm
    <3>4. c.output = (r.acts = <<>>) /\ c.qarrivals = ctx.qarrivals /\ c.bound = ctx.bound
      BY <2>1 DEF Entered
    <3> QED BY <3>2, <3>3, <3>4
  <2>2. ASSUME ~Ready(ctx), Polled(ctx, c)
        PROVE  /\ Calm(c) /\ Mail(c) /\ c.qarrivals = ctx.qarrivals /\ c.bound = ctx.bound
               /\ Full(c)
    <3> HIDE DEF c
    <3>1. Calm(c) /\ Mail(c) /\ Full(c)
      BY <1>3, <2>2, PolledCalm
    <3>2. c.qarrivals = ctx.qarrivals /\ c.bound = ctx.bound
      BY <1>3, <2>2 DEF Polled, Core, CtxFields
    <3> QED BY <3>1, <3>2
  <2>3. \A t \in DOMAIN ctx.bound : c.kinds[t] = ctx.kinds[t]
    <3> HIDE DEF c, r
    <3>1. ctx.kinds \in Acts /\ DOMAIN ctx.bound \subseteq 1..n
      BY <1>3 DEF Core
    <3>2. CASE Ready(ctx) /\ RoundOk(r) /\ Entered(ctx, c, r)
      <4>1. c.kinds = ctx.kinds \o r.acts /\ r.acts \in Acts
        BY <3>2 DEF Entered, RoundOk
      <4>2. Appended(ctx.kinds, r.acts, ctx.kinds \o r.acts)
        BY <3>1, <4>1, ActsConcat
      <4> QED BY <1>6, <3>1, <4>1, <4>2 DEF Appended, n, Acts
    <3>3. CASE ~Ready(ctx) /\ Polled(ctx, c)
      BY <1>3, <3>3 DEF Polled, Core, CtxFields
    <3> QED BY <1>11, <3>2, <3>3 DEF r
  <2> QED BY <1>11, <2>1, <2>2, <2>3
<1> HIDE DEF c, f
<1>13. empty \o f = f
  BY <1>10 DEF Listed, empty
<1>14. Emitted(c, n, f) /\ Later(c, Len(Working)) /\ Read(c, p, Working)
  BY <1>3, <1>10, <1>12, <1>13 DEF Later, Read
<1>15. /\ Calm(ctx') /\ Mail(ctx') /\ Later(ctx', Len(Working'))
       /\ p \in 1..(Len(Working') + 1) /\ Read(ctx', p, Working')
       /\ f = <<>> => ctx' = c
  <2> HIDE DEF p
  <2> QED BY <1>2, <1>3, <1>5, <1>6, <1>10, <1>12, <1>14, CalmConverted
<1>16. eng'.pending # <<>>
  <2>1. eng.pending # <<>>
    BY <1>2 DEF Unsettled
  <2>2. Listed(Kinds(f))
    BY <1>10, KindsFacts
  <2>3. Listed(eng.pending \o Kinds(f)) /\ Range(eng.pending) \subseteq Range(eng.pending \o Kinds(f))
    BY <1>3, <2>2, ConcatRows
  <2>4. Range(eng.pending) # {}
    <3>1. Len(eng.pending) \in Nat /\ DOMAIN eng.pending = 1..Len(eng.pending)
      BY <1>3 DEF Listed
    <3>2. Len(eng.pending) # 0
      BY <1>3, <2>1 DEF Listed
    <3>3. 1 \in DOMAIN eng.pending
      BY <3>1, <3>2
    <3> QED BY <3>3 DEF Range
  <2>5. Range(<<>>) = {}
    BY NoRow DEF Range
  <2> QED BY <1>5, <2>3, <2>4, <2>5
<1>17. eng'.phase = "finalize" => ctx'.output \/ Full(ctx')
  BY <1>5, <1>12, <1>15
<1> QED BY <1>2, <1>3, <1>4, <1>5, <1>15, <1>16, <1>17 DEF CalmInv

(* The quiescence loop ends. *)
LEMMA CalmSettle == ASSUME Inv, CalmInv, Settle PROVE CalmInv'
<1>1. /\ eng.phase = "quiesce" /\ ~Unsettled /\ UNCHANGED <<scenario, code, history, delta, ctx, last>>
      /\ eng' = [eng EXCEPT !.phase = "finalize"]
  BY DEF Settle
<1>2. eng'.phase = "finalize" /\ eng'.pos = eng.pos
  BY <1>1 DEF Inv, StoredOk, EngFields
<1>3. Working' = Working
  BY <1>1 DEF Working
<1>4. ctx.output \/ Full(ctx)
  BY <1>1 DEF Unsettled, CalmInv
<1> QED BY <1>1, <1>2, <1>3, <1>4 DEF CalmInv

(* A turn ends without more records. *)
LEMMA CalmStop == ASSUME Inv, CalmInv, Stop PROVE CalmInv'
<1>1. /\ history' = Working /\ eng' = [eng EXCEPT !.phase = "ended"]
      /\ UNCHANGED <<scenario, code, ctx>>
  BY DEF Stop
<1>2. eng'.phase = "ended"
  BY <1>1 DEF Inv, StoredOk, EngFields
<1>3. Soft(Working)
  BY SoftWorking DEF Inv, CalmInv
<1> QED BY <1>1, <1>2, <1>3 DEF CalmInv

(* A turn ends. *)
LEMMA CalmFinalize == ASSUME Inv, CalmInv, Finalize PROVE CalmInv'
<1>1. UNCHANGED <<code, ctx>>
  BY DEF Finalize
<1>2. CASE eng'.phase = "nondeterminism"
  <2>1. UNCHANGED history
    <3>1. CASE \E kind \in Range(Cancellable) : ~(Recorded(kind) \subseteq DroppedIds(ctx, kind))
      BY <3>1 DEF Finalize
    <3>2. CASE ~\E kind \in Range(Cancellable) : ~(Recorded(kind) \subseteq DroppedIds(ctx, kind))
      BY <1>2, <3>2 DEF Finalize, Engine
    <3> QED BY <3>1, <3>2
  <2> QED BY <1>1, <1>2, <2>1 DEF CalmInv
<1>3. CASE eng'.phase # "nondeterminism"
  <2> DEFINE w == history'
  <2>1. /\ Recording(w, Range(Cancellable))
        /\ eng' = Engine(IF ctx.output THEN "ended" ELSE "idle")
    BY <1>3, FinalizeRecords
  <2>2. eng'.phase \in {"ended", "idle"}
    BY <2>1 DEF Engine
  <2>3. Soft(Working)
    BY SoftWorking DEF Inv, CalmInv
  <2> HIDE DEF w
  <2>4. ASSUME NEW x \in DOMAIN w, w[x].kind = "Cancelled" PROVE w[x].what \notin Waited
    <3>1. CASE x \in DOMAIN Working
      BY <2>1, <2>3, <2>4, <3>1 DEF Recording, Soft
    <3>2. CASE x \notin DOMAIN Working
      <4>1. w[x].src \in NewlyDropped(w[x].what)
        BY <2>1, <3>2 DEF Recording
      <4>2. w[x].what \in Waited => DroppedIds(ctx, w[x].what) = {}
        BY CalmDrops DEF CalmInv
      <4> QED BY <4>1, <4>2 DEF NewlyDropped
    <3> QED BY <3>1, <3>2
  <2>5. Soft(w)
    BY <2>4 DEF Soft
  <2> QED BY <1>1, <2>2, <2>5 DEF CalmInv, w
<1> QED BY <1>2, <1>3

(* An execution runs one scenario. *)
LEMMA SameScenario == ASSUME [Next]_vars PROVE scenario' = scenario
<1>1. CASE UNCHANGED vars
  BY <1>1 DEF vars
<1>2. CASE Next
  BY <1>2 DEF Next, BeginTurn, Poll, Applying, ApplySchedule, ApplyNote, ApplyCompletion,
     ApplyExternalEvent, ApplyQueueEvent, ApplyCancelled, ApplyOther, Convert, Quiesce, Settle,
     Stop, Finalize
<1> QED BY <1>1, <1>2

(* Every step keeps the invariant. *)
LEMMA CalmStep == ASSUME Inv, Unraced, CalmInv, [Next]_vars PROVE CalmInv'
<1>1. CASE UNCHANGED vars
  <2>1. Working' = Working /\ Conf' = Conf /\ UNCHANGED <<code, history, ctx, eng>>
    BY <1>1 DEF vars, Working, Conf
  <2> QED BY <2>1 DEF CalmInv
<1>2. CASE BeginTurn
  BY <1>2, CalmBeginTurn
<1>3. CASE Poll
  BY <1>3, CalmPoll
<1>4. CASE Applies
  BY <1>4, CalmApplies
<1>5. CASE Convert
  BY <1>5, CalmConvert
<1>6. CASE Quiesce
  BY <1>6, CalmQuiesce
<1>7. CASE Settle
  BY <1>7, CalmSettle
<1>8. CASE Stop
  BY <1>8, CalmStop
<1>9. CASE Finalize
  BY <1>9, CalmFinalize
<1> QED BY <1>1, <1>2, <1>3, <1>4, <1>5, <1>6, <1>7, <1>8, <1>9 DEF Next, Applies

(* While no wait for events or messages is raced, whatever the code has   *)
(* been given is what the context still gives for the same token, and the  *)
(* drops in the history are of activities, sub-orchestrations and timers.  *)
THEOREM CalmInvHolds == Spec => [](Inv /\ (Unraced => CalmInv))
<1>1. Init => Inv /\ (Unraced => CalmInv)
  BY InvInit, CalmInit
<1>2. Inv /\ (Unraced => CalmInv) /\ [Next]_vars => (Inv /\ (Unraced => CalmInv))'
  <2>1. ASSUME Inv, Unraced => CalmInv, [Next]_vars PROVE Inv' /\ (Unraced => CalmInv)'
    <3>1. Unraced' <=> Unraced
      BY <2>1, SameScenario DEF Unraced
    <3> QED BY <2>1, <3>1, InvStep, CalmStep
  <2> QED BY <2>1
<1> QED BY <1>1, <1>2, PTL DEF Spec

(* What has been dequeued, in every phase of a turn. *)
LEMMA CalmQueue == ASSUME Inv, CalmInv PROVE QueueIsFifo
<1> SUFFICES ASSUME eng.phase \in {"replay", "quiesce", "finalize"}
             PROVE  /\ \A p, q \in Taken("Queue") : p[1] < q[1] => p[2] < q[2]
                    /\ \A x \in Delivered("QueueEvent") :
                         (\E y \in {p[2] : p \in Taken("Queue")} : x < y) =>
                           x \in {p[2] : p \in Taken("Queue")}
  BY DEF QueueIsFifo
<1>1. \E m, top : Core(ctx, m) /\ Later(ctx, top)
  <2>1. CASE eng.phase = "replay"
    <3>1. Good(Conf, Working) /\ Conf.ctx = ctx
      BY <2>1 DEF Inv, ReplayOk, Conf
    <3>2. Core(ctx, Unmatched(Conf)) /\ Ids(ctx, Conf.pos - 1)
      BY <3>1 DEF Good
    <3>3. Later(ctx, Conf.pos - 1)
      BY <3>2, IdsLater
    <3> QED BY <3>2, <3>3
  <2>2. CASE eng.phase \in {"quiesce", "finalize"}
    BY <2>2 DEF Inv, QuietOk, CalmInv
  <2> QED BY <2>1, <2>2
<1>2. Calm(ctx) /\ Mail(ctx) /\ Read(ctx, eng.pos, Working)
  <2>1. CASE eng.phase = "replay"
    BY <2>1 DEF CalmInv, CalmConf, Conf
  <2>2. CASE eng.phase \in {"quiesce", "finalize"}
    BY <2>2 DEF CalmInv
  <2> QED BY <2>1, <2>2
<1> DEFINE taken == Taken("Queue")
<1>3. taken = {p \in Takes(ctx) : ctx.kinds[p[1]] = "Queue"}
  BY DEF Taken, Takes, Range
<1>4. Range(ctx.qarrivals) = Delivered("QueueEvent")
  BY <1>2 DEF Read, Delivered
<1> HIDE DEF taken
<1>5. /\ \A p, q \in taken : p[1] < q[1] => p[2] < q[2]
      /\ \A x \in Range(ctx.qarrivals) : (\E q \in taken : x < q[2]) => \E p \in taken : p[2] = x
  BY <1>1, <1>2, <1>3, CalmFifo
<1>6. \A x \in Delivered("QueueEvent") :
        (\E y \in {p[2] : p \in taken} : x < y) => x \in {p[2] : p \in taken}
  BY <1>4, <1>5
<1> QED BY <1>5, <1>6 DEF taken

(* What external waits have been given. *)
LEMMA CalmEvents == ASSUME CalmInv PROVE NoStaleEvent
<1> SUFFICES ASSUME NEW p \in Taken("External") PROVE p[2] > ctx.bound[p[1]]
  BY DEF NoStaleEvent
<1>1. p \in Takes(ctx) /\ ctx.kinds[p[1]] = "External" /\ "External" \in Waited
  BY DEF Taken, Takes, Range, Waited
<1>2. Calm(ctx) /\ Mail(ctx)
  BY DEF CalmInv
<1>3. p[1] \in DOMAIN ctx.bound /\ p[2] = Resolve(ctx, p[1]) /\ p[2] # None
  BY <1>1, <1>2 DEF Calm
<1>4. PICK i \in DOMAIN ctx.subs :
        /\ ctx.subs[i] = ctx.bound[p[1]]
        /\ Resolve(ctx, p[1]) = IF i \in DOMAIN ctx.arrivals THEN ctx.arrivals[i] ELSE None
  BY <1>1, <1>2, <1>3, ResolveMail
<1>5. i \in DOMAIN ctx.arrivals /\ p[2] = ctx.arrivals[i]
  BY <1>3, <1>4
<1>6. ctx.arrivals[i] > ctx.subs[i]
  BY <1>2, <1>5 DEF Mail
<1> QED BY <1>4, <1>5, <1>6

(* What the end of a turn leaves. *)
LEMMA CalmDone == ASSUME CalmInv PROVE NothingLeftToPoll
  BY DEF CalmInv, Full, NothingLeftToPoll

(* The queue of messages is a mailbox (get_queue_message): as long as no   *)
(* wait is raced, the code has dequeued the oldest, each once, in order,   *)
(* in every turn and at every poll of its replay.                          *)
THEOREM QueueIsFifoHolds == Spec => [](Unraced => QueueIsFifo)
<1>1. Inv /\ (Unraced => CalmInv) => (Unraced => QueueIsFifo)
  BY CalmQueue
<1> QED BY <1>1, CalmInvHolds, PTL

(* An event that nobody waits for is not kept for who waits later          *)
(* (has_pending_subscription_slot), in code that does not race its waits.  *)
THEOREM NoStaleEventHolds == Spec => [](Unraced => NoStaleEvent)
<1>1. Inv /\ (Unraced => CalmInv) => (Unraced => NoStaleEvent)
  BY CalmEvents
<1> QED BY <1>1, CalmInvHolds, PTL

(* run_quiescence_loop polls until the code, which does not race its       *)
(* waits, has nothing left to do: a turn never ends with an answer that    *)
(* nobody has looked at.                                                   *)
THEOREM NothingLeftToPollHolds == Spec => [](Unraced => NothingLeftToPoll)
<1>1. Inv /\ (Unraced => CalmInv) => (Unraced => NothingLeftToPoll)
  BY CalmDone
<1> QED BY <1>1, CalmInvHolds, PTL

-----------------------------------------------------------------------------
(* The places of the loop that running over a history comes to.            *)

(* Code and a history that the loop can run over, no wait raced. *)
Runs(k, w) == EventsOk(w) /\ Soft(w) /\ CodeOk(k) /\ CalmCode(k)

Tabled(f) == f = [x \in DOMAIN f |-> f[x]]

Sound(m, w) == Good(m, w) /\ CalmConf(m, w) /\ Tabled(m.ctx.got)

Path(g, l, k, w) ==
  /\ g[0] = Started
  /\ \A n \in 0..(l - 1) : Goes(g[n], k, w) /\ g[n + 1] = After(g[n], k, w)

Reach(m, k, w) == \E l \in Nat : \E g : Path(g, l, k, w) /\ g[l] = m

(* A table made entry by entry. *)
LEMMA MadeTable == \A S : Tabled([x \in S |-> None])
  BY DEF Tabled

(* The loop begins soundly. *)
LEMMA StartedSound == ASSUME NEW w, Listed(w) PROVE Sound(Started, w)
<1>1. Good(Started, w) /\ CalmConf(Started, w)
  BY StartedGood, NewCalm
<1>2. Tabled(<<>>)
  BY DEF Tabled
<1>3. Started.ctx.got = <<>>
  BY DEF Started, NewContext
<1> QED BY <1>1, <1>2, <1>3 DEF Sound

(* A poll leaves a table of what the futures gave. *)
LEMMA PollTabled ==
    ASSUME NEW c, NEW m, Core(c, m), NEW k, CodeOk(k), Ready(c) => Seen(c) \in DOMAIN k,
           Tabled(c.got)
    PROVE  Tabled(poll(c, k).ctx.got)
<1>1. CASE Entered(c, poll(c, k).ctx, k[Seen(c)])
  BY <1>1, MadeTable DEF Entered
<1>2. CASE Polled(c, poll(c, k).ctx)
  <2>1. Tabled([t \in DOMAIN c.got |-> Given(c, t)])
    BY DEF Tabled
  <2> QED BY <1>2, <2>1 DEF Polled
<1> QED BY <1>1, <1>2, PollCases

(* An event leaves what the futures gave as it is. *)
LEMMA EventGot ==
    ASSUME NEW m, NEW w, Good(m, w), NEW e
    PROVE  AfterEvent(m, e).ctx.got = m.ctx.got
<1> DEFINE c == m.ctx
<1>1. DOMAIN c = CtxFields
  BY DEF Good, Core
<1>2. AfterEvent(m, e).ctx = ContextAfter(m, e)
  BY DEF AfterEvent
<1> HIDE DEF c
<1>3. \A t, i : Bind(c, t, i).got = c.got
  BY <1>1, BindFacts DEF CtxFields
<1>4. ContextAfter(m, e).got = c.got
  BY <1>1, <1>3 DEF ContextAfter, CtxFields, c
<1> QED BY <1>2, <1>4 DEF c

(* An iteration that does not fail. *)
LEMMA GoesSound ==
    ASSUME NEW k, NEW w, Runs(k, w), NEW m, Sound(m, w), Goes(m, k, w)
    PROVE  /\ Sound(After(m, k, w), w)
           /\ Grown(m.ctx, After(m, k, w).ctx)
           /\ m.pos \in 1..(Len(w) + 1) /\ After(m, k, w).pos \in 1..(Len(w) + 1)
           /\ After(m, k, w).pos = IF m.must THEN m.pos ELSE m.pos + 1
<1>1. /\ Good(m, w) /\ CalmConf(m, w) /\ Tabled(m.ctx.got) /\ EventsOk(w) /\ Soft(w)
      /\ CodeOk(k) /\ CalmCode(k) /\ ~m.ctx.output
  BY DEF Sound, Runs, Goes
<1>2. \A n : Good(n, w) => n.pos \in 1..(Len(w) + 1)
  BY DEF Good
<1>3. CASE m.must
  <2> DEFINE n == AfterPoll(m, k)
  <2>1. Good(n, w) /\ Grown(m.ctx, n.ctx) /\ n.pos = m.pos
    BY <1>1, <1>3, PollGood
  <2>2. CalmConf(n, w)
    BY <1>1, <1>3, PollCalm
  <2>3. n.ctx = poll(m.ctx, k).ctx
    BY DEF AfterPoll
  <2>4. Core(m.ctx, Unmatched(m))
    BY <1>1 DEF Good
  <2>5. Tabled(n.ctx.got)
    BY <1>1, <1>3, <2>3, <2>4, PollTabled DEF Goes
  <2>6. After(m, k, w) = n
    BY <1>3 DEF After
  <2> HIDE DEF n
  <2> QED BY <1>1, <1>2, <1>3, <2>1, <2>2, <2>5, <2>6 DEF Sound
<1>4. CASE ~m.must
  <2> DEFINE e == w[m.pos]
             n == AfterEvent(m, e)
  <2>1. m.pos <= Len(w) /\ Fits(m, e)
    BY <1>4 DEF Goes
  <2>2. Good(n, w) /\ Grown(m.ctx, n.ctx)
    BY <1>1, <2>1, ScheduleGood, EventGood
  <2>3. CalmConf(n, w)
    BY <1>1, <1>4, <2>1, EventCalm
  <2>4. n.pos = m.pos + 1
    BY DEF AfterEvent
  <2>5. n.ctx.got = m.ctx.got
    <3> HIDE DEF e
    <3> QED BY <1>1, EventGot
  <2>6. After(m, k, w) = n
    BY <1>4 DEF After
  <2> HIDE DEF n
  <2> QED BY <1>1, <1>2, <1>4, <2>2, <2>3, <2>4, <2>5, <2>6 DEF Sound
<1> QED BY <1>3, <1>4

(* Every place on the way is sound. *)
LEMMA PathSound ==
    ASSUME NEW k, NEW w, Runs(k, w), NEW l \in Nat, NEW g, Path(g, l, k, w)
    PROVE  \A n \in 0..l : Sound(g[n], w)
<1> DEFINE T == {n \in 0..l : Sound(g[n], w)}
<1>1. 0 \in T
  <2>1. Sound(Started, w)
    BY StartedSound DEF Runs, EventsOk
  <2> QED BY <2>1 DEF Path
<1>2. ASSUME NEW n \in 0..(l - 1), n \in T PROVE n + 1 \in T
  <2>1. Goes(g[n], k, w) /\ g[n + 1] = After(g[n], k, w) /\ Sound(g[n], w)
    BY <1>2 DEF Path
  <2> DEFINE m == g[n]
  <2> HIDE DEF m
  <2>2. Sound(After(m, k, w), w)
    BY <2>1, GoesSound DEF m
  <2> QED BY <2>1, <2>2 DEF m
<1> HIDE DEF T
<1>3. \A n \in 0..l : n \in T
  BY <1>1, <1>2, CountUp
<1> QED BY <1>3 DEF T

(* So is the last one. *)
LEMMA ReachSound ==
    ASSUME NEW k, NEW w, Runs(k, w), NEW m, Reach(m, k, w)
    PROVE  Sound(m, w)
<1>0. PICK l \in Nat : \E g : Path(g, l, k, w) /\ g[l] = m
  BY DEF Reach
<1>1. PICK g : Path(g, l, k, w) /\ g[l] = m
  BY <1>0
<1>2. l \in 0..l
  OBVIOUS
<1> QED BY <1>1, <1>2, PathSound

(* The loop comes to where it begins. *)
LEMMA ReachStart == ASSUME NEW k, NEW w PROVE Reach(Started, k, w)
<1> DEFINE g == [n \in {0} |-> Started]
<1>1. Path(g, 0, k, w) /\ g[0] = Started
  BY DEF Path
<1> HIDE DEF g
<1> QED BY <1>1 DEF Reach

(* The loop comes to where an iteration leads. *)
LEMMA ReachStep ==
    ASSUME NEW k, NEW w, NEW m, Reach(m, k, w), Goes(m, k, w)
    PROVE  Reach(After(m, k, w), k, w)
<1>0. PICK l \in Nat : \E g : Path(g, l, k, w) /\ g[l] = m
  BY DEF Reach
<1>1. PICK g : Path(g, l, k, w) /\ g[l] = m
  BY <1>0
<1> DEFINE a == After(m, k, w)
           h == [i \in 0..(l + 1) |-> IF i <= l THEN g[i] ELSE a]
<1>2. h[l + 1] = a /\ \A i \in 0..l : h[i] = g[i]
  <2> HIDE DEF a
  <2> QED OBVIOUS
<1> HIDE DEF h
<1>3. h[0] = Started
  BY <1>1, <1>2 DEF Path
<1>4. ASSUME NEW n \in 0..l PROVE Goes(h[n], k, w) /\ h[n + 1] = After(h[n], k, w)
  <2>1. CASE n = l
    BY <1>1, <1>2, <2>1
  <2>2. CASE n # l
    <3>1. n \in 0..(l - 1) /\ n + 1 \in 0..l
      BY <2>2
    <3> QED BY <1>1, <1>2, <3>1 DEF Path
  <2> QED BY <2>1, <2>2
<1>5. Path(h, l + 1, k, w) /\ l + 1 \in Nat
  <2>1. (l + 1) - 1 = l
    OBVIOUS
  <2> QED BY <1>3, <1>4, <2>1 DEF Path
<1> QED BY <1>2, <1>5 DEF Reach

(* The code and the history may have gone on. *)
Wider(k, w, k2, w2) ==
  /\ \A s \in DOMAIN k : s \in DOMAIN k2 /\ k2[s] = k[s]
  /\ Listed(w2) /\ Len(w) <= Len(w2) /\ \A x \in DOMAIN w : w2[x] = w[x]

(* An iteration goes where it went. *)
LEMMA GoesWider ==
    ASSUME NEW k, NEW w, NEW k2, NEW w2, Wider(k, w, k2, w2), Listed(w),
           NEW m, m.pos \in Nat \ {0}, Goes(m, k, w)
    PROVE  Goes(m, k2, w2) /\ After(m, k2, w2) = After(m, k, w)
<1>1. ~m.must => w2[m.pos] = w[m.pos] /\ m.pos <= Len(w2)
  BY DEF Goes, Wider, Listed
<1>2. Goes(m, k2, w2)
  BY <1>1 DEF Goes, Wider
<1>3. m.must => poll(m.ctx, k2) = poll(m.ctx, k)
  BY DEF Goes, Wider, poll
<1>4. CASE m.must
  <2>1. AfterPoll(m, k2) = AfterPoll(m, k)
    BY <1>3, <1>4 DEF AfterPoll
  <2> QED BY <1>2, <1>4, <2>1 DEF After
<1>5. CASE ~m.must
  BY <1>1, <1>2, <1>5 DEF After
<1> QED BY <1>4, <1>5

(* The loop comes to the same places. *)
LEMMA ReachWider ==
    ASSUME NEW k, NEW w, Runs(k, w), NEW k2, NEW w2, Wider(k, w, k2, w2),
           NEW m, Reach(m, k, w)
    PROVE  Reach(m, k2, w2)
<1>0. PICK l \in Nat : \E g : Path(g, l, k, w) /\ g[l] = m
  BY DEF Reach
<1>1. PICK g : Path(g, l, k, w) /\ g[l] = m
  BY <1>0
<1>2. \A n \in 0..l : Sound(g[n], w)
  BY <1>1, PathSound
<1>3. ASSUME NEW n \in 0..(l - 1) PROVE Goes(g[n], k2, w2) /\ g[n + 1] = After(g[n], k2, w2)
  <2>1. Goes(g[n], k, w) /\ g[n + 1] = After(g[n], k, w) /\ Sound(g[n], w)
    BY <1>1, <1>2 DEF Path
  <2> DEFINE a == g[n]
  <2>2. a.pos \in Nat \ {0} /\ Listed(w)
    BY <2>1 DEF Sound, Good, Runs, EventsOk, Listed
  <2> HIDE DEF a
  <2>3. Goes(a, k2, w2) /\ After(a, k2, w2) = After(a, k, w)
    BY <2>1, <2>2, GoesWider DEF a
  <2> QED BY <2>1, <2>3 DEF a
<1>4. Path(g, l, k2, w2)
  BY <1>1, <1>3 DEF Path
<1> QED BY <1>1, <1>4 DEF Reach

(* The loop is deterministic: two ways agree as far as both go. *)
LEMMA PathsAgree ==
    ASSUME NEW k, NEW w, NEW l \in Nat, NEW j \in Nat, l <= j,
           NEW g, Path(g, l, k, w), NEW h, Path(h, j, k, w)
    PROVE  \A n \in 0..l : g[n] = h[n]
<1> DEFINE T == {n \in 0..l : g[n] = h[n]}
<1>1. 0 \in T
  BY DEF Path
<1>2. ASSUME NEW n \in 0..(l - 1), n \in T PROVE n + 1 \in T
  <2>1. n \in 0..(j - 1) /\ n + 1 \in 0..l /\ g[n] = h[n]
    BY <1>2
  <2>2. g[n + 1] = After(g[n], k, w) /\ h[n + 1] = After(h[n], k, w)
    BY <2>1 DEF Path
  <2> QED BY <2>1, <2>2
<1> HIDE DEF T
<1>3. \A n \in 0..l : n \in T
  BY <1>1, <1>2, CountUp
<1> QED BY <1>3 DEF T

(* From one place the loop goes on to another. *)
Leads(m, n, k, w) ==
  Goes(m, k, w) /\ After(m, k, w).pos <= n.pos /\ Grown(m.ctx, n.ctx)

(* What has grown from what has grown. *)
LEMMA GrownOn == ASSUME NEW c, NEW d, NEW e, Grown(c, d), Grown(d, e) PROVE Grown(c, e)
  BY DEF Grown

(* A later place of a way. *)
LEMMA PathLeads ==
    ASSUME NEW k, NEW w, Runs(k, w), NEW j \in Nat, NEW h, Path(h, j, k, w),
           NEW l \in 0..(j - 1)
    PROVE  Leads(h[l], h[j], k, w)
<1> DEFINE m == h[l]
           a == After(m, k, w)
           q == j - (l + 1)
           T == {i \in 0..q : a.pos <= h[l + 1 + i].pos /\ Grown(m.ctx, h[l + 1 + i].ctx)}
<1>1. \A n \in 0..j : Sound(h[n], w)
  BY PathSound
<1>2. Goes(m, k, w) /\ h[l + 1] = a
  BY DEF Path
<1>3. Sound(m, w)
  BY <1>1
<1>4. Grown(m.ctx, a.ctx) /\ a.pos \in 1..(Len(w) + 1)
  <2> HIDE DEF m
  <2> QED BY <1>2, <1>3, GoesSound
<1>5. q \in Nat /\ q \in 0..q /\ l + 1 + q = j /\ Len(w) \in Nat
  BY DEF Runs, EventsOk, Listed
<1> HIDE DEF m, a, q
<1>6. 0 \in T
  <2>1. l + 1 + 0 = l + 1
    OBVIOUS
  <2> QED BY <1>2, <1>4, <1>5, <2>1
<1>7. ASSUME NEW i \in 0..(q - 1), i \in T PROVE i + 1 \in T
  <2> DEFINE x == l + 1 + i
             b == h[x]
  <2>1. x \in 0..(j - 1) /\ x + 1 = l + 1 + (i + 1) /\ i + 1 \in 0..q
    BY <1>5, <1>7
  <2>2. Goes(b, k, w) /\ h[x + 1] = After(b, k, w) /\ Sound(b, w)
    BY <1>1, <2>1 DEF Path
  <2>3. a.pos <= b.pos /\ Grown(m.ctx, b.ctx)
    BY <1>7
  <2> HIDE DEF b, x
  <2>4. /\ Grown(b.ctx, After(b, k, w).ctx)
        /\ b.pos \in 1..(Len(w) + 1) /\ After(b, k, w).pos \in 1..(Len(w) + 1)
        /\ After(b, k, w).pos = IF b.must THEN b.pos ELSE b.pos + 1
    BY <2>2, GoesSound
  <2>5. a.pos <= After(b, k, w).pos
    <3> DEFINE p == a.pos
               r == b.pos
               s == After(b, k, w).pos
    <3>1. p \in Nat /\ r \in Nat /\ s \in Nat /\ p <= r
      BY <1>4, <1>5, <2>3, <2>4
    <3>2. s = r \/ s = r + 1
      BY <2>4
    <3> HIDE DEF p, r, s
    <3>3. p <= s
      BY <3>1, <3>2
    <3> QED BY <3>3 DEF p, s
  <2>6. Grown(m.ctx, After(b, k, w).ctx)
    BY <2>3, <2>4, GrownOn
  <2> QED BY <2>1, <2>2, <2>5, <2>6
<1> HIDE DEF T
<1>8. \A i \in 0..q : i \in T
  BY <1>5, <1>6, <1>7, CountUp
<1>9. a.pos <= h[j].pos /\ Grown(m.ctx, h[j].ctx)
  BY <1>5, <1>8 DEF T
<1> QED BY <1>2, <1>9 DEF Leads, m, a

(* Of two places that the loop comes to, one leads to the other. *)
LEMMA ReachOrder ==
    ASSUME NEW k, NEW w, Runs(k, w), NEW m, Reach(m, k, w), NEW n, Reach(n, k, w)
    PROVE  m = n \/ Leads(m, n, k, w) \/ Leads(n, m, k, w)
<1>0. PICK l \in Nat : \E g : Path(g, l, k, w) /\ g[l] = m
  BY DEF Reach
<1>1. PICK g : Path(g, l, k, w) /\ g[l] = m
  BY <1>0
<1>a. PICK j \in Nat : \E h : Path(h, j, k, w) /\ h[j] = n
  BY DEF Reach
<1>2. PICK h : Path(h, j, k, w) /\ h[j] = n
  BY <1>a
<1>3. CASE l = j
  BY <1>1, <1>2, <1>3, PathsAgree
<1>4. CASE l < j
  <2>1. g[l] = h[l]
    BY <1>1, <1>2, <1>4, PathsAgree
  <2>2. l \in 0..(j - 1)
    BY <1>4
  <2> QED BY <1>1, <1>2, <2>1, <2>2, PathLeads
<1>5. CASE j < l
  <2>1. h[j] = g[j]
    BY <1>1, <1>2, <1>5, PathsAgree
  <2>2. j \in 0..(l - 1)
    BY <1>5
  <2> QED BY <1>1, <1>2, <2>1, <2>2, PathLeads
<1> QED BY <1>3, <1>4, <1>5

(* Each action has become the event behind those before it, and its token  *)
(* is bound to that event.                                                 *)
Exactly(c, d, f, n, new) ==
  /\ DOMAIN new.ctx = CtxFields
  /\ \A i \in CtxFields \ {"bound", "subs", "qsubs"} : new.ctx[i] = c[i]
  /\ Extends(c.bound, new.ctx.bound)
  /\ Listed(new.ctx.subs) /\ Listed(new.ctx.qsubs)
  /\ Extends(c.subs, new.ctx.subs) /\ Extends(c.qsubs, new.ctx.qsubs)
  /\ \A x \in 1..n : /\ f[x].token \in DOMAIN new.ctx.bound
                     /\ new.ctx.bound[f[x].token] = Len(history) + Len(d) + x
  /\ Listed(new.delta) /\ Len(new.delta) = Len(d) + n
  /\ \A x \in 1..Len(d) : new.delta[x] = d[x]
  /\ \A x \in 1..n : new.delta[Len(d) + x] = action_to_event(f[x])

(* What stays where it is when more comes. *)
LEMMA ExtendsOn == ASSUME NEW s, NEW u, NEW v, Extends(s, u), Extends(u, v) PROVE Extends(s, v)
  BY DEF Extends

(* A list that may have one element more. *)
LEMMA PerhapsMore ==
    ASSUME NEW s, Listed(s), NEW u, NEW x, NEW b \in BOOLEAN, u = IF b THEN Append(s, x) ELSE s
    PROVE  Listed(u) /\ Extends(s, u)
<1>1. Extends(s, s)
  BY SelfExtends
<1>2. Listed(Append(s, x)) /\ Extends(s, Append(s, x))
  BY AppendIs
<1> DEFINE a == Append(s, x)
<1> HIDE DEF a
<1> QED BY <1>1, <1>2 DEF a

(* One action more. *)
LEMMA ExactlyStep ==
    ASSUME NEW c, NEW d, NEW m \in Nat, NEW f, Emitted(c, m, f), Len(history) \in Nat,
           Listed(d), c.kinds \in Acts,
           NEW n \in Nat, n < Len(f), NEW old, ConvertedOk(c, d, m, f, n, old),
           Exactly(c, d, f, n, old), f[n + 1].kind # "ContinueAsNew"
    PROVE  Exactly(c, d, f, n + 1, Converted(old, f[n + 1]))
<1> DEFINE a == f[n + 1]
           o == old.ctx
           e == action_to_event(a)
           id == Len(history) + Len(old.delta) + 1
           b == Bind(o, a.token, id)
           u == Append(old.delta, e)
           new == Converted(old, a)
<1>1. new.ctx = b /\ new.delta = u
  BY DEF Converted
<1>2. /\ Len(f) \in Nat /\ Len(d) \in Nat /\ n + 1 \in DOMAIN f
      /\ \A x \in 1..(n + 1) : f[x].token = m + x
  BY DEF Emitted, Listed
<1>3. DOMAIN o = CtxFields /\ DOMAIN o.bound \subseteq 1..(m + n)
  BY DEF ConvertedOk, Core
<1>4. /\ DOMAIN b = CtxFields
      /\ \A i \in CtxFields \ {"bound", "subs", "qsubs"} : b[i] = o[i]
      /\ DOMAIN b.bound = DOMAIN o.bound \cup {a.token}
      /\ \A s \in DOMAIN o.bound \cup {a.token} :
           b.bound[s] = IF s = a.token THEN id ELSE o.bound[s]
      /\ b.subs = IF o.kinds[a.token] = "External" THEN Append(o.subs, id) ELSE o.subs
      /\ b.qsubs = IF o.kinds[a.token] = "Queue" THEN Append(o.qsubs, id) ELSE o.qsubs
  <2> DEFINE t == a.token
  <2> HIDE DEF o, id, t
  <2> QED BY <1>3, BindFacts DEF t
<1>5. /\ Listed(o.subs) /\ Listed(o.qsubs) /\ Listed(old.delta) /\ Len(old.delta) = Len(d) + n
      /\ Extends(c.subs, o.subs) /\ Extends(c.qsubs, o.qsubs) /\ Extends(c.bound, o.bound)
      /\ \A i \in CtxFields \ {"bound", "subs", "qsubs"} : o[i] = c[i]
      /\ \A x \in 1..n : f[x].token \in DOMAIN o.bound /\ o.bound[f[x].token] = Len(history) + Len(d) + x
      /\ \A x \in 1..Len(d) : old.delta[x] = d[x]
      /\ \A x \in 1..n : old.delta[Len(d) + x] = action_to_event(f[x])
  BY DEF Exactly
<1>6. id = Len(history) + Len(d) + (n + 1) /\ a.token = m + (n + 1)
  BY <1>2, <1>5
<1>7. OneMore(old.delta, e, u)
  <2> HIDE DEF e
  <2> QED BY <1>5, AppendMore
<1> HIDE DEF a, o, e, id, b, u, new
<1>8. Extends(o.bound, b.bound)
  <2>1. a.token \notin DOMAIN o.bound
    BY <1>3, <1>6
  <2> QED BY <1>4, <2>1 DEF Extends
<1>9. Extends(c.bound, b.bound)
  BY <1>5, <1>8, ExtendsOn
<1>10. Listed(b.subs) /\ Extends(c.subs, b.subs)
  <2>1. Listed(b.subs) /\ Extends(o.subs, b.subs)
    BY <1>4, <1>5, PerhapsMore
  <2> QED BY <1>5, <2>1, ExtendsOn
<1>11. Listed(b.qsubs) /\ Extends(c.qsubs, b.qsubs)
  <2>1. Listed(b.qsubs) /\ Extends(o.qsubs, b.qsubs)
    BY <1>4, <1>5, PerhapsMore
  <2> QED BY <1>5, <2>1, ExtendsOn
<1>12. ASSUME NEW x \in 1..(n + 1)
       PROVE  f[x].token \in DOMAIN b.bound /\ b.bound[f[x].token] = Len(history) + Len(d) + x
  <2>1. CASE x = n + 1
    BY <1>4, <1>6, <2>1 DEF a
  <2>2. CASE x # n + 1
    <3>1. x \in 1..n
      BY <2>2
    <3>2. f[x].token # a.token
      BY <1>2, <1>6, <3>1
    <3> QED BY <1>4, <1>5, <3>1, <3>2
  <2> QED BY <2>1, <2>2
<1>13. /\ Listed(u) /\ Len(u) = Len(d) + (n + 1)
       /\ u[Len(d) + (n + 1)] = e
       /\ \A x \in 1..(Len(d) + n) : u[x] = old.delta[x]
  <2>1. /\ Listed(u) /\ Len(u) = Len(old.delta) + 1 /\ u[Len(u)] = e
        /\ DOMAIN old.delta = 1..Len(old.delta) /\ Extends(old.delta, u)
    BY <1>7 DEF OneMore
  <2>2. Len(u) = Len(d) + (n + 1)
    BY <1>2, <1>5, <2>1
  <2>3. DOMAIN old.delta = 1..(Len(d) + n)
    BY <1>5, <2>1
  <2> QED BY <2>1, <2>2, <2>3 DEF Extends
<1>14. \A x \in 1..Len(d) : u[x] = d[x]
  <2>1. \A x \in 1..Len(d) : x \in 1..(Len(d) + n)
    BY <1>2
  <2> QED BY <1>5, <1>13, <2>1
<1>15. ASSUME NEW x \in 1..(n + 1) PROVE u[Len(d) + x] = action_to_event(f[x])
  <2>1. CASE x = n + 1
    BY <1>13, <2>1 DEF e, a
  <2>2. CASE x # n + 1
    <3>1. x \in 1..n /\ Len(d) + x \in 1..(Len(d) + n)
      BY <1>2, <2>2
    <3> QED BY <1>5, <1>13, <3>1
  <2> QED BY <2>1, <2>2
<1>16. \A i \in CtxFields \ {"bound", "subs", "qsubs"} : b[i] = c[i]
  BY <1>4, <1>5
<1>17. Exactly(c, d, f, n + 1, new)
  BY <1>1, <1>4, <1>9, <1>10, <1>11, <1>12, <1>13, <1>14, <1>15, <1>16 DEF Exactly
<1> QED BY <1>17 DEF new, a

(* Every action. *)
LEMMA ConvertExactly ==
    ASSUME NEW c, NEW d, NEW m \in Nat, NEW f, Core(c, m), Emitted(c, m, f), Len(history) \in Nat,
           Listed(d), Mail(c), \A x \in DOMAIN f : f[x].kind # "ContinueAsNew"
    PROVE  Exactly(c, d, f, Len(f), convert_emitted_actions(c, d, f))
<1> DEFINE L == Len(f)
<1>1. L \in Nat /\ L \in 0..L /\ DOMAIN f = 1..L
  BY DEF Emitted, Listed
<1>2. PICK g : ConvertRun(g, c, d, f) /\ g[L] = convert_emitted_actions(c, d, f)
  BY <1>1, ConvertRuns
<1> DEFINE T == {n \in 0..L : ConvertedOk(c, d, m, f, n, g[n]) /\ Exactly(c, d, f, n, g[n])}
<1>3. 0 \in T
  <2>1. g[0] = [ctx |-> c, delta |-> d]
    BY <1>2 DEF ConvertRun
  <2>2. Grown(c, c) /\ m + 0 = m /\ Len(d) \in Nat /\ c.kinds = c.kinds
    BY DEF Grown, Listed
  <2> DEFINE o == g[0]
  <2>3. o.ctx = c /\ o.delta = d
    BY <2>1
  <2> HIDE DEF o
  <2>4. ConvertedOk(c, d, m, f, 0, o)
    BY <2>2, <2>3 DEF ConvertedOk
  <2>5. DOMAIN c = CtxFields /\ Listed(c.subs) /\ Listed(c.qsubs) /\ Listed(d)
    BY DEF Core, Mail, Rising
  <2>6. Exactly(c, d, f, 0, o)
    BY <2>2, <2>3, <2>5, SelfExtends DEF Exactly
  <2> QED BY <1>1, <2>4, <2>6 DEF o
<1>4. ASSUME NEW n \in 0..(L - 1), n \in T PROVE n + 1 \in T
  <2>1. g[n + 1] = Converted(g[n], f[n + 1])
    <3>1. n + 1 \in 1..L /\ (n + 1) - 1 = n
      BY <1>1
    <3> QED BY <1>2, <3>1 DEF ConvertRun
  <2>2. n \in Nat /\ n < L /\ n + 1 \in 0..L /\ n + 1 \in DOMAIN f
    BY <1>1
  <2>3. c.kinds \in Acts
    BY DEF Core
  <2> DEFINE o == g[n]
  <2>4. ConvertedOk(c, d, m, f, n, o) /\ Exactly(c, d, f, n, o)
    BY <1>4
  <2> HIDE DEF o
  <2>5. ConvertedOk(c, d, m, f, n + 1, Converted(o, f[n + 1]))
    BY <2>2, <2>3, <2>4, ConvertStep
  <2>6. Exactly(c, d, f, n + 1, Converted(o, f[n + 1]))
    BY <2>2, <2>3, <2>4, ExactlyStep
  <2> QED BY <2>1, <2>2, <2>5, <2>6 DEF o
<1> HIDE DEF L, T
<1>5. \A n \in 0..L : n \in T
  BY <1>1, <1>3, <1>4, CountUp
<1>6. Exactly(c, d, f, L, g[L])
  BY <1>1, <1>5 DEF T
<1> QED BY <1>2, <1>6 DEF L

-----------------------------------------------------------------------------
(* The turn that does something binds all of its tokens at once, and the   *)
(* one that does it again binds them one by one, as it comes to the events *)
(* that the first one has written: it trails behind.                       *)

Aside == {"got", "bound", "subs", "qsubs", "cancelled", "qcancelled"}

(* What a turn has come to, with the events that it has written. *)
Ahead(c, w) ==
  /\ Core(c, Len(c.kinds)) /\ Ids(c, Len(w)) /\ Calm(c) /\ Mail(c)
  /\ Tabled(c.got)

(* The loop has the actions that are left to match before it, as events at *)
(* the end of w to which c has bound their tokens.                         *)
Trails(m, c, w) ==
  /\ \A i \in CtxFields \ Aside : m.ctx[i] = c[i]
  /\ Extends(m.ctx.bound, c.bound) /\ Extends(m.ctx.subs, c.subs) /\ Extends(m.ctx.qsubs, c.qsubs)
  /\ Len(w) + 1 = m.pos + Len(m.fifo)
  /\ \A x \in DOMAIN m.fifo :
       /\ m.fifo[x].kind # "ContinueAsNew"
       /\ m.fifo[x].token \in DOMAIN c.bound /\ c.bound[m.fifo[x].token] = m.pos + x - 1
       /\ w[m.pos + x - 1] = action_to_event(m.fifo[x])

(* It has caught up. *)
Caught(m, c, w) == Trails(m, c, w) /\ ~m.must /\ m.fifo = <<>>

(* It enters the next round before it has. *)
Halted(m, c, w) == Trails(m, c, w) /\ m.must /\ Ready(m.ctx) /\ m.ctx.wait = "all"

(* The element of a list that comes next in another, which rises as well. *)
LEMMA RisingNext ==
    ASSUME NEW s, NEW u, Rising(s), Rising(u), Extends(s, u), NEW p \in Range(u),
           \A y \in Range(s) : y < p, \A y \in Range(u) : y < p => y \in Range(s)
    PROVE  Extends(Append(s, p), u)
<1> DEFINE v == Append(s, p)
<1>1. Listed(s) /\ Listed(u) /\ Len(s) \in Nat /\ DOMAIN s = 1..Len(s)
      /\ Len(u) \in Nat /\ DOMAIN u = 1..Len(u)
  BY DEF Rising, Listed
<1>2. OneMore(s, p, v)
  BY <1>1, AppendMore
<1> HIDE DEF v
<1>3. PICK i \in DOMAIN u : u[i] = p
  BY DEF Range
<1>4. \A j \in DOMAIN u : u[j] \in Nat
  BY DEF Rising
<1>5. \A j \in DOMAIN s : j \in DOMAIN u /\ u[j] = s[j] /\ s[j] < p
  BY DEF Extends, Range
<1>6. i > Len(s)
  BY <1>1, <1>3, <1>4, <1>5
<1>7. i = Len(s) + 1
  <2> SUFFICES ASSUME i # Len(s) + 1 PROVE FALSE
    OBVIOUS
  <2> DEFINE j == Len(s) + 1
  <2>1. j \in DOMAIN u /\ j < i
    BY <1>1, <1>3, <1>6
  <2> HIDE DEF j
  <2>2. u[j] < p /\ u[j] \in Range(u)
    BY <1>3, <2>1 DEF Rising, Range
  <2>3. PICK h \in DOMAIN s : s[h] = u[j]
    BY <2>2 DEF Range
  <2>4. u[h] = u[j] /\ h \in DOMAIN u
    BY <1>5, <2>3
  <2>5. h = j
    BY <2>1, <2>4, RisingApart
  <2> QED BY <1>1, <2>3, <2>5 DEF j
<1>8. DOMAIN v = 1..(Len(s) + 1) /\ v[Len(s) + 1] = p /\ \A j \in 1..Len(s) : v[j] = s[j]
  BY <1>2 DEF OneMore, Extends
<1>9. ASSUME NEW j \in DOMAIN v PROVE j \in DOMAIN u /\ u[j] = v[j]
  <2>1. CASE j = Len(s) + 1
    BY <1>3, <1>7, <1>8, <2>1
  <2>2. CASE j # Len(s) + 1
    <3>1. j \in 1..Len(s)
      BY <1>1, <1>8, <2>2
    <3> QED BY <1>1, <1>5, <1>8, <3>1
  <2> QED BY <2>1, <2>2
<1>10. Extends(v, u)
  BY <1>9 DEF Extends
<1> QED BY <1>10 DEF v

(* The next subscription is the one that comes next in the turn ahead. *)
LEMMA BindNext ==
    ASSUME NEW c, NEW top, Ids(c, top), NEW d, NEW m \in Nat, Core(d, m), d.kinds = c.kinds,
           Extends(d.bound, c.bound), m + 1 \in DOMAIN c.bound, NEW p, c.bound[m + 1] = p,
           DOMAIN c.bound \subseteq DOMAIN c.kinds,
           NEW kind \in Waited, c.kinds[m + 1] = kind,
           NEW s, NEW u, Rising(s), Rising(u), Extends(s, u),
           Range(s) = BoundIds(d, kind), Range(u) = BoundIds(c, kind)
    PROVE  Extends(Append(s, p), u)
<1>1. p \in Range(u)
  BY DEF BoundIds
<1>2. ASSUME NEW y \in Range(s) PROVE y < p
  <2>1. PICK t \in DOMAIN d.bound : d.kinds[t] = kind /\ y = d.bound[t]
    BY DEF BoundIds
  <2>2. t \in 1..m /\ t \in DOMAIN c.bound /\ c.bound[t] = y
    BY <2>1 DEF Core, Extends
  <2>3. t < m + 1
    BY <2>2
  <2> QED BY <2>2, <2>3 DEF Ids
<1>3. ASSUME NEW y \in Range(u), y < p PROVE y \in Range(s)
  <2>1. PICK t \in DOMAIN c.bound : c.kinds[t] = kind /\ y = c.bound[t]
    BY DEF BoundIds
  <2>2. t \in Nat /\ y \in Nat /\ p \in Nat
    <3>1. t \in DOMAIN d.kinds /\ d.kinds \in Acts
      BY <2>1 DEF Core
    <3>2. t \in Nat
      BY <3>1 DEF Acts
    <3> QED BY <2>1, <3>2 DEF Ids
  <2>3. ~(m + 1 < t) /\ t # m + 1
    BY <1>3, <2>1, <2>2 DEF Ids
  <2>4. t <= m
    BY <2>2, <2>3
  <2>5. t \in DOMAIN d.kinds /\ d.kinds[t] \in Awaited
    BY <2>1 DEF Waited, Awaited
  <2>6. t \in DOMAIN d.bound
    BY <2>4, <2>5 DEF Core, Asked
  <2>7. d.bound[t] = y
    BY <2>1, <2>6 DEF Extends
  <2> QED BY <2>1, <2>6, <2>7 DEF BoundIds
<1> QED BY <1>1, <1>2, <1>3, RisingNext

(* The rest of a list. *)
LEMMA TailRows ==
    ASSUME NEW f, Listed(f), f # <<>>
    PROVE  /\ Len(f) \in Nat \ {0} /\ DOMAIN f = 1..Len(f) /\ Head(f) = f[1]
           /\ Len(Tail(f)) = Len(f) - 1 /\ DOMAIN Tail(f) = 1..(Len(f) - 1)
           /\ \A x \in 1..(Len(f) - 1) : Tail(f)[x] = f[x + 1]
<1>1. Len(f) \in Nat \ {0} /\ DOMAIN f = 1..Len(f) /\ Head(f) = f[1]
  BY DEF Listed
<1> DEFINE l == Len(f) - 1
<1>2. /\ Tail(f) \in Seq(Range(f)) /\ Len(Tail(f)) = l
      /\ \A x \in 1..l : Tail(f)[x] = f[x + 1]
  BY <1>1 DEF Listed
<1>3. DOMAIN Tail(f) = 1..l
  BY <1>2
<1> QED BY <1>1, <1>2, <1>3

(* The next event of the turn ahead is the one that the loop expects. *)
LEMMA TrailsFits ==
    ASSUME NEW w, Listed(w), NEW m, NEW c, Trails(m, c, w), m.fifo # <<>>, m.pos \in Nat,
           Emitted(m.ctx, Unmatched(m), m.fifo), m.ctx.kinds \in Acts, Unmatched(m) \in Nat
    PROVE  LET e == w[m.pos]
               t == Unmatched(m) + 1
           IN  /\ m.pos <= Len(w) /\ Fits(m, e) /\ Head(m.fifo).token = t
               /\ e.kind = IF m.ctx.kinds[t] = "Note" THEN "Noted" ELSE "Scheduled"
               /\ e.what = m.ctx.kinds[t]
               /\ t \in DOMAIN c.bound /\ c.bound[t] = m.pos
<1> DEFINE f == m.fifo
           t == Unmatched(m) + 1
           a == Head(f)
<1>1. Len(f) \in Nat \ {0} /\ DOMAIN f = 1..Len(f) /\ Head(f) = f[1]
  BY TailRows DEF Emitted
<1>2. 1 \in DOMAIN f /\ m.pos + 1 - 1 = m.pos
  BY <1>1
<1>3. /\ a.kind # "ContinueAsNew" /\ a.token \in DOMAIN c.bound /\ c.bound[a.token] = m.pos
      /\ w[m.pos] = action_to_event(a)
  BY <1>1, <1>2 DEF Trails
<1>4. a.token = t /\ a.kind = m.ctx.kinds[t] /\ t \in DOMAIN m.ctx.kinds
  <2>1. Unmatched(m) + Len(f) = Len(m.ctx.kinds) /\ DOMAIN m.ctx.kinds = 1..Len(m.ctx.kinds)
    BY DEF Emitted, Acts
  <2> QED BY <1>1, <1>2, <2>1 DEF Emitted
<1>5. a.kind \in Awaited \cup {"Note"}
  BY <1>4 DEF Acts
<1>6. m.pos <= Len(w)
  <2>1. Len(w) + 1 = m.pos + Len(f) /\ Len(w) \in Nat
    BY DEF Trails, Listed
  <2> QED BY <1>1, <2>1
<1> HIDE DEF a, f, t
<1> DEFINE e == action_to_event(a)
<1>7. /\ e.kind \in {"Scheduled", "Noted"} /\ e.what = a.kind /\ e.data = a.data
      /\ e.kind = "Scheduled" <=> a.kind # "Note"
  BY <1>3, <1>5, ActionEvent
<1> HIDE DEF e
<1>8. Fits(m, e)
  BY <1>7 DEF Fits, action_matches_event_kind, a, f
<1>9. w[m.pos] = e
  BY <1>3 DEF e
<1>10. e.kind = IF a.kind = "Note" THEN "Noted" ELSE "Scheduled"
  BY <1>7
<1> QED BY <1>3, <1>4, <1>6, <1>7, <1>8, <1>9, <1>10 DEF t, a, f

(* What the loop makes of it. *)
LEMMA TrailsApply ==
    ASSUME NEW m, NEW e, DOMAIN m.ctx = CtxFields, m.fifo # <<>>, NEW t, Head(m.fifo).token = t,
           NEW n, n = AfterEvent(m, e), e.kind \in {"Noted", "Scheduled"}
    PROVE  /\ n.pos = m.pos + 1 /\ n.fifo = Tail(m.fifo)
           /\ e.kind = "Noted" => n.ctx = m.ctx /\ ~n.must
           /\ e.kind = "Scheduled" => n.ctx = Bind(m.ctx, t, m.pos) /\ (n.must => e.what = "Queue")
<1>1. n.pos = m.pos + 1 /\ n.fifo = Tail(m.fifo) /\ n.ctx = ContextAfter(m, e)
  BY DEF AfterEvent
<1>2. e.kind = "Noted" => ~n.must
  BY DEF AfterEvent
<1>3. e.kind = "Scheduled" => (n.must => e.what = "Queue")
  BY DEF AfterEvent
<1>4. e.kind = "Noted" => ContextAfter(m, e) = m.ctx
  BY DEF ContextAfter
<1>5. e.kind = "Scheduled" => ContextAfter(m, e) = Bind(m.ctx, t, m.pos)
  BY DEF ContextAfter
<1> QED BY <1>1, <1>2, <1>3, <1>4, <1>5

(* What is left of the actions trails as before. *)
LEMMA TrailsTail ==
    ASSUME NEW m, NEW c, NEW w, Trails(m, c, w), Listed(m.fifo), m.fifo # <<>>, m.pos \in Nat,
           Listed(w), NEW n, n.fifo = Tail(m.fifo), n.pos = m.pos + 1,
           \A i \in CtxFields \ Aside : n.ctx[i] = m.ctx[i],
           Extends(n.ctx.bound, c.bound), Extends(n.ctx.subs, c.subs), Extends(n.ctx.qsubs, c.qsubs)
    PROVE  Trails(n, c, w) /\ Len(n.fifo) + 1 = Len(m.fifo) /\ Len(n.fifo) \in Nat
<1> DEFINE f == m.fifo
           r == Tail(f)
<1>1. /\ Len(f) \in Nat \ {0} /\ DOMAIN f = 1..Len(f)
      /\ Len(r) = Len(f) - 1 /\ DOMAIN r = 1..(Len(f) - 1)
      /\ \A x \in 1..(Len(f) - 1) : r[x] = f[x + 1]
  BY TailRows
<1>2. \A i \in CtxFields \ Aside : n.ctx[i] = c[i]
  BY DEF Trails
<1> HIDE DEF r
<1>3. Len(w) + 1 = n.pos + Len(r)
  BY <1>1 DEF Trails, Listed
<1>4. ASSUME NEW x \in DOMAIN r
      PROVE  /\ r[x].kind # "ContinueAsNew"
             /\ r[x].token \in DOMAIN c.bound /\ c.bound[r[x].token] = n.pos + x - 1
             /\ w[n.pos + x - 1] = action_to_event(r[x])
  <2>1. x + 1 \in DOMAIN f /\ r[x] = f[x + 1] /\ m.pos + (x + 1) - 1 = n.pos + x - 1
    <3> DEFINE p == m.pos
               q == n.pos
               l == Len(f)
    <3>1. x \in 1..(l - 1) /\ l \in Nat /\ p \in Nat /\ q = p + 1 /\ DOMAIN f = 1..l
      BY <1>1
    <3> HIDE DEF p, q, l, f
    <3>2. x + 1 \in 1..l /\ p + (x + 1) - 1 = q + x - 1
      BY <3>1
    <3> QED BY <1>1, <3>1, <3>2 DEF p, q, l
  <2> DEFINE y == x + 1
  <2>2. y \in DOMAIN f /\ r[x] = f[y] /\ m.pos + y - 1 = n.pos + x - 1
    BY <2>1
  <2> HIDE DEF y
  <2>3. /\ f[y].kind # "ContinueAsNew"
        /\ f[y].token \in DOMAIN c.bound /\ c.bound[f[y].token] = m.pos + y - 1
        /\ w[m.pos + y - 1] = action_to_event(f[y])
    BY <2>2 DEF Trails
  <2> QED BY <2>2, <2>3
<1>5. n.fifo = r
  BY DEF r
<1> HIDE DEF f
<1>6. Len(r) + 1 = Len(f) /\ Len(r) \in Nat
  BY <1>1
<1>7. Trails(n, c, w)
  BY <1>2, <1>3, <1>4, <1>5 DEF Trails
<1> QED BY <1>5, <1>6, <1>7 DEF f

(* The next event of the turn ahead is applied. *)
LEMMA TrailsEvent ==
    ASSUME NEW k, NEW w, Runs(k, w), NEW m, Sound(m, w), NEW c, Ahead(c, w), Trails(m, c, w),
           ~m.must, m.fifo # <<>>, ~m.ctx.output
    PROVE  LET n == After(m, k, w)
           IN  /\ Goes(m, k, w) /\ Trails(n, c, w)
               /\ Len(n.fifo) + 1 = Len(m.fifo) /\ Len(n.fifo) \in Nat
               /\ n.must => m.ctx.kinds[Unmatched(m) + 1] = "Queue" /\ Unmatched(n) = Unmatched(m) + 1
<1> DEFINE d == m.ctx
           b == Unmatched(m)
           t == b + 1
           e == w[m.pos]
           n == AfterEvent(m, e)
<1>1. /\ Good(m, w) /\ CalmConf(m, w) /\ EventsOk(w) /\ Soft(w) /\ Listed(w)
      /\ Core(d, b) /\ Emitted(d, b, m.fifo) /\ b \in Nat /\ d.kinds \in Acts
      /\ DOMAIN d = CtxFields /\ m.pos \in Nat /\ Listed(m.fifo)
  BY DEF Sound, Runs, Good, EventsOk, Core, Emitted, Listed
<1>2. /\ m.pos <= Len(w) /\ Fits(m, e) /\ Head(m.fifo).token = t
      /\ e.kind = IF d.kinds[t] = "Note" THEN "Noted" ELSE "Scheduled"
      /\ e.what = d.kinds[t] /\ t \in DOMAIN c.bound /\ c.bound[t] = m.pos
  BY <1>1, TrailsFits
<1>3. Goes(m, k, w) /\ After(m, k, w) = n
  BY <1>2 DEF Goes, After
<1>4. /\ n.pos = m.pos + 1 /\ n.fifo = Tail(m.fifo)
      /\ e.kind = "Noted" => n.ctx = d /\ ~n.must
      /\ e.kind = "Scheduled" => n.ctx = Bind(d, t, m.pos) /\ (n.must => e.what = "Queue")
  <2> HIDE DEF e, t
  <2> QED BY <1>1, <1>2, TrailsApply
<1>5. /\ Extends(d.bound, c.bound) /\ Extends(d.subs, c.subs) /\ Extends(d.qsubs, c.qsubs)
      /\ d.kinds = c.kinds
  BY DEF Trails, CtxFields, Aside
<1>6. CASE d.kinds[t] = "Note"
  <2>1. n.ctx = d /\ ~n.must
    BY <1>2, <1>4, <1>6
  <2> HIDE DEF n
  <2>2. Trails(n, c, w) /\ Len(n.fifo) + 1 = Len(m.fifo) /\ Len(n.fifo) \in Nat
    BY <1>1, <1>4, <1>5, <2>1, TrailsTail
  <2> QED BY <1>3, <2>1, <2>2 DEF n
<1>7. CASE d.kinds[t] # "Note"
  <2>1. n.ctx = Bind(d, t, m.pos) /\ (n.must => d.kinds[t] = "Queue") /\ e.kind = "Scheduled"
    BY <1>2, <1>4, <1>7
  <2>2. Unmatched(n) = b + 1
    BY <1>1, <1>2, <2>1, ScheduleGood
  <2> DEFINE p == m.pos
  <2> HIDE DEF n, e, t, d, p, b
  <2>3. /\ \A i \in CtxFields \ {"bound", "subs", "qsubs"} : Bind(d, t, p)[i] = d[i]
        /\ DOMAIN Bind(d, t, p).bound = DOMAIN d.bound \cup {t}
        /\ \A s \in DOMAIN d.bound \cup {t} :
             Bind(d, t, p).bound[s] = IF s = t THEN p ELSE d.bound[s]
        /\ Bind(d, t, p).subs = IF d.kinds[t] = "External" THEN Append(d.subs, p) ELSE d.subs
        /\ Bind(d, t, p).qsubs = IF d.kinds[t] = "Queue" THEN Append(d.qsubs, p) ELSE d.qsubs
    BY <1>1, BindFacts
  <2>4. Extends(n.ctx.bound, c.bound)
    BY <1>2, <1>5, <2>1, <2>3 DEF Extends, p
  <2>5. /\ Rising(d.subs) /\ Range(d.subs) = BoundIds(d, "External")
        /\ Rising(d.qsubs) /\ Range(d.qsubs) = BoundIds(d, "Queue")
        /\ Rising(c.subs) /\ Range(c.subs) = BoundIds(c, "External")
        /\ Rising(c.qsubs) /\ Range(c.qsubs) = BoundIds(c, "Queue")
    BY <1>1 DEF CalmConf, Ahead, Mail, d
  <2>6. DOMAIN c.bound \subseteq DOMAIN c.kinds /\ Ids(c, Len(w))
    <3>1. Core(c, Len(c.kinds)) /\ Ids(c, Len(w))
      BY DEF Ahead
    <3>2. c.kinds \in Acts /\ DOMAIN c.bound \subseteq 1..Len(c.kinds)
      BY <3>1 DEF Core
    <3> QED BY <3>1, <3>2 DEF Acts
  <2>7. \A kind, s, u :
          /\ kind \in Waited /\ d.kinds[t] = kind /\ Rising(s) /\ Rising(u) /\ Extends(s, u)
          /\ Range(s) = BoundIds(d, kind) /\ Range(u) = BoundIds(c, kind)
          => Extends(Append(s, p), u)
    <3>1. b + 1 \in DOMAIN c.bound /\ c.bound[b + 1] = p /\ d.kinds[b + 1] = d.kinds[t]
      BY <1>2 DEF t, p
    <3> QED BY <1>1, <1>5, <2>6, <3>1, BindNext
  <2>8. "External" \in Waited /\ "Queue" \in Waited
    BY DEF Waited
  <2>9. Extends(n.ctx.subs, c.subs)
    BY <1>5, <2>1, <2>3, <2>5, <2>7, <2>8 DEF p
  <2>10. Extends(n.ctx.qsubs, c.qsubs)
    BY <1>5, <2>1, <2>3, <2>5, <2>7, <2>8 DEF p
  <2>11. \A i \in CtxFields \ Aside : n.ctx[i] = m.ctx[i]
    BY <2>1, <2>3 DEF Aside, p, d
  <2>12. Trails(n, c, w) /\ Len(n.fifo) + 1 = Len(m.fifo) /\ Len(n.fifo) \in Nat
    BY <1>1, <1>4, <2>4, <2>9, <2>10, <2>11, TrailsTail
  <2> QED BY <1>3, <2>1, <2>2, <2>12 DEF n, t, d, b
<1> QED BY <1>6, <1>7

(* A poll that comes too early while the loop trails. *)
LEMMA TrailsPoll ==
    ASSUME NEW k, NEW w, Runs(k, w), NEW m, Sound(m, w), NEW c, Trails(m, c, w),
           m.must, ~Ready(m.ctx), ~m.ctx.output
    PROVE  LET n == After(m, k, w)
           IN  Goes(m, k, w) /\ Trails(n, c, w) /\ n.fifo = m.fifo /\ ~n.must
<1> DEFINE n == AfterPoll(m, k)
           d == m.ctx
           p == poll(d, k)
<1>1. Goes(m, k, w) /\ After(m, k, w) = n
  BY DEF Goes, After
<1>2. /\ n.ctx = p.ctx /\ n.fifo = m.fifo \o p.emitted /\ n.pos = m.pos /\ ~n.must
  BY DEF AfterPoll
<1>3. Core(d, Unmatched(m)) /\ CodeOk(k) /\ Listed(m.fifo) /\ DOMAIN d = CtxFields
  BY DEF Sound, Good, Runs, Emitted, Core
<1> HIDE DEF n, d
<1>4. Polled(d, p.ctx) /\ p.emitted = <<>>
  BY <1>3, PollCases DEF d
<1>5. n.fifo = m.fifo
  <2> DEFINE f == m.fifo
  <2>1. f \o <<>> = f
    <3> HIDE DEF f
    <3>1. f \in Seq(Range(f))
      BY <1>3 DEF Listed, f
    <3> QED BY <3>1
  <2> QED BY <1>2, <1>4, <2>1
<1>6. \A i \in CtxFields \ {"got"} : n.ctx[i] = d[i]
  BY <1>2, <1>3, <1>4 DEF Polled
<1>7. /\ n.ctx.bound = d.bound /\ n.ctx.subs = d.subs /\ n.ctx.qsubs = d.qsubs
      /\ \A i \in CtxFields \ Aside : n.ctx[i] = d[i]
  BY <1>6 DEF CtxFields, Aside
<1>8. Trails(n, c, w)
  BY <1>2, <1>5, <1>7 DEF Trails, d
<1> QED BY <1>1, <1>2, <1>5, <1>8 DEF n

(* Code that asks for a message and has none joins what it waits for. *)
LEMMA QueueJoins ==
    ASSUME NEW c, NEW m \in Nat, Core(c, m), Calm(c), m + 1 \in DOMAIN c.kinds,
           c.kinds[m + 1] = "Queue"
    PROVE  c.wait = "all"
<1> DEFINE t == m + 1
<1>1. t \notin DOMAIN c.bound /\ t \in DOMAIN c.kinds /\ c.kinds[t] \in Waited
  <2>1. DOMAIN c.bound \subseteq 1..m
    BY DEF Core
  <2> QED BY <2>1 DEF Waited
<1> HIDE DEF t
<1>2. t \in Range(c.awaits)
  BY <1>1 DEF Calm
<1>3. c.wait # "any"
  BY <1>1, <1>2 DEF Calm
<1> QED BY <1>3 DEF Core

(* The loop comes to the end of the turn ahead, or to its next round. *)
LEMMA CatchUp ==
    ASSUME NEW k, NEW w, Runs(k, w), NEW c, Ahead(c, w), ~c.output,
           NEW start, Reach(start, k, w), Trails(start, c, w), ~start.must
    PROVE  \E m : Reach(m, k, w) /\ (Caught(m, c, w) \/ Halted(m, c, w))
<1> DEFINE L == Len(start.fifo)
           At(m, j) == /\ Reach(m, k, w)
                       /\ Halted(m, c, w) \/ (Trails(m, c, w) /\ ~m.must /\ Len(m.fifo) = L - j)
           T == {j \in 0..L : \E m : At(m, j)}
<1>1. \A m : Reach(m, k, w) => Sound(m, w) /\ Listed(m.fifo)
  BY ReachSound DEF Sound, Good, Emitted
<1>2. L \in Nat /\ L \in 0..L
  BY <1>1 DEF Listed
<1>3. 0 \in T
  <2>1. At(start, 0)
    BY <1>2
  <2> HIDE DEF At
  <2> QED BY <1>2, <2>1
<1>4. \A m : Trails(m, c, w) => ~m.ctx.output /\ m.ctx.wait = c.wait /\ m.ctx.kinds = c.kinds
  BY DEF Trails, CtxFields, Aside
<1>5. ASSUME NEW j \in 0..(L - 1), j \in T PROVE j + 1 \in T
  <2>1. PICK m : At(m, j)
    BY <1>5
  <2>2. j + 1 \in 0..L /\ L - (j + 1) + 1 = L - j
    BY <1>2
  <2>3. CASE Halted(m, c, w)
    <3>1. At(m, j + 1)
      BY <2>1, <2>3
    <3> HIDE DEF At
    <3> QED BY <2>2, <3>1
  <2>4. CASE ~Halted(m, c, w)
    <3>1. Reach(m, k, w) /\ Trails(m, c, w) /\ ~m.must /\ Len(m.fifo) = L - j /\ Sound(m, w)
          /\ ~m.ctx.output
      BY <1>1, <1>4, <2>1, <2>4
    <3>2. m.fifo # <<>>
      BY <1>2, <2>2, <3>1
    <3> DEFINE n == After(m, k, w)
               b == Unmatched(m)
    <3>3. /\ Goes(m, k, w) /\ Trails(n, c, w)
          /\ Len(n.fifo) + 1 = Len(m.fifo) /\ Len(n.fifo) \in Nat
          /\ n.must => m.ctx.kinds[b + 1] = "Queue" /\ Unmatched(n) = b + 1
      BY <3>1, <3>2, TrailsEvent
    <3> HIDE DEF n
    <3>4. Reach(n, k, w) /\ Sound(n, w)
      <4>1. Reach(n, k, w)
        BY <3>1, <3>3, ReachStep DEF n
      <4> QED BY <1>1, <4>1
    <3>5. Len(n.fifo) = L - (j + 1)
      BY <1>2, <2>2, <3>1, <3>3
    <3>6. CASE ~n.must
      <4>1. At(n, j + 1)
        BY <3>3, <3>4, <3>5, <3>6
      <4> HIDE DEF At
      <4> QED BY <2>2, <4>1
    <3>7. CASE n.must /\ Ready(n.ctx)
      <4>1. b \in Nat /\ Core(m.ctx, b) /\ Calm(m.ctx) /\ b + 1 \in DOMAIN m.ctx.kinds
        <5>1. Core(m.ctx, b) /\ Emitted(m.ctx, b, m.fifo) /\ Calm(m.ctx)
          BY <3>1 DEF Sound, Good, CalmConf
        <5>2. b \in Nat /\ m.ctx.kinds \in Acts
          BY <5>1 DEF Core
        <5> HIDE DEF b
        <5>3. b < Len(m.ctx.kinds)
          BY <3>2, <5>1, <5>2, HeadFacts
        <5> QED BY <5>1, <5>2, <5>3 DEF Acts
      <4> HIDE DEF b
      <4>2. m.ctx.wait = "all"
        BY <3>3, <3>7, <4>1, QueueJoins
      <4>3. n.ctx.wait = "all"
        BY <1>4, <3>1, <3>3, <4>2
      <4>4. Halted(n, c, w)
        BY <3>3, <3>7, <4>3 DEF Halted
      <4>5. At(n, j + 1)
        BY <3>4, <4>4
      <4> HIDE DEF At
      <4> QED BY <2>2, <4>5
    <3>8. CASE n.must /\ ~Ready(n.ctx)
      <4> DEFINE q == After(n, k, w)
      <4>1. ~n.ctx.output
        BY <1>4, <3>3
      <4>2. Goes(n, k, w) /\ Trails(q, c, w) /\ q.fifo = n.fifo /\ ~q.must
        BY <3>3, <3>4, <3>8, <4>1, TrailsPoll
      <4>3. Reach(q, k, w)
        BY <3>4, <4>2, ReachStep
      <4> HIDE DEF q
      <4>4. At(q, j + 1)
        BY <3>5, <4>2, <4>3
      <4> HIDE DEF At
      <4> QED BY <2>2, <4>4
    <3> QED BY <3>6, <3>7, <3>8
  <2> QED BY <2>3, <2>4
<1> HIDE DEF T
<1>6. \A j \in 0..L : j \in T
  <2> HIDE DEF L
  <2> QED BY <1>2, <1>3, <1>5, CountUp
<1>7. PICK m : At(m, L)
  BY <1>2, <1>6 DEF T
<1>8. CASE Halted(m, c, w)
  BY <1>7, <1>8
<1>9. CASE ~Halted(m, c, w)
  <2>1. Reach(m, k, w) /\ Trails(m, c, w) /\ ~m.must /\ Len(m.fifo) = L - L
    BY <1>7, <1>9
  <2>2. Listed(m.fifo)
    BY <1>1, <2>1
  <2>3. m.fifo = <<>>
    <3> DEFINE f == m.fifo
    <3>1. f \in Seq(Range(f)) /\ Len(f) = 0
      BY <1>2, <2>1, <2>2 DEF Listed
    <3> HIDE DEF f
    <3>2. f = <<>>
      BY <3>1
    <3> QED BY <3>2 DEF f
  <2> QED BY <2>1, <2>3 DEF Caught
<1> QED BY <1>8, <1>9

(* The list v is the list s and behind it the list u. *)
Chained(s, u, v) ==
  /\ Listed(v) /\ Len(s) \in Nat /\ Len(u) \in Nat /\ Len(v) = Len(s) + Len(u)
  /\ DOMAIN s = 1..Len(s) /\ DOMAIN u = 1..Len(u) /\ DOMAIN v = 1..Len(v)
  /\ \A x \in 1..Len(s) : v[x] = s[x]
  /\ \A x \in 1..Len(u) : v[Len(s) + x] = u[x]

(* A list behind a list. *)
LEMMA ChainedIs == ASSUME NEW s, Listed(s), NEW u, Listed(u), NEW v, v = s \o u PROVE Chained(s, u, v)
<1>1. /\ Listed(v) /\ Len(v) = Len(s) + Len(u)
      /\ Len(s) \in Nat /\ Len(u) \in Nat
      /\ DOMAIN s = 1..Len(s) /\ DOMAIN u = 1..Len(u)
      /\ DOMAIN v = 1..(Len(s) + Len(u))
      /\ \A k \in 1..Len(s) : v[k] = s[k]
      /\ \A k \in (Len(s) + 1)..(Len(s) + Len(u)) : v[k] = u[k - Len(s)]
  BY ConcatList
<1>2. ASSUME NEW x \in 1..Len(u) PROVE v[Len(s) + x] = u[x]
  <2>1. Len(s) + x \in (Len(s) + 1)..(Len(s) + Len(u)) /\ (Len(s) + x) - Len(s) = x
    BY <1>1
  <2> QED BY <1>1, <2>1
<1> QED BY <1>1, <1>2 DEF Chained

(* A place behind the first list is one of the second. *)
LEMMA ChainedParts ==
    ASSUME NEW s, NEW u, NEW v, Chained(s, u, v), NEW x \in DOMAIN v
    PROVE  \/ x \in DOMAIN s /\ v[x] = s[x]
           \/ \E y \in DOMAIN u : x = Len(s) + y /\ v[x] = u[y]
<1>1. CASE x <= Len(s)
  BY <1>1 DEF Chained
<1>2. CASE x > Len(s)
  <2> DEFINE y == x - Len(s)
  <2>1. y \in 1..Len(u) /\ x = Len(s) + y
    BY <1>2 DEF Chained
  <2> HIDE DEF y
  <2> QED BY <2>1 DEF Chained
<1> QED BY <1>1, <1>2 DEF Chained

(* Actions that do not end the execution. *)
Lasting(f) == Listed(f) /\ \A x \in DOMAIN f : f[x].kind # "ContinueAsNew"

(* Events are added to those of the turn. *)
Writes(d, w, new, w2) ==
  Listed(history) /\ Listed(d) /\ w = history \o d /\ w2 = history \o new.delta

(* The loop has more actions to match. *)
Follows(old, f, n) ==
  /\ Listed(old.fifo) /\ old.pos \in Nat \ {0}
  /\ n.ctx = old.ctx /\ n.pos = old.pos /\ n.fifo = old.fifo \o f

(* More actions become events while the loop has not come to the first. *)
LEMMA ConvertTrails ==
    ASSUME NEW c, NEW d, NEW f, NEW new, Exactly(c, d, f, Len(f), new), Lasting(f),
           NEW w, NEW w2, Writes(d, w, new, w2),
           NEW old, Trails(old, c, w), NEW n, Follows(old, f, n)
    PROVE  Trails(n, new.ctx, w2) /\ \A k : Wider(k, w, k, w2)
<1> DEFINE g == old.fifo
           h == Len(history)
           u == new.delta
           p == old.pos
           q == n.fifo
           b == new.ctx.bound
<1>0. /\ Listed(history) /\ Listed(d) /\ w = history \o d /\ w2 = history \o new.delta
      /\ Listed(f) /\ \A x \in DOMAIN f : f[x].kind # "ContinueAsNew"
      /\ Listed(old.fifo) /\ old.pos \in Nat \ {0}
      /\ n.ctx = old.ctx /\ n.pos = old.pos /\ n.fifo = old.fifo \o f
  BY DEF Writes, Lasting, Follows
<1>1. /\ Listed(u) /\ Len(u) = Len(d) + Len(f)
      /\ \A x \in 1..Len(d) : u[x] = d[x]
      /\ \A x \in 1..Len(f) : u[Len(d) + x] = action_to_event(f[x])
      /\ Extends(c.bound, b)
      /\ Extends(c.subs, new.ctx.subs) /\ Extends(c.qsubs, new.ctx.qsubs)
      /\ \A i \in CtxFields \ {"bound", "subs", "qsubs"} : new.ctx[i] = c[i]
      /\ \A x \in 1..Len(f) : f[x].token \in DOMAIN b /\ b[f[x].token] = h + Len(d) + x
  BY DEF Exactly
<1>2. Len(w) + 1 = p + Len(g)
  BY DEF Trails
<1>3. /\ \A i \in CtxFields \ Aside : n.ctx[i] = c[i]
      /\ Extends(n.ctx.bound, c.bound) /\ Extends(n.ctx.subs, c.subs) /\ Extends(n.ctx.qsubs, c.qsubs)
  BY <1>0 DEF Trails
<1>4. \A x \in DOMAIN g :
           /\ g[x].kind # "ContinueAsNew"
           /\ g[x].token \in DOMAIN c.bound /\ c.bound[g[x].token] = p + x - 1
           /\ w[p + x - 1] = action_to_event(g[x])
  BY DEF Trails
<1>5. Chained(history, d, w) /\ Chained(history, u, w2) /\ Chained(g, f, q)
  BY <1>0, <1>1, ChainedIs
<1>6. p \in Nat /\ p >= 1 /\ n.pos = p
  BY <1>0
<1> HIDE DEF g, h, u, p, q, b
<1>7. /\ h \in Nat /\ Len(d) \in Nat /\ Len(f) \in Nat /\ Len(g) \in Nat
      /\ DOMAIN f = 1..Len(f) /\ DOMAIN g = 1..Len(g) /\ DOMAIN d = 1..Len(d) /\ DOMAIN u = 1..Len(u)
      /\ Len(w) = h + Len(d) /\ Len(w2) = h + Len(u) /\ Len(q) = Len(g) + Len(f)
      /\ DOMAIN w = 1..Len(w)
  BY <1>5 DEF Chained, h
<1>8. /\ \A x \in 1..h : w2[x] = history[x]
      /\ \A x \in 1..Len(u) : w2[h + x] = u[x]
      /\ \A x \in 1..h : w[x] = history[x]
      /\ \A x \in 1..Len(d) : w[h + x] = d[x]
      /\ DOMAIN history = 1..h
  BY <1>5 DEF Chained, h
<1>9. ASSUME NEW x \in DOMAIN w PROVE w2[x] = w[x]
  <2>1. CASE x \in DOMAIN history
    BY <1>8, <2>1
  <2>2. CASE \E y \in DOMAIN d : x = Len(history) + y
    <3>1. PICK y \in DOMAIN d : x = h + y
      BY <2>2 DEF h
    <3>2. y \in 1..Len(d) /\ y \in 1..Len(u)
      BY <1>1, <1>7, <3>1
    <3> QED BY <1>1, <1>8, <3>1, <3>2
  <2>3. \/ x \in DOMAIN history /\ w[x] = history[x]
        \/ \E y \in DOMAIN d : x = Len(history) + y /\ w[x] = d[y]
    BY <1>5, ChainedParts
  <2> QED BY <2>1, <2>2, <2>3
<1>10. ASSUME NEW x \in 1..Len(f) PROVE w2[Len(w) + x] = action_to_event(f[x])
  <2> DEFINE y == Len(d) + x
  <2>1. y \in 1..Len(u) /\ Len(w) + x = h + y
    BY <1>1, <1>7
  <2>2. u[y] = action_to_event(f[x])
    BY <1>1
  <2> HIDE DEF y
  <2> QED BY <1>8, <2>1, <2>2
<1>11. Len(w2) + 1 = p + Len(q)
  <2> DEFINE lu == Len(u)
             ld == Len(d)
             lf == Len(f)
             lg == Len(g)
             lw == Len(w)
             lv == Len(w2)
             lq == Len(q)
  <2>1. /\ lu = ld + lf /\ lw + 1 = p + lg /\ lw = h + ld /\ lv = h + lu /\ lq = lg + lf
        /\ h \in Nat /\ ld \in Nat /\ lf \in Nat /\ lg \in Nat /\ p \in Nat
    BY <1>1, <1>2, <1>6, <1>7
  <2> HIDE DEF lu, ld, lf, lg, lw, lv, lq
  <2>2. lv + 1 = p + lq
    BY <2>1
  <2> QED BY <2>2 DEF lv, lq
<1>12. ASSUME NEW x \in DOMAIN q
       PROVE  /\ q[x].kind # "ContinueAsNew"
              /\ q[x].token \in DOMAIN b /\ b[q[x].token] = p + x - 1
              /\ w2[p + x - 1] = action_to_event(q[x])
  <2>1. CASE x \in DOMAIN g /\ q[x] = g[x]
    <3>1. p + x - 1 \in DOMAIN w
      BY <1>2, <1>6, <1>7, <2>1
    <3> DEFINE y == p + x - 1
    <3>2. w2[y] = w[y]
      BY <1>9, <3>1
    <3>3. /\ g[x].kind # "ContinueAsNew" /\ w[y] = action_to_event(g[x])
          /\ g[x].token \in DOMAIN c.bound /\ c.bound[g[x].token] = y
      BY <1>4, <2>1
    <3> HIDE DEF y
    <3>4. g[x].token \in DOMAIN b /\ b[g[x].token] = y
      BY <1>1, <3>3 DEF Extends
    <3>5. q[x].kind # "ContinueAsNew" /\ q[x].token \in DOMAIN b /\ b[q[x].token] = y
          /\ w2[y] = action_to_event(q[x])
      BY <2>1, <3>2, <3>3, <3>4
    <3> QED BY <3>5 DEF y
  <2>2. CASE \E y \in DOMAIN f : x = Len(g) + y /\ q[x] = f[y]
    <3>1. PICK y \in DOMAIN f : x = Len(g) + y /\ q[x] = f[y]
      BY <2>2
    <3>2. p + x - 1 = Len(w) + y /\ Len(w) + y = h + Len(d) + y /\ y \in 1..Len(f)
      <4> DEFINE ld == Len(d)
                 lf == Len(f)
                 lg == Len(g)
                 lw == Len(w)
      <4>1. /\ lw + 1 = p + lg /\ lw = h + ld /\ x = lg + y /\ y \in 1..lf
            /\ h \in Nat /\ ld \in Nat /\ lf \in Nat /\ lg \in Nat /\ p \in Nat
        BY <1>2, <1>6, <1>7, <3>1
      <4> HIDE DEF ld, lf, lg, lw
      <4>2. y \in Nat /\ x \in Nat /\ lw \in Nat
        BY <4>1
      <4>3. p + x - 1 = lw + y
        <5>1. lw + 1 = p + lg /\ x = lg + y /\ p \in Nat /\ lg \in Nat
          BY <4>1
        <5>2. y \in Nat /\ x \in Nat /\ lw \in Nat
          BY <4>2
        <5>3. p + x = p + (lg + y)
          BY <5>1
        <5>4. p + (lg + y) = (p + lg) + y
          BY <5>1, <5>2
        <5>5. p + x = (lw + 1) + y
          BY <5>1, <5>3, <5>4
        <5>6. (lw + 1) + y = (lw + y) + 1
          BY <5>2
        <5>7. ((lw + y) + 1) - 1 = lw + y
          BY <5>2
        <5>8. (p + x) - 1 = lw + y
          BY <5>5, <5>6, <5>7
        <5>9. p + (x - 1) = (p + x) - 1
          BY <5>1, <5>2
        <5> QED BY <5>8, <5>9
      <4>4. lw + y = h + ld + y
        BY <4>1
      <4>5. p + x - 1 = lw + y /\ lw + y = h + ld + y /\ y \in 1..lf
        BY <4>1, <4>3, <4>4
      <4> QED BY <4>5 DEF lw, ld, lf
    <3> DEFINE z == p + x - 1
    <3>3. z = Len(w) + y /\ z = h + Len(d) + y
      BY <3>2
    <3> HIDE DEF z
    <3>4. f[y].kind # "ContinueAsNew"
      BY <1>0, <3>1
    <3>5. f[y].token \in DOMAIN b /\ b[f[y].token] = z
      BY <1>1, <3>2, <3>3
    <3>6. w2[z] = action_to_event(f[y])
      BY <1>10, <3>2, <3>3
    <3>7. q[x].kind # "ContinueAsNew" /\ q[x].token \in DOMAIN b /\ b[q[x].token] = z
          /\ w2[z] = action_to_event(q[x])
      BY <3>1, <3>4, <3>5, <3>6
    <3> QED BY <3>7 DEF z
  <2>3. \/ x \in DOMAIN g /\ q[x] = g[x]
        \/ \E y \in DOMAIN f : x = Len(g) + y /\ q[x] = f[y]
    BY <1>5, ChainedParts
  <2> QED BY <2>1, <2>2, <2>3
<1>13. /\ Extends(n.ctx.bound, new.ctx.bound) /\ Extends(n.ctx.subs, new.ctx.subs)
       /\ Extends(n.ctx.qsubs, new.ctx.qsubs)
  BY <1>1, <1>3, ExtendsOn DEF b
<1>14. \A i \in CtxFields \ Aside : n.ctx[i] = new.ctx[i]
  BY <1>1, <1>3 DEF Aside
<1>15. Trails(n, new.ctx, w2)
  BY <1>6, <1>11, <1>12, <1>13, <1>14 DEF Trails, q, b
<1>16. Listed(w2) /\ Len(w) <= Len(w2)
  <2>1. Listed(w2)
    BY <1>5 DEF Chained
  <2>2. Len(w2) = h + (Len(d) + Len(f))
    BY <1>1, <1>7
  <2> QED BY <1>7, <2>1, <2>2
<1> QED BY <1>9, <1>15, <1>16 DEF Wider

(* What is ahead has what the loop has, or more. *)
LEMMA TrailsGrows ==
    ASSUME NEW m, NEW c, NEW w, Trails(m, c, w)
    PROVE  /\ GrowsTo(m.ctx, c) /\ m.ctx.kinds = c.kinds /\ m.ctx.awaits = c.awaits
           /\ m.ctx.wait = c.wait /\ m.ctx.seen = c.seen /\ m.ctx.dropped = c.dropped
           /\ m.ctx.output = c.output /\ m.ctx.results = c.results
           /\ m.ctx.arrivals = c.arrivals /\ m.ctx.qarrivals = c.qarrivals
<1>1. \A i \in CtxFields \ Aside : m.ctx[i] = c[i]
  BY DEF Trails
<1>2. /\ m.ctx.kinds = c.kinds /\ m.ctx.awaits = c.awaits
      /\ m.ctx.wait = c.wait /\ m.ctx.seen = c.seen /\ m.ctx.dropped = c.dropped
      /\ m.ctx.output = c.output /\ m.ctx.results = c.results
      /\ m.ctx.arrivals = c.arrivals /\ m.ctx.qarrivals = c.qarrivals
  BY <1>1 DEF CtxFields, Aside
<1>3. Extends(m.ctx.bound, c.bound) /\ Extends(m.ctx.subs, c.subs) /\ Extends(m.ctx.qsubs, c.qsubs)
  BY DEF Trails
<1> QED BY <1>2, <1>3, SelfExtends DEF GrowsTo

(* The loop has bound all that the code has asked for. *)
LEMMA CaughtBound ==
    ASSUME NEW m, NEW w, Good(m, w), m.fifo = <<>>
    PROVE  Core(m.ctx, Len(m.ctx.kinds))
<1>1. Core(m.ctx, Unmatched(m)) /\ Emitted(m.ctx, Unmatched(m), m.fifo)
  BY DEF Good
<1>2. Unmatched(m) + 0 = Len(m.ctx.kinds) /\ Unmatched(m) \in Nat
  <2> DEFINE e == <<>>
  <2>1. Len(e) = 0
    BY NoRow
  <2> HIDE DEF e
  <2>2. m.fifo = e
    BY DEF e
  <2>3. Unmatched(m) + Len(e) = Len(m.ctx.kinds)
    BY <1>1, <2>2 DEF Emitted
  <2>4. Unmatched(m) \in Nat
    BY <1>1 DEF Core
  <2> QED BY <2>1, <2>3, <2>4
<1>3. Unmatched(m) = Len(m.ctx.kinds)
  BY <1>2
<1> QED BY <1>1, <1>3

(* Having caught up, the loop has what the turn ahead had. *)
LEMMA CaughtSame ==
    ASSUME NEW m, NEW w, Sound(m, w), NEW c, Ahead(c, w), Caught(m, c, w), ~m.ctx.output
    PROVE  /\ ~Ready(c)
           /\ Full(c) => Observed(m.ctx) = Observed(c)
           /\ \A kind : DroppedIds(m.ctx, kind) = DroppedIds(c, kind)
<1> DEFINE d == m.ctx
<1>1. /\ GrowsTo(d, c) /\ d.kinds = c.kinds /\ d.awaits = c.awaits
      /\ d.wait = c.wait /\ d.seen = c.seen /\ d.dropped = c.dropped /\ d.results = c.results
      /\ d.arrivals = c.arrivals /\ d.qarrivals = c.qarrivals
  BY TrailsGrows DEF Caught
<1>2. /\ Core(d, Len(d.kinds)) /\ Calm(d) /\ Mail(d) /\ Full(d) /\ Tabled(d.got)
  BY CaughtBound DEF Caught, Sound, CalmConf
<1>3. Core(c, Len(c.kinds)) /\ Calm(c) /\ Mail(c) /\ Tabled(c.got)
  BY DEF Ahead
<1> HIDE DEF d
<1>4. /\ DOMAIN d.bound \subseteq DOMAIN d.kinds /\ Asked(d) \subseteq DOMAIN d.bound
      /\ DOMAIN c.bound \subseteq DOMAIN c.kinds /\ Asked(c) \subseteq DOMAIN c.bound
      /\ Range(d.awaits) \subseteq Asked(d) /\ Asked(c) = Asked(d)
  <2>1. ASSUME NEW x, Core(x, Len(x.kinds))
        PROVE  /\ DOMAIN x.bound \subseteq DOMAIN x.kinds /\ Asked(x) \subseteq DOMAIN x.bound
               /\ Range(x.awaits) \subseteq Asked(x)
    <3>1. /\ x.kinds \in Acts /\ DOMAIN x.bound \subseteq 1..Len(x.kinds)
          /\ \A t \in Asked(x) : t <= Len(x.kinds) => t \in DOMAIN x.bound
          /\ Range(x.awaits) \subseteq Asked(x)
      BY <2>1 DEF Core
    <3>2. DOMAIN x.kinds = 1..Len(x.kinds) /\ Len(x.kinds) \in Nat
      BY <3>1 DEF Acts
    <3>3. \A t \in Asked(x) : t <= Len(x.kinds)
      BY <3>2 DEF Asked
    <3> QED BY <3>1, <3>2, <3>3
  <2>2. Asked(c) = Asked(d)
    BY <1>1 DEF Asked
  <2> QED BY <1>2, <1>3, <2>1, <2>2
<1>5. ASSUME NEW t \in Range(d.awaits)
      PROVE  Resolve(d, t) = Resolve(c, t) /\ Given(d, t) = Given(c, t)
  <2>1. t \in DOMAIN d.bound
    BY <1>4
  <2>2. Resolve(d, t) = Resolve(c, t)
    BY <1>1, <1>2, <1>3, <2>1, ResolveGrows
  <2>3. Given(d, t) = Resolve(d, t)
    BY <1>2, GivenIs
  <2>4. Given(c, t) = Resolve(c, t)
    BY <1>1, <1>3, GivenIs
  <2> QED BY <2>2, <2>3, <2>4
<1>6. Completed(c) = Completed(d)
  BY <1>1, <1>5 DEF Completed, Range
<1>7. ~Ready(c)
  BY <1>1, <1>2, <1>6 DEF Ready, Full
<1>8. \A t \in Asked(d) : d.bound[t] = c.bound[t]
  BY <1>1, <1>4 DEF GrowsTo, Extends
<1>9. ASSUME NEW kind PROVE DroppedIds(d, kind) = DroppedIds(c, kind)
  <2>1. d.dropped \subseteq Asked(d)
    BY <1>2 DEF Core
  <2>2. d.dropped \cap DOMAIN d.bound = d.dropped /\ c.dropped \cap DOMAIN c.bound = d.dropped
    BY <1>1, <1>4, <2>1
  <2> QED BY <1>1, <1>8, <2>1, <2>2 DEF DroppedIds
<1>10. ASSUME Full(c) PROVE Observed(d) = Observed(c)
  <2>1. DOMAIN d.got = Range(d.awaits) /\ DOMAIN c.got = Range(d.awaits)
    BY <1>1, <1>2, <1>3 DEF Core
  <2>2. \A t \in Range(d.awaits) : d.got[t] = c.got[t]
    <3>1. CASE d.wait = "all"
      BY <1>1, <1>2, <1>5, <1>10, <3>1 DEF Full
    <3>2. CASE d.wait = "any"
      BY <1>1, <1>2, <1>3, <3>2 DEF Calm
    <3> QED BY <1>2, <3>1, <3>2 DEF Core
  <2>3. d.got = c.got
    <3>1. [t \in DOMAIN d.got |-> d.got[t]] = [t \in DOMAIN c.got |-> c.got[t]]
      BY <2>1, <2>2
    <3> QED BY <1>2, <1>3, <3>1 DEF Tabled
  <2>4. {x \in DOMAIN d.bound : d.kinds[x] \in Awaited} = Asked(d)
    BY <1>4 DEF Asked
  <2>5. {x \in DOMAIN c.bound : c.kinds[x] \in Awaited} = Asked(d)
    BY <1>4 DEF Asked
  <2>6. [t \in {x \in DOMAIN d.bound : d.kinds[x] \in Awaited} |-> d.bound[t]] =
        [t \in {x \in DOMAIN c.bound : c.kinds[x] \in Awaited} |-> c.bound[t]]
    BY <1>8, <2>4, <2>5
  <2> QED BY <1>1, <2>3, <2>6 DEF Observed
<1> QED BY <1>7, <1>9, <1>10 DEF d

(* A join that the loop can leave, the turn ahead can leave as well. *)
LEMMA HaltedReady ==
    ASSUME NEW m, NEW w, Sound(m, w), NEW c, Ahead(c, w), Halted(m, c, w)
    PROVE  Ready(c) /\ Seen(c) = Seen(m.ctx)
<1> DEFINE d == m.ctx
<1>1. /\ GrowsTo(d, c) /\ d.kinds = c.kinds /\ d.awaits = c.awaits
      /\ d.wait = c.wait /\ d.seen = c.seen /\ d.wait = "all" /\ Ready(d)
  BY TrailsGrows DEF Halted
<1>2. Calm(d) /\ Mail(d) /\ Calm(c) /\ Mail(c)
  BY DEF Sound, CalmConf, Ahead
<1> HIDE DEF d
<1>3. Completed(d) = DOMAIN d.awaits
  BY <1>1 DEF Ready
<1>4. ASSUME NEW x \in DOMAIN d.awaits
      PROVE  Given(d, d.awaits[x]) # None /\ Given(c, d.awaits[x]) = Given(d, d.awaits[x])
  <2> DEFINE t == d.awaits[x]
  <2>1. Given(d, t) # None /\ t \in Range(d.awaits)
    BY <1>3 DEF Completed, Range
  <2> HIDE DEF t
  <2>2. Given(d, t) = Resolve(d, t) /\ Given(c, t) = Resolve(c, t)
    BY <1>1, <1>2, <2>1, GivenIs
  <2>3. Resolve(d, t) # None => Resolve(c, t) = Resolve(d, t)
    BY <1>1, <1>2, ResolveGrows
  <2>4. Given(d, t) # None /\ Given(c, t) = Given(d, t)
    BY <2>1, <2>2, <2>3
  <2> QED BY <2>4 DEF t
<1>5. Completed(c) = DOMAIN c.awaits
  BY <1>1, <1>4 DEF Completed
<1>6. Ready(c)
  BY <1>1, <1>5 DEF Ready
<1>7. Outcome(c) = [x \in DOMAIN c.awaits |-> <<c.awaits[x], Given(c, c.awaits[x])>>]
  BY <1>1 DEF Outcome
<1>8. Outcome(d) = [x \in DOMAIN d.awaits |-> <<d.awaits[x], Given(d, d.awaits[x])>>]
  BY <1>1 DEF Outcome
<1>9. Outcome(c) = Outcome(d)
  BY <1>1, <1>4, <1>7, <1>8
<1> QED BY <1>1, <1>6, <1>9 DEF Seen, d

(* The round that both enter is the same. *)
LEMMA EnterSame ==
    ASSUME NEW c, NEW m, Core(c, m), NEW d, NEW n, Core(d, n), NEW r, RoundOk(r),
           d.kinds = c.kinds, Seen(d) = Seen(c), d.wait = "all", c.wait = "all",
           d.dropped = c.dropped, d.results = c.results, d.arrivals = c.arrivals,
           d.qarrivals = c.qarrivals
    PROVE  LET p == Enter(c, r)
               q == Enter(d, r)
           IN  /\ q.emitted = p.emitted
               /\ \A i \in CtxFields \ Aside : q.ctx[i] = p.ctx[i]
               /\ q.ctx.bound = d.bound /\ q.ctx.subs = d.subs /\ q.ctx.qsubs = d.qsubs
               /\ p.ctx.bound = c.bound /\ p.ctx.subs = c.subs /\ p.ctx.qsubs = c.qsubs
<1> DEFINE p == Enter(c, r)
           q == Enter(d, r)
           own == [x \in DOMAIN r.acts |-> Len(c.kinds) + x]
           awaits == Pick(own, {x \in DOMAIN own : r.acts[x] \in Awaited})
           emitted == [x \in DOMAIN own |-> [token |-> own[x], kind |-> r.acts[x], data |-> Seen(c)]]
           polled == IF r.flip THEN Reverse(awaits) ELSE awaits
<1>1. DOMAIN c = CtxFields /\ DOMAIN d = CtxFields
  BY DEF Core
<1>2. p.emitted = emitted /\ p.ctx.awaits = polled
  <2> HIDE DEF awaits
  <2>1. p.emitted = emitted
    BY DEF Enter
  <2>2. p.ctx.awaits = polled
    BY <1>1 DEF Enter, CtxFields, awaits
  <2> QED BY <2>1, <2>2
<1>3. q.emitted = emitted /\ q.ctx.awaits = polled
  <2> HIDE DEF awaits
  <2>1. q.emitted = emitted
    BY DEF Enter
  <2>2. q.ctx.awaits = polled
    BY <1>1 DEF Enter, CtxFields, awaits
  <2> QED BY <2>1, <2>2
<1> HIDE DEF own, awaits, emitted, polled
<1>4. Entered(c, p.ctx, r)
  BY EnterFacts
<1>5. Entered(d, q.ctx, r)
  BY EnterFacts
<1> HIDE DEF p, q
<1>6. /\ p.ctx.seen = q.ctx.seen /\ p.ctx.wait = q.ctx.wait /\ p.ctx.output = q.ctx.output
      /\ p.ctx.kinds = q.ctx.kinds /\ p.ctx.dropped = q.ctx.dropped
      /\ p.ctx.results = q.ctx.results /\ p.ctx.arrivals = q.ctx.arrivals
      /\ p.ctx.qarrivals = q.ctx.qarrivals
  BY <1>4, <1>5 DEF Entered
<1>7. /\ q.ctx.bound = d.bound /\ q.ctx.subs = d.subs /\ q.ctx.qsubs = d.qsubs
      /\ p.ctx.bound = c.bound /\ p.ctx.subs = c.subs /\ p.ctx.qsubs = c.qsubs
  BY <1>4, <1>5 DEF Entered
<1>8. \A i \in CtxFields \ Aside : q.ctx[i] = p.ctx[i]
  BY <1>2, <1>3, <1>6 DEF CtxFields, Aside
<1>9. q.emitted = p.emitted
  BY <1>2, <1>3
<1> QED BY <1>7, <1>8, <1>9 DEF p, q

(* A round is entered ahead; the loop enters it as well, and trails. *)
LEMMA HaltedEnters ==
    ASSUME NEW k, NEW w, Runs(k, w), NEW m, Reach(m, k, w), NEW c, Ahead(c, w), Halted(m, c, w),
           ~c.output, Ready(c) => Seen(c) \in DOMAIN k,
           NEW f, f = poll(c, k).emitted, Lasting(f), NEW d,
           NEW new, new = convert_emitted_actions(poll(c, k).ctx, d, f),
           NEW w2, Writes(d, w, new, w2)
    PROVE  \E n : Reach(n, k, w2) /\ Trails(n, new.ctx, w2) /\ ~n.must
<1> DEFINE N == Len(c.kinds)
           p == poll(c, k).ctx
           r == k[Seen(c)]
           g == m.ctx
           n == AfterPoll(m, k)
           old == [ctx |-> n.ctx, fifo |-> m.fifo, pos |-> m.pos]
           empty == <<>>
<1>1. /\ Sound(m, w) /\ Good(m, w) /\ Core(c, N) /\ Calm(c) /\ Mail(c) /\ CodeOk(k) /\ CalmCode(k)
      /\ Core(g, Unmatched(m)) /\ Listed(m.fifo) /\ m.pos \in Nat \ {0}
  <2>1. Sound(m, w) /\ CodeOk(k) /\ CalmCode(k)
    BY ReachSound DEF Runs
  <2>2. Good(m, w)
    BY <2>1 DEF Sound
  <2>3. /\ Core(g, Unmatched(m)) /\ Emitted(g, Unmatched(m), m.fifo) /\ m.pos \in 1..(Len(w) + 1)
    BY <2>2 DEF Good
  <2>4. Listed(m.fifo) /\ m.pos \in Nat \ {0}
    BY <2>3 DEF Emitted
  <2>5. Core(c, N) /\ Calm(c) /\ Mail(c)
    BY DEF Ahead
  <2> QED BY <2>1, <2>2, <2>3, <2>4, <2>5
<1>2. Ready(c) /\ Seen(c) = Seen(g)
  BY <1>1, HaltedReady
<1>3. /\ g.kinds = c.kinds /\ g.wait = "all" /\ c.wait = "all" /\ g.dropped = c.dropped
      /\ g.results = c.results /\ g.arrivals = c.arrivals /\ g.qarrivals = c.qarrivals
      /\ g.output = c.output /\ m.must /\ Ready(g) /\ Trails(m, c, w)
  BY TrailsGrows DEF Halted
<1>4. Goes(m, k, w) /\ After(m, k, w) = n
  BY <1>2, <1>3 DEF Goes, After
<1>5. /\ poll(c, k) = Enter(c, r) /\ poll(g, k) = Enter(g, r) /\ RoundOk(r) /\ CalmRound(r)
  BY <1>1, <1>2, <1>3 DEF poll, CodeOk, CalmCode
<1>6. /\ n.ctx = poll(g, k).ctx /\ n.fifo = m.fifo \o poll(g, k).emitted /\ n.pos = m.pos /\ ~n.must
  BY DEF AfterPoll
<1>7. N \in Nat /\ N + 0 = N
  <2>1. c.kinds \in Acts
    BY <1>1 DEF Core
  <2> QED BY <2>1 DEF Acts
<1>8. Listed(empty) /\ Len(empty) = 0 /\ DOMAIN empty = {}
  BY NoRow
<1>9. old.ctx = n.ctx /\ old.fifo = m.fifo /\ old.pos = m.pos
  OBVIOUS
<1> HIDE DEF empty, n, g, old
<1>10. Emitted(c, N, empty)
  BY <1>7, <1>8 DEF Emitted
<1>11. /\ poll(g, k).emitted = f
       /\ \A i \in CtxFields \ Aside : n.ctx[i] = p[i]
       /\ n.ctx.bound = g.bound /\ n.ctx.subs = g.subs /\ n.ctx.qsubs = g.qsubs
       /\ p.bound = c.bound /\ p.subs = c.subs /\ p.qsubs = c.qsubs
  <2> HIDE DEF r, N
  <2>1. /\ Enter(g, r).emitted = Enter(c, r).emitted
        /\ \A i \in CtxFields \ Aside : Enter(g, r).ctx[i] = Enter(c, r).ctx[i]
        /\ Enter(g, r).ctx.bound = g.bound /\ Enter(g, r).ctx.subs = g.subs
        /\ Enter(g, r).ctx.qsubs = g.qsubs
        /\ Enter(c, r).ctx.bound = c.bound /\ Enter(c, r).ctx.subs = c.subs
        /\ Enter(c, r).ctx.qsubs = c.qsubs
    BY <1>1, <1>2, <1>3, <1>5, EnterSame
  <2> QED BY <1>5, <1>6, <2>1
<1>12. /\ Core(p, N) /\ Emitted(p, N, f) /\ Listed(f)
  <2> HIDE DEF N, p
  <2>1. /\ Core(poll(c, k).ctx, N) /\ Emitted(poll(c, k).ctx, N, empty \o poll(c, k).emitted)
        /\ Listed(poll(c, k).emitted)
    BY <1>1, <1>10, PollCore
  <2>2. empty \o f = f
    BY <2>1 DEF Listed, empty
  <2> QED BY <2>1, <2>2 DEF p
<1>13. Mail(p)
  <2>1. Entered(c, p, r)
    BY <1>1, <1>5, EnterFacts
  <2> HIDE DEF p, r, N
  <2> QED BY <1>1, <1>2, <1>5, <2>1, EnteredCalm
<1>14. Exactly(p, d, f, Len(f), new)
  <2>1. Len(history) \in Nat /\ Listed(d) /\ \A x \in DOMAIN f : f[x].kind # "ContinueAsNew"
    BY DEF Listed, Writes, Lasting
  <2>2. new = convert_emitted_actions(p, d, f)
    OBVIOUS
  <2> HIDE DEF p, N
  <2> QED BY <1>7, <1>12, <1>13, <2>1, <2>2, ConvertExactly
<1> HIDE DEF p, N, r
<1>15. Trails(old, p, w)
  BY <1>3, <1>9, <1>11 DEF Trails, g
<1>16. Trails(n, new.ctx, w2) /\ Wider(k, w, k, w2)
  <2>1. Follows(old, f, n)
    BY <1>1, <1>6, <1>9, <1>11 DEF Follows
  <2> QED BY <1>14, <1>15, <2>1, ConvertTrails
<1>17. Reach(n, k, w)
  BY <1>4, ReachStep
<1>18. Reach(n, k, w2)
  BY <1>16, <1>17, ReachWider
<1> QED BY <1>6, <1>16, <1>18

-----------------------------------------------------------------------------
(* Every turn comes to where the turn before has left the code.            *)

(* The drops that are recorded have been made. *)
Decided(c, w) ==
  \A x \in DOMAIN w : w[x].kind = "Cancelled" => w[x].src \in DroppedIds(c, w[x].what)

(* The loop has run over all of w, and the code has observed what it had.  *)
Left(m, k, w, seen) ==
  /\ Reach(m, k, w) /\ ~m.must /\ m.pos = Len(w) + 1 /\ ~m.ctx.output
  /\ Observed(m.ctx) = seen /\ Decided(m.ctx, w)

(* A turn is where the loop comes to.  What is stored leads the loop to    *)
(* where the last turn has left the code; what a turn does beyond that is  *)
(* what the loop does when it comes to the events that the turn writes.    *)
TraceInv ==
  /\ ReplayAgrees
  /\ eng.phase = "replay" => Reach(Conf, code, Working)
  /\ eng.phase \in {"idle", "replay"} /\ history # <<>> => \E m : Left(m, code, history, last)
  /\ eng.phase \in {"quiesce", "finalize"} => Decided(ctx, Working)
  /\ eng.phase \in {"quiesce", "finalize"} /\ ~ctx.output
       /\ "ContinueAsNew" \notin Range(eng.pending) =>
       /\ Tabled(ctx.got)
       /\ \E m : /\ Reach(m, code, Working)
                 /\ \/ Caught(m, ctx, Working)
                    \/ eng.phase = "quiesce" /\ Halted(m, ctx, Working)

(* The beginning of a history is a history. *)
LEMMA EventsLess ==
    ASSUME NEW w, EventsOk(w), NEW v, Listed(v), \A x \in DOMAIN v : x \in DOMAIN w /\ w[x] = v[x]
    PROVE  EventsOk(v)
<1>1. DOMAIN v = 1..Len(v) /\ Len(v) \in Nat
  BY DEF Listed
<1>2. ASSUME NEW x \in DOMAIN v PROVE EventOk(v, x)
  <2>1. EventOk(w, x) /\ w[x] = v[x]
    BY DEF EventsOk
  <2>2. \A y \in 1..(x - 1) : y \in DOMAIN v
    BY <1>1
  <2> QED BY <2>1, <2>2 DEF EventOk
<1> QED BY <1>2 DEF EventsOk

(* The code and the histories of a turn. *)
LEMMA RunsOf ==
    ASSUME NEW k, CodeOk(k), CalmCode(k), NEW h, Listed(h), Soft(h), NEW d, Listed(d),
           \A x \in DOMAIN d : d[x].kind # "Cancelled", NEW w, w = h \o d, EventsOk(w)
    PROVE  /\ Runs(k, w) /\ Runs(k, h) /\ Wider(k, h, k, w) /\ Chained(h, d, w)
           /\ \A c : Decided(c, h) <=> Decided(c, w)
<1>1. Chained(h, d, w)
  BY ChainedIs
<1>2. /\ Listed(w) /\ Len(h) <= Len(w) /\ \A x \in DOMAIN h : x \in DOMAIN w /\ w[x] = h[x]
  BY <1>1 DEF Chained
<1>3. ASSUME NEW x \in DOMAIN w, w[x].kind = "Cancelled" PROVE x \in DOMAIN h /\ w[x] = h[x]
  <2>1. ~ \E y \in DOMAIN d : x = Len(h) + y /\ w[x] = d[y]
    BY <1>3
  <2>2. \/ x \in DOMAIN h /\ w[x] = h[x]
        \/ \E y \in DOMAIN d : x = Len(h) + y /\ w[x] = d[y]
    BY <1>1, ChainedParts
  <2> QED BY <2>1, <2>2
<1>4. EventsOk(h)
  BY <1>2, EventsLess
<1>5. Soft(w)
  BY <1>3 DEF Soft
<1>6. Runs(k, w) /\ Runs(k, h) /\ Wider(k, h, k, w)
  BY <1>2, <1>4, <1>5 DEF Runs, Wider
<1>7. \A c : Decided(c, h) <=> Decided(c, w)
  BY <1>2, <1>3 DEF Decided
<1> QED BY <1>1, <1>6, <1>7

(* Those of this turn. *)
LEMMA RunsNow ==
    ASSUME Inv, CalmInv
    PROVE  /\ Runs(code, Working) /\ Runs(code, history) /\ Wider(code, history, code, Working)
           /\ Chained(history, delta, Working)
           /\ \A c : Decided(c, history) <=> Decided(c, Working)
<1>1. /\ CodeOk(code) /\ Listed(history) /\ Listed(delta) /\ EventsOk(Working)
      /\ \A x \in DOMAIN delta : delta[x].kind # "Cancelled"
      /\ CalmCode(code) /\ Soft(history)
  BY DEF Inv, StoredOk, CalmInv
<1> DEFINE w == Working
<1>2. w = history \o delta /\ EventsOk(w)
  BY <1>1 DEF Working
<1> HIDE DEF w
<1>3. /\ Runs(code, w) /\ Runs(code, history) /\ Wider(code, history, code, w)
      /\ Chained(history, delta, w)
      /\ \A c : Decided(c, history) <=> Decided(c, w)
  BY <1>1, <1>2, RunsOf
<1> QED BY <1>3 DEF w

(* And after a step. *)
LEMMA RunsNext ==
    ASSUME Inv', CalmInv'
    PROVE  /\ Runs(code', Working') /\ Runs(code', history')
           /\ \A c : Decided(c, history') <=> Decided(c, Working')
<1>1. /\ CodeOk(code') /\ Listed(history') /\ Listed(delta') /\ EventsOk(Working')
      /\ \A x \in DOMAIN delta' : delta'[x].kind # "Cancelled"
      /\ CalmCode(code') /\ Soft(history')
  BY DEF Inv, StoredOk, CalmInv
<1> DEFINE w == Working'
           k == code'
           h == history'
           d == delta'
<1>2. w = h \o d /\ EventsOk(w)
  BY <1>1 DEF Working
<1>3. /\ CodeOk(k) /\ Listed(h) /\ Listed(d) /\ CalmCode(k) /\ Soft(h)
      /\ \A x \in DOMAIN d : d[x].kind # "Cancelled"
  BY <1>1
<1> HIDE DEF w, k, h, d
<1>4. /\ Runs(k, w) /\ Runs(k, h)
      /\ \A c : Decided(c, h) <=> Decided(c, w)
  BY <1>2, <1>3, RunsOf
<1> QED BY <1>4 DEF w, k, h

(* Code that knows more. *)
LEMMA WiderCode ==
    ASSUME NEW k, NEW w, Listed(w), NEW k2, \A s \in DOMAIN k : s \in DOMAIN k2 /\ k2[s] = k[s]
    PROVE  Wider(k, w, k2, w)
  BY DEF Wider, Listed

(* What was decided stays so. *)
LEMMA DecidedGrows ==
    ASSUME NEW c, NEW m, Core(c, m), NEW d, Grown(c, d), NEW w, Decided(c, w)
    PROVE  Decided(d, w)
<1>1. c.dropped \subseteq DOMAIN c.kinds
  BY DEF Core, Asked
<1> QED BY <1>1, GrownDrops DEF Decided

(* The beginning. *)
LEMMA TraceInit == ASSUME Init PROVE TraceInv
<1>1. eng.phase = "idle" /\ history = <<>>
  BY DEF Init, Engine
<1> QED BY <1>1 DEF TraceInv, ReplayAgrees

(* A turn begins. *)
LEMMA TraceBeginTurn == ASSUME TraceInv, BeginTurn PROVE TraceInv'
<1>1. /\ eng.phase = "idle" /\ ctx' = NewContext /\ eng' = Engine("replay")
      /\ UNCHANGED <<scenario, code, history, last>>
  BY DEF BeginTurn
<1>2. eng'.phase = "replay" /\ Conf' = Started
  BY <1>1 DEF Engine, Conf, Started
<1>3. \A k, w : Reach(Started, k, w)
  BY ReachStart
<1>4. Reach(Conf', code', Working')
  BY <1>2, <1>3
<1>5. history' # <<>> => \E m : Left(m, code', history', last')
  BY <1>1 DEF TraceInv
<1> QED BY <1>2, <1>4, <1>5 DEF TraceInv, ReplayAgrees

(* Where the turn before has left the code, it still is when the code      *)
(* knows more.                                                             *)
LEMMA LeftWider ==
    ASSUME NEW k, NEW w, Runs(k, w), NEW k2, \A s \in DOMAIN k : s \in DOMAIN k2 /\ k2[s] = k[s],
           NEW m, NEW seen, Left(m, k, w, seen)
    PROVE  Left(m, k2, w, seen)
<1>1. Wider(k, w, k2, w)
  BY WiderCode DEF Runs, EventsOk
<1>2. Reach(m, k2, w)
  BY <1>1, ReachWider DEF Left
<1> QED BY <1>2 DEF Left

(* The code is polled. *)
LEMMA TracePoll == ASSUME Inv, CalmInv, TraceInv, Poll PROVE TraceInv'
<1>1. /\ eng.phase = "replay" /\ Conf.must /\ Goes(Conf, code', Working)
      /\ Conf' = AfterPoll(Conf, code')
      /\ \A s \in DOMAIN code : s \in DOMAIN code' /\ code'[s] = code[s]
      /\ eng'.phase = "replay" /\ UNCHANGED <<scenario, history, delta, last>>
  BY PollIs
<1>2. Runs(code, Working) /\ Runs(code, history)
  BY RunsNow
<1>3. Reach(Conf, code, Working) /\ (history # <<>> => \E m : Left(m, code, history, last))
  BY <1>1 DEF TraceInv
<1> DEFINE k == code'
           m == Conf
           n == Conf'
           w == Working
<1>4. Working' = w
  BY <1>1 DEF Working
<1>5. /\ Runs(code, w) /\ Reach(m, code, w) /\ m.must /\ Goes(m, k, w) /\ n = AfterPoll(m, k)
      /\ \A s \in DOMAIN code : s \in DOMAIN k /\ k[s] = code[s]
  BY <1>1, <1>2, <1>3
<1> HIDE DEF k, m, w, n
<1>6. Listed(w)
  BY <1>5 DEF Runs, EventsOk
<1>7. Reach(m, k, w)
  BY <1>5, <1>6, WiderCode, ReachWider
<1>8. Reach(After(m, k, w), k, w)
  BY <1>5, <1>7, ReachStep
<1>9. Reach(n, k, w)
  BY <1>5, <1>8 DEF After
<1>10. \A x : Left(x, code, history, last) => Left(x, k, history, last)
  BY <1>2, <1>5, LeftWider
<1>11. Reach(n, k, Working')
  BY <1>4, <1>9
<1>12. history' # <<>> => \E x : Left(x, k, history', last')
  BY <1>1, <1>3, <1>10
<1> QED BY <1>1, <1>11, <1>12 DEF TraceInv, ReplayAgrees, n, k

(* What has been replayed so far leads to where the last turn ended, or    *)
(* goes on from there.                                                     *)
LEMMA BeforeLeft ==
    ASSUME Inv, CalmInv, TraceInv, eng.phase = "replay", NEW m, Left(m, code, history, last)
    PROVE  /\ Sound(Conf, Working) /\ Sound(m, Working)
           /\ m = Conf \/ Leads(Conf, m, code, Working) \/ Leads(m, Conf, code, Working)
           /\ Goes(m, code, Working) => After(m, code, Working).pos = Len(history) + 2
<1> DEFINE n == Conf
           w == Working
<1>1. Runs(code, w) /\ Runs(code, history) /\ Wider(code, history, code, w)
  BY RunsNow
<1>2. Reach(n, code, w) /\ Reach(m, code, history) /\ ~m.must /\ m.pos = Len(history) + 1
  BY DEF TraceInv, Left
<1> HIDE DEF n, w
<1>3. Reach(m, code, w)
  BY <1>1, <1>2, ReachWider
<1>4. Sound(m, w) /\ Sound(n, w)
  BY <1>1, <1>2, <1>3, ReachSound
<1>5. m = n \/ Leads(m, n, code, w) \/ Leads(n, m, code, w)
  BY <1>1, <1>2, <1>3, ReachOrder
<1>6. Goes(m, code, w) => After(m, code, w).pos = m.pos + 1
  BY <1>1, <1>2, <1>4, GoesSound
<1>7. Len(history) \in Nat
  BY <1>1 DEF Runs, EventsOk, Listed
<1>8. m.pos + 1 = Len(history) + 2
  BY <1>2, <1>7
<1> QED BY <1>4, <1>5, <1>6, <1>8 DEF n, w

(* A message is of a schedule that is open. *)
LEMMA NewsFits ==
    ASSUME NEW m, NEW w, Good(m, w), EventsOk(w), m.pos \in DOMAIN w,
           w[m.pos].kind \in MessageKinds
    PROVE  Fits(m, w[m.pos])
<1> DEFINE e == w[m.pos]
<1>1. e.kind # "Scheduled" /\ e.kind # "Noted"
  BY DEF MessageKinds
<1>2. ASSUME e.kind = "Completed" PROVE e.src \in m.open
  <2>1. e.src \in 1..(m.pos - 1) /\ w[e.src].kind = "Scheduled"
    BY <1>2 DEF EventsOk, EventOk
  <2>2. m.pos \in Nat /\ DOMAIN w = 1..Len(w) /\ Len(w) \in Nat
    BY DEF EventsOk, Listed, Good
  <2>3. ASSUME NEW y \in 1..(m.pos - 1), w[y].kind = "Completed" PROVE w[y].src # e.src
    <3>1. y \in DOMAIN w /\ y # m.pos
      BY <2>2
    <3> QED BY <1>2, <2>3, <3>1 DEF EventsOk
  <2> QED BY <2>1, <2>3 DEF Good
<1> QED BY <1>1, <1>2 DEF Fits

(* An event never fails. *)
LEMMA EventFits ==
    ASSUME Inv, CalmInv, TraceInv, Applies
    PROVE  Fits(Conf, Working[Conf.pos])
<1>1. eng.phase = "replay" /\ ~Conf.must /\ Conf.pos <= Len(Working)
  BY AppliesIs
<1>2. Good(Conf, Working) /\ EventsOk(Working) /\ \A x \in DOMAIN delta : delta[x].kind \in MessageKinds
  BY <1>1 DEF Inv, ReplayOk, StoredOk
<1>3. Chained(history, delta, Working)
  BY RunsNow
<1> DEFINE n == Conf
           w == Working
           h == Len(history)
<1>4. /\ Good(n, w) /\ EventsOk(w) /\ n.pos \in 1..(Len(w) + 1) /\ n.pos <= Len(w)
      /\ h \in Nat /\ Len(w) \in Nat /\ DOMAIN w = 1..Len(w) /\ Chained(history, delta, w)
      /\ ~n.must
  <2> HIDE DEF n, w
  <2>1. /\ Good(n, w) /\ EventsOk(w) /\ Chained(history, delta, w) /\ ~n.must /\ n.pos <= Len(w)
    BY <1>1, <1>2, <1>3 DEF n, w
  <2> QED BY <2>1 DEF Good, Chained, Listed
<1>5. CASE n.pos <= h
  <2>1. history # <<>>
    <3> SUFFICES ASSUME history = <<>> PROVE FALSE
      OBVIOUS
    <3>1. h = 0
      BY NoRow
    <3> HIDE DEF n, w, h
    <3> QED BY <1>4, <1>5, <3>1
  <2>2. PICK m : Left(m, code, history, last)
    BY <1>1, <2>1 DEF TraceInv
  <2>3. /\ m = n \/ Leads(n, m, code, w) \/ Leads(m, n, code, w)
        /\ Goes(m, code, w) => After(m, code, w).pos = h + 2
    BY <1>1, <2>2, BeforeLeft
  <2>4. m.pos = h + 1
    BY <2>2 DEF Left
  <2> HIDE DEF n, w, h
  <2>5. m # n
    BY <1>4, <1>5, <2>4
  <2>6. ~Leads(m, n, code, w)
    <3> SUFFICES ASSUME Leads(m, n, code, w) PROVE FALSE
      OBVIOUS
    <3>1. h + 2 <= n.pos
      BY <2>3 DEF Leads
    <3> QED BY <1>4, <1>5, <3>1
  <2>7. Goes(n, code, w)
    BY <2>3, <2>5, <2>6 DEF Leads
  <2>8. Fits(n, w[n.pos])
    BY <1>4, <2>7 DEF Goes
  <2> QED BY <2>8 DEF n, w
<1>6. CASE ~(n.pos <= h)
  <2> HIDE DEF n, w, h
  <2>1. n.pos \in DOMAIN w /\ n.pos > h /\ n.pos \in Nat
    BY <1>4, <1>6
  <2>2. \/ n.pos \in DOMAIN history
        \/ \E y \in DOMAIN delta : w[n.pos] = delta[y]
    BY <1>4, <2>1, ChainedParts
  <2>3. n.pos \notin DOMAIN history
    BY <1>4, <2>1 DEF Chained, h
  <2>4. w[n.pos].kind \in MessageKinds
    BY <1>2, <2>2, <2>3
  <2>5. Fits(n, w[n.pos])
    BY <1>4, <2>1, <2>4, NewsFits
  <2> QED BY <2>5 DEF n, w
<1> QED BY <1>5, <1>6

(* An event is applied. *)
LEMMA TraceApplies == ASSUME Inv, CalmInv, TraceInv, Applies PROVE TraceInv'
<1>1. /\ eng.phase = "replay" /\ ~Conf.must /\ Conf.pos <= Len(Working) /\ ~ctx.output
      /\ UNCHANGED <<scenario, code, history, delta, last>>
      /\ \/ eng'.phase = "nondeterminism" /\ ~Fits(Conf, Working[Conf.pos])
         \/ /\ eng'.phase = "replay" /\ Fits(Conf, Working[Conf.pos])
            /\ Conf' = AfterEvent(Conf, Working[Conf.pos])
  BY AppliesIs
<1>2. Fits(Conf, Working[Conf.pos])
  BY EventFits
<1>3. eng'.phase = "replay" /\ Conf' = AfterEvent(Conf, Working[Conf.pos]) /\ Working' = Working
  BY <1>1, <1>2 DEF Working
<1>4. Reach(Conf, code, Working) /\ (history # <<>> => \E m : Left(m, code, history, last))
  BY <1>1 DEF TraceInv
<1>5. Conf.ctx = ctx
  BY DEF Conf
<1> DEFINE m == Conf
           n == Conf'
           w == Working
<1>6. /\ Reach(m, code, w) /\ ~m.must /\ m.pos <= Len(w) /\ ~m.ctx.output /\ Fits(m, w[m.pos])
      /\ n = AfterEvent(m, w[m.pos]) /\ Working' = w
  BY <1>1, <1>2, <1>3, <1>4, <1>5
<1> HIDE DEF m, n, w
<1>7. Goes(m, code, w) /\ After(m, code, w) = n
  BY <1>6 DEF Goes, After
<1>8. Reach(n, code, w)
  BY <1>6, <1>7, ReachStep
<1>9. Reach(n, code', Working')
  BY <1>1, <1>6, <1>8
<1>10. history' # <<>> => \E x : Left(x, code', history', last')
  BY <1>1, <1>4
<1> QED BY <1>3, <1>9, <1>10 DEF TraceInv, ReplayAgrees, n

(* A turn that has come to the end of its history, or whose code has       *)
(* returned, has made the drops that are recorded.                         *)
LEMMA EndDecided ==
    ASSUME Inv, CalmInv, TraceInv, eng.phase = "replay",
           ctx.output \/ (eng.pos > Len(Working) /\ ~eng.must_poll)
    PROVE  Decided(ctx, Working)
<1> DEFINE n == Conf
           w == Working
<1>1. \A c : Decided(c, history) <=> Decided(c, w)
  BY RunsNow
<1>2. Conf.ctx = ctx /\ Conf.pos = eng.pos /\ Conf.must = eng.must_poll
  BY DEF Conf
<1>3. n.ctx.output \/ (n.pos > Len(w) /\ ~n.must)
  BY <1>2
<1>4. CASE history = <<>>
  <2>1. DOMAIN history = {}
    BY <1>4, NoRow
  <2> HIDE DEF w, n
  <2>2. Decided(ctx, history)
    BY <2>1 DEF Decided
  <2> QED BY <1>1, <2>2 DEF w
<1>5. CASE history # <<>>
  <2>1. PICK m : Left(m, code, history, last)
    BY <1>5 DEF TraceInv
  <2>2. /\ Sound(n, w) /\ Sound(m, w)
        /\ m = n \/ Leads(n, m, code, w) \/ Leads(m, n, code, w)
    BY <2>1, BeforeLeft
  <2> HIDE DEF w, n
  <2>3. Good(n, w) /\ Good(m, w)
    BY <2>2 DEF Sound
  <2>4. ~Goes(n, code, w)
    <3>1. n.pos \in Nat /\ Len(w) \in Nat
      <4>1. Listed(w)
        BY RunsNow DEF w, Runs, EventsOk
      <4> QED BY <2>3, <4>1 DEF Good, Listed
    <3> QED BY <1>3, <3>1 DEF Goes
  <2>5. m = n \/ Grown(m.ctx, n.ctx)
    BY <2>2, <2>4 DEF Leads
  <2>6. Decided(m.ctx, history)
    BY <2>1 DEF Left
  <2>7. Core(m.ctx, Unmatched(m))
    BY <2>3 DEF Good
  <2>8. Decided(n.ctx, history)
    BY <2>5, <2>6, <2>7, DecidedGrows
  <2> QED BY <1>1, <1>2, <2>8 DEF w, n
<1> QED BY <1>4, <1>5

(* Dropping waits is marked, which changes nothing. *)
Same(c, d) == DOMAIN d = CtxFields /\ \A x \in CtxFields : d[x] = c[x]

(* A context like another. *)
LEMMA SameCore ==
    ASSUME NEW c, NEW d, Same(c, d), NEW m, Core(c, m), Calm(c), Mail(c), NEW f, Emitted(c, m, f)
    PROVE  Core(d, m) /\ Emitted(d, m, f) /\ Grown(c, d) /\ Calm(d) /\ Mail(d)
<1>1. \A x \in {"kinds", "bound", "results", "dropped", "awaits", "wait", "got"} : d[x] = c[x]
  BY DEF Same, CtxFields
<1>2. Core(d, m) /\ Grown(c, d) /\ d.kinds = c.kinds
  BY <1>1, OtherCore DEF Same
<1>3. Calm(d) /\ Mail(d)
  BY SameCalm DEF Same
<1> QED BY <1>2, <1>3 DEF Emitted

(* The loop at the end of the history trails the turn that converts what   *)
(* the code has done.                                                      *)
LEMMA EndTrails ==
    ASSUME NEW n, NEW w, Good(n, w), Listed(w), NEW marked, Same(n.ctx, marked), n.pos = Len(w) + 1,
           NEW old, old.ctx = n.ctx, old.fifo = <<>>, old.pos = n.pos
    PROVE  Trails(old, marked, w) /\ Follows(old, n.fifo, n)
<1>1. /\ \A i \in CtxFields : old.ctx[i] = marked[i]
      /\ old.ctx.bound = marked.bound /\ old.ctx.subs = marked.subs /\ old.ctx.qsubs = marked.qsubs
  BY DEF Same, CtxFields
<1> DEFINE e == <<>>
<1>2. Listed(e) /\ Len(e) = 0 /\ DOMAIN e = {}
  BY NoRow
<1>3. Listed(n.fifo)
  BY DEF Good, Emitted
<1>4. n.fifo = e \o n.fifo
  BY <1>3 DEF Listed
<1>5. old.fifo = e
  OBVIOUS
<1> HIDE DEF e
<1>6. Len(w) \in Nat /\ Len(w) + 1 = old.pos + Len(old.fifo) /\ old.pos \in Nat \ {0}
  <2>1. Len(w) \in Nat
    BY DEF Listed
  <2> QED BY <1>2, <1>5, <2>1
<1>7. Trails(old, marked, w)
  BY <1>1, <1>2, <1>5, <1>6, SelfExtends DEF Trails
<1>8. Follows(old, n.fifo, n)
  BY <1>2, <1>4, <1>5, <1>6 DEF Follows
<1> QED BY <1>7, <1>8

(* The end of the history. *)
LEMMA TraceConvert == ASSUME Inv, CalmInv, TraceInv, Convert, Inv', CalmInv' PROVE TraceInv'
<1> DEFINE marked == [ctx EXCEPT !.qcancelled = @ \cup DroppedIds(ctx, "Queue")]
           b == Unmatched(Conf)
           f == eng.fifo
           w == Working
           v == Working'
           new == convert_emitted_actions(marked, delta, f)
           n == Conf
<1>1. /\ eng.phase = "replay"
      /\ ctx.output \/ (eng.pos > Len(w) /\ ~eng.must_poll)
      /\ ctx' = new.ctx /\ delta' = new.delta
      /\ eng' = [eng EXCEPT !.phase = "quiesce", !.fifo = <<>>, !.pending = @ \o Kinds(f)]
      /\ UNCHANGED <<scenario, code, history, last>>
  BY DEF Convert
<1>2. StoredOk /\ DOMAIN eng = EngFields /\ Listed(history) /\ Listed(delta) /\ EventsOk(w)
  BY DEF Inv, StoredOk
<1>3. Good(n, w) /\ eng.pending = <<>> /\ CalmConf(n, w) /\ Reach(n, code, w)
  BY <1>1 DEF Inv, ReplayOk, CalmInv, TraceInv
<1>4. n.ctx = ctx /\ n.fifo = f /\ n.pos = eng.pos /\ n.must = eng.must_poll
  BY DEF Conf
<1>5. Runs(code, w) /\ Runs(code, v) /\ \A c : Decided(c, history') <=> Decided(c, v)
  BY <1>1, RunsNow, RunsNext
<1>6. Decided(ctx, w) /\ \A c : Decided(c, history) <=> Decided(c, w)
  BY <1>1, RunsNow, EndDecided
<1>7. eng'.phase = "quiesce" /\ eng'.pending = <<>> \o Kinds(f)
  BY <1>1, <1>2, <1>3 DEF EngFields
<1>8. Writes(delta, w, new, v)
  BY <1>1, <1>2 DEF Writes, Working
<1> HIDE DEF n, w, v
<1>9. /\ Core(ctx, b) /\ Emitted(ctx, b, f) /\ n.pos \in 1..(Len(w) + 1)
  <2> HIDE DEF f
  <2> QED BY <1>3, <1>4 DEF Good, n
<1>10. Calm(ctx) /\ Mail(ctx)
  BY <1>3, <1>4 DEF CalmConf
<1>11. Same(ctx, marked)
  <2>1. DroppedIds(ctx, "Queue") = {}
    BY <1>10, CalmDrops DEF Waited
  <2>2. DOMAIN ctx = CtxFields
    BY <1>9 DEF Core
  <2> QED BY <2>1, <2>2 DEF Same
<1>12. b \in Nat /\ Len(history) \in Nat /\ Len(w) \in Nat /\ Listed(w)
  BY <1>2, <1>9 DEF Core, Listed, EventsOk
<1>13. Listed(f) /\ Listed(Kinds(f)) /\ \A x \in DOMAIN f : f[x].kind \in Range(Kinds(f))
  BY <1>9, KindsFacts DEF Emitted
<1>14. eng'.pending = Kinds(f)
  BY <1>7, <1>13 DEF Listed
<1> HIDE DEF b, f, marked, new
<1>15. Core(marked, b) /\ Emitted(marked, b, f) /\ Grown(ctx, marked) /\ Calm(marked) /\ Mail(marked)
  BY <1>9, <1>10, <1>11, SameCore
<1>16. ConvertedOk(marked, delta, b, f, Len(f), new)
  BY <1>2, <1>12, <1>15, ConvertFacts DEF new
<1>17. Grown(ctx, ctx') /\ ctx'.output = ctx.output
  <2>1. Grown(marked, ctx') /\ ctx'.output = marked.output
    BY <1>1, <1>16 DEF ConvertedOk
  <2>2. marked.output = ctx.output
    BY <1>11 DEF Same, CtxFields
  <2> QED BY <1>15, <2>1, <2>2, GrownOn
<1>18. Decided(ctx', v)
  <2>1. Decided(ctx', history)
    BY <1>6, <1>9, <1>17, DecidedGrows
  <2> QED BY <1>1, <1>5, <2>1
<1>19. ASSUME ~ctx'.output, "ContinueAsNew" \notin Range(eng'.pending)
       PROVE  Tabled(ctx'.got) /\ \E m : Reach(m, code, v) /\ (Caught(m, ctx', v) \/ Halted(m, ctx', v))
  <2>1. n.pos = Len(w) + 1 /\ ~n.must
    <3>1. n.pos > Len(w) /\ ~n.must
      BY <1>1, <1>4, <1>17, <1>19
    <3> QED BY <1>9, <1>12, <3>1
  <2>2. Lasting(f)
    BY <1>13, <1>14, <1>19 DEF Lasting
  <2>3. Exactly(marked, delta, f, Len(f), new)
    BY <1>2, <1>12, <1>15, <2>2, ConvertExactly DEF Lasting, new
  <2> DEFINE old == [ctx |-> n.ctx, fifo |-> <<>>, pos |-> n.pos]
  <2>4. old.ctx = n.ctx /\ old.fifo = <<>> /\ old.pos = n.pos
    OBVIOUS
  <2> HIDE DEF old
  <2>5. Trails(old, marked, w) /\ Follows(old, n.fifo, n)
    BY <1>3, <1>4, <1>11, <1>12, <2>1, <2>4, EndTrails
  <2>6. Trails(n, new.ctx, v) /\ Wider(code, w, code, v)
    BY <1>4, <1>8, <2>2, <2>3, <2>5, ConvertTrails
  <2>7. Reach(n, code, v)
    BY <1>3, <1>5, <2>6, ReachWider
  <2>8. Tabled(ctx'.got)
    <3>1. Tabled(n.ctx.got)
      BY <1>3, <1>5, ReachSound DEF Sound
    <3>2. ctx'.got = marked.got /\ marked.got = ctx.got
      BY <1>1, <1>11, <2>3 DEF Exactly, Same, CtxFields
    <3> QED BY <1>4, <3>1, <3>2
  <2>9. Ahead(ctx', v)
    <3>1. Core(ctx', Len(ctx'.kinds)) /\ Ids(ctx', Len(v)) /\ Calm(ctx') /\ Mail(ctx')
      BY <1>7, <1>19 DEF Inv, QuietOk, CalmInv, v
    <3> QED BY <2>8, <3>1 DEF Ahead
  <2>10. \E m : Reach(m, code, v) /\ (Caught(m, ctx', v) \/ Halted(m, ctx', v))
    BY <1>1, <1>5, <1>19, <2>1, <2>6, <2>7, <2>9, CatchUp
  <2> QED BY <2>8, <2>10
<1>20. code' = code
  BY <1>1
<1> QED BY <1>7, <1>18, <1>19, <1>20 DEF TraceInv, ReplayAgrees, v

(* Nothing is converted. *)
LEMMA ConvertNothing ==
    ASSUME NEW c, NEW d, NEW f, f = <<>>
    PROVE  convert_emitted_actions(c, d, f) = [ctx |-> c, delta |-> d]
<1>1. Len(f) = 0
  BY NoRow
<1> HIDE DEF convert_emitted_actions
<1>2. PICK g : ConvertRun(g, c, d, f) /\ g[Len(f)] = convert_emitted_actions(c, d, f)
  BY <1>1, ConvertRuns
<1> QED BY <1>1, <1>2 DEF ConvertRun

(* A poll keeps what is known of what futures give, and a round without    *)
(* actions is the last.                                                    *)
LEMMA PollMail ==
    ASSUME NEW c, NEW m, Core(c, m), Calm(c), Mail(c), NEW k, CodeOk(k), CalmCode(k),
           Ready(c) => Seen(c) \in DOMAIN k
    PROVE  /\ Calm(poll(c, k).ctx) /\ Mail(poll(c, k).ctx)
           /\ Ready(c) /\ poll(c, k).emitted = <<>> => poll(c, k).ctx.output
           /\ ~Ready(c) => Polled(c, poll(c, k).ctx) /\ poll(c, k).emitted = <<>>
<1> DEFINE r == k[Seen(c)]
           p == poll(c, k)
<1>1. \/ /\ Ready(c) /\ RoundOk(r) /\ p = Enter(c, r) /\ Entered(c, p.ctx, r)
      \/ ~Ready(c) /\ Polled(c, p.ctx) /\ p.emitted = <<>>
  BY PollCases
<1>2. Ready(c) => CalmRound(r)
  BY DEF CalmCode
<1> HIDE DEF r, p
<1>3. CASE Ready(c) /\ RoundOk(r) /\ p = Enter(c, r) /\ Entered(c, p.ctx, r)
  <2>1. Calm(p.ctx) /\ Mail(p.ctx)
    BY <1>2, <1>3, EnteredCalm
  <2>2. Len(p.emitted) = Len(r.acts)
    BY <1>3, EnterFacts
  <2>3. Listed(r.acts)
    BY <1>3, SeqListed DEF RoundOk, Acts
  <2>4. p.emitted = <<>> => r.acts = <<>>
    <3>1. p.emitted = <<>> => Len(r.acts) = 0
      BY <2>2, NoRow
    <3> QED BY <2>3, <3>1 DEF Listed
  <2>5. p.ctx.output = (r.acts = <<>>)
    BY <1>3 DEF Entered
  <2> QED BY <1>3, <2>1, <2>4, <2>5 DEF p
<1>4. CASE ~Ready(c) /\ Polled(c, p.ctx) /\ p.emitted = <<>>
  <2>1. Calm(p.ctx) /\ Mail(p.ctx)
    BY <1>4, PolledCalm
  <2> QED BY <1>4, <2>1 DEF p
<1> QED BY <1>1, <1>3, <1>4

(* Waiting on, the turn is still caught up with. *)
LEMMA PolledCaught ==
    ASSUME NEW c, NEW d, DOMAIN c = CtxFields, Polled(c, d), NEW m, NEW w, Caught(m, c, w)
    PROVE  Caught(m, d, w)
<1>1. \A i \in CtxFields \ {"got"} : d[i] = c[i]
  BY DEF Polled
<1>2. d.bound = c.bound /\ d.subs = c.subs /\ d.qsubs = c.qsubs
  BY <1>1 DEF CtxFields
<1>3. \A i \in CtxFields \ Aside : d[i] = c[i]
  BY <1>1 DEF Aside
<1> QED BY <1>2, <1>3 DEF Caught, Trails

(* A poll of the quiescence loop, as far as the turn is concerned. *)
LEMMA QuiesceIs ==
    ASSUME Inv, Unraced, CalmInv, Quiesce
    PROVE  \E k \in Codes(ctx) : \E f :
             /\ f = poll(ctx, k).emitted /\ Listed(f) /\ code' = k
             /\ LET new == convert_emitted_actions(poll(ctx, k).ctx, delta, f)
                IN  /\ ctx' = new.ctx /\ delta' = new.delta
                    /\ ConvertedOk(poll(ctx, k).ctx, delta, Len(ctx.kinds), f, Len(f), new)
                    /\ Lasting(f) => Exactly(poll(ctx, k).ctx, delta, f, Len(f), new)
                    /\ Writes(delta, Working, new, Working')
             /\ eng'.phase = (IF f = <<>> THEN "finalize" ELSE "quiesce")
             /\ eng'.pending = eng.pending \o Kinds(f)
             /\ CodeOk(k) /\ CalmCode(k) /\ (Ready(ctx) => Seen(ctx) \in DOMAIN k)
             /\ \A s \in DOMAIN code : s \in DOMAIN k /\ k[s] = code[s]
             /\ Core(poll(ctx, k).ctx, Len(ctx.kinds)) /\ Grown(ctx, poll(ctx, k).ctx)
<1>1. PICK k \in Codes(ctx) :
        LET q == poll(ctx, k)
            new == convert_emitted_actions(q.ctx, delta, q.emitted)
        IN  /\ code' = k /\ ctx' = new.ctx /\ delta' = new.delta
            /\ eng' = [eng EXCEPT !.pending = @ \o Kinds(q.emitted),
                                  !.phase = IF q.emitted = <<>> THEN "finalize" ELSE @]
  BY DEF Quiesce
<1> DEFINE c == poll(ctx, k).ctx
           f == poll(ctx, k).emitted
           N == Len(ctx.kinds)
           empty == <<>>
           new == convert_emitted_actions(c, delta, f)
<1>2. eng.phase = "quiesce" /\ UNCHANGED <<scenario, history, last>>
  BY DEF Quiesce
<1>3. /\ StoredOk /\ DOMAIN eng = EngFields /\ scenario \in Scenario /\ CodeOk(code)
      /\ Core(ctx, N) /\ Calm(ctx) /\ Mail(ctx) /\ CalmCode(code)
      /\ Listed(history) /\ Listed(delta)
  BY <1>2 DEF Inv, StoredOk, QuietOk, CalmInv
<1>4. /\ CodeOk(k) /\ (Ready(ctx) => Seen(ctx) \in DOMAIN k) /\ CalmCode(k)
      /\ \A s \in DOMAIN code : s \in DOMAIN k /\ k[s] = code[s]
  BY <1>1, <1>3, CodesFacts, CodesCalm
<1>5. /\ eng'.phase = (IF f = <<>> THEN "finalize" ELSE "quiesce")
      /\ eng'.pending = eng.pending \o Kinds(f)
      /\ code' = k /\ ctx' = new.ctx /\ delta' = new.delta
  BY <1>1, <1>2, <1>3 DEF EngFields
<1>6. N \in Nat
  <2>1. ctx.kinds \in Acts
    BY <1>3 DEF Core
  <2> QED BY <2>1 DEF Acts
<1>7. Listed(empty) /\ Len(empty) = 0 /\ DOMAIN empty = {}
  BY NoRow
<1> HIDE DEF N
<1>8. N + 0 = Len(ctx.kinds)
  BY <1>6 DEF N
<1> HIDE DEF empty
<1>9. Emitted(ctx, N, empty)
  BY <1>7, <1>8 DEF Emitted
<1>10. /\ Core(c, N) /\ Grown(ctx, c) /\ Emitted(c, N, empty \o f) /\ Listed(f)
  BY <1>3, <1>4, <1>9, PollCore
<1>11. Mail(c)
  BY <1>3, <1>4, PollMail
<1> HIDE DEF c, f, new
<1>12. empty \o f = f
  BY <1>10 DEF Listed, empty
<1>13. Emitted(c, N, f) /\ Len(history) \in Nat
  BY <1>3, <1>10, <1>12 DEF Listed
<1>14. ConvertedOk(c, delta, N, f, Len(f), new)
  BY <1>3, <1>6, <1>10, <1>13, ConvertFacts DEF new
<1>15. Lasting(f) => Exactly(c, delta, f, Len(f), new)
  BY <1>3, <1>6, <1>10, <1>11, <1>13, ConvertExactly DEF Lasting, new
<1>16. Writes(delta, Working, new, Working')
  BY <1>2, <1>3, <1>5 DEF Writes, Working
<1> QED BY <1>4, <1>5, <1>10, <1>14, <1>15, <1>16 DEF c, f, new, N

(* Lists of kinds, one behind the other. *)
LEMMA PendingParts ==
    ASSUME NEW s, Listed(s), NEW f, Listed(f), "ContinueAsNew" \notin Range(s \o Kinds(f))
    PROVE  "ContinueAsNew" \notin Range(s) /\ Lasting(f)
<1>1. Listed(Kinds(f)) /\ \A x \in DOMAIN f : f[x].kind \in Range(Kinds(f))
  BY KindsFacts
<1>2. Range(s \o Kinds(f)) = Range(s) \cup Range(Kinds(f))
  BY <1>1, ConcatRows
<1> QED BY <1>1, <1>2 DEF Lasting

(* A poll of the quiescence loop. *)
LEMMA TraceQuiesce ==
    ASSUME Inv, Unraced, CalmInv, TraceInv, Quiesce, Inv', CalmInv' PROVE TraceInv'
<1>1. PICK k \in Codes(ctx) : \E f :
             /\ f = poll(ctx, k).emitted /\ Listed(f) /\ code' = k
             /\ LET new == convert_emitted_actions(poll(ctx, k).ctx, delta, f)
                IN  /\ ctx' = new.ctx /\ delta' = new.delta
                    /\ ConvertedOk(poll(ctx, k).ctx, delta, Len(ctx.kinds), f, Len(f), new)
                    /\ Lasting(f) => Exactly(poll(ctx, k).ctx, delta, f, Len(f), new)
                    /\ Writes(delta, Working, new, Working')
             /\ eng'.phase = (IF f = <<>> THEN "finalize" ELSE "quiesce")
             /\ eng'.pending = eng.pending \o Kinds(f)
             /\ CodeOk(k) /\ CalmCode(k) /\ (Ready(ctx) => Seen(ctx) \in DOMAIN k)
             /\ \A s \in DOMAIN code : s \in DOMAIN k /\ k[s] = code[s]
             /\ Core(poll(ctx, k).ctx, Len(ctx.kinds)) /\ Grown(ctx, poll(ctx, k).ctx)
  BY QuiesceIs
<1> DEFINE c == poll(ctx, k).ctx
           f == poll(ctx, k).emitted
           N == Len(ctx.kinds)
           new == convert_emitted_actions(c, delta, f)
           w == Working
           v == Working'
<1>2. /\ Listed(f) /\ code' = k /\ ctx' = new.ctx /\ delta' = new.delta
      /\ ConvertedOk(c, delta, N, f, Len(f), new)
      /\ Lasting(f) => Exactly(c, delta, f, Len(f), new)
      /\ Writes(delta, w, new, v)
      /\ eng'.phase = (IF f = <<>> THEN "finalize" ELSE "quiesce")
      /\ eng'.pending = eng.pending \o Kinds(f)
      /\ CodeOk(k) /\ CalmCode(k) /\ (Ready(ctx) => Seen(ctx) \in DOMAIN k)
      /\ \A s \in DOMAIN code : s \in DOMAIN k /\ k[s] = code[s]
      /\ Core(c, N) /\ Grown(ctx, c)
  BY <1>1
<1>3. eng.phase = "quiesce" /\ ~ctx.output /\ UNCHANGED <<scenario, history, last>>
  BY DEF Quiesce, Unsettled
<1>4. /\ Core(ctx, N) /\ Calm(ctx) /\ Mail(ctx) /\ Listed(eng.pending)
      /\ "ContinueAsNew" \notin Range(eng.pending) => Ids(ctx, Len(w))
  BY <1>3 DEF Inv, QuietOk, CalmInv
<1>5. Runs(code, w) /\ \A x : Decided(x, history) <=> Decided(x, w)
  BY RunsNow
<1>6. Runs(k, v) /\ \A x : Decided(x, history) <=> Decided(x, v)
  BY <1>2, <1>3, RunsNext
<1>7. Decided(ctx, w)
  BY <1>3 DEF TraceInv
<1>8. ASSUME "ContinueAsNew" \notin Range(eng.pending)
      PROVE  Tabled(ctx.got) /\ \E m : Reach(m, code, w) /\ (Caught(m, ctx, w) \/ Halted(m, ctx, w))
  BY <1>3, <1>8 DEF TraceInv
<1>9. eng'.phase \in {"quiesce", "finalize"}
  BY <1>2
<1>10. /\ Core(ctx', Len(ctx'.kinds)) /\ Calm(ctx') /\ Mail(ctx')
       /\ "ContinueAsNew" \notin Range(eng'.pending) => Ids(ctx', Len(v))
  BY <1>9 DEF Inv, QuietOk, CalmInv
<1>11. /\ ~Ready(ctx) => Polled(ctx, c) /\ f = <<>>
       /\ Ready(ctx) /\ f = <<>> => c.output
  BY <1>2, <1>4, PollMail
<1>12. f = <<>> => new = [ctx |-> c, delta |-> delta]
  <2> HIDE DEF c, f
  <2> QED BY ConvertNothing
<1>13. Tabled(ctx.got) => Tabled(c.got)
  BY <1>2, <1>4, PollTabled
<1>14. Runs(k, w) /\ Wider(code, w, k, w)
  <2> HIDE DEF w
  <2>1. Listed(w)
    BY <1>5 DEF Runs, EventsOk
  <2> QED BY <1>2, <1>5, <2>1, WiderCode DEF Runs
<1> HIDE DEF w, v
<1>15. Decided(ctx', v)
  <2> HIDE DEF c, f, new, N
  <2>1. Grown(ctx, ctx')
    BY <1>2, GrownOn DEF ConvertedOk
  <2> QED BY <1>4, <1>5, <1>6, <1>7, <2>1, DecidedGrows
<1>16. ASSUME ~ctx'.output, "ContinueAsNew" \notin Range(eng'.pending)
       PROVE  /\ Tabled(ctx'.got)
              /\ \E m : /\ Reach(m, k, v)
                        /\ Caught(m, ctx', v) \/ (eng'.phase = "quiesce" /\ Halted(m, ctx', v))
  <2>1. "ContinueAsNew" \notin Range(eng.pending) /\ Lasting(f)
    <3> HIDE DEF f
    <3> QED BY <1>2, <1>4, <1>16, PendingParts
  <2>2. Ahead(ctx, w)
    BY <1>4, <1>8, <2>1 DEF Ahead, N
  <2>3. Exactly(c, delta, f, Len(f), new)
    BY <1>2, <2>1
  <2>4. ctx'.got = c.got /\ ctx'.output = c.output
    <3> HIDE DEF c, f, new
    <3> QED BY <1>2, <2>3 DEF Exactly, CtxFields
  <2>5. Tabled(ctx'.got)
    BY <1>8, <1>13, <2>1, <2>4
  <2>6. Ahead(ctx', v)
    BY <1>10, <1>16, <2>5 DEF Ahead
  <2>7. PICK m : Reach(m, code, w) /\ (Caught(m, ctx, w) \/ Halted(m, ctx, w))
    BY <1>8, <2>1
  <2>8. Reach(m, k, w) /\ Sound(m, w)
    BY <1>5, <1>14, <2>7, ReachWider, ReachSound
  <2>9. CASE Caught(m, ctx, w)
    <3>1. ~m.ctx.output
      BY <1>3, <2>9, TrailsGrows DEF Caught
    <3>2. ~Ready(ctx)
      BY <2>2, <2>8, <2>9, <3>1, CaughtSame
    <3>3. ctx' = c /\ delta' = delta /\ Polled(ctx, c)
      BY <1>2, <1>11, <1>12, <3>2
    <3>4. v = w
      BY <1>3, <3>3 DEF v, w, Working
    <3>5. DOMAIN ctx = CtxFields
      BY <1>4 DEF Core
    <3>6. Caught(m, ctx', v)
      <4> HIDE DEF c
      <4>1. Caught(m, c, w)
        BY <2>9, <3>3, <3>5, PolledCaught
      <4> QED BY <3>3, <3>4, <4>1
    <3> QED BY <2>5, <2>8, <3>4, <3>6
  <2>10. CASE Halted(m, ctx, w)
    <3>1. Ready(ctx)
      BY <2>2, <2>8, <2>10, HaltedReady
    <3>2. f # <<>>
      BY <1>11, <1>16, <2>4, <3>1
    <3>3. eng'.phase = "quiesce"
      BY <1>2, <3>2
    <3>4. \E n : Reach(n, k, v) /\ Trails(n, new.ctx, v) /\ ~n.must
      BY <1>2, <1>3, <1>14, <2>1, <2>2, <2>8, <2>10, HaltedEnters
    <3>5. PICK n : Reach(n, k, v) /\ Trails(n, ctx', v) /\ ~n.must
      BY <1>2, <3>4
    <3>6. \E x : Reach(x, k, v) /\ (Caught(x, ctx', v) \/ Halted(x, ctx', v))
      BY <1>6, <1>16, <2>6, <3>5, CatchUp
    <3> QED BY <2>5, <3>3, <3>6
  <2> QED BY <2>7, <2>9, <2>10
<1> QED BY <1>2, <1>9, <1>15, <1>16 DEF TraceInv, ReplayAgrees, v

(* The quiescence loop ends. *)
LEMMA TraceSettle == ASSUME Inv, CalmInv, TraceInv, Settle PROVE TraceInv'
<1>1. /\ eng.phase = "quiesce" /\ ~Unsettled /\ UNCHANGED <<scenario, code, history, delta, ctx, last>>
      /\ eng' = [eng EXCEPT !.phase = "finalize"]
  BY DEF Settle
<1>2. eng'.phase = "finalize" /\ eng'.pending = eng.pending /\ Working' = Working
  BY <1>1 DEF Inv, StoredOk, EngFields, Working
<1>3. Decided(ctx', Working')
  BY <1>1, <1>2 DEF TraceInv
<1>4. ASSUME ~ctx.output, "ContinueAsNew" \notin Range(eng.pending)
      PROVE  Tabled(ctx.got) /\ \E m : Reach(m, code, Working) /\ Caught(m, ctx, Working)
  <2>1. Tabled(ctx.got)
    BY <1>1, <1>4 DEF TraceInv
  <2>2. PICK m : Reach(m, code, Working) /\ (Caught(m, ctx, Working) \/ Halted(m, ctx, Working))
    BY <1>1, <1>4 DEF TraceInv
  <2>3. ~Ready(ctx)
    BY <1>1, <1>4 DEF Unsettled, CalmInv, Full
  <2>4. /\ Core(ctx, Len(ctx.kinds)) /\ Ids(ctx, Len(Working)) /\ Calm(ctx) /\ Mail(ctx)
    BY <1>1, <1>4 DEF Inv, QuietOk, CalmInv
  <2>5. Ahead(ctx, Working) /\ Sound(m, Working)
    BY <2>1, <2>2, <2>4, RunsNow, ReachSound DEF Ahead
  <2>6. ~Halted(m, ctx, Working)
    BY <2>3, <2>5, HaltedReady
  <2> QED BY <2>1, <2>2, <2>6
<1>5. ASSUME ~ctx'.output, "ContinueAsNew" \notin Range(eng'.pending)
      PROVE  Tabled(ctx'.got) /\ \E m : Reach(m, code', Working') /\ Caught(m, ctx', Working')
  BY <1>1, <1>2, <1>4, <1>5
<1> QED BY <1>2, <1>3, <1>5 DEF TraceInv, ReplayAgrees

(* The execution stops. *)
LEMMA TraceStop == ASSUME Inv, TraceInv, Stop PROVE TraceInv'
<1>1. eng' = [eng EXCEPT !.phase = "ended"]
  BY DEF Stop
<1>2. eng'.phase = "ended"
  BY <1>1 DEF Inv, StoredOk, EngFields
<1> QED BY <1>2 DEF TraceInv, ReplayAgrees

(* A record of a drop says nothing to a context without waits that were    *)
(* dropped.                                                                *)
LEMMA RecordApplies ==
    ASSUME NEW k, NEW w, Runs(k, w), NEW m, Sound(m, w), ~m.must, ~m.ctx.output,
           m.pos \in DOMAIN w, w[m.pos].kind = "Cancelled"
    PROVE  /\ Goes(m, k, w) /\ ~After(m, k, w).must /\ After(m, k, w).pos = m.pos + 1
           /\ Same(m.ctx, After(m, k, w).ctx)
<1> DEFINE e == w[m.pos]
           n == AfterEvent(m, e)
           c == m.ctx
<1>1. e.what # "External" /\ e.what # "Queue"
  BY DEF Runs, Soft, Waited
<1>2. m.pos <= Len(w)
  BY DEF Runs, EventsOk, Listed
<1>3. Goes(m, k, w) /\ After(m, k, w) = n
  BY <1>2 DEF Goes, Fits, After
<1>4. DOMAIN c = CtxFields
  BY DEF Sound, Good, Core
<1>5. e.kind = "Cancelled"
  OBVIOUS
<1> HIDE DEF e, c
<1>6. ~n.must /\ n.pos = m.pos + 1 /\ n.ctx = ContextAfter(m, e)
  BY <1>5 DEF AfterEvent
<1>7. n.ctx = [c EXCEPT !.cancelled = c.cancelled, !.qcancelled = c.qcancelled]
  BY <1>1, <1>5, <1>6 DEF ContextAfter, c
<1> HIDE DEF n
<1>8. Same(c, n.ctx)
  BY <1>4, <1>7 DEF Same
<1> QED BY <1>3, <1>6, <1>8 DEF c

(* The loop runs over the records at the end of a history.                 *)
LEMMA RecordsApply ==
    ASSUME NEW k, NEW w, Runs(k, w), NEW m, Reach(m, k, w), ~m.must, ~m.ctx.output,
           \A x \in m.pos..Len(w) : w[x].kind = "Cancelled"
    PROVE  \E n : Reach(n, k, w) /\ ~n.must /\ n.pos = Len(w) + 1 /\ Same(m.ctx, n.ctx)
<1> DEFINE p == m.pos
           L == Len(w) + 1 - p
           At(n, j) == Reach(n, k, w) /\ ~n.must /\ n.pos = p + j /\ Same(m.ctx, n.ctx)
           T == {j \in 0..L : \E n : At(n, j)}
<1>1. Len(w) \in Nat /\ DOMAIN w = 1..Len(w)
  BY DEF Runs, EventsOk, Listed
<1>2. Sound(m, w)
  BY ReachSound
<1>3. p \in 1..(Len(w) + 1) /\ DOMAIN m.ctx = CtxFields
  BY <1>2 DEF Sound, Good, Core
<1>4. L \in Nat /\ L \in 0..L /\ p + L = Len(w) + 1
  BY <1>1, <1>3
<1>5. \A x \in p..Len(w) : w[x].kind = "Cancelled"
  OBVIOUS
<1>6. At(m, 0)
  BY <1>3 DEF Same
<1> HIDE DEF L
<1>7. 0 \in T
  BY <1>4, <1>6
<1>8. ASSUME NEW j \in 0..(L - 1), j \in T PROVE j + 1 \in T
  <2>1. PICK n : At(n, j)
    BY <1>8
  <2> DEFINE a == After(n, k, w)
  <2>2. Reach(n, k, w) /\ ~n.must /\ n.pos = p + j /\ Same(m.ctx, n.ctx)
    BY <2>1
  <2>3. n.pos \in p..Len(w) /\ n.pos \in DOMAIN w /\ (p + j) + 1 = p + (j + 1) /\ j + 1 \in 0..L
    <3> HIDE DEF p
    <3> QED BY <1>1, <1>3, <1>4, <2>2
  <2>4. w[n.pos].kind = "Cancelled"
    BY <1>5, <2>3
  <2>5. Sound(n, w) /\ ~n.ctx.output
    BY <2>2, ReachSound DEF Same, CtxFields
  <2> HIDE DEF p
  <2>6. Goes(n, k, w) /\ ~a.must /\ a.pos = n.pos + 1 /\ Same(n.ctx, a.ctx)
    BY <2>2, <2>3, <2>4, <2>5, RecordApplies
  <2>7. Reach(a, k, w)
    BY <2>2, <2>6, ReachStep
  <2>8. Same(m.ctx, a.ctx)
    BY <2>2, <2>6 DEF Same
  <2> HIDE DEF a
  <2>9. At(a, j + 1)
    BY <2>2, <2>3, <2>6, <2>7, <2>8
  <2> HIDE DEF At
  <2> QED BY <2>3, <2>9
<1> HIDE DEF T, p, At
<1>9. \A j \in 0..L : j \in T
  BY <1>4, <1>7, <1>8, CountUp
<1>10. PICK n : At(n, L)
  BY <1>4, <1>9 DEF T
<1> QED BY <1>4, <1>10 DEF At

(* Of contexts that are the same the code has observed the same.           *)
LEMMA SameObserved ==
    ASSUME NEW c, NEW d, Same(c, d)
    PROVE  Observed(d) = Observed(c) /\ \A kind : DroppedIds(d, kind) = DroppedIds(c, kind)
<1>1. /\ d.seen = c.seen /\ d.got = c.got /\ d.dropped = c.dropped /\ d.bound = c.bound
      /\ d.kinds = c.kinds
  BY DEF Same, CtxFields
<1> QED BY <1>1 DEF Observed, DroppedIds

(* A turn ends. *)
LEMMA TraceFinalize ==
    ASSUME Inv, CalmInv, TraceInv, Finalize, Inv', CalmInv' PROVE TraceInv'
<1> DEFINE w == Working
           v == history'
<1>1. eng.phase = "finalize" /\ ~Stops
  BY DEF Finalize
<1>2. Decided(ctx, w)
  BY <1>1 DEF TraceInv
<1>3. \A kind \in Range(Cancellable) : Recorded(kind) \subseteq DroppedIds(ctx, kind)
  BY <1>2 DEF Recorded, Decided, Range
<1>4. eng'.phase # "nondeterminism"
  <2>1. eng' = Engine(IF ctx.output THEN "ended" ELSE "idle")
    BY <1>3 DEF Finalize
  <2> QED BY <2>1 DEF Engine
<1>5. /\ Recording(v, Range(Cancellable)) /\ Listed(v)
      /\ Working' = v /\ UNCHANGED <<scenario, code, ctx>>
      /\ eng' = Engine(IF ctx.output THEN "ended" ELSE "idle") /\ last' = Observed(ctx)
      /\ Core(ctx, Len(ctx.kinds)) /\ Ids(ctx, Len(w))
  BY <1>4, FinalizeRecords
<1>6. CASE ctx.output
  <2>1. eng'.phase = "ended"
    BY <1>5, <1>6 DEF Engine
  <2> QED BY <2>1 DEF TraceInv, ReplayAgrees
<1>7. CASE ~ctx.output
  <2>1. eng'.phase = "idle"
    BY <1>5, <1>7 DEF Engine
  <2>2. "ContinueAsNew" \notin Range(eng.pending)
    BY <1>1 DEF Stops
  <2>3. PICK m : Reach(m, code, w) /\ Caught(m, ctx, w)
    BY <1>1, <1>7, <2>2 DEF TraceInv
  <2>4. Tabled(ctx.got)
    BY <1>1, <1>7, <2>2 DEF TraceInv
  <2>5. Ahead(ctx, w) /\ Full(ctx)
    <3>1. Calm(ctx) /\ Mail(ctx) /\ Full(ctx)
      BY <1>1, <1>7 DEF CalmInv
    <3> QED BY <1>5, <2>4, <3>1 DEF Ahead
  <2>6. Runs(code, w) /\ Runs(code, v)
    BY <1>5, RunsNow, RunsNext
  <2>7. \A x \in DOMAIN v : v[x].kind = "Cancelled" /\ v[x].what \in Range(Cancellable)
                              => v[x].src \in DroppedIds(ctx, v[x].what)
    <3>1. \A kind \in Range(Cancellable) : Recorded(kind)' = DroppedIds(ctx', kind)
      BY <2>1 DEF Inv, IdleOk
    <3>2. ASSUME NEW kind, NEW x \in DOMAIN v, v[x].kind = "Cancelled", v[x].what = kind
          PROVE  v[x].src \in Recorded(kind)'
      <4>1. Recorded(kind)' = {e.src : e \in {y \in Range(v) : y.kind = "Cancelled" /\ y.what = kind}}
        BY <1>5 DEF Recorded
      <4> HIDE DEF v
      <4>2. v[x] \in Range(v)
        BY DEF Range
      <4> QED BY <3>2, <4>1, <4>2
    <3>3. \A kind \in Range(Cancellable) : Recorded(kind)' = DroppedIds(ctx, kind)
      BY <1>5, <3>1
    <3>4. ASSUME NEW kind \in Range(Cancellable), NEW x \in DOMAIN v, v[x].kind = "Cancelled",
                 v[x].what = kind
          PROVE  v[x].src \in DroppedIds(ctx, kind)
      BY <3>2, <3>3, <3>4
    <3> HIDE DEF v
    <3> QED BY <3>4
  <2> HIDE DEF w, v
  <2>8. Sound(m, w) /\ ~m.ctx.output /\ ~m.must /\ m.fifo = <<>> /\ Trails(m, ctx, w)
    BY <1>7, <2>3, <2>6, ReachSound, TrailsGrows DEF Caught
  <2>9. /\ Observed(m.ctx) = Observed(ctx)
        /\ \A kind : DroppedIds(m.ctx, kind) = DroppedIds(ctx, kind)
    BY <2>3, <2>5, <2>8, CaughtSame
  <2>10. /\ Listed(w) /\ DOMAIN w = 1..Len(w) /\ Len(w) \in Nat
         /\ Len(v) \in Nat /\ DOMAIN v = 1..Len(v)
    BY <1>5, <2>6 DEF Runs, EventsOk, Listed
  <2>11. m.pos = Len(w) + 1
    <3> DEFINE q == <<>>
    <3>1. Len(q) = 0
      BY NoRow
    <3>2. m.fifo = q
      BY <2>8
    <3> HIDE DEF q
    <3>3. Len(w) + 1 = m.pos + Len(m.fifo)
      BY <2>8 DEF Trails
    <3>4. m.pos \in Nat
      BY <2>8 DEF Sound, Good
    <3> QED BY <2>10, <3>1, <3>2, <3>3, <3>4
  <2>12. /\ DOMAIN w \subseteq DOMAIN v /\ \A x \in DOMAIN w : v[x] = w[x]
         /\ \A x \in DOMAIN v : x \notin DOMAIN w => v[x].kind = "Cancelled"
    BY <1>5 DEF Recording, w
  <2>13. Wider(code, w, code, v)
    <3>1. Len(w) <= Len(v)
      <4>1. Len(w) \in DOMAIN w \/ Len(w) = 0
        BY <2>10
      <4> QED BY <2>10, <2>12, <4>1
    <3> QED BY <1>5, <2>12, <3>1 DEF Wider
  <2>14. Reach(m, code, v)
    BY <2>3, <2>6, <2>13, ReachWider
  <2>15. \A x \in m.pos..Len(v) : v[x].kind = "Cancelled"
    <3>1. \A x \in m.pos..Len(v) : x \in DOMAIN v /\ x \notin DOMAIN w
      BY <2>10, <2>11
    <3> QED BY <2>12, <3>1
  <2>16. PICK n : Reach(n, code, v) /\ ~n.must /\ n.pos = Len(v) + 1 /\ Same(m.ctx, n.ctx)
    BY <2>6, <2>8, <2>14, <2>15, RecordsApply
  <2>17. Observed(n.ctx) = Observed(ctx) /\ ~n.ctx.output
         /\ \A kind : DroppedIds(n.ctx, kind) = DroppedIds(ctx, kind)
    <3>1. Observed(n.ctx) = Observed(m.ctx) /\ \A kind : DroppedIds(n.ctx, kind) = DroppedIds(m.ctx, kind)
      BY <2>16, SameObserved
    <3>2. n.ctx.output = m.ctx.output
      BY <2>16 DEF Same, CtxFields
    <3> QED BY <2>8, <2>9, <3>1, <3>2
  <2>18. Decided(n.ctx, v)
    <3>1. \A x \in DOMAIN v : v[x].kind = "Cancelled" => v[x].what \in Range(Cancellable)
      BY <2>6 DEF Runs, EventsOk, EventOk
    <3> QED BY <2>7, <2>17, <3>1 DEF Decided
  <2>19. Left(n, code', history', last')
    BY <1>5, <2>16, <2>17, <2>18 DEF Left, v
  <2>20. \E x : Left(x, code', history', last')
    BY <2>19
  <2> QED BY <2>1, <2>20 DEF TraceInv, ReplayAgrees
<1> QED BY <1>6, <1>7

(* Every step keeps the invariant. *)
LEMMA TraceStep ==
    ASSUME Inv, Unraced, CalmInv, TraceInv, [Next]_vars, Inv', CalmInv' PROVE TraceInv'
<1>1. CASE UNCHANGED vars
  <2>1. Working' = Working /\ Conf' = Conf /\ UNCHANGED <<code, history, ctx, eng, last>>
    BY <1>1 DEF vars, Working, Conf
  <2> QED BY <2>1 DEF TraceInv, ReplayAgrees
<1>2. CASE BeginTurn
  BY <1>2, TraceBeginTurn
<1>3. CASE Poll
  BY <1>3, TracePoll
<1>4. CASE Applies
  BY <1>4, TraceApplies
<1>5. CASE Convert
  BY <1>5, TraceConvert
<1>6. CASE Quiesce
  BY <1>6, TraceQuiesce
<1>7. CASE Settle
  BY <1>7, TraceSettle
<1>8. CASE Stop
  BY <1>8, TraceStop
<1>9. CASE Finalize
  BY <1>9, TraceFinalize
<1> QED BY <1>1, <1>2, <1>3, <1>4, <1>5, <1>6, <1>7, <1>8, <1>9 DEF Next, Applies

(* As long as no wait is raced, each turn of execute_orchestration is at a *)
(* place that running over its history leads to, what is stored leads to   *)
(* where the turn before has left the code, and a turn that is not at the  *)
(* end of its events is trailed by the loop that will read them.           *)
THEOREM TraceInvHolds == Spec => [](Inv /\ (Unraced => CalmInv /\ TraceInv))
<1>1. Init => Inv /\ (Unraced => CalmInv /\ TraceInv)
  BY InvInit, CalmInit, TraceInit
<1>2. Inv /\ (Unraced => CalmInv /\ TraceInv) /\ [Next]_vars
        => (Inv /\ (Unraced => CalmInv /\ TraceInv))'
  <2>1. ASSUME Inv, Unraced => CalmInv /\ TraceInv, [Next]_vars
        PROVE  Inv' /\ (Unraced => CalmInv /\ TraceInv)'
    <3>1. Unraced' <=> Unraced
      BY <2>1, SameScenario DEF Unraced
    <3> QED BY <2>1, <3>1, InvStep, CalmStep, TraceStep
  <2> QED BY <2>1
<1> QED BY <1>1, <1>2, PTL DEF Spec

(* Where the loop is when it has read what is stored. *)
LEMMA TraceResumes == ASSUME Inv, CalmInv, TraceInv PROVE ReplayResumes
<1> SUFFICES ASSUME Replaying, ~eng.must_poll, history # <<>>, eng.pos = Len(history) + 1
             PROVE  Observed(ctx) = last
  BY DEF ReplayResumes
<1> DEFINE n == Conf
           w == Working
<1>1. eng.phase = "replay"
  BY DEF Replaying
<1>2. n.ctx = ctx /\ n.pos = Len(history) + 1 /\ ~n.must
  BY DEF Conf
<1>3. PICK m : Left(m, code, history, last)
  BY <1>1 DEF TraceInv
<1>4. /\ Sound(n, w)
      /\ m = n \/ Leads(n, m, code, w) \/ Leads(m, n, code, w)
      /\ Goes(m, code, w) => After(m, code, w).pos = Len(history) + 2
  BY <1>1, <1>3, BeforeLeft
<1>5. Runs(code, w) /\ Len(history) \in Nat
  BY RunsNow DEF Runs, EventsOk, Listed
<1>6. m.pos = Len(history) + 1 /\ Observed(m.ctx) = last
  BY <1>3 DEF Left
<1> HIDE DEF n, w
<1>7. ~Leads(m, n, code, w)
  BY <1>2, <1>4, <1>5 DEF Leads
<1>8. ~Leads(n, m, code, w)
  <2> SUFFICES ASSUME Leads(n, m, code, w) PROVE FALSE
    OBVIOUS
  <2>1. Goes(n, code, w) /\ After(n, code, w).pos <= m.pos
    BY DEF Leads
  <2>2. After(n, code, w).pos = n.pos + 1
    BY <1>2, <1>4, <1>5, <2>1, GoesSound
  <2> QED BY <1>2, <1>5, <1>6, <2>1, <2>2
<1> QED BY <1>2, <1>4, <1>6, <1>7, <1>8

(* Code that has not changed never fails as nondeterministic, whatever     *)
(* came in whatever order and however it was batched into turns: the       *)
(* actions it emits in replay are the ones of the history, every           *)
(* completion finds its schedule open, and every recorded cancellation is  *)
(* decided again.  The code does not race what comes from outside.         *)
THEOREM ReplayAgreesHolds == Spec => [](Unraced => ReplayAgrees)
<1>1. Inv /\ (Unraced => CalmInv /\ TraceInv) => (Unraced => ReplayAgrees)
  BY DEF TraceInv
<1> QED BY <1>1, TraceInvHolds, PTL

(* When a turn has replayed what is stored, such code is where the turn    *)
(* before has left it.                                                     *)
THEOREM ReplayResumesHolds == Spec => [](Unraced => ReplayResumes)
<1>1. Inv /\ (Unraced => CalmInv /\ TraceInv) => (Unraced => ReplayResumes)
  BY TraceResumes
<1> QED BY <1>1, TraceInvHolds, PTL
=============================================================================
