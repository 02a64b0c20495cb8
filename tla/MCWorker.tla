------------------------------ MODULE MCWorker ------------------------------
(* Instances of WorkerQueue for TLC. *)
EXTENDS WorkerQueue, TLC

CONSTANTS r1, r2, w1, w2, plain, gpu

(* Two processes of one slot each. *)
TwoHosts == (w1 :> r1) @@ (w2 :> r2)

(* One process of two slots. *)
OneHost == (w1 :> r1) @@ (w2 :> r1)

AnyTag == [w \in Worker |-> Tag]

(* w2 is specialised, w1 serves every tag. *)
Specialised == (w1 :> {plain, gpu}) @@ (w2 :> {gpu})
=============================================================================
