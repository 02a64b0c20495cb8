---------------------------- MODULE MCLifecycle ----------------------------
(* An instance of Lifecycle for TLC.  Clients start one orchestration only: *)
(* solo, which continues as new and has a queue, or parent, which may       *)
(* schedule child.                                                          *)
EXTENDS Lifecycle, TLC

CONSTANTS r0, r1, r2, solo, parent, child

(* The first schedule of the parent may be a sub-orchestration. *)
FirstIsChild == <<parent, 1>> :> child

KindsOf ==
    (solo :> {"activity", "timer"}) @@ (parent :> {"timer", "child"}) @@ (child :> {"timer"})

CallsOf == (solo :> 1) @@ (parent :> 2) @@ (child :> 1)

(* Only solo has a queue. *)
WaitsOf == (solo :> 1) @@ (parent :> 0) @@ (child :> 0)

(* Two processes share the family. *)
Processes == (solo :> {r0}) @@ (parent :> {r1, r2}) @@ (child :> {r1, r2})

RuntimeSymmetry == Permutations({r1, r2})
=============================================================================
