--------------------------- MODULE ExclusiveLock ---------------------------
(***************************************************************************)
(* What ADR-066 promises of the publisher lock: at most one publisher is   *)
(* between acquiring an output root and letting go of it, by release or by *)
(* death.                                                                  *)
(***************************************************************************)
CONSTANTS Procs, None

VARIABLE holder

Free == holder = None

Acquire(p) == Free /\ holder' = p
LetGo(p)   == holder = p /\ holder' = None

Spec == Free /\ [][\E p \in Procs : Acquire(p) \/ LetGo(p)]_holder
=============================================================================
