----------------------------- MODULE MCSupervisor -----------------------------
(* Supervisor on a few calls a boot; the callers are interchangeable. *)
EXTENDS Supervisor, TLC

CallerSymmetry == Permutations(Caller)

===============================================================================
