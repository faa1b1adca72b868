-------------------------------- MODULE MCNode --------------------------------
(* Node on a few requests a boot; the handlers are interchangeable. *)
EXTENDS Node, TLC

HandlerSymmetry == Permutations(Handler)

===============================================================================
