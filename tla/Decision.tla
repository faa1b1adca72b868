------------------------------- MODULE Decision -------------------------------
(***************************************************************************)
(* What internal/supervise promises, with no goroutines, channels or       *)
(* signals: a node decides on a mode, runs at most one workload a boot and *)
(* only for the mode it decided on, decides and launches nothing once it   *)
(* is closed, and after a loss of power finds one of the decisions it had  *)
(* not yet settled.                                                        *)
(***************************************************************************)
CONSTANTS Mode, Implemented, Absent, Torn

VARIABLES
  decision,   \* the mode the node remembers
  survivors,  \* what it may remember after a loss of power
  running,    \* the mode whose workload runs, or Absent
  phase       \* "open" to a decision, "launched", or "closed"

vars == <<decision, survivors, running, phase>>

Init ==
  decision = Absent /\ survivors = {Absent} /\ running = Absent /\ phase = "open"

Decide(m) ==
  /\ phase = "open"
  /\ decision' = m
  /\ survivors' = survivors \cup {m, Torn}
  /\ UNCHANGED <<running, phase>>

Launch ==
  /\ phase = "open" /\ decision \in Implemented
  /\ running' = decision /\ phase' = "launched"
  /\ UNCHANGED <<decision, survivors>>

End ==
  /\ running # Absent
  /\ running' = Absent
  /\ UNCHANGED <<decision, survivors, phase>>

Close ==
  /\ phase' = "closed"
  /\ UNCHANGED <<decision, survivors, running>>

Settle ==
  /\ survivors' = {decision}
  /\ UNCHANGED <<decision, running, phase>>

PowerCycle ==
  /\ \E d \in survivors : decision' = d /\ survivors' = {d}
  /\ running' = Absent /\ phase' = "open"

Next ==
  \/ \E m \in Mode : Decide(m)
  \/ Launch \/ End \/ Close \/ Settle \/ PowerCycle

Spec == Init /\ [][Next]_vars

===============================================================================
