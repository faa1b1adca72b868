------------------------------ MODULE Installation ------------------------------
(***************************************************************************)
(* What the Install sequence promises of the disk it works on, with no     *)
(* steps, copies or caches: an installation becomes whole at once, on a    *)
(* disk on which nothing could be found before, and from then on no        *)
(* failure or loss of power takes it away; only a new table does.          *)
(***************************************************************************)
EXTENDS FiniteSets

VARIABLE finds   \* what a start may find that comes after a loss of power now

\* Nothing installed, a whole installation, or the marker of one that is gone.
TypeOK == finds \in SUBSET {"nothing", "whole", "leftover"} /\ finds # {}

Init == finds = {"nothing"}

Settled == Cardinality(finds) = 1

Layout == Settled /\ finds' \in {{"nothing"}, {"leftover"}}

Erase == finds = {"leftover"} /\ finds' = {"leftover", "nothing"}

Commit == finds = {"nothing"} /\ finds' = {"nothing", "whole"}

Settle == \E f \in finds : finds' = {f}

Next == Layout \/ Erase \/ Commit \/ Settle

Spec == Init /\ [][Next]_finds

=================================================================================
