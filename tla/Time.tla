-------------------------------- MODULE Time ---------------------------------
(* True time, in ticks.  Every clock of buyers and replicas is off it by a constant. *)

CONSTANT MaxTime     \* bound: the clock stops here and stands for any later time

VARIABLE now

==============================================================================
