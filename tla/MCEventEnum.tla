----------------------------- MODULE MCEventEnum -----------------------------
(* Machines with one to three states.                                        *)
EXTENDS EventEnum

MCNumStates == [m \in 1..MaxMachines |-> 1 + (m % 3)]
=============================================================================
