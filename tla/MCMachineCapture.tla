--------------------------- MODULE MCMachineCapture ---------------------------
EXTENDS MachineCapture, TLC

CONSTANTS e, s, events, states, void

(* No definition tells one identifier, or one return type, from another.    *)
Renamings == Permutations(Names) \cup Permutations(Returns)
=============================================================================
