---------------------------- MODULE GeneratedCode ----------------------------
(***************************************************************************)
(* The four C back ends are given the same populated action array.  Each   *)
(* is asked for its code for every event, in every state, with everything  *)
(* the user's functions may return.                                        *)
(***************************************************************************)
EXTENDS TableCode, SwitchCode, EventTableCode, SingleSwitchCode

(* For every kind of machine and every cell, the code of each generator      *)
(* calls the action of the cell, enters the state the cell, or what the      *)
(* user's functions returned, stands for, and tells the exit and entry       *)
(* functions of it in this order, and of nothing else.  Left out are the     *)
(* cases the README lists under the findings: each names its generator.      *)
CodeObeysTheArray ==
    Populated => \A c \in Cases : ~Refused(c) =>
        /\ Agrees(TableRun(c), c)
        /\ ~TransitionFnIsMisled(c) => Agrees(SingleSwitchRun(c), c)
        /\ ~StateIsLost(c) /\ ~EmptyCellFnDiffers(c) =>
               Agrees(EventTableRun(c), c)
        /\ ~HandlesTwo(c) /\ ~LeavesInPlace(c) /\ ~StoresNoTransition(c) =>
               Agrees(SwitchRun(c), c)

(* No generator prints a case for an event and a state twice, and none       *)
(* leaves one out: the groups printed for consolidated declarations are a    *)
(* partition of the array's cells, and each does what its cells ask for.     *)
CasesPartitionTheArray ==
    Populated => \A x \in Events, s \in States :
        /\ Cardinality(Groups(x, s)) = IF array[x][s] = NULL THEN 0 ELSE 1
        /\ array[x][s] # NULL =>
               /\ decls[GroupBody(x, s)].action = decls[array[x][s]].action
               /\ decls[GroupBody(x, s)].to = decls[array[x][s]].to

=============================================================================
