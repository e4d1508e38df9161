--------------------------- MODULE ActionInfoList ----------------------------
(***************************************************************************)
(* action_info_list.c: declarations of one action, one transition and the  *)
(* same events are consolidated, and printed as one group of cases.        *)
(***************************************************************************)
EXTENDS ActionArray

(* matrices_have_same_events: the lists are compared member by member.       *)
SameEvents(i, j) == MatrixEvents(decls[i]) = MatrixEvents(decls[j])

(* Fault for the checks: the transitions are not compared.                   *)
MayConsolidateByAction(i, j) ==
    decls[i].action = decls[j].action /\ SameEvents(i, j)

MayConsolidate(i, j) ==
    /\ decls[i].action = decls[j].action
    /\ decls[i].to = decls[j].to
    /\ SameEvents(i, j)

WithMatrix(record, i) == [record EXCEPT !.matrices = Append(@, i)]

(* compose_consolidated_list for declaration i: its matrix goes to the first *)
(* record it may join, or to a record of its own.                            *)
Compose(list, i) ==
    LET joins == {k \in DOMAIN list : MayConsolidate(list[k].pai, i)}
        first == CHOOSE k \in joins : \A j \in joins : k <= j
    IN  IF joins = {} THEN Append(list, [pai |-> i, matrices |-> <<i>>])
        ELSE [list EXCEPT ![first] = WithMatrix(@, i)]

(* The list after n declarations.                                            *)
composed[n \in Nat] == IF n = 0 THEN <<>> ELSE Compose(composed[n - 1], n)

consolidate_action_info_list == composed[Len(decls)]

(* The case labels printed for a record's matrices.                          *)
Labels(record) ==
    UNION {{<<x, s, m>> : x \in ToSet(MatrixEvents(decls[record.matrices[m]])),
                          s \in ToSet(MatrixStates(decls[record.matrices[m]]))} :
           m \in DOMAIN record.matrices}
=============================================================================
