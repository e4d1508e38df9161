----------------------------- MODULE TableNames ------------------------------
(***************************************************************************)
(* The functions the constant table of a table-driven machine names, the   *)
(* enumerations and arrays that stand for them when the table is compacted,*)
(* and what the generated header declares and the generated source        *)
(* defines.  All are printed from lists the parser keeps beside the        *)
(* declarations, the table from the action array.                          *)
(***************************************************************************)
EXTENDS CellCode

AddUnique(list, name) == IF name \in ToSet(list) THEN list ELSE Append(list, name)

(* The names wanted of a list, each once, in the order they first come.      *)
Unique(names, wanted) ==
    LET unique[k \in 0..Len(names)] ==
            IF k = 0 THEN <<>>
            ELSE IF names[k] \in wanted THEN AddUnique(unique[k - 1], names[k])
            ELSE unique[k - 1]
    IN  unique[Len(names)]

(* The parser's lists.  A transition function goes by the states it returns. *)
Targets(sizes) ==
    Unique([i \in DOMAIN decls |-> decls[i].to],
           {to \in SUBSET States : Cardinality(to) \in sizes})

action_list == Unique([i \in DOMAIN decls |-> decls[i].action], Actions)
transition_list == Targets({1})
transition_fn_list == Targets(2..Cardinality(States))

NamedActions == Unique(action_list, Actions \ {""})

noTransitionName == <<"noTransition", {}>>
noTransitionFn == <<"noTransitionFn", {}>>
Fn(to) == <<"", to>>
TransitionTo(to) == <<"transitionTo", to>>
Fns(list) == [k \in DOMAIN list |-> Fn(list[k])]
TransitionsTo(list) == [k \in DOMAIN list |-> TransitionTo(list[k])]

empty_cell_fn(o) == IF o.emptyCellFn THEN <<"emptyCellFn">> ELSE <<>>

-----------------------------------------------------------------------------
(* The enumerators and the arrays of a compacted table.                      *)
ActionFnEnum(o) == NamedActions \o empty_cell_fn(o) \o <<"noAction">>
action_fns(o) == NamedActions \o empty_cell_fn(o) \o <<"noAction">>

(* Fault for the checks: the states' functions come first in the enumeration. *)
TransitionFnEnumStatesFirst ==
    TransitionsTo(transition_list) \o Fns(transition_fn_list) \o <<noTransitionName>>

TransitionFnEnum ==
    Fns(transition_fn_list) \o TransitionsTo(transition_list) \o <<noTransitionName>>

transition_fns ==
    Fns(transition_fn_list) \o TransitionsTo(transition_list) \o <<noTransitionFn>>

(* What the table says for a cell: what it calls, and the transition's       *)
(* function; a machine that has no transition functions has states there.    *)
CellAction(o, i) ==
    IF i = NULL THEN Head(empty_cell_fn(o) \o <<"noAction">>)
    ELSE IF HasAction(i) THEN decls[i].action ELSE "noAction"

CellFn(i, none) ==
    IF i = NULL \/ ~HasTransition(i) THEN none
    ELSE IF NamesState(i) THEN TransitionTo(decls[i].to) ELSE Fn(decls[i].to)

(* In machines whose actions return states, one function does all.           *)
CellStateAction(o, i) ==
    IF i = NULL \/ HasAction(i) THEN <<"action", CellAction(o, i)>>
    ELSE <<"transition", CellFn(i, noTransitionName)>>

-----------------------------------------------------------------------------
(* What commonHeaderEnd declares.                                            *)
DeclaredActions(o) == NamedActions \o empty_cell_fn(o) \o <<"noAction">>

DeclaredTransitionFns ==
    IF transition_fn_list = <<>> THEN <<>>
    ELSE Fns(transition_fn_list) \o TransitionsTo(transition_list)
             \o <<noTransitionFn>>

(* The weak functions of the source: the user's in any case.  For the      *)
(* states' functions, machines whose actions return states go through the    *)
(* array cell by cell, others through transition_list.                       *)
DefinedActions == NamedActions \o <<"noAction">>

StateTransitions(kind) ==
    IF kind # "states" THEN TransitionsTo(transition_list)
    ELSE LET cells == {c \in Events \X States : LET i == array[c[1]][c[2]]
                                               IN  i # NULL /\ ~HasAction(i) /\ NamesState(i)}
             order == SetToSeq(cells)
         IN  TransitionsTo([k \in DOMAIN order |-> decls[array[order[k][1]][order[k][2]]].to])

DefinedTransitionFns(kind) ==
    (IF transition_fn_list = <<>> THEN <<>>
     ELSE StateTransitions(kind) \o <<noTransitionFn>>)
        \o Fns(transition_fn_list)

-----------------------------------------------------------------------------
(* Machines whose actions return states and that the code fails: a state's   *)
(* function named and not declared, or defined more than once.               *)
StateFnsMiscounted ==
    LET cells == StateTransitions("states")
    IN  cells # <<>> /\ (transition_fn_list = <<>> \/ ~IsInjective(cells))

(* A compacted table's enumeration begins with a comma if nothing precedes   *)
(* the dummies.                                                              *)
BeginsWithComma == NamedActions = <<>>

At(enum, fns, name) == fns[CHOOSE k \in DOMAIN enum : enum[k] = name]

(* Every function the table names is declared; each but the user's empty-    *)
(* cell function is defined, and none twice; and the enumerator a compacted  *)
(* table has for a cell leads, through the array beside the enumeration, to  *)
(* the function the plain table names.                                       *)
ActionNamesAreDefined(o, i) ==
    LET action == CellAction(o, i)
    IN  /\ action \in ToSet(DeclaredActions(o))
        /\ action \in ToSet(DefinedActions) \cup ToSet(empty_cell_fn(o))
        /\ ~BeginsWithComma => At(ActionFnEnum(o), action_fns(o), action) = action

TransitionNamesAreDefined(i) ==
    LET fn == CellFn(i, noTransitionFn)
    IN  /\ fn \in ToSet(DeclaredTransitionFns) \cap ToSet(DefinedTransitionFns("events"))
        /\ At(TransitionFnEnum, transition_fns, CellFn(i, noTransitionName)) = fn

StateNamesAreDefined(o, i) ==
    LET f == CellStateAction(o, i)
    IN  IF f[1] = "action" THEN f[2] \in ToSet(DeclaredActions(o))
        ELSE f[2] \in ToSet(DeclaredTransitionFns) \cap ToSet(DefinedTransitionFns("states"))

TableNamesAreDefined ==
    Populated =>
        /\ IsInjective(DefinedActions) /\ IsInjective(DefinedTransitionFns("events"))
        /\ ~StateFnsMiscounted => IsInjective(DefinedTransitionFns("states"))
        /\ \A o \in [emptyCellFn : BOOLEAN], x \in Events, s \in States :
              LET i == array[x][s]
              IN  /\ ActionNamesAreDefined(o, i)
                  /\ transition_fn_list # <<>> => TransitionNamesAreDefined(i)
                  /\ ~Refused([kind |-> "states", x |-> x, s |-> s]) /\ ~StateFnsMiscounted =>
                         StateNamesAreDefined(o, i)
=============================================================================
