---------------------------- MODULE MCActionArray ----------------------------
(***************************************************************************)
(* Three states, the third implemented by a sub-machine, and three events, *)
(* the last consumed by its translator.                                    *)
(***************************************************************************)
EXTENDS GeneratedCode, TableNames, Documents, EventSequences, PyTransitions

Decl(ev, st, a, to) == [events |-> ev, states |-> st, action |-> a, to |-> to]

(* A set of one state stands for a transition to it, a larger one for a      *)
(* transition function.  Only a declaration without an action may name the   *)
(* third state.  The last two name a cell twice, and the consumed event.     *)
MCDeclarations ==
    {Decl(ev, st, w[1], w[2]) : ev \in {<<>>, <<"e1">>, <<"e2", "e1">>},
                                st \in {<<>>, <<"s1">>},
                                w \in {<<"a", {}>>, <<"", {"s2"}>>, <<"b", {"s1", "s3"}>>}}
        \cup {Decl(ev, st, "", to) : ev \in {<<>>, <<"e1">>, <<"e2", "e1">>},
                                     st \in {<<"s2", "s3">>, <<"s1", "s2", "s3">>},
                                     to \in {{"s2"}, {"s1", "s2"}}}
        \cup {Decl(<<"e1">>, <<"s1", "s2">>, "a", {"s2"}),
              Decl(<<"e1">>, <<"s1", "s1">>, "a", {}),
              Decl(<<"e3", "e1">>, <<"s1", "s2">>, "a", {})}

(* Of the two transition functions, one is declared with conditions.         *)
MCConditional == {{"s1", "s3"}}

MCSequenceNodes == [event : {"e1", "e2"}, new : {"", "s1", "s2"}]
=============================================================================
