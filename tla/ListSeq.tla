------------------------------- MODULE ListSeq -------------------------------
(***************************************************************************)
(* What list.h promises: a list is a sequence of members.  Members are     *)
(* integers, so that an ordering function has something to compare.        *)
(***************************************************************************)
EXTENDS Integers, Sequences, SequencesExt

CONSTANTS Members, Lists

VARIABLE contents   \* contents[l]: the members of l, from head to tail

AppendNew(s, x) == IF Contains(s, x) THEN s ELSE Append(s, x)

(* In front of the first member that x is lower than, or at the end.        *)
Insert(s, x) ==
    LET i == SelectInSeq(s, LAMBDA y : x < y)
    IN  IF i = 0 THEN Append(s, x) ELSE InsertAt(s, i, x)

(* s and the members of q that are wanted, all of them or only the new ones. *)
AppendAll(s, q, keep) ==
    LET upTo[n \in 0..Len(q)] ==
            IF n = 0 THEN s
            ELSE IF q[n] \in keep THEN Append(upTo[n - 1], q[n]) ELSE upTo[n - 1]
    IN  upTo[Len(q)]

AppendAllNew(s, q, keep) ==
    LET upTo[n \in 0..Len(q)] ==
            IF n = 0 THEN s
            ELSE IF q[n] \in keep THEN AppendNew(upTo[n - 1], q[n]) ELSE upTo[n - 1]
    IN  upTo[Len(q)]

Set(l, s) == contents' = [contents EXCEPT ![l] = s]

Init == contents = [l \in Lists |-> <<>>]

Next ==
    \E l \in Lists :
        \/ \E x \in Members : \/ Set(l, Append(contents[l], x))
                              \/ Set(l, AppendNew(contents[l], x))
                              \/ Set(l, Insert(contents[l], x))
                              \/ Set(l, RemoveFirst(contents[l], x))
        \/ Set(l, <<>>)
        \/ \E src \in Lists \ {l} :
              \/ contents' = [contents EXCEPT ![l] = @ \o contents[src], ![src] = <<>>]
              \/ \E keep \in SUBSET Members :
                    \/ Set(l, AppendAll(contents[l], contents[src], keep))
                    \/ Set(l, AppendAllNew(contents[l], contents[src], keep))

Spec == Init /\ [][Next]_contents
=============================================================================
