--------------------------------- MODULE Hsm ---------------------------------
(***************************************************************************)
(* What a description promises, whichever generator writes the code: at    *)
(* most one event is being handled; the machine that declares it handles   *)
(* it in its current state; what the action returns is handled next; no    *)
(* event is lost, except when a state inhibiting sub-machines is above its *)
(* machine; a shared event goes to its sharers in order until one returns  *)
(* an event, and only then does the sharing machine make its transition.   *)
(* Loops, numeric ranges, noEvent translation and calls are not mentioned. *)
(***************************************************************************)
EXTENDS FsmTables

VARIABLES
    state,   \* the state of each machine
    cur,     \* the event being handled, or NoEvent
    open     \* open[m]: what m is sharing, or Closed

hsmVars == <<state, cur, open>>

NoEvent == -1
Closed == [event |-> NoEvent, left |-> <<>>]

Owner(x) == CHOOSE m \in Machines : x \in OwnEvents(m)
Declared == UNION {OwnEvents(m) : m \in Machines}
Meaning(x) == IF x \in Declared THEN x ELSE NoEvent

(* m, its parent, and so on up to the top: what any set of machines that has *)
(* m, and the parent of each of its machines, contains.                      *)
UpClosed(S) == \A c \in S \cap Subs : Parent[c] \in S
Lineage(m) == {a \in Machines : \A S \in SUBSET Machines : m \in S /\ UpClosed(S) => a \in S}

Above == [m \in Machines |-> Lineage(m) \ {m}]
Below(m) == {d \in Machines : m \in Above[d]}

Open == {m \in Machines : open[m] # Closed}
Innermost(m) == m \in Open /\ Open \cap Below(m) = {}
Idle == cur = NoEvent /\ Open = {}

(* The events a machine returns stay below the machine that is sharing.     *)
InScope(m) == \A a \in Open : m \in Below(a)
Inhibited(m) == \E a \in Above[m] \ Open : state[a] \in Inhibiting[a]

-----------------------------------------------------------------------------
Init == state = StartState /\ cur = NoEvent /\ open = [m \in Machines |-> Closed]

Accept(x) ==
    /\ Idle /\ cur' = x
    /\ UNCHANGED <<state, open>>

Handles(m) == cur \in OwnEvents(m) /\ InScope(m) /\ ~Inhibited(m)

Handle(m) ==
    /\ Handles(m) /\ ~Cell(m, cur, state[m]).shares
    /\ \E s \in Cell(m, cur, state[m]).next : state' = [state EXCEPT ![m] = s]
    /\ \E x \in Cell(m, cur, state[m]).returns : cur' = Meaning(x)
    /\ UNCHANGED open

Share(m) ==
    /\ Handles(m) /\ Cell(m, cur, state[m]).shares
    /\ open' = [open EXCEPT ![m] =
                   [event |-> cur,
                    left  |-> IF state[m] \in Inhibiting[m] /\ ~InhibitingStatesShareEvents
                              THEN <<>> ELSE SharersOf(m, cur)]]
    /\ cur' = NoEvent
    /\ UNCHANGED state

PassOn(m) ==
    /\ Innermost(m) /\ cur = NoEvent /\ open[m].left # <<>>
    /\ cur' = Head(open[m].left).event
    /\ open' = [open EXCEPT ![m] = [event |-> @.event, left |-> Tail(@.left)]]
    /\ UNCHANGED state

Close(m) ==
    /\ Innermost(m)
    /\ IF cur = NoEvent THEN open[m].left = <<>> ELSE Owner(cur) \notin Below(m)
    /\ \E s \in Cell(m, open[m].event, state[m]).next : state' = [state EXCEPT ![m] = s]
    /\ open' = [open EXCEPT ![m] = Closed]
    /\ UNCHANGED cur

Discard(m) ==
    /\ cur \in OwnEvents(m) /\ InScope(m) /\ Inhibited(m)
    /\ cur' = NoEvent
    /\ UNCHANGED <<state, open>>

Work == \E m \in Machines : Handle(m) \/ Share(m) \/ PassOn(m) \/ Close(m) \/ Discard(m)

Next == (\E x \in Declared : Accept(x)) \/ Work

Spec == Init /\ [][Next]_hsmVars
FairSpec == Spec /\ WF_hsmVars(Work)
=============================================================================
