------------------------------ MODULE Documents ------------------------------
(***************************************************************************)
(* What the document generators say of a machine: the charts and tables of *)
(* the HTML and RST writers (fsm_html.c, fsm_rst.c) and the state diagram  *)
(* of the PlantUML writer (fsm_plantuml.c).  Some are printed from the     *)
(* array, some from the lists kept beside it, some from the chains of      *)
(* declarations; each must tell a reader of the same machine.              *)
(***************************************************************************)
EXTENDS Statistics

none == "none"      \* a cell of the chart that is left blank

(* What is blank is no action's name.                                        *)
ASSUME BlankAssumption == none \notin Actions

DeclaredAs(a) == {i \in DOMAIN decls : decls[i].action = a}

-----------------------------------------------------------------------------
(* HTML: a column of the state chart for every event that is not consumed.  *)
ChartEvents == Events \ Consumed

ChartCell(x, s) ==
    LET i == array[x][s]
    IN  IF i = NULL THEN [action |-> none, to |-> {}]
                    ELSE [action |-> decls[i].action, to |-> decls[i].to]

EventRow(x) ==
    [noHandler |-> handling[x] = {} /\ x \notin Consumed,
     handledIn |-> handling[x], density |-> state_density_pct(x), actions |-> caused[x]]

StateRow(s) ==
    [lazy |-> handled[s] = {}, noEntry |-> inbound[s] = {} /\ s # FirstState,
     deadEnd |-> outbound[s] = {}, inbound |-> inbound[s], outbound |-> outbound[s],
     events |-> handled[s], density |-> event_density_pct(s), actions |-> taken[s]]

(* Fault for the checks: the chain of an action's declarations is not        *)
(* followed.                                                                 *)
ActionRowOfTheLast(a) ==
    {[events |-> ToSet(MatrixEvents(decls[i])), states |-> ToSet(MatrixStates(decls[i])),
      to |-> decls[i].to] : i \in {j \in DeclaredAs(a) : \A k \in DeclaredAs(a) : k <= j}}

(* The matrices listed for an action: its chain of declarations, in which    *)
(* those without a name have one in common.                                  *)
ActionRow(a) ==
    {[events |-> ToSet(MatrixEvents(decls[i])), states |-> ToSet(MatrixStates(decls[i])),
      to |-> decls[i].to] : i \in DeclaredAs(a)}

(* The figures above the rows, and those of the page.                        *)
EventTableHead == [notHandled |-> Summary.notHandled, inOneState |-> Summary.inOneState,
                   density |-> average_event_state_density_pct]
StateTableHead == [noEvents |-> Summary.noEvents, oneEvent |-> Summary.oneEvent,
                   noWayIn |-> Summary.noWayIn, noWayOut |-> Summary.noWayOut,
                   density |-> average_state_event_density_pct]
HtmlStatistics == Summary

-----------------------------------------------------------------------------
(* RST: the chart has a column for every event; an empty cell stays blank.   *)
RstCell(x, s) ==
    LET i == array[x][s]
    IN  [action |-> IF i = NULL THEN "" ELSE decls[i].action,
         to |-> IF i = NULL THEN {} ELSE decls[i].to]

RstState(s) ==
    [handles |-> handled[s], takes |-> taken[s], enteredFrom |-> inbound[s],
     noActionWarning |-> taken[s] = {} /\ handled[s] # {},
     noWayInWarning |-> inbound[s] = {} /\ s # FirstState,
     noWayOutWarning |-> outbound[s] = {}, leadsTo |-> outbound[s]]

(* "handled identically in n states": n is 0 where this is not printed.      *)
RstEvent(x) ==
    [identicallyIn |-> IF inAll[x] THEN Cardinality(States) ELSE count[x],
     states |-> handling[x], noStateWarning |-> handling[x] = {},
     actions |-> caused[x], noAction |-> caused[x] = {} /\ handling[x] # {}]

(* The number of exit functions is printed for both kinds of function.       *)
RstStatistics == [Summary EXCEPT !.entryFns = Summary.exitFns]

-----------------------------------------------------------------------------
(* PlantUML: the cells are scanned state by state.  An arc leads to a state  *)
(* or to the choice drawn for a transition function, the set of its returns; *)
(* a choice's own arcs are drawn where the function is seen first.           *)
IsChoice(to) == Cardinality(to) > 1

ScanOrder ==
    LET ss == SetToSeq(States)
        es == SetToSeq(Events)
    IN  FlattenSeq([k \in DOMAIN ss |-> [l \in DOMAIN es |-> <<es[l], ss[k]>>]])

DrawCell(diagram, cell) ==
    LET i == array[cell[1]][cell[2]]
        arc == [from |-> cell[2], event |-> cell[1], to |-> decls[i].to, action |-> decls[i].action]
    IN  IF i = NULL THEN diagram
        ELSE IF decls[i].to = {} THEN [diagram EXCEPT !.loopBacks = Append(@, cell)]
        ELSE [arcs |-> Append(diagram.arcs, arc),
              choices |-> IF IsChoice(arc.to) /\ arc.to \notin ToSet(diagram.choices)
                          THEN Append(diagram.choices, arc.to) ELSE diagram.choices,
              loopBacks |-> diagram.loopBacks]

Blank == [arcs |-> <<>>, choices |-> <<>>, loopBacks |-> <<>>]

Diagram ==
    LET order == ScanOrder
        drawn[k \in 0..Len(order)] ==
            IF k = 0 THEN Blank ELSE DrawCell(drawn[k - 1], order[k])
    IN  drawn[Len(order)]

(* Where the arcs of the diagram lead from s, choices passed through.        *)
Reached(s) ==
    UNION {IF IsChoice(a.to) THEN UNION {c \in ToSet(Diagram.choices) : c = a.to} ELSE a.to :
           a \in {b \in ToSet(Diagram.arcs) : b.from = s}}

-----------------------------------------------------------------------------
(* A reader of the action table, of the event and the state tables and       *)
(* sections, and of the diagram learns the same as a reader of the chart:    *)
(* which action answers an event in a state, what it leads to, what a state  *)
(* and an event take part in, and which of them are marked as deficient.     *)
(* Nothing is said to be handled identically in more states than it is, and  *)
(* each transition function's choice is drawn once.                          *)
(* Left out are machines with a matrix that names a consumed event.          *)
DocumentsTellTheSame ==
    Populated /\ (\A x \in Consumed : handling[x] = {}) =>
        /\ \A x \in ChartEvents, s \in States :
              /\ ChartCell(x, s).action # none =>
                     \E r \in ActionRow(ChartCell(x, s).action) :
                         x \in r.events /\ s \in r.states /\ r.to = ChartCell(x, s).to
              /\ RstCell(x, s).to = ChartCell(x, s).to
        /\ \A i \in DOMAIN decls : \A r \in ActionRow(decls[i].action) :
              \A x \in r.events, s \in r.states :
                  ChartCell(x, s) = [action |-> decls[i].action, to |-> r.to]
        /\ \A x \in ChartEvents :
              LET column == {s \in States : ChartCell(x, s).action # none}
              IN  /\ EventRow(x).handledIn = column
                  /\ EventRow(x).noHandler <=> column = {}
                  /\ EventRow(x).actions = {ChartCell(x, s).action : s \in column} \ {""}
                  /\ RstEvent(x).noStateWarning <=> EventRow(x).noHandler
                  /\ RstEvent(x).identicallyIn # 0 =>
                         \E i \in DOMAIN decls :
                             RstEvent(x).identicallyIn = Cardinality({s \in States : array[x][s] = i})
        /\ \A s \in States :
              LET row == {x \in ChartEvents : ChartCell(x, s).action # none}
                  leads == UNION {ChartCell(x, s).to : x \in row}
              IN  /\ StateRow(s).events = row
                  /\ StateRow(s).actions = {ChartCell(x, s).action : x \in row} \ {""}
                  /\ StateRow(s).outbound = leads \ {s}
                  /\ StateRow(s).inbound = {t \in States : s \in StateRow(t).outbound}
                  /\ Reached(s) = leads
                  /\ \A x \in row :
                         (<<x, s>> \in ToSet(Diagram.loopBacks)) <=> ChartCell(x, s).to = {}
        /\ NumberOf({x \in ChartEvents : EventRow(x).noHandler}) = EventTableHead.notHandled
        /\ NumberOf({s \in States : StateRow(s).lazy}) = StateTableHead.noEvents
        /\ NumberOf({s \in States : StateRow(s).noEntry}) = StateTableHead.noWayIn
        /\ NumberOf({s \in States : StateRow(s).deadEnd}) = StateTableHead.noWayOut
        /\ NumberOf({s \in States : RstState(s).noWayInWarning}) = RstStatistics.noWayIn
        /\ NumberOf({s \in States : RstState(s).noWayOutWarning}) = HtmlStatistics.noWayOut
        /\ IsInjective(Diagram.choices)
        /\ Len(Diagram.arcs) + Len(Diagram.loopBacks) = NumberOf(FilledCells)
=============================================================================
