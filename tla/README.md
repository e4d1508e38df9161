# FSMLang, specified

FSMLang reads the description of one or more finite state machines and writes C
(or documents) for them. A description has a top-level machine; a machine has
states, events, action declarations (`action a[(e1, e2), (s1, s2)] transition s3`)
and, possibly, sub-machines, which are machines in their own right. This directory
holds TLA+ specifications of the translator's algorithms and of the programs it
writes, TLC configurations that check them, and TLAPS proofs.

Two levels have to be kept apart:

* the **translator** (`src/src`, a sequential C program: parser, lists, generators), and
* the **generated program**, whose control flow is spelled out in the `fprintf` calls of
  the generators. That is where most of the behaviour is: nested calls of machines,
  events handed up and down, events shared with sub-machines, inhibition. The modules
  about it translate the text the generators print, with the conditions under which
  they print it.

## Inventory

| Component | State | Operations | Interacts with | Hard to test | Correct when |
|---|---|---|---|---|---|
| Parser and machine capture (`parser.y`, `parser_support.c`) | `pmachineInfo`, `id_list`, `good` | one action per production, `capture_machine` | lists, action array | order of productions; two grammar actions for the same thing | every machine record agrees with its description |
| Linked lists (`list.c`) | elements with `prev`, `next`, `ordinal`; head, tail, count | add, ordered add, move, copy, remove, iterate both ways | everything | sequences of operations on two lists | the list is the sequence its operations describe; read backwards it is the reverse |
| Action array (`populate_action_array` in `fsm_utils.c`) | array of declarations, per-event and per-state facts | one cell per declaration, event and state | all generators | overlapping declarations, `(ALL)`, repeated names | array and facts say the same thing; clashes are refused |
| Event enumeration and its listings (`fsm_c_common.c`, `fsm_utils.c`, `fsm_c_pid_xref.c`) | values of enumerators | recursive printing, once per listing | finder, action array index, name table, cross references | nesting; listings that skip different entries | each event reaches the machine that declares it; position is value in every listing |
| Generated code: tables (`fsm_c.c`, `fsm_c_common.c`) | constant data, names of functions | – | all generated functions | five lists printed apart from each other | the layout of `FsmTables`; what a table names is declared and defined |
| Generated code: calls (`fsm_c_common.c`, `fsm_c_common_submach.c`) | locals of the active FSM functions, `pfsm->state`, `pfsm->event` | finder, sharing action, return, transition | FSM functions of all machines | call sequences through several machines, inhibition, returned events | see "Properties" |
| Table generator (`fsm_c.c`, `-tc`) | the same | the loop of the FSM function; one pass for each kind of action | calls, action array | stale field, out-of-range index, endless loop | implements `Hsm`; a pass does what the cell says |
| Switch generator (`fsm_cswitch.c`, `fsm_c_switch_common.c`, `-ts`) | the same | the loop, the all-states handler, the state functions | calls, action array facts | event returned half-way through a pass | the same |
| Event table generator (`fsm_c_event_table.c`, `-te`) | the same | a handler for each event, which is the user's action itself where one action handles the event in all states | action array facts | cases that fall through, states without a case | a pass does what the cell says |
| Single switch generator (`fsm_c_single_switch.c`, `-tss`) | the same | one switch over event and state, by consolidated declarations | consolidated declarations | one group too many or too few | the same; the groups partition the array |
| Consolidation of declarations (`action_info_list.c`) | list of merged records | merge, list by list | single switch and Python generators | declarations alike in two of three respects | merged declarations do the same |
| Event sequences (`event_sequences.c`) | tracker: current state, states visited, note | one step for each node | action array; all document generators | states given that the machine contradicts | a sequence without warnings is a run of the machine |
| Documents (`fsm_html.c`, `fsm_rst.c`, `fsm_plantuml.c`) | – | charts, tables, warnings, diagram | array, facts and declarations | three sources for one fact | all say the same |
| Statistics (`fsm_statistics.c`, `fsm_utils.c`) | counts | summing over facts | action array facts | rounding, empty rows | the figures are those of the array |
| Python generator (`fsm_python_transitions.c`) | list of transitions, preparation callback | printing; the package's `trigger` | consolidated declarations | order of entries and of conditions | takes the transitions the C code takes |
| Lexer, naming, options, `cwalk` | – | text in, text out | – | – | not modelled |

The generated program is sequential and persists nothing: there are no crashes, no
messages on a wire and no timeouts. What makes it hard is that several machines are
active at once on one stack, each having handed an event to the next and holding its
own state meanwhile, and that what comes back is any of: nothing, an event of the
caller, an event further down. The only concurrency is the caller's (several threads
calling one machine), which `src/README.md:24` forbids for machines not declared
`reentrant`.

## Modules

```
EventEnum            enumeration of a tree of machines, and its listings
   |  (FourMachines takes its event values from it)
FsmTables            constants: the generated tables, with their assumptions
   |        \
FsmCalls     Hsm     calls between machines / what a description promises
   |    \     |
   |   HsmMapping    refinement mapping from FsmCalls to Hsm
TableFsm, SwitchFsm  the two generated FSM functions (each EXTENDS FsmCalls)

ActionArray          populate_action_array
   |-- Statistics -- Documents          figures; charts, tables, diagram
   |-- ActionInfoList                   consolidated declarations
   |-- CellCode                         what a cell asks for
         |-- TableCode, SwitchCode, EventTableCode   one pass of a machine
         |-- SingleSwitchCode           the same (also on ActionInfoList)
         |-- TableNames                 functions named, declared and defined
         |-- EventSequences             sequences traced through the array
         |-- PyTransitions              the Python class (also on ActionInfoList, Statistics)
GeneratedCode        the four machines' code, on one action array

LinkedList           list.c, on a heap of elements
   |
ListSeq              the sequences that lists are

MachineCapture       namespaces, shared parent events, capture_machine

MCTableFsm, MCSwitchFsm, MCEventEnum, MCActionArray, MCMachineCapture, FourMachines    instances for TLC
(MCActionArray puts everything made from the action array on one instance of it)

EventEnum_proofs     values are distinct, events are led to their machines, listings agree
FsmCalls_proofs      what the calls preserve, and show of Hsm, whoever prints the loop around them
   |-- TableFsm_proofs                       invariants of TableFsm; TableFsm implements Hsm
   |-- SwitchFsm_proofs                      invariants of SwitchFsm; SwitchFsm implements Hsm where it loses no event
ActionArray_proofs   the array, its facts and its marks
   |-- GeneratedCode_proofs                  what is made from the array is true of it: code, names, sequences, figures, class, documents
MachineCapture_proofs                        what is recorded about machines
LinkedList_proofs    lists stay strung; LinkedList implements ListSeq
```

### EventEnum

State: `parent`, `machine_list`, `numEvents` and `returns` (what a machine's actions return), the tree of
machines declared so far; one action, `DeclareSubMachine`, the parser's closing of one more
machine. Each reachable tree is an input of the algorithms, which are functions: `Advance`
is by how much `print_sub_machine_events` moves the running value of the enumeration on (its events, `noEvent`,
the sub-machines, then `lastEvent`, which *repeats* the `noEvent` of the last direct child so that counting
goes on from there), `Starts` is the running value as each of a list of machines is reached, `EventEnum`
follows `commonHeaderStart`, `SubFsmIf` the range printed by `defineSubMachineIF`. `Route` is what repeated use of the finder does with an
event value. A listing that runs parallel to the enumeration is the sequence of the values
its entries stand for: the name table (`EventNames`), the cross reference files in all
formats (`EventXref`, `StateXref`) and the one in the comment (`EventXrefComment`), each
translated from its own recursion.

### FsmTables, FsmCalls, TableFsm, SwitchFsm

Calls are synchronous and go down the tree, so a machine's FSM function has at most one activation, and each local variable
is a function of the machine (a user's action that calls the machine again is not modelled):

| Variable | In the generated C |
|---|---|
| `state[m]`, `event[m]` | `pfsm->state`, `pfsm->event` |
| `e[m]` | the local `e`, the event of this pass of the loop |
| `new_e[m]` | the local `new_e`; in `pass_shared_event`, `return_event` |
| `sharer[m]` | the index of `pcurrent_sharer` in the list of sharers |
| `pc[m]` | where the function stands, see `CallControls` |

`FsmCalls` has the actions both generators print alike: `Run` (the program calls the
machine, with any event of any machine), `UserAction`, `SharingAction` (the action
written by `define_event_passing_actions`), `ShareNext`, `ShareDone`,
`MakeTransition`, `Find`, `HandBack`, `FinishRun`. `TableFsm` and `SwitchFsm` put them
into the loops the generators print, for machines whose actions return events.
A user's action is nondeterministic: it returns any event of its cell's `returns`. Steps
between the running of the action and the assignment of the state are separate, since
the action may call other machines. Locals that are dead are cleared, which changes
nothing a later step reads.

`FsmTables` states as assumptions what the tables look like. The numeric layout
(`LayoutAssumption`) is the part `EventEnum` checks: `FourMachines` computes its values
with `EventEnum`, and TLC evaluates the assumptions on them.
`CellAssumption` says what actions may return: a value of the machine's subtree or an
event of its parent (`src/README.md:428`; generated code lets a machine with
sub-machines return their events too).

### Hsm and HsmMapping

`Hsm` is the abstract machine: one event is being handled (`cur`), the machine that
declares it handles it in its current state, what the action returns is handled next;
no event is lost, unless a state above its machine inhibits sub-machines; a shared
event goes to its sharers in order until one of them returns an event. It has no
loops, ranges, `noEvent`s or calls. `Lineage` is a machine with all those above it;
`Above` and `Below` are taken from it. `HsmMapping` maps the locals of the running
function to `cur`, and the activations that are sharing to `open`; `ImplementsHsm`
and `ImplementsFairHsm` are checked as properties of both generated machines. The
module states two more facts about the enumeration: `EnumerationAssumption`, that no value is used
twice, and `RoutesEveryEvent`, that in each machine the finder knows a sub-machine for every event below.
The second is a definition and not an assumption of the module, since the enumeration
makes it false for some descriptions (finding 1); the instances for TLC assume it, and the theorems name it
as their hypothesis. `SwitchFsm` ends with two more definitions of that kind: `ReturnsEvents`, that actions return
events or `noEvent`, and `StateFnTakesReturns`, which excludes finding 3.

### ActionArray

One step is one call of `add_to_action_array`, or the entry into or exit from one of
the iterations around it (`process_action_info`, `iterate_matrix_states`).
`RefuseCell` is the error path, on which every iteration stops and
`capture_machine` reports the description. `single`, `count` and
`inAll` are `psingle_pai`, `single_pai_state_count` and `single_pai_for_all_states`; the
lists beside the array are the events a state handles, the states that handle an event, the
actions either brings about and a state's neighbours. `EventVector`, `Matrix`, `ActionMatrix`
and `TransitionMatrix` are the parser's productions for a declaration; `DeclarationAssumption`
says that the instance holds only what they accept. A transition is the set of states it may
lead to: one state for a named state, more for a transition function, which
is declared with what it returns.

### CellCode and the four generators

A machine's actions return events, nothing or states (`Kinds`). Once the array is populated,
`Cases` are all the situations one pass of the generated dispatch code can be in: kind,
event, state, what the user's action and transition function return, whether functions are
run on transitions. A generator's code is an operator on a record of the
variables the code works on: calls made, `pfsm->state`, the local for the next state, and the
local that holds the event or the answer. `CellCode` has the pieces all generators print
(action, next state, exit and entry functions, empty cell) and the reference `Described`.
Each of `TableCode`, `SwitchCode`, `EventTableCode` and `SingleSwitchCode` has the three
variants of its generator (`...Events`, `...Void`, `...States`, after `arev`, `arv` and `ars` in
the names of the C functions). What differs is how a cell is reached: by index; by the all-states handler or a state function;
by the event's handler, whose case labels fall through to the next one with the same declaration; by a
group of case labels printed for a record of `ActionInfoList`. The lists of a state's events and
of an event's states (`EventsHandled`, `HandlingStates`) are in the order in which `add_to_action_array` met their members: by
declaration, then by place in its matrix. `GeneratedCode` puts the four on the same array.
`EnumeratorAssumption` says that `noEvent` and `noTransition` are no names of the description:
they are members of the same C enumerations, which have no member twice.

### TableNames

Five texts have to agree for a table-driven machine to compile and to call the right
function: the table's initialisers, printed from the action array; the enumerations a
compacted table (`-c`) holds instead and the arrays of functions those index, printed from the parser's lists of actions,
transitions and transition functions; the header's declarations; the definitions in the
source. `Unique` is the walk that puts each of the names wanted on a list once; `Fns` and `TransitionsTo` are the printing of one entry for each member of a list.

### Statistics and Documents

`Statistics` has the counts and percentages computed from the facts beside the array, and
the writer's lines for events, states, actions and the machine. `Documents` has the HTML
chart, its tables of actions, events and states, the RST writer's chart, sections and
statistics, and PlantUML's arrows, choice nodes and loop-backs, each from the source its
code reads it from: the array, the lists beside it, or the declarations.

### EventSequences and PyTransitions

`EventSequences` has `determine_next_state` with its notes, and the lines, hidden states and
final-state warning that the writers print; `Trackers` is the tracker after each of a sequence's nodes, `Trace` the lines.
`PyTransitions` has the list of transitions, the callback `_fsm_prepare_event` and the
stubs of conditions; together they are `GeneratedClass`. The Python package `transitions` is external: `Trigger` models it from
how the generated class uses it (first entry of the event for the current state whose
condition holds; preparation, before, exit, entry, after). The value `None` there, and a cell of the chart that is left blank (`none` in `Documents`), are no names: `NoneAssumption`, `BlankAssumption`.

### LinkedList and ListSeq

`heap` holds the elements (`mbr`, `next`, `prev`, `ordinal`) in the order of their
allocation, `list` the records (`count`, `head`, `tail`), `freed` what `free_list` gave
back. `Walk` follows either kind of link. Each operation of `list.c` is an action; the copying ones differ in which members
they want (`keep`) and in whether they skip what is there already, and
`move_list_unique` is a copy that skips. `ListSeq` has the same operations on sequences;
`ImplementsSequences` reads a list from head to tail. An ordered addition and a removal
ask for "list integrity" (`Integral`: links of both directions agree), since they follow
`prev` without a test. `move_list` is asked for only with a source that is not empty: each of
its callers in `parser.y` moves a list that was just made with a declaration in it.
(With an empty source the destination would lose its tail.)

### MachineCapture

`machines` holds the `MACHINE_INFO` records in the order in which braces open,
`pmachineInfo` the machine being parsed, `good` whether `yyerror` was called, `trapped`
whether the translator was stopped. An action is a production of `parser.y` with what it
calls: `OpenMachine` (`machine_prefix` and the qualifier), `DeclareState`, `DeclareEvent`,
`ShareParentEvent` (`event parent::e`; the grammar has two actions for it, which treat
what is modelled alike), `CaptureMachine` (`capture_machine`, and `machine_list` in the
parent). A name's token in the namespace (`LOOKUP`, `STATE`, `EVENT`) decides which
production it fits, as in the lexer. `DivideByZero` and `NamespaceOfNoParent` are the two places
where such a description stops the translator: a machine with no states or no events at its
closing brace, and `parent::` in a top-level machine, where `yyerror` returns to code that
follows the null `parent`.

## Properties and runs

| Run | Module, instance | Checks | Result |
|---|---|---|---|
| `enumeration` | `EventEnum`, at most 5 machines, 2 events each, 2 levels below the top, actions that return events or nothing | every event reaches the machine that declares it; values are unique; in the name table and the cross reference files position is value | holds |
| `enumeration_deep` | `EventEnum`, 4 machines, 3 levels | `EveryEventReachesItsMachine` | **violated**, see findings |
| `cross_reference` | `EventEnum`, 4 machines, 2 levels | `XrefCommentMatchesValues` | **violated**, see findings |
| `table` | `TableFsm`, four machines on three levels, machine 1 inhibits in `s2` | index in bounds, `pfsm->event` current, inhibition, `ReturnsToTheCaller`, implements `Hsm` | holds |
| `table_fair` | the same, nobody inhibits | every call returns; implements `Hsm` with fairness | holds |
| `table_inhibit` | as `table`, with fairness | `RunCompletes` | **violated**, see findings |
| `switch` | `SwitchFsm`, as `table`, with `InhibitingStatesShareEvents`, events 1, 5 and 9 handled in all states | inhibition, `ReturnsToTheCaller`, implements `Hsm` with fairness, every call returns | holds |
| `switch_loss` | `SwitchFsm`, an event handled in all states whose action returns a sub-machine's event | `ImplementsHsm` | **violated**, see findings |
| `action_array` | `MCActionArray`, all lists of at most 3 of 33 declarations over 3 states and 3 events | see below | holds |
| `capture` | `MachineCapture`, 3 machines, 3 declarations each, 2 names, 3 return types | sharers match the sub-machines that share, in order; heterogeneous children, depth 1 and the counts of shared events are recorded exactly | holds |
| `capture_twice` | the same, 2 machines | `AcceptedEventsAreDistinct` | **violated**, see findings |
| `linked_list` | `LinkedList`, two lists, two members, four elements | implements `ListSeq`; counts, tails and ordinals agree with the links; one owner for each element; only joining breaks the backward links | holds |

`ReturnsToTheCaller` says of both generators' loops that what a sub-machine's FSM function returns is an event of its
caller's own, or the caller's `noEvent`. What ends the loop is a comparison of numbers, of values that came
from the user's actions and from machines below; a value let out too early (an event of a machine below, a
`noEvent` that is not translated) would look to the caller like an event for another of its sub-machines.

`action_array` asks of every list of declarations the parser accepts:

* `ArrayHoldsTheMatrices`: the population fails if and only if a cell is named twice, and otherwise
  the array holds what the matrices say; `InAllMeansOneDeclaration`: the flag by which the
  generators take an event out of the states' code says that one declaration fills its row;
  `FactsMatchTheArray`: at every step, on the error path too, the lists kept beside the array say what the array says, and neighbours mirror one another;
* `CodeObeysTheArray`: one pass of each of the four generators' code makes the calls the
  cell asks for, in this order, and enters the state it asks for, in machines of all three kinds, whatever the user's functions return (except for the cases under
  "Findings", each of which is a named operator that the property leaves out);
  `CasesPartitionTheArray`: the single switch has exactly one group of cases for a filled cell, none for an
  empty one, and what it does is what the cell says; `TableNamesAreDefined`: what the table names is declared and defined once,
  and the compacted table leads to the same functions;
* `PythonTakesTheSame`: a trigger of the Python class runs the same action, enters the same
  state and calls the same exit and entry functions as the C code;
* `SequenceNotesAreTrue`: a traced sequence without warnings is a run of the machine, and a
  warning means a departure from it; lines follow one another, and exactly the states not visited are hidden;
* `FiguresMatchTheArray`, `DocumentsTellTheSame`: counts and percentages are those of the
  array, and charts, tables, sections, warnings and diagram, taken from three sources, say the same of a machine.

**Bounds.** `enumeration`: five machines contain every shape of two levels with two
siblings on a level, a sibling after a machine with children, and children on both
sides; the algorithm's only case distinctions are "has sub-machines" and "is last", and both
meet every combination. Two events tell "counts events" from "counts machines".
`enumeration_deep` needs only a chain of four.
The four machines of `FourMachines` have a machine with two sub-machines of which the
first has one itself, so that an event is found through two finders; one
event with two sharers and one shared a level lower; actions that return nothing, an event of
their own machine, of the parent and of a sub-machine; an inhibiting state. Each call
sequence ends, since the cells' `returns` have no cycle, so `RunCompletes` may be asked
for; with a cycle the user's actions themselves would go on for ever.
`action_array`: three declarations are enough for a third one to follow a clash-free
pair, and for two that may be consolidated with a third one between them; they are over all of, one of or
two of the events and states, in both orders. A declaration with `(ALL)`, one that names the state implemented by a
sub-machine (only without an action, as the grammar wants it), one with a repeated state and one with an event consumed by its translator are
there. Of the two transition functions one is declared with conditions (`Conditional`), of the events two carry data (`DataEvents`), two states have entry functions and one an exit function (`EntryStates`, `ExitStates`).
Sequences have up to `MaxNodes` = 2 nodes, each of two events with no state given, or one of two, and start in any state: a warning in the first node can disturb the second.
`capture`: three machines are a chain of three or two siblings, enough for a second
sub-machine to undo what the first recorded, and for siblings to be mistaken for
levels; three declarations are a state and an event that is declared and then shared, or
two shared events. Names, and return types, are interchangeable (`Renamings`).
`linked_list`: four elements on two lists give every case of each operation (empty,
single, head, middle, tail; two on two for a join), joins of joined lists, and additions to and
removals from the result; two members are enough for a repeated and for an ordered one.

**Fairness.** The generated program runs on its caller's thread; `FairSpec` has weak
fairness of "some FSM function takes a step, or the call returns", which is that the
thread runs on. Nothing is assumed of the program calling the machine, nor of which
event a user's action returns. The abstract `FairSpec` has weak fairness of the work on accepted events only.

**Faults.** Definitions introduced by a comment "Fault" are variants of the definition
next to them, with a plausible mistake in it; each property is known to be violated when one of them
takes the place of the right one, so none of them holds by construction.

## Findings

1. *Three levels of sub-machines* (`fsm_utils.c:1294`). `lastEvent` of a machine is the
   `noEvent` of its last direct child, not the end of that child's own range. With two
   levels this is right, because the last child has no children (or the range of the
   finder one level up is the top level's, which needs none); with three, events of the
   deepest machine lie in no range and the finder returns `noEvent`. The parser accepts
   any depth; `src/README.md:436` promises one level.
2. *Inhibition in table-driven code* (`fsm_c.c:1191`, and `1266`). The call of the finder
   is guarded by an `if` without `else`; when the state inhibits sub-machines, `e` stays
   what it is and the loop does not end. The switch generator assigns `noEvent`.
3. *Returned events in switch code* (`fsm_cswitch.c:2166`). The event returned by the
   all-states handler goes to the state function in the same pass, which has no
   case for sub-machine events or for events handled in all states, and the event is
   lost. When it does have a case the action runs, with `pfsm->event` still the
   first event.
4. *Cross reference in the comment* (`fsm_c_common.c:2258`). The recursion prints the `noEvent` of
   a sub-machine only if that machine's actions return events; the enumeration has it for
   every sub-machine. Behind a sub-machine whose actions return nothing or states, every index in the comment is too
   small. The cross reference files are right (`XrefMatchesValues`).
5. *Parent events referenced twice* (`fsm_utils.c:179`). `add_unique_id` keeps the token
   that `lookup_id` returns in a `bool`, and so answers `true` also for a name that is
   there. "Cannot reference parent event twice" is never reported: the event stands
   twice in the event list, hence in the enumeration, and its sharer is called twice.

`sub_machine_depth` is not the depth of the tree but the number of machines in it that
have sub-machines (a top-level machine with two sub-machines that have one each gets 3,
and statistics print that); `DepthOneIsExact` shows that the one use the generators make
of it, `maxDepth() == 1`, is right nevertheless.

### What the properties leave out

The comparison of the generators met cases in which a generator's code does something else than
the others', or than the cell says, and where no text of the repository promises better. Each
is a named operator in the generator's module, and the property holds for all other cases.

| Operator | Code | What the code does |
|---|---|---|
| `HandlesTwo` | `fsm_cswitch.c:2166` | (switch, events) finding 3, seen in one machine: the event the all-states handler returns is handled in the same pass. |
| `LeavesInPlace` | `fsm_cswitch.c:1560` | (switch, states) The state function runs the functions for leaving a state, and the caller the one for entering it, also when the action returns the present state. |
| `StoresNoTransition` | `fsm_cswitch.c:2584` | (switch, states) Without functions to run on transitions, the all-states handler's `noTransition` is stored in `pfsm->state`. |
| `StateIsLost` | `fsm_c_event_table.c:1069` | (event table, states) A handler with a `switch` over some of the states returns a local that is not initialised in the others. |
| `EmptyCellFnDiffers` | `fsm_c_event_table.c:1040`, `1246` | (event table, void) The function for empty cells is called for a cell with a transition only, and not for a state without a case; `usage.c:692` speaks of empty cells. |
| `TransitionFnIsMisled` | `fsm_c_single_switch.c:1219` | (single switch, events) The transition function is told `e` after the action has assigned it, so what the action returned instead of the event handled. |
| `StateFnsMiscounted` | `fsm_c_common.c:1043`, `1761` | (table, states) `transitionTo` functions of states are declared only if the machine has transition functions, and defined once per cell, not once per state. |
| `BeginsWithComma` | `fsm_c.c:1380` | (table, compact) In a machine without a named action the enumeration of actions begins with a comma. |

Observed while modelling, without a property of its own:

* `move_list` (`list.c:238`) leaves the `prev` of the first element it moves at `NULL`: read
  backwards, the list ends there. Nothing iterates backwards yet; `OnlyJoiningUnlinks` shows that
  it is the only operation with this effect.
* Of a vector of events only the last member is tested for being consumed by its translator
  (`parser.y:1314`). The others get cells; the chart has no column for them,
  and the table of actions does name them. `DocumentsTellTheSame` leaves such machines out.
* The table machine and the switch machine whose actions return states use, in the branch for
  sub-machines, a local `e` that is declared only for machines with data (`fsm_c.c:617`), and the
  single switch machine tests its parameter `event` there.
* `fsm_c_common.c:3811`, `3871` and `fsm_html.c:602`, `1117` say that an action associated with a
  shared event has exactly one event; the grammar does not enforce it.
* RST prints the number of states with exit functions under the heading for entry functions (`fsm_rst.c:1117`);
  HTML prints `onExitTo_` for the default exit function (`fsm_html.c:925`); the cross reference of
  states in XML closes `<states_xrefs>` with `</states_xref>` (`fsm_c_pid_xref.c:660`); the statistics writer
  prints of each action only the matrix declared last (`fsm_statistics.c:512`); RST
  warns "handled in no state" of consumed events also.
* Sequences in machines whose actions return states are traced as if the action returned nothing,
  so that nodes with another state get the note for "no transition".
* In Python, what actions return is ignored; the package runs exit and entry functions for a transition to the
  present state, and `after_state_change` for internal ones also; the grammar does not enforce that
  "otherwise" is given, once and last (`parser.y:2496`).

## Proofs

TLC shows the properties on the instances above; the theorems show them for every value of the constants
that meets the modules' named assumptions.

| Module | Theorems | From |
|---|---|---|
| `EventEnum_proofs` | `TypeCorrect`, `EventValuesDiffer`, `EventsReachTheirMachines`, `NamesGiveValues`, `XrefGivesValues`, `TwoLevelsAreRight` | `BoundsAssumption`; all but the first and the last are about descriptions with `LastSubMachinesAreLeaves` |
| `TableFsm_proofs` | `TypeCorrect`, `DispatchStaysInBounds`, `EventFieldStaysCurrent`, `InhibitionHolds`, `ReturnsAreForTheCaller` | the assumptions of `FsmTables` |
| | `TableImplementsHsm` | the same, and `EnumerationAssumption`; its hypothesis is `RoutesEveryEvent` |
| `SwitchFsm_proofs` | `SwitchTypeCorrect`, `SwitchInhibitionHolds` | the assumptions of `FsmTables`, and `InAllStatesAssumption` |
| | `SwitchReturnsAreForTheCaller`, `SwitchImplementsHsm` | the same, and `EnumerationAssumption`; their hypotheses are `RoutesEveryEvent`, `ReturnsEvents` and `StateFnTakesReturns` |
| `ActionArray_proofs` | `TypeCorrect`, `ArrayIsTheMatrices`, `FactsAreTheArray`, `MarkedRowsAreWhole`, `MarkIsOneDeclaration` | the assumptions of `ActionArray`; the last has a hypothesis |
| `GeneratedCode_proofs` | `GroupsAreTheCells`, `GeneratorsObeyTheArray` | the same, and `EnumeratorAssumption` |
| | `NotesOnSequences`, `TableNamesMatch`, `FiguresAreTrue` | the same; the first also `SequenceAssumption`, the last two have a hypothesis each |
| | `PythonFollows` | the same, `EntryExitAssumption`, `PyAssumption` and `NoneAssumption` |
| | `DocumentsAgree` | the assumptions of `ActionArray` and `BlankAssumption` |
| `MachineCapture_proofs` | `CaptureTypeCorrect`, `SharersAreRecorded`, `HeterogeneousIsRecorded`, `DepthOneIsRecorded`, `CountsAreRecorded` | the assumptions of `MachineCapture` |
| `LinkedList_proofs` | `ListsAreStrung`, `TypeCorrect`, `PositionsAreRight`, `OneOwner`, `JoiningAloneUnlinks`, `ListsAreSequences` | `MembersAssumption` |

### The enumeration (`EventEnum_proofs`)

For any number of machines and events. `IInv` adds to the types that the declarations are a tree (`TreeInv`): a machine is declared
after its parent and stands once in its parent's list. The model's recursive functions exist because the value at a machine
depends on machines of lower rank only (`FixedPoint`, `WellDefined`, by the least number of a rank for which there is no function; `ListingExists` for the listings).
`Layout` is what the enumeration looks like from one machine: where its block of values begins (`First`), its `noEvent` (`No`), where the block of
machines below it ends (`Behind`), and that its sub-machines' blocks follow one another. From it:

* *distinct values*: blocks of machines below one another lie inside one another, the others apart (`BelowInside`, `AllApart`). A sub-machine's block lies inside its
  parent's only if the counting that resumes behind `lastEvent` resumes behind *all* that was printed, so if the machine whose `noEvent` `lastEvent` repeats
  has no sub-machines: `LastSubMachinesAreLeaves`. That is no assumption of the code's; it is the exact place where finding 1 bites, and the theorems
  name it. `TwoLevelsAreRight` shows that with no more than two levels of sub-machines it holds of every description;
* *the way of an event*: of the ranges a finder tests at most one holds the event, that of the sub-machine the declaring machine is below (`RoutesHome`);
* *the listings*: that of a machine gives the values from `First` up to `Behind` (`BlockListed`), one sub-machine's after another's (`SubsValues`);
  in the cross reference of states the entries of a machine stand together and count from 0 (`Numbered`, `StatesNumbered`), with or without the condition.

### The generated machines (`FsmCalls_proofs`, `TableFsm_proofs`, `SwitchFsm_proofs`)

For every tree of machines with the layout of `LayoutAssumption`, every action array,
sharer list and set of inhibiting states. The inductive invariant, `CallsInv`, has, besides types,

* `ValuesInv`: `e` and `new_e` hold values visible to the machine, which is where
  the layout of the numbers is used. A machine's subtree has values from `firstEvent`
  to `HighEvent`, a parent's own events lie below them, so the loop condition
  `e >= firstEvent` sends exactly the parent's events back (`ReturnedIsVisible`), and a range the
  finder found lies in the sub-machine's subtree (`FoundIsVisible`);
* `OwnInv`: once an action has started, the event is one of the machine's own. Without it
  nothing is known of the sharers' list or of the cell used after the action;
* `PermitInv`: a machine at, or on its way to, a call of a sub-machine is in a state that permits it;
  the state cannot change before the call returns, which makes inhibition inductive;
* `CursorInv`: the cursor into the list of sharers is at least 1;
* `OneThreadOfControl`: a running sub-machine has a waiting caller. That is a fact about calls, not about
  this code, and no property; the induction needs it to know whom a return goes to.

The lemmas about the actions both generators print alike are parameterised by the control
points of the loop around them, and used twice. `LocalThread`, `CallThread` and
`ReturnThread` treat the three ways in which control can move. `ReturnsToTheCaller`
is an action property: a call ends only by a return (`EndsByReturn`), a loop that has ended holds a value below `firstEvent` or its
`noEvent`, and of the visible values only the parent's own events lie there (`ReturnsOwn`). The switch machine's loop also ends at
`lastEvent`, so there the property needs the invariant of its refinement, and its hypotheses (below). `TableFsm_proofs` adds `EventFieldIsCurrent`
to the induction, which does not hold of the switch machine (finding 3).

### The table machine implements `Hsm` (`FsmCalls_proofs` and `TableFsm_proofs`, second parts)

`SimInv` strengthens the invariant by `ChainInv` (during a call exactly one function runs, and those that wait are
the machines above it, all of them), `ShareInv` (the cell a machine shares an event for is still the one of its state)
and `ResultInv` (what is held after an action is what its cell may return). Every action both generators print is then shown to be a step of `Hsm` under the
mapping, or to leave `cur`, `open` and `state` as they are; `TableFsm_proofs` does so for the steps of the table machine's loop. Three facts carry it:
the running function determines `cur`; the sharing activations are just the `open` machines
above it; and a returned event that leaves a machine leaves it to a machine on the chain, so that nothing
is lost on the way. Where the finder knows no sub-machine for an event, the event *is* lost, hence the hypothesis
`RoutesEveryEvent`; it is true of descriptions of up to three levels (`EveryEventReachesItsMachine` in the run `enumeration`)
and false in finding 1.

### The switch machine implements `Hsm` where it loses no event (`SwitchFsm_proofs`, second part)

The switch machine can lose an event at one place: when the all-states handler's result goes to the state function in
the same pass and that has no case for it (finding 3). `StateFnTakesReturns` says of the tables that this does not happen: what an action handled in all states returns,
or the sharers of such an event return (`Answers`), is `noEvent`, an event of the machine's own that is *not* handled in all states, or a foreign event; the last, at
the top level, only if the action leads to states that inhibit sub-machines, where `Hsm` drops it too. TLC evaluates it on both instances: it holds of that of `switch`, and not of
that of `switch_loss`, which differ in what the action's transition leads to and in whether the state inhibits.

The simulation reuses the lemmas of `FsmCalls_proofs`. It adds `SoundInv`, about the values on their way: an event of the parent's in a sub-machine's variables is one that actions return,
any other is below the `lastEvent` the switch machine's loops compare with (`Legal`; the table machine's have no such comparison), and what reaches
the state function is an event it has a case for or one that is inhibited (`Passing`). Two things had to be proved that the
table machine does without:

* an event in the range of a machine belongs to a machine below it (`OwnerIsBelow`: a machine of which that is false would, by `RoutesEveryEvent`, have
  a sub-machine of which it is false, with a larger `noEvent` that is still smaller than the event; there is a largest one, `LeastExists`). When the switch machine drops an
  inhibited event, this makes the inhibiting machine one of those above the event's, as `Discard` wants;
* `lastEvent` is above every event of the subtree (`EventsBelowLast`): the parent's finder leads the event to one sub-machine, which is above its owner, and of two
  sub-machines of one machine at most one is (`SiblingsApart`). So the comparison with `lastEvent`
  never ends a loop: what is returned is `noEvent` or the parent's (`SwitchReturnsAreForTheCaller`).

### The action array (`ActionArray_proofs`)

For every set of states and events and every list of declarations. `IInv` says how far the nested iterations have come and what is true that far:

* `ListsInv`: what is left of the lists of events and states is the end of the declaration's resolved lists;
* `ArrayInv`: the cells before that point hold their declaration (`FilledInv`), no other cell holds anything (`HeldInv`), and
  no two positions before it name one cell (`OnceInv`). Refusal then means a clash, and the end of the iterations without refusal that there is none;
* `CountInv`, `MarkedInv`: which declaration an event is counted for, and that the count is the number of states it has just filled;
* `HandledInv`, `NeighboursInv`: the facts beside the array, for the cells filled so far.

`MarkIsOneDeclaration` has the hypothesis that some state is not implemented by a sub-machine. Where every state
is, `(ALL)` stands for no state: a first declaration with `(ALL)` is the one an event is counted for and fills nothing, and a second one that names every state
fills the row without being counted. The event is then not marked, which does no harm (the states' functions have its cases); `MarkedRowsAreWhole`, that
what *is* marked is one declaration's, needs no hypothesis.

### The generators' code (`GeneratedCode_proofs`)

`CodeObeysTheArray` and `CasesPartitionTheArray` for every description. The argument has three parts.

*The pieces.* Code works on a record of variables; `Pieces` says what each of the pieces of `CellCode` does to variables written out, and
`DescribedPieces` what `Described` is, in the same terms. What is left of each generator's code is then a finite case
distinction: kind, whether the cell has an action and a transition, what was returned.

*The cell that is reached.* The table indexes the array. The event table and the switch enter a list of labels and fall through to the first label that has a
body (`FallsThrough`): that it is of the same declaration (`SelectedIsCell`, `ReachedIsCell`) needs only that the list has every member once; that
there is a list in the order in which the code met the members, so that the `CHOOSE` in the model stands for
something, is `SortedListExists`, by the least length for which there is none. The handlers for events marked as handled in all states
take the declaration from `psingle_pai`; `EventsAreComeTo` adds to the invariant that an event with a cell has one, and `MarkedEvents` that it is the cell's.

*Consolidation.* `composed` is a recursive function. `FollowersExist` and `FollowersAgree` show, by the least number for which they fail, that there is exactly one function which does what its equation says
and so that it has the values of the equation (`Composed`); `ListIsConsolidated` is by induction of the same form that each declaration is in exactly one record, one of a declaration
with the same action, transition and events. With no clash in the matrices a cell is then in one group (`GroupOfCell`).

### Sequences, names and figures (`GeneratedCode_proofs`, continued)

*Sequences.* `Trackers` is a recursive function over the nodes: `TracksExist` and `TrackersFollow` show that there is one with its equation's values, and from there a line's
beginning is the end of the line before, and the states visited are the first and the lines' ends, by the least number for which they are not.
The notes are a case distinction over what the array has for event and state.

*Names.* A table calls the right function because four lists of names are made by one walk, `Unique`, whose result has its input's wanted names, each at one
place (`UniqueIs`); `At` then reads from the array of functions what stands at the enumerator's place (`PlacesInArrays`). `TableNamesMatch` has the hypothesis
that no action is called `noAction`: one that was would have the weak definition of its function printed twice, once as the user's and once as
the dummy (`fsm_c_common.c:1618`), which no production of the grammar excludes.

*Figures.* A sum over a set is a recursion over its subsets that picks a member at each step, so first: it adds the members in whichever order (`TotalIs`, induction over subsets). The
columns of the event lines and of the state lines are then both the number of filled cells (`CountedByParts`). The averages are rounded down twice, once for each row and
once for the sum; `RoundedTwice` bounds what is lost: less than one in each row, so less than two in all, and the average is the array's filling or one less.
`FiguresAreTrue` has the hypothesis that there are states and events, without which `compute_event_and_state_density_pct` divides by zero (`fsm_utils.c:1573`).

### The Python class and the documents (`GeneratedCode_proofs`, continued)

Both are made by loops over lists. `Iterated` shows once, by `FixedPoint`, that there is a function with the values of such a loop.

*The class.* The entries of `transitions` are flattened three times: events into matrices, matrices into records, records into the list. `Block` says that the entries
for one cell stand together in a list and nowhere else; `FlattenedBlock` carries that through a flattening of which only one part has any. Within a matrix an event comes once
(otherwise there were a clash, `EventOnce`), and that one record has the cell is what was proved of consolidation, so the entries of a cell are what
`print_trigger` made for it, in its order (`EntriesOfCell`); the first one that is open leads where the cell does (`EntryTaken`): the stub of "otherwise", which always holds, is the last. Where some action
exists, `_fsm_prepare_event` runs the action of the cell and no entry has one of its own, so it runs once (`CallbacksOfCell`, `BeforeTheMove`). Of the calls the class and the C code
make, those compared are picked by one more loop, `Only`, which keeps what is appended or leaves it (`OnlyCalled`).

*The documents.* The scan for the diagram comes to each cell once (`CellsScanned`, by `FlattenedBlock` again), and `Shows` says what has been drawn when it has been to some of
them: an arc or a loop-back for each filled one, and the choice of each transition function once (`OneMoreCell`, `DiagramShows`); what arcs lead to, through choices, is then
what the row of the chart does (`ArcsLead`). The tables follow from the facts beside the array. "Handled identically in n states" is printed
from `single_pai_state_count`, which is reset and counted up by whichever declaration comes to the event, so this needs an invariant of its own, `CountedInv`: a count that is not 0 is the number
of states in which the event has the declaration it is counted for. It is inductive because a declaration that fills its first cell of an event has none yet, or
that cell would be taken (`RowBegins`).

### Machine capture (`MachineCapture_proofs`)

For any number of machines at any depth. `IInv` has, with three of the properties: the machines that are open are those around the one being parsed (`NestInv`), so that what a closing brace changes in a parent concerns a machine that is still
open; `machine_list` has the captured sub-machines (`ListInv`); an event list has whatever the namespace, the shared events and the sharers know (`EventsInv`);
and the recorded depth is the number of machines inside with a sub-machine of their own (`DepthInv`), of which `DepthOneIsExact` is a consequence: the count is 1 just when
the machine itself is the only one. The machines around one (`Enclosing`) are what every set holds that has it and the parents of
its machines; since a parent's brace opens before its sub-machines', a machine that is left out of such a set leaves out all below it.

### Linked lists implement sequences (`LinkedList_proofs`)

For any number of lists, members and elements. The invariant `IInv` says that the elements seen along a list (`Forward`) are a string
(`Strung`): distinct, linked in order from head to tail, numbered from 0, counted, each `prev` leading to the element before *or to nothing*; and
that strings have no element in common with each other or with `freed` (`ApartFrom`). The "or to nothing" is what `move_list` leaves: it does not set the
`prev` of the element it joins. Where it never happened (`Aligned`) a list can be read backwards, and
only there (`IntegralIsAligned`); ordered insertion and removal use `prev` of such lists alone.

*The walk.* `Walk` is a recursive function. That there is one with its equation's values is by induction on the number of steps (`StepsExist`); distinct
elements are no more than the heap holds (`NoLongerThanHeap`), so the walk sees the whole string (`WalkIs`).

*The operations.* `Becomes` says of an operation on one list that the result is sound, that what held before holds what it
held, that only elements of the list or new ones are touched, and that `Aligned` stays. It is proved of each operation from what is written to each
field (`AddedIs`, `SplicedIs`, `UnlinkedIs`), follows for the copying loops by induction (`CopiedBecomes`, `CopiedUniqueBecomes`), and gives for
the heap with all its lists a step of `ListSeq` (`StoreStep`). `move_list`, which changes two records, is treated by itself (`JoinedStrung`, `MoveStep`):
the ordinals of the joined elements go on counting because they went up by the count of the other list.

### Only model-checked

* Liveness (`RunCompletes`, `ImplementsFairHsm`): fairness and `ENABLED` are out of the prover's reach.
* The switch machine's refinement of `Hsm` without the hypotheses of `SwitchImplementsHsm`: it is false (the run `switch_loss`, finding 3).
* `InAllMeansOneDeclaration`, `TableNamesAreDefined` and `FiguresMatchTheArray` without their hypotheses, which they need.

## Not modelled

Calls of sub-machines from machines whose actions return nothing or states; data translators and
parent data in the calls of machines; heterogeneous children; several instances of a machine; reentrancy
(the critical-section macros are the user's); external event designations; profiling
macros and debug output; the parser's productions for data, translators, and states implemented by machines
(`MachineCapture`; the action array has such states, `ViaMachine`); transition functions without declared returns; sub-machine sections, copied
comments and layout of the documents; the lexer, naming, options, help texts, file inclusion and
`cwalk`, which are text in and text out. The reasons are in `PROJECT.json`, by component.

## Plan

Done: `EventEnum` with all its listings, `FsmTables`, `FsmCalls`, `TableFsm`, `Hsm`, `SwitchFsm`,
`ActionArray` and what is made from it (the four C generators, the names in tables, consolidation, sequences,
statistics, documents, the Python class), `LinkedList`, `MachineCapture`; proofs of the invariants of the enumeration, of both
generated machines, of their refinements of `Hsm`, of the action array, of the code of the
four C generators, of the Python class, the documents, the names in tables, the sequences and the figures, and of `MachineCapture`; the proof that `LinkedList` implements `ListSeq`.

Next, in this order:

1. States and translators implemented by machines, in `MachineCapture` (the machine that is named before
   it is declared, the checks of return types that only one of the two grammar actions makes) and in
   the generated calls.
2. Calls of sub-machines in machines whose actions return nothing or states (`writeOriginalFSMArv`,
   `writeActionsReturnStateFSM` and their counterparts), as further modules on `FsmCalls`.
3. Reentrant machines: two callers and the critical-section macros.
