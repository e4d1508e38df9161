--------------------------- MODULE EventSequences ----------------------------
(***************************************************************************)
(* Event sequences: a description may give sequences of events, with the   *)
(* states its author expects, and the document generators trace them       *)
(* through the machine (event_sequences.c), noting where the two disagree. *)
(***************************************************************************)
EXTENDS CellCode

CONSTANTS
    SequenceNodes,      \* the nodes a sequence may hold
    MaxNodes            \* bound: nodes in a sequence

(* A node: an event, and the state given after it, or "" for none.           *)
ASSUME SequenceAssumption ==
    /\ SequenceNodes \subseteq [event : Events, new : States \cup {""}]
    /\ MaxNodes \in Nat

(* A sequence starts in the state given, the first one by default, and may   *)
(* name its final state, for which "" stands if it does not.                 *)
EventSequences ==
    [initial_state : States, nodes : UNION {[1..n -> SequenceNodes] : n \in 1..MaxNodes},
     final_state : States \cup {""}]

TransitionAt(x, s) == IF array[x][s] = NULL THEN {} ELSE decls[array[x][s]].to
ActionAt(x, s) == IF array[x][s] = NULL THEN "" ELSE decls[array[x][s]].action

IsState(to) == Cardinality(to) = 1
FirstReturn(to) == Head(SetToSeq(to))

(* The note on a node given a state, when the machine has transition "to".   *)
NoteOnGiven(to, new) ==
    CASE to = {} -> "no_fsm_transition"
      [] IsState(to) -> IF new \in to THEN "none" ELSE "state_mismatch"
      [] OTHER -> IF new \in to THEN "fn_match" ELSE "fn_mismatch"

NoteOnOpen(to) == IF Cardinality(to) > 1 THEN "first_return" ELSE "none"

(* Fault for the checks: the transition is looked up in the state reached.   *)
determine_next_state_late(tracker, node) ==
    LET s == IF node.new = "" THEN tracker.curr_state ELSE node.new
        to == TransitionAt(node.event, s)
        next == IF node.new # "" \/ to = {} THEN s ELSE FirstReturn(to)
    IN  [curr_state |-> next, visited |-> tracker.visited \cup {next},
         note |-> IF node.new # "" THEN NoteOnGiven(to, node.new) ELSE NoteOnOpen(to)]

determine_next_state(tracker, node) ==
    LET to == TransitionAt(node.event, tracker.curr_state)
        next == IF node.new # "" THEN node.new
                ELSE IF to = {} THEN tracker.curr_state ELSE FirstReturn(to)
    IN  [curr_state |-> next, visited |-> tracker.visited \cup {next},
         note |-> IF node.new # "" THEN NoteOnGiven(to, node.new) ELSE NoteOnOpen(to)]

-----------------------------------------------------------------------------
(* What is printed for a node: the state and the action before the tracker   *)
(* moves, the state and the note after it has.  All writers print the same.  *)
SequenceLine(tracker, node) ==
    LET t == determine_next_state(tracker, node)
    IN  [event |-> node.event, from |-> tracker.curr_state,
         action |-> ActionAt(node.event, tracker.curr_state),
         to |-> t.curr_state, note |-> t.note]

RstSequenceLine(tracker, node) == SequenceLine(tracker, node)
SequenceArc(tracker, node) == SequenceLine(tracker, node)

Tracker(s) == [curr_state |-> s, visited |-> {s}, note |-> "none"]

(* The tracker after each of a sequence's nodes, and before the first.       *)
Trackers(seq) ==
    LET tracker[k \in 0..Len(seq.nodes)] ==
            IF k = 0 THEN Tracker(seq.initial_state)
            ELSE determine_next_state(tracker[k - 1], seq.nodes[k])
    IN  tracker

(* A sequence's lines, and the tracker after them.                           *)
Trace(seq) ==
    LET tracker == Trackers(seq)
    IN  [tracker |-> tracker[Len(seq.nodes)],
         lines |-> [k \in DOMAIN seq.nodes |-> SequenceLine(tracker[k - 1], seq.nodes[k])]]

FinalStateWarning(seq) ==
    seq.final_state # "" /\ seq.final_state # Trace(seq).tracker.curr_state

(* The diagram of a sequence hides the states not visited.                   *)
Hidden(seq) == States \ Trace(seq).tracker.visited

-----------------------------------------------------------------------------
(* Reference: the states the described machine may be in after event x.      *)
MayBeIn(x, s) ==
    LET to == TransitionAt(x, s)
    IN  {Described([kind |-> "events", fns |-> FALSE, x |-> x, s |-> s, answer |-> noEvent,
                    target |-> t]).state : t \in IF to = {} THEN {s} ELSE to}

Plausible == {"none", "fn_match", "first_return"}

(* A sequence without warnings is a run of the machine, and a warning is     *)
(* given only where the sequence departs from it, or names a state although  *)
(* the machine stays where it is.  The action printed is the one the machine *)
(* takes, and of the states, those passed through are shown, and no others.  *)
SequenceNotesAreTrue ==
    Populated =>
        /\ \A s \in States, node \in SequenceNodes :
              \A l \in {SequenceLine(Tracker(s), node), RstSequenceLine(Tracker(s), node),
                        SequenceArc(Tracker(s), node)} :
                  /\ l.note \in Plausible <=>
                         l.to \in MayBeIn(l.event, s) /\ l.note # "no_fsm_transition"
                  /\ l.note = "no_fsm_transition" => MayBeIn(l.event, s) = {s}
        /\ \A seq \in EventSequences :
              LET lines == Trace(seq).lines
              IN  /\ \A k \in DOMAIN lines :
                         lines[k].from = IF k = 1 THEN seq.initial_state ELSE lines[k - 1].to
                  /\ Hidden(seq) = {s \in States : /\ s # seq.initial_state
                                                   /\ \A k \in DOMAIN lines : s # lines[k].to}
                  /\ FinalStateWarning(seq) => Last(lines).to # seq.final_state
=============================================================================
