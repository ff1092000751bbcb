------------------------------ MODULE TraceTree ------------------------------
(***************************************************************************)
(* crates/fibril_verifier/src/trace_tree.rs: the tree of the steps that    *)
(* one actor has visited.  The nodes are numbered as they are allocated,   *)
(* the root is node 1 and an Rc is a number; the cursor is 0 when it is    *)
(* None.  Of a record only the event matters.                              *)
(***************************************************************************)
EXTENDS Naturals, Sequences, FiniteSets

CONSTANTS
    Spawn,     \* the event that every trace starts with
    Event,     \* the events that may follow
    MaxNodes,  \* bound: the nodes allocated
    MaxDepth   \* bound: the events of a trace

ASSUME SpawnAssumption == Spawn \notin Event
ASSUME MaxDepthAssumption == MaxDepth \in Nat

VARIABLES
    nodes,  \* nodes[n]: the node's event, and its nexts; TraceTree::Empty has none
    cursor  \* the node of the last step of the present trace

tree == <<nodes, cursor>>

None == 0
Root == 1

Node(event) == [event |-> event, nexts |-> << >>]

Empty == nodes = << >>

\* position, and find: the first of the node's nexts that has the event.
Matching(n, event) ==
    LET nexts == nodes[n].nexts
        found == {k \in DOMAIN nexts : nodes[nexts[k]].event = event}
    IN  IF found = {} THEN None
        ELSE nexts[CHOOSE k \in found : \A l \in found : k <= l]

-----------------------------------------------------------------------------
(* The histories that nodes stand for                                      *)

ParentOf(n) == CHOOSE m \in DOMAIN nodes : \E k \in DOMAIN nodes[m].nexts : nodes[m].nexts[k] = n

\* A node is allocated after its parent.
HistoryOf ==
    LET history[n \in 0 .. Len(nodes)] ==
            IF n = None THEN << >>
            ELSE IF n = Root THEN <<nodes[n].event>>
            ELSE Append(history[ParentOf(n)], nodes[n].event)
    IN  history

-----------------------------------------------------------------------------

TreeInit == nodes = << >> /\ cursor = None

\* Mutant: the nexts are not searched.
VisitWithoutSearchMutant(event) ==
    IF Empty
    THEN nodes' = <<Node(event)>> /\ cursor' = Root
    ELSE IF cursor = None
    THEN cursor' = Root /\ UNCHANGED nodes
    ELSE /\ nodes' = Append([nodes EXCEPT ![cursor].nexts = Append(@, Len(nodes) + 1)], Node(event))
         /\ cursor' = Len(nodes) + 1

\* The event of a trace's first step is not compared with the root's.
Visit(event) ==
    IF Empty
    THEN nodes' = <<Node(event)>> /\ cursor' = Root
    ELSE IF cursor = None
    THEN cursor' = Root /\ UNCHANGED nodes
    ELSE IF Matching(cursor, event) # None
    THEN cursor' = Matching(cursor, event) /\ UNCHANGED nodes
    ELSE /\ nodes' = Append([nodes EXCEPT ![cursor].nexts = Append(@, Len(nodes) + 1)], Node(event))
         /\ cursor' = Len(nodes) + 1

\* Mutant: the cursor goes to the root, as if SpawnOk had been visited.
ResetCursorToRootMutant == cursor' = (IF Empty THEN None ELSE Root) /\ UNCHANGED nodes

ResetCursor == cursor' = None /\ UNCHANGED nodes

(***************************************************************************)
(* visited follows the prefix from the root and looks for the last event   *)
(* there; it panics when it cannot.                                        *)
(***************************************************************************)
Visited(prefix, last) ==
    LET reached[k \in 0 .. Len(prefix)] ==
            IF k <= 1 THEN Root
            ELSE IF reached[k - 1] = None THEN None ELSE Matching(reached[k - 1], prefix[k])
    IN  CASE Empty -> "false"
          [] ~Empty /\ prefix = << >> -> "Prefix empty."
          [] ~Empty /\ prefix # << >> /\ nodes[Root].event # prefix[1] -> "Spawn event did not match."
          [] ~Empty /\ prefix # << >> /\ nodes[Root].event = prefix[1] /\ reached[Len(prefix)] = None ->
                "Invalid prefix."
          [] OTHER -> IF Matching(reached[Len(prefix)], last) # None THEN "true" ELSE "false"

\* The actor is stepped: a trace starts with Spawn, and only there.
Step ==
    /\ Len(HistoryOf[cursor]) < MaxDepth
    /\ Len(nodes) < MaxNodes
    /\ \E event \in IF cursor = None THEN {Spawn} ELSE Event : Visit(event)

TreeNext == Step \/ ResetCursor

TreeSpec == TreeInit /\ [][TreeNext]_tree

-----------------------------------------------------------------------------

Abstract == INSTANCE VisitedHistories WITH
    histories <- {HistoryOf[n] : n \in DOMAIN nodes},
    current   <- HistoryOf[cursor]

(***************************************************************************)
(* The tree of shared nodes with its cursor is the set of the histories    *)
(* visited and the present one: going down an existing branch, branching   *)
(* off, and starting again at the root without a comparison never file a   *)
(* step under another history than that of its trace.                      *)
(***************************************************************************)
ImplementsHistories == Abstract!Spec

Prefixes == UNION {[1 .. len -> Event \cup {Spawn}] : len \in 1 .. MaxDepth - 1}

(***************************************************************************)
(* visited answers for any history, wherever the cursor is: whether its    *)
(* extension was visited if it was visited itself, and a panic otherwise.  *)
(* No two nodes stand for one history, so its search by first match does   *)
(* not miss what hangs from another one.                                   *)
(***************************************************************************)
LookupsFindTheHistories ==
    LET histories == {HistoryOf[n] : n \in DOMAIN nodes}
    IN  /\ Cardinality(histories) = Len(nodes)
        /\ ~Empty => \A prefix \in Prefixes, last \in Event :
              /\ Visited(prefix, last) = "true" <=> Append(prefix, last) \in histories
              /\ Visited(prefix, last) = "false" <=>
                    prefix \in histories /\ Append(prefix, last) \notin histories

=============================================================================
