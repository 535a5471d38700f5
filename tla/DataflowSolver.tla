--------------------------- MODULE DataflowSolver ---------------------------
(***************************************************************************)
(* solve_dataflow of hoonarqube-dataflow: the worklist solver for monotone *)
(* frameworks over a control-flow graph.                                   *)
(*                                                                         *)
(* A fact is a set, as in facts.rs, and the meet is the union of a may     *)
(* analysis or the intersection of a must analysis.  The graph, the        *)
(* direction, the meet, the boundary and the transfer of each block are    *)
(* the arguments of the call: they are chosen once, in the initial state.  *)
(* The order in which an edge list names its blocks is the order in which  *)
(* a builder added the edges: any order.                                   *)
(***************************************************************************)
EXTENDS Naturals, Sequences

CONSTANTS
    Blocks, Entry, Exit,
    Facts,        \* what a fact may contain
    Graphs,       \* edge sets: subsets of Blocks \X Blocks
    Transfers     \* per block, stmt_transfer followed by block_effect

ASSUME GraphAssumption ==
    /\ Entry \in Blocks /\ Exit \in Blocks
    /\ Graphs \subseteq SUBSET (Blocks \X Blocks)
    /\ Transfers \subseteq [Blocks -> [SUBSET Facts -> SUBSET Facts]]

(* The obligation of the caller: transfers are monotone. *)
ASSUME MonotoneAssumption ==
    \A t \in Transfers : \A b \in Blocks : \A x, y \in SUBSET Facts :
        x \subseteq y => t[b][x] \subseteq t[b][y]

VARIABLES
    edges, direction, meet, boundary, transfer,   \* the arguments
    worklist,    \* the queue; a block is in it once (queued)
    spreading,   \* the neighbours that enqueue_unqueued has still to look at
    visited,
    side,        \* in_facts of a forward solve, out_facts of a backward one
    result       \* the other side: what a block hands on

arguments == <<edges, direction, meet, boundary, transfer>>
vars == <<arguments, worklist, spreading, visited, side, result>>

-----------------------------------------------------------------------------
Root == IF direction = "forward" THEN Entry ELSE Exit

(* The blocks whose facts a block reads, and the blocks that read its facts. *)
Readers(b) ==
    {x \in Blocks : IF direction = "forward" THEN <<x, b>> \in edges ELSE <<b, x>> \in edges}

Spread(b) == {x \in Blocks : b \in Readers(x)}

(* Mutant: the flag of a queued block is lost. *)
NeverQueued(b) == FALSE

Queued(b) == \E i \in 1 .. Len(worklist) : worklist[i] = b

(* The meet of a set of facts. *)
Meet(facts) ==
    IF meet = "union"
    THEN UNION facts
    ELSE {x \in UNION facts : \A f \in facts : x \in f}

(* Mutant: neighbours that were never visited count with the default fact. *)
MeetAllNeighbours(b) ==
    IF Readers(b) = {} THEN side[b] ELSE Meet({result[x] : x \in Readers(b)})

(* meet_neighbours: only visited neighbours count; without one the side is   *)
(* retained.                                                                 *)
MeetNeighbours(b) ==
    LET neighbours == {x \in Readers(b) : visited[x]}
    IN  IF neighbours = {} THEN side[b] ELSE Meet({result[x] : x \in neighbours})

(* The side fact of a visit. *)
SideOf(b) == IF b = Root THEN boundary ELSE MeetNeighbours(b)

Default == {}

Init ==
    /\ edges \in Graphs
    /\ direction \in {"forward", "backward"}
    /\ meet \in {"union", "intersection"}
    /\ boundary \in SUBSET Facts
    /\ transfer \in Transfers
    /\ worklist = <<Root>>
    /\ spreading = {}
    /\ visited = [b \in Blocks |-> FALSE]
    /\ side = [b \in Blocks |-> Default]
    /\ result = [b \in Blocks |-> Default]

(* Mutant: only a changed fact is spread. *)
SpreadIfChanged(b, computed) == computed # result[b]

(* Mutant: every visit is spread. *)
SpreadAlways(b, computed) == TRUE

MustSpread(b, computed) == computed # result[b] \/ ~visited[b]

(* One turn of the loop: the block at the head of the queue is visited. *)
Visit ==
    /\ spreading = {} /\ worklist # <<>>
    /\ LET b == Head(worklist)
           computed == transfer[b][SideOf(b)]
       IN  /\ worklist' = Tail(worklist)
           /\ side' = [side EXCEPT ![b] = SideOf(b)]
           /\ result' = [result EXCEPT ![b] = computed]
           /\ visited' = [visited EXCEPT ![b] = TRUE]
           /\ spreading' = IF MustSpread(b, computed) THEN Spread(b) ELSE {}
    /\ UNCHANGED arguments

(* One turn of the loop of enqueue_unqueued. *)
Enqueue(next) ==
    /\ next \in spreading
    /\ spreading' = spreading \ {next}
    /\ worklist' = IF Queued(next) THEN worklist ELSE Append(worklist, next)
    /\ UNCHANGED <<arguments, visited, side, result>>

Done == spreading = {} /\ worklist = <<>>

Next ==
    \/ Visit
    \/ \E next \in Blocks : Enqueue(next)

Spec == Init /\ [][Next]_vars

(* The solver is one loop that runs until the queue is empty. *)
FairSpec == Spec /\ WF_vars(Next)

-----------------------------------------------------------------------------
(* The arguments and the state of a call; no block is queued twice, so the   *)
(* queue is never longer than the graph has blocks.                          *)
TypeOK ==
    /\ edges \in Graphs
    /\ direction \in {"forward", "backward"}
    /\ meet \in {"union", "intersection"}
    /\ boundary \in SUBSET Facts
    /\ transfer \in Transfers
    /\ worklist \in Seq(Blocks)
    /\ \A i, j \in 1 .. Len(worklist) : worklist[i] = worklist[j] => i = j
    /\ spreading \in SUBSET Blocks
    /\ visited \in [Blocks -> BOOLEAN]
    /\ side \in [Blocks -> SUBSET Facts]
    /\ result \in [Blocks -> SUBSET Facts]

(* A set of blocks that flow from the root cannot leave. *)
Closed(S) == Root \in S /\ \A b \in S : Spread(b) \subseteq S

(* The blocks that flow from the root reaches. *)
Reached == {b \in Blocks : \A S \in SUBSET Blocks : Closed(S) => b \in S}

(* When the queue runs empty the facts are a solution: every block reached   *)
(* from the boundary was visited and no other one, its side is the meet of   *)
(* what its neighbours hand on now, and what it hands on is the transfer of  *)
(* its side.  Unreached blocks keep the default.                             *)
SolvedWhenDone ==
    LET reached == Reached
    IN  Done =>
          /\ \A b \in Blocks : visited[b] <=> b \in reached
          /\ \A b \in reached :
                /\ side[b] = IF b = Root THEN boundary
                             ELSE Meet({result[x] : x \in Readers(b) \cap reached})
                /\ result[b] = transfer[b][side[b]]
          /\ \A b \in Blocks \ reached : side[b] = Default /\ result[b] = Default

(* An assignment of facts to the blocks reached that satisfies the equations *)
(* of the framework.                                                         *)
Solution(sol, reached) ==
    \A b \in reached :
        sol[b] = transfer[b][IF b = Root THEN boundary
                             ELSE Meet({sol[x] : x \in Readers(b) \cap reached})]

(* The solver never overshoots: at any moment what a visited block hands on  *)
(* is below every solution of a may analysis and above every solution of a   *)
(* must analysis, so the solution it stops in is the least or the greatest.  *)
BelowSolutions ==
    LET reached == Reached
    IN  \A sol \in [Blocks -> SUBSET Facts] : Solution(sol, reached) =>
          \A b \in Blocks : visited[b] =>
            IF meet = "union" THEN result[b] \subseteq sol[b] ELSE sol[b] \subseteq result[b]

(* Monotone transfers over finitely many facts: the solver stops. *)
Terminates == <>Done
=============================================================================
