-------------------------- MODULE CfgReachability ---------------------------
(***************************************************************************)
(* Cfg::reachable_from_entry: a stack of blocks whose successors are still *)
(* to be looked at.  Successors are looked at in any order.                *)
(***************************************************************************)
EXTENDS CfgPaths, FiniteSets, Naturals, Sequences

CONSTANTS
    Blocks,
    Entry,
    Graphs     \* the graphs searched

ASSUME BlocksAssumption == Entry \in Blocks /\ Graphs \subseteq [Blocks -> SUBSET Blocks]

VARIABLES
    succs,     \* the graph
    seen,
    stack,     \* the block to look at next comes first
    rest       \* the successors still to look at of the block that was popped

vars == <<succs, seen, stack, rest>>

Init ==
    /\ succs \in Graphs
    /\ seen = {Entry}
    /\ stack = <<Entry>>
    /\ rest = {}

Pop ==
    /\ rest = {} /\ stack # <<>>
    /\ rest' = succs[Head(stack)]
    /\ stack' = Tail(stack)
    /\ UNCHANGED <<succs, seen>>

(* Mutant: a successor that was seen ends the look at the others. *)
LookAtBreaking(next) ==
    /\ next \in rest
    /\ IF next \in seen THEN rest' = {} /\ UNCHANGED <<seen, stack>>
       ELSE /\ rest' = rest \ {next}
            /\ seen' = seen \cup {next}
            /\ stack' = <<next>> \o stack
    /\ UNCHANGED succs

LookAt(next) ==
    /\ next \in rest
    /\ rest' = rest \ {next}
    /\ IF next \in seen THEN UNCHANGED <<seen, stack>>
       ELSE /\ seen' = seen \cup {next}
            /\ stack' = <<next>> \o stack
    /\ UNCHANGED succs

Done == rest = {} /\ stack = <<>>

Stop == Done /\ UNCHANGED vars

Next == Pop \/ (\E next \in Blocks : LookAt(next)) \/ Stop

Spec == Init /\ [][Next]_vars /\ WF_vars(Pop \/ \E next \in Blocks : LookAt(next))

-----------------------------------------------------------------------------
(* The stack holds each block at most once, so it has room for all.          *)
TypeOK ==
    /\ succs \in [Blocks -> SUBSET Blocks]
    /\ seen \subseteq Blocks /\ rest \subseteq Blocks
    /\ stack \in Seq(seen)
    /\ \A i, j \in DOMAIN stack : stack[i] = stack[j] => i = j

(* What has been seen can be reached, and a seen block whose successors were *)
(* not all seen is still to be looked at; in the end just the blocks that    *)
(* can be reached have been seen.                                            *)
SeenIsReach ==
    /\ seen \subseteq Reach(Entry, succs)
    /\ Done => seen = Reach(Entry, succs)
=============================================================================
