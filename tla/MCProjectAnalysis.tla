-------------------------- MODULE MCProjectAnalysis -------------------------
(***************************************************************************)
(* Three situations for TLC, one of which is chosen at the beginning:      *)
(*   cache    two processes, one of them with either of two command lines, *)
(*            share the cache for one file, and one fault happens;         *)
(*   modes    one process after the other analyses two C# files in two     *)
(*            scopes and with a compiler context, and one edit happens;    *)
(*   workers  up to three threads share three files, in every mode and     *)
(*            without a cache, and one edit happens.                       *)
(***************************************************************************)
EXTENDS ProjectAnalysis

CONSTANTS p, q, good, bad

VARIABLE situation

Line(inputs, tests, mode, cache) ==
    [inputs |-> inputs, profile |-> "recommended", tests |-> tests, mode |-> mode, cache |-> cache]

LinesOf ==
    [cache |-> {Line(<<1>>, tests, "plain", TRUE) : tests \in {{}, {1}}},
     modes |-> {Line(<<1, 2>>, {}, "plain", TRUE), Line(<<1, 2>>, {1}, "plain", TRUE), Line(<<1, 2>>, {}, "semantic", TRUE)},
     workers |-> {Line(<<1, 2, 3>>, {}, mode, FALSE) : mode \in Modes}]

MCCommandLines == UNION {LinesOf[s] : s \in DOMAIN LinesOf}

InSituation ==
    /\ \A r \in Pids : run[r].phase # "off" => run[r].options \in LinesOf[situation]
    /\ situation # "cache" => run[q].phase = "off" /\ faults = 0
    /\ situation # "workers" => \A r \in Pids : Started(worker[r]) = {}
    /\ situation = "cache" => edits = 0 /\ (run[q].phase # "off" => run[q].options.tests = {1})

MCInit ==
    /\ Init
    /\ situation \in DOMAIN LinesOf
    /\ \A f \in Files : disk[f] = good \/ (situation = "cache" /\ f = 1)

(* Faults are only looked for where they may happen. *)
MCNext ==
    /\ \/ \E r \in Pids : ProcessMoves(r)
       \/ Edit
       \/ situation = "cache" /\ (PowerLoss \/ Tamper)
    /\ UNCHANGED situation
    /\ InSituation'

MCSpec == MCInit /\ [][MCNext]_<<vars, situation>>
=============================================================================
