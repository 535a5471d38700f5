--------------------------- MODULE MCServiceStore ---------------------------
(***************************************************************************)
(* Two stores for TLC.  The report r1 has the hotspot i1; r2 has it only   *)
(* ambiguously, and no assessment context.                                 *)
(***************************************************************************)
EXTENDS ServiceReviewLog, FiniteSetsExt, TLC

CONSTANTS i1, r1, r2, c1

MCFindingsOf == [r \in Reports |-> {[identity |-> i1, kind |-> "hotspot", ambiguous |-> (r = r2)]}]
MCContextOf == [r \in Reports |-> IF r = r2 THEN NoContext ELSE "context"]
MCEpochOf == [r \in Reports |-> IF r = r2 THEN 2 ELSE 1]

(* The bound on the rows that the stores hold together; it is lower when a   *)
(* second project, stamp or report, or a deletion, multiplies the ways.      *)
CONSTANT MaxRows

RowsIn(d) == d.lastAnalysis + Cardinality(d.history) + BagCardinality(d.audit)
Rows == MapThenSumSet(LAMBDA s : RowsIn(db[s]), Stores)

AnalysesHeld == UNION {{db[s].analyses[a] : a \in DOMAIN db[s].analyses} : s \in Stores}
SecondProject == \A x \in Projects : \E s \in Stores : db[s].projects[x] # Absent
StampsHeld == Stamps \cap UNION {{db[s].projects[x] : x \in Projects} \cup {a.deleted : a \in AnalysesHeld}
                                   \cup {h.at : h \in db[s].history} : s \in Stores}
SecondStamp == Cardinality(StampsHeld) > 1

SecondReport == \E a \in AnalysesHeld : a.report # r1
Deletions == \E s \in Stores : db[s].audit # EmptyBag

RowBound == Rows <= (CASE SecondProject \/ SecondStamp -> MaxRows - 3
                       [] SecondReport \/ Deletions -> MaxRows - 1
                       [] OTHER -> MaxRows)

(* One thing varies at a time: projects or stamps, commits or reports. *)
OneOfMany ==
    /\ ~(SecondProject /\ SecondStamp)
    /\ SecondReport => \A a \in AnalysesHeld : a.commit = c1

MCSpec == Init /\ [][Next /\ (RowBound /\ OneOfMany)']_vars

Alike == Permutations(Stores) \cup Permutations(Projects) \cup Permutations(Stamps)
=============================================================================
