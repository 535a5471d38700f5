---------------------------- MODULE ServiceStore ----------------------------
(***************************************************************************)
(* The persistent state of hoonarqube-service: immutable analyses, the     *)
(* versioned reviews with their history, tombstones, the deletion audit    *)
(* and the export/restore boundary between databases.                      *)
(*                                                                         *)
(* Every handler takes one process-wide mutex around one SQLite            *)
(* transaction, so each operation is one action on one database.  A        *)
(* rejected request rolls back and is a stuttering step.  Handlers read    *)
(* the wall clock before they wait for the mutex, so stamps are not        *)
(* ordered like commits: an operation may carry any stamp.                 *)
(***************************************************************************)
EXTENDS Integers, FiniteSets, Bags

CONSTANTS
    Stores,      \* databases between which backups travel
    Projects, Branches, Commits, Identities,
    Actors,      \* who acts, with the reason given
    Stamps,      \* RFC 3339 time stamps, compared for equality only
    Live,        \* the NULL of a deleted_at column
    Absent,      \* a project without a row
    NoState,     \* the previous_state of a first history entry
    AnyBranch,   \* a retention request without a branch
    Reports,     \* what content_hash covers: the report and its analyzed_at
    FindingsOf,  \* the findings extract_findings derives from a report
    ContextOf,   \* the four digests of the assessment context of a report
    NoContext,   \* a report without an assessment
    EpochOf,     \* analyzed_epoch of a report
    RequestedStates,          \* the review states that clients ask for
    MaxVersion, MaxBackups    \* bounds for model checking

Kinds == {"finding", "hotspot"}
FindingStates == {"open", "accepted", "resolved"}
HotspotStates == {"to_review", "safe", "confirmed_risk"}
ReviewStates == FindingStates \cup HotspotStates

Findings == [identity : Identities, kind : Kinds, ambiguous : BOOLEAN]

(* Sentinels are not values. *)
ASSUME SentinelAssumption ==
    /\ Live \notin Stamps /\ Absent \notin Stamps /\ Live # Absent
    /\ NoState \notin ReviewStates
    /\ AnyBranch \notin Branches

(* extract_findings marks findings that claim one identity as ambiguous.  An *)
(* unclaimed finding is ambiguous and may share the identity of a claimed    *)
(* one.                                                                      *)
ASSUME ReportAssumption ==
    /\ FindingsOf \in [Reports -> SUBSET Findings]
    /\ EpochOf \in [Reports -> Nat]
    /\ \A rep \in Reports : \A f, g \in FindingsOf[rep] :
          f.identity = g.identity /\ ~f.ambiguous /\ ~g.ambiguous => f = g

ASSUME BoundAssumption ==
    RequestedStates \subseteq ReviewStates /\ MaxVersion \in Nat /\ MaxBackups \in Nat

VARIABLES
    db,        \* the database of each store
    backups    \* the export envelopes that operators keep

vars == <<db, backups>>

-----------------------------------------------------------------------------
(* Rows.  Ids are AUTOINCREMENT: lastAnalysis and lastReview are the rows of *)
(* sqlite_sequence.  History and audit ids are referenced by nobody.         *)

Analyses == [project : Projects, branch : Branches, commit : Commits,
             report : Reports, deleted : Stamps \cup {Live}]

Reviews == [project : Projects, branch : Branches, analysis : Nat,
            identity : Identities, kind : Kinds, state : ReviewStates,
            version : Nat, by : Actors, at : Stamps]

Histories == [review : Nat, analysis : Nat, identity : Identities, kind : Kinds,
              previous : ReviewStates \cup {NoState}, new : ReviewStates,
              by : Actors, at : Stamps, version : Nat]

NoAnalysis == 0

Audits == [project : Projects, resource : {"analysis", "project"},
           analysis : Nat, action : {"delete", "retention"},
           by : Actors, at : Stamps]

Database(projects, analyses, lastAnalysis, reviews, lastReview, history, audit) ==
    [projects |-> projects, analyses |-> analyses, lastAnalysis |-> lastAnalysis,
     reviews |-> reviews, lastReview |-> lastReview,
     history |-> history, audit |-> audit]

NoRows == [i \in {} |-> 0]

EmptyDb ==
    Database([p \in Projects |-> Absent], NoRows, 0, NoRows, 0, {}, EmptyBag)

Init ==
    /\ db = [s \in Stores |-> EmptyDb]
    /\ backups = {}

-----------------------------------------------------------------------------
(* valid_review_transition *)
ValidTransition(kind, previous, next) ==
    IF kind = "finding"
    THEN next \in FindingStates /\ previous \in FindingStates \cup {NoState}
    ELSE /\ next \in HotspotStates
         /\ \/ previous \in {NoState, "to_review"}
            \/ previous \in HotspotStates /\ next \in {"to_review", previous}

(* The findings a review may be attached to. *)
Reviewable(report, identity, kind) ==
    \E f \in FindingsOf[report] :
        f.identity = identity /\ f.kind = kind /\ ~f.ambiguous

(* ensure_active_project *)
ActiveProject(d, p) == d.projects[p] = Live

ExistingAnalysis(d, p, b, c) ==
    {i \in DOMAIN d.analyses :
        /\ d.analyses[i].project = p
        /\ d.analyses[i].branch = b
        /\ d.analyses[i].commit = c}

ExistingReview(d, p, b, identity, kind) ==
    {i \in DOMAIN d.reviews :
        /\ d.reviews[i].project = p /\ d.reviews[i].branch = b
        /\ d.reviews[i].identity = identity /\ d.reviews[i].kind = kind}

(* A table with one more row. *)
Insert(table, id, row) ==
    [i \in DOMAIN table \cup {id} |-> IF i = id THEN row ELSE table[i]]

-----------------------------------------------------------------------------
(* insert_analysis: a tombstoned project or commit, or a stored commit with  *)
(* another content hash, is a conflict; the same hash is acknowledged        *)
(* without a write.                                                          *)
IngestOutcome(d, p, b, c, report) ==
    LET existing == ExistingAnalysis(d, p, b, c)
    IN  IF \/ d.projects[p] \in Stamps
           \/ \E i \in existing :
                 d.analyses[i].deleted # Live \/ d.analyses[i].report # report
        THEN "conflict"
        ELSE IF existing # {} THEN "idempotent" ELSE "created"

InsertAnalysisRows(d, p, b, c, report) ==
    LET id == d.lastAnalysis + 1
        row == [project |-> p, branch |-> b, commit |-> c,
                report |-> report, deleted |-> Live]
    IN  Database([d.projects EXCEPT ![p] = IF @ = Absent THEN Live ELSE @],
                 Insert(d.analyses, id, row), id,
                 d.reviews, d.lastReview, d.history, d.audit)

IngestAnalysis(s, p, b, c, report) ==
    /\ IngestOutcome(db[s], p, b, c, report) = "created"
    /\ db' = [db EXCEPT ![s] = InsertAnalysisRows(@, p, b, c, report)]
    /\ UNCHANGED backups

(* review_target_branch: a live analysis of the project whose finding with   *)
(* this identity is not ambiguous and has this kind.  Its query looks at one *)
(* row; if that is an ambiguous one of the same identity the request is      *)
(* refused, as any request may be.                                           *)
ReviewTarget(d, p, a, identity, kind) ==
    /\ a \in DOMAIN d.analyses
    /\ d.analyses[a].project = p
    /\ d.analyses[a].deleted = Live
    /\ Reviewable(d.analyses[a].report, identity, kind)

(* The version and the state a review request is applied to: 0 and NoState   *)
(* when the branch has no review of this identity and kind.                  *)
CurrentVersion(d, existing) ==
    IF existing = {} THEN 0 ELSE d.reviews[CHOOSE i \in existing : TRUE].version

CurrentState(d, existing) ==
    IF existing = {} THEN NoState ELSE d.reviews[CHOOSE i \in existing : TRUE].state

ReviewAccepted(d, p, a, identity, kind, state, expected) ==
    /\ ActiveProject(d, p)
    /\ ReviewTarget(d, p, a, identity, kind)
    /\ LET existing == ExistingReview(d, p, d.analyses[a].branch, identity, kind)
       IN  /\ expected = CurrentVersion(d, existing)
           /\ ValidTransition(kind, CurrentState(d, existing), state)

(* upsert_review and insert_review_history *)
WriteReview(d, p, a, identity, kind, state, by, at) ==
    LET branch == d.analyses[a].branch
        existing == ExistingReview(d, p, branch, identity, kind)
        id == IF existing = {} THEN d.lastReview + 1 ELSE CHOOSE i \in existing : TRUE
        version == CurrentVersion(d, existing) + 1
        review == [project |-> p, branch |-> branch, analysis |-> a,
                   identity |-> identity, kind |-> kind, state |-> state,
                   version |-> version, by |-> by, at |-> at]
        entry == [review |-> id, analysis |-> a, identity |-> identity,
                  kind |-> kind, previous |-> CurrentState(d, existing),
                  new |-> state, by |-> by, at |-> at, version |-> version]
    IN  Database(d.projects, d.analyses, d.lastAnalysis,
                 Insert(d.reviews, id, review),
                 IF existing = {} THEN id ELSE d.lastReview,
                 d.history \cup {entry}, d.audit)

ApplyReview(s, p, a, identity, kind, state, expected, by, at) ==
    /\ ReviewAccepted(db[s], p, a, identity, kind, state, expected)
    /\ expected < MaxVersion
    /\ db' = [db EXCEPT ![s] = WriteReview(@, p, a, identity, kind, state, by, at)]
    /\ UNCHANGED backups

(* The tombstone and the audit row of each analysis in ids. *)
Deletion(p, resource, a, action, by, at) ==
    [project |-> p, resource |-> resource, analysis |-> a,
     action |-> action, by |-> by, at |-> at]

Tombstone(d, p, ids, action, by, at) ==
    Database(d.projects,
             [i \in DOMAIN d.analyses |->
                 IF i \in ids THEN [d.analyses[i] EXCEPT !.deleted = at]
                              ELSE d.analyses[i]],
             d.lastAnalysis, d.reviews, d.lastReview, d.history,
             d.audit (+) SetToBag({Deletion(p, "analysis", i, action, by, at) : i \in ids}))

(* apply_retention *)
RetentionTargets(d, p, before, branch) ==
    {i \in DOMAIN d.analyses :
        /\ d.analyses[i].project = p
        /\ EpochOf[d.analyses[i].report] < before
        /\ d.analyses[i].deleted = Live
        /\ branch \in {AnyBranch, d.analyses[i].branch}}

ApplyRetention(s, p, before, branch, by, at) ==
    /\ ActiveProject(db[s], p)
    /\ db' = [db EXCEPT ![s] =
                Tombstone(@, p, RetentionTargets(@, p, before, branch),
                          "retention", by, at)]
    /\ UNCHANGED backups

(* delete_analysis: it does not ask whether the project is active. *)
DeleteAnalysis(s, p, a, by, at) ==
    /\ a \in DOMAIN db[s].analyses
    /\ db[s].analyses[a].project = p
    /\ db[s].analyses[a].deleted = Live
    /\ db' = [db EXCEPT ![s] = Tombstone(@, p, {a}, "delete", by, at)]
    /\ UNCHANGED backups

(* delete_project *)
TombstoneProject(d, p, by, at) ==
    Database([d.projects EXCEPT ![p] = at],
             d.analyses, d.lastAnalysis, d.reviews, d.lastReview, d.history,
             d.audit (+) SetToBag({Deletion(p, "project", NoAnalysis, "delete", by, at)}))

DeleteProject(s, p, by, at) ==
    /\ ActiveProject(db[s], p)
    /\ db' = [db EXCEPT ![s] = TombstoneProject(@, p, by, at)]
    /\ UNCHANGED backups

-----------------------------------------------------------------------------
(* export_project: the rows of one project, tombstones included, also of a   *)
(* deleted project.                                                          *)
OfProject(table, p) == {i \in DOMAIN table : table[i].project = p}

(* Mutant: the export leaves tombstoned analyses out. *)
LiveEnvelope(d, p) ==
    LET analyses == {i \in OfProject(d.analyses, p) : d.analyses[i].deleted = Live}
        reviews == OfProject(d.reviews, p)
    IN  [project |-> p,
         deleted |-> d.projects[p],
         analyses |-> [i \in analyses |-> d.analyses[i]],
         reviews |-> [i \in reviews |-> d.reviews[i]],
         history |-> {h \in d.history : h.review \in reviews},
         audit |-> [r \in {x \in BagToSet(d.audit) : x.project = p} |-> d.audit[r]]]

Envelope(d, p) ==
    LET analyses == OfProject(d.analyses, p)
        reviews == OfProject(d.reviews, p)
    IN  [project |-> p,
         deleted |-> d.projects[p],
         analyses |-> [i \in analyses |-> d.analyses[i]],
         reviews |-> [i \in reviews |-> d.reviews[i]],
         history |-> {h \in d.history : h.review \in reviews},
         audit |-> [r \in {x \in BagToSet(d.audit) : x.project = p} |-> d.audit[r]]]

ExportProject(s, p) ==
    /\ db[s].projects[p] # Absent
    /\ Cardinality(backups) < MaxBackups
    /\ backups' = backups \cup {[origin |-> s, envelope |-> Envelope(db[s], p)]}
    /\ UNCHANGED db

-----------------------------------------------------------------------------
(* validate_restore, the checks that are not about the text of the envelope. *)
ValidReference(e, analysis, branch, identity, kind) ==
    /\ analysis \in DOMAIN e.analyses
    /\ e.analyses[analysis].branch = branch
    /\ Reviewable(e.analyses[analysis].report, identity, kind)

ValidReviews(e) ==
    \A i \in DOMAIN e.reviews : LET r == e.reviews[i] IN
        /\ i > 0 /\ r.version > 0
        /\ r.project = e.project
        /\ ValidReference(e, r.analysis, r.branch, r.identity, r.kind)
        /\ ValidTransition(r.kind, NoState, r.state)
        /\ \A j \in DOMAIN e.reviews :
              <<r.branch, r.identity, r.kind>> =
              <<e.reviews[j].branch, e.reviews[j].identity, e.reviews[j].kind>> => i = j

ValidHistory(e) ==
    \A h \in e.history :
        /\ h.review \in DOMAIN e.reviews
        /\ h.version > 0
        /\ h.identity = e.reviews[h.review].identity
        /\ h.kind = e.reviews[h.review].kind
        /\ ValidReference(e, h.analysis, e.reviews[h.review].branch, h.identity, h.kind)
        /\ ValidTransition(h.kind, h.previous, h.new)
        /\ \A g \in e.history : g.review = h.review /\ g.version = h.version => g = h

(* validate_restore_history_chains: the versions of a review are 1..version, *)
(* each entry starts in the state in which the one before it ended, and the  *)
(* last one ends in the state of the review.                                 *)
ChainedHistory(e) ==
    /\ \A h \in e.history :
          /\ h.version <= e.reviews[h.review].version
          /\ h.version = 1 => h.previous = NoState
          /\ h.version = e.reviews[h.review].version => h.new = e.reviews[h.review].state
          /\ \A g \in e.history :
                g.review = h.review /\ g.version = h.version + 1 => g.previous = h.new
    /\ \A i \in DOMAIN e.reviews : \A v \in 1 .. e.reviews[i].version :
          \E h \in e.history : h.review = i /\ h.version = v

ValidDeletions(e) ==
    \A r \in BagToSet(e.audit) :
        \/ r.resource = "project" /\ r.action = "delete" /\ r.analysis = NoAnalysis
        \/ r.resource = "analysis" /\ r.analysis \in DOMAIN e.analyses

ValidateRestore(e) ==
    /\ \A i \in DOMAIN e.analyses : i > 0
    /\ ValidReviews(e)
    /\ ValidHistory(e)
    /\ ChainedHistory(e)
    /\ ValidDeletions(e)

-----------------------------------------------------------------------------
(* Mutant: the first id after a restore skips one. *)
FreshAfterNext(last, new) ==
    [i \in new |-> last + 1 + Cardinality({j \in new : j <= i})]

(* restore: one transaction that maps the ids of the envelope to ids of the  *)
(* target, rows that the target already has to their own, the others to      *)
(* fresh ones in the order of the envelope.                                  *)
Fresh(last, new) ==
    [i \in new |-> last + Cardinality({j \in new : j <= i})]

(* Mutant: restore looks for the commit among live analyses only. *)
StoredLiveAnalysis(d, e, i) ==
    {x \in ExistingAnalysis(d, e.project, e.analyses[i].branch, e.analyses[i].commit) :
        d.analyses[x].deleted = Live}

StoredAnalysis(d, e, i) ==
    ExistingAnalysis(d, e.project, e.analyses[i].branch, e.analyses[i].commit)

NewAnalyses(d, e) == {i \in DOMAIN e.analyses : StoredAnalysis(d, e, i) = {}}

AnalysisIds(d, e) ==
    [i \in DOMAIN e.analyses |->
        IF i \in NewAnalyses(d, e)
        THEN Fresh(d.lastAnalysis, NewAnalyses(d, e))[i]
        ELSE CHOOSE x \in StoredAnalysis(d, e, i) : TRUE]

StoredReview(d, e, i) ==
    ExistingReview(d, e.project, e.reviews[i].branch,
                   e.reviews[i].identity, e.reviews[i].kind)

NewReviews(d, e) == {i \in DOMAIN e.reviews : StoredReview(d, e, i) = {}}

ReviewIds(d, e) ==
    [i \in DOMAIN e.reviews |->
        IF i \in NewReviews(d, e)
        THEN Fresh(d.lastReview, NewReviews(d, e))[i]
        ELSE CHOOSE x \in StoredReview(d, e, i) : TRUE]

(* Mutant: a restored review keeps the analysis id of its origin. *)
UnmappedReview(e, i, aids) == e.reviews[i]

(* Rows of the envelope as they are written to the target. *)
MappedReview(e, i, aids) ==
    [e.reviews[i] EXCEPT !.analysis = aids[@]]

(* Mutant: a restored history entry keeps the analysis id of its origin. *)
HistoryOfOriginIds(e, aids, rids) == {[h EXCEPT !.review = rids[@]] : h \in e.history}

MappedHistory(e, aids, rids) ==
    {[h EXCEPT !.review = rids[@], !.analysis = aids[@]] : h \in e.history}

(* Mutant: restored audit rows keep the analysis id of their origin. *)
UnmappedDeletions(e, aids) == BagToSet(e.audit)

MappedDeletions(e, aids) ==
    {[r EXCEPT !.analysis = IF @ = NoAnalysis THEN @ ELSE aids[@]] :
        r \in BagToSet(e.audit)}

(* Mutant: the restored audit is not compared with the audit at hand. *)
AllDeletions(d, e, aids) == MappedDeletions(e, aids)

NewDeletions(d, e, aids) == MappedDeletions(e, aids) \ BagToSet(d.audit)

(* A table with the new rows of the envelope. *)
Merge(table, new, ids, rows) ==
    [x \in DOMAIN table \cup {ids[i] : i \in new} |->
        IF x \in DOMAIN table THEN table[x] ELSE rows[CHOOSE i \in new : ids[i] = x]]

(* Mutant: restore does not compare the tombstone of the project. *)
AgreesButForProject(d, e) ==
    /\ \A i \in DOMAIN e.analyses \ NewAnalyses(d, e) :
          d.analyses[AnalysisIds(d, e)[i]] = e.analyses[i]
    /\ \A i \in DOMAIN e.reviews \ NewReviews(d, e) :
          d.reviews[ReviewIds(d, e)[i]] = MappedReview(e, i, AnalysisIds(d, e))

(* Mutant: restore accepts a review of another version. *)
AgreesButForReviews(d, e) ==
    LET history == MappedHistory(e, AnalysisIds(d, e), ReviewIds(d, e))
    IN  /\ d.projects[e.project] \in {Absent, e.deleted}
        /\ \A i \in DOMAIN e.analyses \ NewAnalyses(d, e) :
              d.analyses[AnalysisIds(d, e)[i]] = e.analyses[i]
        /\ \A h \in history, g \in d.history :
              g.review = h.review /\ g.version = h.version => g = h

(* What the target has must agree with the envelope, or nothing is restored. *)
RestoreAgrees(d, e) ==
    LET aids == AnalysisIds(d, e)
        rids == ReviewIds(d, e)
    IN  /\ d.projects[e.project] \in {Absent, e.deleted}
        /\ \A i \in DOMAIN e.analyses \ NewAnalyses(d, e) :
              d.analyses[aids[i]] = e.analyses[i]
        /\ \A i \in DOMAIN e.reviews \ NewReviews(d, e) :
              d.reviews[rids[i]] = MappedReview(e, i, aids)
        /\ \A h \in MappedHistory(e, aids, rids), g \in d.history :
              g.review = h.review /\ g.version = h.version => g = h

Restored(d, e) ==
    LET aids == AnalysisIds(d, e)
        rids == ReviewIds(d, e)
        reviews == [i \in DOMAIN e.reviews |-> MappedReview(e, i, aids)]
    IN  Database([d.projects EXCEPT ![e.project] = e.deleted],
                 Merge(d.analyses, NewAnalyses(d, e), aids, e.analyses),
                 d.lastAnalysis + Cardinality(NewAnalyses(d, e)),
                 Merge(d.reviews, NewReviews(d, e), rids, reviews),
                 d.lastReview + Cardinality(NewReviews(d, e)),
                 d.history \cup MappedHistory(e, aids, rids),
                 d.audit (+) SetToBag(NewDeletions(d, e, aids)))

Restore(s, backup) ==
    /\ ValidateRestore(backup.envelope)
    /\ RestoreAgrees(db[s], backup.envelope)
    /\ db' = [db EXCEPT ![s] = Restored(@, backup.envelope)]
    /\ UNCHANGED backups

-----------------------------------------------------------------------------
Review(s) ==
    \E p \in Projects, identity \in Identities, kind \in Kinds,
       state \in RequestedStates, by \in Actors, at \in Stamps :
       \E a \in DOMAIN db[s].analyses, expected \in 0 .. MaxVersion :
           ApplyReview(s, p, a, identity, kind, state, expected, by, at)

Delete(s) ==
    \E p \in Projects, by \in Actors, at \in Stamps :
        \/ \E a \in DOMAIN db[s].analyses : DeleteAnalysis(s, p, a, by, at)
        \/ DeleteProject(s, p, by, at)

Retain(s) ==
    \E p \in Projects, by \in Actors, at \in Stamps,
       before \in {EpochOf[rep] + 1 : rep \in Reports},
       branch \in Branches \cup {AnyBranch} :
        ApplyRetention(s, p, before, branch, by, at)

Next ==
    \E s \in Stores :
        \/ \E p \in Projects, b \in Branches, c \in Commits, rep \in Reports :
              IngestAnalysis(s, p, b, c, rep)
        \/ Review(s)
        \/ Delete(s)
        \/ Retain(s)
        \/ \E p \in Projects : ExportProject(s, p)
        \/ \E backup \in backups : Restore(s, backup)

Spec == Init /\ [][Next]_vars

-----------------------------------------------------------------------------
(* The review that the findings view shows on a finding of a live analysis:  *)
(* the review of its branch, identity and kind if it was made on this        *)
(* analysis or on one with the same assessment context (review_for_key).     *)
(* Mutant: the reviewed analysis must be live too. *)
BothLiveAndCompatible(d, current, reviewed) ==
    /\ d.analyses[current].deleted = Live /\ d.analyses[reviewed].deleted = Live
    /\ ContextOf[d.analyses[current].report] # NoContext
    /\ ContextOf[d.analyses[current].report] = ContextOf[d.analyses[reviewed].report]

ContextCompatible(d, current, reviewed) ==
    /\ d.analyses[current].deleted = Live
    /\ LET context(i) == ContextOf[d.analyses[i].report]
       IN  context(current) # NoContext /\ context(current) = context(reviewed)

VisibleReview(d, a, identity, kind) ==
    {i \in ExistingReview(d, d.analyses[a].project, d.analyses[a].branch, identity, kind) :
        \/ d.reviews[i].analysis = a
        \/ ContextCompatible(d, a, d.reviews[i].analysis)}

-----------------------------------------------------------------------------
(* Properties.  The invariants are predicates of one database.               *)

HasRows(table, last, Row) ==
    table \in [DOMAIN table -> Row] /\ DOMAIN table \subseteq 1 .. last

DbTypeOK(d) ==
    /\ d.projects \in [Projects -> Stamps \cup {Live, Absent}]
    /\ d.lastAnalysis \in Nat /\ d.lastReview \in Nat
    /\ HasRows(d.analyses, d.lastAnalysis, Analyses)
    /\ HasRows(d.reviews, d.lastReview, Reviews)
    /\ d.history \subseteq Histories
    /\ IsABag(d.audit) /\ BagToSet(d.audit) \subseteq Audits

EnvelopeTypeOK(e) ==
    /\ e.project \in Projects /\ e.deleted \in Stamps \cup {Live}
    /\ e.analyses \in [DOMAIN e.analyses -> Analyses]
    /\ DOMAIN e.analyses \subseteq Nat /\ IsFiniteSet(DOMAIN e.analyses)
    /\ e.reviews \in [DOMAIN e.reviews -> Reviews]
    /\ DOMAIN e.reviews \subseteq Nat /\ IsFiniteSet(DOMAIN e.reviews)
    /\ e.history \subseteq Histories
    /\ IsABag(e.audit) /\ BagToSet(e.audit) \subseteq Audits

(* The databases hold rows of the schema of store.rs, with ids up to the     *)
(* value of sqlite_sequence, and envelopes come from a store.                *)
TypeOK ==
    /\ db = [s \in Stores |-> db[s]]
    /\ \A s \in Stores : DbTypeOK(db[s])
    /\ \A x \in backups : x.origin \in Stores /\ EnvelopeTypeOK(x.envelope)

(* The UNIQUE and FOREIGN KEY constraints of the schema hold by the checks   *)
(* of the handlers alone: no accepted ingest, review or restore runs into    *)
(* one.  References stay inside a project and a branch.                      *)
DbConstraints(d) ==
    /\ \A i, j \in DOMAIN d.analyses :
          /\ d.analyses[i].project = d.analyses[j].project
          /\ d.analyses[i].branch = d.analyses[j].branch
          /\ d.analyses[i].commit = d.analyses[j].commit
          => i = j
    /\ \A i, j \in DOMAIN d.reviews :
          /\ d.reviews[i].project = d.reviews[j].project
          /\ d.reviews[i].branch = d.reviews[j].branch
          /\ d.reviews[i].identity = d.reviews[j].identity
          /\ d.reviews[i].kind = d.reviews[j].kind
          => i = j
    /\ \A g, h \in d.history : g.review = h.review /\ g.version = h.version => g = h
    /\ \A i \in DOMAIN d.analyses : d.projects[d.analyses[i].project] # Absent
    /\ \A i \in DOMAIN d.reviews :
          /\ d.reviews[i].analysis \in DOMAIN d.analyses
          /\ d.analyses[d.reviews[i].analysis].project = d.reviews[i].project
          /\ d.analyses[d.reviews[i].analysis].branch = d.reviews[i].branch
    /\ \A h \in d.history :
          /\ h.review \in DOMAIN d.reviews
          /\ h.analysis \in DOMAIN d.analyses
          /\ d.analyses[h.analysis].project = d.reviews[h.review].project
          /\ d.analyses[h.analysis].branch = d.reviews[h.review].branch

SchemaConstraints == \A s \in Stores : DbConstraints(db[s])

(* The history of a review is complete: its versions are 1..version, each    *)
(* entry continues the one before it by a transition of its kind, and the    *)
(* newest one says what the review row says.                                 *)
DbHistoryComplete(d) ==
    /\ \A i \in DOMAIN d.reviews : \A v \in 1 .. d.reviews[i].version :
          \E h \in d.history : h.review = i /\ h.version = v
    /\ \A h \in d.history : LET r == d.reviews[h.review] IN
          /\ h.version \in 1 .. r.version
          /\ h.identity = r.identity /\ h.kind = r.kind
          /\ ValidTransition(h.kind, h.previous, h.new)
          /\ h.version = 1 <=> h.previous = NoState
          /\ \A g \in d.history :
                g.review = h.review /\ g.version = h.version + 1 => g.previous = h.new
          /\ h.version = r.version =>
                <<h.analysis, h.new, h.by, h.at>> = <<r.analysis, r.state, r.by, r.at>>

ReviewHistoryComplete == \A s \in Stores : DbHistoryComplete(db[s])

(* Deletion and audit agree: a project or an analysis has a tombstone if and *)
(* only if the audit names it, with the stamp of the tombstone.              *)
DbTombstonesAudited(d) ==
    /\ \A i \in DOMAIN d.analyses : d.analyses[i].deleted # Live =>
          \E r \in BagToSet(d.audit) : r.resource = "analysis" /\ r.analysis = i
    /\ \A p \in Projects : d.projects[p] \in Stamps =>
          \E r \in BagToSet(d.audit) : r.resource = "project" /\ r.project = p
    /\ \A r \in BagToSet(d.audit) :
          IF r.resource = "project"
          THEN d.projects[r.project] = r.at /\ r.analysis = NoAnalysis
          ELSE /\ r.analysis \in DOMAIN d.analyses
               /\ d.analyses[r.analysis].project = r.project
               /\ d.analyses[r.analysis].deleted = r.at

TombstonesAudited == \A s \in Stores : DbTombstonesAudited(db[s])

(* No deletion is recorded twice, however often a backup that mentions it is *)
(* restored.                                                                 *)
AuditedOnce == \A s \in Stores : \A r \in BagToSet(db[s].audit) : db[s].audit[r] = 1

(* Reviews and their history are about findings that are not ambiguous.      *)
DbReviewable(d) ==
    /\ \A i \in DOMAIN d.reviews : LET r == d.reviews[i] IN
          Reviewable(d.analyses[r.analysis].report, r.identity, r.kind)
    /\ \A h \in d.history :
          Reviewable(d.analyses[h.analysis].report, h.identity, h.kind)

(* Every export passes the validation of restore and can be restored into an *)
(* empty database.                                                           *)
ExportRestorable ==
    \A x \in backups :
        ValidateRestore(x.envelope) /\ RestoreAgrees(EmptyDb, x.envelope)

(* The rows of an envelope with each id replaced by the row it refers to. *)
ByValue(e) ==
    LET row(ids) == {e.analyses[i] : i \in ids \cap DOMAIN e.analyses}
        key(i) == <<e.reviews[i].branch, e.reviews[i].identity, e.reviews[i].kind>>
    IN  [analyses |-> row(DOMAIN e.analyses),
         reviews |-> {[e.reviews[i] EXCEPT !.analysis = row({@})] : i \in DOMAIN e.reviews},
         history |-> {[h EXCEPT !.review = key(@), !.analysis = row({@})] : h \in e.history},
         audit |-> {[r EXCEPT !.analysis = row({@})] : r \in BagToSet(e.audit)}]

(* A restore adds the rows of the backup and nothing else, every reference   *)
(* still meaning the same row under the new ids, and leaves other projects   *)
(* alone.                                                                    *)
RestoreIsUnion ==
    \A s \in Stores, x \in backups :
        LET e == x.envelope
            after == Restored(db[s], e)
            added == ByValue(e)
            before == ByValue(Envelope(db[s], e.project))
            result == ByValue(Envelope(after, e.project))
        IN  RestoreAgrees(db[s], e) =>
              /\ \A table \in DOMAIN added : result[table] = before[table] \cup added[table]
              /\ \A p \in Projects \ {e.project} : Envelope(after, p) = Envelope(db[s], p)

(* A restore whose response was lost may be sent again, and an old backup    *)
(* may be restored where it was taken: the second restore is accepted and    *)
(* changes nothing, and whatever happened since the export, a backup never   *)
(* takes its own store back.                                                 *)
RestoreAddsNothingAgain ==
    \A s \in Stores, x \in backups :
        LET after == Restored(db[s], x.envelope)
        IN  RestoreAgrees(db[s], x.envelope) =>
              /\ RestoreAgrees(after, x.envelope) /\ Restored(after, x.envelope) = after
              /\ s = x.origin => after = db[s]

(* No step rewrites history: reports stay, tombstones stay, history and      *)
(* audit only grow, and a review row only changes with its version.          *)
DbOnlyGrows(d, e) ==
    /\ \A p \in Projects :
          /\ d.projects[p] \in Stamps => e.projects[p] = d.projects[p]
          /\ d.projects[p] # Absent => e.projects[p] # Absent
    /\ \A i \in DOMAIN d.analyses :
          /\ i \in DOMAIN e.analyses
          /\ \/ e.analyses[i] = d.analyses[i]
             \/ /\ d.analyses[i].deleted = Live
                /\ e.analyses[i] = [d.analyses[i] EXCEPT !.deleted = e.analyses[i].deleted]
    /\ \A i \in DOMAIN d.reviews :
          /\ i \in DOMAIN e.reviews
          /\ \/ e.reviews[i] = d.reviews[i]
             \/ e.reviews[i].version = d.reviews[i].version + 1
    /\ d.history \subseteq e.history
    /\ BagToSet(d.audit) \subseteq BagToSet(e.audit)

HistoryImmutable == [][\A s \in Stores : DbOnlyGrows(db[s], db'[s])]_vars

(* Deleting or retaining other analyses never hides a review from a finding  *)
(* of an analysis that stays.                                                *)
ReviewsStayVisible ==
    [][\A s \in Stores : db[s].reviews = db'[s].reviews =>
          \A a \in DOMAIN db[s].analyses, identity \in Identities, kind \in Kinds :
              db'[s].analyses[a].deleted = Live =>
                  VisibleReview(db[s], a, identity, kind)
                  = VisibleReview(db'[s], a, identity, kind)]_vars
=============================================================================
