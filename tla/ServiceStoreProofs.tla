------------------------- MODULE ServiceStoreProofs -------------------------
(* Proofs about ServiceStore.  Every operation is a function of one database *)
(* and the lemmas are about these functions; the theorems lift them.  First  *)
(* what holds in every reachable state, then what becomes of reviews and     *)
(* their history over time and between stores.                               *)
EXTENDS ServiceStore, ServiceReviewLog, FiniteSetTheorems, SequenceTheorems, TLAPS

(* The ids that a restore gives out are new and distinct. *)
LEMMA FreshIds ==
    ASSUME NEW last \in Nat, NEW new, new \subseteq Nat, IsFiniteSet(new)
    PROVE  /\ Cardinality(new) \in Nat
           /\ \A i \in new : Fresh(last, new)[i] \in (last + 1) .. (last + Cardinality(new))
           /\ \A i, j \in new : Fresh(last, new)[i] = Fresh(last, new)[j] => i = j
<1> DEFINE below(i) == {k \in new : k <= i}
<1>1. Cardinality(new) \in Nat
  BY FS_CardinalityType
<1>2. ASSUME NEW i \in new
      PROVE  /\ IsFiniteSet(below(i))
             /\ Cardinality(below(i)) \in 1 .. Cardinality(new)
  <2>1. below(i) \in SUBSET new
    OBVIOUS
  <2>2. IsFiniteSet(below(i)) /\ Cardinality(below(i)) <= Cardinality(new)
    BY <2>1, FS_Subset
  <2>3. Cardinality(below(i)) \in Nat
    BY <2>2, FS_CardinalityType
  <2>4. i \in below(i)
    OBVIOUS
  <2>5. Cardinality(below(i)) # 0
    BY <2>2, <2>4, FS_EmptySet
  <2>6. QED
    BY <1>1, <2>2, <2>3, <2>5
<1>3. ASSUME NEW i \in new, NEW j \in new, i < j
      PROVE  Cardinality(below(i)) # Cardinality(below(j))
  <2>1. \A k \in new : k \in Nat
    OBVIOUS
  <2>2. below(i) \in SUBSET below(j)
    <3>1. ASSUME NEW k \in new, k <= i PROVE k <= j
      BY <1>3, <2>1, <3>1
    <3>2. QED
      BY <3>1
  <2>3. j \in below(j) /\ j \notin below(i)
    BY <1>3, <2>1
  <2>4. below(i) # below(j)
    BY <2>3
  <2>5. QED
    BY <1>2, <2>2, <2>4, FS_Subset
<1>4. \A i \in new : Fresh(last, new)[i] = last + Cardinality(below(i))
  BY DEF Fresh
<1>5. ASSUME NEW i \in new
      PROVE  Fresh(last, new)[i] \in (last + 1) .. (last + Cardinality(new))
  <2>1. Cardinality(below(i)) \in 1 .. Cardinality(new)
    BY <1>2
  <2> DEFINE n == Cardinality(below(i))
             m == Cardinality(new)
  <2>2. n \in 1 .. m /\ m \in Nat /\ Fresh(last, new)[i] = last + n
    BY <1>1, <1>4, <2>1
  <2> HIDE DEF n, m
  <2>3. last + n \in (last + 1) .. (last + m)
    BY <2>2
  <2>4. QED
    BY <2>2, <2>3 DEF m
<1>6. ASSUME NEW i \in new, NEW j \in new, Fresh(last, new)[i] = Fresh(last, new)[j]
      PROVE  i = j
  <2>1. Cardinality(below(i)) = Cardinality(below(j))
    <3>1. Cardinality(below(i)) \in Nat /\ Cardinality(below(j)) \in Nat
      BY <1>1, <1>2
    <3>2. last + Cardinality(below(i)) = last + Cardinality(below(j))
      BY <1>4, <1>6
    <3>3. QED
      BY <3>1, <3>2
  <2>2. i \in Nat /\ j \in Nat
    OBVIOUS
  <2>3. ~(i < j) /\ ~(j < i)
    BY <1>3, <2>1
  <2>4. QED
    BY <2>2, <2>3
<1>7. QED
  BY <1>1, <1>5, <1>6

-----------------------------------------------------------------------------
(* A new database is empty and well typed. *)
LEMMA EmptyDbTypeOK == DbTypeOK(EmptyDb)
BY DEF DbTypeOK, EmptyDb, Database, NoRows, HasRows, IsABag, BagToSet, EmptyBag, SetToBag

(* A table with one more row, at most next, is a table. *)
LEMMA InsertHasRows ==
    ASSUME NEW table, NEW last \in Nat, NEW Row, HasRows(table, last, Row),
           NEW id, NEW row \in Row, NEW next \in Nat, id \in 1 .. next, last <= next
    PROVE  HasRows(Insert(table, id, row), next, Row)
BY DEF HasRows, Insert

(* Adding the rows of a set to the audit. *)
LEMMA BagPlusSet ==
    ASSUME NEW B, NEW S, IsABag(B)
    PROVE  /\ IsABag(B (+) SetToBag(S))
           /\ BagToSet(B (+) SetToBag(S)) = BagToSet(B) \cup S
           /\ \A x \in BagToSet(B) \cup S :
                 (B (+) SetToBag(S))[x] = IF x \in S
                                          THEN IF x \in BagToSet(B) THEN B[x] + 1 ELSE 1
                                          ELSE B[x]
BY DEF IsABag, BagToSet, SetToBag, (+)

(* An ingest keeps the database well typed. *)
LEMMA IngestTypeOK ==
    ASSUME NEW d, DbTypeOK(d), NEW p \in Projects, NEW b \in Branches,
           NEW c \in Commits, NEW rep \in Reports
    PROVE  DbTypeOK(InsertAnalysisRows(d, p, b, c, rep))
<1> DEFINE row == [project |-> p, branch |-> b, commit |-> c,
                   report |-> rep, deleted |-> Live]
           id == d.lastAnalysis + 1
<1>1. row \in Analyses
  BY DEF Analyses
<1>2. HasRows(Insert(d.analyses, id, row), id, Analyses)
  BY <1>1, InsertHasRows DEF DbTypeOK
<1>3. [d.projects EXCEPT ![p] = IF @ = Absent THEN Live ELSE @]
        \in [Projects -> Stamps \cup {Live, Absent}]
  BY DEF DbTypeOK
<1>4. QED
  BY <1>2, <1>3 DEF DbTypeOK, InsertAnalysisRows, Database

(* The column updates of tombstones and of restored rows keep rows well typed. *)
LEMMA RowUpdates ==
    /\ \A r \in Analyses, t \in Stamps : [r EXCEPT !.deleted = t] \in Analyses
    /\ \A r \in Reviews, n \in Nat : [r EXCEPT !.analysis = n] \in Reviews
    /\ \A h \in Histories, m, n \in Nat :
          [h EXCEPT !.review = m, !.analysis = n] \in Histories
    /\ \A r \in Audits, n \in Nat : [r EXCEPT !.analysis = n] \in Audits
<1>1. \A r \in Analyses, t \in Stamps : [r EXCEPT !.deleted = t] \in Analyses
  BY Zenon DEF Analyses
<1>2. \A r \in Reviews, n \in Nat : [r EXCEPT !.analysis = n] \in Reviews
  BY Zenon DEF Reviews
<1>3. \A h \in Histories, m, n \in Nat :
          [h EXCEPT !.review = m, !.analysis = n] \in Histories
  BY Zenon DEF Histories
<1>4. \A r \in Audits, n \in Nat : [r EXCEPT !.analysis = n] \in Audits
  BY Zenon DEF Audits
<1>5. QED
  BY <1>1, <1>2, <1>3, <1>4

(* A review, new or updated, and its history entry keep the database well typed. *)
LEMMA ReviewTypeOK ==
    ASSUME NEW d, DbTypeOK(d), NEW p \in Projects, NEW a, a \in DOMAIN d.analyses,
           NEW identity \in Identities, NEW kind \in Kinds, NEW state \in ReviewStates,
           NEW by \in Actors, NEW at \in Stamps
    PROVE  DbTypeOK(WriteReview(d, p, a, identity, kind, state, by, at))
<1> DEFINE branch == d.analyses[a].branch
           existing == ExistingReview(d, p, branch, identity, kind)
           old == CHOOSE i \in existing : TRUE
           id == IF existing = {} THEN d.lastReview + 1 ELSE old
           next == IF existing = {} THEN id ELSE d.lastReview
           version == CurrentVersion(d, existing) + 1
           previous == CurrentState(d, existing)
           review == [project |-> p, branch |-> branch, analysis |-> a,
                      identity |-> identity, kind |-> kind, state |-> state,
                      version |-> version, by |-> by, at |-> at]
           entry == [review |-> id, analysis |-> a, identity |-> identity,
                     kind |-> kind, previous |-> previous,
                     new |-> state, by |-> by, at |-> at, version |-> version]
<1>1. a \in Nat /\ branch \in Branches
  <2>1. d.analyses[a] \in Analyses
    BY DEF DbTypeOK, HasRows
  <2>2. QED
    BY <2>1 DEF DbTypeOK, HasRows, Analyses
<1>2. ASSUME existing # {}
      PROVE  /\ old \in 1 .. d.lastReview
             /\ d.reviews[old].version \in Nat /\ d.reviews[old].state \in ReviewStates
  <2>1. old \in existing
    BY <1>2
  <2>2. old \in DOMAIN d.reviews
    BY <2>1 DEF ExistingReview
  <2>3. d.reviews[old] \in Reviews
    BY <2>2 DEF DbTypeOK, HasRows
  <2>4. QED
    BY <2>2, <2>3 DEF DbTypeOK, HasRows, Reviews
<1>3. /\ next \in Nat /\ id \in 1 .. next /\ d.lastReview <= next
      /\ version \in Nat /\ previous \in ReviewStates \cup {NoState}
  BY <1>2 DEF CurrentVersion, CurrentState, DbTypeOK
<1> HIDE DEF id, next, version, previous, branch
<1>4. review \in Reviews
  BY <1>1, <1>3 DEF Reviews
<1>5. entry \in Histories
  <2>1. id \in Nat
    BY <1>3
  <2>2. QED
    BY <1>1, <1>3, <2>1 DEF Histories
<1> HIDE DEF review, entry
<1>6. HasRows(Insert(d.reviews, id, review), next, Reviews)
  BY <1>3, <1>4, InsertHasRows DEF DbTypeOK
<1>7. WriteReview(d, p, a, identity, kind, state, by, at)
        = Database(d.projects, d.analyses, d.lastAnalysis,
                   Insert(d.reviews, id, review), next, d.history \cup {entry}, d.audit)
  BY DEF WriteReview, id, next, version, previous, branch, review, entry
<1>8. QED
  BY <1>3, <1>5, <1>6, <1>7 DEF DbTypeOK, Database

(* Deletion and retention keep the database well typed. *)
LEMMA TombstoneTypeOK ==
    ASSUME NEW d, DbTypeOK(d), NEW p \in Projects, NEW ids, ids \subseteq DOMAIN d.analyses,
           NEW action \in {"delete", "retention"}, NEW by \in Actors, NEW at \in Stamps
    PROVE  DbTypeOK(Tombstone(d, p, ids, action, by, at))
<1> DEFINE rows == [i \in DOMAIN d.analyses |->
                       IF i \in ids THEN [d.analyses[i] EXCEPT !.deleted = at]
                                    ELSE d.analyses[i]]
           marks == {Deletion(p, "analysis", i, action, by, at) : i \in ids}
<1>1. \A i \in DOMAIN d.analyses : d.analyses[i] \in Analyses
  BY DEF DbTypeOK, HasRows
<1>2. \A i \in DOMAIN d.analyses : rows[i] \in Analyses
  BY <1>1, RowUpdates, Zenon
<1>3. HasRows(rows, d.lastAnalysis, Analyses)
  <2>1. DOMAIN rows = DOMAIN d.analyses
    OBVIOUS
  <2>2. rows \in [DOMAIN rows -> Analyses]
    BY <1>2, Zenon
  <2>3. DOMAIN d.analyses \subseteq 1 .. d.lastAnalysis
    BY DEF DbTypeOK, HasRows
  <2> HIDE DEF rows
  <2>4. QED
    BY <2>1, <2>2, <2>3 DEF HasRows
<1>4. marks \subseteq Audits
  BY DEF Deletion, Audits, DbTypeOK, HasRows
<1>5. Tombstone(d, p, ids, action, by, at)
        = Database(d.projects, rows, d.lastAnalysis, d.reviews, d.lastReview,
                   d.history, d.audit (+) SetToBag(marks))
  BY Zenon DEF Tombstone
<1> HIDE DEF rows, marks
<1>6. IsABag(d.audit (+) SetToBag(marks)) /\ BagToSet(d.audit (+) SetToBag(marks)) \subseteq Audits
  BY <1>4, BagPlusSet DEF DbTypeOK
<1>7. QED
  BY <1>3, <1>5, <1>6 DEF DbTypeOK, Database

(* Deleting a project keeps the database well typed. *)
LEMMA TombstoneProjectTypeOK ==
    ASSUME NEW d, DbTypeOK(d), NEW p \in Projects, NEW by \in Actors, NEW at \in Stamps
    PROVE  DbTypeOK(TombstoneProject(d, p, by, at))
<1> DEFINE marks == {Deletion(p, "project", NoAnalysis, "delete", by, at)}
           audit == d.audit (+) SetToBag(marks)
<1>1. marks \subseteq Audits
  BY DEF Deletion, Audits, NoAnalysis
<1>2. IsABag(audit) /\ BagToSet(audit) \subseteq Audits
  <2> HIDE DEF marks
  <2>1. QED
    BY <1>1, BagPlusSet DEF DbTypeOK
<1>3. [d.projects EXCEPT ![p] = at] \in [Projects -> Stamps \cup {Live, Absent}]
  BY DEF DbTypeOK
<1>4. QED
  <2> HIDE DEF audit
  <2>1. TombstoneProject(d, p, by, at)
          = Database([d.projects EXCEPT ![p] = at], d.analyses, d.lastAnalysis,
                     d.reviews, d.lastReview, d.history, audit)
    BY DEF TombstoneProject, audit
  <2>2. QED
    BY <1>2, <1>3, <2>1 DEF DbTypeOK, Database

(* A set of ids of a table is a finite set of numbers. *)
LEMMA RowsFinite ==
    ASSUME NEW table, NEW last \in Nat, NEW Row, HasRows(table, last, Row),
           NEW ids, ids \subseteq DOMAIN table
    PROVE  ids \subseteq Nat /\ IsFiniteSet(ids)
<1>1. IsFiniteSet(1 .. last)
  BY FS_Interval
<1>2. ids \in SUBSET (1 .. last)
  BY DEF HasRows
<1>3. QED
  BY <1>1, <1>2, FS_Subset

(* The export of a project with a row is well typed. *)
LEMMA ExportTypeOK ==
    ASSUME NEW d, DbTypeOK(d), NEW p \in Projects, d.projects[p] # Absent
    PROVE  EnvelopeTypeOK(Envelope(d, p))
<1> DEFINE analyses == OfProject(d.analyses, p)
           reviews == OfProject(d.reviews, p)
           marks == {x \in BagToSet(d.audit) : x.project = p}
           audit == [r \in marks |-> d.audit[r]]
           e == Envelope(d, p)
<1>1. analyses \subseteq DOMAIN d.analyses /\ reviews \subseteq DOMAIN d.reviews
  BY DEF OfProject
<1>2. analyses \subseteq Nat /\ IsFiniteSet(analyses)
  BY <1>1, RowsFinite DEF DbTypeOK
<1>3. reviews \subseteq Nat /\ IsFiniteSet(reviews)
  BY <1>1, RowsFinite DEF DbTypeOK
<1>4. /\ [i \in analyses |-> d.analyses[i]] \in [analyses -> Analyses]
      /\ [i \in reviews |-> d.reviews[i]] \in [reviews -> Reviews]
  BY <1>1 DEF DbTypeOK, HasRows
<1>5. IsABag(audit) /\ BagToSet(audit) \subseteq Audits
  BY DEF IsABag, BagToSet, DbTypeOK
<1>6. /\ e.project = p /\ e.deleted = d.projects[p]
      /\ e.analyses = [i \in analyses |-> d.analyses[i]]
      /\ e.reviews = [i \in reviews |-> d.reviews[i]]
      /\ e.history = {h \in d.history : h.review \in reviews}
      /\ e.audit = audit
  BY DEF Envelope
<1> HIDE DEF analyses, reviews, audit, e
<1>7. QED
  <2>1. e.deleted \in Stamps \cup {Live}
    BY <1>6 DEF DbTypeOK
  <2>2. EnvelopeTypeOK(e)
    BY <1>2, <1>3, <1>4, <1>5, <1>6, <2>1 DEF EnvelopeTypeOK, DbTypeOK
  <2>3. QED
    BY <2>2 DEF e

-----------------------------------------------------------------------------
(* Where restore puts the rows of an envelope: known rows keep the ids of    *)
(* the target, the others get ids above the highest one ever used.           *)
LEMMA RestoredAnalysisIds ==
    ASSUME NEW d, DbTypeOK(d), NEW e, EnvelopeTypeOK(e)
    PROVE  /\ NewAnalyses(d, e) \subseteq DOMAIN e.analyses
           /\ d.lastAnalysis + Cardinality(NewAnalyses(d, e)) \in Nat
           /\ d.lastAnalysis <= d.lastAnalysis + Cardinality(NewAnalyses(d, e))
           /\ \A i \in NewAnalyses(d, e) :
                 AnalysisIds(d, e)[i] \in (d.lastAnalysis + 1) ..
                                         (d.lastAnalysis + Cardinality(NewAnalyses(d, e)))
           /\ \A i, j \in NewAnalyses(d, e) :
                 AnalysisIds(d, e)[i] = AnalysisIds(d, e)[j] => i = j
           /\ \A i \in DOMAIN e.analyses \ NewAnalyses(d, e) :
                 AnalysisIds(d, e)[i] \in StoredAnalysis(d, e, i)
           /\ \A i \in DOMAIN e.analyses : AnalysisIds(d, e)[i] \in Nat
<1> DEFINE new == NewAnalyses(d, e)
           aids == AnalysisIds(d, e)
           last == d.lastAnalysis
<1>1. new \subseteq DOMAIN e.analyses
  BY DEF NewAnalyses
<1>2. new \subseteq Nat /\ IsFiniteSet(new)
  BY <1>1, FS_Subset DEF EnvelopeTypeOK
<1>3. last \in Nat
  BY DEF DbTypeOK
<1>4. /\ Cardinality(new) \in Nat
      /\ \A i \in new : Fresh(last, new)[i] \in (last + 1) .. (last + Cardinality(new))
      /\ \A i, j \in new : Fresh(last, new)[i] = Fresh(last, new)[j] => i = j
  <2> HIDE DEF new, last
  <2>1. QED
    BY <1>2, <1>3, FreshIds
<1>5. \A i \in new : aids[i] = Fresh(last, new)[i]
  BY <1>1 DEF AnalysisIds
<1>6. \A i \in DOMAIN e.analyses \ new : aids[i] \in StoredAnalysis(d, e, i)
  <2>1. \A i \in DOMAIN e.analyses \ new : aids[i] = CHOOSE x \in StoredAnalysis(d, e, i) : TRUE
    BY DEF AnalysisIds
  <2>2. \A i \in DOMAIN e.analyses \ new : StoredAnalysis(d, e, i) # {}
    BY DEF NewAnalyses
  <2>3. QED
    BY <2>1, <2>2
<1>7. \A i \in DOMAIN e.analyses : StoredAnalysis(d, e, i) \subseteq Nat
  BY DEF StoredAnalysis, ExistingAnalysis, DbTypeOK, HasRows
<1> HIDE DEF new, aids, last
<1>8. \A i \in new : aids[i] \in (last + 1) .. (last + Cardinality(new)) /\ aids[i] \in Nat
  BY <1>3, <1>4, <1>5
<1>9. \A i \in DOMAIN e.analyses : aids[i] \in Nat
  BY <1>6, <1>7, <1>8
<1>10. last + Cardinality(new) \in Nat /\ last <= last + Cardinality(new)
  BY <1>3, <1>4
<1>11. \A i, j \in new : aids[i] = aids[j] => i = j
  BY <1>4, <1>5
<1>12. QED
  BY <1>1, <1>6, <1>8, <1>9, <1>10, <1>11 DEF new, aids, last

(* The same for reviews. *)
LEMMA RestoredReviewIds ==
    ASSUME NEW d, DbTypeOK(d), NEW e, EnvelopeTypeOK(e)
    PROVE  /\ NewReviews(d, e) \subseteq DOMAIN e.reviews
           /\ d.lastReview + Cardinality(NewReviews(d, e)) \in Nat
           /\ d.lastReview <= d.lastReview + Cardinality(NewReviews(d, e))
           /\ \A i \in NewReviews(d, e) :
                 ReviewIds(d, e)[i] \in (d.lastReview + 1) ..
                                       (d.lastReview + Cardinality(NewReviews(d, e)))
           /\ \A i, j \in NewReviews(d, e) :
                 ReviewIds(d, e)[i] = ReviewIds(d, e)[j] => i = j
           /\ \A i \in DOMAIN e.reviews \ NewReviews(d, e) :
                 ReviewIds(d, e)[i] \in StoredReview(d, e, i)
           /\ \A i \in DOMAIN e.reviews : ReviewIds(d, e)[i] \in Nat
<1> DEFINE new == NewReviews(d, e)
           rids == ReviewIds(d, e)
           last == d.lastReview
<1>1. new \subseteq DOMAIN e.reviews
  BY DEF NewReviews
<1>2. new \subseteq Nat /\ IsFiniteSet(new)
  BY <1>1, FS_Subset DEF EnvelopeTypeOK
<1>3. last \in Nat
  BY DEF DbTypeOK
<1>4. /\ Cardinality(new) \in Nat
      /\ \A i \in new : Fresh(last, new)[i] \in (last + 1) .. (last + Cardinality(new))
      /\ \A i, j \in new : Fresh(last, new)[i] = Fresh(last, new)[j] => i = j
  <2> HIDE DEF new, last
  <2>1. QED
    BY <1>2, <1>3, FreshIds
<1>5. \A i \in new : rids[i] = Fresh(last, new)[i]
  BY <1>1 DEF ReviewIds
<1>6. \A i \in DOMAIN e.reviews \ new : rids[i] \in StoredReview(d, e, i)
  <2>1. \A i \in DOMAIN e.reviews \ new : rids[i] = CHOOSE x \in StoredReview(d, e, i) : TRUE
    BY DEF ReviewIds
  <2>2. \A i \in DOMAIN e.reviews \ new : StoredReview(d, e, i) # {}
    BY DEF NewReviews
  <2>3. QED
    BY <2>1, <2>2
<1>7. \A i \in DOMAIN e.reviews : StoredReview(d, e, i) \subseteq Nat
  BY DEF StoredReview, ExistingReview, DbTypeOK, HasRows
<1> HIDE DEF new, rids, last
<1>8. \A i \in new : rids[i] \in (last + 1) .. (last + Cardinality(new)) /\ rids[i] \in Nat
  BY <1>3, <1>4, <1>5
<1>9. \A i \in DOMAIN e.reviews : rids[i] \in Nat
  BY <1>6, <1>7, <1>8
<1>10. last + Cardinality(new) \in Nat /\ last <= last + Cardinality(new)
  BY <1>3, <1>4
<1>11. \A i, j \in new : rids[i] = rids[j] => i = j
  BY <1>4, <1>5
<1>12. QED
  BY <1>1, <1>6, <1>8, <1>9, <1>10, <1>11 DEF new, rids, last

(* A merged table holds what the target held and, under its new id, each new *)
(* row of the envelope.                                                      *)
LEMMA MergedRows ==
    ASSUME NEW table, NEW new, NEW ids, NEW rows,
           \A i \in new : ids[i] \notin DOMAIN table,
           \A i, j \in new : ids[i] = ids[j] => i = j
    PROVE  /\ \A x \in DOMAIN Merge(table, new, ids, rows) :
                 x \in DOMAIN table \/ \E i \in new : x = ids[i]
           /\ DOMAIN table \subseteq DOMAIN Merge(table, new, ids, rows)
           /\ \A i \in new : ids[i] \in DOMAIN Merge(table, new, ids, rows)
           /\ \A i \in DOMAIN table : Merge(table, new, ids, rows)[i] = table[i]
           /\ \A i \in new : Merge(table, new, ids, rows)[ids[i]] = rows[i]
<1> DEFINE merged == Merge(table, new, ids, rows)
<1>1. DOMAIN merged = DOMAIN table \cup {ids[i] : i \in new}
  BY DEF Merge
<1>2. \A i \in DOMAIN table : merged[i] = table[i]
  BY DEF Merge
<1>3. ASSUME NEW i \in new
      PROVE  merged[ids[i]] = rows[i]
  <2>1. merged[ids[i]] = rows[CHOOSE j \in new : ids[j] = ids[i]]
    BY DEF Merge
  <2>2. (CHOOSE j \in new : ids[j] = ids[i]) = i
    OBVIOUS
  <2>3. QED
    BY <2>1, <2>2
<1> HIDE DEF merged
<1>4. QED
  BY <1>1, <1>2, <1>3 DEF merged

(* A merged table is a table. *)
LEMMA MergeHasRows ==
    ASSUME NEW table, NEW last \in Nat, NEW Row, HasRows(table, last, Row),
           NEW new, NEW ids, NEW rows, NEW next \in Nat, last <= next,
           \A i \in new : ids[i] \in (last + 1) .. next /\ rows[i] \in Row,
           \A i, j \in new : ids[i] = ids[j] => i = j
    PROVE  HasRows(Merge(table, new, ids, rows), next, Row)
<1> DEFINE merged == Merge(table, new, ids, rows)
<1>1. \A i \in new : ids[i] \notin DOMAIN table /\ ids[i] \in 1 .. next
  BY DEF HasRows
<1>2. merged = [x \in DOMAIN merged |-> merged[x]]
  BY DEF Merge
<1>3. /\ \A x \in DOMAIN merged : x \in DOMAIN table \/ \E i \in new : x = ids[i]
      /\ \A i \in DOMAIN table : merged[i] = table[i]
      /\ \A i \in new : merged[ids[i]] = rows[i]
  BY <1>1, MergedRows
<1> HIDE DEF merged
<1>4. \A x \in DOMAIN merged : merged[x] \in Row /\ x \in 1 .. next
  BY <1>1, <1>3 DEF HasRows
<1>5. merged \in [DOMAIN merged -> Row]
  BY <1>2, <1>4
<1>6. QED
  BY <1>4, <1>5 DEF HasRows, merged

(* The rows of a valid envelope keep their types under the ids of the target. *)
LEMMA MappedRows ==
    ASSUME NEW d, DbTypeOK(d), NEW e, EnvelopeTypeOK(e), ValidateRestore(e)
    PROVE  /\ \A i \in DOMAIN e.reviews : MappedReview(e, i, AnalysisIds(d, e)) \in Reviews
           /\ MappedHistory(e, AnalysisIds(d, e), ReviewIds(d, e)) \subseteq Histories
           /\ MappedDeletions(e, AnalysisIds(d, e)) \subseteq Audits
<1> DEFINE aids == AnalysisIds(d, e)
           rids == ReviewIds(d, e)
<1>1. \A i \in DOMAIN e.analyses : aids[i] \in Nat
  BY RestoredAnalysisIds
<1>2. \A i \in DOMAIN e.reviews : rids[i] \in Nat
  BY RestoredReviewIds
<1> HIDE DEF aids, rids
<1>3. ASSUME NEW i \in DOMAIN e.reviews
      PROVE  MappedReview(e, i, aids) \in Reviews
  <2>1. e.reviews[i] \in Reviews
    BY DEF EnvelopeTypeOK
  <2>2. e.reviews[i].analysis \in DOMAIN e.analyses
    BY DEF ValidateRestore, ValidReviews, ValidReference
  <2>3. aids[e.reviews[i].analysis] \in Nat
    BY <1>1, <2>2
  <2>4. QED
    BY <2>1, <2>3, RowUpdates, Zenon DEF MappedReview
<1>4. ASSUME NEW h \in e.history
      PROVE  [h EXCEPT !.review = rids[@], !.analysis = aids[@]] \in Histories
  <2>1. h \in Histories
    BY DEF EnvelopeTypeOK
  <2>2. h.review \in DOMAIN e.reviews /\ h.analysis \in DOMAIN e.analyses
    BY DEF ValidateRestore, ValidHistory, ValidReference
  <2>3. rids[h.review] \in Nat /\ aids[h.analysis] \in Nat
    BY <1>1, <1>2, <2>2
  <2>4. QED
    BY <2>1, <2>3, RowUpdates, Zenon
<1>5. ASSUME NEW r \in BagToSet(e.audit)
      PROVE  [r EXCEPT !.analysis = IF @ = NoAnalysis THEN @ ELSE aids[@]] \in Audits
  <2>1. r \in Audits
    BY DEF EnvelopeTypeOK
  <2>2. r.analysis = NoAnalysis \/ r.analysis \in DOMAIN e.analyses
    BY DEF ValidateRestore, ValidDeletions
  <2>3. (IF r.analysis = NoAnalysis THEN r.analysis ELSE aids[r.analysis]) \in Nat
    BY <1>1, <2>2 DEF NoAnalysis
  <2>4. QED
    BY <2>1, <2>3, RowUpdates, Zenon
<1>6. MappedHistory(e, aids, rids) \subseteq Histories
  BY <1>4, Zenon DEF MappedHistory
<1>7. MappedDeletions(e, aids) \subseteq Audits
  BY <1>5, Zenon DEF MappedDeletions
<1>8. QED
  BY <1>3, <1>6, <1>7 DEF aids, rids

(* The table of analyses after a restore. *)
LEMMA RestoredAnalyses ==
    ASSUME NEW d, DbTypeOK(d), NEW e, EnvelopeTypeOK(e)
    PROVE  LET aids == AnalysisIds(d, e)
               new == NewAnalyses(d, e)
               next == d.lastAnalysis + Cardinality(new)
               merged == Merge(d.analyses, new, aids, e.analyses)
           IN  /\ HasRows(merged, next, Analyses) /\ next \in Nat
               /\ \A x \in DOMAIN merged : x \in DOMAIN d.analyses \/ \E i \in new : x = aids[i]
               /\ DOMAIN d.analyses \subseteq DOMAIN merged
               /\ \A i \in new : aids[i] \in DOMAIN merged
               /\ \A i \in DOMAIN d.analyses : merged[i] = d.analyses[i]
               /\ \A i \in new : merged[aids[i]] = e.analyses[i]
               /\ \A i \in new : aids[i] \notin DOMAIN d.analyses
<1> DEFINE aids == AnalysisIds(d, e)
           new == NewAnalyses(d, e)
           next == d.lastAnalysis + Cardinality(new)
<1>1. \A i \in DOMAIN e.analyses : e.analyses[i] \in Analyses
  BY DEF EnvelopeTypeOK
<1>2. d.lastAnalysis \in Nat /\ HasRows(d.analyses, d.lastAnalysis, Analyses)
  BY DEF DbTypeOK
<1>3. /\ next \in Nat /\ d.lastAnalysis <= next
      /\ \A i \in new : aids[i] \in (d.lastAnalysis + 1) .. next /\ e.analyses[i] \in Analyses
      /\ \A i, j \in new : aids[i] = aids[j] => i = j
  BY <1>1, RestoredAnalysisIds
<1> HIDE DEF aids, next, new
<1>4. HasRows(Merge(d.analyses, new, aids, e.analyses), next, Analyses)
  BY <1>2, <1>3, MergeHasRows
<1>5. \A i \in new : aids[i] \notin DOMAIN d.analyses
  BY <1>2, <1>3 DEF HasRows
<1>6. QED
  BY <1>3, <1>4, <1>5, MergedRows DEF aids, next, new

(* The table of reviews after a restore. *)
LEMMA RestoredReviews ==
    ASSUME NEW d, DbTypeOK(d), NEW e, EnvelopeTypeOK(e), ValidateRestore(e)
    PROVE  LET rids == ReviewIds(d, e)
               new == NewReviews(d, e)
               next == d.lastReview + Cardinality(new)
               rows == [i \in DOMAIN e.reviews |-> MappedReview(e, i, AnalysisIds(d, e))]
               merged == Merge(d.reviews, new, rids, rows)
           IN  /\ HasRows(merged, next, Reviews) /\ next \in Nat
               /\ \A x \in DOMAIN merged : x \in DOMAIN d.reviews \/ \E i \in new : x = rids[i]
               /\ DOMAIN d.reviews \subseteq DOMAIN merged
               /\ \A i \in new : rids[i] \in DOMAIN merged
               /\ \A i \in DOMAIN d.reviews : merged[i] = d.reviews[i]
               /\ \A i \in new : merged[rids[i]] = MappedReview(e, i, AnalysisIds(d, e))
               /\ \A i \in new : rids[i] \notin DOMAIN d.reviews
<1> DEFINE rids == ReviewIds(d, e)
           new == NewReviews(d, e)
           next == d.lastReview + Cardinality(new)
           row(i) == MappedReview(e, i, AnalysisIds(d, e))
           rows == [i \in DOMAIN e.reviews |-> row(i)]
<1>1. \A i \in DOMAIN e.reviews : row(i) \in Reviews
  BY MappedRows
<1>2. d.lastReview \in Nat /\ HasRows(d.reviews, d.lastReview, Reviews)
  BY DEF DbTypeOK
<1> HIDE DEF row
<1>3. /\ next \in Nat /\ d.lastReview <= next
      /\ \A i \in new : /\ rids[i] \in (d.lastReview + 1) .. next
                        /\ rows[i] \in Reviews /\ rows[i] = row(i)
      /\ \A i, j \in new : rids[i] = rids[j] => i = j
  BY <1>1, RestoredReviewIds
<1> HIDE DEF rids, next, new, rows
<1>4. HasRows(Merge(d.reviews, new, rids, rows), next, Reviews)
  BY <1>2, <1>3, MergeHasRows
<1>5. \A i \in new : rids[i] \notin DOMAIN d.reviews
  BY <1>2, <1>3 DEF HasRows
<1>6. /\ \A x \in DOMAIN Merge(d.reviews, new, rids, rows) :
            x \in DOMAIN d.reviews \/ \E i \in new : x = rids[i]
      /\ DOMAIN d.reviews \subseteq DOMAIN Merge(d.reviews, new, rids, rows)
      /\ \A i \in new : rids[i] \in DOMAIN Merge(d.reviews, new, rids, rows)
      /\ \A i \in DOMAIN d.reviews : Merge(d.reviews, new, rids, rows)[i] = d.reviews[i]
      /\ \A i \in new : Merge(d.reviews, new, rids, rows)[rids[i]] = row(i)
  BY <1>3, <1>5, MergedRows
<1>7. QED
  BY <1>3, <1>4, <1>5, <1>6 DEF rids, next, new, rows, row

(* The restore of a valid envelope keeps the database well typed. *)
LEMMA RestoreTypeOK ==
    ASSUME NEW d, DbTypeOK(d), NEW e, EnvelopeTypeOK(e), ValidateRestore(e)
    PROVE  DbTypeOK(Restored(d, e))
<1> DEFINE aids == AnalysisIds(d, e)
           rids == ReviewIds(d, e)
           rows == [i \in DOMAIN e.reviews |-> MappedReview(e, i, aids)]
           analyses == Merge(d.analyses, NewAnalyses(d, e), aids, e.analyses)
           nextAnalysis == d.lastAnalysis + Cardinality(NewAnalyses(d, e))
           reviews == Merge(d.reviews, NewReviews(d, e), rids, rows)
           nextReview == d.lastReview + Cardinality(NewReviews(d, e))
           history == d.history \cup MappedHistory(e, aids, rids)
           audit == d.audit (+) SetToBag(NewDeletions(d, e, aids))
           projects == [d.projects EXCEPT ![e.project] = e.deleted]
<1>1. HasRows(analyses, nextAnalysis, Analyses) /\ nextAnalysis \in Nat
  BY RestoredAnalyses
<1>2. HasRows(reviews, nextReview, Reviews) /\ nextReview \in Nat
  BY RestoredReviews
<1>3. history \subseteq Histories
  BY MappedRows DEF DbTypeOK
<1>4. IsABag(audit) /\ BagToSet(audit) \subseteq Audits
  <2>1. NewDeletions(d, e, aids) \subseteq Audits
    BY MappedRows DEF NewDeletions
  <2>2. QED
    BY <2>1, BagPlusSet DEF DbTypeOK
<1>5. projects \in [Projects -> Stamps \cup {Live, Absent}]
  BY DEF DbTypeOK, EnvelopeTypeOK
<1>6. Restored(d, e) = Database(projects, analyses, nextAnalysis, reviews, nextReview,
                                history, audit)
  BY DEF Restored
<1> HIDE DEF projects, analyses, nextAnalysis, reviews, nextReview, history, audit
<1>7. QED
  BY <1>1, <1>2, <1>3, <1>4, <1>5, <1>6 DEF DbTypeOK, Database

-----------------------------------------------------------------------------
(* A step that writes one database keeps what all databases satisfy. *)
LEMMA OneStore ==
    ASSUME TypeOK, NEW s \in Stores, NEW e, DbTypeOK(e),
           db' = [db EXCEPT ![s] = e], UNCHANGED backups
    PROVE  TypeOK'
BY DEF TypeOK

(* Every step keeps the type invariant. *)
LEMMA TypeInductive ==
    ASSUME TypeOK, [Next]_vars
    PROVE  TypeOK'
<1>1. ASSUME NEW s \in Stores, NEW p \in Projects, NEW b \in Branches,
             NEW c \in Commits, NEW rep \in Reports, IngestAnalysis(s, p, b, c, rep)
      PROVE  TypeOK'
  <2>1. DbTypeOK(InsertAnalysisRows(db[s], p, b, c, rep))
    BY IngestTypeOK DEF TypeOK
  <2>2. QED
    BY <1>1, <2>1, OneStore DEF IngestAnalysis
<1>2. ASSUME NEW s \in Stores, Review(s)
      PROVE  TypeOK'
  <2>1. PICK p \in Projects, identity \in Identities, kind \in Kinds,
             state \in RequestedStates, by \in Actors, at \in Stamps :
             \E a \in DOMAIN db[s].analyses, expected \in 0 .. MaxVersion :
                 ApplyReview(s, p, a, identity, kind, state, expected, by, at)
    BY <1>2 DEF Review
  <2>2. PICK a \in DOMAIN db[s].analyses, expected \in 0 .. MaxVersion :
             ApplyReview(s, p, a, identity, kind, state, expected, by, at)
    BY <2>1
  <2>3. state \in ReviewStates
    BY BoundAssumption
  <2>4. DbTypeOK(WriteReview(db[s], p, a, identity, kind, state, by, at))
    BY <2>3, ReviewTypeOK DEF TypeOK
  <2>5. QED
    BY <2>2, <2>4, OneStore DEF ApplyReview
<1>3. ASSUME NEW s \in Stores, Delete(s)
      PROVE  TypeOK'
  <2>1. PICK p \in Projects, by \in Actors, at \in Stamps :
             \/ \E a \in DOMAIN db[s].analyses : DeleteAnalysis(s, p, a, by, at)
             \/ DeleteProject(s, p, by, at)
    BY <1>3 DEF Delete
  <2>2. ASSUME NEW a \in DOMAIN db[s].analyses, DeleteAnalysis(s, p, a, by, at)
        PROVE  TypeOK'
    <3>1. DbTypeOK(Tombstone(db[s], p, {a}, "delete", by, at))
      BY TombstoneTypeOK DEF TypeOK
    <3>2. QED
      BY <2>2, <3>1, OneStore DEF DeleteAnalysis
  <2>3. ASSUME DeleteProject(s, p, by, at)
        PROVE  TypeOK'
    <3>1. DbTypeOK(TombstoneProject(db[s], p, by, at))
      BY TombstoneProjectTypeOK DEF TypeOK
    <3>2. QED
      BY <2>3, <3>1, OneStore DEF DeleteProject
  <2>4. QED
    BY <2>1, <2>2, <2>3
<1>4. ASSUME NEW s \in Stores, Retain(s)
      PROVE  TypeOK'
  <2>1. PICK p \in Projects, by \in Actors, at \in Stamps,
             before \in {EpochOf[rep] + 1 : rep \in Reports},
             branch \in Branches \cup {AnyBranch} :
             ApplyRetention(s, p, before, branch, by, at)
    BY <1>4 DEF Retain
  <2> DEFINE ids == RetentionTargets(db[s], p, before, branch)
  <2>2. ids \subseteq DOMAIN db[s].analyses
    BY DEF RetentionTargets
  <2> HIDE DEF ids
  <2>3. DbTypeOK(Tombstone(db[s], p, ids, "retention", by, at))
    BY <2>2, TombstoneTypeOK DEF TypeOK
  <2>4. QED
    BY <2>1, <2>3, OneStore DEF ApplyRetention, ids
<1>5. ASSUME NEW s \in Stores, NEW p \in Projects, ExportProject(s, p)
      PROVE  TypeOK'
  <2>1. EnvelopeTypeOK(Envelope(db[s], p))
    BY <1>5, ExportTypeOK DEF ExportProject, TypeOK
  <2>2. QED
    BY <1>5, <2>1 DEF ExportProject, TypeOK
<1>6. ASSUME NEW s \in Stores, NEW backup \in backups, Restore(s, backup)
      PROVE  TypeOK'
  <2>1. DbTypeOK(Restored(db[s], backup.envelope))
    BY <1>6, RestoreTypeOK DEF Restore, TypeOK
  <2>2. QED
    BY <1>6, <2>1, OneStore DEF Restore
<1>7. ASSUME UNCHANGED vars
      PROVE  TypeOK'
  BY <1>7 DEF TypeOK, vars
<1>8. QED
  BY <1>1, <1>2, <1>3, <1>4, <1>5, <1>6, <1>7 DEF Next

(* Every reachable database holds rows of the schema, with ids up to the     *)
(* value of sqlite_sequence, whatever is ingested, reviewed, deleted,        *)
(* retained, exported and restored.                                          *)
THEOREM TypeCorrect == Spec => []TypeOK
<1>1. Init => TypeOK
  BY EmptyDbTypeOK DEF Init, TypeOK
<1>2. TypeOK /\ [Next]_vars => TypeOK'
  BY TypeInductive
<1>3. QED
  BY <1>1, <1>2, PTL DEF Spec

-----------------------------------------------------------------------------
(* The deletion audit of ServiceStore.  That a deletion is audited exactly   *)
(* once is not inductive on its own: a second audit row is impossible        *)
(* because an audited analysis is tombstoned, and a restored row is right    *)
(* because the envelope it comes from is as consistent as its database.      *)
DbAudited(d) ==
    /\ DbTombstonesAudited(d)
    /\ \A r \in BagToSet(d.audit) : d.audit[r] = 1

EnvelopeAudited(e) ==
    /\ \A i \in DOMAIN e.analyses : e.analyses[i].project = e.project
    /\ \A i \in DOMAIN e.analyses : e.analyses[i].deleted # Live =>
          \E r \in BagToSet(e.audit) : r.resource = "analysis" /\ r.analysis = i
    /\ e.deleted \in Stamps => \E r \in BagToSet(e.audit) : r.resource = "project"
    /\ \A r \in BagToSet(e.audit) :
          /\ r.project = e.project
          /\ IF r.resource = "project"
             THEN e.deleted = r.at /\ r.analysis = NoAnalysis
             ELSE /\ r.analysis \in DOMAIN e.analyses
                  /\ e.analyses[r.analysis].deleted = r.at

AuditInv ==
    /\ TypeOK
    /\ \A s \in Stores : DbAudited(db[s])
    /\ \A x \in backups : EnvelopeAudited(x.envelope)

-----------------------------------------------------------------------------
(* A new database has no tombstone and no audit row. *)
LEMMA EmptyDbAudited == DbAudited(EmptyDb)
BY SentinelAssumption DEF DbAudited, DbTombstonesAudited, EmptyDb, Database, NoRows,
   BagToSet, EmptyBag, SetToBag

(* An ingest writes no tombstone. *)
LEMMA IngestAudited ==
    ASSUME NEW d, DbTypeOK(d), DbAudited(d), NEW p \in Projects, NEW b \in Branches,
           NEW c \in Commits, NEW rep \in Reports
    PROVE  DbAudited(InsertAnalysisRows(d, p, b, c, rep))
<1> DEFINE row == [project |-> p, branch |-> b, commit |-> c,
                   report |-> rep, deleted |-> Live]
           id == d.lastAnalysis + 1
           analyses == Insert(d.analyses, id, row)
           projects == [d.projects EXCEPT ![p] = IF @ = Absent THEN Live ELSE @]
           e == InsertAnalysisRows(d, p, b, c, rep)
<1>1. id \notin DOMAIN d.analyses
  BY DEF DbTypeOK, HasRows
<1>2. /\ DOMAIN analyses = DOMAIN d.analyses \cup {id}
      /\ \A i \in DOMAIN d.analyses : analyses[i] = d.analyses[i]
      /\ analyses[id].deleted = Live
  BY <1>1 DEF Insert
<1>3. ASSUME NEW q \in Projects
      PROVE  \/ projects[q] = d.projects[q]
             \/ d.projects[q] = Absent /\ projects[q] = Live
  <2>1. DOMAIN d.projects = Projects
    BY DEF DbTypeOK
  <2>2. QED
    BY <2>1, Zenon
<1>4. \A r \in BagToSet(d.audit) : r.project \in Projects /\ r.at \in Stamps
  BY DEF DbTypeOK, Audits
<1>5. e.audit = d.audit /\ e.analyses = analyses /\ e.projects = projects
  BY DEF InsertAnalysisRows, Database
<1> HIDE DEF analyses, projects, id, e
<1>6. DbAudited(e)
  BY <1>2, <1>3, <1>4, <1>5, SentinelAssumption DEF DbAudited, DbTombstonesAudited
<1>7. QED
  BY <1>6 DEF e

(* A review touches neither tombstones nor the audit. *)
LEMMA ReviewAudited ==
    ASSUME NEW d, DbAudited(d), NEW p, NEW a, NEW identity, NEW kind, NEW state, NEW by, NEW at
    PROVE  DbAudited(WriteReview(d, p, a, identity, kind, state, by, at))
BY DEF DbAudited, DbTombstonesAudited, WriteReview, Database

(* Deletion and retention audit each live analysis that they tombstone. *)
LEMMA TombstoneAudited ==
    ASSUME NEW d, DbTypeOK(d), DbAudited(d), NEW p \in Projects,
           NEW ids, ids \subseteq DOMAIN d.analyses,
           \A i \in ids : d.analyses[i].project = p /\ d.analyses[i].deleted = Live,
           NEW action \in {"delete", "retention"}, NEW by \in Actors, NEW at \in Stamps
    PROVE  DbAudited(Tombstone(d, p, ids, action, by, at))
<1> DEFINE rows == [i \in DOMAIN d.analyses |->
                       IF i \in ids THEN [d.analyses[i] EXCEPT !.deleted = at]
                                    ELSE d.analyses[i]]
           marks == {Deletion(p, "analysis", i, action, by, at) : i \in ids}
           audit == d.audit (+) SetToBag(marks)
           e == Tombstone(d, p, ids, action, by, at)
<1>1. /\ \A i \in ids : rows[i].deleted = at /\ rows[i].project = p
      /\ \A i \in DOMAIN d.analyses \ ids : rows[i] = d.analyses[i]
      /\ DOMAIN rows = DOMAIN d.analyses
  <2>1. \A i \in ids : d.analyses[i] \in Analyses
    BY DEF DbTypeOK, HasRows
  <2>2. \A r \in Analyses : [r EXCEPT !.deleted = at].deleted = at
                          /\ [r EXCEPT !.deleted = at].project = r.project
    BY Zenon DEF Analyses
  <2>3. \A i \in ids : rows[i] = [d.analyses[i] EXCEPT !.deleted = at]
    BY Zenon
  <2>4. \A i \in DOMAIN d.analyses \ ids : rows[i] = d.analyses[i]
    BY Zenon
  <2>5. DOMAIN rows = DOMAIN d.analyses
    BY Zenon
  <2>6. \A i \in ids : rows[i].deleted = at /\ rows[i].project = d.analyses[i].project
    BY <2>1, <2>2, <2>3, Zenon
  <2> HIDE DEF rows
  <2>7. QED
    BY <2>4, <2>5, <2>6
<1>2. \A r \in marks : /\ r.resource = "analysis" /\ r.analysis \in ids
                       /\ r.project = p /\ r.at = at
  BY DEF Deletion
<1>3. ASSUME NEW i \in ids
      PROVE  \E r \in marks : r.resource = "analysis" /\ r.analysis = i
  <2> DEFINE r == Deletion(p, "analysis", i, action, by, at)
  <2>1. r \in marks
    BY Zenon
  <2>2. r.resource = "analysis" /\ r.analysis = i
    BY DEF Deletion
  <2>3. QED
    BY <2>1, <2>2, Zenon
<1>4. e.audit = audit /\ e.analyses = rows /\ e.projects = d.projects
  BY Zenon DEF Tombstone, Database
<1> HIDE DEF rows, marks, e
<1>5. /\ BagToSet(audit) = BagToSet(d.audit) \cup marks
      /\ \A r \in BagToSet(audit) : audit[r] = IF r \in marks
                                              THEN IF r \in BagToSet(d.audit)
                                                   THEN d.audit[r] + 1 ELSE 1
                                              ELSE d.audit[r]
  BY BagPlusSet DEF DbTypeOK
<1> HIDE DEF audit
<1>6. \A r \in BagToSet(d.audit) : r.resource = "analysis" => r.analysis \notin ids
  <2>1. \A r \in BagToSet(d.audit) : r.at \in Stamps
    BY DEF DbTypeOK, Audits
  <2>2. QED
    BY <2>1, SentinelAssumption DEF DbAudited, DbTombstonesAudited
<1>7. \A r \in BagToSet(d.audit) : r.resource \in {"analysis", "project"}
  BY DEF DbTypeOK, Audits
<1>8. DbTombstonesAudited(e)
  BY <1>1, <1>2, <1>3, <1>4, <1>5, <1>6, <1>7 DEF DbAudited, DbTombstonesAudited
<1>9. \A r \in BagToSet(e.audit) : e.audit[r] = 1
  BY <1>2, <1>4, <1>5, <1>6 DEF DbAudited
<1>10. QED
  BY <1>8, <1>9 DEF DbAudited, e

(* Deleting an active project audits it. *)
LEMMA TombstoneProjectAudited ==
    ASSUME NEW d, DbTypeOK(d), DbAudited(d), NEW p \in Projects, ActiveProject(d, p),
           NEW by \in Actors, NEW at \in Stamps
    PROVE  DbAudited(TombstoneProject(d, p, by, at))
<1> DEFINE mark == Deletion(p, "project", NoAnalysis, "delete", by, at)
           marks == {mark}
           audit == d.audit (+) SetToBag(marks)
           e == TombstoneProject(d, p, by, at)
<1>1. /\ mark.resource = "project" /\ mark.project = p /\ mark.at = at
      /\ mark.analysis = NoAnalysis
  BY DEF Deletion
<1>2. /\ e.audit = audit /\ e.analyses = d.analyses
      /\ e.projects = [d.projects EXCEPT ![p] = at]
  BY DEF TombstoneProject, Database
<1> HIDE DEF mark, e
<1>3. /\ BagToSet(audit) = BagToSet(d.audit) \cup marks
      /\ \A r \in BagToSet(audit) : audit[r] = IF r \in marks
                                              THEN IF r \in BagToSet(d.audit)
                                                   THEN d.audit[r] + 1 ELSE 1
                                              ELSE d.audit[r]
  BY BagPlusSet DEF DbTypeOK
<1> HIDE DEF audit
<1>4. \A r \in BagToSet(d.audit) : r.resource = "project" => r.project # p
  <2>1. \A r \in BagToSet(d.audit) : r.at \in Stamps
    BY DEF DbTypeOK, Audits
  <2>2. QED
    BY <2>1, SentinelAssumption DEF DbAudited, DbTombstonesAudited, ActiveProject
<1>5. \A q \in Projects : e.projects[q] = IF q = p THEN at ELSE d.projects[q]
  BY <1>2 DEF DbTypeOK
<1>6. \A r \in BagToSet(d.audit) : r.project \in Projects
  BY DEF DbTypeOK, Audits
<1>7. DbTombstonesAudited(e)
  BY <1>1, <1>2, <1>3, <1>4, <1>5, <1>6 DEF DbAudited, DbTombstonesAudited
<1>8. \A r \in BagToSet(e.audit) : e.audit[r] = 1
  BY <1>1, <1>2, <1>3, <1>4 DEF DbAudited
<1>9. QED
  BY <1>7, <1>8 DEF DbAudited, e

(* An envelope is as consistent as the database it was taken from. *)
LEMMA ExportAudited ==
    ASSUME NEW d, DbTypeOK(d), DbAudited(d), NEW p \in Projects
    PROVE  EnvelopeAudited(Envelope(d, p))
<1> DEFINE analyses == OfProject(d.analyses, p)
           marks == {x \in BagToSet(d.audit) : x.project = p}
           e == Envelope(d, p)
<1>1. /\ e.project = p /\ e.deleted = d.projects[p]
      /\ e.analyses = [i \in analyses |-> d.analyses[i]]
      /\ e.audit = [r \in marks |-> d.audit[r]]
  BY DEF Envelope
<1>2. \A i : i \in analyses <=> i \in DOMAIN d.analyses /\ d.analyses[i].project = p
  BY DEF OfProject
<1> HIDE DEF e, analyses
<1>3. /\ DOMAIN e.analyses = analyses /\ \A i \in analyses : e.analyses[i] = d.analyses[i]
      /\ BagToSet(e.audit) = marks
  BY <1>1 DEF BagToSet
<1>4. EnvelopeAudited(e)
  <2>1. \A i \in DOMAIN e.analyses : e.analyses[i].project = e.project
    BY <1>1, <1>2, <1>3
  <2>2. ASSUME NEW i \in DOMAIN e.analyses, e.analyses[i].deleted # Live
        PROVE  \E r \in BagToSet(e.audit) : r.resource = "analysis" /\ r.analysis = i
    <3>1. PICK r \in BagToSet(d.audit) : r.resource = "analysis" /\ r.analysis = i
      BY <1>2, <1>3, <2>2 DEF DbAudited, DbTombstonesAudited
    <3>2. d.analyses[i].project = r.project
      BY <3>1 DEF DbAudited, DbTombstonesAudited
    <3>3. QED
      BY <1>2, <1>3, <3>1, <3>2
  <2>3. ASSUME e.deleted \in Stamps
        PROVE  \E r \in BagToSet(e.audit) : r.resource = "project"
    <3>1. PICK r \in BagToSet(d.audit) : r.resource = "project" /\ r.project = p
      BY <1>1, <2>3 DEF DbAudited, DbTombstonesAudited
    <3>2. QED
      BY <1>3, <3>1
  <2>4. ASSUME NEW r \in BagToSet(e.audit)
        PROVE  /\ r.project = e.project
               /\ IF r.resource = "project"
                  THEN e.deleted = r.at /\ r.analysis = NoAnalysis
                  ELSE /\ r.analysis \in DOMAIN e.analyses
                       /\ e.analyses[r.analysis].deleted = r.at
    <3>1. r \in BagToSet(d.audit) /\ r.project = p
      BY <1>3
    <3>2. IF r.resource = "project"
          THEN d.projects[p] = r.at /\ r.analysis = NoAnalysis
          ELSE r.analysis \in analyses /\ d.analyses[r.analysis].deleted = r.at
      BY <1>2, <3>1 DEF DbAudited, DbTombstonesAudited
    <3>3. QED
      BY <1>1, <1>3, <3>1, <3>2
  <2>5. QED
    BY <2>1, <2>2, <2>3, <2>4 DEF EnvelopeAudited
<1>5. QED
  BY <1>4 DEF e

(* What MappedDeletions makes of an audit row. *)
LEMMA MappedDeletion ==
    ASSUME NEW e, EnvelopeTypeOK(e), NEW aids, \A i \in DOMAIN e.analyses : aids[i] \in Nat \ {0},
           EnvelopeAudited(e)
    PROVE  /\ \A x \in MappedDeletions(e, aids) : \E r \in BagToSet(e.audit) :
                 /\ x.resource = r.resource /\ x.project = r.project /\ x.at = r.at
                 /\ x.analysis = IF r.analysis = NoAnalysis THEN NoAnalysis ELSE aids[r.analysis]
           /\ \A r \in BagToSet(e.audit) : \E x \in MappedDeletions(e, aids) :
                 /\ x.resource = r.resource /\ x.project = r.project /\ x.at = r.at
                 /\ x.analysis = IF r.analysis = NoAnalysis THEN NoAnalysis ELSE aids[r.analysis]
<1> DEFINE new(r) == IF r.analysis = NoAnalysis THEN NoAnalysis ELSE aids[r.analysis]
           mapped(r) == [r EXCEPT !.analysis = IF @ = NoAnalysis THEN @ ELSE aids[@]]
<1>1. ASSUME NEW r \in BagToSet(e.audit)
      PROVE  /\ mapped(r).resource = r.resource /\ mapped(r).project = r.project
             /\ mapped(r).at = r.at /\ mapped(r).analysis = new(r)
  <2>1. r \in Audits
    BY DEF EnvelopeTypeOK
  <2>2. QED
    BY <2>1, Zenon DEF Audits
<1>2. MappedDeletions(e, aids) = {mapped(r) : r \in BagToSet(e.audit)}
  BY Zenon DEF MappedDeletions
<1> HIDE DEF mapped
<1>3. QED
  BY <1>1, <1>2

(* A restore maps audit rows and tombstones to the same ids. *)
LEMMA RestoreAudited ==
    ASSUME NEW d, DbTypeOK(d), DbAudited(d), NEW e, EnvelopeTypeOK(e), EnvelopeAudited(e),
           ValidateRestore(e), RestoreAgrees(d, e)
    PROVE  DbAudited(Restored(d, e))
<1> DEFINE aids == AnalysisIds(d, e)
           new == NewAnalyses(d, e)
           next == d.lastAnalysis + Cardinality(new)
           analyses == Merge(d.analyses, new, aids, e.analyses)
           mapped == MappedDeletions(e, aids)
           marks == NewDeletions(d, e, aids)
           audit == d.audit (+) SetToBag(marks)
           r == Restored(d, e)
<1>1. /\ r.projects = [d.projects EXCEPT ![e.project] = e.deleted]
      /\ r.analyses = analyses /\ r.audit = audit
  BY DEF Restored, Database
<1>2. e.project \in Projects /\ DOMAIN d.projects = Projects
  BY DEF EnvelopeTypeOK, DbTypeOK
<1>3. \A p \in Projects : r.projects[p] = IF p = e.project THEN e.deleted ELSE d.projects[p]
  BY <1>1, <1>2
<1>4. d.projects[e.project] \in {Absent, e.deleted}
  BY DEF RestoreAgrees
<1>5. /\ \A x \in DOMAIN analyses : x \in DOMAIN d.analyses \/ \E i \in new : x = aids[i]
      /\ DOMAIN d.analyses \subseteq DOMAIN analyses
      /\ \A i \in new : aids[i] \in DOMAIN analyses
      /\ \A i \in DOMAIN d.analyses : analyses[i] = d.analyses[i]
      /\ \A i \in new : analyses[aids[i]] = e.analyses[i]
  BY RestoredAnalyses
<1>6. ASSUME NEW i \in DOMAIN e.analyses
      PROVE  aids[i] \in DOMAIN analyses /\ analyses[aids[i]] = e.analyses[i]
  <2>1. CASE i \in new
    BY <1>5, <2>1
  <2>2. CASE i \notin new
    <3>1. aids[i] \in DOMAIN d.analyses
      BY <2>2, RestoredAnalysisIds DEF StoredAnalysis, ExistingAnalysis
    <3>2. d.analyses[aids[i]] = e.analyses[i]
      BY <2>2 DEF RestoreAgrees
    <3>3. QED
      BY <1>5, <3>1, <3>2
  <2>3. QED
    BY <2>1, <2>2
<1>7. DOMAIN analyses \subseteq Nat \ {0}
  <2>1. DbTypeOK(r)
    BY RestoreTypeOK
  <2>2. QED
    BY <1>1, <2>1 DEF DbTypeOK, HasRows
<1>8. /\ BagToSet(audit) = BagToSet(d.audit) \cup mapped
      /\ \A x \in BagToSet(audit) : x \in BagToSet(d.audit) \/ audit[x] = 1
      /\ \A x \in BagToSet(d.audit) : audit[x] = d.audit[x]
  <2>1. marks = mapped \ BagToSet(d.audit)
    BY DEF NewDeletions
  <2> HIDE DEF marks, mapped
  <2>2. QED
    BY <2>1, BagPlusSet DEF DbTypeOK
<1>9. \A i \in DOMAIN e.analyses : aids[i] \in Nat \ {0}
  BY <1>6, <1>7
<1> HIDE DEF aids, analyses, mapped, audit, r, new
<1>10. /\ \A x \in mapped : \E y \in BagToSet(e.audit) :
             /\ x.resource = y.resource /\ x.project = y.project /\ x.at = y.at
             /\ x.analysis = IF y.analysis = NoAnalysis THEN NoAnalysis ELSE aids[y.analysis]
       /\ \A y \in BagToSet(e.audit) : \E x \in mapped :
             /\ x.resource = y.resource /\ x.project = y.project /\ x.at = y.at
             /\ x.analysis = IF y.analysis = NoAnalysis THEN NoAnalysis ELSE aids[y.analysis]
  BY <1>9, MappedDeletion DEF mapped
<1>11. ASSUME NEW i \in DOMAIN r.analyses, r.analyses[i].deleted # Live
       PROVE  \E x \in BagToSet(r.audit) : x.resource = "analysis" /\ x.analysis = i
  <2>1. CASE i \in DOMAIN d.analyses
    BY <1>1, <1>5, <1>8, <1>11, <2>1 DEF DbAudited, DbTombstonesAudited
  <2>2. CASE i \notin DOMAIN d.analyses
    <3>1. PICK j \in new : i = aids[j]
      BY <1>1, <1>5, <2>2
    <3>2. j \in DOMAIN e.analyses /\ e.analyses[j].deleted # Live
      BY <1>1, <1>5, <1>11, <3>1 DEF new, NewAnalyses
    <3>3. PICK y \in BagToSet(e.audit) : y.resource = "analysis" /\ y.analysis = j
      BY <3>2 DEF EnvelopeAudited
    <3>4. j # NoAnalysis
      BY <3>2 DEF ValidateRestore, NoAnalysis, EnvelopeTypeOK
    <3>5. QED
      BY <1>1, <1>8, <1>10, <3>1, <3>3, <3>4
  <2>3. QED
    BY <2>1, <2>2
<1>12. ASSUME NEW p \in Projects, r.projects[p] \in Stamps
       PROVE  \E x \in BagToSet(r.audit) : x.resource = "project" /\ x.project = p
  <2>1. CASE p = e.project
    <3>1. PICK y \in BagToSet(e.audit) : y.resource = "project" /\ y.project = p
      BY <1>3, <1>12, <2>1 DEF EnvelopeAudited
    <3>2. QED
      BY <1>1, <1>8, <1>10, <3>1
  <2>2. CASE p # e.project
    BY <1>1, <1>3, <1>8, <1>12, <2>2 DEF DbAudited, DbTombstonesAudited
  <2>3. QED
    BY <2>1, <2>2
<1>13. ASSUME NEW x \in BagToSet(r.audit)
       PROVE  IF x.resource = "project"
              THEN r.projects[x.project] = x.at /\ x.analysis = NoAnalysis
              ELSE /\ x.analysis \in DOMAIN r.analyses
                   /\ r.analyses[x.analysis].project = x.project
                   /\ r.analyses[x.analysis].deleted = x.at
  <2>1. CASE x \in BagToSet(d.audit)
    <3>1. x.project \in Projects /\ x.at \in Stamps
      BY <2>1 DEF DbTypeOK, Audits
    <3>2. CASE x.resource = "project"
      <4>1. d.projects[x.project] = x.at /\ x.analysis = NoAnalysis
        BY <2>1, <3>2 DEF DbAudited, DbTombstonesAudited
      <4>2. r.projects[x.project] = d.projects[x.project]
        BY <1>3, <1>4, <3>1, <4>1, SentinelAssumption
      <4>3. QED
        BY <3>2, <4>1, <4>2
    <3>3. CASE x.resource # "project"
      BY <1>1, <1>5, <2>1, <3>3 DEF DbAudited, DbTombstonesAudited
    <3>4. QED
      BY <3>2, <3>3
  <2>2. CASE x \in mapped
    <3>1. PICK y \in BagToSet(e.audit) :
             /\ x.resource = y.resource /\ x.project = y.project /\ x.at = y.at
             /\ x.analysis = IF y.analysis = NoAnalysis THEN NoAnalysis ELSE aids[y.analysis]
      BY <1>10, <2>2
    <3>2. y.project = e.project
      BY DEF EnvelopeAudited
    <3>3. CASE y.resource = "project"
      BY <1>2, <1>3, <3>1, <3>2, <3>3 DEF EnvelopeAudited
    <3>4. CASE y.resource # "project"
      <4>1. /\ y.analysis \in DOMAIN e.analyses /\ e.analyses[y.analysis].deleted = y.at
            /\ e.analyses[y.analysis].project = e.project
        BY <3>4 DEF EnvelopeAudited
      <4>2. y.analysis # NoAnalysis
        BY <4>1 DEF ValidateRestore, NoAnalysis, EnvelopeTypeOK
      <4>3. QED
        BY <1>1, <1>6, <3>1, <3>2, <3>4, <4>1, <4>2
    <3>5. QED
      BY <3>3, <3>4
  <2>3. QED
    BY <1>1, <1>8, <2>1, <2>2
<1>14. \A x \in BagToSet(r.audit) : r.audit[x] = 1
  BY <1>1, <1>8 DEF DbAudited
<1>15. QED
  BY <1>11, <1>12, <1>13, <1>14 DEF DbAudited, DbTombstonesAudited, r

-----------------------------------------------------------------------------
(* A step that writes one database keeps the invariant if the new contents   *)
(* are audited.                                                              *)
LEMMA OneStoreAudited ==
    ASSUME AuditInv, TypeOK', NEW s \in Stores, NEW e, DbAudited(e),
           db' = [db EXCEPT ![s] = e], UNCHANGED backups
    PROVE  AuditInv'
BY DEF AuditInv, TypeOK

(* Every step keeps the audit invariant. *)
LEMMA AuditInductive ==
    ASSUME AuditInv, [Next]_vars
    PROVE  AuditInv'
<1>0. TypeOK /\ TypeOK'
  BY TypeInductive DEF AuditInv
<1>1. ASSUME NEW s \in Stores, NEW p \in Projects, NEW b \in Branches,
             NEW c \in Commits, NEW rep \in Reports, IngestAnalysis(s, p, b, c, rep)
      PROVE  AuditInv'
  <2>1. DbAudited(InsertAnalysisRows(db[s], p, b, c, rep))
    BY IngestAudited DEF AuditInv, TypeOK
  <2>2. QED
    BY <1>0, <1>1, <2>1, OneStoreAudited DEF IngestAnalysis
<1>2. ASSUME NEW s \in Stores, Review(s)
      PROVE  AuditInv'
  <2>1. PICK p \in Projects, identity \in Identities, kind \in Kinds,
             state \in RequestedStates, by \in Actors, at \in Stamps,
             a \in DOMAIN db[s].analyses, expected \in 0 .. MaxVersion :
             ApplyReview(s, p, a, identity, kind, state, expected, by, at)
    BY <1>2 DEF Review
  <2>2. DbAudited(WriteReview(db[s], p, a, identity, kind, state, by, at))
    BY ReviewAudited DEF AuditInv
  <2>3. QED
    BY <1>0, <2>1, <2>2, OneStoreAudited DEF ApplyReview
<1>3. ASSUME NEW s \in Stores, Delete(s)
      PROVE  AuditInv'
  <2>1. PICK p \in Projects, by \in Actors, at \in Stamps :
             \/ \E a \in DOMAIN db[s].analyses : DeleteAnalysis(s, p, a, by, at)
             \/ DeleteProject(s, p, by, at)
    BY <1>3 DEF Delete
  <2>2. ASSUME NEW a \in DOMAIN db[s].analyses, DeleteAnalysis(s, p, a, by, at)
        PROVE  AuditInv'
    <3>1. DbAudited(Tombstone(db[s], p, {a}, "delete", by, at))
      BY <2>2, TombstoneAudited DEF DeleteAnalysis, AuditInv, TypeOK
    <3>2. QED
      BY <1>0, <2>2, <3>1, OneStoreAudited DEF DeleteAnalysis
  <2>3. ASSUME DeleteProject(s, p, by, at)
        PROVE  AuditInv'
    <3>1. DbAudited(TombstoneProject(db[s], p, by, at))
      BY <2>3, TombstoneProjectAudited DEF DeleteProject, AuditInv, TypeOK
    <3>2. QED
      BY <1>0, <2>3, <3>1, OneStoreAudited DEF DeleteProject
  <2>4. QED
    BY <2>1, <2>2, <2>3
<1>4. ASSUME NEW s \in Stores, Retain(s)
      PROVE  AuditInv'
  <2>1. PICK p \in Projects, by \in Actors, at \in Stamps,
             before \in {EpochOf[rep] + 1 : rep \in Reports},
             branch \in Branches \cup {AnyBranch} :
             ApplyRetention(s, p, before, branch, by, at)
    BY <1>4 DEF Retain
  <2> DEFINE ids == RetentionTargets(db[s], p, before, branch)
  <2>2. /\ ids \subseteq DOMAIN db[s].analyses
        /\ \A i \in ids : db[s].analyses[i].project = p /\ db[s].analyses[i].deleted = Live
    BY DEF RetentionTargets
  <2> HIDE DEF ids
  <2>3. DbAudited(Tombstone(db[s], p, ids, "retention", by, at))
    BY <2>2, TombstoneAudited DEF AuditInv, TypeOK
  <2>4. QED
    BY <1>0, <2>1, <2>3, OneStoreAudited DEF ApplyRetention, ids
<1>5. ASSUME NEW s \in Stores, NEW p \in Projects, ExportProject(s, p)
      PROVE  AuditInv'
  <2>1. EnvelopeAudited(Envelope(db[s], p))
    BY ExportAudited DEF AuditInv, TypeOK
  <2>2. QED
    BY <1>0, <1>5, <2>1 DEF ExportProject, AuditInv
<1>6. ASSUME NEW s \in Stores, NEW backup \in backups, Restore(s, backup)
      PROVE  AuditInv'
  <2>1. DbAudited(Restored(db[s], backup.envelope))
    BY <1>6, RestoreAudited DEF Restore, AuditInv, TypeOK
  <2>2. QED
    BY <1>0, <1>6, <2>1, OneStoreAudited DEF Restore
<1>7. ASSUME UNCHANGED vars
      PROVE  AuditInv'
  BY <1>0, <1>7 DEF AuditInv, vars
<1>8. QED
  BY <1>1, <1>2, <1>3, <1>4, <1>5, <1>6, <1>7 DEF Next

(* The audit invariant holds in every reachable state. *)
LEMMA AuditInvariant == Spec => []AuditInv
<1>1. Init => AuditInv
  BY EmptyDbTypeOK, EmptyDbAudited DEF Init, TypeOK, AuditInv
<1>2. AuditInv /\ [Next]_vars => AuditInv'
  BY AuditInductive
<1>3. QED
  BY <1>1, <1>2, PTL DEF Spec

(* A project or an analysis has a tombstone if and only if the deletion      *)
(* audit names it, with the stamp of the tombstone, also after restores of   *)
(* other databases' backups have given the rows new ids.                     *)
THEOREM TombstonesAreAudited == Spec => []TombstonesAudited
<1>1. AuditInv => TombstonesAudited
  BY DEF AuditInv, DbAudited, TombstonesAudited
<1>2. QED
  BY <1>1, AuditInvariant, PTL

(* However often a backup is restored, no deletion is audited twice. *)
THEOREM DeletionsAuditedOnce == Spec => []AuditedOnce
<1>1. AuditInv => AuditedOnce
  BY DEF AuditInv, DbAudited, AuditedOnce
<1>2. QED
  BY <1>1, AuditInvariant, PTL

-----------------------------------------------------------------------------
(* Reviews and their history in ServiceStore.  The constraints of the schema *)
(* are not inductive on their own: a restore keeps them only because the     *)
(* envelope satisfies them too, and because the history of a review is       *)
(* complete, so that a restored review either is new with all its history or *)
(* adds nothing to the history at hand.                                      *)
(* The tables of a database, or of an envelope, agree with each other. *)
UniqueRows(d) ==
    /\ \A i, j \in DOMAIN d.analyses :
          /\ d.analyses[i].project = d.analyses[j].project
          /\ d.analyses[i].branch = d.analyses[j].branch
          /\ d.analyses[i].commit = d.analyses[j].commit
          => i = j
    /\ \A i, j \in DOMAIN d.reviews :
          /\ d.reviews[i].project = d.reviews[j].project
          /\ d.reviews[i].branch = d.reviews[j].branch
          /\ d.reviews[i].identity = d.reviews[j].identity
          /\ d.reviews[i].kind = d.reviews[j].kind
          => i = j
    /\ \A g, h \in d.history : g.review = h.review /\ g.version = h.version => g = h

ReferencesHold(d) ==
    /\ \A i \in DOMAIN d.reviews :
          /\ d.reviews[i].version > 0
          /\ d.reviews[i].analysis \in DOMAIN d.analyses
          /\ d.analyses[d.reviews[i].analysis].project = d.reviews[i].project
          /\ d.analyses[d.reviews[i].analysis].branch = d.reviews[i].branch
    /\ \A h \in d.history :
          /\ h.review \in DOMAIN d.reviews
          /\ h.analysis \in DOMAIN d.analyses
          /\ d.analyses[h.analysis].project = d.reviews[h.review].project
          /\ d.analyses[h.analysis].branch = d.reviews[h.review].branch

ProjectsDeleted(d) ==
    \A r \in BagToSet(d.audit) : r.resource = "project" => r.action = "delete"

RowsConsistent(d) ==
    /\ UniqueRows(d)
    /\ ReferencesHold(d)
    /\ DbHistoryComplete(d)
    /\ DbReviewable(d)
    /\ ProjectsDeleted(d)

DbConsistent(d) ==
    /\ RowsConsistent(d)
    /\ \A i \in DOMAIN d.analyses : d.projects[d.analyses[i].project] # Absent

EnvelopeConsistent(e) ==
    /\ RowsConsistent(e)
    /\ \A i \in DOMAIN e.analyses : i > 0 /\ e.analyses[i].project = e.project
    /\ \A i \in DOMAIN e.reviews : i > 0 /\ e.reviews[i].project = e.project

ReviewInv ==
    /\ AuditInv
    /\ \A s \in Stores : DbConsistent(db[s])
    /\ \A x \in backups : EnvelopeConsistent(x.envelope)

-----------------------------------------------------------------------------
(* A new database is consistent. *)
LEMMA EmptyDbConsistent == DbConsistent(EmptyDb)
BY DEF DbConsistent, RowsConsistent, UniqueRows, ReferencesHold, DbHistoryComplete,
   DbReviewable, ProjectsDeleted, EmptyDb, Database, NoRows, BagToSet, EmptyBag, SetToBag

(* What an ingest makes of d. *)
Ingested(d, e, p, b, c, rep) ==
    LET id == d.lastAnalysis + 1
    IN  /\ id \notin DOMAIN d.analyses
        /\ DOMAIN e.analyses = DOMAIN d.analyses \cup {id}
        /\ \A i \in DOMAIN d.analyses : e.analyses[i] = d.analyses[i]
        /\ e.analyses[id] = [project |-> p, branch |-> b, commit |-> c,
                             report |-> rep, deleted |-> Live]
        /\ e.reviews = d.reviews /\ e.history = d.history /\ e.audit = d.audit
        /\ \A q \in Projects :
              e.projects[q] = IF q = p /\ d.projects[q] = Absent THEN Live ELSE d.projects[q]

(* An ingest adds one analysis, and the project if it has no row. *)
LEMMA IngestTables ==
    ASSUME NEW d, DbTypeOK(d), NEW p \in Projects, NEW b \in Branches,
           NEW c \in Commits, NEW rep \in Reports
    PROVE  Ingested(d, InsertAnalysisRows(d, p, b, c, rep), p, b, c, rep)
<1> DEFINE id == d.lastAnalysis + 1
           row == [project |-> p, branch |-> b, commit |-> c,
                   report |-> rep, deleted |-> Live]
           analyses == Insert(d.analyses, id, row)
           projects == [d.projects EXCEPT ![p] = IF @ = Absent THEN Live ELSE @]
           e == InsertAnalysisRows(d, p, b, c, rep)
<1>1. id \notin DOMAIN d.analyses
  BY DEF DbTypeOK, HasRows
<1>2. /\ e.analyses = analyses /\ e.projects = projects
      /\ e.reviews = d.reviews /\ e.history = d.history /\ e.audit = d.audit
  BY DEF InsertAnalysisRows, Database
<1>3. /\ DOMAIN analyses = DOMAIN d.analyses \cup {id}
      /\ \A i \in DOMAIN d.analyses : analyses[i] = d.analyses[i]
      /\ analyses[id] = row
  <2> HIDE DEF row, id
  <2>1. QED
    BY <1>1 DEF Insert, id
<1>4. \A q \in Projects : projects[q] = IF q = p /\ d.projects[q] = Absent
                                        THEN Live ELSE d.projects[q]
  <2>1. DOMAIN d.projects = Projects
    BY DEF DbTypeOK
  <2>2. QED
    BY <2>1, Zenon
<1> HIDE DEF analyses, projects, e, id, row
<1>5. QED
  BY <1>1, <1>2, <1>3, <1>4 DEF id, row, e, Ingested

(* An ingest stores a commit that the branch does not have. *)
LEMMA IngestConsistent ==
    ASSUME NEW d, DbTypeOK(d), DbConsistent(d), NEW p \in Projects, NEW b \in Branches,
           NEW c \in Commits, NEW rep \in Reports,
           IngestOutcome(d, p, b, c, rep) = "created"
    PROVE  DbConsistent(InsertAnalysisRows(d, p, b, c, rep))
<1> DEFINE id == d.lastAnalysis + 1
           row == [project |-> p, branch |-> b, commit |-> c,
                   report |-> rep, deleted |-> Live]
           e == InsertAnalysisRows(d, p, b, c, rep)
<1>1. /\ id \notin DOMAIN d.analyses
      /\ DOMAIN e.analyses = DOMAIN d.analyses \cup {id}
      /\ \A i \in DOMAIN d.analyses : e.analyses[i] = d.analyses[i]
      /\ e.analyses[id] = row
      /\ e.reviews = d.reviews /\ e.history = d.history /\ e.audit = d.audit
      /\ \A q \in Projects : e.projects[q] = IF q = p /\ d.projects[q] = Absent
                                             THEN Live ELSE d.projects[q]
  <2>1. Ingested(d, e, p, b, c, rep)
    BY IngestTables
  <2>2. QED
    BY <2>1 DEF Ingested
<1>2. ExistingAnalysis(d, p, b, c) = {}
  BY DEF IngestOutcome
<1>3. \A i \in DOMAIN d.analyses :
         ~(d.analyses[i].project = p /\ d.analyses[i].branch = b /\ d.analyses[i].commit = c)
  BY <1>2 DEF ExistingAnalysis
<1>4. row.project = p /\ row.branch = b /\ row.commit = c
  OBVIOUS
<1>5. \A i \in DOMAIN d.analyses : d.analyses[i].project \in Projects
  BY DEF DbTypeOK, HasRows, Analyses
<1> HIDE DEF id, row, e
<1>6. UniqueRows(e)
  BY <1>1, <1>3, <1>4 DEF UniqueRows, DbConsistent, RowsConsistent
<1>7. ReferencesHold(e)
  BY <1>1 DEF ReferencesHold, DbConsistent, RowsConsistent
<1>8. DbHistoryComplete(e) /\ ProjectsDeleted(e)
  BY <1>1 DEF DbHistoryComplete, ProjectsDeleted, DbConsistent, RowsConsistent
<1>9. DbReviewable(e)
  BY <1>1 DEF DbReviewable, ReferencesHold, DbConsistent, RowsConsistent
<1>10. \A i \in DOMAIN e.analyses : e.projects[e.analyses[i].project] # Absent
  <2>1. d.projects[p] # Live => d.projects[p] \in Stamps \cup {Absent}
    BY DEF DbTypeOK
  <2>2. ASSUME NEW i \in DOMAIN d.analyses
        PROVE  e.projects[e.analyses[i].project] # Absent
    BY <1>1, <1>5, SentinelAssumption DEF DbConsistent
  <2>3. e.projects[e.analyses[id].project] # Absent
    BY <1>1, <1>4, SentinelAssumption
  <2>4. QED
    BY <1>1, <2>2, <2>3
<1>11. QED
  BY <1>6, <1>7, <1>8, <1>9, <1>10 DEF DbConsistent, RowsConsistent, e

(* What a deletion or retention of ids makes of d. *)
Tombstoned(d, e, ids, at) ==
    /\ e.projects = d.projects /\ e.reviews = d.reviews /\ e.history = d.history
    /\ DOMAIN e.analyses = DOMAIN d.analyses
    /\ \A i \in DOMAIN d.analyses \ ids : e.analyses[i] = d.analyses[i]
    /\ \A i \in DOMAIN d.analyses :
          /\ e.analyses[i].project = d.analyses[i].project
          /\ e.analyses[i].branch = d.analyses[i].branch
          /\ e.analyses[i].commit = d.analyses[i].commit
          /\ e.analyses[i].report = d.analyses[i].report
    /\ \A i \in ids : e.analyses[i].deleted = at
    /\ BagToSet(d.audit) \subseteq BagToSet(e.audit)
    /\ \A r \in BagToSet(e.audit) : r \in BagToSet(d.audit) \/ r.resource = "analysis"

(* Deletion and retention mark the analyses and nothing else. *)
LEMMA TombstoneTables ==
    ASSUME NEW d, DbTypeOK(d), NEW p \in Projects, NEW ids, ids \subseteq DOMAIN d.analyses,
           NEW action \in {"delete", "retention"}, NEW by \in Actors, NEW at \in Stamps
    PROVE  Tombstoned(d, Tombstone(d, p, ids, action, by, at), ids, at)
<1> DEFINE rows == [i \in DOMAIN d.analyses |->
                       IF i \in ids THEN [d.analyses[i] EXCEPT !.deleted = at]
                                    ELSE d.analyses[i]]
           marks == {Deletion(p, "analysis", i, action, by, at) : i \in ids}
           audit == d.audit (+) SetToBag(marks)
           e == Tombstone(d, p, ids, action, by, at)
<1>1. /\ e.projects = d.projects /\ e.reviews = d.reviews /\ e.history = d.history
      /\ e.analyses = rows /\ e.audit = audit
  BY Zenon DEF Tombstone, Database
<1>2. /\ DOMAIN rows = DOMAIN d.analyses
      /\ \A i \in DOMAIN d.analyses \ ids : rows[i] = d.analyses[i]
      /\ \A i \in ids : rows[i] = [d.analyses[i] EXCEPT !.deleted = at]
  BY Zenon
<1>3. \A i \in DOMAIN d.analyses : d.analyses[i] \in Analyses
  BY DEF DbTypeOK, HasRows
<1>4. \A r \in Analyses : LET t == [r EXCEPT !.deleted = at]
                          IN  /\ t.project = r.project /\ t.branch = r.branch
                              /\ t.commit = r.commit /\ t.report = r.report /\ t.deleted = at
  BY Zenon DEF Analyses
<1>5. \A r \in marks : r.resource = "analysis"
  BY DEF Deletion
<1> HIDE DEF rows, marks, e
<1>6. BagToSet(audit) = BagToSet(d.audit) \cup marks
  BY BagPlusSet DEF DbTypeOK
<1> HIDE DEF audit
<1>7. ASSUME NEW i \in ids
      PROVE  /\ rows[i].project = d.analyses[i].project /\ rows[i].branch = d.analyses[i].branch
             /\ rows[i].commit = d.analyses[i].commit /\ rows[i].report = d.analyses[i].report
             /\ rows[i].deleted = at
  <2>1. rows[i] = [d.analyses[i] EXCEPT !.deleted = at] /\ d.analyses[i] \in Analyses
    BY <1>2, <1>3
  <2>2. QED
    BY <1>4, <2>1, Zenon
<1>8. QED
  BY <1>1, <1>2, <1>5, <1>6, <1>7 DEF e, Tombstoned

(* Tombstones leave reviews and their history alone. *)
LEMMA TombstoneConsistent ==
    ASSUME NEW d, DbTypeOK(d), DbConsistent(d), NEW p \in Projects,
           NEW ids, ids \subseteq DOMAIN d.analyses,
           NEW action \in {"delete", "retention"}, NEW by \in Actors, NEW at \in Stamps
    PROVE  DbConsistent(Tombstone(d, p, ids, action, by, at))
<1> DEFINE e == Tombstone(d, p, ids, action, by, at)
<1>1. Tombstoned(d, e, ids, at)
  BY TombstoneTables
<1> HIDE DEF e
<1>2. UniqueRows(e)
  BY <1>1 DEF Tombstoned, UniqueRows, DbConsistent, RowsConsistent
<1>3. ReferencesHold(e)
  BY <1>1 DEF Tombstoned, ReferencesHold, DbConsistent, RowsConsistent
<1>4. DbHistoryComplete(e) /\ ProjectsDeleted(e)
  BY <1>1 DEF Tombstoned, DbHistoryComplete, ProjectsDeleted, DbConsistent, RowsConsistent
<1>5. DbReviewable(e)
  BY <1>1 DEF Tombstoned, DbReviewable, ReferencesHold, DbConsistent, RowsConsistent
<1>6. QED
  BY <1>1, <1>2, <1>3, <1>4, <1>5 DEF Tombstoned, DbConsistent, RowsConsistent, e

(* What deleting a project does to the tables. *)
LEMMA TombstoneProjectTables ==
    ASSUME NEW d, DbTypeOK(d), NEW p \in Projects, NEW by \in Actors, NEW at \in Stamps
    PROVE  LET e == TombstoneProject(d, p, by, at)
           IN  /\ \A q \in Projects : e.projects[q] = IF q = p THEN at ELSE d.projects[q]
               /\ e.analyses = d.analyses /\ e.reviews = d.reviews /\ e.history = d.history
               /\ BagToSet(d.audit) \subseteq BagToSet(e.audit)
               /\ \A r \in BagToSet(e.audit) : r \in BagToSet(d.audit) \/ r.action = "delete"
<1> DEFINE mark == Deletion(p, "project", NoAnalysis, "delete", by, at)
           marks == {mark}
           audit == d.audit (+) SetToBag(marks)
           e == TombstoneProject(d, p, by, at)
<1>1. /\ e.projects = [d.projects EXCEPT ![p] = at] /\ e.audit = audit
      /\ e.analyses = d.analyses /\ e.reviews = d.reviews /\ e.history = d.history
  BY DEF TombstoneProject, Database
<1>2. mark.action = "delete"
  BY DEF Deletion
<1>3. \A q \in Projects : e.projects[q] = IF q = p THEN at ELSE d.projects[q]
  <2>1. DOMAIN d.projects = Projects
    BY DEF DbTypeOK
  <2> HIDE DEF e, audit
  <2>2. QED
    BY <1>1, <2>1
<1> HIDE DEF mark, e
<1>4. BagToSet(audit) = BagToSet(d.audit) \cup marks
  BY BagPlusSet DEF DbTypeOK
<1> HIDE DEF audit
<1>5. QED
  BY <1>1, <1>2, <1>3, <1>4 DEF e

(* Deleting a project leaves its rows alone. *)
LEMMA TombstoneProjectConsistent ==
    ASSUME NEW d, DbTypeOK(d), DbConsistent(d), NEW p \in Projects,
           NEW by \in Actors, NEW at \in Stamps
    PROVE  DbConsistent(TombstoneProject(d, p, by, at))
<1> DEFINE e == TombstoneProject(d, p, by, at)
<1>1. /\ \A q \in Projects : e.projects[q] = IF q = p THEN at ELSE d.projects[q]
      /\ e.analyses = d.analyses /\ e.reviews = d.reviews /\ e.history = d.history
      /\ \A r \in BagToSet(e.audit) : r \in BagToSet(d.audit) \/ r.action = "delete"
  BY TombstoneProjectTables
<1>2. \A i \in DOMAIN d.analyses : d.analyses[i].project \in Projects
  BY DEF DbTypeOK, HasRows, Analyses
<1> HIDE DEF e
<1>3. UniqueRows(e) /\ ReferencesHold(e)
  BY <1>1 DEF UniqueRows, ReferencesHold, DbConsistent, RowsConsistent
<1>4. DbHistoryComplete(e) /\ DbReviewable(e)
  BY <1>1 DEF DbHistoryComplete, DbReviewable, DbConsistent, RowsConsistent
<1>5. ProjectsDeleted(e)
  BY <1>1 DEF ProjectsDeleted, DbConsistent, RowsConsistent
<1>6. \A i \in DOMAIN e.analyses : e.projects[e.analyses[i].project] # Absent
  BY <1>1, <1>2, SentinelAssumption DEF DbConsistent
<1>7. QED
  BY <1>3, <1>4, <1>5, <1>6 DEF DbConsistent, RowsConsistent, e

(* Two analyses that differ in their tombstones only. *)
LEMMA OnlyDeletedDiffers ==
    ASSUME NEW r \in Analyses, NEW t \in Analyses, r.project = t.project,
           r.branch = t.branch, r.commit = t.commit, r.report = t.report
    PROVE  t = [r EXCEPT !.deleted = t.deleted]
BY DEF Analyses

(* What an accepted review makes of d: the row id is written and the entry   *)
(* is appended to the history.                                               *)
ReviewWritten(d, e, p, a, identity, kind, state, id, entry) ==
    /\ e.projects = d.projects /\ e.analyses = d.analyses /\ e.audit = d.audit
    /\ DOMAIN e.reviews = DOMAIN d.reviews \cup {id}
    /\ \A i \in DOMAIN d.reviews \ {id} : e.reviews[i] = d.reviews[i]
    /\ e.history = d.history \cup {entry}
    /\ e.reviews[id].project = p /\ e.reviews[id].branch = d.analyses[a].branch
    /\ e.reviews[id].analysis = a /\ e.reviews[id].state = state
    /\ e.reviews[id].identity = identity /\ e.reviews[id].kind = kind
    /\ entry.review = id /\ entry.analysis = a /\ entry.new = state
    /\ entry.identity = identity /\ entry.kind = kind
    /\ entry.version = e.reviews[id].version
    /\ entry.by = e.reviews[id].by /\ entry.at = e.reviews[id].at
    /\ IF id \in DOMAIN d.reviews
       THEN /\ d.reviews[id].project = p /\ d.reviews[id].branch = d.analyses[a].branch
            /\ d.reviews[id].identity = identity /\ d.reviews[id].kind = kind
            /\ entry.version = d.reviews[id].version + 1
            /\ entry.previous = d.reviews[id].state
       ELSE /\ \A i \in DOMAIN d.reviews :
                  ~(/\ d.reviews[i].project = p /\ d.reviews[i].branch = d.analyses[a].branch
                    /\ d.reviews[i].identity = identity /\ d.reviews[i].kind = kind)
            /\ entry.version = 1 /\ entry.previous = NoState
    /\ ValidTransition(kind, entry.previous, state)

(* An accepted review writes the review of its branch, identity and kind. *)
LEMMA ReviewTables ==
    ASSUME NEW d, DbTypeOK(d), NEW p \in Projects, NEW a, a \in DOMAIN d.analyses,
           NEW identity \in Identities, NEW kind \in Kinds, NEW state \in ReviewStates,
           NEW expected, NEW by \in Actors, NEW at \in Stamps,
           ReviewAccepted(d, p, a, identity, kind, state, expected)
    PROVE  \E id, entry : ReviewWritten(d, WriteReview(d, p, a, identity, kind, state, by, at),
                                        p, a, identity, kind, state, id, entry)
<1> DEFINE branch == d.analyses[a].branch
           existing == ExistingReview(d, p, branch, identity, kind)
           old == CHOOSE i \in existing : TRUE
           id == IF existing = {} THEN d.lastReview + 1 ELSE old
           version == CurrentVersion(d, existing) + 1
           previous == CurrentState(d, existing)
           review == [project |-> p, branch |-> branch, analysis |-> a,
                      identity |-> identity, kind |-> kind, state |-> state,
                      version |-> version, by |-> by, at |-> at]
           entry == [review |-> id, analysis |-> a, identity |-> identity,
                     kind |-> kind, previous |-> previous,
                     new |-> state, by |-> by, at |-> at, version |-> version]
           reviews == Insert(d.reviews, id, review)
           e == WriteReview(d, p, a, identity, kind, state, by, at)
<1>1. /\ e.projects = d.projects /\ e.analyses = d.analyses /\ e.audit = d.audit
      /\ e.reviews = reviews /\ e.history = d.history \cup {entry}
  BY DEF WriteReview, Database
<1>2. ValidTransition(kind, previous, state)
  BY DEF ReviewAccepted
<1>3. CASE existing = {}
  <2>1. /\ id = d.lastReview + 1 /\ version = 1 /\ previous = NoState
    BY <1>3 DEF CurrentVersion, CurrentState
  <2>2. id \notin DOMAIN d.reviews
    BY <2>1 DEF DbTypeOK, HasRows
  <2>3. \A i \in DOMAIN d.reviews :
           ~(/\ d.reviews[i].project = p /\ d.reviews[i].branch = branch
             /\ d.reviews[i].identity = identity /\ d.reviews[i].kind = kind)
    BY <1>3 DEF ExistingReview
  <2>4. /\ review.project = p /\ review.branch = branch /\ review.analysis = a
        /\ review.state = state /\ review.identity = identity /\ review.kind = kind
        /\ review.version = version /\ review.by = by /\ review.at = at
    OBVIOUS
  <2>5. /\ entry.review = id /\ entry.analysis = a /\ entry.new = state
        /\ entry.identity = identity /\ entry.kind = kind /\ entry.previous = previous
        /\ entry.version = version /\ entry.by = by /\ entry.at = at
    OBVIOUS
  <2> HIDE DEF id, version, previous, existing, review, entry, e
  <2>6. /\ DOMAIN reviews = DOMAIN d.reviews \cup {id}
        /\ \A i \in DOMAIN d.reviews \ {id} : reviews[i] = d.reviews[i]
        /\ reviews[id] = review
    BY DEF Insert
  <2> HIDE DEF reviews
  <2>7. ReviewWritten(d, e, p, a, identity, kind, state, id, entry)
    BY <1>1, <1>2, <2>1, <2>2, <2>3, <2>4, <2>5, <2>6 DEF ReviewWritten
  <2>8. QED
    BY <2>7 DEF e
<1>4. CASE existing # {}
  <2>1. /\ id = old /\ version = d.reviews[id].version + 1 /\ previous = d.reviews[id].state
    BY <1>4 DEF CurrentVersion, CurrentState
  <2>2. id \in existing
    BY <1>4
  <2>3. /\ id \in DOMAIN d.reviews
        /\ d.reviews[id].project = p /\ d.reviews[id].branch = branch
        /\ d.reviews[id].identity = identity /\ d.reviews[id].kind = kind
    BY <2>2 DEF ExistingReview
  <2>4. /\ review.project = p /\ review.branch = branch /\ review.analysis = a
        /\ review.state = state /\ review.identity = identity /\ review.kind = kind
        /\ review.version = version /\ review.by = by /\ review.at = at
    OBVIOUS
  <2>5. /\ entry.review = id /\ entry.analysis = a /\ entry.new = state
        /\ entry.identity = identity /\ entry.kind = kind /\ entry.previous = previous
        /\ entry.version = version /\ entry.by = by /\ entry.at = at
    OBVIOUS
  <2> HIDE DEF id, version, previous, existing, review, entry, e
  <2>6. /\ DOMAIN reviews = DOMAIN d.reviews \cup {id}
        /\ \A i \in DOMAIN d.reviews \ {id} : reviews[i] = d.reviews[i]
        /\ reviews[id] = review
    BY DEF Insert
  <2> HIDE DEF reviews
  <2>7. ReviewWritten(d, e, p, a, identity, kind, state, id, entry)
    BY <1>1, <1>2, <2>1, <2>3, <2>4, <2>5, <2>6 DEF ReviewWritten
  <2>8. QED
    BY <2>7 DEF e
<1>5. QED
  BY <1>3, <1>4

(* An accepted review continues the history of its review. *)
LEMMA ReviewConsistent ==
    ASSUME NEW d, DbTypeOK(d), DbConsistent(d), NEW p \in Projects, NEW a, a \in DOMAIN d.analyses,
           NEW identity \in Identities, NEW kind \in Kinds, NEW state \in ReviewStates,
           NEW expected, NEW by \in Actors, NEW at \in Stamps,
           ReviewAccepted(d, p, a, identity, kind, state, expected)
    PROVE  DbConsistent(WriteReview(d, p, a, identity, kind, state, by, at))
<1> DEFINE e == WriteReview(d, p, a, identity, kind, state, by, at)
<1>1. PICK id, entry : ReviewWritten(d, e, p, a, identity, kind, state, id, entry)
  BY ReviewTables
<1>2. /\ d.analyses[a].project = p
      /\ Reviewable(d.analyses[a].report, identity, kind)
  BY DEF ReviewAccepted, ReviewTarget
<1>3. \A i \in DOMAIN d.reviews : d.reviews[i].version \in Nat /\ d.reviews[i].state # NoState
  BY SentinelAssumption DEF DbTypeOK, HasRows, Reviews
<1>4. \A h \in d.history : h.version \in Nat
  BY DEF DbTypeOK, Histories
<1>5. /\ UniqueRows(d) /\ ReferencesHold(d) /\ DbHistoryComplete(d)
      /\ DbReviewable(d) /\ ProjectsDeleted(d)
  BY DEF DbConsistent, RowsConsistent
<1> HIDE DEF e
<1>6. ASSUME NEW h \in d.history, h.review = id
      PROVE  id \in DOMAIN d.reviews /\ h.version <= d.reviews[id].version
  BY <1>3, <1>4, <1>5, <1>6 DEF ReferencesHold, DbHistoryComplete
<1>7. entry.version \in Nat /\ entry.version > 0
  BY <1>1, <1>3 DEF ReviewWritten
<1>8. UniqueRows(e)
  <2>1. \A i, j \in DOMAIN e.analyses :
          /\ e.analyses[i].project = e.analyses[j].project
          /\ e.analyses[i].branch = e.analyses[j].branch
          /\ e.analyses[i].commit = e.analyses[j].commit
          => i = j
    BY <1>1, <1>5 DEF UniqueRows, ReviewWritten
  <2>2. \A i, j \in DOMAIN e.reviews :
          /\ e.reviews[i].project = e.reviews[j].project
          /\ e.reviews[i].branch = e.reviews[j].branch
          /\ e.reviews[i].identity = e.reviews[j].identity
          /\ e.reviews[i].kind = e.reviews[j].kind
          => i = j
    BY <1>1, <1>5 DEF UniqueRows, ReviewWritten
  <2>3. \A h \in d.history : ~(h.review = entry.review /\ h.version = entry.version)
    BY <1>1, <1>3, <1>4, <1>6 DEF ReviewWritten
  <2>4. \A g, h \in e.history : g.review = h.review /\ g.version = h.version => g = h
    BY <1>1, <1>5, <2>3 DEF UniqueRows, ReviewWritten
  <2>5. QED
    BY <2>1, <2>2, <2>4 DEF UniqueRows
<1>9. ReferencesHold(e)
  BY <1>1, <1>2, <1>5, <1>7 DEF ReferencesHold, ReviewWritten
<1>10. DbHistoryComplete(e)
  <2>1. ASSUME NEW i \in DOMAIN e.reviews, NEW v \in 1 .. e.reviews[i].version
        PROVE  \E h \in e.history : h.review = i /\ h.version = v
    <3>1. CASE i # id
      BY <1>1, <1>5, <3>1 DEF DbHistoryComplete, ReviewWritten
    <3>2. CASE i = id /\ v = entry.version
      BY <1>1, <3>2 DEF ReviewWritten
    <3>3. CASE i = id /\ v # entry.version
      <4>1. id \in DOMAIN d.reviews /\ v \in 1 .. d.reviews[id].version
        BY <1>1, <1>3, <3>3 DEF ReviewWritten
      <4>2. QED
        BY <1>1, <1>5, <3>3, <4>1 DEF DbHistoryComplete, ReviewWritten
    <3>4. QED
      BY <3>1, <3>2, <3>3
  <2> DEFINE fits(h) ==
               LET r == e.reviews[h.review] IN
               /\ h.version \in 1 .. r.version
               /\ h.identity = r.identity /\ h.kind = r.kind
               /\ ValidTransition(h.kind, h.previous, h.new)
               /\ h.version = 1 <=> h.previous = NoState
               /\ \A g \in e.history :
                     g.review = h.review /\ g.version = h.version + 1 => g.previous = h.new
               /\ h.version = r.version =>
                     <<h.analysis, h.new, h.by, h.at>> = <<r.analysis, r.state, r.by, r.at>>
  <2>2. ASSUME NEW h \in d.history, h.review # id
        PROVE  fits(h)
    BY <1>1, <1>5, <2>2 DEF DbHistoryComplete, ReferencesHold, ReviewWritten
  <2>3. ASSUME NEW h \in d.history, h.review = id
        PROVE  fits(h)
    <3>1. /\ id \in DOMAIN d.reviews
          /\ e.reviews[id].version = d.reviews[id].version + 1
          /\ h.version \in 1 .. d.reviews[id].version
          /\ d.reviews[id].version \in Nat
      BY <1>1, <1>3, <1>5, <1>6, <2>3 DEF DbHistoryComplete, ReviewWritten
    <3>2. /\ h.version \in 1 .. e.reviews[id].version /\ h.version # e.reviews[id].version
          /\ h.identity = e.reviews[id].identity /\ h.kind = e.reviews[id].kind
          /\ ValidTransition(h.kind, h.previous, h.new)
          /\ h.version = 1 <=> h.previous = NoState
      BY <1>1, <1>5, <2>3, <3>1 DEF DbHistoryComplete, ReviewWritten
    <3>3. ASSUME NEW g \in e.history, g.review = h.review, g.version = h.version + 1
          PROVE  g.previous = h.new
      <4>1. CASE g \in d.history
        BY <1>5, <3>3, <4>1 DEF DbHistoryComplete
      <4>2. CASE g = entry
        <5>1. h.version = d.reviews[id].version
          BY <1>1, <1>4, <3>1, <3>3, <4>2 DEF ReviewWritten
        <5>2. h.new = d.reviews[id].state
          BY <1>5, <2>3, <5>1 DEF DbHistoryComplete
        <5>3. QED
          BY <1>1, <3>1, <4>2, <5>2 DEF ReviewWritten
      <4>3. QED
        BY <1>1, <4>1, <4>2 DEF ReviewWritten
    <3>4. QED
      BY <2>3, <3>2, <3>3
  <2>4. fits(entry)
    <3>1. entry.version = 1 <=> entry.previous = NoState
      BY <1>1, <1>3, <1>5 DEF ReviewWritten, ReferencesHold
    <3>2. ASSUME NEW g \in e.history, g.review = entry.review, g.version = entry.version + 1
          PROVE  FALSE
      <4>1. CASE g \in d.history
        <5>1. id \in DOMAIN d.reviews /\ g.version <= d.reviews[id].version
          BY <1>1, <1>6, <3>2, <4>1 DEF ReviewWritten
        <5>2. entry.version = d.reviews[id].version + 1 /\ d.reviews[id].version \in Nat
          BY <1>1, <1>3, <5>1 DEF ReviewWritten
        <5>3. QED
          BY <1>4, <3>2, <4>1, <5>1, <5>2
      <4>2. CASE g = entry
        BY <1>7, <3>2, <4>2
      <4>3. QED
        BY <1>1, <4>1, <4>2 DEF ReviewWritten
    <3>3. QED
      BY <1>1, <1>7, <3>1, <3>2 DEF ReviewWritten
  <2>5. \A h \in e.history : fits(h)
    BY <1>1, <2>2, <2>3, <2>4 DEF ReviewWritten
  <2>6. QED
    BY <2>1, <2>5 DEF DbHistoryComplete
<1>11. DbReviewable(e)
  BY <1>1, <1>2, <1>5 DEF DbReviewable, ReviewWritten
<1>12. ProjectsDeleted(e) /\ \A i \in DOMAIN e.analyses : e.projects[e.analyses[i].project] # Absent
  BY <1>1, <1>5 DEF ProjectsDeleted, ReviewWritten, DbConsistent
<1>13. QED
  BY <1>8, <1>9, <1>10, <1>11, <1>12 DEF DbConsistent, RowsConsistent, e

-----------------------------------------------------------------------------
(* An export takes whole reviews: the rows that agree in a database agree in *)
(* the envelope.                                                             *)
LEMMA ExportConsistent ==
    ASSUME NEW d, DbTypeOK(d), DbConsistent(d), NEW p \in Projects
    PROVE  EnvelopeConsistent(Envelope(d, p))
<1> DEFINE analyses == OfProject(d.analyses, p)
           reviews == OfProject(d.reviews, p)
           marks == {x \in BagToSet(d.audit) : x.project = p}
           e == Envelope(d, p)
<1>1. /\ e.project = p
      /\ e.analyses = [i \in analyses |-> d.analyses[i]]
      /\ e.reviews = [i \in reviews |-> d.reviews[i]]
      /\ e.history = {h \in d.history : h.review \in reviews}
      /\ e.audit = [r \in marks |-> d.audit[r]]
  BY DEF Envelope
<1>2. /\ \A i : i \in analyses <=> i \in DOMAIN d.analyses /\ d.analyses[i].project = p
      /\ \A i : i \in reviews <=> i \in DOMAIN d.reviews /\ d.reviews[i].project = p
  BY DEF OfProject
<1>3. DOMAIN d.analyses \subseteq Nat \ {0} /\ DOMAIN d.reviews \subseteq Nat \ {0}
  BY DEF DbTypeOK, HasRows
<1> HIDE DEF e, analyses, reviews
<1>4. /\ DOMAIN e.analyses = analyses /\ \A i \in analyses : e.analyses[i] = d.analyses[i]
      /\ DOMAIN e.reviews = reviews /\ \A i \in reviews : e.reviews[i] = d.reviews[i]
      /\ BagToSet(e.audit) = marks
  BY <1>1 DEF BagToSet
<1>5. \A h : h \in e.history <=> h \in d.history /\ h.review \in reviews
  BY <1>1
<1>6. /\ UniqueRows(d) /\ ReferencesHold(d) /\ DbHistoryComplete(d)
      /\ DbReviewable(d) /\ ProjectsDeleted(d)
  BY DEF DbConsistent, RowsConsistent
<1>7. UniqueRows(e)
  BY <1>2, <1>4, <1>5, <1>6 DEF UniqueRows
<1>8. ReferencesHold(e)
  BY <1>2, <1>4, <1>5, <1>6 DEF ReferencesHold
<1>9. DbHistoryComplete(e)
  <2>1. ASSUME NEW i \in DOMAIN e.reviews, NEW v \in 1 .. e.reviews[i].version
        PROVE  \E h \in e.history : h.review = i /\ h.version = v
    <3>1. PICK h \in d.history : h.review = i /\ h.version = v
      BY <1>2, <1>4, <1>6 DEF DbHistoryComplete
    <3>2. QED
      BY <1>4, <1>5, <3>1
  <2>2. \A h \in e.history : h \in d.history /\ e.reviews[h.review] = d.reviews[h.review]
    BY <1>4, <1>5
  <2>3. QED
    BY <1>6, <2>1, <2>2 DEF DbHistoryComplete
<1>10. DbReviewable(e)
  BY <1>2, <1>4, <1>5, <1>6 DEF DbReviewable, ReferencesHold
<1>11. ProjectsDeleted(e)
  BY <1>4, <1>6 DEF ProjectsDeleted
<1>12. /\ \A i \in DOMAIN e.analyses : i > 0 /\ e.analyses[i].project = e.project
       /\ \A i \in DOMAIN e.reviews : i > 0 /\ e.reviews[i].project = e.project
  BY <1>1, <1>2, <1>3, <1>4
<1>13. QED
  BY <1>7, <1>8, <1>9, <1>10, <1>11, <1>12 DEF EnvelopeConsistent, RowsConsistent, e

(* A consistent envelope passes the validation of restore. *)
LEMMA ConsistentValidates ==
    ASSUME NEW e, EnvelopeTypeOK(e), EnvelopeAudited(e), EnvelopeConsistent(e)
    PROVE  ValidateRestore(e)
<1>1. /\ UniqueRows(e) /\ ReferencesHold(e) /\ DbHistoryComplete(e)
      /\ DbReviewable(e) /\ ProjectsDeleted(e)
  BY DEF EnvelopeConsistent, RowsConsistent
<1>2. \A i \in DOMAIN e.reviews : e.reviews[i].version \in Nat /\ e.reviews[i].kind \in Kinds
  BY DEF EnvelopeTypeOK, Reviews
<1>3. ASSUME NEW i \in DOMAIN e.reviews
      PROVE  ValidTransition(e.reviews[i].kind, NoState, e.reviews[i].state)
  <2>1. e.reviews[i].version \in 1 .. e.reviews[i].version
    BY <1>1, <1>2 DEF ReferencesHold
  <2>2. PICK h \in e.history : h.review = i /\ h.version = e.reviews[i].version
    BY <1>1, <2>1 DEF DbHistoryComplete
  <2>3. /\ ValidTransition(h.kind, h.previous, h.new)
        /\ h.kind = e.reviews[i].kind /\ h.new = e.reviews[i].state
    BY <1>1, <2>2 DEF DbHistoryComplete
  <2>4. QED
    BY <2>3 DEF ValidTransition
<1>4. ValidReviews(e)
  <2>1. ASSUME NEW i \in DOMAIN e.reviews
        PROVE  ValidReference(e, e.reviews[i].analysis, e.reviews[i].branch,
                              e.reviews[i].identity, e.reviews[i].kind)
    BY <1>1 DEF ValidReference, ReferencesHold, DbReviewable
  <2>2. ASSUME NEW i \in DOMAIN e.reviews, NEW j \in DOMAIN e.reviews,
               <<e.reviews[i].branch, e.reviews[i].identity, e.reviews[i].kind>> =
               <<e.reviews[j].branch, e.reviews[j].identity, e.reviews[j].kind>>
        PROVE  i = j
    BY <1>1, <2>2 DEF UniqueRows, EnvelopeConsistent
  <2>3. \A i \in DOMAIN e.reviews : i > 0 /\ e.reviews[i].version > 0
                                    /\ e.reviews[i].project = e.project
    BY <1>1 DEF ReferencesHold, EnvelopeConsistent
  <2>4. QED
    BY <1>3, <2>1, <2>2, <2>3 DEF ValidReviews
<1>5. ValidHistory(e)
  <2>1. ASSUME NEW h \in e.history
        PROVE  /\ h.review \in DOMAIN e.reviews
               /\ ValidReference(e, h.analysis, e.reviews[h.review].branch, h.identity, h.kind)
    BY <1>1 DEF ValidReference, ReferencesHold, DbReviewable
  <2>2. ASSUME NEW h \in e.history
        PROVE  /\ h.version > 0
               /\ h.identity = e.reviews[h.review].identity
               /\ h.kind = e.reviews[h.review].kind
               /\ ValidTransition(h.kind, h.previous, h.new)
    BY <1>1, <1>2, <2>1 DEF DbHistoryComplete
  <2>3. QED
    BY <1>1, <2>1, <2>2 DEF ValidHistory, UniqueRows
<1>6. ChainedHistory(e)
  <2>1. ASSUME NEW h \in e.history
        PROVE  /\ h.version <= e.reviews[h.review].version
               /\ h.version = 1 => h.previous = NoState
               /\ h.version = e.reviews[h.review].version => h.new = e.reviews[h.review].state
    <3>1. h.review \in DOMAIN e.reviews
      BY <1>1 DEF ReferencesHold
    <3>2. QED
      BY <1>1, <1>2, <3>1 DEF DbHistoryComplete
  <2>2. QED
    BY <1>1, <2>1 DEF ChainedHistory, DbHistoryComplete
<1>7. ValidDeletions(e)
  <2>1. \A r \in BagToSet(e.audit) : r.resource \in {"analysis", "project"}
    BY DEF EnvelopeTypeOK, Audits
  <2>2. QED
    BY <1>1, <2>1 DEF ValidDeletions, ProjectsDeleted, EnvelopeAudited
<1>8. QED
  BY <1>4, <1>5, <1>6, <1>7 DEF ValidateRestore, EnvelopeConsistent

-----------------------------------------------------------------------------
(* A history entry of an envelope under the ids of the target. *)
Moved(h, aids, rids) == [h EXCEPT !.review = rids[@], !.analysis = aids[@]]

HistoryImage(m, h, aids, rids) ==
    /\ m.review = rids[h.review] /\ m.analysis = aids[h.analysis]
    /\ m.identity = h.identity /\ m.kind = h.kind
    /\ m.previous = h.previous /\ m.new = h.new
    /\ m.by = h.by /\ m.at = h.at /\ m.version = h.version

(* Only the two ids of a moved entry change. *)
LEMMA MovedFields ==
    ASSUME NEW h \in Histories, NEW aids, NEW rids
    PROVE  HistoryImage(Moved(h, aids, rids), h, aids, rids)
BY Zenon DEF Histories, Moved, HistoryImage

(* A row of the review table is the image of a row of an envelope. *)
ReviewImage(row, r, aids) ==
    /\ row.analysis = aids[r.analysis]
    /\ row.project = r.project /\ row.branch = r.branch
    /\ row.identity = r.identity /\ row.kind = r.kind
    /\ row.state = r.state /\ row.version = r.version
    /\ row.by = r.by /\ row.at = r.at

(* Only the analysis of a restored review changes. *)
LEMMA MappedFields ==
    ASSUME NEW e, NEW i, e.reviews[i] \in Reviews, NEW aids
    PROVE  ReviewImage(MappedReview(e, i, aids), e.reviews[i], aids)
<1> DEFINE r == e.reviews[i]
<1>1. MappedReview(e, i, aids) = [r EXCEPT !.analysis = aids[@]]
  BY Zenon DEF MappedReview
<1>2. r \in Reviews
  OBVIOUS
<1> HIDE DEF r
<1>3. ReviewImage([r EXCEPT !.analysis = aids[@]], r, aids)
  BY <1>2, Zenon DEF Reviews, ReviewImage
<1>4. QED
  BY <1>1, <1>3, Zenon DEF r

(* r holds the rows of d under their ids and the rows of e under the ids     *)
(* that aids and rids give them, and no others.                              *)
AnalysesMerged(d, e, r, aids) ==
    /\ DOMAIN d.analyses \subseteq DOMAIN r.analyses
    /\ \A i \in DOMAIN d.analyses : r.analyses[i] = d.analyses[i]
    /\ \A i \in DOMAIN e.analyses :
          aids[i] \in DOMAIN r.analyses /\ r.analyses[aids[i]] = e.analyses[i]
    /\ \A x \in DOMAIN r.analyses :
          x \in DOMAIN d.analyses \/ \E i \in NewAnalyses(d, e) : x = aids[i]
    /\ \A i \in NewAnalyses(d, e) : aids[i] \notin DOMAIN d.analyses

ReviewsMerged(d, e, r, aids, rids) ==
    /\ DOMAIN d.reviews \subseteq DOMAIN r.reviews
    /\ \A i \in DOMAIN d.reviews : r.reviews[i] = d.reviews[i]
    /\ \A i \in DOMAIN e.reviews :
          rids[i] \in DOMAIN r.reviews /\ ReviewImage(r.reviews[rids[i]], e.reviews[i], aids)
    /\ \A x \in DOMAIN r.reviews :
          x \in DOMAIN d.reviews \/ \E i \in NewReviews(d, e) : x = rids[i]
    /\ \A i \in NewReviews(d, e) : rids[i] \notin DOMAIN d.reviews
    /\ \A i, j \in NewReviews(d, e) : rids[i] = rids[j] => i = j

HistoryMerged(d, e, r, aids, rids) ==
    /\ d.history \subseteq r.history
    /\ \A h \in e.history : Moved(h, aids, rids) \in r.history
    /\ \A x \in r.history :
          \/ x \in d.history
          \/ \E h \in e.history : h.review \in NewReviews(d, e) /\ x = Moved(h, aids, rids)

(* The analyses after an accepted restore. *)
LEMMA RestoreAnalysesMerged ==
    ASSUME NEW d, DbTypeOK(d), NEW e, EnvelopeTypeOK(e), RestoreAgrees(d, e)
    PROVE  AnalysesMerged(d, e, Restored(d, e), AnalysisIds(d, e))
<1> DEFINE aids == AnalysisIds(d, e)
           new == NewAnalyses(d, e)
           analyses == Merge(d.analyses, new, aids, e.analyses)
           r == Restored(d, e)
<1>1. r.analyses = analyses
  BY DEF Restored, Database
<1>2. /\ \A x \in DOMAIN analyses : x \in DOMAIN d.analyses \/ \E i \in new : x = aids[i]
      /\ DOMAIN d.analyses \subseteq DOMAIN analyses
      /\ \A i \in new : aids[i] \in DOMAIN analyses
      /\ \A i \in DOMAIN d.analyses : analyses[i] = d.analyses[i]
      /\ \A i \in new : analyses[aids[i]] = e.analyses[i]
      /\ \A i \in new : aids[i] \notin DOMAIN d.analyses
  BY RestoredAnalyses
<1>3. \A i \in DOMAIN e.analyses \ new :
         aids[i] \in DOMAIN d.analyses /\ d.analyses[aids[i]] = e.analyses[i]
  BY RestoredAnalysisIds DEF StoredAnalysis, ExistingAnalysis, RestoreAgrees
<1> HIDE DEF aids, new, analyses, r
<1>4. ASSUME NEW i \in DOMAIN e.analyses
      PROVE  aids[i] \in DOMAIN analyses /\ analyses[aids[i]] = e.analyses[i]
  BY <1>2, <1>3
<1>5. QED
  BY <1>1, <1>2, <1>4 DEF AnalysesMerged, aids, new, r

(* The reviews after an accepted restore. *)
LEMMA RestoreReviewsMerged ==
    ASSUME NEW d, DbTypeOK(d), NEW e, EnvelopeTypeOK(e), ValidateRestore(e), RestoreAgrees(d, e)
    PROVE  /\ ReviewsMerged(d, e, Restored(d, e), AnalysisIds(d, e), ReviewIds(d, e))
           /\ \A i \in DOMAIN e.reviews \ NewReviews(d, e) : ReviewIds(d, e)[i] \in DOMAIN d.reviews
           /\ \A i \in DOMAIN e.reviews :
                 Restored(d, e).reviews[ReviewIds(d, e)[i]] = MappedReview(e, i, AnalysisIds(d, e))
<1> DEFINE aids == AnalysisIds(d, e)
           rids == ReviewIds(d, e)
           new == NewReviews(d, e)
           rows == [i \in DOMAIN e.reviews |-> MappedReview(e, i, aids)]
           reviews == Merge(d.reviews, new, rids, rows)
           r == Restored(d, e)
<1>1. r.reviews = reviews
  BY DEF Restored, Database
<1>2. /\ \A x \in DOMAIN reviews : x \in DOMAIN d.reviews \/ \E i \in new : x = rids[i]
      /\ DOMAIN d.reviews \subseteq DOMAIN reviews
      /\ \A i \in new : rids[i] \in DOMAIN reviews
      /\ \A i \in DOMAIN d.reviews : reviews[i] = d.reviews[i]
      /\ \A i \in new : reviews[rids[i]] = MappedReview(e, i, aids)
      /\ \A i \in new : rids[i] \notin DOMAIN d.reviews
  <2>1. \A x \in DOMAIN reviews : x \in DOMAIN d.reviews \/ \E i \in new : x = rids[i]
    BY RestoredReviews
  <2>2. DOMAIN d.reviews \subseteq DOMAIN reviews /\ \A i \in new : rids[i] \in DOMAIN reviews
    BY RestoredReviews
  <2>3. \A i \in DOMAIN d.reviews : reviews[i] = d.reviews[i]
    BY RestoredReviews
  <2>4. \A i \in new : reviews[rids[i]] = MappedReview(e, i, aids)
    BY RestoredReviews
  <2>5. \A i \in new : rids[i] \notin DOMAIN d.reviews
    BY RestoredReviews
  <2>6. QED
    BY <2>1, <2>2, <2>3, <2>4, <2>5
<1>3. \A i, j \in new : rids[i] = rids[j] => i = j
  BY RestoredReviewIds
<1>4. \A i \in DOMAIN e.reviews \ new :
         rids[i] \in DOMAIN d.reviews /\ d.reviews[rids[i]] = MappedReview(e, i, aids)
  BY RestoredReviewIds DEF StoredReview, ExistingReview, RestoreAgrees
<1>5. ASSUME NEW i \in DOMAIN e.reviews
      PROVE  ReviewImage(MappedReview(e, i, aids), e.reviews[i], aids)
  <2>1. e.reviews[i] \in Reviews
    BY DEF EnvelopeTypeOK
  <2> HIDE DEF aids
  <2>2. QED
    BY <2>1, MappedFields
<1> HIDE DEF aids, rids, new, reviews, r
<1>6. ASSUME NEW i \in DOMAIN e.reviews
      PROVE  rids[i] \in DOMAIN reviews /\ reviews[rids[i]] = MappedReview(e, i, aids)
  BY <1>2, <1>4
<1>7. ReviewsMerged(d, e, r, aids, rids)
  BY <1>1, <1>2, <1>3, <1>5, <1>6 DEF ReviewsMerged, new
<1>8. QED
  BY <1>1, <1>4, <1>6, <1>7 DEF aids, rids, new, r

(* The history after an accepted restore: a review that the target has comes *)
(* with the entries that the target has.                                     *)
LEMMA RestoreHistoryMerged ==
    ASSUME NEW d, DbTypeOK(d), DbConsistent(d), NEW e, EnvelopeTypeOK(e),
           EnvelopeConsistent(e), ValidateRestore(e), RestoreAgrees(d, e)
    PROVE  HistoryMerged(d, e, Restored(d, e), AnalysisIds(d, e), ReviewIds(d, e))
<1> DEFINE aids == AnalysisIds(d, e)
           rids == ReviewIds(d, e)
           new == NewReviews(d, e)
           r == Restored(d, e)
<1>1. r.history = d.history \cup MappedHistory(e, aids, rids)
  BY DEF Restored, Database
<1>2. MappedHistory(e, aids, rids) = {Moved(h, aids, rids) : h \in e.history}
  BY Zenon DEF MappedHistory, Moved
<1>3. \A h \in MappedHistory(e, aids, rids), g \in d.history :
         g.review = h.review /\ g.version = h.version => g = h
  BY DEF RestoreAgrees
<1>4. \A i \in DOMAIN e.reviews \ new : rids[i] \in DOMAIN d.reviews
  BY RestoreReviewsMerged
<1>5. \A i \in DOMAIN e.reviews : ReviewImage(r.reviews[rids[i]], e.reviews[i], aids)
  BY RestoreReviewsMerged DEF ReviewsMerged
<1>6. \A i \in DOMAIN d.reviews : r.reviews[i] = d.reviews[i]
  BY RestoreReviewsMerged DEF ReviewsMerged
<1> HIDE DEF aids, rids, new, r
<1>7. ASSUME NEW h \in e.history, h.review \notin new
      PROVE  Moved(h, aids, rids) \in d.history
  <2>1. h \in Histories
    BY DEF EnvelopeTypeOK
  <2>2. h.review \in DOMAIN e.reviews /\ h.version \in 1 .. e.reviews[h.review].version
    BY DEF EnvelopeConsistent, RowsConsistent, ReferencesHold, DbHistoryComplete
  <2> DEFINE x == rids[h.review]
             m == Moved(h, aids, rids)
  <2>3. x \in DOMAIN d.reviews /\ d.reviews[x].version = e.reviews[h.review].version
    BY <1>4, <1>5, <1>6, <1>7, <2>2 DEF ReviewImage
  <2>4. PICK k \in d.history : k.review = x /\ k.version = h.version
    BY <2>2, <2>3 DEF DbConsistent, RowsConsistent, DbHistoryComplete
  <2>5. m.review = x /\ m.version = h.version
    BY <2>1, MovedFields DEF HistoryImage
  <2>6. m \in MappedHistory(e, aids, rids)
    BY <1>2
  <2> HIDE DEF m
  <2>7. k = m
    BY <1>3, <2>4, <2>5, <2>6
  <2>8. QED
    BY <2>7 DEF m
<1>8. QED
  BY <1>1, <1>2, <1>7 DEF HistoryMerged, aids, rids, new, r

(* A row that restore adds has a key that the target did not have. *)
LEMMA NewKeys ==
    ASSUME NEW d, NEW e, EnvelopeConsistent(e)
    PROVE  /\ \A i \in NewAnalyses(d, e), x \in DOMAIN d.analyses :
                 ~(/\ d.analyses[x].project = e.analyses[i].project
                   /\ d.analyses[x].branch = e.analyses[i].branch
                   /\ d.analyses[x].commit = e.analyses[i].commit)
           /\ \A i \in NewReviews(d, e), x \in DOMAIN d.reviews :
                 ~(/\ d.reviews[x].project = e.reviews[i].project
                   /\ d.reviews[x].branch = e.reviews[i].branch
                   /\ d.reviews[x].identity = e.reviews[i].identity
                   /\ d.reviews[x].kind = e.reviews[i].kind)
<1>1. ASSUME NEW i \in NewAnalyses(d, e), NEW x \in DOMAIN d.analyses,
             d.analyses[x].project = e.analyses[i].project,
             d.analyses[x].branch = e.analyses[i].branch,
             d.analyses[x].commit = e.analyses[i].commit
      PROVE  FALSE
  <2>1. StoredAnalysis(d, e, i) = {} /\ e.analyses[i].project = e.project
    BY DEF NewAnalyses, EnvelopeConsistent
  <2>2. x \in StoredAnalysis(d, e, i)
    BY <1>1, <2>1 DEF StoredAnalysis, ExistingAnalysis
  <2>3. QED
    BY <2>1, <2>2
<1>2. ASSUME NEW i \in NewReviews(d, e), NEW x \in DOMAIN d.reviews,
             d.reviews[x].project = e.reviews[i].project,
             d.reviews[x].branch = e.reviews[i].branch,
             d.reviews[x].identity = e.reviews[i].identity,
             d.reviews[x].kind = e.reviews[i].kind
      PROVE  FALSE
  <2>1. StoredReview(d, e, i) = {} /\ e.reviews[i].project = e.project
    BY DEF NewReviews, EnvelopeConsistent
  <2>2. x \in StoredReview(d, e, i)
    BY <1>2, <2>1 DEF StoredReview, ExistingReview
  <2>3. QED
    BY <2>1, <2>2
<1>3. QED
  BY <1>1, <1>2

(* The audit after a restore has no other kind of row. *)
LEMMA RestoreProjectsDeleted ==
    ASSUME NEW d, DbTypeOK(d), ProjectsDeleted(d), NEW e, EnvelopeTypeOK(e), ProjectsDeleted(e)
    PROVE  /\ ProjectsDeleted(Restored(d, e))
           /\ BagToSet(d.audit) \subseteq BagToSet(Restored(d, e).audit)
<1> DEFINE aids == AnalysisIds(d, e)
           mapped(r) == [r EXCEPT !.analysis = IF @ = NoAnalysis THEN @ ELSE aids[@]]
           marks == NewDeletions(d, e, aids)
           audit == d.audit (+) SetToBag(marks)
<1>1. Restored(d, e).audit = audit
  BY DEF Restored, Database
<1> HIDE DEF aids
<1>2. ASSUME NEW r \in BagToSet(e.audit)
      PROVE  mapped(r).resource = r.resource /\ mapped(r).action = r.action
  <2>1. r \in Audits
    BY DEF EnvelopeTypeOK
  <2>2. QED
    BY <2>1, Zenon DEF Audits
<1>3. \A x \in marks : \E r \in BagToSet(e.audit) : x = mapped(r)
  BY Zenon DEF NewDeletions, MappedDeletions
<1> HIDE DEF mapped, marks
<1>4. BagToSet(audit) = BagToSet(d.audit) \cup marks
  BY BagPlusSet DEF DbTypeOK
<1> HIDE DEF audit
<1>5. QED
  BY <1>1, <1>2, <1>3, <1>4 DEF ProjectsDeleted

(* An accepted restore of a consistent envelope keeps a database consistent. *)
LEMMA RestoreConsistent ==
    ASSUME NEW d, DbTypeOK(d), DbConsistent(d), NEW e, EnvelopeTypeOK(e),
           EnvelopeConsistent(e), ValidateRestore(e), RestoreAgrees(d, e)
    PROVE  DbConsistent(Restored(d, e))
<1> DEFINE aids == AnalysisIds(d, e)
           rids == ReviewIds(d, e)
           newA == NewAnalyses(d, e)
           newR == NewReviews(d, e)
           r == Restored(d, e)
<1>1. AnalysesMerged(d, e, r, aids)
  BY RestoreAnalysesMerged
<1>2. ReviewsMerged(d, e, r, aids, rids)
  BY RestoreReviewsMerged
<1>3. HistoryMerged(d, e, r, aids, rids)
  BY RestoreHistoryMerged
<1>4. /\ UniqueRows(d) /\ ReferencesHold(d) /\ DbHistoryComplete(d)
      /\ DbReviewable(d) /\ ProjectsDeleted(d)
  BY DEF DbConsistent, RowsConsistent
<1>5. /\ UniqueRows(e) /\ ReferencesHold(e) /\ DbHistoryComplete(e)
      /\ DbReviewable(e) /\ ProjectsDeleted(e)
  BY DEF EnvelopeConsistent, RowsConsistent
<1>6. newA \subseteq DOMAIN e.analyses /\ newR \subseteq DOMAIN e.reviews
  BY DEF NewAnalyses, NewReviews
<1>7. \A h \in e.history : HistoryImage(Moved(h, aids, rids), h, aids, rids)
  BY MovedFields DEF EnvelopeTypeOK
<1>8. ProjectsDeleted(r)
  BY <1>4, <1>5, RestoreProjectsDeleted
<1>9. \A p \in Projects : r.projects[p] = IF p = e.project THEN e.deleted ELSE d.projects[p]
  <2>1. r.projects = [d.projects EXCEPT ![e.project] = e.deleted]
    BY DEF Restored, Database
  <2>2. DOMAIN d.projects = Projects
    BY DEF DbTypeOK
  <2> HIDE DEF r
  <2>3. QED
    BY <2>1, <2>2
<1> HIDE DEF aids, rids, newA, newR, r
<1>10. \A x \in DOMAIN r.reviews :
          \/ x \in DOMAIN d.reviews /\ r.reviews[x] = d.reviews[x]
          \/ \E i \in newR : x = rids[i] /\ ReviewImage(r.reviews[x], e.reviews[i], aids)
  BY <1>2, <1>6 DEF ReviewsMerged, newR
<1>11. \A x \in DOMAIN r.analyses :
          \/ x \in DOMAIN d.analyses /\ r.analyses[x] = d.analyses[x]
          \/ \E i \in newA : x = aids[i] /\ r.analyses[x] = e.analyses[i]
  BY <1>1, <1>6 DEF AnalysesMerged, newA
<1>12. \A x \in r.history :
          \/ x \in d.history
          \/ \E h \in e.history : /\ h.review \in newR /\ x = Moved(h, aids, rids)
                                  /\ HistoryImage(x, h, aids, rids)
  BY <1>3, <1>7 DEF HistoryMerged, newR
<1>13. /\ \A i, j \in newR : rids[i] = rids[j] => i = j
       /\ \A i \in newR : rids[i] \notin DOMAIN d.reviews
  BY <1>2 DEF ReviewsMerged, newR
<1>14. UniqueRows(r)
  <2>1. ASSUME NEW x \in DOMAIN r.analyses, NEW y \in DOMAIN r.analyses,
               r.analyses[x].project = r.analyses[y].project,
               r.analyses[x].branch = r.analyses[y].branch,
               r.analyses[x].commit = r.analyses[y].commit
        PROVE  x = y
    BY <1>4, <1>5, <1>6, <1>11, <2>1, NewKeys DEF UniqueRows, newA
  <2>2. ASSUME NEW x \in DOMAIN r.reviews, NEW y \in DOMAIN r.reviews,
               r.reviews[x].project = r.reviews[y].project,
               r.reviews[x].branch = r.reviews[y].branch,
               r.reviews[x].identity = r.reviews[y].identity,
               r.reviews[x].kind = r.reviews[y].kind
        PROVE  x = y
    BY <1>4, <1>5, <1>6, <1>10, <2>2, NewKeys DEF UniqueRows, ReviewImage, newR
  <2>3. ASSUME NEW x \in r.history, NEW y \in r.history, x.review = y.review,
               x.version = y.version
        PROVE  x = y
    <3>1. \A h \in d.history : h.review \in DOMAIN d.reviews
      BY <1>4 DEF ReferencesHold
    <3>2. CASE x \in d.history /\ y \in d.history
      BY <1>4, <2>3, <3>2 DEF UniqueRows
    <3>3. CASE x \notin d.history \/ y \notin d.history
      <4>1. x \notin d.history /\ y \notin d.history
        BY <1>12, <1>13, <2>3, <3>1, <3>3 DEF HistoryImage
      <4>2. PICK g \in e.history : /\ g.review \in newR /\ x = Moved(g, aids, rids)
                                   /\ HistoryImage(x, g, aids, rids)
        BY <1>12, <4>1
      <4>3. PICK h \in e.history : /\ h.review \in newR /\ y = Moved(h, aids, rids)
                                   /\ HistoryImage(y, h, aids, rids)
        BY <1>12, <4>1
      <4>4. g = h
        BY <1>5, <1>13, <2>3, <4>2, <4>3 DEF UniqueRows, HistoryImage
      <4>5. QED
        BY <4>2, <4>3, <4>4
    <3>4. QED
      BY <3>2, <3>3
  <2>4. QED
    BY <2>1, <2>2, <2>3 DEF UniqueRows
<1>15. ReferencesHold(r)
  <2>1. ASSUME NEW x \in DOMAIN r.reviews
        PROVE  /\ r.reviews[x].version > 0
               /\ r.reviews[x].analysis \in DOMAIN r.analyses
               /\ r.analyses[r.reviews[x].analysis].project = r.reviews[x].project
               /\ r.analyses[r.reviews[x].analysis].branch = r.reviews[x].branch
    BY <1>1, <1>4, <1>5, <1>6, <1>10 DEF AnalysesMerged, ReferencesHold, ReviewImage
  <2>2. ASSUME NEW x \in r.history
        PROVE  /\ x.review \in DOMAIN r.reviews
               /\ x.analysis \in DOMAIN r.analyses
               /\ r.analyses[x.analysis].project = r.reviews[x.review].project
               /\ r.analyses[x.analysis].branch = r.reviews[x.review].branch
    <3>1. CASE x \in d.history
      BY <1>1, <1>2, <1>4, <3>1 DEF AnalysesMerged, ReviewsMerged, ReferencesHold
    <3>2. ASSUME NEW h \in e.history, HistoryImage(x, h, aids, rids)
          PROVE  /\ x.review \in DOMAIN r.reviews
                 /\ x.analysis \in DOMAIN r.analyses
                 /\ r.analyses[x.analysis].project = r.reviews[x.review].project
                 /\ r.analyses[x.analysis].branch = r.reviews[x.review].branch
      BY <1>1, <1>2, <1>5, <3>2
         DEF AnalysesMerged, ReviewsMerged, ReferencesHold, ReviewImage, HistoryImage
    <3>3. QED
      BY <1>12, <3>1, <3>2
  <2>3. QED
    BY <2>1, <2>2 DEF ReferencesHold
<1>16. DbHistoryComplete(r)
  <2>1. ASSUME NEW x \in DOMAIN r.reviews, NEW v \in 1 .. r.reviews[x].version
        PROVE  \E y \in r.history : y.review = x /\ y.version = v
    <3>1. CASE x \in DOMAIN d.reviews
      BY <1>2, <1>3, <1>4, <3>1 DEF ReviewsMerged, HistoryMerged, DbHistoryComplete
    <3>2. CASE x \notin DOMAIN d.reviews
      <4>1. PICK i \in newR : x = rids[i] /\ ReviewImage(r.reviews[x], e.reviews[i], aids)
        BY <1>10, <3>2
      <4>2. PICK h \in e.history : h.review = i /\ h.version = v
        BY <1>5, <1>6, <4>1 DEF DbHistoryComplete, ReviewImage
      <4>3. Moved(h, aids, rids) \in r.history
        BY <1>3 DEF HistoryMerged
      <4>4. QED
        BY <1>7, <4>1, <4>2, <4>3 DEF HistoryImage
    <3>3. QED
      BY <3>1, <3>2
  <2> DEFINE fits(x) ==
               LET w == r.reviews[x.review] IN
               /\ x.version \in 1 .. w.version
               /\ x.identity = w.identity /\ x.kind = w.kind
               /\ ValidTransition(x.kind, x.previous, x.new)
               /\ x.version = 1 <=> x.previous = NoState
               /\ \A y \in r.history :
                     y.review = x.review /\ y.version = x.version + 1 => y.previous = x.new
               /\ x.version = w.version =>
                     <<x.analysis, x.new, x.by, x.at>> = <<w.analysis, w.state, w.by, w.at>>
  <2>2. ASSUME NEW x \in d.history
        PROVE  fits(x)
    <3>1. x.review \in DOMAIN d.reviews /\ r.reviews[x.review] = d.reviews[x.review]
      BY <1>2, <1>4 DEF ReferencesHold, ReviewsMerged
    <3>2. \A y \in r.history : y.review = x.review => y \in d.history
      BY <1>12, <1>13, <3>1 DEF HistoryImage
    <3>3. QED
      BY <1>4, <3>1, <3>2 DEF DbHistoryComplete
  <2>3. ASSUME NEW x \in r.history, NEW h \in e.history, h.review \in newR,
               HistoryImage(x, h, aids, rids)
        PROVE  fits(x)
    <3>1. h.review \in DOMAIN e.reviews /\ ReviewImage(r.reviews[x.review], e.reviews[h.review], aids)
      BY <1>2, <1>5, <2>3 DEF ReferencesHold, ReviewsMerged, HistoryImage
    <3>2. ASSUME NEW y \in r.history, y.review = x.review, y.version = x.version + 1
          PROVE  y.previous = x.new
      <4>1. y \notin d.history
        BY <1>4, <1>13, <2>3, <3>2 DEF ReferencesHold, HistoryImage
      <4>2. PICK g \in e.history : g.review \in newR /\ HistoryImage(y, g, aids, rids)
        BY <1>12, <4>1
      <4>3. g.review = h.review /\ g.version = h.version + 1
        BY <1>13, <2>3, <3>2, <4>2 DEF HistoryImage
      <4>4. QED
        BY <1>5, <2>3, <4>2, <4>3 DEF DbHistoryComplete, HistoryImage
    <3>3. /\ h.version \in 1 .. e.reviews[h.review].version
          /\ h.identity = e.reviews[h.review].identity /\ h.kind = e.reviews[h.review].kind
          /\ ValidTransition(h.kind, h.previous, h.new)
          /\ h.version = 1 <=> h.previous = NoState
          /\ h.version = e.reviews[h.review].version =>
                /\ h.analysis = e.reviews[h.review].analysis /\ h.new = e.reviews[h.review].state
                /\ h.by = e.reviews[h.review].by /\ h.at = e.reviews[h.review].at
      BY <1>5 DEF DbHistoryComplete
    <3>4. QED
      BY <2>3, <3>1, <3>2, <3>3 DEF ReviewImage, HistoryImage
  <2>4. \A x \in r.history : fits(x)
    BY <1>12, <2>2, <2>3
  <2>5. QED
    BY <2>1, <2>4 DEF DbHistoryComplete
<1>17. DbReviewable(r)
  <2>1. ASSUME NEW x \in DOMAIN r.reviews
        PROVE  Reviewable(r.analyses[r.reviews[x].analysis].report,
                          r.reviews[x].identity, r.reviews[x].kind)
    BY <1>1, <1>4, <1>5, <1>6, <1>10
       DEF AnalysesMerged, ReferencesHold, ReviewImage, DbReviewable
  <2>2. ASSUME NEW x \in r.history
        PROVE  Reviewable(r.analyses[x.analysis].report, x.identity, x.kind)
    BY <1>1, <1>4, <1>5, <1>12 DEF AnalysesMerged, ReferencesHold, HistoryImage, DbReviewable
  <2>3. QED
    BY <2>1, <2>2 DEF DbReviewable
<1>18. ASSUME NEW x \in DOMAIN r.analyses
       PROVE  r.projects[r.analyses[x].project] # Absent
  <2>1. e.deleted # Absent /\ e.project \in Projects
    BY SentinelAssumption DEF EnvelopeTypeOK
  <2>2. CASE x \in DOMAIN d.analyses /\ r.analyses[x] = d.analyses[x]
    <3>1. d.analyses[x].project \in Projects
      BY <2>2 DEF DbTypeOK, HasRows, Analyses
    <3>2. QED
      BY <1>9, <2>1, <2>2, <3>1 DEF DbConsistent
  <2>3. ASSUME NEW i \in newA, r.analyses[x] = e.analyses[i]
        PROVE  r.projects[r.analyses[x].project] # Absent
    BY <1>6, <1>9, <2>1, <2>3 DEF EnvelopeConsistent
  <2>4. QED
    BY <1>11, <2>2, <2>3
<1>19. QED
  BY <1>8, <1>14, <1>15, <1>16, <1>17, <1>18 DEF DbConsistent, RowsConsistent, r

-----------------------------------------------------------------------------
(* A step that writes one database keeps the invariant if the new contents   *)
(* are consistent.                                                           *)
LEMMA OneStoreConsistent ==
    ASSUME ReviewInv, AuditInv', NEW s \in Stores, NEW e, DbConsistent(e),
           db' = [db EXCEPT ![s] = e], UNCHANGED backups
    PROVE  ReviewInv'
BY DEF ReviewInv, AuditInv, TypeOK

(* Every step keeps the review invariant. *)
LEMMA ReviewInductive ==
    ASSUME ReviewInv, [Next]_vars
    PROVE  ReviewInv'
<1>0. AuditInv /\ AuditInv' /\ TypeOK
  BY AuditInductive DEF ReviewInv, AuditInv
<1>1. ASSUME NEW s \in Stores, NEW p \in Projects, NEW b \in Branches,
             NEW c \in Commits, NEW rep \in Reports, IngestAnalysis(s, p, b, c, rep)
      PROVE  ReviewInv'
  <2>1. DbConsistent(InsertAnalysisRows(db[s], p, b, c, rep))
    BY <1>0, <1>1, IngestConsistent DEF IngestAnalysis, ReviewInv, TypeOK
  <2>2. QED
    BY <1>0, <1>1, <2>1, OneStoreConsistent DEF IngestAnalysis
<1>2. ASSUME NEW s \in Stores, Review(s)
      PROVE  ReviewInv'
  <2>1. PICK p \in Projects, identity \in Identities, kind \in Kinds,
             state \in RequestedStates, by \in Actors, at \in Stamps,
             a \in DOMAIN db[s].analyses, expected \in 0 .. MaxVersion :
             ApplyReview(s, p, a, identity, kind, state, expected, by, at)
    BY <1>2 DEF Review
  <2>2. state \in ReviewStates
    BY BoundAssumption
  <2>3. DbConsistent(WriteReview(db[s], p, a, identity, kind, state, by, at))
    BY <1>0, <2>1, <2>2, ReviewConsistent DEF ApplyReview, ReviewInv, TypeOK
  <2>4. QED
    BY <1>0, <2>1, <2>3, OneStoreConsistent DEF ApplyReview
<1>3. ASSUME NEW s \in Stores, Delete(s)
      PROVE  ReviewInv'
  <2>1. PICK p \in Projects, by \in Actors, at \in Stamps :
             \/ \E a \in DOMAIN db[s].analyses : DeleteAnalysis(s, p, a, by, at)
             \/ DeleteProject(s, p, by, at)
    BY <1>3 DEF Delete
  <2>2. ASSUME NEW a \in DOMAIN db[s].analyses, DeleteAnalysis(s, p, a, by, at)
        PROVE  ReviewInv'
    <3>1. DbConsistent(Tombstone(db[s], p, {a}, "delete", by, at))
      BY <1>0, TombstoneConsistent DEF ReviewInv, TypeOK
    <3>2. QED
      BY <1>0, <2>2, <3>1, OneStoreConsistent DEF DeleteAnalysis
  <2>3. ASSUME DeleteProject(s, p, by, at)
        PROVE  ReviewInv'
    <3>1. DbConsistent(TombstoneProject(db[s], p, by, at))
      BY <1>0, TombstoneProjectConsistent DEF ReviewInv, TypeOK
    <3>2. QED
      BY <1>0, <2>3, <3>1, OneStoreConsistent DEF DeleteProject
  <2>4. QED
    BY <2>1, <2>2, <2>3
<1>4. ASSUME NEW s \in Stores, Retain(s)
      PROVE  ReviewInv'
  <2>1. PICK p \in Projects, by \in Actors, at \in Stamps,
             before \in {EpochOf[rep] + 1 : rep \in Reports},
             branch \in Branches \cup {AnyBranch} :
             ApplyRetention(s, p, before, branch, by, at)
    BY <1>4 DEF Retain
  <2> DEFINE ids == RetentionTargets(db[s], p, before, branch)
  <2>2. ids \subseteq DOMAIN db[s].analyses
    BY DEF RetentionTargets
  <2> HIDE DEF ids
  <2>3. DbConsistent(Tombstone(db[s], p, ids, "retention", by, at))
    BY <1>0, <2>2, TombstoneConsistent DEF ReviewInv, TypeOK
  <2>4. QED
    BY <1>0, <2>1, <2>3, OneStoreConsistent DEF ApplyRetention, ids
<1>5. ASSUME NEW s \in Stores, NEW p \in Projects, ExportProject(s, p)
      PROVE  ReviewInv'
  <2>1. EnvelopeConsistent(Envelope(db[s], p))
    BY <1>0, ExportConsistent DEF ReviewInv, TypeOK
  <2>2. QED
    BY <1>0, <1>5, <2>1 DEF ExportProject, ReviewInv
<1>6. ASSUME NEW s \in Stores, NEW backup \in backups, Restore(s, backup)
      PROVE  ReviewInv'
  <2>1. DbConsistent(Restored(db[s], backup.envelope))
    BY <1>0, <1>6, RestoreConsistent DEF Restore, ReviewInv, TypeOK
  <2>2. QED
    BY <1>0, <1>6, <2>1, OneStoreConsistent DEF Restore
<1>7. ASSUME UNCHANGED vars
      PROVE  ReviewInv'
  BY <1>0, <1>7 DEF ReviewInv, vars
<1>8. QED
  BY <1>1, <1>2, <1>3, <1>4, <1>5, <1>6, <1>7 DEF Next

(* The review invariant holds in every reachable state. *)
LEMMA ReviewInit == Init => ReviewInv
BY EmptyDbTypeOK, EmptyDbAudited, EmptyDbConsistent DEF Init, TypeOK, AuditInv, ReviewInv

LEMMA ReviewInvariant == Spec => []ReviewInv
<1>1. Init => ReviewInv
  BY ReviewInit
<1>2. ReviewInv /\ [Next]_vars => ReviewInv'
  BY ReviewInductive
<1>3. QED
  BY <1>1, <1>2, PTL DEF Spec

(* The UNIQUE and FOREIGN KEY constraints of the schema hold in every        *)
(* reachable database by the checks of the handlers alone, also after        *)
(* restores of other databases' backups have given the rows new ids.         *)
THEOREM ConstraintsHold == Spec => []SchemaConstraints
<1>1. ReviewInv => SchemaConstraints
  <2>1. ASSUME NEW d, DbConsistent(d)
        PROVE  DbConstraints(d)
    BY <2>1 DEF DbConsistent, RowsConsistent, UniqueRows, ReferencesHold, DbConstraints
  <2>2. QED
    BY <2>1 DEF ReviewInv, SchemaConstraints
<1>2. QED
  BY <1>1, ReviewInvariant, PTL

(* The history of every review is complete and ends in what the review row   *)
(* says, whatever is reviewed, deleted, exported and restored.               *)
THEOREM HistoryIsComplete == Spec => []ReviewHistoryComplete
<1>1. ReviewInv => ReviewHistoryComplete
  BY DEF ReviewInv, DbConsistent, RowsConsistent, ReviewHistoryComplete
<1>2. QED
  BY <1>1, ReviewInvariant, PTL

(* Every export passes the validation of restore and can be restored into an *)
(* empty database.                                                           *)
THEOREM ExportsRestore == Spec => []ExportRestorable
<1>1. ASSUME NEW e, EnvelopeTypeOK(e)
      PROVE  RestoreAgrees(EmptyDb, e)
  <2>1. /\ DOMAIN EmptyDb.analyses = {} /\ DOMAIN EmptyDb.reviews = {}
        /\ EmptyDb.history = {} /\ \A p \in Projects : EmptyDb.projects[p] = Absent
    BY DEF EmptyDb, Database, NoRows
  <2>2. NewAnalyses(EmptyDb, e) = DOMAIN e.analyses
    BY <2>1 DEF NewAnalyses, StoredAnalysis, ExistingAnalysis
  <2>3. NewReviews(EmptyDb, e) = DOMAIN e.reviews
    BY <2>1 DEF NewReviews, StoredReview, ExistingReview
  <2>4. e.project \in Projects
    BY <1>1 DEF EnvelopeTypeOK
  <2>5. QED
    BY <2>1, <2>2, <2>3, <2>4 DEF RestoreAgrees
<1>2. ReviewInv => ExportRestorable
  BY <1>1, ConsistentValidates DEF ReviewInv, AuditInv, TypeOK, ExportRestorable
<1>3. QED
  BY <1>2, ReviewInvariant, PTL

-----------------------------------------------------------------------------
(* What becomes of reviews and their history over time and between stores:   *)
(* no step rewrites them, a restore is a union and restoring again changes   *)
(* nothing, and the whole store implements the append-only ReviewLog.        *)

(* DbOnlyGrows, column by column. *)
GrownFrom(d, e) ==
    /\ \A p \in Projects :
          /\ d.projects[p] \in Stamps => e.projects[p] = d.projects[p]
          /\ d.projects[p] # Absent => e.projects[p] # Absent
    /\ \A i \in DOMAIN d.analyses :
          /\ i \in DOMAIN e.analyses
          /\ e.analyses[i].project = d.analyses[i].project
          /\ e.analyses[i].branch = d.analyses[i].branch
          /\ e.analyses[i].commit = d.analyses[i].commit
          /\ e.analyses[i].report = d.analyses[i].report
          /\ e.analyses[i] = d.analyses[i] \/ d.analyses[i].deleted = Live
    /\ \A i \in DOMAIN d.reviews :
          /\ i \in DOMAIN e.reviews
          /\ e.reviews[i].project = d.reviews[i].project
          /\ e.reviews[i].branch = d.reviews[i].branch
          /\ e.reviews[i].identity = d.reviews[i].identity
          /\ e.reviews[i].kind = d.reviews[i].kind
          /\ \/ e.reviews[i] = d.reviews[i]
             \/ e.reviews[i].version = d.reviews[i].version + 1
    /\ d.history \subseteq e.history
    /\ BagToSet(d.audit) \subseteq BagToSet(e.audit)

(* The columns of an analysis other than its tombstone are never written. *)
LEMMA GrownGrows ==
    ASSUME NEW d, DbTypeOK(d), NEW e, DbTypeOK(e), GrownFrom(d, e)
    PROVE  DbOnlyGrows(d, e)
<1>1. ASSUME NEW i \in DOMAIN d.analyses
      PROVE  \/ e.analyses[i] = d.analyses[i]
             \/ /\ d.analyses[i].deleted = Live
                /\ e.analyses[i] = [d.analyses[i] EXCEPT !.deleted = e.analyses[i].deleted]
  <2>1. d.analyses[i] \in Analyses /\ e.analyses[i] \in Analyses
    BY DEF GrownFrom, DbTypeOK, HasRows
  <2>2. /\ d.analyses[i].project = e.analyses[i].project
        /\ d.analyses[i].branch = e.analyses[i].branch
        /\ d.analyses[i].commit = e.analyses[i].commit
        /\ d.analyses[i].report = e.analyses[i].report
        /\ e.analyses[i] = d.analyses[i] \/ d.analyses[i].deleted = Live
    BY DEF GrownFrom
  <2>3. e.analyses[i] = [d.analyses[i] EXCEPT !.deleted = e.analyses[i].deleted]
    BY <2>1, <2>2, OnlyDeletedDiffers, Zenon
  <2>4. QED
    BY <2>2, <2>3, Zenon
<1>2. \A i \in DOMAIN d.analyses : i \in DOMAIN e.analyses
  BY DEF GrownFrom
<1>3. QED
  BY <1>1, <1>2, Zenon DEF GrownFrom, DbOnlyGrows

(* An ingest only adds. *)
LEMMA IngestGrows ==
    ASSUME NEW d, DbTypeOK(d), NEW p \in Projects, NEW b \in Branches,
           NEW c \in Commits, NEW rep \in Reports
    PROVE  GrownFrom(d, InsertAnalysisRows(d, p, b, c, rep))
<1> DEFINE e == InsertAnalysisRows(d, p, b, c, rep)
<1>1. Ingested(d, e, p, b, c, rep)
  BY IngestTables
<1> HIDE DEF e
<1>2. GrownFrom(d, e)
  BY <1>1, SentinelAssumption DEF GrownFrom, Ingested
<1>3. QED
  BY <1>2 DEF e

(* A review only changes a row with its version. *)
LEMMA ReviewGrows ==
    ASSUME NEW d, DbTypeOK(d), NEW p \in Projects, NEW a, a \in DOMAIN d.analyses,
           NEW identity \in Identities, NEW kind \in Kinds, NEW state \in ReviewStates,
           NEW expected, NEW by \in Actors, NEW at \in Stamps,
           ReviewAccepted(d, p, a, identity, kind, state, expected)
    PROVE  GrownFrom(d, WriteReview(d, p, a, identity, kind, state, by, at))
<1> DEFINE e == WriteReview(d, p, a, identity, kind, state, by, at)
<1>1. PICK id, entry : ReviewWritten(d, e, p, a, identity, kind, state, id, entry)
  BY ReviewTables
<1> HIDE DEF e
<1>2. GrownFrom(d, e)
  BY <1>1 DEF GrownFrom, ReviewWritten
<1>3. QED
  BY <1>2 DEF e

(* Deletion and retention mark live analyses only. *)
LEMMA TombstoneGrows ==
    ASSUME NEW d, DbTypeOK(d), NEW p \in Projects, NEW ids, ids \subseteq DOMAIN d.analyses,
           \A i \in ids : d.analyses[i].deleted = Live,
           NEW action \in {"delete", "retention"}, NEW by \in Actors, NEW at \in Stamps
    PROVE  GrownFrom(d, Tombstone(d, p, ids, action, by, at))
<1> DEFINE e == Tombstone(d, p, ids, action, by, at)
<1>1. Tombstoned(d, e, ids, at)
  BY TombstoneTables
<1> HIDE DEF e
<1>2. GrownFrom(d, e)
  BY <1>1 DEF GrownFrom, Tombstoned
<1>3. QED
  BY <1>2 DEF e

(* Only an active project is deleted. *)
LEMMA TombstoneProjectGrows ==
    ASSUME NEW d, DbTypeOK(d), NEW p \in Projects, ActiveProject(d, p),
           NEW by \in Actors, NEW at \in Stamps
    PROVE  GrownFrom(d, TombstoneProject(d, p, by, at))
<1> DEFINE e == TombstoneProject(d, p, by, at)
<1>1. /\ \A q \in Projects : e.projects[q] = IF q = p THEN at ELSE d.projects[q]
      /\ e.analyses = d.analyses /\ e.reviews = d.reviews /\ e.history = d.history
      /\ BagToSet(d.audit) \subseteq BagToSet(e.audit)
  BY TombstoneProjectTables
<1> HIDE DEF e
<1>2. GrownFrom(d, e)
  BY <1>1, SentinelAssumption DEF GrownFrom, ActiveProject
<1>3. QED
  BY <1>2 DEF e

(* An accepted restore writes no row that the target has. *)
LEMMA RestoreGrows ==
    ASSUME NEW d, DbTypeOK(d), DbConsistent(d), NEW e, EnvelopeTypeOK(e),
           EnvelopeConsistent(e), ValidateRestore(e), RestoreAgrees(d, e)
    PROVE  GrownFrom(d, Restored(d, e))
<1> DEFINE r == Restored(d, e)
<1>1. AnalysesMerged(d, e, r, AnalysisIds(d, e))
  BY RestoreAnalysesMerged
<1>2. ReviewsMerged(d, e, r, AnalysisIds(d, e), ReviewIds(d, e))
  BY RestoreReviewsMerged
<1>3. HistoryMerged(d, e, r, AnalysisIds(d, e), ReviewIds(d, e))
  BY RestoreHistoryMerged
<1>4. BagToSet(d.audit) \subseteq BagToSet(r.audit)
  BY RestoreProjectsDeleted DEF DbConsistent, EnvelopeConsistent, RowsConsistent
<1>5. /\ r.projects = [d.projects EXCEPT ![e.project] = e.deleted]
      /\ DOMAIN d.projects = Projects
  BY DEF Restored, Database, DbTypeOK
<1>6. d.projects[e.project] \in {Absent, e.deleted} /\ e.deleted # Absent
  BY SentinelAssumption DEF RestoreAgrees, EnvelopeTypeOK
<1> HIDE DEF r
<1>7. \A p \in Projects :
         /\ d.projects[p] \in Stamps => r.projects[p] = d.projects[p]
         /\ d.projects[p] # Absent => r.projects[p] # Absent
  BY <1>5, <1>6, SentinelAssumption
<1>8. GrownFrom(d, r)
  BY <1>1, <1>2, <1>3, <1>4, <1>7
     DEF GrownFrom, AnalysesMerged, ReviewsMerged, HistoryMerged
<1>9. QED
  BY <1>8 DEF r

(* A step writes one database, and what it writes has grown from it. *)
LEMMA StepsGrow ==
    ASSUME ReviewInv, [Next]_vars
    PROVE  \A s \in Stores : GrownFrom(db[s], db'[s])
<1>0. /\ TypeOK /\ \A s \in Stores : DbTypeOK(db[s])
      /\ DOMAIN db = Stores
  BY DEF ReviewInv, AuditInv, TypeOK
<1>1. ASSUME NEW t \in Stores, NEW e, GrownFrom(db[t], e), db' = [db EXCEPT ![t] = e]
      PROVE  \A s \in Stores : GrownFrom(db[s], db'[s])
  <2>1. \A s \in Stores : GrownFrom(db[s], db[s])
    BY DEF GrownFrom
  <2>2. QED
    BY <1>0, <1>1, <2>1
<1>2. ASSUME db' = db
      PROVE  \A s \in Stores : GrownFrom(db[s], db'[s])
  BY <1>2 DEF GrownFrom
<1>3. ASSUME NEW t \in Stores, NEW p \in Projects, NEW b \in Branches,
             NEW c \in Commits, NEW rep \in Reports, IngestAnalysis(t, p, b, c, rep)
      PROVE  \A s \in Stores : GrownFrom(db[s], db'[s])
  <2>1. GrownFrom(db[t], InsertAnalysisRows(db[t], p, b, c, rep))
    BY <1>0, IngestGrows
  <2>2. QED
    BY <1>1, <1>3, <2>1 DEF IngestAnalysis
<1>4. ASSUME NEW t \in Stores, Review(t)
      PROVE  \A s \in Stores : GrownFrom(db[s], db'[s])
  <2>1. PICK p \in Projects, identity \in Identities, kind \in Kinds,
             state \in RequestedStates, by \in Actors, at \in Stamps,
             a \in DOMAIN db[t].analyses, expected \in 0 .. MaxVersion :
             ApplyReview(t, p, a, identity, kind, state, expected, by, at)
    BY <1>4 DEF Review
  <2>2. state \in ReviewStates
    BY BoundAssumption
  <2>3. GrownFrom(db[t], WriteReview(db[t], p, a, identity, kind, state, by, at))
    BY <1>0, <2>1, <2>2, ReviewGrows DEF ApplyReview
  <2>4. QED
    BY <1>1, <2>1, <2>3 DEF ApplyReview
<1>5. ASSUME NEW t \in Stores, Delete(t)
      PROVE  \A s \in Stores : GrownFrom(db[s], db'[s])
  <2>1. PICK p \in Projects, by \in Actors, at \in Stamps :
             \/ \E a \in DOMAIN db[t].analyses : DeleteAnalysis(t, p, a, by, at)
             \/ DeleteProject(t, p, by, at)
    BY <1>5 DEF Delete
  <2>2. ASSUME NEW a \in DOMAIN db[t].analyses, DeleteAnalysis(t, p, a, by, at)
        PROVE  \A s \in Stores : GrownFrom(db[s], db'[s])
    <3>1. GrownFrom(db[t], Tombstone(db[t], p, {a}, "delete", by, at))
      BY <1>0, <2>2, TombstoneGrows DEF DeleteAnalysis
    <3>2. QED
      BY <1>1, <2>2, <3>1 DEF DeleteAnalysis
  <2>3. ASSUME DeleteProject(t, p, by, at)
        PROVE  \A s \in Stores : GrownFrom(db[s], db'[s])
    <3>1. GrownFrom(db[t], TombstoneProject(db[t], p, by, at))
      BY <1>0, <2>3, TombstoneProjectGrows DEF DeleteProject
    <3>2. QED
      BY <1>1, <2>3, <3>1 DEF DeleteProject
  <2>4. QED
    BY <2>1, <2>2, <2>3
<1>6. ASSUME NEW t \in Stores, Retain(t)
      PROVE  \A s \in Stores : GrownFrom(db[s], db'[s])
  <2>1. PICK p \in Projects, by \in Actors, at \in Stamps,
             before \in {EpochOf[rep] + 1 : rep \in Reports},
             branch \in Branches \cup {AnyBranch} :
             ApplyRetention(t, p, before, branch, by, at)
    BY <1>6 DEF Retain
  <2> DEFINE ids == RetentionTargets(db[t], p, before, branch)
  <2>2. ids \subseteq DOMAIN db[t].analyses /\ \A i \in ids : db[t].analyses[i].deleted = Live
    BY DEF RetentionTargets
  <2> HIDE DEF ids
  <2>3. GrownFrom(db[t], Tombstone(db[t], p, ids, "retention", by, at))
    BY <1>0, <2>2, TombstoneGrows
  <2>4. QED
    BY <1>1, <2>1, <2>3 DEF ApplyRetention, ids
<1>7. ASSUME NEW t \in Stores, NEW backup \in backups, Restore(t, backup)
      PROVE  \A s \in Stores : GrownFrom(db[s], db'[s])
  <2>1. GrownFrom(db[t], Restored(db[t], backup.envelope))
    BY <1>0, <1>7, RestoreGrows DEF Restore, ReviewInv, TypeOK
  <2>2. QED
    BY <1>1, <1>7, <2>1 DEF Restore
<1>8. QED
  BY <1>2, <1>3, <1>4, <1>5, <1>6, <1>7 DEF Next, vars, ExportProject

(* No step of any handler rewrites history: reports and tombstones stay,     *)
(* history and audit only grow, and a review row only changes with its       *)
(* version.                                                                  *)
THEOREM HistoryStays == Spec => HistoryImmutable
<1>1. ReviewInv /\ ReviewInv' /\ [Next]_vars => \A s \in Stores : DbOnlyGrows(db[s], db'[s])
  BY StepsGrow, GrownGrows DEF ReviewInv, AuditInv, TypeOK
<1>2. QED
  BY <1>1, ReviewInvariant, PTL DEF Spec, HistoryImmutable

(* What a finding of a live analysis shows does not depend on tombstones of  *)
(* other analyses or on rows that were added.                                *)
LEMMA GrownVisible ==
    ASSUME NEW d, DbConsistent(d), NEW e, GrownFrom(d, e), d.reviews = e.reviews,
           NEW a, a \in DOMAIN d.analyses, e.analyses[a].deleted = Live, NEW identity, NEW kind
    PROVE  VisibleReview(d, a, identity, kind) = VisibleReview(e, a, identity, kind)
<1>1. /\ d.analyses[a].project = e.analyses[a].project
      /\ d.analyses[a].branch = e.analyses[a].branch
      /\ d.analyses[a].report = e.analyses[a].report
      /\ d.analyses[a].deleted = Live
  BY DEF GrownFrom
<1> DEFINE key == ExistingReview(d, d.analyses[a].project, d.analyses[a].branch, identity, kind)
<1>2. key = ExistingReview(e, e.analyses[a].project, e.analyses[a].branch, identity, kind)
  BY <1>1 DEF ExistingReview
<1>3. ASSUME NEW i \in key
      PROVE  ContextCompatible(d, a, d.reviews[i].analysis)
             <=> ContextCompatible(e, a, e.reviews[i].analysis)
  <2>1. i \in DOMAIN d.reviews
    BY DEF ExistingReview
  <2>2. d.reviews[i].analysis \in DOMAIN d.analyses
    BY <2>1 DEF DbConsistent, RowsConsistent, ReferencesHold
  <2>3. e.analyses[d.reviews[i].analysis].report = d.analyses[d.reviews[i].analysis].report
    BY <2>2 DEF GrownFrom
  <2>4. QED
    BY <1>1, <2>3 DEF ContextCompatible
<1> HIDE DEF key
<1>4. QED
  BY <1>2, <1>3 DEF VisibleReview, key

(* Deleting or retaining other analyses, ingesting and restoring never hide  *)
(* a review from a finding of an analysis that stays.                        *)
THEOREM ReviewsVisible == Spec => ReviewsStayVisible
<1>1. ReviewInv /\ [Next]_vars =>
         \A s \in Stores : db[s].reviews = db'[s].reviews =>
            \A a \in DOMAIN db[s].analyses, identity \in Identities, kind \in Kinds :
                db'[s].analyses[a].deleted = Live =>
                    VisibleReview(db[s], a, identity, kind)
                    = VisibleReview(db'[s], a, identity, kind)
  BY StepsGrow, GrownVisible DEF ReviewInv
<1>2. QED
  BY <1>1, ReviewInvariant, PTL DEF Spec, ReviewsStayVisible

-----------------------------------------------------------------------------
(* Restoring again.  A bag does not change when nothing is added to it, nor  *)
(* a table when no row is new.                                               *)
LEMMA BagPlusNothing ==
    ASSUME NEW B, IsABag(B)
    PROVE  B (+) SetToBag({}) = B
BY DEF IsABag, BagToSet, SetToBag, (+)

LEMMA MergeNothing ==
    ASSUME NEW table, table = [i \in DOMAIN table |-> table[i]], NEW ids, NEW rows
    PROVE  Merge(table, {}, ids, rows) = table
BY DEF Merge

(* A database is a record of its tables. *)
DbShaped(d) ==
    d = Database(d.projects, d.analyses, d.lastAnalysis, d.reviews, d.lastReview,
                 d.history, d.audit)

(* A restore that finds all rows of the envelope changes nothing. *)
LEMMA NothingToRestore ==
    ASSUME NEW d, DbTypeOK(d), DbShaped(d), NEW e, EnvelopeTypeOK(e),
           NewAnalyses(d, e) = {}, NewReviews(d, e) = {},
           d.projects[e.project] = e.deleted,
           MappedHistory(e, AnalysisIds(d, e), ReviewIds(d, e)) \subseteq d.history,
           MappedDeletions(e, AnalysisIds(d, e)) \subseteq BagToSet(d.audit)
    PROVE  Restored(d, e) = d
<1> DEFINE aids == AnalysisIds(d, e)
           rids == ReviewIds(d, e)
           rows == [i \in DOMAIN e.reviews |-> MappedReview(e, i, aids)]
<1>1. [d.projects EXCEPT ![e.project] = e.deleted] = d.projects
  BY DEF DbTypeOK
<1>2. Merge(d.analyses, NewAnalyses(d, e), aids, e.analyses) = d.analyses
  BY MergeNothing DEF DbTypeOK, HasRows
<1>3. Merge(d.reviews, NewReviews(d, e), rids, rows) = d.reviews
  <2>1. d.reviews = [i \in DOMAIN d.reviews |-> d.reviews[i]]
    BY DEF DbTypeOK, HasRows
  <2> HIDE DEF rids, rows
  <2>2. QED
    BY <2>1, MergeNothing
<1>4. /\ d.lastAnalysis + Cardinality(NewAnalyses(d, e)) = d.lastAnalysis
      /\ d.lastReview + Cardinality(NewReviews(d, e)) = d.lastReview
  BY FS_EmptySet DEF DbTypeOK
<1>5. d.history \cup MappedHistory(e, aids, rids) = d.history
  OBVIOUS
<1>6. d.audit (+) SetToBag(NewDeletions(d, e, aids)) = d.audit
  <2>1. NewDeletions(d, e, aids) = {}
    BY DEF NewDeletions
  <2>2. QED
    BY <2>1, BagPlusNothing DEF DbTypeOK
<1>7. Restored(d, e)
        = Database([d.projects EXCEPT ![e.project] = e.deleted],
                   Merge(d.analyses, NewAnalyses(d, e), aids, e.analyses),
                   d.lastAnalysis + Cardinality(NewAnalyses(d, e)),
                   Merge(d.reviews, NewReviews(d, e), rids, rows),
                   d.lastReview + Cardinality(NewReviews(d, e)),
                   d.history \cup MappedHistory(e, aids, rids),
                   d.audit (+) SetToBag(NewDeletions(d, e, aids)))
  BY Zenon DEF Restored
<1> HIDE DEF aids, rids, rows
<1>8. QED
  BY <1>1, <1>2, <1>3, <1>4, <1>5, <1>6, <1>7, Zenon DEF DbShaped

(* Rows of the database for all rows of an envelope, by their keys. *)
FoundAt(d, e, aids, rids) ==
    /\ \A i \in DOMAIN e.analyses :
          /\ aids[i] \in DOMAIN d.analyses
          /\ d.analyses[aids[i]].project = e.project
          /\ d.analyses[aids[i]].branch = e.analyses[i].branch
          /\ d.analyses[aids[i]].commit = e.analyses[i].commit
    /\ \A i \in DOMAIN e.reviews :
          /\ rids[i] \in DOMAIN d.reviews
          /\ d.reviews[rids[i]].project = e.project
          /\ d.reviews[rids[i]].branch = e.reviews[i].branch
          /\ d.reviews[rids[i]].identity = e.reviews[i].identity
          /\ d.reviews[rids[i]].kind = e.reviews[i].kind

NothingNew(d, e, aids, rids) ==
    /\ NewAnalyses(d, e) = {} /\ NewReviews(d, e) = {}
    /\ AnalysisIds(d, e) = [i \in DOMAIN e.analyses |-> aids[i]]
    /\ ReviewIds(d, e) = [i \in DOMAIN e.reviews |-> rids[i]]

(* The ids of rows that a consistent database has are determined. *)
LEMMA IdsDetermined ==
    ASSUME NEW d, DbTypeOK(d), DbConsistent(d), NEW e, EnvelopeTypeOK(e), EnvelopeConsistent(e),
           NEW aids, NEW rids, FoundAt(d, e, aids, rids)
    PROVE  NothingNew(d, e, aids, rids)
<1>1. \A i \in DOMAIN e.analyses : aids[i] \in StoredAnalysis(d, e, i)
  BY DEF FoundAt, StoredAnalysis, ExistingAnalysis
<1>2. NewAnalyses(d, e) = {}
  BY <1>1 DEF NewAnalyses
<1>3. \A i \in DOMAIN e.reviews : rids[i] \in StoredReview(d, e, i)
  BY DEF FoundAt, StoredReview, ExistingReview
<1>4. NewReviews(d, e) = {}
  BY <1>3 DEF NewReviews
<1>5. UniqueRows(d)
  BY DEF DbConsistent, RowsConsistent
<1>6. ASSUME NEW i \in DOMAIN e.analyses
      PROVE  AnalysisIds(d, e)[i] = aids[i]
  <2>1. AnalysisIds(d, e)[i] \in StoredAnalysis(d, e, i)
    BY <1>2, RestoredAnalysisIds
  <2>2. QED
    BY <1>1, <1>5, <2>1 DEF StoredAnalysis, ExistingAnalysis, UniqueRows
<1>7. ASSUME NEW i \in DOMAIN e.reviews
      PROVE  ReviewIds(d, e)[i] = rids[i]
  <2>1. ReviewIds(d, e)[i] \in StoredReview(d, e, i)
    BY <1>4, RestoredReviewIds
  <2>2. QED
    BY <1>3, <1>5, <2>1 DEF StoredReview, ExistingReview, UniqueRows
<1>8. /\ AnalysisIds(d, e) = [i \in DOMAIN e.analyses |-> AnalysisIds(d, e)[i]]
      /\ ReviewIds(d, e) = [i \in DOMAIN e.reviews |-> ReviewIds(d, e)[i]]
  BY DEF AnalysisIds, ReviewIds
<1>9. QED
  BY <1>2, <1>4, <1>6, <1>7, <1>8 DEF NothingNew

(* The audit of the target holds the audit of a restored envelope. *)
LEMMA RestoredAudit ==
    ASSUME NEW d, DbTypeOK(d), NEW e
    PROVE  BagToSet(Restored(d, e).audit)
             = BagToSet(d.audit) \cup MappedDeletions(e, AnalysisIds(d, e))
<1> DEFINE mapped == MappedDeletions(e, AnalysisIds(d, e))
           marks == NewDeletions(d, e, AnalysisIds(d, e))
<1>1. Restored(d, e).audit = d.audit (+) SetToBag(marks)
  BY DEF Restored, Database
<1>2. marks = mapped \ BagToSet(d.audit)
  BY DEF NewDeletions
<1> HIDE DEF mapped, marks
<1>3. BagToSet(d.audit (+) SetToBag(marks)) = BagToSet(d.audit) \cup marks
  BY BagPlusSet DEF DbTypeOK
<1>4. QED
  BY <1>1, <1>2, <1>3 DEF mapped

(* The second restore of an envelope is accepted and changes nothing. *)
LEMMA RestoreTwice ==
    ASSUME NEW d, DbTypeOK(d), DbConsistent(d), NEW e, EnvelopeTypeOK(e),
           EnvelopeConsistent(e), ValidateRestore(e), RestoreAgrees(d, e)
    PROVE  /\ RestoreAgrees(Restored(d, e), e)
           /\ Restored(Restored(d, e), e) = Restored(d, e)
<1> DEFINE aids == AnalysisIds(d, e)
           rids == ReviewIds(d, e)
           r == Restored(d, e)
<1>1. DbTypeOK(r) /\ DbConsistent(r)
  BY RestoreTypeOK, RestoreConsistent
<1>2. DbShaped(r)
  BY DEF DbShaped, Restored, Database
<1>3. AnalysesMerged(d, e, r, aids)
  BY RestoreAnalysesMerged
<1>4. /\ ReviewsMerged(d, e, r, aids, rids)
      /\ \A i \in DOMAIN e.reviews : r.reviews[rids[i]] = MappedReview(e, i, aids)
  BY RestoreReviewsMerged
<1>5. /\ aids = [i \in DOMAIN e.analyses |-> aids[i]]
      /\ rids = [i \in DOMAIN e.reviews |-> rids[i]]
  BY DEF AnalysisIds, ReviewIds
<1>6. r.projects[e.project] = e.deleted
  <2>1. r.projects = [d.projects EXCEPT ![e.project] = e.deleted]
    BY DEF Restored, Database
  <2>2. e.project \in DOMAIN d.projects
    BY DEF DbTypeOK, EnvelopeTypeOK
  <2> HIDE DEF r
  <2>3. QED
    BY <2>1, <2>2
<1>7. MappedHistory(e, aids, rids) \subseteq r.history
  BY DEF Restored, Database
<1>8. MappedDeletions(e, aids) \subseteq BagToSet(r.audit)
  BY RestoredAudit
<1> HIDE DEF aids, rids, r
<1>9. /\ NewAnalyses(r, e) = {} /\ NewReviews(r, e) = {}
      /\ AnalysisIds(r, e) = aids /\ ReviewIds(r, e) = rids
  <2>1. FoundAt(r, e, aids, rids)
    BY <1>3, <1>4 DEF FoundAt, AnalysesMerged, ReviewsMerged, ReviewImage, EnvelopeConsistent
  <2>2. NothingNew(r, e, aids, rids)
    BY <1>1, <2>1, IdsDetermined
  <2>3. QED
    BY <1>5, <2>2 DEF NothingNew
<1>10. RestoreAgrees(r, e)
  <2>1. \A h \in MappedHistory(e, aids, rids), g \in r.history :
           g.review = h.review /\ g.version = h.version => g = h
    BY <1>1, <1>7 DEF DbConsistent, RowsConsistent, UniqueRows
  <2>2. \A i \in DOMAIN e.analyses : r.analyses[aids[i]] = e.analyses[i]
    BY <1>3 DEF AnalysesMerged
  <2>3. QED
    BY <1>4, <1>6, <1>9, <2>1, <2>2 DEF RestoreAgrees
<1>11. Restored(r, e) = r
  BY <1>1, <1>2, <1>6, <1>7, <1>8, <1>9, NothingToRestore
<1>12. QED
  BY <1>10, <1>11 DEF r

-----------------------------------------------------------------------------
(* The origin of a backup still has its rows, under their ids and with their *)
(* keys.                                                                     *)
KeptBy(d, e) ==
    /\ d.projects[e.project] # Absent
    /\ \A i \in DOMAIN e.analyses :
          /\ i \in DOMAIN d.analyses
          /\ d.analyses[i].project = e.project
          /\ d.analyses[i].branch = e.analyses[i].branch
          /\ d.analyses[i].commit = e.analyses[i].commit
    /\ \A i \in DOMAIN e.reviews :
          /\ i \in DOMAIN d.reviews
          /\ d.reviews[i].project = e.project
          /\ d.reviews[i].branch = e.reviews[i].branch
          /\ d.reviews[i].identity = e.reviews[i].identity
          /\ d.reviews[i].kind = e.reviews[i].kind
    /\ e.history \subseteq d.history
    /\ BagToSet(e.audit) \subseteq BagToSet(d.audit)

OriginInv ==
    /\ ReviewInv
    /\ \A s \in Stores : DbShaped(db[s])
    /\ \A x \in backups : KeptBy(db[x.origin], x.envelope)

(* A database keeps what it exports. *)
LEMMA ExportKept ==
    ASSUME NEW d, NEW p, d.projects[p] # Absent
    PROVE  KeptBy(d, Envelope(d, p))
<1> DEFINE analyses == OfProject(d.analyses, p)
           reviews == OfProject(d.reviews, p)
           marks == {x \in BagToSet(d.audit) : x.project = p}
           e == Envelope(d, p)
<1>1. /\ e.project = p
      /\ e.analyses = [i \in analyses |-> d.analyses[i]]
      /\ e.reviews = [i \in reviews |-> d.reviews[i]]
      /\ e.history = {h \in d.history : h.review \in reviews}
      /\ e.audit = [r \in marks |-> d.audit[r]]
  BY DEF Envelope
<1>2. /\ \A i \in analyses : i \in DOMAIN d.analyses /\ d.analyses[i].project = p
      /\ \A i \in reviews : i \in DOMAIN d.reviews /\ d.reviews[i].project = p
  BY DEF OfProject
<1> HIDE DEF e, analyses, reviews
<1>3. /\ DOMAIN e.analyses = analyses /\ \A i \in analyses : e.analyses[i] = d.analyses[i]
      /\ DOMAIN e.reviews = reviews /\ \A i \in reviews : e.reviews[i] = d.reviews[i]
      /\ BagToSet(e.audit) = marks
  BY <1>1 DEF BagToSet
<1>4. e.history \subseteq d.history
  BY <1>1
<1>5. KeptBy(d, e)
  BY <1>1, <1>2, <1>3, <1>4 DEF KeptBy
<1>6. QED
  BY <1>5 DEF e

(* What a database keeps, it keeps as it grows. *)
LEMMA GrownKeeps ==
    ASSUME NEW d, NEW e, EnvelopeTypeOK(e), KeptBy(d, e), NEW f, GrownFrom(d, f)
    PROVE  KeptBy(f, e)
BY DEF KeptBy, GrownFrom, EnvelopeTypeOK

(* A backup that the database it comes from accepts has nothing new for it. *)
LEMMA RestoreAtOrigin ==
    ASSUME NEW d, DbTypeOK(d), DbShaped(d), DbConsistent(d), NEW e, EnvelopeTypeOK(e),
           EnvelopeConsistent(e), EnvelopeAudited(e), KeptBy(d, e), RestoreAgrees(d, e)
    PROVE  Restored(d, e) = d
<1> DEFINE aids == [i \in DOMAIN e.analyses |-> i]
           rids == [i \in DOMAIN e.reviews |-> i]
<1>1. /\ NewAnalyses(d, e) = {} /\ NewReviews(d, e) = {}
      /\ AnalysisIds(d, e) = aids /\ ReviewIds(d, e) = rids
  <2>1. FoundAt(d, e, aids, rids)
    BY DEF FoundAt, KeptBy
  <2>2. NothingNew(d, e, aids, rids)
    BY <2>1, IdsDetermined
  <2>3. QED
    BY <2>2 DEF NothingNew
<1>2. d.projects[e.project] = e.deleted
  BY DEF KeptBy, RestoreAgrees
<1>3. /\ \A i \in DOMAIN e.analyses : aids[i] = i
      /\ \A i \in DOMAIN e.reviews : rids[i] = i
  OBVIOUS
<1> HIDE DEF aids, rids
<1>4. ASSUME NEW h \in e.history
      PROVE  [h EXCEPT !.review = rids[@], !.analysis = aids[@]] = h
  <2>1. h \in Histories
    BY DEF EnvelopeTypeOK
  <2>2. rids[h.review] = h.review /\ aids[h.analysis] = h.analysis
    BY <1>3 DEF EnvelopeConsistent, RowsConsistent, ReferencesHold
  <2>3. QED
    BY <2>1, <2>2, Zenon DEF Histories
<1>5. MappedHistory(e, aids, rids) \subseteq d.history
  <2>1. MappedHistory(e, aids, rids) \subseteq e.history
    BY <1>4, Zenon DEF MappedHistory
  <2>2. QED
    BY <2>1 DEF KeptBy
<1>6. ASSUME NEW r \in BagToSet(e.audit)
      PROVE  [r EXCEPT !.analysis = IF @ = NoAnalysis THEN @ ELSE aids[@]] = r
  <2>1. r \in Audits
    BY DEF EnvelopeTypeOK
  <2>2. r.analysis = NoAnalysis \/ aids[r.analysis] = r.analysis
    BY <1>3 DEF EnvelopeAudited
  <2>3. QED
    BY <2>1, <2>2, Zenon DEF Audits
<1>7. MappedDeletions(e, aids) \subseteq BagToSet(d.audit)
  <2>1. MappedDeletions(e, aids) \subseteq BagToSet(e.audit)
    BY <1>6, Zenon DEF MappedDeletions
  <2>2. QED
    BY <2>1 DEF KeptBy
<1>8. QED
  BY <1>1, <1>2, <1>5, <1>7, NothingToRestore

(* Every operation writes a record of tables. *)
LEMMA OperationsShaped ==
    ASSUME NEW d, NEW p, NEW a, NEW b, NEW c, NEW f, NEW g, NEW h
    PROVE  /\ DbShaped(InsertAnalysisRows(d, p, a, b, c))
           /\ DbShaped(WriteReview(d, p, a, b, c, f, g, h))
           /\ DbShaped(Tombstone(d, p, a, b, c, f))
           /\ DbShaped(TombstoneProject(d, p, a, b))
           /\ DbShaped(Restored(d, p))
<1>1. ASSUME NEW t1, NEW t2, NEW t3, NEW t4, NEW t5, NEW t6, NEW t7
      PROVE  DbShaped(Database(t1, t2, t3, t4, t5, t6, t7))
  BY DEF DbShaped, Database
<1>2. DbShaped(InsertAnalysisRows(d, p, a, b, c))
  BY <1>1, Zenon DEF InsertAnalysisRows
<1>3. DbShaped(WriteReview(d, p, a, b, c, f, g, h))
  BY <1>1, Zenon DEF WriteReview
<1>4. DbShaped(Tombstone(d, p, a, b, c, f))
  BY <1>1, Zenon DEF Tombstone
<1>5. DbShaped(TombstoneProject(d, p, a, b))
  BY <1>1, Zenon DEF TombstoneProject
<1>6. DbShaped(Restored(d, p))
  BY <1>1, Zenon DEF Restored
<1>7. QED
  BY <1>2, <1>3, <1>4, <1>5, <1>6

LEMMA StepsShaped ==
    ASSUME DOMAIN db = Stores, \A s \in Stores : DbShaped(db[s]), [Next]_vars
    PROVE  \A s \in Stores : DbShaped(db'[s])
<1>1. ASSUME NEW t \in Stores, NEW e, DbShaped(e), db' = [db EXCEPT ![t] = e]
      PROVE  \A s \in Stores : DbShaped(db'[s])
  BY <1>1
<1>2. ASSUME NEW t \in Stores, NEW p, NEW b, NEW c, NEW rep, IngestAnalysis(t, p, b, c, rep)
      PROVE  \A s \in Stores : DbShaped(db'[s])
  BY <1>1, <1>2, OperationsShaped DEF IngestAnalysis
<1>3. ASSUME NEW t \in Stores, NEW p, NEW a, NEW identity, NEW kind, NEW state, NEW expected,
             NEW by, NEW at, ApplyReview(t, p, a, identity, kind, state, expected, by, at)
      PROVE  \A s \in Stores : DbShaped(db'[s])
  BY <1>1, <1>3, OperationsShaped DEF ApplyReview
<1>4. ASSUME NEW t \in Stores, NEW p, NEW a, NEW by, NEW at, DeleteAnalysis(t, p, a, by, at)
      PROVE  \A s \in Stores : DbShaped(db'[s])
  BY <1>1, <1>4, OperationsShaped DEF DeleteAnalysis
<1>5. ASSUME NEW t \in Stores, NEW p, NEW by, NEW at, DeleteProject(t, p, by, at)
      PROVE  \A s \in Stores : DbShaped(db'[s])
  BY <1>1, <1>5, OperationsShaped DEF DeleteProject
<1>6. ASSUME NEW t \in Stores, NEW p, NEW before, NEW branch, NEW by, NEW at,
             ApplyRetention(t, p, before, branch, by, at)
      PROVE  \A s \in Stores : DbShaped(db'[s])
  BY <1>1, <1>6, OperationsShaped DEF ApplyRetention
<1>7. ASSUME NEW t \in Stores, NEW backup, Restore(t, backup)
      PROVE  \A s \in Stores : DbShaped(db'[s])
  BY <1>1, <1>7, OperationsShaped DEF Restore
<1>8. ASSUME db' = db
      PROVE  \A s \in Stores : DbShaped(db'[s])
  BY <1>8
<1>9. QED
  BY <1>2, <1>3, <1>4, <1>5, <1>6, <1>7, <1>8, Zenon
  DEF Next, Review, Delete, Retain, ExportProject, vars

(* A new backup is one that its store keeps. *)
LEMMA StepsKeep ==
    ASSUME OriginInv, [Next]_vars
    PROVE  \A x \in backups' : KeptBy(db'[x.origin], x.envelope)
<1>1. TypeOK /\ \A s \in Stores : GrownFrom(db[s], db'[s])
  BY StepsGrow DEF OriginInv, ReviewInv, AuditInv
<1>2. \A x \in backups : KeptBy(db'[x.origin], x.envelope)
  <2>1. ASSUME NEW x \in backups
        PROVE  KeptBy(db'[x.origin], x.envelope)
    <3>1. /\ x.origin \in Stores /\ EnvelopeTypeOK(x.envelope)
          /\ KeptBy(db[x.origin], x.envelope) /\ GrownFrom(db[x.origin], db'[x.origin])
      BY <1>1 DEF TypeOK, OriginInv
    <3>2. QED
      BY <3>1, GrownKeeps
  <2>2. QED
    BY <2>1
<1>3. ASSUME NEW s \in Stores, NEW p \in Projects, ExportProject(s, p)
      PROVE  \A x \in backups' : KeptBy(db'[x.origin], x.envelope)
  <2> DEFINE new == [origin |-> s, envelope |-> Envelope(db[s], p)]
  <2>1. new.origin = s /\ new.envelope = Envelope(db[s], p)
    OBVIOUS
  <2>2. KeptBy(db[s], Envelope(db[s], p))
    BY <1>3, ExportKept DEF ExportProject
  <2>3. backups' = backups \cup {new} /\ db' = db
    BY <1>3 DEF ExportProject
  <2> HIDE DEF new
  <2>4. QED
    BY <1>2, <2>1, <2>2, <2>3
<1>4. CASE UNCHANGED backups
  BY <1>2, <1>4
<1>5. ASSUME NEW s \in Stores, Review(s) \/ Delete(s) \/ Retain(s)
      PROVE  UNCHANGED backups
  BY <1>5 DEF Review, ApplyReview, Delete, DeleteAnalysis, DeleteProject, Retain, ApplyRetention
<1>6. ASSUME NEW s \in Stores,
             \/ \E p \in Projects, b \in Branches, c \in Commits, rep \in Reports :
                   IngestAnalysis(s, p, b, c, rep)
             \/ \E backup \in backups : Restore(s, backup)
      PROVE  UNCHANGED backups
  BY <1>6 DEF IngestAnalysis, Restore
<1>7. CASE UNCHANGED vars
  BY <1>4, <1>7 DEF vars
<1>8. QED
  BY <1>3, <1>4, <1>5, <1>6, <1>7 DEF Next

(* Every step keeps the invariant about origins. *)
LEMMA OriginInductive ==
    ASSUME OriginInv, [Next]_vars
    PROVE  OriginInv'
<1>1. ReviewInv' /\ DOMAIN db = Stores
  BY ReviewInductive DEF OriginInv, ReviewInv, AuditInv, TypeOK
<1>2. \A s \in Stores : DbShaped(db'[s])
  BY <1>1, StepsShaped DEF OriginInv
<1>3. QED
  BY <1>1, <1>2, StepsKeep DEF OriginInv

LEMMA OriginInvariant == Spec => []OriginInv
<1>1. Init => ReviewInv
  BY ReviewInit
<1>2. Init => OriginInv
  BY <1>1 DEF Init, OriginInv, DbShaped, EmptyDb, Database
<1>3. OriginInv /\ [Next]_vars => OriginInv'
  BY OriginInductive
<1>4. QED
  BY <1>2, <1>3, PTL DEF Spec

(* A restore that is sent again, or an old backup restored where it was      *)
(* taken, is accepted by the checks of restore_project without a change.     *)
THEOREM RestoreAddsNothing == Spec => []RestoreAddsNothingAgain
<1>1. OriginInv => RestoreAddsNothingAgain
  <2> SUFFICES ASSUME OriginInv, NEW s \in Stores, NEW x \in backups,
                      RestoreAgrees(db[s], x.envelope)
               PROVE  LET after == Restored(db[s], x.envelope)
                      IN  /\ RestoreAgrees(after, x.envelope)
                          /\ Restored(after, x.envelope) = after
                          /\ s = x.origin => after = db[s]
    BY DEF RestoreAddsNothingAgain
  <2>1. /\ DbTypeOK(db[s]) /\ DbConsistent(db[s]) /\ DbShaped(db[s])
        /\ EnvelopeTypeOK(x.envelope) /\ EnvelopeConsistent(x.envelope)
        /\ EnvelopeAudited(x.envelope) /\ KeptBy(db[x.origin], x.envelope)
    BY DEF OriginInv, ReviewInv, AuditInv, TypeOK
  <2>2. ValidateRestore(x.envelope)
    BY <2>1, ConsistentValidates
  <2>3. /\ RestoreAgrees(Restored(db[s], x.envelope), x.envelope)
        /\ Restored(Restored(db[s], x.envelope), x.envelope) = Restored(db[s], x.envelope)
    BY <2>1, <2>2, RestoreTwice
  <2>4. ASSUME s = x.origin
        PROVE  Restored(db[s], x.envelope) = db[s]
    BY <2>1, <2>4, RestoreAtOrigin
  <2>5. QED
    BY <2>3, <2>4
<1>2. QED
  BY <1>1, OriginInvariant, PTL

-----------------------------------------------------------------------------
(* The values of rows: references replaced by what they refer to. *)
RowOf(e, ids) == {e.analyses[i] : i \in ids \cap DOMAIN e.analyses}

KeyOf(e, i) == <<e.reviews[i].branch, e.reviews[i].identity, e.reviews[i].kind>>

AnalysisAs(r, v) == [r EXCEPT !.analysis = v]

HistoryAs(h, k, v) == [h EXCEPT !.review = k, !.analysis = v]

LEMMA ByValueTables ==
    ASSUME NEW e
    PROVE  /\ DOMAIN ByValue(e) = {"analyses", "reviews", "history", "audit"}
           /\ ByValue(e).analyses = RowOf(e, DOMAIN e.analyses)
           /\ ByValue(e).reviews = {AnalysisAs(e.reviews[i], RowOf(e, {e.reviews[i].analysis})) :
                                       i \in DOMAIN e.reviews}
           /\ ByValue(e).history = {HistoryAs(h, KeyOf(e, h.review), RowOf(e, {h.analysis})) :
                                       h \in e.history}
           /\ ByValue(e).audit = {AnalysisAs(r, RowOf(e, {r.analysis})) : r \in BagToSet(e.audit)}
<1>1. DOMAIN ByValue(e) = {"analyses", "reviews", "history", "audit"}
  BY DEF ByValue
<1>2. ByValue(e).analyses = RowOf(e, DOMAIN e.analyses)
  BY Zenon DEF ByValue, RowOf
<1>3. ByValue(e).reviews = {AnalysisAs(e.reviews[i], RowOf(e, {e.reviews[i].analysis})) :
                                       i \in DOMAIN e.reviews}
  BY Zenon DEF ByValue, RowOf, AnalysisAs
<1>4. ByValue(e).history = {HistoryAs(h, KeyOf(e, h.review), RowOf(e, {h.analysis})) :
                                       h \in e.history}
  BY Zenon DEF ByValue, RowOf, KeyOf, HistoryAs
<1>5. ByValue(e).audit = {AnalysisAs(r, RowOf(e, {r.analysis})) : r \in BagToSet(e.audit)}
  BY Zenon DEF ByValue, RowOf, AnalysisAs
<1>6. QED
  BY <1>1, <1>2, <1>3, <1>4, <1>5

LEMMA WrittenTwice ==
    ASSUME NEW r, NEW u, NEW v
    PROVE  AnalysisAs([r EXCEPT !.analysis = u], v) = AnalysisAs(r, v)
BY Zenon DEF AnalysisAs

(* R has the rows of E, and the rows of e under new ids. *)
Joined(E, e, R, aids, rids) ==
    /\ DOMAIN E.analyses \subseteq DOMAIN R.analyses
    /\ \A i \in DOMAIN E.analyses : R.analyses[i] = E.analyses[i]
    /\ \A i \in DOMAIN e.analyses :
          aids[i] \in DOMAIN R.analyses /\ R.analyses[aids[i]] = e.analyses[i]
    /\ \A x \in DOMAIN R.analyses :
          x \in DOMAIN E.analyses \/ \E i \in DOMAIN e.analyses : x = aids[i]
    /\ DOMAIN E.reviews \subseteq DOMAIN R.reviews
    /\ \A i \in DOMAIN E.reviews : R.reviews[i] = E.reviews[i]
    /\ \A i \in DOMAIN e.reviews :
          rids[i] \in DOMAIN R.reviews /\ R.reviews[rids[i]] = MappedReview(e, i, aids)
    /\ \A x \in DOMAIN R.reviews :
          x \in DOMAIN E.reviews \/ \E i \in DOMAIN e.reviews : x = rids[i]
    /\ R.history = E.history \cup {Moved(h, aids, rids) : h \in e.history}
    /\ BagToSet(R.audit) = BagToSet(E.audit) \cup MappedDeletions(e, aids)

(* Every reference of a row of e is to a row of e. *)
Closed(e) ==
    /\ \A i \in DOMAIN e.reviews : e.reviews[i].analysis \in DOMAIN e.analyses
    /\ \A h \in e.history : h.review \in DOMAIN e.reviews /\ h.analysis \in DOMAIN e.analyses
    /\ \A r \in BagToSet(e.audit) : r.analysis \in DOMAIN e.analyses \cup {NoAnalysis}
    /\ NoAnalysis \notin DOMAIN e.analyses

(* A row means the same before and after. *)
LEMMA SameMeaning ==
    ASSUME NEW E, NEW e, NEW R, NEW aids, NEW rids, Joined(E, e, R, aids, rids),
           NoAnalysis \notin DOMAIN E.analyses, NoAnalysis \notin DOMAIN e.analyses,
           NoAnalysis \notin DOMAIN R.analyses
    PROVE  /\ \A a \in DOMAIN E.analyses \cup {NoAnalysis} : RowOf(R, {a}) = RowOf(E, {a})
           /\ \A a \in DOMAIN e.analyses : RowOf(R, {aids[a]}) = RowOf(e, {a})
           /\ RowOf(R, {NoAnalysis}) = RowOf(e, {NoAnalysis})
<1>1. \A a \in DOMAIN E.analyses : RowOf(R, {a}) = RowOf(E, {a})
  BY DEF Joined, RowOf
<1>2. \A a \in DOMAIN e.analyses : RowOf(R, {aids[a]}) = RowOf(e, {a})
  BY DEF Joined, RowOf
<1>3. RowOf(R, {NoAnalysis}) = {} /\ RowOf(e, {NoAnalysis}) = {} /\ RowOf(E, {NoAnalysis}) = {}
  BY DEF RowOf
<1>4. QED
  BY <1>1, <1>2, <1>3

LEMMA JoinedByValue ==
    ASSUME NEW E, NEW e, NEW R, NEW aids, NEW rids, Joined(E, e, R, aids, rids),
           Closed(E), Closed(e), NoAnalysis \notin DOMAIN R.analyses, EnvelopeTypeOK(e)
    PROVE  \A table \in DOMAIN ByValue(e) :
              ByValue(R)[table] = ByValue(E)[table] \cup ByValue(e)[table]
<1>1. /\ \A a \in DOMAIN E.analyses \cup {NoAnalysis} : RowOf(R, {a}) = RowOf(E, {a})
      /\ \A a \in DOMAIN e.analyses : RowOf(R, {aids[a]}) = RowOf(e, {a})
      /\ RowOf(R, {NoAnalysis}) = RowOf(e, {NoAnalysis})
  BY SameMeaning DEF Closed
<1>2. ByValue(R).analyses = ByValue(E).analyses \cup ByValue(e).analyses
  <2>1. RowOf(R, DOMAIN R.analyses) = RowOf(E, DOMAIN E.analyses) \cup RowOf(e, DOMAIN e.analyses)
    BY DEF Joined, RowOf
  <2>2. QED
    BY <2>1, ByValueTables
<1>3. ByValue(R).reviews = ByValue(E).reviews \cup ByValue(e).reviews
  <2> DEFINE value(X, i) == AnalysisAs(X.reviews[i], RowOf(X, {X.reviews[i].analysis}))
  <2>1. ASSUME NEW i \in DOMAIN E.reviews
        PROVE  value(R, i) = value(E, i)
    BY <1>1 DEF Joined, Closed
  <2>2. ASSUME NEW i \in DOMAIN e.reviews
        PROVE  value(R, rids[i]) = value(e, i)
    <3>1. /\ R.reviews[rids[i]] = [e.reviews[i] EXCEPT !.analysis = aids[e.reviews[i].analysis]]
          /\ R.reviews[rids[i]] = MappedReview(e, i, aids)
      BY Zenon DEF Joined, MappedReview
    <3>2. R.reviews[rids[i]].analysis = aids[e.reviews[i].analysis]
      BY <3>1, MappedFields DEF EnvelopeTypeOK, ReviewImage
    <3>3. RowOf(R, {R.reviews[rids[i]].analysis}) = RowOf(e, {e.reviews[i].analysis})
      BY <1>1, <3>2 DEF Closed
    <3>4. QED
      BY <3>1, <3>3, WrittenTwice
  <2> HIDE DEF value
  <2>3. {value(R, x) : x \in DOMAIN R.reviews}
        = {value(E, i) : i \in DOMAIN E.reviews} \cup {value(e, i) : i \in DOMAIN e.reviews}
    BY <2>1, <2>2 DEF Joined
  <2>4. QED
    BY <2>3, ByValueTables DEF value
<1>4. ByValue(R).history = ByValue(E).history \cup ByValue(e).history
  <2> DEFINE value(X, h) == HistoryAs(h, KeyOf(X, h.review), RowOf(X, {h.analysis}))
             moved(h) == Moved(h, aids, rids)
  <2>1. ASSUME NEW h \in E.history
        PROVE  value(R, h) = value(E, h)
    BY <1>1 DEF Joined, Closed, KeyOf
  <2>2. ASSUME NEW h \in e.history
        PROVE  value(R, moved(h)) = value(e, h)
    <3>1. moved(h) = [h EXCEPT !.review = rids[h.review], !.analysis = aids[h.analysis]]
      BY Zenon DEF Moved
    <3>2. moved(h).review = rids[h.review] /\ moved(h).analysis = aids[h.analysis]
      BY MovedFields DEF EnvelopeTypeOK, HistoryImage
    <3>3. RowOf(R, {moved(h).analysis}) = RowOf(e, {h.analysis})
      BY <1>1, <3>2 DEF Closed
    <3>4. KeyOf(R, moved(h).review) = KeyOf(e, h.review)
      <4>1. h.review \in DOMAIN e.reviews
        BY DEF Closed
      <4>2. ReviewImage(R.reviews[rids[h.review]], e.reviews[h.review], aids)
        BY <4>1, MappedFields DEF Joined, EnvelopeTypeOK
      <4>3. QED
        BY <3>2, <4>2 DEF KeyOf, ReviewImage
    <3>5. ASSUME NEW k, NEW v
          PROVE  HistoryAs(moved(h), k, v) = HistoryAs(h, k, v)
      <4>1. HistoryAs([h EXCEPT !.review = rids[h.review], !.analysis = aids[h.analysis]], k, v)
            = HistoryAs(h, k, v)
        BY Zenon DEF HistoryAs
      <4>2. QED
        BY <3>1, <4>1, Zenon
    <3>6. QED
      BY <3>3, <3>4, <3>5
  <2>3. R.history = E.history \cup {moved(h) : h \in e.history}
    BY DEF Joined
  <2> HIDE DEF value, moved
  <2>4. {value(R, x) : x \in R.history}
        = {value(E, h) : h \in E.history} \cup {value(e, h) : h \in e.history}
    BY <2>1, <2>2, <2>3
  <2>5. QED
    BY <2>4, ByValueTables DEF value
<1>5. ByValue(R).audit = ByValue(E).audit \cup ByValue(e).audit
  <2> DEFINE value(X, r) == AnalysisAs(r, RowOf(X, {r.analysis}))
             mapped(r) == [r EXCEPT !.analysis = IF @ = NoAnalysis THEN @ ELSE aids[@]]
  <2>1. ASSUME NEW r \in BagToSet(E.audit)
        PROVE  value(R, r) = value(E, r)
    BY <1>1 DEF Closed
  <2>2. ASSUME NEW r \in BagToSet(e.audit)
        PROVE  value(R, mapped(r)) = value(e, r)
    <3>1. r \in Audits
      BY DEF EnvelopeTypeOK
    <3>2. PICK a : /\ mapped(r) = [r EXCEPT !.analysis = a]
                   /\ a = IF r.analysis = NoAnalysis THEN r.analysis ELSE aids[r.analysis]
      BY Zenon
    <3>3. mapped(r).analysis = a
      BY <3>1, <3>2, Zenon DEF Audits
    <3>4. RowOf(R, {a}) = RowOf(e, {r.analysis})
      BY <1>1, <3>2 DEF Closed
    <3>5. QED
      BY <3>2, <3>3, <3>4, WrittenTwice
  <2>3. BagToSet(R.audit) = BagToSet(E.audit) \cup {mapped(r) : r \in BagToSet(e.audit)}
    BY Zenon DEF Joined, MappedDeletions
  <2> HIDE DEF value, mapped
  <2>4. {value(R, x) : x \in BagToSet(R.audit)}
        = {value(E, r) : r \in BagToSet(E.audit)} \cup {value(e, r) : r \in BagToSet(e.audit)}
    BY <2>1, <2>2, <2>3
  <2>5. QED
    BY <2>4, ByValueTables DEF value
<1>6. QED
  BY <1>2, <1>3, <1>4, <1>5, ByValueTables

(* The rows that an export takes. *)
ExportOf(E, d, p) ==
    /\ DOMAIN E.analyses = OfProject(d.analyses, p)
    /\ \A i \in DOMAIN E.analyses : E.analyses[i] = d.analyses[i]
    /\ DOMAIN E.reviews = OfProject(d.reviews, p)
    /\ \A i \in DOMAIN E.reviews : E.reviews[i] = d.reviews[i]
    /\ E.history = {h \in d.history : h.review \in OfProject(d.reviews, p)}
    /\ BagToSet(E.audit) = {x \in BagToSet(d.audit) : x.project = p}

LEMMA ExportedRows ==
    ASSUME NEW d, NEW p
    PROVE  ExportOf(Envelope(d, p), d, p)
BY DEF Envelope, BagToSet, ExportOf

(* Deletion rows of an envelope name its project, before and after a restore. *)
LEMMA MappedProject ==
    ASSUME NEW e, EnvelopeTypeOK(e), EnvelopeAudited(e), NEW aids
    PROVE  \A x \in MappedDeletions(e, aids) : x.project = e.project
<1> DEFINE mapped(r) == [r EXCEPT !.analysis = IF @ = NoAnalysis THEN @ ELSE aids[@]]
<1>1. ASSUME NEW r \in BagToSet(e.audit)
      PROVE  mapped(r).project = e.project
  <2>1. r \in Audits /\ r.project = e.project
    BY DEF EnvelopeTypeOK, EnvelopeAudited
  <2>2. mapped(r).project = r.project
    BY <2>1, Zenon DEF Audits
  <2>3. QED
    BY <2>1, <2>2, Zenon
<1>2. MappedDeletions(e, aids) = {mapped(r) : r \in BagToSet(e.audit)}
  BY Zenon DEF MappedDeletions
<1> HIDE DEF mapped
<1>3. QED
  BY <1>1, <1>2

(* What an export holds after a restore. *)
LEMMA ExportsJoined ==
    ASSUME NEW d, DbTypeOK(d), DbConsistent(d), NEW e, EnvelopeTypeOK(e), EnvelopeAudited(e),
           EnvelopeConsistent(e), ValidateRestore(e), RestoreAgrees(d, e)
    PROVE  Joined(Envelope(d, e.project), e, Envelope(Restored(d, e), e.project),
                  AnalysisIds(d, e), ReviewIds(d, e))
<1> DEFINE aids == AnalysisIds(d, e)
           rids == ReviewIds(d, e)
           r == Restored(d, e)
           p == e.project
           E == Envelope(d, p)
           R == Envelope(r, p)
<1>1. AnalysesMerged(d, e, r, aids) /\ NewAnalyses(d, e) \subseteq DOMAIN e.analyses
  BY RestoreAnalysesMerged DEF NewAnalyses
<1>2. /\ ReviewsMerged(d, e, r, aids, rids) /\ NewReviews(d, e) \subseteq DOMAIN e.reviews
      /\ \A i \in DOMAIN e.reviews : r.reviews[rids[i]] = MappedReview(e, i, aids)
  BY RestoreReviewsMerged DEF NewReviews
<1>3. r.history = d.history \cup {Moved(h, aids, rids) : h \in e.history}
  <2>1. r.history = d.history \cup MappedHistory(e, aids, rids)
    BY DEF Restored, Database
  <2>2. MappedHistory(e, aids, rids) = {Moved(h, aids, rids) : h \in e.history}
    BY Zenon DEF MappedHistory, Moved
  <2> HIDE DEF r, aids, rids
  <2>3. QED
    BY <2>1, <2>2
<1>4. BagToSet(r.audit) = BagToSet(d.audit) \cup MappedDeletions(e, aids)
  BY RestoredAudit
<1>5. ExportOf(E, d, p) /\ ExportOf(R, r, p)
  BY ExportedRows
<1> HIDE DEF aids, rids, r, E, R
<1>6. /\ DOMAIN E.analyses \subseteq DOMAIN R.analyses
      /\ \A i \in DOMAIN E.analyses : R.analyses[i] = E.analyses[i]
      /\ \A i \in DOMAIN e.analyses :
            aids[i] \in DOMAIN R.analyses /\ R.analyses[aids[i]] = e.analyses[i]
      /\ \A x \in DOMAIN R.analyses :
            x \in DOMAIN E.analyses \/ \E i \in DOMAIN e.analyses : x = aids[i]
  BY <1>1, <1>5 DEF AnalysesMerged, OfProject, EnvelopeConsistent, ExportOf
<1>7. /\ DOMAIN E.reviews \subseteq DOMAIN R.reviews
      /\ \A i \in DOMAIN E.reviews : R.reviews[i] = E.reviews[i]
      /\ \A i \in DOMAIN e.reviews :
            rids[i] \in DOMAIN R.reviews /\ R.reviews[rids[i]] = MappedReview(e, i, aids)
      /\ \A x \in DOMAIN R.reviews :
            x \in DOMAIN E.reviews \/ \E i \in DOMAIN e.reviews : x = rids[i]
  BY <1>2, <1>5 DEF ReviewsMerged, ReviewImage, OfProject, EnvelopeConsistent, ExportOf
<1>8. R.history = E.history \cup {Moved(h, aids, rids) : h \in e.history}
  <2>1. ASSUME NEW h \in e.history
        PROVE  Moved(h, aids, rids).review \in OfProject(r.reviews, p)
    <3>1. Moved(h, aids, rids).review = rids[h.review]
      BY MovedFields DEF EnvelopeTypeOK, HistoryImage
    <3>2. h.review \in DOMAIN e.reviews
      BY DEF EnvelopeConsistent, RowsConsistent, ReferencesHold
    <3>3. QED
      BY <1>5, <1>7, <3>1, <3>2 DEF ExportOf
  <2>2. ASSUME NEW h \in d.history
        PROVE  h.review \in OfProject(r.reviews, p) <=> h.review \in OfProject(d.reviews, p)
    BY <1>2 DEF DbConsistent, RowsConsistent, ReferencesHold, ReviewsMerged, OfProject
  <2>3. QED
    BY <1>3, <1>5, <2>1, <2>2 DEF ExportOf
<1>9. BagToSet(R.audit) = BagToSet(E.audit) \cup MappedDeletions(e, aids)
  BY <1>4, <1>5, MappedProject DEF ExportOf
<1>10. Joined(E, e, R, aids, rids)
  BY <1>6, <1>7, <1>8, <1>9 DEF Joined
<1>11. QED
  BY <1>10 DEF aids, rids, r, E, R

(* The references of a consistent, audited envelope or of an export. *)
LEMMA ExportClosed ==
    ASSUME NEW d, DbTypeOK(d), DbAudited(d), DbConsistent(d), NEW p \in Projects
    PROVE  Closed(Envelope(d, p))
<1> DEFINE E == Envelope(d, p)
<1>1. EnvelopeConsistent(E) /\ EnvelopeAudited(E)
  BY ExportConsistent, ExportAudited
<1> HIDE DEF E
<1>2. Closed(E)
  BY <1>1 DEF Closed, EnvelopeConsistent, RowsConsistent, ReferencesHold, EnvelopeAudited, NoAnalysis
<1>3. QED
  BY <1>2 DEF E

(* Other projects do not notice a restore. *)
LEMMA OthersUntouched ==
    ASSUME NEW d, DbTypeOK(d), DbConsistent(d), NEW e, EnvelopeTypeOK(e), EnvelopeAudited(e),
           EnvelopeConsistent(e), ValidateRestore(e), RestoreAgrees(d, e),
           NEW p \in Projects, p # e.project
    PROVE  Envelope(Restored(d, e), p) = Envelope(d, p)
<1> DEFINE aids == AnalysisIds(d, e)
           rids == ReviewIds(d, e)
           r == Restored(d, e)
           marks == NewDeletions(d, e, aids)
<1>1. AnalysesMerged(d, e, r, aids) /\ NewAnalyses(d, e) \subseteq DOMAIN e.analyses
  BY RestoreAnalysesMerged DEF NewAnalyses
<1>2. ReviewsMerged(d, e, r, aids, rids) /\ NewReviews(d, e) \subseteq DOMAIN e.reviews
  BY RestoreReviewsMerged DEF NewReviews
<1>3. HistoryMerged(d, e, r, aids, rids)
  BY RestoreHistoryMerged
<1>4. r.projects[p] = d.projects[p]
  <2>1. r.projects = [d.projects EXCEPT ![e.project] = e.deleted]
    BY DEF Restored, Database
  <2> HIDE DEF r
  <2>2. QED
    BY <2>1 DEF DbTypeOK
<1>5. r.audit = d.audit (+) SetToBag(marks)
  BY DEF Restored, Database
<1>6. \A x \in marks : x.project = e.project
  BY MappedProject DEF NewDeletions
<1> HIDE DEF aids, rids, r, marks
<1>7. /\ OfProject(r.analyses, p) = OfProject(d.analyses, p)
      /\ \A i \in OfProject(d.analyses, p) : r.analyses[i] = d.analyses[i]
  BY <1>1 DEF AnalysesMerged, OfProject, EnvelopeConsistent
<1>8. /\ OfProject(r.reviews, p) = OfProject(d.reviews, p)
      /\ \A i \in OfProject(d.reviews, p) : r.reviews[i] = d.reviews[i]
  BY <1>2 DEF ReviewsMerged, ReviewImage, OfProject, EnvelopeConsistent
<1>9. {h \in r.history : h.review \in OfProject(d.reviews, p)}
      = {h \in d.history : h.review \in OfProject(d.reviews, p)}
  <2>1. ASSUME NEW h \in e.history
        PROVE  Moved(h, aids, rids).review \notin OfProject(d.reviews, p)
    <3>1. Moved(h, aids, rids).review = rids[h.review]
      BY MovedFields DEF EnvelopeTypeOK, HistoryImage
    <3>2. h.review \in DOMAIN e.reviews
      BY DEF EnvelopeConsistent, RowsConsistent, ReferencesHold
    <3>3. r.reviews[rids[h.review]].project = e.project
      BY <1>2, <3>2 DEF ReviewsMerged, ReviewImage, EnvelopeConsistent
    <3>4. QED
      BY <1>8, <3>1, <3>3 DEF OfProject
  <2>2. QED
    BY <1>3, <2>1 DEF HistoryMerged
<1>10. /\ {x \in BagToSet(r.audit) : x.project = p} = {x \in BagToSet(d.audit) : x.project = p}
       /\ \A x \in BagToSet(d.audit) : x.project = p => r.audit[x] = d.audit[x]
  <2>1. BagToSet(r.audit) = BagToSet(d.audit) \cup marks
    BY <1>5, BagPlusSet DEF DbTypeOK
  <2>2. \A x \in BagToSet(d.audit) : x \notin marks => r.audit[x] = d.audit[x]
    BY <1>5, BagPlusSet DEF DbTypeOK
  <2>3. QED
    BY <1>6, <2>1, <2>2
<1>11. Envelope(r, p) = Envelope(d, p)
  BY <1>4, <1>7, <1>8, <1>9, <1>10 DEF Envelope
<1>12. QED
  BY <1>11 DEF r

(* A restore adds the rows of the backup and nothing else. *)
THEOREM RestoresAreUnions == Spec => []RestoreIsUnion
<1>1. ReviewInv => RestoreIsUnion
  <2> SUFFICES ASSUME ReviewInv, NEW s \in Stores, NEW x \in backups,
                      RestoreAgrees(db[s], x.envelope)
               PROVE  LET e == x.envelope
                          after == Restored(db[s], e)
                          added == ByValue(e)
                          before == ByValue(Envelope(db[s], e.project))
                          result == ByValue(Envelope(after, e.project))
                      IN  /\ \A table \in DOMAIN added :
                                result[table] = before[table] \cup added[table]
                          /\ \A p \in Projects \ {e.project} :
                                Envelope(after, p) = Envelope(db[s], p)
    BY DEF RestoreIsUnion
  <2> DEFINE d == db[s]
             e == x.envelope
             r == Restored(d, e)
             E == Envelope(d, e.project)
             R == Envelope(r, e.project)
  <2>1. /\ DbTypeOK(d) /\ DbConsistent(d) /\ DbAudited(d)
        /\ EnvelopeTypeOK(e) /\ EnvelopeConsistent(e) /\ EnvelopeAudited(e)
    BY DEF ReviewInv, AuditInv, TypeOK
  <2>2. ValidateRestore(e) /\ e.project \in Projects
    BY <2>1, ConsistentValidates DEF EnvelopeTypeOK
  <2>3. DbTypeOK(r) /\ DbConsistent(r) /\ DbAudited(r)
    BY <2>1, <2>2, RestoreTypeOK, RestoreConsistent, RestoreAudited
  <2> HIDE DEF d, e
  <2>4. Joined(E, e, R, AnalysisIds(d, e), ReviewIds(d, e))
    BY <2>1, <2>2, ExportsJoined DEF d, e
  <2>5. Closed(E) /\ Closed(R)
    BY <2>1, <2>2, <2>3, ExportClosed
  <2>6. Closed(e)
    BY <2>1 DEF Closed, EnvelopeConsistent, RowsConsistent, ReferencesHold, EnvelopeAudited, NoAnalysis
  <2>7. \A p \in Projects \ {e.project} : Envelope(r, p) = Envelope(d, p)
    BY <2>1, <2>2, OthersUntouched DEF d, e
  <2> HIDE DEF E, R
  <2>8. NoAnalysis \notin DOMAIN R.analyses
    BY <2>5 DEF Closed
  <2>9. \A table \in DOMAIN ByValue(e) : ByValue(R)[table] = ByValue(E)[table] \cup ByValue(e)[table]
    BY <2>1, <2>4, <2>5, <2>6, <2>8, JoinedByValue
  <2>10. QED
    BY <2>7, <2>9 DEF d, e, E, R
<1>2. QED
  BY <1>1, ReviewInvariant, PTL

-----------------------------------------------------------------------------
(* The refinement of ReviewLog.  The log of a key is one entry for each       *)
(* version of its review, because the history of a review is complete.       *)
(* The row of the review table with a key. *)
Reviewed(d, k, i) ==
    /\ i \in DOMAIN d.reviews
    /\ d.reviews[i].project = k.project /\ d.reviews[i].branch = k.branch
    /\ d.reviews[i].identity = k.identity /\ d.reviews[i].kind = k.kind

DecisionOf(d, h) ==
    [commit |-> d.analyses[h.analysis].commit, state |-> h.new, by |-> h.by, at |-> h.at]

(* The log of a review lists its history, one entry for each version. *)
Listed(d, k, i) ==
    /\ Decisions(d, k) = [v \in 1 .. d.reviews[i].version |-> Decisions(d, k)[v]]
    /\ \A v \in 1 .. d.reviews[i].version : \E h \in d.history : h.review = i /\ h.version = v
    /\ \A h \in d.history : h.review = i =>
          /\ h.version \in 1 .. d.reviews[i].version
          /\ Decisions(d, k)[h.version] = DecisionOf(d, h)

LEMMA NoDecisions ==
    ASSUME NEW d, NEW k, \A i : ~Reviewed(d, k, i)
    PROVE  Decisions(d, k) = <<>>
<1> DEFINE review == ExistingReview(d, k.project, k.branch, k.identity, k.kind)
           entries == {h \in d.history : h.review \in review}
           entry(v) == CHOOSE h \in entries : h.version = v
           decision(v) == [commit |-> d.analyses[entry(v).analysis].commit,
                           state |-> entry(v).new, by |-> entry(v).by, at |-> entry(v).at]
<1>1. entries = {}
  BY DEF Reviewed, ExistingReview
<1>2. Cardinality(entries) = 0
  BY <1>1, FS_EmptySet
<1>3. Decisions(d, k) = [v \in 1 .. Cardinality(entries) |-> decision(v)]
  BY DEF Decisions
<1> HIDE DEF decision, entries
<1>4. QED
  BY <1>2, <1>3

LEMMA DecisionsListed ==
    ASSUME NEW d, RowsConsistent(d), NEW k, NEW i, Reviewed(d, k, i),
           d.reviews[i].version \in Nat
    PROVE  Listed(d, k, i)
<1> DEFINE n == d.reviews[i].version
           review == ExistingReview(d, k.project, k.branch, k.identity, k.kind)
           entries == {h \in d.history : h.review \in review}
           entry(v) == CHOOSE h \in entries : h.version = v
           decision(v) == [commit |-> d.analyses[entry(v).analysis].commit,
                           state |-> entry(v).new, by |-> entry(v).by, at |-> entry(v).at]
<1>1. review = {i}
  BY DEF RowsConsistent, UniqueRows, ExistingReview, Reviewed
<1>2. \A h : h \in entries <=> h \in d.history /\ h.review = i
  BY <1>1
<1>3. Decisions(d, k) = [v \in 1 .. Cardinality(entries) |-> decision(v)]
  BY DEF Decisions
<1> HIDE DEF review, entries
<1>4. \A v \in 1 .. n : \E h \in entries : h.version = v
  BY <1>2 DEF RowsConsistent, DbHistoryComplete, Reviewed
<1>5. \A h \in entries : h.version \in 1 .. n
  BY <1>2 DEF RowsConsistent, DbHistoryComplete
<1>6. \A g, h \in entries : g.version = h.version => g = h
  BY <1>2 DEF RowsConsistent, UniqueRows
<1>7. \A h \in entries : entry(h.version) = h
  BY <1>6
<1>8. Cardinality(entries) = n
  <2> DEFINE f == [v \in 1 .. n |-> entry(v)]
  <2>1. \A v \in 1 .. n : entry(v) \in entries /\ entry(v).version = v
    BY <1>4
  <2> HIDE DEF entry
  <2>2. f \in Bijection(1 .. n, entries)
    <3>1. f \in [1 .. n -> entries] /\ \A v \in 1 .. n : f[v] = entry(v)
      BY <2>1
    <3>2. \A v, w \in 1 .. n : f[v] = f[w] => v = w
      BY <2>1, <3>1
    <3>3. \A h \in entries : \E v \in 1 .. n : f[v] = h
      BY <1>5, <1>7, <3>1
    <3> HIDE DEF f
    <3>4. QED
      BY <3>1, <3>2, <3>3 DEF Bijection, Injection, Surjection, IsInjective, Range
  <2>3. ExistsBijection(1 .. n, entries)
    BY <2>2 DEF ExistsBijection
  <2>4. QED
    BY <2>3, FS_CountingElements
<1>9. \A h \in entries : decision(h.version) = DecisionOf(d, h)
  BY <1>7 DEF DecisionOf
<1> HIDE DEF decision
<1>10. \A h \in entries : Decisions(d, k)[h.version] = DecisionOf(d, h)
  BY <1>3, <1>5, <1>8, <1>9
<1>11. QED
  BY <1>2, <1>3, <1>4, <1>5, <1>8, <1>10 DEF Listed

(* Two tables that list the same history for a key have the same log of it. *)
LEMMA SameDecisions ==
    ASSUME NEW d, NEW f, NEW k, NEW i, NEW j, Listed(d, k, i), Listed(f, k, j),
           d.reviews[i].version = f.reviews[j].version,
           \A h \in d.history : h.review = i =>
              \E g \in f.history : /\ g.review = j /\ g.version = h.version
                                  /\ DecisionOf(f, g) = DecisionOf(d, h)
    PROVE  Decisions(d, k) = Decisions(f, k)
<1>1. ASSUME NEW v \in 1 .. d.reviews[i].version
      PROVE  Decisions(d, k)[v] = Decisions(f, k)[v]
  <2>1. PICK h \in d.history : h.review = i /\ h.version = v
    BY DEF Listed
  <2>2. PICK g \in f.history : /\ g.review = j /\ g.version = h.version
                               /\ DecisionOf(f, g) = DecisionOf(d, h)
    BY <2>1
  <2>3. QED
    BY <2>1, <2>2 DEF Listed
<1>2. QED
  BY <1>1 DEF Listed

(* A sequence with one more element. *)
LEMMA OneMore ==
    ASSUME NEW n \in Nat, NEW s, NEW t, s = [v \in 1 .. n |-> s[v]],
           t = [v \in 1 .. n + 1 |-> t[v]], \A v \in 1 .. n : t[v] = s[v]
    PROVE  Len(s) = n /\ Len(t) = n + 1 /\ t = Append(s, t[n + 1])
<1> DEFINE X == {t[v] : v \in 1 .. n + 1}
<1>1. s \in Seq(X) /\ t \in Seq(X)
  <2>1. (\A v \in 1 .. n + 1 : t[v] \in X) /\ (\A v \in 1 .. n : s[v] \in X)
    OBVIOUS
  <2> HIDE DEF X
  <2>2. s \in [1 .. n -> X] /\ t \in [1 .. n + 1 -> X]
    BY <2>1
  <2>3. QED
    BY <2>2, SeqDef
<1>2. Len(s) = n /\ Len(t) = n + 1
  BY <1>1
<1>3. t = Append(s, t[n + 1])
  <2>1. t[n + 1] \in X
    OBVIOUS
  <2> HIDE DEF X
  <2> DEFINE u == Append(s, t[n + 1])
  <2>2. /\ u \in Seq(X) /\ Len(u) = Len(s) + 1
        /\ \A v \in 1 .. Len(s) : u[v] = s[v]
        /\ u[Len(s) + 1] = t[n + 1]
    BY <1>1, <2>1, AppendProperties
  <2> HIDE DEF u
  <2>3. \A v \in 1 .. n + 1 : u[v] = t[v]
    <3>1. \A v \in 1 .. n : u[v] = t[v]
      BY <1>2, <2>2
    <3>2. u[n + 1] = t[n + 1]
      BY <1>2, <2>2
    <3>3. \A v \in 1 .. n + 1 : v \in 1 .. n \/ v = n + 1
      OBVIOUS
    <3>4. QED
      BY <3>1, <3>2, <3>3
  <2>4. u = t
    BY <1>1, <1>2, <2>2, <2>3, SeqEqual
  <2>5. QED
    BY <2>4 DEF u
<1>4. QED
  BY <1>2, <1>3

(* Ingests, deletions and retention change no log: they keep the history and *)
(* the commit of every analysis.                                             *)
KeepsLogs(d, f) ==
    /\ f.reviews = d.reviews /\ f.history = d.history
    /\ \A a \in DOMAIN d.analyses : f.analyses[a].commit = d.analyses[a].commit

LEMMA LogsKept ==
    ASSUME NEW d, DbTypeOK(d), DbConsistent(d), NEW f, DbTypeOK(f), DbConsistent(f),
           KeepsLogs(d, f), NEW k
    PROVE  Decisions(f, k) = Decisions(d, k)
<1>1. \A i : Reviewed(d, k, i) <=> Reviewed(f, k, i)
  BY DEF Reviewed, KeepsLogs
<1>2. CASE \A i : ~Reviewed(d, k, i)
  BY <1>1, <1>2, NoDecisions
<1>3. ASSUME NEW i, Reviewed(d, k, i)
      PROVE  Decisions(f, k) = Decisions(d, k)
  <2>1. /\ RowsConsistent(d) /\ RowsConsistent(f)
        /\ d.reviews[i].version \in Nat /\ f.reviews[i].version = d.reviews[i].version
    BY <1>3 DEF DbConsistent, DbTypeOK, HasRows, Reviews, Reviewed, KeepsLogs
  <2>2. Listed(d, k, i) /\ Listed(f, k, i)
    BY <1>1, <1>3, <2>1, DecisionsListed
  <2>3. ASSUME NEW h \in d.history
        PROVE  h \in f.history /\ DecisionOf(f, h) = DecisionOf(d, h)
    BY <2>1 DEF RowsConsistent, ReferencesHold, KeepsLogs, DecisionOf
  <2>4. QED
    BY <2>1, <2>2, <2>3, SameDecisions
<1>4. QED
  BY <1>2, <1>3

(* A review appends one decision to the log of its key and leaves the others *)
(* alone.                                                                    *)
LogAppended(d, f, k) ==
    /\ Len(Decisions(f, k)) = Len(Decisions(d, k)) + 1
    /\ Decisions(f, k) = Append(Decisions(d, k), Decisions(f, k)[Len(Decisions(d, k)) + 1])
    /\ Decisions(f, k)[Len(Decisions(d, k)) + 1] \in LogEntries
    /\ AllowedDecision(k, Decisions(d, k), Decisions(f, k)[Len(Decisions(d, k)) + 1])

Keys == [project : Projects, branch : Branches, identity : Identities, kind : Kinds]

LEMMA ReviewLogged ==
    ASSUME NEW d, DbTypeOK(d), DbConsistent(d), NEW f, DbTypeOK(f), DbConsistent(f),
           NEW p, NEW a, a \in DOMAIN d.analyses, NEW identity, NEW kind,
           NEW state \in RequestedStates, NEW id, NEW entry,
           ReviewWritten(d, f, p, a, identity, kind, state, id, entry),
           NEW k \in Keys, k.project = p, k.branch = d.analyses[a].branch,
           k.identity = identity, k.kind = kind
    PROVE  LogAppended(d, f, k)
<1> DEFINE n == IF id \in DOMAIN d.reviews THEN d.reviews[id].version ELSE 0
<1>1. RowsConsistent(d) /\ RowsConsistent(f)
  BY DEF DbConsistent
<1>2. /\ id \in DOMAIN f.reviews /\ entry \in f.history /\ d.history \subseteq f.history
      /\ f.analyses = d.analyses /\ entry.review = id
      /\ entry.new = state /\ entry.analysis = a /\ entry.version = n + 1
      /\ f.reviews[id].version = n + 1
  BY DEF ReviewWritten
<1>3. n \in Nat /\ entry.by \in Actors /\ entry.at \in Stamps
  <2>1. n \in Nat
    BY DEF DbTypeOK, HasRows, Reviews
  <2>2. entry \in Histories
    BY <1>2 DEF DbTypeOK
  <2>3. QED
    BY <2>1, <2>2 DEF Histories
<1>4. Reviewed(f, k, id) /\ Listed(f, k, id)
  <2>1. Reviewed(f, k, id)
    BY DEF ReviewWritten, Reviewed
  <2>2. QED
    BY <1>1, <1>2, <1>3, <2>1, DecisionsListed
<1>5. \A h \in d.history : DecisionOf(f, h) = DecisionOf(d, h)
  BY <1>2 DEF DecisionOf
<1> HIDE DEF n
<1>6. Decisions(f, k)[n + 1] = DecisionOf(f, entry)
  BY <1>2, <1>4 DEF Listed
<1>7. Decisions(f, k)[n + 1] \in LogEntries
  <2>1. d.analyses[a].commit \in Commits
    BY DEF DbTypeOK, HasRows, Analyses
  <2>2. QED
    BY <1>2, <1>3, <1>6, <2>1 DEF DecisionOf, LogEntries
<1>8. /\ Decisions(d, k) = [v \in 1 .. n |-> Decisions(d, k)[v]]
      /\ \A v \in 1 .. n : Decisions(f, k)[v] = Decisions(d, k)[v]
      /\ LastState(Decisions(d, k)) = entry.previous
  <2>1. CASE id \in DOMAIN d.reviews
    <3>1. Reviewed(d, k, id) /\ n = d.reviews[id].version
      BY <2>1 DEF ReviewWritten, Reviewed, n
    <3>2. Listed(d, k, id)
      BY <1>1, <1>3, <3>1, DecisionsListed
    <3>3. ASSUME NEW v \in 1 .. n
          PROVE  Decisions(f, k)[v] = Decisions(d, k)[v]
      <4>1. PICK h \in d.history : h.review = id /\ h.version = v
        BY <3>1, <3>2 DEF Listed
      <4>2. QED
        BY <1>2, <1>4, <1>5, <3>2, <4>1 DEF Listed
    <3>4. Decisions(d, k) = [v \in 1 .. n |-> Decisions(d, k)[v]]
      BY <3>1, <3>2 DEF Listed
    <3>5. LastState(Decisions(d, k)) = entry.previous
      <4>1. n > 0
        BY <1>1, <1>3, <3>1, <2>1 DEF RowsConsistent, ReferencesHold
      <4>2. PICK h \in d.history : h.review = id /\ h.version = n
        BY <1>3, <3>1, <3>2, <4>1 DEF Listed
      <4>3. Decisions(d, k)[n].state = h.new
        <5>1. Decisions(d, k)[n] = DecisionOf(d, h)
          BY <3>2, <4>2 DEF Listed
        <5>2. QED
          BY <5>1 DEF DecisionOf
      <4>4. h.new = d.reviews[id].state
        BY <1>1, <3>1, <4>2 DEF RowsConsistent, DbHistoryComplete
      <4>5. Len(Decisions(d, k)) = n /\ Decisions(d, k) # <<>>
        BY <1>3, <3>4, <4>1
      <4>6. QED
        BY <2>1, <4>3, <4>4, <4>5 DEF LastState, ReviewWritten
    <3>6. QED
      BY <3>3, <3>4, <3>5
  <2>2. CASE id \notin DOMAIN d.reviews
    <3>1. n = 0 /\ \A i : ~Reviewed(d, k, i)
      BY <2>2 DEF ReviewWritten, Reviewed, n
    <3>2. Decisions(d, k) = <<>>
      BY <3>1, NoDecisions
    <3>3. QED
      BY <2>2, <3>1, <3>2 DEF LastState, ReviewWritten
  <2>3. QED
    BY <2>1, <2>2
<1>9. Decisions(f, k) = [v \in 1 .. n + 1 |-> Decisions(f, k)[v]]
  BY <1>2, <1>4 DEF Listed
<1>10. /\ Len(Decisions(d, k)) = n /\ Len(Decisions(f, k)) = n + 1
       /\ Decisions(f, k) = Append(Decisions(d, k), Decisions(f, k)[n + 1])
  <2> DEFINE s == Decisions(d, k)
             t == Decisions(f, k)
  <2>1. s = [v \in 1 .. n |-> s[v]] /\ t = [v \in 1 .. n + 1 |-> t[v]]
    BY <1>8, <1>9
  <2>2. \A v \in 1 .. n : t[v] = s[v]
    BY <1>8
  <2> HIDE DEF s, t
  <2>3. Len(s) = n /\ Len(t) = n + 1 /\ t = Append(s, t[n + 1])
    BY <1>3, <2>1, <2>2, OneMore
  <2>4. QED
    BY <2>3 DEF s, t
<1>11. AllowedDecision(k, Decisions(d, k), Decisions(f, k)[n + 1])
  <2>1. ValidTransition(k.kind, entry.previous, state)
    BY DEF ReviewWritten
  <2>2. Decisions(f, k)[n + 1].state = state
    BY <1>2, <1>6 DEF DecisionOf
  <2>3. QED
    BY <1>8, <2>1, <2>2 DEF AllowedDecision
<1>12. QED
  BY <1>7, <1>10, <1>11 DEF LogAppended

LEMMA OtherLogsKept ==
    ASSUME NEW d, DbTypeOK(d), DbConsistent(d), NEW f, DbTypeOK(f), DbConsistent(f),
           NEW p, NEW a, a \in DOMAIN d.analyses, NEW identity, NEW kind, NEW state, NEW id, NEW entry,
           ReviewWritten(d, f, p, a, identity, kind, state, id, entry),
           NEW k, ~(/\ k.project = p /\ k.branch = d.analyses[a].branch
                    /\ k.identity = identity /\ k.kind = kind)
    PROVE  Decisions(f, k) = Decisions(d, k)
<1>1. RowsConsistent(d) /\ RowsConsistent(f)
  BY DEF DbConsistent
<1>2. \A i : Reviewed(d, k, i) <=> Reviewed(f, k, i)
  BY DEF ReviewWritten, Reviewed
<1>3. CASE \A i : ~Reviewed(d, k, i)
  BY <1>2, <1>3, NoDecisions
<1>4. ASSUME NEW i, Reviewed(d, k, i)
      PROVE  Decisions(f, k) = Decisions(d, k)
  <2>1. /\ i \in DOMAIN d.reviews /\ i # id /\ d.reviews[i].version \in Nat
        /\ f.reviews[i].version = d.reviews[i].version
    <3>1. i \in DOMAIN d.reviews /\ i # id
      BY <1>4 DEF Reviewed, ReviewWritten
    <3>2. d.reviews[i].version \in Nat
      BY <3>1 DEF DbTypeOK, HasRows, Reviews
    <3>3. QED
      BY <3>1, <3>2 DEF ReviewWritten
  <2>2. Listed(d, k, i) /\ Listed(f, k, i)
    BY <1>1, <1>2, <1>4, <2>1, DecisionsListed
  <2>3. \A h \in d.history : h \in f.history /\ DecisionOf(f, h) = DecisionOf(d, h)
    BY DEF ReviewWritten, DecisionOf
  <2>4. QED
    BY <2>1, <2>2, <2>3, SameDecisions
<1>5. QED
  BY <1>3, <1>4

(* A review has a decision. *)
LEMMA SomeDecisions ==
    ASSUME NEW d, RowsConsistent(d), NEW k, NEW i, Reviewed(d, k, i), d.reviews[i].version \in Nat
    PROVE  Decisions(d, k) # <<>>
<1>1. Listed(d, k, i)
  BY DecisionsListed
<1>2. d.reviews[i].version > 0
  BY DEF RowsConsistent, ReferencesHold, Reviewed
<1>3. QED
  BY <1>1, <1>2 DEF Listed

(* A backup carries the logs of its project. *)
LEMMA ExportLogged ==
    ASSUME NEW d, DbTypeOK(d), DbConsistent(d), NEW p \in Projects, NEW k, k.project = p
    PROVE  Decisions(Envelope(d, p), k) = Decisions(d, k)
<1> DEFINE E == Envelope(d, p)
<1>1. RowsConsistent(d) /\ RowsConsistent(E)
  BY ExportConsistent DEF DbConsistent, EnvelopeConsistent
<1>2. ExportOf(E, d, p)
  BY ExportedRows
<1> HIDE DEF E
<1>3. \A i : Reviewed(d, k, i) <=> Reviewed(E, k, i)
  BY <1>2 DEF ExportOf, OfProject, Reviewed
<1>4. CASE \A i : ~Reviewed(d, k, i)
  BY <1>3, <1>4, NoDecisions DEF E
<1>5. ASSUME NEW i, Reviewed(d, k, i)
      PROVE  Decisions(E, k) = Decisions(d, k)
  <2>1. /\ i \in DOMAIN E.reviews /\ i \in DOMAIN d.reviews /\ d.reviews[i].version \in Nat
        /\ E.reviews[i].version = d.reviews[i].version
    <3>1. i \in DOMAIN d.reviews /\ i \in DOMAIN E.reviews
      BY <1>3, <1>5 DEF Reviewed
    <3>2. d.reviews[i].version \in Nat
      BY <3>1 DEF DbTypeOK, HasRows, Reviews
    <3>3. QED
      BY <1>2, <3>1, <3>2 DEF ExportOf
  <2>2. Listed(d, k, i) /\ Listed(E, k, i)
    BY <1>1, <1>3, <1>5, <2>1, DecisionsListed
  <2>3. ASSUME NEW h \in E.history
        PROVE  h \in d.history /\ DecisionOf(d, h) = DecisionOf(E, h)
    <3>1. h \in d.history /\ h.analysis \in DOMAIN E.analyses
      BY <1>1, <1>2 DEF ExportOf, RowsConsistent, ReferencesHold
    <3>2. E.analyses[h.analysis] = d.analyses[h.analysis]
      BY <1>2, <3>1 DEF ExportOf
    <3>3. QED
      BY <3>1, <3>2 DEF DecisionOf
  <2>4. QED
    BY <2>1, <2>2, <2>3, SameDecisions
<1>6. QED
  BY <1>4, <1>5 DEF E

(* What an accepted restore does to the log of a key. *)
LogInstalled(d, e, r, k) ==
    /\ (\E i : Reviewed(d, k, i)) => /\ Decisions(r, k) = Decisions(d, k)
                                    /\ Decisions(d, k) # <<>>
    /\ (\E i : Reviewed(e, k, i)) => Decisions(r, k) = Decisions(e, k)
    /\ (\A i : ~Reviewed(d, k, i)) => Decisions(d, k) = <<>>
    /\ (\A i : ~Reviewed(e, k, i)) => Decisions(e, k) = <<>>
    /\ (\A i : ~Reviewed(d, k, i) /\ ~Reviewed(e, k, i)) => Decisions(r, k) = <<>>

LEMMA RestoreLogged ==
    ASSUME NEW d, DbTypeOK(d), DbConsistent(d), NEW e, EnvelopeTypeOK(e),
           EnvelopeConsistent(e), ValidateRestore(e), RestoreAgrees(d, e), NEW k
    PROVE  LogInstalled(d, e, Restored(d, e), k)
<1> DEFINE aids == AnalysisIds(d, e)
           rids == ReviewIds(d, e)
           r == Restored(d, e)
<1>1. DbTypeOK(r) /\ RowsConsistent(d) /\ RowsConsistent(e) /\ RowsConsistent(r)
  BY RestoreTypeOK, RestoreConsistent DEF DbConsistent, EnvelopeConsistent
<1>2. AnalysesMerged(d, e, r, aids)
  BY RestoreAnalysesMerged
<1>3. ReviewsMerged(d, e, r, aids, rids) /\ NewReviews(d, e) \subseteq DOMAIN e.reviews
  BY RestoreReviewsMerged DEF NewReviews
<1>4. HistoryMerged(d, e, r, aids, rids)
  BY RestoreHistoryMerged
<1> HIDE DEF aids, rids, r
<1>5. ASSUME NEW i, Reviewed(d, k, i)
      PROVE  Decisions(r, k) = Decisions(d, k) /\ Decisions(d, k) # <<>>
  <2>1. Reviewed(r, k, i) /\ r.reviews[i].version = d.reviews[i].version
    BY <1>3, <1>5 DEF ReviewsMerged, Reviewed
  <2>2. d.reviews[i].version \in Nat
    BY <1>5 DEF DbTypeOK, HasRows, Reviews, Reviewed
  <2>3. Listed(d, k, i) /\ Listed(r, k, i)
    BY <1>1, <1>5, <2>1, <2>2, DecisionsListed
  <2>4. ASSUME NEW h \in d.history
        PROVE  h \in r.history /\ DecisionOf(r, h) = DecisionOf(d, h)
    BY <1>1, <1>2, <1>4 DEF RowsConsistent, ReferencesHold, AnalysesMerged, HistoryMerged, DecisionOf
  <2>5. Decisions(d, k) = Decisions(r, k)
    BY <2>1, <2>3, <2>4, SameDecisions
  <2>6. QED
    BY <1>1, <1>5, <2>2, <2>5, SomeDecisions
<1>6. ASSUME NEW i, Reviewed(e, k, i)
      PROVE  Decisions(r, k) = Decisions(e, k)
  <2>1. i \in DOMAIN e.reviews
    BY <1>6 DEF Reviewed
  <2>2. Reviewed(r, k, rids[i]) /\ r.reviews[rids[i]].version = e.reviews[i].version
    BY <1>3, <1>6, <2>1 DEF ReviewsMerged, ReviewImage, Reviewed
  <2>3. e.reviews[i].version \in Nat
    BY <2>1 DEF EnvelopeTypeOK, Reviews
  <2>4. Listed(e, k, i) /\ Listed(r, k, rids[i])
    BY <1>1, <1>6, <2>2, <2>3, DecisionsListed
  <2>5. ASSUME NEW h \in e.history, h.review = i
        PROVE  \E g \in r.history : /\ g.review = rids[i] /\ g.version = h.version
                                    /\ DecisionOf(r, g) = DecisionOf(e, h)
    <3> DEFINE g == Moved(h, aids, rids)
    <3>1. g \in r.history
      BY <1>4 DEF HistoryMerged
    <3>2. HistoryImage(g, h, aids, rids)
      BY MovedFields DEF EnvelopeTypeOK
    <3>3. h.analysis \in DOMAIN e.analyses
      BY <1>1 DEF RowsConsistent, ReferencesHold
    <3> HIDE DEF g
    <3>4. r.analyses[g.analysis] = e.analyses[h.analysis]
      BY <1>2, <3>2, <3>3 DEF AnalysesMerged, HistoryImage
    <3>5. g.review = rids[i] /\ g.version = h.version /\ DecisionOf(r, g) = DecisionOf(e, h)
      BY <2>5, <3>2, <3>4 DEF HistoryImage, DecisionOf
    <3>6. QED
      BY <3>1, <3>5
  <2>6. QED
    BY <2>2, <2>4, <2>5, SameDecisions
<1>7. ASSUME \A i : ~Reviewed(d, k, i) /\ ~Reviewed(e, k, i)
      PROVE  Decisions(r, k) = <<>>
  <2>1. \A i : ~Reviewed(r, k, i)
    BY <1>3, <1>7 DEF ReviewsMerged, ReviewImage, Reviewed
  <2>2. QED
    BY <2>1, NoDecisions
<1>8. LogInstalled(d, e, r, k)
  BY <1>5, <1>6, <1>7, NoDecisions DEF LogInstalled
<1>9. QED
  BY <1>8 DEF r

-----------------------------------------------------------------------------
(* The refinement mapping. *)
StoreLogs ==
    [s \in Stores |-> [k \in UNION {ReviewKeys[p] : p \in Projects} |-> Decisions(db[s], k)]]

Carried ==
    {[k \in ReviewKeys[x.envelope.project] |-> Decisions(x.envelope, k)] : x \in backups}

LEMMA KeysOfProjects ==
    /\ UNION {ReviewKeys[p] : p \in Projects} = Keys
    /\ \A p \in Projects : \A k : k \in ReviewKeys[p] <=> k \in Keys /\ k.project = p
<1>1. ASSUME NEW p \in Projects, NEW k
      PROVE  k \in ReviewKeys[p] <=> k \in Keys /\ k.project = p
  BY DEF ReviewKeys, Keys
<1>2. \A k \in Keys : k.project \in Projects
  BY DEF Keys
<1>3. QED
  BY <1>1, <1>2

LEMMA MappedLogs ==
    /\ StoreLogs = [s \in Stores |-> [k \in Keys |-> Decisions(db[s], k)]]
    /\ StoreLogs' = [s \in Stores |-> [k \in Keys |-> Decisions(db'[s], k)]]
BY KeysOfProjects DEF StoreLogs

(* Steps that change neither reviews nor backups are not seen in the log. *)
LEMMA QuietStep ==
    ASSUME ReviewInv, ReviewInv', NEW t \in Stores, NEW f, KeepsLogs(db[t], f),
           db' = [db EXCEPT ![t] = f], UNCHANGED backups
    PROVE  UNCHANGED <<StoreLogs, Carried>>
<1>1. /\ \A s \in Stores : DbTypeOK(db[s]) /\ DbConsistent(db[s])
      /\ \A s \in Stores : DbTypeOK(db'[s]) /\ DbConsistent(db'[s])
      /\ DOMAIN db = Stores
  BY DEF ReviewInv, AuditInv, TypeOK
<1>2. ASSUME NEW s \in Stores, NEW k
      PROVE  Decisions(db'[s], k) = Decisions(db[s], k)
  <2>1. CASE s = t
    <3>1. KeepsLogs(db[s], db'[s])
      BY <1>1, <2>1
    <3>2. QED
      BY <1>1, <3>1, LogsKept
  <2>2. CASE s # t
    BY <1>1, <2>2
  <2>3. QED
    BY <2>1, <2>2
<1>3. StoreLogs' = StoreLogs
  BY <1>2, MappedLogs
<1>4. Carried' = Carried
  BY DEF Carried
<1>5. QED
  BY <1>3, <1>4

(* A review decides. *)
LEMMA ReviewDecides ==
    ASSUME ReviewInv, ReviewInv', NEW t \in Stores, Review(t)
    PROVE  Logs!Next
<1>0. /\ \A s \in Stores : DbTypeOK(db[s]) /\ DbConsistent(db[s])
      /\ \A s \in Stores : DbTypeOK(db'[s]) /\ DbConsistent(db'[s])
      /\ DOMAIN db = Stores
  BY DEF ReviewInv, AuditInv, TypeOK
<1>1. PICK p \in Projects, identity \in Identities, kind \in Kinds,
           state \in RequestedStates, by \in Actors, at \in Stamps,
           a \in DOMAIN db[t].analyses, expected \in 0 .. MaxVersion :
           ApplyReview(t, p, a, identity, kind, state, expected, by, at)
  BY DEF Review
<1> DEFINE f == WriteReview(db[t], p, a, identity, kind, state, by, at)
           key == [project |-> p, branch |-> db[t].analyses[a].branch,
                   identity |-> identity, kind |-> kind]
<1>2. PICK id, entry : ReviewWritten(db[t], f, p, a, identity, kind, state, id, entry)
  BY <1>0, <1>1, ReviewTables, BoundAssumption DEF ApplyReview
<1>3. db' = [db EXCEPT ![t] = f] /\ UNCHANGED backups
  BY <1>1 DEF ApplyReview
<1>4. PICK k \in Keys : k = key
  <2>1. key \in Keys
    BY <1>0 DEF Keys, DbTypeOK, HasRows, Analyses
  <2> HIDE DEF key
  <2>2. QED
    BY <2>1
<1>5. /\ k.project = p /\ k.branch = db[t].analyses[a].branch
      /\ k.identity = identity /\ k.kind = kind
  BY <1>4
<1> HIDE DEF f, key
<1>6. db'[t] = f /\ \A s \in Stores \ {t} : db'[s] = db[s]
  BY <1>0, <1>3
<1>7. LogAppended(db[t], db'[t], k)
  <2>1. DbTypeOK(f) /\ DbConsistent(f)
    BY <1>0, <1>6
  <2>2. LogAppended(db[t], f, k)
    BY <1>0, <1>2, <1>4, <1>5, <2>1, ReviewLogged
  <2>3. QED
    BY <1>6, <2>2
<1>8. ASSUME NEW l \in Keys, l # k
      PROVE  Decisions(db'[t], l) = Decisions(db[t], l)
  <2>1. ~(/\ l.project = p /\ l.branch = db[t].analyses[a].branch
          /\ l.identity = identity /\ l.kind = kind)
    BY <1>4, <1>5, <1>8 DEF Keys
  <2>2. DbTypeOK(f) /\ DbConsistent(f)
    BY <1>0, <1>6
  <2>3. Decisions(f, l) = Decisions(db[t], l)
    BY <1>0, <1>2, <2>1, <2>2, OtherLogsKept
  <2>4. QED
    BY <1>6, <2>3
<1> DEFINE e == StoreLogs'[t][k][Len(StoreLogs[t][k]) + 1]
<1>9. StoreLogs[t][k] = Decisions(db[t], k) /\ StoreLogs'[t][k] = Decisions(db'[t], k)
  BY <1>4, MappedLogs
<1>10. StoreLogs' = [StoreLogs EXCEPT ![t][k] = Append(StoreLogs[t][k], e)]
  <2>1. Append(StoreLogs[t][k], e) = Decisions(db'[t], k)
    BY <1>7, <1>9 DEF LogAppended
  <2> HIDE DEF e
  <2> DEFINE one == Append(StoreLogs[t][k], e)
  <2>2. \A l \in Keys : Decisions(db'[t], l) = IF l = k THEN one ELSE Decisions(db[t], l)
    BY <1>8, <2>1
  <2>3. \A s \in Stores \ {t} : db'[s] = db[s]
    BY <1>6
  <2> DEFINE old == StoreLogs
             new == StoreLogs'
  <2>4. /\ old = [s \in Stores |-> old[s]] /\ new = [s \in Stores |-> new[s]]
        /\ \A s \in Stores : old[s] = [l \in Keys |-> Decisions(db[s], l)]
        /\ \A s \in Stores : new[s] = [l \in Keys |-> Decisions(db'[s], l)]
    BY MappedLogs
  <2> HIDE DEF one, old, new
  <2>5. new[t] = [old[t] EXCEPT ![k] = one]
    <3>1. \A l \in Keys : new[t][l] = IF l = k THEN one ELSE old[t][l]
      BY <2>2, <2>4
    <3>2. /\ old[t] = [l \in Keys |-> old[t][l]]
          /\ new[t] = [l \in Keys |-> new[t][l]]
      BY <2>4
    <3>3. QED
      BY <3>1, <3>2
  <2>6. \A s \in Stores \ {t} : new[s] = old[s]
    BY <2>3, <2>4
  <2>7. new = [old EXCEPT ![t][k] = one]
    BY <2>4, <2>5, <2>6
  <2>8. QED
    BY <2>7 DEF one, old, new
<1>11. /\ Len(StoreLogs'[t][k]) = Len(StoreLogs[t][k]) + 1
       /\ e \in LogEntries /\ AllowedDecision(k, StoreLogs[t][k], e)
  BY <1>7, <1>9 DEF LogAppended
<1>12. Carried' = Carried
  BY <1>3 DEF Carried
<1>13. Logs!Decide(t, k)
  BY <1>10, <1>11 DEF Logs!Decide, StoreLogs
<1>14. k \in Logs!AllKeys
  BY <1>4, KeysOfProjects DEF Logs!AllKeys
<1>15. \E s \in Stores : \E l \in Logs!AllKeys : Logs!Decide(s, l)
  BY <1>13, <1>14
<1>16. QED
  BY <1>12, <1>15, Zenon DEF Logs!Next, Carried

(* An export carries the logs of its project. *)
LEMMA ExportCarries ==
    ASSUME ReviewInv, NEW s \in Stores, NEW p \in Projects, ExportProject(s, p)
    PROVE  Logs!Next
<1> DEFINE new == [origin |-> s, envelope |-> Envelope(db[s], p)]
           logs(x) == [k \in ReviewKeys[x.envelope.project] |-> Decisions(x.envelope, k)]
<1>1. backups' = backups \cup {new} /\ db' = db
  BY DEF ExportProject
<1>2. new.envelope = Envelope(db[s], p) /\ Envelope(db[s], p).project = p
  BY DEF Envelope
<1> HIDE DEF new
<1>3. DbTypeOK(db[s]) /\ DbConsistent(db[s])
  BY DEF ReviewInv, AuditInv, TypeOK
<1>4. logs(new) = [k \in ReviewKeys[p] |-> StoreLogs[s][k]]
  <2>1. ASSUME NEW k \in ReviewKeys[p]
        PROVE  Decisions(Envelope(db[s], p), k) = StoreLogs[s][k]
    <3>1. k \in Keys /\ k.project = p
      BY KeysOfProjects
    <3>2. Decisions(Envelope(db[s], p), k) = Decisions(db[s], k)
      BY <1>3, <3>1, ExportLogged
    <3>3. QED
      BY <3>1, <3>2, MappedLogs
  <2>2. QED
    BY <1>2, <2>1
<1>5. Carried = {logs(x) : x \in backups} /\ Carried' = {logs(x) : x \in backups'}
  BY DEF Carried
<1> HIDE DEF logs
<1>6. Carried' = Carried \cup {[k \in ReviewKeys[p] |-> StoreLogs[s][k]]}
  BY <1>1, <1>4, <1>5
<1>7. Logs!Carry(s, p)
  BY <1>6 DEF Logs!Carry, Carried, StoreLogs
<1>8. StoreLogs' = StoreLogs
  BY <1>1 DEF StoreLogs
<1>9. QED
  BY <1>7, <1>8, Zenon DEF Logs!Next, StoreLogs

(* A restore installs the logs of its backup. *)
LEMMA RestoreInstalls ==
    ASSUME ReviewInv, NEW t \in Stores, NEW x \in backups, Restore(t, x)
    PROVE  Logs!Next
<1> DEFINE e == x.envelope
           d == db[t]
           r == Restored(db[t], x.envelope)
           backup == [k \in ReviewKeys[e.project] |-> Decisions(e, k)]
<1>1. /\ DbTypeOK(d) /\ DbConsistent(d) /\ DOMAIN db = Stores
      /\ EnvelopeTypeOK(e) /\ EnvelopeConsistent(e)
      /\ ValidateRestore(e) /\ RestoreAgrees(d, e)
  BY DEF ReviewInv, AuditInv, TypeOK, Restore
<1>2. db' = [db EXCEPT ![t] = r] /\ UNCHANGED backups
  BY DEF Restore
<1>3. \A k : LogInstalled(d, e, r, k)
  BY <1>1, RestoreLogged
<1> HIDE DEF e, d, r
<1>4. e.project \in Projects /\ \A i \in DOMAIN e.reviews : e.reviews[i].project = e.project
  BY <1>1 DEF EnvelopeTypeOK, EnvelopeConsistent
<1>5. /\ DOMAIN backup = ReviewKeys[e.project]
      /\ \A k \in DOMAIN backup : backup[k] = Decisions(e, k)
      /\ \A k \in Keys : k \in DOMAIN backup <=> k.project = e.project
      /\ DOMAIN backup \subseteq Keys
  BY <1>4, KeysOfProjects
<1>6. backup \in Carried
  BY DEF Carried, e
<1> HIDE DEF backup
<1>7. /\ DOMAIN StoreLogs = Stores /\ DOMAIN StoreLogs[t] = Keys
      /\ \A k \in Keys : StoreLogs[t][k] = Decisions(d, k)
  BY MappedLogs DEF d
<1>8. Logs!Agrees(StoreLogs[t], backup)
  <2>1. ASSUME NEW k \in DOMAIN backup, backup[k] # <<>>
        PROVE  StoreLogs[t][k] \in {<<>>, backup[k]}
    <3>1. k \in Keys /\ backup[k] = Decisions(e, k) /\ StoreLogs[t][k] = Decisions(d, k)
      BY <1>5, <1>7
    <3>2. QED
      BY <1>3, <2>1, <3>1 DEF LogInstalled
  <2>2. QED
    BY <2>1 DEF Logs!Agrees
<1>9. ASSUME NEW k \in Keys
      PROVE  Decisions(r, k) = IF k \in DOMAIN backup /\ StoreLogs[t][k] = <<>>
                               THEN backup[k] ELSE StoreLogs[t][k]
  <2>1. StoreLogs[t][k] = Decisions(d, k) /\ (k \in DOMAIN backup => backup[k] = Decisions(e, k))
    BY <1>5, <1>7
  <2>2. k \notin DOMAIN backup => \A i : ~Reviewed(e, k, i)
    BY <1>4, <1>5 DEF Reviewed
  <2>3. QED
    BY <1>3, <2>1, <2>2 DEF LogInstalled
<1>10. StoreLogs' = [StoreLogs EXCEPT ![t] =
                       [k \in Keys |-> IF k \in DOMAIN backup /\ StoreLogs[t][k] = <<>>
                                       THEN backup[k] ELSE StoreLogs[t][k]]]
  <2>1. db'[t] = r /\ \A s \in Stores \ {t} : db'[s] = db[s]
    BY <1>1, <1>2
  <2>2. QED
    BY <1>9, <2>1, MappedLogs
<1>11. Logs!Install(t, backup)
  BY <1>8, <1>10, KeysOfProjects DEF Logs!Install, Logs!AllKeys, StoreLogs
<1>12. Carried' = Carried
  BY <1>2 DEF Carried
<1>13. \E s \in Stores : \E b \in Carried : Logs!Install(s, b)
  BY <1>6, <1>11
<1>14. QED
  BY <1>12, <1>13, Zenon DEF Logs!Next, Carried

(* Every step of the store is a step of the log or changes nothing there. *)
LEMMA StepImplements ==
    ASSUME ReviewInv, ReviewInv', [Next]_vars
    PROVE  [Logs!Next]_<<StoreLogs, Carried>>
<1>0. \A s \in Stores : DbTypeOK(db[s])
  BY DEF ReviewInv, AuditInv, TypeOK
<1>1. ASSUME NEW t \in Stores, NEW p \in Projects, NEW b \in Branches,
             NEW c \in Commits, NEW rep \in Reports, IngestAnalysis(t, p, b, c, rep)
      PROVE  UNCHANGED <<StoreLogs, Carried>>
  <2> DEFINE f == InsertAnalysisRows(db[t], p, b, c, rep)
  <2>1. Ingested(db[t], f, p, b, c, rep)
    BY <1>0, IngestTables
  <2>2. db' = [db EXCEPT ![t] = f] /\ UNCHANGED backups
    BY <1>1 DEF IngestAnalysis
  <2> HIDE DEF f
  <2>3. KeepsLogs(db[t], f)
    BY <2>1 DEF Ingested, KeepsLogs
  <2>4. QED
    BY <2>2, <2>3, QuietStep
<1>2. ASSUME NEW t \in Stores, NEW p \in Projects, NEW ids, ids \subseteq DOMAIN db[t].analyses,
             NEW action \in {"delete", "retention"}, NEW by \in Actors, NEW at \in Stamps,
             db' = [db EXCEPT ![t] = Tombstone(db[t], p, ids, action, by, at)], UNCHANGED backups
      PROVE  UNCHANGED <<StoreLogs, Carried>>
  <2> DEFINE f == Tombstone(db[t], p, ids, action, by, at)
  <2>1. Tombstoned(db[t], f, ids, at)
    BY <1>0, <1>2, TombstoneTables
  <2>2. db' = [db EXCEPT ![t] = f] /\ UNCHANGED backups
    BY <1>2
  <2> HIDE DEF f
  <2>3. KeepsLogs(db[t], f)
    BY <2>1 DEF Tombstoned, KeepsLogs
  <2>4. QED
    BY <2>2, <2>3, QuietStep
<1>3. ASSUME NEW t \in Stores, Delete(t)
      PROVE  UNCHANGED <<StoreLogs, Carried>>
  <2>1. PICK p \in Projects, by \in Actors, at \in Stamps :
             \/ \E a \in DOMAIN db[t].analyses : DeleteAnalysis(t, p, a, by, at)
             \/ DeleteProject(t, p, by, at)
    BY <1>3 DEF Delete
  <2>2. ASSUME NEW a \in DOMAIN db[t].analyses, DeleteAnalysis(t, p, a, by, at)
        PROVE  UNCHANGED <<StoreLogs, Carried>>
    BY <1>2, <2>2 DEF DeleteAnalysis
  <2>3. ASSUME DeleteProject(t, p, by, at)
        PROVE  UNCHANGED <<StoreLogs, Carried>>
    <3> DEFINE f == TombstoneProject(db[t], p, by, at)
    <3>1. f.analyses = db[t].analyses /\ f.reviews = db[t].reviews /\ f.history = db[t].history
      BY DEF TombstoneProject, Database
    <3>2. db' = [db EXCEPT ![t] = f] /\ UNCHANGED backups
      BY <2>3 DEF DeleteProject
    <3> HIDE DEF f
    <3>3. KeepsLogs(db[t], f)
      BY <3>1 DEF KeepsLogs
    <3>4. QED
      BY <3>2, <3>3, QuietStep
  <2>4. QED
    BY <2>1, <2>2, <2>3
<1>4. ASSUME NEW t \in Stores, Retain(t)
      PROVE  UNCHANGED <<StoreLogs, Carried>>
  <2>1. PICK p \in Projects, by \in Actors, at \in Stamps,
             before \in {EpochOf[rep] + 1 : rep \in Reports},
             branch \in Branches \cup {AnyBranch} :
             ApplyRetention(t, p, before, branch, by, at)
    BY <1>4 DEF Retain
  <2> DEFINE ids == RetentionTargets(db[t], p, before, branch)
  <2>2. ids \subseteq DOMAIN db[t].analyses
    BY DEF RetentionTargets
  <2>3. /\ db' = [db EXCEPT ![t] = Tombstone(db[t], p, ids, "retention", by, at)]
        /\ UNCHANGED backups
    BY <2>1 DEF ApplyRetention
  <2> HIDE DEF ids
  <2>4. QED
    BY <1>2, <2>2, <2>3
<1>5. ASSUME UNCHANGED vars
      PROVE  UNCHANGED <<StoreLogs, Carried>>
  BY <1>5 DEF vars, StoreLogs, Carried
<1>6. QED
  BY <1>1, <1>3, <1>4, <1>5, ReviewDecides, ExportCarries, RestoreInstalls DEF Next

(* The service keeps its promise to reviewers for any number of stores,      *)
(* projects, reviews and backups: seen through the history table, every      *)
(* handler appends one decision to one log, carries logs, installs whole     *)
(* logs, or changes nothing.                                                 *)
THEOREM StoreImplementsLog == Spec => ImplementsReviewLog
<1>1. Init => Logs!Init
  <2> SUFFICES ASSUME Init
               PROVE  Logs!Init
    OBVIOUS
  <2>1. \A k : Decisions(EmptyDb, k) = <<>>
    <3>1. \A k, i : ~Reviewed(EmptyDb, k, i)
      BY DEF Reviewed, EmptyDb, Database, NoRows
    <3>2. QED
      BY <3>1, NoDecisions
  <2>2. \A s \in Stores : db[s] = EmptyDb
    BY DEF Init
  <2>3. StoreLogs = [s \in Stores |-> [k \in Logs!AllKeys |-> <<>>]]
    BY <2>1, <2>2, KeysOfProjects, MappedLogs DEF Logs!AllKeys
  <2>4. Carried = {}
    BY DEF Init, Carried
  <2>5. QED
    BY <2>3, <2>4 DEF Logs!Init, StoreLogs, Carried
<1>2. ReviewInv /\ ReviewInv' /\ [Next]_vars => [Logs!Next]_<<StoreLogs, Carried>>
  BY StepImplements
<1>3. QED
  BY <1>1, <1>2, ReviewInvariant, PTL DEF Spec, ImplementsReviewLog, Logs!Spec, StoreLogs, Carried
=============================================================================
