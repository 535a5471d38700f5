-------------------------- MODULE ServiceReviewLog --------------------------
(***************************************************************************)
(* ServiceStore implements ReviewLog.  The log of a key is read off the    *)
(* history table, whose rows refer to reviews and analyses by ids that     *)
(* differ from store to store; an entry names its analysis by commit.      *)
(***************************************************************************)
EXTENDS ServiceStore, Sequences

ReviewKeys == [p \in Projects |->
    [project : {p}, branch : Branches, identity : Identities, kind : Kinds]]

LogEntries == [commit : Commits, state : RequestedStates, by : Actors, at : Stamps]

(* The decisions on a review, oldest first, as review_history lists them;    *)
(* rows is a database or an envelope.                                        *)
Decisions(rows, k) ==
    LET review == ExistingReview(rows, k.project, k.branch, k.identity, k.kind)
        entries == {h \in rows.history : h.review \in review}
        entry(v) == CHOOSE h \in entries : h.version = v
    IN  [v \in 1 .. Cardinality(entries) |->
            [commit |-> rows.analyses[entry(v).analysis].commit,
             state |-> entry(v).new, by |-> entry(v).by, at |-> entry(v).at]]

LastState(decisions) ==
    IF decisions = <<>> THEN NoState ELSE decisions[Len(decisions)].state

AllowedDecision(k, decisions, e) ==
    ValidTransition(k.kind, LastState(decisions), e.state)

Logs == INSTANCE ReviewLog WITH
    Keys <- ReviewKeys,
    Entries <- LogEntries,
    Allowed <- AllowedDecision,
    log <- [s \in Stores |->
              [k \in UNION {ReviewKeys[p] : p \in Projects} |-> Decisions(db[s], k)]],
    carried <- {[k \in ReviewKeys[x.envelope.project] |-> Decisions(x.envelope, k)] :
                   x \in backups}

(* Every step of every handler is, seen through the history table, one       *)
(* decision appended to one log, a backup taken, whole logs installed, or    *)
(* nothing: no ingest, review, retention, deletion or restore loses, edits,  *)
(* reorders or duplicates a reviewer's decision or moves it to another       *)
(* finding, branch or project.                                               *)
ImplementsReviewLog == Logs!Spec
=============================================================================
