------------------------------ MODULE Dashboard -----------------------------
(***************************************************************************)
(* The browser page of hoonarqube-service (static/app.js) against a server *)
(* that other reviewers use too.  Handlers of the page run to their next   *)
(* await without interruption; every await is a request that the server    *)
(* answers at some later time, and answers and failures reach the page in  *)
(* any order.                                                              *)
(*                                                                         *)
(* The page guards its continuations with counters: a handler remembers    *)
(* the value of a counter and gives up when it has changed.  Only equality *)
(* with the current value is ever asked for, so a request carries the set  *)
(* of counters that have not changed since it was sent (fresh).            *)
(*                                                                         *)
(* Values of the document that always equal a field of state are not kept  *)
(* twice: the rows of the history table are analyses, the value of the     *)
(* branch control is branch, the detail panel is shown when analysis is    *)
(* set and the review panel when selected is.  The cards of the findings   *)
(* list are kept apart, because they outlive state.findings.               *)
(***************************************************************************)
EXTENDS Naturals, Sequences, FiniteSets

CONSTANTS
    Tokens, Projects, Branches, Analyses, Identities,
    Visible,      \* the projects that a token may read
    ProjectOf, BranchOf,
    IdentityOf,   \* the finding of an analysis (with its kind), or None
    ContextOf,    \* assessment contexts: reviews carry over within one
    None,
    MaxPending,   \* bound: requests in flight
    MaxVersion    \* bound: decisions on one finding

ASSUME DashboardAssumption ==
    /\ Visible \in [Tokens -> SUBSET Projects]
    /\ ProjectOf \in [Analyses -> Projects] /\ BranchOf \in [Analyses -> Branches]
    /\ IdentityOf \in [Analyses -> Identities \cup {None}]
    /\ None \notin Tokens \cup Projects \cup Branches \cup Analyses \cup Identities
    /\ MaxPending \in Nat \ {0} /\ MaxVersion \in Nat

Keys == Projects \X Branches \X Identities

(* A review as the server sends it, and the form that a selection fills.     *)
Reviews == [key : Keys, version : Nat, analysis : Analyses]
Forms == [identity : Identities, review : Reviews \cup {None}, listed : BOOLEAN, expected : Nat]

(* null is not an object. *)
ASSUME NullAssumption == None \notin Forms

VARIABLES
    page,      \* state and document of the page
    pending,   \* the requests in flight, by slot
    log        \* server: the analyses on which each review was decided, in order

vars == <<page, pending, log>>

Slots == 1 .. MaxPending
Counters == {"session", "branch", "analysis", "review", "history"}
NoReviews == [x \in Identities |-> None]

Init ==
    /\ page = [token |-> None, projects |-> {}, project |-> None,
               branches |-> {}, branch |-> None,
               analyses |-> {}, historyShown |-> FALSE, wanted |-> None,
               analysis |-> None, findings |-> None, reviews |-> NoReviews,
               cards |-> None, selected |-> None, context |-> None, audit |-> None]
    /\ pending = [i \in Slots |-> None]
    /\ log = [k \in Keys |-> <<>>]

-----------------------------------------------------------------------------
(* The server, as the page sees it (see ServiceStore). *)

BranchesOf(p) == {BranchOf[a] : a \in {x \in Analyses : ProjectOf[x] = p}}
AnalysesOf(p, b) == {a \in Analyses : ProjectOf[a] = p /\ BranchOf[a] = b}

(* The review of a key: its version is the number of decisions. *)
ReviewOf(k) ==
    IF log[k] = <<>> THEN None
    ELSE [key |-> k, version |-> Len(log[k]), analysis |-> log[k][Len(log[k])]]

KeyOf(a, identity) == <<ProjectOf[a], BranchOf[a], identity>>

(* A review is shown on the analysis it was made on and within its context. *)
Shows(a, reviewed) == a = reviewed \/ ContextOf[a] = ContextOf[reviewed]

(* GET .../findings: at most one finding here, with the review it shows. *)
FindingsReply(a) ==
    IF IdentityOf[a] = None THEN None
    ELSE LET review == ReviewOf(KeyOf(a, IdentityOf[a]))
         IN  [of |-> a, identity |-> IdentityOf[a],
              review |-> IF review # None /\ Shows(a, review.analysis) THEN review ELSE None]

(* GET .../reviews?branch= *)
ReviewsReply(p, b) == [x \in Identities |-> ReviewOf(<<p, b, x>>)]

-----------------------------------------------------------------------------
(* Requests. *)

Request(fresh, call) == [fresh |-> fresh, call |-> call]

(* Advancing counters makes the requests that remember them stale. *)
Aged(request, counters) ==
    IF request = None THEN None ELSE [request EXCEPT !.fresh = @ \ counters]

(* Slot i is given to a request (or to None), other requests age. *)
Send(i, counters, request) ==
    pending' = [j \in Slots |-> IF j = i THEN request ELSE Aged(pending[j], counters)]

(* The slot that a user's action may use. *)
Free(i) == pending[i] = None /\ \A j \in Slots : j < i => pending[j] # None

Awaits(i, kind) == pending[i] # None /\ pending[i].call.kind = kind

Fresh(i, counters) == counters \subseteq pending[i].fresh

Call(i) == pending[i].call

(* A stale answer, and a failure that only shows a notice. *)
Ignore(i) ==
    /\ Send(i, {}, None)
    /\ UNCHANGED <<page, log>>

-----------------------------------------------------------------------------
(* clearReviewSelection and hideResults: what they reset, and the counters   *)
(* they advance.  The rows and the cards stay in the document.               *)
Cleared(p) == [p EXCEPT !.selected = None, !.context = None, !.audit = None]
ReviewCounters == {"review", "history"}

NoResults(p) ==
    [Cleared(p) EXCEPT !.historyShown = FALSE, !.analysis = None, !.wanted = None,
                       !.findings = None, !.reviews = NoReviews]
ResultCounters == {"analysis"} \cup ReviewCounters

(* The handler of the connection form, and loadProjects up to its await. *)
Connect(i, t) ==
    /\ Free(i)
    /\ page' = [NoResults(page) EXCEPT !.token = t, !.projects = {}, !.project = None,
                                       !.branches = {}, !.branch = None]
    /\ Send(i, {"session"} \cup ResultCounters,
            Request({"session"}, [kind |-> "projects", token |-> t]))
    /\ UNCHANGED log

Disconnect ==
    /\ page.token # None
    /\ page' = [NoResults(page) EXCEPT !.token = None, !.projects = {}, !.project = None,
                                       !.branches = {}, !.branch = None]
    /\ Send(0, {"session"} \cup ResultCounters, None)
    /\ UNCHANGED log

(* loadProjects after its await. *)
LoadProjectsDone(i) ==
    /\ Awaits(i, "projects")
    /\ IF Fresh(i, {"session"})
       THEN page' = [page EXCEPT !.projects = Visible[Call(i).token]]
       ELSE UNCHANGED page
    /\ Send(i, {}, None)
    /\ UNCHANGED log

LoadProjectsRefused(i) ==
    /\ Awaits(i, "projects")
    /\ IF Fresh(i, {"session"})
       THEN page' = [page EXCEPT !.token = None, !.projects = {}]
       ELSE UNCHANGED page
    /\ Send(i, {}, None)
    /\ UNCHANGED log

(* loadBranches, when the project control changes. *)
ChangeProject(i, p) ==
    /\ Free(i)
    /\ p \in page.projects \cup {None} /\ p # page.project
    /\ page' = [NoResults(page) EXCEPT !.project = p, !.branches = {}, !.branch = None]
    /\ Send(i, {"branch"} \cup ResultCounters,
            IF p = None THEN None
            ELSE Request({"branch", "session"}, [kind |-> "branches", project |-> p]))
    /\ UNCHANGED log

(* Mutant: only the session is compared. *)
LoadBranchesOfSession(i) ==
    /\ Awaits(i, "branches")
    /\ IF Fresh(i, {"session"})
       THEN page' = [page EXCEPT !.branches = BranchesOf(Call(i).project)]
       ELSE UNCHANGED page
    /\ Send(i, {}, None)
    /\ UNCHANGED log

LoadBranchesDone(i) ==
    /\ Awaits(i, "branches")
    /\ IF Fresh(i, {"branch", "session"})
       THEN page' = [page EXCEPT !.branches = BranchesOf(Call(i).project)]
       ELSE UNCHANGED page
    /\ Send(i, {}, None)
    /\ UNCHANGED log

(* The change of the branch control. *)
ChangeBranch(b) ==
    /\ b \in page.branches /\ b # page.branch
    /\ page' = [NoResults(page) EXCEPT !.branch = b]
    /\ Send(0, ResultCounters, None)
    /\ UNCHANGED log

-----------------------------------------------------------------------------
(* Mutant: selectAnalysis does not advance its counter. *)
SelectAnalysisUncounted(i, p, id) ==
    /\ page' = [Cleared(p) EXCEPT !.analysis = None, !.wanted = id, !.findings = None,
                                  !.reviews = NoReviews]
    /\ Send(i, ReviewCounters,
            Request({"analysis"}, [kind |-> "analysis", project |-> p.project, id |-> id]))
    /\ UNCHANGED log

(* selectAnalysis up to its await, in the slot i.  wanted remembers the      *)
(* choice; the page has no such field.                                       *)
SelectAnalysis(i, p, id) ==
    /\ page' = [Cleared(p) EXCEPT !.analysis = None, !.wanted = id, !.findings = None,
                                  !.reviews = NoReviews]
    /\ Send(i, ResultCounters,
            Request({"analysis"}, [kind |-> "analysis", project |-> p.project, id |-> id]))
    /\ UNCHANGED log

(* loadAnalyses, when the scope form is submitted. *)
LoadAnalyses(i) ==
    /\ Free(i)
    /\ page.branch # None
    /\ page' = NoResults(page)
    /\ Send(i, ResultCounters,
            Request({"analysis"}, [kind |-> "analyses", project |-> page.project,
                                   branch |-> page.branch]))
    /\ UNCHANGED log

(* loadAnalyses after its await: the first analysis is selected at once.     *)
(* Analyses may have been deleted on the server since.                       *)
LoadAnalysesDone(i) ==
    /\ Awaits(i, "analyses")
    /\ \E listed \in SUBSET AnalysesOf(Call(i).project, Call(i).branch) :
          LET shown == [page EXCEPT !.analyses = listed, !.historyShown = TRUE]
          IN  IF ~Fresh(i, {"analysis"}) THEN Ignore(i)
              ELSE \/ \E id \in listed : SelectAnalysis(i, shown, id)
                   \/ /\ listed = {}
                      /\ page' = shown
                      /\ Send(i, {}, None)
                      /\ UNCHANGED log

(* Its error path shows the panel with the rows that are there. *)
LoadAnalysesFailed(i) ==
    /\ Awaits(i, "analyses")
    /\ IF Fresh(i, {"analysis"})
       THEN page' = [page EXCEPT !.historyShown = TRUE]
       ELSE UNCHANGED page
    /\ Send(i, {}, None)
    /\ UNCHANGED log

(* A click on a row of the history. *)
SelectRow(i, id) ==
    /\ Free(i)
    /\ page.historyShown /\ id \in page.analyses
    /\ SelectAnalysis(i, page, id)

(* selectAnalysis after its await (the server knows the analysis only under  *)
(* its project), and loadFindingsAndReviews up to its await.                 *)
SelectAnalysisDone(i) ==
    /\ Awaits(i, "analysis")
    /\ ProjectOf[Call(i).id] = Call(i).project
    /\ IF ~Fresh(i, {"analysis"}) THEN Ignore(i)
       ELSE /\ page' = [page EXCEPT !.analysis = Call(i).id, !.historyShown = TRUE]
            /\ Send(i, {}, Request({"analysis"},
                      [kind |-> "findings", project |-> page.project,
                       branch |-> page.branch, id |-> Call(i).id,
                       answered |-> {}, findings |-> None, reviews |-> NoReviews]))
            /\ UNCHANGED log

(* loadFindingsAndReviews after both of its answers. *)
LoadFindingsDone(i) ==
    /\ Awaits(i, "findings")
    /\ Call(i).answered = {"findings", "reviews"}
    /\ IF Fresh(i, {"analysis"}) /\ page.analysis = Call(i).id
       THEN page' = [page EXCEPT !.findings = Call(i).findings, !.cards = Call(i).findings,
                                 !.reviews = Call(i).reviews]
       ELSE UNCHANGED page
    /\ Send(i, {}, None)
    /\ UNCHANGED log

LoadFindingsFailed(i) ==
    /\ Awaits(i, "findings")
    /\ IF Fresh(i, {"analysis"})
       THEN page' = [page EXCEPT !.findings = None, !.reviews = NoReviews]
       ELSE UNCHANGED page
    /\ Send(i, {}, None)
    /\ UNCHANGED log

-----------------------------------------------------------------------------
Version(review) == IF review = None THEN 0 ELSE review.version

(* fillReviewForm: the version of the review that the finding shows, else of *)
(* the review that the branch has.  listed says whether the finding object   *)
(* is a member of state.findings.                                            *)
Form(finding, reviews, listed) ==
    [identity |-> finding.identity, review |-> finding.review, listed |-> listed,
     expected |-> Version(IF finding.review # None THEN finding.review
                          ELSE reviews[finding.identity])]

(* loadReviewHistory up to its await, in the slot i, for the page p, with    *)
(* the counters that its caller has advanced.                                *)
LoadHistory(i, p, counters) ==
    /\ page' = [p EXCEPT !.audit = None]
    /\ Send(i, counters \cup {"history"},
            IF p.selected.review = None THEN None
            ELSE Request(ReviewCounters, [kind |-> "history", key |-> p.selected.review.key,
                                          context |-> p.context, answer |-> None]))
    /\ UNCHANGED log

(* reviewContextCurrent, for the counters a continuation remembers *)
ContextCurrent(i, counters) ==
    Fresh(i, counters) /\ page.context = Call(i).context /\ page.analysis = Call(i).context

(* selectFinding: a click on a card. *)
SelectFinding(i) ==
    /\ Free(i)
    /\ page.cards # None /\ page.analysis # None
    /\ LoadHistory(i, [page EXCEPT !.context = page.analysis,
                                   !.selected = Form(page.cards, page.reviews, page.findings # None)],
                   {"review"})

(* The refresh button of the audit history. *)
RefreshHistory(i) ==
    /\ Free(i)
    /\ page.selected # None /\ page.context = page.analysis
    /\ LoadHistory(i, page, {})

(* Mutant: the history counter is not compared. *)
LoadHistoryOfSelection(i) ==
    /\ Awaits(i, "history")
    /\ Call(i).answer # None
    /\ IF ContextCurrent(i, {"review"})
       THEN page' = [page EXCEPT !.audit = Call(i).answer]
       ELSE UNCHANGED page
    /\ Send(i, {}, None)
    /\ UNCHANGED log

LoadHistoryDone(i) ==
    /\ Awaits(i, "history")
    /\ Call(i).answer # None
    /\ IF ContextCurrent(i, ReviewCounters)
       THEN page' = [page EXCEPT !.audit = Call(i).answer]
       ELSE UNCHANGED page
    /\ Send(i, {}, None)
    /\ UNCHANGED log

(* submitReview up to its await.  shown is what the user has before him, not *)
(* a part of the request.                                                    *)
SubmitReview(i) ==
    /\ Free(i)
    /\ page.selected # None /\ page.context = page.analysis
    /\ Send(i, {}, Request({"review"},
               [kind |-> "submit", project |-> page.project, context |-> page.context,
                identity |-> page.selected.identity, expected |-> page.selected.expected,
                shown |-> page.selected.review, answer |-> None]))
    /\ UNCHANGED <<page, log>>

(* submitReview after a success: the objects of state.findings get the new   *)
(* review; the selected finding only if it is one of them.                   *)
SubmitSaved(i) ==
    /\ Awaits(i, "submit")
    /\ Call(i).answer # None /\ Call(i).answer.saved
    /\ LET identity == Call(i).identity
           updated(f) == IF f # None /\ f.identity = identity
                         THEN [f EXCEPT !.review = Call(i).answer.review] ELSE f
           findings == updated(page.findings)
           selected == IF page.selected.listed THEN updated(page.selected) ELSE page.selected
       IN  IF ~ContextCurrent(i, {"review"}) THEN Ignore(i)
           ELSE LoadHistory(i, [page EXCEPT
                    !.reviews[identity] = Call(i).answer.review,
                    !.findings = findings, !.cards = findings,
                    !.selected = [selected EXCEPT !.expected = Version(selected.review)]], {})

(* submitReview after a 409: refreshSelectedReview up to its await. *)
SubmitConflict(i) ==
    /\ Awaits(i, "submit")
    /\ Call(i).answer # None /\ ~Call(i).answer.saved
    /\ IF ~ContextCurrent(i, {"review"}) THEN Ignore(i)
       ELSE /\ Send(i, {}, Request({"review"},
                      [kind |-> "refresh", project |-> page.project, branch |-> page.branch,
                       id |-> page.analysis, context |-> page.context,
                       answered |-> {}, findings |-> None, reviews |-> NoReviews]))
            /\ UNCHANGED <<page, log>>

(* refreshSelectedReview after both of its answers, then the history. *)
RefreshDone(i) ==
    /\ Awaits(i, "refresh")
    /\ Call(i).answered = {"findings", "reviews"}
    /\ LET found == Call(i).findings # None /\ Call(i).findings.identity = page.selected.identity
           finding == IF found THEN Call(i).findings
                      ELSE [identity |-> page.selected.identity, review |-> None]
       IN  IF ~ContextCurrent(i, {"review"}) THEN Ignore(i)
           ELSE LoadHistory(i, [page EXCEPT
                    !.findings = Call(i).findings, !.cards = Call(i).findings,
                    !.reviews = Call(i).reviews,
                    !.selected = Form(finding, Call(i).reviews, found)], {})

(* A request fails, or its answer is lost, where the page only shows that. *)
Fails(i) ==
    /\ \E kind \in {"projects", "branches", "analysis", "history", "submit", "refresh"} :
          Awaits(i, kind)
    /\ Ignore(i)

-----------------------------------------------------------------------------
(* The server answers, at any time between request and answer.               *)

Answered(i, call) ==
    /\ pending' = [pending EXCEPT ![i].call = call]
    /\ UNCHANGED page

(* The two requests of a Promise.all are answered one after the other. *)
AnswerHalf(i, half) ==
    /\ Awaits(i, "findings") \/ Awaits(i, "refresh")
    /\ half \in {"findings", "reviews"} \ Call(i).answered
    /\ Answered(i, IF half = "findings"
                   THEN [Call(i) EXCEPT !.answered = @ \cup {half}, !.findings = FindingsReply(Call(i).id)]
                   ELSE [Call(i) EXCEPT !.answered = @ \cup {half},
                                        !.reviews = ReviewsReply(Call(i).project, Call(i).branch)])
    /\ UNCHANGED log

AnswerHistory(i) ==
    /\ Awaits(i, "history")
    /\ Call(i).answer = None
    /\ Answered(i, [Call(i) EXCEPT !.answer = [key |-> Call(i).key, entries |-> Len(log[Call(i).key])]])
    /\ UNCHANGED log

(* POST .../reviews: a stale version is a conflict, a finding that the       *)
(* analysis does not have is refused (the request fails).                    *)
AnswerSubmit(i) ==
    /\ Awaits(i, "submit")
    /\ Call(i).answer = None
    /\ IdentityOf[Call(i).context] = Call(i).identity
    /\ ProjectOf[Call(i).context] = Call(i).project
    /\ LET k == KeyOf(Call(i).context, Call(i).identity)
       IN  IF Call(i).expected # Len(log[k])
           THEN /\ Answered(i, [Call(i) EXCEPT !.answer = [saved |-> FALSE]])
                /\ UNCHANGED log
           ELSE /\ Len(log[k]) < MaxVersion
                /\ log' = [log EXCEPT ![k] = Append(@, Call(i).context)]
                /\ Answered(i, [Call(i) EXCEPT !.answer =
                      [saved |-> TRUE,
                       review |-> [key |-> k, version |-> Len(log[k]) + 1,
                                   analysis |-> Call(i).context]]])

(* Another reviewer decides. *)
OtherReview(a) ==
    /\ IdentityOf[a] # None
    /\ Len(log[KeyOf(a, IdentityOf[a])]) < MaxVersion
    /\ log' = [log EXCEPT ![KeyOf(a, IdentityOf[a])] = Append(@, a)]
    /\ UNCHANGED <<page, pending>>

-----------------------------------------------------------------------------
User ==
    \/ Disconnect
    \/ \E b \in Branches : ChangeBranch(b)
    \/ \E i \in Slots :
          \/ \E t \in Tokens : Connect(i, t)
          \/ \E p \in Projects \cup {None} : ChangeProject(i, p)
          \/ LoadAnalyses(i)
          \/ \E id \in Analyses : SelectRow(i, id)
          \/ SelectFinding(i) \/ RefreshHistory(i) \/ SubmitReview(i)

Continue(i) ==
    \/ LoadProjectsDone(i) \/ LoadProjectsRefused(i) \/ LoadBranchesDone(i)
    \/ LoadAnalysesDone(i) \/ LoadAnalysesFailed(i)
    \/ SelectAnalysisDone(i) \/ LoadFindingsDone(i) \/ LoadFindingsFailed(i)
    \/ LoadHistoryDone(i) \/ SubmitSaved(i) \/ SubmitConflict(i) \/ RefreshDone(i)
    \/ Fails(i)

Server ==
    \/ \E a \in Analyses : OtherReview(a)
    \/ \E i \in Slots :
          \/ \E half \in {"findings", "reviews"} : AnswerHalf(i, half)
          \/ AnswerHistory(i) \/ AnswerSubmit(i)

Next == User \/ (\E i \in Slots : Continue(i)) \/ Server

Spec == Init /\ [][Next]_vars

-----------------------------------------------------------------------------
(* Fields hold values of their kind, a selected finding has the analysis it  *)
(* was selected on, and a request names counters.                            *)
TypeOK ==
    /\ page.token \in Tokens \cup {None} /\ page.projects \subseteq Projects
    /\ page.project \in Projects \cup {None} /\ page.branch \in Branches \cup {None}
    /\ page.branches \subseteq Branches /\ page.analyses \subseteq Analyses
    /\ page.historyShown \in BOOLEAN
    /\ {page.analysis, page.wanted, page.context} \subseteq Analyses \cup {None}
    /\ page.selected # None => page.context \in Analyses /\ page.selected.identity \in Identities
    /\ \A i \in Slots : pending[i] # None => pending[i].fresh \subseteq Counters
    /\ \A k \in Keys : Len(log[k]) <= MaxVersion

(* Answers of earlier sessions and project selections are discarded: the     *)
(* project list is what the current token may read, the branch list is that  *)
(* of the selected project, and after a disconnect nothing of the session is *)
(* on the page and no pending request brings it back.                        *)
PageOfCurrentScope ==
    /\ TypeOK
    /\ page.token # None => page.projects \subseteq Visible[page.token]
    /\ page.project # None => page.branches \subseteq BranchesOf(page.project)
    /\ page.project = None => page.branches = {}
    /\ page.token = None =>
          /\ page.projects = {} /\ page.branches = {}
          /\ ~page.historyShown /\ page.analysis = None /\ page.selected = None

(* Whatever the order of answers, the analysis on the page is the one that   *)
(* was selected last, and it belongs to the selected project.                *)
LastSelectionWins ==
    page.analysis # None =>
        page.analysis = page.wanted /\ ProjectOf[page.analysis] = page.project

(* The audit list belongs to the review that the form shows and is never     *)
(* older than it.                                                            *)
AuditOfSelected ==
    page.audit # None =>
        /\ page.selected # None /\ page.selected.review # None
        /\ page.audit.key = page.selected.review.key
        /\ page.audit.entries >= page.selected.review.version

-----------------------------------------------------------------------------
(* What the page says of itself and the code does not keep.                  *)

(* A review that "changed since it was loaded" (app.js) is a conflict: an    *)
(* accepted decision replaces the one the user has before him, if its        *)
(* analysis shows that one at all.                                           *)
NoBlindOverwrite ==
    \A i \in Slots :
        Awaits(i, "submit") /\ Call(i).answer # None /\ Call(i).answer.saved =>
            LET review == Call(i).answer.review
                replaced == review.version - 1
            IN  replaced > 0 /\ Shows(Call(i).context, log[review.key][replaced])
                  => Version(Call(i).shown) = replaced
=============================================================================
