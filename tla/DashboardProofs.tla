-------------------------- MODULE DashboardProofs ---------------------------
(***************************************************************************)
(* The page of the dashboard keeps to its scope, its selection and its     *)
(* audit list, for any number of requests in flight, whatever the order of *)
(* their answers, and whatever other reviewers decide in the meantime.     *)
(***************************************************************************)
EXTENDS Dashboard, TLAPS

(* Values of the page and of requests. *)
Findings == [of : Analyses, identity : Identities, review : Reviews \cup {None}]
Audits == [key : Keys, entries : Nat]
Halves == {"findings", "reviews"}
ReviewLists == [Identities -> Reviews \cup {None}]

Pages ==
    [token : Tokens \cup {None}, projects : SUBSET Projects, project : Projects \cup {None},
     branches : SUBSET Branches, branch : Branches \cup {None},
     analyses : SUBSET Analyses, historyShown : BOOLEAN, wanted : Analyses \cup {None},
     analysis : Analyses \cup {None}, findings : Findings \cup {None}, reviews : ReviewLists,
     cards : Findings \cup {None}, selected : Forms \cup {None},
     context : Analyses \cup {None}, audit : Audits \cup {None}]

ProjectsCalls == [kind : {"projects"}, token : Tokens]
BranchesCalls == [kind : {"branches"}, project : Projects]
AnalysesCalls == [kind : {"analyses"}, project : Projects, branch : Branches]
AnalysisCalls == [kind : {"analysis"}, project : Projects, id : Analyses]
FindingsCalls ==
    [kind : {"findings"}, project : Projects, branch : Branches, id : Analyses,
     answered : SUBSET Halves, findings : Findings \cup {None}, reviews : ReviewLists]
HistoryCalls ==
    [kind : {"history"}, key : Keys, context : Analyses, answer : Audits \cup {None}]
SubmitAnswers == [saved : {FALSE}] \cup [saved : {TRUE}, review : Reviews]
SubmitCalls ==
    [kind : {"submit"}, project : Projects, context : Analyses, identity : Identities,
     expected : Nat, shown : Reviews \cup {None}, answer : SubmitAnswers \cup {None}]
RefreshCalls ==
    [kind : {"refresh"}, project : Projects, branch : Branches, id : Analyses, context : Analyses,
     answered : SUBSET Halves, findings : Findings \cup {None}, reviews : ReviewLists]

Calls ==
    ProjectsCalls \cup BranchesCalls \cup AnalysesCalls \cup AnalysisCalls \cup FindingsCalls
        \cup HistoryCalls \cup SubmitCalls \cup RefreshCalls

Requests == [fresh : SUBSET Counters, call : Calls]

Logs == [Keys -> Seq(Analyses)]

(* A kind of request has its fields. *)
LEMMA CallOfKind ==
    ASSUME NEW c \in Calls
    PROVE  /\ c.kind = "projects" => c \in ProjectsCalls
           /\ c.kind = "branches" => c \in BranchesCalls
           /\ c.kind = "analyses" => c \in AnalysesCalls
           /\ c.kind = "analysis" => c \in AnalysisCalls
           /\ c.kind = "findings" => c \in FindingsCalls
           /\ c.kind = "history" => c \in HistoryCalls
           /\ c.kind = "submit" => c \in SubmitCalls
           /\ c.kind = "refresh" => c \in RefreshCalls
<1> USE DEF Calls
<1>1. c \in ProjectsCalls => c.kind = "projects"
  BY DEF ProjectsCalls
<1>2. c \in BranchesCalls => c.kind = "branches"
  BY DEF BranchesCalls
<1>3. c \in AnalysesCalls => c.kind = "analyses"
  BY DEF AnalysesCalls
<1>4. c \in AnalysisCalls => c.kind = "analysis"
  BY DEF AnalysisCalls
<1>5. c \in FindingsCalls => c.kind = "findings"
  BY DEF FindingsCalls
<1>6. c \in HistoryCalls => c.kind = "history"
  BY DEF HistoryCalls
<1>7. c \in SubmitCalls => c.kind = "submit"
  BY DEF SubmitCalls
<1>8. c \in RefreshCalls => c.kind = "refresh"
  BY DEF RefreshCalls
<1>9. QED
  BY <1>1, <1>2, <1>3, <1>4, <1>5, <1>6, <1>7, <1>8

-----------------------------------------------------------------------------
(* A review that the page or a request holds is one the server has recorded. *)
Known(l, review) == review # None => review.version <= Len(l[review.key])
KnownFinding(l, f) == f # None => Known(l, f.review)
KnownList(l, list) == \A x \in Identities : Known(l, list[x])

KnownPage(l, p) ==
    /\ KnownFinding(l, p.findings) /\ KnownFinding(l, p.cards)
    /\ KnownFinding(l, p.selected) /\ KnownList(l, p.reviews)

KnownCall(l, c) ==
    /\ c.kind \in {"findings", "refresh"} => KnownFinding(l, c.findings) /\ KnownList(l, c.reviews)
    /\ c.kind = "submit" /\ c.answer # None /\ c.answer.saved => Known(l, c.answer.review)

(* The scope of a page: a branch is chosen in a project and a project in a   *)
(* session; results are shown for a branch, a finding for an analysis.       *)
Scoped(p) ==
    /\ p.token # None => p.projects \subseteq Visible[p.token]
    /\ p.token = None => p.projects = {}
    /\ p.project # None => p.token # None /\ p.branches \subseteq BranchesOf(p.project)
    /\ p.project = None => p.branches = {}
    /\ p.branch # None => p.project # None
    /\ p.historyShown \/ p.analysis # None => p.branch # None
    /\ p.analysis # None => p.analysis = p.wanted /\ ProjectOf[p.analysis] = p.project
    /\ p.selected # None => p.analysis # None /\ p.context # None
    /\ p.audit # None =>
          /\ p.selected # None /\ p.selected.review # None
          /\ p.audit.key = p.selected.review.key
          /\ p.audit.entries >= p.selected.review.version

(* What a request whose counters have not advanced knows about the page. *)
ProjectsFresh(p, r) ==
    r.call.kind = "projects" /\ "session" \in r.fresh =>
        r.call.token = p.token /\ p.project = None /\ p.projects = {}

BranchesFresh(p, r) ==
    r.call.kind = "branches" /\ {"branch", "session"} \subseteq r.fresh => r.call.project = p.project

AnalysisFresh(p, r) ==
    r.call.kind \in {"analyses", "analysis", "findings"} /\ "analysis" \in r.fresh =>
        /\ p.branch # None
        /\ r.call.kind = "analysis" => r.call.id = p.wanted /\ r.call.project = p.project

ReviewFresh(p, r) ==
    r.call.kind \in {"submit", "refresh"} /\ "review" \in r.fresh => p.selected # None

HistoryFresh(p, r) ==
    r.call.kind = "history" /\ ReviewCounters \subseteq r.fresh =>
        /\ p.selected # None /\ p.selected.review # None
        /\ r.call.key = p.selected.review.key
        /\ r.call.answer # None =>
              /\ r.call.answer.key = r.call.key
              /\ r.call.answer.entries >= p.selected.review.version

FreshFits(p, r) ==
    ProjectsFresh(p, r) /\ BranchesFresh(p, r) /\ AnalysisFresh(p, r)
        /\ ReviewFresh(p, r) /\ HistoryFresh(p, r)

(* Only one request waits for the projects of the session. *)
Signing(r) == r # None /\ r.call.kind = "projects" /\ "session" \in r.fresh

PageInv ==
    /\ page \in Pages /\ log \in Logs
    /\ pending \in [Slots -> Requests \cup {None}]
    /\ \A k \in Keys : Len(log[k]) <= MaxVersion
    /\ KnownPage(log, page) /\ Scoped(page)
    /\ \A i \in Slots : pending[i] # None =>
          KnownCall(log, pending[i].call) /\ FreshFits(page, pending[i])
    /\ \A i, j \in Slots : Signing(pending[i]) /\ Signing(pending[j]) => i = j

-----------------------------------------------------------------------------
(* A request that ages keeps its call. *)
LEMMA AgedRequest ==
    ASSUME NEW r \in Requests, NEW C \in SUBSET Counters
    PROVE  /\ [r EXCEPT !.fresh = @ \ C] \in Requests
           /\ [r EXCEPT !.fresh = @ \ C].call = r.call
           /\ [r EXCEPT !.fresh = @ \ C].fresh = r.fresh \ C
BY DEF Requests

(* What may happen to the page under requests that do not notice. *)
Unnoticed(p, q, C) ==
    /\ {"session", "branch"} \cap C # {} \/ q.project = p.project
    /\ "analysis" \in C \/ (q.branch = p.branch /\ q.wanted = p.wanted /\ q.project = p.project)
    /\ "review" \in C \/ q.selected # None \/ q.selected = p.selected
    /\ ReviewCounters \cap C # {} \/ q.selected = p.selected

SameSession(p, q, C) ==
    "session" \in C \/ (q.token = p.token /\ q.projects = p.projects /\ q.project = p.project)

LEMMA FreshKept ==
    ASSUME NEW p, NEW q, NEW C \in SUBSET Counters, NEW r \in Requests, NEW s,
           s.call = r.call, s.fresh = r.fresh \ C,
           FreshFits(p, r), Unnoticed(p, q, C), SameSession(p, q, C) \/ ~Signing(r), r # None
    PROVE  FreshFits(q, s)
<1>1. ProjectsFresh(q, s)
  BY DEF FreshFits, ProjectsFresh, SameSession, Signing
<1>2. BranchesFresh(q, s)
  BY DEF FreshFits, BranchesFresh, Unnoticed
<1>3. AnalysisFresh(q, s)
  BY DEF FreshFits, AnalysisFresh, Unnoticed
<1>4. ReviewFresh(q, s)
  BY DEF FreshFits, ReviewFresh, Unnoticed
<1>5. HistoryFresh(q, s)
  BY DEF FreshFits, HistoryFresh, Unnoticed, ReviewCounters
<1>6. QED
  BY <1>1, <1>2, <1>3, <1>4, <1>5 DEF FreshFits

(* A handler runs to its next await: the page changes, counters advance and  *)
(* a request may be sent.                                                    *)
LEMMA SendKeeps ==
    ASSUME PageInv, NEW i, NEW C \in SUBSET Counters, NEW r, Send(i, C, r), log' = log,
           page' \in Pages, KnownPage(log, page'), Scoped(page'),
           Unnoticed(page, page', C),
           SameSession(page, page', C) \/ \A j \in Slots \ {i} : ~Signing(pending[j]),
           r # None => r \in Requests /\ KnownCall(log, r.call) /\ FreshFits(page', r),
           Signing(r) => "session" \in C
    PROVE  PageInv'
<1>1. pending \in [Slots -> Requests \cup {None}]
  BY DEF PageInv
<1>2. pending' = [j \in Slots |-> IF j = i THEN r ELSE Aged(pending[j], C)]
  BY DEF Send
<1>3. \A j \in Slots : j = i => pending'[j] = r
  BY <1>2
<1>4. ASSUME NEW j \in Slots, j # i
      PROVE  /\ pending'[j] \in Requests \cup {None}
             /\ pending'[j] # None =>
                   /\ pending[j] # None /\ pending'[j].call = pending[j].call
                   /\ pending'[j].fresh = pending[j].fresh \ C
                   /\ KnownCall(log, pending'[j].call) /\ FreshFits(page', pending'[j])
  <2>1. pending'[j] = Aged(pending[j], C)
    BY <1>2, <1>4
  <2>2. CASE pending[j] = None
    BY <2>1, <2>2 DEF Aged
  <2>3. CASE pending[j] # None
    <3>1. pending[j] \in Requests
      BY <1>1, <2>3
    <3>2. pending'[j] = [pending[j] EXCEPT !.fresh = @ \ C]
      BY <2>1, <2>3 DEF Aged
    <3>3. /\ pending'[j] \in Requests /\ pending'[j].call = pending[j].call
          /\ pending'[j].fresh = pending[j].fresh \ C
      BY <3>1, <3>2, AgedRequest
    <3>4. KnownCall(log, pending[j].call) /\ FreshFits(page, pending[j])
      BY <2>3 DEF PageInv
    <3>5. FreshFits(page', pending'[j])
      BY <1>4, <2>3, <3>1, <3>3, <3>4, FreshKept
    <3>6. QED
      BY <2>3, <3>3, <3>4, <3>5
  <2>4. QED
    BY <2>2, <2>3
<1>5. pending' \in [Slots -> Requests \cup {None}]
  BY <1>2, <1>3, <1>4
<1>6. \A j \in Slots : pending'[j] # None =>
          KnownCall(log, pending'[j].call) /\ FreshFits(page', pending'[j])
  BY <1>3, <1>4
<1>7. ASSUME NEW j \in Slots, NEW k \in Slots, Signing(pending'[j]), Signing(pending'[k])
      PROVE  j = k
  <2>1. ASSUME NEW m \in Slots, m # i, Signing(pending'[m])
        PROVE  Signing(pending[m]) /\ "session" \notin C
    BY <1>4, <2>1 DEF Signing
  <2>2. CASE j = i \/ k = i
    BY <1>3, <1>7, <2>1, <2>2
  <2>3. CASE j # i /\ k # i
    BY <1>7, <2>1, <2>3 DEF PageInv
  <2>4. QED
    BY <2>2, <2>3
<1>8. QED
  BY <1>5, <1>6, <1>7 DEF PageInv

(* A handler that ends: its slot becomes free. *)
LEMMA EndKeeps ==
    ASSUME PageInv, NEW i, Send(i, {}, None), log' = log,
           page' \in Pages, KnownPage(log, page'), Scoped(page'), Unnoticed(page, page', {}),
           SameSession(page, page', {}) \/ \A j \in Slots \ {i} : ~Signing(pending[j])
    PROVE  PageInv'
BY SendKeeps DEF Signing

LEMMA IgnoreKeeps ==
    ASSUME PageInv, NEW i, Ignore(i)
    PROVE  PageInv'
<1>1. page' = page /\ log' = log /\ Send(i, {}, None)
  BY DEF Ignore
<1>2. page' \in Pages /\ KnownPage(log, page') /\ Scoped(page') /\ Unnoticed(page, page', {})
      /\ SameSession(page, page', {})
  BY <1>1 DEF PageInv, Unnoticed, SameSession
<1>3. QED
  BY <1>1, <1>2, EndKeeps

-----------------------------------------------------------------------------
(* Resetting a page. *)
LEMMA ClearedPage ==
    ASSUME NEW p \in Pages
    PROVE  /\ Cleared(p) \in Pages
           /\ Cleared(p).selected = None /\ Cleared(p).context = None /\ Cleared(p).audit = None
           /\ Cleared(p).token = p.token /\ Cleared(p).projects = p.projects
           /\ Cleared(p).project = p.project /\ Cleared(p).branches = p.branches
           /\ Cleared(p).branch = p.branch /\ Cleared(p).analyses = p.analyses
           /\ Cleared(p).historyShown = p.historyShown /\ Cleared(p).wanted = p.wanted
           /\ Cleared(p).analysis = p.analysis /\ Cleared(p).findings = p.findings
           /\ Cleared(p).reviews = p.reviews /\ Cleared(p).cards = p.cards
<1>1. Cleared(p) \in Pages
  BY DEF Cleared, Pages
<1>2. QED
  BY <1>1 DEF Cleared, Pages

LEMMA NoReviewsList == NoReviews \in ReviewLists /\ \A l : KnownList(l, NoReviews)
BY DEF NoReviews, ReviewLists, KnownList, Known

LEMMA NoResultsPage ==
    ASSUME NEW p \in Pages
    PROVE  /\ NoResults(p) \in Pages
           /\ NoResults(p).selected = None /\ NoResults(p).context = None
           /\ NoResults(p).audit = None /\ NoResults(p).historyShown = FALSE
           /\ NoResults(p).analysis = None /\ NoResults(p).wanted = None
           /\ NoResults(p).findings = None /\ NoResults(p).reviews = NoReviews
           /\ NoResults(p).token = p.token /\ NoResults(p).projects = p.projects
           /\ NoResults(p).project = p.project /\ NoResults(p).branches = p.branches
           /\ NoResults(p).branch = p.branch /\ NoResults(p).analyses = p.analyses
           /\ NoResults(p).cards = p.cards
BY NoReviewsList DEF NoResults, Cleared, Pages

(* A page without results knows as much as its cards. *)
LEMMA ResetKnows ==
    ASSUME PageInv, NEW q, q.selected = None, q.findings = None, q.reviews = NoReviews,
           q.cards = page.cards
    PROVE  KnownPage(log, q)
BY NoReviewsList DEF PageInv, KnownPage, KnownFinding

(* Connecting and disconnecting make every request stale. *)
LEMMA SessionKeeps ==
    ASSUME PageInv, NEW i, NEW t \in Tokens \cup {None}, NEW r,
           page' = [NoResults(page) EXCEPT !.token = t, !.projects = {}, !.project = None,
                                           !.branches = {}, !.branch = None],
           Send(i, {"session"} \cup ResultCounters, r), log' = log,
           r # None => t \in Tokens /\ r = Request({"session"}, [kind |-> "projects", token |-> t])
    PROVE  PageInv'
<1> DEFINE n == NoResults(page)
           C == {"session"} \cup ResultCounters
<1>1. /\ n \in Pages /\ n.selected = None /\ n.context = None /\ n.audit = None
      /\ n.historyShown = FALSE /\ n.analysis = None /\ n.wanted = None
      /\ n.findings = None /\ n.reviews = NoReviews /\ n.cards = page.cards
  BY NoResultsPage DEF PageInv
<1> HIDE DEF n
<1>2. page' = [n EXCEPT !.token = t, !.projects = {}, !.project = None,
                        !.branches = {}, !.branch = None]
  BY DEF n
<1>3. page' \in Pages
  BY <1>1, <1>2 DEF Pages
<1>4. /\ page'.token = t /\ page'.projects = {} /\ page'.project = None
      /\ page'.branches = {} /\ page'.branch = None
      /\ page'.selected = None /\ page'.audit = None
      /\ page'.historyShown = FALSE /\ page'.analysis = None
      /\ page'.findings = None /\ page'.reviews = NoReviews /\ page'.cards = page.cards
  BY <1>1, <1>2 DEF Pages
<1>5. KnownPage(log, page')
  BY <1>4, ResetKnows
<1>6. Scoped(page')
  BY <1>4 DEF Scoped
<1>7. C \in SUBSET Counters
  BY DEF ResultCounters, ReviewCounters, Counters
<1>8. Unnoticed(page, page', C) /\ SameSession(page, page', C)
  BY DEF Unnoticed, SameSession, ResultCounters, ReviewCounters
<1>9. ASSUME r # None PROVE r \in Requests /\ KnownCall(log, r.call) /\ FreshFits(page', r)
  <2>1. r.fresh = {"session"} /\ r.call = [kind |-> "projects", token |-> t] /\ t \in Tokens
    BY <1>9 DEF Request
  <2>2. r.call \in Calls
    BY <2>1 DEF Calls, ProjectsCalls
  <2>3. r \in Requests
    BY <1>9, <2>1, <2>2 DEF Request, Requests, Counters
  <2>4. FreshFits(page', r)
    BY <1>4, <2>1 DEF FreshFits, ProjectsFresh, BranchesFresh, AnalysisFresh, ReviewFresh, HistoryFresh
  <2>5. QED
    BY <2>1, <2>3, <2>4 DEF KnownCall
<1>10. QED
  BY <1>3, <1>5, <1>6, <1>7, <1>8, <1>9, SendKeeps

LEMMA ConnectKeeps ==
    ASSUME PageInv, NEW i \in Slots, NEW t \in Tokens, Connect(i, t)
    PROVE  PageInv'
BY SessionKeeps DEF Connect

LEMMA DisconnectKeeps ==
    ASSUME PageInv, Disconnect
    PROVE  PageInv'
BY SessionKeeps DEF Disconnect

(* The answer to loadProjects. *)
LEMMA ProjectsDone ==
    ASSUME PageInv, NEW i \in Slots, LoadProjectsDone(i) \/ LoadProjectsRefused(i)
    PROVE  PageInv'
<1>1. /\ Send(i, {}, None) /\ log' = log
      /\ pending[i] # None /\ pending[i].call.kind = "projects"
  BY DEF LoadProjectsDone, LoadProjectsRefused, Awaits
<1>2. page \in Pages /\ pending[i] \in Requests
  BY <1>1 DEF PageInv
<1>3. CASE page' = page
  <2>1. Ignore(i)
    BY <1>1, <1>3 DEF Ignore
  <2>2. QED
    BY <2>1, IgnoreKeeps
<1>4. CASE page' # page
  <2>1. Fresh(i, {"session"})
    BY <1>4 DEF LoadProjectsDone, LoadProjectsRefused
  <2>2. Signing(pending[i])
    BY <1>1, <2>1 DEF Signing, Fresh
  <2>3. \A j \in Slots \ {i} : ~Signing(pending[j])
    BY <2>2 DEF PageInv
  <2>4. FreshFits(page, pending[i])
    BY <1>1 DEF PageInv
  <2>5. /\ pending[i].call.token = page.token /\ page.project = None
        /\ pending[i].call \in ProjectsCalls
    BY <1>1, <1>2, <2>2, <2>4, CallOfKind DEF FreshFits, ProjectsFresh, Signing, Requests
  <2>6. page.token \in Tokens
    BY <2>5 DEF ProjectsCalls
  <2>7. Scoped(page) /\ KnownPage(log, page)
    BY DEF PageInv
  <2>8. CASE LoadProjectsDone(i)
    <3>1. page' = [page EXCEPT !.projects = Visible[page.token]]
      BY <2>1, <2>5, <2>8 DEF LoadProjectsDone, Call
    <3>2. Visible[page.token] \in SUBSET Projects
      BY <2>6, DashboardAssumption
    <3>3. page' \in Pages /\ page'.projects = Visible[page.token]
      BY <1>2, <3>1, <3>2 DEF Pages
    <3>4. /\ page'.token = page.token /\ page'.project = page.project
          /\ page'.branches = page.branches /\ page'.branch = page.branch
          /\ page'.historyShown = page.historyShown /\ page'.analysis = page.analysis
          /\ page'.wanted = page.wanted /\ page'.context = page.context
      BY <1>2, <3>1 DEF Pages
    <3>5. /\ page'.selected = page.selected /\ page'.audit = page.audit
          /\ page'.findings = page.findings /\ page'.reviews = page.reviews
          /\ page'.cards = page.cards
      BY <1>2, <3>1 DEF Pages
    <3>6. page.token # None
      BY <2>6, DashboardAssumption
    <3>7. Scoped(page')
      BY <2>7, <3>3, <3>4, <3>5, <3>6 DEF Scoped
    <3>8. KnownPage(log, page') /\ Unnoticed(page, page', {})
      BY <2>7, <3>4, <3>5 DEF KnownPage, Unnoticed
    <3>9. QED
      BY <1>1, <2>3, <3>3, <3>7, <3>8, EndKeeps
  <2>9. CASE LoadProjectsRefused(i)
    <3>1. page' = [page EXCEPT !.token = None, !.projects = {}]
      BY <2>1, <2>9 DEF LoadProjectsRefused
    <3>2. page' \in Pages /\ page'.token = None /\ page'.projects = {}
      BY <1>2, <3>1 DEF Pages
    <3>3. /\ page'.project = page.project
          /\ page'.branches = page.branches /\ page'.branch = page.branch
          /\ page'.historyShown = page.historyShown /\ page'.analysis = page.analysis
          /\ page'.wanted = page.wanted /\ page'.context = page.context
      BY <1>2, <3>1 DEF Pages
    <3>4. /\ page'.selected = page.selected /\ page'.audit = page.audit
          /\ page'.findings = page.findings /\ page'.reviews = page.reviews
          /\ page'.cards = page.cards
      BY <1>2, <3>1 DEF Pages
    <3>5. Scoped(page')
      BY <2>5, <2>7, <3>2, <3>3, <3>4 DEF Scoped
    <3>6. KnownPage(log, page') /\ Unnoticed(page, page', {})
      BY <2>7, <3>3, <3>4 DEF KnownPage, Unnoticed
    <3>7. QED
      BY <1>1, <2>3, <3>2, <3>5, <3>6, EndKeeps
  <2>10. QED
    BY <2>8, <2>9
<1>5. QED
  BY <1>3, <1>4

(* The project control: while projects are awaited there is nothing to       *)
(* choose.                                                                   *)
LEMMA ChangeProjectKeeps ==
    ASSUME PageInv, NEW i \in Slots, NEW p \in Projects \cup {None}, ChangeProject(i, p)
    PROVE  PageInv'
<1> DEFINE n == NoResults(page)
           C == {"branch"} \cup ResultCounters
           r == IF p = None THEN None
                ELSE Request({"branch", "session"}, [kind |-> "branches", project |-> p])
<1>1. /\ n \in Pages /\ n.selected = None /\ n.context = None /\ n.audit = None
      /\ n.historyShown = FALSE /\ n.analysis = None /\ n.wanted = None
      /\ n.findings = None /\ n.reviews = NoReviews /\ n.cards = page.cards
      /\ n.token = page.token /\ n.projects = page.projects
  BY NoResultsPage DEF PageInv
<1>2. /\ page' = [n EXCEPT !.project = p, !.branches = {}, !.branch = None]
      /\ Send(i, C, r) /\ log' = log
      /\ p \in page.projects \cup {None} /\ p # page.project
  BY DEF ChangeProject
<1> HIDE DEF n
<1>3. page' \in Pages
  BY <1>1, <1>2 DEF Pages
<1>4. /\ page'.token = page.token /\ page'.projects = page.projects /\ page'.project = p
      /\ page'.branches = {} /\ page'.branch = None
      /\ page'.selected = None /\ page'.audit = None
      /\ page'.historyShown = FALSE /\ page'.analysis = None
      /\ page'.findings = None /\ page'.reviews = NoReviews /\ page'.cards = page.cards
  BY <1>1, <1>2 DEF Pages
<1>5. KnownPage(log, page')
  BY <1>4, ResetKnows
<1>6. Scoped(page')
  <2>1. Scoped(page)
    BY DEF PageInv
  <2>2. p # None => page.token # None
    BY <1>2, <2>1 DEF Scoped
  <2>3. QED
    BY <1>4, <2>1, <2>2 DEF Scoped
<1>7. \A j \in Slots : ~Signing(pending[j])
  <2>1. ASSUME NEW j \in Slots, Signing(pending[j]) PROVE FALSE
    <3>1. FreshFits(page, pending[j])
      BY <2>1 DEF PageInv, Signing
    <3>2. page.project = None /\ page.projects = {}
      BY <2>1, <3>1 DEF FreshFits, ProjectsFresh, Signing
    <3>3. QED
      BY <1>2, <3>2
  <2>2. QED
    BY <2>1
<1>8. C \in SUBSET Counters
  BY DEF ResultCounters, ReviewCounters, Counters
<1>9. Unnoticed(page, page', C)
  BY DEF Unnoticed, ResultCounters, ReviewCounters
<1>10. ASSUME r # None
       PROVE  /\ r \in Requests /\ KnownCall(log, r.call) /\ FreshFits(page', r)
              /\ ~Signing(r)
  <2>1. p \in Projects /\ r = Request({"branch", "session"}, [kind |-> "branches", project |-> p])
    BY <1>10
  <2>2. r.fresh = {"branch", "session"} /\ r.call = [kind |-> "branches", project |-> p]
    BY <2>1 DEF Request
  <2>3. r.call \in Calls
    BY <2>1, <2>2 DEF Calls, BranchesCalls
  <2>4. r \in Requests
    BY <2>1, <2>2, <2>3 DEF Request, Requests, Counters
  <2>5. FreshFits(page', r)
    BY <1>4, <2>2 DEF FreshFits, ProjectsFresh, BranchesFresh, AnalysisFresh, ReviewFresh, HistoryFresh
  <2>6. QED
    BY <2>2, <2>4, <2>5 DEF KnownCall, Signing
<1>11. ~Signing(r)
  BY <1>10 DEF Signing
<1> HIDE DEF r
<1>12. QED
  BY <1>2, <1>3, <1>5, <1>6, <1>7, <1>8, <1>9, <1>10, <1>11, SendKeeps

LEMMA BranchesDone ==
    ASSUME PageInv, NEW i \in Slots, LoadBranchesDone(i)
    PROVE  PageInv'
<1>1. /\ Send(i, {}, None) /\ log' = log
      /\ pending[i] # None /\ pending[i].call.kind = "branches"
  BY DEF LoadBranchesDone, Awaits
<1>2. page \in Pages /\ pending[i] \in Requests /\ Scoped(page) /\ KnownPage(log, page)
  BY <1>1 DEF PageInv
<1>3. CASE ~Fresh(i, {"branch", "session"})
  <2>1. Ignore(i)
    BY <1>1, <1>3 DEF LoadBranchesDone, Ignore
  <2>2. QED
    BY <2>1, IgnoreKeeps
<1>4. CASE Fresh(i, {"branch", "session"})
  <2>1. FreshFits(page, pending[i]) /\ pending[i].call \in BranchesCalls
    BY <1>1, <1>2, CallOfKind DEF PageInv, Requests
  <2>2. pending[i].call.project = page.project /\ page.project \in Projects
    BY <1>1, <1>4, <2>1 DEF FreshFits, BranchesFresh, Fresh, BranchesCalls
  <2>3. page' = [page EXCEPT !.branches = BranchesOf(page.project)]
    BY <1>4, <2>2 DEF LoadBranchesDone, Call
  <2>4. BranchesOf(page.project) \in SUBSET Branches
    BY DashboardAssumption DEF BranchesOf
  <2>5. page' \in Pages /\ page'.branches = BranchesOf(page.project)
    BY <1>2, <2>3, <2>4 DEF Pages
  <2>6. /\ page'.token = page.token /\ page'.project = page.project
        /\ page'.projects = page.projects /\ page'.branch = page.branch
        /\ page'.historyShown = page.historyShown /\ page'.analysis = page.analysis
        /\ page'.wanted = page.wanted /\ page'.context = page.context
    BY <1>2, <2>3 DEF Pages
  <2>7. /\ page'.selected = page.selected /\ page'.audit = page.audit
        /\ page'.findings = page.findings /\ page'.reviews = page.reviews
        /\ page'.cards = page.cards
    BY <1>2, <2>3 DEF Pages
  <2>8. page.project # None
    BY <2>2, DashboardAssumption
  <2>9. Scoped(page')
    BY <1>2, <2>5, <2>6, <2>7, <2>8 DEF Scoped
  <2>10. KnownPage(log, page') /\ Unnoticed(page, page', {}) /\ SameSession(page, page', {})
    BY <1>2, <2>6, <2>7 DEF KnownPage, Unnoticed, SameSession
  <2>11. QED
    BY <1>1, <2>5, <2>9, <2>10, EndKeeps
<1>5. QED
  BY <1>3, <1>4

(* A branch is chosen, or the scope form submitted: a page without results. *)
LEMMA BranchKeeps ==
    ASSUME PageInv, NEW i, NEW b \in Branches, NEW r,
           page' = [NoResults(page) EXCEPT !.branch = b], Send(i, ResultCounters, r), log' = log,
           page.project # None,
           r # None => r = Request({"analysis"}, [kind |-> "analyses", project |-> page.project,
                                                  branch |-> b])
    PROVE  PageInv'
<1> DEFINE n == NoResults(page)
<1>1. /\ n \in Pages /\ n.selected = None /\ n.context = None /\ n.audit = None
      /\ n.historyShown = FALSE /\ n.analysis = None /\ n.wanted = None
      /\ n.findings = None /\ n.reviews = NoReviews /\ n.cards = page.cards
      /\ n.token = page.token /\ n.projects = page.projects /\ n.project = page.project
      /\ n.branches = page.branches
  BY NoResultsPage DEF PageInv
<1>2. page' = [n EXCEPT !.branch = b]
  OBVIOUS
<1> HIDE DEF n
<1>3. page' \in Pages
  BY <1>1, <1>2 DEF Pages
<1>4. /\ page'.token = page.token /\ page'.projects = page.projects
      /\ page'.project = page.project /\ page'.branches = page.branches /\ page'.branch = b
      /\ page'.selected = None /\ page'.audit = None
      /\ page'.historyShown = FALSE /\ page'.analysis = None
      /\ page'.findings = None /\ page'.reviews = NoReviews /\ page'.cards = page.cards
  BY <1>1, <1>2 DEF Pages
<1>5. KnownPage(log, page')
  BY <1>4, ResetKnows
<1>6. Scoped(page) /\ page \in Pages /\ b # None
  BY DashboardAssumption DEF PageInv
<1>7. Scoped(page')
  BY <1>4, <1>6 DEF Scoped
<1>8. ResultCounters \in SUBSET Counters
  BY DEF ResultCounters, ReviewCounters, Counters
<1>9. Unnoticed(page, page', ResultCounters) /\ SameSession(page, page', ResultCounters)
  BY <1>4 DEF Unnoticed, SameSession, ResultCounters, ReviewCounters
<1>10. ASSUME r # None
       PROVE  /\ r \in Requests /\ KnownCall(log, r.call) /\ FreshFits(page', r)
              /\ ~Signing(r)
  <2>1. r.fresh = {"analysis"}
        /\ r.call = [kind |-> "analyses", project |-> page.project, branch |-> b]
    BY <1>10 DEF Request
  <2>2. page.project \in Projects
    BY <1>6 DEF Pages
  <2>3. r.call \in Calls
    BY <2>1, <2>2 DEF Calls, AnalysesCalls
  <2>4. r \in Requests
    BY <1>10, <2>1, <2>3 DEF Request, Requests, Counters
  <2>5. FreshFits(page', r)
    BY <1>4, <1>6, <2>1 DEF FreshFits, ProjectsFresh, BranchesFresh, AnalysisFresh, ReviewFresh, HistoryFresh
  <2>6. QED
    BY <2>1, <2>4, <2>5 DEF KnownCall, Signing
<1>11. ~Signing(r)
  BY <1>10 DEF Signing
<1>12. QED
  BY <1>3, <1>5, <1>7, <1>8, <1>9, <1>10, <1>11, SendKeeps

LEMMA ChangeBranchKeeps ==
    ASSUME PageInv, NEW b \in Branches, ChangeBranch(b)
    PROVE  PageInv'
<1>1. page.project # None
  BY DEF ChangeBranch, PageInv, Scoped
<1>2. QED
  BY <1>1, BranchKeeps DEF ChangeBranch

LEMMA LoadAnalysesKeeps ==
    ASSUME PageInv, NEW i \in Slots, LoadAnalyses(i)
    PROVE  PageInv'
<1>1. page \in Pages /\ Scoped(page)
  BY DEF PageInv
<1>2. page.branch \in Branches /\ page.project # None
  BY <1>1 DEF LoadAnalyses, Pages, Scoped
<1>3. page' = [NoResults(page) EXCEPT !.branch = page.branch]
  <2>1. NoResults(page) \in Pages /\ NoResults(page).branch = page.branch
    BY <1>1, NoResultsPage
  <2>2. NoResults(page) = [NoResults(page) EXCEPT !.branch = page.branch]
    BY <2>1 DEF Pages
  <2>3. QED
    BY <2>2 DEF LoadAnalyses
<1>4. QED
  BY <1>2, <1>3, BranchKeeps DEF LoadAnalyses

-----------------------------------------------------------------------------
(* A page in the scope of another one. *)
InScopeOf(p, q) ==
    /\ q.token = p.token /\ q.projects = p.projects /\ q.project = p.project
    /\ q.branches = p.branches /\ q.branch = p.branch

(* selectAnalysis: the choice is remembered, and only its own request may    *)
(* bring an analysis to the page.                                            *)
LEMMA SelectKeeps ==
    ASSUME PageInv, NEW i \in Slots, NEW p \in Pages, NEW id \in Analyses,
           InScopeOf(page, p), p.cards = page.cards, page.branch # None, SelectAnalysis(i, p, id)
    PROVE  PageInv'
<1> DEFINE n == Cleared(p)
           r == Request({"analysis"}, [kind |-> "analysis", project |-> p.project, id |-> id])
<1>1. /\ n \in Pages /\ n.selected = None /\ n.context = None /\ n.audit = None
      /\ n.cards = page.cards /\ InScopeOf(page, n)
  BY ClearedPage DEF InScopeOf
<1>2. /\ page' = [n EXCEPT !.analysis = None, !.wanted = id, !.findings = None, !.reviews = NoReviews]
      /\ Send(i, ResultCounters, r) /\ log' = log
  BY DEF SelectAnalysis
<1> HIDE DEF n
<1>3. page' \in Pages
  BY <1>1, <1>2, NoReviewsList DEF Pages
<1>4. /\ InScopeOf(n, page') /\ page'.wanted = id
      /\ page'.selected = None /\ page'.audit = None /\ page'.analysis = None
      /\ page'.findings = None /\ page'.reviews = NoReviews /\ page'.cards = page.cards
  BY <1>1, <1>2 DEF Pages, InScopeOf
<1>5. InScopeOf(page, page')
  BY <1>1, <1>4 DEF InScopeOf
<1>6. KnownPage(log, page')
  BY <1>4, ResetKnows
<1>7. Scoped(page) /\ page \in Pages
  BY DEF PageInv
<1>8. Scoped(page')
  BY <1>4, <1>5, <1>7 DEF Scoped, InScopeOf
<1>9. ResultCounters \in SUBSET Counters
  BY DEF ResultCounters, ReviewCounters, Counters
<1>10. Unnoticed(page, page', ResultCounters) /\ SameSession(page, page', ResultCounters)
  BY <1>5 DEF Unnoticed, SameSession, ResultCounters, ReviewCounters, InScopeOf
<1>11. r \in Requests /\ KnownCall(log, r.call) /\ FreshFits(page', r) /\ ~Signing(r)
  <2>1. r.fresh = {"analysis"} /\ r.call = [kind |-> "analysis", project |-> p.project, id |-> id]
    BY DEF Request
  <2>2. p.project \in Projects /\ page'.project = p.project /\ page'.branch # None
    BY <1>5, <1>7 DEF Pages, Scoped, InScopeOf
  <2>3. r.call \in Calls
    BY <2>1, <2>2 DEF Calls, AnalysisCalls
  <2>4. r \in Requests
    BY <2>1, <2>3 DEF Request, Requests, Counters
  <2>5. FreshFits(page', r)
    BY <1>4, <2>1, <2>2 DEF FreshFits, ProjectsFresh, BranchesFresh, AnalysisFresh, ReviewFresh, HistoryFresh
  <2>6. QED
    BY <2>1, <2>4, <2>5 DEF KnownCall, Signing
<1> HIDE DEF r
<1>12. QED
  BY <1>2, <1>3, <1>6, <1>8, <1>9, <1>10, <1>11, SendKeeps

LEMMA SelectRowKeeps ==
    ASSUME PageInv, NEW i \in Slots, NEW id \in Analyses, SelectRow(i, id)
    PROVE  PageInv'
<1>1. page \in Pages /\ page.branch # None /\ SelectAnalysis(i, page, id)
  BY DEF SelectRow, PageInv, Scoped
<1>2. InScopeOf(page, page)
  BY DEF InScopeOf
<1>3. QED
  BY <1>1, <1>2, SelectKeeps

(* Rows are shown for the branch that is selected. *)
LEMMA RowsShown ==
    ASSUME PageInv, page.branch # None, NEW listed \in SUBSET Analyses, NEW q,
           q = [page EXCEPT !.analyses = listed, !.historyShown = TRUE]
    PROVE  /\ q \in Pages /\ InScopeOf(page, q) /\ q.cards = page.cards
           /\ KnownPage(log, q) /\ Scoped(q) /\ Unnoticed(page, q, {}) /\ SameSession(page, q, {})
<1>1. page \in Pages /\ Scoped(page) /\ KnownPage(log, page)
  BY DEF PageInv
<1>2. q \in Pages
  BY <1>1 DEF Pages
<1>3. InScopeOf(page, q) /\ q.wanted = page.wanted /\ q.analysis = page.analysis
      /\ q.context = page.context
  BY <1>1 DEF Pages, InScopeOf
<1>4. /\ q.cards = page.cards /\ q.selected = page.selected /\ q.audit = page.audit
      /\ q.findings = page.findings /\ q.reviews = page.reviews
  BY <1>1 DEF Pages
<1>5. Scoped(q)
  BY <1>1, <1>3, <1>4 DEF Scoped, InScopeOf
<1>6. QED
  BY <1>1, <1>2, <1>3, <1>4, <1>5 DEF KnownPage, Unnoticed, SameSession, InScopeOf

LEMMA AnalysesDone ==
    ASSUME PageInv, NEW i \in Slots, LoadAnalysesDone(i) \/ LoadAnalysesFailed(i)
    PROVE  PageInv'
<1>1. pending[i] # None /\ pending[i].call.kind = "analyses"
  BY DEF LoadAnalysesDone, LoadAnalysesFailed, Awaits
<1>2. pending[i] \in Requests /\ FreshFits(page, pending[i]) /\ page \in Pages
  BY <1>1 DEF PageInv
<1>3. Fresh(i, {"analysis"}) => page.branch # None
  BY <1>1, <1>2 DEF FreshFits, AnalysisFresh, Fresh
<1>4. CASE LoadAnalysesDone(i)
  <2>1. PICK listed \in SUBSET AnalysesOf(Call(i).project, Call(i).branch) :
          LET shown == [page EXCEPT !.analyses = listed, !.historyShown = TRUE]
          IN  IF ~Fresh(i, {"analysis"}) THEN Ignore(i)
              ELSE \/ \E id \in listed : SelectAnalysis(i, shown, id)
                   \/ /\ listed = {}
                      /\ page' = shown
                      /\ Send(i, {}, None)
                      /\ UNCHANGED log
    BY <1>4 DEF LoadAnalysesDone
  <2> DEFINE shown == [page EXCEPT !.analyses = listed, !.historyShown = TRUE]
  <2>2. listed \in SUBSET Analyses
    BY DEF AnalysesOf
  <2>3. CASE ~Fresh(i, {"analysis"})
    BY <2>1, <2>3, IgnoreKeeps
  <2>4. CASE Fresh(i, {"analysis"})
    <3>1. /\ shown \in Pages /\ InScopeOf(page, shown) /\ shown.cards = page.cards
          /\ KnownPage(log, shown) /\ Scoped(shown) /\ Unnoticed(page, shown, {})
          /\ SameSession(page, shown, {})
      BY <1>3, <2>2, <2>4, RowsShown
    <3> HIDE DEF shown
    <3>2. \/ \E id \in listed : SelectAnalysis(i, shown, id)
          \/ page' = shown /\ Send(i, {}, None) /\ UNCHANGED log
      BY <2>1, <2>4 DEF shown
    <3>3. ASSUME NEW id \in listed, SelectAnalysis(i, shown, id) PROVE PageInv'
      BY <1>3, <2>2, <2>4, <3>1, <3>3, SelectKeeps
    <3>4. CASE page' = shown /\ Send(i, {}, None) /\ UNCHANGED log
      BY <3>1, <3>4, EndKeeps
    <3>5. QED
      BY <3>2, <3>3, <3>4
  <2>5. QED
    BY <2>3, <2>4
<1>5. CASE LoadAnalysesFailed(i)
  <2>1. Send(i, {}, None) /\ log' = log
    BY <1>5 DEF LoadAnalysesFailed
  <2>2. CASE ~Fresh(i, {"analysis"})
    <3>1. Ignore(i)
      BY <1>5, <2>1, <2>2 DEF LoadAnalysesFailed, Ignore
    <3>2. QED
      BY <3>1, IgnoreKeeps
  <2>3. CASE Fresh(i, {"analysis"})
    <3>1. page' = [page EXCEPT !.analyses = page.analyses, !.historyShown = TRUE]
      BY <1>2, <1>5, <2>3 DEF LoadAnalysesFailed, Pages
    <3>2. page.analyses \in SUBSET Analyses
      BY <1>2 DEF Pages
    <3>3. /\ page' \in Pages /\ KnownPage(log, page') /\ Scoped(page')
          /\ Unnoticed(page, page', {}) /\ SameSession(page, page', {})
      BY <1>3, <2>3, <3>1, <3>2, RowsShown
    <3>4. QED
      BY <2>1, <3>3, EndKeeps
  <2>4. QED
    BY <2>2, <2>3
<1>6. QED
  BY <1>4, <1>5

(* An analysis that arrives in time is the one that was selected last. *)
LEMMA AnalysisDone ==
    ASSUME PageInv, NEW i \in Slots, SelectAnalysisDone(i)
    PROVE  PageInv'
<1>1. pending[i] # None /\ pending[i].call.kind = "analysis"
  BY DEF SelectAnalysisDone, Awaits
<1>2. /\ pending[i] \in Requests /\ FreshFits(page, pending[i]) /\ page \in Pages
      /\ Scoped(page) /\ KnownPage(log, page)
  BY <1>1 DEF PageInv
<1>3. CASE ~Fresh(i, {"analysis"})
  BY <1>3, IgnoreKeeps DEF SelectAnalysisDone
<1>4. CASE Fresh(i, {"analysis"})
  <2> DEFINE id == pending[i].call.id
             r == Request({"analysis"},
                      [kind |-> "findings", project |-> page.project,
                       branch |-> page.branch, id |-> id,
                       answered |-> {}, findings |-> None, reviews |-> NoReviews])
  <2>1. pending[i].call \in AnalysisCalls
    BY <1>1, <1>2, CallOfKind DEF Requests
  <2>2. /\ id \in Analyses /\ id # None /\ id = page.wanted
        /\ pending[i].call.project = page.project /\ page.branch # None
    BY <1>1, <1>2, <1>4, <2>1, DashboardAssumption DEF FreshFits, AnalysisFresh, Fresh, AnalysisCalls
  <2>3. ProjectOf[id] = page.project
    BY <2>2 DEF SelectAnalysisDone, Call
  <2>4. /\ page' = [page EXCEPT !.analysis = id, !.historyShown = TRUE]
        /\ Send(i, {}, r) /\ log' = log
    BY <1>4 DEF SelectAnalysisDone, Call
  <2> HIDE DEF id
  <2>5. page' \in Pages
    BY <1>2, <2>2, <2>4 DEF Pages
  <2>6. InScopeOf(page, page') /\ page'.wanted = page.wanted /\ page'.analysis = id
        /\ page'.context = page.context
    BY <1>2, <2>4 DEF Pages, InScopeOf
  <2>7. /\ page'.cards = page.cards /\ page'.selected = page.selected /\ page'.audit = page.audit
        /\ page'.findings = page.findings /\ page'.reviews = page.reviews
    BY <1>2, <2>4 DEF Pages
  <2>8. Scoped(page')
    BY <1>2, <2>2, <2>3, <2>6, <2>7 DEF Scoped, InScopeOf
  <2>9. KnownPage(log, page') /\ Unnoticed(page, page', {}) /\ SameSession(page, page', {})
    BY <1>2, <2>6, <2>7 DEF KnownPage, Unnoticed, SameSession, InScopeOf
  <2>10. r \in Requests /\ KnownCall(log, r.call) /\ FreshFits(page', r) /\ ~Signing(r)
    <3>1. /\ r.fresh = {"analysis"}
          /\ r.call = [kind |-> "findings", project |-> page.project,
                       branch |-> page.branch, id |-> id,
                       answered |-> {}, findings |-> None, reviews |-> NoReviews]
      BY DEF Request
    <3>2. page.project \in Projects /\ page.branch \in Branches /\ page'.branch # None
      BY <1>2, <2>2, <2>6 DEF Pages, Scoped, InScopeOf
    <3>3. r.call \in Calls
      BY <2>2, <3>1, <3>2, NoReviewsList DEF Calls, FindingsCalls
    <3>4. r \in Requests
      BY <3>1, <3>3 DEF Request, Requests, Counters
    <3>5. FreshFits(page', r)
      BY <3>1, <3>2 DEF FreshFits, ProjectsFresh, BranchesFresh, AnalysisFresh, ReviewFresh, HistoryFresh
    <3>6. QED
      BY <3>1, <3>4, <3>5, NoReviewsList DEF KnownCall, KnownFinding, Signing
  <2> HIDE DEF r
  <2>11. QED
    BY <2>4, <2>5, <2>8, <2>9, <2>10, SendKeeps
<1>5. QED
  BY <1>3, <1>4

LEMMA FindingsDone ==
    ASSUME PageInv, NEW i \in Slots, LoadFindingsDone(i) \/ LoadFindingsFailed(i)
    PROVE  PageInv'
<1>1. /\ pending[i] # None /\ pending[i].call.kind = "findings"
      /\ Send(i, {}, None) /\ log' = log
  BY DEF LoadFindingsDone, LoadFindingsFailed, Awaits
<1>2. /\ pending[i] \in Requests /\ page \in Pages /\ Scoped(page) /\ KnownPage(log, page)
      /\ KnownCall(log, pending[i].call)
  BY <1>1 DEF PageInv
<1>3. pending[i].call \in FindingsCalls
  BY <1>1, <1>2, CallOfKind DEF Requests
<1>4. ASSUME NEW f \in Findings \cup {None}, NEW c \in Findings \cup {None},
             NEW list \in ReviewLists,
             KnownFinding(log, f), KnownFinding(log, c), KnownList(log, list),
             page' = [page EXCEPT !.findings = f, !.cards = c, !.reviews = list]
      PROVE  PageInv'
  <2>1. page' \in Pages /\ page'.findings = f /\ page'.cards = c /\ page'.reviews = list
    BY <1>2, <1>4 DEF Pages
  <2>2. InScopeOf(page, page') /\ page'.wanted = page.wanted /\ page'.analysis = page.analysis
        /\ page'.context = page.context
    BY <1>2, <1>4 DEF Pages, InScopeOf
  <2>3. /\ page'.selected = page.selected /\ page'.audit = page.audit
        /\ page'.historyShown = page.historyShown
    BY <1>2, <1>4 DEF Pages
  <2>4. Scoped(page')
    BY <1>2, <2>2, <2>3 DEF Scoped, InScopeOf
  <2>5. KnownPage(log, page')
    BY <1>2, <1>4, <2>1, <2>3 DEF KnownPage
  <2>6. Unnoticed(page, page', {}) /\ SameSession(page, page', {})
    BY <2>2, <2>3 DEF Unnoticed, SameSession, InScopeOf
  <2>7. QED
    BY <1>1, <2>1, <2>4, <2>5, <2>6, EndKeeps
<1>5. CASE page' = page
  <2>1. Ignore(i)
    BY <1>1, <1>5 DEF Ignore
  <2>2. QED
    BY <2>1, IgnoreKeeps
<1>6. CASE page' # page /\ LoadFindingsDone(i)
  <2>1. page' = [page EXCEPT !.findings = pending[i].call.findings,
                             !.cards = pending[i].call.findings,
                             !.reviews = pending[i].call.reviews]
    BY <1>6 DEF LoadFindingsDone, Call
  <2>2. pending[i].call.findings \in Findings \cup {None} /\ pending[i].call.reviews \in ReviewLists
    BY <1>3 DEF FindingsCalls
  <2>3. KnownFinding(log, pending[i].call.findings) /\ KnownList(log, pending[i].call.reviews)
    BY <1>1, <1>2 DEF KnownCall
  <2>4. QED
    BY <1>4, <2>1, <2>2, <2>3
<1>7. CASE page' # page /\ LoadFindingsFailed(i)
  <2>1. page' = [page EXCEPT !.findings = None, !.reviews = NoReviews]
    BY <1>7 DEF LoadFindingsFailed
  <2>2. page' = [page EXCEPT !.findings = None, !.cards = page.cards, !.reviews = NoReviews]
    BY <1>2, <2>1 DEF Pages
  <2>3. page.cards \in Findings \cup {None} /\ KnownFinding(log, page.cards)
    BY <1>2 DEF Pages, KnownPage
  <2>4. KnownFinding(log, None)
    BY DEF KnownFinding
  <2>5. QED
    BY <1>4, <2>2, <2>3, <2>4, NoReviewsList
<1>8. QED
  BY <1>5, <1>6, <1>7

-----------------------------------------------------------------------------
(* loadReviewHistory, of a page with a selection: the old audit list goes,   *)
(* and the request is for the review that the form shows.                    *)
LEMMA HistoryKeeps ==
    ASSUME PageInv, NEW i \in Slots, NEW C \in SUBSET {"review"}, NEW p \in Pages,
           InScopeOf(page, p), p.wanted = page.wanted, p.analysis = page.analysis,
           p.historyShown = page.historyShown,
           p.selected # None, p.analysis # None, p.context # None, KnownPage(log, p),
           LoadHistory(i, p, C)
    PROVE  PageInv'
<1> DEFINE D == C \cup {"history"}
           r == IF p.selected.review = None THEN None
                ELSE Request(ReviewCounters, [kind |-> "history", key |-> p.selected.review.key,
                                              context |-> p.context, answer |-> None])
<1>1. page' = [p EXCEPT !.audit = None] /\ Send(i, D, r) /\ log' = log
  BY DEF LoadHistory
<1>2. page' \in Pages /\ page'.audit = None
  BY <1>1 DEF Pages
<1>3. InScopeOf(p, page') /\ page'.wanted = p.wanted /\ page'.analysis = p.analysis
      /\ page'.context = p.context /\ page'.historyShown = p.historyShown
  BY <1>1 DEF Pages, InScopeOf
<1>4. /\ page'.selected = p.selected /\ page'.findings = p.findings
      /\ page'.cards = p.cards /\ page'.reviews = p.reviews
  BY <1>1 DEF Pages
<1>5. Scoped(page)
  BY DEF PageInv
<1>6. InScopeOf(page, page')
  BY <1>3 DEF InScopeOf
<1>7. Scoped(page')
  BY <1>2, <1>3, <1>4, <1>5, <1>6 DEF Scoped, InScopeOf
<1>8. KnownPage(log, page')
  BY <1>4 DEF KnownPage
<1>9. Unnoticed(page, page', D) /\ SameSession(page, page', D)
  BY <1>3, <1>4, <1>6 DEF Unnoticed, SameSession, InScopeOf, ReviewCounters
<1>10. D \in SUBSET Counters
  BY DEF Counters
<1>11. ASSUME r # None
       PROVE  r \in Requests /\ KnownCall(log, r.call) /\ FreshFits(page', r) /\ ~Signing(r)
  <2>1. p.selected \in Forms /\ p.selected.review # None /\ p.context \in Analyses
    BY <1>11 DEF Pages
  <2>2. p.selected.review.key \in Keys
    BY <2>1 DEF Forms, Reviews
  <2>3. /\ r.fresh = ReviewCounters
        /\ r.call = [kind |-> "history", key |-> p.selected.review.key,
                     context |-> p.context, answer |-> None]
        /\ r = [fresh |-> r.fresh, call |-> r.call]
    BY <2>1 DEF Request
  <2>4. r.call \in Calls
    BY <2>1, <2>2, <2>3 DEF Calls, HistoryCalls
  <2>5. r \in Requests
    BY <2>3, <2>4 DEF Requests, Counters, ReviewCounters
  <2>6. FreshFits(page', r)
    BY <1>4, <2>1, <2>3 DEF FreshFits, ProjectsFresh, BranchesFresh, AnalysisFresh, ReviewFresh, HistoryFresh
  <2>7. QED
    BY <2>3, <2>5, <2>6 DEF KnownCall, Signing
<1>12. ~Signing(r)
  BY <1>11 DEF Signing
<1> HIDE DEF r, D
<1>13. QED
  BY <1>1, <1>2, <1>7, <1>8, <1>9, <1>10, <1>11, <1>12, SendKeeps

(* The form that a finding fills. *)
LEMMA FormOf ==
    ASSUME NEW finding, finding.identity \in Identities, finding.review \in Reviews \cup {None},
           NEW list \in ReviewLists, NEW listed \in BOOLEAN
    PROVE  /\ Form(finding, list, listed) \in Forms
           /\ Form(finding, list, listed) # None
           /\ Form(finding, list, listed).review = finding.review
<1>1. \A review \in Reviews \cup {None} : Version(review) \in Nat
  BY DEF Version, Reviews
<1>2. list[finding.identity] \in Reviews \cup {None}
  BY DEF ReviewLists
<1>3. Form(finding, list, listed) \in Forms /\ Form(finding, list, listed).review = finding.review
  BY <1>1, <1>2 DEF Form, Forms
<1>4. QED
  BY <1>3, NullAssumption

LEMMA SelectFindingKeeps ==
    ASSUME PageInv, NEW i \in Slots, SelectFinding(i)
    PROVE  PageInv'
<1> DEFINE form == Form(page.cards, page.reviews, page.findings # None)
           p == [page EXCEPT !.context = page.analysis, !.selected = form]
<1>1. page \in Pages /\ KnownPage(log, page) /\ page.cards # None /\ page.analysis # None
  BY DEF SelectFinding, PageInv
<1>2. page.cards \in Findings /\ page.reviews \in ReviewLists /\ page.analysis \in Analyses
  BY <1>1 DEF Pages
<1>3. form \in Forms /\ form # None /\ form.review = page.cards.review
  BY <1>2, FormOf DEF Findings
<1>4. LoadHistory(i, p, {"review"})
  BY DEF SelectFinding
<1> HIDE DEF form
<1>5. p \in Pages /\ p.selected = form /\ p.context = page.analysis
  BY <1>1, <1>2, <1>3 DEF Pages
<1>6. /\ InScopeOf(page, p) /\ p.wanted = page.wanted /\ p.analysis = page.analysis
      /\ p.historyShown = page.historyShown
  BY <1>1 DEF Pages, InScopeOf
<1>7. p.findings = page.findings /\ p.cards = page.cards /\ p.reviews = page.reviews
  BY <1>1 DEF Pages
<1> HIDE DEF p
<1>8. KnownPage(log, p)
  BY <1>1, <1>3, <1>5, <1>7 DEF KnownPage, KnownFinding
<1>9. QED
  BY <1>1, <1>3, <1>4, <1>5, <1>6, <1>8, HistoryKeeps

LEMMA RefreshHistoryKeeps ==
    ASSUME PageInv, NEW i \in Slots, RefreshHistory(i)
    PROVE  PageInv'
<1>1. /\ page \in Pages /\ KnownPage(log, page) /\ page.selected # None
      /\ page.analysis # None /\ page.context # None /\ LoadHistory(i, page, {})
  BY DEF RefreshHistory, PageInv, Scoped
<1>2. InScopeOf(page, page)
  BY DEF InScopeOf
<1>3. QED
  BY <1>1, <1>2, HistoryKeeps

(* An audit list that arrives in time is that of the selected review, and    *)
(* at least as long as the review is old.                                    *)
LEMMA HistoryDone ==
    ASSUME PageInv, NEW i \in Slots, LoadHistoryDone(i)
    PROVE  PageInv'
<1>1. /\ pending[i] # None /\ pending[i].call.kind = "history" /\ pending[i].call.answer # None
      /\ Send(i, {}, None) /\ log' = log
  BY DEF LoadHistoryDone, Awaits, Call
<1>2. /\ pending[i] \in Requests /\ page \in Pages /\ Scoped(page) /\ KnownPage(log, page)
      /\ FreshFits(page, pending[i])
  BY <1>1 DEF PageInv
<1>3. pending[i].call \in HistoryCalls
  BY <1>1, <1>2, CallOfKind DEF Requests
<1>4. CASE ~ContextCurrent(i, ReviewCounters)
  <2>1. Ignore(i)
    BY <1>1, <1>4 DEF LoadHistoryDone, Ignore
  <2>2. QED
    BY <2>1, IgnoreKeeps
<1>5. CASE ContextCurrent(i, ReviewCounters)
  <2> DEFINE a == pending[i].call.answer
  <2>1. page' = [page EXCEPT !.audit = a]
    BY <1>5 DEF LoadHistoryDone, Call
  <2>2. a \in Audits
    BY <1>1, <1>3 DEF HistoryCalls
  <2>3. /\ page.selected # None /\ page.selected.review # None
        /\ a.key = page.selected.review.key
        /\ a.entries >= page.selected.review.version
    BY <1>1, <1>2, <1>5 DEF FreshFits, HistoryFresh, ContextCurrent, Fresh
  <2> HIDE DEF a
  <2>4. page' \in Pages /\ page'.audit = a
    BY <1>2, <2>1, <2>2 DEF Pages
  <2>5. InScopeOf(page, page') /\ page'.wanted = page.wanted /\ page'.analysis = page.analysis
        /\ page'.context = page.context /\ page'.historyShown = page.historyShown
    BY <1>2, <2>1 DEF Pages, InScopeOf
  <2>6. /\ page'.selected = page.selected /\ page'.findings = page.findings
        /\ page'.cards = page.cards /\ page'.reviews = page.reviews
    BY <1>2, <2>1 DEF Pages
  <2>7. Scoped(page')
    BY <1>2, <2>3, <2>4, <2>5, <2>6 DEF Scoped, InScopeOf
  <2>8. KnownPage(log, page') /\ Unnoticed(page, page', {}) /\ SameSession(page, page', {})
    BY <1>2, <2>5, <2>6 DEF KnownPage, Unnoticed, SameSession, InScopeOf
  <2>9. QED
    BY <1>1, <2>4, <2>7, <2>8, EndKeeps
<1>6. QED
  BY <1>4, <1>5

-----------------------------------------------------------------------------
(* Submitting a decision: the page stays as it is until the answer. *)
LEMMA SubmitKeeps ==
    ASSUME PageInv, NEW i \in Slots, SubmitReview(i)
    PROVE  PageInv'
<1> DEFINE c == [kind |-> "submit", project |-> page.project, context |-> page.context,
                 identity |-> page.selected.identity, expected |-> page.selected.expected,
                 shown |-> page.selected.review, answer |-> None]
           r == Request({"review"}, c)
<1>1. /\ page \in Pages /\ KnownPage(log, page) /\ Scoped(page)
      /\ page.selected # None /\ page.context = page.analysis
  BY DEF SubmitReview, PageInv
<1>2. page' = page /\ log' = log /\ Send(i, {}, r)
  BY DEF SubmitReview
<1>3. page.selected \in Forms /\ page.context \in Analyses /\ page.project \in Projects
  BY <1>1 DEF Pages, Scoped
<1>4. c \in SubmitCalls
  BY <1>3 DEF Forms, SubmitCalls
<1>5. r.fresh = {"review"} /\ r.call = c /\ r = [fresh |-> r.fresh, call |-> r.call]
  BY DEF Request
<1>6. r.call.kind = "submit" /\ r.call.answer = None
  BY <1>5
<1> HIDE DEF c, r
<1>7. r \in Requests
  BY <1>4, <1>5 DEF Requests, Calls, Counters
<1>8. FreshFits(page', r) /\ KnownCall(log, r.call) /\ ~Signing(r)
  BY <1>1, <1>2, <1>6 DEF FreshFits, ProjectsFresh, BranchesFresh, AnalysisFresh, ReviewFresh,
                        HistoryFresh, KnownCall, Signing
<1>9. Unnoticed(page, page', {}) /\ SameSession(page, page', {})
  BY <1>2 DEF Unnoticed, SameSession
<1>10. QED
  BY <1>1, <1>2, <1>7, <1>8, <1>9, SendKeeps

(* An answer for the current context finds its finding selected. *)
LEMMA CurrentSelection ==
    ASSUME PageInv, NEW i \in Slots, pending[i] # None,
           pending[i].call.kind \in {"submit", "refresh"}, ContextCurrent(i, {"review"})
    PROVE  /\ page.selected \in Forms /\ page.selected # None
           /\ page.context \in Analyses /\ page.context # None /\ page.analysis = page.context
           /\ page.branch \in Branches /\ page.project \in Projects
<1>1. page \in Pages /\ Scoped(page) /\ FreshFits(page, pending[i])
  BY DEF PageInv
<1>2. page.selected # None /\ page.analysis = page.context
  BY <1>1 DEF FreshFits, ReviewFresh, ContextCurrent, Fresh
<1>3. page.analysis # None /\ page.context # None /\ page.branch # None /\ page.project # None
  BY <1>1, <1>2 DEF Scoped
<1>4. QED
  BY <1>1, <1>2, <1>3 DEF Pages

LEMMA ConflictKeeps ==
    ASSUME PageInv, NEW i \in Slots, SubmitConflict(i)
    PROVE  PageInv'
<1> DEFINE c == [kind |-> "refresh", project |-> page.project, branch |-> page.branch,
                 id |-> page.analysis, context |-> page.context,
                 answered |-> {}, findings |-> None, reviews |-> NoReviews]
           r == Request({"review"}, c)
<1>1. pending[i] # None /\ pending[i].call.kind = "submit"
  BY DEF SubmitConflict, Awaits
<1>2. CASE ~ContextCurrent(i, {"review"})
  BY <1>2, IgnoreKeeps DEF SubmitConflict
<1>3. CASE ContextCurrent(i, {"review"})
  <2>1. page' = page /\ log' = log /\ Send(i, {}, r)
    BY <1>3 DEF SubmitConflict
  <2>2. /\ page.selected # None /\ page.context \in Analyses /\ page.analysis = page.context
        /\ page.branch \in Branches /\ page.project \in Projects
    BY <1>1, <1>3, CurrentSelection
  <2>3. c \in RefreshCalls
    BY <2>2, NoReviewsList DEF RefreshCalls
  <2>4. r.fresh = {"review"} /\ r.call = c /\ r = [fresh |-> r.fresh, call |-> r.call]
    BY DEF Request
  <2>5. r.call.kind = "refresh" /\ r.call.findings = None /\ r.call.reviews = NoReviews
    BY <2>4
  <2> HIDE DEF c, r
  <2>6. r \in Requests
    BY <2>3, <2>4 DEF Requests, Calls, Counters
  <2>7. FreshFits(page', r) /\ ~Signing(r)
    BY <2>1, <2>2, <2>5 DEF FreshFits, ProjectsFresh, BranchesFresh, AnalysisFresh, ReviewFresh,
                          HistoryFresh, Signing
  <2>8. KnownCall(log, r.call)
    BY <2>5, NoReviewsList DEF KnownCall, KnownFinding
  <2>9. Unnoticed(page, page', {}) /\ SameSession(page, page', {})
    BY <2>1 DEF Unnoticed, SameSession
  <2>10. page' \in Pages /\ KnownPage(log, page') /\ Scoped(page')
    BY <2>1 DEF PageInv
  <2>11. QED
    BY <2>1, <2>6, <2>7, <2>8, <2>9, <2>10, SendKeeps
<1>4. QED
  BY <1>2, <1>3

(* The findings, the reviews and the form are replaced together, and the     *)
(* audit list of the new form is asked for.                                  *)
LEMMA ReplacedForm ==
    ASSUME PageInv, NEW i \in Slots, page.selected # None, page.context # None,
           page.analysis # None,
           NEW f \in Findings \cup {None}, KnownFinding(log, f),
           NEW list \in ReviewLists, KnownList(log, list),
           NEW form \in Forms, KnownFinding(log, form),
           LoadHistory(i, [page EXCEPT !.findings = f, !.cards = f, !.reviews = list,
                                       !.selected = form], {})
    PROVE  PageInv'
<1> DEFINE p == [page EXCEPT !.findings = f, !.cards = f, !.reviews = list, !.selected = form]
<1>1. page \in Pages
  BY DEF PageInv
<1>2. p \in Pages
  BY <1>1 DEF Pages
<1>3. p.findings = f /\ p.cards = f /\ p.reviews = list /\ p.selected = form
  BY <1>1 DEF Pages
<1>4. /\ InScopeOf(page, p) /\ p.wanted = page.wanted /\ p.analysis = page.analysis
      /\ p.historyShown = page.historyShown /\ p.context = page.context
  BY <1>1 DEF Pages, InScopeOf
<1>5. LoadHistory(i, p, {})
  OBVIOUS
<1> HIDE DEF p
<1>6. KnownPage(log, p)
  BY <1>3 DEF KnownPage
<1>7. p.selected # None
  BY <1>3, NullAssumption
<1>8. QED
  BY <1>2, <1>4, <1>5, <1>6, <1>7, HistoryKeeps

LEMMA RefreshDoneKeeps ==
    ASSUME PageInv, NEW i \in Slots, RefreshDone(i)
    PROVE  PageInv'
<1> DEFINE f == pending[i].call.findings
           list == pending[i].call.reviews
           found == f # None /\ f.identity = page.selected.identity
           finding == IF found THEN f ELSE [identity |-> page.selected.identity, review |-> None]
           form == Form(finding, list, found)
<1>1. pending[i] # None /\ pending[i].call.kind = "refresh"
  BY DEF RefreshDone, Awaits
<1>2. pending[i] \in Requests /\ KnownCall(log, pending[i].call)
  BY <1>1 DEF PageInv
<1>3. CASE ~ContextCurrent(i, {"review"})
  BY <1>3, IgnoreKeeps DEF RefreshDone
<1>4. CASE ContextCurrent(i, {"review"})
  <2>1. LoadHistory(i, [page EXCEPT !.findings = f, !.cards = f, !.reviews = list,
                                    !.selected = form], {})
    BY <1>4 DEF RefreshDone, Call
  <2>2. pending[i].call \in RefreshCalls
    BY <1>1, <1>2, CallOfKind DEF Requests
  <2>3. f \in Findings \cup {None} /\ list \in ReviewLists
    BY <2>2 DEF RefreshCalls
  <2>4. KnownFinding(log, f) /\ KnownList(log, list)
    BY <1>1, <1>2 DEF KnownCall
  <2>5. /\ page.selected \in Forms /\ page.selected # None /\ page.context # None
        /\ page.analysis # None
    BY <1>1, <1>4, CurrentSelection
  <2> HIDE DEF f, list
  <2>6. /\ finding.identity \in Identities /\ finding.review \in Reviews \cup {None}
        /\ Known(log, finding.review)
    <3>1. CASE found
      BY <2>3, <2>4, <3>1 DEF Findings, KnownFinding
    <3>2. CASE ~found
      BY <2>5, <3>2 DEF Forms, Known
    <3>3. QED
      BY <3>1, <3>2
  <2>7. found \in BOOLEAN
    OBVIOUS
  <2> HIDE DEF finding, found
  <2>8. form \in Forms /\ form.review = finding.review
    BY <2>3, <2>6, <2>7, FormOf
  <2> HIDE DEF form
  <2>9. KnownFinding(log, form)
    BY <2>6, <2>8 DEF KnownFinding
  <2>10. QED
    BY <2>1, <2>3, <2>4, <2>5, <2>8, <2>9, ReplacedForm
<1>5. QED
  BY <1>3, <1>4

(* A saved decision reaches the finding, the list and the form at once. *)
LEMMA SavedKeeps ==
    ASSUME PageInv, NEW i \in Slots, SubmitSaved(i)
    PROVE  PageInv'
<1> DEFINE identity == pending[i].call.identity
           review == pending[i].call.answer.review
           updated(f) == IF f # None /\ f.identity = identity
                         THEN [f EXCEPT !.review = review] ELSE f
           findings == updated(page.findings)
           list == [page.reviews EXCEPT ![identity] = review]
           selected == IF page.selected.listed THEN updated(page.selected) ELSE page.selected
           form == [selected EXCEPT !.expected = Version(selected.review)]
<1>1. /\ pending[i] # None /\ pending[i].call.kind = "submit"
      /\ pending[i].call.answer # None /\ pending[i].call.answer.saved
  BY DEF SubmitSaved, Awaits, Call
<1>2. /\ pending[i] \in Requests /\ KnownCall(log, pending[i].call)
      /\ page \in Pages /\ KnownPage(log, page)
  BY <1>1 DEF PageInv
<1>3. CASE ~ContextCurrent(i, {"review"})
  BY <1>3, IgnoreKeeps DEF SubmitSaved
<1>4. CASE ContextCurrent(i, {"review"})
  <2>1. LoadHistory(i, [page EXCEPT !.reviews[identity] = review, !.findings = findings,
                                    !.cards = findings, !.selected = form], {})
    BY <1>4 DEF SubmitSaved, Call
  <2>2. pending[i].call \in SubmitCalls
    BY <1>1, <1>2, CallOfKind DEF Requests
  <2>3. identity \in Identities /\ pending[i].call.answer \in SubmitAnswers
    BY <1>1, <2>2 DEF SubmitCalls
  <2>4. review \in Reviews
    BY <1>1, <2>3 DEF SubmitAnswers
  <2>5. Known(log, review)
    BY <1>1, <1>2 DEF KnownCall
  <2>6. /\ page.selected \in Forms /\ page.selected # None /\ page.context # None
        /\ page.analysis # None
    BY <1>1, <1>4, CurrentSelection
  <2> HIDE DEF identity, review
  <2>7. findings \in Findings \cup {None} /\ KnownFinding(log, findings)
    <3>1. page.findings \in Findings \cup {None} /\ KnownFinding(log, page.findings)
      BY <1>2 DEF Pages, KnownPage
    <3>2. CASE page.findings # None /\ page.findings.identity = identity
      <4>1. findings = [page.findings EXCEPT !.review = review]
        BY <3>2
      <4>2. findings \in Findings /\ findings.review = review
        BY <2>4, <3>1, <3>2, <4>1 DEF Findings
      <4>3. QED
        BY <2>5, <4>2 DEF KnownFinding
    <3>3. QED
      BY <3>1, <3>2
  <2>8. list \in ReviewLists /\ KnownList(log, list)
    <3>1. page.reviews \in ReviewLists /\ KnownList(log, page.reviews)
      BY <1>2 DEF Pages, KnownPage
    <3>2. QED
      BY <2>3, <2>4, <2>5, <3>1 DEF ReviewLists, KnownList
  <2>9. selected \in Forms /\ KnownFinding(log, selected)
    <3>1. KnownFinding(log, page.selected)
      BY <1>2 DEF KnownPage
    <3>2. CASE page.selected.listed /\ page.selected.identity = identity
      <4>1. selected = [page.selected EXCEPT !.review = review]
        BY <2>6, <3>2
      <4>2. selected \in Forms /\ selected.review = review
        BY <2>4, <2>6, <4>1 DEF Forms
      <4>3. QED
        BY <2>5, <4>2 DEF KnownFinding
    <3>3. QED
      BY <2>6, <3>1, <3>2
  <2> HIDE DEF selected
  <2>10. form \in Forms /\ form.review = selected.review
    <3>1. Version(selected.review) \in Nat
      BY <2>9 DEF Forms, Reviews, Version
    <3>2. QED
      BY <2>9, <3>1 DEF Forms
  <2>11. KnownFinding(log, form)
    BY <2>9, <2>10, NullAssumption DEF KnownFinding
  <2> HIDE DEF form, findings
  <2> DEFINE p == [page EXCEPT !.reviews[identity] = review, !.findings = findings,
                               !.cards = findings, !.selected = form]
             q == [page EXCEPT !.findings = findings, !.cards = findings, !.reviews = list,
                               !.selected = form]
  <2>12. p = q
    BY <1>2 DEF Pages
  <2> HIDE DEF list
  <2>13. LoadHistory(i, q, {})
    <3> HIDE DEF q
    <3>1. LoadHistory(i, p, {})
      BY <2>1
    <3> HIDE DEF p
    <3>2. QED
      BY <2>12, <3>1 DEF LoadHistory
  <2>14. QED
    BY <2>6, <2>7, <2>8, <2>10, <2>11, <2>13, ReplacedForm
<1>5. QED
  BY <1>3, <1>4

-----------------------------------------------------------------------------
(* The server.  Its logs only grow: what was known stays known. *)
Grows(l, m) == \A k \in Keys : Len(l[k]) <= Len(m[k])

LEMMA KnownStays ==
    ASSUME NEW l \in Logs, NEW m \in Logs, Grows(l, m)
    PROVE  /\ \A v \in Reviews \cup {None} : Known(l, v) => Known(m, v)
           /\ \A p \in Pages : KnownPage(l, p) => KnownPage(m, p)
           /\ \A c \in Calls : KnownCall(l, c) => KnownCall(m, c)
<1>1. ASSUME NEW v \in Reviews \cup {None}, Known(l, v) PROVE Known(m, v)
  <2>1. CASE v = None
    BY <2>1 DEF Known
  <2>2. CASE v # None
    <3>1. v.key \in Keys /\ v.version \in Nat /\ v.version <= Len(l[v.key])
      BY <1>1, <2>2 DEF Reviews, Known
    <3>2. Len(l[v.key]) \in Nat /\ Len(m[v.key]) \in Nat /\ Len(l[v.key]) <= Len(m[v.key])
      BY <3>1 DEF Logs, Grows
    <3>3. QED
      BY <3>1, <3>2 DEF Known
  <2>3. QED
    BY <2>1, <2>2
<1>2. ASSUME NEW f \in Findings \cup Forms \cup {None}, KnownFinding(l, f)
      PROVE  KnownFinding(m, f)
  BY <1>1, <1>2 DEF KnownFinding, Findings, Forms
<1>3. ASSUME NEW list \in ReviewLists, KnownList(l, list) PROVE KnownList(m, list)
  BY <1>1, <1>3 DEF KnownList, ReviewLists
<1>4. ASSUME NEW p \in Pages, KnownPage(l, p) PROVE KnownPage(m, p)
  <2>1. /\ p.findings \in Findings \cup {None} /\ p.cards \in Findings \cup {None}
        /\ p.selected \in Forms \cup {None} /\ p.reviews \in ReviewLists
    BY DEF Pages
  <2>2. QED
    BY <1>2, <1>3, <1>4, <2>1 DEF KnownPage
<1>5. ASSUME NEW c \in Calls, KnownCall(l, c) PROVE KnownCall(m, c)
  <2>1. ASSUME c.kind \in {"findings", "refresh"}
        PROVE  KnownFinding(m, c.findings) /\ KnownList(m, c.reviews)
    <3>1. c \in FindingsCalls \/ c \in RefreshCalls
      BY <2>1, CallOfKind
    <3>2. c.findings \in Findings \cup {None} /\ c.reviews \in ReviewLists
      BY <3>1 DEF FindingsCalls, RefreshCalls
    <3>3. KnownFinding(l, c.findings) /\ KnownList(l, c.reviews)
      BY <1>5, <2>1 DEF KnownCall
    <3>4. QED
      BY <1>2, <1>3, <3>2, <3>3
  <2>2. ASSUME c.kind = "submit", c.answer # None, c.answer.saved
        PROVE  Known(m, c.answer.review)
    <3>1. c \in SubmitCalls
      BY <2>2, CallOfKind
    <3>2. c.answer \in SubmitAnswers
      BY <2>2, <3>1 DEF SubmitCalls
    <3>3. c.answer.review \in Reviews
      BY <2>2, <3>2 DEF SubmitAnswers
    <3>4. QED
      BY <1>1, <1>5, <2>2, <3>3 DEF KnownCall
  <2>3. QED
    BY <2>1, <2>2 DEF KnownCall
<1>6. QED
  BY <1>1, <1>4, <1>5

(* One decision more in the log of a key. *)
LEMMA Decided ==
    ASSUME PageInv, NEW k \in Keys, NEW a \in Analyses, Len(log[k]) < MaxVersion,
           log' = [log EXCEPT ![k] = Append(@, a)]
    PROVE  /\ log' \in Logs /\ Grows(log, log') /\ Len(log'[k]) = Len(log[k]) + 1
           /\ \A j \in Keys : Len(log'[j]) <= MaxVersion
<1>1. log \in Logs /\ \A j \in Keys : Len(log[j]) <= MaxVersion
  BY DEF PageInv
<1>2. MaxVersion \in Nat
  BY DashboardAssumption
<1>3. \A j \in Keys : log[j] \in Seq(Analyses) /\ Len(log[j]) \in Nat
  BY <1>1 DEF Logs
<1>4. Append(log[k], a) \in Seq(Analyses) /\ Len(Append(log[k], a)) = Len(log[k]) + 1
  BY <1>3
<1>5. log' \in Logs
  BY <1>1, <1>4 DEF Logs
<1>6. log'[k] = Append(log[k], a) /\ \A j \in Keys : j # k => log'[j] = log[j]
  BY <1>1 DEF Logs
<1>7. \A j \in Keys : Len(log[j]) <= Len(log'[j]) /\ Len(log'[j]) <= MaxVersion
  BY <1>1, <1>2, <1>3, <1>4, <1>6
<1>8. QED
  BY <1>4, <1>5, <1>6, <1>7 DEF Grows

LEMMA OtherReviewKeeps ==
    ASSUME PageInv, NEW a \in Analyses, OtherReview(a)
    PROVE  PageInv'
<1> DEFINE k == KeyOf(a, IdentityOf[a])
<1>1. k \in Keys
  BY DashboardAssumption DEF OtherReview, KeyOf, Keys
<1>2. /\ Len(log[k]) < MaxVersion /\ log' = [log EXCEPT ![k] = Append(@, a)]
      /\ page' = page /\ pending' = pending
  BY DEF OtherReview
<1> HIDE DEF k
<1>3. log' \in Logs /\ Grows(log, log') /\ \A j \in Keys : Len(log'[j]) <= MaxVersion
  BY <1>1, <1>2, Decided
<1>4. page \in Pages /\ KnownPage(log, page) /\ log \in Logs
  BY DEF PageInv
<1>5. KnownPage(log', page')
  BY <1>2, <1>3, <1>4, KnownStays
<1>6. ASSUME NEW i \in Slots, pending[i] # None
      PROVE  KnownCall(log', pending[i].call) /\ FreshFits(page, pending[i])
  <2>1. pending[i].call \in Calls /\ KnownCall(log, pending[i].call) /\ FreshFits(page, pending[i])
    BY <1>6 DEF PageInv, Requests
  <2>2. QED
    BY <1>3, <1>4, <2>1, KnownStays
<1>7. QED
  BY <1>2, <1>3, <1>5, <1>6 DEF PageInv

(* An answer is put into its request; the decision it may have made is in    *)
(* the log.                                                                  *)
LEMMA AnsweredKeeps ==
    ASSUME PageInv, NEW i \in Slots, pending[i] # None, NEW c \in Calls, Answered(i, c),
           c.kind = pending[i].call.kind,
           log' \in Logs, Grows(log, log'), \A k \in Keys : Len(log'[k]) <= MaxVersion,
           KnownCall(log', c), FreshFits(page, [fresh |-> pending[i].fresh, call |-> c])
    PROVE  PageInv'
<1>1. /\ page \in Pages /\ KnownPage(log, page) /\ log \in Logs /\ Scoped(page)
      /\ pending \in [Slots -> Requests \cup {None}]
  BY DEF PageInv
<1>2. pending[i] \in Requests
  BY <1>1
<1>3. page' = page /\ pending' = [pending EXCEPT ![i] = [pending[i] EXCEPT !.call = c]]
  BY <1>1 DEF Answered
<1>4. [pending[i] EXCEPT !.call = c] = [fresh |-> pending[i].fresh, call |-> c]
  BY <1>2 DEF Requests
<1> DEFINE r == [fresh |-> pending[i].fresh, call |-> c]
<1>5. r \in Requests /\ r.call = c /\ r.fresh = pending[i].fresh
  BY <1>2 DEF Requests
<1>6. pending' = [pending EXCEPT ![i] = r]
  BY <1>3, <1>4
<1> HIDE DEF r
<1>7. pending'[i] = r /\ \A j \in Slots : j # i => pending'[j] = pending[j]
  BY <1>1, <1>6
<1>8. pending' \in [Slots -> Requests \cup {None}]
  BY <1>1, <1>5, <1>6
<1>9. KnownPage(log', page)
  BY <1>1, KnownStays
<1>10. ASSUME NEW j \in Slots, pending'[j] # None
       PROVE  KnownCall(log', pending'[j].call) /\ FreshFits(page, pending'[j])
  <2>1. CASE j = i
    BY <1>5, <1>7, <2>1 DEF r
  <2>2. CASE j # i
    <3>1. pending'[j] = pending[j] /\ pending[j] \in Requests
      BY <1>1, <1>7, <1>10, <2>2
    <3>2. KnownCall(log, pending[j].call) /\ FreshFits(page, pending[j])
      BY <1>10, <3>1 DEF PageInv
    <3>3. pending[j].call \in Calls
      BY <3>1 DEF Requests
    <3>4. QED
      BY <1>1, <3>1, <3>2, <3>3, KnownStays
  <2>3. QED
    BY <2>1, <2>2
<1>11. \A j \in Slots : Signing(pending'[j]) => Signing(pending[j])
  BY <1>5, <1>7 DEF Signing
<1>12. \A j, k \in Slots : Signing(pending'[j]) /\ Signing(pending'[k]) => j = k
  BY <1>11 DEF PageInv
<1>13. QED
  BY <1>1, <1>3, <1>8, <1>9, <1>10, <1>12 DEF PageInv

(* What the server sends is what it has recorded. *)
LEMMA ReplyKnown ==
    ASSUME log \in Logs
    PROVE  /\ \A k \in Keys : ReviewOf(k) \in Reviews \cup {None} /\ Known(log, ReviewOf(k))
           /\ \A a \in Analyses :
                 FindingsReply(a) \in Findings \cup {None} /\ KnownFinding(log, FindingsReply(a))
           /\ \A p \in Projects, b \in Branches :
                 ReviewsReply(p, b) \in ReviewLists /\ KnownList(log, ReviewsReply(p, b))
<1>1. ASSUME NEW k \in Keys
      PROVE  ReviewOf(k) \in Reviews \cup {None} /\ Known(log, ReviewOf(k))
  <2>1. log[k] \in Seq(Analyses)
    BY DEF Logs
  <2>2. CASE log[k] = <<>>
    BY <2>2 DEF ReviewOf, Known
  <2>3. CASE log[k] # <<>>
    <3>1. Len(log[k]) \in Nat /\ log[k][Len(log[k])] \in Analyses
      BY <2>1, <2>3
    <3>2. ReviewOf(k) = [key |-> k, version |-> Len(log[k]), analysis |-> log[k][Len(log[k])]]
      BY <2>3 DEF ReviewOf
    <3>3. QED
      BY <3>1, <3>2 DEF Reviews, Known
  <2>4. QED
    BY <2>2, <2>3
<1>2. ASSUME NEW a \in Analyses
      PROVE  FindingsReply(a) \in Findings \cup {None} /\ KnownFinding(log, FindingsReply(a))
  <2>1. CASE IdentityOf[a] = None
    BY <2>1 DEF FindingsReply, KnownFinding
  <2>2. CASE IdentityOf[a] # None
    <3> DEFINE review == ReviewOf(KeyOf(a, IdentityOf[a]))
               shown == IF review # None /\ Shows(a, review.analysis) THEN review ELSE None
    <3>1. IdentityOf[a] \in Identities /\ KeyOf(a, IdentityOf[a]) \in Keys
      BY <2>2, DashboardAssumption DEF KeyOf, Keys
    <3>2. shown \in Reviews \cup {None} /\ Known(log, shown)
      BY <1>1, <3>1 DEF Known
    <3>3. FindingsReply(a) = [of |-> a, identity |-> IdentityOf[a], review |-> shown]
      BY <2>2 DEF FindingsReply
    <3> HIDE DEF shown
    <3>4. FindingsReply(a) \in Findings /\ FindingsReply(a).review = shown
      BY <3>1, <3>2, <3>3 DEF Findings
    <3>5. QED
      BY <3>2, <3>4 DEF KnownFinding
  <2>3. QED
    BY <2>1, <2>2
<1>3. ASSUME NEW p \in Projects, NEW b \in Branches
      PROVE  ReviewsReply(p, b) \in ReviewLists /\ KnownList(log, ReviewsReply(p, b))
  <2>1. \A x \in Identities : <<p, b, x>> \in Keys
    BY DEF Keys
  <2>2. QED
    BY <1>1, <2>1 DEF ReviewsReply, ReviewLists, KnownList
<1>4. QED
  BY <1>1, <1>2, <1>3

(* Half of a Promise.all is answered. *)
LEMMA HalfKeeps ==
    ASSUME PageInv, NEW i \in Slots, NEW half \in Halves, AnswerHalf(i, half)
    PROVE  PageInv'
<1> DEFINE c == pending[i].call
           d == IF half = "findings"
                THEN [c EXCEPT !.answered = @ \cup {half}, !.findings = FindingsReply(c.id)]
                ELSE [c EXCEPT !.answered = @ \cup {half},
                               !.reviews = ReviewsReply(c.project, c.branch)]
<1>1. pending[i] # None /\ c.kind \in {"findings", "refresh"} /\ Answered(i, d) /\ log' = log
  BY DEF AnswerHalf, Awaits, Call
<1>2. /\ pending[i] \in Requests /\ log \in Logs /\ KnownCall(log, c) /\ FreshFits(page, pending[i])
      /\ \A k \in Keys : Len(log[k]) <= MaxVersion
  BY <1>1 DEF PageInv
<1>3. c \in FindingsCalls \/ c \in RefreshCalls
  BY <1>1, <1>2, CallOfKind DEF Requests
<1>4. /\ c.id \in Analyses /\ c.project \in Projects /\ c.branch \in Branches
      /\ c.answered \in SUBSET Halves
  BY <1>3 DEF FindingsCalls, RefreshCalls
<1>5. /\ FindingsReply(c.id) \in Findings \cup {None} /\ KnownFinding(log, FindingsReply(c.id))
      /\ ReviewsReply(c.project, c.branch) \in ReviewLists
      /\ KnownList(log, ReviewsReply(c.project, c.branch))
  BY <1>2, <1>4, ReplyKnown
<1>6. KnownFinding(log, c.findings) /\ KnownList(log, c.reviews)
  BY <1>1, <1>2 DEF KnownCall
<1> HIDE DEF c
<1>7. /\ d \in FindingsCalls \/ d \in RefreshCalls
      /\ KnownFinding(log, d.findings) /\ KnownList(log, d.reviews) /\ d.kind = c.kind
  <2>1. CASE c \in FindingsCalls
    BY <1>4, <1>5, <1>6, <2>1 DEF FindingsCalls, Halves
  <2>2. CASE c \in RefreshCalls
    BY <1>4, <1>5, <1>6, <2>2 DEF RefreshCalls, Halves
  <2>3. QED
    BY <1>3, <2>1, <2>2
<1> HIDE DEF d
<1>8. d \in Calls
  BY <1>7 DEF Calls
<1>9. KnownCall(log', d)
  BY <1>1, <1>7 DEF KnownCall
<1>10. FreshFits(page, [fresh |-> pending[i].fresh, call |-> d])
  BY <1>1, <1>2, <1>7 DEF c, FreshFits, ProjectsFresh, BranchesFresh, AnalysisFresh, ReviewFresh,
                        HistoryFresh
<1>11. Grows(log, log')
  <2>1. \A k \in Keys : Len(log[k]) \in Nat
    BY <1>2 DEF Logs
  <2>2. QED
    BY <1>1, <2>1 DEF Grows
<1>12. QED
  BY <1>1, <1>2, <1>7, <1>8, <1>9, <1>10, <1>11, AnsweredKeeps DEF c

LEMMA SameLog ==
    ASSUME log \in Logs, log' = log
    PROVE  Grows(log, log')
<1>1. \A k \in Keys : Len(log[k]) \in Nat
  BY DEF Logs
<1>2. QED
  BY <1>1 DEF Grows

(* The audit list that is sent is at least as long as any review is old. *)
LEMMA AnswerHistoryKeeps ==
    ASSUME PageInv, NEW i \in Slots, AnswerHistory(i)
    PROVE  PageInv'
<1> DEFINE c == pending[i].call
           a == [key |-> c.key, entries |-> Len(log[c.key])]
           d == [c EXCEPT !.answer = a]
<1>1. pending[i] # None /\ c.kind = "history" /\ Answered(i, d) /\ log' = log
  BY DEF AnswerHistory, Awaits, Call
<1>2. /\ pending[i] \in Requests /\ log \in Logs /\ FreshFits(page, pending[i])
      /\ \A k \in Keys : Len(log[k]) <= MaxVersion
      /\ page \in Pages /\ KnownPage(log, page)
  BY <1>1 DEF PageInv
<1>3. c \in HistoryCalls
  BY <1>1, <1>2, CallOfKind DEF Requests
<1> HIDE DEF c
<1>4. c.key \in Keys
  BY <1>3 DEF HistoryCalls
<1>5. a \in Audits /\ a.key = c.key /\ a.entries = Len(log[c.key])
  BY <1>2, <1>4 DEF Logs, Audits
<1> HIDE DEF a
<1>6. d \in HistoryCalls /\ d.kind = "history" /\ d.key = c.key /\ d.answer = a
  BY <1>3, <1>5 DEF HistoryCalls
<1> HIDE DEF d
<1>7. HistoryFresh(page, [fresh |-> pending[i].fresh, call |-> d])
  <2>1. SUFFICES ASSUME ReviewCounters \subseteq pending[i].fresh
                 PROVE  /\ page.selected # None /\ page.selected.review # None
                        /\ d.key = page.selected.review.key
                        /\ a.key = d.key /\ a.entries >= page.selected.review.version
    BY <1>6 DEF HistoryFresh
  <2>2. /\ page.selected # None /\ page.selected.review # None
        /\ c.key = page.selected.review.key
    BY <1>1, <1>2, <2>1 DEF FreshFits, HistoryFresh, c
  <2>3. page.selected \in Forms
    BY <1>2, <2>2 DEF Pages
  <2>4. page.selected.review.version \in Nat
    BY <2>2, <2>3 DEF Forms, Reviews
  <2>5. page.selected.review.version <= Len(log[c.key])
    BY <1>2, <2>2 DEF KnownPage, KnownFinding, Known
  <2>6. Len(log[c.key]) \in Nat
    BY <1>2, <1>4 DEF Logs
  <2>7. QED
    BY <1>5, <1>6, <2>2, <2>4, <2>5, <2>6
<1>8. FreshFits(page, [fresh |-> pending[i].fresh, call |-> d])
  BY <1>6, <1>7 DEF FreshFits, ProjectsFresh, BranchesFresh, AnalysisFresh, ReviewFresh
<1>9. d \in Calls /\ KnownCall(log', d)
  BY <1>6 DEF Calls, KnownCall
<1>10. Grows(log, log')
  BY <1>1, <1>2, SameLog
<1>11. QED
  BY <1>1, <1>2, <1>6, <1>8, <1>9, <1>10, AnsweredKeeps DEF c

(* A decision is recorded before it is answered. *)
LEMMA AnswerSubmitKeeps ==
    ASSUME PageInv, NEW i \in Slots, AnswerSubmit(i)
    PROVE  PageInv'
<1> DEFINE c == pending[i].call
           k == KeyOf(c.context, c.identity)
           review == [key |-> k, version |-> Len(log[k]) + 1, analysis |-> c.context]
<1>1. pending[i] # None /\ c.kind = "submit"
  BY DEF AnswerSubmit, Awaits, Call
<1>2. /\ pending[i] \in Requests /\ log \in Logs /\ FreshFits(page, pending[i])
      /\ \A j \in Keys : Len(log[j]) <= MaxVersion
  BY <1>1 DEF PageInv
<1>3. c \in SubmitCalls
  BY <1>1, <1>2, CallOfKind DEF Requests
<1>4. c.context \in Analyses /\ c.identity \in Identities
  BY <1>3 DEF SubmitCalls
<1>5. k \in Keys
  BY <1>4, DashboardAssumption DEF KeyOf, Keys
<1>6. ASSUME NEW a \in SubmitAnswers, Answered(i, [c EXCEPT !.answer = a]),
             log' \in Logs, Grows(log, log'), \A j \in Keys : Len(log'[j]) <= MaxVersion,
             a.saved => Known(log', a.review)
      PROVE  PageInv'
  <2> DEFINE d == [c EXCEPT !.answer = a]
  <2>1. d \in SubmitCalls /\ d.kind = "submit" /\ d.answer = a
    BY <1>3 DEF SubmitCalls
  <2>2. Answered(i, d)
    BY <1>6
  <2> HIDE DEF d
  <2>3. d \in Calls /\ KnownCall(log', d)
    BY <1>6, <2>1 DEF Calls, KnownCall
  <2>4. FreshFits(page, [fresh |-> pending[i].fresh, call |-> d])
    BY <1>1, <1>2, <2>1 DEF FreshFits, ProjectsFresh, BranchesFresh, AnalysisFresh, ReviewFresh,
                          HistoryFresh
  <2>5. QED
    BY <1>1, <1>6, <2>1, <2>2, <2>3, <2>4, AnsweredKeeps
<1>7. CASE c.expected # Len(log[k])
  <2>1. log' = log /\ Answered(i, [c EXCEPT !.answer = [saved |-> FALSE]])
    BY <1>7 DEF AnswerSubmit, Call
  <2>2. [saved |-> FALSE] \in SubmitAnswers
    BY DEF SubmitAnswers
  <2>3. Grows(log, log')
    BY <1>2, <2>1, SameLog
  <2>4. QED
    BY <1>2, <1>6, <2>1, <2>2, <2>3
<1>8. CASE c.expected = Len(log[k])
  <2>1. /\ Len(log[k]) < MaxVersion /\ log' = [log EXCEPT ![k] = Append(@, c.context)]
        /\ Answered(i, [c EXCEPT !.answer = [saved |-> TRUE, review |-> review]])
    BY <1>8 DEF AnswerSubmit, Call
  <2> HIDE DEF k, c
  <2>2. /\ log' \in Logs /\ Grows(log, log') /\ Len(log'[k]) = Len(log[k]) + 1
        /\ \A j \in Keys : Len(log'[j]) <= MaxVersion
    BY <1>4, <1>5, <2>1, Decided
  <2>3. Len(log[k]) \in Nat
    BY <1>2, <1>5 DEF Logs
  <2>4. review \in Reviews /\ Known(log', review)
    BY <1>4, <1>5, <2>2, <2>3 DEF Reviews, Known
  <2> DEFINE a == [saved |-> TRUE, review |-> review]
  <2> HIDE DEF review
  <2>5. a \in SubmitAnswers /\ (a.saved => Known(log', a.review))
    BY <2>4 DEF SubmitAnswers
  <2>6. Answered(i, [c EXCEPT !.answer = a])
    BY <2>1
  <2> HIDE DEF a
  <2>7. QED
    BY <1>6, <2>2, <2>5, <2>6
<1>9. QED
  BY <1>7, <1>8

-----------------------------------------------------------------------------
LEMMA PageInitially == Init => PageInv
<1> SUFFICES ASSUME Init PROVE PageInv
  OBVIOUS
<1>1. page \in Pages
  BY NoReviewsList DEF Init, Pages
<1>2. /\ page.token = None /\ page.projects = {} /\ page.project = None /\ page.branches = {}
      /\ page.branch = None /\ page.historyShown = FALSE /\ page.analysis = None
  BY DEF Init
<1>3. /\ page.findings = None /\ page.reviews = NoReviews /\ page.cards = None
      /\ page.selected = None /\ page.audit = None
  BY DEF Init
<1>4. Scoped(page)
  BY <1>2, <1>3 DEF Scoped
<1>5. KnownPage(log, page)
  BY <1>3, NoReviewsList DEF KnownPage, KnownFinding
<1>6. log \in Logs /\ \A k \in Keys : Len(log[k]) <= MaxVersion
  BY DashboardAssumption DEF Init, Logs
<1>7. pending \in [Slots -> Requests \cup {None}] /\ \A i \in Slots : pending[i] = None
  BY DEF Init
<1>8. QED
  BY <1>1, <1>4, <1>5, <1>6, <1>7 DEF PageInv, Signing

LEMMA UserKeeps ==
    ASSUME PageInv, User
    PROVE  PageInv'
<1>1. CASE Disconnect
  BY <1>1, DisconnectKeeps
<1>2. ASSUME NEW b \in Branches, ChangeBranch(b) PROVE PageInv'
  BY <1>2, ChangeBranchKeeps
<1>3. ASSUME NEW i \in Slots, NEW t \in Tokens, Connect(i, t) PROVE PageInv'
  BY <1>3, ConnectKeeps
<1>4. ASSUME NEW i \in Slots, NEW p \in Projects \cup {None}, ChangeProject(i, p) PROVE PageInv'
  BY <1>4, ChangeProjectKeeps
<1>5. ASSUME NEW i \in Slots, LoadAnalyses(i) PROVE PageInv'
  BY <1>5, LoadAnalysesKeeps
<1>6. ASSUME NEW i \in Slots, NEW id \in Analyses, SelectRow(i, id) PROVE PageInv'
  BY <1>6, SelectRowKeeps
<1>7. ASSUME NEW i \in Slots, SelectFinding(i) \/ RefreshHistory(i) \/ SubmitReview(i)
      PROVE  PageInv'
  BY <1>7, SelectFindingKeeps, RefreshHistoryKeeps, SubmitKeeps
<1>8. QED
  BY <1>1, <1>2, <1>3, <1>4, <1>5, <1>6, <1>7 DEF User

LEMMA ContinueKeeps ==
    ASSUME PageInv, NEW i \in Slots, Continue(i)
    PROVE  PageInv'
<1>1. CASE LoadProjectsDone(i) \/ LoadProjectsRefused(i)
  BY <1>1, ProjectsDone
<1>2. CASE LoadBranchesDone(i)
  BY <1>2, BranchesDone
<1>3. CASE LoadAnalysesDone(i) \/ LoadAnalysesFailed(i)
  BY <1>3, AnalysesDone
<1>4. CASE SelectAnalysisDone(i)
  BY <1>4, AnalysisDone
<1>5. CASE LoadFindingsDone(i) \/ LoadFindingsFailed(i)
  BY <1>5, FindingsDone
<1>6. CASE LoadHistoryDone(i)
  BY <1>6, HistoryDone
<1>7. CASE SubmitSaved(i)
  BY <1>7, SavedKeeps
<1>8. CASE SubmitConflict(i)
  BY <1>8, ConflictKeeps
<1>9. CASE RefreshDone(i)
  BY <1>9, RefreshDoneKeeps
<1>10. CASE Fails(i)
  BY <1>10, IgnoreKeeps DEF Fails
<1>11. QED
  BY <1>1, <1>2, <1>3, <1>4, <1>5, <1>6, <1>7, <1>8, <1>9, <1>10 DEF Continue

LEMMA ServerKeeps ==
    ASSUME PageInv, Server
    PROVE  PageInv'
<1>1. ASSUME NEW a \in Analyses, OtherReview(a) PROVE PageInv'
  BY <1>1, OtherReviewKeeps
<1>2. ASSUME NEW i \in Slots, NEW half \in Halves, AnswerHalf(i, half) PROVE PageInv'
  BY <1>2, HalfKeeps
<1>3. ASSUME NEW i \in Slots, AnswerHistory(i) \/ AnswerSubmit(i) PROVE PageInv'
  BY <1>3, AnswerHistoryKeeps, AnswerSubmitKeeps
<1>4. QED
  BY <1>1, <1>2, <1>3 DEF Server, Halves

LEMMA PageInductive == PageInv /\ [Next]_vars => PageInv'
<1> SUFFICES ASSUME PageInv, [Next]_vars PROVE PageInv'
  OBVIOUS
<1>1. CASE User
  BY <1>1, UserKeeps
<1>2. ASSUME NEW i \in Slots, Continue(i) PROVE PageInv'
  BY <1>2, ContinueKeeps
<1>3. CASE Server
  BY <1>3, ServerKeeps
<1>4. CASE UNCHANGED vars
  BY <1>4 DEF vars, PageInv, KnownPage, Scoped
<1>5. QED
  BY <1>1, <1>2, <1>3, <1>4 DEF Next

(* The inductive invariant, for every number of requests in flight. *)
LEMMA PageAlways == Spec => []PageInv
BY PageInitially, PageInductive, PTL DEF Spec

-----------------------------------------------------------------------------
(* Answers of earlier sessions and project selections never reach the page   *)
(* (the counters of app.js): the projects are the token's, the branches are  *)
(* the project's, and nothing of a session outlives it.                      *)
THEOREM ScopeKept == Spec => []PageOfCurrentScope
<1>1. PageInv => PageOfCurrentScope
  <2> SUFFICES ASSUME PageInv PROVE PageOfCurrentScope
    OBVIOUS
  <2>1. page \in Pages /\ Scoped(page) /\ pending \in [Slots -> Requests \cup {None}]
    BY DEF PageInv
  <2>2. /\ page.token \in Tokens \cup {None} /\ page.projects \subseteq Projects
        /\ page.project \in Projects \cup {None} /\ page.branch \in Branches \cup {None}
        /\ page.branches \subseteq Branches /\ page.analyses \subseteq Analyses
        /\ page.historyShown \in BOOLEAN
    BY <2>1 DEF Pages
  <2>3. /\ page.analysis \in Analyses \cup {None} /\ page.wanted \in Analyses \cup {None}
        /\ page.context \in Analyses \cup {None} /\ page.selected \in Forms \cup {None}
    BY <2>1 DEF Pages
  <2>4. page.selected # None => page.context \in Analyses /\ page.selected.identity \in Identities
    BY <2>1, <2>3 DEF Scoped, Forms
  <2>5. \A i \in Slots : pending[i] # None => pending[i].fresh \subseteq Counters
    BY <2>1 DEF Requests
  <2>6. TypeOK
    BY <2>2, <2>3, <2>4, <2>5 DEF TypeOK, PageInv
  <2>7. QED
    BY <2>1, <2>6 DEF PageOfCurrentScope, Scoped
<1>2. QED
  BY <1>1, PageAlways, PTL

(* However the answers of selectAnalysis and loadAnalyses arrive, the        *)
(* analysis shown is the one selected last, of the selected project.         *)
THEOREM LastSelectionShown == Spec => []LastSelectionWins
<1>1. PageInv => LastSelectionWins
  BY DEF PageInv, Scoped, LastSelectionWins
<1>2. QED
  BY <1>1, PageAlways, PTL

(* The audit list of loadReviewHistory is that of the review in the form and *)
(* never older than it, whatever is decided while it is on its way.          *)
THEOREM AuditMatches == Spec => []AuditOfSelected
<1>1. PageInv => AuditOfSelected
  BY DEF PageInv, Scoped, AuditOfSelected
<1>2. QED
  BY <1>1, PageAlways, PTL
=============================================================================
