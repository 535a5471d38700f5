# TLA+ verification of hoonarqube

hoonarqube is a Rust static analyzer (a command line tool with rule packs for
seven languages) and a self-hosted service that stores analyses and the human
reviews of their findings.  This directory holds TLA+ modules that model the
parts of the program whose correctness depends on state, order, concurrency or
failure, the TLC configurations that check them on small instances, and proofs
that TLAPS checks for every value of the constants.

`PROJECT.json` lists components, runs, mutants, the map from definitions to
source lines, hazards and theorems.  A comment `Mutant:` in a module marks a
wrong variant of the definition that follows it; a run must fail when the
variant replaces the definition, which shows that the property notices that kind
of mistake.

| module | about | run | proofs |
|---|---|---|---|
| `ServiceStore` | the service's databases and the backups between them | `store` | `ServiceStoreProofs` |
| `ReviewLog`, `ServiceReviewLog` | what the service promises reviewers, and that `ServiceStore` implements it | `store` | `ServiceStoreProofs` |
| `Dashboard` | the browser page against a service that others use too | `dashboard`, `dash_overwrite` | `DashboardProofs` |
| `HelperPipes`, `CSharpHelper`, `TypeScriptHelper` | the calls of the two compiler helpers | `helpers` | `HelperProofs` |
| `AnalysisCache`, `ProjectAnalysis` | the analysis of a project by a pool of threads over a shared cache | `project` | `ProjectAnalysisProofs` |
| `DataflowSolver` | the worklist solver of the dataflow crate | `dataflow` | `DataflowSolverProofs` |
| `ControlFlowLowering`, `ControlFlowReference` | structured descriptions become graphs, against their structural meaning | `lowering`, `lowering_entry` | |
| `CfgPaths`, `CfgReachability`, `CfgDominators`, `CfgComponents`, `CfgEditing` | the algorithms on control flow graphs, against their definitions | `cfg` | `CfgProofs` |
| `FixEdits` | which fixes of a plan are kept and how they rewrite a text | `edits` | `FixEditsProofs` |
| `FixApply` | how `fix --apply` replaces files beside editors, other runs and crashes | `fix_race`, `fix_ends` | `FixApplyProofs` |

Each run has a module `MC...` that says what is instantiated.  To repeat the work:
`tlc -config MCServiceStore.cfg MCServiceStore` (and so on for the other
configurations), `tlapm ServiceStoreProofs.tla` (and so on).

Several `MC` modules put more than one question into one run: a variable that never
changes (`situation`, `call`, `language`) chooses the question in the initial state, and
the module states which steps belong to it.  Where things are alike, either `SYMMETRY` is
used (`store`, whose properties have no fairness) or, in runs with liveness properties,
only one representative is looked at: graphs whose blocks are sorted by degree (`dataflow`,
`cfg`, where lists are taken in any order), and new files on the least free inode
(`fix_race`, `fix_ends`).

## Inventory of the system

| component | where | state it keeps | operations | what is hard | what makes it correct |
|---|---|---|---|---|---|
| service store | `crates/hoonarqube-service/src/store.rs` | SQLite tables projects, analyses, findings, reviews, review_history, deletion_audit | ingest, review, delete analysis, delete project, retention, export, restore, views | optimistic versions, tombstones, restoring a backup into a database that moved on, id remapping, retries | history is never rewritten, every deletion is explained once, a restore is an exact union |
| service API | `crates/hoonarqube-service/src/lib.rs` | none beyond the store | HTTP handlers, tokens and roles, validation of ingest and of restore envelopes | clocks are read before the lock; validation is stricter than the schema | validation accepts what export writes |
| dashboard | `crates/hoonarqube-service/static/app.js` | the page, five request counters | connect, choose, select, submit, refresh | answers of several requests in any order, versions that are stale when they are sent | the page shows the chosen scope; a decision is never replaced unseen |
| dataflow | `crates/hoonarqube-dataflow/src` | worklist, facts per block | CFG construction, dominators, fixpoint solver, gen/kill facts | termination, facts lost when a block is not queued again | the solver stops in the extreme solution; lowering keeps every path of the source |
| fix planning and application | `crates/hoonarqube-cli/src/main.rs`, `crates/hoonarqube-ir/src/lib.rs` | the user's files, temporary files | plan, resolve conflicts, project, verify, apply | a file that changes between plan and write, crashes between write and rename | readers see whole files, only verified rewrites are published |
| analysis cache | `crates/hoonarqube-cli/src/cache.rs` | entry files on disk | load, store | concurrent processes, torn or foreign entries | a hit equals a fresh analysis |
| project analysis | `crates/hoonarqube-cli/src/analyze.rs` | a shared next-file counter | worker pool, read, analyze, collect | threads that cannot be started, any order of results | each file exactly once, in inventory order |
| compiler helpers | `crates/hoonarqube-csharp/src/semantic.rs`, `crates/hoonarqube-jsts/src/project_context.rs` | a child process and three pipes | spawn, feed, read capped, time out, reap | everyone waiting on everyone, a timeout racing a late answer | the call returns, with an answer only of a helper that completed |
| project report | `crates/hoonarqube-core/src/project.rs`, `duplication.rs`, `source_facts.rs` | none (pure) | totals, duplication, facts | budgets, overlap of ranges | totals are the sums of the files |
| assessment | `crates/hoonarqube-core/src/assessment` | none (pure) | baseline matching, gates, coverage | identity of findings across runs | every finding is classified once |
| catalog, IR, facade, bench, xtask | `crates/hoonarqube-catalog`, `-ir`, `hoonarqube`, `-bench`, `xtask` | none | data, types, re-exports | nothing stateful | |
| rule packs | `crates/hoonarqube-{python,jsts,csharp,go,java,ruby,rust}` | none (pure) | syntactic rules | each rule is a function of one file | |

How they interact.  The command line tool reads files, runs the rule packs over
them in a pool of threads (for C# and TypeScript with facts of a compiler helper,
for all with the cache), and folds the results into a report.  Rule packs build
control-flow graphs with the dataflow crate and solve equations over them.
`fix --apply` analyses files, plans the fixes that rules attached to findings,
projects the rewritten text, analyses that again and replaces the file.  Reports
are sent to the service, which stores them, offers them for review and moves
projects between databases by export and restore.  The service serialises all
store operations by a mutex; everything else that runs concurrently meets in the
file system or in pipes.

The hazards, each at its line and with the properties that would notice it, are in
`PROJECT.json`.

## ServiceStore

State: per database `projects` (the row of a project: absent, live or the stamp of its
tombstone), `analyses`, `reviews` (functions from row ids), `history` (a set), `audit`
(a bag, since `deletion_audit` has no uniqueness constraint), and `lastAnalysis`,
`lastReview` (the `sqlite_sequence` values of the two AUTOINCREMENT tables).
`backups` are the envelopes operators keep.

| action | code |
|---|---|
| `IngestAnalysis` | `ingest_analysis`, `Store::insert_analysis`, `insert_analysis_rows` |
| `ApplyReview` | `post_review`, `Store::apply_review`, `upsert_review`, `insert_review_history` |
| `ApplyRetention` | `retention`, `Store::apply_retention` |
| `DeleteAnalysis`, `DeleteProject` | the handlers and `Store` methods of those names |
| `ExportProject` | `export_project` of handler and store |
| `Restore` | `restore_project`, `validate_restore` and its parts, `Store::restore` and its seven steps |

A handler is one action because it holds the process-wide mutex around one SQLite
transaction.  A request that is refused rolls back, so it is a stuttering step; what
matters is which requests are refused, and that is the guards.  Handlers call
`now_timestamp()` before they wait for the mutex, so the model lets any operation carry
any stamp.  `content_hash` covers the branch, the commit, the time of the analysis and
the report; the model has one value for what the hash covers.  The identity of a
finding, its kind and whether it is ambiguous are what `extract_findings` derives from
a report; that no two findings of a report which are not ambiguous share an identity is
`ReportAssumption`.  An ambiguous finding may have the identity of one that is not; which of the two
`review_target_branch` meets first is left open, and a refusal is possible anyway.

The run `store` has two databases that work on their own and exchange a backup.

* `SchemaConstraints`: no accepted operation runs into a UNIQUE or FOREIGN KEY
  constraint, and references stay inside project and branch.
* `ReviewHistoryComplete`: the versions of a review are 1..version, each continues the one
  before, and the last agrees with the review.
* `TombstonesAudited`: tombstones and audit rows correspond, with equal stamps.
  `AuditedOnce`: no deletion is recorded twice.
* `ExportRestorable`: every export passes the validation and restores into an empty
  database.
* `RestoreIsUnion`: an accepted restore adds exactly the rows of the backup, each
  reference meaning the same row under the new ids, and leaves other projects alone.
* `RestoreAddsNothingAgain`: a repeated restore changes nothing, and an old backup restored
  into the database it came from is refused or changes nothing, so it cannot revive what
  was deleted since.
* `HistoryImmutable`: no step changes a stored report, removes a tombstone, history entry or
  audit row, or changes a review but by its next version.
* `ReviewsStayVisible`: deleting and retaining other analyses never hides a review from a
  finding of an analysis that stays.
* `ImplementsReviewLog`: the refinement below.

Bounds.  `MaxVersion` 2 gives a review, a second one and a stale one; `RequestedStates`
holds a legal and an illegal follow-up; `MaxBackups` 1 is enough for a stale backup,
because the database moves on after the export; two commits are needed for ids that differ
between databases, two reports for contexts and epochs that differ.  `MaxRows` cuts the
number of rows that both hold together: seven (two decisions restored next to another
analysis, the least that tells an installed log from a decision made there), six once a
second report or a deletion is stored, four while two projects or two stamps are in use
(one analysis of each project, a backup and its restore, or an analysis, a review and a
deletion with different stamps).  `OneOfMany` lets commits or reports vary,
not both at once.  Deadlock is not checked: when the bounds are reached the model stops.

### The review log

`ReviewLog` is the promise without tables: every database has one append-only log of
decisions for each key (project, branch, finding, kind), and a backup carries whole logs; it
installs a log where there is none, finds the same log, or is refused as a whole.
`ServiceReviewLog` reads the logs off `review_history`, whose rows name reviews and analyses
by ids that differ from database to database, and states `ImplementsReviewLog`: every step
of every handler is a decision appended to one log, a backup taken, logs installed, or
nothing.

### What is proved of the store

For any number of databases, projects, reports, stamps and backups, from the assumptions
on the constants in `ServiceStore` alone, every safety property of the run `store`:

* `TypeCorrect` (`Spec => []TypeOK`).  The type invariant contains that ids never exceed
  `sqlite_sequence`; without it the ids `Restore` hands out could not be shown to be new.
  The difficult part is `Fresh`: it is shown to give distinct ids above the last one.
* `TombstonesAreAudited`, `DeletionsAuditedOnce` from `AuditInv`, which adds that every
  envelope carries the same correspondence between its tombstones and its audit rows: a
  restored row is right only because the envelope it comes from is as consistent as the
  database that wrote it.
* `ConstraintsHold`, `HistoryIsComplete`, `ExportsRestore` from `ReviewInv`: `AuditInv`, and
  the tables of every database and of every envelope agree with each other
  (`RowsConsistent`: unique keys, references, a history row for each version, reviews only of
  findings that can be reviewed).  The schema's constraints are not inductive on their own.  A restore keeps
  `UNIQUE (review, version)` because histories are complete: a restored review is
  either new, with all of its history, or the one at hand, and then adds nothing.
  `Restore` is taken apart into what it does to analyses, to reviews and to the history
  (`AnalysesMerged`, `ReviewsMerged`, `HistoryMerged`).
* `HistoryStays`, `ReviewsVisible`: two action properties, from `GrownFrom`, which every
  handler satisfies.
* `RestoreAddsNothing` from `OriginInv`: a database still holds what each of its backups
  carries, under the same ids (`KeptBy`), since no handler removes rows.  So the
  identity is one of the matches that `Restore` looks for, and the unique keys make it the only one.
* `RestoresAreUnions`: the joins over envelope and database, on both sides of a restore,
  are the same rows up to ids.
* `StoreImplementsLog`, the refinement of `ReviewLog`.  The log of a key is read off the
  history by versions; completeness makes that a bijection between the history
  rows of a review and `1 .. version`, which is what lets a step be matched: a review appends
  one entry (`LogAppended`), a restore installs whole logs or finds them (`LogInstalled`), an export
  carries them (`Carried`), and everything else keeps them (`KeepsLogs`).

## DataflowSolver

`solve_dataflow` with its queue.  The arguments of the call (graph, direction, meet,
boundary, transfers) are variables chosen in `Init` and never changed.  `Visit` is one
turn of the loop up to the call of `enqueue_unqueued`; `Enqueue` is one turn of
that function's loop, in any order, since edge lists are in the order a builder
happened to add them.  `side` and `result` are `in_facts` and `out_facts` of a forward
solve, the other way round of a backward one.  A fact is a set; any monotone
transfer is allowed (`MonotoneAssumption` is what the doc comment of the crate demands of the caller).

The run `dataflow` takes every flow graph over entry, exit and two inner blocks (up to
exchanging the inner blocks by out-degree), unreachable blocks, self loops and cycles
included, both directions and meets, every gen/kill transfer of one fact.  `SolvedWhenDone`: at
the end exactly the reached blocks were visited and satisfy the equations.
`BelowSolutions`: at every moment facts are on the right side of every solution, so the
result is the least (may) or greatest (must) one.  `TypeOK` contains that no block waits in
the queue twice.  `Terminates`, under weak fairness of the loop, which says no more than that
the thread that runs it is scheduled.  One fact is enough for gen/kill problems, which
treat each fact on its own.

Proved for every graph, set of facts and family of monotone transfers: `TypeCorrect`,
`SolverSolves` and `SolverIsExtreme`.  The inductive invariant `WorkInv` says where an equation may
still be violated: for every visited block either its side is the meet of what its
visited neighbours hand on now, or it waits in the queue or among the neighbours still to be
enqueued; and every neighbour of a visited block is visited or waits.  When nothing waits,
both become the equations.

## FixEdits

`project_fixes` for one file.  `Resolve` decides the candidates of
`resolve_fix_conflicts` in their sorted order; `MapEdits`, `CheckEdits` and `Rewrite` are
the three parts of `apply_fixes`, the bounds, the windows of neighbours and the
forward pass; `Finish` copies the rest and applies `mechanical_fixed`.  Positions are offsets, and
those beyond `Length` miss the source.  A column beyond the end of a line that is
not the last misses the source as well; it differs from the modelled case only in the place
of the fix in the order, which the properties leave open.  A text is a sequence of
pieces, each a source character or a replacement, with the place it came from.  Any of the
source characters may be line terminators (`newlines`), so that a deletion can uncover one at
the end, which `mechanical_fixed` then leaves alone; `\n` and `\r\n` are not told apart.

The run `edits` takes all plans of up to three fixes with one or two edits over a source
of two characters, either of which may be a line terminator, insertions, deletions, replacements
and (with up to two fixes) out-of-bounds edits included.

* `ExactRewrite`: the result is the characters no kept edit covers and the replacements of
  kept edits, in order, nothing of a dropped fix, with one final line terminator.
* `EarlierFixesWin`: a fix is dropped only because of a kept one that precedes it.
* `ResolvedPlansApply`: what `resolve_fix_conflicts` lets through is never refused by
  `apply_fixes` as overlapping, though the two use different tests (all pairs, with four
  cases; neighbours, with two).

Proved, for every length and every set of fixes that `Fix::new` accepts, all three:
`ResolutionSuffices` (`Spec => []ResolvedPlansApply`), `GreedyChoice` (`Spec => []EarlierFixesWin`),
`RewriteIsExact` (`Spec => []ExactRewrite`).  The inductive `CompatInv` says that no two edits of kept
fixes overlap, which holds inside a fix by `ValidFix` and between fixes by the guard of
`Resolve`; two edits that do not overlap do not compete.  `GreedyInv` adds that the candidates
already decided come before those that wait.  `RewriteInv` holds the invariant of the
loop, `LoopInv`: behind the cursor the text consists of exactly the uncovered characters and the
replacements of the edits done (`Passed`), in order, and the edits still to do start at or after the
cursor.  The last point is where the windows of neighbours that `CheckEdits` looks at are needed
for all pairs, which is what `NoCompetition` provides.

## FixApply

Processes (`Tools`) run `fix --apply` on `Paths`.  A name leads to an inode or is a symbolic
link; hard links are names outside `Paths` that share an inode.  A text is the set of marks
a reader can tell apart: one per tool (the findings its fixes remove) and one for what
a person wrote.  Each access to the file system is a step of its own:

| action | code |
|---|---|
| `PlanFile`, `StartApply` | `fix_plans`, `run_fix` |
| `Inspect`, `Compare` | `apply_plan`: `apply_path_is_regular_file`, projection, `source_matches_plan`, verification |
| `Reinspect`, `Recompare` | `write_applied_content`: the same two checks again |
| `OpenTemp`, `WriteTemp` | `prepare_replacement_temp`: up to `ATTEMPTS` names with `create_new`, then write and sync |
| `CheckKind`, `CheckContent` | `ensure_regular_source_matches` |
| `Rename` | `replace_file_by_rename` |
| `Reject`, `RejectAndCleanUp`, `Settle` | `apply_one_plan`, the drop of `TempFileCleanup`, `ApplyTotals::record` |
| `CallFails` | an error of any call between those: the plan is given up |
| `Exit` | the exit code of `run_fix_apply` |
| `Crash`, `Restart` | a process dies at any step; a later one gets the same process id, so its temporary names collide |
| `EditInPlace`, `SaveByRename`, `SwapForSymlink`, `Remove` | what editors and other programs do to the paths (external) |

What becomes of the fixes of a plan (they all apply and verify, some are dropped as
conflicting, verification fails) is chosen when the plan is taken up.  A path that cannot be
read, analysed or inspected, or whose edits do not apply, is a warning in `PlanFile` and
`Inspect`.  From then on `CallFails` lets every call fail: the readings of the path, the
creation of the temporary file (an error other than a name that is taken), its writing,
permissions and syncing, both final checks, the rename.  Reading, decoding and size errors have one
outcome in the code and are one step.  Once the temporary file exists, `TempFileCleanup` removes it; that
removal may fail too, which the code ignores (`let _ = remove_file`), and then the file stays.  `left` notes
the files that a crash or a failed removal left.

* `fix_race` (two processes with one run each, one path with a hard link, one foreign change, crashes and
  failing calls):
  `ReadersSeeWholeFiles`: old or new content, never a part.  `ToolsOnlyPublishVerified`: the only
  thing a run changes for other readers is the target path, and there it puts the verified
  rewrite of the text it planned from; hard links and targets of symbolic links keep their
  content.  `OverwritesOnlyInWindow`: a foreign change is overwritten only if it arrives
  between the last check and the rename.  That window is real; the code narrows it (the
  temporary file is written before the last check) but cannot close it, and the property
  fixes its exact extent.  `QUICKFIX.md:188` says that apply mode "rejects symlinked or
  late-modified inputs", which holds up to that window.
* `fix_ends` (one process, two files, crashes, failing calls and a second run under the same process id):
  `SuccessMeansFixed`: exit code success means that every file with a fix was replaced and all
  fixes verified.  `NoTempLeftBehind`: the temporary files there are are exactly the one about to be
  renamed and those in `left`, so no other error path forgets its file, and a leftover is
  neither reused nor removed by the next run.  `EveryRunEnds`: under weak fairness of each process, every
  run ends, also when leftovers occupy the temporary names.  The fairness is that of the operating
  system's scheduler; editors, crashes and failing calls get none.

Bounds.  `Attempts` 2 stands for the code's constant.  In `fix_ends` the first run can leave up to two
files (a removal that fails for each of its two paths), under the names its successor tries first: the successor
then meets one taken name and retries, or two and gives up, and both happen.  `MaxNonce` bounds
temporary names per process, `MaxEdits` the steps of editors, `MaxRuns` the runs under one process id
(one in `fix_race`, two in `fix_ends`), `Nodes` the inodes.  Deadlock is not checked: runs end.

Proved, for any number of processes, files, links, inodes, edits and crashes, every safety
property of the two runs:

* `WholeFiles` (`Spec => []ReadersSeeWholeFiles`), with the type invariant `TypeCorrect`.  The inductive
  `WholeInv` adds that the links lead to inodes of their own or shared ones, never to
  further links, and that the temporary file of a tool past its write is whole; without the
  latter a `Rename` could publish a partial one.
* `SuccessIsHonest` (`SuccessMeansFixed`) from `RunInv`: a path that is neither waiting nor
  warned about is fixed (`Settled`), and whatever is past the first checks was verified.
* `TempsCleanedUp` (`NoTempLeftBehind`) from `LeftInv`: each temporary name of a process is in use just if it is
  in `left` or the armed one, which is not in `left` (`Accounted`).  A new name was free, so it was not in
  `left`; steps of other processes and of editors touch none of these names.
* `OnlyVerifiedPublished` (`ToolsOnlyPublishVerified`) from `PublishInv`: the inode of a temporary file
  has no other name (`Private`), and a written one holds the rewrite of the planned
  text (`Prepared`).  `Private` is what makes writing invisible to others.
* `OnlyLateWorkOverwritten` (`OverwritesOnlyInWindow`) from `WindowInv`: past its last check a
  tool either has the target as it planned it, or somebody changed it since (`SeenGood`).

Assumed: rename is atomic, and names do not move: directories are not renamed.  A symlinked ancestor directory is
seen by the checks as a symbolic link at the path, and otherwise as calls, removals among them,
that fail.  File modes and power failure (as opposed to the death of a process) are left out.  The Windows variant of the replacement
follows the same protocol.

## Dashboard

`page` is the state object of `app.js` with what the document shows, `pending` the
requests in flight, `log` what the server has recorded.  A handler runs to its next `await`
without interruption, so each handler and each continuation is one action: `Connect`,
`Disconnect`, `ChangeProject`, `ChangeBranch`, `SelectRow`, `SelectFinding`, `SubmitReview`,
`RefreshHistory`, and `...Done`, `...Failed` for what follows an answer.  The server
answers at any later time (`AnswerHalf`: the two requests of a `Promise.all` are answered one
after the other, `AnswerHistory`, `AnswerSubmit`), another reviewer decides at any time
(`OtherReview`), any request may fail, and answers arrive in any order.

The page guards its continuations by five counters; only equality with the current value
matters, so a request carries the set of counters that have not moved since it was sent.

* `PageOfCurrentScope`: lists are those of the current token and project whatever is
  answered late, and nothing comes back after a disconnect.
* `LastSelectionWins`: the analysis on the page is the one selected last, in the selected project.
* `AuditOfSelected`: the audit list belongs to the review in the form and is not older.

The run `dashboard` has two situations: `scope` (two tokens, two projects, three
scopes, nobody decides) and `review` (one branch, two analyses of different
contexts, up to two decisions), both with two requests in flight: one to overtake another.
The actions do not share more than that, so the situations need not be combined.

Proved, for any number of requests in flight, tokens, projects, analyses and decisions:
`ScopeKept` (`Spec => []PageOfCurrentScope`), `LastSelectionShown` (`Spec => []LastSelectionWins`),
`AuditMatches` (`Spec => []AuditOfSelected`).  The properties speak of the page and the danger is in
the requests, so the inductive `PageInv` says what a request may still assume (`FreshFits`):
as long as the counters it compares have not moved, the token, the project, the branch, the
selected analysis or the review it was sent for are those of the page.  Each handler is then judged by
which fields it changes without advancing the counter that guards them (`Unnoticed`); no handler
does.  Two more facts are needed.  A review the page or an answer on its way holds is one
the server has recorded (`Known`), and logs only grow: hence an audit list that is
answered later is never shorter than the review in the form is old.  And only one request at a
time waits for the projects of the session (`Signing`), because a refused token logs the
page out without advancing a counter.  `NullAssumption` says that null is not a form.

Finding, run `dash_overwrite`: `NoBlindOverwrite` fails.  The findings, with the review each
shows, and the reviews of the branch, with their versions, are two requests; when a first
decision is committed between their answers, the form shows no review and submits
the new version, and the service accepts.  The conflict message promises the opposite.

Two smaller observations of the same kind have no run of their own.  When the history of a
newly chosen branch cannot be loaded, the panel is shown with the rows of the branch
before, because `hideResults` does not clear them.  And the cards of the finding list
outlive `state.findings`: until the cards of a newly selected analysis arrive, and for good
if they do not, the cards of the analysis before stand under it.

## HelperPipes, CSharpHelper, TypeScriptHelper

A child with three pipes of bounded capacity.  The child of `HelperPipes` reads and writes as
it likes, stalls and exits at any time with any status.

`CSharpHelper` is `invoke_helper` and `invoke_helper_response`: three threads, the poll
(`PollEnded`, `PollGivesUp`) against a deadline and the overflow flag, kill and wait
(`Reap`), the joins and the order in which the outcome is judged (`Return`, `Result`).
`TypeScriptHelper` is the caller that writes the whole request before it starts the threads
that read, and has no deadline; `HelperReads`, `HelperWrites`, `HelperEnds` are what
`semantic-helper.cjs` does: it reads to the end before it writes.

`Failure` groups the calls on the operating system that may fail at any time:

* `WriteFails`: the helper closed its input without reading it.
* `ReadFails`: `read_capped` ends on an error as it does at the end of the output.  The C# thread
  raises no flag and the cut output is what the caller gets; the TypeScript thread reports the
  error (`cut`).  The pipe is closed, and what the helper still writes to it is lost
  (`CloseOutput`, `ChildWritesInVain`).
* `PollFails`, `ReapFails`, `WaitFails`: a failed `try_wait` or `wait` returns through `?`, with
  the threads not joined and the child perhaps running.  The C# call then ends as `lost`.

What a child or a thread left behind does after the return is not followed (`InCall`).

* `OnlyWholeAnswersUsed`: facts are used only of a helper that got the whole request, ended by
  itself with success and whose standard output was kept to the last block, in whatever order
  exit, overflow and deadline happen between two polls, and whichever read failed.  That a cut
  output of the C# helper is not used although nothing marks it rests on its form (`IsJson`): the
  answer is one JSON object, and `serde_json::from_slice` accepts no proper prefix of an object.
* `ResourcesBounded`: no more is kept of an output than the bound; after the call of the C# helper
  the child is gone and no thread is left, unless the call ended as `lost`.
* `CallsReturn`: the C# call returns whatever the helper does.  The TypeScript call returns
  because the two never wait for each other.

Finding, run `helpers`: the bound is one per output.  `semantic.rs:106` of `hoonarqube-csharp`
says of `max_output_bytes`: "Maximum combined helper stdout/stderr retained in memory".  The call
hands the whole bound to each of the two reading threads (from line 1761), and `read_capped`
compares it with the length of its own output alone, so twice as much may be kept.  `ResourcesBounded` states what the code keeps.

Fairness: the caller, its threads and the clock; nothing of the C# helper, and no call has to
fail.  Of the TypeScript helper that it reads its request and ends once it has it, for the code
has no deadline there.  Bounds: a request longer than a pipe, outputs of exactly the bound and one
block beyond it, in blocks.  Assumed: killing a running child succeeds (the code ignores the
result and waits), and no descendant of a helper keeps its pipes open.

Proved, for every capacity of the pipes, size of the request and bound on the outputs: `CallsAreBounded`
(`Spec => []ResourcesBounded`) and `AnswersAreWhole` (`Spec => []OnlyWholeAnswersUsed`), of the calls of both helpers.  The
inductive `CallInv` says of a C# call that the caller is past its wait only when the child is gone and past
the joins only when the threads have ended, unless it lost the child: nothing is written or read from
then on, the flag can no longer be raised, and an output that was whole when the result was found
still is.  Of a TypeScript call it says that a thread which ended without a complaint has kept all
there will ever be (`EndOfFile` is stable: the child is gone).

## AnalysisCache and ProjectAnalysis

`AnalysisCache` is the directory: frames under the digest of their key and temporary files.
`ProjectAnalysis` is `analyze_project_paths` of several processes over it: `Collect` (with the
limit on kept sources), `Index` (C# types), `LoadContext`, `Spawn` (some or all threads cannot
be started), then per thread `Claim`, `Read`, `Stat`, `Open`, `Analyze`, `TryTemp`, `WriteFrame`, `SyncFrame`,
`RenameFrame` or `StoreFails`, and `Join`, which appends the outcomes of one thread to the report; the last step sorts.  The result of an analysis is the
record of everything it looked at, so a result that is equal is an analysis that is equal.
Files are edited (`Edit`), processes die (`Die`), power is lost (`PowerLoss`: what was not synced may
be torn), other programs damage entries (`Tamper`).

* `ReportIsFresh`: with or without the cache, an outcome is the analysis under this command line,
  index and context of a source that was kept or on the disk.
* `EntriesAtomic`: no death, loss of power or second writer leaves a half-written entry, no failed analysis is
  stored, and temporary files are removed unless a process died.
* `OneOutcomeEach`: one outcome for every input in the order of inputs, whichever threads started and whoever
  claimed what, within the limits on kept sources and threads.

The run `project` has three situations: `cache` (two processes, one of them under either of two command lines, one file,
one fault), `modes` (one process after the other, two C# files, two scopes and a compiler context,
one edit) and `workers` (three files, one of them TypeScript, up to three threads, every mode, one edit).  One
fault or edit is enough, since each property is about what one of them may do to one entry
or one file; the proofs below have no such bound.  That a run ends is left to the shape of its code: every loop counts.

Assumed: digests do not collide, and the executable and working directory are the same.  Three
analyzer options are not part of the options' fingerprint; they come from the embedded catalog, which the
digest of the executable covers.

Proved, for any number of processes, threads, files, contents, command lines, edits and faults, all
three: `EntriesAreAtomic`, `ReportsAreFresh`, `OneOutcomeForEach`, each from `ProjectInvariant`
(`Spec => []ProjectInv`).  None of them is inductive, and the parts of `ProjectInv` need each other:

* `FilesOK`: the entry under the digest of a key has that key and the result the key names.  A rename
  publishes what the temporary file holds, so the same is said of temporary files, and
* `StoresOK`: a thread that stores has a temporary file of its own, complete once it is past the
  write and synced once it is past the sync; the process's counter makes the names of its threads
  differ.  Without distinct names the rename of one thread could publish what another is still
  writing.
* `TempsOwned`: as long as nothing died, every temporary file belongs to a storing thread.
* `RunsOK`: the indices below the counter are each at exactly one place, in the report, in the outcomes of
  one thread or in its hands (`SharedOK`); a thread that stopped claiming left no file behind
  (`PoolOK`); every outcome is an analysis of what its file has or had (`OutcomeOK`).  When all
  threads are joined the report has each index once, and sorting gives the inputs in their order (`DoneOK`).

The assumptions are `ProjectAssumption` and `CacheAssumption`: finitely many files, no command line with a
file twice (`deduplicate_input_files`), at least one thread and one attempt at a temporary name, and the
marks for no content and for a file that cannot be read are no contents.

An observation without a run: the comment of `analyze_project_paths` says that each source is loaded
once, and `with_csharp_project_index` reads C# files again.  After an edit in between, findings
of one content use a type index of another.

## ControlFlowLowering

`emit_spec` with its stack of actions, one TLA+ action per construct and per follow-up
(`EmitFor`, `StartTestedFor`, `FinishTestedBody`, `FinishTestedStep`, ...), the frontier and
the loop contexts of `CfgBuilder`.  `ControlFlowReference` states what a description means by
recursion over its structure, without a frontier: the first place control reaches, and where it
goes from each block.  `GraphIsMeaning`: on everything that control reaches the emitted graph has exactly those
edges.  The run `lowering` takes every construct over simple parts (statement, nothing, the
three jumps) in every context, and some in every pair of contexts.

Finding, run `lowering_entry`: `LoopBackToBodyEntry` fails for bodies that begin with a construct
whose first emitted block is not the first one executed (a try with an empty protected
part and a handler; a loop that is left before its condition).  Loops take the block with the
next number for the entry of the body.  The programs of the run are endless `for` loops, of which
`spec.rs:30` speaks; the bodies of do-while loops are taken in the same way.  Such descriptions (`Blind` in `MCControlFlow`) are left
out of `lowering`; all others are in it.

## CfgReachability, CfgDominators, CfgComponents, CfgEditing

`CfgPaths` defines reachability (the least closed set), domination (no way around) and
cycles without an algorithm.  The other modules are the functions of `cfg.rs` step by step,
with lists taken in any order: the depth-first search, reverse post order and the
iteration for immediate dominators with its two fingers and intervals, the two passes for
components, and `add_edge`, `remove_edge`, `append_node`, `into_reachable_subgraph` on lists that mirror
each other.

* `SeenIsReach`, `DominatorsCorrect`, `ComponentsCorrect`: the answers are those of the
  definitions.  `DominatorsCorrect` contains what the code relies on while it iterates: the fingers always
  meet (its `expect` never fails), and every intermediate idom is below the true dominators.
* `EdgesMirrored`: both lists agree after any changes, and the exit keeps the number 1.  `PruneKeepsMeaning`: pruning keeps edges,
  ways, dominators and cycles of what can be reached, and pruning again would change nothing.
* `CallsEnd`: under weak fairness of the loops, on cycles and in irreducible graphs too.

Finding, run `cfg`: the comment of `into_reachable_subgraph` (`cfg.rs:240`) says that "the exit's id may
shift when unreachable blocks preceded it".  It never does: only the entry has a lower number, and
the entry is kept.  `cfg.rs:29` ("Blocks `0` and `1` are always the entry and the exit"), `cfg.rs:73`
and the test at `cfg.rs:807` say what the code does, and `EdgesMirrored` states it.

The run `cfg` takes graphs of four blocks: with two successors at most (search, components), all
without self loops (dominators), and all changes with up to four blocks ever and four edges.  Irreducible
graphs need three blocks besides the entry at most.  A round of the iteration that a
later one corrects happens with four blocks.

Proved in `CfgProofs`, for every finite set of blocks, every graph and every order of its lists,
are all the safety properties of the run.  `GraphAssumption` says that the blocks are finitely many
and that None is not one of them, `BlocksAssumption` that graphs are over the blocks.  Ways are never
taken apart by their length: what is said of them goes by closed sets (whatever holds at a block and passes
along edges holds of all it reaches), or by the least or last block of an order with some property.

* `SearchIsReach`, `SearchTyped`.  The inductive `SearchInv` adds to types that every successor of
  a seen block is seen, or that block is on the stack or being looked at (`SeenClosing`), and that
  every closed set with the entry holds what is seen (`SeenReached`).  When the stack is empty the
  seen blocks are closed, hence the least closed set.
* `EdgesAreMirrored`, `PruningKeepsMeaning`, for any number of blocks and edges.  `EditInv` adds that payloads
  differ (`PayloadsOK`).  Renumbering is shown to be a bijection from the kept blocks to an initial
  part of the numbers that keeps 0 and 1 where they are, and a renumbered list to hold each of its blocks once.  The
  pruned graph is then the old one under new names on a closed part (`Alike`), and names do not
  matter to ways, dominators and cycles.
* `ComponentsAreCorrect`.  `WalkOK` is what a walk in depth keeps: frames lead to each other, and successors of
  finished blocks were met.  `FinishOK` is the heart of Kosaraju's argument: of a finished block
  either a block of its own component is still open, or each block it reaches was finished no later than some
  block of its component.  In the second pass `LabelsOK` says that labelled components are
  closed under predecessors, so a new one never runs into an old one.
* `DominatorsAreCorrect`, in three phases (`DominatorsInv`).  The order has for each block but the entry a
  predecessor before it (`LinksOK`, `OrderOK`), so strict dominators of a block stand before it.  During
  the iteration the idoms are a tree towards the entry along the order, and a true dominator of a block also
  dominates or is its present idom (`TreeOK`): the iteration errs on one side only.  While two fingers climb, no true dominator of
  the block is passed (`Stands`): when one finger is further on in the order than the other, it is not a
  dominator of the other and so not one of the block, and to leave it is safe.  Both fingers have idoms, which is
  the code's `expect`.  A round without changes leaves each idom an ancestor of all predecessors
  (`Stable`), and then the ancestors of a block are closed off from every way around them: they dominate
  (`TreeDominates`), also in irreducible graphs.  Last, the
  intervals of the walk through the tree are nested exactly as its branches are (`Inside`, `Apart`), and the
  clock counts the stamps given (`Counted`), which bounds it by two for each block.

For the proof the two fingers move one step at a time (`ClimbA`, `ClimbB`, `Meet`), as the inner loops of
`intersect` do.

## Only model-checked

Every invariant and action property of the passing runs is a theorem, with one exception.
`GraphIsMeaning` of the lowering compares an emitted graph with what a description means by recursion over its
structure; what a recursive operator computes for every input needs induction over data, which the
installed provers cannot do.  The run takes every construct in every context instead.

Liveness under fairness (`Terminates`, `EveryRunEnds`, `CallsReturn`, `CallsEnd`) is out of the prover's reach.  What the proofs
do give towards it are bounds: the solver's queue and the search's stack are never longer than the graph,
idoms always lead backwards in the order, claims are bounded by files and threads.

## Not modelled

* Rule packs, by far most of the lines of the repository: each rule is a pure function of one
  parsed file, without state or order, and its meaning is that of the catalog it follows. A model of a
  rule would be the rule again. For that reason the map covers a small share of all lines, although it covers the stateful
  parts.
* Parsers of coverage formats, globs and the directory walk, report output, catalog, benchmark, xtask,
  oracle and release tooling: string processing, data, or not part of the product.
* Duplication, baseline classification, gates and totals: pure functions whose definition is their
  specification, apart from budgets.
* Tokens, roles, request limits and pagination of the service; rollback of a SQLite
  transaction is trusted; two processes on one database file (a UNIQUE constraint turns the race of
  `insert_analysis` into an error); review versions beyond 63 bits.
* What the compilers behind the helpers find, and how facts become findings.

## Plan

Done: the modules above, and the proofs of the store with its refinement, of both parts of `fix`, of
the dashboard, of the helpers' calls, of the cache and the project analysis, of the solver and of the algorithms on
graphs.  What could follow: termination of the dominator iteration by a measure (each change moves an idom towards the
entry), once provers for liveness are at hand; budgets of the duplication search; a model of the
directory walk beside editors.
