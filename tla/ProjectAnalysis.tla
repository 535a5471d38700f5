--------------------------- MODULE ProjectAnalysis --------------------------
(***************************************************************************)
(* The project path of `hoonarqube analyze` (analyze_project_paths): the   *)
(* inputs are collected, some are read and kept, the C# type index and the *)
(* compiler contexts are built, and a pool of threads claims files from a  *)
(* counter, each looking into the cache before it analyses and storing     *)
(* what it found.  Several processes may share the cache, files may be     *)
(* edited at any time, and processes may die.                              *)
(*                                                                         *)
(* An analysis is a function of what it looks at: its result is the record *)
(* of those inputs.  The working directory and the executable are the same *)
(* in all of the processes.                                                *)
(***************************************************************************)
EXTENDS AnalysisCache, Sequences, FiniteSets, Functions

CONSTANTS
    Pids,             \* processes
    Files,            \* numbers, in the order of their paths
    CSharpFiles,
    JsTsFiles,        \* JavaScript and TypeScript
    Contents,         \* what a readable file may hold
    Broken,           \* the contents whose analysis ends in an error
    Unreadable,       \* a file that cannot be read, or is too large
    CommandLines,     \* [inputs, profile, tests, mode, cache]
    Parallelism,      \* available_parallelism
    MaxRetained,      \* MAX_RETAINED_SOURCE_BYTES, in files
    MaxEdits,         \* bound: edits of files
    MaxFaults,        \* bound: deaths, losses of power and damages
    None

(* deduplicate_input_files: no command line has a file twice. *)
ASSUME ProjectAssumption ==
    /\ Files \subseteq Nat /\ IsFiniteSet(Files)
    /\ CSharpFiles \subseteq Files /\ JsTsFiles \subseteq Files
    /\ Broken \subseteq Contents /\ Unreadable \notin Contents /\ None \notin Contents
    /\ \A o \in CommandLines :
          /\ o.inputs \in Seq(Files) /\ IsInjective(o.inputs)
          /\ o.cache \in BOOLEAN
    /\ Parallelism \in Nat \ {0}
    /\ {MaxRetained, MaxEdits, MaxFaults} \subseteq Nat

(* plain: no sources are kept; auto: those with a tsconfig.json, if they can *)
(* be; assessment and semantic: all of them must be.                         *)
Modes == {"plain", "auto", "assessment", "semantic"}

Caller == 0
Workers == 0 .. Parallelism

VARIABLES
    disk,      \* what each file holds
    run,       \* of each process, what it has established
    worker,    \* of each process and thread, where it stands
    nonce,     \* NEXT_TEMP of each process
    edits, faults

vars == <<directory, disk, run, worker, nonce, edits, faults>>

Off == [phase |-> "off"]

Idle == [at |-> "absent", i |-> 0, content |-> None, length |-> None, tries |-> 0, nonce |-> 0,
         outcomes |-> <<>>]

Init ==
    /\ CacheInit
    /\ disk \in [Files -> Contents]
    /\ run = [p \in Pids |-> Off]
    /\ worker = [p \in Pids |-> [w \in Workers |-> Idle]]
    /\ nonce = [p \in Pids |-> 0]
    /\ edits = 0 /\ faults = 0

-----------------------------------------------------------------------------
(* Collection, in one thread. *)
Begin(p) ==
    /\ run[p].phase = "off"
    /\ \E o \in CommandLines :
          run' = [run EXCEPT ![p] =
              [phase |-> "collect", options |-> o, at |-> 1, complete |-> TRUE, pending |-> <<>>,
               failed |-> {}, index |-> None, context |-> None, cached |-> FALSE, next |-> 1,
               report |-> <<>>]]
    /\ nonce' = [nonce EXCEPT ![p] = 0]
    /\ UNCHANGED <<directory, disk, worker, edits, faults>>

RetainSources(r) == r.options.mode \in {"assessment", "semantic"}
Opportunistic(r) == r.options.mode = "auto"
(* The files that the walk finds, in the order of their paths. *)
Inputs(r) == r.options.inputs

Retained(r) == {i \in DOMAIN r.pending : r.pending[i].source # None}

(* collect_project_input and collect_retained_project_input *)
Collect(p) ==
    LET r == run[p]
        f == Inputs(r)[r.at]
        c == disk[f]
        pend(source) == Append(r.pending, [file |-> f, source |-> source])
        keep == RetainSources(r) \/ (Opportunistic(r) /\ f \in JsTsFiles)
        fits == c \in Contents /\ Cardinality(Retained(r)) < MaxRetained
    IN  /\ r.phase = "collect"
        /\ r.at \in DOMAIN Inputs(r)
        /\ run' = [run EXCEPT ![p] =
              IF keep /\ fits THEN [@ EXCEPT !.at = r.at + 1, !.pending = pend(c)]
              ELSE IF keep /\ ~Opportunistic(r)
              THEN [@ EXCEPT !.at = r.at + 1, !.complete = FALSE, !.failed = r.failed \cup {f}]
              ELSE [@ EXCEPT !.at = r.at + 1, !.pending = pend(None)]]
        /\ UNCHANGED <<directory, disk, worker, nonce, edits, faults>>

(* with_csharp_project_index reads the C# inputs once more; files that       *)
(* cannot be read are left out, and fewer than two make no index.            *)
CSharpInputs(r) == {i \in DOMAIN r.pending : r.pending[i].file \in CSharpFiles}

CollectDone(p) ==
    /\ run[p].phase = "collect" /\ run[p].at \notin DOMAIN Inputs(run[p])
    /\ run' = [run EXCEPT ![p] =
          IF Cardinality(CSharpInputs(run[p])) < 2
          THEN [@ EXCEPT !.phase = "context"]
          ELSE [@ EXCEPT !.phase = "index", !.at = 1, !.index = <<>>]]
    /\ UNCHANGED <<directory, disk, worker, nonce, edits, faults>>

Index(p) ==
    LET r == run[p]
        f == r.pending[r.at].file
    IN  /\ r.phase = "index"
        /\ IF r.at \in DOMAIN r.pending
           THEN run' = [run EXCEPT ![p] =
                    IF r.at \in CSharpInputs(r) /\ disk[f] \in Contents
                    THEN [@ EXCEPT !.at = r.at + 1, !.index = With(r.index, f, disk[f])]
                    ELSE [@ EXCEPT !.at = r.at + 1]]
           ELSE run' = [run EXCEPT ![p] =
                    [@ EXCEPT !.phase = "context",
                              !.index = IF Cardinality(DOMAIN r.index) < 2 THEN None ELSE r.index]]
        /\ UNCHANGED <<directory, disk, worker, nonce, edits, faults>>

(* load_project_semantic_context builds the contexts from the sources that   *)
(* were kept, or fails; project_cache decides whether the cache is used.     *)
Sources(r) ==
    [f \in {r.pending[i].file : i \in Retained(r)} |->
        r.pending[CHOOSE i \in Retained(r) : r.pending[i].file = f].source]

LoadContext(p) ==
    LET mode == run[p].options.mode
        wanted == mode = "semantic" \/ (mode = "auto" /\ Retained(run[p]) # {})
        possible == wanted /\ (mode = "semantic" => run[p].complete)
    IN  /\ run[p].phase = "context"
        /\ \E loaded \in {possible, FALSE} :
              run' = [run EXCEPT ![p] =
                  [@ EXCEPT !.phase = "spawn",
                            !.context = IF loaded THEN Sources(run[p]) ELSE None,
                            !.cached = /\ run[p].options.cache /\ run[p].complete
                                       /\ mode = "semantic" => loaded]]
        /\ UNCHANGED <<directory, disk, worker, nonce, edits, faults>>

-----------------------------------------------------------------------------
(* analyze_project_files.  Threads are started until there are enough or     *)
(* one cannot be; the caller joins in unless a JavaScript or TypeScript file *)
(* asks for the larger stack of a started thread.                            *)
Pending(r) == Len(r.pending)
RequiresJstsStack(r) == \E i \in DOMAIN r.pending : r.pending[i].file \in JsTsFiles
WorkerCount(r) == IF Parallelism < Pending(r) THEN Parallelism ELSE Pending(r)
BackgroundWorkers(r) ==
    IF WorkerCount(r) <= 1 THEN (IF RequiresJstsStack(r) THEN 1 ELSE 0)
    ELSE IF RequiresJstsStack(r) THEN WorkerCount(r) ELSE WorkerCount(r) - 1

Started(threads) == {w \in Workers \ {Caller} : threads[w].at # "absent"}

Ready == [Idle EXCEPT !.at = "claim"]

Spawn(p) ==
    /\ run[p].phase = "spawn"
    /\ Cardinality(Started(worker[p])) < BackgroundWorkers(run[p])
    /\ worker' = [worker EXCEPT ![p][Cardinality(Started(worker[p])) + 1] = Ready]
    /\ UNCHANGED <<directory, disk, run, nonce, edits, faults>>

(* Mutant: the caller leaves JavaScript and TypeScript to the threads, also  *)
(* if there are none.                                                        *)
SpawnDoneLeavingWork(p) ==
    /\ run[p].phase = "spawn"
    /\ run' = [run EXCEPT ![p] = [@ EXCEPT !.phase = "work"]]
    /\ worker' = [worker EXCEPT ![p][Caller] =
          IF RequiresJstsStack(run[p]) THEN [Ready EXCEPT !.at = "ended"] ELSE Ready]
    /\ UNCHANGED <<directory, disk, nonce, edits, faults>>

SpawnDone(p) ==
    /\ run[p].phase = "spawn"
    /\ run' = [run EXCEPT ![p] = [@ EXCEPT !.phase = "work"]]
    /\ worker' = [worker EXCEPT ![p][Caller] =
          IF RequiresJstsStack(run[p]) /\ Started(worker[p]) # {}
          THEN [Ready EXCEPT !.at = "ended"]
          ELSE Ready]
    /\ UNCHANGED <<directory, disk, nonce, edits, faults>>

-----------------------------------------------------------------------------
(* analyze_project_pending: fetch_add, until the counter is past the end. *)
Step(p, w, new) ==
    /\ worker' = [worker EXCEPT ![p][w] = new]
    /\ UNCHANGED <<disk, edits, faults>>

At(p, w, station) == worker[p][w].at = station

Claim(p, w) ==
    /\ At(p, w, "claim")
    /\ Step(p, w, IF run[p].next <= Pending(run[p])
                  THEN [worker[p][w] EXCEPT !.at = "read", !.i = run[p].next]
                  ELSE [worker[p][w] EXCEPT !.at = "ended"])
    /\ run' = [run EXCEPT ![p] = [@ EXCEPT !.next = run[p].next + 1]]
    /\ UNCHANGED <<directory, nonce>>

(* The inputs of the analysis of the i-th file of a run r with content c. *)
Analysis(r, i, c) ==
    LET f == r.pending[i].file
    IN  [path |-> f, content |-> c, profile |-> r.options.profile, test |-> f \in r.options.tests,
         index |-> r.index, context |-> r.context]

(* Mutant: the classification is not part of the key. *)
KeyOfAnyScope(r, i, c) ==
    [analysis |-> [Analysis(r, i, c) EXCEPT !.test = FALSE], scope |-> None]

(* key: with the digests of the source, of the options (profile and type     *)
(* index) and of the contexts.  An assessment adds its scope.                *)
Key(r, i, c) ==
    [analysis |-> Analysis(r, i, c), scope |-> IF RetainSources(r) THEN r.options.tests ELSE None]

MyAnalysis(p, w) == Analysis(run[p], worker[p][w].i, worker[p][w].content)
MyKey(p, w) == Key(run[p], worker[p][w].i, worker[p][w].content)

Finish(p, w, result, error) ==
    LET me == worker[p][w]
        outcome == [i |-> me.i, file |-> run[p].pending[me.i].file, result |-> result, error |-> error]
    IN  Step(p, w, [Ready EXCEPT !.outcomes = Append(me.outcomes, outcome)])

(* read_and_analyze_project: from the sources kept, or from the disk. *)
Read(p, w) ==
    LET i == worker[p][w].i
        kept == run[p].pending[i].source
        c == IF kept # None THEN kept ELSE disk[run[p].pending[i].file]
    IN  /\ At(p, w, "read")
        /\ IF c \notin Contents THEN Finish(p, w, None, TRUE)
           ELSE Step(p, w, [worker[p][w] EXCEPT !.at = IF run[p].cached THEN "stat" ELSE "analyze",
                                                !.content = c])
        /\ UNCHANGED <<directory, run, nonce>>

Stat(p, w) ==
    /\ At(p, w, "stat")
    /\ Step(p, w, IF MyKey(p, w) \in DOMAIN entries
                  THEN [worker[p][w] EXCEPT !.at = "open", !.length = Length(entries[MyKey(p, w)])]
                  ELSE [worker[p][w] EXCEPT !.at = "analyze"])
    /\ UNCHANGED <<directory, run, nonce>>

Open(p, w) ==
    LET me == worker[p][w]
    IN  /\ At(p, w, "open")
        /\ IF Hit(MyKey(p, w), me.length)
           THEN Finish(p, w, entries[MyKey(p, w)].result, FALSE)
           ELSE Step(p, w, [me EXCEPT !.at = "analyze", !.length = None])
        /\ UNCHANGED <<directory, run, nonce>>

Analyze(p, w) ==
    LET me == worker[p][w]
    IN  /\ At(p, w, "analyze")
        /\ IF ~run[p].cached \/ me.content \in Broken
           THEN Finish(p, w, MyAnalysis(p, w), me.content \in Broken)
           ELSE Step(p, w, [me EXCEPT !.at = "create"])
        /\ UNCHANGED <<directory, run, nonce>>

-----------------------------------------------------------------------------
(* store, whose failures do not matter to the analysis. *)
Stored(p, w) == Finish(p, w, MyAnalysis(p, w), worker[p][w].content \in Broken)

MyTemp(p, w) == TempName(MyKey(p, w), p, worker[p][w].nonce)

(* unique_temp_path, one attempt at a time. *)
TryTemp(p, w) ==
    LET me == worker[p][w]
        name == TempName(MyKey(p, w), p, nonce[p])
    IN  /\ At(p, w, "create")
        /\ nonce' = [nonce EXCEPT ![p] = @ + 1]
        /\ \/ /\ Create(name, Frame(MyKey(p, w), MyAnalysis(p, w)))
              /\ Step(p, w, [me EXCEPT !.at = "write", !.nonce = nonce[p]])
           \/ /\ IF me.tries + 1 < TempAttempts
                 THEN Step(p, w, [me EXCEPT !.tries = @ + 1])
                 ELSE Stored(p, w)
              /\ UNCHANGED directory
        /\ UNCHANGED run

WriteFrame(p, w) ==
    /\ At(p, w, "write")
    /\ Write(MyTemp(p, w))
    /\ Step(p, w, [worker[p][w] EXCEPT !.at = "sync"])
    /\ UNCHANGED <<run, nonce>>

SyncFrame(p, w) ==
    /\ At(p, w, "sync")
    /\ Sync(MyTemp(p, w))
    /\ Step(p, w, [worker[p][w] EXCEPT !.at = "rename"])
    /\ UNCHANGED <<run, nonce>>

RenameFrame(p, w) ==
    /\ At(p, w, "rename")
    /\ Rename(MyTemp(p, w))
    /\ Stored(p, w)
    /\ UNCHANGED <<run, nonce>>

StoreFails(p, w) ==
    /\ worker[p][w].at \in {"write", "sync", "rename"}
    /\ Remove(MyTemp(p, w))
    /\ Stored(p, w)
    /\ UNCHANGED <<run, nonce>>

-----------------------------------------------------------------------------
(* The caller takes its own outcomes and joins the threads in the order they *)
(* were started; at last it sorts the outcomes by their index.               *)
Join(p, w) ==
    /\ run[p].phase = "work"
    /\ At(p, w, "ended")
    /\ \A v \in 0 .. w - 1 : worker[p][v].at \in {"absent", "joined"}
    /\ run' = [run EXCEPT ![p] = [@ EXCEPT !.report = run[p].report \o worker[p][w].outcomes]]
    /\ Step(p, w, [Idle EXCEPT !.at = "joined"])
    /\ UNCHANGED <<directory, nonce>>

SortedByIndex(outcomes) ==
    LET places == DOMAIN outcomes
        order == CHOOSE f \in [places -> places] :
                    /\ IsInjective(f)
                    /\ \A j, k \in places : j < k => outcomes[f[j]].i <= outcomes[f[k]].i
    IN  [k \in places |-> outcomes[order[k]]]

Report(p) ==
    /\ run[p].phase = "work"
    /\ \A w \in Workers : worker[p][w].at \in {"absent", "joined"}
    /\ run' = [run EXCEPT ![p] = [@ EXCEPT !.phase = "done", !.report = SortedByIndex(run[p].report)]]
    /\ worker' = [worker EXCEPT ![p] = [w \in Workers |-> Idle]]
    /\ UNCHANGED <<directory, disk, nonce, edits, faults>>

(* The report is written and the process ends. *)
Exit(p) ==
    /\ run[p].phase = "done"
    /\ run' = [run EXCEPT ![p] = Off]
    /\ UNCHANGED <<directory, disk, worker, nonce, edits, faults>>

-----------------------------------------------------------------------------
(* The world around the processes. *)
Edit ==
    /\ edits < MaxEdits
    /\ \E f \in Files, c \in Contents \cup {Unreadable} : c # disk[f] /\ disk' = [disk EXCEPT ![f] = c]
    /\ edits' = edits + 1
    /\ UNCHANGED <<directory, run, worker, nonce, faults>>

Dead(ps) ==
    /\ run' = [p \in Pids |-> IF p \in ps THEN Off ELSE run[p]]
    /\ worker' = [p \in Pids |-> IF p \in ps THEN [w \in Workers |-> Idle] ELSE worker[p]]

Die(p) ==
    /\ faults < MaxFaults
    /\ run[p].phase # "off"
    /\ Dead({p})
    /\ faults' = faults + 1
    /\ UNCHANGED <<directory, disk, nonce, edits>>

PowerLoss ==
    /\ faults < MaxFaults
    /\ LosePower
    /\ Dead(Pids)
    /\ faults' = faults + 1
    /\ UNCHANGED <<disk, nonce, edits>>

Tamper ==
    /\ faults < MaxFaults
    /\ Damage
    /\ faults' = faults + 1
    /\ UNCHANGED <<disk, run, worker, nonce, edits>>

Prepare(p) == Collect(p) \/ CollectDone(p) \/ Index(p) \/ LoadContext(p) \/ SpawnDone(p)

Work(p, w) ==
    \/ Claim(p, w) \/ Read(p, w) \/ Stat(p, w) \/ Open(p, w) \/ Analyze(p, w)
    \/ TryTemp(p, w) \/ WriteFrame(p, w) \/ SyncFrame(p, w) \/ RenameFrame(p, w) \/ StoreFails(p, w)

ProcessMoves(p) ==
    \/ Begin(p) \/ Prepare(p) \/ Spawn(p) \/ Report(p) \/ Exit(p) \/ Die(p)
    \/ \E w \in Workers : Work(p, w) \/ Join(p, w)

Next == (\E p \in Pids : ProcessMoves(p)) \/ Edit \/ PowerLoss \/ Tamper

Spec == Init /\ [][Next]_vars

-----------------------------------------------------------------------------
(* The stations of each process, with the limits of collection and pool. *)
TypeOK ==
    /\ disk \in [Files -> Contents \cup {Unreadable}]
    /\ \A key \in DOMAIN entries : entries[key].state \in FrameStates
    /\ \A p \in Pids :
          /\ run[p].phase \in {"off", "collect", "index", "context", "spawn", "work", "done"}
          /\ run[p].phase # "off" =>
                /\ run[p].options \in CommandLines
                /\ Pending(run[p]) <= Cardinality(Files)
                /\ Cardinality(Retained(run[p])) <= MaxRetained
                /\ run[p].next \in 1 .. Pending(run[p]) + Parallelism + 2
                /\ Cardinality(Started(worker[p])) <= Parallelism

(* The report has one outcome for every input, in the order of the inputs,   *)
(* whichever threads could be started and whoever claimed what; no input is  *)
(* both refused and analysed.  On the way the limits on kept sources and on  *)
(* threads hold.                                                             *)
OneOutcomeEach ==
    /\ TypeOK
    /\ \A p \in Pids : run[p].phase = "done" =>
          LET r == run[p]
              reported == {r.report[i].file : i \in 1 .. Pending(r)}
          IN  /\ Len(r.report) = Pending(r)
              /\ \A i \in 1 .. Pending(r) : r.report[i].i = i
              /\ {Inputs(r)[i] : i \in DOMAIN Inputs(r)} = r.failed \cup reported
              /\ Cardinality(r.failed) + Pending(r) = Len(Inputs(r))

(* With or without the cache a file's outcome is the analysis, under this    *)
(* command line, with this type index and these contexts, of the source that *)
(* was kept, or of one that was on the disk; an analysis that ended in an    *)
(* error never comes from the cache.                                         *)
ReportIsFresh ==
    \A p \in Pids : run[p].phase = "done" =>
        \A i \in DOMAIN run[p].report :
            LET o == run[p].report[i]
                kept == run[p].pending[o.i].source
            IN  o.result # None =>
                    /\ o.result = Analysis(run[p], o.i, o.result.content)
                    /\ o.error = (o.result.content \in Broken)
                    /\ kept # None => o.result.content = kept
                    /\ edits = 0 => o.result.content = disk[o.file]

(* "Writes are best-effort and atomic": no process and no loss of power      *)
(* leaves an entry of which not all is there, an analysis that failed is not *)
(* in an entry, and unless a process has died only a thread that is storing  *)
(* has a temporary file.                                                     *)
EntriesAtomic ==
    /\ \A key \in DOMAIN entries : entries[key].state # "torn" /\ entries[key].result.content \notin Broken
    /\ faults = 0 => \A name \in DOMAIN temps :
          \E p \in Pids, w \in Workers :
              worker[p][w].at \in {"write", "sync", "rename"} /\ MyTemp(p, w) = name
=============================================================================
