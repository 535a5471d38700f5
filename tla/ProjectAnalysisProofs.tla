------------------------ MODULE ProjectAnalysisProofs -----------------------
(* Proofs about ProjectAnalysis: what its processes hold at every moment,    *)
(* that nothing half written or wrong is ever in the cache, and that a       *)
(* report is complete, in order, and what an analysis without the cache      *)
(* would have said.                                                          *)
EXTENDS ProjectAnalysis, Integers, FiniteSetTheorems, TLAPS

-----------------------------------------------------------------------------
(* The types. *)
Phases == {"collect", "index", "context", "spawn", "work", "done"}
Holding == {"stat", "open", "analyze", "create", "write", "sync", "rename"}
Busy == {"read"} \cup Holding
Storing == {"write", "sync", "rename"}
Past == {"ended", "joined"}
Stations == {"absent", "claim"} \cup Busy \cup Past

Profiles == {o.profile : o \in CommandLines}
Scopes == {None} \cup {o.tests : o \in CommandLines}
SourceMaps == UNION {[S -> Contents] : S \in SUBSET Files}
Results == [path : Files, content : Contents, profile : Profiles, test : BOOLEAN,
            index : {None} \cup SourceMaps, context : {None} \cup SourceMaps]
Keys == [analysis : Results, scope : Scopes]
Frames == [key : Keys, result : Results, state : FrameStates, synced : BOOLEAN]
Lengths == Keys \X Results \X BOOLEAN
Outcomes == [i : Nat, file : Files, result : {None} \cup Results, error : BOOLEAN]
PendingFiles == [file : Files, source : {None} \cup Contents]

Runs == [phase : Phases, options : CommandLines, at : Nat, complete : BOOLEAN,
         pending : Seq(PendingFiles), failed : SUBSET Files,
         index : {None} \cup SourceMaps, context : {None} \cup SourceMaps,
         cached : BOOLEAN, next : Nat, report : Seq(Outcomes)]

Threads == [at : Stations, i : Nat, content : {None} \cup Contents, length : {None} \cup Lengths,
            tries : Nat, nonce : Nat, outcomes : Seq(Outcomes)]

-----------------------------------------------------------------------------
(* The invariant of a run r and its threads, when the files are d and have   *)
(* been edited e times.                                                      *)

(* Each input seen so far is either kept for analysis or refused. *)
Seen(r) == IF r.phase = "collect" THEN r.at - 1 ELSE Len(Inputs(r))

CollectedOK(r) ==
    /\ Seen(r) \in 0 .. Len(Inputs(r))
    /\ IsFiniteSet(r.failed)
    /\ Cardinality(r.failed) + Len(r.pending) = Seen(r)
    /\ {Inputs(r)[j] : j \in 1 .. Seen(r)} = r.failed \cup {r.pending[i].file : i \in DOMAIN r.pending}
    /\ \A i, j \in DOMAIN r.pending : r.pending[i].file = r.pending[j].file => i = j
    /\ Cardinality(Retained(r)) <= MaxRetained

(* c is what the i-th file of r has, or had. *)
SourceOf(r, i, c, d, e) ==
    /\ c \in Contents
    /\ r.pending[i].source # None => c = r.pending[i].source
    /\ e = 0 => c = d[r.pending[i].file]

KeptOK(r, d, e) ==
    \A i \in DOMAIN r.pending : r.pending[i].source # None => SourceOf(r, i, r.pending[i].source, d, e)

PhaseOK(r) ==
    /\ r.phase \in {"collect", "index", "context"} => r.next = 1
    /\ r.phase = "index" => r.at \in Nat \ {0} /\ r.index \in SourceMaps
    /\ r.phase \in {"collect", "index", "context", "spawn"} => r.report = <<>>

(* An outcome of r is an analysis of one of its files. *)
OutcomeOK(r, o, d, e) ==
    /\ o.i \in DOMAIN r.pending
    /\ o.file = r.pending[o.i].file
    /\ o.result # None =>
          /\ o.result = Analysis(r, o.i, o.result.content)
          /\ o.error = (o.result.content \in Broken)
          /\ SourceOf(r, o.i, o.result.content, d, e)

ThreadOK(r, me, d, e) ==
    /\ me.at \in Busy => me.i \in DOMAIN r.pending
    /\ me.at \in Holding => SourceOf(r, me.i, me.content, d, e)
    /\ me.at \in {"create"} \cup Storing => me.content \notin Broken
    /\ me.at \in {"absent", "joined"} => me.outcomes = <<>>
    /\ \A k \in DOMAIN me.outcomes : OutcomeOK(r, me.outcomes[k], d, e)

ReportOK(r, d, e) == \A k \in DOMAIN r.report : OutcomeOK(r, r.report[k], d, e)

(* The indices that were claimed are each at one place. *)
Indices(s) == {s[k].i : k \in DOMAIN s}
NoRepeats(s) == \A k, l \in DOMAIN s : s[k].i = s[l].i => k = l
AtWork(me) == IF me.at \in Busy THEN {me.i} ELSE {}
Held(me) == Indices(me.outcomes) \cup AtWork(me)
Claimed(r) == {i \in DOMAIN r.pending : i < r.next}

SharedOK(r, threads) ==
    /\ NoRepeats(r.report)
    /\ \A w \in Workers :
          /\ NoRepeats(threads[w].outcomes)
          /\ Indices(threads[w].outcomes) \cap AtWork(threads[w]) = {}
          /\ Indices(r.report) \cap Held(threads[w]) = {}
    /\ \A w, v \in Workers : w # v => Held(threads[w]) \cap Held(threads[v]) = {}
    /\ Indices(r.report) \subseteq Claimed(r)
    /\ \A w \in Workers : Held(threads[w]) \subseteq Claimed(r)
    /\ \A i \in Claimed(r) : i \in Indices(r.report) \/ \E w \in Workers : i \in Held(threads[w])

(* Whoever stopped claiming left no file, the caller if it has threads. *)
PastIn(threads) == {w \in Workers : threads[w].at \in Past}

PoolOK(r, threads) ==
    /\ r.phase \notin {"spawn", "work"} => threads = [w \in Workers |-> Idle]
    /\ r.phase = "spawn" =>
          /\ threads[Caller] = Idle
          /\ \E n \in 0 .. Parallelism : Started(threads) = 1 .. n
    /\ r.phase = "work" => threads[Caller].at # "absent"
    /\ \A w \in Workers \ {Caller} : threads[w].at \in Past => r.next > Len(r.pending)
    /\ threads[Caller].at \in Past => r.next > Len(r.pending) \/ Started(threads) # {}
    /\ r.next >= 1
    /\ r.next <= Len(r.pending) + Parallelism + 2
    /\ r.phase # "done" => r.next <= Len(r.pending) + 1 + Cardinality(PastIn(threads))

DoneOK(r) ==
    r.phase = "done" =>
        /\ Len(r.report) = Len(r.pending)
        /\ \A i \in DOMAIN r.report : r.report[i].i = i

RunOK(r, threads, d, e) ==
    /\ r \in Runs
    /\ CollectedOK(r)
    /\ KeptOK(r, d, e)
    /\ PhaseOK(r)
    /\ ReportOK(r, d, e)
    /\ \A w \in Workers : ThreadOK(r, threads[w], d, e)
    /\ SharedOK(r, threads)
    /\ PoolOK(r, threads)
    /\ DoneOK(r)

-----------------------------------------------------------------------------
(* The invariant of the directory. *)
FrameOK(frame) == frame \in Frames /\ frame.result = frame.key.analysis /\ frame.result.content \notin Broken

FilesOK ==
    /\ entries = [key \in DOMAIN entries |-> entries[key]]
    /\ temps = [name \in DOMAIN temps |-> temps[name]]
    /\ \A key \in DOMAIN entries :
          FrameOK(entries[key]) /\ entries[key].state # "torn" /\ entries[key].synced
    /\ \A name \in DOMAIN temps : FrameOK(temps[name])

(* A thread that stores has its own temporary file, in the state its station *)
(* asks for, and no other thread of its process has its number.              *)
NameOf(p, r, me) == TempName(Key(r, me.i, me.content), p, me.nonce)

StoreOK(files, n, p, r, threads, w) ==
    LET me == threads[w]
        name == NameOf(p, r, me)
    IN  me.at \in Storing =>
            /\ name \in DOMAIN files
            /\ me.nonce < n
            /\ me.at # "write" => files[name].state = "whole"
            /\ me.at = "rename" => files[name].synced
            /\ \A v \in Workers \ {w} : threads[v].at \in Storing => threads[v].nonce # me.nonce

StoresOK == \A p \in Pids, w \in Workers : StoreOK(temps, nonce[p], p, run[p], worker[p], w)

Owns(p, r, me, name) == me.at \in Storing /\ NameOf(p, r, me) = name

TempsOwned ==
    faults = 0 => \A name \in DOMAIN temps :
        \E p \in Pids, w \in Workers : Owns(p, run[p], worker[p][w], name)

Typed ==
    /\ disk \in [Files -> Contents \cup {Unreadable}]
    /\ nonce \in [Pids -> Nat]
    /\ edits \in Nat /\ faults \in Nat
    /\ run = [p \in Pids |-> run[p]]
    /\ worker \in [Pids -> [Workers -> Threads]]

RunsOK ==
    \A p \in Pids :
        IF run[p].phase = "off"
        THEN run[p] = Off /\ worker[p] = [w \in Workers |-> Idle]
        ELSE RunOK(run[p], worker[p], disk, edits)

ProjectInv == Typed /\ FilesOK /\ RunsOK /\ StoresOK /\ TempsOwned

-----------------------------------------------------------------------------
(* Fields of records. *)
LEMMA RunFields ==
    ASSUME NEW r \in Runs
    PROVE  /\ r.phase \in Phases /\ r.options \in CommandLines /\ r.at \in Nat
           /\ r.pending \in Seq(PendingFiles) /\ r.failed \subseteq Files
           /\ r.next \in Nat /\ r.report \in Seq(Outcomes)
           /\ r.complete \in BOOLEAN /\ r.cached \in BOOLEAN
           /\ r.index \in {None} \cup SourceMaps /\ r.context \in {None} \cup SourceMaps
  BY DEF Runs

LEMMA PendingFields ==
    ASSUME NEW r \in Runs, NEW i \in DOMAIN r.pending
    PROVE  /\ r.pending[i] \in PendingFiles
           /\ r.pending[i].file \in Files
           /\ r.pending[i].source \in {None} \cup Contents
<1>1. r.pending \in Seq(PendingFiles)
  BY RunFields
<1>2. r.pending[i] \in PendingFiles
  BY <1>1
<1>3. QED
  BY <1>2 DEF PendingFiles

(* What an analysis says is typed. *)
LEMMA AnalysisTyped ==
    ASSUME NEW r \in Runs, NEW i \in DOMAIN r.pending, NEW c \in Contents
    PROVE  /\ Analysis(r, i, c) \in Results
           /\ Analysis(r, i, c).content = c
           /\ Key(r, i, c) \in Keys
           /\ Key(r, i, c).analysis = Analysis(r, i, c)
<1>1. r.pending[i].file \in Files
  BY PendingFields
<1>2. r.options \in CommandLines
  BY RunFields
<1>3. r.options.profile \in Profiles /\ r.options.tests \in Scopes
  BY <1>2 DEF Profiles, Scopes
<1>4. r.index \in {None} \cup SourceMaps /\ r.context \in {None} \cup SourceMaps
  BY RunFields
<1>5. Analysis(r, i, c) \in Results
  BY <1>1, <1>3, <1>4 DEF Analysis, Results
<1>6. (IF RetainSources(r) THEN r.options.tests ELSE None) \in Scopes
  BY <1>3 DEF Scopes
<1>7. QED
  BY <1>5, <1>6 DEF Key, Keys, Analysis

(* The steps of a thread leave what its run is about as it is. *)
SameRun(r, s) ==
    /\ s.pending = r.pending
    /\ s.options = r.options
    /\ s.index = r.index
    /\ s.context = r.context

LEMMA SameAnalyses ==
    ASSUME NEW r, NEW s, SameRun(r, s)
    PROVE  /\ \A i, c : Analysis(s, i, c) = Analysis(r, i, c)
           /\ \A i, c : Key(s, i, c) = Key(r, i, c)
  BY DEF SameRun, Analysis, Key, RetainSources

LEMMA SameSources ==
    ASSUME NEW r, NEW s, SameRun(r, s), NEW d, NEW e
    PROVE  /\ \A i, c : SourceOf(r, i, c, d, e) <=> SourceOf(s, i, c, d, e)
           /\ KeptOK(r, d, e) <=> KeptOK(s, d, e)
           /\ \A o : OutcomeOK(r, o, d, e) <=> OutcomeOK(s, o, d, e)
           /\ \A me : ThreadOK(r, me, d, e) <=> ThreadOK(s, me, d, e)
<1>1. s.pending = r.pending
  BY DEF SameRun
<1>2. \A i, c : SourceOf(r, i, c, d, e) <=> SourceOf(s, i, c, d, e)
  BY <1>1 DEF SourceOf
<1>3. KeptOK(r, d, e) <=> KeptOK(s, d, e)
  BY <1>1, <1>2 DEF KeptOK
<1>4. ASSUME NEW o PROVE OutcomeOK(r, o, d, e) <=> OutcomeOK(s, o, d, e)
  <2>1. Analysis(s, o.i, o.result.content) = Analysis(r, o.i, o.result.content)
    BY SameAnalyses
  <2>2. SourceOf(r, o.i, o.result.content, d, e) <=> SourceOf(s, o.i, o.result.content, d, e)
    BY <1>2
  <2>3. QED
    BY <1>1, <2>1, <2>2, Zenon DEF OutcomeOK
<1>5. ASSUME NEW me PROVE ThreadOK(r, me, d, e) <=> ThreadOK(s, me, d, e)
  <2>1. SourceOf(r, me.i, me.content, d, e) <=> SourceOf(s, me.i, me.content, d, e)
    BY <1>2
  <2>2. QED
    BY <1>1, <1>4, <2>1, Zenon DEF ThreadOK
<1>6. QED
  BY <1>2, <1>3, <1>4, <1>5

-----------------------------------------------------------------------------
(* Steps of one thread. *)
LEMMA ThreadFields ==
    ASSUME NEW me \in Threads
    PROVE  /\ me.at \in Stations /\ me.i \in Nat /\ me.content \in {None} \cup Contents
           /\ me.length \in {None} \cup Lengths /\ me.tries \in Nat /\ me.nonce \in Nat
           /\ me.outcomes \in Seq(Outcomes)
  BY DEF Threads

LEMMA IdleTyped ==
    /\ Idle \in Threads /\ Ready \in Threads
    /\ Idle.at = "absent" /\ Ready.at = "claim"
    /\ Idle.outcomes = <<>> /\ Ready.outcomes = <<>>
    /\ Ready.i = 0 /\ Ready.content = None
<1>1. <<>> \in Seq(Outcomes)
  OBVIOUS
<1>2. "absent" \in Stations /\ "claim" \in Stations
  BY DEF Stations
<1>3. Idle \in Threads
  BY <1>1, <1>2 DEF Idle, Threads
<1>4. Ready = [at |-> "claim", i |-> 0, content |-> None, length |-> None, tries |-> 0, nonce |-> 0,
               outcomes |-> <<>>]
  BY DEF Ready, Idle
<1>5. Ready \in Threads
  BY <1>1, <1>2, <1>4 DEF Threads
<1>6. QED
  BY <1>3, <1>4, <1>5 DEF Idle

LEMMA IdleHolds ==
    /\ Held(Idle) = {} /\ Held(Ready) = {}
    /\ \A me : me.at \notin Busy /\ me.outcomes = <<>> => Held(me) = {} /\ NoRepeats(me.outcomes)
<1>1. ASSUME NEW me, me.at \notin Busy, me.outcomes = <<>>
      PROVE  Held(me) = {} /\ NoRepeats(me.outcomes)
  BY <1>1 DEF Held, Indices, AtWork, NoRepeats
<1>2. Idle.at \notin Busy /\ Ready.at \notin Busy
  BY IdleTyped DEF Busy, Holding
<1>3. QED
  BY <1>1, <1>2, IdleTyped

(* A step that neither claims nor stops. *)
ThreadKeeps(r, me, new, d, e) ==
    /\ new \in Threads
    /\ ThreadOK(r, new, d, e)
    /\ new.at \in {"claim"} \cup Busy
    /\ Held(new) = Held(me)
    /\ NoRepeats(new.outcomes)
    /\ Indices(new.outcomes) \cap AtWork(new) = {}

(* The outcome of the file at work becomes the last of the outcomes. *)
LEMMA AppendedIndices ==
    ASSUME NEW s \in Seq(Outcomes), NEW o \in Outcomes
    PROVE  /\ Append(s, o) \in Seq(Outcomes)
           /\ \A k \in DOMAIN Append(s, o) : (k \in DOMAIN s /\ Append(s, o)[k] = s[k]) \/ (k = Len(s) + 1 /\ Append(s, o)[k] = o)
           /\ Indices(Append(s, o)) = Indices(s) \cup {o.i}
           /\ NoRepeats(s) /\ o.i \notin Indices(s) => NoRepeats(Append(s, o))
<1> DEFINE t == Append(s, o)
<1>1. /\ t \in Seq(Outcomes) /\ Len(t) = Len(s) + 1 /\ DOMAIN t = 1 .. Len(s) + 1 /\ DOMAIN s = 1 .. Len(s)
      /\ Len(s) \in Nat /\ t[Len(s) + 1] = o /\ \A k \in 1 .. Len(s) : t[k] = s[k]
  OBVIOUS
<1> HIDE DEF t
<1>2. \A k \in DOMAIN t : (k \in DOMAIN s /\ t[k] = s[k]) \/ (k = Len(s) + 1 /\ t[k] = o)
  BY <1>1
<1>3. Indices(t) \subseteq Indices(s) \cup {o.i}
  BY <1>2 DEF Indices
<1>4. Indices(s) \subseteq Indices(t)
  <2>1. ASSUME NEW k \in DOMAIN s PROVE s[k].i \in Indices(t)
    <3>1. k \in DOMAIN t /\ t[k] = s[k]
      BY <1>1
    <3>2. QED
      BY <3>1 DEF Indices
  <2>2. QED
    BY <2>1 DEF Indices
<1>5. o.i \in Indices(t)
  <2>1. Len(s) + 1 \in DOMAIN t /\ t[Len(s) + 1] = o
    BY <1>1
  <2>2. QED
    BY <2>1 DEF Indices
<1>6. ASSUME NoRepeats(s), o.i \notin Indices(s) PROVE NoRepeats(t)
  <2>1. ASSUME NEW k \in DOMAIN t, NEW l \in DOMAIN t, t[k].i = t[l].i PROVE k = l
    <3>1. \A j \in DOMAIN s : s[j].i # o.i
      BY <1>6 DEF Indices
    <3>2. QED
      BY <1>2, <1>6, <2>1, <3>1 DEF NoRepeats
  <2>2. QED
    BY <2>1 DEF NoRepeats
<1>7. QED
  BY <1>1, <1>2, <1>3, <1>4, <1>5, <1>6 DEF t

LEMMA ThreadFinishes ==
    ASSUME NEW r \in Runs, NEW me \in Threads, NEW d, NEW e, ThreadOK(r, me, d, e), me.at \in Busy,
           NoRepeats(me.outcomes), Indices(me.outcomes) \cap AtWork(me) = {},
           NEW o \in Outcomes, o.i = me.i, OutcomeOK(r, o, d, e)
    PROVE  ThreadKeeps(r, me, [Ready EXCEPT !.outcomes = Append(me.outcomes, o)], d, e)
<1> DEFINE s == Append(me.outcomes, o)
           new == [Ready EXCEPT !.outcomes = s]
<1>1. me.outcomes \in Seq(Outcomes)
  BY ThreadFields
<1>2. /\ s \in Seq(Outcomes)
      /\ \A k \in DOMAIN s : (k \in DOMAIN me.outcomes /\ s[k] = me.outcomes[k]) \/ (k = Len(me.outcomes) + 1 /\ s[k] = o)
      /\ Indices(s) = Indices(me.outcomes) \cup {o.i}
      /\ NoRepeats(me.outcomes) /\ o.i \notin Indices(me.outcomes) => NoRepeats(s)
  BY <1>1, AppendedIndices
<1>3. AtWork(me) = {me.i}
  BY DEF AtWork
<1>4. NoRepeats(s) /\ Indices(s) = Held(me)
  BY <1>2, <1>3 DEF Held
<1> HIDE DEF s
<1>5. new \in Threads /\ new.at = "claim" /\ new.outcomes = s
  BY <1>2 DEF Ready, Idle, Threads, Stations
<1> HIDE DEF new
<1>6. AtWork(new) = {}
  BY <1>5 DEF AtWork, Busy, Holding
<1>7. \A k \in DOMAIN me.outcomes : OutcomeOK(r, me.outcomes[k], d, e)
  BY DEF ThreadOK
<1>8. \A k \in DOMAIN s : OutcomeOK(r, s[k], d, e)
  BY <1>2, <1>7, Zenon
<1>9. ThreadOK(r, new, d, e)
  BY <1>5, <1>8 DEF ThreadOK, Busy, Holding, Storing
<1>10. Held(new) = Held(me)
  BY <1>4, <1>5, <1>6 DEF Held
<1>11. ThreadKeeps(r, me, new, d, e)
  BY <1>4, <1>5, <1>6, <1>9, <1>10 DEF ThreadKeeps
<1>12. QED
  BY <1>11 DEF new, s

(* Between two stations of the same file. *)
LEMMA ThreadMoves ==
    ASSUME NEW r \in Runs, NEW me \in Threads, NEW d, NEW e, ThreadOK(r, me, d, e), me.at \in Busy,
           NoRepeats(me.outcomes), Indices(me.outcomes) \cap AtWork(me) = {},
           NEW new \in Threads, new.at \in Holding, new.i = me.i, new.outcomes = me.outcomes,
           SourceOf(r, me.i, new.content, d, e),
           new.at \in {"create"} \cup Storing => new.content \notin Broken
    PROVE  ThreadKeeps(r, me, new, d, e)
<1>1. new.at \in Busy /\ AtWork(new) = AtWork(me)
  BY DEF AtWork, Busy
<1>2. \A k \in DOMAIN new.outcomes : OutcomeOK(r, new.outcomes[k], d, e)
  BY DEF ThreadOK
<1>3. me.i \in DOMAIN r.pending
  BY DEF ThreadOK
<1>4. new.at \notin {"absent", "joined"}
  BY DEF Holding
<1>5. ThreadOK(r, new, d, e)
  BY <1>2, <1>3, <1>4, Zenon DEF ThreadOK
<1>6. Held(new) = Held(me)
  BY <1>1 DEF Held
<1>7. QED
  BY <1>1, <1>5, <1>6 DEF ThreadKeeps

-----------------------------------------------------------------------------
(* Only processes in work have threads. *)
LEMMA ThreadsWork ==
    ASSUME NEW r, NEW threads, PoolOK(r, threads), NEW w \in Workers, threads[w].at # "absent"
    PROVE  /\ r.phase \in {"spawn", "work"}
           /\ r.phase = "spawn" => w # Caller
<1>1. Idle.at = "absent"
  BY IdleTyped
<1>2. r.phase \in {"spawn", "work"}
  <2>1. SUFFICES ASSUME r.phase \notin {"spawn", "work"} PROVE FALSE
    OBVIOUS
  <2>2. threads = [v \in Workers |-> Idle]
    BY <2>1 DEF PoolOK
  <2>3. QED
    BY <1>1, <2>2
<1>3. QED
  BY <1>1, <1>2 DEF PoolOK

LEMMA ThreadStep ==
    ASSUME NEW r, NEW d, NEW e, NEW threads \in [Workers -> Threads], RunOK(r, threads, d, e),
           NEW w \in Workers, threads[w].at \in {"claim"} \cup Busy,
           NEW new, ThreadKeeps(r, threads[w], new, d, e)
    PROVE  /\ [threads EXCEPT ![w] = new] \in [Workers -> Threads]
           /\ RunOK(r, [threads EXCEPT ![w] = new], d, e)
<1> DEFINE next == [threads EXCEPT ![w] = new]
<1>1. new \in Threads /\ new.at \in {"claim"} \cup Busy
  BY DEF ThreadKeeps
<1>2. /\ next \in [Workers -> Threads] /\ next[w] = new
      /\ \A v \in Workers : v # w => next[v] = threads[v]
  BY <1>1
<1> HIDE DEF next
<1>3. /\ new.at \notin Past \cup {"absent"} /\ threads[w].at \notin Past \cup {"absent"}
      /\ new.at # "joined" /\ threads[w].at # "absent"
  BY <1>1 DEF Past, Busy, Holding
<1>4. \A v \in Workers : /\ next[v].at \in Past <=> threads[v].at \in Past
                         /\ next[v].at = "absent" <=> threads[v].at = "absent"
  BY <1>2, <1>3
<1>5. r \in Runs /\ PoolOK(r, threads) /\ SharedOK(r, threads)
  BY DEF RunOK
<1>6. r.phase \in {"spawn", "work"} /\ (r.phase = "spawn" => w # Caller)
  BY <1>3, <1>5, ThreadsWork
<1>7. PastIn(next) = PastIn(threads) /\ Started(next) = Started(threads)
  BY <1>4 DEF PastIn, Started
<1>8. Caller \in Workers
  BY ProjectAssumption DEF Caller, Workers
<1>9. PoolOK(r, next)
  <2>1. /\ r.phase = "spawn" => next[Caller] = Idle
        /\ r.phase = "work" => next[Caller].at # "absent"
        /\ next[Caller].at \in Past => r.next > Len(r.pending) \/ Started(next) # {}
    BY <1>2, <1>4, <1>5, <1>6, <1>7, <1>8, Zenon DEF PoolOK
  <2>2. /\ r.phase = "spawn" => \E n \in 0 .. Parallelism : Started(next) = 1 .. n
        /\ r.next >= 1
        /\ r.next <= Len(r.pending) + Parallelism + 2
        /\ r.phase # "done" => r.next <= Len(r.pending) + 1 + Cardinality(PastIn(next))
    BY <1>5, <1>7, Zenon DEF PoolOK
  <2>3. \A v \in Workers \ {Caller} : next[v].at \in Past => r.next > Len(r.pending)
    BY <1>4, <1>5 DEF PoolOK
  <2>4. QED
    BY <1>6, <2>1, <2>2, <2>3 DEF PoolOK
<1>10. \A v \in Workers : Held(next[v]) = Held(threads[v])
  BY <1>2 DEF ThreadKeeps
<1>11. \A v \in Workers : NoRepeats(next[v].outcomes) /\ Indices(next[v].outcomes) \cap AtWork(next[v]) = {}
  BY <1>2, <1>5 DEF ThreadKeeps, SharedOK
<1>12. SharedOK(r, next)
  BY <1>5, <1>10, <1>11 DEF SharedOK
<1>13. \A v \in Workers : ThreadOK(r, next[v], d, e)
  BY <1>2 DEF ThreadKeeps, RunOK
<1>14. RunOK(r, next, d, e)
  BY <1>9, <1>12, <1>13 DEF RunOK
<1>15. QED
  BY <1>2, <1>14 DEF next

(* The counter is all of a run that a claim changes. *)
LEMMA NextOfRun ==
    ASSUME NEW r \in Runs
    PROVE  LET s == [r EXCEPT !.next = r.next + 1]
           IN  /\ s \in Runs /\ SameRun(r, s)
               /\ s.next = r.next + 1 /\ s.phase = r.phase /\ s.at = r.at /\ s.failed = r.failed
               /\ s.report = r.report /\ s.cached = r.cached /\ s.complete = r.complete
<1> DEFINE s == [r EXCEPT !.next = r.next + 1]
<1>1. s = [phase |-> r.phase, options |-> r.options, at |-> r.at, complete |-> r.complete,
           pending |-> r.pending, failed |-> r.failed, index |-> r.index, context |-> r.context,
           cached |-> r.cached, next |-> r.next + 1, report |-> r.report]
  BY DEF Runs
<1> HIDE DEF s
<1>2. s \in Runs
  BY <1>1, RunFields DEF Runs
<1>3. /\ s.next = r.next + 1 /\ s.phase = r.phase /\ s.at = r.at /\ s.failed = r.failed
      /\ s.report = r.report /\ s.cached = r.cached /\ s.complete = r.complete
      /\ s.pending = r.pending /\ s.options = r.options /\ s.index = r.index /\ s.context = r.context
  BY <1>1
<1>4. QED
  BY <1>2, <1>3 DEF s, SameRun

(* What holds of a run whatever its threads do. *)
LEMMA CollectedStays ==
    ASSUME NEW r, NEW s, SameRun(r, s), s.phase = r.phase, s.at = r.at, s.failed = r.failed, CollectedOK(r)
    PROVE  CollectedOK(s)
<1>1. Inputs(s) = Inputs(r) /\ Seen(s) = Seen(r) /\ Retained(s) = Retained(r) /\ s.pending = r.pending
  BY DEF SameRun, Inputs, Seen, Retained
<1>2. QED
  BY <1>1 DEF CollectedOK

LEMMA WorkersAre ==
    /\ Caller \in Workers
    /\ \A w \in Workers : w \in Nat
    /\ \A w \in Workers \ {Caller} : w \in 1 .. Parallelism
    /\ IsFiniteSet(Workers)
    /\ Cardinality(Workers) = Parallelism + 1
<1>1. Parallelism \in Nat /\ 0 \in Int /\ Parallelism \in Int
  BY ProjectAssumption
<1>2. IsFiniteSet(0 .. Parallelism) /\ Cardinality(0 .. Parallelism) = IF 0 > Parallelism THEN 0 ELSE Parallelism - 0 + 1
  BY <1>1, FS_Interval
<1>3. QED
  BY <1>1, <1>2 DEF Caller, Workers

LEMMA PastCount ==
    ASSUME NEW threads
    PROVE  /\ IsFiniteSet(PastIn(threads))
           /\ Cardinality(PastIn(threads)) \in 0 .. Parallelism + 1
<1>1. PastIn(threads) \in SUBSET Workers
  BY DEF PastIn
<1>2. IsFiniteSet(PastIn(threads)) /\ Cardinality(PastIn(threads)) <= Parallelism + 1
  BY <1>1, WorkersAre, FS_Subset
<1>3. QED
  BY <1>2, FS_CardinalityType, ProjectAssumption

(* The file is the claimer's alone. *)
LEMMA ThreadClaims ==
    ASSUME NEW r, NEW d, NEW e, NEW threads \in [Workers -> Threads], RunOK(r, threads, d, e),
           NEW w \in Workers, threads[w].at = "claim", r.next <= Len(r.pending)
    PROVE  LET next == [threads EXCEPT ![w] = [threads[w] EXCEPT !.at = "read", !.i = r.next]]
           IN  /\ next \in [Workers -> Threads]
               /\ RunOK([r EXCEPT !.next = r.next + 1], next, d, e)
<1> DEFINE me == threads[w]
           new == [threads[w] EXCEPT !.at = "read", !.i = r.next]
           next == [threads EXCEPT ![w] = new]
           s == [r EXCEPT !.next = r.next + 1]
<1>0. /\ r \in Runs /\ PoolOK(r, threads) /\ SharedOK(r, threads) /\ ThreadOK(r, me, d, e) /\ CollectedOK(r)
      /\ KeptOK(r, d, e) /\ PhaseOK(r) /\ ReportOK(r, d, e) /\ DoneOK(r)
  BY DEF RunOK
<1>1. /\ s \in Runs /\ SameRun(r, s)
      /\ s.next = r.next + 1 /\ s.phase = r.phase /\ s.at = r.at /\ s.failed = r.failed /\ s.report = r.report
  BY <1>0, NextOfRun
<1>2. s.pending = r.pending
  BY <1>1 DEF SameRun
<1> HIDE DEF s
<1>3. r.next \in Nat /\ Len(r.pending) \in Nat /\ DOMAIN r.pending = 1 .. Len(r.pending) /\ r.next >= 1
  BY <1>0, RunFields DEF PoolOK
<1>4. r.next \in DOMAIN r.pending
  BY <1>3
<1>5. me \in Threads
  OBVIOUS
<1>6. /\ new \in Threads /\ new.at = "read" /\ new.i = r.next /\ new.outcomes = me.outcomes
  BY <1>3, <1>5 DEF Threads, Stations, Busy
<1> HIDE DEF new
<1>7. /\ next \in [Workers -> Threads] /\ next[w] = new
      /\ \A v \in Workers : v # w => next[v] = threads[v]
  BY <1>6
<1> HIDE DEF next
<1>8. /\ new.at \notin Past \cup {"absent"} /\ me.at \notin Past \cup {"absent"} \cup Busy /\ new.at \in Busy
      /\ new.at \notin Holding \cup {"create", "joined"} \cup Storing
  BY <1>6 DEF Past, Busy, Holding, Storing
<1>9. \A v \in Workers : /\ next[v].at \in Past <=> threads[v].at \in Past
                         /\ next[v].at = "absent" <=> threads[v].at = "absent"
  BY <1>7, <1>8
<1>10. PastIn(next) = PastIn(threads) /\ Started(next) = Started(threads)
  BY <1>9 DEF PastIn, Started
<1>11. r.phase \in {"spawn", "work"} /\ (r.phase = "spawn" => w # Caller)
  BY <1>0, <1>8, ThreadsWork
<1>12. AtWork(me) = {} /\ AtWork(new) = {r.next}
  BY <1>6, <1>8 DEF AtWork
<1>13. Held(new) = Held(me) \cup {r.next}
  BY <1>6, <1>12 DEF Held
<1>14. r.next \notin Claimed(r) /\ Claimed(s) = Claimed(r) \cup {r.next}
  BY <1>1, <1>2, <1>3, <1>4 DEF Claimed
<1>15. r.next \notin Indices(r.report) /\ \A v \in Workers : r.next \notin Held(threads[v])
  BY <1>0, <1>14 DEF SharedOK
<1>16. SharedOK(s, next)
  <2>1. \A v \in Workers : NoRepeats(next[v].outcomes) /\ Indices(next[v].outcomes) \cap AtWork(next[v]) = {}
    <3>1. NoRepeats(new.outcomes)
      BY <1>0, <1>6 DEF SharedOK
    <3>2. r.next \notin Indices(me.outcomes)
      BY <1>15 DEF Held
    <3>3. Indices(new.outcomes) \cap AtWork(new) = {}
      BY <1>6, <1>12, <3>2
    <3>4. QED
      BY <1>0, <1>7, <3>1, <3>3 DEF SharedOK
  <2>2. \A v \in Workers : Held(next[v]) = IF v = w THEN Held(me) \cup {r.next} ELSE Held(threads[v])
    BY <1>7, <1>13
  <2>3. \A v \in Workers : Indices(s.report) \cap Held(next[v]) = {}
    BY <1>0, <1>1, <1>15, <2>2 DEF SharedOK
  <2>4. \A v, u \in Workers : v # u => Held(next[v]) \cap Held(next[u]) = {}
    BY <1>0, <1>15, <2>2 DEF SharedOK
  <2>5. Indices(s.report) \subseteq Claimed(s) /\ \A v \in Workers : Held(next[v]) \subseteq Claimed(s)
    BY <1>0, <1>1, <1>14, <2>2 DEF SharedOK
  <2>6. \A i \in Claimed(s) : i \in Indices(s.report) \/ \E v \in Workers : i \in Held(next[v])
    BY <1>0, <1>1, <1>14, <2>2 DEF SharedOK
  <2>7. QED
    BY <1>0, <1>1, <2>1, <2>3, <2>4, <2>5, <2>6 DEF SharedOK
<1>17. PoolOK(s, next)
  <2>1. Cardinality(PastIn(threads)) \in 0 .. Parallelism + 1
    BY PastCount
  <2>2. /\ s.phase = "spawn" => next[Caller] = Idle
        /\ s.phase = "work" => next[Caller].at # "absent"
    BY <1>0, <1>1, <1>7, <1>9, <1>11, WorkersAre DEF PoolOK
  <2>3. \A v \in Workers \ {Caller} : next[v].at \in Past => s.next > Len(s.pending)
    BY <1>0, <1>1, <1>2, <1>3, <1>9 DEF PoolOK
  <2>4. next[Caller].at \in Past => s.next > Len(s.pending) \/ Started(next) # {}
    BY <1>0, <1>1, <1>2, <1>3, <1>9, <1>10, WorkersAre DEF PoolOK
  <2>5. s.next >= 1 /\ s.next <= Len(s.pending) + 1 + Cardinality(PastIn(next))
        /\ s.next <= Len(s.pending) + Parallelism + 2
    BY <1>1, <1>2, <1>3, <1>10, <2>1, ProjectAssumption
  <2>6. s.phase = "spawn" => \E n \in 0 .. Parallelism : Started(next) = 1 .. n
    BY <1>0, <1>1, <1>10, Zenon DEF PoolOK
  <2>7. QED
    BY <1>1, <1>11, <2>2, <2>3, <2>4, <2>5, <2>6 DEF PoolOK
<1>18. \A v \in Workers : ThreadOK(s, next[v], d, e)
  <2>1. \A k \in DOMAIN new.outcomes : OutcomeOK(r, new.outcomes[k], d, e)
    BY <1>0, <1>6 DEF ThreadOK
  <2>2. new.at \notin Holding /\ new.at \notin {"create"} \cup Storing /\ new.at \notin {"absent", "joined"}
    BY <1>8
  <2>3. ThreadOK(r, new, d, e)
    BY <1>4, <1>6, <2>1, <2>2, Zenon DEF ThreadOK
  <2>4. \A v \in Workers : ThreadOK(r, next[v], d, e)
    BY <1>7, <2>3 DEF RunOK
  <2>5. QED
    BY <1>1, <2>4, SameSources
<1>19. CollectedOK(s) /\ KeptOK(s, d, e)
  BY <1>0, <1>1, CollectedStays, SameSources
<1>20. PhaseOK(s) /\ DoneOK(s)
  BY <1>0, <1>1, <1>11 DEF PhaseOK, DoneOK
<1>21. ReportOK(s, d, e)
  BY <1>0, <1>1, SameSources DEF ReportOK
<1>22. RunOK(s, next, d, e)
  BY <1>1, <1>16, <1>17, <1>18, <1>19, <1>20, <1>21 DEF RunOK
<1>23. QED
  BY <1>7, <1>22 DEF next, new, s

(* Steps that move no index. *)
LEMMA SharedStays ==
    ASSUME NEW r, NEW s, NEW threads, NEW next, SharedOK(r, threads),
           s.report = r.report, Claimed(s) = Claimed(r),
           \A v \in Workers : Held(next[v]) = Held(threads[v]),
           \A v \in Workers : NoRepeats(next[v].outcomes) /\ Indices(next[v].outcomes) \cap AtWork(next[v]) = {}
    PROVE  SharedOK(s, next)
  BY DEF SharedOK

LEMMA ThreadStops ==
    ASSUME NEW r, NEW d, NEW e, NEW threads \in [Workers -> Threads], RunOK(r, threads, d, e),
           NEW w \in Workers, threads[w].at = "claim", ~(r.next <= Len(r.pending))
    PROVE  LET next == [threads EXCEPT ![w] = [threads[w] EXCEPT !.at = "ended"]]
           IN  /\ next \in [Workers -> Threads]
               /\ RunOK([r EXCEPT !.next = r.next + 1], next, d, e)
<1> DEFINE me == threads[w]
           new == [threads[w] EXCEPT !.at = "ended"]
           next == [threads EXCEPT ![w] = new]
           s == [r EXCEPT !.next = r.next + 1]
<1>0. /\ r \in Runs /\ PoolOK(r, threads) /\ SharedOK(r, threads) /\ ThreadOK(r, me, d, e) /\ CollectedOK(r)
      /\ KeptOK(r, d, e) /\ PhaseOK(r) /\ ReportOK(r, d, e) /\ DoneOK(r)
  BY DEF RunOK
<1>1. /\ s \in Runs /\ SameRun(r, s)
      /\ s.next = r.next + 1 /\ s.phase = r.phase /\ s.at = r.at /\ s.failed = r.failed /\ s.report = r.report
  BY <1>0, NextOfRun
<1>2. s.pending = r.pending
  BY <1>1 DEF SameRun
<1> HIDE DEF s
<1>3. r.next \in Nat /\ Len(r.pending) \in Nat /\ DOMAIN r.pending = 1 .. Len(r.pending) /\ r.next > Len(r.pending)
  BY <1>0, RunFields
<1>4. me \in Threads
  OBVIOUS
<1>5. /\ new \in Threads /\ new.at = "ended" /\ new.outcomes = me.outcomes
  BY <1>4 DEF Threads, Stations, Past
<1> HIDE DEF new
<1>6. /\ next \in [Workers -> Threads] /\ next[w] = new
      /\ \A v \in Workers : v # w => next[v] = threads[v]
  BY <1>5
<1> HIDE DEF next
<1>7. /\ new.at \in Past /\ new.at \notin Busy \cup {"absent", "joined"} /\ me.at \notin Past \cup {"absent"} \cup Busy
  BY <1>5 DEF Past, Busy, Holding
<1>8. \A v \in Workers : next[v].at = "absent" <=> threads[v].at = "absent"
  BY <1>6, <1>7
<1>9. Started(next) = Started(threads)
  BY <1>8 DEF Started
<1>10. w \notin PastIn(threads) /\ PastIn(next) = PastIn(threads) \cup {w}
  BY <1>6, <1>7 DEF PastIn
<1>11. Cardinality(PastIn(next)) = Cardinality(PastIn(threads)) + 1
  BY <1>10, PastCount, FS_AddElement
<1>12. r.phase \in {"spawn", "work"} /\ (r.phase = "spawn" => w # Caller)
  BY <1>0, <1>7, ThreadsWork
<1>13. AtWork(me) = {} /\ AtWork(new) = {}
  BY <1>7 DEF AtWork
<1>14. Held(new) = Held(me)
  BY <1>5, <1>13 DEF Held
<1>15. Claimed(s) = Claimed(r)
  BY <1>1, <1>2, <1>3 DEF Claimed
<1>16. SharedOK(s, next)
  <2>1. \A v \in Workers : NoRepeats(next[v].outcomes) /\ Indices(next[v].outcomes) \cap AtWork(next[v]) = {}
    BY <1>0, <1>5, <1>6, <1>13 DEF SharedOK
  <2>2. \A v \in Workers : Held(next[v]) = Held(threads[v])
    BY <1>6, <1>14
  <2>3. QED
    BY <1>0, <1>1, <1>15, <2>1, <2>2, SharedStays
<1>17. PoolOK(s, next)
  <2>1. Cardinality(PastIn(next)) \in 0 .. Parallelism + 1 /\ Cardinality(PastIn(threads)) \in 0 .. Parallelism + 1
    BY PastCount
  <2>2. /\ s.phase = "spawn" => next[Caller] = Idle
        /\ s.phase = "work" => next[Caller].at # "absent"
    BY <1>0, <1>1, <1>6, <1>8, <1>12, WorkersAre DEF PoolOK
  <2>3. s.next > Len(s.pending)
    BY <1>1, <1>2, <1>3
  <2>4. r.next <= Len(r.pending) + 1 + Cardinality(PastIn(threads))
    BY <1>0, <1>12 DEF PoolOK
  <2>5. s.next >= 1 /\ s.next <= Len(s.pending) + 1 + Cardinality(PastIn(next))
        /\ s.next <= Len(s.pending) + Parallelism + 2
    <3>1. Parallelism \in Nat
      BY ProjectAssumption
    <3>2. s.next = r.next + 1 /\ Len(s.pending) = Len(r.pending)
      BY <1>1, <1>2
    <3> DEFINE before == r.next
               after == s.next
               files == Len(r.pending)
               past == Cardinality(PastIn(threads))
               now == Cardinality(PastIn(next))
    <3>3. /\ before \in Nat /\ files \in Nat /\ past \in 0 .. Parallelism + 1 /\ now \in 0 .. Parallelism + 1
          /\ after = before + 1 /\ now = past + 1 /\ before <= files + 1 + past
      BY <1>3, <1>11, <2>1, <2>4, <3>2
    <3> HIDE DEF before, after, files, past, now
    <3>4. after >= 1 /\ after <= files + 1 + now /\ after <= files + Parallelism + 2
      BY <3>1, <3>3
    <3>5. QED
      BY <3>2, <3>4 DEF after, files, now
  <2>6. s.phase = "spawn" => \E n \in 0 .. Parallelism : Started(next) = 1 .. n
    BY <1>0, <1>1, <1>9, Zenon DEF PoolOK
  <2>7. QED
    BY <1>1, <1>12, <2>2, <2>3, <2>5, <2>6 DEF PoolOK
<1>18. \A v \in Workers : ThreadOK(s, next[v], d, e)
  <2>1. \A k \in DOMAIN new.outcomes : OutcomeOK(r, new.outcomes[k], d, e)
    BY <1>0, <1>5 DEF ThreadOK
  <2>2. new.at \notin Holding /\ new.at \notin {"create"} \cup Storing /\ new.at \notin {"absent", "joined"}
    BY <1>5 DEF Holding, Storing
  <2>3. ThreadOK(r, new, d, e)
    BY <1>7, <2>1, <2>2, Zenon DEF ThreadOK
  <2>4. \A v \in Workers : ThreadOK(r, next[v], d, e)
    BY <1>6, <2>3 DEF RunOK
  <2>5. QED
    BY <1>1, <2>4, SameSources
<1>19. CollectedOK(s) /\ KeptOK(s, d, e)
  BY <1>0, <1>1, CollectedStays, SameSources
<1>20. PhaseOK(s) /\ DoneOK(s)
  BY <1>0, <1>1, <1>12 DEF PhaseOK, DoneOK
<1>21. ReportOK(s, d, e)
  BY <1>0, <1>1, SameSources DEF ReportOK
<1>22. RunOK(s, next, d, e)
  BY <1>1, <1>16, <1>17, <1>18, <1>19, <1>20, <1>21 DEF RunOK
<1>23. QED
  BY <1>6, <1>22 DEF next, new, s

-----------------------------------------------------------------------------
(* The pool is filled: one more thread. *)
LEMMA PoolSize ==
    ASSUME NEW r \in Runs
    PROVE  BackgroundWorkers(r) \in 0 .. Parallelism
<1>1. Parallelism \in Nat \ {0} /\ Pending(r) \in Nat
  BY ProjectAssumption, RunFields DEF Pending
<1>2. WorkerCount(r) \in 0 .. Parallelism
  BY <1>1 DEF WorkerCount
<1>3. QED
  BY <1>1, <1>2 DEF BackgroundWorkers

LEMMA ThreadStarts ==
    ASSUME NEW r, NEW d, NEW e, NEW threads \in [Workers -> Threads], RunOK(r, threads, d, e),
           r.phase = "spawn", Cardinality(Started(threads)) < BackgroundWorkers(r)
    PROVE  LET next == [threads EXCEPT ![Cardinality(Started(threads)) + 1] = Ready]
           IN  /\ next \in [Workers -> Threads]
               /\ RunOK(r, next, d, e)
               /\ \A w \in Workers : next[w] = threads[w] \/ (threads[w].at = "absent" /\ next[w] = Ready)
<1>0. /\ r \in Runs /\ PoolOK(r, threads) /\ SharedOK(r, threads) /\ CollectedOK(r)
      /\ KeptOK(r, d, e) /\ PhaseOK(r) /\ ReportOK(r, d, e) /\ DoneOK(r)
  BY DEF RunOK
<1>1. Parallelism \in Nat \ {0}
  BY ProjectAssumption
<1>2. PICK n \in 0 .. Parallelism : Started(threads) = 1 .. n
  BY <1>0, Zenon DEF PoolOK
<1>3. n \in Nat /\ 1 \in Int /\ n \in Int
  BY <1>1, <1>2
<1>4. Cardinality(1 .. n) = IF 1 > n THEN 0 ELSE n - 1 + 1
  BY <1>3, FS_Interval
<1>5. Cardinality(Started(threads)) = n
  BY <1>2, <1>3, <1>4
<1>6. n < Parallelism
  BY <1>0, <1>1, <1>3, <1>5, PoolSize
<1> DEFINE w == n + 1
           next == [threads EXCEPT ![w] = Ready]
<1>7. w \in Workers /\ w # Caller /\ w \notin Started(threads)
  BY <1>1, <1>2, <1>3, <1>6 DEF Workers, Caller
<1>8. threads[w].at = "absent"
  BY <1>7 DEF Started
<1>9. /\ next \in [Workers -> Threads] /\ next[w] = Ready
      /\ \A v \in Workers : v # w => next[v] = threads[v]
  BY <1>7, IdleTyped
<1>10. Started(next) = 1 .. n + 1
  <2>1. Started(next) = Started(threads) \cup {w}
    BY <1>7, <1>9, IdleTyped DEF Started
  <2>2. (1 .. n) \cup {n + 1} = 1 .. n + 1
    BY <1>3
  <2>3. QED
    BY <1>2, <2>1, <2>2
<1> HIDE DEF next
<1>11. "claim" \notin Past /\ "absent" \notin Past /\ "claim" \notin Busy /\ "absent" \notin Busy
  BY DEF Past, Busy, Holding
<1>12. PastIn(next) = PastIn(threads)
  BY <1>8, <1>9, <1>11, IdleTyped DEF PastIn
<1>13. threads[w].outcomes = <<>>
  BY <1>7, <1>8 DEF RunOK, ThreadOK
<1>14. Held(threads[w]) = {} /\ Held(Ready) = {} /\ AtWork(Ready) = {} /\ NoRepeats(Ready.outcomes)
  BY <1>8, <1>11, <1>13, IdleHolds, IdleTyped DEF AtWork
<1>15. SharedOK(r, next)
  <2>1. \A v \in Workers : NoRepeats(next[v].outcomes) /\ Indices(next[v].outcomes) \cap AtWork(next[v]) = {}
    BY <1>0, <1>9, <1>14 DEF SharedOK
  <2>2. \A v \in Workers : Held(next[v]) = Held(threads[v])
    BY <1>9, <1>14
  <2>3. QED
    BY <1>0, <2>1, <2>2, SharedStays
<1>16. PoolOK(r, next)
  <2>1. next[Caller] = Idle
    BY <1>0, <1>7, <1>9, WorkersAre DEF PoolOK
  <2>2. \A v \in Workers \ {Caller} : next[v].at \in Past => r.next > Len(r.pending)
    BY <1>0, <1>9, <1>11, IdleTyped DEF PoolOK
  <2>3. next[Caller].at \notin Past
    BY <1>11, <2>1, IdleTyped
  <2>4. \E m \in 0 .. Parallelism : Started(next) = 1 .. m
    <3>1. n + 1 \in 0 .. Parallelism
      BY <1>1, <1>2, <1>6
    <3>2. QED
      BY <1>10, <3>1, Zenon
  <2>5. /\ r.next >= 1
        /\ r.next <= Len(r.pending) + Parallelism + 2
        /\ r.next <= Len(r.pending) + 1 + Cardinality(PastIn(next))
    BY <1>0, <1>12 DEF PoolOK
  <2>6. QED
    BY <2>1, <2>2, <2>3, <2>4, <2>5 DEF PoolOK
<1>17. \A v \in Workers : ThreadOK(r, next[v], d, e)
  <2>1. ThreadOK(r, Ready, d, e)
    BY <1>11, IdleTyped DEF ThreadOK, Holding, Storing
  <2>2. QED
    BY <1>9, <2>1 DEF RunOK
<1>18. RunOK(r, next, d, e)
  BY <1>0, <1>15, <1>16, <1>17 DEF RunOK
<1>19. QED
  BY <1>5, <1>8, <1>9, <1>18 DEF next

-----------------------------------------------------------------------------
(* Sorting: an order that keeps all of 1 .. n in order changes nothing.      *)
LEMMA OrderedIsIdentity ==
    ASSUME NEW n \in Nat, NEW h \in [1 .. n -> 1 .. n],
           \A j, k \in 1 .. n : h[j] = h[k] => j = k,
           \A j, k \in 1 .. n : j < k => h[j] <= h[k]
    PROVE  \A k \in 1 .. n : h[k] = k
<1> SUFFICES ASSUME NEW k \in 1 .. n PROVE h[k] = k
  OBVIOUS
<1>1. k \in Int /\ h[k] \in Int /\ 1 \in Int /\ n \in Int /\ h[k] \in 1 .. n
  OBVIOUS
<1>2. k <= h[k]
  <2> DEFINE f == [j \in 1 .. k |-> h[j]]
  <2>1. \A j \in 1 .. k : j \in 1 .. n /\ h[j] \in 1 .. h[k]
    <3>1. ASSUME NEW j \in 1 .. k PROVE j \in 1 .. n /\ h[j] \in 1 .. n /\ h[j] <= h[k]
      OBVIOUS
    <3>2. QED
      BY <1>1, <3>1
  <2>2. f \in [1 .. k -> 1 .. h[k]] /\ DOMAIN f = 1 .. k /\ \A j \in 1 .. k : f[j] = h[j]
    BY <2>1
  <2> HIDE DEF f
  <2>3. f \in Injection(1 .. k, 1 .. h[k])
    BY <2>1, <2>2 DEF Injection, IsInjective
  <2>4. IsFiniteSet(1 .. h[k]) /\ Cardinality(1 .. h[k]) = h[k] /\ Cardinality(1 .. k) = k
    BY <1>1, FS_Interval
  <2>5. QED
    BY <2>3, <2>4, FS_Injection
<1>3. h[k] <= k
  <2> DEFINE f == [j \in k .. n |-> h[j]]
  <2>1. \A j \in k .. n : j \in 1 .. n /\ h[j] \in h[k] .. n
    <3>1. ASSUME NEW j \in k .. n PROVE j \in 1 .. n /\ h[j] \in 1 .. n /\ h[k] <= h[j]
      OBVIOUS
    <3>2. QED
      BY <1>1, <3>1
  <2>2. f \in [k .. n -> h[k] .. n] /\ DOMAIN f = k .. n /\ \A j \in k .. n : f[j] = h[j]
    BY <2>1
  <2> HIDE DEF f
  <2>3. f \in Injection(k .. n, h[k] .. n)
    BY <2>1, <2>2 DEF Injection, IsInjective
  <2>4. IsFiniteSet(h[k] .. n) /\ Cardinality(h[k] .. n) = n - h[k] + 1 /\ Cardinality(k .. n) = n - k + 1
    BY <1>1, FS_Interval
  <2>5. Cardinality(k .. n) <= Cardinality(h[k] .. n)
    BY <2>3, <2>4, FS_Injection
  <2>6. QED
    BY <1>1, <2>4, <2>5
<1>4. QED
  BY <1>1, <1>2, <1>3

LEMMA CompleteIsSorted ==
    ASSUME NEW s \in Seq(Outcomes), NoRepeats(s), NEW n \in Nat, Indices(s) = 1 .. n
    PROVE  /\ SortedByIndex(s) \in Seq(Outcomes)
           /\ Len(s) = n
           /\ Len(SortedByIndex(s)) = n
           /\ \A k \in 1 .. n : SortedByIndex(s)[k].i = k
           /\ \A k \in 1 .. n : \E j \in DOMAIN s : SortedByIndex(s)[k] = s[j]
<1> DEFINE m == Len(s)
           g == [k \in 1 .. m |-> s[k].i]
<1>1. m \in Nat /\ DOMAIN s = 1 .. m /\ 1 \in Int /\ m \in Int /\ n \in Int
  OBVIOUS
<1>2. \A k \in 1 .. m : s[k] \in Outcomes /\ s[k].i \in 1 .. n
  BY <1>1 DEF Indices
<1>3. \A i \in 1 .. n : \E k \in 1 .. m : s[k].i = i
  BY <1>1 DEF Indices
<1>4. \A j, k \in 1 .. m : s[j].i = s[k].i => j = k
  BY <1>1 DEF NoRepeats
<1>5. m = n
  <2>1. g \in [1 .. m -> 1 .. n] /\ DOMAIN g = 1 .. m /\ \A k \in 1 .. m : g[k] = s[k].i
    BY <1>2
  <2> HIDE DEF g
  <2>2. g \in Injection(1 .. m, 1 .. n)
    BY <1>4, <2>1 DEF Injection, IsInjective
  <2>3. g \in Surjection(1 .. m, 1 .. n)
    BY <1>3, <2>1 DEF Surjection
  <2> HIDE DEF m
  <2>4. IsFiniteSet(1 .. n) /\ Cardinality(1 .. n) = n /\ Cardinality(1 .. m) = m
    BY <1>1, FS_Interval
  <2>5. QED
    BY <2>2, <2>3, <2>4, FS_Injection
<1> DEFINE Ordered(f) == /\ IsInjective(f)
                         /\ \A j, k \in DOMAIN s : j < k => s[f[j]].i <= s[f[k]].i
           order == CHOOSE f \in [DOMAIN s -> DOMAIN s] : Ordered(f)
<1>6. \E f \in [DOMAIN s -> DOMAIN s] : Ordered(f)
  <2> DEFINE f == [k \in 1 .. m |-> CHOOSE j \in 1 .. m : s[j].i = k]
  <2>1. \A k \in 1 .. m : f[k] \in 1 .. m /\ s[f[k]].i = k
    BY <1>3, <1>5
  <2>2. f \in [1 .. m -> 1 .. m] /\ DOMAIN f = 1 .. m
    BY <2>1
  <2> HIDE DEF f
  <2>3. IsInjective(f)
    BY <2>1, <2>2 DEF IsInjective
  <2>4. \A j, k \in 1 .. m : j < k => s[f[j]].i <= s[f[k]].i
    BY <1>1, <2>1
  <2>5. QED
    BY <1>1, <2>2, <2>3, <2>4
<1>7. order \in [DOMAIN s -> DOMAIN s] /\ Ordered(order)
  BY <1>6
<1>8. SortedByIndex(s) = [k \in DOMAIN s |-> s[order[k]]]
  BY DEF SortedByIndex
<1> HIDE DEF order
<1> DEFINE h == [k \in 1 .. n |-> s[order[k]].i]
<1>9. \A k \in 1 .. n : order[k] \in 1 .. n /\ s[order[k]] \in Outcomes /\ s[order[k]].i \in 1 .. n
  BY <1>1, <1>2, <1>5, <1>7
<1>10. h \in [1 .. n -> 1 .. n] /\ \A k \in 1 .. n : h[k] = s[order[k]].i
  BY <1>9
<1> HIDE DEF h
<1>11. \A j, k \in 1 .. n : h[j] = h[k] => j = k
  <2>1. \A j, k \in 1 .. n : order[j] = order[k] => j = k
    BY <1>1, <1>5, <1>7 DEF IsInjective
  <2>2. QED
    <3>1. ASSUME NEW j \in 1 .. n, NEW k \in 1 .. n, h[j] = h[k] PROVE j = k
      <4>1. s[order[j]].i = s[order[k]].i /\ order[j] \in 1 .. m /\ order[k] \in 1 .. m
        BY <1>5, <1>9, <1>10, <3>1
      <4>2. order[j] = order[k]
        BY <1>4, <4>1
      <4>3. QED
        BY <2>1, <4>2
    <3>2. QED
      BY <3>1
<1>12. \A j, k \in 1 .. n : j < k => h[j] <= h[k]
  BY <1>1, <1>5, <1>7, <1>10
<1>13. \A k \in 1 .. n : h[k] = k
  BY <1>10, <1>11, <1>12, OrderedIsIdentity
<1> DEFINE t == [k \in 1 .. n |-> s[order[k]]]
<1>14. SortedByIndex(s) = t
  BY <1>1, <1>5, <1>8
<1>15. t \in Seq(Outcomes) /\ Len(t) = n
  <2>1. t \in [1 .. n -> Outcomes]
    BY <1>9
  <2>2. QED
    BY <2>1
<1>16. \A k \in 1 .. n : t[k] = s[order[k]] /\ t[k].i = k
  BY <1>10, <1>13
<1>17. \A k \in 1 .. n : \E j \in DOMAIN s : t[k] = s[j]
  BY <1>1, <1>5, <1>9, <1>16
<1>18. QED
  BY <1>5, <1>14, <1>15, <1>16, <1>17

LEMMA JoinedIndices ==
    ASSUME NEW s \in Seq(Outcomes), NEW t \in Seq(Outcomes)
    PROVE  /\ s \o t \in Seq(Outcomes)
           /\ Indices(s \o t) = Indices(s) \cup Indices(t)
           /\ \A k \in DOMAIN (s \o t) : (\E j \in DOMAIN s : (s \o t)[k] = s[j]) \/ (\E j \in DOMAIN t : (s \o t)[k] = t[j])
           /\ NoRepeats(s) /\ NoRepeats(t) /\ Indices(s) \cap Indices(t) = {} => NoRepeats(s \o t)
<1> DEFINE u == s \o t
           m == Len(s)
           n == Len(t)
<1>1. /\ u \in Seq(Outcomes) /\ m \in Nat /\ n \in Nat
      /\ DOMAIN s = 1 .. m /\ DOMAIN t = 1 .. n /\ DOMAIN u = 1 .. m + n
      /\ \A k \in 1 .. m + n : u[k] = IF k <= m THEN s[k] ELSE t[k - m]
  OBVIOUS
<1> HIDE DEF u, m, n
<1>2. \A k \in 1 .. m : k \in 1 .. m + n /\ u[k] = s[k]
  BY <1>1
<1>3. \A k \in 1 .. n : k + m \in 1 .. m + n /\ u[k + m] = t[k]
  BY <1>1
<1>4. \A k \in 1 .. m + n : k \in 1 .. m \/ (k - m \in 1 .. n /\ u[k] = t[k - m])
  BY <1>1
<1>5. \A k \in DOMAIN u : (\E j \in DOMAIN s : u[k] = s[j]) \/ (\E j \in DOMAIN t : u[k] = t[j])
  BY <1>1, <1>2, <1>4
<1>6. Indices(u) \subseteq Indices(s) \cup Indices(t)
  BY <1>5 DEF Indices
<1>7. Indices(s) \subseteq Indices(u)
  <2>1. ASSUME NEW k \in DOMAIN s PROVE s[k].i \in Indices(u)
    <3>1. k \in DOMAIN u /\ u[k] = s[k]
      BY <1>1, <1>2
    <3>2. QED
      BY <3>1 DEF Indices
  <2>2. QED
    BY <2>1 DEF Indices
<1>8. Indices(t) \subseteq Indices(u)
  <2>1. ASSUME NEW k \in DOMAIN t PROVE t[k].i \in Indices(u)
    <3>1. k + m \in DOMAIN u /\ u[k + m] = t[k]
      BY <1>1, <1>3
    <3>2. QED
      BY <3>1 DEF Indices
  <2>2. QED
    BY <2>1 DEF Indices
<1>9. ASSUME NoRepeats(s), NoRepeats(t), Indices(s) \cap Indices(t) = {} PROVE NoRepeats(u)
  <2>1. \A j \in 1 .. m, k \in 1 .. n : s[j].i # t[k].i
    <3>1. ASSUME NEW j \in 1 .. m, NEW k \in 1 .. n PROVE s[j].i # t[k].i
      <4>1. s[j].i \in Indices(s) /\ t[k].i \in Indices(t)
        BY <1>1 DEF Indices
      <4>2. QED
        BY <1>9, <4>1
    <3>2. QED
      BY <3>1
  <2>2. ASSUME NEW k \in 1 .. m + n, NEW l \in 1 .. m + n, u[k].i = u[l].i PROVE k = l
    <3>1. CASE k \in 1 .. m /\ l \in 1 .. m
      BY <1>1, <1>2, <1>9, <2>2, <3>1 DEF NoRepeats
    <3>2. CASE k \in 1 .. m /\ l \notin 1 .. m
      BY <1>2, <1>4, <2>1, <2>2, <3>2
    <3>3. CASE k \notin 1 .. m /\ l \in 1 .. m
      BY <1>2, <1>4, <2>1, <2>2, <3>3
    <3>4. CASE k \notin 1 .. m /\ l \notin 1 .. m
      <4>1. k - m \in 1 .. n /\ l - m \in 1 .. n /\ t[k - m].i = t[l - m].i
        BY <1>4, <2>2, <3>4
      <4>2. k - m = l - m
        BY <1>1, <1>9, <4>1 DEF NoRepeats
      <4>3. QED
        BY <1>1, <4>2
    <3>5. QED
      BY <3>1, <3>2, <3>3, <3>4
  <2>3. QED
    BY <1>1, <2>2 DEF NoRepeats
<1>10. QED
  BY <1>1, <1>5, <1>6, <1>7, <1>8, <1>9 DEF u

-----------------------------------------------------------------------------
(* The steps of a run with threads. *)
LEMMA CollectedMoves ==
    ASSUME NEW r, NEW s, SameRun(r, s), r.phase # "collect", s.phase # "collect", s.failed = r.failed, CollectedOK(r)
    PROVE  CollectedOK(s)
<1>1. Inputs(s) = Inputs(r) /\ Seen(s) = Seen(r) /\ Retained(s) = Retained(r) /\ s.pending = r.pending
  BY DEF SameRun, Inputs, Seen, Retained
<1>2. QED
  BY <1>1 DEF CollectedOK

LEMMA PhaseOfRun ==
    ASSUME NEW r \in Runs, NEW phase \in Phases
    PROVE  LET s == [r EXCEPT !.phase = phase]
           IN  /\ s \in Runs /\ SameRun(r, s)
               /\ s.next = r.next /\ s.phase = phase /\ s.at = r.at /\ s.failed = r.failed
               /\ s.report = r.report /\ s.cached = r.cached /\ s.complete = r.complete
<1> DEFINE s == [r EXCEPT !.phase = phase]
<1>1. s = [phase |-> phase, options |-> r.options, at |-> r.at, complete |-> r.complete,
           pending |-> r.pending, failed |-> r.failed, index |-> r.index, context |-> r.context,
           cached |-> r.cached, next |-> r.next, report |-> r.report]
  BY DEF Runs
<1> HIDE DEF s
<1>2. s \in Runs
  BY <1>1, RunFields DEF Runs
<1>3. /\ s.next = r.next /\ s.phase = phase /\ s.at = r.at /\ s.failed = r.failed
      /\ s.report = r.report /\ s.cached = r.cached /\ s.complete = r.complete
      /\ s.pending = r.pending /\ s.options = r.options /\ s.index = r.index /\ s.context = r.context
  BY <1>1
<1>4. QED
  BY <1>2, <1>3 DEF s, SameRun

LEMMA ReportOfRun ==
    ASSUME NEW r \in Runs, NEW report \in Seq(Outcomes)
    PROVE  LET s == [r EXCEPT !.report = report]
           IN  /\ s \in Runs /\ SameRun(r, s)
               /\ s.next = r.next /\ s.phase = r.phase /\ s.at = r.at /\ s.failed = r.failed
               /\ s.report = report /\ s.cached = r.cached /\ s.complete = r.complete
<1> DEFINE s == [r EXCEPT !.report = report]
<1>1. s = [phase |-> r.phase, options |-> r.options, at |-> r.at, complete |-> r.complete,
           pending |-> r.pending, failed |-> r.failed, index |-> r.index, context |-> r.context,
           cached |-> r.cached, next |-> r.next, report |-> report]
  BY DEF Runs
<1> HIDE DEF s
<1>2. s \in Runs
  BY <1>1, RunFields DEF Runs
<1>3. /\ s.next = r.next /\ s.phase = r.phase /\ s.at = r.at /\ s.failed = r.failed
      /\ s.report = report /\ s.cached = r.cached /\ s.complete = r.complete
      /\ s.pending = r.pending /\ s.options = r.options /\ s.index = r.index /\ s.context = r.context
  BY <1>1
<1>4. QED
  BY <1>2, <1>3 DEF s, SameRun

LEMMA DoneOfRun ==
    ASSUME NEW r \in Runs, NEW report
    PROVE  [r EXCEPT !.phase = "done", !.report = report] = [[r EXCEPT !.report = report] EXCEPT !.phase = "done"]
  BY DEF Runs

(* The caller joins in, or leaves the work to its threads. *)
LEMMA CallerStarts ==
    ASSUME NEW r, NEW d, NEW e, NEW threads \in [Workers -> Threads], RunOK(r, threads, d, e), r.phase = "spawn"
    PROVE  LET me == IF RequiresJstsStack(r) /\ Started(threads) # {} THEN [Ready EXCEPT !.at = "ended"] ELSE Ready
               next == [threads EXCEPT ![Caller] = me]
           IN  /\ next \in [Workers -> Threads]
               /\ RunOK([r EXCEPT !.phase = "work"], next, d, e)
               /\ me.at \notin Storing /\ threads[Caller].at = "absent"
<1> DEFINE me == IF RequiresJstsStack(r) /\ Started(threads) # {} THEN [Ready EXCEPT !.at = "ended"] ELSE Ready
           next == [threads EXCEPT ![Caller] = me]
           s == [r EXCEPT !.phase = "work"]
<1>0. /\ r \in Runs /\ PoolOK(r, threads) /\ SharedOK(r, threads) /\ CollectedOK(r)
      /\ KeptOK(r, d, e) /\ PhaseOK(r) /\ ReportOK(r, d, e) /\ DoneOK(r)
  BY DEF RunOK
<1>1. /\ s \in Runs /\ SameRun(r, s)
      /\ s.next = r.next /\ s.phase = "work" /\ s.failed = r.failed /\ s.report = r.report
  <2>1. "work" \in Phases /\ r.report \in Seq(Outcomes)
    BY <1>0, RunFields DEF Phases
  <2>2. QED
    BY <1>0, <2>1, PhaseOfRun
<1>2. s.pending = r.pending
  BY <1>1 DEF SameRun
<1> HIDE DEF s
<1>3. /\ me \in Threads /\ me.outcomes = <<>> /\ me.at \in {"claim", "ended"}
      /\ me.at = "ended" => Started(threads) # {}
  <2>1. [Ready EXCEPT !.at = "ended"] \in Threads /\ [Ready EXCEPT !.at = "ended"].outcomes = <<>>
        /\ [Ready EXCEPT !.at = "ended"].at = "ended"
    BY IdleTyped DEF Threads, Stations, Past
  <2>2. QED
    BY <2>1, IdleTyped
<1> HIDE DEF me
<1>4. /\ next \in [Workers -> Threads] /\ next[Caller] = me
      /\ \A v \in Workers : v # Caller => next[v] = threads[v]
  BY <1>3, WorkersAre
<1> HIDE DEF next
<1>5. threads[Caller] = Idle
  BY <1>0 DEF PoolOK
<1>6. me.at \notin Busy \cup {"absent", "joined"} \cup Holding \cup {"create"} \cup Storing
  BY <1>3 DEF Busy, Holding, Storing
<1>7. Started(next) = Started(threads)
  BY <1>4 DEF Started
<1>8. Held(threads[Caller]) = {} /\ Held(me) = {} /\ AtWork(me) = {} /\ NoRepeats(me.outcomes)
  BY <1>3, <1>5, <1>6, IdleHolds DEF AtWork
<1>9. Claimed(s) = Claimed(r)
  BY <1>1, <1>2 DEF Claimed
<1>10. SharedOK(s, next)
  <2>1. \A v \in Workers : NoRepeats(next[v].outcomes) /\ Indices(next[v].outcomes) \cap AtWork(next[v]) = {}
    BY <1>0, <1>4, <1>8 DEF SharedOK
  <2>2. \A v \in Workers : Held(next[v]) = Held(threads[v])
    BY <1>4, <1>8
  <2>3. QED
    BY <1>0, <1>1, <1>9, <2>1, <2>2, SharedStays
<1>11. PoolOK(s, next)
  <2>1. next[Caller].at # "absent"
    BY <1>4, <1>6
  <2>2. \A v \in Workers \ {Caller} : next[v].at \in Past => s.next > Len(s.pending)
    BY <1>0, <1>1, <1>2, <1>4 DEF PoolOK
  <2>3. next[Caller].at \in Past => Started(next) # {}
    BY <1>3, <1>4, <1>7 DEF Past
  <2>4. PastIn(threads) \in SUBSET PastIn(next)
    <3>1. threads[Caller].at \notin Past
      BY <1>5, IdleTyped DEF Past
    <3>2. QED
      BY <1>4, <3>1 DEF PastIn
  <2>5. Cardinality(PastIn(threads)) <= Cardinality(PastIn(next))
    BY <2>4, PastCount, FS_Subset
  <2>6. Cardinality(PastIn(threads)) \in Nat /\ Cardinality(PastIn(next)) \in Nat
    BY PastCount, ProjectAssumption
  <2>7. /\ s.next >= 1
        /\ s.next <= Len(s.pending) + Parallelism + 2
        /\ r.next <= Len(r.pending) + 1 + Cardinality(PastIn(threads))
    BY <1>0, <1>1, <1>2 DEF PoolOK
  <2>8. r.next \in Nat /\ Len(r.pending) \in Nat
    BY <1>0, RunFields
  <2>9. s.next <= Len(s.pending) + 1 + Cardinality(PastIn(next))
    BY <1>1, <1>2, <2>5, <2>6, <2>7, <2>8
  <2>10. QED
    BY <1>1, <2>1, <2>2, <2>3, <2>7, <2>9 DEF PoolOK
<1>12. \A v \in Workers : ThreadOK(s, next[v], d, e)
  <2>1. ThreadOK(r, me, d, e)
    BY <1>3, <1>6 DEF ThreadOK
  <2>2. \A v \in Workers : ThreadOK(r, next[v], d, e)
    BY <1>4, <2>1 DEF RunOK
  <2>3. QED
    BY <1>1, <2>2, SameSources
<1>13. CollectedOK(s) /\ KeptOK(s, d, e)
  BY <1>0, <1>1, CollectedMoves, SameSources
<1>14. PhaseOK(s) /\ DoneOK(s)
  BY <1>1 DEF PhaseOK, DoneOK
<1>15. ReportOK(s, d, e)
  BY <1>0, <1>1, SameSources DEF ReportOK
<1>16. RunOK(s, next, d, e)
  BY <1>1, <1>10, <1>11, <1>12, <1>13, <1>14, <1>15 DEF RunOK
<1>17. QED
  BY <1>4, <1>5, <1>6, <1>16, IdleTyped DEF next, me, s

LEMMA ThreadJoins ==
    ASSUME NEW r, NEW d, NEW e, NEW threads \in [Workers -> Threads], RunOK(r, threads, d, e), r.phase = "work",
           NEW w \in Workers, threads[w].at = "ended"
    PROVE  LET next == [threads EXCEPT ![w] = [Idle EXCEPT !.at = "joined"]]
           IN  /\ next \in [Workers -> Threads]
               /\ RunOK([r EXCEPT !.report = r.report \o threads[w].outcomes], next, d, e)
<1> DEFINE me == threads[w]
           new == [Idle EXCEPT !.at = "joined"]
           next == [threads EXCEPT ![w] = new]
           report == r.report \o threads[w].outcomes
           s == [r EXCEPT !.report = report]
<1>0. /\ r \in Runs /\ PoolOK(r, threads) /\ SharedOK(r, threads) /\ ThreadOK(r, me, d, e) /\ CollectedOK(r)
      /\ KeptOK(r, d, e) /\ PhaseOK(r) /\ ReportOK(r, d, e) /\ DoneOK(r)
  BY DEF RunOK
<1>1. r.report \in Seq(Outcomes) /\ me.outcomes \in Seq(Outcomes) /\ me \in Threads
  BY <1>0, RunFields, ThreadFields
<1>2. "ended" \notin Busy /\ "joined" \notin Busy \cup Holding \cup {"create"} \cup Storing /\ {"ended", "joined"} \subseteq Past
  BY DEF Busy, Holding, Past, Storing
<1>3. Held(me) = Indices(me.outcomes) /\ AtWork(me) = {}
  BY <1>2 DEF Held, AtWork
<1>4. NoRepeats(me.outcomes) /\ NoRepeats(r.report) /\ Indices(r.report) \cap Held(me) = {}
  BY <1>0 DEF SharedOK
<1>5. /\ report \in Seq(Outcomes)
      /\ Indices(report) = Indices(r.report) \cup Held(me)
      /\ \A k \in DOMAIN report : (\E j \in DOMAIN r.report : report[k] = r.report[j])
                                  \/ (\E j \in DOMAIN me.outcomes : report[k] = me.outcomes[j])
      /\ NoRepeats(report)
  <2>1. Indices(r.report) \cap Indices(me.outcomes) = {}
    BY <1>3, <1>4
  <2>2. NoRepeats(report)
    BY <1>1, <1>4, <2>1, JoinedIndices, Zenon
  <2>3. report \in Seq(Outcomes) /\ Indices(report) = Indices(r.report) \cup Indices(me.outcomes)
    BY <1>1, JoinedIndices, Zenon
  <2>4. \A k \in DOMAIN report : (\E j \in DOMAIN r.report : report[k] = r.report[j])
                                 \/ (\E j \in DOMAIN me.outcomes : report[k] = me.outcomes[j])
    BY <1>1, JoinedIndices, Zenon
  <2>5. QED
    BY <1>3, <2>2, <2>3, <2>4
<1> HIDE DEF report
<1>6. /\ s \in Runs /\ SameRun(r, s)
      /\ s.next = r.next /\ s.phase = r.phase /\ s.failed = r.failed /\ s.report = report
  BY <1>0, <1>5, ReportOfRun
<1>7. s.pending = r.pending
  BY <1>6 DEF SameRun
<1> HIDE DEF s
<1>8. new \in Threads /\ new.at = "joined" /\ new.outcomes = <<>>
  BY IdleTyped DEF Threads, Stations, Past
<1> HIDE DEF new
<1>9. /\ next \in [Workers -> Threads] /\ next[w] = new
      /\ \A v \in Workers : v # w => next[v] = threads[v]
  BY <1>8
<1> HIDE DEF next
<1>10. \A v \in Workers : /\ next[v].at \in Past <=> threads[v].at \in Past
                          /\ next[v].at = "absent" <=> threads[v].at = "absent"
  BY <1>2, <1>8, <1>9
<1>11. PastIn(next) = PastIn(threads) /\ Started(next) = Started(threads)
  BY <1>10 DEF PastIn, Started
<1>12. Held(new) = {} /\ AtWork(new) = {} /\ NoRepeats(new.outcomes)
  BY <1>2, <1>8, IdleHolds DEF AtWork
<1>13. Claimed(s) = Claimed(r)
  BY <1>6, <1>7 DEF Claimed
<1>14. SharedOK(s, next)
  <2>1. \A v \in Workers : NoRepeats(next[v].outcomes) /\ Indices(next[v].outcomes) \cap AtWork(next[v]) = {}
    BY <1>0, <1>9, <1>12 DEF SharedOK
  <2>2. \A v \in Workers : Held(next[v]) = IF v = w THEN {} ELSE Held(threads[v])
    BY <1>9, <1>12
  <2>3. \A v \in Workers : Indices(s.report) \cap Held(next[v]) = {}
    BY <1>0, <1>5, <1>6, <2>2 DEF SharedOK
  <2>4. \A v, u \in Workers : v # u => Held(next[v]) \cap Held(next[u]) = {}
    BY <1>0, <2>2 DEF SharedOK
  <2>5. Indices(s.report) \subseteq Claimed(s) /\ \A v \in Workers : Held(next[v]) \subseteq Claimed(s)
    BY <1>0, <1>5, <1>6, <1>13, <2>2 DEF SharedOK
  <2>6. \A i \in Claimed(s) : i \in Indices(s.report) \/ \E v \in Workers : i \in Held(next[v])
    BY <1>0, <1>5, <1>6, <1>13, <2>2 DEF SharedOK
  <2>7. QED
    BY <1>5, <1>6, <2>1, <2>3, <2>4, <2>5, <2>6 DEF SharedOK
<1>15. PoolOK(s, next)
  <2>1. s.phase = "work" /\ next[Caller].at # "absent"
    BY <1>0, <1>6, <1>10, WorkersAre DEF PoolOK
  <2>2. \A v \in Workers \ {Caller} : next[v].at \in Past => s.next > Len(s.pending)
    BY <1>0, <1>6, <1>7, <1>10 DEF PoolOK
  <2>3. next[Caller].at \in Past => s.next > Len(s.pending) \/ Started(next) # {}
    BY <1>0, <1>6, <1>7, <1>10, <1>11, WorkersAre DEF PoolOK
  <2>4. /\ s.next >= 1
        /\ s.next <= Len(s.pending) + Parallelism + 2
        /\ s.next <= Len(s.pending) + 1 + Cardinality(PastIn(next))
    BY <1>0, <1>6, <1>7, <1>11 DEF PoolOK
  <2>5. QED
    BY <2>1, <2>2, <2>3, <2>4 DEF PoolOK
<1>16. \A v \in Workers : ThreadOK(s, next[v], d, e)
  <2>1. ThreadOK(r, new, d, e)
    BY <1>2, <1>8 DEF ThreadOK
  <2>2. \A v \in Workers : ThreadOK(r, next[v], d, e)
    BY <1>9, <2>1 DEF RunOK
  <2>3. QED
    BY <1>6, <2>2, SameSources
<1>17. CollectedOK(s) /\ KeptOK(s, d, e)
  BY <1>0, <1>6, CollectedMoves, SameSources
<1>18. PhaseOK(s) /\ DoneOK(s)
  BY <1>6 DEF PhaseOK, DoneOK
<1>19. ReportOK(s, d, e)
  <2>1. \A k \in DOMAIN r.report : OutcomeOK(r, r.report[k], d, e)
    BY <1>0 DEF ReportOK
  <2>2. \A k \in DOMAIN me.outcomes : OutcomeOK(r, me.outcomes[k], d, e)
    BY <1>0 DEF ThreadOK
  <2>3. \A k \in DOMAIN report : OutcomeOK(r, report[k], d, e)
    BY <1>5, <2>1, <2>2, Zenon
  <2>4. \A k \in DOMAIN report : OutcomeOK(s, report[k], d, e)
    BY <1>6, <2>3, SameSources
  <2>5. QED
    BY <1>6, <2>4 DEF ReportOK
<1>20. RunOK(s, next, d, e)
  BY <1>6, <1>14, <1>15, <1>16, <1>17, <1>18, <1>19 DEF RunOK
<1>21. QED
  BY <1>9, <1>20 DEF next, new, s, report

(* When all have been joined every file has been claimed, and every claimed  *)
(* file has its outcome.                                                     *)
LEMMA RunReports ==
    ASSUME NEW r, NEW d, NEW e, NEW threads \in [Workers -> Threads], RunOK(r, threads, d, e), r.phase = "work",
           \A w \in Workers : threads[w].at \in {"absent", "joined"}
    PROVE  RunOK([r EXCEPT !.phase = "done", !.report = SortedByIndex(r.report)], [w \in Workers |-> Idle], d, e)
<1> DEFINE next == [w \in Workers |-> Idle]
           report == SortedByIndex(r.report)
           q == [r EXCEPT !.report = report]
           s == [q EXCEPT !.phase = "done"]
<1>0. /\ r \in Runs /\ PoolOK(r, threads) /\ SharedOK(r, threads) /\ CollectedOK(r)
      /\ KeptOK(r, d, e) /\ PhaseOK(r) /\ ReportOK(r, d, e) /\ DoneOK(r)
  BY DEF RunOK
<1>1. r.report \in Seq(Outcomes) /\ Len(r.pending) \in Nat /\ DOMAIN r.pending = 1 .. Len(r.pending) /\ r.next \in Nat
  BY <1>0, RunFields
<1>2. "joined" \in Past /\ "joined" \notin Busy /\ "absent" \notin Busy
  BY DEF Past, Busy, Holding
<1>3. \A w \in Workers : Held(threads[w]) = {}
  <2>1. \A w \in Workers : threads[w].outcomes = <<>>
    BY DEF RunOK, ThreadOK
  <2>2. QED
    BY <1>2, <2>1, IdleHolds
<1>4. r.next > Len(r.pending)
  <2>1. threads[Caller].at \in Past
    BY <1>0, <1>2, WorkersAre DEF PoolOK
  <2>2. CASE Started(threads) # {}
    <3>1. PICK v \in Workers \ {Caller} : threads[v].at # "absent"
      BY <2>2 DEF Started
    <3>2. threads[v].at \in Past
      BY <1>2, <3>1
    <3>3. QED
      BY <1>0, <3>2 DEF PoolOK
  <2>3. QED
    BY <1>0, <2>1, <2>2 DEF PoolOK
<1>5. Claimed(r) = 1 .. Len(r.pending)
  BY <1>1, <1>4 DEF Claimed
<1>6. Indices(r.report) = 1 .. Len(r.pending) /\ NoRepeats(r.report)
  BY <1>0, <1>3, <1>5 DEF SharedOK
<1>7. /\ report \in Seq(Outcomes) /\ Len(report) = Len(r.pending)
      /\ \A k \in 1 .. Len(r.pending) : report[k].i = k
      /\ \A k \in 1 .. Len(r.pending) : \E j \in DOMAIN r.report : report[k] = r.report[j]
  BY <1>1, <1>6, CompleteIsSorted
<1> HIDE DEF report
<1>8. /\ q \in Runs /\ SameRun(r, q)
      /\ q.next = r.next /\ q.phase = r.phase /\ q.failed = r.failed /\ q.report = report
  BY <1>0, <1>7, ReportOfRun
<1> HIDE DEF q
<1>9. /\ s \in Runs /\ SameRun(q, s)
      /\ s.next = q.next /\ s.phase = "done" /\ s.failed = q.failed /\ s.report = q.report
  <2>1. "done" \in Phases
    BY DEF Phases
  <2>2. QED
    BY <1>8, <2>1, PhaseOfRun
<1> HIDE DEF s
<1>10. SameRun(r, s) /\ s.pending = r.pending
  BY <1>8, <1>9 DEF SameRun
<1>11. DOMAIN report = 1 .. Len(r.pending)
  BY <1>7
<1>12. DoneOK(s)
  BY <1>7, <1>8, <1>9, <1>10, <1>11 DEF DoneOK
<1>13. \A w \in Workers : next[w] = Idle
  OBVIOUS
<1>14. SharedOK(s, next)
  <2>1. AtWork(Idle) = {} /\ Held(Idle) = {} /\ NoRepeats(Idle.outcomes)
    BY <1>2, IdleTyped, IdleHolds DEF AtWork
  <2>2. Claimed(s) = 1 .. Len(r.pending)
    BY <1>5, <1>8, <1>9, <1>10 DEF Claimed
  <2>3. NoRepeats(s.report)
    BY <1>7, <1>8, <1>9, <1>11 DEF NoRepeats
  <2>4. Indices(s.report) = 1 .. Len(r.pending)
    BY <1>7, <1>8, <1>9, <1>11 DEF Indices
  <2>5. QED
    BY <1>13, <2>1, <2>2, <2>3, <2>4 DEF SharedOK
<1>15. PoolOK(s, next)
  <2>1. Caller \in Workers /\ Idle.at \notin Past
    BY WorkersAre, IdleTyped DEF Past
  <2>2. s.next >= 1 /\ s.next <= Len(s.pending) + Parallelism + 2
    BY <1>0, <1>8, <1>9, <1>10 DEF PoolOK
  <2>3. QED
    BY <1>9, <1>13, <2>1, <2>2 DEF PoolOK
<1>16. \A v \in Workers : ThreadOK(s, next[v], d, e)
  <2>1. ThreadOK(s, Idle, d, e)
    BY IdleTyped DEF ThreadOK, Busy, Holding, Storing
  <2>2. QED
    BY <2>1
<1>17. CollectedOK(s) /\ KeptOK(s, d, e)
  BY <1>0, <1>8, <1>9, <1>10, CollectedMoves, SameSources
<1>18. PhaseOK(s)
  BY <1>9 DEF PhaseOK
<1>19. ReportOK(s, d, e)
  <2>1. \A k \in DOMAIN r.report : OutcomeOK(r, r.report[k], d, e)
    BY <1>0 DEF ReportOK
  <2>2. \A k \in DOMAIN report : OutcomeOK(r, report[k], d, e)
    BY <1>7, <1>11, <2>1, Zenon
  <2>3. \A k \in DOMAIN report : OutcomeOK(s, report[k], d, e)
    BY <1>10, <2>2, SameSources
  <2>4. QED
    BY <1>8, <1>9, <2>3 DEF ReportOK
<1>20. RunOK(s, next, d, e)
  BY <1>9, <1>12, <1>14, <1>15, <1>16, <1>17, <1>18, <1>19 DEF RunOK
<1>21. [r EXCEPT !.phase = "done", !.report = report] = s
  BY <1>0, DoneOfRun DEF s, q
<1>22. QED
  BY <1>20, <1>21 DEF report

-----------------------------------------------------------------------------
(* Collection, before there are threads. *)
LEMMA WithoutThreads ==
    ASSUME NEW s \in Runs, NEW d, NEW e, s.phase \in {"collect", "index", "context", "spawn"},
           CollectedOK(s), KeptOK(s, d, e), PhaseOK(s), s.next = 1, s.report = <<>>
    PROVE  RunOK(s, [w \in Workers |-> Idle], d, e)
<1> DEFINE threads == [w \in Workers |-> Idle]
<1>1. /\ \A w \in Workers : threads[w] = Idle
      /\ Caller \in Workers
  BY WorkersAre
<1>2. /\ Idle.at = "absent" /\ Idle.outcomes = <<>> /\ Held(Idle) = {} /\ NoRepeats(Idle.outcomes)
      /\ AtWork(Idle) = {} /\ Idle.at \notin Past /\ Idle.at \notin Busy \cup Holding \cup {"create"} \cup Storing
  BY IdleTyped, IdleHolds DEF AtWork, Past, Busy, Holding, Storing
<1>3. Len(s.pending) \in Nat /\ DOMAIN s.pending = 1 .. Len(s.pending) /\ Parallelism \in Nat
  BY RunFields, ProjectAssumption
<1>4. Claimed(s) = {} /\ Indices(s.report) = {} /\ NoRepeats(s.report)
  BY <1>3 DEF Claimed, Indices, NoRepeats
<1>5. SharedOK(s, threads)
  BY <1>1, <1>2, <1>4 DEF SharedOK
<1>6. PoolOK(s, threads)
  <2>1. Started(threads) = 1 .. 0 /\ 0 \in 0 .. Parallelism
    BY <1>1, <1>2, <1>3 DEF Started
  <2>2. Cardinality(PastIn(threads)) \in 0 .. Parallelism + 1
    BY PastCount
  <2>3. /\ s.next >= 1
        /\ s.next <= Len(s.pending) + Parallelism + 2
        /\ s.next <= Len(s.pending) + 1 + Cardinality(PastIn(threads))
    BY <1>3, <2>2
  <2>4. \A w \in Workers : threads[w].at \notin Past
    BY <1>1, <1>2
  <2>5. threads[Caller] = Idle /\ \E n \in 0 .. Parallelism : Started(threads) = 1 .. n
    BY <1>1, <2>1
  <2> HIDE DEF threads
  <2>6. threads = [w \in Workers |-> Idle]
    BY DEF threads
  <2>7. QED
    BY <1>1, <2>3, <2>4, <2>5, <2>6 DEF PoolOK
<1>7. \A w \in Workers : ThreadOK(s, threads[w], d, e)
  <2>1. ThreadOK(s, Idle, d, e)
    BY <1>2 DEF ThreadOK
  <2>2. QED
    BY <1>1, <2>1
<1>8. DoneOK(s) /\ ReportOK(s, d, e)
  BY DEF DoneOK, ReportOK
<1>9. QED
  BY <1>5, <1>6, <1>7, <1>8 DEF RunOK

LEMMA RunBegins ==
    ASSUME NEW o \in CommandLines, NEW d, NEW e
    PROVE  RunOK([phase |-> "collect", options |-> o, at |-> 1, complete |-> TRUE, pending |-> <<>>,
                  failed |-> {}, index |-> None, context |-> None, cached |-> FALSE, next |-> 1,
                  report |-> <<>>], [w \in Workers |-> Idle], d, e)
<1> DEFINE s == [phase |-> "collect", options |-> o, at |-> 1, complete |-> TRUE, pending |-> <<>>,
                 failed |-> {}, index |-> None, context |-> None, cached |-> FALSE, next |-> 1,
                 report |-> <<>>]
<1>1. s \in Runs
  BY DEF Runs, Phases
<1>2. /\ s.phase = "collect" /\ s.at = 1 /\ s.pending = <<>> /\ s.failed = {} /\ s.next = 1 /\ s.report = <<>>
      /\ s.options = o
  OBVIOUS
<1> HIDE DEF s
<1>3. Seen(s) = 0 /\ Retained(s) = {} /\ DOMAIN s.pending = {} /\ Len(s.pending) = 0
  BY <1>2 DEF Seen, Retained
<1>4. o.inputs \in Seq(Files) /\ MaxRetained \in Nat
  BY ProjectAssumption
<1>5. Len(Inputs(s)) \in Nat
  BY <1>2, <1>4 DEF Inputs
<1>6. {Inputs(s)[j] : j \in 1 .. 0} = {}
  OBVIOUS
<1>7. CollectedOK(s)
  BY <1>2, <1>3, <1>4, <1>5, <1>6, FS_EmptySet DEF CollectedOK
<1>8. KeptOK(s, d, e) /\ PhaseOK(s)
  BY <1>2, <1>3 DEF KeptOK, PhaseOK
<1>9. RunOK(s, [w \in Workers |-> Idle], d, e)
  BY <1>1, <1>2, <1>7, <1>8, WithoutThreads
<1>10. QED
  BY <1>9 DEF s

(* The input at hand has not been seen before. *)
LEMMA NextInput ==
    ASSUME NEW r \in Runs, CollectedOK(r), r.phase = "collect", r.at \in DOMAIN Inputs(r)
    PROVE  /\ Inputs(r)[r.at] \in Files
           /\ Inputs(r)[r.at] \notin r.failed
           /\ \A i \in DOMAIN r.pending : r.pending[i].file # Inputs(r)[r.at]
           /\ r.at \in 1 .. Len(Inputs(r)) /\ Len(Inputs(r)) \in Nat
           /\ {Inputs(r)[j] : j \in 1 .. r.at} = {Inputs(r)[j] : j \in 1 .. r.at - 1} \cup {Inputs(r)[r.at]}
<1> DEFINE inputs == Inputs(r)
           f == inputs[r.at]
<1>1. r.options \in CommandLines
  BY RunFields
<1>2. inputs \in Seq(Files) /\ IsInjective(inputs)
  BY <1>1, ProjectAssumption DEF Inputs
<1> HIDE DEF inputs
<1>3. /\ DOMAIN inputs = 1 .. Len(inputs) /\ Len(inputs) \in Nat /\ r.at \in 1 .. Len(inputs) /\ f \in Files
  BY <1>2 DEF inputs
<1>4. \A j \in 1 .. r.at - 1 : inputs[j] # f
  BY <1>2, <1>3 DEF IsInjective
<1>5. {inputs[j] : j \in 1 .. r.at - 1} = r.failed \cup {r.pending[i].file : i \in DOMAIN r.pending}
  BY DEF CollectedOK, Seen, inputs
<1>6. f \notin {inputs[j] : j \in 1 .. r.at - 1}
  BY <1>4
<1>7. f \notin r.failed /\ \A i \in DOMAIN r.pending : r.pending[i].file # f
  BY <1>5, <1>6
<1>8. 1 .. r.at = (1 .. r.at - 1) \cup {r.at}
  BY <1>3
<1>9. {inputs[j] : j \in 1 .. r.at} = {inputs[j] : j \in 1 .. r.at - 1} \cup {f}
  BY <1>8
<1>10. QED
  BY <1>3, <1>7, <1>9 DEF inputs

LEMMA AtOfRun ==
    ASSUME NEW r \in Runs, NEW at
    PROVE  [r EXCEPT !.at = at] =
           [phase |-> r.phase, options |-> r.options, at |-> at, complete |-> r.complete,
            pending |-> r.pending, failed |-> r.failed, index |-> r.index, context |-> r.context,
            cached |-> r.cached, next |-> r.next, report |-> r.report]
  BY DEF Runs

(* It is kept for the analysis, with its source or without. *)
LEMMA CollectKeeps ==
    ASSUME NEW r \in Runs, NEW d, NEW e, CollectedOK(r), KeptOK(r, d, e), PhaseOK(r),
           r.phase = "collect", r.at \in DOMAIN Inputs(r),
           NEW source \in {None} \cup Contents,
           source # None => source = d[Inputs(r)[r.at]] /\ Cardinality(Retained(r)) < MaxRetained
    PROVE  RunOK([r EXCEPT !.at = r.at + 1,
                           !.pending = Append(r.pending, [file |-> Inputs(r)[r.at], source |-> source])],
                 [w \in Workers |-> Idle], d, e)
<1> DEFINE f == Inputs(r)[r.at]
           item == [file |-> f, source |-> source]
           pending == Append(r.pending, item)
           s == [r EXCEPT !.at = r.at + 1, !.pending = pending]
           n == Len(r.pending)
<1>1. /\ f \in Files /\ f \notin r.failed
      /\ \A i \in DOMAIN r.pending : r.pending[i].file # f
      /\ r.at \in 1 .. Len(Inputs(r)) /\ Len(Inputs(r)) \in Nat
      /\ {Inputs(r)[j] : j \in 1 .. r.at} = {Inputs(r)[j] : j \in 1 .. r.at - 1} \cup {f}
  BY NextInput, Zenon
<1> HIDE DEF f
<1>2. item \in PendingFiles /\ item.file = f /\ item.source = source
  BY <1>1 DEF PendingFiles
<1> HIDE DEF item
<1>3. r.pending \in Seq(PendingFiles) /\ r.at \in Nat
  BY RunFields
<1>4. /\ pending \in Seq(PendingFiles) /\ n \in Nat /\ Len(pending) = n + 1
      /\ DOMAIN r.pending = 1 .. n /\ DOMAIN pending = 1 .. n + 1
      /\ pending[n + 1] = item /\ \A i \in 1 .. n : pending[i] = r.pending[i]
  BY <1>2, <1>3
<1> HIDE DEF pending, n
<1>5. s = [phase |-> r.phase, options |-> r.options, at |-> r.at + 1, complete |-> r.complete,
           pending |-> pending, failed |-> r.failed, index |-> r.index, context |-> r.context,
           cached |-> r.cached, next |-> r.next, report |-> r.report]
  <2> DEFINE q == [r EXCEPT !.at = r.at + 1]
  <2>1. q = [phase |-> r.phase, options |-> r.options, at |-> r.at + 1, complete |-> r.complete,
             pending |-> r.pending, failed |-> r.failed, index |-> r.index, context |-> r.context,
             cached |-> r.cached, next |-> r.next, report |-> r.report]
    BY AtOfRun
  <2>2. s = [q EXCEPT !.pending = pending]
    BY DEF Runs
  <2> HIDE DEF q, s
  <2>3. QED
    BY <2>1, <2>2
<1> HIDE DEF s
<1>6. s \in Runs
  BY <1>3, <1>4, <1>5, RunFields DEF Runs
<1>7. /\ s.phase = "collect" /\ s.at = r.at + 1 /\ s.pending = pending /\ s.failed = r.failed
      /\ s.next = 1 /\ s.report = <<>> /\ s.options = r.options
  BY <1>5 DEF PhaseOK
<1>8. Inputs(s) = Inputs(r) /\ Seen(s) = r.at /\ Seen(r) = r.at - 1
  BY <1>3, <1>7 DEF Inputs, Seen
<1>9. \A i \in 1 .. n + 1 : i \in 1 .. n \/ i = n + 1
  BY <1>4
<1>10. {s.pending[i].file : i \in DOMAIN s.pending} = {r.pending[i].file : i \in DOMAIN r.pending} \cup {f}
  BY <1>2, <1>4, <1>7, <1>9
<1>11. \A i, j \in DOMAIN s.pending : s.pending[i].file = s.pending[j].file => i = j
  BY <1>1, <1>2, <1>4, <1>7, <1>9 DEF CollectedOK
<1>12. Cardinality(Retained(s)) <= MaxRetained
  <2>1. Retained(r) \in SUBSET (1 .. n) /\ n + 1 \notin Retained(r)
    BY <1>4 DEF Retained
  <2>2. IsFiniteSet(1 .. n)
    BY <1>4, FS_Interval
  <2>3. IsFiniteSet(Retained(r)) /\ Cardinality(Retained(r)) \in Nat /\ Cardinality(Retained(r)) <= MaxRetained
    BY <2>1, <2>2, FS_Subset, FS_CardinalityType DEF CollectedOK
  <2>4. CASE source = None
    <3>1. Retained(s) = Retained(r)
      BY <1>2, <1>4, <1>7, <1>9, <2>4 DEF Retained
    <3>2. QED
      BY <2>3, <3>1
  <2>5. CASE source # None
    <3>1. Retained(s) = Retained(r) \cup {n + 1}
      BY <1>2, <1>4, <1>7, <1>9, <2>5 DEF Retained
    <3>2. Cardinality(Retained(s)) = Cardinality(Retained(r)) + 1
      BY <2>1, <2>3, <3>1, FS_AddElement
    <3>3. MaxRetained \in Nat
      BY ProjectAssumption
    <3>4. QED
      BY <2>3, <2>5, <3>2, <3>3 DEF f
  <2>6. QED
    BY <2>4, <2>5
<1>13. CollectedOK(s)
  <2>1. IsFiniteSet(s.failed) /\ Cardinality(s.failed) \in Nat /\ Cardinality(r.failed) + n = r.at - 1
    BY <1>7, <1>8, FS_CardinalityType DEF CollectedOK, n
  <2>2. Cardinality(s.failed) + Len(s.pending) = Seen(s)
    BY <1>3, <1>4, <1>7, <1>8, <2>1
  <2>3. Seen(s) \in 0 .. Len(Inputs(s))
    BY <1>1, <1>8
  <2>4. {Inputs(r)[j] : j \in 1 .. r.at - 1} = r.failed \cup {r.pending[i].file : i \in DOMAIN r.pending}
    BY <1>8 DEF CollectedOK
  <2>5. {Inputs(s)[j] : j \in 1 .. Seen(s)} = s.failed \cup {s.pending[i].file : i \in DOMAIN s.pending}
    <3>1. {Inputs(s)[j] : j \in 1 .. Seen(s)} = {Inputs(r)[j] : j \in 1 .. r.at}
      BY <1>8
    <3>2. {Inputs(r)[j] : j \in 1 .. r.at} = (r.failed \cup {r.pending[i].file : i \in DOMAIN r.pending}) \cup {f}
      BY <1>1, <2>4
    <3>3. QED
      BY <1>7, <1>10, <3>1, <3>2
  <2>6. QED
    BY <1>11, <1>12, <2>1, <2>2, <2>3, <2>5 DEF CollectedOK
<1>14. KeptOK(s, d, e)
  <2>1. ASSUME NEW i \in DOMAIN s.pending, s.pending[i].source # None
        PROVE  SourceOf(s, i, s.pending[i].source, d, e)
    <3>1. CASE i \in 1 .. n
      <4>1. s.pending[i] = r.pending[i] /\ i \in DOMAIN r.pending
        BY <1>4, <1>7, <3>1
      <4>2. QED
        BY <2>1, <4>1 DEF KeptOK, SourceOf
    <3>2. CASE i = n + 1
      <4>1. s.pending[i].source = source /\ s.pending[i].file = f /\ source # None
        BY <1>2, <1>4, <1>7, <2>1, <3>2
      <4>2. source \in Contents /\ source = d[f]
        BY <4>1 DEF f
      <4>3. QED
        BY <4>1, <4>2 DEF SourceOf
    <3>3. QED
      BY <1>4, <1>7, <1>9, <3>1, <3>2
  <2>2. QED
    BY <2>1 DEF KeptOK
<1>15. PhaseOK(s)
  BY <1>7 DEF PhaseOK
<1>16. RunOK(s, [w \in Workers |-> Idle], d, e)
  BY <1>6, <1>7, <1>13, <1>14, <1>15, WithoutThreads
<1>17. QED
  BY <1>16 DEF s, pending, item, f

(* Or it is refused. *)
LEMMA CollectRefuses ==
    ASSUME NEW r \in Runs, NEW d, NEW e, CollectedOK(r), KeptOK(r, d, e), PhaseOK(r),
           r.phase = "collect", r.at \in DOMAIN Inputs(r)
    PROVE  RunOK([r EXCEPT !.at = r.at + 1, !.complete = FALSE, !.failed = r.failed \cup {Inputs(r)[r.at]}],
                 [w \in Workers |-> Idle], d, e)
<1> DEFINE f == Inputs(r)[r.at]
           failed == r.failed \cup {f}
           s == [r EXCEPT !.at = r.at + 1, !.complete = FALSE, !.failed = failed]
<1>1. /\ f \in Files /\ f \notin r.failed
      /\ \A i \in DOMAIN r.pending : r.pending[i].file # f
      /\ r.at \in 1 .. Len(Inputs(r)) /\ Len(Inputs(r)) \in Nat
      /\ {Inputs(r)[j] : j \in 1 .. r.at} = {Inputs(r)[j] : j \in 1 .. r.at - 1} \cup {f}
  BY NextInput, Zenon
<1> HIDE DEF f
<1>3. /\ r.pending \in Seq(PendingFiles) /\ r.at \in Nat /\ Len(r.pending) \in Nat /\ r.failed \subseteq Files
      /\ r.next = 1 /\ r.report = <<>>
  BY RunFields DEF PhaseOK
<1>4. failed \subseteq Files
  BY <1>1, <1>3
<1>5. /\ s \in Runs
      /\ s.phase = "collect" /\ s.at = r.at + 1 /\ s.pending = r.pending /\ s.failed = failed
      /\ s.next = 1 /\ s.report = <<>> /\ s.options = r.options
  <2> HIDE DEF failed
  <2> DEFINE q == [r EXCEPT !.at = r.at + 1]
  <2>1. q = [phase |-> r.phase, options |-> r.options, at |-> r.at + 1, complete |-> r.complete,
             pending |-> r.pending, failed |-> r.failed, index |-> r.index, context |-> r.context,
             cached |-> r.cached, next |-> r.next, report |-> r.report]
    BY AtOfRun
  <2>2. s = [q EXCEPT !.complete = FALSE, !.failed = failed]
    BY DEF Runs
  <2> HIDE DEF q, s
  <2>3. s = [phase |-> r.phase, options |-> r.options, at |-> r.at + 1, complete |-> FALSE,
             pending |-> r.pending, failed |-> failed, index |-> r.index, context |-> r.context,
             cached |-> r.cached, next |-> r.next, report |-> r.report]
    BY <2>1, <2>2
  <2>4. s \in Runs
    BY <1>3, <1>4, <2>3, RunFields DEF Runs
  <2>5. QED
    BY <1>3, <2>3, <2>4
<1> HIDE DEF s
<1>6. Inputs(s) = Inputs(r) /\ Seen(s) = r.at /\ Seen(r) = r.at - 1 /\ Retained(s) = Retained(r)
  BY <1>3, <1>5 DEF Inputs, Seen, Retained
<1>7. CollectedOK(s)
  <2>1. IsFiniteSet(r.failed) /\ Cardinality(r.failed) \in Nat /\ Cardinality(r.failed) + Len(r.pending) = r.at - 1
    BY <1>6, FS_CardinalityType DEF CollectedOK
  <2>2. IsFiniteSet(failed) /\ Cardinality(failed) = Cardinality(r.failed) + 1
    BY <1>1, <2>1, FS_AddElement
  <2> HIDE DEF failed
  <2>3. Cardinality(s.failed) + Len(s.pending) = Seen(s)
    BY <1>3, <1>5, <1>6, <2>1, <2>2
  <2>4. Seen(s) \in 0 .. Len(Inputs(s))
    BY <1>1, <1>6
  <2>5. {Inputs(r)[j] : j \in 1 .. r.at - 1} = r.failed \cup {r.pending[i].file : i \in DOMAIN r.pending}
    BY <1>6 DEF CollectedOK
  <2>6. {Inputs(s)[j] : j \in 1 .. Seen(s)} = s.failed \cup {s.pending[i].file : i \in DOMAIN s.pending}
    <3>1. {Inputs(s)[j] : j \in 1 .. Seen(s)} = {Inputs(r)[j] : j \in 1 .. r.at}
      BY <1>6
    <3>2. {Inputs(r)[j] : j \in 1 .. r.at} = failed \cup {r.pending[i].file : i \in DOMAIN r.pending}
      BY <1>1, <2>5 DEF failed
    <3>3. QED
      BY <1>5, <3>1, <3>2
  <2>7. QED
    BY <1>5, <1>6, <2>2, <2>3, <2>4, <2>6 DEF CollectedOK
<1>8. KeptOK(s, d, e) /\ PhaseOK(s)
  BY <1>5 DEF KeptOK, SourceOf, PhaseOK
<1>9. RunOK(s, [w \in Workers |-> Idle], d, e)
  BY <1>5, <1>7, <1>8, WithoutThreads
<1>10. QED
  BY <1>9 DEF s, failed, f

(* The steps after collection. *)
Prepared(r, phase, at, index, context, cached) ==
    [phase |-> phase, options |-> r.options, at |-> at, complete |-> r.complete,
     pending |-> r.pending, failed |-> r.failed, index |-> index, context |-> context,
     cached |-> cached, next |-> r.next, report |-> r.report]

LEMMA PreparedForms ==
    ASSUME NEW r \in Runs, NEW phase, NEW at, NEW index
    PROVE  /\ [r EXCEPT !.phase = phase] = Prepared(r, phase, r.at, r.index, r.context, r.cached)
           /\ [r EXCEPT !.at = at] = Prepared(r, r.phase, at, r.index, r.context, r.cached)
           /\ [r EXCEPT !.at = at, !.index = index] = Prepared(r, r.phase, at, index, r.context, r.cached)
           /\ [r EXCEPT !.phase = phase, !.index = index] = Prepared(r, phase, r.at, index, r.context, r.cached)
<1> DEFINE phased == [r EXCEPT !.phase = phase]
           moved == [r EXCEPT !.at = at]
<1>1. r = Prepared(r, r.phase, r.at, r.index, r.context, r.cached)
  BY DEF Runs, Prepared
<1>2. /\ phased = Prepared(r, phase, r.at, r.index, r.context, r.cached)
      /\ moved = Prepared(r, r.phase, at, r.index, r.context, r.cached)
  <2> DEFINE q == Prepared(r, r.phase, r.at, r.index, r.context, r.cached)
  <2>1. [q EXCEPT !.phase = phase] = Prepared(r, phase, r.at, r.index, r.context, r.cached)
    BY DEF Prepared
  <2>2. [q EXCEPT !.at = at] = Prepared(r, r.phase, at, r.index, r.context, r.cached)
    BY DEF Prepared
  <2> HIDE DEF q
  <2>3. r = q
    BY <1>1 DEF q
  <2>4. QED
    BY <2>1, <2>2, <2>3, Zenon
<1>3. /\ [r EXCEPT !.at = at, !.index = index] = [moved EXCEPT !.index = index]
      /\ [r EXCEPT !.phase = phase, !.index = index] = [phased EXCEPT !.index = index]
  BY DEF Runs
<1> HIDE DEF phased, moved
<1>4. [moved EXCEPT !.index = index] = Prepared(r, r.phase, at, index, r.context, r.cached)
  BY <1>2 DEF Prepared
<1>5. [phased EXCEPT !.index = index] = Prepared(r, phase, r.at, index, r.context, r.cached)
  BY <1>2 DEF Prepared
<1>6. QED
  BY <1>2, <1>3, <1>4, <1>5, Zenon DEF phased, moved

LEMMA PreparedIndex ==
    ASSUME NEW r \in Runs, NEW phase, NEW at, NEW index
    PROVE  [r EXCEPT !.phase = phase, !.at = at, !.index = index]
           = Prepared(r, phase, at, index, r.context, r.cached)
<1> DEFINE phased == [r EXCEPT !.phase = phase]
           started == [phased EXCEPT !.at = at]
<1>1. phased = Prepared(r, phase, r.at, r.index, r.context, r.cached)
  BY PreparedForms
<1>2. [r EXCEPT !.phase = phase, !.at = at, !.index = index] = [started EXCEPT !.index = index]
  BY DEF Runs
<1> HIDE DEF phased
<1>3. started = Prepared(r, phase, at, r.index, r.context, r.cached)
  BY <1>1 DEF Prepared
<1> HIDE DEF started
<1>4. [started EXCEPT !.index = index] = Prepared(r, phase, at, index, r.context, r.cached)
  BY <1>3 DEF Prepared
<1>5. QED
  BY <1>2, <1>4, Zenon

LEMMA PreparedContext ==
    ASSUME NEW r \in Runs, NEW phase, NEW context, NEW cached
    PROVE  [r EXCEPT !.phase = phase, !.context = context, !.cached = cached]
           = Prepared(r, phase, r.at, r.index, context, cached)
<1> DEFINE phased == [r EXCEPT !.phase = phase]
           loaded == [phased EXCEPT !.context = context]
<1>1. phased = Prepared(r, phase, r.at, r.index, r.context, r.cached)
  BY PreparedForms
<1>2. [r EXCEPT !.phase = phase, !.context = context, !.cached = cached] = [loaded EXCEPT !.cached = cached]
  BY DEF Runs
<1> HIDE DEF phased
<1>3. loaded = Prepared(r, phase, r.at, r.index, context, r.cached)
  BY <1>1 DEF Prepared
<1> HIDE DEF loaded
<1>4. [loaded EXCEPT !.cached = cached] = Prepared(r, phase, r.at, r.index, context, cached)
  BY <1>3 DEF Prepared
<1>5. QED
  BY <1>2, <1>4, Zenon

LEMMA RunPrepares ==
    ASSUME NEW r \in Runs, NEW d, NEW e, CollectedOK(r), KeptOK(r, d, e), PhaseOK(r),
           r.phase \in {"collect", "index", "context"}, Seen(r) = Len(Inputs(r)),
           NEW phase \in {"index", "context", "spawn"}, NEW at \in Nat, NEW index \in {None} \cup SourceMaps,
           NEW context \in {None} \cup SourceMaps, NEW cached \in BOOLEAN,
           phase = "index" => at # 0 /\ index \in SourceMaps
    PROVE  RunOK(Prepared(r, phase, at, index, context, cached), [w \in Workers |-> Idle], d, e)
<1> DEFINE s == Prepared(r, phase, at, index, context, cached)
<1>1. /\ s.phase = phase /\ s.at = at /\ s.pending = r.pending /\ s.failed = r.failed /\ s.index = index
      /\ s.next = r.next /\ s.report = r.report /\ s.options = r.options
  BY DEF Prepared
<1>2. s \in Runs
  BY RunFields DEF Prepared, Runs, Phases
<1> HIDE DEF s
<1>3. r.next = 1 /\ r.report = <<>>
  BY DEF PhaseOK
<1>4. Inputs(s) = Inputs(r) /\ Retained(s) = Retained(r) /\ Seen(s) = Seen(r)
  BY <1>1 DEF Inputs, Retained, Seen
<1>5. CollectedOK(s)
  BY <1>1, <1>4 DEF CollectedOK
<1>6. KeptOK(s, d, e)
  BY <1>1 DEF KeptOK, SourceOf
<1>7. PhaseOK(s)
  BY <1>1, <1>3 DEF PhaseOK
<1>8. RunOK(s, [w \in Workers |-> Idle], d, e)
  BY <1>1, <1>2, <1>3, <1>5, <1>6, <1>7, WithoutThreads
<1>9. QED
  BY <1>8 DEF s

(* The maps from files to contents. *)
LEMMA SourceMapsAre ==
    /\ <<>> \in SourceMaps
    /\ \A m \in SourceMaps, f \in Files, c \in Contents : With(m, f, c) \in SourceMaps
    /\ \A r \in Runs : Sources(r) \in SourceMaps
<1>1. <<>> \in SourceMaps
  <2>1. <<>> \in [{} -> Contents]
    OBVIOUS
  <2>2. QED
    BY <2>1 DEF SourceMaps
<1>2. ASSUME NEW m \in SourceMaps, NEW f \in Files, NEW c \in Contents
      PROVE  With(m, f, c) \in SourceMaps
  <2>1. PICK S \in SUBSET Files : m \in [S -> Contents]
    BY DEF SourceMaps
  <2>2. With(m, f, c) \in [S \cup {f} -> Contents]
    BY <2>1 DEF With
  <2>3. S \cup {f} \in SUBSET Files
    BY <2>1
  <2>4. QED
    BY <2>2, <2>3 DEF SourceMaps
<1>3. ASSUME NEW r \in Runs
      PROVE  Sources(r) \in SourceMaps
  <2> DEFINE S == {r.pending[i].file : i \in Retained(r)}
  <2>1. \A i \in Retained(r) : r.pending[i].file \in Files /\ r.pending[i].source \in Contents
    BY PendingFields DEF Retained
  <2>2. S \in SUBSET Files
    BY <2>1
  <2>3. ASSUME NEW f \in S
        PROVE  r.pending[CHOOSE i \in Retained(r) : r.pending[i].file = f].source \in Contents
    <3>1. \E i \in Retained(r) : r.pending[i].file = f
      OBVIOUS
    <3>2. QED
      BY <2>1, <3>1
  <2>4. Sources(r) \in [S -> Contents]
    BY <2>3 DEF Sources
  <2>5. QED
    BY <2>2, <2>4 DEF SourceMaps
<1>4. QED
  BY <1>1, <1>2, <1>3

(* An edit leaves what was read as it is. *)
LEMMA RunOutlivesEdit ==
    ASSUME NEW r, NEW threads, NEW d, NEW e \in Nat, RunOK(r, threads, d, e), NEW c
    PROVE  RunOK(r, threads, c, e + 1)
<1>1. \A i, x : SourceOf(r, i, x, d, e) => SourceOf(r, i, x, c, e + 1)
  BY DEF SourceOf
<1>2. KeptOK(r, c, e + 1)
  BY <1>1 DEF RunOK, KeptOK
<1>3. ASSUME NEW o, OutcomeOK(r, o, d, e) PROVE OutcomeOK(r, o, c, e + 1)
  <2>1. SourceOf(r, o.i, o.result.content, d, e) => SourceOf(r, o.i, o.result.content, c, e + 1)
    BY <1>1
  <2>2. QED
    BY <1>3, <2>1, Zenon DEF OutcomeOK
<1>4. ReportOK(r, c, e + 1)
  BY <1>3 DEF RunOK, ReportOK
<1>5. ASSUME NEW w \in Workers PROVE ThreadOK(r, threads[w], c, e + 1)
  <2>1. ThreadOK(r, threads[w], d, e)
    BY DEF RunOK
  <2>2. SourceOf(r, threads[w].i, threads[w].content, d, e) => SourceOf(r, threads[w].i, threads[w].content, c, e + 1)
    BY <1>1
  <2>3. QED
    BY <1>3, <2>1, <2>2, Zenon DEF ThreadOK
<1>6. QED
  BY <1>2, <1>4, <1>5 DEF RunOK

-----------------------------------------------------------------------------
(* The directory. *)

(* A store goes on whatever becomes of other files. *)
LEMMA OtherStores ==
    ASSUME NEW files, NEW others, NEW n, NEW m, \A k \in Nat : k < n => k < m, NEW p, NEW r, NEW s, SameRun(r, s),
           NEW threads \in [Workers -> Threads], NEW next \in [Workers -> Threads], NEW w \in Workers,
           StoreOK(files, n, p, r, threads, w), next[w] = threads[w], next[w].at \in Storing,
           NameOf(p, r, threads[w]) \in DOMAIN files =>
               /\ NameOf(p, r, threads[w]) \in DOMAIN others
               /\ others[NameOf(p, r, threads[w])] = files[NameOf(p, r, threads[w])],
           \A v \in Workers \ {w} : next[v].at \in Storing =>
               next[v].nonce # next[w].nonce \/ next[v] = threads[v]
    PROVE  StoreOK(others, m, p, s, next, w)
<1> DEFINE name == NameOf(p, r, threads[w])
<1>1. next[w] = threads[w]
  OBVIOUS
<1>2. NameOf(p, s, next[w]) = name
  BY <1>1, SameAnalyses DEF NameOf
<1>3. /\ name \in DOMAIN files
      /\ threads[w].nonce < n
      /\ threads[w].at # "write" => files[name].state = "whole"
      /\ threads[w].at = "rename" => files[name].synced
      /\ \A v \in Workers \ {w} : threads[v].at \in Storing => threads[v].nonce # threads[w].nonce
  BY <1>1, Zenon DEF StoreOK
<1>5. name \in DOMAIN others /\ others[name] = files[name]
  BY <1>3
<1> HIDE DEF name
<1>6. next[w].nonce < m
  BY <1>1, <1>3, ThreadFields
<1>7. \A v \in Workers \ {w} : next[v].at \in Storing => next[v].nonce # next[w].nonce
  BY <1>1, <1>3
<1>8. QED
  BY <1>1, <1>2, <1>3, <1>5, <1>6, <1>7, Zenon DEF StoreOK

(* Frames keep what they say when they are written, synced or damaged. *)
LEMMA FrameKept ==
    ASSUME NEW frame, FrameOK(frame)
    PROVE  /\ \A x \in FrameStates : /\ FrameOK([frame EXCEPT !.state = x])
                                     /\ [frame EXCEPT !.state = x].state = x
                                     /\ [frame EXCEPT !.state = x].synced = frame.synced
           /\ FrameOK([frame EXCEPT !.synced = TRUE])
           /\ [frame EXCEPT !.synced = TRUE].state = frame.state
           /\ [frame EXCEPT !.synced = TRUE].synced
<1>1. frame \in Frames
  BY DEF FrameOK
<1>2. ASSUME NEW x \in FrameStates
      PROVE  /\ [frame EXCEPT !.state = x] \in Frames
             /\ [frame EXCEPT !.state = x].state = x /\ [frame EXCEPT !.state = x].synced = frame.synced
             /\ [frame EXCEPT !.state = x].key = frame.key /\ [frame EXCEPT !.state = x].result = frame.result
  BY <1>1 DEF Frames
<1>3. /\ [frame EXCEPT !.synced = TRUE] \in Frames
      /\ [frame EXCEPT !.synced = TRUE].state = frame.state /\ [frame EXCEPT !.synced = TRUE].synced = TRUE
      /\ [frame EXCEPT !.synced = TRUE].key = frame.key /\ [frame EXCEPT !.synced = TRUE].result = frame.result
  BY <1>1 DEF Frames
<1>4. ASSUME NEW x \in FrameStates PROVE FrameOK([frame EXCEPT !.state = x])
  BY <1>2 DEF FrameOK
<1>5. FrameOK([frame EXCEPT !.synced = TRUE])
  BY <1>3 DEF FrameOK
<1>6. QED
  BY <1>2, <1>3, <1>4, <1>5

-----------------------------------------------------------------------------
(* Steps of one process. *)
LEMMA RunsAreOn ==
    ASSUME NEW r \in Runs
    PROVE  r.phase # "off" /\ r # Off
  BY RunFields DEF Phases, Off

ProcessOK(r, threads, d, e) ==
    IF r.phase = "off"
    THEN r = Off /\ threads = [w \in Workers |-> Idle]
    ELSE RunOK(r, threads, d, e)

LEMMA ProcessIsOn ==
    ASSUME NEW r, NEW threads, NEW d, NEW e, RunOK(r, threads, d, e)
    PROVE  ProcessOK(r, threads, d, e)
<1>1. r \in Runs
  BY DEF RunOK
<1>2. QED
  BY <1>1, RunsAreOn DEF ProcessOK

LEMMA ProcessIsOff ==
    ASSUME NEW d, NEW e
    PROVE  ProcessOK(Off, [w \in Workers |-> Idle], d, e)
  BY DEF ProcessOK, Off

(* Only process p takes a step, its nonce does not fall while it stores. *)
OthersStay(p) ==
    /\ run' = [run EXCEPT ![p] = run'[p]]
    /\ worker' = [worker EXCEPT ![p] = worker'[p]]
    /\ nonce' = [nonce EXCEPT ![p] = nonce'[p]]
    /\ nonce'[p] \in Nat
    /\ UNCHANGED <<disk, edits, faults>>
    /\ worker'[p] \in [Workers -> Threads]
    /\ ProcessOK(run'[p], worker'[p], disk, edits)

StoreUntouched(p, w) ==
    \/ worker[p][w].at \notin Storing /\ worker'[p][w].at \notin Storing
    \/ worker'[p][w] = worker[p][w] /\ SameRun(run[p], run'[p]) /\ nonce[p] <= nonce'[p]

LEMMA OthersAre ==
    ASSUME ProjectInv, NEW p \in Pids, OthersStay(p)
    PROVE  /\ Typed'
           /\ RunsOK'
           /\ \A q \in Pids \ {p} : run'[q] = run[q] /\ worker'[q] = worker[q] /\ nonce'[q] = nonce[q]
           /\ worker \in [Pids -> [Workers -> Threads]] /\ nonce \in [Pids -> Nat]
<1>1. Typed
  BY DEF ProjectInv
<1>2. \A q \in Pids \ {p} : run'[q] = run[q] /\ worker'[q] = worker[q] /\ nonce'[q] = nonce[q]
  BY <1>1 DEF Typed, OthersStay
<1>3. Typed'
  <2>1. disk' \in [Files -> Contents \cup {Unreadable}] /\ edits' \in Nat /\ faults' \in Nat
    BY <1>1 DEF Typed, OthersStay
  <2>2. nonce' \in [Pids -> Nat] /\ worker' \in [Pids -> [Workers -> Threads]]
    BY <1>1 DEF Typed, OthersStay
  <2>3. run' = [q \in Pids |-> run'[q]]
    BY <1>1 DEF Typed, OthersStay
  <2>4. QED
    BY <2>1, <2>2, <2>3 DEF Typed
<1>4. RunsOK'
  <2>1. disk' = disk /\ edits' = edits
    BY DEF OthersStay
  <2>2. ASSUME NEW q \in Pids PROVE ProcessOK(run'[q], worker'[q], disk', edits')
    <3>1. CASE q = p
      BY <2>1, <3>1 DEF OthersStay
    <3>2. CASE q # p
      <4>1. ProcessOK(run[q], worker[q], disk, edits)
        BY DEF ProjectInv, RunsOK, ProcessOK
      <4>2. QED
        BY <1>2, <2>1, <3>2, <4>1
    <3>3. QED
      BY <3>1, <3>2
  <2>3. QED
    BY <2>2 DEF RunsOK, ProcessOK
<1>5. QED
  BY <1>1, <1>2, <1>3, <1>4 DEF Typed

LEMMA ProcessStep ==
    ASSUME ProjectInv, NEW p \in Pids, OthersStay(p), UNCHANGED directory,
           \A w \in Workers : StoreUntouched(p, w)
    PROVE  ProjectInv'
<1>1. /\ Typed' /\ RunsOK'
      /\ \A q \in Pids \ {p} : run'[q] = run[q] /\ worker'[q] = worker[q] /\ nonce'[q] = nonce[q]
      /\ worker \in [Pids -> [Workers -> Threads]] /\ nonce \in [Pids -> Nat]
  BY OthersAre
<1>2. entries' = entries /\ temps' = temps /\ faults' = faults
  BY DEF directory, OthersStay
<1>3. FilesOK'
  BY <1>2 DEF ProjectInv, FilesOK
<1>4. ASSUME NEW q \in Pids, NEW w \in Workers
      PROVE  StoreOK(temps, nonce'[q], q, run'[q], worker'[q], w)
  <2>1. StoreOK(temps, nonce[q], q, run[q], worker[q], w)
    BY DEF ProjectInv, StoresOK
  <2>2. CASE q # p
    BY <1>1, <2>1, <2>2
  <2>3. CASE q = p /\ worker'[p][w].at \notin Storing
    BY <2>3, Zenon DEF StoreOK
  <2>4. CASE q = p /\ worker'[p][w].at \in Storing
    <3>1. worker'[p][w] = worker[p][w] /\ SameRun(run[p], run'[p]) /\ nonce[p] <= nonce'[p]
      BY <2>4 DEF StoreUntouched
    <3>2. \A v \in Workers : worker'[p][v].at \in Storing => worker'[p][v] = worker[p][v]
      BY DEF StoreUntouched
    <3>3. nonce[p] \in Nat /\ nonce'[p] \in Nat /\ worker[p] \in [Workers -> Threads] /\ worker'[p] \in [Workers -> Threads]
      BY <1>1 DEF OthersStay
    <3>4. StoreOK(temps, nonce[p], p, run[p], worker[p], w)
      BY <2>1, <2>4
    <3>5. StoreOK(temps, nonce'[p], p, run'[p], worker'[p], w)
      <4> DEFINE next == worker'[p]
                 threads == worker[p]
                 s == run'[p]
                 r == run[p]
                 n == nonce[p]
                 m == nonce'[p]
      <4>1. /\ next \in [Workers -> Threads] /\ threads \in [Workers -> Threads] /\ n \in Nat /\ m \in Nat /\ n <= m
            /\ SameRun(r, s) /\ StoreOK(temps, n, p, r, threads, w) /\ next[w] = threads[w] /\ next[w].at \in Storing
        BY <2>4, <3>1, <3>3, <3>4
      <4>2. \A v \in Workers \ {w} : next[v].at \in Storing => next[v].nonce # next[w].nonce \/ next[v] = threads[v]
        BY <3>2
      <4>0. \A k \in Nat : k < n => k < m
        BY <4>1
      <4> HIDE DEF next, threads, s, r, n, m
      <4>3. StoreOK(temps, m, p, s, next, w)
        BY <4>0, <4>1, <4>2, OtherStores
      <4>4. QED
        BY <4>3 DEF m, s, next
    <3>6. QED
      BY <2>4, <3>5
  <2>5. QED
    BY <2>2, <2>3, <2>4
<1>5. StoresOK'
  BY <1>2, <1>4 DEF StoresOK
<1>6. TempsOwned'
  <2>1. SUFFICES ASSUME faults = 0, NEW name \in DOMAIN temps
                 PROVE  \E q \in Pids, w \in Workers : Owns(q, run'[q], worker'[q][w], name)
    BY <1>2 DEF TempsOwned
  <2>2. PICK q \in Pids, w \in Workers : Owns(q, run[q], worker[q][w], name)
    BY <2>1 DEF ProjectInv, TempsOwned
  <2>3. Owns(q, run'[q], worker'[q][w], name)
    <3>1. CASE q # p
      BY <1>1, <2>2, <3>1
    <3>2. CASE q = p
      <4>1. worker[p][w].at \in Storing
        BY <2>2, <3>2 DEF Owns
      <4>2. worker'[p][w] = worker[p][w] /\ SameRun(run[p], run'[p])
        BY <4>1 DEF StoreUntouched
      <4>3. NameOf(p, run'[p], worker'[p][w]) = NameOf(p, run[p], worker[p][w])
        BY <4>2, SameAnalyses DEF NameOf
      <4>4. QED
        BY <2>2, <3>2, <4>2, <4>3 DEF Owns
    <3>3. QED
      BY <3>1, <3>2
  <2>4. QED
    BY <2>3
<1>7. QED
  BY <1>1, <1>3, <1>5, <1>6 DEF ProjectInv

(* A thread creates, fills, renames or removes its temporary file. *)
LEMMA StoreStep ==
    ASSUME ProjectInv, NEW p \in Pids, NEW w \in Workers, OthersStay(p), run'[p] = run[p], FilesOK',
           nonce[p] <= nonce'[p],
           \A v \in Workers \ {w} : worker'[p][v] = worker[p][v],
           NEW target,
           \A name \in DOMAIN temps \ {target} : name \in DOMAIN temps' /\ temps'[name] = temps[name],
           DOMAIN temps' \subseteq DOMAIN temps \cup {target},
           worker[p][w].at \in Storing => NameOf(p, run[p], worker[p][w]) = target,
           worker[p][w].at \notin Storing => target \notin DOMAIN temps,
           worker'[p][w].at \in Storing => NameOf(p, run[p], worker'[p][w]) = target,
           worker'[p][w].at \notin Storing => target \notin DOMAIN temps',
           StoreOK(temps', nonce'[p], p, run[p], worker'[p], w)
    PROVE  ProjectInv'
<1>1. /\ Typed' /\ RunsOK'
      /\ \A q \in Pids \ {p} : run'[q] = run[q] /\ worker'[q] = worker[q] /\ nonce'[q] = nonce[q]
      /\ worker \in [Pids -> [Workers -> Threads]] /\ nonce \in [Pids -> Nat]
  BY OthersAre
<1>2. \A q \in Pids : run'[q] = run[q]
  BY <1>1
<1>3. ASSUME NEW q \in Pids, NEW v \in Workers, ~(q = p /\ v = w), worker[q][v].at \in Storing
      PROVE  /\ NameOf(q, run[q], worker[q][v]) # target
             /\ worker'[q][v] = worker[q][v]
             /\ NameOf(q, run[q], worker[q][v]) \in DOMAIN temps
  <2>1. StoreOK(temps, nonce[q], q, run[q], worker[q], v)
    BY DEF ProjectInv, StoresOK
  <2>2. NameOf(q, run[q], worker[q][v]) \in DOMAIN temps
    BY <1>3, <2>1, Zenon DEF StoreOK
  <2>3. CASE worker[p][w].at \in Storing
    <3>1. NameOf(q, run[q], worker[q][v]) # NameOf(p, run[p], worker[p][w])
      <4>1. /\ NameOf(q, run[q], worker[q][v]).pid = q
            /\ NameOf(q, run[q], worker[q][v]).nonce = worker[q][v].nonce
            /\ NameOf(p, run[p], worker[p][w]).pid = p
            /\ NameOf(p, run[p], worker[p][w]).nonce = worker[p][w].nonce
        BY DEF NameOf, TempName
      <4>2. CASE q # p
        BY <4>1, <4>2
      <4>3. CASE q = p
        <5>1. worker[q][w].at \in Storing /\ w \in Workers \ {v}
          BY <1>3, <2>3, <4>3
        <5>2. worker[q][w].nonce # worker[q][v].nonce
          BY <1>3, <2>1, <5>1, Zenon DEF StoreOK
        <5>3. QED
          BY <4>1, <4>3, <5>2
      <4>4. QED
        BY <4>2, <4>3
    <3>2. QED
      BY <1>1, <1>3, <2>2, <2>3, <3>1
  <2>4. CASE worker[p][w].at \notin Storing
    BY <1>1, <1>3, <2>2, <2>4
  <2>5. QED
    BY <2>3, <2>4
<1>4. ASSUME NEW q \in Pids, NEW v \in Workers
      PROVE  StoreOK(temps', nonce'[q], q, run[q], worker'[q], v)
  <2>1. CASE q = p /\ v = w
    BY <2>1
  <2>2. CASE ~(q = p /\ v = w) /\ worker'[q][v].at \notin Storing
    BY <2>2, Zenon DEF StoreOK
  <2>3. CASE ~(q = p /\ v = w) /\ worker'[q][v].at \in Storing
    <3> DEFINE threads == worker[q]
               next == worker'[q]
               n == nonce[q]
               m == nonce'[q]
               r == run[q]
               files == temps
               others == temps'
    <3>1. next[v] = threads[v]
      BY <1>1, <2>3
    <3>2. /\ threads \in [Workers -> Threads] /\ next \in [Workers -> Threads]
      BY <1>1 DEF OthersStay
    <3>3. \A k \in Nat : k < n => k < m
      <4>1. n \in Nat /\ m \in Nat /\ n <= m
        BY <1>1 DEF OthersStay
      <4>2. QED
        BY <4>1
    <3>4. NameOf(q, r, threads[v]) \in DOMAIN others /\ others[NameOf(q, r, threads[v])] = files[NameOf(q, r, threads[v])]
      BY <1>3, <2>3, <3>1
    <3>5. \A u \in Workers \ {v} : next[u].at \in Storing => next[u].nonce # next[v].nonce \/ next[u] = threads[u]
      <4>1. CASE q # p
        BY <1>1, <4>1
      <4>2. CASE q = p
        <5>1. \A u \in Workers \ {w} : worker'[p][u].at \in Storing /\ worker'[p][w].at \in Storing =>
                worker'[p][u].nonce # worker'[p][w].nonce
          BY Zenon DEF StoreOK
        <5>2. QED
          BY <2>3, <4>2, <5>1
      <4>3. QED
        BY <4>1, <4>2
    <3>6. StoreOK(files, n, q, r, threads, v) /\ SameRun(r, r)
      BY DEF ProjectInv, StoresOK, SameRun
    <3>7. next[v].at \in Storing
      BY <2>3
    <3> HIDE DEF threads, next, n, m, r, files, others
    <3>8. StoreOK(others, m, q, r, next, v)
      BY <3>1, <3>2, <3>3, <3>4, <3>5, <3>6, <3>7, OtherStores
    <3>9. QED
      BY <3>8 DEF others, m, r, next
  <2>4. QED
    BY <2>1, <2>2, <2>3
<1>5. StoresOK'
  BY <1>2, <1>4 DEF StoresOK
<1>6. TempsOwned'
  <2>1. faults' = faults
    BY DEF OthersStay
  <2>2. SUFFICES ASSUME faults = 0, NEW name \in DOMAIN temps'
                 PROVE  \E q \in Pids, v \in Workers : Owns(q, run[q], worker'[q][v], name)
    BY <1>2, <2>1 DEF TempsOwned
  <2>3. CASE name = target
    <3>1. Owns(p, run[p], worker'[p][w], name)
      BY <2>3 DEF Owns
    <3>2. QED
      BY <3>1
  <2>4. CASE name # target
    <3>1. name \in DOMAIN temps
      BY <2>4
    <3>2. PICK q \in Pids, v \in Workers : Owns(q, run[q], worker[q][v], name)
      BY <2>2, <3>1 DEF ProjectInv, TempsOwned
    <3>3. ~(q = p /\ v = w)
      BY <2>4, <3>2 DEF Owns
    <3>4. worker'[q][v] = worker[q][v]
      BY <1>1, <3>3
    <3>5. QED
      BY <3>2, <3>4
  <2>5. QED
    BY <2>3, <2>4
<1>7. QED
  BY <1>1, <1>5, <1>6 DEF ProjectInv

-----------------------------------------------------------------------------
(* What the invariant says of one process. *)
LEMMA ProcessHolds ==
    ASSUME ProjectInv, NEW p \in Pids
    PROVE  /\ Typed
           /\ worker[p] \in [Workers -> Threads] /\ nonce[p] \in Nat /\ edits \in Nat /\ faults \in Nat
           /\ ProcessOK(run[p], worker[p], disk, edits)
           /\ run[p].phase # "off" => RunOK(run[p], worker[p], disk, edits)
           /\ \A w \in Workers : worker[p][w].at # "absent" => RunOK(run[p], worker[p], disk, edits)
<1>1. Typed
  BY DEF ProjectInv
<1>2. ProcessOK(run[p], worker[p], disk, edits)
  BY DEF ProjectInv, RunsOK, ProcessOK
<1>3. run[p].phase # "off" => RunOK(run[p], worker[p], disk, edits)
  BY <1>2 DEF ProcessOK
<1>4. ASSUME NEW w \in Workers, worker[p][w].at # "absent" PROVE RunOK(run[p], worker[p], disk, edits)
  <2>1. worker[p] # [v \in Workers |-> Idle]
    BY <1>4, IdleTyped
  <2>2. QED
    BY <1>2, <2>1 DEF ProcessOK
<1>5. QED
  BY <1>1, <1>2, <1>3, <1>4 DEF Typed

LEMMA RunsAfter ==
    ASSUME Typed, NEW p \in Pids, NEW s, run' = [run EXCEPT ![p] = s]
    PROVE  run'[p] = s /\ run' = [run EXCEPT ![p] = run'[p]]
<1>1. p \in DOMAIN run
  BY DEF Typed
<1>2. run'[p] = s
  BY <1>1
<1>3. QED
  BY <1>2

LEMMA WorkersAfter ==
    ASSUME Typed, NEW p \in Pids, NEW t, worker' = [worker EXCEPT ![p] = t]
    PROVE  worker'[p] = t /\ worker' = [worker EXCEPT ![p] = worker'[p]]
<1>1. p \in DOMAIN worker
  BY DEF Typed
<1>2. worker'[p] = t
  BY <1>1
<1>3. QED
  BY <1>2

LEMMA NoncesAfter ==
    ASSUME Typed, NEW p \in Pids, NEW n, nonce' = [nonce EXCEPT ![p] = n]
    PROVE  nonce'[p] = n /\ nonce' = [nonce EXCEPT ![p] = nonce'[p]]
  BY DEF Typed

LEMMA NoChange ==
    ASSUME Typed, NEW p \in Pids
    PROVE  /\ run = [run EXCEPT ![p] = run[p]]
           /\ worker = [worker EXCEPT ![p] = worker[p]]
           /\ nonce = [nonce EXCEPT ![p] = nonce[p]]
  BY DEF Typed

(* A step of a process that has no threads. *)
LEMMA SoloStep ==
    ASSUME ProjectInv, NEW p \in Pids, run' = [run EXCEPT ![p] = run'[p]],
           nonce' = [nonce EXCEPT ![p] = nonce'[p]], nonce'[p] \in Nat,
           UNCHANGED <<directory, disk, worker, edits, faults>>, worker[p] = [w \in Workers |-> Idle],
           ProcessOK(run'[p], [w \in Workers |-> Idle], disk, edits)
    PROVE  ProjectInv'
<1>1. Typed /\ worker[p] \in [Workers -> Threads]
  BY ProcessHolds
<1>2. worker' = worker
  OBVIOUS
<1>3. worker = [worker EXCEPT ![p] = worker[p]]
  BY <1>1, NoChange
<1>4. OthersStay(p)
  BY <1>1, <1>2, <1>3 DEF OthersStay
<1>5. ASSUME NEW w \in Workers PROVE StoreUntouched(p, w)
  <2>1. worker[p][w] = Idle /\ worker'[p][w] = Idle
    BY <1>2
  <2>2. Idle.at \notin Storing
    BY IdleTyped DEF Storing
  <2>3. QED
    BY <2>1, <2>2 DEF StoreUntouched
<1>6. UNCHANGED directory
  BY DEF directory
<1>7. QED
  BY <1>4, <1>5, <1>6, ProcessStep

LEMMA BeginKeeps ==
    ASSUME ProjectInv, NEW p \in Pids, Begin(p)
    PROVE  ProjectInv'
<1>1. PICK o \in CommandLines : run' = [run EXCEPT ![p] =
              [phase |-> "collect", options |-> o, at |-> 1, complete |-> TRUE, pending |-> <<>>,
               failed |-> {}, index |-> None, context |-> None, cached |-> FALSE, next |-> 1,
               report |-> <<>>]]
  BY DEF Begin
<1> DEFINE s == [phase |-> "collect", options |-> o, at |-> 1, complete |-> TRUE, pending |-> <<>>,
               failed |-> {}, index |-> None, context |-> None, cached |-> FALSE, next |-> 1,
               report |-> <<>>]
<1>2. RunOK(s, [w \in Workers |-> Idle], disk, edits)
  BY RunBegins
<1>3. run' = [run EXCEPT ![p] = s]
  BY <1>1
<1> HIDE DEF s
<1>4. Typed /\ ProcessOK(run[p], worker[p], disk, edits) /\ nonce[p] \in Nat
  BY ProcessHolds
<1>5. run'[p] = s /\ run' = [run EXCEPT ![p] = run'[p]]
  BY <1>3, <1>4, RunsAfter
<1>6. ProcessOK(run'[p], [w \in Workers |-> Idle], disk, edits)
  BY <1>2, <1>5, ProcessIsOn
<1>7. worker[p] = [w \in Workers |-> Idle]
  BY <1>4 DEF Begin, ProcessOK
<1>8. nonce' = [nonce EXCEPT ![p] = nonce'[p]] /\ nonce'[p] \in Nat
  <2>1. nonce' = [nonce EXCEPT ![p] = 0]
    BY DEF Begin
  <2>2. QED
    BY <1>4, <2>1 DEF Typed
<1>9. UNCHANGED <<directory, disk, worker, edits, faults>>
  BY DEF Begin
<1>10. QED
  BY <1>5, <1>6, <1>7, <1>8, <1>9, SoloStep

LEMMA ExitKeeps ==
    ASSUME ProjectInv, NEW p \in Pids, Exit(p)
    PROVE  ProjectInv'
<1>1. Typed /\ nonce[p] \in Nat /\ (run[p].phase # "off" => RunOK(run[p], worker[p], disk, edits))
  BY ProcessHolds
<1>2. run[p].phase = "done" /\ run' = [run EXCEPT ![p] = Off]
  BY DEF Exit
<1>3. run'[p] = Off /\ run' = [run EXCEPT ![p] = run'[p]]
  BY <1>1, <1>2, RunsAfter
<1>4. ProcessOK(run'[p], [w \in Workers |-> Idle], disk, edits)
  BY <1>3, ProcessIsOff
<1>5. worker[p] = [w \in Workers |-> Idle]
  BY <1>1, <1>2 DEF RunOK, PoolOK
<1>6. UNCHANGED <<directory, disk, worker, edits, faults>> /\ nonce' = nonce
  BY DEF Exit
<1>7. nonce' = [nonce EXCEPT ![p] = nonce'[p]] /\ nonce'[p] \in Nat
  BY <1>1, <1>6, NoChange
<1>8. QED
  BY <1>3, <1>4, <1>5, <1>6, <1>7, SoloStep

(* A step of a process that has not started its threads. *)
LEMMA EarlyStep ==
    ASSUME ProjectInv, NEW p \in Pids, run[p].phase \in {"collect", "index", "context"},
           NEW s, run' = [run EXCEPT ![p] = s], RunOK(s, [w \in Workers |-> Idle], disk, edits),
           UNCHANGED <<directory, disk, worker, nonce, edits, faults>>
    PROVE  ProjectInv'
<1>1. Typed /\ nonce[p] \in Nat /\ (run[p].phase # "off" => RunOK(run[p], worker[p], disk, edits))
  BY ProcessHolds
<1>2. run'[p] = s /\ run' = [run EXCEPT ![p] = run'[p]]
  BY <1>1, RunsAfter
<1>3. ProcessOK(run'[p], [w \in Workers |-> Idle], disk, edits)
  BY <1>2, ProcessIsOn
<1>4. worker[p] = [w \in Workers |-> Idle]
  BY <1>1 DEF RunOK, PoolOK
<1>5. nonce' = [nonce EXCEPT ![p] = nonce'[p]] /\ nonce'[p] \in Nat
  BY <1>1, NoChange
<1>6. QED
  BY <1>2, <1>3, <1>4, <1>5, SoloStep

LEMMA EarlyRun ==
    ASSUME ProjectInv, NEW p \in Pids, run[p].phase \in {"collect", "index", "context"}
    PROVE  /\ run[p] \in Runs /\ CollectedOK(run[p]) /\ KeptOK(run[p], disk, edits) /\ PhaseOK(run[p])
           /\ disk \in [Files -> Contents \cup {Unreadable}]
<1>1. Typed /\ (run[p].phase # "off" => RunOK(run[p], worker[p], disk, edits))
  BY ProcessHolds
<1>2. QED
  BY <1>1 DEF RunOK, Typed

LEMMA CollectKeepsInv ==
    ASSUME ProjectInv, NEW p \in Pids, Collect(p)
    PROVE  ProjectInv'
<1> DEFINE r == run[p]
           f == Inputs(r)[r.at]
           keep == RetainSources(r) \/ (Opportunistic(r) /\ f \in JsTsFiles)
           fits == disk[f] \in Contents /\ Cardinality(Retained(r)) < MaxRetained
           kept == [r EXCEPT !.at = r.at + 1, !.pending = Append(r.pending, [file |-> f, source |-> disk[f]])]
           refused == [r EXCEPT !.at = r.at + 1, !.complete = FALSE, !.failed = r.failed \cup {f}]
           left == [r EXCEPT !.at = r.at + 1, !.pending = Append(r.pending, [file |-> f, source |-> None])]
<1>1. r.phase = "collect" /\ r.at \in DOMAIN Inputs(r)
  BY DEF Collect
<1>2. /\ r \in Runs /\ CollectedOK(r) /\ KeptOK(r, disk, edits) /\ PhaseOK(r)
  BY <1>1, EarlyRun
<1>3. run' = [run EXCEPT ![p] = IF keep /\ fits THEN kept ELSE IF keep /\ ~Opportunistic(r) THEN refused ELSE left]
  BY Zenon DEF Collect
<1>4. keep /\ fits => RunOK(kept, [w \in Workers |-> Idle], disk, edits)
  <2> SUFFICES ASSUME keep, fits PROVE RunOK(kept, [w \in Workers |-> Idle], disk, edits)
    OBVIOUS
  <2>1. disk[f] \in {None} \cup Contents /\ Cardinality(Retained(r)) < MaxRetained
    OBVIOUS
  <2> HIDE DEF r
  <2>2. QED
    BY <1>1, <1>2, <2>1, CollectKeeps
<1>5. RunOK(refused, [w \in Workers |-> Idle], disk, edits)
  <2> HIDE DEF r
  <2>1. QED
    BY <1>1, <1>2, CollectRefuses
<1>6. RunOK(left, [w \in Workers |-> Idle], disk, edits)
  <2> HIDE DEF r
  <2>1. QED
    BY <1>1, <1>2, CollectKeeps
<1>7. UNCHANGED <<directory, disk, worker, nonce, edits, faults>> /\ run[p].phase = "collect"
  BY DEF Collect
<1> HIDE DEF r, keep, fits, kept, refused, left
<1>8. CASE keep /\ fits
  <2>1. run' = [run EXCEPT ![p] = kept]
    BY <1>3, <1>8
  <2>2. QED
    BY <1>4, <1>7, <1>8, <2>1, EarlyStep
<1>9. CASE ~(keep /\ fits) /\ keep /\ ~Opportunistic(r)
  <2>1. run' = [run EXCEPT ![p] = refused]
    BY <1>3, <1>9
  <2>2. QED
    BY <1>5, <1>7, <2>1, EarlyStep
<1>10. CASE ~(keep /\ fits) /\ ~(keep /\ ~Opportunistic(r))
  <2>1. run' = [run EXCEPT ![p] = left]
    BY <1>3, <1>10
  <2>2. QED
    BY <1>6, <1>7, <2>1, EarlyStep
<1>11. QED
  BY <1>8, <1>9, <1>10

LEMMA CollectDoneKeeps ==
    ASSUME ProjectInv, NEW p \in Pids, CollectDone(p)
    PROVE  ProjectInv'
<1> DEFINE r == run[p]
           none == [r EXCEPT !.phase = "context"]
           some == [r EXCEPT !.phase = "index", !.at = 1, !.index = <<>>]
<1>1. r.phase = "collect" /\ r.at \notin DOMAIN Inputs(r)
  BY DEF CollectDone
<1>2. /\ r \in Runs /\ CollectedOK(r) /\ KeptOK(r, disk, edits) /\ PhaseOK(r)
  BY <1>1, EarlyRun
<1>3. run' = [run EXCEPT ![p] = IF Cardinality(CSharpInputs(r)) < 2 THEN none ELSE some]
  BY Zenon DEF CollectDone
<1>4. UNCHANGED <<directory, disk, worker, nonce, edits, faults>> /\ run[p].phase = "collect"
  BY DEF CollectDone
<1> HIDE DEF r
<1>5. Seen(r) = Len(Inputs(r))
  <2>1. Inputs(r) \in Seq(Files)
    BY <1>2, RunFields, ProjectAssumption DEF Inputs
  <2>2. DOMAIN Inputs(r) = 1 .. Len(Inputs(r)) /\ Len(Inputs(r)) \in Nat
    BY <2>1
  <2>3. r.at \in Nat
    BY <1>2, RunFields
  <2>4. r.at - 1 \in 0 .. Len(Inputs(r))
    BY <1>1, <1>2 DEF CollectedOK, Seen
  <2>5. r.at - 1 = Len(Inputs(r))
    BY <1>1, <2>2, <2>3, <2>4
  <2>6. QED
    BY <1>1, <2>5 DEF Seen
<1>6. RunOK(none, [w \in Workers |-> Idle], disk, edits)
  <2>1. none = Prepared(r, "context", r.at, r.index, r.context, r.cached)
    BY <1>2, PreparedForms
  <2>2. RunOK(Prepared(r, "context", r.at, r.index, r.context, r.cached), [w \in Workers |-> Idle], disk, edits)
    BY <1>1, <1>2, <1>5, RunFields, RunPrepares
  <2>3. QED
    BY <2>1, <2>2
<1>7. RunOK(some, [w \in Workers |-> Idle], disk, edits)
  <2> DEFINE empty == <<>>
             at == 1
             phase == "index"
  <2>1. empty \in SourceMaps /\ at \in Nat /\ at # 0 /\ phase = "index"
    BY SourceMapsAre
  <2> HIDE DEF empty, at, phase
  <2>2. [r EXCEPT !.phase = phase, !.at = at, !.index = empty] = Prepared(r, phase, at, empty, r.context, r.cached)
    BY <1>2, PreparedIndex, Zenon
  <2>3. RunOK(Prepared(r, phase, at, empty, r.context, r.cached), [w \in Workers |-> Idle], disk, edits)
    BY <1>1, <1>2, <1>5, <2>1, RunFields, RunPrepares
  <2>4. QED
    BY <2>2, <2>3 DEF empty, at, phase
<1> HIDE DEF none, some
<1>8. CASE Cardinality(CSharpInputs(r)) < 2
  <2>1. run' = [run EXCEPT ![p] = none]
    BY <1>3, <1>8
  <2>2. QED
    BY <1>4, <1>6, <2>1, EarlyStep
<1>9. CASE ~(Cardinality(CSharpInputs(r)) < 2)
  <2>1. run' = [run EXCEPT ![p] = some]
    BY <1>3, <1>9
  <2>2. QED
    BY <1>4, <1>7, <2>1, EarlyStep
<1>10. QED
  BY <1>8, <1>9

LEMMA IndexKeeps ==
    ASSUME ProjectInv, NEW p \in Pids, Index(p)
    PROVE  ProjectInv'
<1> DEFINE r == run[p]
           f == r.pending[r.at].file
           read == [r EXCEPT !.at = r.at + 1, !.index = With(r.index, f, disk[f])]
           skipped == [r EXCEPT !.at = r.at + 1]
           enough == IF Cardinality(DOMAIN r.index) < 2 THEN None ELSE r.index
           built == [r EXCEPT !.phase = "context", !.index = enough]
<1>1. r.phase = "index"
  BY DEF Index
<1>2. /\ r \in Runs /\ CollectedOK(r) /\ KeptOK(r, disk, edits) /\ PhaseOK(r)
  BY <1>1, EarlyRun
<1>3. IF r.at \in DOMAIN r.pending
      THEN run' = [run EXCEPT ![p] = IF r.at \in CSharpInputs(r) /\ disk[f] \in Contents THEN read ELSE skipped]
      ELSE run' = [run EXCEPT ![p] = built]
  BY Zenon DEF Index
<1>4. UNCHANGED <<directory, disk, worker, nonce, edits, faults>> /\ run[p].phase = "index"
  BY DEF Index
<1> HIDE DEF r
<1>5. Seen(r) = Len(Inputs(r)) /\ r.at \in Nat \ {0} /\ r.index \in SourceMaps
  BY <1>1, <1>2 DEF Seen, PhaseOK
<1>6. r.at + 1 \in Nat /\ r.at + 1 # 0
  BY <1>5
<1>7. ASSUME r.at \in DOMAIN r.pending, disk[f] \in Contents
      PROVE  RunOK(read, [w \in Workers |-> Idle], disk, edits)
  <2>1. f \in Files
    BY <1>2, <1>7, PendingFields
  <2>2. With(r.index, f, disk[f]) \in SourceMaps
    BY <1>5, <1>7, <2>1, SourceMapsAre
  <2> DEFINE more == With(r.index, f, disk[f])
             at == r.at + 1
  <2>3. more \in SourceMaps /\ at \in Nat /\ at # 0
    BY <1>6, <2>2
  <2> HIDE DEF more, at
  <2>4. [r EXCEPT !.at = at, !.index = more] = Prepared(r, r.phase, at, more, r.context, r.cached)
    BY <1>2, PreparedForms, Zenon
  <2>5. RunOK(Prepared(r, "index", at, more, r.context, r.cached), [w \in Workers |-> Idle], disk, edits)
    BY <1>1, <1>2, <1>5, <2>3, RunFields, RunPrepares
  <2>6. QED
    BY <1>1, <2>4, <2>5 DEF more, at
<1>8. RunOK(skipped, [w \in Workers |-> Idle], disk, edits)
  <2> DEFINE at == r.at + 1
  <2>3. at \in Nat /\ at # 0
    BY <1>6
  <2> HIDE DEF at
  <2>4. [r EXCEPT !.at = at] = Prepared(r, "index", at, r.index, r.context, r.cached)
    BY <1>1, <1>2, PreparedForms
  <2>5. RunOK(Prepared(r, "index", at, r.index, r.context, r.cached), [w \in Workers |-> Idle], disk, edits)
    BY <1>1, <1>2, <1>5, <2>3, RunFields, RunPrepares
  <2>6. QED
    BY <2>4, <2>5 DEF at
<1>9. RunOK(built, [w \in Workers |-> Idle], disk, edits)
  <2>1. enough \in {None} \cup SourceMaps
    BY <1>5
  <2> HIDE DEF enough
  <2>2. built = Prepared(r, "context", r.at, enough, r.context, r.cached)
    BY <1>2, PreparedForms
  <2>3. RunOK(Prepared(r, "context", r.at, enough, r.context, r.cached), [w \in Workers |-> Idle], disk, edits)
    BY <1>1, <1>2, <1>5, <2>1, RunFields, RunPrepares
  <2>4. QED
    BY <2>2, <2>3
<1> HIDE DEF read, skipped, built, f
<1>10. CASE r.at \in DOMAIN r.pending /\ r.at \in CSharpInputs(r) /\ disk[f] \in Contents
  <2>1. run' = [run EXCEPT ![p] = read]
    BY <1>3, <1>10
  <2>2. QED
    BY <1>4, <1>7, <1>10, <2>1, EarlyStep
<1>11. CASE r.at \in DOMAIN r.pending /\ ~(r.at \in CSharpInputs(r) /\ disk[f] \in Contents)
  <2>1. run' = [run EXCEPT ![p] = skipped]
    BY <1>3, <1>11
  <2>2. QED
    BY <1>4, <1>8, <2>1, EarlyStep
<1>12. CASE r.at \notin DOMAIN r.pending
  <2>1. run' = [run EXCEPT ![p] = built]
    BY <1>3, <1>12
  <2>2. QED
    BY <1>4, <1>9, <2>1, EarlyStep
<1>13. QED
  BY <1>10, <1>11, <1>12

LEMMA LoadContextKeeps ==
    ASSUME ProjectInv, NEW p \in Pids, LoadContext(p)
    PROVE  ProjectInv'
<1> DEFINE r == run[p]
           contextOf(loaded) == IF loaded THEN Sources(r) ELSE None
           cachedOf(loaded) == /\ r.options.cache /\ r.complete
                               /\ r.options.mode = "semantic" => loaded
<1>1. r.phase = "context"
  BY DEF LoadContext
<1>2. /\ r \in Runs /\ CollectedOK(r) /\ KeptOK(r, disk, edits) /\ PhaseOK(r)
  BY <1>1, EarlyRun
<1>3. PICK loaded \in BOOLEAN :
         run' = [run EXCEPT ![p] = [r EXCEPT !.phase = "spawn", !.context = contextOf(loaded), !.cached = cachedOf(loaded)]]
  BY Zenon DEF LoadContext
<1>4. UNCHANGED <<directory, disk, worker, nonce, edits, faults>> /\ run[p].phase = "context"
  BY DEF LoadContext
<1> HIDE DEF r
<1>5. \A x, y : [r EXCEPT !.phase = "spawn", !.context = x, !.cached = y] = Prepared(r, "spawn", r.at, r.index, x, y)
  BY <1>2, PreparedContext, Zenon
<1>6. contextOf(loaded) \in {None} \cup SourceMaps
  BY <1>2, SourceMapsAre
<1>7. cachedOf(loaded) \in BOOLEAN
  OBVIOUS
<1> HIDE DEF contextOf, cachedOf
<1>8. PICK sources \in {None} \cup SourceMaps, uses \in BOOLEAN :
         run' = [run EXCEPT ![p] = [r EXCEPT !.phase = "spawn", !.context = sources, !.cached = uses]]
  BY <1>3, <1>6, <1>7, Zenon
<1>9. Seen(r) = Len(Inputs(r))
  BY <1>1 DEF Seen
<1>10. RunOK(Prepared(r, "spawn", r.at, r.index, sources, uses), [w \in Workers |-> Idle], disk, edits)
  BY <1>1, <1>2, <1>9, RunFields, RunPrepares
<1>11. run' = [run EXCEPT ![p] = Prepared(r, "spawn", r.at, r.index, sources, uses)]
  BY <1>8, <1>5, Zenon
<1>12. QED
  BY <1>4, <1>10, <1>11, EarlyStep

-----------------------------------------------------------------------------
(* A step of one thread, or of the caller about it, that is not on files. *)
LEMMA PoolStep ==
    ASSUME ProjectInv, NEW p \in Pids, NEW w \in Workers, NEW s, NEW new,
           run' = [run EXCEPT ![p] = s], SameRun(run[p], s),
           worker' = [worker EXCEPT ![p] = [worker[p] EXCEPT ![w] = new]],
           [worker[p] EXCEPT ![w] = new] \in [Workers -> Threads],
           RunOK(s, [worker[p] EXCEPT ![w] = new], disk, edits),
           worker[p][w].at \notin Storing, new.at \notin Storing,
           nonce' = [nonce EXCEPT ![p] = nonce'[p]], nonce'[p] \in Nat, nonce[p] <= nonce'[p],
           UNCHANGED <<directory, disk, edits, faults>>
    PROVE  ProjectInv'
<1>1. Typed /\ worker[p] \in [Workers -> Threads]
  BY ProcessHolds
<1>2. run'[p] = s /\ run' = [run EXCEPT ![p] = run'[p]]
  BY <1>1, RunsAfter
<1>3. worker'[p] = [worker[p] EXCEPT ![w] = new] /\ worker' = [worker EXCEPT ![p] = worker'[p]]
  BY <1>1, WorkersAfter
<1>4. ProcessOK(run'[p], worker'[p], disk, edits)
  <2> DEFINE threads == [worker[p] EXCEPT ![w] = new]
  <2>1. RunOK(s, threads, disk, edits)
    OBVIOUS
  <2> HIDE DEF threads
  <2>2. ProcessOK(s, threads, disk, edits)
    BY <2>1, ProcessIsOn
  <2>3. QED
    BY <1>2, <1>3, <2>2 DEF threads
<1>5. OthersStay(p)
  BY <1>2, <1>3, <1>4 DEF OthersStay
<1>6. ASSUME NEW v \in Workers PROVE StoreUntouched(p, v)
  <2>1. CASE v = w
    <3>1. worker'[p][v] = new
      BY <1>1, <1>3, <2>1
    <3>2. QED
      BY <2>1, <3>1 DEF StoreUntouched
  <2>2. CASE v # w
    <3>1. worker'[p][v] = worker[p][v]
      BY <1>1, <1>3, <2>2
    <3>2. QED
      BY <1>2, <3>1 DEF StoreUntouched
  <2>3. QED
    BY <2>1, <2>2
<1>7. UNCHANGED directory
  BY DEF directory
<1>8. QED
  BY <1>5, <1>6, <1>7, ProcessStep

LEMMA NoncesStay ==
    ASSUME ProjectInv, NEW p \in Pids, nonce' = nonce
    PROVE  nonce' = [nonce EXCEPT ![p] = nonce'[p]] /\ nonce'[p] \in Nat /\ nonce[p] <= nonce'[p]
<1>1. Typed /\ nonce[p] \in Nat
  BY ProcessHolds
<1>2. QED
  BY <1>1, NoChange

LEMMA SpawnKeeps ==
    ASSUME ProjectInv, NEW p \in Pids, Spawn(p)
    PROVE  ProjectInv'
<1> DEFINE r == run[p]
           threads == worker[p]
           w == Cardinality(Started(threads)) + 1
<1>1. r.phase = "spawn" /\ Cardinality(Started(threads)) < BackgroundWorkers(r)
  BY DEF Spawn
<1>2. Typed /\ threads \in [Workers -> Threads] /\ (r.phase # "off" => RunOK(r, threads, disk, edits))
  BY ProcessHolds
<1>3. worker' = [worker EXCEPT ![p] = [threads EXCEPT ![w] = Ready]]
  BY DEF Spawn
<1>4. run' = run /\ nonce' = nonce /\ UNCHANGED <<directory, disk, edits, faults>>
  BY DEF Spawn
<1>5. /\ [threads EXCEPT ![w] = Ready] \in [Workers -> Threads]
      /\ RunOK(r, [threads EXCEPT ![w] = Ready], disk, edits)
      /\ \A v \in Workers : [threads EXCEPT ![w] = Ready][v] = threads[v]
                            \/ (threads[v].at = "absent" /\ [threads EXCEPT ![w] = Ready][v] = Ready)
  <2>1. RunOK(r, threads, disk, edits)
    BY <1>1, <1>2
  <2> HIDE DEF r, threads
  <2>2. QED
    BY <1>1, <1>2, <2>1, ThreadStarts DEF w
<1> HIDE DEF w
<1>6. Ready.at \notin Storing /\ "absent" \notin Storing
  BY IdleTyped DEF Storing
<1>7. worker'[p] = [threads EXCEPT ![w] = Ready] /\ worker' = [worker EXCEPT ![p] = worker'[p]]
  BY <1>2, <1>3, WorkersAfter
<1>8. ASSUME NEW v \in Workers PROVE StoreUntouched(p, v)
  <2>1. worker'[p][v] = worker[p][v] \/ (worker[p][v].at = "absent" /\ worker'[p][v] = Ready)
    BY <1>5, <1>7
  <2>2. SameRun(run[p], run'[p]) /\ nonce[p] <= nonce'[p]
    BY <1>4, NoncesStay DEF SameRun
  <2>3. QED
    BY <1>6, <2>1, <2>2 DEF StoreUntouched
<1>9. ProcessOK(run'[p], worker'[p], disk, edits)
  <2>1. RunOK(run'[p], worker'[p], disk, edits)
    BY <1>4, <1>5, <1>7
  <2> DEFINE s == run'[p]
             next == worker'[p]
  <2>2. RunOK(s, next, disk, edits)
    BY <2>1
  <2> HIDE DEF s, next
  <2>3. ProcessOK(s, next, disk, edits)
    BY <2>2, ProcessIsOn
  <2>4. QED
    BY <2>3 DEF s, next
<1>10. OthersStay(p)
  <2>1. run' = [run EXCEPT ![p] = run'[p]]
    BY <1>2, <1>4, NoChange
  <2>2. nonce' = [nonce EXCEPT ![p] = nonce'[p]] /\ nonce'[p] \in Nat
    BY <1>4, NoncesStay
  <2>3. QED
    BY <1>4, <1>5, <1>7, <1>9, <2>1, <2>2 DEF OthersStay
<1>11. QED
  BY <1>4, <1>8, <1>10, ProcessStep

LEMMA SpawnDoneKeeps ==
    ASSUME ProjectInv, NEW p \in Pids, SpawnDone(p)
    PROVE  ProjectInv'
<1> DEFINE r == run[p]
           threads == worker[p]
           me == IF RequiresJstsStack(r) /\ Started(threads) # {} THEN [Ready EXCEPT !.at = "ended"] ELSE Ready
           s == [r EXCEPT !.phase = "work"]
<1>1. r.phase = "spawn"
  BY DEF SpawnDone
<1>2. Typed /\ threads \in [Workers -> Threads] /\ RunOK(r, threads, disk, edits)
  BY <1>1, ProcessHolds
<1>3. worker' = [worker EXCEPT ![p] = [threads EXCEPT ![Caller] = me]] /\ run' = [run EXCEPT ![p] = s]
  BY Zenon DEF SpawnDone
<1>4. nonce' = nonce /\ UNCHANGED <<directory, disk, edits, faults>>
  BY DEF SpawnDone
<1>5. r \in Runs
  BY <1>2 DEF RunOK
<1>6. /\ [threads EXCEPT ![Caller] = me] \in [Workers -> Threads]
      /\ RunOK(s, [threads EXCEPT ![Caller] = me], disk, edits)
      /\ me.at \notin Storing /\ threads[Caller].at = "absent"
      /\ SameRun(r, s)
  <2> HIDE DEF r, threads
  <2>1. SameRun(r, s)
    BY <1>5, PhaseOfRun DEF Phases
  <2>2. QED
    BY <1>1, <1>2, <2>1, CallerStarts
<1> HIDE DEF me, s
<1>7. threads[Caller].at \notin Storing
  BY <1>6 DEF Storing
<1>8. Caller \in Workers
  BY WorkersAre
<1>9. nonce' = [nonce EXCEPT ![p] = nonce'[p]] /\ nonce'[p] \in Nat /\ nonce[p] <= nonce'[p]
  BY <1>4, NoncesStay
<1>10. QED
  BY <1>3, <1>4, <1>6, <1>7, <1>8, <1>9, PoolStep

LEMMA ClaimKeeps ==
    ASSUME ProjectInv, NEW p \in Pids, NEW w \in Workers, Claim(p, w)
    PROVE  ProjectInv'
<1> DEFINE r == run[p]
           threads == worker[p]
           s == [r EXCEPT !.next = r.next + 1]
           claimed == [threads[w] EXCEPT !.at = "read", !.i = r.next]
           stopped == [threads[w] EXCEPT !.at = "ended"]
<1>1. threads[w].at = "claim"
  BY DEF Claim, At
<1>2. Typed /\ threads \in [Workers -> Threads] /\ RunOK(r, threads, disk, edits)
  BY <1>1, ProcessHolds
<1>3. /\ worker' = [worker EXCEPT ![p] = [threads EXCEPT ![w] =
                       IF r.next <= Len(r.pending) THEN claimed ELSE stopped]]
      /\ run' = [run EXCEPT ![p] = s]
  BY Zenon DEF Claim, Step, Pending
<1>4. nonce' = nonce /\ UNCHANGED <<directory, disk, edits, faults>>
  BY DEF Claim, Step
<1>5. r \in Runs /\ threads[w] \in Threads
  BY <1>2 DEF RunOK
<1>6. claimed.at = "read" /\ stopped.at = "ended"
  BY <1>5 DEF Threads
<1>7. SameRun(r, s)
  <2> HIDE DEF r
  <2>1. QED
    BY <1>5, NextOfRun
<1>8. nonce' = [nonce EXCEPT ![p] = nonce'[p]] /\ nonce'[p] \in Nat /\ nonce[p] <= nonce'[p]
  BY <1>4, NoncesStay
<1>9. threads[w].at \notin Storing /\ claimed.at \notin Storing /\ stopped.at \notin Storing
  BY <1>1, <1>6 DEF Storing
<1>10. CASE r.next <= Len(r.pending)
  <2>1. /\ [threads EXCEPT ![w] = claimed] \in [Workers -> Threads]
        /\ RunOK(s, [threads EXCEPT ![w] = claimed], disk, edits)
    <3> HIDE DEF r, threads
    <3>1. QED
      BY <1>1, <1>2, <1>10, ThreadClaims
  <2> HIDE DEF claimed, stopped, s
  <2>2. worker' = [worker EXCEPT ![p] = [threads EXCEPT ![w] = claimed]]
    BY <1>3, <1>10
  <2>3. QED
    BY <1>3, <1>4, <1>7, <1>8, <1>9, <2>1, <2>2, PoolStep
<1>11. CASE ~(r.next <= Len(r.pending))
  <2>1. /\ [threads EXCEPT ![w] = stopped] \in [Workers -> Threads]
        /\ RunOK(s, [threads EXCEPT ![w] = stopped], disk, edits)
    <3> HIDE DEF r, threads
    <3>1. QED
      BY <1>1, <1>2, <1>11, ThreadStops
  <2> HIDE DEF claimed, stopped, s
  <2>2. worker' = [worker EXCEPT ![p] = [threads EXCEPT ![w] = stopped]]
    BY <1>3, <1>11
  <2>3. QED
    BY <1>3, <1>4, <1>7, <1>8, <1>9, <2>1, <2>2, PoolStep
<1>12. QED
  BY <1>10, <1>11

LEMMA JoinKeeps ==
    ASSUME ProjectInv, NEW p \in Pids, NEW w \in Workers, Join(p, w)
    PROVE  ProjectInv'
<1> DEFINE r == run[p]
           threads == worker[p]
           s == [r EXCEPT !.report = r.report \o threads[w].outcomes]
           joined == [Idle EXCEPT !.at = "joined"]
<1>1. threads[w].at = "ended" /\ r.phase = "work"
  BY DEF Join, At
<1>2. Typed /\ threads \in [Workers -> Threads] /\ RunOK(r, threads, disk, edits)
  BY <1>1, ProcessHolds
<1>3. worker' = [worker EXCEPT ![p] = [threads EXCEPT ![w] = joined]] /\ run' = [run EXCEPT ![p] = s]
  BY Zenon DEF Join, Step
<1>4. nonce' = nonce /\ UNCHANGED <<directory, disk, edits, faults>>
  BY DEF Join, Step
<1>5. r \in Runs /\ threads[w] \in Threads
  BY <1>2 DEF RunOK
<1>6. r.report \o threads[w].outcomes \in Seq(Outcomes)
  <2>1. r.report \in Seq(Outcomes) /\ threads[w].outcomes \in Seq(Outcomes)
    BY <1>5, RunFields, ThreadFields
  <2>2. QED
    BY <2>1
<1>7. SameRun(r, s)
  <2> HIDE DEF r, threads
  <2>1. QED
    BY <1>5, <1>6, ReportOfRun
<1>8. nonce' = [nonce EXCEPT ![p] = nonce'[p]] /\ nonce'[p] \in Nat /\ nonce[p] <= nonce'[p]
  BY <1>4, NoncesStay
<1>9. threads[w].at \notin Storing /\ joined.at \notin Storing
  BY <1>1 DEF Storing, Idle
<1>10. /\ [threads EXCEPT ![w] = joined] \in [Workers -> Threads]
       /\ RunOK(s, [threads EXCEPT ![w] = joined], disk, edits)
  <2> HIDE DEF r, threads
  <2>1. QED
    BY <1>1, <1>2, ThreadJoins
<1> HIDE DEF joined, s
<1>11. QED
  BY <1>3, <1>4, <1>7, <1>8, <1>9, <1>10, PoolStep

LEMMA ReportKeeps ==
    ASSUME ProjectInv, NEW p \in Pids, Report(p)
    PROVE  ProjectInv'
<1> DEFINE r == run[p]
           threads == worker[p]
           s == [r EXCEPT !.phase = "done", !.report = SortedByIndex(r.report)]
           idle == [w \in Workers |-> Idle]
<1>1. r.phase = "work" /\ \A w \in Workers : threads[w].at \in {"absent", "joined"}
  BY DEF Report
<1>2. Typed /\ threads \in [Workers -> Threads] /\ RunOK(r, threads, disk, edits)
  BY <1>1, ProcessHolds
<1>3. worker' = [worker EXCEPT ![p] = idle] /\ run' = [run EXCEPT ![p] = s]
  BY Zenon DEF Report
<1>4. nonce' = nonce /\ UNCHANGED <<directory, disk, edits, faults>>
  BY DEF Report
<1>5. RunOK(s, idle, disk, edits)
  <2> HIDE DEF r, threads
  <2>1. QED
    BY <1>1, <1>2, RunReports
<1> HIDE DEF s
<1>6. ProcessOK(s, idle, disk, edits)
  BY <1>5, ProcessIsOn
<1>7. idle \in [Workers -> Threads] /\ \A w \in Workers : idle[w] = Idle
  BY IdleTyped
<1> HIDE DEF idle
<1>8. worker'[p] = idle /\ worker' = [worker EXCEPT ![p] = worker'[p]]
  BY <1>2, <1>3, WorkersAfter
<1>9. run'[p] = s /\ run' = [run EXCEPT ![p] = run'[p]]
  BY <1>2, <1>3, RunsAfter
<1>10. OthersStay(p)
  <2>1. nonce' = [nonce EXCEPT ![p] = nonce'[p]] /\ nonce'[p] \in Nat
    BY <1>4, NoncesStay
  <2>2. QED
    BY <1>4, <1>6, <1>7, <1>8, <1>9, <2>1 DEF OthersStay
<1>11. ASSUME NEW w \in Workers PROVE StoreUntouched(p, w)
  <2>1. worker[p][w].at \notin Storing
    BY <1>1 DEF Storing
  <2>2. worker'[p][w].at \notin Storing
    BY <1>7, <1>8, IdleTyped DEF Storing
  <2>3. QED
    BY <2>1, <2>2 DEF StoreUntouched
<1>12. QED
  BY <1>4, <1>10, <1>11, ProcessStep

-----------------------------------------------------------------------------
(* The steps of a thread with a file. *)
LEMMA BusyThread ==
    ASSUME ProjectInv, NEW p \in Pids, NEW w \in Workers, worker[p][w].at \in Busy
    PROVE  /\ Typed /\ worker[p] \in [Workers -> Threads] /\ RunOK(run[p], worker[p], disk, edits)
           /\ run[p] \in Runs /\ worker[p][w] \in Threads
           /\ ThreadOK(run[p], worker[p][w], disk, edits)
           /\ NoRepeats(worker[p][w].outcomes)
           /\ Indices(worker[p][w].outcomes) \cap AtWork(worker[p][w]) = {}
           /\ worker[p][w].i \in DOMAIN run[p].pending
<1>1. worker[p][w].at # "absent"
  BY DEF Busy, Holding
<1>2. Typed /\ worker[p] \in [Workers -> Threads] /\ RunOK(run[p], worker[p], disk, edits)
  BY <1>1, ProcessHolds
<1>3. run[p] \in Runs /\ ThreadOK(run[p], worker[p][w], disk, edits) /\ SharedOK(run[p], worker[p])
  BY <1>2 DEF RunOK
<1>4. NoRepeats(worker[p][w].outcomes) /\ Indices(worker[p][w].outcomes) \cap AtWork(worker[p][w]) = {}
  BY <1>3 DEF SharedOK
<1>5. QED
  BY <1>2, <1>3, <1>4 DEF ThreadOK

LEMMA QuietStep ==
    ASSUME ProjectInv, NEW p \in Pids, NEW w \in Workers, worker[p][w].at \in Busy, worker[p][w].at \notin Storing,
           NEW new, Step(p, w, new), new.at \notin Storing,
           ThreadKeeps(run[p], worker[p][w], new, disk, edits),
           nonce' = [nonce EXCEPT ![p] = nonce'[p]], nonce'[p] \in Nat, nonce[p] <= nonce'[p],
           UNCHANGED <<directory, run>>
    PROVE  ProjectInv'
<1>1. Typed /\ worker[p] \in [Workers -> Threads] /\ RunOK(run[p], worker[p], disk, edits)
  BY BusyThread
<1>2. /\ [worker[p] EXCEPT ![w] = new] \in [Workers -> Threads]
      /\ RunOK(run[p], [worker[p] EXCEPT ![w] = new], disk, edits)
  <2> DEFINE threads == worker[p]
             r == run[p]
  <2>1. /\ threads \in [Workers -> Threads] /\ RunOK(r, threads, disk, edits)
        /\ threads[w].at \in {"claim"} \cup Busy /\ ThreadKeeps(r, threads[w], new, disk, edits)
    BY <1>1
  <2> HIDE DEF threads, r
  <2>2. /\ [threads EXCEPT ![w] = new] \in [Workers -> Threads]
        /\ RunOK(r, [threads EXCEPT ![w] = new], disk, edits)
    BY <2>1, ThreadStep
  <2>3. QED
    BY <2>2 DEF threads, r
<1>3. worker' = [worker EXCEPT ![p] = [worker[p] EXCEPT ![w] = new]]
  BY DEF Step
<1>4. UNCHANGED <<directory, disk, edits, faults>>
  BY DEF Step
<1>5. run' = [run EXCEPT ![p] = run[p]]
  BY <1>1, NoChange
<1>6. SameRun(run[p], run[p])
  BY DEF SameRun
<1>7. QED
  BY <1>2, <1>3, <1>4, <1>5, <1>6, PoolStep

LEMMA OutcomeHolds ==
    ASSUME NEW r \in Runs, NEW me \in Threads, NEW d, NEW e, ThreadOK(r, me, d, e), me.at \in Busy,
           NoRepeats(me.outcomes), Indices(me.outcomes) \cap AtWork(me) = {},
           NEW result \in {None} \cup Results, NEW error \in BOOLEAN,
           result # None => /\ result = Analysis(r, me.i, result.content)
                            /\ error = (result.content \in Broken)
                            /\ SourceOf(r, me.i, result.content, d, e)
    PROVE  ThreadKeeps(r, me, [Ready EXCEPT !.outcomes =
              Append(me.outcomes, [i |-> me.i, file |-> r.pending[me.i].file, result |-> result, error |-> error])], d, e)
<1> DEFINE o == [i |-> me.i, file |-> r.pending[me.i].file, result |-> result, error |-> error]
<1>1. me.i \in DOMAIN r.pending
  BY DEF ThreadOK
<1>2. me.i \in Nat /\ r.pending[me.i].file \in Files
  BY <1>1, ThreadFields, PendingFields
<1>3. o \in Outcomes
  BY <1>2 DEF Outcomes
<1>4. o.i = me.i /\ o.file = r.pending[me.i].file /\ o.result = result /\ o.error = error
  OBVIOUS
<1> HIDE DEF o
<1>5. OutcomeOK(r, o, d, e)
  BY <1>1, <1>4, Zenon DEF OutcomeOK
<1>6. ThreadKeeps(r, me, [Ready EXCEPT !.outcomes = Append(me.outcomes, o)], d, e)
  BY <1>3, <1>4, <1>5, ThreadFinishes
<1>7. QED
  BY <1>6 DEF o

(* The outcome of a thread's file is added to its own. *)
Finished(me, outcome) == [Ready EXCEPT !.outcomes = Append(me.outcomes, outcome)]

LEMMA FinishedIsQuiet ==
    ASSUME NEW me, NEW outcome
    PROVE  Finished(me, outcome).at \notin Storing
<1>1. Finished(me, outcome).at = "claim"
  BY DEF Finished, Ready, Idle
<1>2. QED
  BY <1>1 DEF Storing

LEMMA FinishKeeps ==
    ASSUME ProjectInv, NEW p \in Pids, NEW w \in Workers, worker[p][w].at \in Busy, worker[p][w].at \notin Storing,
           NEW result \in {None} \cup Results, NEW error \in BOOLEAN,
           result # None => /\ result = Analysis(run[p], worker[p][w].i, result.content)
                            /\ error = (result.content \in Broken)
                            /\ SourceOf(run[p], worker[p][w].i, result.content, disk, edits),
           Finish(p, w, result, error),
           nonce' = [nonce EXCEPT ![p] = nonce'[p]], nonce'[p] \in Nat, nonce[p] <= nonce'[p],
           UNCHANGED <<directory, run>>
    PROVE  ProjectInv'
<1> DEFINE me == worker[p][w]
           r == run[p]
           o == [i |-> me.i, file |-> r.pending[me.i].file, result |-> result, error |-> error]
<1>1. /\ r \in Runs /\ me \in Threads /\ ThreadOK(r, me, disk, edits) /\ me.at \in Busy
      /\ NoRepeats(me.outcomes) /\ Indices(me.outcomes) \cap AtWork(me) = {}
  BY BusyThread
<1>2. result # None => /\ result = Analysis(r, me.i, result.content)
                       /\ error = (result.content \in Broken)
                       /\ SourceOf(r, me.i, result.content, disk, edits)
  OBVIOUS
<1>3. Step(p, w, Finished(me, o))
  BY DEF Finish, Finished
<1> HIDE DEF me, r
<1>4. ThreadKeeps(r, me, Finished(me, o), disk, edits)
  BY <1>1, <1>2, OutcomeHolds DEF Finished
<1> HIDE DEF o
<1>5. ThreadKeeps(run[p], worker[p][w], Finished(me, o), disk, edits)
  BY <1>4 DEF me, r
<1>6. Finished(me, o).at \notin Storing
  BY FinishedIsQuiet
<1>7. QED
  BY <1>3, <1>5, <1>6, QuietStep

LEMMA MovedFields ==
    ASSUME NEW me \in Threads, NEW at \in Stations
    PROVE  LET new == [me EXCEPT !.at = at]
           IN  /\ new \in Threads /\ new.at = at /\ new.i = me.i /\ new.content = me.content
               /\ new.nonce = me.nonce /\ new.outcomes = me.outcomes
  BY DEF Threads

LEMMA StatFields ==
    ASSUME NEW me \in Threads, NEW at \in Stations, NEW length \in {None} \cup Lengths
    PROVE  LET new == [me EXCEPT !.at = at, !.length = length]
           IN  /\ new \in Threads /\ new.at = at /\ new.i = me.i /\ new.content = me.content
               /\ new.outcomes = me.outcomes
<1> DEFINE moved == [me EXCEPT !.at = at]
<1>1. [me EXCEPT !.at = at, !.length = length] = [moved EXCEPT !.length = length]
  BY DEF Threads
<1>2. moved \in Threads /\ moved.at = at /\ moved.i = me.i /\ moved.content = me.content /\ moved.outcomes = me.outcomes
  BY MovedFields
<1> HIDE DEF moved
<1>3. LET new == [moved EXCEPT !.length = length]
      IN  /\ new \in Threads /\ new.at = at /\ new.i = me.i /\ new.content = me.content
          /\ new.outcomes = me.outcomes
  BY <1>2 DEF Threads
<1>4. QED
  BY <1>1, <1>3

LEMMA CreateFields ==
    ASSUME NEW me \in Threads, NEW at \in Stations, NEW n \in Nat
    PROVE  LET new == [me EXCEPT !.at = at, !.nonce = n]
           IN  /\ new \in Threads /\ new.at = at /\ new.i = me.i /\ new.content = me.content
               /\ new.nonce = n /\ new.outcomes = me.outcomes
<1> DEFINE moved == [me EXCEPT !.at = at]
<1>1. [me EXCEPT !.at = at, !.nonce = n] = [moved EXCEPT !.nonce = n]
  BY DEF Threads
<1>2. moved \in Threads /\ moved.at = at /\ moved.i = me.i /\ moved.content = me.content /\ moved.outcomes = me.outcomes
  BY MovedFields
<1> HIDE DEF moved
<1>3. LET new == [moved EXCEPT !.nonce = n]
      IN  /\ new \in Threads /\ new.at = at /\ new.i = me.i /\ new.content = me.content
          /\ new.nonce = n /\ new.outcomes = me.outcomes
  BY <1>2 DEF Threads
<1>4. QED
  BY <1>1, <1>3

LEMMA TryFields ==
    ASSUME NEW me \in Threads
    PROVE  LET new == [me EXCEPT !.tries = me.tries + 1]
           IN  /\ new \in Threads /\ new.at = me.at /\ new.i = me.i /\ new.content = me.content
               /\ new.outcomes = me.outcomes
  BY DEF Threads

LEMMA MoveKeeps ==
    ASSUME ProjectInv, NEW p \in Pids, NEW w \in Workers, worker[p][w].at \in Busy, worker[p][w].at \notin Storing,
           NEW new \in Threads, Step(p, w, new), new.at \in Holding, new.at \notin Storing,
           new.i = worker[p][w].i, new.outcomes = worker[p][w].outcomes,
           SourceOf(run[p], worker[p][w].i, new.content, disk, edits),
           new.at = "create" => new.content \notin Broken,
           nonce' = [nonce EXCEPT ![p] = nonce'[p]], nonce'[p] \in Nat, nonce[p] <= nonce'[p],
           UNCHANGED <<directory, run>>
    PROVE  ProjectInv'
<1> DEFINE me == worker[p][w]
           r == run[p]
<1>1. /\ r \in Runs /\ me \in Threads /\ ThreadOK(r, me, disk, edits) /\ me.at \in Busy
      /\ NoRepeats(me.outcomes) /\ Indices(me.outcomes) \cap AtWork(me) = {}
  BY BusyThread
<1>2. /\ new.i = me.i /\ new.outcomes = me.outcomes /\ SourceOf(r, me.i, new.content, disk, edits)
      /\ new.at \in {"create"} \cup Storing => new.content \notin Broken
  OBVIOUS
<1> HIDE DEF me, r
<1>3. ThreadKeeps(r, me, new, disk, edits)
  BY <1>1, <1>2, ThreadMoves
<1>4. ThreadKeeps(run[p], worker[p][w], new, disk, edits)
  BY <1>3 DEF me, r
<1>5. QED
  BY <1>4, QuietStep

(* What a thread with a source works on. *)
LEMMA HoldingThread ==
    ASSUME ProjectInv, NEW p \in Pids, NEW w \in Workers, worker[p][w].at \in Holding
    PROVE  /\ worker[p][w].at \in Busy /\ worker[p][w] \in Threads /\ worker[p][w].content \in Contents
           /\ SourceOf(run[p], worker[p][w].i, worker[p][w].content, disk, edits)
           /\ MyAnalysis(p, w) \in Results /\ MyAnalysis(p, w).content = worker[p][w].content
           /\ MyKey(p, w) \in Keys /\ MyKey(p, w).analysis = MyAnalysis(p, w)
           /\ worker[p][w].at \in {"create"} \cup Storing => worker[p][w].content \notin Broken
<1> DEFINE me == worker[p][w]
           r == run[p]
<1>1. me.at \in Busy
  BY DEF Busy
<1>2. r \in Runs /\ me \in Threads /\ ThreadOK(r, me, disk, edits) /\ me.i \in DOMAIN r.pending
  BY <1>1, BusyThread
<1>3. SourceOf(r, me.i, me.content, disk, edits) /\ (me.at \in {"create"} \cup Storing => me.content \notin Broken)
  BY <1>2, Zenon DEF ThreadOK
<1>4. me.content \in Contents
  BY <1>3 DEF SourceOf
<1>5. /\ Analysis(r, me.i, me.content) \in Results /\ Analysis(r, me.i, me.content).content = me.content
      /\ Key(r, me.i, me.content) \in Keys /\ Key(r, me.i, me.content).analysis = Analysis(r, me.i, me.content)
  <2> HIDE DEF r, me
  <2>1. QED
    BY <1>2, <1>4, AnalysisTyped
<1>6. QED
  BY <1>1, <1>2, <1>3, <1>4, <1>5, Zenon DEF MyAnalysis, MyKey

LEMMA ReadKeeps ==
    ASSUME ProjectInv, NEW p \in Pids, NEW w \in Workers, Read(p, w)
    PROVE  ProjectInv'
<1> DEFINE r == run[p]
           me == worker[p][w]
           kept == r.pending[me.i].source
           c == IF kept # None THEN kept ELSE disk[r.pending[me.i].file]
           at == IF r.cached THEN "stat" ELSE "analyze"
           new == [me EXCEPT !.at = at, !.content = c]
<1>1. me.at = "read" /\ me.at \in Busy /\ me.at \notin Storing
  BY DEF Read, At, Busy, Storing
<1>2. r \in Runs /\ me \in Threads /\ me.i \in DOMAIN r.pending /\ RunOK(r, worker[p], disk, edits)
  BY <1>1, BusyThread
<1>3. UNCHANGED <<directory, run>> /\ nonce' = nonce
  BY DEF Read
<1>4. nonce' = [nonce EXCEPT ![p] = nonce'[p]] /\ nonce'[p] \in Nat /\ nonce[p] <= nonce'[p]
  BY <1>3, NoncesStay
<1>5. IF c \notin Contents THEN Finish(p, w, None, TRUE) ELSE Step(p, w, new)
  BY Zenon DEF Read
<1>6. CASE c \notin Contents
  <2>1. Finish(p, w, None, TRUE)
    BY <1>5, <1>6
  <2> DEFINE result == None
             error == TRUE
  <2>2. Finish(p, w, result, error) /\ result = None /\ error \in BOOLEAN
    BY <2>1
  <2> HIDE DEF result, error
  <2>3. QED
    BY <1>1, <1>3, <1>4, <2>2, FinishKeeps
<1>7. CASE c \in Contents
  <2>1. Step(p, w, new)
    BY <1>5, <1>7
  <2>2. SourceOf(r, me.i, c, disk, edits)
    <3>1. kept # None => SourceOf(r, me.i, kept, disk, edits)
      BY <1>2 DEF RunOK, KeptOK
    <3>2. QED
      BY <1>7, <3>1 DEF SourceOf
  <2>3. at \in Holding /\ at \notin Storing /\ at # "create" /\ at \in Stations
    BY DEF Holding, Storing, Stations, Busy
  <2> HIDE DEF at, c, me
  <2>4. /\ new \in Threads /\ new.at = at /\ new.i = me.i /\ new.content = c
        /\ new.outcomes = me.outcomes
    <3>1. me \in Threads /\ at \in Stations /\ c \in Contents
      BY <1>2, <1>7, <2>3
    <3> DEFINE moved == [me EXCEPT !.at = at]
    <3>2. new = [moved EXCEPT !.content = c]
      BY <3>1 DEF Threads
    <3>3. moved \in Threads /\ moved.at = at /\ moved.i = me.i /\ moved.outcomes = me.outcomes
      BY <3>1, MovedFields
    <3> HIDE DEF moved, new
    <3>4. LET next == [moved EXCEPT !.content = c]
          IN  /\ next \in Threads /\ next.at = at /\ next.i = me.i /\ next.content = c
              /\ next.outcomes = me.outcomes
      BY <3>1, <3>3 DEF Threads
    <3>5. QED
      BY <3>2, <3>4
  <2> HIDE DEF new
  <2>5. QED
    BY <1>1, <1>3, <1>4, <2>1, <2>2, <2>3, <2>4, MoveKeeps DEF me
<1>8. QED
  BY <1>6, <1>7

LEMMA EntryTyped ==
    ASSUME ProjectInv, NEW key \in DOMAIN entries
    PROVE  /\ entries[key] \in Frames /\ FrameOK(entries[key])
           /\ Length(entries[key]) \in Lengths
<1>1. FrameOK(entries[key])
  BY DEF ProjectInv, FilesOK
<1>2. entries[key] \in Frames
  BY <1>1 DEF FrameOK
<1>3. entries[key].key \in Keys /\ entries[key].result \in Results
  BY <1>2 DEF Frames
<1>4. Length(entries[key]) \in Lengths
  <2> DEFINE short == entries[key].state \in {"torn", "cut"}
  <2>1. short \in BOOLEAN
    OBVIOUS
  <2>2. Length(entries[key]) = <<entries[key].key, entries[key].result, short>>
    BY Zenon DEF Length
  <2> HIDE DEF short
  <2>3. <<entries[key].key, entries[key].result, short>> \in Keys \X Results \X BOOLEAN
    BY <1>3, <2>1
  <2>4. QED
    BY <2>2, <2>3 DEF Lengths
<1>5. QED
  BY <1>1, <1>2, <1>4

LEMMA StatKeeps ==
    ASSUME ProjectInv, NEW p \in Pids, NEW w \in Workers, Stat(p, w)
    PROVE  ProjectInv'
<1> DEFINE me == worker[p][w]
           key == MyKey(p, w)
           found == [me EXCEPT !.at = "open", !.length = Length(entries[key])]
           missing == [me EXCEPT !.at = "analyze"]
<1>1. me.at = "stat" /\ me.at \in Holding /\ me.at \notin Storing
  BY DEF Stat, At, Holding, Storing
<1>2. me.at \in Busy /\ me \in Threads /\ SourceOf(run[p], me.i, me.content, disk, edits)
  BY <1>1, HoldingThread
<1>3. UNCHANGED <<directory, run>> /\ nonce' = nonce
  BY DEF Stat
<1>4. nonce' = [nonce EXCEPT ![p] = nonce'[p]] /\ nonce'[p] \in Nat /\ nonce[p] <= nonce'[p]
  BY <1>3, NoncesStay
<1>5. Step(p, w, IF key \in DOMAIN entries THEN found ELSE missing)
  BY Zenon DEF Stat
<1> HIDE DEF key, me
<1>6. CASE key \in DOMAIN entries
  <2>1. Length(entries[key]) \in Lengths
    BY <1>6, EntryTyped
  <2>2. /\ found \in Threads /\ found.at = "open" /\ found.i = me.i /\ found.content = me.content
        /\ found.outcomes = me.outcomes
    BY <1>2, <2>1, StatFields DEF Stations, Busy, Holding
  <2> HIDE DEF found, missing
  <2>3. Step(p, w, found)
    BY <1>5, <1>6
  <2>4. QED
    BY <1>1, <1>2, <1>3, <1>4, <2>2, <2>3, MoveKeeps DEF me, Holding, Storing
<1>7. CASE key \notin DOMAIN entries
  <2>1. /\ missing \in Threads /\ missing.at = "analyze" /\ missing.i = me.i /\ missing.content = me.content
        /\ missing.outcomes = me.outcomes
    BY <1>2, MovedFields DEF Stations, Busy, Holding
  <2> HIDE DEF found, missing
  <2>2. Step(p, w, missing)
    BY <1>5, <1>7
  <2>3. QED
    BY <1>1, <1>2, <1>3, <1>4, <2>1, <2>2, MoveKeeps DEF me, Holding, Storing
<1>8. QED
  BY <1>6, <1>7

LEMMA OpenKeeps ==
    ASSUME ProjectInv, NEW p \in Pids, NEW w \in Workers, Open(p, w)
    PROVE  ProjectInv'
<1> DEFINE me == worker[p][w]
           key == MyKey(p, w)
           missing == [me EXCEPT !.at = "analyze", !.length = None]
<1>1. me.at = "open" /\ me.at \in Holding /\ me.at \notin Storing
  BY DEF Open, At, Holding, Storing
<1>2. /\ me.at \in Busy /\ me \in Threads /\ SourceOf(run[p], me.i, me.content, disk, edits)
      /\ MyAnalysis(p, w) \in Results /\ MyAnalysis(p, w).content = me.content /\ key.analysis = MyAnalysis(p, w)
  BY <1>1, HoldingThread
<1>3. UNCHANGED <<directory, run>> /\ nonce' = nonce
  BY DEF Open
<1>4. nonce' = [nonce EXCEPT ![p] = nonce'[p]] /\ nonce'[p] \in Nat /\ nonce[p] <= nonce'[p]
  BY <1>3, NoncesStay
<1>5. IF Hit(key, me.length) THEN Finish(p, w, entries[key].result, FALSE) ELSE Step(p, w, missing)
  BY Zenon DEF Open
<1>6. CASE Hit(key, me.length)
  <2> DEFINE result == entries[key].result
             error == FALSE
  <2>1. key \in DOMAIN entries /\ entries[key].key = key
    BY <1>6 DEF Hit, Usable
  <2>2. result = MyAnalysis(p, w) /\ result.content \notin Broken
    BY <1>2, <2>1, EntryTyped DEF FrameOK
  <2>3. Finish(p, w, result, error) /\ error \in BOOLEAN
    BY <1>5, <1>6
  <2>4. error = (result.content \in Broken)
    BY <2>2
  <2> HIDE DEF result, error
  <2>5. result \in Results /\ result.content = me.content /\ result = Analysis(run[p], me.i, result.content)
    BY <1>2, <2>2 DEF MyAnalysis
  <2>6. SourceOf(run[p], me.i, result.content, disk, edits)
    BY <1>2, <2>5
  <2>7. QED
    BY <1>1, <1>2, <1>3, <1>4, <2>3, <2>4, <2>5, <2>6, FinishKeeps
<1>7. CASE ~Hit(key, me.length)
  <2>1. Step(p, w, missing)
    BY <1>5, <1>7
  <2> HIDE DEF me
  <2>2. /\ missing \in Threads /\ missing.at = "analyze" /\ missing.i = me.i /\ missing.content = me.content
        /\ missing.outcomes = me.outcomes
    BY <1>2, StatFields DEF Stations, Busy, Holding
  <2> HIDE DEF missing
  <2>3. QED
    BY <1>1, <1>2, <1>3, <1>4, <2>1, <2>2, MoveKeeps DEF me, Holding, Storing
<1>8. QED
  BY <1>6, <1>7

LEMMA AnalyzeKeeps ==
    ASSUME ProjectInv, NEW p \in Pids, NEW w \in Workers, Analyze(p, w)
    PROVE  ProjectInv'
<1> DEFINE me == worker[p][w]
           result == MyAnalysis(p, w)
           error == me.content \in Broken
           new == [me EXCEPT !.at = "create"]
<1>1. me.at = "analyze" /\ me.at \in Holding /\ me.at \notin Storing
  BY DEF Analyze, At, Holding, Storing
<1>2. /\ me.at \in Busy /\ me \in Threads /\ SourceOf(run[p], me.i, me.content, disk, edits)
      /\ result \in Results /\ result.content = me.content
  BY <1>1, HoldingThread
<1>3. UNCHANGED <<directory, run>> /\ nonce' = nonce
  BY DEF Analyze
<1>4. nonce' = [nonce EXCEPT ![p] = nonce'[p]] /\ nonce'[p] \in Nat /\ nonce[p] <= nonce'[p]
  BY <1>3, NoncesStay
<1>5. IF ~run[p].cached \/ error THEN Finish(p, w, result, error) ELSE Step(p, w, new)
  BY Zenon DEF Analyze
<1>6. CASE ~run[p].cached \/ error
  <2>1. result = Analysis(run[p], me.i, result.content)
    BY <1>2 DEF MyAnalysis
  <2>2. SourceOf(run[p], me.i, result.content, disk, edits)
    BY <1>2
  <2>3. error = (result.content \in Broken) /\ error \in BOOLEAN
    BY <1>2
  <2>4. Finish(p, w, result, error)
    BY <1>5, <1>6
  <2> HIDE DEF result, error
  <2>5. QED
    BY <1>1, <1>2, <1>3, <1>4, <2>1, <2>2, <2>3, <2>4, FinishKeeps
<1>7. CASE ~(~run[p].cached \/ error)
  <2>1. Step(p, w, new) /\ me.content \notin Broken
    BY <1>5, <1>7
  <2> HIDE DEF me
  <2>2. /\ new \in Threads /\ new.at = "create" /\ new.i = me.i /\ new.content = me.content
        /\ new.outcomes = me.outcomes
    BY <1>2, MovedFields DEF Stations, Busy, Holding
  <2> HIDE DEF new
  <2>3. QED
    BY <1>1, <1>2, <1>3, <1>4, <2>1, <2>2, MoveKeeps DEF me, Holding, Storing
<1>8. QED
  BY <1>6, <1>7

-----------------------------------------------------------------------------
(* The steps of a thread with a temporary file. *)
OneFile(target) ==
    /\ \A name \in DOMAIN temps \ {target} : name \in DOMAIN temps' /\ temps'[name] = temps[name]
    /\ DOMAIN temps' \subseteq DOMAIN temps \cup {target}

HasFile(p, w, new, target) ==
    /\ worker[p][w].at \in Storing => NameOf(p, run[p], worker[p][w]) = target
    /\ worker[p][w].at \notin Storing => target \notin DOMAIN temps
    /\ new.at \notin Storing => target \notin DOMAIN temps'
    /\ new.at \in Storing =>
           /\ NameOf(p, run[p], new) = target /\ target \in DOMAIN temps'
           /\ new.nonce < nonce'[p]
           /\ new.at # "write" => temps'[target].state = "whole"
           /\ new.at = "rename" => temps'[target].synced
           /\ \A v \in Workers \ {w} : worker[p][v].at \in Storing => worker[p][v].nonce # new.nonce

LEMMA FileStep ==
    ASSUME ProjectInv, NEW p \in Pids, NEW w \in Workers, worker[p][w].at \in Busy,
           NEW new, Step(p, w, new), ThreadKeeps(run[p], worker[p][w], new, disk, edits), run' = run, FilesOK',
           nonce' = [nonce EXCEPT ![p] = nonce'[p]], nonce'[p] \in Nat, nonce[p] <= nonce'[p],
           NEW target, OneFile(target), HasFile(p, w, new, target)
    PROVE  ProjectInv'
<1>1. Typed /\ worker[p] \in [Workers -> Threads] /\ RunOK(run[p], worker[p], disk, edits)
  BY BusyThread
<1>2. /\ [worker[p] EXCEPT ![w] = new] \in [Workers -> Threads]
      /\ ProcessOK(run[p], [worker[p] EXCEPT ![w] = new], disk, edits)
  <2> DEFINE threads == worker[p]
             r == run[p]
  <2>1. /\ threads \in [Workers -> Threads] /\ RunOK(r, threads, disk, edits)
        /\ threads[w].at \in {"claim"} \cup Busy /\ ThreadKeeps(r, threads[w], new, disk, edits)
    BY <1>1
  <2> HIDE DEF threads, r
  <2> DEFINE next == [threads EXCEPT ![w] = new]
  <2>2. next \in [Workers -> Threads] /\ RunOK(r, next, disk, edits)
    BY <2>1, ThreadStep
  <2> HIDE DEF next
  <2>3. ProcessOK(r, next, disk, edits)
    BY <2>2, ProcessIsOn
  <2>4. QED
    BY <2>2, <2>3 DEF threads, r, next
<1>3. worker' = [worker EXCEPT ![p] = [worker[p] EXCEPT ![w] = new]]
  BY DEF Step
<1>4. worker'[p] = [worker[p] EXCEPT ![w] = new] /\ worker' = [worker EXCEPT ![p] = worker'[p]]
  BY <1>1, <1>3, WorkersAfter
<1>5. worker'[p][w] = new /\ \A v \in Workers \ {w} : worker'[p][v] = worker[p][v]
  BY <1>1, <1>4
<1>6. run' = [run EXCEPT ![p] = run'[p]] /\ run'[p] = run[p]
  BY <1>1, NoChange
<1>7. UNCHANGED <<disk, edits, faults>>
  BY DEF Step
<1>8. OthersStay(p)
  BY <1>2, <1>4, <1>6, <1>7 DEF OthersStay
<1>9. StoreOK(temps', nonce'[p], p, run[p], worker'[p], w)
  BY <1>5, Zenon DEF StoreOK, HasFile
<1>10. /\ worker[p][w].at \in Storing => NameOf(p, run[p], worker[p][w]) = target
       /\ worker[p][w].at \notin Storing => target \notin DOMAIN temps
       /\ worker'[p][w].at \in Storing => NameOf(p, run[p], worker'[p][w]) = target
       /\ worker'[p][w].at \notin Storing => target \notin DOMAIN temps'
  BY <1>5 DEF HasFile
<1>11. /\ \A name \in DOMAIN temps \ {target} : name \in DOMAIN temps' /\ temps'[name] = temps[name]
       /\ DOMAIN temps' \subseteq DOMAIN temps \cup {target}
  BY DEF OneFile
<1>12. QED
  BY <1>5, <1>6, <1>8, <1>9, <1>10, <1>11, StoreStep

(* Temporary files that changed have frames that are right. *)
LEMMA TempsChange ==
    ASSUME FilesOK, entries' = entries, temps' = [name \in DOMAIN temps' |-> temps'[name]],
           \A name \in DOMAIN temps' : (name \in DOMAIN temps /\ temps'[name] = temps[name]) \/ FrameOK(temps'[name])
    PROVE  FilesOK'
<1>1. \A name \in DOMAIN temps' : FrameOK(temps'[name])
  BY DEF FilesOK
<1>2. QED
  BY <1>1 DEF FilesOK

(* A store that goes on. *)
LEMMA StoringThread ==
    ASSUME ProjectInv, NEW p \in Pids, NEW w \in Workers, worker[p][w].at \in Storing
    PROVE  /\ worker[p][w].at \in Holding
           /\ MyTemp(p, w) = NameOf(p, run[p], worker[p][w]) /\ MyTemp(p, w) \in DOMAIN temps
           /\ FrameOK(temps[MyTemp(p, w)])
           /\ worker[p][w].nonce < nonce[p]
           /\ worker[p][w].at # "write" => temps[MyTemp(p, w)].state = "whole"
           /\ worker[p][w].at = "rename" => temps[MyTemp(p, w)].synced
           /\ \A v \in Workers \ {w} : worker[p][v].at \in Storing => worker[p][v].nonce # worker[p][w].nonce
<1>1. MyTemp(p, w) = NameOf(p, run[p], worker[p][w])
  BY DEF MyTemp, NameOf, MyKey
<1>2. StoreOK(temps, nonce[p], p, run[p], worker[p], w)
  BY DEF ProjectInv, StoresOK
<1>3. /\ MyTemp(p, w) \in DOMAIN temps
      /\ worker[p][w].nonce < nonce[p]
      /\ worker[p][w].at # "write" => temps[MyTemp(p, w)].state = "whole"
      /\ worker[p][w].at = "rename" => temps[MyTemp(p, w)].synced
      /\ \A v \in Workers \ {w} : worker[p][v].at \in Storing => worker[p][v].nonce # worker[p][w].nonce
  BY <1>1, <1>2, Zenon DEF StoreOK
<1>4. FrameOK(temps[MyTemp(p, w)])
  BY <1>3 DEF ProjectInv, FilesOK
<1>5. worker[p][w].at \in Holding
  BY DEF Holding, Storing
<1>6. QED
  BY <1>1, <1>3, <1>4, <1>5

(* The next station of a store. *)
LEMMA StoreMoves ==
    ASSUME ProjectInv, NEW p \in Pids, NEW w \in Workers, worker[p][w].at \in {"create"} \cup Storing,
           NEW new \in Threads, new.at \in Storing, new.i = worker[p][w].i, new.content = worker[p][w].content,
           new.outcomes = worker[p][w].outcomes
    PROVE  ThreadKeeps(run[p], worker[p][w], new, disk, edits)
<1> DEFINE me == worker[p][w]
           r == run[p]
<1>1. me.at \in Holding /\ new.at \in Holding
  BY DEF Holding, Storing
<1>2. me.at \in Busy /\ SourceOf(r, me.i, me.content, disk, edits) /\ me.content \notin Broken
  BY <1>1, HoldingThread
<1>3. /\ r \in Runs /\ me \in Threads /\ ThreadOK(r, me, disk, edits)
      /\ NoRepeats(me.outcomes) /\ Indices(me.outcomes) \cap AtWork(me) = {}
  BY <1>2, BusyThread
<1>4. new.i = me.i /\ new.content = me.content /\ new.outcomes = me.outcomes
  OBVIOUS
<1> HIDE DEF me, r
<1>5. ThreadKeeps(r, me, new, disk, edits)
  BY <1>1, <1>2, <1>3, <1>4, ThreadMoves
<1>6. QED
  BY <1>5 DEF me, r

(* The end of a store. *)
LEMMA StoreEnds ==
    ASSUME ProjectInv, NEW p \in Pids, NEW w \in Workers, worker[p][w].at \in {"create"} \cup Storing, Stored(p, w)
    PROVE  \E new : /\ Step(p, w, new) /\ new.at \notin Storing
                    /\ ThreadKeeps(run[p], worker[p][w], new, disk, edits)
<1> DEFINE me == worker[p][w]
           r == run[p]
           result == MyAnalysis(p, w)
           error == me.content \in Broken
           o == [i |-> me.i, file |-> r.pending[me.i].file, result |-> result, error |-> error]
<1>1. me.at \in Holding
  BY DEF Holding, Storing
<1>2. /\ me.at \in Busy /\ SourceOf(r, me.i, me.content, disk, edits)
      /\ result \in Results /\ result.content = me.content
  BY <1>1, HoldingThread
<1>3. /\ r \in Runs /\ me \in Threads /\ ThreadOK(r, me, disk, edits)
      /\ NoRepeats(me.outcomes) /\ Indices(me.outcomes) \cap AtWork(me) = {}
  BY <1>2, BusyThread
<1>4. /\ result = Analysis(r, me.i, result.content) /\ error = (result.content \in Broken) /\ error \in BOOLEAN
      /\ SourceOf(r, me.i, result.content, disk, edits)
  BY <1>2 DEF MyAnalysis
<1>5. Step(p, w, Finished(me, o))
  BY DEF Stored, Finish, Finished
<1> HIDE DEF me, r, result, error
<1>6. ThreadKeeps(r, me, Finished(me, o), disk, edits)
  BY <1>2, <1>3, <1>4, OutcomeHolds DEF Finished
<1> HIDE DEF o
<1>7. Finished(me, o).at \notin Storing
  BY FinishedIsQuiet
<1>8. ThreadKeeps(run[p], worker[p][w], Finished(me, o), disk, edits)
  BY <1>6 DEF me, r
<1>9. QED
  BY <1>5, <1>7, <1>8

LEMMA CreateKeeps ==
    ASSUME ProjectInv, NEW p \in Pids, NEW w \in Workers, worker[p][w].at = "create", run' = run,
           nonce' = [nonce EXCEPT ![p] = nonce[p] + 1],
           Create(TempName(MyKey(p, w), p, nonce[p]), Frame(MyKey(p, w), MyAnalysis(p, w))),
           Step(p, w, [worker[p][w] EXCEPT !.at = "write", !.nonce = nonce[p]])
    PROVE  ProjectInv'
<1> DEFINE me == worker[p][w]
           target == TempName(MyKey(p, w), p, nonce[p])
           frame == Frame(MyKey(p, w), MyAnalysis(p, w))
           new == [me EXCEPT !.at = "write", !.nonce = nonce[p]]
<1>1. Typed /\ nonce[p] \in Nat
  BY ProcessHolds
<1>2. me.at \in Holding /\ me.at \notin Storing /\ me.at \in {"create"} \cup Storing
  BY DEF Holding, Storing
<1>3. /\ me.at \in Busy /\ me \in Threads /\ me.content \in Contents /\ me.content \notin Broken
      /\ MyAnalysis(p, w) \in Results /\ MyAnalysis(p, w).content = me.content
      /\ MyKey(p, w) \in Keys /\ MyKey(p, w).analysis = MyAnalysis(p, w)
  BY <1>2, HoldingThread
<1>4. nonce'[p] = nonce[p] + 1 /\ nonce' = [nonce EXCEPT ![p] = nonce'[p]]
  BY <1>1, NoncesAfter
<1>5. nonce'[p] \in Nat /\ nonce[p] <= nonce'[p] /\ nonce[p] < nonce'[p]
  BY <1>1, <1>4
<1>6. target \notin DOMAIN temps /\ temps' = With(temps, target, frame) /\ entries' = entries
  BY DEF Create
<1>7. FrameOK(frame)
  <2>1. frame \in Frames /\ frame.key = MyKey(p, w) /\ frame.result = MyAnalysis(p, w)
    BY <1>3 DEF Frame, Frames, FrameStates
  <2>2. QED
    BY <1>3, <2>1 DEF FrameOK
<1>8. Step(p, w, new)
  OBVIOUS
<1>9. /\ new \in Threads /\ new.at = "write" /\ new.i = me.i /\ new.content = me.content
      /\ new.nonce = nonce[p] /\ new.outcomes = me.outcomes
  <2> DEFINE n == nonce[p]
  <2>1. n \in Nat /\ me \in Threads /\ "write" \in Stations
    BY <1>1, <1>3 DEF Stations, Busy, Holding
  <2> HIDE DEF n, me
  <2>2. LET next == [me EXCEPT !.at = "write", !.nonce = n]
        IN  /\ next \in Threads /\ next.at = "write" /\ next.i = me.i /\ next.content = me.content
            /\ next.nonce = n /\ next.outcomes = me.outcomes
    BY <2>1, CreateFields
  <2>3. QED
    BY <2>2 DEF n
<1>10. NameOf(p, run[p], new) = target
  BY <1>9 DEF NameOf, MyKey
<1> HIDE DEF target, frame, new
<1>11. /\ DOMAIN temps' = DOMAIN temps \cup {target}
       /\ temps'[target] = frame
       /\ \A z \in DOMAIN temps \ {target} : temps'[z] = temps[z]
       /\ temps' = [z \in DOMAIN temps' |-> temps'[z]]
  <2> DEFINE next == With(temps, target, frame)
  <2>1. DOMAIN next = DOMAIN temps \cup {target}
    BY DEF With
  <2>2. next[target] = frame
    BY DEF With
  <2>3. \A z \in DOMAIN temps \ {target} : next[z] = temps[z]
    BY DEF With
  <2>4. next = [z \in DOMAIN next |-> next[z]]
    BY DEF With
  <2> HIDE DEF next
  <2>5. temps' = next
    BY <1>6 DEF next
  <2>6. QED
    BY <2>1, <2>2, <2>3, <2>4, <2>5
<1>12. FilesOK'
  <2>1. FilesOK
    BY DEF ProjectInv
  <2>2. \A name \in DOMAIN temps' : (name \in DOMAIN temps /\ temps'[name] = temps[name]) \/ FrameOK(temps'[name])
    BY <1>7, <1>11
  <2>3. QED
    BY <1>6, <1>11, <2>1, <2>2, TempsChange
<1>13. ThreadKeeps(run[p], me, new, disk, edits)
  BY <1>2, <1>9, StoreMoves DEF Storing
<1>14. \A v \in Workers \ {w} : worker[p][v].at \in Storing => worker[p][v].nonce # new.nonce
  <2>1. ASSUME NEW v \in Workers \ {w}, worker[p][v].at \in Storing PROVE worker[p][v].nonce # new.nonce
    <3>1. worker[p][v].nonce < nonce[p]
      BY <2>1, StoringThread
    <3>2. worker[p][v].nonce \in Nat
      BY <1>1, ThreadFields DEF Typed
    <3>3. QED
      BY <1>1, <1>9, <3>1, <3>2
  <2>2. QED
    BY <2>1
<1>15. OneFile(target)
  BY <1>11 DEF OneFile
<1>16. HasFile(p, w, new, target)
  <2>1. new.at \in Storing /\ new.nonce < nonce'[p] /\ target \in DOMAIN temps'
    BY <1>5, <1>9, <1>11 DEF Storing
  <2>2. QED
    BY <1>2, <1>6, <1>9, <1>10, <1>14, <2>1, Zenon DEF HasFile
<1>17. worker[p][w].at \in Busy /\ ThreadKeeps(run[p], worker[p][w], new, disk, edits)
  BY <1>3, <1>13
<1>18. QED
  BY <1>4, <1>5, <1>8, <1>12, <1>15, <1>16, <1>17, FileStep

LEMMA TryTempKeeps ==
    ASSUME ProjectInv, NEW p \in Pids, NEW w \in Workers, TryTemp(p, w)
    PROVE  ProjectInv'
<1> DEFINE me == worker[p][w]
           again == [me EXCEPT !.tries = me.tries + 1]
<1>1. me.at = "create" /\ me.at \in Holding /\ me.at \notin Storing
  BY DEF TryTemp, At, Holding, Storing
<1>2. nonce' = [nonce EXCEPT ![p] = nonce[p] + 1] /\ run' = run
  BY DEF TryTemp
<1>3. \/ /\ Create(TempName(MyKey(p, w), p, nonce[p]), Frame(MyKey(p, w), MyAnalysis(p, w)))
         /\ Step(p, w, [me EXCEPT !.at = "write", !.nonce = nonce[p]])
      \/ Step(p, w, again) /\ UNCHANGED directory
      \/ Stored(p, w) /\ UNCHANGED directory
  BY Zenon DEF TryTemp
<1>4. Typed /\ nonce[p] \in Nat
  BY ProcessHolds
<1>5. nonce'[p] = nonce[p] + 1 /\ nonce' = [nonce EXCEPT ![p] = nonce'[p]]
  BY <1>2, <1>4, NoncesAfter
<1>6. nonce'[p] \in Nat /\ nonce[p] <= nonce'[p]
  BY <1>4, <1>5
<1>7. /\ me.at \in Busy /\ me \in Threads /\ SourceOf(run[p], me.i, me.content, disk, edits)
      /\ me.content \notin Broken
  BY <1>1, HoldingThread
<1>8. CASE /\ Create(TempName(MyKey(p, w), p, nonce[p]), Frame(MyKey(p, w), MyAnalysis(p, w)))
           /\ Step(p, w, [me EXCEPT !.at = "write", !.nonce = nonce[p]])
  BY <1>1, <1>2, <1>8, CreateKeeps, Zenon
<1>9. CASE Step(p, w, again) /\ UNCHANGED directory
  <2>1. /\ again \in Threads /\ again.at = me.at /\ again.i = me.i /\ again.content = me.content
        /\ again.outcomes = me.outcomes
    BY <1>7, TryFields
  <2> HIDE DEF again
  <2>2. QED
    BY <1>1, <1>2, <1>5, <1>6, <1>7, <1>9, <2>1, MoveKeeps
<1>10. CASE Stored(p, w) /\ UNCHANGED directory
  <2>1. PICK new : /\ Step(p, w, new) /\ new.at \notin Storing
                   /\ ThreadKeeps(run[p], worker[p][w], new, disk, edits)
    BY <1>1, <1>10, StoreEnds
  <2>2. QED
    BY <1>1, <1>2, <1>5, <1>6, <1>7, <1>10, <2>1, QuietStep
<1>11. QED
  BY <1>3, <1>8, <1>9, <1>10

(* A temporary file is written or synced. *)
LEMMA AlterKeeps ==
    ASSUME ProjectInv, NEW p \in Pids, NEW w \in Workers, worker[p][w].at \in Storing,
           NEW at \in {"sync", "rename"}, Step(p, w, [worker[p][w] EXCEPT !.at = at]),
           NEW frame, FrameOK(frame), frame.state = "whole", at = "rename" => frame.synced,
           temps' = [temps EXCEPT ![MyTemp(p, w)] = frame], entries' = entries, run' = run, nonce' = nonce
    PROVE  ProjectInv'
<1> DEFINE me == worker[p][w]
           target == MyTemp(p, w)
           new == [me EXCEPT !.at = at]
<1>1. /\ me.at \in Holding /\ target = NameOf(p, run[p], me) /\ target \in DOMAIN temps
      /\ me.nonce < nonce[p]
      /\ \A v \in Workers \ {w} : worker[p][v].at \in Storing => worker[p][v].nonce # me.nonce
  BY StoringThread
<1>2. me.at \in Busy /\ me \in Threads
  BY <1>1, HoldingThread
<1>3. at \in Stations /\ at \in Storing /\ at # "write"
  BY DEF Stations, Busy, Holding, Storing
<1>4. Step(p, w, new)
  OBVIOUS
<1>5. /\ new \in Threads /\ new.at = at /\ new.i = me.i /\ new.content = me.content
      /\ new.nonce = me.nonce /\ new.outcomes = me.outcomes
  <2> HIDE DEF me
  <2>1. QED
    BY <1>2, <1>3, MovedFields
<1>6. NameOf(p, run[p], new) = target
  BY <1>1, <1>5 DEF NameOf
<1>7. FilesOK
  BY DEF ProjectInv
<1> HIDE DEF target, new
<1>8. /\ DOMAIN temps' = DOMAIN temps /\ temps'[target] = frame
      /\ \A z \in DOMAIN temps \ {target} : temps'[z] = temps[z]
      /\ temps' = [z \in DOMAIN temps' |-> temps'[z]]
  <2>1. temps' = [temps EXCEPT ![target] = frame]
    BY DEF target
  <2>2. temps = [z \in DOMAIN temps |-> temps[z]]
    BY <1>7 DEF FilesOK
  <2>3. QED
    BY <1>1, <2>1, <2>2
<1>9. FilesOK'
  <2>1. \A name \in DOMAIN temps' : (name \in DOMAIN temps /\ temps'[name] = temps[name]) \/ FrameOK(temps'[name])
    BY <1>8
  <2>2. QED
    BY <1>7, <1>8, <2>1, TempsChange
<1>10. ThreadKeeps(run[p], worker[p][w], new, disk, edits)
  BY <1>3, <1>5, StoreMoves
<1>11. OneFile(target)
  BY <1>8 DEF OneFile
<1>12. nonce' = [nonce EXCEPT ![p] = nonce'[p]] /\ nonce'[p] \in Nat /\ nonce[p] <= nonce'[p]
  BY NoncesStay
<1>13. HasFile(p, w, new, target)
  <2>1. /\ new.at \in Storing /\ target \in DOMAIN temps' /\ new.nonce < nonce'[p]
        /\ temps'[target].state = "whole" /\ (new.at = "rename" => temps'[target].synced)
    BY <1>1, <1>3, <1>5, <1>8
  <2>2. \A v \in Workers \ {w} : worker[p][v].at \in Storing => worker[p][v].nonce # new.nonce
    BY <1>1, <1>5
  <2>3. QED
    BY <1>1, <1>6, <2>1, <2>2, Zenon DEF HasFile
<1>14. QED
  BY <1>2, <1>4, <1>9, <1>10, <1>11, <1>12, <1>13, FileStep

LEMMA WriteFrameKeeps ==
    ASSUME ProjectInv, NEW p \in Pids, NEW w \in Workers, WriteFrame(p, w)
    PROVE  ProjectInv'
<1> DEFINE frame == [temps[MyTemp(p, w)] EXCEPT !.state = "whole"]
<1>1. worker[p][w].at = "write" /\ worker[p][w].at \in Storing
  BY DEF WriteFrame, At, Storing
<1>2. FrameOK(temps[MyTemp(p, w)])
  BY <1>1, StoringThread
<1>3. FrameOK(frame) /\ frame.state = "whole"
  BY <1>2, FrameKept DEF FrameStates
<1>4. temps' = [temps EXCEPT ![MyTemp(p, w)] = frame] /\ entries' = entries /\ run' = run /\ nonce' = nonce
  BY DEF WriteFrame, Write
<1> HIDE DEF frame
<1> DEFINE at == "sync"
<1>5. Step(p, w, [worker[p][w] EXCEPT !.at = at]) /\ at \in {"sync", "rename"} /\ at # "rename"
  BY DEF WriteFrame
<1> HIDE DEF at
<1>6. QED
  BY <1>1, <1>3, <1>4, <1>5, AlterKeeps

LEMMA SyncFrameKeeps ==
    ASSUME ProjectInv, NEW p \in Pids, NEW w \in Workers, SyncFrame(p, w)
    PROVE  ProjectInv'
<1> DEFINE frame == [temps[MyTemp(p, w)] EXCEPT !.synced = TRUE]
<1>1. worker[p][w].at = "sync" /\ worker[p][w].at \in Storing
  BY DEF SyncFrame, At, Storing
<1>2. FrameOK(temps[MyTemp(p, w)]) /\ temps[MyTemp(p, w)].state = "whole"
  BY <1>1, StoringThread
<1>3. FrameOK(frame) /\ frame.state = "whole" /\ frame.synced
  BY <1>2, FrameKept
<1>4. temps' = [temps EXCEPT ![MyTemp(p, w)] = frame] /\ entries' = entries /\ run' = run /\ nonce' = nonce
  BY DEF SyncFrame, Sync
<1> HIDE DEF frame
<1> DEFINE at == "rename"
<1>5. Step(p, w, [worker[p][w] EXCEPT !.at = at]) /\ at \in {"sync", "rename"}
  BY DEF SyncFrame
<1> HIDE DEF at
<1>6. QED
  BY <1>1, <1>3, <1>4, <1>5, AlterKeeps

(* The temporary file is gone. *)
LEMMA StoreEndKeeps ==
    ASSUME ProjectInv, NEW p \in Pids, NEW w \in Workers, worker[p][w].at \in Storing, Stored(p, w),
           temps' = Without(temps, MyTemp(p, w)), run' = run, nonce' = nonce,
           entries' = [key \in DOMAIN entries' |-> entries'[key]],
           \A key \in DOMAIN entries' :
               \/ key \in DOMAIN entries /\ entries'[key] = entries[key]
               \/ FrameOK(entries'[key]) /\ entries'[key].state # "torn" /\ entries'[key].synced
    PROVE  ProjectInv'
<1> DEFINE target == MyTemp(p, w)
<1>1. worker[p][w].at \in Holding /\ target = NameOf(p, run[p], worker[p][w])
  BY StoringThread
<1>2. worker[p][w].at \in Busy
  BY <1>1, HoldingThread
<1>3. PICK new : /\ Step(p, w, new) /\ new.at \notin Storing
                 /\ ThreadKeeps(run[p], worker[p][w], new, disk, edits)
  BY StoreEnds
<1> HIDE DEF target
<1>4. /\ DOMAIN temps' = DOMAIN temps \ {target}
      /\ \A z \in DOMAIN temps \ {target} : temps'[z] = temps[z]
      /\ temps' = [z \in DOMAIN temps' |-> temps'[z]]
  <2>1. temps' = Without(temps, target)
    BY DEF target
  <2>2. QED
    BY <2>1 DEF Without
<1>5. FilesOK'
  <2>1. FilesOK
    BY DEF ProjectInv
  <2>2. \A key \in DOMAIN entries' : FrameOK(entries'[key]) /\ entries'[key].state # "torn" /\ entries'[key].synced
    BY <2>1 DEF FilesOK
  <2>3. \A name \in DOMAIN temps' : FrameOK(temps'[name])
    BY <1>4, <2>1 DEF FilesOK
  <2>4. QED
    BY <1>4, <2>2, <2>3 DEF FilesOK
<1>6. OneFile(target)
  BY <1>4 DEF OneFile
<1>7. HasFile(p, w, new, target)
  <2>1. target \notin DOMAIN temps'
    BY <1>4
  <2>2. QED
    BY <1>1, <1>3, <2>1, Zenon DEF HasFile
<1>8. nonce' = [nonce EXCEPT ![p] = nonce'[p]] /\ nonce'[p] \in Nat /\ nonce[p] <= nonce'[p]
  BY NoncesStay
<1>9. QED
  BY <1>2, <1>3, <1>5, <1>6, <1>7, <1>8, FileStep

LEMMA RenameFrameKeeps ==
    ASSUME ProjectInv, NEW p \in Pids, NEW w \in Workers, RenameFrame(p, w)
    PROVE  ProjectInv'
<1> DEFINE frame == temps[MyTemp(p, w)]
           key == MyTemp(p, w).entry
<1>1. worker[p][w].at = "rename" /\ worker[p][w].at \in Storing
  BY DEF RenameFrame, At, Storing
<1>2. FrameOK(frame) /\ frame.state = "whole" /\ frame.synced
  BY <1>1, StoringThread
<1>3. entries' = With(entries, key, frame) /\ temps' = Without(temps, MyTemp(p, w))
  BY DEF RenameFrame, Rename
<1>4. run' = run /\ nonce' = nonce /\ Stored(p, w)
  BY DEF RenameFrame
<1> HIDE DEF frame, key
<1>5. /\ entries' = [k \in DOMAIN entries' |-> entries'[k]]
      /\ \A k \in DOMAIN entries' : \/ k \in DOMAIN entries /\ entries'[k] = entries[k]
                                    \/ entries'[k] = frame
  BY <1>3 DEF With
<1>6. \A k \in DOMAIN entries' :
          \/ k \in DOMAIN entries /\ entries'[k] = entries[k]
          \/ FrameOK(entries'[k]) /\ entries'[k].state # "torn" /\ entries'[k].synced
  BY <1>2, <1>5
<1>7. QED
  BY <1>1, <1>3, <1>4, <1>5, <1>6, StoreEndKeeps

LEMMA StoreFailsKeeps ==
    ASSUME ProjectInv, NEW p \in Pids, NEW w \in Workers, StoreFails(p, w)
    PROVE  ProjectInv'
<1>1. worker[p][w].at \in Storing
  BY DEF StoreFails, Storing
<1>2. entries' = entries /\ temps' = Without(temps, MyTemp(p, w))
  BY DEF StoreFails, Remove
<1>3. run' = run /\ nonce' = nonce /\ Stored(p, w)
  BY DEF StoreFails
<1>4. entries' = [k \in DOMAIN entries' |-> entries'[k]]
  BY <1>2 DEF ProjectInv, FilesOK
<1>5. \A k \in DOMAIN entries' : k \in DOMAIN entries /\ entries'[k] = entries[k]
  BY <1>2
<1>6. QED
  BY <1>1, <1>2, <1>3, <1>4, <1>5, StoreEndKeeps

-----------------------------------------------------------------------------
(* The world around the processes. *)
LEMMA EditKeeps ==
    ASSUME ProjectInv, Edit
    PROVE  ProjectInv'
<1>1. Typed
  BY DEF ProjectInv
<1>2. PICK f \in Files, c \in Contents \cup {Unreadable} : disk' = [disk EXCEPT ![f] = c]
  BY DEF Edit
<1>3. /\ edits' = edits + 1 /\ entries' = entries /\ temps' = temps /\ run' = run /\ worker' = worker
      /\ nonce' = nonce /\ faults' = faults
  BY DEF Edit, directory
<1>4. Typed'
  BY <1>1, <1>2, <1>3 DEF Typed
<1>5. RunsOK'
  <2>1. ASSUME NEW p \in Pids PROVE ProcessOK(run[p], worker[p], disk', edits + 1)
    <3> DEFINE r == run[p]
               threads == worker[p]
    <3>1. ProcessOK(r, threads, disk, edits) /\ edits \in Nat
      BY ProcessHolds
    <3> DEFINE d == disk'
               e == edits
    <3>2. e \in Nat /\ ProcessOK(r, threads, disk, e)
      BY <3>1
    <3> HIDE DEF r, threads, d, e
    <3>3. RunOK(r, threads, disk, e) => RunOK(r, threads, d, e + 1)
      BY <3>2, RunOutlivesEdit
    <3>4. ProcessOK(r, threads, d, e + 1)
      BY <3>2, <3>3 DEF ProcessOK
    <3>5. QED
      BY <3>4 DEF r, threads, d, e
  <2>2. QED
    BY <1>3, <2>1 DEF RunsOK, ProcessOK
<1>6. FilesOK'
  BY <1>3 DEF ProjectInv, FilesOK
<1>7. StoresOK'
  BY <1>3 DEF ProjectInv, StoresOK
<1>8. TempsOwned'
  BY <1>3 DEF ProjectInv, TempsOwned
<1>9. QED
  BY <1>4, <1>5, <1>6, <1>7, <1>8 DEF ProjectInv

(* Processes that die leave their temporary files. *)
LEMMA DeadKeeps ==
    ASSUME ProjectInv, NEW ps \in SUBSET Pids, Dead(ps), FilesOK', faults' = faults + 1,
           UNCHANGED <<disk, nonce, edits>>, ps = Pids \/ temps' = temps
    PROVE  ProjectInv'
<1>1. Typed
  BY DEF ProjectInv
<1>2. /\ run' = [p \in Pids |-> IF p \in ps THEN Off ELSE run[p]]
      /\ worker' = [p \in Pids |-> IF p \in ps THEN [w \in Workers |-> Idle] ELSE worker[p]]
  BY DEF Dead
<1>3. [w \in Workers |-> Idle] \in [Workers -> Threads]
  BY IdleTyped
<1>4. ASSUME NEW p \in Pids, p \in ps PROVE run'[p] = Off /\ worker'[p] = [w \in Workers |-> Idle]
  BY <1>2, <1>4
<1>5. ASSUME NEW p \in Pids, p \notin ps PROVE run'[p] = run[p] /\ worker'[p] = worker[p]
  BY <1>2, <1>5
<1>6. Typed'
  <2>1. run' = [p \in Pids |-> run'[p]]
    BY <1>2
  <2>2. worker' \in [Pids -> [Workers -> Threads]]
    <3>1. \A p \in Pids : worker'[p] \in [Workers -> Threads]
      BY <1>1, <1>3, <1>4, <1>5 DEF Typed
    <3>2. worker' = [p \in Pids |-> worker'[p]]
      BY <1>2
    <3>3. QED
      BY <3>1, <3>2
  <2>3. QED
    BY <1>1, <2>1, <2>2 DEF Typed
<1>7. RunsOK'
  <2>1. ASSUME NEW p \in Pids PROVE ProcessOK(run'[p], worker'[p], disk, edits)
    <3>1. CASE p \in ps
      <4>1. ProcessOK(Off, [w \in Workers |-> Idle], disk, edits)
        BY ProcessIsOff
      <4>2. QED
        BY <1>4, <3>1, <4>1
    <3>2. CASE p \notin ps
      BY <1>5, <3>2, ProcessHolds
    <3>3. QED
      BY <3>1, <3>2
  <2>2. QED
    BY <2>1 DEF RunsOK, ProcessOK
<1>8. StoresOK'
  <2>1. ASSUME NEW p \in Pids, NEW w \in Workers PROVE StoreOK(temps', nonce[p], p, run'[p], worker'[p], w)
    <3>1. CASE p \in ps
      <4>1. worker'[p][w].at \notin Storing
        BY <1>4, <3>1, IdleTyped DEF Storing
      <4>2. QED
        BY <4>1, Zenon DEF StoreOK
    <3>2. CASE p \notin ps
      <4>1. StoreOK(temps, nonce[p], p, run[p], worker[p], w)
        BY DEF ProjectInv, StoresOK
      <4>2. temps' = temps
        BY <3>2
      <4>3. QED
        BY <1>5, <3>2, <4>1, <4>2
    <3>3. QED
      BY <3>1, <3>2
  <2>2. QED
    BY <2>1 DEF StoresOK
<1>9. TempsOwned'
  <2>1. faults' # 0
    BY <1>1 DEF Typed
  <2>2. QED
    BY <2>1 DEF TempsOwned
<1>10. QED
  BY <1>6, <1>7, <1>8, <1>9 DEF ProjectInv

LEMMA DieKeeps ==
    ASSUME ProjectInv, NEW p \in Pids, Die(p)
    PROVE  ProjectInv'
<1>1. /\ Dead({p}) /\ faults' = faults + 1 /\ UNCHANGED <<disk, nonce, edits>>
      /\ entries' = entries /\ temps' = temps
  BY DEF Die, directory
<1>2. FilesOK'
  BY <1>1 DEF ProjectInv, FilesOK
<1>3. {p} \in SUBSET Pids
  OBVIOUS
<1>4. QED
  BY <1>1, <1>2, <1>3, DeadKeeps

LEMMA PowerLossKeeps ==
    ASSUME ProjectInv, PowerLoss
    PROVE  ProjectInv'
<1>1. Dead(Pids) /\ faults' = faults + 1 /\ UNCHANGED <<disk, nonce, edits>>
  BY DEF PowerLoss
<1>2. PICK kept \in SUBSET DOMAIN entries : entries' = [key \in kept |-> Torn(entries[key])]
  BY DEF PowerLoss, LosePower
<1>3. temps' = [name \in DOMAIN temps |-> Torn(temps[name])]
  BY DEF PowerLoss, LosePower
<1>4. FilesOK
  BY DEF ProjectInv
<1>5. \A key \in DOMAIN entries' : entries'[key] = entries[key] /\ key \in DOMAIN entries
  BY <1>2, <1>4 DEF FilesOK, Torn
<1>6. ASSUME NEW name \in DOMAIN temps' PROVE FrameOK(temps'[name])
  <2>1. FrameOK(temps[name]) /\ temps'[name] = Torn(temps[name])
    BY <1>3, <1>4 DEF FilesOK
  <2>2. FrameOK(Torn(temps[name]))
    BY <2>1, FrameKept DEF Torn, FrameStates
  <2>3. QED
    BY <2>1, <2>2
<1>7. FilesOK'
  <2>1. entries' = [key \in DOMAIN entries' |-> entries'[key]] /\ temps' = [name \in DOMAIN temps' |-> temps'[name]]
    BY <1>2, <1>3
  <2>2. \A key \in DOMAIN entries' : FrameOK(entries'[key]) /\ entries'[key].state # "torn" /\ entries'[key].synced
    BY <1>4, <1>5 DEF FilesOK
  <2>3. QED
    BY <1>6, <2>1, <2>2 DEF FilesOK
<1>8. QED
  BY <1>1, <1>7, DeadKeeps

LEMMA TamperKeeps ==
    ASSUME ProjectInv, Tamper
    PROVE  ProjectInv'
<1>1. faults' = faults + 1 /\ UNCHANGED <<disk, run, worker, nonce, edits>>
  BY DEF Tamper
<1>2. PICK key \in DOMAIN entries :
         /\ \/ \E s \in Damages : entries' = [entries EXCEPT ![key].state = s]
            \/ \E other \in DOMAIN entries : entries' = [entries EXCEPT ![key] = entries[other]]
            \/ entries' = Without(entries, key)
         /\ UNCHANGED temps
  BY DEF Tamper, Damage
<1>3. FilesOK /\ Typed
  BY DEF ProjectInv
<1>4. entries = [k \in DOMAIN entries |-> entries[k]]
  BY <1>3 DEF FilesOK
<1>5. \A k \in DOMAIN entries : FrameOK(entries[k]) /\ entries[k].state # "torn" /\ entries[k].synced
  BY <1>3 DEF FilesOK
<1>6. /\ entries' = [k \in DOMAIN entries' |-> entries'[k]]
      /\ \A k \in DOMAIN entries' : FrameOK(entries'[k]) /\ entries'[k].state # "torn" /\ entries'[k].synced
  <2>1. CASE \E s \in Damages : entries' = [entries EXCEPT ![key].state = s]
    <3>1. PICK s \in Damages : entries' = [entries EXCEPT ![key].state = s]
      BY <2>1
    <3> DEFINE frame == [entries[key] EXCEPT !.state = s]
    <3>2. entries' = [entries EXCEPT ![key] = frame]
      BY <3>1
    <3>3. s \in FrameStates /\ s # "torn"
      BY DEF Damages, FrameStates
    <3>4. FrameOK(frame) /\ frame.state # "torn" /\ frame.synced
      <4> DEFINE old == entries[key]
      <4>1. FrameOK(old) /\ old.synced
        BY <1>5
      <4> HIDE DEF old
      <4>2. LET now == [old EXCEPT !.state = s] IN FrameOK(now) /\ now.state = s /\ now.synced = old.synced
        BY <3>3, <4>1, FrameKept
      <4>3. QED
        BY <3>3, <4>1, <4>2 DEF old
    <3> HIDE DEF frame
    <3>5. QED
      BY <1>4, <1>5, <3>2, <3>4
  <2>2. CASE \E other \in DOMAIN entries : entries' = [entries EXCEPT ![key] = entries[other]]
    BY <1>4, <1>5, <2>2
  <2>3. CASE entries' = Without(entries, key)
    BY <1>5, <2>3 DEF Without
  <2>4. QED
    BY <1>2, <2>1, <2>2, <2>3
<1>7. FilesOK'
  <2>1. temps' = temps
    BY <1>2
  <2>2. QED
    BY <1>3, <1>6, <2>1 DEF FilesOK
<1>8. Typed'
  BY <1>1, <1>3 DEF Typed
<1>9. RunsOK' /\ StoresOK'
  BY <1>1, <1>2 DEF ProjectInv, RunsOK, StoresOK
<1>10. TempsOwned'
  <2>1. faults' # 0
    BY <1>1, <1>3 DEF Typed
  <2>2. QED
    BY <2>1 DEF TempsOwned
<1>11. QED
  BY <1>7, <1>8, <1>9, <1>10 DEF ProjectInv

-----------------------------------------------------------------------------
(* The invariant. *)
LEMMA ProjectInit == Init => ProjectInv
<1> SUFFICES ASSUME Init PROVE ProjectInv
  OBVIOUS
<1>1. entries = <<>> /\ temps = <<>>
  BY DEF Init, CacheInit
<1>2. DOMAIN entries = {} /\ DOMAIN temps = {}
  BY <1>1
<1>3. FilesOK
  BY <1>1, <1>2 DEF FilesOK
<1>4. [w \in Workers |-> Idle] \in [Workers -> Threads]
  BY IdleTyped
<1>5. Typed
  BY <1>4 DEF Init, Typed
<1>6. RunsOK
  <2>1. Off.phase = "off"
    BY DEF Off
  <2>2. \A p \in Pids : run[p] = Off /\ worker[p] = [w \in Workers |-> Idle]
    BY DEF Init
  <2>3. QED
    BY <2>1, <2>2 DEF RunsOK
<1>7. StoresOK
  <2>1. ASSUME NEW p \in Pids, NEW w \in Workers PROVE worker[p][w].at \notin Storing
    BY IdleTyped DEF Init, Storing
  <2>2. QED
    BY <2>1, Zenon DEF StoresOK, StoreOK
<1>8. TempsOwned
  BY <1>2 DEF TempsOwned
<1>9. QED
  BY <1>3, <1>5, <1>6, <1>7, <1>8 DEF ProjectInv

LEMMA ProjectStutters ==
    ASSUME ProjectInv, UNCHANGED vars
    PROVE  ProjectInv'
<1>1. /\ entries' = entries /\ temps' = temps /\ disk' = disk /\ run' = run /\ worker' = worker
      /\ nonce' = nonce /\ edits' = edits /\ faults' = faults
  BY DEF vars, directory
<1>2. Typed'
  BY <1>1 DEF ProjectInv, Typed
<1>3. FilesOK'
  BY <1>1 DEF ProjectInv, FilesOK
<1>4. RunsOK'
  BY <1>1 DEF ProjectInv, RunsOK
<1>5. StoresOK'
  BY <1>1 DEF ProjectInv, StoresOK
<1>6. TempsOwned'
  BY <1>1 DEF ProjectInv, TempsOwned
<1>7. QED
  BY <1>2, <1>3, <1>4, <1>5, <1>6 DEF ProjectInv

LEMMA ProjectNext ==
    ASSUME ProjectInv, [Next]_vars
    PROVE  ProjectInv'
<1>1. ASSUME NEW p \in Pids, NEW w \in Workers, Work(p, w) PROVE ProjectInv'
  <2>1. CASE Claim(p, w)
    BY <2>1, ClaimKeeps
  <2>2. CASE Read(p, w)
    BY <2>2, ReadKeeps
  <2>3. CASE Stat(p, w)
    BY <2>3, StatKeeps
  <2>4. CASE Open(p, w)
    BY <2>4, OpenKeeps
  <2>5. CASE Analyze(p, w)
    BY <2>5, AnalyzeKeeps
  <2>6. CASE TryTemp(p, w)
    BY <2>6, TryTempKeeps
  <2>7. CASE WriteFrame(p, w)
    BY <2>7, WriteFrameKeeps
  <2>8. CASE SyncFrame(p, w)
    BY <2>8, SyncFrameKeeps
  <2>9. CASE RenameFrame(p, w)
    BY <2>9, RenameFrameKeeps
  <2>10. CASE StoreFails(p, w)
    BY <2>10, StoreFailsKeeps
  <2>11. QED
    BY <1>1, <2>1, <2>2, <2>3, <2>4, <2>5, <2>6, <2>7, <2>8, <2>9, <2>10 DEF Work
<1>2. ASSUME NEW p \in Pids, Prepare(p) PROVE ProjectInv'
  <2>1. CASE Collect(p)
    BY <2>1, CollectKeepsInv
  <2>2. CASE CollectDone(p)
    BY <2>2, CollectDoneKeeps
  <2>3. CASE Index(p)
    BY <2>3, IndexKeeps
  <2>4. CASE LoadContext(p)
    BY <2>4, LoadContextKeeps
  <2>5. CASE SpawnDone(p)
    BY <2>5, SpawnDoneKeeps
  <2>6. QED
    BY <1>2, <2>1, <2>2, <2>3, <2>4, <2>5 DEF Prepare
<1>3. CASE UNCHANGED vars
  BY <1>3, ProjectStutters
<1>4. CASE Edit
  BY <1>4, EditKeeps
<1>5. CASE PowerLoss
  BY <1>5, PowerLossKeeps
<1>6. CASE Tamper
  BY <1>6, TamperKeeps
<1>7. ASSUME NEW p \in Pids, ProcessMoves(p) PROVE ProjectInv'
  <2>1. CASE Begin(p)
    BY <2>1, BeginKeeps
  <2>2. CASE Spawn(p)
    BY <2>2, SpawnKeeps
  <2>3. CASE Report(p)
    BY <2>3, ReportKeeps
  <2>4. CASE Exit(p)
    BY <2>4, ExitKeeps
  <2>5. CASE Die(p)
    BY <2>5, DieKeeps
  <2>6. CASE \E w \in Workers : Join(p, w)
    BY <2>6, JoinKeeps
  <2>7. QED
    BY <1>1, <1>2, <1>7, <2>1, <2>2, <2>3, <2>4, <2>5, <2>6 DEF ProcessMoves
<1>8. QED
  BY <1>3, <1>4, <1>5, <1>6, <1>7 DEF Next

(* What its processes hold and what the directory holds, at every moment of  *)
(* analyze_project_paths in any number of processes on one cache.            *)
THEOREM ProjectInvariant == Spec => []ProjectInv
<1>1. Init => ProjectInv
  BY ProjectInit
<1>2. ProjectInv /\ [Next]_vars => ProjectInv'
  BY ProjectNext
<1>3. QED
  BY <1>1, <1>2, PTL DEF Spec

(* "Writes are best-effort and atomic": whatever processes die, power is     *)
(* lost or files are edited, store leaves no entry of which not all is       *)
(* there and none of an analysis that failed, and while nothing has gone     *)
(* wrong only a thread that is storing has a temporary file.                 *)
THEOREM EntriesAreAtomic == Spec => []EntriesAtomic
<1>1. ProjectInv => EntriesAtomic
  <2> SUFFICES ASSUME ProjectInv PROVE EntriesAtomic
    OBVIOUS
  <2>1. \A key \in DOMAIN entries : entries[key].state # "torn" /\ entries[key].result.content \notin Broken
    BY DEF ProjectInv, FilesOK, FrameOK
  <2>2. ASSUME faults = 0, NEW name \in DOMAIN temps
        PROVE  \E p \in Pids, w \in Workers :
                  worker[p][w].at \in {"write", "sync", "rename"} /\ MyTemp(p, w) = name
    <3>1. PICK p \in Pids, w \in Workers : Owns(p, run[p], worker[p][w], name)
      BY <2>2 DEF ProjectInv, TempsOwned
    <3>2. worker[p][w].at \in {"write", "sync", "rename"} /\ NameOf(p, run[p], worker[p][w]) = name
      BY <3>1 DEF Owns, Storing
    <3>3. MyTemp(p, w) = name
      BY <3>2 DEF MyTemp, MyKey, NameOf
    <3>4. QED
      BY <3>2, <3>3
  <2>3. QED
    BY <2>1, <2>2 DEF EntriesAtomic
<1>2. QED
  BY <1>1, ProjectInvariant, PTL

(* The cache is never the reason for a wrong report: each outcome of         *)
(* analyze_project_files is the analysis, under its command line, type index *)
(* and contexts, of the source that was kept or of one that was on the disk. *)
THEOREM ReportsAreFresh == Spec => []ReportIsFresh
<1>1. ProjectInv => ReportIsFresh
  <2> SUFFICES ASSUME ProjectInv, NEW p \in Pids, run[p].phase = "done",
                      NEW i \in DOMAIN run[p].report, run[p].report[i].result # None
               PROVE  LET o == run[p].report[i]
                          kept == run[p].pending[o.i].source
                      IN  /\ o.result = Analysis(run[p], o.i, o.result.content)
                          /\ o.error = (o.result.content \in Broken)
                          /\ kept # None => o.result.content = kept
                          /\ edits = 0 => o.result.content = disk[o.file]
    BY DEF ReportIsFresh
  <2>1. RunOK(run[p], worker[p], disk, edits)
    BY ProcessHolds
  <2>2. OutcomeOK(run[p], run[p].report[i], disk, edits)
    BY <2>1 DEF RunOK, ReportOK
  <2>3. QED
    BY <2>2, Zenon DEF OutcomeOK, SourceOf
<1>2. QED
  BY <1>1, ProjectInvariant, PTL

-----------------------------------------------------------------------------
(* Pending files are distinct files, so that there are no more than files. *)
LEMMA PendingFits ==
    ASSUME NEW r \in Runs, CollectedOK(r)
    PROVE  Pending(r) <= Cardinality(Files)
<1> DEFINE n == Len(r.pending)
           file == [i \in 1 .. n |-> r.pending[i].file]
<1>1. r.pending \in Seq(PendingFiles)
  BY RunFields
<1>2. n \in Nat /\ DOMAIN r.pending = 1 .. n
  BY <1>1
<1>3. \A i \in 1 .. n : r.pending[i].file \in Files
  BY <1>2, PendingFields
<1>4. \A i, j \in 1 .. n : r.pending[i].file = r.pending[j].file => i = j
  BY <1>2 DEF CollectedOK
<1> HIDE DEF n
<1>5. file \in Injection(1 .. n, Files)
  BY <1>3, <1>4 DEF Injection, IsInjective
<1>6. IsFiniteSet(Files)
  BY ProjectAssumption
<1>7. IsFiniteSet(1 .. n) /\ Cardinality(1 .. n) = n
  <2>1. IsFiniteSet(1 .. n) /\ Cardinality(1 .. n) = IF 1 > n THEN 0 ELSE n - 1 + 1
    BY <1>2, FS_Interval
  <2>2. QED
    BY <1>2, <2>1
<1>8. Cardinality(1 .. n) <= Cardinality(Files)
  BY <1>5, <1>6, FS_Injection
<1>9. QED
  BY <1>7, <1>8 DEF n, Pending

LEMMA StartedFits ==
    ASSUME NEW threads
    PROVE  Cardinality(Started(threads)) <= Parallelism
<1>1. Started(threads) \subseteq 1 .. Parallelism
  BY WorkersAre DEF Started
<1>2. Parallelism \in Nat \ {0}
  BY ProjectAssumption
<1>3. IsFiniteSet(1 .. Parallelism) /\ Cardinality(1 .. Parallelism) = IF 1 > Parallelism THEN 0 ELSE Parallelism - 1 + 1
  BY <1>2, FS_Interval
<1>4. Cardinality(1 .. Parallelism) = Parallelism
  BY <1>2, <1>3
<1>5. Cardinality(Started(threads)) <= Cardinality(1 .. Parallelism)
  BY <1>1, <1>3, FS_Subset
<1>6. QED
  BY <1>4, <1>5

LEMMA ProjectTypes ==
    ASSUME ProjectInv
    PROVE  TypeOK
<1>1. Typed /\ disk \in [Files -> Contents \cup {Unreadable}]
  BY DEF ProjectInv, Typed
<1>2. \A key \in DOMAIN entries : entries[key].state \in FrameStates
  BY EntryTyped DEF Frames
<1>3. ASSUME NEW p \in Pids, run[p].phase # "off"
      PROVE  /\ run[p].phase \in {"off", "collect", "index", "context", "spawn", "work", "done"}
             /\ run[p].options \in CommandLines
             /\ Pending(run[p]) <= Cardinality(Files)
             /\ Cardinality(Retained(run[p])) <= MaxRetained
             /\ run[p].next \in 1 .. Pending(run[p]) + Parallelism + 2
             /\ Cardinality(Started(worker[p])) <= Parallelism
  <2> DEFINE r == run[p]
             threads == worker[p]
  <2>1. RunOK(r, threads, disk, edits)
    BY <1>3, ProcessHolds
  <2> HIDE DEF r, threads
  <2>2. r \in Runs /\ CollectedOK(r) /\ PoolOK(r, threads)
    BY <2>1 DEF RunOK
  <2>3. r.phase \in Phases /\ r.options \in CommandLines /\ r.next \in Nat /\ r.pending \in Seq(PendingFiles)
    BY <2>2, RunFields
  <2>4. r.phase \in {"off", "collect", "index", "context", "spawn", "work", "done"}
    BY <2>3 DEF Phases
  <2>5. Pending(r) <= Cardinality(Files)
    BY <2>2, PendingFits
  <2>6. Cardinality(Retained(r)) <= MaxRetained
    BY <2>2 DEF CollectedOK
  <2>7. r.next \in 1 .. Pending(r) + Parallelism + 2
    <3>1. r.next >= 1 /\ r.next <= Len(r.pending) + Parallelism + 2
      BY <2>2, Zenon DEF PoolOK
    <3>2. Len(r.pending) \in Nat /\ Parallelism \in Nat
      BY <2>3, ProjectAssumption
    <3>3. QED
      BY <2>3, <3>1, <3>2 DEF Pending
  <2>8. Cardinality(Started(threads)) <= Parallelism
    BY StartedFits
  <2>9. QED
    BY <2>3, <2>4, <2>5, <2>6, <2>7, <2>8 DEF r, threads
<1>4. QED
  BY <1>1, <1>2, <1>3 DEF TypeOK

LEMMA DoneReports ==
    ASSUME NEW r, NEW threads, NEW d, NEW e, RunOK(r, threads, d, e), r.phase = "done"
    PROVE  /\ Len(r.report) = Pending(r)
           /\ \A i \in 1 .. Pending(r) : r.report[i].i = i
           /\ {Inputs(r)[i] : i \in DOMAIN Inputs(r)} = r.failed \cup {r.report[i].file : i \in 1 .. Pending(r)}
           /\ Cardinality(r.failed) + Pending(r) = Len(Inputs(r))
<1>1. r \in Runs /\ CollectedOK(r) /\ ReportOK(r, d, e) /\ DoneOK(r)
  BY DEF RunOK
<1>2. r.report \in Seq(Outcomes) /\ r.pending \in Seq(PendingFiles) /\ r.options \in CommandLines
  BY <1>1, RunFields
<1>3. Len(r.report) = Len(r.pending) /\ \A i \in DOMAIN r.report : r.report[i].i = i
  BY <1>1 DEF DoneOK
<1>4. DOMAIN r.report = 1 .. Len(r.pending) /\ DOMAIN r.pending = 1 .. Len(r.pending)
  BY <1>2, <1>3
<1>5. \A i \in 1 .. Len(r.pending) : r.report[i].file = r.pending[i].file
  BY <1>1, <1>3, <1>4 DEF ReportOK, OutcomeOK
<1>6. Inputs(r) \in Seq(Files)
  BY <1>2, ProjectAssumption DEF Inputs
<1>7. DOMAIN Inputs(r) = 1 .. Len(Inputs(r))
  BY <1>6
<1>8. Seen(r) = Len(Inputs(r))
  BY DEF Seen
<1>9. /\ Cardinality(r.failed) + Len(r.pending) = Len(Inputs(r))
      /\ {Inputs(r)[j] : j \in 1 .. Len(Inputs(r))} = r.failed \cup {r.pending[i].file : i \in DOMAIN r.pending}
  BY <1>1, <1>8 DEF CollectedOK
<1>10. {r.pending[i].file : i \in DOMAIN r.pending} = {r.report[i].file : i \in 1 .. Len(r.pending)}
  BY <1>4, <1>5
<1>11. QED
  BY <1>3, <1>4, <1>7, <1>9, <1>10 DEF Pending

(* analyze_project_files: whichever threads could be started and whoever     *)
(* claimed what, the report has one outcome for every input, in the order of *)
(* the inputs, and no input is both refused and analysed.                    *)
THEOREM OneOutcomeForEach == Spec => []OneOutcomeEach
<1>1. ProjectInv => OneOutcomeEach
  <2> SUFFICES ASSUME ProjectInv PROVE OneOutcomeEach
    OBVIOUS
  <2>1. TypeOK
    BY ProjectTypes
  <2>2. ASSUME NEW p \in Pids, run[p].phase = "done"
        PROVE  LET r == run[p]
                   reported == {r.report[i].file : i \in 1 .. Pending(r)}
               IN  /\ Len(r.report) = Pending(r)
                   /\ \A i \in 1 .. Pending(r) : r.report[i].i = i
                   /\ {Inputs(r)[i] : i \in DOMAIN Inputs(r)} = r.failed \cup reported
                   /\ Cardinality(r.failed) + Pending(r) = Len(Inputs(r))
    <3> DEFINE r == run[p]
               threads == worker[p]
    <3>1. RunOK(r, threads, disk, edits) /\ r.phase = "done"
      BY <2>2, ProcessHolds
    <3> HIDE DEF r, threads
    <3>2. /\ Len(r.report) = Pending(r)
          /\ \A i \in 1 .. Pending(r) : r.report[i].i = i
          /\ {Inputs(r)[i] : i \in DOMAIN Inputs(r)} = r.failed \cup {r.report[i].file : i \in 1 .. Pending(r)}
          /\ Cardinality(r.failed) + Pending(r) = Len(Inputs(r))
      BY <3>1, DoneReports
    <3>3. QED
      BY <3>2 DEF r
  <2>3. QED
    BY <2>1, <2>2 DEF OneOutcomeEach
<1>2. QED
  BY <1>1, ProjectInvariant, PTL
=============================================================================
