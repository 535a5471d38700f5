------------------------------ MODULE FixApply ------------------------------
(***************************************************************************)
(* hoonarqube fix --apply: processes that rewrite source files while other *)
(* processes, editors and crashes get in between.                          *)
(*                                                                         *)
(* A text is the set of marks a reader can tell apart: the mark of a tool  *)
(* stands for the findings its fixes remove, Edited for what a person      *)
(* wrote.  A name leads to an inode or is a symbolic link to another name. *)
(* Every access to the file system is a step of its own; what happens in   *)
(* memory between two accesses belongs to the step before.                 *)
(***************************************************************************)
EXTENDS Naturals, FiniteSets

CONSTANTS
    Tools,       \* processes that run fix --apply
    Paths,       \* the files they are given
    Links,       \* names outside: hard links to a file, targets of symbolic links
    Nodes,       \* inodes
    Absent, Edited,
    Attempts,    \* ATTEMPTS, the temporary names tried for one file
    MaxNonce,    \* bound: temporary names of one process
    MaxEdits,    \* bound: steps of editors
    MaxRuns      \* bound: runs under one process id

ASSUME NameAssumption ==
    /\ Absent \notin Nodes /\ Paths \cap Links = {} /\ Nodes \cap Links = {}
    /\ (Paths \cup Links) \cap (Tools \X (1 .. MaxNonce)) = {} /\ Paths # {}
    /\ Absent \notin Links /\ Edited \notin Tools
    /\ Attempts \in Nat \ {0} /\ MaxNonce \in Nat /\ MaxEdits \in Nat /\ MaxRuns \in Nat

VARIABLES
    dir,         \* the name space
    text, whole, \* per inode, its content and whether it is written to the end
    left,        \* history: temporary files that a crash or a failed removal left
    edits,
    kind,        \* what becomes of the fixes of the plan at hand
    pc,
    scan,        \* the paths that fix_plans has still to read
    todo,        \* the plans that run_fix_apply has still to apply
    target, source, nonce, tries, warned, unverified, runs,
    wrote,       \* history: the paths that a run has replaced, and with what kind of plan
    raced        \* history: the target changed after the last check of it

files == <<dir, text, whole, left>>
report == <<todo, kind, warned, unverified, wrote>>
names == <<nonce, tries>>
vars == <<files, edits, pc, scan, target, source, report, names, runs, raced>>

(* All fixes apply and verify; some were dropped because they conflict, the  *)
(* others verify; verification fails.                                        *)
Kinds == {"sound", "conflicting", "unsound"}
Verifies(t) == kind[t] \in {"sound", "conflicting"}

Temps == Tools \X (1 .. MaxNonce)
Names == Paths \cup Links \cup Temps
Marks == Tools \cup {Edited}

-----------------------------------------------------------------------------
(* What a name shows: its inode, through a symbolic link. *)
Resolve(name) == IF dir[name] \in Links THEN dir[dir[name]] ELSE dir[name]
Readable(name) == Resolve(name) \in Nodes
Read(name) == text[Resolve(name)]
Shows(name) == IF Readable(name) THEN <<dir[name], Read(name)>> ELSE <<dir[name]>>

RegularFile(name) == dir[name] \in Nodes
Free == {n \in Nodes : \A name \in Names : dir[name] # n}

MatchesPlan(t) == Readable(target[t]) /\ Read(target[t]) = source[t][target[t]]

(* project_fixes: the findings the fixes of a tool are about are gone. *)
Projected(t) == source[t][target[t]] \ {t}

Temp(t) == <<t, nonce[t]>>

(* A temporary file waits for its rename. *)
Armed(t) == pc[t] \in {"write", "kind", "content", "rename"}

FirstPath == CHOOSE p \in Paths : TRUE

Init ==
    /\ dir \in [Names -> Nodes \cup {Absent}]
    /\ \A name \in Names : dir[name] = Absent <=> name \in Temps
    /\ text \in [Nodes -> SUBSET Tools]
    /\ \A n \in Free : text[n] = {}
    /\ whole = [n \in Nodes |-> TRUE]
    /\ left = {}
    /\ edits = 0
    /\ kind = [t \in Tools |-> "sound"]
    /\ pc = [t \in Tools |-> "plan"]
    /\ scan = [t \in Tools |-> Paths]
    /\ todo = [t \in Tools |-> {}]
    /\ target = [t \in Tools |-> FirstPath]
    /\ source = [t \in Tools |-> [p \in Paths |-> {}]]
    /\ nonce = [t \in Tools |-> 0]
    /\ tries = [t \in Tools |-> 0]
    /\ warned = [t \in Tools |-> FALSE]
    /\ unverified = [t \in Tools |-> FALSE]
    /\ runs = [t \in Tools |-> 1]
    /\ wrote = [t \in Tools |-> {}]
    /\ raced = [t \in Tools |-> FALSE]

-----------------------------------------------------------------------------
At(t, label) == pc[t] = label
GoTo(t, label) == pc' = [pc EXCEPT ![t] = label]

(* fix_plans: a path is read, through a symbolic link if it became one, and  *)
(* analysed.  A file without fixes has no plan, or one that offers           *)
(* alternatives and changes nothing.  A path that cannot be read or analysed *)
(* is a warning.                                                             *)
PlanFile(t, path) ==
    /\ At(t, "plan") /\ path \in scan[t]
    /\ scan' = [scan EXCEPT ![t] = @ \ {path}]
    /\ \/ /\ Readable(path)
          /\ source' = [source EXCEPT ![t][path] = Read(path)]
          /\ todo' = [todo EXCEPT ![t] = @ \cup {path}]
          /\ UNCHANGED warned
       \/ /\ Readable(path) /\ t \notin Read(path)
          /\ source' = [source EXCEPT ![t][path] = Read(path)]
          /\ UNCHANGED <<todo, warned>>
       \/ /\ warned' = [warned EXCEPT ![t] = TRUE]
          /\ UNCHANGED <<source, todo>>
    /\ UNCHANGED <<files, edits, kind, pc, target, unverified, wrote, names, runs>>

(* A selected suggestion that no file offers is a warning. *)
StartApply(t) ==
    /\ At(t, "plan") /\ scan[t] = {}
    /\ GoTo(t, "next")
    /\ \E unavailable \in BOOLEAN : warned' = [warned EXCEPT ![t] = @ \/ unavailable]
    /\ UNCHANGED <<files, edits, kind, scan, target, source, todo, unverified, wrote, names, runs>>

(* The result of one plan is recorded and the next plan is taken up. *)
Settle(t, path, warns, fails) ==
    /\ GoTo(t, "next")
    /\ todo' = [todo EXCEPT ![t] = @ \ {path}]
    /\ kind' = [kind EXCEPT ![t] = "sound"]
    /\ warned' = [warned EXCEPT ![t] = @ \/ warns]
    /\ unverified' = [unverified EXCEPT ![t] = @ \/ fails]
    /\ tries' = [tries EXCEPT ![t] = 0]

(* Mutant: a plan given up leaves no warning. *)
RejectQuietly(t, path) == Settle(t, path, FALSE, FALSE) /\ UNCHANGED <<wrote, nonce>>

(* A plan given up: nothing is written. *)
Reject(t, path) == Settle(t, path, TRUE, FALSE) /\ UNCHANGED <<wrote, nonce>>

(* Mutant: an error return forgets the temporary file. *)
RejectOnly(t) == Reject(t, target[t]) /\ UNCHANGED files

(* TempFileCleanup: the temporary file goes with the plan.  That it could    *)
(* not be removed is not reported.                                           *)
RejectAndCleanUp(t) ==
    /\ Reject(t, target[t])
    /\ \/ dir' = [dir EXCEPT ![Temp(t)] = Absent] /\ UNCHANGED left
       \/ left' = left \cup {Temp(t)} /\ UNCHANGED dir
    /\ UNCHANGED <<text, whole>>

(* apply_plan: apply_path_is_regular_file, then project_fixes in memory.     *)
(* The plan is given up if the path is not a regular file or cannot be       *)
(* inspected, or if the edits cannot be applied.                             *)
Inspect(t, path) ==
    /\ At(t, "next") /\ path \in todo[t]
    /\ target' = [target EXCEPT ![t] = path]
    /\ \/ \E k \in Kinds :
             /\ RegularFile(path)
             /\ GoTo(t, "compare")
             /\ kind' = [kind EXCEPT ![t] = k]
             /\ warned' = [warned EXCEPT ![t] = @ \/ k = "conflicting"]
             /\ UNCHANGED <<todo, unverified, wrote, names>>
       \/ Reject(t, path)
    /\ UNCHANGED <<files, edits, scan, source, runs>>

(* source_matches_plan, then verify_projected_rewrite in memory. *)
Compare(t) ==
    /\ At(t, "compare")
    /\ \/ ~MatchesPlan(t) /\ Reject(t, target[t])
       \/ /\ MatchesPlan(t) /\ ~Verifies(t)
          /\ Settle(t, target[t], TRUE, TRUE)
          /\ UNCHANGED <<wrote, nonce>>
       \/ /\ MatchesPlan(t) /\ Verifies(t) /\ Projected(t) = source[t][target[t]]
          /\ Settle(t, target[t], FALSE, FALSE)
          /\ UNCHANGED <<wrote, nonce>>
       \/ /\ MatchesPlan(t) /\ Verifies(t) /\ Projected(t) # source[t][target[t]]
          /\ GoTo(t, "reinspect")
          /\ UNCHANGED <<report, names>>
    /\ UNCHANGED <<files, edits, scan, target, source, runs>>

(* write_applied_content: both checks again. *)
Reinspect(t) ==
    /\ At(t, "reinspect")
    /\ IF RegularFile(target[t])
       THEN GoTo(t, "recompare") /\ UNCHANGED <<report, names>>
       ELSE Reject(t, target[t])
    /\ UNCHANGED <<files, edits, scan, target, source, runs>>

Recompare(t) ==
    /\ At(t, "recompare")
    /\ IF MatchesPlan(t)
       THEN GoTo(t, "open") /\ UNCHANGED <<report, names>>
       ELSE Reject(t, target[t])
    /\ UNCHANGED <<files, edits, scan, target, source, runs>>

(* Mutant: the file itself is opened and truncated. *)
OpenInPlace(t) ==
    /\ At(t, "open") /\ RegularFile(target[t])
    /\ text' = [text EXCEPT ![dir[target[t]]] = {}]
    /\ whole' = [whole EXCEPT ![dir[target[t]]] = FALSE]
    /\ GoTo(t, "write")
    /\ UNCHANGED <<dir, left, report, names, edits, scan, target, source, runs>>

(* Mutant: a name that is taken is tried again and again. *)
OpenTempForEver(t) ==
    LET name == <<t, nonce[t] + 1>>
    IN  /\ At(t, "open") /\ nonce[t] < MaxNonce
        /\ \/ /\ dir[target[t]] # Absent /\ dir[name] = Absent
              /\ \E n \in Free :
                    /\ dir' = [dir EXCEPT ![name] = n]
                    /\ text' = [text EXCEPT ![n] = {}]
                    /\ whole' = [whole EXCEPT ![n] = FALSE]
              /\ GoTo(t, "write")
              /\ nonce' = [nonce EXCEPT ![t] = @ + 1]
              /\ UNCHANGED <<left, report, tries>>
           \/ dir[target[t]] = Absent /\ Reject(t, target[t]) /\ UNCHANGED files
        /\ UNCHANGED <<edits, scan, target, source, runs>>

(* prepare_replacement_temp: one attempt to create a sibling file.  The name *)
(* is free; it is taken and there are attempts left; it was the last one; or *)
(* the path is gone, whose metadata are read first.                          *)
OpenTemp(t) ==
    LET name == <<t, nonce[t] + 1>>
        taken == dir[name] # Absent
    IN  /\ At(t, "open") /\ nonce[t] < MaxNonce
        /\ \/ /\ dir[target[t]] # Absent /\ ~taken
              /\ \E n \in Free :
                    /\ dir' = [dir EXCEPT ![name] = n]
                    /\ text' = [text EXCEPT ![n] = {}]
                    /\ whole' = [whole EXCEPT ![n] = FALSE]
              /\ GoTo(t, "write")
              /\ nonce' = [nonce EXCEPT ![t] = @ + 1]
              /\ UNCHANGED <<left, report, tries>>
           \/ /\ dir[target[t]] # Absent /\ taken /\ tries[t] + 1 < Attempts
              /\ nonce' = [nonce EXCEPT ![t] = @ + 1]
              /\ tries' = [tries EXCEPT ![t] = @ + 1]
              /\ UNCHANGED <<files, pc, report>>
           \/ /\ dir[target[t]] # Absent /\ taken /\ tries[t] + 1 = Attempts
              /\ Settle(t, target[t], TRUE, FALSE)
              /\ nonce' = [nonce EXCEPT ![t] = @ + 1]
              /\ UNCHANGED <<files, wrote>>
           \/ dir[target[t]] = Absent /\ Reject(t, target[t]) /\ UNCHANGED files
        /\ UNCHANGED <<edits, scan, target, source, runs>>

(* The temporary file is written and synced. *)
WriteTemp(t) ==
    /\ At(t, "write")
    /\ text' = [text EXCEPT ![dir[Temp(t)]] = Projected(t)]
    /\ whole' = [whole EXCEPT ![dir[Temp(t)]] = TRUE]
    /\ GoTo(t, "kind")
    /\ UNCHANGED <<dir, left, report, names, edits, scan, target, source, runs>>

(* ensure_regular_source_matches: the kind of the path, then its bytes. *)
CheckKind(t) ==
    /\ At(t, "kind")
    /\ IF RegularFile(target[t])
       THEN GoTo(t, "content") /\ UNCHANGED <<files, report, names>>
       ELSE RejectAndCleanUp(t)
    /\ UNCHANGED <<edits, scan, target, source, runs>>

(* Mutant: the bytes are not read again. *)
SkipContent(t) ==
    /\ At(t, "content")
    /\ GoTo(t, "rename")
    /\ UNCHANGED <<files, report, names, edits, scan, target, source, runs>>

CheckContent(t) ==
    /\ At(t, "content")
    /\ IF MatchesPlan(t)
       THEN GoTo(t, "rename") /\ UNCHANGED <<files, report, names>>
       ELSE RejectAndCleanUp(t)
    /\ UNCHANGED <<edits, scan, target, source, runs>>

(* Mutant: the new content is copied into the inode the path leads to. *)
CopyOver(t) ==
    /\ At(t, "rename") /\ Readable(target[t])
    /\ text' = [text EXCEPT ![Resolve(target[t])] = Projected(t)]
    /\ dir' = [dir EXCEPT ![Temp(t)] = Absent]
    /\ Settle(t, target[t], FALSE, FALSE)
    /\ wrote' = [wrote EXCEPT ![t] = @ \cup {<<target[t], kind[t]>>}]
    /\ UNCHANGED <<whole, left, nonce, edits, scan, target, source, runs>>

(* replace_file_by_rename: the rename puts the new inode under the path. *)
Rename(t) ==
    /\ At(t, "rename")
    /\ dir' = [dir EXCEPT ![target[t]] = dir[Temp(t)], ![Temp(t)] = Absent]
    /\ Settle(t, target[t], FALSE, FALSE)
    /\ wrote' = [wrote EXCEPT ![t] = @ \cup {<<target[t], kind[t]>>}]
    /\ UNCHANGED <<text, whole, left, nonce, edits, scan, target, source, runs>>

(* Every call on the file system after that may fail, at the creation of the *)
(* temporary file before or after a name was taken.  The plan is given up,   *)
(* and the temporary file with it once there is one.                         *)
CallFails(t) ==
    /\ \/ /\ pc[t] \in {"compare", "reinspect", "recompare", "open"}
          /\ Reject(t, target[t])
          /\ UNCHANGED files
       \/ /\ At(t, "open") /\ nonce[t] < MaxNonce
          /\ Settle(t, target[t], TRUE, FALSE)
          /\ nonce' = [nonce EXCEPT ![t] = @ + 1]
          /\ UNCHANGED <<files, wrote>>
       \/ Armed(t) /\ RejectAndCleanUp(t)
    /\ UNCHANGED <<edits, scan, target, source, runs>>

(* run_fix_apply: the exit code; the report may fail to be printed. *)
Exit(t) ==
    /\ At(t, "next") /\ todo[t] = {}
    /\ \E printed \in BOOLEAN :
          GoTo(t, IF printed /\ ~warned[t] /\ ~unverified[t] THEN "success" ELSE "failure")
    /\ UNCHANGED <<files, edits, scan, target, source, report, names, runs>>

Ended(t) == pc[t] \in {"success", "failure", "crashed"}

Step(t) ==
    \/ \E path \in Paths : PlanFile(t, path) \/ Inspect(t, path)
    \/ StartApply(t) \/ Compare(t) \/ Reinspect(t) \/ Recompare(t)
    \/ OpenTemp(t) \/ WriteTemp(t) \/ CheckKind(t) \/ CheckContent(t) \/ Rename(t)
    \/ Exit(t)

(* What a process knows when it begins. *)
Fresh(t) ==
    /\ scan' = [scan EXCEPT ![t] = Paths]
    /\ todo' = [todo EXCEPT ![t] = {}]
    /\ kind' = [kind EXCEPT ![t] = "sound"]
    /\ source' = [source EXCEPT ![t] = [p \in Paths |-> {}]]
    /\ target' = [target EXCEPT ![t] = FirstPath]
    /\ nonce' = [nonce EXCEPT ![t] = 0]
    /\ tries' = [tries EXCEPT ![t] = 0]
    /\ warned' = [warned EXCEPT ![t] = FALSE]
    /\ unverified' = [unverified EXCEPT ![t] = FALSE]
    /\ wrote' = [wrote EXCEPT ![t] = {}]

(* A crash leaves the temporary file behind and nothing else. *)
Crash(t) ==
    /\ ~Ended(t)
    /\ GoTo(t, "crashed")
    /\ left' = IF Armed(t) THEN left \cup {Temp(t)} ELSE left
    /\ Fresh(t)
    /\ UNCHANGED <<dir, text, whole, edits, runs>>

(* A later run that gets the same process id. *)
Restart(t) ==
    /\ Ended(t) /\ runs[t] < MaxRuns
    /\ runs' = [runs EXCEPT ![t] = @ + 1]
    /\ GoTo(t, "plan")
    /\ Fresh(t)
    /\ UNCHANGED <<files, edits>>

-----------------------------------------------------------------------------
(* Editors and other programs, at any moment. *)
Toggled(marks) == (marks \ {Edited}) \cup ({Edited} \ marks)

EditInPlace(path) ==
    /\ RegularFile(path)
    /\ text' = [text EXCEPT ![dir[path]] = Toggled(@)]
    /\ UNCHANGED <<dir, whole>>

SaveByRename(path) ==
    /\ RegularFile(path)
    /\ \E n \in Free :
          /\ dir' = [dir EXCEPT ![path] = n]
          /\ text' = [text EXCEPT ![n] = Toggled(Read(path))]
          /\ whole' = [whole EXCEPT ![n] = TRUE]

SwapForSymlink(path, link) ==
    /\ dir' = [dir EXCEPT ![path] = link]
    /\ UNCHANGED <<text, whole>>

Remove(path) ==
    /\ dir' = [dir EXCEPT ![path] = Absent]
    /\ UNCHANGED <<text, whole>>

Editor ==
    /\ edits < MaxEdits
    /\ edits' = edits + 1
    /\ \E path \in Paths :
          \/ EditInPlace(path) \/ SaveByRename(path) \/ Remove(path)
          \/ \E link \in Links : SwapForSymlink(path, link)
    /\ UNCHANGED <<left, pc, scan, target, source, report, names, runs>>

-----------------------------------------------------------------------------
(* Between the first check of ensure_regular_source_matches and the rename.  *)
InWindow(t) == pc[t] \in {"content", "rename"}

Race ==
    raced' = [t \in Tools |->
                /\ InWindow(t)'
                /\ raced[t] \/ (InWindow(t) /\ Shows(target[t])' # Shows(target[t]))]

Next ==
    /\ \/ \E t \in Tools : Step(t) \/ CallFails(t) \/ Crash(t) \/ Restart(t)
       \/ Editor
    /\ Race

Spec == Init /\ [][Next]_vars

(* The operating system lets every process go on; no call has to fail. *)
Fairness == \A t \in Tools : WF_vars(Step(t) /\ Race)

FairSpec == Spec /\ Fairness
-----------------------------------------------------------------------------
Types ==
    /\ dir \in [Names -> Nodes \cup Links \cup {Absent}]
    /\ text \in [Nodes -> SUBSET Marks]
    /\ whole \in [Nodes -> BOOLEAN]
    /\ left \subseteq Temps
    /\ edits \in 0 .. MaxEdits
    /\ kind \in [Tools -> Kinds]
    /\ pc \in [Tools -> {"plan", "next", "compare", "reinspect", "recompare", "open", "write",
                         "kind", "content", "rename", "success", "failure", "crashed"}]
    /\ scan \in [Tools -> SUBSET Paths]
    /\ todo \in [Tools -> SUBSET Paths]
    /\ target \in [Tools -> Paths]
    /\ source \in [Tools -> [Paths -> SUBSET Marks]]
    /\ nonce \in [Tools -> 0 .. MaxNonce]
    /\ tries \in [Tools -> 0 .. Attempts]
    /\ warned \in [Tools -> BOOLEAN]
    /\ unverified \in [Tools -> BOOLEAN]
    /\ runs \in [Tools -> Nat]
    /\ wrote \in [Tools -> SUBSET (Paths \X Kinds)]
    /\ raced \in [Tools -> BOOLEAN]

(* A tool that is preparing a replacement has a temporary file. *)
TempsArmed ==
    \A t \in Tools : Armed(t) => nonce[t] > 0 /\ dir[Temp(t)] \in Nodes

(* Types; an armed temporary file exists from its creation to its rename. *)
TypeOK == Types /\ TempsArmed

(* Readers see complete old content or complete new content, at every        *)
(* moment: no name but a temporary one ever leads to a half-written inode.   *)
ReadersSeeWholeFiles ==
    \A name \in Paths \cup Links : Readable(name) => whole[Resolve(name)]

(* The temporary files there are: the one a run is about to rename, and      *)
(* those left by crashes and by removals that failed.  Every other error     *)
(* path removes its file, and a leftover is neither reused nor removed by a  *)
(* later run with the same process id.                                       *)
TempsOf(t) == {name \in Temps : name[1] = t /\ dir[name] # Absent}
LeftBy(t) == {name \in left : name[1] = t}

NoTempLeftBehind ==
    \A t \in Tools :
        /\ TempsOf(t) = LeftBy(t) \cup (IF Armed(t) THEN {Temp(t)} ELSE {})
        /\ Armed(t) => Temp(t) \notin left

(* A run that ends with success has replaced every file for which it had a   *)
(* fix; all its fixes were applied and verified.                             *)
SuccessMeansFixed ==
    \A t \in Tools : pc[t] = "success" =>
        \A path \in Paths : t \in source[t][path] => <<path, "sound">> \in wrote[t]

(* What a tool changes for other readers is the path it is rewriting, and    *)
(* what it puts there is the verified rewrite of the text it planned from:   *)
(* no other name of the file and no target of a symbolic link changes.       *)
ToolsOnlyPublishVerified ==
    [][edits' = edits =>
        \A name \in Paths \cup Links : Shows(name)' # Shows(name) =>
            \E t \in Tools :
                /\ At(t, "rename") /\ name = target[t] /\ Verifies(t)
                /\ wrote'[t] = wrote[t] \cup {<<name, kind[t]>>}
                /\ RegularFile(name)'
                /\ Read(name)' = source[t][name] \ {t}]_vars

(* Work of others is overwritten only if it arrived after the last check of  *)
(* the path: a change made before is noticed and the plan is given up.  So   *)
(* apply mode "rejects symlinked or late-modified inputs" (QUICKFIX.md:188)  *)
(* up to the window between that check and the rename, which it leaves open. *)
OverwritesOnlyInWindow ==
    [][\A t \in Tools : At(t, "rename") /\ wrote'[t] # wrote[t] =>
          raced[t] \/ (RegularFile(target[t]) /\ MatchesPlan(t))]_vars

(* Every run ends, whatever leftovers and failures it meets. *)
EveryRunEnds == \A t \in Tools : []<>Ended(t)
=============================================================================
