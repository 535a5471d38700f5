--------------------------- MODULE FixApplyProofs ---------------------------
(***************************************************************************)
(* What other readers of the files can rely on, for any number of tools,   *)
(* files, links, edits, crashes and restarts.                              *)
(***************************************************************************)
EXTENDS FixApply, TLAPS

(* Names are of one sort only. *)
LEMMA NameSorts ==
    /\ \A t \in Tools, i \in 1 .. MaxNonce : <<t, i>> \in Temps /\ <<t, i>> \in Names
    /\ \A p \in Paths : p \in Names /\ p \notin Temps /\ p \notin Links
    /\ \A l \in Links : l \in Names /\ l \notin Temps /\ l \notin Nodes
BY NameAssumption DEF Temps, Names

(* The name of an armed temporary file. *)
LEMMA TempNames ==
    ASSUME TypeOK, NEW t \in Tools, Armed(t)
    PROVE  Temp(t) \in Temps /\ Temp(t) \in Names /\ dir[Temp(t)] \in Nodes
BY NameSorts, NameAssumption DEF TypeOK, Types, TempsArmed, Armed, Temp

(* The temporary files of two tools never share a name. *)
LEMMA TempsDiffer ==
    ASSUME NEW t \in Tools, NEW u \in Tools, t # u
    PROVE  Temp(t) # Temp(u)
BY DEF Temp

(* Links stay regular files, a temporary file that is written to the end     *)
(* stays so, and no path or link leads to one that is not.                   *)
WholeInv ==
    /\ TypeOK
    /\ \A l \in Links : dir[l] \in Nodes
    /\ \A name \in Paths \cup Links : dir[name] \in Nodes => whole[dir[name]]
    /\ \A t \in Tools : pc[t] \in {"kind", "content", "rename"} => whole[dir[Temp(t)]]

LEMMA WholeInit == Init => WholeInv
<1> SUFFICES ASSUME Init PROVE WholeInv
  OBVIOUS
<1>1. FirstPath \in Paths
  BY NameAssumption DEF FirstPath
<1>2. TypeOK
  BY <1>1, NameAssumption DEF Init, TypeOK, Types, TempsArmed, Armed, Marks, Kinds
<1>3. QED
  BY <1>2, NameSorts DEF Init, WholeInv

(* The report of a tool stays well typed when a plan is settled. *)
LEMMA SettleTypes ==
    ASSUME Types, NEW t \in Tools, NEW path, NEW w \in BOOLEAN, NEW f \in BOOLEAN,
           Settle(t, path, w, f)
    PROVE  /\ pc' = [pc EXCEPT ![t] = "next"]
           /\ todo' \in [Tools -> SUBSET Paths]
           /\ warned' \in [Tools -> BOOLEAN]
           /\ unverified' \in [Tools -> BOOLEAN]
           /\ tries' \in [Tools -> 0 .. Attempts]
           /\ kind' \in [Tools -> Kinds]
<1>1. warned' \in [Tools -> BOOLEAN]
  <2>1. (warned[t] \/ w) \in BOOLEAN
    OBVIOUS
  <2>2. QED
    BY <2>1, Zenon DEF Types, Settle
<1>2. unverified' \in [Tools -> BOOLEAN]
  <2>1. (unverified[t] \/ f) \in BOOLEAN
    OBVIOUS
  <2>2. QED
    BY <2>1, Zenon DEF Types, Settle
<1>3. QED
  BY <1>1, <1>2, NameAssumption DEF Types, Settle, GoTo, Kinds

LEMMA RejectTypes ==
    ASSUME Types, NEW t \in Tools, NEW path, Reject(t, path)
    PROVE  /\ pc' = [pc EXCEPT ![t] = "next"]
           /\ todo' \in [Tools -> SUBSET Paths]
           /\ warned' \in [Tools -> BOOLEAN]
           /\ unverified' \in [Tools -> BOOLEAN]
           /\ tries' \in [Tools -> 0 .. Attempts]
           /\ kind' \in [Tools -> Kinds]
           /\ wrote' = wrote /\ nonce' = nonce
BY SettleTypes DEF Reject

(* The steps of a tool that leave the name space and the contents alone. *)
FileStep(t) ==
    \/ \E path \in Paths : PlanFile(t, path) \/ Inspect(t, path)
    \/ StartApply(t) \/ Compare(t) \/ Reinspect(t) \/ Recompare(t)
    \/ Exit(t) \/ (CallFails(t) /\ ~Armed(t)) \/ Crash(t) \/ Restart(t)

(* Any step of a tool. *)
Move(t) == Step(t) \/ CallFails(t) \/ Crash(t) \/ Restart(t)

(* A name may be used up. *)
LEMMA NonceTypes ==
    ASSUME Types, NEW t \in Tools,
           \/ nonce' = nonce
           \/ nonce[t] < MaxNonce /\ nonce' = [nonce EXCEPT ![t] = @ + 1]
    PROVE  nonce' \in [Tools -> 0 .. MaxNonce]
<1>1. CASE nonce' = nonce
  BY <1>1 DEF Types
<1>2. CASE nonce[t] < MaxNonce /\ nonce' = [nonce EXCEPT ![t] = @ + 1]
  <2>1. nonce[t] + 1 \in 0 .. MaxNonce
    BY <1>2, NameAssumption DEF Types
  <2>2. QED
    BY <1>2, <2>1 DEF Types
<1>3. QED
  BY <1>1, <1>2

(* A call that fails before there is a temporary file, and after. *)
LEMMA FailsEarly ==
    ASSUME NEW t \in Tools, CallFails(t), ~Armed(t)
    PROVE  /\ pc[t] \in {"compare", "reinspect", "recompare", "open"}
           /\ Settle(t, target[t], TRUE, FALSE)
           /\ \/ nonce' = nonce
              \/ nonce[t] < MaxNonce /\ nonce' = [nonce EXCEPT ![t] = @ + 1]
           /\ UNCHANGED <<files, wrote, edits, scan, target, source, runs>>
BY DEF CallFails, At, Reject

LEMMA FailsLate ==
    ASSUME NEW t \in Tools, CallFails(t), Armed(t)
    PROVE  RejectAndCleanUp(t) /\ UNCHANGED <<edits, scan, target, source, runs>>
BY DEF CallFails, At, Armed

LEMMA QuietFiles ==
    ASSUME NEW t \in Tools, FileStep(t)
    PROVE  UNCHANGED <<dir, text, whole>>
BY FailsEarly DEF FileStep, files, PlanFile, Inspect, StartApply, Compare, Reinspect, Recompare,
   Exit, Crash, Restart

(* A step of a tool that leaves the files alone and arms no temporary file. *)
LEMMA QuietKeeps ==
    ASSUME WholeInv, NEW t \in Tools, UNCHANGED <<dir, whole>>, Types', ~Armed(t)',
           \A u \in Tools : u # t => pc'[u] = pc[u] /\ nonce'[u] = nonce[u]
    PROVE  WholeInv'
<1>1. TempsArmed'
  BY DEF WholeInv, TypeOK, TempsArmed, Armed, Temp
<1>2. QED
  BY <1>1 DEF WholeInv, TypeOK, Armed, Temp

(* What a process knows when it begins is well typed. *)
LEMMA FreshTypes ==
    ASSUME Types, NEW t \in Tools, Fresh(t)
    PROVE  /\ scan' \in [Tools -> SUBSET Paths]
           /\ todo' \in [Tools -> SUBSET Paths]
           /\ kind' \in [Tools -> Kinds]
           /\ source' \in [Tools -> [Paths -> SUBSET Marks]]
           /\ target' \in [Tools -> Paths]
           /\ nonce' \in [Tools -> 0 .. MaxNonce]
           /\ tries' \in [Tools -> 0 .. Attempts]
           /\ warned' \in [Tools -> BOOLEAN]
           /\ unverified' \in [Tools -> BOOLEAN]
           /\ wrote' \in [Tools -> SUBSET (Paths \X Kinds)]
<1>1. FirstPath \in Paths
  BY NameAssumption DEF FirstPath
<1>2. /\ scan' \in [Tools -> SUBSET Paths]
      /\ todo' \in [Tools -> SUBSET Paths]
      /\ kind' \in [Tools -> Kinds]
      /\ target' \in [Tools -> Paths]
  BY <1>1 DEF Types, Fresh, Kinds
<1>3. /\ nonce' \in [Tools -> 0 .. MaxNonce]
      /\ tries' \in [Tools -> 0 .. Attempts]
  BY NameAssumption DEF Types, Fresh
<1>4. warned' \in [Tools -> BOOLEAN] /\ unverified' \in [Tools -> BOOLEAN]
  BY Zenon DEF Types, Fresh
<1>5. wrote' \in [Tools -> SUBSET (Paths \X Kinds)]
  BY DEF Types, Fresh
<1>6. source' \in [Tools -> [Paths -> SUBSET Marks]]
  <2>1. [p \in Paths |-> {}] \in [Paths -> SUBSET Marks]
    OBVIOUS
  <2>2. QED
    BY <2>1, Zenon DEF Types, Fresh
<1>7. QED
  BY <1>2, <1>3, <1>4, <1>5, <1>6

(* Types are kept by the steps that leave the files alone. *)
LEMMA QuietTypes ==
    ASSUME TypeOK, raced' \in [Tools -> BOOLEAN], NEW t \in Tools, FileStep(t)
    PROVE  Types'
<1> USE DEF At, GoTo, files, report, names
<1>0. Types
  BY DEF TypeOK
<1>1. ASSUME NEW path \in Paths, PlanFile(t, path) PROVE Types'
  <2>1. source' \in [Tools -> [Paths -> SUBSET Marks]]
    <3>1. CASE Readable(path) /\ source' = [source EXCEPT ![t][path] = Read(path)]
      <4>1. Read(path) \in SUBSET Marks
        BY <1>0, <3>1 DEF Types, Readable, Read
      <4>2. QED
        BY <1>0, <3>1, <4>1 DEF Types
    <3>2. CASE source' = source
      BY <1>0, <3>2 DEF Types
    <3>3. QED
      BY <1>1, <3>1, <3>2 DEF PlanFile
  <2>2. warned' \in [Tools -> BOOLEAN]
    <3>1. CASE warned' = warned
      BY <1>0, <3>1 DEF Types
    <3>2. CASE warned' = [warned EXCEPT ![t] = TRUE]
      BY <1>0, <3>2, Zenon DEF Types
    <3>3. QED
      BY <1>1, <3>1, <3>2 DEF PlanFile
  <2>3. todo' \in [Tools -> SUBSET Paths]
    <3>1. CASE todo' = todo
      BY <1>0, <3>1 DEF Types
    <3>2. CASE todo' = [todo EXCEPT ![t] = @ \cup {path}]
      <4>1. todo[t] \cup {path} \in SUBSET Paths
        BY <1>0 DEF Types
      <4>2. QED
        BY <1>0, <3>2, <4>1, Zenon DEF Types
    <3>3. QED
      BY <1>1, <3>1, <3>2 DEF PlanFile
  <2>4. scan' \in [Tools -> SUBSET Paths]
    <3>1. scan' = [scan EXCEPT ![t] = @ \ {path}]
      BY <1>1 DEF PlanFile
    <3>2. QED
      BY <1>0, <3>1 DEF Types
  <2>5. UNCHANGED <<files, edits, kind, pc, target, unverified, wrote, names, runs>>
    BY <1>1 DEF PlanFile
  <2>6. QED
    BY <1>0, <2>1, <2>2, <2>3, <2>4, <2>5 DEF Types
<1>2. ASSUME NEW path \in Paths, Inspect(t, path) PROVE Types'
  <2>1. /\ target' \in [Tools -> Paths]
        /\ UNCHANGED <<files, edits, scan, source, runs>>
    BY <1>0, <1>2 DEF Inspect, Types
  <2>2. ASSUME NEW k \in Kinds, GoTo(t, "compare"), kind' = [kind EXCEPT ![t] = k],
               warned' = [warned EXCEPT ![t] = @ \/ k = "conflicting"],
               UNCHANGED <<todo, unverified, wrote, names>>
        PROVE  Types'
    <3>1. warned' \in [Tools -> BOOLEAN]
      <4>1. (warned[t] \/ k = "conflicting") \in BOOLEAN
        OBVIOUS
      <4>2. QED
        BY <1>0, <2>2, <4>1, Zenon DEF Types
    <3>2. QED
      BY <1>0, <2>1, <2>2, <3>1 DEF Types
  <2>3. CASE Reject(t, path)
    BY <1>0, <2>1, <2>3, RejectTypes DEF Types
  <2>4. QED
    BY <1>2, <2>2, <2>3 DEF Inspect
<1>3. CASE StartApply(t)
  <2>1. warned' \in [Tools -> BOOLEAN]
    <3>1. PICK unavailable \in BOOLEAN : warned' = [warned EXCEPT ![t] = @ \/ unavailable]
      BY <1>3 DEF StartApply
    <3>2. (warned[t] \/ unavailable) \in BOOLEAN
      OBVIOUS
    <3>3. QED
      BY <1>0, <3>1, <3>2, Zenon DEF Types
  <2>2. QED
    BY <1>0, <1>3, <2>1 DEF StartApply, Types
<1>4. CASE Compare(t)
  <2>1. UNCHANGED <<files, edits, scan, target, source, runs>>
    BY <1>4 DEF Compare
  <2>2. CASE Reject(t, target[t])
    BY <1>0, <2>1, <2>2, RejectTypes DEF Types
  <2>3. ASSUME NEW w \in BOOLEAN, Settle(t, target[t], w, w), UNCHANGED <<wrote, nonce>>
        PROVE  Types'
    <3>1. /\ pc' = [pc EXCEPT ![t] = "next"]
          /\ todo' \in [Tools -> SUBSET Paths]
          /\ warned' \in [Tools -> BOOLEAN]
          /\ unverified' \in [Tools -> BOOLEAN]
          /\ tries' \in [Tools -> 0 .. Attempts]
          /\ kind' \in [Tools -> Kinds]
      BY <1>0, <2>3, SettleTypes
    <3>2. QED
      BY <1>0, <2>1, <2>3, <3>1 DEF Types
  <2>4. CASE GoTo(t, "reinspect") /\ UNCHANGED <<report, names>>
    BY <1>0, <2>1, <2>4 DEF Types
  <2>5. QED
    BY <1>4, <2>2, <2>3, <2>4 DEF Compare
<1>5. CASE Reinspect(t) \/ Recompare(t)
  <2>1. UNCHANGED <<files, edits, scan, target, source, runs>>
    BY <1>5 DEF Reinspect, Recompare
  <2>2. CASE Reject(t, target[t])
    BY <1>0, <2>1, <2>2, RejectTypes DEF Types
  <2>3. CASE (GoTo(t, "recompare") \/ GoTo(t, "open")) /\ UNCHANGED <<report, names>>
    BY <1>0, <2>1, <2>3 DEF Types
  <2>4. QED
    BY <1>5, <2>2, <2>3 DEF Reinspect, Recompare
<1>6. CASE CallFails(t) /\ ~Armed(t)
  <2>1. /\ pc' = [pc EXCEPT ![t] = "next"]
        /\ todo' \in [Tools -> SUBSET Paths]
        /\ warned' \in [Tools -> BOOLEAN]
        /\ unverified' \in [Tools -> BOOLEAN]
        /\ tries' \in [Tools -> 0 .. Attempts]
        /\ kind' \in [Tools -> Kinds]
    BY <1>0, <1>6, FailsEarly, SettleTypes
  <2>2. nonce' \in [Tools -> 0 .. MaxNonce]
    <3>1. nonce' = nonce \/ (nonce[t] < MaxNonce /\ nonce' = [nonce EXCEPT ![t] = @ + 1])
      BY <1>6, FailsEarly
    <3>2. QED
      BY <1>0, <3>1, NonceTypes
  <2>3. UNCHANGED <<files, wrote, edits, scan, target, source, runs>>
    BY <1>6, FailsEarly
  <2>4. QED
    BY <1>0, <2>1, <2>2, <2>3 DEF Types
<1>7. CASE Exit(t)
  BY <1>0, <1>7 DEF Exit, Types
<1>8. CASE Crash(t)
  <2>1. left' \subseteq Temps
    BY <1>0, <1>8, TempNames DEF Armed, Crash, Types
  <2>2. pc' = [pc EXCEPT ![t] = "crashed"] /\ Fresh(t) /\ UNCHANGED <<dir, text, whole, edits, runs>>
    BY <1>8 DEF Crash
  <2>3. QED
    BY <1>0, <2>1, <2>2, FreshTypes DEF Types
<1>9. CASE Restart(t)
  <2>1. runs' \in [Tools -> Nat]
    BY <1>0, <1>9 DEF Restart, Types
  <2>2. pc' = [pc EXCEPT ![t] = "plan"] /\ Fresh(t) /\ UNCHANGED <<files, edits>>
    BY <1>9 DEF Restart
  <2>3. QED
    BY <1>0, <2>1, <2>2, FreshTypes DEF Types
<1>10. QED
  BY <1>1, <1>2, <1>3, <1>4, <1>5, <1>6, <1>7, <1>8, <1>9 DEF FileStep

(* Where a step that leaves the files alone takes a tool. *)
LEMMA QuietMoves ==
    ASSUME Types, NEW t \in Tools, FileStep(t)
    PROVE  /\ ~Armed(t)'
           /\ \A u \in Tools : u # t => pc'[u] = pc[u] /\ nonce'[u] = nonce[u]
<1> USE DEF Types, At, GoTo, Reject, Settle, report, names, Armed
<1>1. CASE CallFails(t) /\ ~Armed(t)
  <2>1. /\ Settle(t, target[t], TRUE, FALSE)
        /\ nonce' = nonce \/ nonce' = [nonce EXCEPT ![t] = @ + 1]
    BY <1>1, FailsEarly
  <2>2. QED
    BY <2>1
<1>2. CASE Crash(t) \/ Restart(t)
  BY <1>2 DEF Crash, Restart, Fresh
<1>3. CASE StartApply(t) \/ Exit(t) \/ Reinspect(t) \/ Recompare(t)
  BY <1>3 DEF StartApply, Exit, Reinspect, Recompare
<1>4. CASE Compare(t)
  BY <1>4 DEF Compare
<1>5. ASSUME NEW path \in Paths, PlanFile(t, path) \/ Inspect(t, path)
      PROVE  /\ ~Armed(t)'
             /\ \A u \in Tools : u # t => pc'[u] = pc[u] /\ nonce'[u] = nonce[u]
  BY <1>5 DEF PlanFile, Inspect
<1>6. QED
  BY <1>1, <1>2, <1>3, <1>4, <1>5 DEF FileStep

(* Steps that leave the files alone and arm no temporary file. *)
LEMMA QuietSteps ==
    ASSUME WholeInv, raced' \in [Tools -> BOOLEAN], NEW t \in Tools, FileStep(t)
    PROVE  WholeInv'
<1>1. TypeOK /\ Types
  BY DEF WholeInv, TypeOK
<1>2. Types'
  BY <1>1, QuietTypes
<1>3. QED
  BY <1>1, <1>2, QuietFiles, QuietMoves, QuietKeeps

-----------------------------------------------------------------------------
(* Giving up removes at most the temporary file of the tool. *)
LEMMA CleanUpKeeps ==
    ASSUME WholeInv, raced' \in [Tools -> BOOLEAN], NEW t \in Tools, Armed(t),
           RejectAndCleanUp(t), UNCHANGED <<edits, scan, target, source, runs>>
    PROVE  WholeInv'
<1>1. Types /\ Temp(t) \in Temps /\ Temp(t) \in Names
  BY TempNames DEF Armed, WholeInv, TypeOK
<1>2. /\ dir' = dir \/ dir' = [dir EXCEPT ![Temp(t)] = Absent]
      /\ left' \subseteq Temps
      /\ text' = text /\ whole' = whole
      /\ Reject(t, target[t])
  BY <1>1 DEF RejectAndCleanUp, Types
<1>3. Types'
  <2>1. dir' \in [Names -> Nodes \cup Links \cup {Absent}]
    BY <1>1, <1>2 DEF Types
  <2>2. QED
    BY <1>1, <1>2, <2>1, RejectTypes DEF Types
<1>4. pc' = [pc EXCEPT ![t] = "next"] /\ nonce' = nonce
  BY <1>1, <1>2, RejectTypes
<1>5. \A name \in Paths \cup Links : dir'[name] = dir[name]
  BY <1>1, <1>2, NameSorts DEF Types
<1>6. ASSUME NEW u \in Tools, Armed(u)'
      PROVE  pc'[u] = pc[u] /\ Temp(u)' = Temp(u) /\ dir'[Temp(u)] = dir[Temp(u)]
  <2>1. u # t /\ pc'[u] = pc[u]
    BY <1>1, <1>4, <1>6 DEF Types, Armed
  <2>2. Temp(u) \in Names /\ Temp(u) # Temp(t)
    BY <1>6, <2>1, TempNames, TempsDiffer DEF WholeInv, Armed
  <2>3. QED
    BY <1>1, <1>2, <1>4, <2>1, <2>2 DEF Types, Temp
<1>7. TempsArmed'
  BY <1>4, <1>6 DEF TempsArmed, Armed, WholeInv, TypeOK, Temp, Armed
<1>8. QED
  BY <1>2, <1>3, <1>5, <1>6, <1>7, NameSorts DEF WholeInv, TypeOK, Armed

LEMMA LateFailureKeeps ==
    ASSUME WholeInv, raced' \in [Tools -> BOOLEAN], NEW t \in Tools, CallFails(t), Armed(t)
    PROVE  WholeInv'
BY FailsLate, CleanUpKeeps

(* A free inode becomes an empty temporary file. *)
LEMMA OpenTempKeeps ==
    ASSUME WholeInv, raced' \in [Tools -> BOOLEAN], NEW t \in Tools, OpenTemp(t)
    PROVE  WholeInv'
<1> DEFINE fresh == <<t, nonce[t] + 1>>
<1>1. Types /\ At(t, "open") /\ nonce[t] < MaxNonce
  BY DEF WholeInv, TypeOK, OpenTemp
<1>2. fresh \in Temps /\ fresh \in Names
  BY <1>1, NameAssumption DEF Types, Temps, Names
<1>3. UNCHANGED <<edits, scan, target, source, runs>>
  BY DEF OpenTemp
<1>4. ASSUME NEW n \in Free, dir' = [dir EXCEPT ![fresh] = n],
             text' = [text EXCEPT ![n] = {}], whole' = [whole EXCEPT ![n] = FALSE],
             GoTo(t, "write"), nonce' = [nonce EXCEPT ![t] = @ + 1],
             UNCHANGED <<left, report, tries>>, dir[fresh] = Absent
      PROVE  WholeInv'
  <2>1. n \in Nodes /\ \A name \in Names : dir[name] # n
    BY DEF Free
  <2>2. Types'
    <3>1. dir' \in [Names -> Nodes \cup Links \cup {Absent}]
      BY <1>1, <1>2, <1>4, <2>1 DEF Types
    <3>2. whole' \in [Nodes -> BOOLEAN]
      BY <1>1, <1>4, <2>1, Zenon DEF Types
    <3>3. text' \in [Nodes -> SUBSET Marks]
      BY <1>1, <1>4, <2>1 DEF Types
    <3>4. nonce' \in [Tools -> 0 .. MaxNonce]
      BY <1>1, <1>4, NameAssumption DEF Types
    <3>5. QED
      BY <1>1, <1>3, <1>4, <3>1, <3>2, <3>3, <3>4 DEF Types, GoTo, report
  <2>3. \A name \in Paths \cup Links : dir'[name] = dir[name]
    BY <1>1, <1>2, <1>4, NameSorts DEF Types
  <2>4. \A m \in Nodes : m # n => whole'[m] = whole[m]
    BY <1>1, <1>4 DEF Types
  <2>5. Temp(t)' = fresh /\ dir'[fresh] = n /\ pc'[t] = "write" /\ nonce'[t] > 0
    BY <1>1, <1>2, <1>4, NameAssumption DEF Types, Temp, GoTo
  <2>6. ASSUME NEW u \in Tools, u # t, Armed(u)'
        PROVE  /\ pc[u] = pc'[u] /\ nonce'[u] = nonce[u]
               /\ dir'[Temp(u)'] = dir[Temp(u)]
               /\ dir[Temp(u)] \in Nodes /\ dir[Temp(u)] # n
    <3>1. pc[u] = pc'[u] /\ nonce'[u] = nonce[u]
      BY <1>1, <1>4, <2>6 DEF Types, GoTo
    <3>2. Temp(u) \in Names /\ dir[Temp(u)] \in Nodes
      BY <2>6, <3>1, TempNames DEF Armed, WholeInv
    <3>3. Temp(u)' = Temp(u) /\ Temp(u) # fresh
      BY <2>6, <3>1 DEF Temp
    <3>4. QED
      BY <1>1, <1>4, <2>1, <3>1, <3>2, <3>3 DEF Types
  <2>7. TempsArmed'
    <3>1. ASSUME NEW u \in Tools, Armed(u)'
          PROVE  nonce'[u] > 0 /\ dir'[Temp(u)'] \in Nodes
      <4>1. CASE u = t
        BY <2>1, <2>5, <4>1
      <4>2. CASE u # t
        BY <2>6, <3>1, <4>2 DEF WholeInv, TypeOK, TempsArmed, Armed
      <4>3. QED
        BY <4>1, <4>2
    <3>2. QED
      BY <3>1 DEF TempsArmed, Armed
  <2>8. ASSUME NEW u \in Tools, pc'[u] \in {"kind", "content", "rename"}
        PROVE  whole'[dir'[Temp(u)']]
    <3>1. u # t
      BY <2>5, <2>8
    <3>2. QED
      BY <2>4, <2>6, <2>8, <3>1 DEF WholeInv, Armed
  <2>9. ASSUME NEW name \in Paths \cup Links, dir'[name] \in Nodes
        PROVE  whole'[dir'[name]]
    <3>1. dir[name] \in Nodes /\ dir[name] # n /\ whole[dir[name]]
      BY <2>1, <2>3, <2>9, NameSorts DEF WholeInv
    <3>2. QED
      BY <2>3, <2>4, <3>1
  <2>10. QED
    BY <2>2, <2>3, <2>7, <2>8, <2>9 DEF WholeInv, TypeOK
<1>5. ASSUME UNCHANGED <<files, pc, report>>,
             nonce' = [nonce EXCEPT ![t] = @ + 1], tries' = [tries EXCEPT ![t] = @ + 1],
             tries[t] + 1 < Attempts
      PROVE  WholeInv'
  <2>1. Types'
    BY <1>1, <1>3, <1>5, NameAssumption DEF Types, files, report
  <2>2. /\ ~Armed(t)'
        /\ \A u \in Tools : u # t => pc'[u] = pc[u] /\ nonce'[u] = nonce[u]
    BY <1>1, <1>5 DEF Types, At, Armed
  <2>3. QED
    BY <1>5, <2>1, <2>2, QuietKeeps DEF files
<1>6. ASSUME Settle(t, target[t], TRUE, FALSE), UNCHANGED <<files, wrote>>,
             nonce' = nonce \/ nonce' = [nonce EXCEPT ![t] = @ + 1]
      PROVE  WholeInv'
  <2>1. /\ pc' = [pc EXCEPT ![t] = "next"]
        /\ todo' \in [Tools -> SUBSET Paths]
        /\ warned' \in [Tools -> BOOLEAN]
        /\ unverified' \in [Tools -> BOOLEAN]
        /\ tries' \in [Tools -> 0 .. Attempts]
        /\ kind' \in [Tools -> Kinds]
    BY <1>1, <1>6, SettleTypes
  <2>2. nonce' \in [Tools -> 0 .. MaxNonce]
    BY <1>1, <1>6, NonceTypes
  <2>3. Types'
    BY <1>1, <1>3, <1>6, <2>1, <2>2 DEF Types, files
  <2>4. /\ ~Armed(t)'
        /\ \A u \in Tools : u # t => pc'[u] = pc[u] /\ nonce'[u] = nonce[u]
    BY <1>1, <1>6, <2>1 DEF Types, Armed
  <2>5. QED
    BY <1>6, <2>3, <2>4, QuietKeeps DEF files
<1>7. QED
  BY <1>4, <1>5, <1>6 DEF OpenTemp, Reject

(* Writing the temporary file to the end. *)
LEMMA WriteTempKeeps ==
    ASSUME WholeInv, raced' \in [Tools -> BOOLEAN], NEW t \in Tools, WriteTemp(t)
    PROVE  WholeInv'
<1> DEFINE n == dir[Temp(t)]
<1>1. Types /\ pc[t] = "write" /\ n \in Nodes /\ target[t] \in Paths
  BY TempNames DEF Armed, WholeInv, TypeOK, Types, WriteTemp, At
<1>2. UNCHANGED <<edits, scan, target, source, runs>>
  BY DEF WriteTemp
<1>4. ASSUME text' = [text EXCEPT ![n] = Projected(t)], whole' = [whole EXCEPT ![n] = TRUE],
             GoTo(t, "kind"), UNCHANGED <<dir, left, report, names>>
      PROVE  WholeInv'
  <2>1. Types'
    <3>1. Projected(t) \in SUBSET Marks
      BY <1>1 DEF Types, Projected
    <3>2. text' \in [Nodes -> SUBSET Marks]
      BY <1>1, <1>4, <3>1 DEF Types
    <3>3. whole' \in [Nodes -> BOOLEAN]
      BY <1>1, <1>4, Zenon DEF Types
    <3>4. QED
      BY <1>1, <1>2, <1>4, <3>2, <3>3 DEF Types, GoTo, report, names
  <2>2. whole'[n] /\ \A m \in Nodes : whole[m] => whole'[m]
    BY <1>1, <1>4 DEF Types
  <2>3. \A u \in Tools : Temp(u)' = Temp(u) /\ (u # t => pc'[u] = pc[u])
    BY <1>1, <1>4 DEF Types, GoTo, Temp, names
  <2>4. TempsArmed'
    BY <1>1, <1>4, <2>3 DEF WholeInv, TypeOK, TempsArmed, Armed, names
  <2>5. ASSUME NEW u \in Tools, pc'[u] \in {"kind", "content", "rename"}
        PROVE  whole'[dir'[Temp(u)']]
    <3>1. CASE u = t
      BY <1>4, <2>2, <2>3, <3>1
    <3>2. CASE u # t
      <4>1. whole[dir[Temp(u)]] /\ dir[Temp(u)] \in Nodes
        BY <2>3, <2>5, <3>2, TempNames DEF Armed, WholeInv
      <4>2. QED
        BY <1>4, <2>2, <2>3, <4>1
    <3>3. QED
      BY <3>1, <3>2
  <2>6. QED
    BY <1>4, <2>1, <2>2, <2>4, <2>5 DEF WholeInv, TypeOK
<1>5. QED
  BY <1>4 DEF WriteTemp

(* The checks before the rename change nothing or clean up. *)
LEMMA ChecksKeep ==
    ASSUME WholeInv, raced' \in [Tools -> BOOLEAN], NEW t \in Tools,
           CheckKind(t) \/ CheckContent(t)
    PROVE  WholeInv'
<1>1. Types /\ pc[t] \in {"kind", "content"}
  BY DEF WholeInv, TypeOK, CheckKind, CheckContent, At
<1>2. UNCHANGED <<edits, scan, target, source, runs>>
  BY DEF CheckKind, CheckContent
<1>3. CASE RejectAndCleanUp(t)
  BY <1>1, <1>2, <1>3, CleanUpKeeps DEF Armed
<1>4. ASSUME GoTo(t, "content") \/ GoTo(t, "rename"), UNCHANGED <<files, report, names>>
      PROVE  WholeInv'
  <2>1. Types'
    BY <1>1, <1>2, <1>4 DEF Types, GoTo, files, report, names
  <2>2. \A u \in Tools : Temp(u)' = Temp(u) /\ (u # t => pc'[u] = pc[u])
    BY <1>1, <1>4 DEF Types, GoTo, Temp, names
  <2>3. TempsArmed'
    BY <1>1, <1>4, <2>2 DEF WholeInv, TypeOK, TempsArmed, Armed, files, names
  <2>4. \A u \in Tools : pc'[u] \in {"kind", "content", "rename"} => whole'[dir'[Temp(u)']]
    BY <1>1, <1>4, <2>2 DEF WholeInv, files
  <2>5. QED
    BY <1>4, <2>1, <2>3, <2>4 DEF WholeInv, TypeOK, files
<1>5. QED
  BY <1>3, <1>4 DEF CheckKind, CheckContent

(* The rename publishes a file that is written to the end. *)
LEMMA RenameKeeps ==
    ASSUME WholeInv, raced' \in [Tools -> BOOLEAN], NEW t \in Tools, Rename(t)
    PROVE  WholeInv'
<1> DEFINE n == dir[Temp(t)]
<1>1. Types /\ pc[t] = "rename" /\ n \in Nodes /\ whole[n] /\ target[t] \in Paths
  BY TempNames DEF Armed, WholeInv, TypeOK, Types, Rename, At
<1>2. UNCHANGED <<edits, scan, target, source, runs>>
  BY DEF Rename
<1>4. ASSUME dir' = [dir EXCEPT ![target[t]] = n, ![Temp(t)] = Absent],
             Settle(t, target[t], FALSE, FALSE),
             wrote' = [wrote EXCEPT ![t] = @ \cup {<<target[t], kind[t]>>}],
             UNCHANGED <<text, whole, left, nonce>>
      PROVE  WholeInv'
  <2>1. /\ target[t] \in Names /\ Temp(t) \in Names /\ Temp(t) \in Temps
        /\ target[t] \notin Links
    BY <1>1, NameSorts, TempNames DEF Armed, WholeInv
  <2>2. /\ pc' = [pc EXCEPT ![t] = "next"]
        /\ todo' \in [Tools -> SUBSET Paths]
        /\ warned' \in [Tools -> BOOLEAN]
        /\ unverified' \in [Tools -> BOOLEAN]
        /\ tries' \in [Tools -> 0 .. Attempts]
        /\ kind' \in [Tools -> Kinds]
    BY <1>1, <1>4, SettleTypes
  <2>3. Types'
    <3>1. dir' \in [Names -> Nodes \cup Links \cup {Absent}]
      BY <1>1, <1>4, <2>1 DEF Types
    <3>2. wrote' \in [Tools -> SUBSET (Paths \X Kinds)]
      BY <1>1, <1>4 DEF Types
    <3>3. QED
      BY <1>1, <1>2, <1>4, <2>2, <3>1, <3>2 DEF Types
  <2>4. ASSUME NEW name \in Paths \cup Links
        PROVE  dir'[name] = IF name = target[t] THEN n ELSE dir[name]
    BY <1>1, <1>4, <2>1, NameSorts DEF Types
  <2>5. ASSUME NEW u \in Tools, Armed(u)'
        PROVE  pc'[u] = pc[u] /\ Temp(u)' = Temp(u) /\ dir'[Temp(u)] = dir[Temp(u)]
    <3>1. u # t /\ pc'[u] = pc[u]
      BY <1>1, <2>2, <2>5 DEF Types, Armed
    <3>2. Temp(u) \in Temps /\ Temp(u) \in Names /\ Temp(u) # Temp(t)
      BY <2>5, <3>1, TempNames, TempsDiffer DEF Armed, WholeInv
    <3>3. Temp(u) # target[t]
      BY <1>1, <3>2, NameSorts
    <3>4. QED
      BY <1>1, <1>4, <3>1, <3>2, <3>3 DEF Types, Temp
  <2>6. TempsArmed'
    BY <1>4, <2>5 DEF TempsArmed, Armed, WholeInv, TypeOK, Temp
  <2>7. \A l \in Links : dir'[l] \in Nodes
    BY <2>1, <2>4 DEF WholeInv
  <2>8. ASSUME NEW name \in Paths \cup Links, dir'[name] \in Nodes PROVE whole'[dir'[name]]
    BY <1>1, <1>4, <2>4, <2>8 DEF WholeInv
  <2>9. ASSUME NEW u \in Tools, pc'[u] \in {"kind", "content", "rename"}
        PROVE  whole'[dir'[Temp(u)']]
    BY <1>4, <2>5, <2>9 DEF WholeInv, Armed
  <2>10. QED
    BY <2>3, <2>6, <2>7, <2>8, <2>9 DEF WholeInv, TypeOK
<1>5. QED
  BY <1>4 DEF Rename

(* Editors touch no temporary file and leave whole files. *)
LEMMA EditorKeeps ==
    ASSUME WholeInv, raced' \in [Tools -> BOOLEAN], Editor
    PROVE  WholeInv'
<1>1. Types
  BY DEF WholeInv, TypeOK
<1>2. UNCHANGED <<left, pc, scan, target, source, report, names, runs>>
  BY DEF Editor
<1>3. edits' \in 0 .. MaxEdits
  BY <1>1, NameAssumption DEF Editor, Types
<1>4. PICK path \in Paths :
        \/ EditInPlace(path) \/ SaveByRename(path) \/ Remove(path)
        \/ \E link \in Links : SwapForSymlink(path, link)
  BY DEF Editor
<1>5. path \in Names /\ path \notin Temps /\ path \notin Links
  BY NameSorts
<1>6. /\ dir' \in [Names -> Nodes \cup Links \cup {Absent}]
      /\ \A name \in Names : name # path => dir'[name] = dir[name]
  <2>1. CASE EditInPlace(path)
    BY <1>1, <2>1 DEF Types, EditInPlace
  <2>2. CASE SaveByRename(path)
    BY <1>1, <1>5, <2>2 DEF Types, SaveByRename, Free
  <2>3. CASE Remove(path)
    BY <1>1, <1>5, <2>3 DEF Types, Remove
  <2>4. ASSUME NEW link \in Links, SwapForSymlink(path, link)
        PROVE  /\ dir' \in [Names -> Nodes \cup Links \cup {Absent}]
               /\ \A name \in Names : name # path => dir'[name] = dir[name]
    BY <1>1, <1>5, <2>4 DEF Types, SwapForSymlink
  <2>5. QED
    BY <1>4, <2>1, <2>2, <2>3, <2>4
<1>7. \A marks \in SUBSET Marks : Toggled(marks) \in SUBSET Marks
  BY DEF Toggled, Marks
<1>8. text' \in [Nodes -> SUBSET Marks]
  <2>1. CASE EditInPlace(path)
    <3>1. text[dir[path]] \in SUBSET Marks /\ dir[path] \in Nodes
      BY <1>1, <2>1 DEF Types, EditInPlace, RegularFile
    <3>2. QED
      BY <1>1, <1>7, <2>1, <3>1 DEF Types, EditInPlace
  <2>2. CASE SaveByRename(path)
    <3>1. Read(path) \in SUBSET Marks
      BY <1>1, <2>2, NameAssumption DEF Types, SaveByRename, RegularFile, Read, Resolve
    <3>2. QED
      BY <1>1, <1>7, <2>2, <3>1 DEF Types, SaveByRename, Free
  <2>3. QED
    BY <1>1, <1>4, <2>1, <2>2 DEF Types, Remove, SwapForSymlink
<1>9. /\ whole' \in [Nodes -> BOOLEAN]
      /\ \A m \in Nodes : whole[m] => whole'[m]
      /\ dir'[path] \in Nodes => whole'[dir'[path]]
  <2>1. CASE SaveByRename(path)
    <3>1. PICK n \in Free : dir' = [dir EXCEPT ![path] = n] /\ whole' = [whole EXCEPT ![n] = TRUE]
      BY <2>1 DEF SaveByRename
    <3>2. n \in Nodes /\ dir'[path] = n
      BY <1>1, <1>5, <3>1 DEF Types, Free
    <3>3. whole' \in [Nodes -> BOOLEAN]
      BY <1>1, <3>1, <3>2, Zenon DEF Types
    <3>4. whole'[n] /\ \A m \in Nodes : whole[m] => whole'[m]
      BY <1>1, <3>1, <3>2 DEF Types
    <3>5. QED
      BY <3>2, <3>3, <3>4
  <2>2. CASE EditInPlace(path)
    BY <1>1, <2>2 DEF EditInPlace, WholeInv, Types
  <2>3. CASE Remove(path) \/ \E link \in Links : SwapForSymlink(path, link)
    <3>1. dir'[path] \notin Nodes /\ whole' = whole
      BY <1>1, <1>5, <2>3, NameAssumption DEF Remove, SwapForSymlink, Types
    <3>2. QED
      BY <1>1, <3>1 DEF Types
  <2>4. QED
    BY <1>4, <2>1, <2>2, <2>3
<1>10. Types'
  BY <1>1, <1>2, <1>3, <1>6, <1>8, <1>9 DEF Types, report, names
<1>11. ASSUME NEW u \in Tools, Armed(u)'
       PROVE  pc'[u] = pc[u] /\ Temp(u)' = Temp(u) /\ dir'[Temp(u)] = dir[Temp(u)]
  <2>1. pc'[u] = pc[u] /\ Temp(u)' = Temp(u)
    BY <1>2 DEF Temp, names
  <2>2. Temp(u) \in Names /\ Temp(u) # path
    BY <1>5, <1>11, <2>1, TempNames DEF Armed, WholeInv
  <2>3. QED
    BY <1>6, <2>1, <2>2
<1>12. TempsArmed'
  BY <1>2, <1>11 DEF TempsArmed, Armed, WholeInv, TypeOK, names
<1>13. \A u \in Tools : pc'[u] \in {"kind", "content", "rename"} => whole'[dir'[Temp(u)']]
  BY <1>9, <1>11, TempNames DEF Armed, WholeInv
<1>14. ASSUME NEW name \in Paths \cup Links, dir'[name] \in Nodes PROVE whole'[dir'[name]]
  BY <1>6, <1>9, <1>14, NameSorts DEF WholeInv
<1>15. \A l \in Links : dir'[l] \in Nodes
  BY <1>5, <1>6, NameSorts DEF WholeInv
<1>16. QED
  BY <1>10, <1>12, <1>13, <1>14, <1>15 DEF WholeInv, TypeOK

(* WholeInv is inductive. *)
LEMMA WholeInductive ==
    ASSUME WholeInv, [Next]_vars
    PROVE  WholeInv'
<1>1. CASE Next
  <2>1. raced' \in [Tools -> BOOLEAN]
    BY <1>1 DEF Next, Race
  <2>2. ASSUME NEW t \in Tools, Move(t) PROVE WholeInv'
    BY <2>1, <2>2, QuietSteps, OpenTempKeeps, WriteTempKeeps, ChecksKeep, RenameKeeps,
       LateFailureKeeps DEF Move, Step, FileStep
  <2>3. CASE Editor
    BY <2>1, <2>3, EditorKeeps
  <2>4. QED
    BY <1>1, <2>2, <2>3 DEF Next, Move
<1>2. CASE UNCHANGED vars
  BY <1>2 DEF vars, files, report, names, WholeInv, TypeOK, Types, TempsArmed, Armed, Temp
<1>3. QED
  BY <1>1, <1>2

LEMMA WholeInvariant == Spec => []WholeInv
BY WholeInit, WholeInductive, PTL DEF Spec

(* Every reachable state is well typed, and from its creation to its rename  *)
(* the temporary file of a tool is there, whatever other tools, editors and  *)
(* crashed runs do to the directory.                                         *)
THEOREM TypeCorrect == Spec => []TypeOK
<1>1. WholeInv => TypeOK
  BY DEF WholeInv
<1>2. QED
  BY <1>1, WholeInvariant, PTL

(* Readers of a path or of another name of its file see complete old or      *)
(* complete new content at every moment of replace_file, crashes included.   *)
THEOREM WholeFiles == Spec => []ReadersSeeWholeFiles
<1>1. WholeInv => ReadersSeeWholeFiles
  BY DEF WholeInv, TypeOK, Types, ReadersSeeWholeFiles, Readable, Resolve
<1>2. QED
  BY <1>1, WholeInvariant, PTL

-----------------------------------------------------------------------------
(* What a run knows about its own fixes: once the last path is read none is  *)
(* missing, a plan on its way to the rename was verified, and a path that is *)
(* neither waiting nor warned about is fixed.                                *)
Writing == {"reinspect", "recompare", "open", "write", "kind", "content", "rename"}

Settled(t, path) ==
    path \in scan[t] \/ path \in todo[t]
        \/ (t \in source[t][path] => <<path, "sound">> \in wrote[t])

RunInv(t) ==
    /\ pc[t] \in Writing \cup {"next", "compare", "success"} => scan[t] = {}
    /\ pc[t] = "success" => ~warned[t] /\ todo[t] = {}
    /\ pc[t] \in Writing \cup {"compare"} => (kind[t] = "conflicting" => warned[t])
    /\ pc[t] \in Writing => Verifies(t)
    /\ warned[t] \/ \A path \in Paths : Settled(t, path)

FixedInv == \A t \in Tools : RunInv(t)

LEMMA FixedInit == Init => FixedInv
BY DEF Init, FixedInv, RunInv, Settled, Writing, Verifies

(* A tool that does not move keeps what it knows. *)
LEMMA OthersKeepRun ==
    ASSUME NEW t \in Tools, RunInv(t), pc'[t] = pc[t], scan'[t] = scan[t], todo'[t] = todo[t],
           warned'[t] = warned[t], kind'[t] = kind[t], source'[t] = source[t], wrote'[t] = wrote[t]
    PROVE  RunInv(t)'
BY DEF RunInv, Settled, Verifies

(* Settling a plan with a warning keeps RunInv. *)
LEMMA WarnedRun ==
    ASSUME Types, NEW t \in Tools, RunInv(t), NEW path, NEW f \in BOOLEAN,
           Settle(t, path, TRUE, f), scan[t] = {}, UNCHANGED scan
    PROVE  RunInv(t)'
<1>1. pc'[t] = "next" /\ warned'[t]
  BY DEF Settle, GoTo, Types
<1>2. QED
  BY <1>1 DEF RunInv, Writing

(* A step of a tool leaves the state of the other tools alone. *)
Untouched(u) ==
    /\ pc'[u] = pc[u] /\ scan'[u] = scan[u] /\ todo'[u] = todo[u] /\ kind'[u] = kind[u]
    /\ warned'[u] = warned[u] /\ source'[u] = source[u] /\ wrote'[u] = wrote[u]
    /\ target'[u] = target[u] /\ nonce'[u] = nonce[u] /\ edits' = edits

LEMMA StepsAreLocal ==
    ASSUME Types, NEW t \in Tools, Move(t), NEW u \in Tools, u # t
    PROVE  Untouched(u)
<1> USE DEF Untouched, Types, At, GoTo, Settle, Reject, RejectAndCleanUp, report, names
<1>1. ASSUME NEW path \in Paths, PlanFile(t, path) PROVE Untouched(u)
  BY <1>1 DEF PlanFile
<1>2. ASSUME NEW path \in Paths, Inspect(t, path) PROVE Untouched(u)
  BY <1>2 DEF Inspect
<1>3. CASE StartApply(t) \/ Exit(t)
  BY <1>3 DEF StartApply, Exit
<1>4. CASE Compare(t)
  BY <1>4 DEF Compare
<1>5. CASE Reinspect(t) \/ Recompare(t)
  BY <1>5 DEF Reinspect, Recompare
<1>6. CASE OpenTemp(t)
  BY <1>6 DEF OpenTemp
<1>7. CASE WriteTemp(t) \/ CheckKind(t) \/ CheckContent(t)
  BY <1>7 DEF WriteTemp, CheckKind, CheckContent
<1>8. CASE Rename(t)
  BY <1>8 DEF Rename
<1>9. CASE CallFails(t)
  BY <1>9 DEF CallFails
<1>10. CASE Crash(t) \/ Restart(t)
  BY <1>10 DEF Crash, Restart, Fresh
<1>11. QED
  BY <1>1, <1>2, <1>3, <1>4, <1>5, <1>6, <1>7, <1>8, <1>9, <1>10 DEF Move, Step

(* A step that only moves on, from one label of a plan to the next. *)
LEMMA MovedRun ==
    ASSUME Types, NEW t \in Tools, RunInv(t), NEW from \in Writing, NEW label \in Writing,
           pc[t] = from, GoTo(t, label),
           UNCHANGED <<kind, scan, todo, warned, source, wrote>>
    PROVE  RunInv(t)'
<1>1. pc'[t] = label
  BY DEF GoTo, Types
<1>2. QED
  BY <1>1 DEF RunInv, Settled, Verifies, Writing

(* Settling a plan that needs no rewrite, or whose rewrite is in place. *)
LEMMA SettledRun ==
    ASSUME Types, NEW t \in Tools, RunInv(t), NEW path \in Paths, scan[t] = {},
           Settle(t, path, FALSE, FALSE), UNCHANGED <<scan, source>>,
           wrote[t] \subseteq wrote'[t],
           warned[t] \/ (t \in source[t][path] => <<path, "sound">> \in wrote'[t])
    PROVE  RunInv(t)'
<1>1. pc'[t] = "next" /\ warned'[t] = warned[t] /\ todo'[t] = todo[t] \ {path}
  BY DEF Settle, GoTo, Types
<1>2. warned[t] \/ \A q \in Paths : Settled(t, q)'
  BY <1>1 DEF RunInv, Settled
<1>3. QED
  BY <1>1, <1>2 DEF RunInv, Writing

LEMMA RunStep ==
    ASSUME Types, Types', NEW t \in Tools, RunInv(t), Move(t)
    PROVE  RunInv(t)'
<1> USE DEF At
<1>1. ASSUME NEW path \in Paths, PlanFile(t, path) PROVE RunInv(t)'
  <2>1. /\ pc'[t] = "plan" /\ wrote' = wrote
        /\ scan'[t] = scan[t] \ {path}
    BY <1>1 DEF PlanFile, Types
  <2>2. CASE /\ warned' = warned /\ source' = [source EXCEPT ![t][path] = Read(path)]
             /\ \/ todo' = [todo EXCEPT ![t] = @ \cup {path}]
                \/ todo' = todo /\ t \notin Read(path)
    <3>1. /\ todo[t] \subseteq todo'[t]
          /\ path \in todo'[t] \/ t \notin Read(path)
      BY <2>2 DEF Types
    <3>2. \A q \in Paths : source'[t][q] = IF q = path THEN Read(path) ELSE source[t][q]
      BY <2>2 DEF Types
    <3>3. warned[t] \/ \A q \in Paths : Settled(t, q)'
      BY <2>1, <3>1, <3>2 DEF RunInv, Settled
    <3>4. QED
      BY <2>1, <2>2, <3>3 DEF RunInv, Writing
  <2>3. CASE warned' = [warned EXCEPT ![t] = TRUE]
    <3>1. warned'[t]
      BY <2>3 DEF Types
    <3>2. QED
      BY <2>1, <3>1 DEF RunInv, Writing
  <2>4. QED
    BY <1>1, <2>2, <2>3 DEF PlanFile
<1>2. ASSUME NEW path \in Paths, Inspect(t, path) PROVE RunInv(t)'
  <2>1. UNCHANGED <<scan, source>> /\ scan[t] = {} /\ pc[t] = "next"
    BY <1>2 DEF Inspect, RunInv
  <2>2. CASE Reject(t, path)
    BY <2>1, <2>2, WarnedRun DEF Reject
  <2>3. ASSUME NEW k \in Kinds, GoTo(t, "compare"), kind' = [kind EXCEPT ![t] = k],
               warned' = [warned EXCEPT ![t] = @ \/ k = "conflicting"],
               UNCHANGED <<todo, unverified, wrote, names>>
        PROVE  RunInv(t)'
    <3>1. pc'[t] = "compare" /\ kind'[t] = k
      BY <2>3 DEF GoTo, Types
    <3>2. warned'[t] <=> (warned[t] \/ k = "conflicting")
      BY <2>3 DEF Types
    <3>3. QED
      BY <2>1, <2>3, <3>1, <3>2 DEF RunInv, Settled, Writing
  <2>4. QED
    BY <1>2, <2>2, <2>3 DEF Inspect
<1>3. CASE StartApply(t)
  <2>1. /\ pc'[t] = "next" /\ scan[t] = {} /\ (warned[t] => warned'[t])
        /\ UNCHANGED <<scan, source, todo, wrote>>
    BY <1>3 DEF StartApply, GoTo, Types
  <2>2. QED
    BY <2>1 DEF RunInv, Settled, Writing
<1>4. CASE Compare(t)
  <2>1. UNCHANGED <<scan, source, target>> /\ scan[t] = {} /\ pc[t] = "compare"
    BY <1>4 DEF Compare, RunInv
  <2>2. target[t] \in Paths
    BY DEF Types
  <2>3. CASE Reject(t, target[t])
    BY <2>1, <2>3, WarnedRun DEF Reject
  <2>4. CASE Settle(t, target[t], TRUE, TRUE)
    BY <2>1, <2>4, WarnedRun
  <2>5. CASE /\ Projected(t) = source[t][target[t]]
             /\ Settle(t, target[t], FALSE, FALSE)
             /\ UNCHANGED <<wrote, nonce>>
    <3>1. t \notin source[t][target[t]]
      BY <2>5 DEF Projected
    <3>2. QED
      BY <2>1, <2>2, <2>5, <3>1, SettledRun
  <2>6. CASE Verifies(t) /\ GoTo(t, "reinspect") /\ UNCHANGED <<report, names>>
    <3>1. pc'[t] = "reinspect"
      BY <2>6 DEF GoTo, Types
    <3>2. QED
      BY <2>1, <2>6, <3>1 DEF RunInv, Settled, Writing, Verifies, report
  <2>7. QED
    BY <1>4, <2>3, <2>4, <2>5, <2>6 DEF Compare
<1>5. CASE Reinspect(t) \/ Recompare(t)
  <2>1. UNCHANGED <<scan, source, target>> /\ scan[t] = {}
        /\ pc[t] \in {"reinspect", "recompare"}
    BY <1>5 DEF Reinspect, Recompare, RunInv, Writing
  <2>2. CASE Reject(t, target[t])
    BY <2>1, <2>2, WarnedRun DEF Reject
  <2>3. CASE (GoTo(t, "recompare") \/ GoTo(t, "open")) /\ UNCHANGED <<report, names>>
    BY <2>1, <2>3, MovedRun DEF Writing, report
  <2>4. QED
    BY <1>5, <2>2, <2>3 DEF Reinspect, Recompare
<1>6. CASE OpenTemp(t)
  <2>1. UNCHANGED <<scan, source, target>> /\ scan[t] = {} /\ pc[t] = "open"
    BY <1>6 DEF OpenTemp, RunInv, Writing
  <2>2. CASE GoTo(t, "write") /\ UNCHANGED <<report, tries>>
    BY <2>1, <2>2, MovedRun DEF Writing, report
  <2>3. CASE UNCHANGED <<files, pc, report>>
    BY <2>1, <2>3, OthersKeepRun DEF report
  <2>4. CASE Settle(t, target[t], TRUE, FALSE)
    BY <2>1, <2>4, WarnedRun
  <2>5. QED
    BY <1>6, <2>2, <2>3, <2>4 DEF OpenTemp, Reject
<1>7. CASE WriteTemp(t) \/ CheckKind(t) \/ CheckContent(t)
  <2>1. UNCHANGED <<scan, source, target>> /\ scan[t] = {}
        /\ pc[t] \in {"write", "kind", "content"}
    BY <1>7 DEF WriteTemp, CheckKind, CheckContent, RunInv, Writing
  <2>2. CASE RejectAndCleanUp(t)
    BY <2>1, <2>2, WarnedRun DEF RejectAndCleanUp, Reject
  <2>3. CASE (GoTo(t, "kind") \/ GoTo(t, "content") \/ GoTo(t, "rename"))
             /\ UNCHANGED <<report, names>>
    BY <2>1, <2>3, MovedRun DEF Writing, report
  <2>4. QED
    BY <1>7, <2>2, <2>3 DEF WriteTemp, CheckKind, CheckContent
<1>8. CASE Rename(t)
  <2>1. UNCHANGED <<scan, source, target>> /\ scan[t] = {} /\ pc[t] = "rename"
    BY <1>8 DEF Rename, RunInv, Writing
  <2>2. /\ Settle(t, target[t], FALSE, FALSE)
        /\ wrote' = [wrote EXCEPT ![t] = @ \cup {<<target[t], kind[t]>>}]
    BY <1>8 DEF Rename
  <2>3. warned[t] \/ kind[t] = "sound"
    BY <2>1 DEF RunInv, Writing, Verifies
  <2>4. wrote'[t] = wrote[t] \cup {<<target[t], kind[t]>>} /\ target[t] \in Paths
    BY <2>2 DEF Types
  <2>5. QED
    BY <2>1, <2>2, <2>3, <2>4, SettledRun
<1>9. CASE Exit(t)
  <2>1. /\ pc'[t] \in {"failure", "success"} /\ (pc'[t] = "success" => ~warned[t])
        /\ pc[t] = "next" /\ todo[t] = {}
    BY <1>9 DEF Exit, GoTo, Types
  <2>2. UNCHANGED <<scan, source, report>>
    BY <1>9 DEF Exit
  <2>3. QED
    BY <2>1, <2>2 DEF RunInv, Settled, Writing, report
<1>10. CASE CallFails(t)
  <2>1. Settle(t, target[t], TRUE, FALSE) /\ UNCHANGED scan
    BY <1>10 DEF CallFails, RejectAndCleanUp, Reject
  <2>2. pc[t] \in Writing \cup {"compare"}
    BY <1>10 DEF CallFails, Armed, Writing
  <2>3. QED
    BY <2>1, <2>2, WarnedRun DEF RunInv
<1>11. CASE Crash(t) \/ Restart(t)
  <2>1. pc'[t] \in {"crashed", "plan"} /\ scan'[t] = Paths
    BY <1>11 DEF Crash, Restart, Fresh, GoTo, Types
  <2>2. QED
    BY <2>1 DEF RunInv, Settled, Writing
<1>12. QED
  BY <1>1, <1>2, <1>3, <1>4, <1>5, <1>6, <1>7, <1>8, <1>9, <1>10, <1>11 DEF Move, Step

LEMMA FixedInductive ==
    ASSUME WholeInv, WholeInv', FixedInv, [Next]_vars
    PROVE  FixedInv'
<1>1. Types /\ Types'
  BY DEF WholeInv, TypeOK
<1>2. ASSUME NEW t \in Tools, Move(t), NEW u \in Tools PROVE RunInv(u)'
  <2>1. RunInv(u)
    BY DEF FixedInv
  <2>2. CASE u = t
    BY <1>1, <1>2, <2>1, <2>2, RunStep
  <2>3. CASE u # t
    BY <1>1, <1>2, <2>1, <2>3, StepsAreLocal, OthersKeepRun DEF Untouched
  <2>4. QED
    BY <2>2, <2>3
<1>3. ASSUME Editor \/ UNCHANGED vars, NEW u \in Tools PROVE RunInv(u)'
  <2>1. UNCHANGED <<pc, kind, scan, source, todo, warned, wrote>>
    BY <1>3 DEF Editor, vars, report
  <2>2. QED
    BY <2>1, OthersKeepRun DEF FixedInv
<1>4. QED
  BY <1>2, <1>3 DEF FixedInv, Next, Move

(* A run of fix --apply that exits with success has replaced every file for  *)
(* which it had a fix, and all its fixes were applied and verified.          *)
THEOREM SuccessIsHonest == Spec => []SuccessMeansFixed
<1>1. WholeInv /\ FixedInv /\ [Next]_vars => FixedInv' \/ ~WholeInv'
  BY FixedInductive
<1>2. FixedInv => SuccessMeansFixed
  BY DEF FixedInv, RunInv, Settled, SuccessMeansFixed
<1>3. QED
  BY <1>1, <1>2, FixedInit, WholeInvariant, PTL DEF Spec

-----------------------------------------------------------------------------
(* Every temporary file is accounted for: it is the one its tool is about to *)
(* rename, which nobody left behind, or it was left behind.                  *)
Accounted(t) ==
    /\ \A i \in 1 .. MaxNonce :
          dir[<<t, i>>] # Absent <=> <<t, i>> \in left \/ (Armed(t) /\ <<t, i>> = Temp(t))
    /\ Armed(t) => Temp(t) \notin left

LeftInv == \A t \in Tools : Accounted(t)

LEMMA LeftInit == Init => LeftInv
<1> SUFFICES ASSUME Init, NEW t \in Tools PROVE Accounted(t)
  BY DEF LeftInv
<1>1. \A i \in 1 .. MaxNonce : dir[<<t, i>>] = Absent
  BY NameSorts DEF Init
<1>2. ~Armed(t) /\ left = {}
  BY DEF Init, Armed
<1>3. QED
  BY <1>1, <1>2 DEF Accounted

(* A tool whose names nobody touches. *)
LEMMA OthersKeepLeft ==
    ASSUME NEW t \in Tools, Accounted(t), pc'[t] = pc[t], nonce'[t] = nonce[t],
           \A i \in 1 .. MaxNonce :
               dir'[<<t, i>>] = dir[<<t, i>>] /\ (<<t, i>> \in left' <=> <<t, i>> \in left),
           Armed(t) => nonce[t] \in 1 .. MaxNonce
    PROVE  Accounted(t)'
<1>1. Temp(t)' = Temp(t) /\ (Armed(t)' <=> Armed(t))
  BY DEF Temp, Armed
<1>2. \A i \in 1 .. MaxNonce :
        dir'[<<t, i>>] # Absent <=> <<t, i>> \in left' \/ (Armed(t)' /\ <<t, i>> = Temp(t)')
  BY <1>1 DEF Accounted
<1>3. Armed(t)' => Temp(t)' \notin left'
  BY <1>1 DEF Accounted, Temp
<1>4. QED
  BY <1>2, <1>3 DEF Accounted

(* The temporary file of a tool is dropped: its name goes or it is noted.    *)
LEMMA DroppedLeft ==
    ASSUME WholeInv, NEW t \in Tools, Accounted(t), Armed(t), ~Armed(t)',
           \A i \in 1 .. MaxNonce : <<t, i>> # Temp(t) =>
               dir'[<<t, i>>] = dir[<<t, i>>] /\ (<<t, i>> \in left' <=> <<t, i>> \in left),
           \/ dir'[Temp(t)] = Absent /\ Temp(t) \notin left'
           \/ dir'[Temp(t)] = dir[Temp(t)] /\ Temp(t) \in left'
    PROVE  Accounted(t)'
<1>1. dir[Temp(t)] # Absent
  BY TempNames, NameAssumption DEF WholeInv
<1>2. ASSUME NEW i \in 1 .. MaxNonce
      PROVE  dir'[<<t, i>>] # Absent <=> <<t, i>> \in left'
  <2>1. CASE <<t, i>> = Temp(t)
    BY <1>1, <2>1
  <2>2. CASE <<t, i>> # Temp(t)
    BY <2>2 DEF Accounted
  <2>3. QED
    BY <2>1, <2>2
<1>3. QED
  BY <1>2 DEF Accounted

(* A tool without a temporary file that gets none. *)
LEMMA IdleLeft ==
    ASSUME NEW t \in Tools, Accounted(t), ~Armed(t), ~Armed(t)', UNCHANGED <<dir, left>>
    PROVE  Accounted(t)'
BY DEF Accounted

LEMMA AccountedStep ==
    ASSUME WholeInv, WholeInv', NEW t \in Tools, Accounted(t), Move(t)
    PROVE  Accounted(t)'
<1>1. Types /\ Types'
  BY DEF WholeInv, TypeOK
<1>2. CASE FileStep(t) /\ ~Crash(t)
  <2>1. ~Armed(t) /\ ~Armed(t)'
    BY <1>1, <1>2, QuietMoves DEF FileStep, PlanFile, Inspect, StartApply, Compare, Reinspect,
       Recompare, Exit, Restart, Ended, At, Armed
  <2>2. UNCHANGED <<dir, left>>
    BY <1>2, FailsEarly DEF FileStep, files, PlanFile, Inspect, StartApply, Compare, Reinspect,
       Recompare, Exit, Restart
  <2>3. QED
    BY <2>1, <2>2, IdleLeft
<1>3. CASE Crash(t)
  <2>1. dir' = dir /\ ~Armed(t)'
    BY <1>1, <1>3, QuietMoves DEF FileStep, Crash
  <2>2. CASE Armed(t)
    <3>1. left' = left \cup {Temp(t)}
      BY <1>3, <2>2 DEF Crash
    <3>2. QED
      BY <2>1, <2>2, <3>1, DroppedLeft
  <2>3. CASE ~Armed(t)
    BY <1>3, <2>1, <2>3, IdleLeft DEF Crash
  <2>4. QED
    BY <2>2, <2>3
<1>4. CASE OpenTemp(t)
  <2>1. ~Armed(t) /\ nonce[t] < MaxNonce
    BY <1>4 DEF OpenTemp, At, Armed
  <2>2. CASE UNCHANGED files
    <3>1. ~Armed(t)'
      BY <1>1, <1>4, <2>1, <2>2, NameAssumption DEF OpenTemp, Reject, Settle, GoTo, Types, Armed,
         files, Free, Names, Temps
    <3>2. QED
      BY <2>1, <2>2, <3>1, IdleLeft DEF files
  <2>3. ASSUME NEW n \in Free, dir[<<t, nonce[t] + 1>>] = Absent, left' = left,
               dir' = [dir EXCEPT ![<<t, nonce[t] + 1>>] = n], GoTo(t, "write"),
               nonce' = [nonce EXCEPT ![t] = @ + 1]
        PROVE  Accounted(t)'
    <3> DEFINE fresh == <<t, nonce[t] + 1>>
    <3>1. nonce[t] + 1 \in 1 .. MaxNonce
      BY <1>1, <2>1, NameAssumption DEF Types
    <3>2. fresh \in Names /\ n # Absent /\ fresh \notin left
      BY <2>1, <2>3, <3>1, NameSorts, NameAssumption DEF Free, Accounted
    <3>3. Armed(t)' /\ Temp(t)' = fresh
      BY <1>1, <2>3 DEF Types, GoTo, Armed, Temp
    <3>4. \A i \in 1 .. MaxNonce : dir'[<<t, i>>] = IF <<t, i>> = fresh THEN n ELSE dir[<<t, i>>]
      BY <1>1, <2>3, <3>2, NameSorts DEF Types
    <3>5. QED
      BY <2>1, <2>3, <3>2, <3>3, <3>4 DEF Accounted
  <2>4. QED
    BY <1>4, <2>2, <2>3 DEF OpenTemp
<1>5. ASSUME Armed(t), RejectAndCleanUp(t) PROVE Accounted(t)'
  <2>1. ~Armed(t)'
    BY <1>1, <1>5 DEF RejectAndCleanUp, Reject, Settle, GoTo, Types, Armed
  <2>2. Temp(t) \in Names /\ Temp(t) \notin left
    BY <1>5, TempNames DEF WholeInv, Accounted
  <2>3. CASE dir' = [dir EXCEPT ![Temp(t)] = Absent] /\ left' = left
    <3>1. \A i \in 1 .. MaxNonce : <<t, i>> # Temp(t) => dir'[<<t, i>>] = dir[<<t, i>>]
      BY <1>1, <2>3, NameSorts DEF Types
    <3>2. dir'[Temp(t)] = Absent
      BY <1>1, <2>2, <2>3 DEF Types
    <3>3. QED
      BY <1>5, <2>1, <2>2, <2>3, <3>1, <3>2, DroppedLeft
  <2>4. CASE left' = left \cup {Temp(t)} /\ dir' = dir
    BY <1>5, <2>1, <2>4, DroppedLeft
  <2>5. QED
    BY <1>5, <2>3, <2>4 DEF RejectAndCleanUp
<1>6. CASE WriteTemp(t) \/ ((CheckKind(t) \/ CheckContent(t)) /\ ~RejectAndCleanUp(t))
  <2>1. /\ Armed(t) /\ Armed(t)' /\ Temp(t)' = Temp(t)
        /\ dir' = dir /\ left' = left
    BY <1>1, <1>6 DEF WriteTemp, CheckKind, CheckContent, At, GoTo, Types, Armed, Temp, names, files
  <2>2. QED
    BY <2>1 DEF Accounted
<1>7. CASE Rename(t)
  <2>1. /\ Armed(t) /\ ~Armed(t)' /\ left' = left /\ target[t] \in Paths
        /\ dir' = [dir EXCEPT ![target[t]] = dir[Temp(t)], ![Temp(t)] = Absent]
    BY <1>1, <1>7 DEF Rename, At, Settle, GoTo, Types, Armed
  <2>2. Temp(t) \in Names /\ Temp(t) \notin left
    BY <2>1, TempNames DEF WholeInv, Accounted
  <2>3. \A i \in 1 .. MaxNonce : <<t, i>> # Temp(t) => dir'[<<t, i>>] = dir[<<t, i>>]
    BY <1>1, <2>1, NameSorts DEF Types
  <2>4. dir'[Temp(t)] = Absent
    BY <1>1, <2>1, <2>2 DEF Types
  <2>5. QED
    BY <2>1, <2>2, <2>3, <2>4, DroppedLeft
<1>8. (CheckKind(t) \/ CheckContent(t)) => Armed(t)
  BY DEF CheckKind, CheckContent, At, Armed
<1>9. \/ FileStep(t) \/ OpenTemp(t) \/ Rename(t) \/ (Armed(t) /\ RejectAndCleanUp(t))
      \/ WriteTemp(t) \/ ((CheckKind(t) \/ CheckContent(t)) /\ ~RejectAndCleanUp(t))
  BY <1>8, FailsLate DEF Move, Step, FileStep
<1>10. QED
  BY <1>2, <1>3, <1>4, <1>5, <1>6, <1>7, <1>9

(* A tool touches its own temporary files only, an editor none. *)
LEMMA TempsAreLocal ==
    ASSUME WholeInv, NEW t \in Tools, Move(t), NEW u \in Tools, u # t, NEW i \in 1 .. MaxNonce
    PROVE  dir'[<<u, i>>] = dir[<<u, i>>] /\ (<<u, i>> \in left' <=> <<u, i>> \in left)
<1>1. Types /\ target[t] \in Paths /\ <<u, i>> \in Names /\ <<u, i>> # target[t]
  <2>1. Types
    BY DEF WholeInv, TypeOK
  <2>2. target[t] \in Paths
    BY <2>1 DEF Types
  <2>3. QED
    BY <2>1, <2>2, NameSorts
<1>2. <<u, i>> # Temp(t) /\ <<u, i>> # <<t, nonce[t] + 1>>
  BY DEF Temp
<1>3. left' = left \/ left' = left \cup {Temp(t)}
  BY DEF Move, Step, files, PlanFile, Inspect, StartApply, Compare, Reinspect, Recompare, OpenTemp,
     WriteTemp, CheckKind, CheckContent, Rename, Exit, CallFails, RejectAndCleanUp, Crash, Restart
<1>4. dir'[<<u, i>>] = dir[<<u, i>>]
  <2>1. CASE FileStep(t)
    BY <2>1, QuietFiles
  <2>2. CASE OpenTemp(t)
    BY <1>1, <1>2, <2>2 DEF OpenTemp, Types, files
  <2>3. CASE RejectAndCleanUp(t)
    BY <1>1, <1>2, <2>3 DEF RejectAndCleanUp, Types
  <2>4. CASE WriteTemp(t) \/ ((CheckKind(t) \/ CheckContent(t)) /\ ~RejectAndCleanUp(t))
    BY <2>4 DEF WriteTemp, CheckKind, CheckContent, files
  <2>5. CASE Rename(t)
    BY <1>1, <1>2, <2>5 DEF Rename, Types
  <2>6. QED
    BY <2>1, <2>2, <2>3, <2>4, <2>5, FailsLate DEF Move, Step, FileStep
<1>5. QED
  BY <1>2, <1>3, <1>4

LEMMA EditorsKeepTemps ==
    ASSUME WholeInv, Editor, NEW name \in Temps
    PROVE  dir'[name] = dir[name]
<1>1. Types /\ name \in Names /\ name \notin Paths
  BY NameSorts DEF WholeInv, TypeOK, Names, Temps
<1>2. PICK path \in Paths :
        \/ EditInPlace(path) \/ SaveByRename(path) \/ Remove(path)
        \/ \E link \in Links : SwapForSymlink(path, link)
  BY DEF Editor
<1>3. QED
  BY <1>1, <1>2 DEF EditInPlace, SaveByRename, Remove, SwapForSymlink, Types

LEMMA LeftInductive ==
    ASSUME WholeInv, WholeInv', LeftInv, [Next]_vars
    PROVE  LeftInv'
<1>1. \A u \in Tools : Armed(u) => nonce[u] \in 1 .. MaxNonce
  BY NameAssumption DEF WholeInv, TypeOK, Types, TempsArmed
<1>2. ASSUME NEW t \in Tools, Move(t), NEW u \in Tools PROVE Accounted(u)'
  <2>1. Accounted(u)
    BY DEF LeftInv
  <2>2. CASE u = t
    BY <1>2, <2>1, <2>2, AccountedStep
  <2>3. CASE u # t
    <3>1. pc'[u] = pc[u] /\ nonce'[u] = nonce[u]
      BY <1>2, <2>3, StepsAreLocal DEF WholeInv, TypeOK, Untouched
    <3>2. \A i \in 1 .. MaxNonce :
             dir'[<<u, i>>] = dir[<<u, i>>] /\ (<<u, i>> \in left' <=> <<u, i>> \in left)
      BY <1>2, <2>3, TempsAreLocal
    <3>3. QED
      BY <1>1, <2>1, <3>1, <3>2, OthersKeepLeft
  <2>4. QED
    BY <2>2, <2>3
<1>3. ASSUME Editor, NEW u \in Tools PROVE Accounted(u)'
  <2>1. pc' = pc /\ nonce' = nonce /\ left' = left
    BY <1>3 DEF Editor, names
  <2>2. \A i \in 1 .. MaxNonce : dir'[<<u, i>>] = dir[<<u, i>>]
    BY <1>3, EditorsKeepTemps, NameSorts
  <2>3. QED
    BY <1>1, <2>1, <2>2, OthersKeepLeft DEF LeftInv
<1>4. ASSUME UNCHANGED vars, NEW u \in Tools PROVE Accounted(u)'
  BY <1>1, <1>4, OthersKeepLeft DEF LeftInv, vars, files, names
<1>5. QED
  BY <1>2, <1>3, <1>4 DEF LeftInv, Next, Move

(* TempFileCleanup and the rename together: the temporary files there are    *)
(* are the ones about to be renamed and those that a crash or a failed       *)
(* removal left.  No other error path forgets its file, whatever calls fail, *)
(* and however often a process id comes back, a leftover is neither taken    *)
(* for the file of a new run nor removed.                                    *)
THEOREM TempsCleanedUp == Spec => []NoTempLeftBehind
<1>1. WholeInv /\ LeftInv /\ [Next]_vars => LeftInv' \/ ~WholeInv'
  BY LeftInductive
<1>2. ASSUME WholeInv, LeftInv PROVE NoTempLeftBehind
  <2> SUFFICES ASSUME NEW t \in Tools
               PROVE  /\ TempsOf(t) = LeftBy(t) \cup (IF Armed(t) THEN {Temp(t)} ELSE {})
                      /\ Armed(t) => Temp(t) \notin left
    BY DEF NoTempLeftBehind
  <2>1. Accounted(t) /\ left \subseteq Temps
    BY <1>2 DEF LeftInv, WholeInv, TypeOK, Types
  <2>2. Armed(t) => Temp(t) \in Temps /\ Temp(t)[1] = t
    BY <1>2, TempNames DEF WholeInv, Temp
  <2>3. ASSUME NEW name \in Temps, name[1] = t
        PROVE  name \in TempsOf(t)
                 <=> name \in LeftBy(t) \cup (IF Armed(t) THEN {Temp(t)} ELSE {})
    <3>1. PICK i \in 1 .. MaxNonce : name = <<t, i>>
      BY <2>3 DEF Temps
    <3>2. QED
      BY <2>1, <2>3, <3>1 DEF Accounted, TempsOf, LeftBy
  <2>4. \A name \in TempsOf(t) : name \in Temps /\ name[1] = t
    BY DEF TempsOf
  <2>5. \A name \in LeftBy(t) \cup (IF Armed(t) THEN {Temp(t)} ELSE {}) :
           name \in Temps /\ name[1] = t
    BY <2>1, <2>2 DEF LeftBy
  <2>6. QED
    BY <2>1, <2>3, <2>4, <2>5 DEF Accounted
<1>3. QED
  BY <1>1, <1>2, LeftInit, WholeInvariant, PTL DEF Spec

-----------------------------------------------------------------------------
(* No two names share the inode of a temporary file. *)
Private ==
    \A name \in Temps, other \in Names :
        dir[name] \in Nodes /\ other # name => dir[other] # dir[name]

(* A temporary file that is written holds the rewrite of the planned text. *)
Prepared ==
    \A t \in Tools : pc[t] \in {"kind", "content", "rename"} =>
        text[dir[Temp(t)]] = source[t][target[t]] \ {t}

PublishInv == Private /\ Prepared

LEMMA PublishInit == Init => PublishInv
BY NameAssumption DEF Init, PublishInv, Private, Prepared, Temps, Names

(* Private survives a name that goes, and one that gets a free inode or one  *)
(* that no other name keeps.                                                 *)
LEMMA PrivateStep ==
    ASSUME WholeInv, WholeInv', Private, [Next]_vars
    PROVE  Private'
<1>0. Types
  BY DEF WholeInv, TypeOK
<1>1. CASE dir' = dir
  BY <1>1 DEF Private
<1>2. ASSUME NEW name \in Names, NEW v, v \notin Nodes, dir' = [dir EXCEPT ![name] = v]
      PROVE  Private'
  <2>1. \A other \in Names : dir'[other] = IF other = name THEN v ELSE dir[other]
    BY <1>0, <1>2 DEF Types
  <2>2. QED
    BY <1>2, <2>1 DEF Private, Names
<1>3. ASSUME NEW name \in Names, NEW n \in Free, dir' = [dir EXCEPT ![name] = n]
      PROVE  Private'
  <2>1. \A other \in Names : dir'[other] = IF other = name THEN n ELSE dir[other]
    BY <1>0, <1>3 DEF Types
  <2>2. \A other \in Names : dir[other] # n
    BY DEF Free
  <2>3. QED
    BY <2>1, <2>2 DEF Private, Names
<1>4. ASSUME NEW t \in Tools, OpenTemp(t) PROVE Private'
  <2>1. <<t, nonce[t] + 1>> \in Names
    BY <1>0, <1>4, NameAssumption DEF OpenTemp, Types, Names, Temps
  <2>2. CASE UNCHANGED files
    BY <1>1, <2>2 DEF files
  <2>3. ASSUME NEW n \in Free, dir' = [dir EXCEPT ![<<t, nonce[t] + 1>>] = n] PROVE Private'
    BY <1>3, <2>1, <2>3
  <2>4. QED
    BY <1>4, <2>2, <2>3 DEF OpenTemp
<1>5. ASSUME NEW t \in Tools, Armed(t),
             WriteTemp(t) \/ CheckKind(t) \/ CheckContent(t) \/ Rename(t) \/ RejectAndCleanUp(t)
      PROVE  Private'
  <2>1. Temp(t) \in Temps /\ Temp(t) \in Names /\ dir[Temp(t)] \in Nodes
    BY <1>5, TempNames DEF WholeInv
  <2>2. target[t] \in Names /\ target[t] \notin Temps
    BY <1>0, NameSorts DEF Types
  <2>3. CASE dir' = [dir EXCEPT ![Temp(t)] = Absent]
    BY <1>2, <2>1, <2>3, NameAssumption
  <2>4. CASE dir' = [dir EXCEPT ![target[t]] = dir[Temp(t)], ![Temp(t)] = Absent]
    <3>1. \A other \in Names : dir'[other] = IF other = Temp(t) THEN Absent
                                             ELSE IF other = target[t] THEN dir[Temp(t)]
                                             ELSE dir[other]
      BY <1>0, <2>1, <2>2, <2>4 DEF Types
    <3>2. QED
      BY <2>1, <2>2, <3>1, NameAssumption DEF Private, Names
  <2>5. QED
    BY <1>1, <1>5, <2>3, <2>4 DEF WriteTemp, CheckKind, CheckContent, Rename, RejectAndCleanUp, files
<1>6. CASE Editor
  <2>1. PICK path \in Paths :
          \/ EditInPlace(path) \/ SaveByRename(path) \/ Remove(path)
          \/ \E link \in Links : SwapForSymlink(path, link)
    BY <1>6 DEF Editor
  <2>2. path \in Names
    BY NameSorts
  <2>3. CASE EditInPlace(path)
    BY <1>1, <2>3 DEF EditInPlace
  <2>4. CASE SaveByRename(path)
    BY <1>3, <2>2, <2>4 DEF SaveByRename
  <2>5. CASE Remove(path)
    BY <1>2, <2>2, <2>5, NameAssumption DEF Remove
  <2>6. ASSUME NEW link \in Links, SwapForSymlink(path, link) PROVE Private'
    BY <1>2, <2>2, <2>6, NameSorts DEF SwapForSymlink
  <2>7. QED
    BY <2>1, <2>3, <2>4, <2>5, <2>6
<1>7. CASE UNCHANGED vars
  BY <1>1, <1>7 DEF vars, files
<1>8. ASSUME NEW t \in Tools, FileStep(t) PROVE Private'
  BY <1>1, <1>8, QuietFiles
<1>9. ASSUME NEW t \in Tools, Move(t) PROVE Private'
  <2>1. WriteTemp(t) \/ CheckKind(t) \/ CheckContent(t) \/ Rename(t) => Armed(t)
    BY DEF WriteTemp, CheckKind, CheckContent, Rename, At, Armed
  <2>2. QED
    BY <1>4, <1>5, <1>8, <1>9, <2>1, FailsLate DEF Move, Step, FileStep
<1>10. QED
  BY <1>6, <1>7, <1>9 DEF Next, Move

(* Only a tool itself writes into its temporary file. *)
LEMMA OthersKeepTemp ==
    ASSUME WholeInv, PublishInv, NEW u \in Tools,
           Armed(u),
           Editor \/ \E t \in Tools \ {u} : Move(t)
    PROVE  text'[dir[Temp(u)]] = text[dir[Temp(u)]]
<1> DEFINE n == dir[Temp(u)]
<1>1. Types
  BY DEF WholeInv, TypeOK
<1>2. Temp(u) \in Temps /\ Temp(u) \in Names /\ n \in Nodes
  BY TempNames DEF Armed, WholeInv
<1>3. \A other \in Names : other # Temp(u) => dir[other] # n
  BY <1>2 DEF PublishInv, Private
<1>4. \A m \in Free : m \in Nodes /\ m # n
  BY <1>2 DEF Free
<1>5. CASE Editor
  <2>1. PICK path \in Paths :
          \/ EditInPlace(path) \/ SaveByRename(path) \/ Remove(path)
          \/ \E link \in Links : SwapForSymlink(path, link)
    BY <1>5 DEF Editor
  <2>2. path \in Names /\ dir[path] # n
    BY <1>2, <1>3, NameSorts
  <2>3. QED
    BY <1>1, <1>2, <1>4, <2>1, <2>2 DEF EditInPlace, SaveByRename, Remove, SwapForSymlink, Types
<1>6. ASSUME NEW t \in Tools \ {u}, Move(t)
      PROVE  text'[n] = text[n]
  <2>1. CASE FileStep(t)
    BY <2>1, QuietFiles
  <2>2. CASE OpenTemp(t)
    BY <1>1, <1>2, <1>4, <2>2 DEF OpenTemp, files, Types
  <2>3. CASE WriteTemp(t)
    <3>1. Temp(t) \in Names /\ dir[Temp(t)] # n
      BY <1>3, <2>3, TempNames, TempsDiffer DEF Armed, WholeInv, WriteTemp, At
    <3>2. QED
      BY <1>1, <1>2, <2>3, <3>1 DEF WriteTemp, Types
  <2>4. CASE CheckKind(t) \/ CheckContent(t) \/ Rename(t) \/ RejectAndCleanUp(t)
    BY <2>4 DEF CheckKind, CheckContent, Rename, RejectAndCleanUp, files
  <2>5. QED
    BY <1>6, <2>1, <2>2, <2>3, <2>4, FailsLate DEF Move, Step, FileStep
<1>7. QED
  BY <1>5, <1>6

LEMMA PreparedStep ==
    ASSUME WholeInv, WholeInv', PublishInv, [Next]_vars
    PROVE  Prepared'
<1> SUFFICES ASSUME NEW u \in Tools, pc'[u] \in {"kind", "content", "rename"}
             PROVE  text'[dir'[Temp(u)']] = source'[u][target'[u]] \ {u}
  BY DEF Prepared
<1>1. Types /\ Types'
  BY DEF WholeInv, TypeOK
<1>2. ASSUME pc'[u] = pc[u], source'[u] = source[u], target'[u] = target[u],
             Temp(u)' = Temp(u), dir'[Temp(u)] = dir[Temp(u)],
             text'[dir[Temp(u)]] = text[dir[Temp(u)]]
      PROVE  text'[dir'[Temp(u)']] = source'[u][target'[u]] \ {u}
  BY <1>2 DEF PublishInv, Prepared
<1>3. ASSUME NEW t \in Tools, t # u, Move(t)
      PROVE  text'[dir'[Temp(u)']] = source'[u][target'[u]] \ {u}
  <2>1. /\ pc'[u] = pc[u] /\ source'[u] = source[u] /\ target'[u] = target[u]
        /\ nonce'[u] = nonce[u]
    BY <1>1, <1>3, StepsAreLocal DEF Untouched
  <2>2. Temp(u)' = Temp(u) /\ Temp(u) \in Temps
    BY <2>1, TempNames DEF Armed, Temp, WholeInv
  <2>3. dir'[Temp(u)] = dir[Temp(u)]
    BY <1>3, <2>2, TempsAreLocal DEF Temp, Temps
  <2>4. text'[dir[Temp(u)]] = text[dir[Temp(u)]]
    BY <1>3, <2>1, OthersKeepTemp DEF Armed
  <2>5. QED
    BY <1>2, <2>1, <2>2, <2>3, <2>4
<1>4. CASE Editor
  <2>1. pc' = pc /\ source' = source /\ target' = target /\ nonce' = nonce
    BY <1>4 DEF Editor, names
  <2>2. Temp(u)' = Temp(u) /\ Temp(u) \in Temps
    BY <2>1, TempNames DEF Armed, Temp, WholeInv
  <2>3. dir'[Temp(u)] = dir[Temp(u)]
    BY <1>4, <2>2, EditorsKeepTemps
  <2>4. text'[dir[Temp(u)]] = text[dir[Temp(u)]]
    BY <1>4, <2>1, OthersKeepTemp DEF Armed
  <2>5. QED
    BY <1>2, <2>1, <2>2, <2>3, <2>4
<1>5. CASE UNCHANGED vars
  BY <1>2, <1>5 DEF vars, files, names, Temp
<1>6. CASE FileStep(u) \/ OpenTemp(u) \/ RejectAndCleanUp(u) \/ Rename(u)
  <2>1. FileStep(u) => pc'[u] \notin {"kind", "content", "rename"}
    BY <1>1, QuietMoves DEF Armed
  <2>2. pc'[u] \notin {"kind", "content", "rename"}
    BY <1>1, <1>6, <2>1 DEF OpenTemp, RejectAndCleanUp, Rename, Types, At, GoTo, Reject, Settle,
       report, names
  <2>3. QED
    BY <2>2
<1>7. CASE WriteTemp(u)
  <2>1. /\ text' = [text EXCEPT ![dir[Temp(u)]] = Projected(u)]
        /\ UNCHANGED <<dir, nonce, source, target>>
    BY <1>7 DEF WriteTemp, names
  <2>2. dir[Temp(u)] \in Nodes
    BY <1>7, TempNames DEF Armed, WholeInv, WriteTemp, At
  <2>3. QED
    BY <1>1, <2>1, <2>2 DEF Types, Temp, Projected
<1>8. CASE (CheckKind(u) \/ CheckContent(u)) /\ ~RejectAndCleanUp(u)
  BY <1>8 DEF CheckKind, CheckContent, files, names, Temp, At, PublishInv, Prepared
<1>9. ASSUME NEW t \in Tools, Move(t)
      PROVE  text'[dir'[Temp(u)']] = source'[u][target'[u]] \ {u}
  BY <1>3, <1>6, <1>7, <1>8, <1>9, FailsLate DEF Move, Step, FileStep
<1>10. QED
  BY <1>4, <1>5, <1>9 DEF Next, Move

LEMMA PublishInductive ==
    ASSUME WholeInv, WholeInv', PublishInv, [Next]_vars
    PROVE  PublishInv'
BY PrivateStep, PreparedStep DEF PublishInv

(* A name shows the same as long as it leads to the same inode, through the  *)
(* same link, and the inode keeps its text.                                  *)
LEMMA ShowsKept ==
    ASSUME WholeInv, NEW name \in Paths \cup Links,
           dir'[name] = dir[name], \A l \in Links : dir'[l] = dir[l],
           \A other \in Paths \cup Links : dir[other] \in Nodes => text'[dir[other]] = text[dir[other]]
    PROVE  Shows(name)' = Shows(name)
BY DEF Shows, Readable, Read, Resolve, WholeInv

(* The step of ToolsOnlyPublishVerified. *)
PublishesVerified ==
    edits' = edits =>
        \A name \in Paths \cup Links : Shows(name)' # Shows(name) =>
            \E t \in Tools :
                /\ At(t, "rename") /\ name = target[t] /\ Verifies(t)
                /\ wrote'[t] = wrote[t] \cup {<<name, kind[t]>>}
                /\ RegularFile(name)'
                /\ Read(name)' = source[t][name] \ {t}

LEMMA OnlyRenamesShow ==
    ASSUME WholeInv, FixedInv, PublishInv, Next
    PROVE  PublishesVerified
<1> SUFFICES ASSUME edits' = edits, NEW name \in Paths \cup Links, Shows(name)' # Shows(name)
             PROVE  \E t \in Tools :
                      /\ At(t, "rename") /\ name = target[t] /\ Verifies(t)
                      /\ wrote'[t] = wrote[t] \cup {<<name, kind[t]>>}
                      /\ RegularFile(name)'
                      /\ Read(name)' = source[t][name] \ {t}
  BY DEF PublishesVerified
<1>1. Types
  BY DEF WholeInv, TypeOK
<1>2. ~Editor
  BY <1>1 DEF Editor, Types
<1>3. PICK t \in Tools : Move(t)
  BY <1>2 DEF Next, Move
<1>4. \A other \in Paths \cup Links : other \in Names /\ other \notin Temps
  BY NameSorts
<1>5. ASSUME NEW other \in Paths \cup Links, NEW temp \in Temps, dir[temp] \in Nodes
      PROVE  dir[other] # dir[temp]
  BY <1>4, <1>5 DEF PublishInv, Private
<1>6. ~(UNCHANGED <<dir, text>>)
  BY ShowsKept
<1>7. ~OpenTemp(t)
  <2>1. SUFFICES ASSUME OpenTemp(t) PROVE FALSE
    OBVIOUS
  <2>2. PICK n \in Free : /\ dir' = [dir EXCEPT ![<<t, nonce[t] + 1>>] = n]
                          /\ text' = [text EXCEPT ![n] = {}]
    BY <1>6, <2>1 DEF OpenTemp, files
  <2>3. <<t, nonce[t] + 1>> \in Temps
    BY <1>1, <2>1, NameAssumption DEF OpenTemp, Types, Temps
  <2>4. \A other \in Paths \cup Links : dir'[other] = dir[other] /\ dir[other] # n
    BY <1>1, <1>4, <2>2, <2>3 DEF Types, Free
  <2>5. \A other \in Paths \cup Links : dir[other] \in Nodes => text'[dir[other]] = text[dir[other]]
    BY <1>1, <2>2, <2>4 DEF Types
  <2>6. QED
    BY <2>4, <2>5, ShowsKept
<1>8. /\ Armed(t)
      /\ WriteTemp(t) \/ CheckKind(t) \/ CheckContent(t) \/ Rename(t) \/ RejectAndCleanUp(t)
  <2>1. ~FileStep(t)
    BY <1>6, QuietFiles
  <2>2. QED
    BY <1>3, <1>7, <2>1, FailsLate DEF Move, Step, FileStep, WriteTemp, CheckKind, CheckContent,
       Rename, At, Armed
<1>9. Temp(t) \in Temps /\ Temp(t) \in Names /\ dir[Temp(t)] \in Nodes
  BY <1>8, TempNames DEF Armed, WholeInv
<1>10. ~RejectAndCleanUp(t)
  <2>1. SUFFICES ASSUME RejectAndCleanUp(t) PROVE FALSE
    OBVIOUS
  <2>2. \A other \in Paths \cup Links : dir'[other] = dir[other]
    BY <1>1, <1>4, <1>9, <2>1 DEF RejectAndCleanUp, Types
  <2>3. QED
    BY <2>1, <2>2, ShowsKept DEF RejectAndCleanUp
<1>11. ~WriteTemp(t)
  <2>1. SUFFICES ASSUME WriteTemp(t) PROVE FALSE
    OBVIOUS
  <2>2. dir' = dir /\ text' = [text EXCEPT ![dir[Temp(t)]] = Projected(t)]
    BY <2>1 DEF WriteTemp
  <2>3. \A other \in Paths \cup Links : dir[other] \in Nodes => text'[dir[other]] = text[dir[other]]
    BY <1>1, <1>5, <1>9, <2>2 DEF Types
  <2>4. QED
    BY <2>2, <2>3, ShowsKept
<1>12. /\ pc[t] = "rename" /\ text' = text
       /\ dir' = [dir EXCEPT ![target[t]] = dir[Temp(t)], ![Temp(t)] = Absent]
       /\ wrote' = [wrote EXCEPT ![t] = @ \cup {<<target[t], kind[t]>>}]
  BY <1>6, <1>8, <1>10, <1>11 DEF CheckKind, CheckContent, Rename, At, files
<1>13. target[t] \in Paths /\ target[t] \notin Links /\ target[t] # Temp(t)
  BY <1>1, <1>9, NameSorts DEF Types
<1>14. \A other \in Paths \cup Links :
          dir'[other] = IF other = target[t] THEN dir[Temp(t)] ELSE dir[other]
  BY <1>1, <1>4, <1>9, <1>12, <1>13 DEF Types
<1>15. name = target[t]
  BY <1>12, <1>13, <1>14, ShowsKept
<1>16. dir'[name] = dir[Temp(t)] /\ dir[Temp(t)] \notin Links
  BY <1>9, <1>14, <1>15, NameSorts
<1>17. RegularFile(name)' /\ Read(name)' = text[dir[Temp(t)]]
  BY <1>9, <1>12, <1>16 DEF RegularFile, Read, Resolve
<1>18. text[dir[Temp(t)]] = source[t][name] \ {t}
  BY <1>12, <1>15 DEF PublishInv, Prepared
<1>19. Verifies(t)
  BY <1>12 DEF FixedInv, RunInv, Writing
<1>20. wrote'[t] = wrote[t] \cup {<<name, kind[t]>>}
  BY <1>1, <1>12, <1>15 DEF Types
<1>21. QED
  BY <1>12, <1>15, <1>17, <1>18, <1>19, <1>20 DEF At

LEMMA FixedInvariant == Spec => []FixedInv
<1>1. WholeInv /\ FixedInv /\ [Next]_vars => FixedInv' \/ ~WholeInv'
  BY FixedInductive
<1>2. QED
  BY <1>1, FixedInit, WholeInvariant, PTL DEF Spec

LEMMA PublishInvariant == Spec => []PublishInv
<1>1. WholeInv /\ PublishInv /\ [Next]_vars => PublishInv' \/ ~WholeInv'
  BY PublishInductive
<1>2. QED
  BY <1>1, PublishInit, WholeInvariant, PTL DEF Spec

(* What a tool changes for other readers is the path it is rewriting, and    *)
(* what it puts there is the verified rewrite of the text it planned from.   *)
(* No hard link and no target of a symbolic link changes, whatever editors   *)
(* and other tools do to the directory in the meantime.                      *)
THEOREM OnlyVerifiedPublished == Spec => ToolsOnlyPublishVerified
<1>1. WholeInv /\ FixedInv /\ PublishInv /\ [Next]_vars => [PublishesVerified]_vars
  BY OnlyRenamesShow
<1>2. QED
  BY <1>1, WholeInvariant, FixedInvariant, PublishInvariant, PTL
     DEF Spec, ToolsOnlyPublishVerified, PublishesVerified

-----------------------------------------------------------------------------
(* A tool in the window either saw its target as the plan wants it, as far   *)
(* as it has checked, or somebody changed the target since.                  *)
SeenGood(t) ==
    pc[t] \in {"content", "rename"} =>
        raced[t] \/ (RegularFile(target[t]) /\ (pc[t] = "rename" => MatchesPlan(t)))

WindowInv == \A t \in Tools : SeenGood(t)

LEMMA WindowInit == Init => WindowInv
BY DEF Init, WindowInv, SeenGood

(* What a name shows tells its kind and its text. *)
LEMMA ShowsTells ==
    ASSUME WholeInv, WholeInv', NEW t \in Tools, target'[t] = target[t], source'[t] = source[t],
           Shows(target[t])' = Shows(target[t])
    PROVE  /\ RegularFile(target[t]) => RegularFile(target[t])'
           /\ RegularFile(target[t]) /\ MatchesPlan(t) => MatchesPlan(t)'
<1>1. dir'[target'[t]] = dir[target[t]]
  BY DEF Shows
<1>2. RegularFile(target[t]) => RegularFile(target[t])'
  BY <1>1 DEF RegularFile
<1>3. ASSUME RegularFile(target[t]), MatchesPlan(t) PROVE MatchesPlan(t)'
  <2>1. dir[target[t]] \in Nodes /\ dir[target[t]] \notin Links
    BY <1>3, NameSorts DEF RegularFile
  <2>2. /\ Readable(target[t]) /\ Readable(target[t])'
        /\ Read(target[t]) = text[dir[target[t]]]
        /\ Read(target[t])' = text'[dir'[target'[t]]]
    BY <1>1, <2>1 DEF Readable, Read, Resolve
  <2>3. Read(target[t])' = Read(target[t])
    BY <2>2 DEF Shows
  <2>4. QED
    BY <1>3, <2>2, <2>3 DEF MatchesPlan
<1>4. QED
  BY <1>2, <1>3

(* A tool that waits in the window notices what happens to its target. *)
LEMMA WaitingSees ==
    ASSUME WholeInv, WholeInv', NEW t \in Tools, SeenGood(t), Race,
           pc'[t] = pc[t], target'[t] = target[t], source'[t] = source[t]
    PROVE  SeenGood(t)'
<1> SUFFICES ASSUME pc'[t] \in {"content", "rename"}, ~raced'[t]
             PROVE  RegularFile(target[t])' /\ (pc'[t] = "rename" => MatchesPlan(t)')
  BY DEF SeenGood
<1>1. ~raced[t] /\ Shows(target[t])' = Shows(target[t])
  BY DEF Race, InWindow
<1>2. QED
  BY <1>1, ShowsTells DEF SeenGood

(* A tool that moves within the window looks at its target. *)
LEMMA MovingSees ==
    ASSUME WholeInv, WholeInv', NEW t \in Tools, SeenGood(t), Race,
           Move(t)
    PROVE  SeenGood(t)'
<1>1. Types /\ Types'
  BY DEF WholeInv, TypeOK
<1>2. CASE FileStep(t)
  <2>1. pc'[t] \notin {"content", "rename"}
    BY <1>1, <1>2, QuietMoves DEF Armed
  <2>2. QED
    BY <2>1 DEF SeenGood
<1>3. CASE OpenTemp(t) \/ WriteTemp(t) \/ RejectAndCleanUp(t) \/ Rename(t)
  <2>1. pc'[t] \notin {"content", "rename"}
    BY <1>1, <1>3 DEF OpenTemp, WriteTemp, RejectAndCleanUp, Rename, Types, At, GoTo, Reject,
       Settle, report, names
  <2>2. QED
    BY <2>1 DEF SeenGood
<1>4. CASE CheckKind(t) /\ ~RejectAndCleanUp(t)
  <2>1. /\ pc'[t] = "content" /\ RegularFile(target[t])
        /\ UNCHANGED <<files, target>>
    BY <1>1, <1>4 DEF CheckKind, GoTo, Types
  <2>2. QED
    BY <2>1 DEF SeenGood, RegularFile, files
<1>5. CASE CheckContent(t) /\ ~RejectAndCleanUp(t)
  <2>1. /\ pc[t] = "content" /\ pc'[t] = "rename" /\ MatchesPlan(t)
        /\ UNCHANGED <<files, target, source>>
    BY <1>1, <1>5 DEF CheckContent, GoTo, Types, At
  <2>2. raced[t] => raced'[t]
    BY <2>1 DEF Race, InWindow
  <2>3. MatchesPlan(t)' /\ (RegularFile(target[t]) => RegularFile(target[t])')
    BY <2>1 DEF MatchesPlan, Readable, Read, Resolve, RegularFile, files
  <2>4. QED
    BY <2>1, <2>2, <2>3 DEF SeenGood
<1>6. QED
  BY <1>2, <1>3, <1>4, <1>5, FailsLate DEF Move, Step, FileStep

LEMMA WindowInductive ==
    ASSUME WholeInv, WholeInv', WindowInv, [Next]_vars
    PROVE  WindowInv'
<1>1. ASSUME NEW t \in Tools, Move(t), Race, NEW u \in Tools
      PROVE  SeenGood(u)'
  <2>1. CASE u = t
    BY <1>1, <2>1, MovingSees DEF WindowInv
  <2>2. CASE u # t
    <3>1. pc'[u] = pc[u] /\ target'[u] = target[u] /\ source'[u] = source[u]
      BY <1>1, <2>2, StepsAreLocal DEF WholeInv, TypeOK, Untouched
    <3>2. QED
      BY <1>1, <3>1, WaitingSees DEF WindowInv
  <2>3. QED
    BY <2>1, <2>2
<1>2. ASSUME Editor, Race, NEW u \in Tools PROVE SeenGood(u)'
  <2>1. pc' = pc /\ target' = target /\ source' = source
    BY <1>2 DEF Editor
  <2>2. QED
    BY <1>2, <2>1, WaitingSees DEF WindowInv
<1>3. CASE UNCHANGED vars
  BY <1>3 DEF vars, files, WindowInv, SeenGood, RegularFile, MatchesPlan, Readable, Read, Resolve
<1>4. QED
  BY <1>1, <1>2, <1>3 DEF Next, Move, WindowInv

(* ensure_regular_source_matches closes the race up to its own last check:   *)
(* work of others that a rename overwrites arrived after the kind or the     *)
(* bytes of the path were looked at for the last time.                       *)
THEOREM OnlyLateWorkOverwritten == Spec => OverwritesOnlyInWindow
<1> DEFINE Overwrite == \A t \in Tools : At(t, "rename") /\ wrote'[t] # wrote[t] =>
                            raced[t] \/ (RegularFile(target[t]) /\ MatchesPlan(t))
<1>1. WindowInv => Overwrite
  BY DEF WindowInv, SeenGood, At
<1>2. WholeInv /\ WindowInv /\ [Next]_vars => WindowInv' \/ ~WholeInv'
  BY WindowInductive
<1>3. WindowInv /\ [Next]_vars => [Overwrite]_vars
  BY <1>1
<1>4. QED
  BY <1>2, <1>3, WindowInit, WholeInvariant, PTL DEF Spec, OverwritesOnlyInWindow
=============================================================================
