------------------------ MODULE DataflowSolverProofs ------------------------
(* The worklist solver stops in a solution, and in the extreme one, for      *)
(* every graph, direction, meet, boundary and family of monotone transfers.  *)
EXTENDS DataflowSolver, TLAPS

(* The queue after its head is taken: nothing else leaves it, nothing enters. *)
LEMMA QueueTail ==
    ASSUME NEW q \in Seq(Blocks), q # <<>>
    PROVE  /\ Head(q) \in Blocks /\ Tail(q) \in Seq(Blocks)
           /\ \A b : (\E i \in 1 .. Len(q) : q[i] = b) /\ b # Head(q)
                     => \E i \in 1 .. Len(Tail(q)) : Tail(q)[i] = b
           /\ \A b : (\E i \in 1 .. Len(Tail(q)) : Tail(q)[i] = b)
                     => \E i \in 1 .. Len(q) : q[i] = b
           /\ \E i \in 1 .. Len(q) : q[i] = Head(q)
<1>1. Len(q) \in Nat /\ Len(q) >= 1 /\ Len(Tail(q)) = Len(q) - 1 /\ Head(q) = q[1]
  OBVIOUS
<1>2. \A i \in 1 .. Len(Tail(q)) : Tail(q)[i] = q[i + 1]
  OBVIOUS
<1>3. ASSUME NEW b, NEW i \in 1 .. Len(q), q[i] = b, b # Head(q)
      PROVE  \E j \in 1 .. Len(Tail(q)) : Tail(q)[j] = b
  <2>1. i # 1
    BY <1>1, <1>3
  <2>2. i - 1 \in 1 .. Len(Tail(q)) /\ (i - 1) + 1 = i
    BY <1>1, <2>1
  <2>3. QED
    BY <1>2, <1>3, <2>2
<1>4. ASSUME NEW b, NEW i \in 1 .. Len(Tail(q)), Tail(q)[i] = b
      PROVE  \E j \in 1 .. Len(q) : q[j] = b
  <2>1. i + 1 \in 1 .. Len(q)
    BY <1>1
  <2>2. QED
    BY <1>2, <1>4, <2>1
<1>5. Head(q) \in Blocks /\ Tail(q) \in Seq(Blocks)
  OBVIOUS
<1>6. \E i \in 1 .. Len(q) : q[i] = Head(q)
  BY <1>1
<1>7. QED
  BY <1>3, <1>4, <1>5, <1>6

(* The queue after a block is appended. *)
LEMMA QueueAppend ==
    ASSUME NEW q \in Seq(Blocks), NEW b \in Blocks
    PROVE  /\ Append(q, b) \in Seq(Blocks)
           /\ \A c : (\E i \in 1 .. Len(Append(q, b)) : Append(q, b)[i] = c)
                     <=> c = b \/ \E i \in 1 .. Len(q) : q[i] = c
<1>1. /\ Len(q) \in Nat /\ Len(Append(q, b)) = Len(q) + 1
      /\ \A i \in 1 .. Len(q) : Append(q, b)[i] = q[i]
      /\ Append(q, b)[Len(q) + 1] = b
      /\ Append(q, b) \in Seq(Blocks)
  OBVIOUS
<1>2. \A i : i \in 1 .. Len(Append(q, b)) <=> i \in 1 .. Len(q) \/ i = Len(q) + 1
  BY <1>1
<1>3. QED
  BY <1>1, <1>2

(* Root, Readers and Spread are blocks. *)
LEMMA GraphType ==
    ASSUME TypeOK
    PROVE  /\ Root \in Blocks
           /\ \A b : Readers(b) \subseteq Blocks /\ Spread(b) \subseteq Blocks
BY GraphAssumption DEF Root, Readers, Spread, TypeOK

(* A transfer maps facts to facts. *)
LEMMA TransferType ==
    ASSUME TypeOK, NEW b \in Blocks, NEW f \in SUBSET Facts
    PROVE  transfer[b][f] \in SUBSET Facts
<1>1. transfer \in [Blocks -> [SUBSET Facts -> SUBSET Facts]]
  BY GraphAssumption DEF TypeOK
<1>2. QED
  BY <1>1

(* The side of a visit is a fact. *)
LEMMA SideType ==
    ASSUME TypeOK, NEW b \in Blocks
    PROVE  SideOf(b) \in SUBSET Facts
<1>1. ASSUME NEW N, N \subseteq Blocks
      PROVE  Meet({result[x] : x \in N}) \subseteq Facts
  BY <1>1 DEF Meet, TypeOK
<1>2. {x \in Readers(b) : visited[x]} \subseteq Blocks
  BY GraphType
<1>3. MeetNeighbours(b) \subseteq Facts
  BY <1>1, <1>2 DEF MeetNeighbours, TypeOK
<1>4. QED
  BY <1>3 DEF SideOf, TypeOK

(* Every step keeps the types, and no block is queued twice. *)
LEMMA TypeInductive ==
    ASSUME TypeOK, [Next]_vars
    PROVE  TypeOK'
<1>1. ASSUME Visit
      PROVE  TypeOK'
  <2> DEFINE b == Head(worklist)
             fact == SideOf(b)
             computed == transfer[b][fact]
  <2>1. worklist \in Seq(Blocks) /\ worklist # <<>>
    BY <1>1 DEF Visit, TypeOK
  <2>2. b \in Blocks /\ Tail(worklist) \in Seq(Blocks)
    BY <2>1, QueueTail
  <2>3. fact \in SUBSET Facts
    BY <2>2, SideType
  <2>4. computed \in SUBSET Facts
    BY <2>2, <2>3, TransferType
  <2>5. /\ worklist' = Tail(worklist)
        /\ side' = [side EXCEPT ![b] = fact]
        /\ result' = [result EXCEPT ![b] = computed]
        /\ visited' = [visited EXCEPT ![b] = TRUE]
        /\ spreading' = IF MustSpread(b, computed) THEN Spread(b) ELSE {}
        /\ UNCHANGED arguments
    BY <1>1 DEF Visit
  <2> HIDE DEF b, fact, computed
  <2>6. spreading' \in SUBSET Blocks
    BY <2>5, GraphType
  <2>7. \A i, j \in 1 .. Len(worklist') : worklist'[i] = worklist'[j] => i = j
    <3>1. Len(worklist) \in Nat /\ Len(worklist') = Len(worklist) - 1
      BY <2>1, <2>5
    <3>2. \A i \in 1 .. Len(worklist') : worklist'[i] = worklist[i + 1] /\ i + 1 \in 1 .. Len(worklist)
      BY <2>1, <2>5, <3>1
    <3>3. QED
      BY <3>1, <3>2 DEF TypeOK
  <2>8. QED
    BY <2>2, <2>3, <2>4, <2>5, <2>6, <2>7 DEF TypeOK, arguments
<1>2. ASSUME NEW next \in Blocks, Enqueue(next)
      PROVE  TypeOK'
  <2>1. worklist \in Seq(Blocks)
    BY DEF TypeOK
  <2>2. worklist' \in Seq(Blocks)
    BY <1>2, <2>1, QueueAppend DEF Enqueue
  <2>3. \A i, j \in 1 .. Len(worklist') : worklist'[i] = worklist'[j] => i = j
    <3>1. CASE Queued(next)
      BY <1>2, <3>1 DEF Enqueue, TypeOK
    <3>2. CASE ~Queued(next)
      <4>1. worklist' = Append(worklist, next)
        BY <1>2, <3>2 DEF Enqueue
      <4>2. /\ Len(worklist) \in Nat /\ Len(worklist') = Len(worklist) + 1
            /\ \A i \in 1 .. Len(worklist) : worklist'[i] = worklist[i]
            /\ worklist'[Len(worklist) + 1] = next
        BY <2>1, <4>1
      <4>3. \A i \in 1 .. Len(worklist) : worklist[i] # next
        BY <3>2 DEF Queued
      <4>4. \A i \in 1 .. Len(worklist') : i \in 1 .. Len(worklist) \/ i = Len(worklist) + 1
        BY <4>2
      <4>5. QED
        BY <4>2, <4>3, <4>4 DEF TypeOK
    <3>3. QED
      BY <3>1, <3>2
  <2>4. QED
    BY <1>2, <2>2, <2>3 DEF Enqueue, TypeOK, arguments
<1>3. ASSUME UNCHANGED vars
      PROVE  TypeOK'
  BY <1>3 DEF TypeOK, vars, arguments
<1>4. QED
  BY <1>1, <1>2, <1>3 DEF Next

(* The state of a call is well typed and no block is queued twice.           *)
THEOREM TypeCorrect == Spec => []TypeOK
<1>1. Init => TypeOK
  <2> SUFFICES ASSUME Init PROVE TypeOK
    OBVIOUS
  <2>1. Root \in Blocks
    BY GraphAssumption DEF Init, Root
  <2>2. worklist \in Seq(Blocks) /\ Len(worklist) = 1
    BY <2>1 DEF Init
  <2>3. \A i, j \in 1 .. Len(worklist) : i = j
    BY <2>2
  <2>4. QED
    BY <2>2, <2>3 DEF Init, TypeOK, Default
<1>2. TypeOK /\ [Next]_vars => TypeOK'
  BY TypeInductive
<1>3. QED
  BY <1>1, <1>2, PTL DEF Spec

-----------------------------------------------------------------------------
(* Why the solver is right: a visited block whose side is not the meet of    *)
(* what its neighbours hand on now is on its way to another visit, and every *)
(* block that a visited one flows to was visited or is on its way.           *)
Waiting(b) == Queued(b) \/ b \in spreading

Settled(b) == visited[b] /\ side[b] = SideOf(b)

WorkInv ==
    /\ TypeOK
    /\ \A b \in Blocks : b = Root => visited[b] \/ Waiting(b)
    /\ \A b \in Blocks : visited[b] => Waiting(b) \/ Settled(b)
    /\ \A b \in Blocks : visited[b] => result[b] = transfer[b][side[b]]
    /\ \A b \in Blocks : ~visited[b] => side[b] = Default /\ result[b] = Default
    /\ \A b \in Blocks : visited[b] => \A x \in Spread(b) : visited[x] \/ Waiting(x)
    /\ \A b \in Blocks : (visited[b] \/ Waiting(b)) /\ b # Root =>
          \E x \in Readers(b) : visited[x]
    /\ \A b \in Blocks : visited[b] => b \in Reached

(* The arguments do not change, so neither does what is built from them. *)
LEMMA ArgumentsFixed ==
    ASSUME UNCHANGED arguments
    PROVE  /\ Root' = Root
           /\ \A b : Readers(b)' = Readers(b) /\ Spread(b)' = Spread(b)
           /\ \A facts : Meet(facts)' = Meet(facts)
           /\ Reached' = Reached
<1>1. Root' = Root
  BY DEF Root, arguments
<1>2. \A b : Readers(b)' = Readers(b)
  BY DEF Readers, arguments
<1>3. \A b : Spread(b)' = Spread(b)
  BY <1>2 DEF Spread
<1>4. \A facts : Meet(facts)' = Meet(facts)
  BY DEF Meet, arguments
<1>5. Reached' = Reached
  BY <1>1, <1>3 DEF Reached, Closed
<1>6. QED
  BY <1>1, <1>2, <1>3, <1>4, <1>5

(* A block reads what it is spread by. *)
LEMMA SpreadReads ==
    ASSUME TypeOK, NEW b \in Blocks, NEW c \in Blocks
    PROVE  c \in Spread(b) <=> b \in Readers(c)
BY DEF Spread

(* Flow from a reached block reaches its neighbours. *)
LEMMA ReachedClosed ==
    ASSUME TypeOK
    PROVE  /\ Root \in Reached
           /\ \A b \in Reached : Spread(b) \subseteq Reached
BY GraphType DEF Reached, Closed

(* A visit of b: the one step that changes facts. *)
LEMMA VisitStep ==
    ASSUME TypeOK, Visit
    PROVE  \E b \in Blocks :
              /\ b = Head(worklist) /\ Queued(b) /\ spreading = {}
              /\ \A c : Queued(c) /\ c # b => Queued(c)'
              /\ \A c : Queued(c)' => Queued(c)
              /\ side' = [side EXCEPT ![b] = SideOf(b)]
              /\ result' = [result EXCEPT ![b] = transfer[b][SideOf(b)]]
              /\ visited' = [visited EXCEPT ![b] = TRUE]
              /\ spreading' = IF result'[b] # result[b] \/ ~visited[b]
                              THEN Spread(b) ELSE {}
              /\ UNCHANGED arguments
<1> DEFINE b == Head(worklist)
<1>1. worklist \in Seq(Blocks) /\ worklist # <<>>
  BY DEF Visit, TypeOK
<1>2. b \in Blocks
  BY <1>1, QueueTail
<1>3. worklist' = Tail(worklist)
  BY DEF Visit
<1>4. /\ Queued(b)
      /\ \A c : Queued(c) /\ c # b => Queued(c)'
      /\ \A c : Queued(c)' => Queued(c)
  BY <1>1, <1>3, QueueTail DEF Queued
<1>5. /\ spreading = {}
      /\ side' = [side EXCEPT ![b] = SideOf(b)]
      /\ result' = [result EXCEPT ![b] = transfer[b][SideOf(b)]]
      /\ visited' = [visited EXCEPT ![b] = TRUE]
      /\ spreading' = IF MustSpread(b, transfer[b][SideOf(b)]) THEN Spread(b) ELSE {}
      /\ UNCHANGED arguments
  BY DEF Visit
<1>6. result'[b] = transfer[b][SideOf(b)]
  BY <1>2, <1>5 DEF TypeOK
<1> HIDE DEF b
<1>7. QED
  BY <1>2, <1>4, <1>5, <1>6 DEF MustSpread, b

(* A side that was the meet of its neighbours still is when none of them was *)
(* visited for the first time or hands on another fact.                      *)
LEMMA SideKept ==
    ASSUME TypeOK, NEW c \in Blocks, UNCHANGED arguments,
           \A x \in Readers(c) : visited'[x] = visited[x] /\ result'[x] = result[x],
           side'[c] = SideOf(c)
    PROVE  side'[c] = SideOf(c)'
<1> DEFINE N == {x \in Readers(c) : visited[x]}
<1>3. N' = N
  BY ArgumentsFixed
<1>4. {result'[x] : x \in N} = {result[x] : x \in N}
  OBVIOUS
<1>5. Meet({result[x] : x \in N})' = Meet({result[x] : x \in N})
  <2>1. {result[x] : x \in N}' = {result[x] : x \in N}
    BY <1>3, <1>4
  <2>2. QED
    BY <2>1 DEF Meet, arguments
<1>7. Root' = Root /\ boundary' = boundary
  BY ArgumentsFixed DEF arguments
<1> HIDE DEF N
<1>8. CASE c = Root
  BY <1>7, <1>8 DEF SideOf
<1>9. CASE c # Root /\ N = {}
  <2>1. SideOf(c)' = side'[c]
    BY <1>3, <1>7, <1>9 DEF SideOf, MeetNeighbours, N
  <2>2. QED
    BY <2>1
<1>10. CASE c # Root /\ N # {}
  <2>1. SideOf(c) = Meet({result[x] : x \in N})
    BY <1>10 DEF SideOf, MeetNeighbours, N
  <2>2. SideOf(c)' = Meet({result[x] : x \in N})'
    BY <1>3, <1>7, <1>10 DEF SideOf, MeetNeighbours, N
  <2>3. QED
    BY <1>5, <2>1, <2>2
<1>11. QED
  BY <1>8, <1>9, <1>10

(* A visit keeps the invariant. *)
LEMMA VisitKeepsWork ==
    ASSUME WorkInv, Visit
    PROVE  WorkInv'
<1>1. TypeOK /\ TypeOK'
  BY TypeInductive DEF WorkInv, Next
<1>2. PICK b \in Blocks :
         /\ b = Head(worklist) /\ Queued(b) /\ spreading = {}
         /\ \A c : Queued(c) /\ c # b => Queued(c)'
         /\ \A c : Queued(c)' => Queued(c)
         /\ side' = [side EXCEPT ![b] = SideOf(b)]
         /\ result' = [result EXCEPT ![b] = transfer[b][SideOf(b)]]
         /\ visited' = [visited EXCEPT ![b] = TRUE]
         /\ spreading' = IF result'[b] # result[b] \/ ~visited[b] THEN Spread(b) ELSE {}
         /\ UNCHANGED arguments
  BY <1>1, VisitStep
<1>3. /\ Root' = Root /\ Reached' = Reached /\ transfer' = transfer
      /\ \A c : Readers(c)' = Readers(c) /\ Spread(c)' = Spread(c)
  BY <1>2, ArgumentsFixed DEF arguments
<1>4. /\ \A c \in Blocks : visited'[c] = (c = b \/ visited[c])
      /\ \A c \in Blocks : c # b => side'[c] = side[c] /\ result'[c] = result[c]
      /\ side'[b] = SideOf(b) /\ result'[b] = transfer[b][SideOf(b)]
  BY <1>1, <1>2 DEF TypeOK
<1>5. \A c \in Blocks : Waiting(c) => c = b \/ Waiting(c)'
  BY <1>2 DEF Waiting
<1>6. Root \in Blocks
  BY <1>1, GraphType
<1>7. \A c \in Blocks : c = Root => visited'[c] \/ Waiting(c)'
  BY <1>4, <1>5 DEF WorkInv
<1>8. ASSUME NEW c \in Blocks, visited'[c]
      PROVE  Waiting(c)' \/ Settled(c)'
  <2>1. CASE c # b /\ Waiting(c)
    BY <1>5, <2>1
  <2>2. CASE c = b \/ Settled(c)
    <3>1. CASE b \in Readers(c) /\ (result'[b] # result[b] \/ ~visited[b])
      <4>1. c \in Spread(b)
        BY <1>1, <3>1, SpreadReads
      <4>2. QED
        BY <1>2, <3>1, <4>1 DEF Waiting
    <3>2. CASE b \notin Readers(c) \/ (result'[b] = result[b] /\ visited[b])
      <4>1. side[c] = SideOf(c) \/ c = b
        BY <2>2 DEF Settled
      <4>2. side'[c] = SideOf(c)'
        <5>1. side'[c] = SideOf(c)
          BY <1>4, <4>1
        <5>2. Readers(c) \subseteq Blocks
          BY <1>1, GraphType
        <5>3. \A x \in Readers(c) : visited'[x] = visited[x] /\ result'[x] = result[x]
          BY <1>1, <1>4, <3>2, <5>2 DEF TypeOK
        <5>4. QED
          BY <1>1, <1>2, <5>1, <5>3, SideKept
      <4>3. QED
        BY <1>8, <4>2 DEF Settled
    <3>3. QED
      BY <3>1, <3>2
  <2>3. c = b \/ visited[c]
    BY <1>4, <1>8
  <2>4. QED
    BY <2>1, <2>2, <2>3 DEF WorkInv
<1>9. \A c \in Blocks : visited'[c] => result'[c] = transfer'[c][side'[c]]
  BY <1>3, <1>4 DEF WorkInv
<1>10. \A c \in Blocks : ~visited'[c] => side'[c] = Default /\ result'[c] = Default
  BY <1>4 DEF WorkInv
<1>11. ASSUME NEW c \in Blocks, visited'[c], NEW x \in Spread(c)
       PROVE  visited'[x] \/ Waiting(x)'
  <2>1. x \in Blocks
    BY <1>1, GraphType
  <2>2. CASE c = b /\ ~visited[b]
    BY <1>2, <2>2 DEF Waiting
  <2>3. CASE visited[c]
    BY <1>4, <1>5, <2>1, <2>3 DEF WorkInv
  <2>4. QED
    BY <1>4, <1>11, <2>2, <2>3
<1>12. ASSUME NEW c \in Blocks, visited'[c] \/ Waiting(c)', c # Root
       PROVE  \E x \in Readers(c) : visited'[x]
  <2>1. CASE visited[c] \/ Waiting(c)
    <3>1. PICK x \in Readers(c) : visited[x]
      BY <1>12, <2>1 DEF WorkInv
    <3>2. x \in Blocks
      BY <1>1, GraphType
    <3>3. QED
      BY <1>4, <3>1, <3>2
  <2>2. CASE ~(visited[c] \/ Waiting(c))
    <3>1. c # b
      BY <1>2, <2>2 DEF Waiting
    <3>2. c \in spreading'
      BY <1>2, <1>4, <1>12, <2>2, <3>1 DEF Waiting
    <3>3. c \in Spread(b)
      BY <1>2, <3>2
    <3>4. b \in Readers(c)
      BY <1>1, <3>3, SpreadReads
    <3>5. QED
      BY <1>4, <3>4
  <2>3. QED
    BY <2>1, <2>2
<1>13. b \in Reached
  <2>1. CASE b = Root
    BY <1>1, <2>1, ReachedClosed
  <2>2. CASE b # Root
    <3>1. PICK x \in Readers(b) : visited[x]
      BY <1>2, <2>2 DEF WorkInv, Waiting
    <3>2. x \in Blocks
      BY <1>1, GraphType
    <3>3. x \in Reached
      BY <3>1, <3>2 DEF WorkInv
    <3>4. b \in Spread(x)
      BY <1>1, <3>1, <3>2, SpreadReads
    <3>5. QED
      BY <1>1, <3>3, <3>4, ReachedClosed
  <2>3. QED
    BY <2>1, <2>2
<1>14. \A c \in Blocks : visited'[c] => c \in Reached
  BY <1>4, <1>13 DEF WorkInv
<1>15. QED
  BY <1>1, <1>3, <1>7, <1>8, <1>9, <1>10, <1>11, <1>12, <1>14 DEF WorkInv

(* Sides do not change while facts and visits do not. *)
LEMMA SideFixed ==
    ASSUME UNCHANGED <<arguments, visited, side, result>>
    PROVE  \A c : SideOf(c)' = SideOf(c)
<1> SUFFICES ASSUME NEW c PROVE SideOf(c)' = SideOf(c)
  OBVIOUS
<1> DEFINE N == {x \in Readers(c) : visited[x]}
           R == {result[x] : x \in N}
<1>1. N' = N
  BY ArgumentsFixed
<1>2. R' = R
  BY <1>1
<1> HIDE DEF N, R
<1>3. Meet(R)' = Meet(R)
  BY <1>2 DEF Meet, arguments
<1>4. Root' = Root /\ boundary' = boundary /\ side' = side
  BY ArgumentsFixed DEF arguments
<1>5. SideOf(c) = IF c = Root THEN boundary ELSE IF N = {} THEN side[c] ELSE Meet(R)
  BY DEF SideOf, MeetNeighbours, N, R
<1>6. SideOf(c)' = IF c = Root' THEN boundary' ELSE IF N' = {} THEN side'[c] ELSE Meet(R)'
  BY DEF SideOf, MeetNeighbours, N, R
<1>7. QED
  BY <1>1, <1>3, <1>4, <1>5, <1>6

(* Taking a neighbour from spreading to the queue keeps the invariant. *)
LEMMA EnqueueKeepsWork ==
    ASSUME WorkInv, NEW next \in Blocks, Enqueue(next)
    PROVE  WorkInv'
<1>1. TypeOK /\ TypeOK'
  BY TypeInductive DEF WorkInv, Next
<1>2. UNCHANGED <<arguments, visited, side, result>>
  BY DEF Enqueue
<1>3. /\ Root' = Root /\ Reached' = Reached /\ transfer' = transfer
      /\ \A c : Readers(c)' = Readers(c) /\ Spread(c)' = Spread(c)
  BY <1>2, ArgumentsFixed DEF arguments
<1>4. \A c : Queued(c)' <=> Queued(c) \/ c = next
  <2>1. worklist \in Seq(Blocks)
    BY <1>1 DEF TypeOK
  <2>2. CASE Queued(next)
    BY <2>2 DEF Enqueue, Queued
  <2>3. CASE ~Queued(next)
    <3>1. worklist' = Append(worklist, next)
      BY <2>3 DEF Enqueue
    <3>2. QED
      BY <2>1, <3>1, QueueAppend DEF Queued
  <2>4. QED
    BY <2>2, <2>3
<1>5. \A c : Waiting(c)' <=> Waiting(c)
  BY <1>4 DEF Waiting, Enqueue
<1>6. \A c : SideOf(c)' = SideOf(c)
  BY <1>2, SideFixed
<1>7. QED
  BY <1>1, <1>2, <1>3, <1>5, <1>6 DEF WorkInv, Settled

(* The invariant of the worklist holds in every reachable state. *)
LEMMA WorkInvariant == Spec => []WorkInv
<1>1. Init => WorkInv
  <2> SUFFICES ASSUME Init PROVE WorkInv
    OBVIOUS
  <2>1. Root \in Blocks
    BY GraphAssumption DEF Init, Root
  <2>2. worklist = <<Root>> /\ Len(worklist) = 1 /\ worklist[1] = Root
    BY DEF Init
  <2>3. \A c : Queued(c) <=> c = Root
    BY <2>2 DEF Queued
  <2>4. TypeOK
    <3>1. worklist \in Seq(Blocks)
      BY <2>1, <2>2
    <3>2. \A i, j \in 1 .. Len(worklist) : i = j
      BY <2>2
    <3>3. QED
      BY <3>1, <3>2 DEF Init, TypeOK, Default
  <2>5. QED
    BY <2>1, <2>3, <2>4 DEF WorkInv, Waiting, Init
<1>2. WorkInv /\ [Next]_vars => WorkInv'
  <2>1. ASSUME WorkInv, UNCHANGED vars
        PROVE  WorkInv'
    <3>1. /\ UNCHANGED arguments
          /\ worklist' = worklist /\ spreading' = spreading /\ visited' = visited
          /\ side' = side /\ result' = result
      BY <2>1 DEF vars
    <3>2. /\ TypeOK'
          /\ \A c : Waiting(c)' <=> Waiting(c)
      BY <2>1, <3>1, TypeInductive DEF Waiting, Queued, WorkInv
    <3>3. /\ Root' = Root /\ Reached' = Reached /\ transfer' = transfer
          /\ \A c : Readers(c)' = Readers(c) /\ Spread(c)' = Spread(c)
      BY <3>1, ArgumentsFixed DEF arguments
    <3>4. \A c : SideOf(c)' = SideOf(c)
      BY <3>1, SideFixed
    <3>5. QED
      BY <2>1, <3>1, <3>2, <3>3, <3>4 DEF WorkInv, Settled
  <2>2. QED
    BY <2>1, VisitKeepsWork, EnqueueKeepsWork DEF Next
<1>3. QED
  BY <1>1, <1>2, PTL DEF Spec

(* When the queue of solve_dataflow runs empty, the facts of the blocks that *)
(* flow from the boundary reaches solve the equations of the framework and   *)
(* all other blocks keep the default.  Monotonicity is not needed for this.  *)
THEOREM SolverSolves == Spec => []SolvedWhenDone
<1>1. WorkInv => SolvedWhenDone
  <2> SUFFICES ASSUME WorkInv, Done PROVE SolvedWhenDone
    BY DEF SolvedWhenDone
  <2>1. TypeOK /\ \A c : ~Waiting(c)
    BY DEF WorkInv, Waiting, Queued, Done, TypeOK
  <2> DEFINE V == {c \in Blocks : visited[c]}
  <2>2. Root \in Blocks /\ \A c : Spread(c) \subseteq Blocks /\ Readers(c) \subseteq Blocks
    BY <2>1, GraphType
  <2>3. Closed(V)
    BY <2>1, <2>2 DEF Closed, WorkInv
  <2>4. \A c \in Reached : visited[c]
    BY <2>3 DEF Reached
  <2>5. \A c \in Blocks : visited[c] <=> c \in Reached
    BY <2>4 DEF WorkInv
  <2>6. ASSUME NEW c \in Reached
        PROVE  /\ side[c] = IF c = Root THEN boundary
                            ELSE Meet({result[x] : x \in Readers(c) \cap Reached})
               /\ result[c] = transfer[c][side[c]]
    <3>1. c \in Blocks /\ visited[c]
      BY <2>4 DEF Reached
    <3>2. side[c] = SideOf(c) /\ result[c] = transfer[c][side[c]]
      BY <2>1, <3>1 DEF WorkInv, Settled
    <3>3. CASE c = Root
      BY <3>2, <3>3 DEF SideOf
    <3>4. CASE c # Root
      <4>1. {x \in Readers(c) : visited[x]} = Readers(c) \cap Reached
        BY <2>2, <2>5
      <4>2. {x \in Readers(c) : visited[x]} # {}
        BY <3>1, <3>4 DEF WorkInv
      <4>3. SideOf(c) = Meet({result[x] : x \in Readers(c) \cap Reached})
        BY <3>4, <4>1, <4>2 DEF SideOf, MeetNeighbours
      <4>4. QED
        BY <3>2, <3>4, <4>3
    <3>5. QED
      BY <3>3, <3>4
  <2>7. \A c \in Blocks \ Reached : side[c] = Default /\ result[c] = Default
    BY <2>5 DEF WorkInv
  <2>8. QED
    BY <2>5, <2>6, <2>7 DEF SolvedWhenDone
<1>2. QED
  BY <1>1, WorkInvariant, PTL

-----------------------------------------------------------------------------
(* The order of the lattice: a solve starts at its bottom and moves up, which *)
(* is from few to many for a may analysis and from many to few for a must    *)
(* analysis.                                                                 *)
Below(f, g) == IF meet = "union" THEN f \subseteq g ELSE g \subseteq f

(* Transfers are monotone in this order. *)
LEMMA TransferBelow ==
    ASSUME TypeOK, NEW b \in Blocks, NEW f \in SUBSET Facts, NEW g \in SUBSET Facts,
           Below(f, g)
    PROVE  Below(transfer[b][f], transfer[b][g])
BY MonotoneAssumption DEF TypeOK, Below

(* So are meets, in the facts and in the set of neighbours that count. *)
LEMMA MeetBelow ==
    ASSUME NEW F, NEW G, F # {}, \A f \in F : \E g \in G : Below(f, g)
    PROVE  Below(Meet(F), Meet(G))
<1>1. CASE meet = "union"
  <2>1. \A f \in F : \E g \in G : f \subseteq g
    BY <1>1 DEF Below
  <2>2. UNION F \subseteq UNION G
    BY <2>1
  <2>3. QED
    BY <1>1, <2>2 DEF Below, Meet
<1>2. CASE meet # "union"
  <2>1. \A f \in F : \E g \in G : g \subseteq f
    BY <1>2 DEF Below
  <2>2. ASSUME NEW e, e \in UNION G, \A g \in G : e \in g
        PROVE  e \in UNION F /\ \A f \in F : e \in f
    BY <2>1, <2>2
  <2>3. {x \in UNION G : \A g \in G : x \in g} \subseteq {x \in UNION F : \A f \in F : x \in f}
    BY <2>2
  <2>4. QED
    BY <1>2, <2>3 DEF Below, Meet
<1>3. QED
  BY <1>1, <1>2

(* What the equations of the framework take for the side of a block. *)
SolutionSide(sol, b) ==
    IF b = Root THEN boundary ELSE Meet({sol[x] : x \in Readers(b) \cap Reached})

(* A visit computes a fact that is still below a given solution. *)
LEMMA VisitBelow ==
    ASSUME WorkInv, NEW sol \in [Blocks -> SUBSET Facts], Solution(sol, Reached),
           \A c \in Blocks : visited[c] => Below(result[c], sol[c]),
           NEW b \in Blocks, Queued(b), b \in Reached
    PROVE  Below(transfer[b][SideOf(b)], sol[b])
<1> DEFINE N == {x \in Readers(b) : visited[x]}
           M == Readers(b) \cap Reached
<1>1. TypeOK
  BY DEF WorkInv
<1>2. Readers(b) \subseteq Blocks
  BY <1>1, GraphType
<1>3. Below(SideOf(b), SolutionSide(sol, b))
  <2>1. CASE b = Root
    BY <2>1 DEF SideOf, SolutionSide, Below
  <2>2. CASE b # Root
    <3>1. N # {}
      BY <2>2 DEF WorkInv, Waiting
    <3>2. N \subseteq M
      BY <1>2 DEF WorkInv
    <3>3. \A x \in N : Below(result[x], sol[x])
      BY <1>2
    <3>4. SideOf(b) = Meet({result[x] : x \in N})
      BY <2>2, <3>1 DEF SideOf, MeetNeighbours
    <3>5. SolutionSide(sol, b) = Meet({sol[x] : x \in M})
      BY <2>2 DEF SolutionSide
    <3> DEFINE F == {result[x] : x \in N}
               G == {sol[x] : x \in M}
    <3>6. F # {}
      BY <3>1
    <3>7. \A f \in F : \E g \in G : Below(f, g)
      BY <3>2, <3>3
    <3>8. SideOf(b) = Meet(F) /\ SolutionSide(sol, b) = Meet(G)
      BY <3>4, <3>5
    <3> HIDE DEF F, G
    <3>9. Below(Meet(F), Meet(G))
      BY <3>6, <3>7, MeetBelow
    <3>10. QED
      BY <3>8, <3>9
  <2>3. QED
    BY <2>1, <2>2
<1>4. SideOf(b) \in SUBSET Facts
  BY <1>1, SideType
<1>5. SolutionSide(sol, b) \in SUBSET Facts
  <2>1. M \subseteq Blocks
    BY <1>2
  <2>2. \A x \in M : sol[x] \subseteq Facts
    BY <2>1
  <2>3. Meet({sol[x] : x \in M}) \subseteq Facts
    BY <2>2 DEF Meet
  <2>4. QED
    BY <1>1, <2>3 DEF SolutionSide, TypeOK
<1>6. sol[b] = transfer[b][SolutionSide(sol, b)]
  BY DEF Solution, SolutionSide
<1> HIDE DEF SolutionSide
<1>7. QED
  BY <1>1, <1>3, <1>4, <1>5, <1>6, TransferBelow

(* Every step keeps the facts below the solutions. *)
LEMMA BelowInductive ==
    ASSUME WorkInv, WorkInv', BelowSolutions, [Next]_vars
    PROVE  BelowSolutions'
<1>1. UNCHANGED arguments
  BY DEF Next, Visit, Enqueue, vars
<1>2. Reached' = Reached /\ meet' = meet /\ transfer' = transfer
  BY <1>1, ArgumentsFixed DEF arguments
<1>3. ASSUME NEW sol \in [Blocks -> SUBSET Facts], Solution(sol, Reached)',
             NEW c \in Blocks, visited'[c]
      PROVE  Below(result'[c], sol[c])
  <2>1. Solution(sol, Reached)
    <3>1. \A b : {sol[x] : x \in Readers(b) \cap Reached}'
                 = {sol[x] : x \in Readers(b) \cap Reached}
      BY <1>1, <1>2, ArgumentsFixed
    <3>2. \A b : SolutionSide(sol, b)' = SolutionSide(sol, b)
      BY <1>1, <3>1, ArgumentsFixed DEF SolutionSide, Meet, arguments
    <3>3. \A b \in Reached' : sol[b] = transfer'[b][SolutionSide(sol, b)']
      BY <1>3 DEF Solution, SolutionSide
    <3>4. QED
      BY <1>2, <3>2, <3>3 DEF Solution, SolutionSide
  <2>2. \A b \in Blocks : visited[b] => Below(result[b], sol[b])
    BY <2>1 DEF BelowSolutions, Below
  <2>3. CASE Visit
    <3>1. PICK b \in Blocks :
             /\ Queued(b)
             /\ result' = [result EXCEPT ![b] = transfer[b][SideOf(b)]]
             /\ visited' = [visited EXCEPT ![b] = TRUE]
      BY <2>3, VisitStep DEF WorkInv
    <3>2. b \in Reached
      <4>1. visited'[b]
        BY <3>1 DEF WorkInv, TypeOK
      <4>2. QED
        BY <1>2, <4>1 DEF WorkInv
    <3>3. Below(transfer[b][SideOf(b)], sol[b])
      BY <2>1, <2>2, <3>1, <3>2, VisitBelow
    <3>4. CASE c = b
      BY <3>1, <3>3, <3>4 DEF WorkInv, TypeOK
    <3>5. CASE c # b
      <4>1. visited[c] /\ result'[c] = result[c]
        BY <1>3, <3>1, <3>5 DEF WorkInv, TypeOK
      <4>2. QED
        BY <2>2, <4>1
    <3>6. QED
      BY <3>4, <3>5
  <2>4. CASE ~Visit
    <3>1. visited' = visited /\ result' = result
      BY <2>4 DEF Next, Enqueue, vars
    <3>2. QED
      BY <1>3, <2>2, <3>1
  <2>5. QED
    BY <2>3, <2>4
<1>4. QED
  BY <1>2, <1>3 DEF BelowSolutions, Below

(* With monotone transfers the solver never overshoots a solution, so the    *)
(* one it stops in is the least of a may and the greatest of a must analysis. *)
THEOREM SolverIsExtreme == Spec => []BelowSolutions
<1>1. Init => BelowSolutions
  BY DEF Init, BelowSolutions
<1>2. WorkInv /\ WorkInv' /\ BelowSolutions /\ [Next]_vars => BelowSolutions'
  BY BelowInductive
<1>3. QED
  BY <1>1, <1>2, WorkInvariant, PTL DEF Spec
=============================================================================
