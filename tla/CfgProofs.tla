----------------------------- MODULE CfgProofs ------------------------------
(***************************************************************************)
(* Theorems about the calls on a control flow graph, for every finite set  *)
(* of blocks, every graph and every order of its lists: reachability,      *)
(* editing and pruning, strongly connected components, dominators.         *)
(***************************************************************************)
EXTENDS MCCfg, FiniteSetTheorems, FunctionTheorems, SequenceTheorems, TLAPS

(* What matters of a list of blocks: each is on it once, and which they are. *)
Listed(list, b) == \E i \in 1 .. Len(list) : list[i] = b
Distinct(list) == \A i, j \in 1 .. Len(list) : list[i] = list[j] => i = j

(* Reach is the least closed set with the block. *)
LEMMA ReachLeast ==
    ASSUME NEW B, NEW g \in [B -> SUBSET B], NEW a \in B
    PROVE  /\ Reach(a, g) \subseteq B /\ a \in Reach(a, g)
           /\ \A b \in Reach(a, g) : g[b] \subseteq Reach(a, g)
           /\ \A S \in SUBSET B : a \in S /\ (\A b \in S : g[b] \subseteq S) => Reach(a, g) \subseteq S
<1>1. DOMAIN g = B
  OBVIOUS
<1>2. Reach(a, g) = {b \in B : \A S \in SUBSET B : a \in S /\ (\A c \in S : g[c] \subseteq S) => b \in S}
  BY <1>1 DEF Reach, Closed
<1>3. Reach(a, g) \subseteq B /\ a \in Reach(a, g)
  BY <1>2
<1>4. ASSUME NEW b \in Reach(a, g), NEW c \in g[b]
      PROVE  c \in Reach(a, g)
  <2>1. b \in B /\ c \in B
    BY <1>3
  <2>2. ASSUME NEW S \in SUBSET B, a \in S, \A d \in S : g[d] \subseteq S
        PROVE  c \in S
    <3>1. b \in S
      BY <1>2, <2>2
    <3>2. QED
      BY <2>2, <3>1
  <2>3. QED
    BY <1>2, <2>1, <2>2
<1>5. \A S \in SUBSET B : a \in S /\ (\A b \in S : g[b] \subseteq S) => Reach(a, g) \subseteq S
  BY <1>2
<1>6. QED
  BY <1>3, <1>4, <1>5

(* A way goes on. *)
LEMMA ReachTransitive ==
    ASSUME NEW B, NEW g \in [B -> SUBSET B], NEW a \in B, NEW b \in Reach(a, g)
    PROVE  b \in B /\ Reach(b, g) \subseteq Reach(a, g)
<1>1. Reach(a, g) \subseteq B /\ \A c \in Reach(a, g) : g[c] \subseteq Reach(a, g)
  BY ReachLeast
<1>2. b \in B
  BY <1>1
<1>3. QED
  BY <1>1, <1>2, ReachLeast

(* A set that all predecessors of its blocks are in has all that lead to it. *)
LEMMA ReachBack ==
    ASSUME NEW B, NEW g \in [B -> SUBSET B], NEW S \in SUBSET B, NEW a \in B,
           \A b \in B : (\E c \in g[b] : c \in S) => b \in S,
           NEW c \in Reach(a, g), c \in S
    PROVE  a \in S
<1> SUFFICES ASSUME a \notin S PROVE FALSE
  OBVIOUS
<1> DEFINE T == B \ S
<1>1. T \in SUBSET B /\ a \in T /\ \A b \in T : g[b] \subseteq T
  OBVIOUS
<1> HIDE DEF T
<1>2. Reach(a, g) \subseteq T
  BY <1>1, ReachLeast
<1>3. QED
  BY <1>2 DEF T

(* The first step of a way. *)
LEMMA ReachFirstStep ==
    ASSUME NEW B, NEW g \in [B -> SUBSET B], NEW a \in B, NEW c \in Reach(a, g), c # a
    PROVE  \E d \in g[a] : d \in B /\ c \in Reach(d, g)
<1> DEFINE S == {a} \cup {b \in B : \E d \in g[a] : b \in Reach(d, g)}
<1>1. \A d \in g[a] : d \in B /\ d \in Reach(d, g) /\ Reach(d, g) \subseteq B /\ \A b \in Reach(d, g) : g[b] \subseteq Reach(d, g)
  BY ReachLeast
<1>2. S \in SUBSET B /\ a \in S
  OBVIOUS
<1>3. ASSUME NEW b \in S, NEW e \in g[b] PROVE e \in S
  <2>1. CASE b = a
    BY <1>1, <2>1
  <2>2. CASE b # a
    <3>1. PICK d \in g[a] : b \in Reach(d, g)
      BY <2>2
    <3>2. e \in Reach(d, g) /\ e \in B
      BY <1>1, <3>1
    <3>3. QED
      BY <3>2
  <2>3. QED
    BY <2>1, <2>2
<1> HIDE DEF S
<1>4. Reach(a, g) \subseteq S
  BY <1>2, <1>3, ReachLeast
<1>5. QED
  BY <1>1, <1>4 DEF S

(* The stack after its first block is taken. *)
LEMMA StackTail ==
    ASSUME NEW S, NEW s \in Seq(S), s # <<>>
    PROVE  /\ Head(s) \in S /\ Tail(s) \in Seq(S)
           /\ Len(s) \in Nat /\ Len(s) >= 1 /\ Len(Tail(s)) = Len(s) - 1 /\ Head(s) = s[1]
           /\ \A i \in 1 .. Len(Tail(s)) : Tail(s)[i] = s[i + 1]
           /\ \A i \in 1 .. Len(s) : i = 1 \/ (i - 1 \in 1 .. Len(Tail(s)) /\ Tail(s)[i - 1] = s[i])
<1>1. /\ Head(s) \in S /\ Tail(s) \in Seq(S)
      /\ Len(s) \in Nat /\ Len(s) >= 1 /\ Len(Tail(s)) = Len(s) - 1 /\ Head(s) = s[1]
  OBVIOUS
<1>2. \A i \in 1 .. Len(Tail(s)) : Tail(s)[i] = s[i + 1]
  OBVIOUS
<1>3. ASSUME NEW i \in 1 .. Len(s), i # 1
      PROVE  i - 1 \in 1 .. Len(Tail(s)) /\ Tail(s)[i - 1] = s[i]
  <2>1. i - 1 \in 1 .. Len(Tail(s)) /\ (i - 1) + 1 = i
    BY <1>1, <1>3
  <2>2. QED
    BY <1>2, <2>1
<1>4. QED
  BY <1>1, <1>2, <1>3

(* The stack after a block is put on it. *)
LEMMA StackPush ==
    ASSUME NEW S, NEW s \in Seq(S), NEW x \in S
    PROVE  LET t == <<x>> \o s
           IN  /\ t \in Seq(S) /\ Len(t) = Len(s) + 1 /\ t[1] = x
               /\ \A i \in 1 .. Len(s) : t[i + 1] = s[i]
               /\ \A i \in 1 .. Len(t) : i = 1 \/ (i - 1 \in 1 .. Len(s) /\ t[i] = s[i - 1])
<1> DEFINE t == <<x>> \o s
<1>1. <<x>> \in Seq(S) /\ Len(<<x>>) = 1 /\ Len(s) \in Nat
  OBVIOUS
<1>2. t \in Seq(S) /\ Len(t) = Len(s) + 1
  BY <1>1
<1>3. t[1] = x /\ \A i \in 1 .. Len(s) : t[i + 1] = s[i]
  BY <1>1
<1>4. ASSUME NEW i \in 1 .. Len(t), i # 1
      PROVE  i - 1 \in 1 .. Len(s) /\ t[i] = s[i - 1]
  <2>1. i - 1 \in 1 .. Len(s) /\ (i - 1) + 1 = i
    BY <1>1, <1>2, <1>4
  <2>2. QED
    BY <1>3, <2>1
<1>5. QED
  BY <1>2, <1>3, <1>4

(* A walk whose innermost frame is another, and one with a new frame before  *)
(* that.                                                                     *)
LEMMA WalkGoesOn ==
    ASSUME NEW F, NEW w \in Seq(F), w # <<>>, NEW f \in F
    PROVE  LET t == <<>> \o <<f>> \o Tail(w)
           IN  t \in Seq(F) /\ Len(t) = Len(w) /\ t[1] = f /\ \A i \in 2 .. Len(w) : t[i] = w[i]
<1> DEFINE u == Tail(w)
<1>1. Len(w) \in Nat /\ Len(w) >= 1 /\ u \in Seq(F) /\ Len(u) = Len(w) - 1 /\ \A i \in 1 .. Len(u) : u[i] = w[i + 1]
  OBVIOUS
<1> HIDE DEF u
<1> DEFINE v == <<f>>
<1>2. v \in Seq(F) /\ Len(v) = 1 /\ v[1] = f /\ <<>> \o v = v
  OBVIOUS
<1> HIDE DEF v
<1> DEFINE t == v \o u
<1>3. /\ t \in Seq(F) /\ Len(t) = Len(v) + Len(u)
      /\ \A i \in 1 .. Len(v) + Len(u) : t[i] = IF i <= Len(v) THEN v[i] ELSE u[i - Len(v)]
  <2>1. v \in Seq(F) /\ u \in Seq(F)
    BY <1>1, <1>2
  <2>2. QED
    BY <2>1, ConcatProperties
<1> HIDE DEF t
<1>4. \A i \in 2 .. Len(w) : t[i] = w[i]
  <2> SUFFICES ASSUME NEW i \in 2 .. Len(w) PROVE t[i] = w[i]
    OBVIOUS
  <2>1. i \in 1 .. Len(v) + Len(u) /\ i > Len(v)
    BY <1>1, <1>2
  <2>2. t[i] = u[i - Len(v)]
    BY <1>1, <1>2, <1>3, <2>1
  <2>3. i - 1 \in 1 .. Len(u) /\ (i - 1) + 1 = i
    BY <1>1
  <2>4. QED
    BY <1>1, <1>2, <2>2, <2>3
<1>5. t[1] = f /\ Len(t) = Len(w)
  BY <1>1, <1>2, <1>3
<1>6. QED
  BY <1>2, <1>3, <1>4, <1>5 DEF t, u, v

(* The walk with a new frame for the block it goes down to. *)
LEMMA WalkGoesDown ==
    ASSUME NEW F, NEW w \in Seq(F), w # <<>>, NEW f \in F, NEW x \in F
    PROVE  LET t == <<x>> \o <<f>> \o Tail(w)
           IN  /\ t \in Seq(F) /\ Len(t) = Len(w) + 1 /\ t[1] = x /\ t[2] = f
               /\ \A i \in 2 .. Len(w) : t[i + 1] = w[i]
<1> DEFINE u == Tail(w)
<1>1. Len(w) \in Nat /\ Len(w) >= 1 /\ u \in Seq(F) /\ Len(u) = Len(w) - 1 /\ \A i \in 1 .. Len(u) : u[i] = w[i + 1]
  OBVIOUS
<1> HIDE DEF u
<1> DEFINE v == <<x>> \o <<f>>
<1>2. v \in Seq(F) /\ Len(v) = 2 /\ v[1] = x /\ v[2] = f
  OBVIOUS
<1> HIDE DEF v
<1> DEFINE t == v \o u
<1>3. /\ t \in Seq(F) /\ Len(t) = Len(v) + Len(u)
      /\ \A i \in 1 .. Len(v) + Len(u) : t[i] = IF i <= Len(v) THEN v[i] ELSE u[i - Len(v)]
  <2>1. v \in Seq(F) /\ u \in Seq(F)
    BY <1>1, <1>2
  <2>2. QED
    BY <2>1, ConcatProperties
<1> HIDE DEF t
<1>4. \A i \in 2 .. Len(w) : t[i + 1] = w[i]
  <2> SUFFICES ASSUME NEW i \in 2 .. Len(w) PROVE t[i + 1] = w[i]
    OBVIOUS
  <2>1. i + 1 \in 1 .. Len(v) + Len(u) /\ i + 1 > Len(v)
    BY <1>1, <1>2
  <2>2. t[i + 1] = u[(i + 1) - Len(v)]
    BY <1>1, <1>2, <1>3, <2>1
  <2>3. i - 1 \in 1 .. Len(u) /\ (i - 1) + 1 = i /\ (i + 1) - 2 = i - 1
    BY <1>1
  <2>4. QED
    BY <1>1, <1>2, <2>2, <2>3
<1>5. t[1] = x /\ t[2] = f /\ Len(t) = Len(w) + 1
  BY <1>1, <1>2, <1>3
<1>6. QED
  BY <1>3, <1>4, <1>5 DEF t, u, v

-----------------------------------------------------------------------------
(* reachable_from_entry *)

(* What the entry reaches is the least closed set it is in. *)
LEMMA EntryReach ==
    ASSUME NEW g \in [Blocks -> SUBSET Blocks]
    PROVE  /\ Entry \in Reach(Entry, g)
           /\ \A b \in Reach(Entry, g) : g[b] \subseteq Reach(Entry, g)
           /\ \A S \in SUBSET Blocks : Entry \in S /\ Closed(S, g) => Reach(Entry, g) \subseteq S
  BY BlocksAssumption, ReachLeast DEF Closed

OnStack(b) == \E i \in 1 .. Len(stack) : stack[i] = b

(* A seen block whose successors were not all seen is on the stack, or they  *)
(* are the ones being looked at.                                             *)
SeenClosing ==
    /\ Entry \in seen
    /\ \A b \in seen : OnStack(b) \/ succs[b] \subseteq seen \cup rest

(* All that was seen or is looked at can be reached. *)
SeenReached == seen \cup rest \subseteq Reach(Entry, succs)

SearchInv == TypeOK /\ SeenClosing /\ SeenReached

(* The search starts with the entry on its stack. *)
LEMMA SearchInit == Init => SearchInv
<1> SUFFICES ASSUME Init PROVE SearchInv
  OBVIOUS
<1>1. succs \in [Blocks -> SUBSET Blocks]
  BY BlocksAssumption DEF Init
<1>2. Len(stack) = 1 /\ stack[1] = Entry /\ stack \in Seq(seen)
  BY DEF Init
<1>3. TypeOK
  BY <1>1, <1>2, BlocksAssumption DEF Init, TypeOK
<1>4. SeenClosing
  BY <1>2 DEF Init, SeenClosing, OnStack
<1>5. SeenReached
  BY <1>1, EntryReach DEF Init, SeenReached
<1>6. QED
  BY <1>3, <1>4, <1>5 DEF SearchInv

(* Taking a block and looking at a successor keep the invariant. *)
LEMMA SearchStep == SearchInv /\ [Next]_vars => SearchInv'
<1> SUFFICES ASSUME SearchInv, [Next]_vars PROVE SearchInv'
  OBVIOUS
<1>t. /\ succs \in [Blocks -> SUBSET Blocks] /\ seen \subseteq Blocks /\ rest \subseteq Blocks
      /\ stack \in Seq(seen) /\ Len(stack) \in Nat
      /\ \A i, j \in 1 .. Len(stack) : stack[i] = stack[j] => i = j
  BY DEF SearchInv, TypeOK
<1>c. SeenClosing /\ SeenReached
  BY DEF SearchInv
<1>1. CASE Pop
  <2>0. /\ rest = {} /\ stack # <<>> /\ rest' = succs[Head(stack)] /\ stack' = Tail(stack)
        /\ succs' = succs /\ seen' = seen
    BY <1>1 DEF Pop
  <2> DEFINE h == Head(stack)
  <2>1. /\ h \in seen /\ Tail(stack) \in Seq(seen)
        /\ Len(stack) >= 1 /\ Len(Tail(stack)) = Len(stack) - 1 /\ h = stack[1]
        /\ \A i \in 1 .. Len(Tail(stack)) : Tail(stack)[i] = stack[i + 1]
        /\ \A i \in 1 .. Len(stack) :
              i = 1 \/ (i - 1 \in 1 .. Len(Tail(stack)) /\ Tail(stack)[i - 1] = stack[i])
    BY <1>t, <2>0, StackTail
  <2>2. rest' \subseteq Blocks
    BY <1>t, <2>0, <2>1
  <2>3. ASSUME NEW i \in 1 .. Len(stack'), NEW j \in 1 .. Len(stack'), stack'[i] = stack'[j]
        PROVE  i = j
    <3>1. i + 1 \in 1 .. Len(stack) /\ j + 1 \in 1 .. Len(stack)
      BY <1>t, <2>0, <2>1
    <3>2. stack[i + 1] = stack[j + 1]
      BY <2>0, <2>1, <2>3
    <3>3. QED
      BY <1>t, <3>1, <3>2
  <2>4. TypeOK'
    BY <1>t, <2>0, <2>1, <2>2, <2>3 DEF TypeOK
  <2>5. ASSUME NEW b \in seen', ~OnStack(b)'
        PROVE  succs'[b] \subseteq seen' \cup rest'
    <3>1. CASE b = h
      BY <2>0, <3>1
    <3>2. CASE b # h
      <4>1. ~OnStack(b)
        BY <2>0, <2>1, <2>5, <3>2 DEF OnStack
      <4>2. QED
        BY <1>c, <2>0, <2>5, <4>1 DEF SeenClosing
    <3>3. QED
      BY <3>1, <3>2
  <2>6. SeenClosing'
    BY <1>c, <2>0, <2>5 DEF SeenClosing
  <2>7. SeenReached'
    BY <1>c, <1>t, <2>0, <2>1, EntryReach DEF SeenReached
  <2>8. QED
    BY <2>4, <2>6, <2>7 DEF SearchInv
<1>2. ASSUME NEW next \in Blocks, LookAt(next)
      PROVE  SearchInv'
  <2>0. next \in rest /\ rest' = rest \ {next} /\ succs' = succs
    BY <1>2 DEF LookAt
  <2>1. CASE next \in seen
    <3>1. seen' = seen /\ stack' = stack
      BY <1>2, <2>1 DEF LookAt
    <3>2. TypeOK'
      BY <1>t, <2>0, <3>1 DEF TypeOK
    <3>3. SeenClosing'
      BY <1>c, <2>0, <2>1, <3>1 DEF SeenClosing, OnStack
    <3>4. SeenReached'
      BY <1>c, <2>0, <3>1 DEF SeenReached
    <3>5. QED
      BY <3>2, <3>3, <3>4 DEF SearchInv
  <2>2. CASE next \notin seen
    <3>1. seen' = seen \cup {next} /\ stack' = <<next>> \o stack
      BY <1>2, <2>2 DEF LookAt
    <3>2. stack \in Seq(seen') /\ next \in seen'
      BY <1>t, <3>1
    <3>3. /\ stack' \in Seq(seen') /\ Len(stack') = Len(stack) + 1 /\ stack'[1] = next
          /\ \A i \in 1 .. Len(stack) : stack'[i + 1] = stack[i]
          /\ \A i \in 1 .. Len(stack') : i = 1 \/ (i - 1 \in 1 .. Len(stack) /\ stack'[i] = stack[i - 1])
      BY <3>1, <3>2, StackPush
    <3>4. \A i \in 1 .. Len(stack) : stack[i] \in seen
      BY <1>t
    <3>5. ASSUME NEW i \in 1 .. Len(stack'), NEW j \in 1 .. Len(stack'), stack'[i] = stack'[j]
          PROVE  i = j
      <4>1. CASE i = 1 /\ j = 1
        BY <4>1
      <4>2. CASE i = 1 /\ j # 1
        BY <2>2, <3>3, <3>4, <3>5, <4>2
      <4>3. CASE i # 1 /\ j = 1
        BY <2>2, <3>3, <3>4, <3>5, <4>3
      <4>4. CASE i # 1 /\ j # 1
        <5>1. i - 1 \in 1 .. Len(stack) /\ j - 1 \in 1 .. Len(stack) /\ stack[i - 1] = stack[j - 1]
          BY <3>3, <3>5, <4>4
        <5>2. i - 1 = j - 1
          BY <1>t, <5>1
        <5>3. QED
          BY <1>t, <3>3, <5>2
      <4>5. QED
        BY <4>1, <4>2, <4>3, <4>4
    <3>6. TypeOK'
      BY <1>t, <2>0, <3>1, <3>3, <3>5 DEF TypeOK
    <3>7. ASSUME NEW b \in seen', ~OnStack(b)'
          PROVE  succs'[b] \subseteq seen' \cup rest'
      <4>1. b # next
        BY <1>t, <3>3, <3>7 DEF OnStack
      <4>2. ~OnStack(b)
        <5>1. SUFFICES ASSUME NEW i \in 1 .. Len(stack), stack[i] = b PROVE FALSE
          BY DEF OnStack
        <5>2. i + 1 \in 1 .. Len(stack') /\ stack'[i + 1] = b
          BY <1>t, <3>3, <5>1
        <5>3. QED
          BY <3>7, <5>2 DEF OnStack
      <4>3. QED
        BY <1>c, <2>0, <3>1, <3>7, <4>1, <4>2 DEF SeenClosing
    <3>8. SeenClosing'
      BY <1>c, <3>1, <3>7 DEF SeenClosing
    <3>9. SeenReached'
      BY <1>c, <2>0, <3>1 DEF SeenReached
    <3>10. QED
      BY <3>6, <3>8, <3>9 DEF SearchInv
  <2>3. QED
    BY <2>1, <2>2
<1>3. CASE UNCHANGED vars
  BY <1>3 DEF SearchInv, TypeOK, SeenClosing, SeenReached, OnStack, vars
<1>4. QED
  BY <1>1, <1>2, <1>3 DEF Next, Stop

(* The invariant of the search. *)
LEMMA SearchInvariant == Spec => []SearchInv
<1>1. QED
  BY SearchInit, SearchStep, PTL DEF Spec

(* In every state the search keeps each block at most once on its stack. *)
THEOREM SearchTyped == Spec => []TypeOK
<1>1. SearchInv => TypeOK
  BY DEF SearchInv
<1>2. QED
  BY <1>1, SearchInvariant, PTL

(* What reachable_from_entry has seen can be reached from the entry, and     *)
(* when its stack is empty it has seen all that can be: for every graph and  *)
(* every order of successors.                                                *)
THEOREM SearchIsReach == Spec => []SeenIsReach
<1>1. SearchInv => SeenIsReach
  <2> SUFFICES ASSUME SearchInv PROVE SeenIsReach
    OBVIOUS
  <2>1. succs \in [Blocks -> SUBSET Blocks] /\ seen \subseteq Blocks
    BY DEF SearchInv, TypeOK
  <2>2. seen \subseteq Reach(Entry, succs)
    BY DEF SearchInv, SeenReached
  <2>3. ASSUME Done PROVE Reach(Entry, succs) \subseteq seen
    <3>1. rest = {} /\ Len(stack) = 0
      BY <2>3 DEF Done
    <3>2. Closed(seen, succs)
      BY <3>1 DEF Closed, SearchInv, SeenClosing, OnStack
    <3>3. Entry \in seen
      BY DEF SearchInv, SeenClosing
    <3>4. QED
      BY <2>1, <3>2, <3>3, EntryReach
  <2>4. QED
    BY <2>2, <2>3 DEF SeenIsReach
<1>2. QED
  BY <1>1, SearchInvariant, PTL

-----------------------------------------------------------------------------
(* add_edge, remove_edge, append_node, into_reachable_subgraph *)

(* The graph editor counts as everyone does. *)
LEMMA FiniteAlike == \A S : Editing!IsFiniteSet(S) <=> IsFiniteSet(S)
  BY DEF Editing!IsFiniteSet, IsFiniteSet

(* So its numbers of blocks and edges are cardinalities. *)
LEMMA CardinalityAlike == \A S : Editing!Cardinality(S) = Cardinality(S)
  BY FiniteAlike DEF Editing!Cardinality, Cardinality

(* Ranks number a finite set of numbers from zero without gaps. *)
LEMMA RankBijective ==
    ASSUME NEW S \in SUBSET Nat, IsFiniteSet(S)
    PROVE  /\ Cardinality(S) \in Nat
           /\ \A x \in S : Editing!Rank(x, S) \in 0 .. Cardinality(S) - 1
           /\ \A x, y \in S : x < y => Editing!Rank(x, S) < Editing!Rank(y, S)
           /\ \A x, y \in S : Editing!Rank(x, S) = Editing!Rank(y, S) => x = y
           /\ \A n \in 0 .. Cardinality(S) - 1 :
                 Editing!Ranked(n, S) \in S /\ Editing!Rank(Editing!Ranked(n, S), S) = n
           /\ \A x \in S : Editing!Ranked(Editing!Rank(x, S), S) = x
<1> DEFINE Before(x) == {y \in S : y < x}
<1> DEFINE size == Cardinality(S)
<1>1. size \in Nat
  BY FS_CardinalityType
<1>2. ASSUME NEW x \in S
      PROVE  Editing!Rank(x, S) \in 0 .. size - 1
  <2>1. Before(x) \in SUBSET S /\ x \notin Before(x)
    OBVIOUS
  <2>2. Cardinality(Before(x)) <= size /\ IsFiniteSet(Before(x)) /\ (size = Cardinality(Before(x)) => S = Before(x))
    BY <2>1, FS_Subset
  <2>3. Cardinality(Before(x)) \in Nat
    BY <2>2, FS_CardinalityType
  <2>4. size # Cardinality(Before(x))
    BY <2>1, <2>2
  <2>5. Cardinality(Before(x)) \in 0 .. size - 1
    BY <1>1, <2>2, <2>3, <2>4
  <2>6. QED
    BY <2>5, CardinalityAlike DEF Editing!Rank
<1>3. ASSUME NEW x \in S, NEW y \in S, x < y
      PROVE  Editing!Rank(x, S) < Editing!Rank(y, S)
  <2>1. Before(x) \in SUBSET Before(y) /\ x \in Before(y) /\ x \notin Before(x)
    <3>1. ASSUME NEW z \in Before(x) PROVE z \in Before(y)
      BY <1>3
    <3>2. x \in Nat
      OBVIOUS
    <3>3. x \in Before(y) /\ x \notin Before(x)
      BY <1>3, <3>2
    <3>4. QED
      BY <3>1, <3>3
  <2>2. Before(y) \in SUBSET S
    OBVIOUS
  <2>3. IsFiniteSet(Before(y))
    BY <2>2, FS_Subset
  <2>4. /\ Cardinality(Before(x)) <= Cardinality(Before(y))
        /\ Cardinality(Before(y)) = Cardinality(Before(x)) => Before(y) = Before(x)
    BY <2>1, <2>3, FS_Subset
  <2>5. Cardinality(Before(y)) # Cardinality(Before(x))
    BY <2>1, <2>4
  <2>6. Editing!Rank(x, S) = Cardinality(Before(x)) /\ Editing!Rank(y, S) = Cardinality(Before(y))
    BY CardinalityAlike DEF Editing!Rank
  <2>7. Editing!Rank(x, S) \in Nat /\ Editing!Rank(y, S) \in Nat
    BY <1>1, <1>2
  <2>8. QED
    BY <2>4, <2>5, <2>6, <2>7
<1>4. ASSUME NEW x \in S, NEW y \in S, Editing!Rank(x, S) = Editing!Rank(y, S)
      PROVE  x = y
  <2>1. Editing!Rank(x, S) \in Nat /\ Editing!Rank(y, S) \in Nat
    BY <1>1, <1>2
  <2>2. ~(x < y) /\ ~(y < x)
    BY <1>3, <1>4, <2>1
  <2>3. QED
    BY <2>2
<1> DEFINE rank == [x \in S |-> Editing!Rank(x, S)]
<1>5. rank \in Surjection(S, 0 .. size - 1)
  <2>1. rank \in [S -> 0 .. size - 1]
    BY <1>2
  <2>2. \A x, y \in S : rank[x] = rank[y] => x = y
    BY <1>4
  <2>3. rank \in Injection(S, 0 .. size - 1)
    BY <2>1, <2>2 DEF Injection, IsInjective
  <2>4. IsFiniteSet(0 .. size - 1) /\ Cardinality(0 .. size - 1) = size
    <3>1. size - 1 \in Int /\ 0 \in Int
      BY <1>1
    <3>2. /\ IsFiniteSet(0 .. size - 1)
          /\ Cardinality(0 .. size - 1) = IF 0 > size - 1 THEN 0 ELSE (size - 1) - 0 + 1
      BY <3>1, FS_Interval
    <3>3. QED
      BY <1>1, <3>2
  <2>5. QED
    BY <2>3, <2>4, FS_Injection
<1>6. ASSUME NEW n \in 0 .. size - 1
      PROVE  Editing!Ranked(n, S) \in S /\ Editing!Rank(Editing!Ranked(n, S), S) = n
  <2>1. \E x \in S : rank[x] = n
    BY <1>5 DEF Surjection
  <2>2. \E x \in S : Editing!Rank(x, S) = n
    BY <2>1
  <2>3. QED
    BY <2>2 DEF Editing!Ranked
<1>7. ASSUME NEW x \in S
      PROVE  Editing!Ranked(Editing!Rank(x, S), S) = x
  BY <1>2, <1>4, <1>6
<1>8. QED
  BY <1>1, <1>2, <1>3, <1>4, <1>6, <1>7

(* A list of few blocks is a list of many. *)
LEMMA WiderSeq ==
    ASSUME NEW S, NEW T, S \subseteq T, NEW q \in Seq(S)
    PROVE  q \in Seq(T)
<1>1. \A i \in 1 .. Len(q) : q[i] \in S
  OBVIOUS
<1>2. q \in [1 .. Len(q) -> T] /\ Len(q) \in Nat
  BY <1>1
<1>3. QED
  BY <1>2

(* A list after a block is pushed that was not on it. *)
LEMMA ListPushed ==
    ASSUME NEW T, NEW s \in Seq(T), NEW e \in T, Distinct(s), ~Listed(s, e)
    PROVE  /\ Append(s, e) \in Seq(T) /\ Distinct(Append(s, e))
           /\ \A x : Listed(Append(s, e), x) <=> Listed(s, x) \/ x = e
<1> DEFINE t == Append(s, e)
<1>1. t \in Seq(T) /\ Len(t) = Len(s) + 1 /\ Len(s) \in Nat /\ t[Len(s) + 1] = e
  OBVIOUS
<1>2. \A i \in 1 .. Len(s) : t[i] = s[i]
  OBVIOUS
<1> HIDE DEF t
<1>3. \A i \in 1 .. Len(t) : i \in 1 .. Len(s) \/ i = Len(s) + 1
  BY <1>1
<1>4. Distinct(t)
  BY <1>1, <1>2, <1>3 DEF Distinct, Listed
<1>5. ASSUME NEW x PROVE Listed(t, x) <=> Listed(s, x) \/ x = e
  <2>1. Len(s) + 1 \in 1 .. Len(t) /\ \A i \in 1 .. Len(s) : i \in 1 .. Len(t)
    BY <1>1
  <2>2. QED
    BY <1>1, <1>2, <1>3, <2>1 DEF Listed
<1>6. QED
  BY <1>1, <1>4, <1>5 DEF t

(* A list after the position of a block is removed. *)
LEMMA ListRemoved ==
    ASSUME NEW T, NEW s \in Seq(T), NEW e, Distinct(s), Listed(s, e)
    PROVE  /\ Editing!RemoveFirst(s, e) \in Seq(T) /\ Distinct(Editing!RemoveFirst(s, e))
           /\ \A x : Listed(Editing!RemoveFirst(s, e), x) <=> Listed(s, x) /\ x # e
<1>1. PICK p \in 1 .. Len(s) : s[p] = e
  BY DEF Listed
<1> DEFINE I == {i \in 1 .. Len(s) : s[i] = e}
<1>2. I = {p}
  BY <1>1 DEF Distinct
<1>3. Len(s) \in Nat /\ p \in Nat /\ p >= 1 /\ p <= Len(s)
  BY <1>1
<1>4. Editing!Min(I) = p
  <2>1. \A x : (x \in I /\ \A y \in I : x =< y) <=> x = p
    BY <1>2, <1>3
  <2>2. QED
    BY <1>2, <1>3, <2>1 DEF Editing!Min
<1>5. Editing!SelectInSeq(s, LAMBDA v : v = e) = p
  BY <1>2, <1>4 DEF Editing!SelectInSeq
<1> DEFINE t == SubSeq(s, 1, p - 1) \o SubSeq(s, p + 1, Len(s))
<1>6. Editing!RemoveFirst(s, e) = t
  BY <1>1, <1>5 DEF Editing!RemoveFirst, Editing!RemoveAt
<1>7. /\ t \in Seq(T) /\ Len(t) = Len(s) - 1
      /\ \A i \in 1 .. Len(t) : t[i] = IF i < p THEN s[i] ELSE s[i + 1]
  <2> DEFINE u == SubSeq(s, 1, p - 1)
  <2> DEFINE v == SubSeq(s, p + 1, Len(s))
  <2>1. u \in Seq(T) /\ Len(u) = p - 1 /\ \A i \in 1 .. p - 1 : u[i] = s[i]
    BY <1>3
  <2>2. v \in Seq(T) /\ Len(v) = Len(s) - p /\ \A i \in 1 .. Len(s) - p : v[i] = s[i + p]
    BY <1>3
  <2> HIDE DEF u, v
  <2>3. u \o v \in Seq(T) /\ Len(u \o v) = Len(s) - 1
    <3>1. u \o v \in Seq(T) /\ Len(u \o v) = Len(u) + Len(v)
      <4>1. u \in Seq(T) /\ v \in Seq(T)
        BY <2>1, <2>2
      <4>2. QED
        BY <4>1
    <3>2. Len(u) + Len(v) = Len(s) - 1
      BY <1>3, <2>1, <2>2
    <3>3. QED
      BY <3>1, <3>2
  <2>4. ASSUME NEW i \in 1 .. Len(s) - 1
        PROVE  (u \o v)[i] = IF i < p THEN s[i] ELSE s[i + 1]
    <3>1. CASE i < p
      BY <1>3, <2>1, <2>2, <3>1
    <3>2. CASE ~(i < p)
      <4>1. (u \o v)[i] = v[i - (p - 1)]
        BY <1>3, <2>1, <2>2, <3>2
      <4>2. i - (p - 1) \in 1 .. Len(s) - p /\ (i - (p - 1)) + p = i + 1
        BY <1>3, <3>2
      <4>3. QED
        BY <2>2, <3>2, <4>1, <4>2
    <3>3. QED
      BY <3>1, <3>2
  <2>5. QED
    BY <2>3, <2>4 DEF u, v
<1> HIDE DEF t
<1>8. Distinct(t)
  BY <1>3, <1>7 DEF Distinct
<1>9. ASSUME NEW x PROVE Listed(t, x) <=> Listed(s, x) /\ x # e
  <2>1. ASSUME Listed(t, x) PROVE Listed(s, x) /\ x # e
    <3>1. PICK i \in 1 .. Len(t) : t[i] = x
      BY <2>1 DEF Listed
    <3>2. CASE i < p
      BY <1>1, <1>3, <1>7, <3>1, <3>2 DEF Distinct, Listed
    <3>3. CASE ~(i < p)
      <4>1. i + 1 \in 1 .. Len(s) /\ s[i + 1] = x /\ i + 1 # p
        BY <1>3, <1>7, <3>1, <3>3
      <4>2. QED
        BY <1>1, <4>1 DEF Distinct, Listed
    <3>4. QED
      BY <3>2, <3>3
  <2>2. ASSUME Listed(s, x), x # e PROVE Listed(t, x)
    <3>1. PICK i \in 1 .. Len(s) : s[i] = x
      BY <2>2 DEF Listed
    <3>2. CASE i < p
      <4>1. i \in 1 .. Len(t) /\ t[i] = x
        BY <1>3, <1>7, <3>1, <3>2
      <4>2. QED
        BY <4>1 DEF Listed
    <3>3. CASE i > p
      <4>1. i - 1 \in 1 .. Len(t) /\ ~(i - 1 < p) /\ (i - 1) + 1 = i
        BY <1>3, <1>7, <3>3
      <4>2. t[i - 1] = x
        BY <1>7, <3>1, <4>1
      <4>3. QED
        BY <4>1, <4>2 DEF Listed
    <3>4. QED
      BY <1>1, <1>3, <2>2, <3>1, <3>2, <3>3
  <2>3. QED
    BY <2>1, <2>2
<1>10. QED
  BY <1>6, <1>7, <1>8, <1>9

(* The blocks that pruning keeps: a finite set of numbers. *)
KeptFinite == Editing!Kept \in SUBSET Nat /\ IsFiniteSet(Editing!Kept)

(* A list that is renumbered: each kept block of it is on it once, under its *)
(* new number, and no other.                                                 *)
LEMMA ListRenumbered ==
    ASSUME KeptFinite, NEW s \in Seq(Nat), Distinct(s)
    PROVE  LET t == Editing!RenumberedList(s)
           IN  /\ t \in Seq(0 .. Cardinality(Editing!Kept) - 1)
               /\ Distinct(t)
               /\ \A b \in Editing!Kept : Listed(t, Editing!Renumbered(b)) <=> Listed(s, b)
<1> DEFINE K == Editing!Kept
<1> DEFINE t == Editing!RenumberedList(s)
<1> DEFINE P == {i \in 1 .. Len(s) : s[i] \in K}
<1> DEFINE Pos(n) == Editing!Ranked(n - 1, P)
<1>1. Len(s) \in Nat /\ DOMAIN s = 1 .. Len(s)
  OBVIOUS
<1>2. P \in SUBSET Nat /\ IsFiniteSet(P)
  <2>1. P \in SUBSET Nat /\ \A i \in P : i <= Len(s)
    BY <1>1
  <2> HIDE DEF P
  <2>2. QED
    BY <1>1, <2>1, FS_BoundedSetOfNaturals
<1> HIDE DEF P, K
<1>3. t = [n \in 1 .. Cardinality(P) |-> Editing!Renumbered(s[Pos(n)])]
  BY <1>1, CardinalityAlike DEF Editing!RenumberedList, P, K
<1>4. Cardinality(P) \in Nat
  BY <1>2, RankBijective
<1>5. \A n \in 1 .. Cardinality(P) : Pos(n) \in P /\ Editing!Rank(Pos(n), P) = n - 1
  BY <1>2, <1>4, RankBijective
<1>6. \A i \in P : i \in 1 .. Len(s) /\ s[i] \in K
  BY DEF P
<1>7. \A i \in P : \E n \in 1 .. Cardinality(P) : Pos(n) = i
  <2> SUFFICES ASSUME NEW i \in P PROVE \E n \in 1 .. Cardinality(P) : Pos(n) = i
    OBVIOUS
  <2>1. Editing!Rank(i, P) \in 0 .. Cardinality(P) - 1 /\ Editing!Ranked(Editing!Rank(i, P), P) = i
    BY <1>2, RankBijective
  <2>2. Editing!Rank(i, P) + 1 \in 1 .. Cardinality(P) /\ (Editing!Rank(i, P) + 1) - 1 = Editing!Rank(i, P)
    BY <1>4, <2>1
  <2>3. QED
    BY <2>1, <2>2
<1> HIDE DEF Pos
<1>8. /\ \A b \in K : Editing!Renumbered(b) \in 0 .. Cardinality(K) - 1
      /\ \A a, b \in K : Editing!Renumbered(a) = Editing!Renumbered(b) => a = b
  BY RankBijective DEF KeptFinite, Editing!Renumbered, K
<1> HIDE DEF t
<1>9. /\ t \in Seq(0 .. Cardinality(K) - 1) /\ Len(t) = Cardinality(P)
      /\ \A n \in 1 .. Cardinality(P) : t[n] = Editing!Renumbered(s[Pos(n)])
  <2>1. t \in [1 .. Cardinality(P) -> 0 .. Cardinality(K) - 1]
    BY <1>3, <1>5, <1>6, <1>8
  <2>2. \A n \in 1 .. Cardinality(P) : t[n] = Editing!Renumbered(s[Pos(n)])
    BY <1>3
  <2>3. t \in Seq(0 .. Cardinality(K) - 1) /\ Len(t) = Cardinality(P)
    <3> DEFINE size == Cardinality(P)
    <3> DEFINE R == 0 .. Cardinality(K) - 1
    <3>1. size \in Nat /\ t \in [1 .. size -> R]
      BY <1>4, <2>1
    <3> HIDE DEF size, R
    <3>2. t \in Seq(R) /\ Len(t) = size
      BY <3>1
    <3>3. QED
      BY <3>2 DEF size, R
  <2>4. QED
    BY <2>2, <2>3
<1>10. Distinct(t)
  <2> SUFFICES ASSUME NEW m \in 1 .. Cardinality(P), NEW n \in 1 .. Cardinality(P), t[m] = t[n] PROVE m = n
    BY <1>9 DEF Distinct
  <2>1. s[Pos(m)] = s[Pos(n)]
    BY <1>5, <1>6, <1>8, <1>9
  <2>2. Pos(m) = Pos(n)
    BY <1>5, <1>6, <2>1 DEF Distinct
  <2>3. m - 1 = n - 1
    BY <1>5, <2>2
  <2>4. QED
    BY <1>4, <2>3
<1>11. ASSUME NEW b \in K PROVE Listed(t, Editing!Renumbered(b)) <=> Listed(s, b)
  <2>1. ASSUME Listed(t, Editing!Renumbered(b)) PROVE Listed(s, b)
    BY <1>5, <1>6, <1>8, <1>9, <2>1 DEF Listed
  <2>2. ASSUME Listed(s, b) PROVE Listed(t, Editing!Renumbered(b))
    <3>1. PICK i \in 1 .. Len(s) : s[i] = b
      BY <2>2 DEF Listed
    <3>2. i \in P
      BY <3>1 DEF P
    <3>3. PICK n \in 1 .. Cardinality(P) : Pos(n) = i
      BY <1>7, <3>2
    <3>4. QED
      BY <1>9, <3>1, <3>3 DEF Listed
  <2>3. QED
    BY <2>1, <2>2
<1>12. QED
  BY <1>9, <1>10, <1>11 DEF t, K

(* Successor and predecessor lists of the blocks B mirror each other. *)
Mirrored(B, s, p) ==
    /\ s \in [B -> Seq(B)] /\ p \in [B -> Seq(B)]
    /\ \A a \in B : Distinct(s[a]) /\ Distinct(p[a])
    /\ \A a, b \in B : Listed(s[a], b) <=> Listed(p[b], a)

(* add_edge keeps the lists mirrored. *)
LEMMA MirroredAdd ==
    ASSUME NEW B, NEW s, NEW p, Mirrored(B, s, p), NEW from \in B, NEW to \in B, ~Listed(s[from], to)
    PROVE  Mirrored(B, [s EXCEPT ![from] = Append(s[from], to)], [p EXCEPT ![to] = Append(p[to], from)])
<1> DEFINE ss == [s EXCEPT ![from] = Append(s[from], to)]
<1> DEFINE pp == [p EXCEPT ![to] = Append(p[to], from)]
<1>1. /\ s \in [B -> Seq(B)] /\ p \in [B -> Seq(B)]
      /\ \A a \in B : Distinct(s[a]) /\ Distinct(p[a])
      /\ \A a, b \in B : Listed(s[a], b) <=> Listed(p[b], a)
  BY DEF Mirrored
<1>2. s[from] \in Seq(B) /\ p[to] \in Seq(B) /\ ~Listed(p[to], from) /\ Distinct(s[from]) /\ Distinct(p[to])
  BY <1>1
<1> DEFINE new == Append(s[from], to)
<1> DEFINE old == Append(p[to], from)
<1>3. /\ new \in Seq(B) /\ Distinct(new)
      /\ \A x : Listed(new, x) <=> Listed(s[from], x) \/ x = to
  BY <1>2, ListPushed
<1>4. /\ old \in Seq(B) /\ Distinct(old)
      /\ \A x : Listed(old, x) <=> Listed(p[to], x) \/ x = from
  BY <1>2, ListPushed
<1> HIDE DEF new, old
<1>5. /\ ss \in [B -> Seq(B)] /\ pp \in [B -> Seq(B)]
      /\ \A a \in B : ss[a] = IF a = from THEN new ELSE s[a]
      /\ \A a \in B : pp[a] = IF a = to THEN old ELSE p[a]
  BY <1>1, <1>3, <1>4 DEF new, old
<1> HIDE DEF ss, pp
<1>6. \A a \in B : Distinct(ss[a]) /\ Distinct(pp[a])
  BY <1>1, <1>3, <1>4, <1>5
<1>7. ASSUME NEW a \in B, NEW b \in B
      PROVE  Listed(ss[a], b) <=> Listed(pp[b], a)
  <2>1. Listed(s[a], b) <=> Listed(p[b], a)
    BY <1>1
  <2>2. CASE a = from /\ b = to
    BY <1>3, <1>4, <1>5, <2>1, <2>2
  <2>3. CASE a = from /\ b # to
    BY <1>3, <1>5, <2>1, <2>3
  <2>4. CASE a # from /\ b = to
    BY <1>4, <1>5, <2>1, <2>4
  <2>5. CASE a # from /\ b # to
    BY <1>5, <2>1, <2>5
  <2>6. QED
    BY <2>2, <2>3, <2>4, <2>5
<1>8. QED
  BY <1>5, <1>6, <1>7 DEF Mirrored, ss, pp

(* remove_edge keeps the lists mirrored. *)
LEMMA MirroredRemove ==
    ASSUME NEW B, NEW s, NEW p, Mirrored(B, s, p), NEW from \in B, NEW to \in B, Listed(s[from], to)
    PROVE  Mirrored(B, [s EXCEPT ![from] = Editing!RemoveFirst(s[from], to)],
                       [p EXCEPT ![to] = Editing!RemoveFirst(p[to], from)])
<1> DEFINE ss == [s EXCEPT ![from] = Editing!RemoveFirst(s[from], to)]
<1> DEFINE pp == [p EXCEPT ![to] = Editing!RemoveFirst(p[to], from)]
<1>1. /\ s \in [B -> Seq(B)] /\ p \in [B -> Seq(B)]
      /\ \A a \in B : Distinct(s[a]) /\ Distinct(p[a])
      /\ \A a, b \in B : Listed(s[a], b) <=> Listed(p[b], a)
  BY DEF Mirrored
<1>2. s[from] \in Seq(B) /\ p[to] \in Seq(B) /\ Listed(p[to], from) /\ Distinct(s[from]) /\ Distinct(p[to])
  BY <1>1
<1> DEFINE new == Editing!RemoveFirst(s[from], to)
<1> DEFINE old == Editing!RemoveFirst(p[to], from)
<1>3. /\ new \in Seq(B) /\ Distinct(new)
      /\ \A x : Listed(new, x) <=> Listed(s[from], x) /\ x # to
  BY <1>2, ListRemoved
<1>4. /\ old \in Seq(B) /\ Distinct(old)
      /\ \A x : Listed(old, x) <=> Listed(p[to], x) /\ x # from
  BY <1>2, ListRemoved
<1> HIDE DEF new, old
<1>5. /\ ss \in [B -> Seq(B)] /\ pp \in [B -> Seq(B)]
      /\ \A a \in B : ss[a] = IF a = from THEN new ELSE s[a]
      /\ \A a \in B : pp[a] = IF a = to THEN old ELSE p[a]
  BY <1>1, <1>3, <1>4 DEF new, old
<1> HIDE DEF ss, pp
<1>6. \A a \in B : Distinct(ss[a]) /\ Distinct(pp[a])
  BY <1>1, <1>3, <1>4, <1>5
<1>7. ASSUME NEW a \in B, NEW b \in B
      PROVE  Listed(ss[a], b) <=> Listed(pp[b], a)
  <2>1. Listed(s[a], b) <=> Listed(p[b], a)
    BY <1>1
  <2>2. CASE a = from /\ b = to
    BY <1>3, <1>4, <1>5, <2>1, <2>2
  <2>3. CASE a = from /\ b # to
    BY <1>3, <1>5, <2>1, <2>3
  <2>4. CASE a # from /\ b = to
    BY <1>4, <1>5, <2>1, <2>4
  <2>5. CASE a # from /\ b # to
    BY <1>5, <2>1, <2>5
  <2>6. QED
    BY <2>2, <2>3, <2>4, <2>5
<1>8. QED
  BY <1>5, <1>6, <1>7 DEF Mirrored, ss, pp

(* append_node keeps the lists mirrored. *)
LEMMA MirroredAppend ==
    ASSUME NEW B, NEW C, B \subseteq C, NEW s, NEW p, Mirrored(B, s, p)
    PROVE  Mirrored(C, [b \in C |-> IF b \in B THEN s[b] ELSE <<>>], [b \in C |-> IF b \in B THEN p[b] ELSE <<>>])
<1> DEFINE ss == [b \in C |-> IF b \in B THEN s[b] ELSE <<>>]
<1> DEFINE pp == [b \in C |-> IF b \in B THEN p[b] ELSE <<>>]
<1>1. /\ s \in [B -> Seq(B)] /\ p \in [B -> Seq(B)]
      /\ \A a \in B : Distinct(s[a]) /\ Distinct(p[a])
      /\ \A a, b \in B : Listed(s[a], b) <=> Listed(p[b], a)
  BY DEF Mirrored
<1>2. <<>> \in Seq(C) /\ Distinct(<<>>) /\ \A x : ~Listed(<<>>, x)
  BY DEF Distinct, Listed
<1>3. \A q \in Seq(B) : q \in Seq(C) /\ \A x : Listed(q, x) => x \in B
  <2> SUFFICES ASSUME NEW q \in Seq(B) PROVE q \in Seq(C) /\ \A x : Listed(q, x) => x \in B
    OBVIOUS
  <2>1. \A i \in 1 .. Len(q) : q[i] \in B
    OBVIOUS
  <2>2. q \in Seq(C)
    BY WiderSeq
  <2>3. QED
    BY <2>1, <2>2 DEF Listed
<1>4. /\ ss \in [C -> Seq(C)] /\ pp \in [C -> Seq(C)]
      /\ \A a \in C : ss[a] = IF a \in B THEN s[a] ELSE <<>>
      /\ \A a \in C : pp[a] = IF a \in B THEN p[a] ELSE <<>>
  BY <1>1, <1>2, <1>3
<1> HIDE DEF ss, pp
<1>5. \A a \in C : Distinct(ss[a]) /\ Distinct(pp[a])
  BY <1>1, <1>2, <1>4
<1>6. ASSUME NEW a \in C, NEW b \in C
      PROVE  Listed(ss[a], b) <=> Listed(pp[b], a)
  <2>1. CASE a \in B /\ b \in B
    BY <1>1, <1>4, <2>1
  <2>2. CASE a \in B /\ b \notin B
    BY <1>1, <1>2, <1>3, <1>4, <2>2
  <2>3. CASE a \notin B /\ b \in B
    BY <1>1, <1>2, <1>3, <1>4, <2>3
  <2>4. CASE a \notin B /\ b \notin B
    BY <1>2, <1>4, <2>4
  <2>5. QED
    BY <2>1, <2>2, <2>3, <2>4
<1>7. QED
  BY <1>4, <1>5, <1>6 DEF Mirrored, ss, pp

(* The payloads tell the blocks apart, and the next one is new. *)
PayloadsOK ==
    /\ payloads \in Seq(Nat) /\ Len(payloads) >= 2
    /\ Distinct(payloads)
    /\ appended \in Nat /\ \A i \in 1 .. Len(payloads) : payloads[i] <= appended

(* The lists mirror each other, in a graph that has its entry and its exit.  *)
EditInv ==
    /\ PayloadsOK
    /\ Mirrored(Editing!blocks, successors, predecessors)
    /\ entry = 0 /\ exit = 1

(* A graph without edges is mirrored. *)
LEMMA EditInit == Editing!Init => EditInv
<1> SUFFICES ASSUME Editing!Init PROVE EditInv
  OBVIOUS
<1> USE DEF Editing!Init
<1>1. payloads \in Seq(Nat) /\ Len(payloads) = 2 /\ payloads[1] = 1 /\ payloads[2] = 2 /\ appended = 2
  OBVIOUS
<1>2. PayloadsOK
  <2>1. \A i \in 1 .. Len(payloads) : i = 1 \/ i = 2
    BY <1>1
  <2>2. QED
    BY <1>1, <2>1 DEF PayloadsOK, Distinct
<1>3. Editing!blocks = 0 .. 1
  BY <1>1 DEF Editing!blocks
<1>4. <<>> \in Seq(0 .. 1) /\ Distinct(<<>>) /\ \A x : ~Listed(<<>>, x)
  BY DEF Distinct, Listed
<1>5. successors = [b \in 0 .. 1 |-> <<>>] /\ predecessors = [b \in 0 .. 1 |-> <<>>]
  OBVIOUS
<1>6. Mirrored(0 .. 1, successors, predecessors)
  BY <1>4, <1>5 DEF Mirrored
<1>7. QED
  BY <1>2, <1>3, <1>6 DEF EditInv

(* The invariant is what the run checks, and more. *)
LEMMA EditTyped == EditInv => EdgesMirrored
<1> SUFFICES ASSUME EditInv PROVE EdgesMirrored
  OBVIOUS
<1> DEFINE B == Editing!blocks
<1>1. /\ successors \in [B -> Seq(B)] /\ predecessors \in [B -> Seq(B)]
      /\ \A a \in B : Distinct(successors[a]) /\ Distinct(predecessors[a])
      /\ \A a, b \in B : Listed(successors[a], b) <=> Listed(predecessors[b], a)
  BY DEF EditInv, Mirrored
<1> HIDE DEF B
<1>2. \A q \in Seq(B) : Distinct(q) => Editing!IsInjective(q)
  BY DEF Distinct, Editing!IsInjective
<1>3. \A q \in Seq(B) : Editing!ToSet(q) \subseteq B
  BY DEF Editing!ToSet
<1>4. \A q, x : Editing!Contains(q, x) <=> Listed(q, x)
  BY DEF Editing!Contains, Listed
<1>5. DOMAIN successors = B /\ DOMAIN predecessors = B
  BY <1>1
<1>6. \A a \in B : Editing!IsInjective(successors[a]) /\ Editing!IsInjective(predecessors[a])
  BY <1>1, <1>2
<1>7. \A a \in B : Editing!ToSet(successors[a]) \cup Editing!ToSet(predecessors[a]) \subseteq B
  BY <1>1, <1>3
<1>8. \A a, b \in B : Editing!Contains(successors[a], b) <=> Editing!Contains(predecessors[b], a)
  BY <1>1, <1>4
<1>9. entry = 0 /\ exit = 1
  BY DEF EditInv
<1>10. QED
  BY <1>5, <1>6, <1>7, <1>8, <1>9 DEF EdgesMirrored, Editing!TypeOK, B

(* What pruning keeps: blocks, the entry and the exit among them. *)
LEMMA KeptFacts ==
    ASSUME EditInv
    PROVE  /\ Editing!Graph \in [Editing!blocks -> SUBSET Editing!blocks]
           /\ \A a, b \in Editing!blocks : b \in Editing!Graph[a] <=> Listed(successors[a], b)
           /\ 0 \in Editing!Live /\ Editing!Live \subseteq Editing!Kept
           /\ Editing!Kept = Editing!Live \cup {1} /\ Editing!Kept \subseteq Editing!blocks
           /\ KeptFinite
<1> DEFINE B == Editing!blocks
<1>1. B = 0 .. Len(payloads) - 1 /\ Len(payloads) \in Nat /\ Len(payloads) >= 2
  BY DEF EditInv, PayloadsOK, Editing!blocks
<1>2. successors \in [B -> Seq(B)]
  BY DEF EditInv, Mirrored
<1>3. Editing!Graph = [b \in B |-> Editing!ToSet(successors[b])]
  BY DEF Editing!Graph
<1>4. \A q \in Seq(B) : Editing!ToSet(q) \in SUBSET B /\ \A b : b \in Editing!ToSet(q) <=> Listed(q, b)
  <2> HIDE DEF B
  <2>1. \A q \in Seq(B) : DOMAIN q = 1 .. Len(q) /\ \A i \in 1 .. Len(q) : q[i] \in B
    OBVIOUS
  <2>2. QED
    BY <2>1 DEF Editing!ToSet, Listed
<1>5. Editing!Graph \in [B -> SUBSET B] /\ \A a, b \in B : b \in Editing!Graph[a] <=> Listed(successors[a], b)
  BY <1>2, <1>3, <1>4
<1>6. 0 \in B /\ 1 \in B
  BY <1>1
<1>7. Editing!Live \subseteq B /\ 0 \in Editing!Live
  BY <1>5, <1>6 DEF EditInv, Editing!Live, Editing!Reach
<1>8. Editing!Kept = Editing!Live \cup {1}
  BY DEF EditInv, Editing!Live, Editing!Kept
<1>9. Editing!Kept \subseteq B
  BY <1>6, <1>7, <1>8
<1>10. KeptFinite
  <2>1. Editing!Kept \in SUBSET Nat /\ \A b \in Editing!Kept : b <= Len(payloads)
    BY <1>1, <1>9
  <2>2. IsFiniteSet(Editing!Kept)
    BY <1>1, <2>1, FS_BoundedSetOfNaturals
  <2>3. QED
    BY <2>1, <2>2 DEF KeptFinite
<1>11. QED
  BY <1>5, <1>7, <1>8, <1>9, <1>10

(* The numbers that pruning gives, without the others. *)
LEMMA PruneNumbers ==
    ASSUME EditInv
    PROVE  LET N == Cardinality(Editing!Kept)
           IN  /\ N \in Nat /\ N >= 2
               /\ \A n \in 0 .. N - 1 :
                     Editing!WithNumber(n) \in Editing!Kept /\ Editing!Renumbered(Editing!WithNumber(n)) = n
               /\ \A b \in Editing!Kept :
                     Editing!Renumbered(b) \in 0 .. N - 1 /\ Editing!WithNumber(Editing!Renumbered(b)) = b
               /\ Editing!Renumbered(0) = 0 /\ Editing!Renumbered(1) = 1
<1> DEFINE K == Editing!Kept
<1> DEFINE N == Cardinality(K)
<1>1. K \in SUBSET Nat /\ IsFiniteSet(K) /\ 0 \in K /\ 1 \in K
  BY KeptFacts DEF KeptFinite
<1>2. /\ \A b : Editing!Renumbered(b) = Editing!Rank(b, K)
      /\ \A n : Editing!WithNumber(n) = Editing!Ranked(n, K)
  BY DEF Editing!Renumbered, Editing!WithNumber
<1> HIDE DEF K
<1>3. /\ N \in Nat
      /\ \A b \in K : Editing!Rank(b, K) \in 0 .. N - 1 /\ Editing!Ranked(Editing!Rank(b, K), K) = b
      /\ \A n \in 0 .. N - 1 : Editing!Ranked(n, K) \in K /\ Editing!Rank(Editing!Ranked(n, K), K) = n
      /\ \A a, b \in K : a < b => Editing!Rank(a, K) < Editing!Rank(b, K)
  BY <1>1, RankBijective
<1>4. Editing!Rank(0, K) = 0
  <2>1. {y \in K : y < 0} = {}
    <3>1. \A y \in K : y \in Nat
      BY <1>1
    <3>2. \A y \in K : ~(y < 0)
      BY <3>1
    <3>3. QED
      BY <3>2
  <2>2. QED
    BY <2>1, CardinalityAlike, FS_EmptySet DEF Editing!Rank
<1>5. Editing!Rank(1, K) = 1
  <2>1. {y \in K : y < 1} = {0}
    <3>1. \A y \in K : y \in Nat
      BY <1>1
    <3>2. \A y \in K : y < 1 <=> y = 0
      BY <3>1
    <3>3. QED
      BY <1>1, <3>2
  <2>2. QED
    BY <2>1, CardinalityAlike, FS_Singleton DEF Editing!Rank
<1>6. N >= 2
  BY <1>1, <1>3, <1>5
<1>7. QED
  BY <1>2, <1>3, <1>4, <1>5, <1>6 DEF K

(* into_reachable_subgraph keeps the lists mirrored. *)
LEMMA MirroredPrune ==
    ASSUME EditInv
    PROVE  LET N == 0 .. Cardinality(Editing!Kept) - 1
           IN  Mirrored(N, [n \in N |-> Editing!RenumberedList(successors[Editing!WithNumber(n)])],
                           [n \in N |-> Editing!RenumberedList(predecessors[Editing!WithNumber(n)])])
<1> DEFINE N == 0 .. Cardinality(Editing!Kept) - 1
<1> DEFINE B == Editing!blocks
<1> DEFINE ss == [n \in N |-> Editing!RenumberedList(successors[Editing!WithNumber(n)])]
<1> DEFINE pp == [n \in N |-> Editing!RenumberedList(predecessors[Editing!WithNumber(n)])]
<1>1. /\ successors \in [B -> Seq(B)] /\ predecessors \in [B -> Seq(B)]
      /\ \A a \in B : Distinct(successors[a]) /\ Distinct(predecessors[a])
      /\ \A a, b \in B : Listed(successors[a], b) <=> Listed(predecessors[b], a)
  BY DEF EditInv, Mirrored
<1>2. B \subseteq Nat
  BY DEF EditInv, PayloadsOK, Editing!blocks
<1>3. Editing!Kept \subseteq B /\ KeptFinite
  BY KeptFacts
<1>4. /\ \A n \in N : Editing!WithNumber(n) \in Editing!Kept /\ Editing!Renumbered(Editing!WithNumber(n)) = n
  BY PruneNumbers
<1>5. \A q \in Seq(B) : q \in Seq(Nat)
  BY <1>2, WiderSeq
<1>6. \A q \in Seq(B) : Distinct(q) =>
          /\ Editing!RenumberedList(q) \in Seq(N) /\ Distinct(Editing!RenumberedList(q))
          /\ \A b \in Editing!Kept : Listed(Editing!RenumberedList(q), Editing!Renumbered(b)) <=> Listed(q, b)
  BY <1>3, <1>5, ListRenumbered
<1> HIDE DEF N, B
<1>7. \A n \in N : Editing!WithNumber(n) \in B
  BY <1>3, <1>4
<1>8. ss \in [N -> Seq(N)] /\ pp \in [N -> Seq(N)]
  BY <1>1, <1>6, <1>7
<1>9. /\ \A n \in N : ss[n] = Editing!RenumberedList(successors[Editing!WithNumber(n)])
      /\ \A n \in N : pp[n] = Editing!RenumberedList(predecessors[Editing!WithNumber(n)])
  OBVIOUS
<1> HIDE DEF ss, pp
<1>10. \A n \in N : Distinct(ss[n]) /\ Distinct(pp[n])
  BY <1>1, <1>6, <1>7, <1>9
<1>11. ASSUME NEW m \in N, NEW n \in N
       PROVE  Listed(ss[m], n) <=> Listed(pp[n], m)
  <2> DEFINE a == Editing!WithNumber(m)
  <2> DEFINE b == Editing!WithNumber(n)
  <2>1. /\ a \in B /\ b \in B /\ a \in Editing!Kept /\ b \in Editing!Kept
        /\ Editing!Renumbered(a) = m /\ Editing!Renumbered(b) = n
    BY <1>4, <1>7
  <2>2. ss[m] = Editing!RenumberedList(successors[a]) /\ pp[n] = Editing!RenumberedList(predecessors[b])
    BY <1>9
  <2> HIDE DEF a, b
  <2>3. /\ successors[a] \in Seq(B) /\ Distinct(successors[a])
        /\ predecessors[b] \in Seq(B) /\ Distinct(predecessors[b])
        /\ Listed(successors[a], b) <=> Listed(predecessors[b], a)
    BY <1>1, <2>1
  <2>4. Listed(ss[m], n) <=> Listed(successors[a], b)
    BY <1>6, <2>1, <2>2, <2>3
  <2>5. Listed(pp[n], m) <=> Listed(predecessors[b], a)
    BY <1>6, <2>1, <2>2, <2>3
  <2>6. QED
    BY <2>3, <2>4, <2>5
<1>12. Mirrored(N, ss, pp)
  BY <1>8, <1>10, <1>11 DEF Mirrored
<1>13. QED
  BY <1>12 DEF N, ss, pp

(* Every change to the graph keeps the lists mirrored. *)
LEMMA EditStep == EditInv /\ [Editing!Next]_Editing!vars => EditInv'
<1> SUFFICES ASSUME EditInv, [Editing!Next]_Editing!vars PROVE EditInv'
  OBVIOUS
<1> DEFINE B == Editing!blocks
<1>1. /\ B = 0 .. Len(payloads) - 1 /\ Len(payloads) \in Nat /\ Len(payloads) >= 2
      /\ Mirrored(B, successors, predecessors) /\ entry = 0 /\ exit = 1 /\ PayloadsOK
  BY DEF EditInv, PayloadsOK, Editing!blocks
<1>2. \A q, x : Editing!Contains(q, x) <=> Listed(q, x)
  BY DEF Editing!Contains, Listed
<1>3. ASSUME UNCHANGED <<payloads, appended>>, UNCHANGED <<entry, exit>>, Mirrored(B, successors', predecessors')
      PROVE  EditInv'
  <2>1. Editing!blocks' = B
    BY <1>3 DEF Editing!blocks
  <2>2. PayloadsOK'
    BY <1>1, <1>3 DEF PayloadsOK, Distinct
  <2> HIDE DEF B
  <2>3. Mirrored(Editing!blocks', successors', predecessors')
    BY <1>3, <2>1
  <2>4. entry' = 0 /\ exit' = 1
    BY <1>1, <1>3
  <2>5. QED
    BY <2>2, <2>3, <2>4 DEF EditInv
<1>4. ASSUME NEW from \in B, NEW to \in B, Editing!AddEdge(from, to)
      PROVE  EditInv'
  <2>1. /\ successors' = [successors EXCEPT ![from] = Append(successors[from], to)]
        /\ predecessors' = [predecessors EXCEPT ![to] = Append(predecessors[to], from)]
        /\ ~Listed(successors[from], to)
        /\ UNCHANGED <<payloads, appended>> /\ UNCHANGED <<entry, exit>>
    BY <1>2, <1>4 DEF Editing!AddEdge
  <2>2. Mirrored(B, successors', predecessors')
    BY <1>1, <2>1, MirroredAdd
  <2>3. QED
    BY <1>3, <2>1, <2>2
<1>5. ASSUME NEW from \in B, NEW to \in B, Editing!RemoveEdge(from, to)
      PROVE  EditInv'
  <2>1. /\ successors' = [successors EXCEPT ![from] = Editing!RemoveFirst(successors[from], to)]
        /\ predecessors' = [predecessors EXCEPT ![to] = Editing!RemoveFirst(predecessors[to], from)]
        /\ Listed(successors[from], to)
        /\ UNCHANGED <<payloads, appended>> /\ UNCHANGED <<entry, exit>>
    BY <1>2, <1>5 DEF Editing!RemoveEdge
  <2>2. Mirrored(B, successors', predecessors')
    BY <1>1, <2>1, MirroredRemove
  <2>3. QED
    BY <1>3, <2>1, <2>2
<1>6. ASSUME Editing!AppendNode PROVE EditInv'
  <2> DEFINE C == 0 .. Len(payloads)
  <2>1. /\ payloads' = Append(payloads, appended + 1) /\ appended' = appended + 1
        /\ successors' = [b \in C |-> IF b \in B THEN successors[b] ELSE <<>>]
        /\ predecessors' = [b \in C |-> IF b \in B THEN predecessors[b] ELSE <<>>]
        /\ entry' = 0 /\ exit' = 1
    BY <1>1, <1>6 DEF Editing!AppendNode
  <2>2. /\ payloads \in Seq(Nat) /\ Distinct(payloads) /\ appended \in Nat
        /\ \A i \in 1 .. Len(payloads) : payloads[i] <= appended
    BY <1>1 DEF PayloadsOK
  <2>3. /\ payloads' \in Seq(Nat) /\ Len(payloads') = Len(payloads) + 1
        /\ payloads'[Len(payloads) + 1] = appended + 1
        /\ \A i \in 1 .. Len(payloads) : payloads'[i] = payloads[i]
    BY <2>1, <2>2
  <2>4. PayloadsOK'
    <3>1. \A i \in 1 .. Len(payloads') : i \in 1 .. Len(payloads) \/ i = Len(payloads) + 1
      BY <1>1, <2>3
    <3>2. \A i \in 1 .. Len(payloads) : payloads[i] \in Nat
      BY <2>2
    <3>3. \A i \in 1 .. Len(payloads') : payloads'[i] <= appended'
      BY <2>1, <2>2, <2>3, <3>1, <3>2
    <3>4. ASSUME NEW i \in 1 .. Len(payloads'), NEW j \in 1 .. Len(payloads'), payloads'[i] = payloads'[j]
          PROVE  i = j
      <4>1. CASE i \in 1 .. Len(payloads) /\ j \in 1 .. Len(payloads)
        BY <2>2, <2>3, <3>4, <4>1 DEF Distinct
      <4>2. CASE i = Len(payloads) + 1 /\ j \in 1 .. Len(payloads)
        BY <2>2, <2>3, <3>2, <3>4, <4>2
      <4>3. CASE i \in 1 .. Len(payloads) /\ j = Len(payloads) + 1
        BY <2>2, <2>3, <3>2, <3>4, <4>3
      <4>4. CASE i = Len(payloads) + 1 /\ j = Len(payloads) + 1
        BY <4>4
      <4>5. QED
        BY <3>1, <4>1, <4>2, <4>3, <4>4
    <3>5. QED
      BY <1>1, <2>1, <2>2, <2>3, <3>3, <3>4 DEF PayloadsOK, Distinct
  <2>5. Editing!blocks' = C
    BY <1>1, <2>3 DEF Editing!blocks
  <2>6. B \subseteq C
    BY <1>1
  <2> HIDE DEF B, C
  <2>7. Mirrored(C, successors', predecessors')
    <3>1. Mirrored(C, [b \in C |-> IF b \in B THEN successors[b] ELSE <<>>],
                      [b \in C |-> IF b \in B THEN predecessors[b] ELSE <<>>])
      BY <1>1, <2>6, MirroredAppend
    <3>2. QED
      BY <2>1, <3>1
  <2>8. Mirrored(Editing!blocks', successors', predecessors')
    BY <2>5, <2>7
  <2>9. QED
    BY <2>1, <2>4, <2>8 DEF EditInv
<1>7. ASSUME Editing!Prune PROVE EditInv'
  <2> DEFINE size == Cardinality(Editing!Kept)
  <2> DEFINE N == 0 .. size - 1
  <2>1. /\ payloads' = [i \in 1 .. size |-> payloads[Editing!WithNumber(i - 1) + 1]]
        /\ successors' = [n \in N |-> Editing!RenumberedList(successors[Editing!WithNumber(n)])]
        /\ predecessors' = [n \in N |-> Editing!RenumberedList(predecessors[Editing!WithNumber(n)])]
        /\ entry' = Editing!Renumbered(entry) /\ exit' = Editing!Renumbered(exit) /\ appended' = appended
    BY <1>7, CardinalityAlike DEF Editing!Prune
  <2>2. /\ size \in Nat /\ size >= 2
        /\ \A n \in N : Editing!WithNumber(n) \in Editing!Kept /\ Editing!Renumbered(Editing!WithNumber(n)) = n
        /\ Editing!Renumbered(0) = 0 /\ Editing!Renumbered(1) = 1
    BY PruneNumbers
  <2>3. /\ payloads \in Seq(Nat) /\ Distinct(payloads) /\ appended \in Nat
        /\ \A i \in 1 .. Len(payloads) : payloads[i] \in Nat /\ payloads[i] <= appended
    BY <1>1 DEF PayloadsOK
  <2> HIDE DEF size
  <2>4. \A i \in 1 .. size : i - 1 \in N
    BY <2>2
  <2> HIDE DEF N
  <2> DEFINE Old(i) == Editing!WithNumber(i - 1) + 1
  <2>5. \A i \in 1 .. size : Old(i) \in 1 .. Len(payloads)
    <3>1. Editing!Kept \subseteq B
      BY KeptFacts
    <3>2. \A i \in 1 .. size : Editing!WithNumber(i - 1) \in B
      BY <2>2, <2>4, <3>1
    <3>3. QED
      BY <1>1, <3>2
  <2>6. \A i, j \in 1 .. size : Old(i) = Old(j) => i = j
    <3> SUFFICES ASSUME NEW i \in 1 .. size, NEW j \in 1 .. size, Old(i) = Old(j) PROVE i = j
      OBVIOUS
    <3>1. Editing!WithNumber(i - 1) \in Nat /\ Editing!WithNumber(j - 1) \in Nat
      BY <2>2, <2>4, KeptFacts DEF KeptFinite
    <3>2. Editing!WithNumber(i - 1) = Editing!WithNumber(j - 1)
      BY <3>1
    <3>3. i - 1 = j - 1
      BY <2>2, <2>4, <3>2
    <3>4. QED
      BY <2>2, <3>3
  <2> HIDE DEF Old
  <2>7. payloads' = [i \in 1 .. size |-> payloads[Old(i)]]
    BY <2>1 DEF Old
  <2>8. /\ payloads' \in Seq(Nat) /\ Len(payloads') = size
        /\ \A i \in 1 .. size : payloads'[i] = payloads[Old(i)]
    <3>1. \A i \in 1 .. size : payloads[Old(i)] \in Nat
      BY <2>3, <2>5
    <3>2. payloads' \in [1 .. size -> Nat]
      BY <2>7, <3>1
    <3>3. QED
      BY <2>2, <2>7, <3>2
  <2>9. PayloadsOK'
    <3>1. Distinct(payloads')
      <4> SUFFICES ASSUME NEW i \in 1 .. size, NEW j \in 1 .. size, payloads'[i] = payloads'[j] PROVE i = j
        BY <2>8 DEF Distinct
      <4>1. payloads[Old(i)] = payloads[Old(j)]
        BY <2>8
      <4>2. QED
        BY <2>3, <2>5, <2>6, <4>1 DEF Distinct
    <3>2. \A i \in 1 .. size : payloads'[i] <= appended'
      BY <2>1, <2>3, <2>5, <2>8
    <3>3. QED
      BY <2>1, <2>2, <2>3, <2>8, <3>1, <3>2 DEF PayloadsOK
  <2>10. Editing!blocks' = N
    BY <2>8 DEF Editing!blocks, N
  <2>11. Mirrored(N, successors', predecessors')
    BY <2>1, MirroredPrune DEF N, size
  <2>12. Mirrored(Editing!blocks', successors', predecessors')
    BY <2>10, <2>11
  <2>13. entry' = 0 /\ exit' = 1
    BY <1>1, <2>1, <2>2
  <2>14. QED
    BY <2>9, <2>12, <2>13 DEF EditInv
<1>8. CASE UNCHANGED Editing!vars
  <2>1. /\ UNCHANGED <<payloads, appended>> /\ UNCHANGED <<entry, exit>>
        /\ successors' = successors /\ predecessors' = predecessors
    BY <1>8 DEF Editing!vars
  <2>2. Mirrored(B, successors', predecessors')
    BY <1>1, <2>1
  <2>3. QED
    BY <1>3, <2>1, <2>2
<1>9. QED
  BY <1>4, <1>5, <1>6, <1>7, <1>8 DEF Editing!Next

(* "Edge sets are deduplicated and mirrored between successor and            *)
(* predecessor lists", after any number of add_edge, remove_edge,            *)
(* append_node and into_reachable_subgraph, whatever their order.            *)
THEOREM EdgesAreMirrored == Editing!Spec => []EdgesMirrored
<1>1. Editing!Spec => []EditInv
  BY EditInit, EditStep, PTL DEF Editing!Spec
<1>2. QED
  BY <1>1, EditTyped, PTL

(* The graph h is the part K of the graph g under the names f: it has the    *)
(* edges among those blocks, and no edge leads out of L.                     *)
Alike(B, N, g, h, K, L, f) ==
    /\ g \in [B -> SUBSET B] /\ h \in [N -> SUBSET N]
    /\ K \subseteq B /\ L \subseteq K /\ \A b \in L : g[b] \subseteq L
    /\ f \in [K -> N] /\ \A n \in N : \E b \in K : f[b] = n
    /\ \A a, b \in K : f[a] = f[b] => a = b
    /\ \A a, b \in K : b \in g[a] <=> f[b] \in h[f[a]]

(* Reach is the least closed set with the block. *)
LEMMA EditReachLeast ==
    ASSUME NEW B, NEW g \in [B -> SUBSET B], NEW a \in B
    PROVE  /\ Editing!Reach(a, g) \subseteq B /\ a \in Editing!Reach(a, g)
           /\ \A b \in Editing!Reach(a, g) : g[b] \subseteq Editing!Reach(a, g)
           /\ \A S \in SUBSET B : a \in S /\ (\A b \in S : g[b] \subseteq S) => Editing!Reach(a, g) \subseteq S
<1>1. Editing!Reach(a, g) = Reach(a, g)
  BY DEF Editing!Reach, Editing!Closed, Reach, Closed
<1>2. QED
  BY <1>1, ReachLeast

(* The ways from a block stay the same under the new names. *)
LEMMA AlikeReach ==
    ASSUME NEW B, NEW N, NEW g, NEW h, NEW K, NEW L, NEW f, Alike(B, N, g, h, K, L, f), NEW a \in L
    PROVE  /\ Editing!Reach(a, g) \subseteq L
           /\ Editing!Reach(f[a], h) = {f[b] : b \in Editing!Reach(a, g)}
<1>1. /\ g \in [B -> SUBSET B] /\ h \in [N -> SUBSET N]
      /\ K \subseteq B /\ L \subseteq K /\ \A b \in L : g[b] \subseteq L
      /\ f \in [K -> N] /\ \A n \in N : \E b \in K : f[b] = n
      /\ \A b, c \in K : f[b] = f[c] => b = c
      /\ \A b, c \in K : c \in g[b] <=> f[c] \in h[f[b]]
  BY DEF Alike
<1>2. a \in K /\ a \in B /\ f[a] \in N /\ L \in SUBSET B
  BY <1>1
<1> DEFINE R == Editing!Reach(a, g)
<1> DEFINE Q == Editing!Reach(f[a], h)
<1>3. /\ R \subseteq B /\ a \in R /\ \A b \in R : g[b] \subseteq R
      /\ \A S \in SUBSET B : a \in S /\ (\A b \in S : g[b] \subseteq S) => R \subseteq S
  BY <1>1, <1>2, EditReachLeast
<1>4. /\ Q \subseteq N /\ f[a] \in Q /\ \A n \in Q : h[n] \subseteq Q
      /\ \A S \in SUBSET N : f[a] \in S /\ (\A n \in S : h[n] \subseteq S) => Q \subseteq S
  BY <1>1, <1>2, EditReachLeast
<1> HIDE DEF R, Q
<1>5. R \subseteq L
  BY <1>1, <1>2, <1>3
<1>6. ASSUME NEW b \in R PROVE f[b] \in Q
  <2> DEFINE S == {c \in L : f[c] \in Q}
  <2>1. S \in SUBSET B /\ a \in S
    BY <1>2, <1>4
  <2>2. ASSUME NEW c \in S, NEW d \in g[c] PROVE d \in S
    <3>1. c \in L /\ d \in L /\ c \in K /\ d \in K
      BY <1>1
    <3>2. f[d] \in h[f[c]] /\ f[c] \in Q
      BY <1>1, <3>1
    <3>3. QED
      BY <1>4, <3>1, <3>2
  <2> HIDE DEF S
  <2>3. R \subseteq S
    BY <1>3, <2>1, <2>2
  <2>4. QED
    BY <2>3 DEF S
<1>7. ASSUME NEW n \in Q PROVE \E b \in R : f[b] = n
  <2> DEFINE S == {f[b] : b \in R}
  <2>1. S \in SUBSET N /\ f[a] \in S
    BY <1>1, <1>3, <1>5
  <2>2. ASSUME NEW m \in S, NEW o \in h[m] PROVE o \in S
    <3>1. PICK b \in R : f[b] = m
      OBVIOUS
    <3>2. b \in K /\ o \in N
      BY <1>1, <1>5, <2>1
    <3>3. PICK c \in K : f[c] = o
      BY <1>1, <3>2
    <3>4. c \in g[b]
      BY <1>1, <3>1, <3>2, <3>3
    <3>5. c \in R
      BY <1>3, <3>4
    <3>6. QED
      BY <3>3, <3>5
  <2> HIDE DEF S
  <2>3. Q \subseteq S
    BY <1>4, <2>1, <2>2
  <2>4. QED
    BY <2>3 DEF S
<1>8. QED
  BY <1>5, <1>6, <1>7 DEF R, Q

(* So it is without the ways through a block. *)
LEMMA AlikeAvoiding ==
    ASSUME NEW B, NEW N, NEW g, NEW h, NEW K, NEW L, NEW f, Alike(B, N, g, h, K, L, f), NEW x \in K
    PROVE  Alike(B, N, Editing!Avoiding(x, g), Editing!Avoiding(f[x], h), K, L, f)
<1> DEFINE gg == Editing!Avoiding(x, g)
<1> DEFINE hh == Editing!Avoiding(f[x], h)
<1>1. /\ g \in [B -> SUBSET B] /\ h \in [N -> SUBSET N]
      /\ K \subseteq B /\ L \subseteq K /\ \A b \in L : g[b] \subseteq L
      /\ f \in [K -> N] /\ \A n \in N : \E b \in K : f[b] = n
      /\ \A b, c \in K : f[b] = f[c] => b = c
      /\ \A b, c \in K : c \in g[b] <=> f[c] \in h[f[b]]
  BY DEF Alike
<1>2. gg = [b \in B |-> IF b = x THEN {} ELSE g[b]] /\ hh = [n \in N |-> IF n = f[x] THEN {} ELSE h[n]]
  <2>1. DOMAIN g = B /\ DOMAIN h = N
    BY <1>1
  <2>2. QED
    BY <2>1 DEF Editing!Avoiding
<1> HIDE DEF gg, hh
<1>3. gg \in [B -> SUBSET B] /\ hh \in [N -> SUBSET N]
  BY <1>1, <1>2
<1>4. \A b \in L : gg[b] \subseteq L
  BY <1>1, <1>2
<1>5. \A b, c \in K : c \in gg[b] <=> f[c] \in hh[f[b]]
  BY <1>1, <1>2
<1>6. QED
  BY <1>1, <1>3, <1>4, <1>5 DEF Alike, gg, hh

(* A block that cannot be reached is on no way. *)
LEMMA AvoidUnreachable ==
    ASSUME NEW B, NEW g \in [B -> SUBSET B], NEW e \in B, NEW x, x \notin Editing!Reach(e, g)
    PROVE  Editing!Reach(e, g) \subseteq Editing!Reach(e, Editing!Avoiding(x, g))
<1> DEFINE gg == Editing!Avoiding(x, g)
<1>1. gg = [b \in B |-> IF b = x THEN {} ELSE g[b]]
  <2>1. DOMAIN g = B
    OBVIOUS
  <2>2. QED
    BY <2>1 DEF Editing!Avoiding
<1> HIDE DEF gg
<1>2. gg \in [B -> SUBSET B]
  BY <1>1
<1> DEFINE R == Editing!Reach(e, g)
<1> DEFINE Q == Editing!Reach(e, gg)
<1>3. /\ R \subseteq B /\ e \in R /\ \A b \in R : g[b] \subseteq R
      /\ \A S \in SUBSET B : e \in S /\ (\A b \in S : g[b] \subseteq S) => R \subseteq S
  BY EditReachLeast
<1>4. Q \subseteq B /\ e \in Q /\ \A b \in Q : gg[b] \subseteq Q
  BY <1>2, EditReachLeast
<1>5. x \notin R
  OBVIOUS
<1> HIDE DEF R, Q
<1>6. R \subseteq R \cap Q
  <2>1. R \cap Q \in SUBSET B /\ e \in R \cap Q
    BY <1>3, <1>4
  <2>2. ASSUME NEW b \in R \cap Q PROVE g[b] \subseteq R \cap Q
    <3>1. b # x /\ b \in B
      BY <1>3, <1>5
    <3>2. gg[b] = g[b]
      BY <1>1, <3>1
    <3>3. QED
      BY <1>3, <1>4, <3>2
  <2>3. QED
    BY <1>3, <2>1, <2>2
<1>7. QED
  BY <1>6 DEF R, Q, gg

(* The dominators of a block stay the same under the new names. *)
LEMMA AlikeDominates ==
    ASSUME NEW B, NEW N, NEW g, NEW h, NEW K, NEW L, NEW f, Alike(B, N, g, h, K, L, f),
           NEW e \in L, L = Editing!Reach(e, g), NEW b \in L
    PROVE  /\ \A a \in B : Editing!StrictlyDominates(e, a, b, g) => a \in K
           /\ \A a \in K : Editing!StrictlyDominates(f[e], f[a], f[b], h) <=> Editing!StrictlyDominates(e, a, b, g)
<1>1. /\ g \in [B -> SUBSET B] /\ h \in [N -> SUBSET N]
      /\ K \subseteq B /\ L \subseteq K
      /\ f \in [K -> N] /\ \A c, d \in K : f[c] = f[d] => c = d
  BY DEF Alike
<1>2. ASSUME NEW a \in B, Editing!StrictlyDominates(e, a, b, g) PROVE a \in K
  <2>1. b \notin Editing!Reach(e, Editing!Avoiding(a, g))
    BY <1>2 DEF Editing!StrictlyDominates
  <2>2. a \in Editing!Reach(e, g)
    BY <1>1, <2>1, AvoidUnreachable
  <2>3. QED
    BY <1>1, <2>2
<1>3. ASSUME NEW a \in K
      PROVE  Editing!StrictlyDominates(f[e], f[a], f[b], h) <=> Editing!StrictlyDominates(e, a, b, g)
  <2>1. a = b <=> f[a] = f[b]
    BY <1>1
  <2>2. /\ Editing!Reach(e, g) \subseteq L
        /\ Editing!Reach(f[e], h) = {f[c] : c \in Editing!Reach(e, g)}
    BY AlikeReach
  <2> DEFINE gg == Editing!Avoiding(a, g)
  <2> DEFINE hh == Editing!Avoiding(f[a], h)
  <2>3. Alike(B, N, gg, hh, K, L, f)
    BY AlikeAvoiding
  <2> HIDE DEF gg, hh
  <2>4. /\ Editing!Reach(e, gg) \subseteq L
        /\ Editing!Reach(f[e], hh) = {f[c] : c \in Editing!Reach(e, gg)}
    BY <2>3, AlikeReach
  <2>5. \A S \in SUBSET L : f[b] \in {f[c] : c \in S} <=> b \in S
    BY <1>1
  <2>6. f[b] \in Editing!Reach(f[e], h) <=> b \in Editing!Reach(e, g)
    BY <2>2, <2>5
  <2>7. f[b] \in Editing!Reach(f[e], hh) <=> b \in Editing!Reach(e, gg)
    BY <2>4, <2>5
  <2>8. QED
    BY <2>1, <2>6, <2>7 DEF Editing!StrictlyDominates, gg, hh
<1>4. QED
  BY <1>2, <1>3

(* So is which blocks lie on cycles. *)
LEMMA AlikeCycle ==
    ASSUME NEW B, NEW N, NEW g, NEW h, NEW K, NEW L, NEW f, Alike(B, N, g, h, K, L, f), NEW b \in L
    PROVE  Editing!OnCycle(f[b], h) <=> Editing!OnCycle(b, g)
<1>1. /\ g \in [B -> SUBSET B] /\ h \in [N -> SUBSET N]
      /\ K \subseteq B /\ L \subseteq K /\ \A c \in L : g[c] \subseteq L
      /\ f \in [K -> N] /\ \A n \in N : \E c \in K : f[c] = n
      /\ \A c, d \in K : f[c] = f[d] => c = d
      /\ \A c, d \in K : d \in g[c] <=> f[d] \in h[f[c]]
  BY DEF Alike
<1>2. \A c \in L : f[b] \in Editing!Reach(f[c], h) <=> b \in Editing!Reach(c, g)
  <2> SUFFICES ASSUME NEW c \in L PROVE f[b] \in Editing!Reach(f[c], h) <=> b \in Editing!Reach(c, g)
    OBVIOUS
  <2>1. /\ Editing!Reach(c, g) \subseteq L
        /\ Editing!Reach(f[c], h) = {f[d] : d \in Editing!Reach(c, g)}
    BY AlikeReach
  <2>2. QED
    BY <1>1, <2>1
<1>3. ASSUME Editing!OnCycle(b, g) PROVE Editing!OnCycle(f[b], h)
  <2>1. PICK c \in g[b] : b \in Editing!Reach(c, g)
    BY <1>3 DEF Editing!OnCycle
  <2>2. c \in L /\ f[c] \in h[f[b]]
    BY <1>1
  <2>3. QED
    BY <1>2, <2>1, <2>2 DEF Editing!OnCycle
<1>4. ASSUME Editing!OnCycle(f[b], h) PROVE Editing!OnCycle(b, g)
  <2>1. PICK n \in h[f[b]] : f[b] \in Editing!Reach(n, h)
    BY <1>4 DEF Editing!OnCycle
  <2>2. n \in N
    BY <1>1
  <2>3. PICK c \in K : f[c] = n
    BY <1>1, <2>2
  <2>4. c \in g[b] /\ c \in L
    BY <1>1, <2>1, <2>3
  <2>5. QED
    BY <1>2, <2>1, <2>3, <2>4 DEF Editing!OnCycle
<1>5. QED
  BY <1>3, <1>4

(* What an analysis says of a block, and of all that can be reached from e,  *)
(* told by payloads.                                                         *)
Tell(pay, B, e, g, b) ==
    [next |-> {pay[c + 1] : c \in g[b]},
     ways |-> {pay[c + 1] : c \in Editing!Reach(b, g)},
     dominators |-> {pay[c + 1] : c \in {a \in B : Editing!StrictlyDominates(e, a, b, g)}},
     cyclic |-> Editing!OnCycle(b, g)]
TellAll(pay, B, e, g) ==
    [p \in {pay[c + 1] : c \in Editing!Reach(e, g)} |-> Tell(pay, B, e, g, CHOOSE c \in B : pay[c + 1] = p)]

(* It stays the same under the new names. *)
LEMMA AlikeTold ==
    ASSUME NEW B, NEW N, NEW g, NEW h, NEW K, NEW L, NEW f, Alike(B, N, g, h, K, L, f),
           NEW e \in L, L = Editing!Reach(e, g), NEW pay, NEW ppay,
           \A a, b \in B : pay[a + 1] = pay[b + 1] => a = b,
           \A a, b \in N : ppay[a + 1] = ppay[b + 1] => a = b,
           \A b \in K : ppay[f[b] + 1] = pay[b + 1]
    PROVE  TellAll(ppay, N, f[e], h) = TellAll(pay, B, e, g)
<1>1. /\ g \in [B -> SUBSET B] /\ h \in [N -> SUBSET N]
      /\ K \subseteq B /\ L \subseteq K /\ \A c \in L : g[c] \subseteq L
      /\ f \in [K -> N] /\ \A n \in N : \E c \in K : f[c] = n
      /\ \A c, d \in K : f[c] = f[d] => c = d
      /\ \A c, d \in K : d \in g[c] <=> f[d] \in h[f[c]]
  BY DEF Alike
<1>2. \A S \in SUBSET K : {ppay[n + 1] : n \in {f[c] : c \in S}} = {pay[c + 1] : c \in S}
  OBVIOUS
<1>3. ASSUME NEW b \in L
      PROVE  Tell(ppay, N, f[e], h, f[b]) = Tell(pay, B, e, g, b)
  <2>1. h[f[b]] = {f[c] : c \in g[b]} /\ g[b] \in SUBSET K
    <3>1. f[b] \in N /\ h[f[b]] \subseteq N
      BY <1>1
    <3>2. \A c \in g[b] : f[c] \in h[f[b]]
      BY <1>1
    <3>3. \A n \in h[f[b]] : \E c \in g[b] : f[c] = n
      BY <1>1, <3>1
    <3>4. QED
      BY <1>1, <3>2, <3>3
  <2>2. Editing!Reach(f[b], h) = {f[c] : c \in Editing!Reach(b, g)} /\ Editing!Reach(b, g) \in SUBSET K
    BY <1>1, AlikeReach
  <2> DEFINE D == {a \in B : Editing!StrictlyDominates(e, a, b, g)}
  <2> DEFINE E == {a \in N : Editing!StrictlyDominates(f[e], a, f[b], h)}
  <2>3. E = {f[c] : c \in D} /\ D \in SUBSET K
    <3>1. /\ \A a \in B : Editing!StrictlyDominates(e, a, b, g) => a \in K
          /\ \A a \in K : Editing!StrictlyDominates(f[e], f[a], f[b], h) <=> Editing!StrictlyDominates(e, a, b, g)
      BY AlikeDominates
    <3>2. D \in SUBSET K
      BY <3>1
    <3>3. \A c \in D : f[c] \in E
      BY <1>1, <3>1
    <3>4. \A n \in E : \E c \in D : f[c] = n
      <4> SUFFICES ASSUME NEW n \in E PROVE \E c \in D : f[c] = n
        OBVIOUS
      <4>1. PICK c \in K : f[c] = n
        BY <1>1
      <4>2. c \in D
        BY <1>1, <3>1, <4>1
      <4>3. QED
        BY <4>1, <4>2
    <3> HIDE DEF D, E
    <3>5. QED
      BY <3>2, <3>3, <3>4
  <2> HIDE DEF D, E
  <2>4. Editing!OnCycle(f[b], h) = Editing!OnCycle(b, g)
    <3>1. Editing!OnCycle(f[b], h) <=> Editing!OnCycle(b, g)
      BY AlikeCycle
    <3>2. Editing!OnCycle(f[b], h) \in BOOLEAN /\ Editing!OnCycle(b, g) \in BOOLEAN
      BY DEF Editing!OnCycle
    <3>3. QED
      BY <3>1, <3>2
  <2>5. {ppay[c + 1] : c \in h[f[b]]} = {pay[c + 1] : c \in g[b]}
    BY <1>2, <2>1
  <2>6. {ppay[c + 1] : c \in Editing!Reach(f[b], h)} = {pay[c + 1] : c \in Editing!Reach(b, g)}
    BY <1>2, <2>2
  <2>7. {ppay[c + 1] : c \in E} = {pay[c + 1] : c \in D}
    BY <1>2, <2>3
  <2>8. QED
    BY <2>4, <2>5, <2>6, <2>7 DEF Tell, D, E
<1>4. Editing!Reach(f[e], h) = {f[c] : c \in L}
  BY AlikeReach
<1>5. {ppay[n + 1] : n \in Editing!Reach(f[e], h)} = {pay[c + 1] : c \in L}
  BY <1>1, <1>2, <1>4
<1>6. ASSUME NEW p \in {pay[c + 1] : c \in L}
      PROVE  Tell(ppay, N, f[e], h, CHOOSE n \in N : ppay[n + 1] = p)
             = Tell(pay, B, e, g, CHOOSE c \in B : pay[c + 1] = p)
  <2>1. PICK b \in L : pay[b + 1] = p
    BY <1>6
  <2>2. b \in B /\ b \in K /\ f[b] \in N /\ ppay[f[b] + 1] = p
    BY <1>1, <2>1
  <2>3. (CHOOSE c \in B : pay[c + 1] = p) = b
    BY <2>1, <2>2
  <2>4. (CHOOSE n \in N : ppay[n + 1] = p) = f[b]
    BY <2>2
  <2>5. QED
    BY <1>3, <2>3, <2>4
<1> DEFINE P == {pay[c + 1] : c \in L}
<1> DEFINE X(p) == Tell(ppay, N, f[e], h, CHOOSE n \in N : ppay[n + 1] = p)
<1> DEFINE Y(p) == Tell(pay, B, e, g, CHOOSE c \in B : pay[c + 1] = p)
<1>7. TellAll(ppay, N, f[e], h) = [p \in P |-> X(p)] /\ TellAll(pay, B, e, g) = [p \in P |-> Y(p)]
  BY <1>5 DEF TellAll
<1>8. \A p \in P : X(p) = Y(p)
  BY <1>6
<1> HIDE DEF P, X, Y
<1>9. [p \in P |-> X(p)] = [p \in P |-> Y(p)]
  BY <1>8
<1>10. QED
  BY <1>7, <1>9

(* A list of lists as a graph. *)
LEMMA ListGraph ==
    ASSUME NEW B, NEW s \in [B -> Seq(B)]
    PROVE  LET g == [b \in B |-> Editing!ToSet(s[b])]
           IN  g \in [B -> SUBSET B] /\ \A a, b \in B : b \in g[a] <=> Listed(s[a], b)
<1>1. \A q \in Seq(B) : Editing!ToSet(q) \in SUBSET B /\ \A b : b \in Editing!ToSet(q) <=> Listed(q, b)
  <2>1. \A q \in Seq(B) : DOMAIN q = 1 .. Len(q) /\ \A i \in 1 .. Len(q) : q[i] \in B
    OBVIOUS
  <2>2. QED
    BY <2>1 DEF Editing!ToSet, Listed
<1>2. QED
  BY <1>1

(* The pruned graph is the part of the graph that is kept, renumbered. *)
NewNumber == [b \in Editing!Kept |-> Editing!Renumbered(b)]

(* A pruned graph is the old one under new numbers. *)
LEMMA PruneAlike ==
    ASSUME EditInv, EditInv', Editing!Prune
    PROVE  /\ Alike(Editing!blocks, Editing!blocks', Editing!Graph, Editing!Graph', Editing!Kept, Editing!Live, NewNumber)
           /\ \A b \in Editing!Kept : payloads'[NewNumber[b] + 1] = payloads[b + 1]
           /\ NewNumber[0] = 0 /\ NewNumber[1] = 1
<1> DEFINE B == Editing!blocks
<1> DEFINE N == Editing!blocks'
<1> DEFINE g == Editing!Graph
<1> DEFINE h == Editing!Graph'
<1> DEFINE K == Editing!Kept
<1> DEFINE L == Editing!Live
<1> DEFINE size == Cardinality(K)
<1>1. /\ g \in [B -> SUBSET B] /\ \A a, b \in B : b \in g[a] <=> Listed(successors[a], b)
      /\ 0 \in L /\ L \subseteq K /\ K = L \cup {1} /\ K \subseteq B /\ KeptFinite
  BY KeptFacts
<1>2. /\ size \in Nat /\ size >= 2
      /\ \A n \in 0 .. size - 1 : Editing!WithNumber(n) \in K /\ Editing!Renumbered(Editing!WithNumber(n)) = n
      /\ \A b \in K : Editing!Renumbered(b) \in 0 .. size - 1 /\ Editing!WithNumber(Editing!Renumbered(b)) = b
      /\ Editing!Renumbered(0) = 0 /\ Editing!Renumbered(1) = 1
  BY PruneNumbers
<1>3. /\ payloads' = [i \in 1 .. size |-> payloads[Editing!WithNumber(i - 1) + 1]]
      /\ successors' = [n \in 0 .. size - 1 |-> Editing!RenumberedList(successors[Editing!WithNumber(n)])]
  BY CardinalityAlike DEF Editing!Prune
<1>4. N = 0 .. size - 1
  <2>1. Len(payloads') = size
    <3> DEFINE len == size
    <3>1. payloads' \in Seq(Nat) /\ DOMAIN payloads' = 1 .. len /\ len \in Nat
      BY <1>2, <1>3 DEF EditInv, PayloadsOK
    <3> HIDE DEF len
    <3>2. Len(payloads') = len
      BY <3>1
    <3>3. QED
      BY <3>2 DEF len
  <2>2. QED
    BY <2>1 DEF Editing!blocks
<1>5. /\ h \in [N -> SUBSET N] /\ \A a, b \in N : b \in h[a] <=> Listed(successors'[a], b)
  <2>1. successors' \in [N -> Seq(N)]
    BY DEF EditInv, Mirrored
  <2>2. h = [n \in N |-> Editing!ToSet(successors'[n])]
    BY DEF Editing!Graph
  <2> HIDE DEF N, h
  <2>3. QED
    BY <2>1, <2>2, ListGraph
<1>6. /\ successors \in [B -> Seq(B)] /\ \A a \in B : Distinct(successors[a])
  BY DEF EditInv, Mirrored
<1>7. B \subseteq Nat /\ 0 \in B /\ 1 \in B
  BY DEF EditInv, PayloadsOK, Editing!blocks
<1>8. \A b \in L : g[b] \subseteq L
  <2>1. L = Editing!Reach(0, g)
    BY DEF EditInv, Editing!Live
  <2> HIDE DEF L, g, B
  <2>2. QED
    BY <1>1, <1>7, <2>1, EditReachLeast
<1>9. \A b \in K : NewNumber[b] = Editing!Renumbered(b)
  BY DEF NewNumber
<1>10. NewNumber \in [K -> N]
  BY <1>2, <1>4 DEF NewNumber
<1> HIDE DEF B, g, h, K, L, size
<1>11. \A n \in N : \E b \in K : NewNumber[b] = n
  BY <1>2, <1>4, <1>9
<1>12. \A a, b \in K : NewNumber[a] = NewNumber[b] => a = b
  BY <1>2, <1>9
<1>13. ASSUME NEW a \in K, NEW b \in K
       PROVE  b \in g[a] <=> NewNumber[b] \in h[NewNumber[a]]
  <2>1. a \in B /\ b \in B /\ NewNumber[a] \in N /\ NewNumber[b] \in N
    BY <1>1, <1>10
  <2>2. successors'[NewNumber[a]] = Editing!RenumberedList(successors[a])
    <3>1. NewNumber[a] \in 0 .. size - 1 /\ Editing!WithNumber(NewNumber[a]) = a
      BY <1>2, <1>9
    <3>2. QED
      BY <1>3, <3>1
  <2>3. successors[a] \in Seq(Nat) /\ Distinct(successors[a])
    <3>1. successors[a] \in Seq(B)
      BY <1>6, <2>1
    <3>2. QED
      BY <1>6, <1>7, <2>1, <3>1, WiderSeq
  <2>4. Listed(Editing!RenumberedList(successors[a]), Editing!Renumbered(b)) <=> Listed(successors[a], b)
    BY <1>1, <2>3, ListRenumbered DEF K
  <2>5. QED
    BY <1>1, <1>5, <1>9, <2>1, <2>2, <2>4
<1>14. Alike(B, N, g, h, K, L, NewNumber)
  BY <1>1, <1>5, <1>8, <1>10, <1>11, <1>12, <1>13 DEF Alike
<1>15. ASSUME NEW b \in K PROVE payloads'[NewNumber[b] + 1] = payloads[b + 1]
  <2>1. NewNumber[b] \in 0 .. size - 1 /\ Editing!WithNumber(NewNumber[b]) = b
    BY <1>2, <1>9
  <2>2. NewNumber[b] + 1 \in 1 .. size /\ (NewNumber[b] + 1) - 1 = NewNumber[b]
    BY <1>2, <2>1
  <2>3. QED
    BY <1>3, <2>1, <2>2
<1>16. NewNumber[0] = 0 /\ NewNumber[1] = 1
  BY <1>1, <1>2, <1>9
<1>17. QED
  BY <1>14, <1>15, <1>16 DEF B, g, h, K, L

(* into_reachable_subgraph keeps the meaning of what can be reached. *)
LEMMA PruneTold ==
    ASSUME EditInv, EditInv', Editing!Prune
    PROVE  /\ Editing!Told' = Editing!Told
           /\ Editing!blocks' \ {exit'} \subseteq Editing!Live'
           /\ Editing!Kept' = Editing!blocks'
<1> DEFINE B == Editing!blocks
<1> DEFINE N == Editing!blocks'
<1> DEFINE g == Editing!Graph
<1> DEFINE h == Editing!Graph'
<1> DEFINE K == Editing!Kept
<1> DEFINE L == Editing!Live
<1> DEFINE f == NewNumber
<1>1. /\ Alike(B, N, g, h, K, L, f) /\ f[0] = 0 /\ f[1] = 1
      /\ \A b \in K : payloads'[f[b] + 1] = payloads[b + 1]
  BY PruneAlike
<1>2. 0 \in L /\ K = L \cup {1} /\ L = Editing!Reach(0, g)
  BY KeptFacts DEF EditInv, Editing!Live
<1>3. entry = 0 /\ entry' = 0 /\ exit' = 1
  BY DEF EditInv
<1>4. Editing!Told = TellAll(payloads, B, 0, g)
  BY <1>3 DEF Editing!Told, TellAll, Tell, Editing!ByPayload, Editing!Live
<1>5. Editing!Told' = TellAll(payloads', N, 0, h)
  BY <1>3 DEF Editing!Told, TellAll, Tell, Editing!ByPayload, Editing!Live
<1>6. \A a, b \in B : payloads[a + 1] = payloads[b + 1] => a = b
  <2>1. Distinct(payloads) /\ B = 0 .. Len(payloads) - 1 /\ Len(payloads) \in Nat
    BY DEF EditInv, PayloadsOK, Editing!blocks
  <2> HIDE DEF B
  <2> SUFFICES ASSUME NEW a \in B, NEW b \in B, payloads[a + 1] = payloads[b + 1] PROVE a = b
    OBVIOUS
  <2>2. a \in Nat /\ b \in Nat /\ a + 1 \in 1 .. Len(payloads) /\ b + 1 \in 1 .. Len(payloads)
    BY <2>1
  <2>3. a + 1 = b + 1
    BY <2>1, <2>2 DEF Distinct
  <2>4. QED
    BY <2>2, <2>3
<1>7. \A a, b \in N : payloads'[a + 1] = payloads'[b + 1] => a = b
  <2>1. Distinct(payloads') /\ N = 0 .. Len(payloads') - 1 /\ Len(payloads') \in Nat
    BY DEF EditInv, PayloadsOK, Editing!blocks
  <2> HIDE DEF N
  <2> SUFFICES ASSUME NEW a \in N, NEW b \in N, payloads'[a + 1] = payloads'[b + 1] PROVE a = b
    OBVIOUS
  <2>2. a \in Nat /\ b \in Nat /\ a + 1 \in 1 .. Len(payloads') /\ b + 1 \in 1 .. Len(payloads')
    BY <2>1
  <2>3. a + 1 = b + 1
    BY <2>1, <2>2 DEF Distinct
  <2>4. QED
    BY <2>2, <2>3
<1>8. Editing!Live' = Editing!Reach(0, h)
  BY <1>3 DEF Editing!Live
<1>9. Editing!Kept' = Editing!Live' \cup {1}
  BY <1>3 DEF Editing!Live, Editing!Kept
<1> DEFINE pay == payloads
<1> DEFINE ppay == payloads'
<1> HIDE DEF B, N, g, h, K, L, f, pay, ppay
<1>10. TellAll(ppay, N, f[0], h) = TellAll(pay, B, 0, g)
  <2>1. \A a, b \in B : pay[a + 1] = pay[b + 1] => a = b
    BY <1>6 DEF pay
  <2>2. \A a, b \in N : ppay[a + 1] = ppay[b + 1] => a = b
    BY <1>7 DEF ppay
  <2>3. \A b \in K : ppay[f[b] + 1] = pay[b + 1]
    BY <1>1 DEF pay, ppay
  <2>4. QED
    BY <1>1, <1>2, <2>1, <2>2, <2>3, AlikeTold
<1>11. Editing!Told' = Editing!Told
  BY <1>1, <1>4, <1>5, <1>10 DEF pay, ppay
<1>12. Editing!Reach(f[0], h) = {f[b] : b \in L}
  BY <1>1, <1>2, AlikeReach
<1>13. Editing!Live' = {f[b] : b \in L}
  BY <1>1, <1>8, <1>12
<1>14. f \in [K -> N] /\ L \subseteq K /\ \A n \in N : \E b \in K : f[b] = n
  BY <1>1 DEF Alike
<1>15. N \ {1} \subseteq Editing!Live'
  BY <1>1, <1>2, <1>13, <1>14
<1>16. Editing!Live' \cup {1} = N
  BY <1>1, <1>2, <1>13, <1>14, <1>15
<1>17. QED
  BY <1>3, <1>9, <1>11, <1>15, <1>16 DEF N

(* into_reachable_subgraph drops what cannot be reached and nothing else:    *)
(* edges, ways, dominators and cycles of the rest stay the same, whatever    *)
(* was done to the graph before.                                             *)
THEOREM PruningKeepsMeaning == Editing!Spec => PruneKeepsMeaning
<1>1. Editing!Spec => []EditInv
  BY EditInit, EditStep, PTL DEF Editing!Spec
<1>2. EditInv /\ EditInv' => Editing!PruneKeeps
  BY PruneTold DEF Editing!PruneKeeps
<1>3. EditInv /\ EditInv' => [Editing!PruneKeeps]_editing_vars
  BY <1>2
<1>4. QED
  BY <1>1, <1>3, PTL DEF PruneKeepsMeaning

-----------------------------------------------------------------------------
(* Walks through a graph in depth, which give the order of finishing *)

(* A walk w through the graph g that has finished the blocks f, the latest   *)
(* first.                                                                    *)
Frames == [block : Blocks, rest : SUBSET Blocks]

Open(w, c) == \E i \in 1 .. Len(w) : w[i].block = c
Met(w, f, c) == Open(w, c) \/ Listed(f, c)

(* Two blocks lie on a cycle together, or are one. *)
Mates(g, a, c) == c \in Reach(a, g) /\ a \in Reach(c, g)

NotAfter(f, c, b) == \E i, j \in 1 .. Len(f) : i <= j /\ f[i] = c /\ f[j] = b

(* Each block is met once, frames lead to the frames before them, and        *)
(* successors are met or still to be visited.                                *)
WalkOK(g, w, f) ==
    /\ w \in Seq(Frames) /\ f \in Seq(Blocks)
    /\ \A i, j \in 1 .. Len(w) : w[i].block = w[j].block => i = j
    /\ Distinct(f)
    /\ \A i \in 1 .. Len(w) : ~Listed(f, w[i].block)
    /\ \A i, j \in 1 .. Len(w) : i < j => w[i].block \in Reach(w[j].block, g)
    /\ \A i \in 1 .. Len(w) : w[i].rest \subseteq g[w[i].block]
    /\ \A i \in 1 .. Len(w) : \A c \in g[w[i].block] : c \in w[i].rest \/ Met(w, f, c)
    /\ \A b : Listed(f, b) => \A c \in g[b] : Met(w, f, c)

(* A finished block lies on a cycle with one that is open, or all that it    *)
(* leads to is finished, and none of it later than the latest block on a     *)
(* cycle with it.                                                            *)
Settled(g, f, a) == \A b \in Reach(a, g) : \E c \in Blocks : Mates(g, a, c) /\ NotAfter(f, c, b)
FinishOK(g, w, f) ==
    \A a : Listed(f, a) => (\E c \in Blocks : Open(w, c) /\ Mates(g, a, c)) \/ Settled(g, f, a)

(* A new walk from a block that is not finished. *)
LEMMA WalkStarts ==
    ASSUME NEW g \in [Blocks -> SUBSET Blocks], NEW f, WalkOK(g, <<>>, f), FinishOK(g, <<>>, f),
           NEW b \in Blocks, ~Listed(f, b)
    PROVE  LET w == <<[block |-> b, rest |-> g[b]]>>
           IN  WalkOK(g, w, f) /\ FinishOK(g, w, f)
<1> DEFINE w == <<[block |-> b, rest |-> g[b]]>>
<1>1. w \in Seq(Frames) /\ Len(w) = 1 /\ w[1].block = b /\ w[1].rest = g[b]
  BY DEF Frames
<1> HIDE DEF w
<1>2. \A i \in 1 .. Len(w) : i = 1
  BY <1>1
<1>3. /\ f \in Seq(Blocks) /\ Distinct(f) /\ \A a : Listed(f, a) => \A c \in g[a] : Met(<<>>, f, c)
      /\ \A c : ~Open(<<>>, c)
  BY DEF WalkOK, Open
<1>4. \A a : Listed(f, a) => \A c \in g[a] : Met(w, f, c)
  BY <1>3 DEF Met
<1>5. WalkOK(g, w, f)
  BY <1>1, <1>2, <1>3, <1>4 DEF WalkOK
<1>6. FinishOK(g, w, f)
  BY <1>3 DEF FinishOK
<1>7. QED
  BY <1>5, <1>6 DEF w

(* A successor that was met is passed over. *)
LEMMA WalkPasses ==
    ASSUME NEW g \in [Blocks -> SUBSET Blocks], NEW w, NEW f, WalkOK(g, w, f), FinishOK(g, w, f),
           NEW t \in Seq(Frames), Len(t) = Len(w), Len(w) >= 1,
           NEW n, Met(w, f, n), t[1].block = w[1].block, t[1].rest = w[1].rest \ {n},
           \A i \in 2 .. Len(w) : t[i] = w[i]
    PROVE  WalkOK(g, t, f) /\ FinishOK(g, t, f)
<1>1. /\ w \in Seq(Frames) /\ f \in Seq(Blocks)
      /\ \A i, j \in 1 .. Len(w) : w[i].block = w[j].block => i = j
      /\ Distinct(f)
      /\ \A i \in 1 .. Len(w) : ~Listed(f, w[i].block)
      /\ \A i, j \in 1 .. Len(w) : i < j => w[i].block \in Reach(w[j].block, g)
      /\ \A i \in 1 .. Len(w) : w[i].rest \subseteq g[w[i].block]
      /\ \A i \in 1 .. Len(w) : \A c \in g[w[i].block] : c \in w[i].rest \/ Met(w, f, c)
      /\ \A b : Listed(f, b) => \A c \in g[b] : Met(w, f, c)
  BY DEF WalkOK
<1>2. Len(w) \in Nat /\ \A i \in 1 .. Len(w) : i = 1 \/ i \in 2 .. Len(w)
  BY <1>1
<1>3. \A i \in 1 .. Len(w) : t[i].block = w[i].block
  BY <1>2
<1>4. \A c : Open(t, c) <=> Open(w, c)
  BY <1>3 DEF Open
<1>5. \A c : Met(t, f, c) <=> Met(w, f, c)
  BY <1>4 DEF Met
<1>6. \A i \in 1 .. Len(w) : t[i].rest \subseteq w[i].rest /\ w[i].rest \subseteq t[i].rest \cup {n}
  BY <1>2
<1>7. WalkOK(g, t, f)
  <2>1. \A i, j \in 1 .. Len(t) : t[i].block = t[j].block => i = j
    BY <1>1, <1>3
  <2>2. \A i \in 1 .. Len(t) : ~Listed(f, t[i].block)
    BY <1>1, <1>3
  <2>3. \A i, j \in 1 .. Len(t) : i < j => t[i].block \in Reach(t[j].block, g)
    BY <1>1, <1>3
  <2>4. \A i \in 1 .. Len(t) : t[i].rest \subseteq g[t[i].block]
    BY <1>1, <1>3, <1>6
  <2>5. \A i \in 1 .. Len(t) : \A c \in g[t[i].block] : c \in t[i].rest \/ Met(t, f, c)
    BY <1>1, <1>3, <1>5, <1>6
  <2>6. \A b : Listed(f, b) => \A c \in g[b] : Met(t, f, c)
    BY <1>1, <1>5
  <2>7. QED
    BY <1>1, <2>1, <2>2, <2>3, <2>4, <2>5, <2>6 DEF WalkOK
<1>8. FinishOK(g, t, f)
  BY <1>4 DEF FinishOK
<1>9. QED
  BY <1>7, <1>8

(* A successor that was not met is gone down to. *)
LEMMA WalkDescends ==
    ASSUME NEW g \in [Blocks -> SUBSET Blocks], NEW w, NEW f, WalkOK(g, w, f), FinishOK(g, w, f),
           NEW t \in Seq(Frames), Len(t) = Len(w) + 1, Len(w) >= 1,
           NEW n \in Blocks, n \in w[1].rest, ~Met(w, f, n), t[1].block = n, t[1].rest = g[n],
           t[2].block = w[1].block, t[2].rest = w[1].rest \ {n},
           \A i \in 2 .. Len(w) : t[i + 1] = w[i]
    PROVE  WalkOK(g, t, f) /\ FinishOK(g, t, f)
<1>1. /\ w \in Seq(Frames) /\ f \in Seq(Blocks)
      /\ \A i, j \in 1 .. Len(w) : w[i].block = w[j].block => i = j
      /\ Distinct(f)
      /\ \A i \in 1 .. Len(w) : ~Listed(f, w[i].block)
      /\ \A i, j \in 1 .. Len(w) : i < j => w[i].block \in Reach(w[j].block, g)
      /\ \A i \in 1 .. Len(w) : w[i].rest \subseteq g[w[i].block]
      /\ \A i \in 1 .. Len(w) : \A c \in g[w[i].block] : c \in w[i].rest \/ Met(w, f, c)
      /\ \A b : Listed(f, b) => \A c \in g[b] : Met(w, f, c)
  BY DEF WalkOK
<1>2. Len(w) \in Nat /\ \A i \in 1 .. Len(w) : i = 1 \/ i \in 2 .. Len(w)
  BY <1>1
<1>3. \A i \in 1 .. Len(w) : w[i].block \in Blocks
  <2>1. \A i \in 1 .. Len(w) : w[i] \in Frames
    BY <1>1
  <2>2. QED
    BY <2>1 DEF Frames
<1>4. \A i \in 1 .. Len(w) : i + 1 \in 1 .. Len(t) /\ t[i + 1].block = w[i].block
  <2>1. \A i \in 1 .. Len(w) : t[i + 1].block = w[i].block
    <3> SUFFICES ASSUME NEW i \in 1 .. Len(w) PROVE t[i + 1].block = w[i].block
      OBVIOUS
    <3>1. CASE i = 1
      BY <3>1
    <3>2. CASE i \in 2 .. Len(w)
      BY <3>2
    <3>3. QED
      BY <1>2, <3>1, <3>2
  <2>2. QED
    BY <1>2, <2>1
<1>5. \A i \in 1 .. Len(w) : t[i + 1].rest \subseteq w[i].rest /\ w[i].rest \subseteq t[i + 1].rest \cup {n}
  <2> SUFFICES ASSUME NEW i \in 1 .. Len(w)
               PROVE  t[i + 1].rest \subseteq w[i].rest /\ w[i].rest \subseteq t[i + 1].rest \cup {n}
    OBVIOUS
  <2>1. CASE i = 1
    BY <2>1
  <2>2. CASE i \in 2 .. Len(w)
    BY <2>2
  <2>3. QED
    BY <1>2, <2>1, <2>2
<1>6. \A i \in 1 .. Len(t) : i = 1 \/ (\E k \in 1 .. Len(w) : i = k + 1)
  <2> SUFFICES ASSUME NEW i \in 1 .. Len(t), i # 1 PROVE \E k \in 1 .. Len(w) : i = k + 1
    OBVIOUS
  <2>1. i - 1 \in 1 .. Len(w) /\ i = (i - 1) + 1
    BY <1>2
  <2>2. QED
    BY <2>1
<1>7. 1 \in 1 .. Len(t) /\ 1 \in 1 .. Len(w)
  BY <1>2
<1>8. \A c : Open(t, c) <=> Open(w, c) \/ c = n
  <2> SUFFICES ASSUME NEW c PROVE Open(t, c) <=> Open(w, c) \/ c = n
    OBVIOUS
  <2>1. ASSUME Open(w, c) PROVE Open(t, c)
    BY <1>4, <2>1 DEF Open
  <2>2. ASSUME c = n PROVE Open(t, c)
    BY <1>7, <2>2 DEF Open
  <2>3. ASSUME Open(t, c), c # n PROVE Open(w, c)
    <3>1. PICK i \in 1 .. Len(t) : t[i].block = c
      BY <2>3 DEF Open
    <3>2. PICK k \in 1 .. Len(w) : i = k + 1
      BY <1>6, <2>3, <3>1
    <3>3. QED
      BY <1>4, <3>1, <3>2 DEF Open
  <2>4. QED
    BY <2>1, <2>2, <2>3
<1>9. \A c : Met(t, f, c) <=> Met(w, f, c) \/ c = n
  BY <1>8 DEF Met
<1>10. \A i \in 1 .. Len(w) : w[i].block # n
  BY DEF Met, Open
<1>11. ~Listed(f, n)
  BY DEF Met
<1>12. \A i, j \in 1 .. Len(t) : t[i].block = t[j].block => i = j
  <2> SUFFICES ASSUME NEW i \in 1 .. Len(t), NEW j \in 1 .. Len(t), t[i].block = t[j].block PROVE i = j
    OBVIOUS
  <2>1. CASE i = 1 /\ j = 1
    BY <2>1
  <2>2. CASE i = 1 /\ j # 1
    BY <1>4, <1>6, <1>10, <2>2
  <2>3. CASE i # 1 /\ j = 1
    BY <1>4, <1>6, <1>10, <2>3
  <2>4. CASE i # 1 /\ j # 1
    BY <1>1, <1>4, <1>6, <2>4
  <2>5. QED
    BY <2>1, <2>2, <2>3, <2>4
<1>13. \A i \in 1 .. Len(t) : ~Listed(f, t[i].block)
  BY <1>1, <1>4, <1>6, <1>11
<1>14. n \in g[w[1].block]
  BY <1>1, <1>7
<1>15. \A j \in 1 .. Len(w) : n \in Reach(w[j].block, g)
  <2> SUFFICES ASSUME NEW j \in 1 .. Len(w) PROVE n \in Reach(w[j].block, g)
    OBVIOUS
  <2>1. w[j].block \in Blocks
    BY <1>3
  <2>2. w[1].block \in Reach(w[j].block, g)
    <3>1. CASE j = 1
      BY <2>1, <3>1, ReachLeast
    <3>2. CASE j # 1
      <4>1. 1 < j
        BY <1>2, <3>2
      <4>2. QED
        BY <1>1, <1>7, <4>1
    <3>3. QED
      BY <3>1, <3>2
  <2>3. QED
    BY <1>14, <2>1, <2>2, ReachLeast
<1>16. \A i, j \in 1 .. Len(t) : i < j => t[i].block \in Reach(t[j].block, g)
  <2> SUFFICES ASSUME NEW i \in 1 .. Len(t), NEW j \in 1 .. Len(t), i < j PROVE t[i].block \in Reach(t[j].block, g)
    OBVIOUS
  <2>1. j # 1
    OBVIOUS
  <2>2. PICK l \in 1 .. Len(w) : j = l + 1
    BY <1>6, <2>1
  <2>3. CASE i = 1
    BY <1>4, <1>15, <2>2, <2>3
  <2>4. CASE i # 1
    <3>1. PICK k \in 1 .. Len(w) : i = k + 1
      BY <1>6, <2>4
    <3>2. k < l
      BY <2>2, <3>1
    <3>3. QED
      BY <1>1, <1>4, <2>2, <3>1, <3>2
  <2>5. QED
    BY <2>3, <2>4
<1>17. \A i \in 1 .. Len(t) : t[i].rest \subseteq g[t[i].block]
  <2> SUFFICES ASSUME NEW i \in 1 .. Len(t) PROVE t[i].rest \subseteq g[t[i].block]
    OBVIOUS
  <2>1. CASE i = 1
    BY <2>1
  <2>2. CASE i # 1
    <3>1. PICK k \in 1 .. Len(w) : i = k + 1
      BY <1>6, <2>2
    <3>2. t[k + 1].block = w[k].block /\ t[k + 1].rest \subseteq w[k].rest /\ w[k].rest \subseteq g[w[k].block]
      BY <1>1, <1>4, <1>5
    <3>3. QED
      BY <3>1, <3>2
  <2>3. QED
    BY <2>1, <2>2
<1>18. \A i \in 1 .. Len(t) : \A c \in g[t[i].block] : c \in t[i].rest \/ Met(t, f, c)
  <2> SUFFICES ASSUME NEW i \in 1 .. Len(t), NEW c \in g[t[i].block] PROVE c \in t[i].rest \/ Met(t, f, c)
    OBVIOUS
  <2>1. CASE i = 1
    BY <2>1
  <2>2. CASE i # 1
    <3>1. PICK k \in 1 .. Len(w) : i = k + 1
      BY <1>6, <2>2
    <3>2. c \in w[k].rest \/ Met(w, f, c)
      BY <1>1, <1>4, <3>1
    <3>3. QED
      BY <1>5, <1>9, <3>1, <3>2
  <2>3. QED
    BY <2>1, <2>2
<1>19. \A b : Listed(f, b) => \A c \in g[b] : Met(t, f, c)
  BY <1>1, <1>9
<1>20. WalkOK(g, t, f)
  BY <1>1, <1>12, <1>13, <1>16, <1>17, <1>18, <1>19 DEF WalkOK
<1>21. FinishOK(g, t, f)
  BY <1>8 DEF FinishOK
<1>22. QED
  BY <1>20, <1>21

(* A block without successors left is finished. *)
LEMMA WalkLeaves ==
    ASSUME NEW g \in [Blocks -> SUBSET Blocks], NEW w, NEW f, WalkOK(g, w, f), FinishOK(g, w, f),
           w # <<>>, w[1].rest = {}
    PROVE  WalkOK(g, Tail(w), <<w[1].block>> \o f) /\ FinishOK(g, Tail(w), <<w[1].block>> \o f)
<1> DEFINE t == Tail(w)
<1> DEFINE x == w[1].block
<1> DEFINE ff == <<w[1].block>> \o f
<1>1. /\ w \in Seq(Frames) /\ f \in Seq(Blocks)
      /\ \A i, j \in 1 .. Len(w) : w[i].block = w[j].block => i = j
      /\ Distinct(f)
      /\ \A i \in 1 .. Len(w) : ~Listed(f, w[i].block)
      /\ \A i, j \in 1 .. Len(w) : i < j => w[i].block \in Reach(w[j].block, g)
      /\ \A i \in 1 .. Len(w) : w[i].rest \subseteq g[w[i].block]
      /\ \A i \in 1 .. Len(w) : \A c \in g[w[i].block] : c \in w[i].rest \/ Met(w, f, c)
      /\ \A b : Listed(f, b) => \A c \in g[b] : Met(w, f, c)
  BY DEF WalkOK
<1>2. /\ t \in Seq(Frames) /\ Len(w) \in Nat /\ Len(w) >= 1 /\ Len(t) = Len(w) - 1
      /\ \A i \in 1 .. Len(t) : t[i] = w[i + 1]
  BY <1>1
<1>3. \A i \in 1 .. Len(w) : w[i].block \in Blocks
  <2>1. \A i \in 1 .. Len(w) : w[i] \in Frames
    BY <1>1
  <2>2. QED
    BY <2>1 DEF Frames
<1>4. 1 \in 1 .. Len(w) /\ x \in Blocks
  BY <1>2, <1>3
<1> HIDE DEF x
<1>5. /\ ff \in Seq(Blocks) /\ Len(ff) = Len(f) + 1 /\ ff[1] = x /\ \A i \in 1 .. Len(f) : ff[i + 1] = f[i]
      /\ \A i \in 1 .. Len(ff) : i = 1 \/ (i - 1 \in 1 .. Len(f) /\ ff[i] = f[i - 1])
  BY <1>1, <1>4, StackPush DEF x
<1> HIDE DEF t, ff
<1>6. Len(f) \in Nat /\ 1 \in 1 .. Len(ff) /\ \A i \in 1 .. Len(f) : i + 1 \in 1 .. Len(ff)
  BY <1>1, <1>5
<1>7. \A i \in 1 .. Len(t) : i + 1 \in 1 .. Len(w) /\ t[i].block = w[i + 1].block /\ t[i].rest = w[i + 1].rest
  BY <1>2
<1>8. \A c : Listed(ff, c) <=> Listed(f, c) \/ c = x
  <2> SUFFICES ASSUME NEW c PROVE Listed(ff, c) <=> Listed(f, c) \/ c = x
    OBVIOUS
  <2>1. Listed(f, c) => Listed(ff, c)
    BY <1>5, <1>6 DEF Listed
  <2>2. Listed(ff, x)
    BY <1>5, <1>6 DEF Listed
  <2>3. Listed(ff, c) => Listed(f, c) \/ c = x
    BY <1>5 DEF Listed
  <2>4. QED
    BY <2>1, <2>2, <2>3
<1>9. \A c : Open(w, c) <=> Open(t, c) \/ c = x
  <2> SUFFICES ASSUME NEW c PROVE Open(w, c) <=> Open(t, c) \/ c = x
    OBVIOUS
  <2>1. ASSUME Open(t, c) PROVE Open(w, c)
    BY <1>7, <2>1 DEF Open
  <2>2. Open(w, x)
    BY <1>4 DEF Open, x
  <2>3. ASSUME Open(w, c), c # x PROVE Open(t, c)
    <3>1. PICK i \in 1 .. Len(w) : w[i].block = c
      BY <2>3 DEF Open
    <3>2. i # 1
      BY <2>3, <3>1 DEF x
    <3>3. i - 1 \in 1 .. Len(t) /\ (i - 1) + 1 = i
      BY <1>2, <3>2
    <3>4. QED
      BY <1>7, <3>1, <3>3 DEF Open
  <2>4. QED
    BY <2>1, <2>2, <2>3
<1>10. \A c : Met(t, ff, c) <=> Met(w, f, c)
  BY <1>8, <1>9 DEF Met
<1>11. \A i \in 1 .. Len(t) : t[i].block # x
  <2> SUFFICES ASSUME NEW i \in 1 .. Len(t), t[i].block = x PROVE FALSE
    OBVIOUS
  <2>1. i + 1 \in 1 .. Len(w) /\ w[i + 1].block = w[1].block
    BY <1>7 DEF x
  <2>2. i + 1 = 1
    BY <1>1, <1>4, <2>1
  <2>3. QED
    BY <1>2, <2>2
<1>12. WalkOK(g, t, ff)
  <2>1. \A i, j \in 1 .. Len(t) : t[i].block = t[j].block => i = j
    <3> SUFFICES ASSUME NEW i \in 1 .. Len(t), NEW j \in 1 .. Len(t), t[i].block = t[j].block PROVE i = j
      OBVIOUS
    <3>1. i + 1 = j + 1
      BY <1>1, <1>7
    <3>2. QED
      BY <1>2, <3>1
  <2>2. Distinct(ff)
    <3> SUFFICES ASSUME NEW i \in 1 .. Len(ff), NEW j \in 1 .. Len(ff), ff[i] = ff[j] PROVE i = j
      BY DEF Distinct
    <3>1. ~Listed(f, x)
      BY <1>1, <1>4 DEF x
    <3>2. CASE i = 1 /\ j # 1
      BY <1>5, <3>1, <3>2 DEF Listed
    <3>3. CASE i # 1 /\ j = 1
      BY <1>5, <3>1, <3>3 DEF Listed
    <3>4. CASE i # 1 /\ j # 1
      <4> DEFINE k == i - 1
      <4> DEFINE l == j - 1
      <4>0. k \in 1 .. Len(f) /\ l \in 1 .. Len(f) /\ f[k] = f[l]
        BY <1>5, <3>4
      <4> HIDE DEF k, l
      <4>a. k = l
        BY <1>1, <4>0 DEF Distinct
      <4>1. i - 1 = j - 1
        BY <4>a DEF k, l
      <4>2. QED
        BY <1>6, <4>1
    <3>5. QED
      BY <3>2, <3>3, <3>4
  <2>3. \A i \in 1 .. Len(t) : ~Listed(ff, t[i].block)
    BY <1>1, <1>7, <1>8, <1>11
  <2>4. \A i, j \in 1 .. Len(t) : i < j => t[i].block \in Reach(t[j].block, g)
    <3> SUFFICES ASSUME NEW i \in 1 .. Len(t), NEW j \in 1 .. Len(t), i < j
                 PROVE  t[i].block \in Reach(t[j].block, g)
      OBVIOUS
    <3>1. i + 1 < j + 1
      BY <1>2
    <3>2. QED
      BY <1>1, <1>7, <3>1
  <2>5. \A i \in 1 .. Len(t) : t[i].rest \subseteq g[t[i].block]
    BY <1>1, <1>7
  <2>6. \A i \in 1 .. Len(t) : \A c \in g[t[i].block] : c \in t[i].rest \/ Met(t, ff, c)
    BY <1>1, <1>7, <1>10
  <2>7. \A c \in g[x] : Met(w, f, c)
    BY <1>1, <1>4 DEF x
  <2>8. \A b : Listed(ff, b) => \A c \in g[b] : Met(t, ff, c)
    BY <1>1, <1>8, <1>10, <2>7
  <2>9. QED
    BY <1>2, <1>5, <2>1, <2>2, <2>3, <2>4, <2>5, <2>6, <2>8 DEF WalkOK
<1>13. ASSUME \A c \in Blocks : Open(t, c) => ~Mates(g, x, c)
       PROVE  \A b \in Reach(x, g) : Listed(ff, b)
  <2>1. /\ Reach(x, g) \subseteq Blocks /\ x \in Reach(x, g)
        /\ \A b \in Reach(x, g) : g[b] \subseteq Reach(x, g)
        /\ \A S \in SUBSET Blocks : x \in S /\ (\A b \in S : g[b] \subseteq S) => Reach(x, g) \subseteq S
    BY <1>4, ReachLeast
  <2>2. \A c : Open(t, c) => c \in Blocks /\ x \in Reach(c, g)
    <3> SUFFICES ASSUME NEW i \in 1 .. Len(t) PROVE t[i].block \in Blocks /\ x \in Reach(t[i].block, g)
      BY DEF Open
    <3>1. 1 < i + 1
      BY <1>2
    <3>2. QED
      BY <1>1, <1>3, <1>4, <1>7, <3>1 DEF x
  <2>3. \A c \in Reach(x, g) : ~Open(t, c)
    BY <1>13, <2>1, <2>2 DEF Mates
  <2> DEFINE S == {b \in Reach(x, g) : Listed(ff, b)}
  <2>4. S \in SUBSET Blocks /\ x \in S
    BY <1>8, <2>1
  <2>5. ASSUME NEW b \in S, NEW c \in g[b] PROVE c \in S
    <3>1. c \in Reach(x, g)
      BY <2>1
    <3>2. Met(t, ff, c)
      BY <1>12 DEF WalkOK
    <3>3. QED
      BY <2>3, <3>1, <3>2 DEF Met
  <2> HIDE DEF S
  <2>6. Reach(x, g) \subseteq S
    BY <2>1, <2>4, <2>5
  <2>7. QED
    BY <2>6 DEF S
<1>14. \A c, b : NotAfter(f, c, b) => NotAfter(ff, c, b)
  <2> SUFFICES ASSUME NEW c, NEW b, NotAfter(f, c, b) PROVE NotAfter(ff, c, b)
    OBVIOUS
  <2>1. PICK i \in 1 .. Len(f), j \in 1 .. Len(f) : i <= j /\ f[i] = c /\ f[j] = b
    BY DEF NotAfter
  <2>2. i + 1 <= j + 1
    BY <1>6, <2>1
  <2>3. QED
    BY <1>5, <1>6, <2>1, <2>2 DEF NotAfter
<1>15. \A b : Listed(ff, b) => NotAfter(ff, x, b)
  <2> SUFFICES ASSUME NEW j \in 1 .. Len(ff) PROVE NotAfter(ff, x, ff[j])
    BY DEF Listed
  <2>1. 1 <= j
    OBVIOUS
  <2>2. QED
    BY <1>5, <1>6, <2>1 DEF NotAfter
<1>16. ASSUME NEW a, Listed(ff, a), Mates(g, a, x), a \in Blocks
       PROVE  (\E c \in Blocks : Open(t, c) /\ Mates(g, a, c)) \/ Settled(g, ff, a)
  <2>1. Reach(a, g) \subseteq Reach(x, g) /\ Reach(x, g) \subseteq Reach(a, g)
    BY <1>4, <1>16, ReachTransitive DEF Mates
  <2>2. CASE \E c \in Blocks : Open(t, c) /\ Mates(g, x, c)
    <3>1. PICK c \in Blocks : Open(t, c) /\ Mates(g, x, c)
      BY <2>2
    <3>2. c \in Reach(a, g) /\ Reach(x, g) \subseteq Reach(c, g)
      BY <1>4, <2>1, <3>1, ReachTransitive DEF Mates
    <3>3. Mates(g, a, c)
      BY <1>16, <3>2 DEF Mates
    <3>4. QED
      BY <3>1, <3>3
  <2>3. CASE \A c \in Blocks : Open(t, c) => ~Mates(g, x, c)
    BY <1>4, <1>13, <1>15, <1>16, <2>1, <2>3 DEF Settled
  <2>4. QED
    BY <2>2, <2>3
<1>17. FinishOK(g, t, ff)
  <2> SUFFICES ASSUME NEW a, Listed(ff, a)
               PROVE  (\E c \in Blocks : Open(t, c) /\ Mates(g, a, c)) \/ Settled(g, ff, a)
    BY DEF FinishOK
  <2>1. a \in Blocks
    BY <1>5 DEF Listed
  <2>2. CASE a = x
    <3>1. Mates(g, a, x)
      BY <1>4, <2>2, ReachLeast DEF Mates
    <3>2. QED
      BY <1>16, <2>1, <3>1
  <2>3. CASE a # x
    <3>1. Listed(f, a)
      BY <1>8, <2>3
    <3>2. CASE \E c \in Blocks : Open(w, c) /\ Mates(g, a, c)
      <4>1. PICK c \in Blocks : Open(w, c) /\ Mates(g, a, c)
        BY <3>2
      <4>2. CASE c = x
        BY <1>16, <2>1, <4>1, <4>2
      <4>3. CASE c # x
        BY <1>9, <4>1, <4>3
      <4>4. QED
        BY <4>2, <4>3
    <3>3. CASE Settled(g, f, a)
      BY <1>14, <3>3 DEF Settled
    <3>4. QED
      BY <3>1, <3>2, <3>3 DEF FinishOK
  <2>4. QED
    BY <2>2, <2>3
<1>18. QED
  BY <1>12, <1>17 DEF t, ff

-----------------------------------------------------------------------------
(* scc_labels and blocks_on_cycles *)

Old(b) == labels[b] \in Nat /\ labels[b] < label
Current(b) == labels[b] = label

(* Labels below the next one are those of whole components, which nothing    *)
(* leads into; blocks with the next label lie on cycles with the block whose *)
(* turn it is, and only those still to be looked at have predecessors        *)
(* without a label.                                                          *)
LabelsOK ==
    /\ \A i \in 1 .. Len(finished) : i < place => Old(finished[i])
    /\ \A b \in Blocks : \A c \in succs[b] : Old(c) => Old(b)
    /\ \A a, b \in Blocks : Old(a) => (labels[a] = labels[b] <=> Mates(succs, a, b))
    /\ \A b \in Blocks : Current(b) =>
          place \in 1 .. Len(finished) /\ Current(finished[place]) /\ Mates(succs, b, finished[place])
    /\ \A b \in grown : Current(b)
    /\ \A b \in Blocks : \A c \in succs[b] : Current(c) /\ c \notin grown => labels[b] # None

LabelsTyped ==
    /\ succs \in [Blocks -> SUBSET Blocks]
    /\ place \in Nat /\ label \in Nat /\ grown \subseteq Blocks
    /\ labels \in [Blocks -> Nat \cup {None}]
    /\ \A b \in Blocks : labels[b] = None \/ labels[b] <= label
    /\ \A l \in Nat : l < label => \E b \in Blocks : labels[b] = l

(* Nothing has a label before all is finished. *)
PhasesOK ==
    /\ place = 0 => grown = {} /\ \A b \in Blocks : labels[b] = None
    /\ place > 0 => steps = <<>> /\ place <= Len(finished) + 1 /\ \A b \in Blocks : Listed(finished, b)

ComponentsInv ==
    /\ WalkOK(succs, steps, finished) /\ FinishOK(succs, steps, finished)
    /\ LabelsTyped /\ PhasesOK /\ LabelsOK

(* The sizes of components are cardinalities. *)
LEMMA CoCardinality == \A S : Components!Cardinality(S) = Cardinality(S)
<1>1. \A S : Components!IsFiniteSet(S) <=> IsFiniteSet(S)
  BY DEF Components!IsFiniteSet, IsFiniteSet
<1>2. QED
  BY <1>1 DEF Components!Cardinality, Cardinality

(* Ways are the same to all calls. *)
LEMMA CoReach == \A a, g : Components!Reach(a, g) = Reach(a, g)
  BY DEF Components!Reach, Reach, Components!Closed, Closed

(* Together is an equivalence. *)
LEMMA MatesEquivalence ==
    ASSUME NEW g \in [Blocks -> SUBSET Blocks], NEW a \in Blocks, NEW b \in Blocks
    PROVE  /\ Mates(g, a, a)
           /\ Mates(g, a, b) => Mates(g, b, a)
           /\ \A c \in Blocks : Mates(g, a, b) /\ Mates(g, b, c) => Mates(g, a, c)
<1>1. Mates(g, a, a)
  BY ReachLeast DEF Mates
<1>2. Mates(g, a, b) => Mates(g, b, a)
  BY DEF Mates
<1>3. ASSUME NEW c \in Blocks, Mates(g, a, b), Mates(g, b, c) PROVE Mates(g, a, c)
  <2>1. Reach(b, g) \subseteq Reach(a, g) /\ Reach(b, g) \subseteq Reach(c, g)
    BY <1>3, ReachTransitive DEF Mates
  <2>2. QED
    BY <1>3, <2>1 DEF Mates
<1>4. QED
  BY <1>1, <1>2, <1>3

(* Before the first step nothing is met and nothing labelled. *)
LEMMA ComponentsInit == Components!Init => ComponentsInv
<1> SUFFICES ASSUME Components!Init PROVE ComponentsInv
  OBVIOUS
<1>1. /\ succs \in [Blocks -> SUBSET Blocks] /\ steps = <<>> /\ finished = <<>> /\ place = 0
      /\ labels = [b \in Blocks |-> None] /\ label = 0 /\ grown = {}
  BY BlocksAssumption DEF Components!Init
<1>2. <<>> \in Seq(Frames) /\ <<>> \in Seq(Blocks) /\ Len(<<>>) = 0 /\ \A i : i \notin 1 .. 0
  OBVIOUS
<1>3. \A b : ~Listed(<<>>, b)
  BY <1>2 DEF Listed
<1>4. Distinct(<<>>)
  BY <1>2 DEF Distinct
<1>5. WalkOK(succs, <<>>, <<>>) /\ FinishOK(succs, <<>>, <<>>)
  BY <1>2, <1>3, <1>4 DEF WalkOK, FinishOK
<1>6. WalkOK(succs, steps, finished) /\ FinishOK(succs, steps, finished)
  BY <1>1, <1>5
<1>7. \A b \in Blocks : labels[b] = None
  BY <1>1
<1>8. \A b \in Blocks : ~Old(b) /\ ~Current(b)
  BY <1>1, <1>7, GraphAssumption DEF Old, Current
<1>9. LabelsTyped
  BY <1>1, <1>7 DEF LabelsTyped
<1>10. PhasesOK
  BY <1>1, <1>7 DEF PhasesOK
<1>11. LabelsOK
  BY <1>1, <1>2, <1>8, <1>9 DEF LabelsOK, LabelsTyped
<1>12. QED
  BY <1>6, <1>9, <1>10, <1>11 DEF ComponentsInv

(* The walk forward. *)
LEMMA ComponentsWalk ==
    ASSUME ComponentsInv, NEW b \in Blocks, Components!Start(b) \/ Components!Visit(b) \/ Components!Leave
    PROVE  ComponentsInv'
<1>1. WalkOK(succs, steps, finished) /\ FinishOK(succs, steps, finished) /\ LabelsTyped /\ PhasesOK /\ LabelsOK
  BY DEF ComponentsInv
<1>2. succs \in [Blocks -> SUBSET Blocks] /\ place \in Nat
  BY <1>1 DEF LabelsTyped
<1>3. UNCHANGED <<succs, place, labels, label, grown>>
  BY DEF Components!Start, Components!Visit, Components!Leave
<1>4. place = 0
  <2>1. Components!Start(b) => place = 0
    BY DEF Components!Start
  <2>2. Components!Visit(b) \/ Components!Leave => steps # <<>>
    BY DEF Components!Visit, Components!Leave
  <2>3. QED
    BY <1>1, <1>2, <2>1, <2>2 DEF PhasesOK
<1>5. LabelsTyped'
  BY <1>1, <1>3 DEF LabelsTyped
<1>6. PhasesOK'
  BY <1>1, <1>3, <1>4 DEF PhasesOK
<1>7. LabelsOK'
  <2>1. \A c \in Blocks : labels[c] = None
    BY <1>1, <1>4 DEF PhasesOK
  <2>2. \A c \in Blocks : ~Old(c)' /\ ~Current(c)'
    BY <1>1, <1>3, <2>1, GraphAssumption DEF Old, Current, LabelsTyped
  <2>3. grown' = {} /\ place' = 0
    BY <1>1, <1>3, <1>4 DEF PhasesOK
  <2>4. succs' \in [Blocks -> SUBSET Blocks]
    BY <1>2, <1>3
  <2>5. \A i \in 1 .. Len(finished') : ~(i < place')
    BY <2>3
  <2>6. QED
    BY <2>2, <2>3, <2>4, <2>5 DEF LabelsOK
<1>8. WalkOK(succs, steps', finished') /\ FinishOK(succs, steps', finished')
  <2>1. steps \in Seq(Frames) /\ finished \in Seq(Blocks)
    BY <1>1 DEF WalkOK
  <2>2. \A c : c \in Components!Visited <=> Met(steps, finished, c)
    <3>1. DOMAIN steps = 1 .. Len(steps) /\ DOMAIN finished = 1 .. Len(finished)
      BY <2>1
    <3>2. QED
      BY <3>1 DEF Components!Visited, Met, Open, Listed
  <2>3. CASE Components!Start(b)
    <3>1. steps = <<>> /\ ~Listed(finished, b) /\ steps' = <<[block |-> b, rest |-> succs[b]]>> /\ finished' = finished
      BY <2>2, <2>3 DEF Components!Start, Components!Frame, Met
    <3>2. QED
      BY <1>1, <1>2, <3>1, WalkStarts
  <2>4. CASE Components!Visit(b)
    <3> DEFINE f == [Head(steps) EXCEPT !.rest = @ \ {b}]
    <3>1. /\ steps # <<>> /\ b \in steps[1].rest /\ finished' = finished
          /\ steps' = (IF b \in Components!Visited THEN <<>> ELSE <<Components!Frame(b)>>) \o <<f>> \o Tail(steps)
      BY <2>1, <2>4 DEF Components!Visit
    <3>2. Len(steps) \in Nat /\ Len(steps) >= 1 /\ steps[1] \in Frames /\ Head(steps) = steps[1]
      BY <2>1, <3>1
    <3>3. f \in Frames /\ f.block = steps[1].block /\ f.rest = steps[1].rest \ {b}
      BY <3>2 DEF Frames
    <3> HIDE DEF f
    <3>4. CASE b \in Components!Visited
      <4>1. /\ steps' \in Seq(Frames) /\ Len(steps') = Len(steps) /\ steps'[1] = f
            /\ \A i \in 2 .. Len(steps) : steps'[i] = steps[i]
        BY <2>1, <3>1, <3>3, <3>4, WalkGoesOn
      <4>2. Met(steps, finished, b)
        BY <2>2, <3>4
      <4>3. QED
        BY <1>1, <1>2, <3>1, <3>2, <3>3, <4>1, <4>2, WalkPasses
    <3>5. CASE b \notin Components!Visited
      <4> DEFINE x == Components!Frame(b)
      <4>1. x \in Frames /\ x.block = b /\ x.rest = succs[b]
        BY <1>2 DEF Components!Frame, Frames
      <4>2. steps' = <<x>> \o <<f>> \o Tail(steps)
        BY <3>1, <3>5
      <4> HIDE DEF x
      <4>3. /\ steps' \in Seq(Frames) /\ Len(steps') = Len(steps) + 1 /\ steps'[1] = x /\ steps'[2] = f
            /\ \A i \in 2 .. Len(steps) : steps'[i + 1] = steps[i]
        BY <2>1, <3>1, <3>3, <4>1, <4>2, WalkGoesDown
      <4>4. ~Met(steps, finished, b)
        BY <2>2, <3>5
      <4>5. QED
        BY <1>1, <1>2, <3>1, <3>2, <3>3, <4>1, <4>3, <4>4, WalkDescends
    <3>6. QED
      BY <3>4, <3>5
  <2>5. CASE Components!Leave
    <3>1. /\ steps # <<>> /\ steps[1].rest = {}
          /\ steps' = Tail(steps) /\ finished' = <<steps[1].block>> \o finished
      BY <2>1, <2>5 DEF Components!Leave
    <3>2. QED
      BY <1>1, <1>2, <3>1, WalkLeaves
  <2>6. QED
    BY <2>3, <2>4, <2>5
<1>9. WalkOK(succs', steps', finished') /\ FinishOK(succs', steps', finished')
  BY <1>3, <1>8
<1>10. QED
  BY <1>5, <1>6, <1>7, <1>9 DEF ComponentsInv

(* Without a label that is still growing, what has a label is all that leads *)
(* to it, and the labels are those of whole components.                      *)
LEMMA LabelsWhole ==
    ASSUME ComponentsInv, grown = {}, NEW a \in Blocks, labels[a] # None, NEW b \in Blocks
    PROVE  labels[a] = labels[b] <=> Mates(succs, a, b)
<1>1. LabelsTyped /\ LabelsOK
  BY DEF ComponentsInv
<1>2. succs \in [Blocks -> SUBSET Blocks]
  BY <1>1 DEF LabelsTyped
<1>3. CASE Old(a)
  BY <1>1, <1>3 DEF LabelsOK
<1>4. CASE ~Old(a)
  <2>1. \A c \in Blocks : labels[c] # None => Old(c) \/ Current(c)
    BY <1>1 DEF LabelsTyped, Old, Current
  <2>2. \A c \in Blocks : Old(c) => labels[c] # None /\ ~Current(c)
    BY <1>1, GraphAssumption DEF LabelsTyped, Old, Current
  <2>3. Current(a)
    BY <1>4, <2>1
  <2> DEFINE r == finished[place]
  <2>4. Current(r) /\ Mates(succs, a, r) /\ r \in Blocks
    BY <1>1, <2>3 DEF LabelsOK, ComponentsInv, WalkOK
  <2> HIDE DEF r
  <2>5. ASSUME labels[a] = labels[b] PROVE Mates(succs, a, b)
    <3>1. Current(b)
      BY <2>3, <2>5 DEF Current
    <3>2. Mates(succs, b, r)
      BY <1>1, <3>1 DEF LabelsOK, r
    <3>3. QED
      BY <1>2, <2>4, <3>2, MatesEquivalence
  <2>6. ASSUME Mates(succs, a, b) PROVE labels[a] = labels[b]
    <3> DEFINE S == {c \in Blocks : labels[c] # None}
    <3> DEFINE T == {c \in Blocks : Old(c)}
    <3>1. \A c \in Blocks : (\E d \in succs[c] : d \in S) => c \in S
      BY <1>1, <1>2, <2>1, <2>2 DEF LabelsOK
    <3>2. \A c \in Blocks : (\E d \in succs[c] : d \in T) => c \in T
      BY <1>1, <1>2 DEF LabelsOK
    <3>3. S \in SUBSET Blocks /\ T \in SUBSET Blocks /\ a \in S /\ a \notin T
      BY <1>4
    <3> HIDE DEF S, T
    <3>4. b \in S
      BY <1>2, <2>6, <3>1, <3>3, ReachBack DEF Mates
    <3>5. b \notin T
      BY <1>2, <2>6, <3>2, <3>3, ReachBack DEF Mates
    <3>6. Current(b)
      BY <2>1, <3>4, <3>5 DEF S, T
    <3>7. QED
      BY <2>3, <3>6 DEF Current
  <2>7. QED
    BY <2>5, <2>6
<1>5. QED
  BY <1>3, <1>4

(* A block without a label that leads to the one whose turn it is lies on a  *)
(* cycle with it: else a later finished one would have given it a label.     *)
LEMMA UnlabelledMates ==
    ASSUME ComponentsInv, place \in 1 .. Len(finished), NEW b \in Blocks, labels[b] = None,
           finished[place] \in Reach(b, succs)
    PROVE  Mates(succs, b, finished[place])
<1>1. /\ WalkOK(succs, steps, finished) /\ FinishOK(succs, steps, finished)
      /\ LabelsTyped /\ PhasesOK /\ LabelsOK
  BY DEF ComponentsInv
<1>2. succs \in [Blocks -> SUBSET Blocks] /\ finished \in Seq(Blocks) /\ Distinct(finished)
  BY <1>1 DEF LabelsTyped, WalkOK
<1>3. steps = <<>> /\ Listed(finished, b)
  BY <1>1 DEF PhasesOK
<1>4. Settled(succs, finished, b)
  <2>1. \A c : ~Open(steps, c)
    BY <1>3 DEF Open
  <2>2. QED
    BY <1>1, <1>3, <2>1 DEF FinishOK
<1>5. PICK c \in Blocks : Mates(succs, b, c) /\ NotAfter(finished, c, finished[place])
  BY <1>4 DEF Settled
<1>6. PICK i \in 1 .. Len(finished), j \in 1 .. Len(finished) : i <= j /\ finished[i] = c /\ finished[j] = finished[place]
  BY <1>5 DEF NotAfter
<1>7. j = place
  BY <1>2, <1>6 DEF Distinct
<1>8. CASE i = place
  BY <1>5, <1>6, <1>8
<1>9. CASE i # place
  <2>1. i < place
    BY <1>6, <1>7, <1>9
  <2>2. Old(c)
    BY <1>1, <1>6, <2>1 DEF LabelsOK
  <2> DEFINE T == {d \in Blocks : Old(d)}
  <2>3. \A d \in Blocks : (\E e \in succs[d] : e \in T) => d \in T
    BY <1>1, <1>2 DEF LabelsOK
  <2>4. T \in SUBSET Blocks /\ c \in T
    BY <2>2
  <2> HIDE DEF T
  <2>5. b \in T
    BY <1>2, <1>5, <2>3, <2>4, ReachBack DEF Mates
  <2>6. Old(b)
    BY <2>5 DEF T
  <2>7. QED
    BY <2>6, GraphAssumption DEF Old
<1>10. QED
  BY <1>8, <1>9

(* When all blocks are finished the labelling starts with the latest. *)
LEMMA ComponentsAllFinished == ComponentsInv /\ Components!AllFinished => ComponentsInv'
<1> SUFFICES ASSUME ComponentsInv, Components!AllFinished PROVE ComponentsInv'
  OBVIOUS
<1>1. /\ WalkOK(succs, steps, finished) /\ FinishOK(succs, steps, finished)
      /\ LabelsTyped /\ PhasesOK /\ LabelsOK
  BY DEF ComponentsInv
<1>2. /\ place = 0 /\ steps = <<>> /\ Components!Visited = Blocks /\ place' = 1
      /\ UNCHANGED <<succs, steps, finished, labels, label, grown>>
  BY DEF Components!AllFinished
<1>3. WalkOK(succs', steps', finished') /\ FinishOK(succs', steps', finished')
  BY <1>1, <1>2
<1>4. LabelsTyped'
  BY <1>1, <1>2 DEF LabelsTyped
<1>5. \A b \in Blocks : Listed(finished, b)
  <2>1. finished \in Seq(Blocks) /\ DOMAIN steps = {}
    BY <1>1, <1>2 DEF WalkOK
  <2>2. DOMAIN finished = 1 .. Len(finished)
    BY <2>1
  <2>3. QED
    BY <1>2, <2>1, <2>2 DEF Components!Visited, Listed
<1>6. PhasesOK'
  <2>1. finished' \in Seq(Blocks)
    BY <1>1, <1>2 DEF WalkOK
  <2>2. place' <= Len(finished') + 1 /\ ~(place' = 0)
    BY <1>2, <2>1
  <2>3. \A b \in Blocks : Listed(finished', b)
    BY <1>2, <1>5
  <2>4. QED
    BY <1>2, <2>2, <2>3 DEF PhasesOK
<1>7. LabelsOK'
  <2>1. \A c \in Blocks : labels[c] = None
    BY <1>1, <1>2 DEF PhasesOK
  <2>2. \A c \in Blocks : ~Old(c)' /\ ~Current(c)'
    BY <1>1, <1>2, <2>1, GraphAssumption DEF Old, Current, LabelsTyped
  <2>3. grown' = {} /\ place' = 1
    BY <1>1, <1>2 DEF PhasesOK
  <2>4. succs' \in [Blocks -> SUBSET Blocks]
    BY <1>1, <1>2 DEF LabelsTyped
  <2>5. \A i \in 1 .. Len(finished') : ~(i < place')
    BY <2>3
  <2>6. QED
    BY <2>2, <2>3, <2>4, <2>5 DEF LabelsOK
<1>8. QED
  BY <1>3, <1>4, <1>6, <1>7 DEF ComponentsInv

(* More blocks without a label get the next one. *)
LEMMA LabelMore ==
    ASSUME ComponentsInv, NEW S \in SUBSET Blocks, labels' = Components!Labelled(S),
           UNCHANGED <<succs, steps, finished, place, label>>, grown' \subseteq Blocks,
           place \in 1 .. Len(finished),
           \A b \in S : labels[b] = None /\ Mates(succs, b, finished[place]),
           Current(finished[place]) \/ finished[place] \in S,
           \A b \in grown' : Current(b) \/ b \in S,
           \A b \in Blocks : \A c \in succs[b] :
               (Current(c) \/ c \in S) /\ c \notin grown' => labels[b] # None \/ b \in S
    PROVE  ComponentsInv'
<1>1. /\ WalkOK(succs, steps, finished) /\ FinishOK(succs, steps, finished)
      /\ LabelsTyped /\ PhasesOK /\ LabelsOK
  BY DEF ComponentsInv
<1>2. /\ succs \in [Blocks -> SUBSET Blocks] /\ label \in Nat /\ labels \in [Blocks -> Nat \cup {None}]
      /\ None \notin Nat /\ place \in Nat /\ place > 0
  BY <1>1, GraphAssumption DEF LabelsTyped
<1>3. labels' = [b \in Blocks |-> IF b \in S THEN label ELSE labels[b]]
  BY DEF Components!Labelled
<1>4. \A b \in Blocks : labels'[b] = IF b \in S THEN label ELSE labels[b]
  BY <1>3
<1>5. \A b \in Blocks : Old(b)' <=> Old(b)
  BY <1>2, <1>4 DEF Old
<1>6. \A b \in Blocks : Current(b)' <=> Current(b) \/ b \in S
  BY <1>2, <1>4 DEF Current
<1>7. finished \in Seq(Blocks)
  BY <1>1 DEF WalkOK
<1>8. \A i \in 1 .. Len(finished) : finished[i] \in Blocks
  BY <1>7
<1>9. LabelsTyped'
  <2>1. labels' \in [Blocks -> Nat \cup {None}]
    BY <1>2, <1>3
  <2>2. \A b \in Blocks : labels'[b] = None \/ labels'[b] <= label
    BY <1>1, <1>2, <1>4 DEF LabelsTyped
  <2>3. ASSUME NEW l \in Nat, l < label PROVE \E b \in Blocks : labels'[b] = l
    <3>1. PICK b \in Blocks : labels[b] = l
      BY <1>1, <2>3 DEF LabelsTyped
    <3>2. b \notin S
      BY <1>2, <3>1
    <3>3. QED
      BY <1>4, <3>1, <3>2
  <2>4. QED
    BY <1>2, <2>1, <2>2, <2>3 DEF LabelsTyped
<1>10. PhasesOK'
  BY <1>1, <1>2 DEF PhasesOK
<1>11. LabelsOK'
  <2>1. \A i \in 1 .. Len(finished') : i < place' => Old(finished[i])'
    <3> SUFFICES ASSUME NEW i \in 1 .. Len(finished), i < place PROVE Old(finished[i])'
      OBVIOUS
    <3>1. Old(finished[i])
      BY <1>1 DEF LabelsOK
    <3>2. labels'[finished[i]] = labels[finished[i]]
      <4>1. finished[i] \notin S
        BY <1>2, <3>1 DEF Old
      <4>2. QED
        BY <1>4, <1>8, <4>1
    <3>3. QED
      BY <3>1, <3>2 DEF Old
  <2>2. \A b \in Blocks : \A c \in succs'[b] : Old(c)' => Old(b)'
    BY <1>1, <1>2, <1>5 DEF LabelsOK
  <2>3. \A a, b \in Blocks : Old(a)' => (labels'[a] = labels'[b] <=> Mates(succs', a, b))
    <3> SUFFICES ASSUME NEW a \in Blocks, NEW b \in Blocks, Old(a)
                 PROVE  labels'[a] = labels'[b] <=> Mates(succs, a, b)
      BY <1>5
    <3>1. labels[a] = labels[b] <=> Mates(succs, a, b)
      BY <1>1 DEF LabelsOK
    <3>2. labels[a] \in Nat /\ labels[a] < label
      BY DEF Old
    <3>3. labels'[a] = labels[a]
      BY <1>2, <1>4, <3>2
    <3>4. CASE b \in S
      <4>1. labels'[b] = label /\ labels[b] = None
        BY <1>4, <3>4
      <4>2. QED
        BY <1>2, <3>1, <3>2, <3>3, <4>1
    <3>5. CASE b \notin S
      BY <1>4, <3>1, <3>3, <3>5
    <3>6. QED
      BY <3>4, <3>5
  <2>4. \A b \in Blocks : Current(b)' =>
            place' \in 1 .. Len(finished') /\ Current(finished[place])' /\ Mates(succs', b, finished'[place'])
    BY <1>1, <1>6, <1>8 DEF LabelsOK
  <2>5. \A b \in grown' : Current(b)'
    BY <1>6
  <2>6. \A b \in Blocks : \A c \in succs'[b] : Current(c)' /\ c \notin grown' => labels'[b] # None
    <3> SUFFICES ASSUME NEW b \in Blocks, NEW c \in succs[b], Current(c)', c \notin grown' PROVE labels'[b] # None
      OBVIOUS
    <3>1. labels[b] # None \/ b \in S
      BY <1>2, <1>6
    <3>2. QED
      BY <1>2, <1>4, <3>1
  <2>7. QED
    BY <2>1, <2>2, <2>3, <2>4, <2>5, <2>6 DEF LabelsOK
<1>12. WalkOK(succs', steps', finished') /\ FinishOK(succs', steps', finished')
  BY <1>1
<1>13. QED
  BY <1>9, <1>10, <1>11, <1>12 DEF ComponentsInv

(* An unlabelled block begins a component. *)
LEMMA ComponentsNew == ComponentsInv /\ Components!NewComponent => ComponentsInv'
<1> SUFFICES ASSUME ComponentsInv, Components!NewComponent PROVE ComponentsInv'
  OBVIOUS
<1> DEFINE r == finished[place]
<1>1. /\ place \in DOMAIN finished /\ grown = {} /\ labels[r] = None
      /\ labels' = Components!Labelled({r}) /\ grown' = {r}
      /\ UNCHANGED <<succs, steps, finished, place, label>>
  BY DEF Components!NewComponent
<1>2. finished \in Seq(Blocks) /\ LabelsTyped /\ LabelsOK
  BY DEF ComponentsInv, WalkOK
<1>3. place \in 1 .. Len(finished) /\ r \in Blocks
  BY <1>1, <1>2
<1>4. Mates(succs, r, r)
  BY <1>2, <1>3, MatesEquivalence DEF LabelsTyped
<1> HIDE DEF r
<1>5. \A b \in Blocks : ~Current(b)
  <2> SUFFICES ASSUME NEW b \in Blocks, Current(b) PROVE FALSE
    OBVIOUS
  <2>1. Current(r)
    BY <1>2 DEF LabelsOK, r
  <2>2. QED
    BY <1>1, <1>2, <2>1, GraphAssumption DEF Current, LabelsTyped
<1>6. \A b \in Blocks : \A c \in succs[b] : ~((Current(c) \/ c \in {r}) /\ c \notin grown')
  BY <1>1, <1>2, <1>5 DEF LabelsTyped
<1>7. {r} \in SUBSET Blocks /\ grown' \subseteq Blocks
  BY <1>1, <1>3
<1>8. \A b \in {r} : labels[b] = None /\ Mates(succs, b, finished[place])
  BY <1>1, <1>4 DEF r
<1>9. finished[place] \in {r} /\ \A b \in grown' : b \in {r}
  BY <1>1 DEF r
<1>10. QED
  BY <1>1, <1>3, <1>6, <1>7, <1>8, <1>9, LabelMore

(* A component takes the unlabelled predecessors of its blocks. *)
LEMMA ComponentsGrow == ASSUME ComponentsInv, NEW node \in Blocks, Components!Grow(node) PROVE ComponentsInv'
<1> DEFINE S == {b \in Components!Preds(node, succs) : labels[b] = None}
<1>1. /\ node \in grown /\ labels' = Components!Labelled(S) /\ grown' = (grown \ {node}) \cup S
      /\ UNCHANGED <<succs, steps, finished, place, label>>
  BY DEF Components!Grow
<1>2. LabelsTyped /\ LabelsOK /\ finished \in Seq(Blocks)
  BY DEF ComponentsInv, WalkOK
<1>3. succs \in [Blocks -> SUBSET Blocks] /\ grown \subseteq Blocks
  BY <1>2 DEF LabelsTyped
<1>4. S = {b \in Blocks : node \in succs[b] /\ labels[b] = None}
  BY <1>3 DEF Components!Preds
<1> HIDE DEF S
<1> DEFINE r == finished[place]
<1>5. Current(node) /\ place \in 1 .. Len(finished) /\ Current(r) /\ Mates(succs, node, r)
  BY <1>1, <1>2 DEF LabelsOK
<1>6. ASSUME NEW b \in S PROVE labels[b] = None /\ Mates(succs, b, r)
  <2>1. b \in Blocks /\ node \in succs[b] /\ labels[b] = None
    BY <1>4
  <2>2. node \in Reach(b, succs)
    BY <1>3, <2>1, ReachLeast
  <2>3. r \in Reach(b, succs)
    BY <1>3, <1>5, <2>1, <2>2, ReachTransitive DEF Mates
  <2>4. QED
    BY <1>5, <2>1, <2>3, UnlabelledMates
<1>7. S \in SUBSET Blocks /\ grown' \subseteq Blocks
  BY <1>1, <1>3, <1>4
<1>8. \A b \in grown' : Current(b) \/ b \in S
  BY <1>1, <1>2 DEF LabelsOK
<1>9. ASSUME NEW b \in Blocks, NEW c \in succs[b], Current(c) \/ c \in S, c \notin grown'
      PROVE  labels[b] # None \/ b \in S
  <2>1. c \notin S /\ Current(c)
    BY <1>1, <1>9
  <2>2. CASE c = node
    BY <1>4, <1>9, <2>2
  <2>3. CASE c # node
    <3>1. c \notin grown
      BY <1>1, <1>9, <2>3
    <3>2. QED
      BY <1>2, <1>9, <2>1, <3>1 DEF LabelsOK
  <2>4. QED
    BY <2>2, <2>3
<1>10. QED
  BY <1>1, <1>5, <1>6, <1>7, <1>8, <1>9, LabelMore

(* On to the next block, past a component that is complete. *)
LEMMA ComponentsAdvance == ComponentsInv /\ Components!Advance => ComponentsInv'
<1> SUFFICES ASSUME ComponentsInv, Components!Advance PROVE ComponentsInv'
  OBVIOUS
<1> DEFINE r == finished[place]
<1>1. /\ place \in DOMAIN finished /\ grown = {} /\ labels[r] # None
      /\ label' = (IF labels[r] = label THEN label + 1 ELSE label) /\ place' = place + 1
      /\ UNCHANGED <<succs, steps, finished, labels, grown>>
  BY DEF Components!Advance
<1>2. /\ WalkOK(succs, steps, finished) /\ FinishOK(succs, steps, finished)
      /\ LabelsTyped /\ PhasesOK /\ LabelsOK
  BY DEF ComponentsInv
<1>3. /\ succs \in [Blocks -> SUBSET Blocks] /\ label \in Nat /\ labels \in [Blocks -> Nat \cup {None}]
      /\ None \notin Nat /\ place \in Nat /\ finished \in Seq(Blocks)
  BY <1>2, GraphAssumption DEF LabelsTyped, WalkOK
<1>4. place \in 1 .. Len(finished) /\ r \in Blocks /\ Len(finished) \in Nat
  BY <1>1, <1>3
<1> HIDE DEF r
<1>5. \A b \in Blocks : labels[b] # None => labels[b] \in Nat /\ labels[b] <= label
  BY <1>2, <1>3 DEF LabelsTyped
<1>6. WalkOK(succs', steps', finished') /\ FinishOK(succs', steps', finished')
  BY <1>1, <1>2
<1>7. LabelsTyped'
  <2>1. label' \in Nat /\ \A b \in Blocks : labels[b] = None \/ labels[b] <= label'
    BY <1>1, <1>3, <1>5
  <2>2. ASSUME NEW l \in Nat, l < label' PROVE \E b \in Blocks : labels[b] = l
    <3>1. CASE l < label
      BY <1>2, <3>1 DEF LabelsTyped
    <3>2. CASE ~(l < label)
      <4>1. l = label /\ labels[r] = label
        BY <1>1, <1>3, <2>2, <3>2
      <4>2. QED
        BY <1>4, <4>1
    <3>3. QED
      BY <3>1, <3>2
  <2>3. place' \in Nat
    BY <1>1, <1>3
  <2>4. QED
    BY <1>1, <1>2, <2>1, <2>2, <2>3 DEF LabelsTyped
<1>8. PhasesOK'
  <2>1. place' # 0 /\ place' <= Len(finished) + 1 /\ place > 0
    BY <1>1, <1>4
  <2>2. QED
    BY <1>1, <1>2, <2>1 DEF PhasesOK
<1>9. \A b \in Blocks : Old(b)' <=> labels[b] # None
  <2> SUFFICES ASSUME NEW b \in Blocks PROVE Old(b)' <=> labels[b] # None
    OBVIOUS
  <2>1. CASE labels[r] = label
    BY <1>1, <1>3, <1>5, <2>1 DEF Old
  <2>2. CASE labels[r] # label
    <3>1. ~Current(b)
      BY <1>2, <2>2 DEF LabelsOK, Current, r
    <3>2. QED
      BY <1>1, <1>3, <1>5, <2>2, <3>1 DEF Old, Current
  <2>3. QED
    BY <2>1, <2>2
<1>10. \A b \in Blocks : ~Current(b)'
  <2> SUFFICES ASSUME NEW b \in Blocks PROVE ~Current(b)'
    OBVIOUS
  <2>1. Old(b)' => labels'[b] # label'
    BY <1>7 DEF Old, LabelsTyped
  <2>2. labels[b] = None => labels'[b] # label'
    BY <1>1, <1>3, <1>7 DEF LabelsTyped
  <2>3. QED
    BY <1>9, <2>1, <2>2 DEF Current
<1>11. LabelsOK'
  <2>1. ASSUME NEW i \in 1 .. Len(finished), i < place' PROVE labels[finished[i]] # None
    <3>1. CASE i = place
      BY <1>1, <3>1 DEF r
    <3>2. CASE i # place
      <4>1. i < place
        BY <1>1, <1>4, <2>1, <3>2
      <4>2. QED
        BY <1>2, <1>3, <4>1 DEF LabelsOK, Old
    <3>3. QED
      BY <3>1, <3>2
  <2>2. \A i \in 1 .. Len(finished') : i < place' => Old(finished[i])'
    BY <1>1, <1>3, <1>9, <2>1
  <2>4. ASSUME NEW b \in Blocks, NEW c \in succs[b], labels[c] # None PROVE labels[b] # None
    <3>1. c \in Blocks
      BY <1>3
    <3>2. CASE Old(c)
      BY <1>2, <1>3, <3>2 DEF LabelsOK, Old
    <3>3. CASE ~Old(c)
      <4>1. Current(c)
        BY <1>3, <1>5, <2>4, <3>1, <3>3 DEF Old, Current
      <4>2. QED
        BY <1>1, <1>2, <4>1 DEF LabelsOK
    <3>4. QED
      BY <3>2, <3>3
  <2>5. \A b \in Blocks : \A c \in succs'[b] : Old(c)' => Old(b)'
    BY <1>1, <1>3, <1>9, <2>4
  <2>6. \A a, b \in Blocks : Old(a)' => (labels'[a] = labels'[b] <=> Mates(succs', a, b))
    BY <1>1, <1>9, LabelsWhole
  <2>7. \A b \in grown' : FALSE
    BY <1>1
  <2>8. \A b \in Blocks : \A c \in succs'[b] : c \in Blocks
    BY <1>1, <1>3
  <2>9. QED
    BY <1>10, <2>2, <2>5, <2>6, <2>7, <2>8 DEF LabelsOK
<1>12. QED
  BY <1>6, <1>7, <1>8, <1>11 DEF ComponentsInv

(* Every step keeps the invariant. *)
LEMMA ComponentsStep == ComponentsInv /\ [Components!Next]_Components!vars => ComponentsInv'
<1> SUFFICES ASSUME ComponentsInv, [Components!Next]_Components!vars PROVE ComponentsInv'
  OBVIOUS
<1>1. CASE UNCHANGED Components!vars
  <2>1. /\ WalkOK(succs, steps, finished) /\ FinishOK(succs, steps, finished)
        /\ LabelsTyped /\ PhasesOK /\ LabelsOK
    BY DEF ComponentsInv
  <2>2. UNCHANGED <<succs, steps, finished, place, labels, label, grown>>
    BY <1>1 DEF Components!vars
  <2>3. WalkOK(succs', steps', finished') /\ FinishOK(succs', steps', finished')
    BY <2>1, <2>2
  <2>4. LabelsTyped' /\ PhasesOK'
    BY <2>1, <2>2 DEF LabelsTyped, PhasesOK
  <2>5. LabelsOK'
    BY <2>1, <2>2 DEF LabelsOK, Old, Current
  <2>6. QED
    BY <2>3, <2>4, <2>5 DEF ComponentsInv
<1>2. CASE Components!Leave
  <2>1. Entry \in Blocks
    BY BlocksAssumption
  <2>2. QED
    BY <1>2, <2>1, ComponentsWalk
<1>3. QED
  BY <1>1, <1>2, ComponentsWalk, ComponentsAllFinished, ComponentsNew, ComponentsGrow, ComponentsAdvance
  DEF Components!Next, Components!Step, Components!Stop

(* A label that some block has, and one that two have. *)
LEMMA LabelSizes ==
    ASSUME LabelsTyped, NEW l
    PROVE  /\ Components!Size(l) > 0 <=> \E b \in Blocks : labels[b] = l
           /\ \A b \in Blocks : labels[b] = l => (Components!Size(l) > 1 <=> \E c \in Blocks : c # b /\ labels[c] = l)
<1> DEFINE S == {b \in Blocks : labels[b] = l}
<1>1. Components!Size(l) = Cardinality(S)
  BY CoCardinality DEF Components!Size
<1>2. IsFiniteSet(S) /\ Cardinality(S) \in Nat
  <2>1. S \in SUBSET Blocks
    OBVIOUS
  <2>2. IsFiniteSet(S)
    BY <2>1, GraphAssumption, FS_Subset
  <2>3. QED
    BY <2>2, FS_CardinalityType
<1>3. Cardinality(S) = 0 <=> S = {}
  BY <1>2, FS_EmptySet
<1>4. Cardinality(S) = 1 <=> \E x : S = {x}
  BY <1>2, FS_Singleton
<1>5. Components!Size(l) > 0 <=> \E b \in Blocks : labels[b] = l
  BY <1>1, <1>2, <1>3
<1>6. ASSUME NEW b \in Blocks, labels[b] = l
      PROVE  Components!Size(l) > 1 <=> \E c \in Blocks : c # b /\ labels[c] = l
  <2>1. b \in S
    BY <1>6
  <2>2. Cardinality(S) # 0
    BY <1>3, <2>1
  <2>3. (\E x : S = {x}) <=> ~(\E c \in Blocks : c # b /\ labels[c] = l)
    <3>1. ASSUME NEW x, S = {x} PROVE ~(\E c \in Blocks : c # b /\ labels[c] = l)
      BY <2>1, <3>1
    <3>2. ASSUME ~(\E c \in Blocks : c # b /\ labels[c] = l) PROVE S = {b}
      BY <2>1, <3>2
    <3>3. QED
      BY <3>1, <3>2
  <2>4. QED
    BY <1>1, <1>2, <1>4, <2>2, <2>3
<1>7. QED
  BY <1>5, <1>6

(* The invariant gives the answers. *)
LEMMA ComponentsAnswer == ComponentsInv => ComponentsCorrect
<1> SUFFICES ASSUME ComponentsInv PROVE ComponentsCorrect
  OBVIOUS
<1>1. /\ WalkOK(succs, steps, finished) /\ FinishOK(succs, steps, finished)
      /\ LabelsTyped /\ PhasesOK /\ LabelsOK
  BY DEF ComponentsInv
<1>2. /\ succs \in [Blocks -> SUBSET Blocks] /\ label \in Nat /\ labels \in [Blocks -> Nat \cup {None}]
      /\ None \notin Nat /\ place \in Nat /\ finished \in Seq(Blocks)
  BY <1>1, GraphAssumption DEF LabelsTyped, WalkOK
<1>3. \A a, b \in Blocks : Components!Together(a, b, succs) <=> Mates(succs, a, b)
  BY CoReach DEF Components!Together, Mates
<1>4. Components!TypeOK
  <2>1. \A i, j \in DOMAIN finished : finished[i] = finished[j] => i = j
    <3>1. DOMAIN finished = 1 .. Len(finished)
      BY <1>2
    <3>2. QED
      BY <1>1, <3>1 DEF WalkOK, Distinct
  <2>2. \A l \in 0 .. label : l < label => Components!Size(l) > 0
    BY <1>1, <1>2, LabelSizes DEF LabelsTyped
  <2>3. QED
    BY <1>1, <1>2, <2>1, <2>2 DEF Components!TypeOK, LabelsTyped
<1>5. Components!ComponentsWhole
  BY <1>3, LabelsWhole DEF Components!ComponentsWhole
<1>6. Components!CyclesFound
  <2> SUFFICES ASSUME Components!Done
               PROVE  /\ \A b \in Blocks : labels[b] # None
                      /\ Components!blocks_on_cycles = {b \in Blocks : Components!OnCycle(b, succs)}
    BY DEF Components!CyclesFound
  <2>1. place > Len(finished) /\ place > 0 /\ Len(finished) \in Nat
    BY <1>2 DEF Components!Done
  <2>2. \A b \in Blocks : Old(b)
    <3> SUFFICES ASSUME NEW b \in Blocks PROVE Old(b)
      OBVIOUS
    <3>1. PICK i \in 1 .. Len(finished) : finished[i] = b
      BY <1>1, <2>1 DEF PhasesOK, Listed
    <3>2. i < place
      BY <1>2, <2>1
    <3>3. QED
      BY <1>1, <3>1, <3>2 DEF LabelsOK
  <2>3. \A b \in Blocks : labels[b] # None
    BY <1>2, <2>2 DEF Old
  <2>4. ASSUME NEW b \in Blocks
        PROVE  (b \in succs[b] \/ Components!Size(labels[b]) > 1) <=> Components!OnCycle(b, succs)
    <3>1. Components!Size(labels[b]) > 1 <=> \E c \in Blocks : c # b /\ labels[c] = labels[b]
      BY <1>1, LabelSizes
    <3>2. \A c \in Blocks : labels[b] = labels[c] <=> Mates(succs, b, c)
      BY <1>1, <2>2 DEF LabelsOK
    <3>3. Components!OnCycle(b, succs) <=> \E c \in succs[b] : b \in Reach(c, succs)
      BY CoReach DEF Components!OnCycle
    <3>4. ASSUME b \in succs[b] PROVE \E c \in succs[b] : b \in Reach(c, succs)
      BY <1>2, <3>4, ReachLeast
    <3>5. ASSUME NEW c \in Blocks, c # b, Mates(succs, b, c) PROVE \E d \in succs[b] : b \in Reach(d, succs)
      <4>1. PICK d \in succs[b] : d \in Blocks /\ c \in Reach(d, succs)
        BY <1>2, <3>5, ReachFirstStep DEF Mates
      <4>2. b \in Reach(d, succs)
        BY <1>2, <3>5, <4>1, ReachTransitive DEF Mates
      <4>3. QED
        BY <4>2
    <3>6. ASSUME NEW c \in succs[b], b \in Reach(c, succs), c # b PROVE c \in Blocks /\ Mates(succs, b, c)
      <4>1. c \in Blocks /\ c \in Reach(b, succs)
        BY <1>2, ReachLeast
      <4>2. QED
        BY <3>6, <4>1 DEF Mates
    <3>7. QED
      BY <3>1, <3>2, <3>3, <3>4, <3>5, <3>6
  <2>5. QED
    BY <2>3, <2>4 DEF Components!blocks_on_cycles
<1>7. QED
  BY <1>4, <1>5, <1>6 DEF ComponentsCorrect

(* scc_labels() gives two blocks one label just when ways lead from each to  *)
(* the other, and blocks_on_cycles() has the blocks from which a way leads   *)
(* back: for every graph, and every order of blocks, successors and          *)
(* predecessors.                                                             *)
THEOREM ComponentsAreCorrect == Components!Spec => []ComponentsCorrect
<1>1. Components!Spec => []ComponentsInv
  BY ComponentsInit, ComponentsStep, PTL DEF Components!Spec
<1>2. QED
  BY <1>1, ComponentsAnswer, PTL

-----------------------------------------------------------------------------
(* dominators *)

SDom(g, a, b) == StrictlyDominates(Entry, a, b, g)
Reached(g) == Reach(Entry, g)

(* The graph without ways through a block. *)
LEMMA AvoidingGraph ==
    ASSUME NEW g \in [Blocks -> SUBSET Blocks], NEW a
    PROVE  /\ Avoiding(a, g) \in [Blocks -> SUBSET Blocks] /\ Entry \in Blocks
           /\ \A b \in Blocks : Avoiding(a, g)[b] = IF b = a THEN {} ELSE g[b]
  BY BlocksAssumption DEF Avoiding

(* A dominator of a block is, or dominates, each predecessor of it.          *)
LEMMA DominatesBefore ==
    ASSUME NEW g \in [Blocks -> SUBSET Blocks], NEW p \in Reached(g), NEW b \in g[p], NEW a, SDom(g, a, b)
    PROVE  a = p \/ SDom(g, a, p)
<1> SUFFICES ASSUME a # p, ~SDom(g, a, p) PROVE FALSE
  OBVIOUS
<1> DEFINE h == Avoiding(a, g)
<1>1. h \in [Blocks -> SUBSET Blocks] /\ Entry \in Blocks /\ p \in Blocks /\ h[p] = g[p]
  <2>1. p \in Blocks
    BY AvoidingGraph, ReachLeast DEF Reached
  <2>2. QED
    BY <2>1, AvoidingGraph
<1>2. p \in Reach(Entry, h)
  BY DEF SDom, StrictlyDominates, Reached
<1>3. b \notin Reach(Entry, h)
  BY DEF SDom, StrictlyDominates
<1> HIDE DEF h
<1>4. h[p] \subseteq Reach(Entry, h)
  BY <1>1, <1>2, ReachLeast
<1>5. QED
  BY <1>1, <1>3, <1>4

(* What is reached without a block is reached. *)
LEMMA AvoidingReached ==
    ASSUME NEW g \in [Blocks -> SUBSET Blocks], NEW a
    PROVE  Reach(Entry, Avoiding(a, g)) \subseteq Reached(g)
<1> DEFINE h == Avoiding(a, g)
<1>1. h \in [Blocks -> SUBSET Blocks] /\ Entry \in Blocks /\ \A b \in Blocks : h[b] \subseteq g[b]
  BY AvoidingGraph
<1>2. /\ Reached(g) \in SUBSET Blocks /\ Entry \in Reached(g)
      /\ \A b \in Reached(g) : g[b] \subseteq Reached(g)
  BY <1>1, ReachLeast DEF Reached
<1> HIDE DEF h
<1>3. \A b \in Reached(g) : h[b] \subseteq Reached(g)
  BY <1>1, <1>2
<1>4. Reach(Entry, h) \subseteq Reached(g)
  BY <1>1, <1>2, <1>3, ReachLeast
<1>5. QED
  BY <1>4 DEF h

(* A dominator is reached itself, and the entry has none. *)
LEMMA DominatorReached ==
    ASSUME NEW g \in [Blocks -> SUBSET Blocks], NEW a, NEW b, SDom(g, a, b)
    PROVE  a \in Reached(g) /\ b \in Reached(g) /\ b # Entry /\ a # b
<1> DEFINE h == Avoiding(a, g)
<1>1. h \in [Blocks -> SUBSET Blocks] /\ Entry \in Blocks /\ \A c \in Blocks : c # a => h[c] = g[c]
  BY AvoidingGraph
<1>2. b \in Reached(g) /\ b \notin Reach(Entry, h) /\ a # b
  BY DEF SDom, StrictlyDominates, Reached
<1>3. Reach(Entry, h) \subseteq Reached(g)
  BY AvoidingReached
<1> HIDE DEF h
<1> DEFINE T == Reach(Entry, h)
<1>4. T \in SUBSET Blocks /\ Entry \in T /\ \A c \in T : h[c] \subseteq T
  BY <1>1, ReachLeast
<1>5. ASSUME a \notin T PROVE FALSE
  <2> HIDE DEF T
  <2>1. \A c \in T : g[c] \subseteq T
    BY <1>1, <1>4, <1>5
  <2>2. Reached(g) \subseteq T
    BY <1>1, <1>4, <2>1, ReachLeast DEF Reached
  <2>3. QED
    BY <1>2, <2>2 DEF T
<1>6. QED
  BY <1>2, <1>3, <1>4, <1>5

(* A set with the entry that no way leaves but through a block: what is not  *)
(* in it is dominated by that block.                                         *)
LEMMA DominatesOutside ==
    ASSUME NEW g \in [Blocks -> SUBSET Blocks], NEW a, NEW S \in SUBSET Blocks, Entry \in S,
           \A b \in S : b # a => g[b] \subseteq S,
           NEW b \in Reached(g), b \notin S, a # b
    PROVE  SDom(g, a, b)
<1> DEFINE h == Avoiding(a, g)
<1>1. h \in [Blocks -> SUBSET Blocks] /\ Entry \in Blocks /\ \A c \in Blocks : h[c] = IF c = a THEN {} ELSE g[c]
  BY AvoidingGraph
<1> HIDE DEF h
<1>2. \A c \in S : h[c] \subseteq S
  BY <1>1
<1>3. Reach(Entry, h) \subseteq S
  BY <1>1, <1>2, ReachLeast
<1>4. QED
  BY <1>3 DEF SDom, StrictlyDominates, Reached, h

(* A finite set of numbers has a least one. *)
LEMMA LeastOf ==
    ASSUME NEW n \in Nat, NEW T \in SUBSET (1 .. n), T # {}
    PROVE  \E m \in T : \A x \in T : m <= x
<1>1. T \in SUBSET Nat /\ IsFiniteSet(T)
  <2>1. IsFiniteSet(1 .. n)
    BY FS_Interval
  <2>2. T \subseteq 1 .. n
    OBVIOUS
  <2>3. IsFiniteSet(T)
    BY <2>1, <2>2, FS_Subset
  <2>4. \A x \in T : x \in Nat
    BY <2>2
  <2>5. QED
    BY <2>3, <2>4
<1>2. Cardinality(T) \in Nat /\ Cardinality(T) # 0
  BY <1>1, FS_CardinalityType, FS_EmptySet
<1> DEFINE m == Editing!Ranked(0, T)
<1>3. m \in T /\ Editing!Rank(m, T) = 0
  BY <1>1, <1>2, RankBijective
<1> HIDE DEF m
<1>4. ASSUME NEW x \in T, x < m PROVE FALSE
  <2>1. Editing!Rank(x, T) < Editing!Rank(m, T)
    BY <1>1, <1>3, <1>4, RankBijective
  <2>2. Editing!Rank(x, T) \in 0 .. Cardinality(T) - 1
    BY <1>1, <1>4, RankBijective
  <2>3. QED
    BY <1>2, <1>3, <2>1, <2>2
<1>5. ASSUME NEW x \in T PROVE m <= x
  <2>1. x \in Nat /\ m \in Nat /\ ~(x < m)
    BY <1>1, <1>3, <1>4
  <2>2. QED
    BY <2>1
<1>6. QED
  BY <1>3, <1>5

-----------------------------------------------------------------------------
(* The order has each reached block once, the entry first, and a predecessor *)
(* of every other block before it.                                           *)
OrderOK(g, o) ==
    /\ o \in Seq(Blocks) /\ Distinct(o)
    /\ \A b \in Blocks : Listed(o, b) <=> b \in Reached(g)
    /\ Len(o) >= 1 /\ o[1] = Entry
    /\ \A i \in 2 .. Len(o) : \E j \in 1 .. Len(o) : j < i /\ o[i] \in g[o[j]]

Index(o, b) == CHOOSE i \in DOMAIN o : o[i] = b

(* The index of a block on the list. *)
LEMMA IndexOf ==
    ASSUME NEW o \in Seq(Blocks), Distinct(o)
    PROVE  /\ \A i \in 1 .. Len(o) : Index(o, o[i]) = i
           /\ \A b : Listed(o, b) => Index(o, b) \in 1 .. Len(o) /\ o[Index(o, b)] = b
           /\ \A a, b : Listed(o, a) /\ Listed(o, b) /\ Index(o, a) = Index(o, b) => a = b
<1>1. DOMAIN o = 1 .. Len(o)
  OBVIOUS
<1>2. ASSUME NEW b, Listed(o, b) PROVE Index(o, b) \in 1 .. Len(o) /\ o[Index(o, b)] = b
  BY <1>1, <1>2 DEF Listed, Index
<1>3. ASSUME NEW i \in 1 .. Len(o) PROVE Index(o, o[i]) = i
  <2>1. Listed(o, o[i])
    BY DEF Listed
  <2>2. QED
    BY <1>2, <2>1 DEF Distinct
<1>4. QED
  BY <1>2, <1>3

(* The index of a reached block, and the block at an index. *)
LEMMA OrderIndex ==
    ASSUME NEW g \in [Blocks -> SUBSET Blocks], NEW o, OrderOK(g, o)
    PROVE  /\ Len(o) \in Nat /\ Len(o) >= 1 /\ Index(o, Entry) = 1 /\ Entry \in Reached(g) /\ Reached(g) \subseteq Blocks
           /\ \A i \in 1 .. Len(o) : o[i] \in Reached(g) /\ Index(o, o[i]) = i
           /\ \A b \in Reached(g) : Index(o, b) \in 1 .. Len(o) /\ o[Index(o, b)] = b
           /\ \A a, b \in Reached(g) : Index(o, a) = Index(o, b) => a = b
           /\ \A b \in Reached(g) : b # Entry => Index(o, b) \in 2 .. Len(o)
<1>1. /\ o \in Seq(Blocks) /\ Distinct(o) /\ \A b \in Blocks : Listed(o, b) <=> b \in Reached(g)
      /\ Len(o) >= 1 /\ o[1] = Entry
  BY DEF OrderOK
<1>2. Len(o) \in Nat /\ Entry \in Reached(g) /\ Reached(g) \subseteq Blocks
  BY <1>1, BlocksAssumption, ReachLeast DEF Reached
<1>3. /\ \A i \in 1 .. Len(o) : Index(o, o[i]) = i
      /\ \A b : Listed(o, b) => Index(o, b) \in 1 .. Len(o) /\ o[Index(o, b)] = b
      /\ \A a, b : Listed(o, a) /\ Listed(o, b) /\ Index(o, a) = Index(o, b) => a = b
  BY <1>1, IndexOf
<1>4. \A i \in 1 .. Len(o) : o[i] \in Blocks /\ Listed(o, o[i])
  BY <1>1 DEF Listed
<1>5. \A b \in Reached(g) : Listed(o, b)
  BY <1>1, <1>2
<1>6. 1 \in 1 .. Len(o)
  BY <1>1, <1>2
<1>7. Index(o, Entry) = 1
  BY <1>1, <1>3, <1>6
<1>8. \A b \in Reached(g) : b # Entry => Index(o, b) \in 2 .. Len(o)
  <2> SUFFICES ASSUME NEW b \in Reached(g), b # Entry PROVE Index(o, b) \in 2 .. Len(o)
    OBVIOUS
  <2>1. Index(o, b) \in 1 .. Len(o) /\ Index(o, b) # 1
    BY <1>1, <1>3, <1>5
  <2>2. QED
    BY <1>2, <2>1
<1>9. QED
  BY <1>1, <1>2, <1>3, <1>4, <1>5, <1>7, <1>8

(* Dominators come first in the order: what is before a block was reached    *)
(* without it.                                                               *)
LEMMA DominatorsEarlier ==
    ASSUME NEW g \in [Blocks -> SUBSET Blocks], NEW o, OrderOK(g, o), NEW a, NEW b, SDom(g, a, b)
    PROVE  Index(o, a) < Index(o, b)
<1>1. a \in Reached(g) /\ b \in Reached(g) /\ b # Entry /\ a # b
  BY DominatorReached
<1> DEFINE h == Avoiding(a, g)
<1> DEFINE T == {i \in 1 .. Len(o) : i < Index(o, a) /\ o[i] \notin Reach(Entry, h)}
<1>2. /\ h \in [Blocks -> SUBSET Blocks] /\ Entry \in Blocks
      /\ \A c \in Blocks : h[c] = IF c = a THEN {} ELSE g[c]
  BY AvoidingGraph
<1>3. b \notin Reach(Entry, h)
  BY DEF SDom, StrictlyDominates
<1> HIDE DEF h
<1>4. /\ Len(o) \in Nat /\ Reached(g) \subseteq Blocks
      /\ \A i \in 1 .. Len(o) : o[i] \in Reached(g) /\ Index(o, o[i]) = i
      /\ \A c \in Reached(g) : Index(o, c) \in 1 .. Len(o) /\ o[Index(o, c)] = c
      /\ \A c, d \in Reached(g) : Index(o, c) = Index(o, d) => c = d
  BY OrderIndex
<1>5. /\ o[1] = Entry /\ \A i \in 2 .. Len(o) : \E j \in 1 .. Len(o) : j < i /\ o[i] \in g[o[j]]
  BY DEF OrderOK
<1>6. T = {}
  <2> SUFFICES ASSUME T # {} PROVE FALSE
    OBVIOUS
  <2>1. T \in SUBSET (1 .. Len(o))
    OBVIOUS
  <2>2. PICK m \in T : \A x \in T : m <= x
    <3> HIDE DEF T
    <3>1. QED
      BY <1>4, <2>1, LeastOf
  <2>3. m \in 1 .. Len(o) /\ m < Index(o, a) /\ o[m] \notin Reach(Entry, h)
    BY <2>2
  <2>4. Entry \in Reach(Entry, h) /\ \A c \in Reach(Entry, h) : h[c] \subseteq Reach(Entry, h)
    BY <1>2, ReachLeast
  <2>5. m \in 2 .. Len(o)
    BY <1>4, <1>5, <2>3, <2>4
  <2>6. PICK j \in 1 .. Len(o) : j < m /\ o[m] \in g[o[j]]
    BY <1>5, <2>5
  <2>7. j < Index(o, a) /\ j \notin T
    BY <1>1, <1>4, <2>2, <2>3, <2>6
  <2>8. o[j] \in Reach(Entry, h)
    BY <2>7
  <2>9. o[j] # a /\ o[j] \in Blocks
    BY <1>4, <2>7
  <2>10. h[o[j]] = g[o[j]]
    BY <1>2, <2>9
  <2>11. QED
    BY <2>3, <2>4, <2>6, <2>8, <2>10
<1>7. Index(o, b) \in 1 .. Len(o) /\ Index(o, b) \notin T /\ o[Index(o, b)] = b
  BY <1>1, <1>4, <1>6
<1>8. ~(Index(o, b) < Index(o, a))
  BY <1>3, <1>7
<1>9. Index(o, a) \in 1 .. Len(o) /\ Index(o, a) # Index(o, b)
  BY <1>1, <1>4
<1>10. QED
  BY <1>4, <1>7, <1>8, <1>9

(* A walk that started at the entry: each frame's block is a successor of    *)
(* the one below it, and each finished block of one that is open or comes    *)
(* earlier in the order.                                                     *)
Prior(w, f, i, p) == Open(w, p) \/ \E j \in 1 .. Len(f) : j < i /\ f[j] = p
LinksOK(g, w, f) ==
    /\ \A c : Met(w, f, c) => c \in Reached(g)
    /\ Len(w) >= 1 => w[Len(w)].block = Entry
    /\ Len(w) = 0 => Len(f) >= 1 /\ f[1] = Entry
    /\ \A i \in 1 .. Len(w) : i + 1 <= Len(w) => w[i].block \in g[w[i + 1].block]
    /\ \A i \in 1 .. Len(f) : f[i] = Entry \/ \E p \in Blocks : f[i] \in g[p] /\ Prior(w, f, i, p)

(* A successor that was met is passed over. *)
LEMMA LinksPass ==
    ASSUME NEW g, NEW w, NEW f, LinksOK(g, w, f), NEW t, Len(t) = Len(w),
           Len(w) \in Nat, \A i \in 1 .. Len(w) : t[i].block = w[i].block
    PROVE  LinksOK(g, t, f)
<1>1. \A c : Open(t, c) <=> Open(w, c)
  BY DEF Open
<1>2. \A c : Met(t, f, c) <=> Met(w, f, c)
  BY <1>1 DEF Met
<1>3. \A i, p : Prior(t, f, i, p) <=> Prior(w, f, i, p)
  BY <1>1 DEF Prior
<1>4. \A i \in 1 .. Len(t) : i + 1 <= Len(t) => t[i].block \in g[t[i + 1].block]
  <2> SUFFICES ASSUME NEW i \in 1 .. Len(w), i + 1 <= Len(w) PROVE t[i].block \in g[t[i + 1].block]
    OBVIOUS
  <2>1. i + 1 \in 1 .. Len(w)
    OBVIOUS
  <2>2. QED
    BY <2>1 DEF LinksOK
<1>5. Len(t) >= 1 => t[Len(t)].block = Entry
  BY DEF LinksOK
<1>6. QED
  BY <1>2, <1>3, <1>4, <1>5 DEF LinksOK

(* A successor that was not met is gone down to. *)
LEMMA LinksDescend ==
    ASSUME NEW g \in [Blocks -> SUBSET Blocks], NEW w, NEW f, LinksOK(g, w, f), NEW t, Len(t) = Len(w) + 1,
           Len(w) \in Nat, Len(w) >= 1, t[1].block \in g[w[1].block],
           \A i \in 1 .. Len(w) : t[i + 1].block = w[i].block
    PROVE  LinksOK(g, t, f)
<1>1. \A c : Open(w, c) => Open(t, c)
  <2> SUFFICES ASSUME NEW i \in 1 .. Len(w) PROVE Open(t, w[i].block)
    BY DEF Open
  <2>1. i + 1 \in 1 .. Len(t) /\ t[i + 1].block = w[i].block
    OBVIOUS
  <2>2. QED
    BY <2>1 DEF Open
<1>2. \A i \in 1 .. Len(t) : i = 1 \/ (i - 1 \in 1 .. Len(w) /\ t[i].block = w[i - 1].block)
  <2> SUFFICES ASSUME NEW i \in 1 .. Len(t), i # 1 PROVE i - 1 \in 1 .. Len(w) /\ t[i].block = w[i - 1].block
    OBVIOUS
  <2>1. i - 1 \in 1 .. Len(w) /\ (i - 1) + 1 = i
    OBVIOUS
  <2>2. QED
    BY <2>1
<1>3. \A c : Open(t, c) => Open(w, c) \/ c = t[1].block
  <2> SUFFICES ASSUME NEW i \in 1 .. Len(t), i # 1 PROVE Open(w, t[i].block)
    BY DEF Open
  <2>1. QED
    BY <1>2 DEF Open
<1>4. t[1].block \in Reached(g)
  <2>1. 1 \in 1 .. Len(w)
    OBVIOUS
  <2>2. Met(w, f, w[1].block)
    BY <2>1 DEF Met, Open
  <2>3. w[1].block \in Reached(g)
    BY <2>2 DEF LinksOK
  <2>4. QED
    BY <2>3, BlocksAssumption, ReachLeast DEF Reached
<1>5. \A c : Met(t, f, c) => c \in Reached(g)
  BY <1>3, <1>4 DEF Met, LinksOK
<1>6. t[Len(t)].block = Entry
  <2>1. Len(w) \in 1 .. Len(w)
    OBVIOUS
  <2>2. QED
    BY <2>1 DEF LinksOK
<1>7. \A i \in 1 .. Len(t) : i + 1 <= Len(t) => t[i].block \in g[t[i + 1].block]
  <2> SUFFICES ASSUME NEW i \in 1 .. Len(t), i + 1 <= Len(t) PROVE t[i].block \in g[t[i + 1].block]
    OBVIOUS
  <2>1. i \in 1 .. Len(w) /\ t[i + 1].block = w[i].block
    OBVIOUS
  <2>2. CASE i = 1
    BY <2>1, <2>2
  <2>3. CASE i # 1
    <3>1. i - 1 \in 1 .. Len(w) /\ (i - 1) + 1 = i /\ i <= Len(w) /\ t[i].block = w[i - 1].block
      BY <1>2, <2>1, <2>3
    <3>2. w[i - 1].block \in g[w[i].block]
      BY <3>1 DEF LinksOK
    <3>3. QED
      BY <2>1, <3>1, <3>2
  <2>4. QED
    BY <2>2, <2>3
<1>8. \A i, p : Prior(w, f, i, p) => Prior(t, f, i, p)
  BY <1>1 DEF Prior
<1>9. \A i \in 1 .. Len(f) : f[i] = Entry \/ \E p \in Blocks : f[i] \in g[p] /\ Prior(t, f, i, p)
  BY <1>8 DEF LinksOK
<1>10. Len(t) # 0
  OBVIOUS
<1>11. QED
  BY <1>5, <1>6, <1>7, <1>9, <1>10 DEF LinksOK

(* A block without successors left is finished: the one below it was its     *)
(* way in.                                                                   *)
LEMMA LinksLeave ==
    ASSUME NEW g, NEW w \in Seq(Frames), NEW f \in Seq(Blocks), LinksOK(g, w, f), w # <<>>
    PROVE  LinksOK(g, Tail(w), <<w[1].block>> \o f)
<1> DEFINE t == Tail(w)
<1> DEFINE x == w[1].block
<1> DEFINE ff == <<w[1].block>> \o f
<1>1. /\ t \in Seq(Frames) /\ Len(w) \in Nat /\ Len(w) >= 1 /\ Len(t) = Len(w) - 1
      /\ \A i \in 1 .. Len(t) : t[i] = w[i + 1]
  OBVIOUS
<1>2. \A i \in 1 .. Len(w) : w[i].block \in Blocks
  <2>1. \A i \in 1 .. Len(w) : w[i] \in Frames
    OBVIOUS
  <2>2. QED
    BY <2>1 DEF Frames
<1>3. 1 \in 1 .. Len(w) /\ x \in Blocks
  BY <1>1, <1>2
<1> HIDE DEF x
<1>4. /\ ff \in Seq(Blocks) /\ Len(ff) = Len(f) + 1 /\ ff[1] = x /\ \A i \in 1 .. Len(f) : ff[i + 1] = f[i]
      /\ \A i \in 1 .. Len(ff) : i = 1 \/ (i - 1 \in 1 .. Len(f) /\ ff[i] = f[i - 1])
  BY <1>3, StackPush DEF x
<1> HIDE DEF t, ff
<1>5. Len(f) \in Nat /\ 1 \in 1 .. Len(ff) /\ \A i \in 1 .. Len(f) : i + 1 \in 1 .. Len(ff)
  BY <1>4
<1>6. \A c : Open(t, c) => Open(w, c)
  <2> SUFFICES ASSUME NEW i \in 1 .. Len(t) PROVE Open(w, t[i].block)
    BY DEF Open
  <2>1. i + 1 \in 1 .. Len(w) /\ t[i] = w[i + 1]
    BY <1>1
  <2>2. QED
    BY <2>1 DEF Open
<1>7. \A c : Open(w, c) => Open(t, c) \/ c = x
  <2> SUFFICES ASSUME NEW i \in 1 .. Len(w), i # 1 PROVE Open(t, w[i].block)
    BY DEF Open, x
  <2>1. i - 1 \in 1 .. Len(t) /\ (i - 1) + 1 = i
    BY <1>1
  <2>2. t[i - 1] = w[i]
    BY <1>1, <2>1
  <2>3. QED
    BY <2>1, <2>2 DEF Open
<1>8. \A c : Listed(ff, c) => Listed(f, c) \/ c = x
  BY <1>4 DEF Listed
<1>9. \A c : Met(t, ff, c) => c \in Reached(g)
  <2>1. Open(w, x)
    BY <1>3 DEF Open, x
  <2>2. QED
    BY <1>6, <1>8, <2>1 DEF Met, LinksOK
<1>10. Len(t) >= 1 => t[Len(t)].block = Entry
  <2> SUFFICES ASSUME Len(t) >= 1 PROVE t[Len(t)].block = Entry
    OBVIOUS
  <2>1. Len(t) \in 1 .. Len(t) /\ Len(t) + 1 = Len(w)
    BY <1>1
  <2>2. t[Len(t)] = w[Len(w)]
    BY <1>1, <2>1
  <2>3. QED
    BY <1>1, <2>2 DEF LinksOK
<1>11. Len(t) = 0 => Len(ff) >= 1 /\ ff[1] = Entry
  <2> SUFFICES ASSUME Len(t) = 0 PROVE Len(ff) >= 1 /\ ff[1] = Entry
    OBVIOUS
  <2>1. Len(w) = 1 /\ w[Len(w)].block = Entry
    BY <1>1 DEF LinksOK
  <2>2. x = Entry
    BY <2>1 DEF x
  <2>3. QED
    BY <1>4, <1>5, <2>2
<1>12. \A i \in 1 .. Len(t) : i + 1 <= Len(t) => t[i].block \in g[t[i + 1].block]
  <2> SUFFICES ASSUME NEW i \in 1 .. Len(t), i + 1 <= Len(t) PROVE t[i].block \in g[t[i + 1].block]
    OBVIOUS
  <2>1. i + 1 \in 1 .. Len(t) /\ i + 1 \in 1 .. Len(w) /\ (i + 1) + 1 <= Len(w)
    BY <1>1
  <2>2. w[i + 1].block \in g[w[(i + 1) + 1].block]
    BY <2>1 DEF LinksOK
  <2>3. QED
    BY <1>1, <2>1, <2>2
<1>13. \A i \in 1 .. Len(ff) : ff[i] = Entry \/ \E p \in Blocks : ff[i] \in g[p] /\ Prior(t, ff, i, p)
  <2> SUFFICES ASSUME NEW i \in 1 .. Len(ff), ff[i] # Entry
               PROVE  \E p \in Blocks : ff[i] \in g[p] /\ Prior(t, ff, i, p)
    OBVIOUS
  <2>1. CASE i = 1
    <3>1. x # Entry /\ ff[i] = x
      BY <1>4, <2>1
    <3>2. Len(w) # 1
      BY <1>1, <3>1 DEF LinksOK, x
    <3>3. 1 \in 1 .. Len(t) /\ 1 + 1 \in 1 .. Len(w) /\ 1 + 1 <= Len(w)
      BY <1>1, <3>2
    <3>4. w[1].block \in g[w[1 + 1].block]
      BY <1>3, <3>3 DEF LinksOK
    <3>5. t[1].block = w[1 + 1].block /\ w[1 + 1].block \in Blocks
      BY <1>1, <1>2, <3>3
    <3>6. Open(t, w[1 + 1].block)
      BY <3>3, <3>5 DEF Open
    <3>7. QED
      BY <3>1, <3>4, <3>5, <3>6 DEF Prior, x
  <2>2. CASE i # 1
    <3>1. i - 1 \in 1 .. Len(f) /\ ff[i] = f[i - 1]
      BY <1>4, <2>2
    <3>2. PICK p \in Blocks : f[i - 1] \in g[p] /\ Prior(w, f, i - 1, p)
      BY <3>1 DEF LinksOK
    <3>3. CASE Open(t, p)
      BY <3>1, <3>2, <3>3 DEF Prior
    <3>4. CASE p = x
      <4>1. 1 < i /\ ff[1] = p
        BY <1>4, <1>5, <2>2, <3>4
      <4>2. Prior(t, ff, i, p)
        BY <1>5, <4>1 DEF Prior
      <4>3. QED
        BY <3>1, <3>2, <4>2
    <3>5. CASE ~Open(t, p) /\ p # x
      <4>1. PICK j \in 1 .. Len(f) : j < i - 1 /\ f[j] = p
        BY <1>7, <3>2, <3>5 DEF Prior
      <4>2. j + 1 \in 1 .. Len(ff) /\ j + 1 < i /\ ff[j + 1] = p
        BY <1>4, <1>5, <4>1
      <4>3. Prior(t, ff, i, p)
        BY <4>2 DEF Prior
      <4>4. QED
        BY <3>1, <3>2, <4>3
    <3>6. QED
      BY <3>3, <3>4, <3>5
  <2>3. QED
    BY <2>1, <2>2
<1>14. LinksOK(g, t, ff)
  BY <1>9, <1>10, <1>11, <1>12, <1>13 DEF LinksOK
<1>15. QED
  BY <1>14 DEF t, ff

(* When the walk is over the order is complete. *)
LEMMA OrderComplete ==
    ASSUME NEW g \in [Blocks -> SUBSET Blocks], NEW o, WalkOK(g, <<>>, o), LinksOK(g, <<>>, o)
    PROVE  OrderOK(g, o)
<1>1. o \in Seq(Blocks) /\ Distinct(o) /\ \A b : Listed(o, b) => \A c \in g[b] : Met(<<>>, o, c)
  BY DEF WalkOK
<1>2. Len(<<>>) = 0 /\ \A c : ~Open(<<>>, c)
  BY DEF Open
<1>3. /\ \A c : Met(<<>>, o, c) => c \in Reached(g)
      /\ Len(o) >= 1 /\ o[1] = Entry
      /\ \A i \in 1 .. Len(o) : o[i] = Entry \/ \E p \in Blocks : o[i] \in g[p] /\ Prior(<<>>, o, i, p)
  BY <1>2 DEF LinksOK
<1>4. Len(o) \in Nat /\ 1 \in 1 .. Len(o) /\ Entry \in Blocks
  BY <1>1, <1>3, BlocksAssumption
<1>5. \A b : Listed(o, b) => b \in Blocks
  BY <1>1 DEF Listed
<1>6. Reached(g) \subseteq {b \in Blocks : Listed(o, b)}
  <2> DEFINE S == {b \in Blocks : Listed(o, b)}
  <2>1. S \in SUBSET Blocks /\ Entry \in S
    BY <1>3, <1>4 DEF Listed
  <2>2. \A b \in S : g[b] \subseteq S
    BY <1>1, <1>2, <1>5 DEF Met
  <2> HIDE DEF S
  <2>3. Reached(g) \subseteq S
    BY <1>4, <2>1, <2>2, ReachLeast DEF Reached
  <2>4. QED
    BY <2>3 DEF S
<1>7. \A b \in Blocks : Listed(o, b) <=> b \in Reached(g)
  BY <1>3, <1>6 DEF Met
<1>8. \A i \in 2 .. Len(o) : \E j \in 1 .. Len(o) : j < i /\ o[i] \in g[o[j]]
  <2> SUFFICES ASSUME NEW i \in 2 .. Len(o) PROVE \E j \in 1 .. Len(o) : j < i /\ o[i] \in g[o[j]]
    OBVIOUS
  <2>1. i \in 1 .. Len(o) /\ i # 1
    BY <1>4
  <2>2. o[i] # Entry
    BY <1>1, <1>3, <1>4, <2>1 DEF Distinct
  <2>3. PICK p \in Blocks : o[i] \in g[p] /\ Prior(<<>>, o, i, p)
    BY <1>3, <2>1, <2>2
  <2>4. PICK j \in 1 .. Len(o) : j < i /\ o[j] = p
    BY <1>2, <2>3 DEF Prior
  <2>5. QED
    BY <2>3, <2>4
<1>9. QED
  BY <1>1, <1>3, <1>7, <1>8 DEF OrderOK

(* The tree of the idoms d: the way up from a block. *)
Up(d) == [x \in Blocks |-> IF x = Entry \/ d[x] = None THEN {} ELSE {d[x]}]
Anc(d, x) == Reach(x, Up(d))

Doms == [Blocks -> Blocks \cup {None}]

(* The idom of a block is before it in the order and has an idom too, and    *)
(* what dominates the block is or dominates its idom.                        *)
TreeOK(g, o, d) ==
    /\ d \in Doms /\ d[Entry] = Entry
    /\ \A b \in Blocks \ {Entry} : d[b] # None =>
          /\ b \in Reached(g) /\ d[b] \in Reached(g)
          /\ Index(o, d[b]) < Index(o, b)
          /\ d[d[b]] # None
    /\ \A b \in Blocks \ {Entry} : d[b] # None =>
          \A a \in Blocks : SDom(g, a, b) => a = d[b] \/ SDom(g, a, d[b])

(* The ancestors of a block. *)
LEMMA Ancestors ==
    ASSUME NEW d \in Doms, NEW x \in Blocks
    PROVE  /\ x \in Anc(d, x) /\ Anc(d, x) \subseteq Blocks
           /\ \A y \in Anc(d, x) : y # Entry /\ d[y] # None => d[y] \in Blocks /\ d[y] \in Anc(d, x)
           /\ \A y \in Anc(d, x) : Anc(d, y) \subseteq Anc(d, x)
           /\ \A y \in Anc(d, x) : y # x => x # Entry /\ d[x] # None /\ d[x] \in Blocks /\ y \in Anc(d, d[x])
           /\ \A S \in SUBSET Blocks :
                 x \in S /\ (\A y \in S : y # Entry /\ d[y] # None => d[y] \in S) => Anc(d, x) \subseteq S
<1> DEFINE u == Up(d)
<1>1. /\ u \in [Blocks -> SUBSET Blocks]
      /\ \A y \in Blocks : u[y] = IF y = Entry \/ d[y] = None THEN {} ELSE {d[y]}
      /\ \A y \in Blocks : d[y] # None => d[y] \in Blocks
  BY DEF Up, Doms
<1>2. \A y : Anc(d, y) = Reach(y, u)
  BY DEF Anc
<1> HIDE DEF u
<1>3. /\ x \in Reach(x, u) /\ Reach(x, u) \subseteq Blocks
      /\ \A y \in Reach(x, u) : u[y] \subseteq Reach(x, u)
      /\ \A S \in SUBSET Blocks : x \in S /\ (\A b \in S : u[b] \subseteq S) => Reach(x, u) \subseteq S
  BY <1>1, ReachLeast
<1>4. \A y \in Reach(x, u) : Reach(y, u) \subseteq Reach(x, u)
  BY <1>1, ReachTransitive
<1>5. \A y \in Reach(x, u) : y # Entry /\ d[y] # None => d[y] \in Blocks /\ d[y] \in Reach(x, u)
  BY <1>1, <1>3
<1>6. ASSUME NEW y \in Reach(x, u), y # x
      PROVE  x # Entry /\ d[x] # None /\ d[x] \in Blocks /\ y \in Reach(d[x], u)
  <2>1. PICK z \in u[x] : y \in Reach(z, u)
    BY <1>1, <1>6, ReachFirstStep
  <2>2. QED
    BY <1>1, <2>1
<1>7. ASSUME NEW S \in SUBSET Blocks, x \in S, \A y \in S : y # Entry /\ d[y] # None => d[y] \in S
      PROVE  Reach(x, u) \subseteq S
  <2>1. \A y \in S : u[y] \subseteq S
    BY <1>1, <1>7
  <2>2. QED
    BY <1>3, <1>7, <2>1
<1>8. QED
  BY <1>2, <1>3, <1>4, <1>5, <1>6, <1>7

(* The ancestors of a block with an idom have one, and are before it. *)
LEMMA AncestorsEarlier ==
    ASSUME NEW g \in [Blocks -> SUBSET Blocks], NEW o, OrderOK(g, o), NEW d, TreeOK(g, o, d),
           NEW x \in Blocks, d[x] # None, NEW y \in Anc(d, x)
    PROVE  /\ d[y] # None /\ y \in Blocks /\ x \in Reached(g) /\ y \in Reached(g)
           /\ Index(o, y) <= Index(o, x) /\ (y # x => Index(o, y) < Index(o, x))
<1>1. /\ d \in Doms /\ d[Entry] = Entry
      /\ \A b \in Blocks \ {Entry} : d[b] # None =>
           b \in Reached(g) /\ d[b] \in Reached(g) /\ Index(o, d[b]) < Index(o, b) /\ d[d[b]] # None
  BY DEF TreeOK
<1>2. /\ Len(o) \in Nat /\ Entry \in Reached(g) /\ Reached(g) \subseteq Blocks
      /\ \A b \in Reached(g) : Index(o, b) \in 1 .. Len(o)
      /\ \A a, b \in Reached(g) : Index(o, a) = Index(o, b) => a = b
  BY OrderIndex
<1>3. \A b \in Blocks : d[b] # None => b \in Reached(g)
  BY <1>1, <1>2
<1>4. \A b \in Reached(g) : Index(o, b) \in Nat
  BY <1>2
<1> DEFINE S == {b \in Reached(g) : d[b] # None /\ Index(o, b) <= Index(o, x)}
<1>5. x \in S /\ S \in SUBSET Blocks
  BY <1>2, <1>3, <1>4
<1>6. ASSUME NEW b \in S, b # Entry, d[b] # None PROVE d[b] \in S
  <2>1. b \in Blocks /\ b \in Reached(g) /\ Index(o, b) <= Index(o, x) /\ x \in Reached(g)
    BY <1>2, <1>5
  <2>2. d[b] \in Reached(g) /\ Index(o, d[b]) < Index(o, b) /\ d[d[b]] # None
    BY <1>1, <1>6, <2>1
  <2>3. Index(o, d[b]) <= Index(o, x)
    BY <1>4, <2>1, <2>2
  <2>4. QED
    BY <2>2, <2>3
<1> HIDE DEF S
<1>7. Anc(d, x) \subseteq S
  BY <1>1, <1>5, <1>6, Ancestors
<1>8. y \in S
  BY <1>7
<1>9. /\ d[y] # None /\ y \in Blocks /\ x \in Reached(g) /\ y \in Reached(g) /\ Index(o, y) <= Index(o, x)
  BY <1>2, <1>5, <1>8 DEF S
<1>10. y # x => Index(o, y) < Index(o, x)
  BY <1>2, <1>4, <1>9
<1>11. QED
  BY <1>9, <1>10

(* No two blocks are ancestors of each other. *)
LEMMA AncestorsOneWay ==
    ASSUME NEW g \in [Blocks -> SUBSET Blocks], NEW o, OrderOK(g, o), NEW d, TreeOK(g, o, d),
           NEW x \in Blocks, d[x] # None, NEW y \in Anc(d, x), x \in Anc(d, y)
    PROVE  x = y
<1>1. d[y] # None /\ y \in Blocks /\ x \in Reached(g) /\ y \in Reached(g) /\ (y # x => Index(o, y) < Index(o, x))
  BY AncestorsEarlier
<1>2. x # y => Index(o, x) < Index(o, y)
  BY <1>1, AncestorsEarlier
<1>3. Index(o, x) \in Nat /\ Index(o, y) \in Nat
  BY <1>1, OrderIndex
<1>4. QED
  BY <1>1, <1>2, <1>3

(* A block's idom becomes one that all its dominators are or dominate. *)
LEMMA TreeAssign ==
    ASSUME NEW g \in [Blocks -> SUBSET Blocks], NEW o, OrderOK(g, o), NEW d, TreeOK(g, o, d),
           NEW b \in Reached(g), b # Entry, NEW c \in Reached(g), d[c] # None, Index(o, c) < Index(o, b),
           \A a \in Blocks : SDom(g, a, b) => a = c \/ SDom(g, a, c)
    PROVE  TreeOK(g, o, [d EXCEPT ![b] = c])
<1> DEFINE e == [d EXCEPT ![b] = c]
<1>1. /\ d \in Doms /\ d[Entry] = Entry
      /\ \A x \in Blocks \ {Entry} : d[x] # None =>
           x \in Reached(g) /\ d[x] \in Reached(g) /\ Index(o, d[x]) < Index(o, x) /\ d[d[x]] # None
      /\ \A x \in Blocks \ {Entry} : d[x] # None =>
           \A a \in Blocks : SDom(g, a, x) => a = d[x] \/ SDom(g, a, d[x])
  BY DEF TreeOK
<1>2. Reached(g) \subseteq Blocks /\ Entry \in Blocks /\ None \notin Blocks
  BY OrderIndex, BlocksAssumption, GraphAssumption
<1>3. e \in Doms /\ e[b] = c /\ \A x \in Blocks : x # b => e[x] = d[x]
  BY <1>1, <1>2 DEF Doms
<1>4. \A x \in Blocks : d[x] # None => e[x] # None
  BY <1>2, <1>3
<1>5. b \in Blocks /\ c \in Blocks
  BY <1>2
<1>6. e[Entry] = Entry
  BY <1>1, <1>2, <1>3
<1> HIDE DEF e
<1>7. ASSUME NEW x \in Blocks \ {Entry}, e[x] # None
      PROVE  /\ x \in Reached(g) /\ e[x] \in Reached(g) /\ Index(o, e[x]) < Index(o, x) /\ e[e[x]] # None
             /\ \A a \in Blocks : SDom(g, a, x) => a = e[x] \/ SDom(g, a, e[x])
  <2>1. CASE x = b
    BY <1>3, <1>4, <1>5, <2>1
  <2>2. CASE x # b
    <3>1. e[x] = d[x] /\ d[x] # None
      BY <1>3, <1>7, <2>2
    <3>2. x \in Reached(g) /\ d[x] \in Reached(g) /\ Index(o, d[x]) < Index(o, x) /\ d[d[x]] # None
      BY <1>1, <3>1
    <3>3. e[d[x]] # None
      BY <1>2, <1>4, <3>2
    <3>4. QED
      BY <1>1, <3>1, <3>2, <3>3
  <2>3. QED
    BY <2>1, <2>2
<1>8. TreeOK(g, o, e)
  BY <1>3, <1>6, <1>7 DEF TreeOK
<1>9. QED
  BY <1>8 DEF e

-----------------------------------------------------------------------------
(* Each reached block has an idom, an ancestor of all its predecessors. *)
TreeDone(g, o, d) ==
    /\ TreeOK(g, o, d)
    /\ \A b \in Reached(g) : d[b] # None
    /\ \A p \in Reached(g) : \A b \in g[p] : b # Entry => d[b] \in Anc(d, p)

(* Then the ancestors of a block are its dominators: going up reaches every  *)
(* dominator, and no way gets past an ancestor.                              *)
LEMMA TreeDominates ==
    ASSUME NEW g \in [Blocks -> SUBSET Blocks], NEW o, OrderOK(g, o), NEW d, TreeDone(g, o, d),
           NEW a \in Blocks, NEW b \in Reached(g)
    PROVE  a \in Anc(d, b) /\ a # b <=> SDom(g, a, b)
<1>1. /\ TreeOK(g, o, d) /\ d \in Doms /\ d[Entry] = Entry
      /\ \A x \in Blocks \ {Entry} : d[x] # None =>
           x \in Reached(g) /\ d[x] \in Reached(g) /\ Index(o, d[x]) < Index(o, x) /\ d[d[x]] # None
      /\ \A x \in Blocks \ {Entry} : d[x] # None =>
           \A c \in Blocks : SDom(g, c, x) => c = d[x] \/ SDom(g, c, d[x])
      /\ \A x \in Reached(g) : d[x] # None
      /\ \A p \in Reached(g) : \A x \in g[p] : x # Entry => d[x] \in Anc(d, p)
  BY DEF TreeDone, TreeOK
<1>2. /\ Len(o) \in Nat /\ Entry \in Reached(g) /\ Reached(g) \subseteq Blocks
      /\ \A x \in Reached(g) : Index(o, x) \in 1 .. Len(o) /\ o[Index(o, x)] = x
      /\ \A i \in 1 .. Len(o) : o[i] \in Reached(g) /\ Index(o, o[i]) = i
  BY OrderIndex
<1>3. \A x \in Reached(g) : g[x] \subseteq Reached(g)
  BY BlocksAssumption, ReachLeast DEF Reached
<1>4. ASSUME SDom(g, a, b) PROVE a \in Anc(d, b) /\ a # b
  <2> DEFINE T == {i \in 1 .. Len(o) : SDom(g, a, o[i]) /\ a \notin Anc(d, o[i])}
  <2>1. T = {}
    <3> SUFFICES ASSUME T # {} PROVE FALSE
      OBVIOUS
    <3>1. T \in SUBSET (1 .. Len(o))
      OBVIOUS
    <3>2. PICK m \in T : \A i \in T : m <= i
      <4> HIDE DEF T
      <4>1. QED
        BY <1>2, <3>1, LeastOf
    <3> DEFINE x == o[m]
    <3>3. m \in 1 .. Len(o) /\ SDom(g, a, x) /\ a \notin Anc(d, x)
      BY <3>2
    <3>4. x \in Reached(g) /\ x # Entry /\ Index(o, x) = m /\ x \in Blocks
      BY <1>2, <3>3, DominatorReached
    <3> HIDE DEF x
    <3>5. d[x] # None /\ d[x] \in Reached(g) /\ Index(o, d[x]) < m /\ d[x] \in Blocks
      BY <1>1, <1>2, <3>4
    <3>6. x \in Anc(d, x) /\ d[x] \in Anc(d, x) /\ Anc(d, d[x]) \subseteq Anc(d, x)
      BY <1>1, <3>4, <3>5, Ancestors
    <3>7. SDom(g, a, d[x])
      BY <1>1, <3>3, <3>4, <3>5, <3>6
    <3>8. a \in Anc(d, d[x])
      <4>1. Index(o, d[x]) \in 1 .. Len(o) /\ o[Index(o, d[x])] = d[x]
        BY <1>2, <3>5
      <4>2. Index(o, d[x]) \notin T
        BY <1>2, <3>2, <3>3, <3>5, <4>1
      <4>3. QED
        BY <3>7, <4>1, <4>2
    <3>9. QED
      BY <3>3, <3>6, <3>8
  <2>2. Index(o, b) \in 1 .. Len(o) /\ o[Index(o, b)] = b
    BY <1>2
  <2>3. a # b
    BY <1>4, DominatorReached
  <2>4. QED
    BY <1>4, <2>1, <2>2, <2>3
<1>5. ASSUME a \in Anc(d, b), a # b PROVE SDom(g, a, b)
  <2> DEFINE S == {x \in Reached(g) : a \notin Anc(d, x)} \cup {a}
  <2>1. S \in SUBSET Blocks /\ b \notin S
    BY <1>2, <1>5
  <2>2. Entry \in S
    BY <1>1, <1>2, Ancestors
  <2>3. ASSUME NEW x \in S, x # a, NEW y \in g[x], y \notin S PROVE FALSE
    <3>1. x \in Reached(g) /\ a \notin Anc(d, x) /\ x \in Blocks
      BY <1>2, <2>3
    <3>2. y \in Reached(g) /\ a \in Anc(d, y) /\ a # y /\ y \in Blocks
      BY <1>2, <1>3, <2>3, <3>1
    <3>3. y # Entry /\ a \in Anc(d, d[y])
      BY <1>1, <3>2, Ancestors
    <3>4. d[y] \in Anc(d, x)
      BY <1>1, <2>3, <3>1, <3>3
    <3>5. Anc(d, d[y]) \subseteq Anc(d, x)
      BY <1>1, <3>1, <3>4, Ancestors
    <3>6. QED
      BY <3>1, <3>3, <3>5
  <2> HIDE DEF S
  <2>4. \A x \in S : x # a => g[x] \subseteq S
    BY <2>3
  <2>5. QED
    BY <1>5, <2>1, <2>2, <2>4, DominatesOutside
<1>6. QED
  BY <1>4, <1>5

(* A block that all dominators of b are or dominate. *)
Stands(g, d, c, b) ==
    /\ c \in Reached(g) /\ d[c] # None
    /\ \A a \in Blocks : SDom(g, a, b) => a = c \/ SDom(g, a, c)

(* The predecessors with an idom. *)
Ready(g, d, b) == {p \in Blocks : b \in g[p] /\ d[p] # None}

(* The fingers c and f, while the predecessors r of b are still to consider: *)
(* of the others each is below one of the fingers.                           *)
FingersOK(g, d, b, r, c, f) ==
    /\ r \subseteq Ready(g, d, b)
    /\ c # None => Stands(g, d, c, b)
    /\ f # None => c # None /\ Stands(g, d, f, b)
    /\ \A p \in Ready(g, d, b) \ r : c # None /\ (c \in Anc(d, p) \/ (f # None /\ f \in Anc(d, p)))

(* The blocks before i have idoms that their predecessors agree on. *)
Stable(g, o, d, i) == \A j \in 2 .. Len(o) : j < i => \A p \in Ready(g, d, o[j]) : d[o[j]] \in Anc(d, p)

IterationOK ==
    /\ at \in 2 .. Len(order) + 1 /\ changed \in BOOLEAN
    /\ \A i \in 1 .. Len(order) : i < at => idoms[order[i]] # None
    /\ at \notin 1 .. Len(order) => considered = {} /\ candidate = None /\ finger = None
    /\ at \in 1 .. Len(order) => FingersOK(succs, idoms, order[at], considered, candidate, finger)
    /\ ~changed => Stable(succs, order, idoms, at)

Unnumbered == clock = 0 /\ preorder = [b \in Blocks |-> None] /\ postorder = [b \in Blocks |-> None]

OrderPhase ==
    /\ WalkOK(succs, walk, order) /\ FinishOK(succs, walk, order) /\ LinksOK(succs, walk, order)
    /\ idoms = [b \in Blocks |-> None] /\ at = 2 /\ changed = FALSE
    /\ considered = {} /\ candidate = None /\ finger = None
    /\ Unnumbered

IdomsPhase ==
    /\ walk = <<>> /\ OrderOK(succs, order) /\ TreeOK(succs, order, idoms) /\ IterationOK
    /\ Unnumbered

(* The walk for the order. *)
LEMMA DominatorsWalk ==
    ASSUME succs \in [Blocks -> SUBSET Blocks], OrderPhase, NEW b \in Blocks, Dominators!Visit(b) \/ Dominators!Leave
    PROVE  OrderPhase' /\ phase' = "order" /\ succs' = succs
<1>1. WalkOK(succs, walk, order) /\ FinishOK(succs, walk, order) /\ LinksOK(succs, walk, order)
  BY DEF OrderPhase
<1>2. UNCHANGED <<succs, phase, idoms, at, changed, considered, candidate, finger, clock, preorder, postorder>> /\ phase = "order"
  BY DEF Dominators!Visit, Dominators!Leave, Dominators!iteration, Dominators!intervals
<1>3. walk \in Seq(Frames) /\ order \in Seq(Blocks)
  BY <1>1 DEF WalkOK
<1>4. \A c : c \in Dominators!Visited <=> Met(walk, order, c)
  <2>1. DOMAIN walk = 1 .. Len(walk) /\ DOMAIN order = 1 .. Len(order)
    BY <1>3
  <2>2. QED
    BY <2>1 DEF Dominators!Visited, Met, Open, Listed
<1>5. WalkOK(succs, walk', order') /\ FinishOK(succs, walk', order') /\ LinksOK(succs, walk', order')
  <2>1. CASE Dominators!Visit(b)
    <3> DEFINE f == [Head(walk) EXCEPT !.rest = @ \ {b}]
    <3>1. /\ walk # <<>> /\ b \in walk[1].rest /\ order' = order
          /\ walk' = (IF b \in Dominators!Visited THEN <<>> ELSE <<[block |-> b, rest |-> succs[b]]>>) \o <<f>> \o Tail(walk)
      BY <1>3, <2>1 DEF Dominators!Visit
    <3>2. Len(walk) \in Nat /\ Len(walk) >= 1 /\ walk[1] \in Frames /\ Head(walk) = walk[1]
      BY <1>3, <3>1
    <3>3. f \in Frames /\ f.block = walk[1].block /\ f.rest = walk[1].rest \ {b}
      BY <3>2 DEF Frames
    <3> HIDE DEF f
    <3>4. CASE b \in Dominators!Visited
      <4>1. /\ walk' \in Seq(Frames) /\ Len(walk') = Len(walk) /\ walk'[1] = f
            /\ \A i \in 2 .. Len(walk) : walk'[i] = walk[i]
        BY <1>3, <3>1, <3>3, <3>4, WalkGoesOn
      <4>2. Met(walk, order, b)
        BY <1>4, <3>4
      <4>3. WalkOK(succs, walk', order) /\ FinishOK(succs, walk', order)
        BY <1>1, <3>2, <3>3, <4>1, <4>2, WalkPasses
      <4>4. \A i \in 1 .. Len(walk) : walk'[i].block = walk[i].block
        <5> SUFFICES ASSUME NEW i \in 1 .. Len(walk) PROVE walk'[i].block = walk[i].block
          OBVIOUS
        <5>1. CASE i = 1
          BY <3>3, <4>1, <5>1
        <5>2. CASE i \in 2 .. Len(walk)
          BY <4>1, <5>2
        <5>3. QED
          BY <3>2, <5>1, <5>2
      <4>5. LinksOK(succs, walk', order)
        BY <1>1, <3>2, <4>1, <4>4, LinksPass
      <4>6. QED
        BY <3>1, <4>3, <4>5
    <3>5. CASE b \notin Dominators!Visited
      <4> DEFINE x == [block |-> b, rest |-> succs[b]]
      <4>1. x \in Frames /\ x.block = b /\ x.rest = succs[b]
        BY DEF Frames
      <4>2. walk' = <<x>> \o <<f>> \o Tail(walk)
        BY <3>1, <3>5
      <4> HIDE DEF x
      <4>3. /\ walk' \in Seq(Frames) /\ Len(walk') = Len(walk) + 1 /\ walk'[1] = x /\ walk'[2] = f
            /\ \A i \in 2 .. Len(walk) : walk'[i + 1] = walk[i]
        BY <1>3, <3>1, <3>3, <4>1, <4>2, WalkGoesDown
      <4>4. ~Met(walk, order, b)
        BY <1>4, <3>5
      <4>5. WalkOK(succs, walk', order) /\ FinishOK(succs, walk', order)
        BY <1>1, <3>1, <3>2, <3>3, <4>1, <4>3, <4>4, WalkDescends
      <4>6. \A i \in 1 .. Len(walk) : walk'[i + 1].block = walk[i].block
        <5> SUFFICES ASSUME NEW i \in 1 .. Len(walk) PROVE walk'[i + 1].block = walk[i].block
          OBVIOUS
        <5>1. CASE i = 1
          BY <3>3, <4>3, <5>1
        <5>2. CASE i \in 2 .. Len(walk)
          BY <4>3, <5>2
        <5>3. QED
          BY <3>2, <5>1, <5>2
      <4>7. walk'[1].block \in succs[walk[1].block]
        <5>1. 1 \in 1 .. Len(walk)
          BY <3>2
        <5>2. walk[1].rest \subseteq succs[walk[1].block]
          BY <1>1, <5>1 DEF WalkOK
        <5>3. QED
          BY <3>1, <4>1, <4>3, <5>2
      <4>8. LinksOK(succs, walk', order)
        BY <1>1, <3>2, <4>3, <4>6, <4>7, LinksDescend
      <4>9. QED
        BY <3>1, <4>5, <4>8
    <3>6. QED
      BY <3>4, <3>5
  <2>2. CASE Dominators!Leave
    <3>1. /\ walk # <<>> /\ walk[1].rest = {}
          /\ walk' = Tail(walk) /\ order' = <<walk[1].block>> \o order
      BY <1>3, <2>2 DEF Dominators!Leave
    <3>2. WalkOK(succs, walk', order') /\ FinishOK(succs, walk', order')
      BY <1>1, <3>1, WalkLeaves
    <3>3. LinksOK(succs, walk', order')
      BY <1>1, <1>3, <3>1, LinksLeave
    <3>4. QED
      BY <3>2, <3>3
  <2>3. QED
    BY <2>1, <2>2
<1>6. WalkOK(succs', walk', order') /\ FinishOK(succs', walk', order') /\ LinksOK(succs', walk', order')
  BY <1>2, <1>5
<1>7. Unnumbered'
  BY <1>2 DEF OrderPhase, Unnumbered
<1>8. QED
  BY <1>2, <1>6, <1>7 DEF OrderPhase

(* A block's turn begins: nothing is considered yet. *)
LEMMA FingersStart ==
    ASSUME NEW g, NEW d, NEW b
    PROVE  FingersOK(g, d, b, Ready(g, d, b), None, None)
  BY DEF FingersOK

(* The order is complete; the entry is its own idom. *)
LEMMA DominatorsOrdered ==
    ASSUME succs \in [Blocks -> SUBSET Blocks], OrderPhase, Dominators!OrderDone
    PROVE  IdomsPhase' /\ phase' = "idoms" /\ succs' = succs
<1>1. WalkOK(succs, walk, order) /\ LinksOK(succs, walk, order) /\ walk = <<>>
  BY DEF OrderPhase, Dominators!OrderDone
<1>2. OrderOK(succs, order)
  BY <1>1, OrderComplete
<1>3. /\ UNCHANGED <<succs, walk, order, at, changed, candidate, finger, clock, preorder, postorder>>
      /\ phase' = "idoms" /\ idoms' = [idoms EXCEPT ![Entry] = Entry]
      /\ considered' = Dominators!Considered(2, idoms')
  BY DEF Dominators!OrderDone, Dominators!search, Dominators!intervals
<1>4. /\ idoms = [b \in Blocks |-> None] /\ at = 2 /\ changed = FALSE
      /\ considered = {} /\ candidate = None /\ finger = None /\ Unnumbered
  BY DEF OrderPhase
<1>5. Entry \in Blocks /\ None \notin Blocks
  BY BlocksAssumption, GraphAssumption
<1>6. idoms' \in Doms /\ idoms'[Entry] = Entry /\ \A b \in Blocks \ {Entry} : idoms'[b] = None
  BY <1>3, <1>4, <1>5 DEF Doms
<1>7. TreeOK(succs', order', idoms')
  BY <1>6 DEF TreeOK
<1>8. OrderOK(succs', order')
  BY <1>2, <1>3
<1>9. order \in Seq(Blocks) /\ Len(order) \in Nat /\ Len(order) >= 1 /\ order[1] = Entry
  BY <1>2 DEF OrderOK
<1>10. DOMAIN order = 1 .. Len(order)
  BY <1>9
<1>11. considered' = IF 2 \in 1 .. Len(order) THEN Ready(succs, idoms', order[2]) ELSE {}
  BY <1>3, <1>10 DEF Dominators!Considered, Dominators!Preds, Ready
<1>12. \A i \in 1 .. Len(order') : i < at' => idoms'[order'[i]] # None
  BY <1>3, <1>4, <1>5, <1>6, <1>9
<1>13. Stable(succs', order', idoms', at')
  BY <1>3, <1>4, <1>9 DEF Stable
<1>14. at' \in 1 .. Len(order') => FingersOK(succs', idoms', order'[at'], considered', candidate', finger')
  BY <1>3, <1>4, <1>11, FingersStart
<1>15. at' \notin 1 .. Len(order') => considered' = {}
  BY <1>3, <1>4, <1>11
<1>16. at' \in 2 .. Len(order') + 1
  BY <1>3, <1>4, <1>9
<1>17. IterationOK'
  BY <1>3, <1>4, <1>12, <1>13, <1>14, <1>15, <1>16 DEF IterationOK
<1>18. Unnumbered'
  BY <1>3, <1>4 DEF Unnumbered
<1>19. QED
  BY <1>1, <1>3, <1>7, <1>8, <1>17, <1>18 DEF IdomsPhase

(* A predecessor is one of those all dominators are or dominate. *)
LEMMA ReadyStands ==
    ASSUME NEW g \in [Blocks -> SUBSET Blocks], NEW o, OrderOK(g, o), NEW d, TreeOK(g, o, d),
           NEW b, NEW p \in Ready(g, d, b)
    PROVE  p \in Blocks /\ p # None /\ p \in Reached(g) /\ d[p] # None /\ Stands(g, d, p, b) /\ p \in Anc(d, p)
<1>1. p \in Blocks /\ b \in g[p] /\ d[p] # None
  BY DEF Ready
<1>2. d \in Doms /\ p \in Anc(d, p)
  BY <1>1, Ancestors DEF TreeOK
<1>3. p \in Reached(g)
  BY <1>1, <1>2, AncestorsEarlier
<1>4. \A a \in Blocks : SDom(g, a, b) => a = p \/ SDom(g, a, p)
  BY <1>1, <1>3, DominatesBefore
<1>5. QED
  BY <1>1, <1>2, <1>3, <1>4, GraphAssumption DEF Stands

(* The first predecessor, and another one. *)
LEMMA FingersConsider ==
    ASSUME NEW g \in [Blocks -> SUBSET Blocks], NEW o, OrderOK(g, o), NEW d, TreeOK(g, o, d),
           NEW b, NEW r, NEW c, FingersOK(g, d, b, r, c, None), NEW p \in r
    PROVE  /\ c = None => FingersOK(g, d, b, r \ {p}, p, None)
           /\ c # None => FingersOK(g, d, b, r \ {p}, c, p)
<1>1. /\ r \subseteq Ready(g, d, b) /\ (c # None => Stands(g, d, c, b))
      /\ \A q \in Ready(g, d, b) \ r : c # None /\ c \in Anc(d, q)
  BY DEF FingersOK
<1>2. p \in Ready(g, d, b)
  BY <1>1
<1>3. p # None /\ Stands(g, d, p, b) /\ p \in Anc(d, p)
  BY <1>2, ReadyStands
<1>4. ASSUME c = None PROVE FingersOK(g, d, b, r \ {p}, p, None)
  BY <1>1, <1>3, <1>4 DEF FingersOK
<1>5. ASSUME c # None PROVE FingersOK(g, d, b, r \ {p}, c, p)
  BY <1>1, <1>3, <1>5 DEF FingersOK
<1>6. QED
  BY <1>4, <1>5

(* Of two fingers the later one is no dominator of the block, for it would   *)
(* dominate the earlier one: it goes up.                                     *)
LEMMA StandsUp ==
    ASSUME NEW g \in [Blocks -> SUBSET Blocks], NEW o, OrderOK(g, o), NEW d, TreeOK(g, o, d),
           NEW b, NEW x, Stands(g, d, x, b), NEW y, Stands(g, d, y, b), x # y, Index(o, x) > Index(o, y)
    PROVE  /\ d[x] # None /\ Stands(g, d, d[x], b)
           /\ \A q \in Blocks : x \in Anc(d, q) => d[x] \in Anc(d, q)
<1>1. /\ x \in Reached(g) /\ d[x] # None /\ y \in Reached(g)
      /\ \A a \in Blocks : SDom(g, a, b) => (a = x \/ SDom(g, a, x)) /\ (a = y \/ SDom(g, a, y))
  BY DEF Stands
<1>2. /\ Len(o) \in Nat /\ Index(o, Entry) = 1 /\ Reached(g) \subseteq Blocks
      /\ Index(o, x) \in 1 .. Len(o) /\ Index(o, y) \in 1 .. Len(o)
  BY <1>1, OrderIndex
<1>3. x # Entry /\ x \in Blocks
  BY <1>1, <1>2
<1>4. d \in Doms /\ d[x] \in Reached(g) /\ d[d[x]] # None
  BY <1>1, <1>3 DEF TreeOK
<1>5. ASSUME NEW a \in Blocks, SDom(g, a, b) PROVE a = d[x] \/ SDom(g, a, d[x])
  <2>1. a # x
    <3> SUFFICES ASSUME a = x PROVE FALSE
      OBVIOUS
    <3>1. SDom(g, x, y)
      BY <1>1, <1>5
    <3>2. Index(o, x) < Index(o, y)
      BY <3>1, DominatorsEarlier
    <3>3. QED
      BY <1>2, <3>2
  <2>2. SDom(g, a, x)
    BY <1>1, <1>5, <2>1
  <2>3. QED
    BY <1>1, <1>3, <2>2 DEF TreeOK
<1>6. \A q \in Blocks : x \in Anc(d, q) => d[x] \in Anc(d, q)
  BY <1>1, <1>3, <1>4, Ancestors
<1>7. QED
  BY <1>1, <1>4, <1>5, <1>6 DEF Stands

(* One finger goes up, or they have met. *)
LEMMA FingersClimb ==
    ASSUME NEW g \in [Blocks -> SUBSET Blocks], NEW o, OrderOK(g, o), NEW d, TreeOK(g, o, d),
           NEW b, NEW r, NEW c, NEW f, FingersOK(g, d, b, r, c, f), f # None
    PROVE  /\ c # f /\ Index(o, c) > Index(o, f) => FingersOK(g, d, b, r, d[c], f)
           /\ c # f /\ Index(o, f) > Index(o, c) => FingersOK(g, d, b, r, c, d[f])
           /\ c = f => FingersOK(g, d, b, r, c, None)
<1>1. /\ r \subseteq Ready(g, d, b) /\ c # None /\ Stands(g, d, c, b) /\ Stands(g, d, f, b)
      /\ \A p \in Ready(g, d, b) \ r : c \in Anc(d, p) \/ f \in Anc(d, p)
      /\ \A p \in Ready(g, d, b) : p \in Blocks
  BY DEF FingersOK, Ready
<1>2. ASSUME c # f, Index(o, c) > Index(o, f) PROVE FingersOK(g, d, b, r, d[c], f)
  <2>1. d[c] # None /\ Stands(g, d, d[c], b) /\ \A q \in Blocks : c \in Anc(d, q) => d[c] \in Anc(d, q)
    BY <1>1, <1>2, StandsUp
  <2>2. QED
    BY <1>1, <2>1 DEF FingersOK
<1>3. ASSUME c # f, Index(o, f) > Index(o, c) PROVE FingersOK(g, d, b, r, c, d[f])
  <2>1. d[f] # None /\ Stands(g, d, d[f], b) /\ \A q \in Blocks : f \in Anc(d, q) => d[f] \in Anc(d, q)
    BY <1>1, <1>3, StandsUp
  <2>2. QED
    BY <1>1, <2>1 DEF FingersOK
<1>4. ASSUME c = f PROVE FingersOK(g, d, b, r, c, None)
  BY <1>1, <1>4 DEF FingersOK
<1>5. QED
  BY <1>2, <1>3, <1>4

(* When all predecessors are considered the candidate is an ancestor of each *)
(* and, as one of them is before the block, before the block too.            *)
LEMMA FingersFound ==
    ASSUME NEW g \in [Blocks -> SUBSET Blocks], NEW o, OrderOK(g, o), NEW d, TreeOK(g, o, d),
           NEW i \in 2 .. Len(o), \A j \in 1 .. Len(o) : j < i => d[o[j]] # None,
           NEW c, FingersOK(g, d, o[i], {}, c, None)
    PROVE  /\ c # None /\ Stands(g, d, c, o[i]) /\ Index(o, c) < Index(o, o[i])
           /\ \A p \in Ready(g, d, o[i]) : c \in Anc(d, p)
<1>1. /\ c # None => Stands(g, d, c, o[i])
      /\ \A p \in Ready(g, d, o[i]) : c # None /\ c \in Anc(d, p)
  BY DEF FingersOK
<1>2. PICK j \in 1 .. Len(o) : j < i /\ o[i] \in g[o[j]]
  BY DEF OrderOK
<1>3. /\ Len(o) \in Nat /\ Reached(g) \subseteq Blocks
      /\ \A k \in 1 .. Len(o) : o[k] \in Reached(g) /\ Index(o, o[k]) = k
      /\ \A b \in Reached(g) : Index(o, b) \in 1 .. Len(o)
  BY OrderIndex
<1>4. o[j] \in Ready(g, d, o[i]) /\ o[j] \in Blocks /\ d[o[j]] # None
  BY <1>2, <1>3 DEF Ready
<1>5. c # None /\ c \in Anc(d, o[j])
  BY <1>1, <1>4
<1>6. Index(o, c) <= Index(o, o[j]) /\ c \in Reached(g)
  BY <1>4, <1>5, AncestorsEarlier
<1>7. Index(o, o[j]) = j /\ Index(o, o[i]) = i /\ Index(o, c) \in 1 .. Len(o) /\ i \in 1 .. Len(o)
  <2>1. i \in 1 .. Len(o)
    BY <1>3
  <2>2. QED
    BY <1>2, <1>3, <1>6, <2>1
<1>8. Index(o, c) < Index(o, o[i])
  BY <1>2, <1>3, <1>6, <1>7
<1>9. QED
  BY <1>1, <1>5, <1>8

-----------------------------------------------------------------------------
(* Predecessors are considered and intersected. *)
LEMMA DominatorsIntersect ==
    ASSUME succs \in [Blocks -> SUBSET Blocks], IdomsPhase, NEW p \in Blocks,
           Dominators!Consider(p) \/ Dominators!ClimbA \/ Dominators!ClimbB \/ Dominators!Meet
    PROVE  IdomsPhase' /\ phase' = "idoms" /\ succs' = succs
<1>1. walk = <<>> /\ OrderOK(succs, order) /\ TreeOK(succs, order, idoms) /\ IterationOK /\ Unnumbered
  BY DEF IdomsPhase
<1>2. /\ UNCHANGED <<succs, phase, walk, order, idoms, at, changed, clock, preorder, postorder>> /\ phase = "idoms"
  BY DEF Dominators!Consider, Dominators!ClimbA, Dominators!ClimbB, Dominators!Meet, Dominators!search, Dominators!intervals
<1>3. /\ at \in 2 .. Len(order) + 1 /\ changed \in BOOLEAN
      /\ \A i \in 1 .. Len(order) : i < at => idoms[order[i]] # None
      /\ at \notin 1 .. Len(order) => considered = {} /\ candidate = None /\ finger = None
      /\ at \in 1 .. Len(order) => FingersOK(succs, idoms, order[at], considered, candidate, finger)
      /\ ~changed => Stable(succs, order, idoms, at)
  BY <1>1 DEF IterationOK
<1>4. \A x : Dominators!Position(x) = Index(order, x)
  BY DEF Dominators!Position, Index
<1>5. at \in 1 .. Len(order)
  BY <1>3 DEF Dominators!Consider, Dominators!ClimbA, Dominators!ClimbB, Dominators!Meet
<1>6. FingersOK(succs, idoms, order[at], considered, candidate, finger)
  BY <1>3, <1>5
<1>7. FingersOK(succs, idoms, order[at], considered', candidate', finger')
  <2>1. CASE Dominators!Consider(p)
    <3>1. /\ p \in considered /\ finger = None /\ considered' = considered \ {p}
          /\ candidate = None => candidate' = p /\ finger' = None
          /\ candidate # None => candidate' = candidate /\ finger' = p
      BY <2>1 DEF Dominators!Consider
    <3>2. FingersOK(succs, idoms, order[at], considered, candidate, None)
      BY <1>6, <3>1
    <3>3. /\ candidate = None => FingersOK(succs, idoms, order[at], considered \ {p}, p, None)
          /\ candidate # None => FingersOK(succs, idoms, order[at], considered \ {p}, candidate, p)
      BY <1>1, <3>1, <3>2, FingersConsider
    <3>4. QED
      BY <3>1, <3>3
  <2>2. CASE Dominators!ClimbA
    <3>1. /\ finger # None /\ candidate # finger /\ Index(order, candidate) > Index(order, finger)
          /\ candidate' = idoms[candidate] /\ finger' = finger /\ considered' = considered
      BY <1>4, <2>2 DEF Dominators!ClimbA
    <3>2. FingersOK(succs, idoms, order[at], considered, idoms[candidate], finger)
      BY <1>1, <1>6, <3>1, FingersClimb
    <3>3. QED
      BY <3>1, <3>2
  <2>3. CASE Dominators!ClimbB
    <3>1. /\ finger # None /\ candidate # finger /\ Index(order, finger) > Index(order, candidate)
          /\ finger' = idoms[finger] /\ candidate' = candidate /\ considered' = considered
      BY <1>4, <2>3 DEF Dominators!ClimbB
    <3>2. FingersOK(succs, idoms, order[at], considered, candidate, idoms[finger])
      BY <1>1, <1>6, <3>1, FingersClimb
    <3>3. QED
      BY <3>1, <3>2
  <2>4. CASE Dominators!Meet
    <3>1. finger # None /\ candidate = finger /\ finger' = None /\ candidate' = candidate /\ considered' = considered
      BY <2>4 DEF Dominators!Meet
    <3>2. FingersOK(succs, idoms, order[at], considered, candidate, None)
      BY <1>1, <1>6, <3>1, FingersClimb
    <3>3. QED
      BY <3>1, <3>2
  <2>5. QED
    BY <2>1, <2>2, <2>3, <2>4
<1>8. OrderOK(succs', order') /\ TreeOK(succs', order', idoms') /\ walk' = <<>>
  BY <1>1, <1>2
<1>9. IterationOK'
  <2>1. ~changed' => Stable(succs', order', idoms', at')
    BY <1>2, <1>3
  <2>2. FingersOK(succs', idoms', order'[at'], considered', candidate', finger')
    BY <1>2, <1>7
  <2>3. at' \in 2 .. Len(order') + 1 /\ changed' \in BOOLEAN /\ at' \in 1 .. Len(order')
    BY <1>2, <1>3, <1>5
  <2>4. \A i \in 1 .. Len(order') : i < at' => idoms'[order'[i]] # None
    BY <1>2, <1>3
  <2>5. QED
    BY <2>1, <2>2, <2>3, <2>4 DEF IterationOK
<1>10. Unnumbered'
  BY <1>1, <1>2 DEF Unnumbered
<1>11. QED
  BY <1>2, <1>8, <1>9, <1>10 DEF IdomsPhase

(* The candidate becomes the idom.  If it was that already, nothing changes, *)
(* and the block's predecessors agree on it.                                 *)
LEMMA DominatorsAssign ==
    ASSUME succs \in [Blocks -> SUBSET Blocks], IdomsPhase, Dominators!Assign
    PROVE  IdomsPhase' /\ phase' = "idoms" /\ succs' = succs
<1> DEFINE b == order[at]
<1>1. walk = <<>> /\ OrderOK(succs, order) /\ TreeOK(succs, order, idoms) /\ IterationOK /\ Unnumbered
  BY DEF IdomsPhase
<1>2. /\ at \in DOMAIN order /\ considered = {} /\ finger = None
      /\ idoms' = [idoms EXCEPT ![b] = candidate] /\ changed' = (changed \/ candidate # idoms[b])
      /\ at' = at + 1 /\ candidate' = None /\ considered' = Dominators!Considered(at + 1, idoms')
      /\ UNCHANGED <<succs, phase, walk, order, finger, clock, preorder, postorder>> /\ phase = "idoms"
  BY DEF Dominators!Assign, Dominators!search, Dominators!intervals
<1>3. /\ Len(order) \in Nat /\ order \in Seq(Blocks) /\ DOMAIN order = 1 .. Len(order)
      /\ Reached(succs) \subseteq Blocks
      /\ \A i \in 1 .. Len(order) : order[i] \in Reached(succs) /\ Index(order, order[i]) = i
      /\ \A x \in Reached(succs) : Index(order, x) \in 1 .. Len(order) /\ order[Index(order, x)] = x
      /\ Index(order, Entry) = 1
  <2>1. order \in Seq(Blocks)
    BY <1>1 DEF OrderOK
  <2>2. QED
    BY <1>1, <2>1, OrderIndex
<1>4. /\ at \in 2 .. Len(order) + 1 /\ changed \in BOOLEAN
      /\ \A i \in 1 .. Len(order) : i < at => idoms[order[i]] # None
      /\ at \in 1 .. Len(order) => FingersOK(succs, idoms, order[at], considered, candidate, finger)
      /\ ~changed => Stable(succs, order, idoms, at)
  BY <1>1 DEF IterationOK
<1>5. at \in 1 .. Len(order) /\ at \in 2 .. Len(order)
  BY <1>2, <1>3, <1>4
<1>6. FingersOK(succs, idoms, order[at], {}, candidate, None)
  BY <1>2, <1>4, <1>5
<1>7. /\ candidate # None /\ Stands(succs, idoms, candidate, b) /\ Index(order, candidate) < Index(order, b)
      /\ \A p \in Ready(succs, idoms, b) : candidate \in Anc(idoms, p)
  BY <1>1, <1>4, <1>5, <1>6, FingersFound
<1>8. b \in Reached(succs) /\ b # Entry /\ b \in Blocks
  BY <1>3, <1>5
<1> HIDE DEF b
<1>9. /\ candidate \in Reached(succs) /\ idoms[candidate] # None
      /\ \A a \in Blocks : SDom(succs, a, b) => a = candidate \/ SDom(succs, a, candidate)
  BY <1>7 DEF Stands
<1>10. TreeOK(succs, order, idoms')
  BY <1>1, <1>2, <1>7, <1>8, <1>9, TreeAssign
<1>11. idoms \in Doms /\ idoms'[b] = candidate /\ \A x \in Blocks : x # b => idoms'[x] = idoms[x]
  BY <1>1, <1>2, <1>8 DEF TreeOK, Doms
<1>12. \A i \in 1 .. Len(order) : i < at' => idoms'[order[i]] # None
  <2> SUFFICES ASSUME NEW i \in 1 .. Len(order), i < at' PROVE idoms'[order[i]] # None
    OBVIOUS
  <2>1. CASE i = at
    BY <1>7, <1>11, <2>1 DEF b
  <2>2. CASE i # at
    <3>1. i < at /\ order[i] \in Blocks
      BY <1>2, <1>3, <1>5, <2>2
    <3>2. idoms[order[i]] # None
      BY <1>4, <3>1
    <3>3. QED
      BY <1>7, <1>11, <3>1, <3>2
  <2>3. QED
    BY <2>1, <2>2
<1>13. ASSUME ~changed' PROVE Stable(succs, order, idoms', at')
  <2>1. ~changed /\ candidate = idoms[b]
    BY <1>2, <1>4, <1>13
  <2>2. idoms' = idoms
    <3>1. idoms' = [idoms EXCEPT ![b] = idoms[b]] /\ idoms \in [Blocks -> Blocks \cup {None}]
      BY <1>2, <1>11, <2>1 DEF Doms
    <3>2. QED
      BY <3>1
  <2>3. Stable(succs, order, idoms, at)
    BY <1>4, <2>1
  <2>4. ASSUME NEW j \in 2 .. Len(order), j < at', NEW p \in Ready(succs, idoms, order[j])
        PROVE  idoms[order[j]] \in Anc(idoms, p)
    <3>1. CASE j = at
      BY <1>7, <2>1, <2>4, <3>1 DEF b
    <3>2. CASE j # at
      <4>1. j < at
        BY <1>2, <1>3, <1>5, <2>4, <3>2
      <4>2. QED
        BY <2>3, <2>4, <4>1 DEF Stable
    <3>3. QED
      BY <3>1, <3>2
  <2>5. QED
    BY <2>2, <2>4 DEF Stable
<1>14. considered' = IF at' \in 1 .. Len(order) THEN Ready(succs, idoms', order[at']) ELSE {}
  BY <1>2, <1>3 DEF Dominators!Considered, Dominators!Preds, Ready
<1>15. IterationOK'
  <2>1. at' \in 1 .. Len(order') => FingersOK(succs', idoms', order'[at'], considered', candidate', finger')
    BY <1>2, <1>14, FingersStart
  <2>2. at' \notin 1 .. Len(order') => considered' = {} /\ candidate' = None /\ finger' = None
    BY <1>2, <1>14
  <2>3. at' \in 2 .. Len(order') + 1 /\ changed' \in BOOLEAN
    BY <1>2, <1>3, <1>5
  <2>4. ~changed' => Stable(succs', order', idoms', at')
    BY <1>2, <1>13
  <2>5. \A i \in 1 .. Len(order') : i < at' => idoms'[order'[i]] # None
    BY <1>2, <1>12
  <2>6. QED
    BY <2>1, <2>2, <2>3, <2>4, <2>5 DEF IterationOK
<1>16. Unnumbered'
  BY <1>1, <1>2 DEF Unnumbered
<1>17. OrderOK(succs', order') /\ TreeOK(succs', order', idoms') /\ walk' = <<>>
  BY <1>1, <1>2, <1>10
<1>18. QED
  BY <1>2, <1>15, <1>16, <1>17 DEF IdomsPhase

(* Another round. *)
LEMMA DominatorsAgain ==
    ASSUME succs \in [Blocks -> SUBSET Blocks], IdomsPhase, Dominators!Again
    PROVE  IdomsPhase' /\ phase' = "idoms" /\ succs' = succs
<1>1. walk = <<>> /\ OrderOK(succs, order) /\ TreeOK(succs, order, idoms) /\ IterationOK /\ Unnumbered
  BY DEF IdomsPhase
<1>2. /\ at \notin DOMAIN order /\ changed /\ at' = 2 /\ changed' = FALSE
      /\ considered' = Dominators!Considered(2, idoms)
      /\ UNCHANGED <<succs, phase, walk, order, idoms, candidate, finger, clock, preorder, postorder>> /\ phase = "idoms"
  BY DEF Dominators!Again, Dominators!search, Dominators!intervals
<1>3. Len(order) \in Nat /\ Len(order) >= 1 /\ order[1] = Entry /\ DOMAIN order = 1 .. Len(order)
  BY <1>1 DEF OrderOK
<1>4. candidate = None /\ finger = None
  BY <1>1, <1>2, <1>3 DEF IterationOK
<1>5. considered' = IF 2 \in 1 .. Len(order) THEN Ready(succs, idoms, order[2]) ELSE {}
  BY <1>2, <1>3 DEF Dominators!Considered, Dominators!Preds, Ready
<1>6. idoms[Entry] # None
  BY <1>1, BlocksAssumption, GraphAssumption DEF TreeOK
<1>7. IterationOK'
  <2>1. at' \in 1 .. Len(order') => FingersOK(succs', idoms', order'[at'], considered', candidate', finger')
    BY <1>2, <1>4, <1>5, FingersStart
  <2>2. at' \notin 1 .. Len(order') => considered' = {} /\ candidate' = None /\ finger' = None
    BY <1>2, <1>4, <1>5
  <2>3. at' \in 2 .. Len(order') + 1 /\ changed' \in BOOLEAN
    <3>1. Len(order') = Len(order) /\ 2 \in 2 .. Len(order) + 1
      BY <1>2, <1>3
    <3>2. QED
      BY <1>2, <3>1
  <2>4. ~changed' => Stable(succs', order', idoms', at')
    BY <1>2, <1>3 DEF Stable
  <2>5. \A i \in 1 .. Len(order') : i < at' => idoms'[order'[i]] # None
    <3> SUFFICES ASSUME NEW i \in 1 .. Len(order), i < 2 PROVE idoms[order[i]] # None
      BY <1>2
    <3>1. i = 1
      BY <1>3
    <3>2. QED
      BY <1>3, <1>6, <3>1
  <2>6. QED
    BY <2>1, <2>2, <2>3, <2>4, <2>5 DEF IterationOK
<1>8. Unnumbered'
  BY <1>1, <1>2 DEF Unnumbered
<1>9. OrderOK(succs', order') /\ TreeOK(succs', order', idoms') /\ walk' = <<>>
  BY <1>1, <1>2
<1>10. QED
  BY <1>2, <1>7, <1>8, <1>9 DEF IdomsPhase

(* After a round without a change the tree is that of the dominators. *)
LEMMA DominatorsFound ==
    ASSUME succs \in [Blocks -> SUBSET Blocks], IdomsPhase, at \notin DOMAIN order, ~changed
    PROVE  TreeDone(succs, order, idoms) /\ considered = {} /\ candidate = None /\ finger = None
<1>1. OrderOK(succs, order) /\ TreeOK(succs, order, idoms) /\ IterationOK
  BY DEF IdomsPhase
<1>2. order \in Seq(Blocks)
  BY <1>1 DEF OrderOK
<1>3. /\ Len(order) \in Nat /\ DOMAIN order = 1 .. Len(order) /\ Reached(succs) \subseteq Blocks
      /\ \A x \in Reached(succs) : Index(order, x) \in 1 .. Len(order) /\ order[Index(order, x)] = x
      /\ \A x \in Reached(succs) : x # Entry => Index(order, x) \in 2 .. Len(order)
  BY <1>1, <1>2, OrderIndex
<1>4. /\ at \in 2 .. Len(order) + 1
      /\ \A i \in 1 .. Len(order) : i < at => idoms[order[i]] # None
      /\ considered = {} /\ candidate = None /\ finger = None
      /\ Stable(succs, order, idoms, at)
  BY <1>1, <1>3 DEF IterationOK
<1>5. \A i \in 1 .. Len(order) : i < at
  BY <1>3, <1>4
<1>6. \A x \in Reached(succs) : idoms[x] # None
  BY <1>3, <1>4, <1>5
<1>7. ASSUME NEW p \in Reached(succs), NEW x \in succs[p], x # Entry PROVE idoms[x] \in Anc(idoms, p)
  <2>1. x \in Reached(succs) /\ p \in Blocks
    BY <1>3, BlocksAssumption, ReachLeast DEF Reached
  <2>2. p \in Ready(succs, idoms, x)
    BY <1>6, <2>1 DEF Ready
  <2> DEFINE j == Index(order, x)
  <2>3. j \in 2 .. Len(order) /\ j \in 1 .. Len(order) /\ order[j] = x
    BY <1>3, <1>7, <2>1
  <2> HIDE DEF j
  <2>4. j < at
    BY <1>5, <2>3
  <2>5. QED
    BY <1>4, <2>2, <2>3, <2>4 DEF Stable
<1>8. QED
  BY <1>1, <1>4, <1>6, <1>7 DEF TreeDone

Kids(d, b) == {c \in Blocks \ {Entry} : d[c] = b}
Times == [Blocks -> Nat \cup {None}]
Timed(f) == {b \in Blocks : f[b] # None}

(* A walk through the tree of d, from the entry down to the first frame. *)
PathOK(d, w) ==
    /\ w \in Seq(Frames)
    /\ \A i, j \in 1 .. Len(w) : w[i].block = w[j].block => i = j
    /\ \A i \in 1 .. Len(w) : i + 1 <= Len(w) => w[i].block # Entry /\ d[w[i].block] = w[i + 1].block
    /\ \A i, j \in 1 .. Len(w) : i <= j => w[j].block \in Anc(d, w[i].block)
    /\ Len(w) >= 1 => w[Len(w)].block = Entry

(* An interval starts after those it lies in and ends before them; it starts *)
(* after the end of every other one that started earlier.                    *)
Inside(d, pre, post) ==
    \A a, b \in Blocks : pre[b] # None /\ a \in Anc(d, b) /\ a # b =>
        /\ pre[a] # None /\ pre[a] < pre[b]
        /\ post[a] # None => post[b] # None /\ post[b] < post[a]
Apart(d, pre, post) ==
    \A a, b \in Blocks : pre[a] # None /\ pre[b] # None /\ pre[a] < pre[b] /\ a \notin Anc(d, b) =>
        post[a] # None /\ post[a] < pre[b]
Counted(pre, post, n) == n = Cardinality(Timed(pre)) + Cardinality(Timed(post))

TimesOK(d, pre, post, n) ==
    /\ pre \in Times /\ post \in Times /\ n \in Nat
    /\ \A b \in Blocks : pre[b] # None => pre[b] < n
    /\ \A b \in Blocks : post[b] # None => post[b] < n /\ pre[b] # None /\ pre[b] < post[b]
    /\ \A b \in Blocks \ {Entry} : pre[b] # None => d[b] # None /\ pre[d[b]] # None
    /\ \A b \in Blocks : post[b] # None => \A c \in Kids(d, b) : post[c] # None
    /\ Inside(d, pre, post) /\ Apart(d, pre, post) /\ Counted(pre, post, n)

(* The blocks of the frames are those whose intervals are open; a child is   *)
(* still to be visited just when it has no interval.                         *)
FrontierOK(d, w, pre, post) ==
    /\ \A b \in Blocks : Open(w, b) <=> pre[b] # None /\ post[b] = None
    /\ \A i \in 1 .. Len(w) : w[i].rest = {c \in Kids(d, w[i].block) : pre[c] = None}
    /\ Len(w) = 0 => post[Entry] # None

(* The open blocks are the ancestors of the innermost one. *)
LEMMA PathAncestors ==
    ASSUME NEW d \in Doms, NEW w, PathOK(d, w), Len(w) >= 1
    PROVE  w[1].block \in Blocks /\ \A a \in Blocks : Open(w, a) <=> a \in Anc(d, w[1].block)
<1>1. /\ w \in Seq(Frames) /\ Len(w) \in Nat /\ 1 \in 1 .. Len(w)
      /\ \A i \in 1 .. Len(w) : i + 1 <= Len(w) => w[i].block # Entry /\ d[w[i].block] = w[i + 1].block
      /\ \A i, j \in 1 .. Len(w) : i <= j => w[j].block \in Anc(d, w[i].block)
      /\ w[Len(w)].block = Entry
  BY DEF PathOK
<1>2. \A i \in 1 .. Len(w) : w[i].block \in Blocks
  <2>1. \A i \in 1 .. Len(w) : w[i] \in Frames
    BY <1>1
  <2>2. QED
    BY <2>1 DEF Frames
<1>3. ASSUME NEW a \in Blocks, Open(w, a) PROVE a \in Anc(d, w[1].block)
  BY <1>1, <1>3 DEF Open
<1> DEFINE S == {a \in Blocks : Open(w, a)}
<1>4. w[1].block \in S /\ S \in SUBSET Blocks
  BY <1>1, <1>2 DEF Open
<1>5. ASSUME NEW y \in S, y # Entry PROVE d[y] \in S
  <2>1. PICK i \in 1 .. Len(w) : w[i].block = y
    BY DEF Open
  <2>2. i + 1 <= Len(w) /\ i + 1 \in 1 .. Len(w)
    BY <1>1, <1>5, <2>1
  <2>3. d[y] = w[i + 1].block
    BY <1>1, <2>1, <2>2
  <2>4. QED
    BY <1>2, <2>2, <2>3 DEF Open
<1> HIDE DEF S
<1>6. Anc(d, w[1].block) \subseteq S
  BY <1>2, <1>1, <1>4, <1>5, Ancestors
<1>7. QED
  BY <1>1, <1>2, <1>3, <1>6 DEF S

(* One more finite set, and one element more in it. *)
LEMMA OneMore ==
    ASSUME NEW f \in Times, NEW x \in Blocks, f[x] = None, NEW n \in Nat,
           NEW e \in Times, e[x] = n, \A b \in Blocks : b # x => e[b] = f[b]
    PROVE  Cardinality(Timed(e)) = Cardinality(Timed(f)) + 1 /\ Cardinality(Timed(f)) \in Nat
<1> DEFINE S == Timed(f)
<1>1. n # None
  BY GraphAssumption
<1>3. Timed(e) = S \cup {x} /\ x \notin S
  BY <1>1 DEF Timed
<1>4. IsFiniteSet(S)
  <2>1. S \subseteq Blocks
    BY DEF Timed
  <2>2. QED
    BY <2>1, GraphAssumption, FS_Subset
<1>5. Cardinality(S) \in Nat /\ Cardinality(S \cup {x}) = Cardinality(S) + 1
  BY <1>3, <1>4, FS_AddElement, FS_CardinalityType
<1>6. QED
  BY <1>3, <1>5

(* A block's interval starts inside those that are open: the ones of its     *)
(* ancestors.                                                                *)
LEMMA TimesOpen ==
    ASSUME NEW d \in Doms, NEW pre, NEW post, NEW n, TimesOK(d, pre, post, n),
           NEW x \in Blocks, x # Entry, NEW h \in Blocks, d[x] = h, pre[x] = None,
           \A a \in Blocks : a \in Anc(d, h) <=> pre[a] # None /\ post[a] = None
    PROVE  TimesOK(d, [pre EXCEPT ![x] = n], post, n + 1)
<1> DEFINE q == [pre EXCEPT ![x] = n]
<1>0. q = [pre EXCEPT ![x] = n]
  OBVIOUS
<1> HIDE DEF q
<1>1. /\ pre \in Times /\ post \in Times /\ n \in Nat
      /\ \A b \in Blocks : pre[b] # None => pre[b] < n
      /\ \A b \in Blocks : post[b] # None => post[b] < n /\ pre[b] # None /\ pre[b] < post[b]
      /\ \A b \in Blocks \ {Entry} : pre[b] # None => d[b] # None /\ pre[d[b]] # None
      /\ \A b \in Blocks : post[b] # None => \A c \in Kids(d, b) : post[c] # None
      /\ Inside(d, pre, post) /\ Apart(d, pre, post) /\ Counted(pre, post, n)
  BY DEF TimesOK
<1>2. /\ q \in Times /\ q[x] = n /\ \A b \in Blocks : b # x => q[b] = pre[b]
      /\ Cardinality(Timed(q)) = Cardinality(Timed(pre)) + 1 /\ Cardinality(Timed(pre)) \in Nat
  <2>1. q \in Times /\ q[x] = n /\ \A b \in Blocks : b # x => q[b] = pre[b]
    BY <1>0, <1>1 DEF Times
  <2>2. QED
    BY <1>1, <2>1, OneMore
<1>3. None \notin Nat /\ None \notin Blocks /\ n # None
  BY <1>1, GraphAssumption
<1>4. /\ \A b \in Blocks : pre[b] # None => pre[b] \in Nat /\ q[b] = pre[b] /\ b # x
      /\ \A b \in Blocks : post[b] # None => post[b] \in Nat
      /\ post[x] = None /\ \A b \in Blocks : q[b] # None => q[b] \in Nat
  BY <1>1, <1>2, <1>3 DEF Times
<1>5. /\ h # None /\ h \in Anc(d, h) /\ pre[h] # None /\ post[h] = None
      /\ x \in Anc(d, x) /\ h \in Anc(d, x) /\ Anc(d, h) \subseteq Anc(d, x)
      /\ \A a \in Anc(d, x) : a # x => a \in Anc(d, h)
  BY <1>3, Ancestors
<1>6. \A b \in Blocks : q[b] # None => q[b] < n + 1
  BY <1>1, <1>2, <1>4
<1>7. \A b \in Blocks : post[b] # None => post[b] < n + 1 /\ q[b] # None /\ q[b] < post[b]
  BY <1>1, <1>4
<1>8. ASSUME NEW b \in Blocks \ {Entry}, q[b] # None PROVE d[b] # None /\ q[d[b]] # None
  <2>1. CASE b = x
    BY <1>2, <1>3, <1>5, <2>1
  <2>2. CASE b # x
    <3>1. d[b] # None /\ pre[d[b]] # None
      BY <1>1, <1>2, <1>8, <2>2
    <3>2. d[b] \in Blocks
      BY <3>1 DEF Doms
    <3>3. QED
      BY <1>4, <3>1, <3>2
  <2>3. QED
    BY <2>1, <2>2
<1>9. Inside(d, q, post)
  <2> SUFFICES ASSUME NEW a \in Blocks, NEW b \in Blocks, q[b] # None, a \in Anc(d, b), a # b
               PROVE  /\ q[a] # None /\ q[a] < q[b]
                      /\ post[a] # None => post[b] # None /\ post[b] < post[a]
    BY DEF Inside
  <2>1. CASE b = x
    <3>1. a \in Anc(d, h)
      BY <1>5, <2>1
    <3>2. pre[a] # None /\ post[a] = None /\ pre[a] < n
      BY <1>1, <3>1
    <3>3. QED
      BY <1>2, <1>4, <2>1, <3>2
  <2>2. CASE b # x
    <3>1. pre[b] # None /\ q[b] = pre[b]
      BY <1>2, <2>2
    <3>2. pre[a] # None /\ pre[a] < pre[b] /\ (post[a] # None => post[b] # None /\ post[b] < post[a])
      BY <1>1, <3>1 DEF Inside
    <3>3. QED
      BY <1>4, <3>1, <3>2
  <2>3. QED
    BY <2>1, <2>2
<1>10. Apart(d, q, post)
  <2> SUFFICES ASSUME NEW a \in Blocks, NEW b \in Blocks, q[a] # None, q[b] # None, q[a] < q[b], a \notin Anc(d, b)
               PROVE  post[a] # None /\ post[a] < q[b]
    BY DEF Apart
  <2>1. q[a] \in Nat /\ q[b] \in Nat
    BY <1>4
  <2>2. a # x
    <3> SUFFICES ASSUME a = x PROVE FALSE
      OBVIOUS
    <3>1. n < q[b] /\ q[b] < n + 1
      BY <1>2, <1>6
    <3>2. QED
      BY <1>1, <2>1, <3>1
  <2>3. pre[a] # None /\ q[a] = pre[a]
    BY <1>2, <2>2
  <2>4. CASE b = x
    <3>1. post[a] # None
      BY <1>5, <2>3, <2>4
    <3>2. QED
      BY <1>1, <1>2, <2>4, <3>1
  <2>5. CASE b # x
    <3>1. pre[b] # None /\ q[b] = pre[b]
      BY <1>2, <2>5
    <3>2. QED
      BY <1>1, <2>3, <3>1 DEF Apart
  <2>6. QED
    BY <2>4, <2>5
<1>11. Counted(q, post, n + 1)
  <2> DEFINE k == Cardinality(Timed(pre))
  <2> DEFINE m == Cardinality(Timed(post))
  <2> DEFINE kk == Cardinality(Timed(q))
  <2>1. n = k + m /\ kk = k + 1 /\ k \in Nat
    BY <1>1, <1>2 DEF Counted
  <2>2. m \in Nat
    <3>1. Timed(post) \subseteq Blocks
      BY DEF Timed
    <3>2. IsFiniteSet(Timed(post))
      BY <3>1, GraphAssumption, FS_Subset
    <3>3. QED
      BY <3>2, FS_CardinalityType
  <2> HIDE DEF k, m, kk
  <2>3. n + 1 = kk + m
    BY <2>1, <2>2
  <2>4. QED
    BY <2>3 DEF Counted, kk, m
<1>12. n + 1 \in Nat
  BY <1>1
<1>13. TimesOK(d, q, post, n + 1)
  BY <1>1, <1>2, <1>6, <1>7, <1>8, <1>9, <1>10, <1>11, <1>12 DEF TimesOK
<1>14. QED
  BY <1>13 DEF q

(* A block's interval ends when those of its children have ended. *)
LEMMA TimesClose ==
    ASSUME NEW g \in [Blocks -> SUBSET Blocks], NEW o, OrderOK(g, o), NEW d \in Doms, TreeOK(g, o, d),
           NEW pre, NEW post, NEW n, TimesOK(d, pre, post, n), NEW h \in Blocks, d[h] # None,
           \A a \in Blocks : a \in Anc(d, h) <=> pre[a] # None /\ post[a] = None,
           \A c \in Kids(d, h) : pre[c] # None
    PROVE  TimesOK(d, pre, [post EXCEPT ![h] = n], n + 1)
<1> DEFINE q == [post EXCEPT ![h] = n]
<1>0. q = [post EXCEPT ![h] = n]
  OBVIOUS
<1> HIDE DEF q
<1>1. /\ pre \in Times /\ post \in Times /\ n \in Nat
      /\ \A b \in Blocks : pre[b] # None => pre[b] < n
      /\ \A b \in Blocks : post[b] # None => post[b] < n /\ pre[b] # None /\ pre[b] < post[b]
      /\ \A b \in Blocks \ {Entry} : pre[b] # None => d[b] # None /\ pre[d[b]] # None
      /\ \A b \in Blocks : post[b] # None => \A c \in Kids(d, b) : post[c] # None
      /\ Inside(d, pre, post) /\ Apart(d, pre, post) /\ Counted(pre, post, n)
  BY DEF TimesOK
<1>2. h \in Anc(d, h) /\ pre[h] # None /\ post[h] = None
  BY Ancestors
<1>3. /\ q \in Times /\ q[h] = n /\ \A b \in Blocks : b # h => q[b] = post[b]
      /\ Cardinality(Timed(q)) = Cardinality(Timed(post)) + 1 /\ Cardinality(Timed(post)) \in Nat
  <2>1. q \in Times /\ q[h] = n /\ \A b \in Blocks : b # h => q[b] = post[b]
    BY <1>0, <1>1 DEF Times
  <2>2. QED
    BY <1>1, <1>2, <2>1, OneMore
<1>4. None \notin Nat /\ n # None
  BY <1>1, GraphAssumption
<1>5. /\ \A b \in Blocks : post[b] # None => post[b] \in Nat /\ q[b] = post[b] /\ b # h
      /\ \A b \in Blocks : pre[b] # None => pre[b] \in Nat
      /\ \A b \in Blocks : q[b] # None => q[b] \in Nat
  BY <1>1, <1>2, <1>3, <1>4 DEF Times
<1>6. \A b \in Blocks : h \in Anc(d, b) /\ b \in Anc(d, h) => b = h
  BY AncestorsOneWay
<1>7. \A b \in Blocks : q[b] # None => q[b] < n + 1 /\ pre[b] # None /\ pre[b] < q[b]
  <2> SUFFICES ASSUME NEW b \in Blocks, q[b] # None PROVE q[b] < n + 1 /\ pre[b] # None /\ pre[b] < q[b]
    OBVIOUS
  <2>1. CASE b = h
    BY <1>1, <1>2, <1>3, <2>1
  <2>2. CASE b # h
    BY <1>1, <1>3, <1>5, <2>2
  <2>3. QED
    BY <2>1, <2>2
<1>8. ASSUME NEW b \in Blocks, q[b] # None, NEW c \in Kids(d, b) PROVE q[c] # None
  <2>1. c \in Blocks /\ c # Entry /\ d[c] = b
    BY DEF Kids
  <2>2. CASE b = h
    <3>1. pre[c] # None
      BY <2>2
    <3>2. h \in Anc(d, c)
      <4>1. d[c] # None
        BY <2>1, GraphAssumption
      <4>2. QED
        BY <2>1, <2>2, <4>1, Ancestors
    <3>3. c \in Anc(d, h) => c = h
      BY <1>6, <2>1, <3>2
    <3>4. QED
      BY <1>3, <1>4, <1>5, <2>1, <3>1, <3>3
  <2>3. CASE b # h
    <3>1. post[b] # None
      BY <1>3, <1>8, <2>3
    <3>2. post[c] # None
      BY <1>1, <3>1
    <3>3. QED
      BY <1>5, <2>1, <3>2
  <2>4. QED
    BY <2>2, <2>3
<1>9. Inside(d, pre, q)
  <2> SUFFICES ASSUME NEW a \in Blocks, NEW b \in Blocks, pre[b] # None, a \in Anc(d, b), a # b
               PROVE  /\ pre[a] # None /\ pre[a] < pre[b]
                      /\ q[a] # None => q[b] # None /\ q[b] < q[a]
    BY DEF Inside
  <2>1. pre[a] # None /\ pre[a] < pre[b] /\ (post[a] # None => post[b] # None /\ post[b] < post[a])
    BY <1>1 DEF Inside
  <2>2. CASE a = h
    <3>1. post[b] # None
      BY <1>6, <2>2
    <3>2. QED
      BY <1>1, <1>3, <1>5, <2>1, <2>2, <3>1
  <2>3. CASE a # h
    <3>1. q[a] = post[a]
      BY <1>3, <2>3
    <3>2. QED
      BY <1>5, <2>1, <3>1
  <2>4. QED
    BY <2>2, <2>3
<1>10. Apart(d, pre, q)
  <2> SUFFICES ASSUME NEW a \in Blocks, NEW b \in Blocks, pre[a] # None, pre[b] # None, pre[a] < pre[b], a \notin Anc(d, b)
               PROVE  q[a] # None /\ q[a] < pre[b]
    BY DEF Apart
  <2>1. post[a] # None /\ post[a] < pre[b]
    BY <1>1 DEF Apart
  <2>2. QED
    BY <1>5, <2>1
<1>11. Counted(pre, q, n + 1)
  <2> DEFINE k == Cardinality(Timed(pre))
  <2> DEFINE m == Cardinality(Timed(post))
  <2> DEFINE mm == Cardinality(Timed(q))
  <2>1. n = k + m /\ mm = m + 1 /\ m \in Nat
    BY <1>1, <1>3 DEF Counted
  <2>2. k \in Nat
    <3>1. Timed(pre) \subseteq Blocks
      BY DEF Timed
    <3>2. IsFiniteSet(Timed(pre))
      BY <3>1, GraphAssumption, FS_Subset
    <3>3. QED
      BY <3>2, FS_CardinalityType
  <2> HIDE DEF k, m, mm
  <2>3. n + 1 = k + mm
    BY <2>1, <2>2
  <2>4. QED
    BY <2>3 DEF Counted, k, mm
<1>12. n + 1 \in Nat
  BY <1>1
<1>13. TimesOK(d, pre, q, n + 1)
  <2>1. \A b \in Blocks : q[b] # None => \A c \in Kids(d, b) : q[c] # None
    BY <1>8
  <2>2. \A b \in Blocks : pre[b] # None => pre[b] < n + 1
    BY <1>1, <1>5
  <2>3. QED
    BY <1>1, <1>3, <1>7, <1>9, <1>10, <1>11, <1>12, <2>1, <2>2 DEF TimesOK
<1>14. QED
  BY <1>13 DEF q

(* The walk goes down to a child. *)
LEMMA PathDown ==
    ASSUME NEW d \in Doms, NEW w, PathOK(d, w), Len(w) >= 1, NEW t \in Seq(Frames), Len(t) = Len(w) + 1,
           NEW x \in Blocks, x # Entry, t[1].block = x, d[x] = w[1].block, ~Open(w, x),
           \A i \in 1 .. Len(w) : t[i + 1].block = w[i].block
    PROVE  PathOK(d, t) /\ \A c : Open(t, c) <=> Open(w, c) \/ c = x
<1>1. /\ w \in Seq(Frames) /\ Len(w) \in Nat
      /\ \A i, j \in 1 .. Len(w) : w[i].block = w[j].block => i = j
      /\ \A i \in 1 .. Len(w) : i + 1 <= Len(w) => w[i].block # Entry /\ d[w[i].block] = w[i + 1].block
      /\ \A i, j \in 1 .. Len(w) : i <= j => w[j].block \in Anc(d, w[i].block)
      /\ w[Len(w)].block = Entry
  BY DEF PathOK
<1>2. 1 \in 1 .. Len(w) /\ Len(w) \in 1 .. Len(w) /\ 1 \in 1 .. Len(t)
  BY <1>1
<1>3. \A i \in 1 .. Len(t) : i = 1 \/ (i - 1 \in 1 .. Len(w) /\ t[i].block = w[i - 1].block)
  <2> SUFFICES ASSUME NEW i \in 1 .. Len(t), i # 1 PROVE i - 1 \in 1 .. Len(w) /\ t[i].block = w[i - 1].block
    OBVIOUS
  <2>1. i - 1 \in 1 .. Len(w) /\ (i - 1) + 1 = i
    BY <1>1
  <2>2. QED
    BY <2>1
<1>4. \A i \in 1 .. Len(w) : w[i].block # x
  BY DEF Open
<1>5. \A c : Open(t, c) <=> Open(w, c) \/ c = x
  <2>1. ASSUME NEW c, Open(t, c), c # x PROVE Open(w, c)
    BY <1>3, <2>1 DEF Open
  <2>2. Open(t, x)
    BY <1>2 DEF Open
  <2>3. ASSUME NEW c, Open(w, c) PROVE Open(t, c)
    <3>1. PICK i \in 1 .. Len(w) : w[i].block = c
      BY <2>3 DEF Open
    <3>2. i + 1 \in 1 .. Len(t) /\ t[i + 1].block = c
      BY <1>1, <3>1
    <3>3. QED
      BY <3>2 DEF Open
  <2>4. QED
    BY <2>1, <2>2, <2>3
<1>6. ASSUME NEW i \in 1 .. Len(t), NEW j \in 1 .. Len(t), t[i].block = t[j].block PROVE i = j
  <2>1. CASE i = 1
    <3>1. j = 1
      BY <1>3, <1>4, <1>6, <2>1
    <3>2. QED
      BY <2>1, <3>1
  <2>2. CASE i # 1
    <3>1. i - 1 \in 1 .. Len(w) /\ t[i].block = w[i - 1].block
      BY <1>3, <2>2
    <3>2. j # 1
      BY <1>4, <1>6, <3>1
    <3>3. j - 1 \in 1 .. Len(w) /\ t[j].block = w[j - 1].block
      BY <1>3, <3>2
    <3>4. i - 1 = j - 1
      <4>1. w[i - 1].block = w[j - 1].block
        BY <1>6, <3>1, <3>3
      <4>2. \A k, l \in 1 .. Len(w) : w[k].block = w[l].block => k = l
        BY <1>1
      <4>3. QED
        BY <3>1, <3>3, <4>1, <4>2
    <3>5. QED
      BY <1>1, <3>4
  <2>3. QED
    BY <2>1, <2>2
<1>7. ASSUME NEW i \in 1 .. Len(t), i + 1 <= Len(t) PROVE t[i].block # Entry /\ d[t[i].block] = t[i + 1].block
  <2>1. i \in 1 .. Len(w) /\ t[i + 1].block = w[i].block
    BY <1>1, <1>7
  <2>2. CASE i = 1
    BY <2>1, <2>2
  <2>3. CASE i # 1
    <3>1. i - 1 \in 1 .. Len(w) /\ t[i].block = w[i - 1].block /\ (i - 1) + 1 = i /\ i <= Len(w)
      BY <1>1, <1>3, <2>1, <2>3
    <3>2. w[i - 1].block # Entry /\ d[w[i - 1].block] = w[i].block
      BY <1>1, <3>1
    <3>3. QED
      BY <2>1, <3>1, <3>2
  <2>4. QED
    BY <2>2, <2>3
<1>8. w[1].block \in Anc(d, x) /\ x \in Anc(d, x)
  <2>1. d[x] # None
    <3>1. w[1] \in Frames
      BY <1>1, <1>2
    <3>2. QED
      BY <3>1, GraphAssumption DEF Frames
  <2>2. QED
    BY <2>1, Ancestors
<1>9. ASSUME NEW i \in 1 .. Len(t), NEW j \in 1 .. Len(t), i <= j PROVE t[j].block \in Anc(d, t[i].block)
  <2>1. CASE j = 1
    <3>1. i = 1
      BY <1>1, <1>9, <2>1
    <3>2. QED
      BY <1>8, <2>1, <3>1
  <2>2. CASE i = 1 /\ j # 1
    <3>1. j - 1 \in 1 .. Len(w) /\ t[j].block = w[j - 1].block /\ 1 <= j - 1
      BY <1>3, <2>2
    <3>2. w[j - 1].block \in Anc(d, w[1].block)
      BY <1>1, <1>2, <3>1
    <3>3. Anc(d, w[1].block) \subseteq Anc(d, x)
      BY <1>8, Ancestors
    <3>4. QED
      BY <2>2, <3>1, <3>2, <3>3
  <2>3. CASE i # 1 /\ j # 1
    <3>1. /\ i - 1 \in 1 .. Len(w) /\ t[i].block = w[i - 1].block
          /\ j - 1 \in 1 .. Len(w) /\ t[j].block = w[j - 1].block
      BY <1>3, <2>3
    <3>2. i - 1 <= j - 1
      BY <1>1, <1>9
    <3>3. QED
      BY <1>1, <3>1, <3>2
  <2>4. QED
    BY <2>1, <2>2, <2>3
<1>10. t[Len(t)].block = Entry
  BY <1>1, <1>2
<1>11. QED
  BY <1>5, <1>6, <1>7, <1>9, <1>10 DEF PathOK

(* The walk goes up again. *)
LEMMA PathUp ==
    ASSUME NEW d, NEW w, PathOK(d, w), w # <<>>
    PROVE  PathOK(d, Tail(w)) /\ \A c : Open(Tail(w), c) <=> Open(w, c) /\ c # w[1].block
<1> DEFINE t == Tail(w)
<1>1. /\ w \in Seq(Frames)
      /\ \A i, j \in 1 .. Len(w) : w[i].block = w[j].block => i = j
      /\ \A i \in 1 .. Len(w) : i + 1 <= Len(w) => w[i].block # Entry /\ d[w[i].block] = w[i + 1].block
      /\ \A i, j \in 1 .. Len(w) : i <= j => w[j].block \in Anc(d, w[i].block)
      /\ Len(w) >= 1 => w[Len(w)].block = Entry
  BY DEF PathOK
<1>2. /\ t \in Seq(Frames) /\ Len(w) \in Nat /\ Len(w) >= 1 /\ Len(t) = Len(w) - 1
      /\ \A i \in 1 .. Len(t) : t[i] = w[i + 1]
  BY <1>1
<1> HIDE DEF t
<1>3. 1 \in 1 .. Len(w) /\ \A i \in 1 .. Len(t) : i + 1 \in 1 .. Len(w)
  BY <1>2
<1>4. ASSUME NEW i \in 1 .. Len(t), NEW j \in 1 .. Len(t), t[i].block = t[j].block PROVE i = j
  <2>1. i + 1 = j + 1
    BY <1>1, <1>2, <1>3, <1>4
  <2>2. QED
    BY <1>2, <2>1
<1>5. ASSUME NEW i \in 1 .. Len(t), i + 1 <= Len(t) PROVE t[i].block # Entry /\ d[t[i].block] = t[i + 1].block
  <2>1. i + 1 \in 1 .. Len(t) /\ i + 1 \in 1 .. Len(w) /\ (i + 1) + 1 <= Len(w)
    BY <1>2, <1>5
  <2>2. w[i + 1].block # Entry /\ d[w[i + 1].block] = w[(i + 1) + 1].block
    BY <1>1, <2>1
  <2>3. QED
    BY <1>2, <2>1, <2>2
<1>6. ASSUME NEW i \in 1 .. Len(t), NEW j \in 1 .. Len(t), i <= j PROVE t[j].block \in Anc(d, t[i].block)
  <2>1. i + 1 <= j + 1
    BY <1>2, <1>6
  <2>2. QED
    BY <1>1, <1>2, <1>3, <2>1
<1>7. Len(t) >= 1 => t[Len(t)].block = Entry
  <2> SUFFICES ASSUME Len(t) >= 1 PROVE t[Len(t)].block = Entry
    OBVIOUS
  <2>1. Len(t) \in 1 .. Len(t) /\ Len(t) + 1 = Len(w)
    BY <1>2
  <2>2. t[Len(t)] = w[Len(w)]
    BY <1>2, <2>1
  <2>3. QED
    BY <1>1, <1>2, <2>2
<1>8. PathOK(d, t)
  BY <1>2, <1>4, <1>5, <1>6, <1>7 DEF PathOK
<1>9. ASSUME NEW c, Open(t, c) PROVE Open(w, c) /\ c # w[1].block
  <2>1. PICK i \in 1 .. Len(t) : t[i].block = c
    BY <1>9 DEF Open
  <2>2. i + 1 \in 1 .. Len(w) /\ w[i + 1].block = c /\ i + 1 # 1
    BY <1>2, <1>3, <2>1
  <2>3. QED
    BY <1>1, <1>3, <2>2 DEF Open
<1>10. ASSUME NEW c, Open(w, c), c # w[1].block PROVE Open(t, c)
  <2>1. PICK i \in 1 .. Len(w) : w[i].block = c
    BY <1>10 DEF Open
  <2>2. i - 1 \in 1 .. Len(t) /\ (i - 1) + 1 = i
    BY <1>2, <1>10, <2>1
  <2>3. t[i - 1].block = c
    BY <1>2, <2>1, <2>2
  <2>4. QED
    BY <2>2, <2>3 DEF Open
<1>11. QED
  BY <1>8, <1>9, <1>10 DEF t

(* The child that is gone down to is open, and its children are to come. *)
LEMMA FrontierDown ==
    ASSUME NEW d \in Doms, NEW w, PathOK(d, w), Len(w) >= 1, NEW pre, NEW post, NEW n, TimesOK(d, pre, post, n),
           FrontierOK(d, w, pre, post), NEW x, x \in w[1].rest, NEW t \in Seq(Frames), Len(t) = Len(w) + 1,
           t[1].block = x, t[1].rest = Kids(d, x), t[2].block = w[1].block, t[2].rest = w[1].rest \ {x},
           \A i \in 2 .. Len(w) : t[i + 1] = w[i],
           \A c : Open(t, c) <=> Open(w, c) \/ c = x,
           NEW q, q[x] # None, \A b \in Blocks : b # x => q[b] = pre[b]
    PROVE  FrontierOK(d, t, q, post)
<1> DEFINE h == w[1].block
<1>1. /\ w \in Seq(Frames) /\ Len(w) \in Nat /\ 1 \in 1 .. Len(w)
      /\ \A i, j \in 1 .. Len(w) : w[i].block = w[j].block => i = j
  BY DEF PathOK
<1>2. /\ \A b \in Blocks : Open(w, b) <=> pre[b] # None /\ post[b] = None
      /\ \A i \in 1 .. Len(w) : w[i].rest = {c \in Kids(d, w[i].block) : pre[c] = None}
  BY DEF FrontierOK
<1>3. x \in Kids(d, h) /\ pre[x] = None
  BY <1>1, <1>2
<1>4. x \in Blocks /\ x # Entry /\ d[x] = h
  BY <1>3 DEF Kids
<1>5. h \in Blocks /\ Open(w, h)
  <2>1. w[1] \in Frames
    BY <1>1
  <2>2. QED
    BY <1>1, <2>1 DEF Frames, Open
<1>6. pre[h] # None /\ h # x
  BY <1>2, <1>3, <1>5
<1>7. /\ pre \in Times /\ n \in Nat
      /\ \A b \in Blocks : post[b] # None => pre[b] # None
      /\ \A b \in Blocks \ {Entry} : pre[b] # None => pre[d[b]] # None
  BY DEF TimesOK
<1>8. q[x] # None /\ \A b \in Blocks : b # x => q[b] = pre[b]
  OBVIOUS
<1>9. \A b \in Blocks : Open(t, b) <=> q[b] # None /\ post[b] = None
  <2> SUFFICES ASSUME NEW b \in Blocks PROVE Open(t, b) <=> q[b] # None /\ post[b] = None
    OBVIOUS
  <2>1. CASE b = x
    BY <1>3, <1>7, <1>8, <2>1
  <2>2. CASE b # x
    BY <1>2, <1>8, <2>2
  <2>3. QED
    BY <2>1, <2>2
<1>10. \A i \in 1 .. Len(t) : t[i].rest = {c \in Kids(d, t[i].block) : q[c] = None}
  <2> SUFFICES ASSUME NEW i \in 1 .. Len(t), NEW c
               PROVE  c \in t[i].rest <=> c \in Kids(d, t[i].block) /\ q[c] = None
    OBVIOUS
  <2>1. CASE i = 1
    <3>1. ASSUME c \in Kids(d, x) PROVE q[c] = None
      <4>1. c \in Blocks \ {Entry} /\ d[c] = x
        BY <3>1 DEF Kids
      <4>2. c # x /\ pre[c] = None
        BY <1>3, <1>4, <1>6, <1>7, <4>1
      <4>3. QED
        BY <1>8, <4>1, <4>2
    <3>2. QED
      BY <2>1, <3>1
  <2>2. CASE i = 2
    <3>1. c \in w[1].rest <=> c \in Kids(d, h) /\ pre[c] = None
      BY <1>1, <1>2
    <3>2. c \in Kids(d, h) => c \in Blocks
      BY DEF Kids
    <3>3. QED
      BY <1>8, <2>2, <3>1, <3>2
  <2>3. CASE i # 1 /\ i # 2
    <3>1. i - 1 \in 2 .. Len(w) /\ (i - 1) + 1 = i /\ i - 1 \in 1 .. Len(w) /\ i - 1 # 1
      BY <1>1, <2>3
    <3>2. t[i] = w[i - 1]
      BY <3>1
    <3>3. w[i - 1].block # h
      BY <1>1, <3>1
    <3>4. c \in w[i - 1].rest <=> c \in Kids(d, w[i - 1].block) /\ pre[c] = None
      BY <1>2, <3>1
    <3>5. c \in Kids(d, w[i - 1].block) => c \in Blocks /\ c # x
      BY <1>4, <3>3 DEF Kids
    <3>6. QED
      BY <1>8, <3>2, <3>4, <3>5
  <2>4. QED
    BY <2>1, <2>2, <2>3
<1>11. Len(t) # 0
  BY <1>1
<1>12. QED
  BY <1>9, <1>10, <1>11 DEF FrontierOK

(* The block that is left is closed. *)
LEMMA FrontierUp ==
    ASSUME NEW d, NEW w, PathOK(d, w), w # <<>>, NEW pre, NEW post \in Times, NEW n \in Nat,
           FrontierOK(d, w, pre, post)
    PROVE  FrontierOK(d, Tail(w), pre, [post EXCEPT ![w[1].block] = n])
<1> DEFINE t == Tail(w)
<1> DEFINE h == w[1].block
<1> DEFINE q == [post EXCEPT ![h] = n]
<1>1. w \in Seq(Frames) /\ Len(w) \in Nat /\ Len(w) >= 1 /\ 1 \in 1 .. Len(w) /\ w[Len(w)].block = Entry
  BY DEF PathOK
<1>2. Len(t) = Len(w) - 1 /\ \A i \in 1 .. Len(t) : i + 1 \in 1 .. Len(w) /\ t[i] = w[i + 1]
  BY <1>1
<1>3. \A c : Open(t, c) <=> Open(w, c) /\ c # h
  BY PathUp
<1>4. h \in Blocks
  <2>1. w[1] \in Frames
    BY <1>1
  <2>2. QED
    BY <2>1 DEF Frames
<1> HIDE DEF t, h
<1>5. q[h] = n /\ n # None /\ \A b \in Blocks : b # h => q[b] = post[b]
  BY <1>4, GraphAssumption DEF Times
<1> HIDE DEF q
<1>6. /\ \A b \in Blocks : Open(w, b) <=> pre[b] # None /\ post[b] = None
      /\ \A i \in 1 .. Len(w) : w[i].rest = {c \in Kids(d, w[i].block) : pre[c] = None}
  BY DEF FrontierOK
<1>7. \A b \in Blocks : Open(t, b) <=> pre[b] # None /\ q[b] = None
  <2> SUFFICES ASSUME NEW b \in Blocks PROVE Open(t, b) <=> pre[b] # None /\ q[b] = None
    OBVIOUS
  <2>1. CASE b = h
    BY <1>3, <1>5, <2>1
  <2>2. CASE b # h
    BY <1>3, <1>5, <1>6, <2>2
  <2>3. QED
    BY <2>1, <2>2
<1>8. \A i \in 1 .. Len(t) : t[i].rest = {c \in Kids(d, t[i].block) : pre[c] = None}
  BY <1>2, <1>6
<1>9. ASSUME Len(t) = 0 PROVE q[Entry] # None
  <2>1. Len(w) = 1
    BY <1>1, <1>2, <1>9
  <2>2. h = Entry
    BY <1>1, <2>1 DEF h
  <2>3. QED
    BY <1>5, <2>2
<1>10. FrontierOK(d, t, pre, q)
  BY <1>7, <1>8, <1>9 DEF FrontierOK
<1>11. QED
  BY <1>10 DEF t, h, q

IntervalsPhase ==
    /\ OrderOK(succs, order) /\ TreeDone(succs, order, idoms)
    /\ considered = {} /\ candidate = None /\ finger = None
    /\ PathOK(idoms, walk) /\ TimesOK(idoms, preorder, postorder, clock) /\ FrontierOK(idoms, walk, preorder, postorder)

DominatorsInv ==
    /\ succs \in [Blocks -> SUBSET Blocks]
    /\ \/ phase = "order" /\ OrderPhase
       \/ phase = "idoms" /\ IdomsPhase
       \/ phase = "intervals" /\ IntervalsPhase
       \/ phase = "done" /\ IntervalsPhase /\ walk = <<>>

(* The walk through the tree begins at the entry. *)
LEMMA TimesStart ==
    ASSUME NEW d \in Doms, NEW pre, NEW post, NEW w,
           pre = [[b \in Blocks |-> None] EXCEPT ![Entry] = 0], post = [b \in Blocks |-> None],
           w = <<[block |-> Entry, rest |-> Kids(d, Entry)]>>
    PROVE  TimesOK(d, pre, post, 1) /\ PathOK(d, w) /\ FrontierOK(d, w, pre, post)
<1>1. Entry \in Blocks /\ None \notin Nat /\ 0 # None
  BY BlocksAssumption, GraphAssumption
<1>2. /\ pre \in Times /\ post \in Times /\ pre[Entry] = 0
      /\ \A b \in Blocks : b # Entry => pre[b] = None
      /\ \A b \in Blocks : post[b] = None
  BY <1>1 DEF Times
<1>3. Counted(pre, post, 1)
  <2>1. Timed(pre) = {Entry} /\ Timed(post) = {}
    BY <1>1, <1>2 DEF Timed
  <2>2. Cardinality({Entry}) = 1 /\ Cardinality({}) = 0
    BY FS_EmptySet, FS_Singleton
  <2>3. Cardinality(Timed(pre)) = 1 /\ Cardinality(Timed(post)) = 0
    BY <2>1, <2>2
  <2>4. QED
    BY <2>3 DEF Counted
<1>4. \A a \in Blocks : a \in Anc(d, Entry) <=> a = Entry
  BY <1>1, Ancestors
<1>5. Inside(d, pre, post) /\ Apart(d, pre, post)
  BY <1>1, <1>2, <1>4 DEF Inside, Apart
<1>6. TimesOK(d, pre, post, 1)
  BY <1>1, <1>2, <1>3, <1>5 DEF TimesOK
<1>7. w \in Seq(Frames) /\ Len(w) = 1 /\ w[1].block = Entry /\ w[1].rest = Kids(d, Entry)
  <2>1. Kids(d, Entry) \in SUBSET Blocks
    BY DEF Kids
  <2>2. QED
    BY <1>1, <2>1 DEF Frames
<1>8. \A i \in 1 .. Len(w) : i = 1
  BY <1>7
<1>9. PathOK(d, w)
  BY <1>1, <1>4, <1>7, <1>8 DEF PathOK
<1>10. \A b \in Blocks : Open(w, b) <=> b = Entry
  BY <1>7, <1>8 DEF Open
<1>11. {c \in Kids(d, Entry) : pre[c] = None} = Kids(d, Entry)
  BY <1>2 DEF Kids
<1>12. FrontierOK(d, w, pre, post)
  BY <1>1, <1>2, <1>7, <1>8, <1>10, <1>11 DEF FrontierOK
<1>13. QED
  BY <1>6, <1>9, <1>12

(* The tree is complete; the walk through it begins. *)
LEMMA DominatorsTree ==
    ASSUME succs \in [Blocks -> SUBSET Blocks], IdomsPhase, Dominators!IdomsDone
    PROVE  IntervalsPhase' /\ phase' = "intervals" /\ succs' = succs
<1>1. OrderOK(succs, order) /\ Unnumbered
  BY DEF IdomsPhase
<1>2. /\ at \notin DOMAIN order /\ ~changed /\ phase' = "intervals"
      /\ walk' = <<[block |-> Entry, rest |-> Dominators!Children(Entry)]>>
      /\ preorder' = [preorder EXCEPT ![Entry] = clock] /\ clock' = clock + 1
      /\ UNCHANGED <<succs, order, idoms, at, changed, considered, candidate, finger, postorder>>
  BY DEF Dominators!IdomsDone, Dominators!iteration
<1>3. TreeDone(succs, order, idoms) /\ considered = {} /\ candidate = None /\ finger = None
  BY <1>2, DominatorsFound
<1>4. idoms \in Doms
  BY <1>3 DEF TreeDone, TreeOK
<1>5. Dominators!Children(Entry) = Kids(idoms, Entry)
  BY DEF Dominators!Children, Kids
<1>6. /\ preorder' = [[b \in Blocks |-> None] EXCEPT ![Entry] = 0] /\ postorder' = [b \in Blocks |-> None]
      /\ walk' = <<[block |-> Entry, rest |-> Kids(idoms, Entry)]>> /\ clock' = 1
  BY <1>1, <1>2, <1>5 DEF Unnumbered
<1>7. TimesOK(idoms, preorder', postorder', 1) /\ PathOK(idoms, walk') /\ FrontierOK(idoms, walk', preorder', postorder')
  BY <1>4, <1>6, TimesStart
<1>8. /\ TimesOK(idoms', preorder', postorder', clock') /\ PathOK(idoms', walk')
      /\ FrontierOK(idoms', walk', preorder', postorder')
  BY <1>2, <1>6, <1>7
<1>9. OrderOK(succs', order') /\ TreeDone(succs', order', idoms') /\ considered' = {} /\ candidate' = None /\ finger' = None
  BY <1>1, <1>2, <1>3
<1>10. QED
  BY <1>2, <1>8, <1>9 DEF IntervalsPhase

(* A child is gone down to. *)
LEMMA DominatorsDown ==
    ASSUME succs \in [Blocks -> SUBSET Blocks], IntervalsPhase, NEW x \in Blocks, Dominators!Descend(x)
    PROVE  IntervalsPhase' /\ phase' = "intervals" /\ succs' = succs
<1>1. /\ OrderOK(succs, order) /\ TreeDone(succs, order, idoms) /\ considered = {} /\ candidate = None /\ finger = None
      /\ PathOK(idoms, walk) /\ TimesOK(idoms, preorder, postorder, clock)
      /\ FrontierOK(idoms, walk, preorder, postorder)
  BY DEF IntervalsPhase
<1> DEFINE f == [Head(walk) EXCEPT !.rest = @ \ {x}]
<1> DEFINE y == [block |-> x, rest |-> Dominators!Children(x)]
<1>2. /\ walk # <<>> /\ x \in Head(walk).rest /\ phase = "intervals"
      /\ walk' = <<y, f>> \o Tail(walk)
      /\ preorder' = [preorder EXCEPT ![x] = clock] /\ clock' = clock + 1
      /\ UNCHANGED <<succs, phase, order, idoms, at, changed, considered, candidate, finger, postorder>>
  BY DEF Dominators!Descend, Dominators!iteration
<1>3. walk \in Seq(Frames) /\ idoms \in Doms
  BY <1>1 DEF PathOK, TreeDone, TreeOK
<1>4. Len(walk) \in Nat /\ Len(walk) >= 1 /\ walk[1] \in Frames /\ Head(walk) = walk[1] /\ 1 \in 1 .. Len(walk)
  BY <1>2, <1>3
<1>5. f \in Frames /\ f.block = walk[1].block /\ f.rest = walk[1].rest \ {x}
  BY <1>4 DEF Frames
<1>6. y \in Frames /\ y.block = x /\ y.rest = Kids(idoms, x)
  <2>1. Dominators!Children(x) = Kids(idoms, x) /\ Kids(idoms, x) \in SUBSET Blocks
    BY DEF Dominators!Children, Kids
  <2>2. QED
    BY <2>1 DEF Frames
<1> HIDE DEF f, y
<1>7. walk' = <<y>> \o <<f>> \o Tail(walk)
  <2>1. <<y>> \o <<f>> = <<y, f>>
    <3> DEFINE u == <<y>> \o <<f>>
    <3> DEFINE v == <<y, f>>
    <3>1. /\ u \in Seq(Frames) /\ v \in Seq(Frames) /\ Len(u) = 2 /\ Len(v) = 2
          /\ u[1] = y /\ v[1] = y /\ u[2] = f /\ v[2] = f
      BY <1>5, <1>6
    <3> HIDE DEF u, v
    <3>2. \A i \in 1 .. Len(u) : u[i] = v[i]
      <4> SUFFICES ASSUME NEW i \in 1 .. 2 PROVE u[i] = v[i]
        BY <3>1
      <4>1. i = 1 \/ i = 2
        OBVIOUS
      <4>2. QED
        BY <3>1, <4>1
    <3>3. u = v
      BY <3>1, <3>2, SeqEqual
    <3>4. QED
      BY <3>3 DEF u, v
  <2>2. QED
    BY <1>2, <2>1
<1>8. /\ walk' \in Seq(Frames) /\ Len(walk') = Len(walk) + 1 /\ walk'[1] = y /\ walk'[2] = f
      /\ \A i \in 2 .. Len(walk) : walk'[i + 1] = walk[i]
  BY <1>2, <1>3, <1>5, <1>6, <1>7, WalkGoesDown
<1>9. \A i \in 1 .. Len(walk) : walk'[i + 1].block = walk[i].block
  <2> SUFFICES ASSUME NEW i \in 1 .. Len(walk) PROVE walk'[i + 1].block = walk[i].block
    OBVIOUS
  <2>1. CASE i = 1
    BY <1>5, <1>8, <2>1
  <2>2. CASE i \in 2 .. Len(walk)
    BY <1>8, <2>2
  <2>3. QED
    BY <1>4, <2>1, <2>2
<1>10. x \in walk[1].rest /\ x \in Kids(idoms, walk[1].block) /\ preorder[x] = None
  BY <1>1, <1>2, <1>4 DEF FrontierOK
<1>11. x # Entry /\ idoms[x] = walk[1].block
  BY <1>10 DEF Kids
<1>12. /\ walk[1].block \in Blocks
       /\ \A a \in Blocks : Open(walk, a) <=> a \in Anc(idoms, walk[1].block)
       /\ \A a \in Blocks : Open(walk, a) <=> preorder[a] # None /\ postorder[a] = None
  BY <1>1, <1>3, <1>4, PathAncestors DEF FrontierOK
<1>13. ~Open(walk, x)
  BY <1>10, <1>12
<1>14. PathOK(idoms, walk') /\ \A c : Open(walk', c) <=> Open(walk, c) \/ c = x
  BY <1>1, <1>3, <1>4, <1>6, <1>8, <1>9, <1>11, <1>13, PathDown
<1>15. TimesOK(idoms, preorder', postorder, clock + 1)
  BY <1>1, <1>2, <1>3, <1>10, <1>11, <1>12, TimesOpen
<1>16. FrontierOK(idoms, walk', preorder', postorder)
  <2> DEFINE t == walk'
  <2>1. t \in Seq(Frames) /\ Len(t) = Len(walk) + 1 /\ t[1].block = x /\ t[1].rest = Kids(idoms, x)
    BY <1>6, <1>8
  <2>2. t[2].block = walk[1].block /\ t[2].rest = walk[1].rest \ {x}
    BY <1>5, <1>8
  <2>3. (\A i \in 2 .. Len(walk) : t[i + 1] = walk[i]) /\ \A c : Open(t, c) <=> Open(walk, c) \/ c = x
    BY <1>8, <1>14
  <2> DEFINE q == preorder'
  <2>4. q[x] # None /\ \A b \in Blocks : b # x => q[b] = preorder[b]
    <3>1. preorder \in Times /\ clock \in Nat /\ clock # None
      BY <1>1, GraphAssumption DEF TimesOK
    <3>2. QED
      BY <1>2, <3>1 DEF Times
  <2> HIDE DEF t, q
  <2>5. FrontierOK(idoms, t, q, postorder)
    BY <1>1, <1>3, <1>4, <1>10, <2>1, <2>2, <2>3, <2>4, FrontierDown
  <2>6. QED
    BY <2>5 DEF t, q
<1>17. /\ TimesOK(idoms', preorder', postorder', clock') /\ PathOK(idoms', walk')
       /\ FrontierOK(idoms', walk', preorder', postorder')
  BY <1>2, <1>14, <1>15, <1>16
<1>18. OrderOK(succs', order') /\ TreeDone(succs', order', idoms') /\ considered' = {} /\ candidate' = None /\ finger' = None
  BY <1>1, <1>2
<1>19. QED
  BY <1>2, <1>17, <1>18 DEF IntervalsPhase

(* A block without children left is left. *)
LEMMA DominatorsUp ==
    ASSUME succs \in [Blocks -> SUBSET Blocks], IntervalsPhase, Dominators!Ascend
    PROVE  IntervalsPhase' /\ phase' = "intervals" /\ succs' = succs
<1> DEFINE h == walk[1].block
<1>1. /\ OrderOK(succs, order) /\ TreeDone(succs, order, idoms) /\ considered = {} /\ candidate = None /\ finger = None
      /\ PathOK(idoms, walk) /\ TimesOK(idoms, preorder, postorder, clock)
      /\ FrontierOK(idoms, walk, preorder, postorder)
  BY DEF IntervalsPhase
<1>2. walk \in Seq(Frames) /\ idoms \in Doms /\ TreeOK(succs, order, idoms)
  BY <1>1 DEF PathOK, TreeDone, TreeOK
<1>3. /\ walk # <<>> /\ walk[1].rest = {} /\ phase = "intervals" /\ walk' = Tail(walk)
      /\ postorder' = [postorder EXCEPT ![h] = clock] /\ clock' = clock + 1
      /\ UNCHANGED <<succs, phase, order, idoms, at, changed, considered, candidate, finger, preorder>>
  <2>1. walk # <<>>
    BY DEF Dominators!Ascend
  <2>2. Head(walk) = walk[1]
    BY <1>2, <2>1
  <2>3. QED
    BY <2>1, <2>2 DEF Dominators!Ascend, Dominators!iteration
<1>4. Len(walk) \in Nat /\ Len(walk) >= 1 /\ 1 \in 1 .. Len(walk)
  BY <1>2, <1>3
<1>5. /\ h \in Blocks
      /\ \A a \in Blocks : Open(walk, a) <=> a \in Anc(idoms, h)
      /\ \A a \in Blocks : Open(walk, a) <=> preorder[a] # None /\ postorder[a] = None
  BY <1>1, <1>2, <1>4, PathAncestors DEF FrontierOK
<1>6. \A c \in Kids(idoms, h) : preorder[c] # None
  BY <1>1, <1>3, <1>4 DEF FrontierOK
<1> HIDE DEF h
<1>7. idoms[h] # None
  <2>1. preorder[h] # None
    BY <1>2, <1>5, Ancestors
  <2>2. CASE h = Entry
    BY <1>2, <2>2, BlocksAssumption, GraphAssumption DEF TreeOK
  <2>3. CASE h # Entry
    BY <1>1, <1>5, <2>1, <2>3 DEF TimesOK
  <2>4. QED
    BY <2>2, <2>3
<1>8. TimesOK(idoms, preorder, postorder', clock + 1)
  BY <1>1, <1>2, <1>3, <1>5, <1>6, <1>7, TimesClose
<1>9. PathOK(idoms, walk')
  BY <1>1, <1>3, PathUp
<1>10. FrontierOK(idoms, walk', preorder, postorder')
  <2>1. postorder \in Times /\ clock \in Nat
    BY <1>1 DEF TimesOK
  <2>2. FrontierOK(idoms, Tail(walk), preorder, [postorder EXCEPT ![walk[1].block] = clock])
    BY <1>1, <1>3, <2>1, FrontierUp
  <2>3. QED
    BY <1>3, <2>2 DEF h
<1>11. /\ TimesOK(idoms', preorder', postorder', clock') /\ PathOK(idoms', walk')
       /\ FrontierOK(idoms', walk', preorder', postorder')
  BY <1>3, <1>8, <1>9, <1>10
<1>12. OrderOK(succs', order') /\ TreeDone(succs', order', idoms') /\ considered' = {} /\ candidate' = None /\ finger' = None
  BY <1>1, <1>3
<1>13. QED
  BY <1>3, <1>11, <1>12 DEF IntervalsPhase

(* At first the walk is at the entry and nothing has an idom. *)
LEMMA DominatorsInit == Dominators!Init => DominatorsInv
<1> SUFFICES ASSUME Dominators!Init PROVE DominatorsInv
  OBVIOUS
<1>1. /\ succs \in [Blocks -> SUBSET Blocks] /\ phase = "order" /\ Entry \in Blocks
      /\ walk = <<[block |-> Entry, rest |-> succs[Entry]]>> /\ order = <<>>
      /\ idoms = [b \in Blocks |-> None] /\ at = 2 /\ changed = FALSE /\ considered = {}
      /\ candidate = None /\ finger = None
      /\ clock = 0 /\ preorder = [b \in Blocks |-> None] /\ postorder = [b \in Blocks |-> None]
  BY BlocksAssumption DEF Dominators!Init, Dominators!Nowhere
<1>2. <<>> \in Seq(Frames) /\ <<>> \in Seq(Blocks) /\ Len(<<>>) = 0 /\ \A i : i \notin 1 .. 0
  OBVIOUS
<1>3. \A b : ~Listed(<<>>, b)
  BY <1>2 DEF Listed
<1>4. Distinct(<<>>)
  BY <1>2 DEF Distinct
<1>5. WalkOK(succs, <<>>, <<>>) /\ FinishOK(succs, <<>>, <<>>)
  BY <1>2, <1>3, <1>4 DEF WalkOK, FinishOK
<1>6. WalkOK(succs, walk, order) /\ FinishOK(succs, walk, order)
  BY <1>1, <1>3, <1>5, WalkStarts
<1>7. Len(walk) = 1 /\ walk[1].block = Entry /\ \A i \in 1 .. Len(walk) : i = 1
  BY <1>1
<1>8. \A c : Met(walk, order, c) => c \in Reached(succs)
  <2>1. Entry \in Reached(succs)
    BY <1>1, ReachLeast DEF Reached
  <2>2. \A c : Met(walk, order, c) => c = Entry
    BY <1>1, <1>3, <1>7 DEF Met, Open
  <2>3. QED
    BY <2>1, <2>2
<1>9. LinksOK(succs, walk, order)
  BY <1>1, <1>2, <1>7, <1>8 DEF LinksOK
<1>10. QED
  BY <1>1, <1>6, <1>9 DEF DominatorsInv, OrderPhase, Unnumbered

(* Every step keeps the invariant, and the phases follow one another. *)
LEMMA DominatorsStep == DominatorsInv /\ [Dominators!Next]_Dominators!vars => DominatorsInv'
<1> SUFFICES ASSUME DominatorsInv, [Dominators!Next]_Dominators!vars PROVE DominatorsInv'
  OBVIOUS
<1>1. succs \in [Blocks -> SUBSET Blocks]
  BY DEF DominatorsInv
<1>2. /\ phase = "order" => OrderPhase
      /\ phase = "idoms" => IdomsPhase
      /\ phase = "intervals" => IntervalsPhase
  BY DEF DominatorsInv
<1>3. CASE UNCHANGED Dominators!vars
  <2>1. UNCHANGED <<succs, phase, walk, order, idoms, at, changed, considered, candidate, finger, clock, preorder, postorder>>
    BY <1>3 DEF Dominators!vars, Dominators!search, Dominators!iteration, Dominators!intervals
  <2>2. OrderPhase => OrderPhase'
    BY <2>1 DEF OrderPhase, Unnumbered
  <2>3. IdomsPhase => IdomsPhase'
    BY <2>1 DEF IdomsPhase, IterationOK, Unnumbered
  <2>4. IntervalsPhase => IntervalsPhase'
    BY <2>1 DEF IntervalsPhase
  <2>5. QED
    BY <1>1, <2>1, <2>2, <2>3, <2>4 DEF DominatorsInv
<1>4. ASSUME NEW b \in Blocks, Dominators!Visit(b) \/ Dominators!Leave PROVE DominatorsInv'
  <2>1. phase = "order"
    BY <1>4 DEF Dominators!Visit, Dominators!Leave
  <2>2. OrderPhase' /\ phase' = "order" /\ succs' = succs
    BY <1>1, <1>2, <1>4, <2>1, DominatorsWalk
  <2>3. QED
    BY <1>1, <2>2 DEF DominatorsInv
<1>5. CASE Dominators!OrderDone
  <2>1. phase = "order"
    BY <1>5 DEF Dominators!OrderDone
  <2>2. IdomsPhase' /\ phase' = "idoms" /\ succs' = succs
    BY <1>1, <1>2, <1>5, <2>1, DominatorsOrdered
  <2>3. QED
    BY <1>1, <2>2 DEF DominatorsInv
<1>6. ASSUME NEW b \in Blocks,
             Dominators!Consider(b) \/ Dominators!ClimbA \/ Dominators!ClimbB \/ Dominators!Meet
      PROVE  DominatorsInv'
  <2>1. phase = "idoms"
    BY <1>6 DEF Dominators!Consider, Dominators!ClimbA, Dominators!ClimbB, Dominators!Meet
  <2>2. IdomsPhase' /\ phase' = "idoms" /\ succs' = succs
    BY <1>1, <1>2, <1>6, <2>1, DominatorsIntersect
  <2>3. QED
    BY <1>1, <2>2 DEF DominatorsInv
<1>7. CASE Dominators!Assign \/ Dominators!Again
  <2>1. phase = "idoms"
    BY <1>7 DEF Dominators!Assign, Dominators!Again
  <2>2. IdomsPhase' /\ phase' = "idoms" /\ succs' = succs
    BY <1>1, <1>2, <1>7, <2>1, DominatorsAssign, DominatorsAgain
  <2>3. QED
    BY <1>1, <2>2 DEF DominatorsInv
<1>8. CASE Dominators!IdomsDone
  <2>1. phase = "idoms"
    BY <1>8 DEF Dominators!IdomsDone
  <2>2. IntervalsPhase' /\ phase' = "intervals" /\ succs' = succs
    BY <1>1, <1>2, <1>8, <2>1, DominatorsTree
  <2>3. QED
    BY <1>1, <2>2 DEF DominatorsInv
<1>9. ASSUME NEW b \in Blocks, Dominators!Descend(b) \/ Dominators!Ascend PROVE DominatorsInv'
  <2>1. phase = "intervals"
    BY <1>9 DEF Dominators!Descend, Dominators!Ascend
  <2>2. IntervalsPhase' /\ phase' = "intervals" /\ succs' = succs
    BY <1>1, <1>2, <1>9, <2>1, DominatorsDown, DominatorsUp
  <2>3. QED
    BY <1>1, <2>2 DEF DominatorsInv
<1>10. CASE Dominators!IntervalsDone
  <2>1. /\ phase = "intervals" /\ walk = <<>> /\ phase' = "done"
        /\ UNCHANGED <<succs, walk, order, idoms, at, changed, considered, candidate, finger, clock, preorder, postorder>>
    BY <1>10 DEF Dominators!IntervalsDone, Dominators!search, Dominators!iteration, Dominators!intervals
  <2>2. IntervalsPhase'
    BY <1>2, <2>1 DEF IntervalsPhase
  <2>3. QED
    BY <1>1, <2>1, <2>2 DEF DominatorsInv
<1>11. Entry \in Blocks
  BY BlocksAssumption
<1>12. QED
  BY <1>3, <1>4, <1>5, <1>6, <1>7, <1>8, <1>9, <1>10, <1>11 DEF Dominators!Next, Dominators!Step, Dominators!Stop

-----------------------------------------------------------------------------
(* Dominators are the same to all calls. *)
LEMMA DominatesAlike == \A g, a, b : Dominators!StrictlyDominates(Entry, a, b, g) <=> SDom(g, a, b)
<1>1. \A a, g : Dominators!Reach(a, g) = Reach(a, g)
  BY DEF Dominators!Reach, Reach, Dominators!Closed, Closed
<1>2. \A a, g : Dominators!Avoiding(a, g) = Avoiding(a, g)
  BY DEF Dominators!Avoiding, Avoiding
<1>3. QED
  BY <1>1, <1>2 DEF Dominators!StrictlyDominates, SDom, StrictlyDominates

(* The sizes of sets of blocks. *)
LEMMA DoCardinality == \A S : Dominators!Cardinality(S) = Cardinality(S)
<1>1. \A S : Dominators!IsFiniteSet(S) <=> IsFiniteSet(S)
  BY DEF Dominators!IsFiniteSet, IsFiniteSet
<1>2. QED
  BY <1>1 DEF Dominators!Cardinality, Cardinality

(* The clock counts starts and ends, two for each block at most. *)
LEMMA ClockBounded ==
    ASSUME NEW d, NEW pre, NEW post, NEW n, TimesOK(d, pre, post, n)
    PROVE  n <= 2 * Cardinality(Blocks)
<1>1. Timed(pre) \subseteq Blocks /\ Timed(post) \subseteq Blocks
  BY DEF Timed
<1>2. Cardinality(Timed(pre)) <= Cardinality(Blocks) /\ Cardinality(Timed(post)) <= Cardinality(Blocks)
  BY <1>1, GraphAssumption, FS_Subset
<1>3. IsFiniteSet(Timed(pre)) /\ IsFiniteSet(Timed(post))
  BY <1>1, GraphAssumption, FS_Subset
<1>4. Cardinality(Timed(pre)) \in Nat /\ Cardinality(Timed(post)) \in Nat /\ Cardinality(Blocks) \in Nat
  BY <1>3, GraphAssumption, FS_CardinalityType
<1>5. n = Cardinality(Timed(pre)) + Cardinality(Timed(post))
  BY DEF TimesOK, Counted
<1>6. QED
  BY <1>2, <1>4, <1>5

(* When the walk through the tree is over, every reached block has an        *)
(* interval, and intervals lie in each other as the blocks dominate.         *)
LEMMA IntervalsAnswer ==
    ASSUME succs \in [Blocks -> SUBSET Blocks], IntervalsPhase, walk = <<>>, NEW a \in Reached(succs), NEW b \in Reached(succs)
    PROVE  /\ preorder[a] \in Nat /\ postorder[a] \in Nat
           /\ a # b /\ preorder[a] < preorder[b] /\ postorder[b] < postorder[a] <=> SDom(succs, a, b)
<1>1. /\ OrderOK(succs, order) /\ TreeDone(succs, order, idoms) /\ TreeOK(succs, order, idoms)
      /\ TimesOK(idoms, preorder, postorder, clock) /\ FrontierOK(idoms, walk, preorder, postorder)
  BY DEF IntervalsPhase, TreeDone
<1>2. /\ preorder \in Times /\ postorder \in Times
      /\ \A x \in Blocks : postorder[x] # None => preorder[x] # None /\ preorder[x] < postorder[x]
      /\ \A x \in Blocks : postorder[x] # None => \A c \in Kids(idoms, x) : postorder[c] # None
      /\ Inside(idoms, preorder, postorder) /\ Apart(idoms, preorder, postorder)
  BY <1>1 DEF TimesOK
<1>3. /\ Len(order) \in Nat /\ Reached(succs) \subseteq Blocks
      /\ \A x \in Reached(succs) : Index(order, x) \in 1 .. Len(order) /\ order[Index(order, x)] = x
      /\ \A i \in 1 .. Len(order) : order[i] \in Reached(succs) /\ Index(order, order[i]) = i
  BY <1>1, OrderIndex
<1>4. postorder[Entry] # None
  BY <1>1 DEF FrontierOK
<1> DEFINE T == {i \in 1 .. Len(order) : postorder[order[i]] = None}
<1>5. T = {}
  <2> SUFFICES ASSUME T # {} PROVE FALSE
    OBVIOUS
  <2>1. T \in SUBSET (1 .. Len(order))
    OBVIOUS
  <2>2. PICK m \in T : \A i \in T : m <= i
    <3> HIDE DEF T
    <3>1. QED
      BY <1>3, <2>1, LeastOf
  <2> DEFINE x == order[m]
  <2>3. m \in 1 .. Len(order) /\ x \in Reached(succs) /\ x \in Blocks /\ postorder[x] = None /\ x # Entry /\ Index(order, x) = m
    BY <1>3, <1>4, <2>2
  <2> HIDE DEF x
  <2>4. idoms[x] \in Reached(succs) /\ Index(order, idoms[x]) < Index(order, x)
    BY <1>1, <2>3 DEF TreeDone, TreeOK
  <2>5. Index(order, idoms[x]) \notin T
    BY <1>3, <2>2, <2>3, <2>4
  <2>6. postorder[idoms[x]] # None
    BY <1>3, <2>4, <2>5
  <2>7. x \in Kids(idoms, idoms[x])
    BY <2>3 DEF Kids
  <2>8. QED
    BY <1>2, <1>3, <2>3, <2>4, <2>6, <2>7
<1>6. \A x \in Reached(succs) : postorder[x] # None
  BY <1>3, <1>5
<1>7. \A x \in Reached(succs) : preorder[x] # None /\ preorder[x] \in Nat /\ postorder[x] \in Nat /\ preorder[x] < postorder[x]
  BY <1>2, <1>3, <1>6 DEF Times
<1>8. a \in Anc(idoms, b) /\ a # b <=> SDom(succs, a, b)
  BY <1>1, <1>3, TreeDominates
<1>9. ASSUME a \in Anc(idoms, b), a # b PROVE preorder[a] < preorder[b] /\ postorder[b] < postorder[a]
  BY <1>2, <1>3, <1>6, <1>7, <1>9 DEF Inside
<1>10. ASSUME preorder[a] < preorder[b], postorder[b] < postorder[a], a \notin Anc(idoms, b) PROVE FALSE
  <2>1. postorder[a] < preorder[b]
    BY <1>2, <1>3, <1>7, <1>10 DEF Apart
  <2>2. QED
    BY <1>7, <1>10, <2>1
<1>11. QED
  BY <1>7, <1>8, <1>9, <1>10

(* After the order is found: its blocks are the reached ones. *)
LEMMA ReachableIs ==
    ASSUME succs \in [Blocks -> SUBSET Blocks], OrderOK(succs, order)
    PROVE  Dominators!Reachable = Reached(succs) /\ \A x : Dominators!Position(x) = Index(order, x)
<1>1. order \in Seq(Blocks)
  BY DEF OrderOK
<1>2. DOMAIN order = 1 .. Len(order)
  BY <1>1
<1>3. /\ \A i \in 1 .. Len(order) : order[i] \in Reached(succs)
      /\ \A x \in Reached(succs) : Index(order, x) \in 1 .. Len(order) /\ order[Index(order, x)] = x
  BY OrderIndex
<1>4. Dominators!Reachable = Reached(succs)
  BY <1>2, <1>3 DEF Dominators!Reachable
<1>5. QED
  BY <1>4 DEF Dominators!Position, Index

(* The frames and the order have the types of the run. *)
LEMMA DominatorsTyped == DominatorsInv => Dominators!TypeOK
<1> SUFFICES ASSUME DominatorsInv PROVE Dominators!TypeOK
  OBVIOUS
<1>1. succs \in [Blocks -> SUBSET Blocks] /\ phase \in {"order", "idoms", "intervals", "done"}
  BY DEF DominatorsInv
<1>2. walk \in Seq(Frames)
  <2>1. OrderPhase => walk \in Seq(Frames)
    BY DEF OrderPhase, WalkOK
  <2>2. IdomsPhase => walk \in Seq(Frames)
    BY DEF IdomsPhase
  <2>3. IntervalsPhase => walk \in Seq(Frames)
    BY DEF IntervalsPhase, PathOK
  <2>4. QED
    BY <2>1, <2>2, <2>3 DEF DominatorsInv
<1>3. \A i \in DOMAIN walk : walk[i].block \in Blocks /\ walk[i].rest \subseteq Blocks
  <2>1. \A i \in DOMAIN walk : walk[i] \in Frames
    BY <1>2
  <2>2. QED
    BY <2>1 DEF Frames
<1>4. order \in Seq(Blocks) /\ Distinct(order)
  <2>1. OrderPhase => order \in Seq(Blocks) /\ Distinct(order)
    BY DEF OrderPhase, WalkOK
  <2>2. OrderOK(succs, order) => order \in Seq(Blocks) /\ Distinct(order)
    BY DEF OrderOK
  <2>3. QED
    BY <2>1, <2>2 DEF DominatorsInv, IdomsPhase, IntervalsPhase
<1>5. \A i, j \in DOMAIN order : order[i] = order[j] => i = j
  <2>1. DOMAIN order = 1 .. Len(order)
    BY <1>4
  <2>2. QED
    BY <1>4, <2>1 DEF Distinct
<1>6. idoms \in Doms
  <2>1. OrderPhase => idoms \in Doms
    BY DEF OrderPhase, Doms
  <2>2. TreeOK(succs, order, idoms) => idoms \in Doms
    BY DEF TreeOK
  <2>3. QED
    BY <2>1, <2>2 DEF DominatorsInv, IdomsPhase, IntervalsPhase, TreeDone
<1>7. considered \subseteq Blocks /\ {candidate, finger} \subseteq Blocks \cup {None}
  <2>1. OrderPhase \/ IntervalsPhase => considered = {} /\ candidate = None /\ finger = None
    BY DEF OrderPhase, IntervalsPhase
  <2>2. ASSUME IdomsPhase PROVE considered \subseteq Blocks /\ {candidate, finger} \subseteq Blocks \cup {None}
    <3>1. /\ at \notin 1 .. Len(order) => considered = {} /\ candidate = None /\ finger = None
          /\ at \in 1 .. Len(order) => FingersOK(succs, idoms, order[at], considered, candidate, finger)
      BY <2>2 DEF IdomsPhase, IterationOK
    <3>2. Reached(succs) \subseteq Blocks
      BY <1>1, <2>2, OrderIndex DEF IdomsPhase
    <3>3. QED
      BY <3>1, <3>2 DEF FingersOK, Ready, Stands
  <2>3. QED
    BY <2>1, <2>2 DEF DominatorsInv
<1>8. clock <= 2 * Dominators!Cardinality(Blocks)
  <2>1. OrderPhase \/ IdomsPhase => clock = 0
    BY DEF OrderPhase, IdomsPhase, Unnumbered
  <2>2. IntervalsPhase => clock <= 2 * Cardinality(Blocks)
    BY ClockBounded DEF IntervalsPhase
  <2>3. Cardinality(Blocks) \in Nat
    BY GraphAssumption, FS_CardinalityType
  <2>4. 0 <= 2 * Cardinality(Blocks)
    BY <2>3
  <2>5. clock <= 2 * Cardinality(Blocks)
    BY <2>1, <2>2, <2>4 DEF DominatorsInv
  <2>6. QED
    BY <2>5, DoCardinality
<1>9. QED
  BY <1>1, <1>3, <1>4, <1>5, <1>6, <1>7, <1>8 DEF Dominators!TypeOK, Doms

(* The fingers have somewhere to go, and the idoms err on one side. *)
LEMMA DominatorsOneSided == DominatorsInv => Dominators!FingersMeet /\ Dominators!IdomsBelowDominators
<1> SUFFICES ASSUME DominatorsInv PROVE Dominators!FingersMeet /\ Dominators!IdomsBelowDominators
  OBVIOUS
<1>1. succs \in [Blocks -> SUBSET Blocks]
  BY DEF DominatorsInv
<1>2. CASE phase = "order"
  <2>1. idoms = [b \in Blocks |-> None] /\ finger = None
    BY <1>2 DEF DominatorsInv, OrderPhase
  <2>2. QED
    BY <1>2, <2>1 DEF Dominators!FingersMeet, Dominators!IdomsBelowDominators
<1>3. CASE phase # "order"
  <2>1. OrderOK(succs, order) /\ TreeOK(succs, order, idoms)
    BY <1>3 DEF DominatorsInv, IdomsPhase, IntervalsPhase, TreeDone
  <2>2. Dominators!Reachable = Reached(succs) /\ \A x : Dominators!Position(x) = Index(order, x)
    BY <1>1, <2>1, ReachableIs
  <2>3. \A b \in Blocks \ {Entry} : idoms[b] # None =>
          /\ {b, idoms[b]} \subseteq Dominators!Reachable
          /\ Dominators!Position(idoms[b]) < Dominators!Position(b)
          /\ idoms[idoms[b]] # None
    BY <2>1, <2>2 DEF TreeOK
  <2>4. ASSUME finger # None PROVE idoms[candidate] # None /\ idoms[finger] # None
    <3>1. phase = "idoms" /\ IdomsPhase
      BY <1>3, <2>4 DEF DominatorsInv, IntervalsPhase
    <3>2. FingersOK(succs, idoms, order[at], considered, candidate, finger)
      BY <2>4, <3>1 DEF IdomsPhase, IterationOK
    <3>3. QED
      BY <2>4, <3>2 DEF FingersOK, Stands
  <2>5. Dominators!FingersMeet
    BY <2>3, <2>4 DEF Dominators!FingersMeet
  <2>6. Dominators!IdomsBelowDominators
    <3> SUFFICES ASSUME NEW b \in Blocks \ {Entry}, idoms[b] # None, NEW a \in Blocks,
                        Dominators!StrictlyDominates(Entry, a, b, succs)
                 PROVE  a = idoms[b] \/ Dominators!StrictlyDominates(Entry, a, idoms[b], succs)
      BY DEF Dominators!IdomsBelowDominators
    <3>1. SDom(succs, a, b)
      BY DominatesAlike
    <3>2. a = idoms[b] \/ SDom(succs, a, idoms[b])
      BY <2>1, <3>1 DEF TreeOK
    <3>3. QED
      BY <3>2, DominatesAlike
  <2>7. QED
    BY <2>5, <2>6
<1>4. QED
  BY <1>2, <1>3

(* The answers are those of the definition. *)
LEMMA DominatorsAnswer == DominatorsInv => Dominators!DominatorsCorrect
<1> SUFFICES ASSUME DominatorsInv, phase = "done", NEW a \in Blocks, NEW b \in Blocks
             PROVE  /\ Dominators!strictly_dominates(a, b) <=> SDom(succs, a, b)
                    /\ Dominators!immediate_dominator(b) = a <=>
                          /\ SDom(succs, a, b)
                          /\ \A c \in Blocks : SDom(succs, c, b) => c = a \/ SDom(succs, c, a)
  BY DominatesAlike DEF Dominators!DominatorsCorrect
<1>1. succs \in [Blocks -> SUBSET Blocks] /\ IntervalsPhase /\ walk = <<>>
  BY DEF DominatorsInv
<1>2. OrderOK(succs, order) /\ TreeDone(succs, order, idoms) /\ TreeOK(succs, order, idoms) /\ idoms \in Doms
  BY <1>1 DEF IntervalsPhase, TreeDone, TreeOK
<1>3. Dominators!Reachable = Reached(succs)
  BY <1>1, <1>2, ReachableIs
<1>4. \A x, y : SDom(succs, x, y) => x \in Reached(succs) /\ y \in Reached(succs) /\ y # Entry /\ x # y
  BY <1>1, DominatorReached
<1>5. Dominators!strictly_dominates(a, b) <=> SDom(succs, a, b)
  <2>1. CASE a \in Reached(succs) /\ b \in Reached(succs)
    <3>1. a # b /\ preorder[a] < preorder[b] /\ postorder[b] < postorder[a] <=> SDom(succs, a, b)
      BY <1>1, <2>1, IntervalsAnswer
    <3>2. QED
      BY <1>3, <2>1, <3>1 DEF Dominators!strictly_dominates
  <2>2. CASE ~(a \in Reached(succs) /\ b \in Reached(succs))
    BY <1>3, <1>4, <2>2 DEF Dominators!strictly_dominates
  <2>3. QED
    BY <2>1, <2>2
<1>6. ASSUME Dominators!immediate_dominator(b) = a
      PROVE  SDom(succs, a, b) /\ \A c \in Blocks : SDom(succs, c, b) => c = a \/ SDom(succs, c, a)
  <2>1. b # Entry /\ idoms[b] = a /\ idoms[b] # None
    BY <1>6, GraphAssumption DEF Dominators!immediate_dominator
  <2>2. b \in Reached(succs) /\ Index(order, a) < Index(order, b) /\ a \in Reached(succs)
    BY <1>2, <2>1 DEF TreeOK
  <2>3. a \in Anc(idoms, b)
    BY <1>2, <2>1, Ancestors
  <2>4. a # b
    <3>1. Index(order, b) \in Nat
      BY <1>1, <1>2, <2>2, OrderIndex
    <3>2. QED
      BY <2>2, <3>1
  <2>5. SDom(succs, a, b)
    BY <1>1, <1>2, <2>2, <2>3, <2>4, TreeDominates
  <2>6. QED
    BY <1>2, <2>1, <2>5 DEF TreeOK
<1>7. ASSUME SDom(succs, a, b), \A c \in Blocks : SDom(succs, c, b) => c = a \/ SDom(succs, c, a)
      PROVE  Dominators!immediate_dominator(b) = a
  <2>1. b \in Reached(succs) /\ b # Entry
    BY <1>4, <1>7
  <2>2. idoms[b] # None
    BY <1>2, <2>1 DEF TreeDone
  <2> DEFINE x == idoms[b]
  <2>3. x \in Blocks /\ Dominators!immediate_dominator(b) = x
    BY <1>2, <2>1, <2>2 DEF Doms, Dominators!immediate_dominator
  <2>4. a = x \/ SDom(succs, a, x)
    BY <1>2, <1>7, <2>1, <2>2 DEF TreeOK
  <2>5. SDom(succs, x, b)
    <3>1. x \in Anc(idoms, b) /\ Index(order, x) < Index(order, b)
      BY <1>2, <2>1, <2>2, Ancestors DEF TreeOK
    <3>2. x # b
      <4>1. Index(order, b) \in Nat
        BY <1>1, <1>2, <2>1, OrderIndex
      <4>2. QED
        BY <3>1, <4>1
    <3>3. QED
      BY <1>1, <1>2, <2>1, <2>3, <3>1, <3>2, TreeDominates
  <2> HIDE DEF x
  <2>6. x = a \/ SDom(succs, x, a)
    BY <1>7, <2>3, <2>5
  <2>7. ASSUME x # a PROVE FALSE
    <3>1. Index(order, a) < Index(order, x) /\ Index(order, x) < Index(order, a)
      BY <1>1, <1>2, <2>4, <2>6, <2>7, DominatorsEarlier
    <3>2. Index(order, a) \in Nat /\ Index(order, x) \in Nat
      BY <1>1, <1>2, <1>4, <1>7, <2>5, OrderIndex
    <3>3. QED
      BY <3>1, <3>2
  <2>8. QED
    BY <2>3, <2>7
<1>8. QED
  BY <1>5, <1>6, <1>7

(* dominators() answers strictly_dominates and immediate_dominator as their  *)
(* definitions do, and on the way to that no finger is ever without an idom  *)
(* to go to and the iteration errs on one side only: for every graph, and    *)
(* every order of successors, predecessors and children.                     *)
THEOREM DominatorsAreCorrect == Dominators!Spec => []DominatorsCorrect
<1>1. Dominators!Spec => []DominatorsInv
  BY DominatorsInit, DominatorsStep, PTL DEF Dominators!Spec
<1>2. DominatorsInv => DominatorsCorrect
  BY DominatorsTyped, DominatorsOneSided, DominatorsAnswer DEF DominatorsCorrect
<1>3. QED
  BY <1>1, <1>2, PTL
=============================================================================
