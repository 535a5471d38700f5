--------------------------- MODULE FixEditsProofs ---------------------------
(***************************************************************************)
(* Conflict resolution and the edit engine agree, for any set of fixes and *)
(* any number of them.                                                     *)
(***************************************************************************)
EXTENDS FixEdits, TLAPS

EditType == [start : Nat, end : Nat, text : Replacements]

LEMMA OverlapsSymmetric ==
    ASSUME NEW e \in EditType, NEW f \in EditType
    PROVE  Overlaps(e, f) <=> Overlaps(f, e)
BY DEF EditType, Overlaps

(* Two edits in the order of apply_fixes that compete do overlap. *)
LEMMA CompetitorsOverlap ==
    ASSUME NEW e \in EditType, NEW f \in EditType,
           e.start <= e.end, f.start <= f.end,
           ~(f.start < e.start \/ (f.start = e.start /\ f.end < e.end)),
           f.start < e.end \/ (e.start = e.end /\ e.start = f.start)
    PROVE  Overlaps(e, f)
BY DEF EditType, Overlaps

(* Kept fixes are fixes of the plan, no two of them conflict, and the edits  *)
(* to apply are edits of theirs.                                             *)
CompatInv ==
    /\ \A f \in DOMAIN fixes : fixes[f] \in PlannedFixes
    /\ pending \subseteq DOMAIN fixes
    /\ kept \subseteq DOMAIN fixes \ pending
    /\ \A f, g \in kept : f # g => ~Conflict(f, g)
    /\ mapped \subseteq EditsOf(kept)
    /\ phase # "overlapping"

(* The edits of a plan. *)
LEMMA PlanEdits ==
    ASSUME CompatInv, NEW f \in DOMAIN fixes, NEW i \in DOMAIN fixes[f].edits
    PROVE  fixes[f].edits[i] \in EditType /\ fixes[f].edits[i].start <= fixes[f].edits[i].end
<1>1. fixes[f] \in PlannedFixes
  BY DEF CompatInv
<1>2. fixes[f].edits \in Seq(EditType) /\ ValidFix(fixes[f])
  BY <1>1, FixAssumption DEF EditType
<1>3. QED
  BY <1>2 DEF ValidFix

LEMMA ConflictSymmetric ==
    ASSUME CompatInv, NEW f \in DOMAIN fixes, NEW g \in DOMAIN fixes, Conflict(f, g)
    PROVE  Conflict(g, f)
<1>1. PICK i \in DOMAIN fixes[f].edits, j \in DOMAIN fixes[g].edits :
        Overlaps(fixes[g].edits[j], fixes[f].edits[i])
  BY DEF Conflict
<1>2. Overlaps(fixes[f].edits[i], fixes[g].edits[j])
  BY <1>1, PlanEdits, OverlapsSymmetric
<1>3. QED
  BY <1>2 DEF Conflict

(* No two edits of kept fixes compete, neighbours or not. *)
LEMMA NoCompetition ==
    ASSUME CompatInv, NEW d \in EditsOf(kept), NEW e \in EditsOf(kept), d # e, ~Ahead(e, d)
    PROVE  ~Competes(d, e)
<1>1. PICK f \in kept : \E i \in DOMAIN fixes[f].edits : d = <<f, i>>
  BY DEF EditsOf
<1>2. PICK g \in kept : \E j \in DOMAIN fixes[g].edits : e = <<g, j>>
  BY DEF EditsOf
<1>3. PICK i \in DOMAIN fixes[f].edits : d = <<f, i>>
  BY <1>1
<1>4. PICK j \in DOMAIN fixes[g].edits : e = <<g, j>>
  BY <1>2
<1>5. f \in DOMAIN fixes /\ g \in DOMAIN fixes
  BY DEF CompatInv
<1>6. Edit(d) = fixes[f].edits[i] /\ Edit(e) = fixes[g].edits[j]
  BY <1>3, <1>4 DEF Edit
<1>7. /\ Edit(d) \in EditType /\ Edit(d).start <= Edit(d).end
      /\ Edit(e) \in EditType /\ Edit(e).start <= Edit(e).end
  BY <1>5, <1>6, PlanEdits
<1>8. SUFFICES ASSUME Competes(d, e) PROVE FALSE
  OBVIOUS
<1>9. Overlaps(Edit(d), Edit(e))
  BY <1>7, <1>8, CompetitorsOverlap DEF Ahead, Competes
<1>10. CASE f # g
  <2>1. Conflict(g, f)
    BY <1>6, <1>9 DEF Conflict
  <2>2. QED
    BY <1>10, <2>1 DEF CompatInv
<1>11. CASE f = g
  <2>1. i # j
    BY <1>3, <1>4, <1>11
  <2>2. fixes[f] \in PlannedFixes /\ fixes[f].edits \in Seq(EditType) /\ ValidFix(fixes[f])
    BY <1>5, FixAssumption DEF CompatInv, EditType
  <2>3. i \in Int /\ j \in Int
    BY <1>11, <2>2
  <2>4. Overlaps(Edit(e), Edit(d))
    BY <1>7, <1>9, OverlapsSymmetric
  <2>5. QED
    BY <1>6, <1>9, <1>11, <2>1, <2>2, <2>3, <2>4 DEF ValidFix
<1>12. QED
  BY <1>10, <1>11

LEMMA CompatInductive ==
    ASSUME CompatInv, [Next]_vars
    PROVE  CompatInv'
<1>1. ASSUME NEW c \in pending, Resolve(c) PROVE CompatInv'
  <2>1. /\ fixes' = fixes /\ pending' = pending \ {c} /\ mapped' = mapped /\ phase' = phase
        /\ c \in DOMAIN fixes /\ c \notin kept
    BY <1>1 DEF Resolve, CompatInv
  <2>2. kept \subseteq kept' /\ kept' \subseteq kept \cup {c}
    BY <1>1 DEF Resolve
  <2>3. c \in kept' => \A w \in kept : ~Conflict(c, w) /\ ~Conflict(w, c)
    <3>1. c \in kept' => \A w \in kept : ~Conflict(c, w)
      BY <1>1, <2>1 DEF Resolve
    <3>2. \A w \in kept : w \in DOMAIN fixes
      BY DEF CompatInv
    <3>3. QED
      BY <2>1, <3>1, <3>2, ConflictSymmetric
  <2>4. \A f, g \in kept' : f # g => ~Conflict(f, g)
    BY <2>2, <2>3 DEF CompatInv
  <2>5. \A f, g \in kept' : f # g => ~Conflict(f, g)'
    BY <2>1, <2>4 DEF Conflict
  <2>6. mapped' \subseteq EditsOf(kept)'
    BY <2>1, <2>2 DEF CompatInv, EditsOf
  <2>7. QED
    BY <2>1, <2>2, <2>5, <2>6 DEF CompatInv
<1>2. CASE MapEdits
  <2>1. fixes' = fixes /\ pending' = pending /\ kept' = kept
    BY <1>2 DEF MapEdits
  <2>2. mapped' \subseteq EditsOf(kept)'
    <3>1. mapped' \subseteq EditsOf(kept)
      BY <1>2 DEF MapEdits
    <3>2. EditsOf(kept) \subseteq EditsOf(kept)'
      BY <2>1 DEF EditsOf
    <3>3. QED
      BY <3>1, <3>2
  <2>3. phase' # "overlapping"
    BY <1>2 DEF MapEdits
  <2>4. \A f, g \in kept' : f # g => ~Conflict(f, g)'
    BY <2>1 DEF CompatInv, Conflict
  <2>5. QED
    BY <2>1, <2>2, <2>3, <2>4 DEF CompatInv
<1>3. CASE CheckEdits
  <2>1. phase' # "overlapping"
    BY <1>3, NoCompetition DEF CheckEdits, Neighbours, CompatInv
  <2>2. QED
    BY <1>3, <2>1 DEF CheckEdits, CompatInv, EditsOf, Conflict
<1>4. ASSUME NEW id \in mapped, Rewrite(id) PROVE CompatInv'
  BY <1>4 DEF Rewrite, CompatInv, EditsOf, Conflict
<1>5. CASE Finish
  BY <1>5 DEF Finish, CompatInv, EditsOf, Conflict
<1>6. CASE UNCHANGED vars
  BY <1>6 DEF vars, CompatInv, EditsOf, Conflict
<1>7. QED
  BY <1>1, <1>2, <1>3, <1>4, <1>5, <1>6 DEF Next

LEMMA CompatInvariant == Spec => []CompatInv
<1>1. Init => CompatInv
  BY DEF Init, CompatInv
<1>2. QED
  BY <1>1, CompatInductive, PTL DEF Spec

(* Whatever the rules propose, apply_fixes never refuses a resolved plan     *)
(* because two of its edits compete: TextEdit::overlaps and the windows that *)
(* apply_fixes looks at judge the same.                                      *)
THEOREM ResolutionSuffices == Spec => []ResolvedPlansApply
<1>1. CompatInv => ResolvedPlansApply
  BY DEF CompatInv, ResolvedPlansApply
<1>2. QED
  BY <1>1, CompatInvariant, PTL

-----------------------------------------------------------------------------
(* Candidates are decided in order, and one that is neither kept nor waiting *)
(* lost to one that was decided before it.                                   *)
GreedyInv ==
    /\ \A f \in DOMAIN fixes \ pending, g \in pending : Before(f, g)
    /\ EarlierFixesWin

LEMMA GreedyInductive ==
    ASSUME CompatInv, GreedyInv, [Next]_vars
    PROVE  GreedyInv'
<1>1. ASSUME NEW c \in pending, Resolve(c) PROVE GreedyInv'
  <2>1. /\ fixes' = fixes /\ pending' = pending \ {c} /\ c \in DOMAIN fixes
        /\ \A other \in pending \ {c} : Before(c, other)
        /\ kept' = IF \E winner \in kept : Conflict(c, winner) THEN kept ELSE kept \cup {c}
    BY <1>1 DEF Resolve, CompatInv
  <2>2. \A f \in DOMAIN fixes \ pending', g \in pending' : Before(f, g)
    BY <2>1 DEF GreedyInv
  <2>3. \A f, g : Before(f, g)' <=> Before(f, g)
    BY <2>1 DEF Before
  <2>4. \A f, g : Conflict(f, g)' <=> Conflict(f, g)
    BY <2>1 DEF Conflict
  <2>5. ASSUME NEW f \in DOMAIN fixes \ (kept' \cup pending')
        PROVE  \E winner \in kept' : Before(winner, f) /\ Conflict(f, winner)
    <3>1. CASE f = c
      <4>1. PICK winner \in kept : Conflict(c, winner)
        BY <2>1, <2>5, <3>1
      <4>2. winner \in DOMAIN fixes \ pending /\ winner \in kept'
        BY <2>1 DEF CompatInv
      <4>3. QED
        BY <3>1, <4>1, <4>2 DEF GreedyInv
    <3>2. CASE f # c
      <4>1. f \in DOMAIN fixes \ (kept \cup pending)
        BY <2>1, <2>5, <3>2
      <4>2. QED
        BY <2>1, <4>1 DEF GreedyInv, EarlierFixesWin
    <3>3. QED
      BY <3>1, <3>2
  <2>6. QED
    BY <2>1, <2>2, <2>3, <2>4, <2>5 DEF GreedyInv, EarlierFixesWin
<1>2. CASE UNCHANGED <<fixes, pending, kept>>
  BY <1>2 DEF GreedyInv, EarlierFixesWin, Before, Conflict
<1>3. QED
  BY <1>1, <1>2 DEF Next, MapEdits, CheckEdits, Rewrite, Finish, vars

(* resolve_fix_conflicts is the greedy choice in its order: a fix is only    *)
(* ever dropped for one that is kept and comes first.                        *)
THEOREM GreedyChoice == Spec => []EarlierFixesWin
<1>1. Init => GreedyInv
  BY DEF Init, GreedyInv, EarlierFixesWin
<1>2. GreedyInv => EarlierFixesWin
  BY DEF GreedyInv
<1>3. CompatInv /\ GreedyInv /\ [Next]_vars => GreedyInv'
  BY GreedyInductive
<1>4. QED
  BY <1>1, <1>2, <1>3, CompatInvariant, PTL DEF Spec

-----------------------------------------------------------------------------
(* Texts, piece by piece. *)
Piece == [at : Nat, by : {"source", "text", "line", "newline"}]

Precedes(x, y) == x.at < y.at \/ (x.at = y.at /\ x.by # "source")

LEMMA PiecesConcat ==
    ASSUME NEW a \in Seq(Piece), NEW b \in Seq(Piece)
    PROVE  a \o b \in Seq(Piece) /\ Pieces(a \o b) = Pieces(a) \cup Pieces(b)
<1>1. /\ a \o b \in Seq(Piece) /\ Len(a \o b) = Len(a) + Len(b)
      /\ \A i \in 1 .. Len(a) + Len(b) :
            (a \o b)[i] = IF i <= Len(a) THEN a[i] ELSE b[i - Len(a)]
  OBVIOUS
<1>2. \A j \in 1 .. Len(b) : (a \o b)[j + Len(a)] = b[j] /\ j + Len(a) \in 1 .. Len(a) + Len(b)
  BY <1>1
<1>3. DOMAIN (a \o b) = 1 .. Len(a) + Len(b) /\ DOMAIN a = 1 .. Len(a) /\ DOMAIN b = 1 .. Len(b)
  BY <1>1
<1>4. Pieces(a) \subseteq Pieces(a \o b)
  BY <1>1, <1>3 DEF Pieces
<1>5. Pieces(b) \subseteq Pieces(a \o b)
  BY <1>2, <1>3 DEF Pieces
<1>6. ASSUME NEW i \in 1 .. Len(a) + Len(b) PROVE (a \o b)[i] \in Pieces(a) \cup Pieces(b)
  BY <1>1, <1>3 DEF Pieces
<1>7. Pieces(a \o b) \subseteq Pieces(a) \cup Pieces(b)
  BY <1>3, <1>6 DEF Pieces
<1>8. QED
  BY <1>1, <1>4, <1>5, <1>7

LEMMA OrderConcat ==
    ASSUME NEW a \in Seq(Piece), NEW b \in Seq(Piece), InOrder(a), InOrder(b),
           \A x \in Pieces(a), y \in Pieces(b) : Precedes(x, y)
    PROVE  InOrder(a \o b)
<1> SUFFICES ASSUME NEW i \in 1 .. Len(a) + Len(b), NEW j \in 1 .. Len(a) + Len(b), i < j
             PROVE  Precedes((a \o b)[i], (a \o b)[j])
  BY DEF InOrder, Precedes
<1>1. \A k \in 1 .. Len(a) + Len(b) :
         (a \o b)[k] = IF k <= Len(a) THEN a[k] ELSE b[k - Len(a)]
  OBVIOUS
<1>2. CASE j <= Len(a)
  BY <1>1, <1>2 DEF InOrder, Precedes
<1>3. CASE i > Len(a)
  BY <1>1, <1>3 DEF InOrder, Precedes
<1>4. CASE i <= Len(a) /\ j > Len(a)
  BY <1>1, <1>4 DEF Pieces
<1>5. QED
  BY <1>2, <1>3, <1>4

LEMMA SourcePieces ==
    ASSUME NEW from \in Nat, NEW to \in Nat, from <= to
    PROVE  /\ Source(from, to) \in Seq(Piece) /\ InOrder(Source(from, to))
           /\ Pieces(Source(from, to)) = {[at |-> i, by |-> "source"] : i \in from .. to - 1}
<1>1. to - from \in Nat
  OBVIOUS
<1>2. \A i \in 1 .. to - from : [at |-> from + i - 1, by |-> "source"] \in Piece
  BY DEF Piece
<1>3. Source(from, to) \in Seq(Piece) /\ DOMAIN Source(from, to) = 1 .. to - from
  BY <1>1, <1>2 DEF Source
<1>4. InOrder(Source(from, to))
  BY <1>3 DEF InOrder, Source
<1>5. \A i \in from .. to - 1 : i - from + 1 \in 1 .. to - from /\ from + (i - from + 1) - 1 = i
  OBVIOUS
<1>6. \A i \in 1 .. to - from : from + i - 1 \in from .. to - 1
  OBVIOUS
<1>7. Pieces(Source(from, to)) = {[at |-> from + i - 1, by |-> "source"] : i \in 1 .. to - from}
  BY <1>3 DEF Pieces, Source
<1>8. {[at |-> from + i - 1, by |-> "source"] : i \in 1 .. to - from}
        = {[at |-> i, by |-> "source"] : i \in from .. to - 1}
  BY <1>5, <1>6
<1>9. QED
  BY <1>3, <1>4, <1>7, <1>8

(* A text is within a position if a piece of source could follow there. *)
Within(x, c) == x.at < c \/ (x.at = c /\ x.by # "source")

(* The pieces of the rewrite of the source up to a position. *)
Passed(c, done) ==
    {[at |-> i, by |-> "source"] : i \in {i \in 0 .. c - 1 : ~Covered(i)}}
        \cup {[at |-> Edit(id).start, by |-> Edit(id).text] :
                id \in {id \in done : Edit(id).text # "none"}}

(* The loop of apply_fixes: the edits behind the cursor are in the content,  *)
(* the others start at or after it, and the content is exact so far.         *)
LoopInv ==
    /\ \A id \in EditsOf(kept) : InSource(id)
    /\ cursor \in 0 .. Length
    /\ \A id \in mapped : cursor <= Edit(id).start
    /\ \A id \in EditsOf(kept) \ mapped : Edit(id).end <= cursor
    /\ InOrder(content)
    /\ \A x \in Pieces(content) : Within(x, cursor) /\ x.by # "newline"
    /\ Pieces(content) = Passed(cursor, EditsOf(kept) \ mapped)

RewriteInv ==
    /\ phase \in {"resolve", "check"} => cursor = 0 /\ content = <<>>
    /\ phase = "check" => mapped = EditsOf(kept) /\ \A id \in mapped : InSource(id)
    /\ phase = "rewrite" => LoopInv
    /\ ExactRewrite

(* The edits of kept fixes. *)
LEMMA KeptEdits ==
    ASSUME CompatInv, NEW id \in EditsOf(kept)
    PROVE  Edit(id) \in EditType /\ Edit(id).start <= Edit(id).end
<1>1. PICK f \in kept : \E i \in DOMAIN fixes[f].edits : id = <<f, i>>
  BY DEF EditsOf
<1>2. PICK i \in DOMAIN fixes[f].edits : id = <<f, i>>
  BY <1>1
<1>3. f \in DOMAIN fixes /\ Edit(id) = fixes[f].edits[i]
  BY <1>2 DEF CompatInv, Edit
<1>4. QED
  BY <1>3, PlanEdits

LEMMA ReplacementPieces ==
    ASSUME CompatInv, NEW id \in EditsOf(kept)
    PROVE  /\ Replacement(id) \in Seq(Piece) /\ InOrder(Replacement(id))
           /\ Pieces(Replacement(id)) =
                IF Edit(id).text = "none" THEN {}
                ELSE {[at |-> Edit(id).start, by |-> Edit(id).text]}
<1>1. Edit(id) \in EditType
  BY KeptEdits
<1>2. CASE Edit(id).text = "none"
  <2>1. Replacement(id) = <<>>
    BY <1>2 DEF Replacement
  <2>2. QED
    BY <1>2, <2>1 DEF InOrder, Pieces
<1>3. CASE Edit(id).text # "none"
  <2> DEFINE x == [at |-> Edit(id).start, by |-> Edit(id).text]
  <2>1. x \in Piece
    BY <1>1, <1>3 DEF EditType, Replacements, Piece
  <2>2. Replacement(id) = <<x>>
    BY <1>3 DEF Replacement
  <2>3. Replacement(id) \in Seq(Piece) /\ DOMAIN Replacement(id) = {1} /\ Replacement(id)[1] = x
    BY <2>1, <2>2
  <2>4. QED
    BY <1>3, <2>3 DEF InOrder, Pieces
<1>4. QED
  BY <1>2, <1>3

(* The next edit of the loop leaves the others behind it. *)
LEMMA NextEdit ==
    ASSUME CompatInv, LoopInv, NEW id \in mapped,
           \A other \in mapped \ {id} : Ahead(id, other)
    PROVE  /\ Edit(id).end \in 0 .. Length /\ Edit(id).start \in Nat
           /\ cursor <= Edit(id).start /\ Edit(id).start <= Edit(id).end
           /\ \A other \in mapped \ {id} : Edit(id).end <= Edit(other).start
           /\ \A i \in cursor .. Edit(id).start - 1 : ~Covered(i)
           /\ \A i \in Edit(id).start .. Edit(id).end - 1 : Covered(i)
<1>1. id \in EditsOf(kept) /\ \A other \in mapped : other \in EditsOf(kept)
  BY DEF CompatInv
<1>2. /\ Edit(id).end \in 0 .. Length /\ Edit(id).start \in Nat /\ Edit(id).end \in Nat
      /\ cursor <= Edit(id).start /\ Edit(id).start <= Edit(id).end
  <2>1. Edit(id) \in EditType /\ Edit(id).start <= Edit(id).end
    BY <1>1, KeptEdits
  <2>2. Edit(id).end <= Length /\ cursor <= Edit(id).start
    BY <1>1 DEF LoopInv, InSource
  <2>3. QED
    BY <2>1, <2>2, FixAssumption DEF EditType
<1>3. ASSUME NEW other \in mapped \ {id}
      PROVE  /\ Edit(other).start \in Nat /\ Edit(id).end <= Edit(other).start
  <2>1. Edit(other) \in EditType /\ Edit(other).start <= Edit(other).end /\ Ahead(id, other)
    BY <1>1, KeptEdits
  <2>2. ~Ahead(other, id)
    BY <1>2, <2>1 DEF Ahead, EditType
  <2>3. ~Competes(id, other)
    BY <1>1, <2>2, NoCompetition
  <2>4. QED
    BY <1>2, <2>1, <2>3 DEF Competes, EditType
<1>4. ASSUME NEW i \in cursor .. Edit(id).start - 1, Covered(i) PROVE FALSE
  <2>1. PICK other \in EditsOf(kept) : Edit(other).start <= i /\ i < Edit(other).end
    BY <1>4 DEF Covered
  <2>2. Edit(other) \in EditType
    BY KeptEdits
  <2>3. CASE other \in mapped
    BY <1>2, <1>3, <2>1, <2>2, <2>3 DEF LoopInv, EditType
  <2>4. CASE other \notin mapped
    BY <1>2, <2>1, <2>2, <2>4 DEF LoopInv, EditType
  <2>5. QED
    BY <2>3, <2>4
<1>5. ASSUME NEW i \in Edit(id).start .. Edit(id).end - 1 PROVE Covered(i)
  BY <1>1, <1>2 DEF Covered
<1>6. QED
  BY <1>2, <1>3, <1>4, <1>5

(* One round of the loop. *)
LEMMA RewriteKeeps ==
    ASSUME CompatInv, TypeOK, LoopInv, NEW id \in mapped, Rewrite(id)
    PROVE  /\ content' \in Seq(Piece) /\ InOrder(content')
           /\ \A x \in Pieces(content') : Within(x, Edit(id).end) /\ x.by # "newline"
           /\ Pieces(content') = Passed(Edit(id).end, EditsOf(kept) \ (mapped \ {id}))
<1> DEFINE s == Edit(id).start
           e == Edit(id).end
           src == Source(cursor, s)
           new == Replacement(id)
           done == EditsOf(kept) \ mapped
<1>1. id \in EditsOf(kept)
  BY DEF CompatInv
<1>2. /\ e \in 0 .. Length /\ s \in Nat /\ cursor <= s /\ s <= e
      /\ \A i \in cursor .. s - 1 : ~Covered(i)
      /\ \A i \in s .. e - 1 : Covered(i)
  BY NextEdit DEF Rewrite
<1>3. cursor \in Nat /\ e \in Nat
  BY <1>2 DEF TypeOK
<1>4. content \in Seq(Piece)
  BY DEF TypeOK, Piece
<1>5. /\ src \in Seq(Piece) /\ InOrder(src)
      /\ Pieces(src) = {[at |-> i, by |-> "source"] : i \in cursor .. s - 1}
  BY <1>2, <1>3, SourcePieces
<1>6. /\ new \in Seq(Piece) /\ InOrder(new)
      /\ Pieces(new) = IF Edit(id).text = "none" THEN {}
                       ELSE {[at |-> s, by |-> Edit(id).text]}
  BY <1>1, ReplacementPieces
<1>7. content' = (content \o src) \o new
  BY DEF Rewrite
<1>8. content \o src \in Seq(Piece) /\ Pieces(content \o src) = Pieces(content) \cup Pieces(src)
  BY <1>4, <1>5, PiecesConcat
<1>9. content' \in Seq(Piece) /\ Pieces(content') = Pieces(content) \cup Pieces(src) \cup Pieces(new)
  BY <1>6, <1>7, <1>8, PiecesConcat
<1>10. \A x \in Pieces(content) : x \in Piece /\ Within(x, cursor) /\ x.by # "newline"
  BY <1>4 DEF Pieces, LoopInv
<1>11. InOrder(content \o src)
  <2>1. ASSUME NEW x \in Pieces(content), NEW y \in Pieces(src) PROVE Precedes(x, y)
    <3>1. PICK i \in cursor .. s - 1 : y = [at |-> i, by |-> "source"]
      BY <1>5
    <3>2. x.at \in Nat /\ Within(x, cursor)
      BY <1>10 DEF Piece
    <3>3. QED
      BY <1>2, <1>3, <3>1, <3>2 DEF Precedes, Within
  <2>2. InOrder(content)
    BY DEF LoopInv
  <2>3. QED
    BY <1>4, <1>5, <2>1, <2>2, OrderConcat
<1>12. \A x \in Pieces(content) \cup Pieces(src) : Within(x, s) /\ x.by # "newline"
  <2>1. ASSUME NEW x \in Pieces(content) PROVE Within(x, s) /\ x.by # "newline"
    BY <1>2, <1>3, <1>10 DEF Within, Piece
  <2>2. ASSUME NEW x \in Pieces(src) PROVE Within(x, s) /\ x.by # "newline"
    BY <1>2, <1>3, <1>5 DEF Within
  <2>3. QED
    BY <2>1, <2>2
<1>13. \A y \in Pieces(new) : y.at = s /\ y.by \notin {"source", "newline"}
  <2>1. Edit(id).text \in Replacements
    BY <1>1, KeptEdits DEF EditType
  <2>2. QED
    BY <1>6, <2>1 DEF Replacements
<1>14. InOrder(content')
  <2>1. \A x \in Pieces(content \o src), y \in Pieces(new) : Precedes(x, y)
    BY <1>8, <1>12, <1>13 DEF Precedes, Within
  <2>2. QED
    BY <1>6, <1>7, <1>8, <1>11, <2>1, OrderConcat
<1>15. \A x \in Pieces(content') : Within(x, e) /\ x.by # "newline"
  <2>1. \A x \in Pieces(content') : x \in Piece
    BY <1>9 DEF Pieces
  <2>2. ASSUME NEW x \in Pieces(content') PROVE Within(x, s) /\ x.by # "newline"
    BY <1>9, <1>12, <1>13 DEF Within
  <2>3. QED
    BY <1>2, <1>3, <2>1, <2>2 DEF Within, Piece
<1>16. EditsOf(kept) \ (mapped \ {id}) = done \cup {id}
  BY <1>1
<1>17. Passed(e, done \cup {id}) = Passed(cursor, done) \cup Pieces(src) \cup Pieces(new)
  <2>1. {i \in 0 .. e - 1 : ~Covered(i)} = {i \in 0 .. cursor - 1 : ~Covered(i)} \cup (cursor .. s - 1)
    BY <1>2, <1>3
  <2>2. {[at |-> i, by |-> "source"] : i \in {i \in 0 .. e - 1 : ~Covered(i)}}
          = {[at |-> i, by |-> "source"] : i \in {i \in 0 .. cursor - 1 : ~Covered(i)}} \cup Pieces(src)
    BY <1>5, <2>1
  <2>3. {[at |-> Edit(d).start, by |-> Edit(d).text] :
            d \in {d \in done \cup {id} : Edit(d).text # "none"}}
          = {[at |-> Edit(d).start, by |-> Edit(d).text] :
                d \in {d \in done : Edit(d).text # "none"}} \cup Pieces(new)
    BY <1>6
  <2>4. QED
    BY <2>2, <2>3 DEF Passed
<1>18. Pieces(content') = Passed(e, done \cup {id})
  BY <1>9, <1>17 DEF LoopInv
<1>19. QED
  BY <1>9, <1>14, <1>15, <1>16, <1>18

(* The rest of the source completes the rewrite. *)
LEMMA RestIsExact ==
    ASSUME CompatInv, TypeOK, LoopInv, mapped = {},
           NEW rest, rest = content \o Source(cursor, Length)
    PROVE  /\ rest \in Seq(Piece) /\ InOrder(rest) /\ Pieces(rest) = ExpectedPieces
           /\ \A x \in Pieces(rest) : Within(x, Length) /\ x.by # "newline"
<1> DEFINE src == Source(cursor, Length)
<1>1. cursor \in Nat /\ Length \in Nat /\ cursor <= Length
  BY FixAssumption DEF LoopInv
<1>2. content \in Seq(Piece)
  BY DEF TypeOK, Piece
<1>3. /\ src \in Seq(Piece) /\ InOrder(src)
      /\ Pieces(src) = {[at |-> i, by |-> "source"] : i \in cursor .. Length - 1}
  BY <1>1, SourcePieces
<1>4. rest \in Seq(Piece) /\ Pieces(rest) = Pieces(content) \cup Pieces(src)
  BY <1>2, <1>3, PiecesConcat
<1>5. \A x \in Pieces(content) : x \in Piece /\ Within(x, cursor) /\ x.by # "newline"
  BY <1>2 DEF Pieces, LoopInv
<1>6. InOrder(rest)
  <2>1. ASSUME NEW x \in Pieces(content), NEW y \in Pieces(src) PROVE Precedes(x, y)
    <3>1. PICK i \in cursor .. Length - 1 : y = [at |-> i, by |-> "source"]
      BY <1>3
    <3>2. x.at \in Nat /\ Within(x, cursor)
      BY <1>5 DEF Piece
    <3>3. QED
      BY <1>1, <3>1, <3>2 DEF Precedes, Within
  <2>2. InOrder(content)
    BY DEF LoopInv
  <2>3. QED
    BY <1>2, <1>3, <2>1, <2>2, OrderConcat
<1>7. \A x \in Pieces(rest) : Within(x, Length) /\ x.by # "newline"
  <2>1. ASSUME NEW x \in Pieces(content) PROVE Within(x, Length) /\ x.by # "newline"
    BY <1>1, <1>5 DEF Within, Piece
  <2>2. ASSUME NEW x \in Pieces(src) PROVE Within(x, Length) /\ x.by # "newline"
    BY <1>1, <1>3 DEF Within
  <2>3. QED
    BY <1>4, <2>1, <2>2
<1>8. ASSUME NEW i \in cursor .. Length - 1, Covered(i) PROVE FALSE
  <2>1. PICK id \in EditsOf(kept) : Edit(id).start <= i /\ i < Edit(id).end
    BY <1>8 DEF Covered
  <2>2. Edit(id) \in EditType /\ Edit(id).end <= cursor
    BY KeptEdits DEF LoopInv
  <2>3. QED
    BY <1>1, <2>1, <2>2 DEF EditType
<1>9. {i \in 0 .. Length - 1 : ~Covered(i)}
        = {i \in 0 .. cursor - 1 : ~Covered(i)} \cup (cursor .. Length - 1)
  BY <1>1, <1>8
<1>10. {[at |-> i, by |-> "source"] : i \in {i \in 0 .. Length - 1 : ~Covered(i)}}
         = {[at |-> i, by |-> "source"] : i \in {i \in 0 .. cursor - 1 : ~Covered(i)}} \cup Pieces(src)
  BY <1>3, <1>9
<1>11. Pieces(content) = Passed(cursor, EditsOf(kept))
  BY DEF LoopInv
<1>12. Pieces(rest) = ExpectedPieces
  BY <1>4, <1>10, <1>11 DEF Passed, ExpectedPieces
<1>13. QED
  BY <1>4, <1>6, <1>7, <1>12

(* The line terminator that is added, or not. *)
LEMMA FinishIsExact ==
    ASSUME CompatInv, TypeOK, LoopInv, Finish
    PROVE  /\ content' \in Seq(Piece) /\ InOrder(content')
           /\ Pieces(content') \ {[at |-> Length, by |-> "newline"]} = ExpectedPieces
           /\ OneNewline(content')
<1> DEFINE rest == content \o Source(cursor, Length)
           nl == [at |-> Length, by |-> "newline"]
<1>1. /\ rest \in Seq(Piece) /\ InOrder(rest) /\ Pieces(rest) = ExpectedPieces
      /\ \A x \in Pieces(rest) : Within(x, Length) /\ x.by # "newline"
  BY RestIsExact DEF Finish
<1>2. content' = IF rest = <<>> \/ EndsInNewline(rest) THEN rest ELSE Append(rest, nl)
  BY DEF Finish
<1>3. nl \in Piece /\ nl \notin Pieces(rest)
  BY <1>1, FixAssumption DEF Piece
<1> HIDE DEF rest, nl
<1>4. \A i \in 1 .. Len(rest) : rest[i].by # "newline" /\ rest[i] \in Pieces(rest)
  <2>1. DOMAIN rest = 1 .. Len(rest)
    BY <1>1
  <2>2. \A i \in 1 .. Len(rest) : rest[i] \in Pieces(rest)
    BY <2>1 DEF Pieces
  <2>3. QED
    BY <1>1, <2>2
<1>5. CASE rest = <<>> \/ EndsInNewline(rest)
  <2>1. content' = rest
    BY <1>2, <1>5
  <2>2. OneNewline(rest)
    BY <1>1, <1>4, <1>5 DEF OneNewline
  <2>3. QED
    BY <1>1, <1>3, <2>1, <2>2 DEF nl
<1>6. CASE rest # <<>> /\ ~EndsInNewline(rest)
  <2>1. content' = Append(rest, nl)
    BY <1>2, <1>6
  <2>2. /\ content' \in Seq(Piece) /\ Len(content') = Len(rest) + 1
        /\ content'[Len(rest) + 1] = nl
        /\ \A i \in 1 .. Len(rest) : content'[i] = rest[i]
    BY <1>1, <1>3, <2>1
  <2>3. Len(rest) \in Nat /\ DOMAIN content' = 1 .. Len(rest) + 1 /\ DOMAIN rest = 1 .. Len(rest)
    BY <1>1, <2>2
  <2>4. Pieces(content') = Pieces(rest) \cup {nl}
    BY <2>2, <2>3 DEF Pieces
  <2>5. InOrder(content')
    <3>1. SUFFICES ASSUME NEW i \in 1 .. Len(rest) + 1, NEW j \in 1 .. Len(rest) + 1, i < j
                   PROVE  \/ content'[i].at < content'[j].at
                          \/ content'[i].at = content'[j].at /\ content'[i].by # "source"
      BY <2>3 DEF InOrder
    <3>2. CASE j = Len(rest) + 1
      BY <1>1, <1>4, <2>2, <2>3, <3>1, <3>2 DEF Within, nl
    <3>3. CASE j # Len(rest) + 1
      BY <1>1, <2>2, <2>3, <3>1, <3>3 DEF InOrder
    <3>4. QED
      BY <3>2, <3>3
  <2>6. SubSeq(content', 1, Len(rest)) = rest
    BY <1>1, <2>2, <2>3
  <2>7. OneNewline(content')
    <3>1. content'[Len(content')].by = "newline"
      BY <2>2 DEF nl
    <3>2. \A i \in 1 .. Len(content') : content'[i].by = "newline" => i = Len(content')
      BY <1>4, <2>2, <2>3
    <3>3. ~EndsInNewline(SubSeq(content', 1, Len(content') - 1))
      <4>1. Len(content') - 1 = Len(rest)
        BY <2>2, <2>3
      <4>2. QED
        BY <1>6, <2>6, <4>1
    <3>4. QED
      BY <3>1, <3>2, <3>3 DEF OneNewline
  <2>8. QED
    BY <1>1, <1>3, <2>2, <2>4, <2>5, <2>7 DEF nl
<1>7. QED
  BY <1>5, <1>6

(* What a plan says does not depend on how far the loop is. *)
LEMMA PlanStays ==
    ASSUME UNCHANGED <<fixes, kept>>
    PROVE  /\ EditsOf(kept)' = EditsOf(kept)
           /\ \A id : Edit(id)' = Edit(id) /\ (InSource(id)' <=> InSource(id))
           /\ \A i : Covered(i)' <=> Covered(i)
           /\ ExpectedPieces' = ExpectedPieces
           /\ \A c, done : Passed(c, done)' = Passed(c, done)
<1>1. EditsOf(kept)' = EditsOf(kept)
  BY DEF EditsOf
<1>2. \A id : Edit(id)' = Edit(id)
  BY DEF Edit
<1>3. \A id : InSource(id)' <=> InSource(id)
  BY <1>2 DEF InSource
<1>4. \A i : Covered(i)' <=> Covered(i)
  BY <1>1, <1>2 DEF Covered
<1>5. ExpectedPieces' = ExpectedPieces
  BY <1>1, <1>2, <1>4 DEF ExpectedPieces
<1>6. \A c, done : Passed(c, done)' = Passed(c, done)
  BY <1>2, <1>4 DEF Passed
<1>7. QED
  BY <1>1, <1>2, <1>3, <1>4, <1>5, <1>6

LEMMA ExactInductive ==
    ASSUME CompatInv, RewriteInv, [Next]_vars
    PROVE  RewriteInv'
<1>1. TypeOK
  BY DEF RewriteInv, ExactRewrite
<1>2. ASSUME NEW c \in pending, Resolve(c) PROVE RewriteInv'
  <2>1. /\ phase = "resolve" /\ phase' = "resolve" /\ c \in DOMAIN fixes
        /\ UNCHANGED <<fixes, newlines, mapped, cursor, content>>
        /\ pending' = pending \ {c} /\ kept \subseteq kept' /\ kept' \subseteq kept \cup {c}
    BY <1>2 DEF Resolve, CompatInv
  <2>2. EditsOf(kept) \subseteq EditsOf(kept)'
    BY <2>1 DEF EditsOf
  <2>3. TypeOK'
    BY <1>1, <2>1, <2>2 DEF TypeOK
  <2>4. QED
    BY <2>1, <2>3 DEF RewriteInv, ExactRewrite
<1>3. CASE MapEdits
  <2>1. /\ phase = "resolve" /\ UNCHANGED <<fixes, newlines, pending, kept, cursor, content>>
        /\ mapped' = EditsOf(kept)
        /\ phase' = IF \A id \in EditsOf(kept) : InSource(id) THEN "check" ELSE "out of bounds"
    BY <1>3 DEF MapEdits
  <2>2. /\ EditsOf(kept)' = EditsOf(kept)
        /\ \A id : InSource(id)' <=> InSource(id)
    BY <2>1, PlanStays
  <2>3. TypeOK'
    BY <1>1, <2>1, <2>2 DEF TypeOK, Phases
  <2>4. QED
    BY <2>1, <2>2, <2>3 DEF RewriteInv, ExactRewrite
<1>4. CASE CheckEdits
  <2>1. /\ phase = "check" /\ phase' \in {"overlapping", "rewrite"}
        /\ UNCHANGED <<fixes, newlines, pending, kept, mapped, cursor, content>>
    BY <1>4 DEF CheckEdits
  <2>2. /\ EditsOf(kept)' = EditsOf(kept)
        /\ \A id : Edit(id)' = Edit(id) /\ (InSource(id)' <=> InSource(id))
        /\ \A c, done : Passed(c, done)' = Passed(c, done)
    BY <2>1, PlanStays
  <2>3. TypeOK'
    BY <1>1, <2>1, <2>2 DEF TypeOK, Phases
  <2>4. LoopInv
    <3>1. cursor = 0 /\ content = <<>> /\ mapped = EditsOf(kept) /\ \A id \in mapped : InSource(id)
      BY <2>1 DEF RewriteInv
    <3>2. \A id \in mapped : 0 <= Edit(id).start
      BY <3>1, KeptEdits DEF EditType
    <3>3. Pieces(content) = {} /\ InOrder(content)
      BY <3>1 DEF Pieces, InOrder
    <3>4. Passed(0, {}) = {}
      BY DEF Passed
    <3>5. EditsOf(kept) \ mapped = {}
      BY <3>1
    <3>6. cursor \in 0 .. Length
      BY <3>1, FixAssumption
    <3>7. Pieces(content) = Passed(cursor, EditsOf(kept) \ mapped)
      BY <3>1, <3>3, <3>4, <3>5
    <3>8. QED
      BY <3>1, <3>2, <3>3, <3>5, <3>6, <3>7 DEF LoopInv
  <2>5. LoopInv'
    BY <2>1, <2>2, <2>4 DEF LoopInv
  <2>6. QED
    BY <2>1, <2>3, <2>5 DEF RewriteInv, ExactRewrite
<1>5. ASSUME NEW id \in mapped, Rewrite(id) PROVE RewriteInv'
  <2>1. /\ phase = "rewrite" /\ phase' = "rewrite" /\ cursor' = Edit(id).end
        /\ UNCHANGED <<fixes, newlines, pending, kept>> /\ mapped' = mapped \ {id}
    BY <1>5 DEF Rewrite
  <2>2. LoopInv
    BY <2>1 DEF RewriteInv
  <2>3. /\ content' \in Seq(Piece) /\ InOrder(content')
        /\ \A x \in Pieces(content') : Within(x, Edit(id).end) /\ x.by # "newline"
        /\ Pieces(content') = Passed(Edit(id).end, EditsOf(kept) \ (mapped \ {id}))
    BY <1>1, <1>5, <2>2, RewriteKeeps
  <2>4. /\ EditsOf(kept)' = EditsOf(kept)
        /\ \A d : Edit(d)' = Edit(d) /\ (InSource(d)' <=> InSource(d))
        /\ \A c, done : Passed(c, done)' = Passed(c, done)
    BY <2>1, PlanStays
  <2>5. /\ Edit(id).end \in 0 .. Length /\ cursor <= Edit(id).start
        /\ Edit(id).start \in Nat /\ Edit(id).start <= Edit(id).end
        /\ \A other \in mapped \ {id} : Edit(id).end <= Edit(other).start
    BY <1>5, <2>2, NextEdit DEF Rewrite
  <2>6. TypeOK'
    BY <1>1, <2>1, <2>3, <2>4, <2>5 DEF TypeOK, Piece
  <2>7. \A d \in EditsOf(kept) \ mapped' : Edit(d).end <= Edit(id).end
    <3>1. \A d \in EditsOf(kept) \ mapped : Edit(d) \in EditType /\ Edit(d).end <= cursor
      BY <2>2, KeptEdits DEF LoopInv
    <3>2. cursor \in Nat
      BY <1>1 DEF TypeOK
    <3>3. QED
      BY <2>1, <2>5, <3>1, <3>2 DEF EditType
  <2>8. LoopInv'
    BY <2>1, <2>2, <2>3, <2>4, <2>5, <2>7 DEF LoopInv
  <2>9. QED
    BY <2>1, <2>6, <2>8 DEF RewriteInv, ExactRewrite
<1>6. CASE Finish
  <2>1. /\ phase = "rewrite" /\ phase' = "done"
        /\ UNCHANGED <<fixes, newlines, pending, kept, mapped, cursor>>
    BY <1>6 DEF Finish
  <2>2. LoopInv
    BY <2>1 DEF RewriteInv
  <2>3. /\ content' \in Seq(Piece) /\ InOrder(content')
        /\ Pieces(content') \ {[at |-> Length, by |-> "newline"]} = ExpectedPieces
        /\ OneNewline(content')
    BY <1>1, <1>6, <2>2, FinishIsExact
  <2>4. EditsOf(kept)' = EditsOf(kept) /\ ExpectedPieces' = ExpectedPieces
    BY <2>1, PlanStays
  <2>5. TypeOK'
    BY <1>1, <2>1, <2>3, <2>4 DEF TypeOK, Phases, Piece
  <2>6. OneNewline(content)'
    BY <2>1, <2>3 DEF OneNewline, EndsInNewline
  <2>7. QED
    BY <2>1, <2>3, <2>4, <2>5, <2>6 DEF RewriteInv, ExactRewrite
<1>7. CASE UNCHANGED vars
  <2>1. UNCHANGED <<fixes, newlines, pending, kept, phase, mapped, cursor, content>>
    BY <1>7 DEF vars
  <2>2. /\ EditsOf(kept)' = EditsOf(kept)
        /\ \A d : Edit(d)' = Edit(d) /\ (InSource(d)' <=> InSource(d))
        /\ ExpectedPieces' = ExpectedPieces
        /\ \A c, done : Passed(c, done)' = Passed(c, done)
    BY <2>1, PlanStays
  <2>3. TypeOK'
    BY <1>1, <2>1, <2>2 DEF TypeOK
  <2>4. LoopInv => LoopInv'
    BY <2>1, <2>2 DEF LoopInv
  <2>5. OneNewline(content) => OneNewline(content)'
    BY <2>1 DEF OneNewline, EndsInNewline
  <2>6. QED
    BY <2>1, <2>2, <2>3, <2>4, <2>5 DEF RewriteInv, ExactRewrite
<1>8. QED
  BY <1>2, <1>3, <1>4, <1>5, <1>6, <1>7 DEF Next

(* apply_fixes and mechanical_fixed are exact for any plan: the characters   *)
(* that no kept edit covers, each once, and the replacement of every edit of *)
(* every kept fix, in the order of their places, then one final line         *)
(* terminator; and every state is well typed.                                *)
THEOREM RewriteIsExact == Spec => []ExactRewrite
<1>1. Init => RewriteInv
  <2>1. SUFFICES ASSUME Init PROVE RewriteInv
    OBVIOUS
  <2>2. /\ \E n \in 0 .. MaxFixes : fixes \in [1 .. n -> PlannedFixes]
        /\ newlines \in SUBSET (0 .. Length - 1) /\ pending = DOMAIN fixes /\ kept = {}
        /\ phase = "resolve" /\ mapped = {} /\ cursor = 0 /\ content = <<>>
    BY <2>1 DEF Init
  <2>3. TypeOK
    <3>1. content \in Seq([at : Nat, by : {"source", "text", "line", "newline"}])
      BY <2>2
    <3>2. QED
      BY <2>2, <3>1 DEF TypeOK, Phases
  <2>4. QED
    BY <2>2, <2>3 DEF RewriteInv, ExactRewrite
<1>2. RewriteInv => ExactRewrite
  BY DEF RewriteInv
<1>3. CompatInv /\ RewriteInv /\ [Next]_vars => RewriteInv'
  BY ExactInductive
<1>4. QED
  BY <1>1, <1>2, <1>3, CompatInvariant, PTL DEF Spec
=============================================================================
