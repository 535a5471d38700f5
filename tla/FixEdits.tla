------------------------------ MODULE FixEdits ------------------------------
(***************************************************************************)
(* The rewrite that hoonarqube fix projects for one file: which of the     *)
(* planned fixes are kept (resolve_fix_conflicts) and how their edits are  *)
(* put together (apply_fixes, mechanical_fixed).                           *)
(*                                                                         *)
(* Positions are offsets: line and column of an IR position resolve to one *)
(* offset, in the same order, or miss the source.  A text is a sequence of *)
(* pieces, each a character of the source or the replacement of an edit.   *)
(***************************************************************************)
EXTENDS Integers, Sequences

CONSTANTS
    Length,        \* characters of the source
    PlannedFixes,  \* the fixes that the rules of a catalog may attach
    MaxFixes       \* bound: fixes planned for the file

(* Mutant: insertions never overlap anything. *)
RangesMeet(e, f) ==
    (IF e.start > f.start THEN e.start ELSE f.start) < (IF e.end < f.end THEN e.end ELSE f.end)

(* Whether two edits rewrite overlapping regions (TextEdit::overlaps). *)
Overlaps(e, f) ==
    \/ (IF e.start > f.start THEN e.start ELSE f.start) < (IF e.end < f.end THEN e.end ELSE f.end)
    \/ e.start = e.end /\ e.start >= f.start /\ e.start < f.end
    \/ f.start = f.end /\ f.start >= e.start /\ f.start < e.end
    \/ e.start = e.end /\ f.start = f.end /\ e.start = f.start

(* Fix::new: at least one edit, none inverted, sorted, no two overlapping. *)
ValidFix(fix) ==
    /\ fix.edits # <<>>
    /\ \A i \in DOMAIN fix.edits : fix.edits[i].start <= fix.edits[i].end
    /\ \A i, j \in DOMAIN fix.edits : i < j =>
          /\ fix.edits[i].start <= fix.edits[j].start
          /\ ~Overlaps(fix.edits[i], fix.edits[j])

(* A deletion, a text, a text that ends in a line terminator. *)
Replacements == {"none", "text", "line"}

ASSUME FixAssumption ==
    /\ Length \in Nat /\ MaxFixes \in Nat
    /\ \A fix \in PlannedFixes :
          /\ fix.rule \in Nat
          /\ fix.edits \in Seq([start : Nat, end : Nat, text : Replacements])
          /\ ValidFix(fix)

VARIABLES
    fixes,      \* the plan: a sequence of fixes
    newlines,   \* the characters of the source that are line terminators
    pending,    \* the candidates still to be decided, in the order of Before
    kept,
    phase,
    mapped,     \* the edits that are not yet in the content: <<fix, edit>>
    cursor, content

vars == <<fixes, newlines, pending, kept, phase, mapped, cursor, content>>

-----------------------------------------------------------------------------
Edit(id) == fixes[id[1]].edits[id[2]]
EditsOf(S) == UNION {{<<f, i>> : i \in DOMAIN fixes[f].edits} : f \in S}

(* The order of the candidates: first edit, then rule, then (the sort is     *)
(* stable) place in the plan.                                                *)
Before(a, b) ==
    LET x == fixes[a].edits[1].start
        y == fixes[b].edits[1].start
    IN  \/ x < y
        \/ x = y /\ fixes[a].rule < fixes[b].rule
        \/ x = y /\ fixes[a].rule = fixes[b].rule /\ a < b

(* The order in which apply_fixes looks at edits. *)
Ahead(d, e) ==
    \/ Edit(d).start < Edit(e).start
    \/ Edit(d).start = Edit(e).start /\ Edit(d).end < Edit(e).end

Conflict(a, b) ==
    \E i \in DOMAIN fixes[a].edits, j \in DOMAIN fixes[b].edits :
        Overlaps(fixes[b].edits[j], fixes[a].edits[i])

Source(from, to) == [i \in 1 .. to - from |-> [at |-> from + i - 1, by |-> "source"]]

Init ==
    /\ \E n \in 0 .. MaxFixes : fixes \in [1 .. n -> PlannedFixes]
    /\ newlines \in SUBSET (0 .. Length - 1)
    /\ pending = DOMAIN fixes
    /\ kept = {}
    /\ phase = "resolve"
    /\ mapped = {}
    /\ cursor = 0
    /\ content = <<>>

(* Mutant: the last candidate is decided first. *)
ResolveLast(c) ==
    /\ phase = "resolve" /\ c \in pending
    /\ \A other \in pending \ {c} : Before(other, c)
    /\ pending' = pending \ {c}
    /\ kept' = IF \E winner \in kept : Conflict(c, winner) THEN kept ELSE kept \cup {c}
    /\ UNCHANGED <<fixes, newlines, phase, mapped, cursor, content>>

(* resolve_fix_conflicts: the next candidate is kept whole or dropped whole. *)
Resolve(c) ==
    /\ phase = "resolve" /\ c \in pending
    /\ \A other \in pending \ {c} : Before(c, other)
    /\ pending' = pending \ {c}
    /\ kept' = IF \E winner \in kept : Conflict(c, winner) THEN kept ELSE kept \cup {c}
    /\ UNCHANGED <<fixes, newlines, phase, mapped, cursor, content>>

(* apply_fixes: every edit is resolved against the source. *)
InSource(id) == Edit(id).start <= Length /\ Edit(id).end <= Length

MapEdits ==
    /\ phase = "resolve" /\ pending = {}
    /\ mapped' = EditsOf(kept)
    /\ phase' = IF \A id \in EditsOf(kept) : InSource(id) THEN "check" ELSE "out of bounds"
    /\ UNCHANGED <<fixes, newlines, pending, kept, cursor, content>>

(* The windows of two neighbours in the sorted edits. *)
Neighbours(d, e) ==
    /\ d # e /\ ~Ahead(e, d)
    /\ \A x \in mapped : ~(Ahead(d, x) /\ Ahead(x, e))

Competes(d, e) ==
    \/ Edit(e).start < Edit(d).end
    \/ Edit(d).start = Edit(d).end /\ Edit(d).start = Edit(e).start

CheckEdits ==
    /\ phase = "check"
    /\ phase' = IF \E d, e \in mapped : Neighbours(d, e) /\ Competes(d, e)
                THEN "overlapping" ELSE "rewrite"
    /\ UNCHANGED <<fixes, newlines, pending, kept, mapped, cursor, content>>

Replacement(id) ==
    IF Edit(id).text = "none" THEN <<>> ELSE <<[at |-> Edit(id).start, by |-> Edit(id).text]>>

(* Mutant: the replaced range is copied as well. *)
RewriteKeepsRange(id) ==
    /\ phase = "rewrite" /\ id \in mapped
    /\ \A other \in mapped \ {id} : Ahead(id, other)
    /\ content' = content \o Source(cursor, Edit(id).start) \o Replacement(id)
    /\ cursor' = Edit(id).start
    /\ mapped' = mapped \ {id}
    /\ UNCHANGED <<fixes, newlines, pending, kept, phase>>

(* The forward pass: the source up to the edit, then its replacement. *)
Rewrite(id) ==
    /\ phase = "rewrite" /\ id \in mapped
    /\ \A other \in mapped \ {id} : Ahead(id, other)
    /\ content' = content \o Source(cursor, Edit(id).start) \o Replacement(id)
    /\ cursor' = Edit(id).end
    /\ mapped' = mapped \ {id}
    /\ UNCHANGED <<fixes, newlines, pending, kept, phase>>

(* The rest of the source, then the missing line terminator. *)
EndsInNewline(pieces) ==
    LET last == pieces[Len(pieces)]
    IN  last.by = "line" \/ (last.by = "source" /\ last.at \in newlines)

Finish ==
    /\ phase = "rewrite" /\ mapped = {}
    /\ LET rest == content \o Source(cursor, Length)
       IN  content' = IF rest = <<>> \/ EndsInNewline(rest) THEN rest
                      ELSE Append(rest, [at |-> Length, by |-> "newline"])
    /\ phase' = "done"
    /\ UNCHANGED <<fixes, newlines, pending, kept, mapped, cursor>>

Next ==
    \/ \E c \in pending : Resolve(c)
    \/ MapEdits \/ CheckEdits
    \/ \E id \in mapped : Rewrite(id)
    \/ Finish

Spec == Init /\ [][Next]_vars
-----------------------------------------------------------------------------
Phases == {"resolve", "out of bounds", "check", "overlapping", "rewrite", "done"}

TypeOK ==
    /\ \E n \in 0 .. MaxFixes : fixes \in [1 .. n -> PlannedFixes]
    /\ newlines \in SUBSET (0 .. Length - 1)
    /\ pending \in SUBSET DOMAIN fixes
    /\ kept \in SUBSET (DOMAIN fixes \ pending)
    /\ phase \in Phases
    /\ mapped \in SUBSET EditsOf(kept)
    /\ cursor \in Nat
    /\ content \in Seq([at : Nat, by : {"source", "text", "line", "newline"}])

(* Conflicts are resolved the way apply_fixes judges them: a plan is never   *)
(* refused because two kept edits compete.                                   *)
ResolvedPlansApply == phase # "overlapping"

(* Earlier fixes win: a fix is dropped only for a kept one that comes first, *)
(* so the outcome is the one greedy choice in the order of the candidates.   *)
EarlierFixesWin ==
    \A f \in DOMAIN fixes \ (kept \cup pending) :
        \E winner \in kept : Before(winner, f) /\ Conflict(f, winner)

Covered(i) == \E id \in EditsOf(kept) : Edit(id).start <= i /\ i < Edit(id).end

ExpectedPieces ==
    {[at |-> i, by |-> "source"] : i \in {i \in 0 .. Length - 1 : ~Covered(i)}}
        \cup {[at |-> Edit(id).start, by |-> Edit(id).text] :
                id \in {id \in EditsOf(kept) : Edit(id).text # "none"}}

Pieces(text) == {text[i] : i \in DOMAIN text}

InOrder(text) ==
    \A i, j \in DOMAIN text : i < j =>
        \/ text[i].at < text[j].at
        \/ text[i].at = text[j].at /\ text[i].by # "source"

(* The text is empty or ends in a line terminator, and at most one was added. *)
OneNewline(text) ==
    text # <<>> =>
        /\ text[Len(text)].by = "newline" \/ EndsInNewline(text)
        /\ \A i \in 1 .. Len(text) : text[i].by = "newline" =>
              i = Len(text) /\ (i = 1 \/ ~EndsInNewline(SubSeq(text, 1, i - 1)))

(* The rewrite is exact: the characters that no kept edit covers, each once, *)
(* and the replacement of every edit of every kept fix, in the order of      *)
(* their places; nothing of a dropped fix, and one final line terminator,    *)
(* judged on what is left.                                                   *)
ExactRewrite ==
    /\ TypeOK
    /\ phase = "done" =>
          /\ InOrder(content)
          /\ Pieces(content) \ {[at |-> Length, by |-> "newline"]} = ExpectedPieces
          /\ OneNewline(content)
=============================================================================
