----------------------------- MODULE MCFixEdits -----------------------------
(* The plans that are model checked.                                         *)
EXTENDS FixEdits

CONSTANTS MaxPosition, Rules

Ranges == {r \in [start : 0 .. MaxPosition, end : 0 .. MaxPosition] : r.start <= r.end}

(* Deletions, texts and lines all occur, one for each kind of range. *)
TextOf(r) ==
    IF r.start = r.end THEN "text" ELSE IF r.end - r.start = 1 THEN "line" ELSE "none"

Edits == {[start |-> r.start, end |-> r.end, text |-> TextOf(r)] : r \in Ranges}

FixesOfRules ==
    {fix \in [rule : Rules, edits : {<<e>> : e \in Edits} \cup (Edits \X Edits)] : ValidFix(fix)}

(* Plans of three fixes stay within the source. *)
InBounds == Len(fixes) = 3 => \A f \in 1 .. 3 : \A i \in DOMAIN fixes[f].edits : fixes[f].edits[i].end <= Length
=============================================================================
