---------------------------- MODULE MCDashboard -----------------------------
(***************************************************************************)
(* Two situations for TLC, one of which is chosen at the beginning:        *)
(*   scope    two tokens and two projects, of which p1 has two branches    *)
(*            and two analyses on the first one; nobody decides;           *)
(*   review   one project with two analyses of different contexts on its   *)
(*            branch, which others review too.                             *)
(* All analyses but a4 have the same finding.                              *)
(***************************************************************************)
EXTENDS Dashboard, TLC

CONSTANTS t1, t2, t3, p1, p2, p3, b1, b2, a1, a2, a3, a4, a5, a6, f1

VARIABLE situation

MCVisible == (t1 :> {p1}) @@ (t2 :> {p1, p2}) @@ (t3 :> {p3})
MCProjectOf == (a1 :> p1) @@ (a2 :> p1) @@ (a3 :> p1) @@ (a4 :> p2) @@ (a5 :> p3) @@ (a6 :> p3)
MCBranchOf == (a1 :> b1) @@ (a2 :> b1) @@ (a3 :> b2) @@ (a4 :> b1) @@ (a5 :> b1) @@ (a6 :> b1)
MCIdentityOf == [a \in Analyses |-> IF a = a4 THEN None ELSE f1]
MCContextOf ==
    (a1 :> "context") @@ (a2 :> "context") @@ (a3 :> "other") @@ (a4 :> "none")
    @@ (a5 :> "context") @@ (a6 :> "other")

InSituation ==
    /\ situation = "scope" => page.token # t3 /\ \A k \in Keys : log[k] = <<>>
    /\ situation = "review" =>
          /\ page.token \notin {t1, t2}
          /\ \A k \in Keys : log[k] # <<>> => k[1] = p3

MCInit == Init /\ situation \in {"scope", "review"}

MCNext == Next /\ UNCHANGED situation /\ InSituation'

MCSpec == MCInit /\ [][MCNext]_<<vars, situation>>
=============================================================================
