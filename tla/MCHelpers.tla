----------------------------- MODULE MCHelpers ------------------------------
(***************************************************************************)
(* A call of one of the two compiler helpers for TLC; which one is chosen  *)
(* at the beginning.  What only the other caller has keeps its value.      *)
(***************************************************************************)
EXTENDS HelperPipes

VARIABLES
    language,
    kept, reading, caller,                    \* of both callers
    writer, overflow, late, timedOut,         \* of the caller of the C# helper
    cut                                       \* of the caller of the other one

csharp_vars == <<writer, overflow, late, timedOut>>

CSharp == INSTANCE CSharpHelper
TypeScript == INSTANCE TypeScriptHelper

CSharpCall == language = "csharp"
TypeScriptCall == language = "typescript"

Init ==
    \/ CSharpCall /\ CSharp!Init /\ cut = {}
    \/ /\ TypeScriptCall /\ TypeScript!Init
       /\ writer = "none"
       /\ overflow = FALSE /\ late = FALSE /\ timedOut = FALSE

Next ==
    \/ CSharpCall /\ CSharp!Next /\ UNCHANGED <<language, cut>>
    \/ TypeScriptCall /\ TypeScript!Next /\ UNCHANGED <<language, csharp_vars>>

vars == <<pipes, language, kept, reading, caller, csharp_vars, cut>>

Spec ==
    /\ Init /\ [][Next]_vars
    /\ CSharpCall => CSharp!Fairness
    /\ TypeScriptCall => TypeScript!Fairness

-----------------------------------------------------------------------------
(* Neither caller keeps more of an output than max_output_bytes, and when    *)
(* the call of the C# helper returns, the child is gone and no thread is     *)
(* left behind, unless wait or try_wait failed.  The bound is that of one    *)
(* output, as in read_capped: "Maximum combined helper stdout/stderr         *)
(* retained in memory" (semantic.rs:106) would be half of what may be kept.  *)
ResourcesBounded ==
    /\ CSharpCall => CSharp!TypeOK /\ CSharp!NothingLeftRunning
    /\ TypeScriptCall => TypeScript!TypeOK

(* Facts of the C# helper are used only when it got the whole request, ended *)
(* by itself with success, and all of its standard output was kept, whatever *)
(* the order in which it ended, overflowed and ran out of time, and          *)
(* whichever read failed; output of the TypeScript helper only when it       *)
(* succeeded and every block it wrote was kept.                              *)
OnlyWholeAnswersUsed ==
    /\ CSharpCall => CSharp!OnlyWholeAnswersUsed
    /\ TypeScriptCall => TypeScript!OnlyWholeOutputUsed

(* The call of the C# helper returns, whatever the helper does; the other    *)
(* caller and its helper never wait for each other.                          *)
CallsReturn ==
    /\ CSharpCall => CSharp!CallReturns
    /\ TypeScriptCall => TypeScript!CallReturns
=============================================================================
