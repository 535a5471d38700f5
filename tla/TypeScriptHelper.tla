-------------------------- MODULE TypeScriptHelper --------------------------
(***************************************************************************)
(* invoke_helper of hoonarqube-jsts: the caller itself writes the whole    *)
(* request, only then starts the threads that read the outputs, and waits  *)
(* for the helper without a deadline.  That this ends rests on the helper: *)
(* semantic-helper.cjs reads its input to the end before it writes.        *)
(***************************************************************************)
EXTENDS HelperPipes

VARIABLES
    kept,       \* what each reading thread has kept of its output
    cut,        \* the outputs whose thread reports an overflow or an error
    reading,    \* the outputs with a running thread
    caller      \* where the caller stands

vars == <<pipes, kept, cut, reading, caller>>

Results == {"output", "error"}
Stations == {"writing", "waiting", "joining"} \cup Results

Init ==
    /\ PipesInit
    /\ kept = [o \in Outputs |-> 0]
    /\ cut = {}
    /\ reading = {}
    /\ caller = "writing"

(* write_all, the pipe is dropped, and the two threads are started; writing  *)
(* to a child that is gone returns an error at once.                         *)
WriteRequest ==
    /\ caller = "writing"
    /\ \/ /\ SendBlock
          /\ caller' = IF stdin'.closed THEN "waiting" ELSE "writing"
          /\ reading' = IF stdin'.closed THEN Outputs ELSE {}
       \/ /\ child # "running"
          /\ caller' = "error"
          /\ UNCHANGED <<pipes, reading>>
    /\ UNCHANGED <<kept, cut>>

Least(a, b) == IF a < b THEN a ELSE b

(* The helper closed its standard input without reading it. *)
WriteFails ==
    /\ caller = "writing" /\ child = "running"
    /\ caller' = "error"
    /\ UNCHANGED <<pipes, kept, cut, reading>>

(* read_capped: what fits of a chunk is kept. *)
ReadCapped(o) ==
    /\ o \in reading
    /\ \/ \E n \in 1 .. Capacity :
             /\ Take(o, n)
             /\ kept' = [kept EXCEPT ![o] = Least(MaxOutput, @ + n)]
             /\ cut' = IF kept[o] + n > MaxOutput THEN cut \cup {o} ELSE cut
             /\ UNCHANGED reading
       \/ /\ EndOfFile(o)
          /\ reading' = reading \ {o}
          /\ UNCHANGED <<pipes, kept, cut>>
    /\ UNCHANGED caller

(* A failed read ends the thread with an error. *)
ReadFails(o) ==
    /\ o \in reading
    /\ CloseOutput(o)
    /\ cut' = cut \cup {o}
    /\ reading' = reading \ {o}
    /\ UNCHANGED <<kept, caller>>

Wait ==
    /\ caller = "waiting"
    /\ child # "running"
    /\ caller' = "joining"
    /\ UNCHANGED <<pipes, kept, cut, reading>>

(* A failed wait returns at once; the threads go on by themselves. *)
WaitFails ==
    /\ caller = "waiting"
    /\ caller' = "error"
    /\ UNCHANGED <<pipes, kept, cut, reading>>

Return ==
    /\ caller = "joining"
    /\ reading = {}
    /\ caller' = IF cut # {} \/ child # "success" THEN "error" ELSE "output"
    /\ UNCHANGED <<pipes, kept, cut, reading>>

(* A thread that has ended has closed its pipe. *)
WritesTo(o) ==
    IF caller \in {"waiting", "joining"} /\ o \notin reading
    THEN ChildWritesInVain(o)
    ELSE ChildWrites(o)

(* Mutant: the helper reports progress while it reads. *)
HelperWritesWhileReading(o) == WritesTo(o)

(* readRequest reads its input to the end, then main writes.  It ends when  *)
(* it is done or breaks down.                                                *)
HelperWrites(o) ==
    /\ stdin.closed /\ stdin.read = stdin.sent
    /\ WritesTo(o)

Helper ==
    /\ \/ ChildReads
       \/ \E o \in Outputs : HelperWrites(o)
       \/ \E how \in {"success", "failure"} : ChildEnds(how)
    /\ UNCHANGED <<kept, cut, reading, caller>>

(* A helper may be waiting to write to a full pipe; otherwise it goes on:    *)
(* it reads what it is sent, and ends once it has its request.               *)
HeldUp == \E o \in Outputs : Buffered(o) = Capacity

HelperReads ==
    ~HeldUp /\ ChildReads /\ UNCHANGED <<kept, cut, reading, caller>>

HelperEnds ==
    /\ ~HeldUp
    /\ stdin.closed /\ stdin.read = stdin.sent
    /\ \E how \in {"success", "failure"} : ChildEnds(how)
    /\ UNCHANGED <<kept, cut, reading, caller>>

Failure == WriteFails \/ WaitFails \/ \E o \in Outputs : ReadFails(o)

Finished == caller \in Results /\ UNCHANGED vars

(* The call ends with its return. *)
InCall == caller \notin Results

Next ==
    \/ /\ InCall
       /\ \/ Helper \/ WriteRequest \/ Wait \/ Return
          \/ \E o \in Outputs : ReadCapped(o)
          \/ Failure
    \/ Finished

(* The threads go on, and the helper unless it is held up; no call has to    *)
(* fail.                                                                     *)
Fairness ==
    /\ WF_vars(WriteRequest) /\ WF_vars(Wait) /\ WF_vars(Return)
    /\ \A o \in Outputs : WF_vars(InCall /\ ReadCapped(o))
    /\ WF_vars(InCall /\ HelperReads) /\ WF_vars(InCall /\ HelperEnds)

Spec == Init /\ [][Next]_vars /\ Fairness

-----------------------------------------------------------------------------
(* The threads keep no more than the bound. *)
TypeOK ==
    /\ PipesTypeOK
    /\ kept \in [Outputs -> 0 .. MaxOutput]
    /\ cut \subseteq Outputs /\ reading \subseteq Outputs
    /\ caller \in Stations

(* Output is used only when the helper succeeded and every block it wrote    *)
(* was kept: an output of exactly the bound is whole, one whose reading      *)
(* failed is not.                                                            *)
OnlyWholeOutputUsed ==
    caller = "output" =>
        /\ child = "success" /\ RequestSent
        /\ \A o \in Outputs : kept[o] = output[o].written

(* The caller and the helper never wait for each other: the call returns,    *)
(* although nobody reads the outputs while the request is written.           *)
CallReturns == <>(caller \in Results)
=============================================================================
