---------------------------- MODULE CSharpHelper ----------------------------
(***************************************************************************)
(* invoke_helper and invoke_helper_response of hoonarqube-csharp: three    *)
(* threads serve the pipes of the compiler helper while the caller polls   *)
(* it every 5 ms against a deadline and a flag that the reading threads    *)
(* raise when an output grows past its bound.                              *)
(***************************************************************************)
EXTENDS HelperPipes

VARIABLES
    writer,     \* the thread that writes the request: "writing", "done", "failed"
    kept,       \* what each reading thread has kept of its output
    reading,    \* the outputs whose threads have not ended
    overflow,   \* the flag shared with the reading threads
    late,       \* the deadline has passed
    caller,     \* where the caller stands
    timedOut

caller_vars == <<writer, kept, reading, overflow, late, caller, timedOut>>
vars == <<pipes, caller_vars>>

(* "lost": the operating system did not say what became of the child. *)
Results == {"facts", "incomplete", "error", "lost"}

(* What the helper says on standard output, if it says it to the end. *)
Answers == {"complete", "incomplete", "invalid"}

Stations == {"polling", "reaping", "joining"} \cup Results

Init ==
    /\ PipesInit
    /\ writer = "writing"
    /\ kept = [o \in Outputs |-> 0]
    /\ reading = Outputs
    /\ overflow = FALSE
    /\ late = FALSE
    /\ caller = "polling"
    /\ timedOut = FALSE

-----------------------------------------------------------------------------
(* The thread of the request: write_all, then the pipe is dropped; writing   *)
(* to a child that is gone fails.                                            *)
WriteRequest ==
    /\ writer = "writing"
    /\ \/ /\ SendBlock
          /\ writer' = IF stdin'.closed THEN "done" ELSE "writing"
       \/ /\ child # "running" /\ ~RequestSent
          /\ writer' = "failed"
          /\ UNCHANGED pipes
    /\ UNCHANGED <<kept, reading, overflow, late, caller, timedOut>>

(* The child closed its standard input without reading it. *)
WriteFails ==
    /\ writer = "writing" /\ child = "running"
    /\ writer' = "failed"
    /\ UNCHANGED <<pipes, kept, reading, overflow, late, caller, timedOut>>

(* read_capped: a chunk that does not fit is dropped as a whole and raises   *)
(* the flag; reading goes on, so that the child is not held up.              *)
ReadCapped(o) ==
    /\ o \in reading
    /\ \/ \E n \in 1 .. Capacity :
             /\ Take(o, n)
             /\ IF kept[o] + n <= MaxOutput
                THEN kept' = [kept EXCEPT ![o] = @ + n] /\ UNCHANGED overflow
                ELSE overflow' = TRUE /\ UNCHANGED kept
             /\ UNCHANGED reading
       \/ /\ EndOfFile(o)
          /\ reading' = reading \ {o}
          /\ UNCHANGED <<pipes, kept, overflow>>
    /\ UNCHANGED <<writer, late, caller, timedOut>>

(* A failed or interrupted read ends the thread as the end of the output     *)
(* does: with what it has, without raising the flag.                         *)
ReadFails(o) ==
    /\ o \in reading
    /\ CloseOutput(o)
    /\ reading' = reading \ {o}
    /\ UNCHANGED <<writer, kept, overflow, late, caller, timedOut>>

-----------------------------------------------------------------------------
(* Time passes. *)
Deadline ==
    /\ ~late
    /\ late' = TRUE
    /\ UNCHANGED <<pipes, writer, kept, reading, overflow, caller, timedOut>>

(* A poll that finds the child ended. *)
PollEnded ==
    /\ caller = "polling"
    /\ child # "running"
    /\ caller' = "reaping"
    /\ UNCHANGED <<pipes, writer, kept, reading, overflow, late, timedOut>>

(* A poll that gives up.  The child may have ended since try_wait; the kill  *)
(* is then in vain, and the clock is read a second time.  Killing a running  *)
(* child is assumed to succeed: the code ignores the result and waits.       *)
PollGivesUp ==
    /\ caller = "polling"
    /\ overflow \/ late
    /\ timedOut' = late
    /\ child' = IF child = "running" THEN "killed" ELSE child
    /\ caller' = "reaping"
    /\ UNCHANGED <<stdin, output, writer, kept, reading, overflow, late>>

(* wait *)
Reap ==
    /\ caller = "reaping"
    /\ child # "running"
    /\ caller' = "joining"
    /\ UNCHANGED <<pipes, writer, kept, reading, overflow, late, timedOut>>

(* A failed try_wait or wait returns at once: the threads are not joined,    *)
(* and the child may be running.                                             *)
PollFails ==
    /\ caller = "polling"
    /\ caller' = "lost"
    /\ UNCHANGED <<pipes, writer, kept, reading, overflow, late, timedOut>>

ReapFails ==
    /\ caller = "reaping"
    /\ caller' = "lost"
    /\ UNCHANGED <<pipes, writer, kept, reading, overflow, late, timedOut>>

(* from_slice: an object that is cut short never parses (white space after   *)
(* it is not counted).  Of output with a gap nothing is known.               *)
IsJson(answer) ==
    /\ answer # "invalid"
    /\ kept["stdout"] = output["stdout"].written \/ overflow

(* Mutant: the flag is not read again after the joins. *)
ResultWithoutFlag(answer) ==
    IF timedOut \/ writer = "failed" THEN "error"
    ELSE IF child \notin {"success", "two"} \/ kept["stdout"] = 0 \/ ~IsJson(answer) THEN "error"
    ELSE IF child # "success" /\ answer # "incomplete" THEN "error"
    ELSE IF answer = "complete" THEN "facts" ELSE "incomplete"

(* The checks after the joins, in their order, then those of the response:   *)
(* an unsuccessful helper must not claim a complete context.                 *)
Result(answer) ==
    IF timedOut \/ overflow \/ writer = "failed" THEN "error"
    ELSE IF child \notin {"success", "two"} \/ kept["stdout"] = 0 \/ ~IsJson(answer) THEN "error"
    ELSE IF child # "success" /\ answer # "incomplete" THEN "error"
    ELSE IF answer = "complete" THEN "facts" ELSE "incomplete"

(* Mutant: the thread of the request is not joined. *)
ReturnWithoutWriter ==
    /\ caller = "joining"
    /\ reading = {}
    /\ \E answer \in Answers : caller' = Result(answer)
    /\ UNCHANGED <<pipes, writer, kept, reading, overflow, late, timedOut>>

(* The joins wait for the three threads. *)
Return ==
    /\ caller = "joining"
    /\ writer # "writing" /\ reading = {}
    /\ \E answer \in Answers : caller' = Result(answer)
    /\ UNCHANGED <<pipes, writer, kept, reading, overflow, late, timedOut>>

-----------------------------------------------------------------------------
Helper ==
    /\ \/ ChildReads
       \/ \E o \in reading : ChildWrites(o)
       \/ \E o \in Outputs \ reading : ChildWritesInVain(o)
       \/ \E how \in Endings \ {"killed"} : ChildEnds(how)
    /\ UNCHANGED caller_vars

Caller == PollEnded \/ PollGivesUp \/ Reap \/ Return

Failure == WriteFails \/ PollFails \/ ReapFails \/ \E o \in Outputs : ReadFails(o)

Finished == caller \in Results /\ UNCHANGED vars

(* The call ends with its return: what a child or a thread that was left     *)
(* behind goes on to do is not followed.                                     *)
InCall == caller \notin Results

Next ==
    \/ /\ InCall
       /\ \/ Helper \/ WriteRequest \/ Deadline \/ Caller
          \/ \E o \in Outputs : ReadCapped(o)
          \/ Failure
    \/ Finished

(* The threads and the clock go on; nothing is asked of the helper, and no   *)
(* call has to fail.                                                         *)
Fairness ==
    /\ WF_vars(InCall /\ WriteRequest) /\ WF_vars(InCall /\ Deadline) /\ WF_vars(Caller)
    /\ \A o \in Outputs : WF_vars(InCall /\ ReadCapped(o))

Spec == Init /\ [][Next]_vars /\ Fairness

-----------------------------------------------------------------------------
(* The threads keep no more of an output than its bound, of each on its own, *)
(* and no more than was written.                                             *)
TypeOK ==
    /\ PipesTypeOK
    /\ writer \in {"writing", "done", "failed"}
    /\ kept \in [Outputs -> 0 .. MaxOutput]
    /\ \A o \in Outputs : kept[o] <= output[o].read
    /\ reading \subseteq Outputs
    /\ {overflow, late, timedOut} \subseteq BOOLEAN
    /\ caller \in Stations

(* Facts are used only when the helper got the whole request, ended by       *)
(* itself with success, and all that it wrote to standard output was kept,   *)
(* whatever the order in which it ended, overflowed and ran out of time, and *)
(* whichever read failed.  (Of standard error a failed read may lose a part: *)
(* it only serves the message of an error.)                                  *)
OnlyWholeAnswersUsed ==
    caller = "facts" =>
        /\ child = "success"
        /\ RequestSent
        /\ kept["stdout"] = output["stdout"].written
        /\ ~timedOut

(* When the call returns, the child is gone and no thread is left behind,    *)
(* unless the operating system did not say what became of the child.         *)
NothingLeftRunning ==
    caller \in Results \ {"lost"} => child # "running" /\ writer # "writing" /\ reading = {}

(* "without introducing retries or an unbounded wait": the call returns even *)
(* if the helper stalls, floods its outputs or ignores its input.            *)
CallReturns == <>(caller \in Results)
=============================================================================
