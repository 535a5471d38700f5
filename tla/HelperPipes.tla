----------------------------- MODULE HelperPipes ----------------------------
(***************************************************************************)
(* A compiler helper as its caller sees it: a child process with a pipe    *)
(* for each of its three standard streams.  Lengths are in blocks.  The    *)
(* child reads and writes as it likes, may stall, and may exit at any time *)
(* with any status; no descendant of it keeps its pipes open.              *)
(***************************************************************************)
EXTENDS Naturals

CONSTANTS
    Capacity,      \* what a pipe holds
    RequestSize,   \* the request written to standard input
    MaxOutput,     \* max_output_bytes: what is kept of each output on its own
    MaxWritten     \* bound: what the child writes to each output

ASSUME HelperAssumption ==
    {Capacity, RequestSize, MaxOutput, MaxWritten} \subseteq Nat /\ Capacity > 0 /\ RequestSize > 0

VARIABLES
    child,     \* "running", or how it ended
    stdin,     \* [sent, read, closed]: by the caller, by the child; no more is sent
    output     \* of each output [written, read]: by the child, by the caller

pipes == <<child, stdin, output>>

Outputs == {"stdout", "stderr"}
Endings == {"success", "two", "failure", "killed"}

PipesInit ==
    /\ child = "running"
    /\ stdin = [sent |-> 0, read |-> 0, closed |-> FALSE]
    /\ output = [o \in Outputs |-> [written |-> 0, read |-> 0]]

Buffered(o) == output[o].written - output[o].read

(* The end of the child closes its ends of the pipes. *)
EndOfFile(o) == child # "running" /\ Buffered(o) = 0

ChildReads ==
    /\ child = "running"
    /\ stdin.read < stdin.sent
    /\ stdin' = [stdin EXCEPT !.read = @ + 1]
    /\ UNCHANGED <<child, output>>

(* A write waits while the pipe is full. *)
ChildWrites(o) ==
    /\ child = "running"
    /\ output[o].written < MaxWritten
    /\ Buffered(o) < Capacity
    /\ output' = [output EXCEPT ![o].written = @ + 1]
    /\ UNCHANGED <<child, stdin>>

(* When the caller has closed its end, what is in the pipe is thrown away,   *)
(* and what the child goes on writing is lost.                               *)
CloseOutput(o) ==
    /\ output' = [output EXCEPT ![o].read = output[o].written]
    /\ UNCHANGED <<child, stdin>>

ChildWritesInVain(o) ==
    /\ child = "running"
    /\ output[o].written < MaxWritten
    /\ output' = [output EXCEPT ![o].written = @ + 1, ![o].read = @ + 1]
    /\ UNCHANGED <<child, stdin>>

ChildEnds(how) ==
    /\ child = "running"
    /\ child' = how
    /\ UNCHANGED <<stdin, output>>

(* The caller writes a block of the request, or closes the pipe. *)
RequestSent == stdin.sent = RequestSize

SendBlock ==
    /\ child = "running"
    /\ ~RequestSent
    /\ stdin.sent - stdin.read < Capacity
    /\ stdin' = [stdin EXCEPT !.sent = @ + 1, !.closed = (stdin.sent + 1 = RequestSize)]
    /\ UNCHANGED <<child, output>>

(* The caller takes n blocks of an output. *)
Take(o, n) ==
    /\ n \in 1 .. Buffered(o)
    /\ output' = [output EXCEPT ![o].read = @ + n]
    /\ UNCHANGED <<child, stdin>>

PipesTypeOK ==
    /\ child \in Endings \cup {"running"}
    /\ stdin \in [sent : 0 .. RequestSize, read : 0 .. RequestSize, closed : BOOLEAN]
    /\ stdin.read <= stdin.sent /\ stdin.sent - stdin.read <= Capacity
    /\ output \in [Outputs -> [written : 0 .. MaxWritten, read : 0 .. MaxWritten]]
    /\ \A o \in Outputs : output[o].read <= output[o].written /\ Buffered(o) <= Capacity
=============================================================================
