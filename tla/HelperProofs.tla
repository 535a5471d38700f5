---------------------------- MODULE HelperProofs ----------------------------
(***************************************************************************)
(* The calls of both compiler helpers, for every capacity of the pipes,    *)
(* size of the request and bound on the outputs: what is kept is bounded,  *)
(* nothing is left running, and only whole answers are used.               *)
(***************************************************************************)
EXTENDS MCHelpers, TLAPS

(* The types of the two callers. *)
CSharpTypes ==
    /\ PipesTypeOK
    /\ writer \in {"writing", "done", "failed"}
    /\ kept \in [Outputs -> 0 .. MaxOutput]
    /\ \A o \in Outputs : kept[o] <= output[o].read
    /\ reading \subseteq Outputs
    /\ overflow \in BOOLEAN /\ late \in BOOLEAN /\ timedOut \in BOOLEAN
    /\ caller \in {"polling", "reaping", "joining", "facts", "incomplete", "error", "lost"}

TypeScriptTypes ==
    /\ PipesTypeOK
    /\ kept \in [Outputs -> 0 .. MaxOutput]
    /\ cut \subseteq Outputs /\ reading \subseteq Outputs
    /\ caller \in {"writing", "waiting", "joining", "output", "error"}

(* A call of the C# helper.  The caller is past its wait only when the child *)
(* is gone, and past the joins only when the threads have ended, unless it   *)
(* lost the child; nothing is written or read from then on, so that an       *)
(* output that was whole when the result was found still is.                 *)
CSharpInv ==
    /\ CSharpTypes
    /\ writer = "done" => RequestSent
    /\ caller \in {"joining", "facts", "incomplete", "error"} => child # "running"
    /\ caller \in {"facts", "incomplete", "error"} => writer # "writing" /\ reading = {}
    /\ caller = "facts" =>
          /\ child = "success" /\ writer = "done" /\ ~timedOut
          /\ kept["stdout"] = output["stdout"].written

(* A call of the TypeScript helper, whose threads start with the wait: one   *)
(* that ended without a complaint has read all there will ever be.           *)
TypeScriptInv ==
    /\ TypeScriptTypes
    /\ caller \in {"waiting", "joining", "output"} =>
          RequestSent /\ \A o \in Outputs \ (reading \cup cut) : EndOfFile(o)
    /\ \A o \in Outputs \ cut : kept[o] = output[o].read
    /\ caller = "output" => child = "success" /\ reading = {} /\ cut = {}

CallInv ==
    /\ language \in {"csharp", "typescript"}
    /\ CSharpCall => CSharpInv
    /\ TypeScriptCall => TypeScriptInv

-----------------------------------------------------------------------------
(* Both callers have the same pipes. *)
LEMMA CSharpPipes ==
    /\ CSharp!PipesInit <=> PipesInit
    /\ CSharp!PipesTypeOK <=> PipesTypeOK
    /\ CSharp!RequestSent <=> RequestSent
    /\ CSharp!SendBlock <=> SendBlock
    /\ CSharp!ChildReads <=> ChildReads
    /\ \A o : CSharp!EndOfFile(o) <=> EndOfFile(o)
    /\ \A o : CSharp!ChildWrites(o) <=> ChildWrites(o)
    /\ \A how : CSharp!ChildEnds(how) <=> ChildEnds(how)
    /\ \A o, n : CSharp!Take(o, n) <=> Take(o, n)
    /\ \A o : CSharp!CloseOutput(o) <=> CloseOutput(o)
    /\ \A o : CSharp!ChildWritesInVain(o) <=> ChildWritesInVain(o)
    /\ CSharp!Outputs = Outputs /\ CSharp!Endings = Endings /\ CSharp!pipes = pipes
<1>1. /\ CSharp!Outputs = Outputs /\ CSharp!Endings = Endings /\ CSharp!pipes = pipes
      /\ CSharp!RequestSent <=> RequestSent
      /\ \A o : CSharp!Buffered(o) = Buffered(o)
  BY DEF CSharp!Outputs, Outputs, CSharp!Endings, Endings, CSharp!pipes, pipes,
         CSharp!RequestSent, RequestSent, CSharp!Buffered, Buffered
<1>2. (CSharp!PipesInit <=> PipesInit) /\ (CSharp!PipesTypeOK <=> PipesTypeOK)
  BY <1>1 DEF CSharp!PipesInit, PipesInit, CSharp!PipesTypeOK, PipesTypeOK
<1>3. (CSharp!SendBlock <=> SendBlock) /\ (CSharp!ChildReads <=> ChildReads)
  BY <1>1 DEF CSharp!SendBlock, SendBlock, CSharp!ChildReads, ChildReads
<1>4. /\ \A o : CSharp!EndOfFile(o) <=> EndOfFile(o)
      /\ \A o : CSharp!ChildWrites(o) <=> ChildWrites(o)
      /\ \A how : CSharp!ChildEnds(how) <=> ChildEnds(how)
      /\ \A o, n : CSharp!Take(o, n) <=> Take(o, n)
      /\ \A o : CSharp!CloseOutput(o) <=> CloseOutput(o)
      /\ \A o : CSharp!ChildWritesInVain(o) <=> ChildWritesInVain(o)
  BY <1>1 DEF CSharp!EndOfFile, EndOfFile, CSharp!ChildWrites, ChildWrites,
              CSharp!ChildEnds, ChildEnds, CSharp!Take, Take,
              CSharp!CloseOutput, CloseOutput, CSharp!ChildWritesInVain, ChildWritesInVain
<1>5. QED
  BY <1>1, <1>2, <1>3, <1>4

LEMMA TypeScriptPipes ==
    /\ TypeScript!PipesInit <=> PipesInit
    /\ TypeScript!PipesTypeOK <=> PipesTypeOK
    /\ TypeScript!RequestSent <=> RequestSent
    /\ TypeScript!SendBlock <=> SendBlock
    /\ TypeScript!ChildReads <=> ChildReads
    /\ \A o : TypeScript!EndOfFile(o) <=> EndOfFile(o)
    /\ \A o : TypeScript!ChildWrites(o) <=> ChildWrites(o)
    /\ \A how : TypeScript!ChildEnds(how) <=> ChildEnds(how)
    /\ \A o, n : TypeScript!Take(o, n) <=> Take(o, n)
    /\ \A o : TypeScript!CloseOutput(o) <=> CloseOutput(o)
    /\ \A o : TypeScript!ChildWritesInVain(o) <=> ChildWritesInVain(o)
    /\ TypeScript!Outputs = Outputs /\ TypeScript!pipes = pipes
<1>1. /\ TypeScript!Outputs = Outputs /\ TypeScript!Endings = Endings /\ TypeScript!pipes = pipes
      /\ TypeScript!RequestSent <=> RequestSent
      /\ \A o : TypeScript!Buffered(o) = Buffered(o)
  BY DEF TypeScript!Outputs, Outputs, TypeScript!Endings, Endings, TypeScript!pipes, pipes,
         TypeScript!RequestSent, RequestSent, TypeScript!Buffered, Buffered
<1>2. (TypeScript!PipesInit <=> PipesInit) /\ (TypeScript!PipesTypeOK <=> PipesTypeOK)
  BY <1>1 DEF TypeScript!PipesInit, PipesInit, TypeScript!PipesTypeOK, PipesTypeOK
<1>3. (TypeScript!SendBlock <=> SendBlock) /\ (TypeScript!ChildReads <=> ChildReads)
  BY <1>1 DEF TypeScript!SendBlock, SendBlock, TypeScript!ChildReads, ChildReads
<1>4. /\ \A o : TypeScript!EndOfFile(o) <=> EndOfFile(o)
      /\ \A o : TypeScript!ChildWrites(o) <=> ChildWrites(o)
      /\ \A how : TypeScript!ChildEnds(how) <=> ChildEnds(how)
      /\ \A o, n : TypeScript!Take(o, n) <=> Take(o, n)
      /\ \A o : TypeScript!CloseOutput(o) <=> CloseOutput(o)
      /\ \A o : TypeScript!ChildWritesInVain(o) <=> ChildWritesInVain(o)
  BY <1>1 DEF TypeScript!EndOfFile, EndOfFile, TypeScript!ChildWrites, ChildWrites,
              TypeScript!ChildEnds, ChildEnds, TypeScript!Take, Take,
              TypeScript!CloseOutput, CloseOutput, TypeScript!ChildWritesInVain, ChildWritesInVain
<1>5. QED
  BY <1>1, <1>2, <1>3, <1>4

-----------------------------------------------------------------------------
(* The pipes lose and invent nothing. *)
LEMMA SentBlock ==
    ASSUME PipesTypeOK, SendBlock
    PROVE  /\ PipesTypeOK' /\ ~RequestSent /\ (stdin'.closed <=> RequestSent')
           /\ child = "running" /\ child' = child /\ output' = output
<1>1. /\ stdin \in [sent : 0 .. RequestSize, read : 0 .. RequestSize, closed : BOOLEAN]
      /\ stdin.sent \in Nat /\ stdin.read \in Nat /\ stdin.read <= stdin.sent
      /\ stdin.sent < RequestSize /\ stdin.sent - stdin.read < Capacity
  BY HelperAssumption DEF PipesTypeOK, SendBlock, RequestSent
<1>2. stdin' = [sent |-> stdin.sent + 1, read |-> stdin.read,
                closed |-> (stdin.sent + 1 = RequestSize)]
  BY <1>1 DEF SendBlock
<1>3. child = "running" /\ child' = child /\ output' = output /\ ~RequestSent
  BY DEF SendBlock
<1>4. /\ stdin'.sent = stdin.sent + 1 /\ stdin'.read = stdin.read
      /\ (stdin'.closed <=> stdin.sent + 1 = RequestSize)
  BY <1>2
<1>5. stdin' \in [sent : 0 .. RequestSize, read : 0 .. RequestSize, closed : BOOLEAN]
  BY <1>1, <1>2, HelperAssumption
<1>6. stdin'.read <= stdin'.sent /\ stdin'.sent - stdin'.read <= Capacity
  BY <1>1, <1>4, HelperAssumption
<1>7. QED
  BY <1>3, <1>4, <1>5, <1>6 DEF PipesTypeOK, RequestSent, Buffered

LEMMA ChildActs ==
    ASSUME PipesTypeOK,
           \/ ChildReads
           \/ \E o \in Outputs : ChildWrites(o)
           \/ \E how \in Endings : ChildEnds(how)
    PROVE  /\ PipesTypeOK' /\ child = "running"
           /\ RequestSent' <=> RequestSent
           /\ \A o \in Outputs : output'[o].read = output[o].read
<1>1. CASE ChildReads
  BY <1>1, HelperAssumption DEF PipesTypeOK, ChildReads, RequestSent, Buffered
<1>2. ASSUME NEW o \in Outputs, ChildWrites(o)
      PROVE  /\ PipesTypeOK' /\ child = "running" /\ (RequestSent' <=> RequestSent)
             /\ \A q \in Outputs : output'[q].read = output[q].read
  <2>1. /\ output \in [Outputs -> [written : 0 .. MaxWritten, read : 0 .. MaxWritten]]
        /\ output[o].written \in Nat /\ output[o].written < MaxWritten
        /\ output[o].written - output[o].read < Capacity
        /\ output[o].read \in Nat /\ output[o].read <= output[o].written
    BY <1>2, HelperAssumption DEF PipesTypeOK, ChildWrites, Buffered
  <2>2. output' = [output EXCEPT ![o] = [written |-> output[o].written + 1, read |-> output[o].read]]
    <3>1. [output[o] EXCEPT !.written = @ + 1] = [written |-> output[o].written + 1, read |-> output[o].read]
      BY <2>1
    <3>2. output' = [output EXCEPT ![o] = [output[o] EXCEPT !.written = @ + 1]]
      BY <1>2, <2>1 DEF ChildWrites
    <3>3. QED
      BY <3>1, <3>2
  <2>3. /\ \A q \in Outputs : q # o => output'[q] = output[q]
        /\ output'[o] = [written |-> output[o].written + 1, read |-> output[o].read]
    BY <2>1, <2>2
  <2>4. output' \in [Outputs -> [written : 0 .. MaxWritten, read : 0 .. MaxWritten]]
    BY <2>1, <2>2, HelperAssumption
  <2>5. \A q \in Outputs : output'[q].read <= output'[q].written
                           /\ output'[q].written - output'[q].read <= Capacity
    BY <2>1, <2>3, HelperAssumption DEF PipesTypeOK, Buffered
  <2>6. child' = child /\ stdin' = stdin /\ child = "running"
    BY <1>2 DEF ChildWrites
  <2>7. QED
    BY <2>3, <2>4, <2>5, <2>6 DEF PipesTypeOK, RequestSent, Buffered
<1>3. ASSUME NEW how \in Endings, ChildEnds(how)
      PROVE  /\ PipesTypeOK' /\ child = "running" /\ (RequestSent' <=> RequestSent)
             /\ \A q \in Outputs : output'[q].read = output[q].read
  BY <1>3 DEF PipesTypeOK, ChildEnds, RequestSent, Buffered
<1>4. QED
  BY <1>1, <1>2, <1>3

LEMMA WroteInVain ==
    ASSUME PipesTypeOK, NEW o \in Outputs, ChildWritesInVain(o)
    PROVE  /\ PipesTypeOK' /\ child = "running" /\ child' = child /\ stdin' = stdin
           /\ output'[o].read = output[o].read + 1
           /\ \A q \in Outputs : q # o => output'[q] = output[q]
<1>1. /\ output \in [Outputs -> [written : 0 .. MaxWritten, read : 0 .. MaxWritten]]
      /\ output[o].written \in Nat /\ output[o].written < MaxWritten /\ output[o].read \in Nat
      /\ output[o].read <= output[o].written /\ output[o].written - output[o].read <= Capacity
      /\ child = "running" /\ child' = child /\ stdin' = stdin
  BY HelperAssumption DEF PipesTypeOK, ChildWritesInVain, Buffered
<1>2. output' = [output EXCEPT ![o] = [written |-> output[o].written + 1, read |-> output[o].read + 1]]
  <2>1. [[output[o] EXCEPT !.written = @ + 1] EXCEPT !.read = @ + 1]
           = [written |-> output[o].written + 1, read |-> output[o].read + 1]
    <3>1. [output[o] EXCEPT !.written = @ + 1] = [written |-> output[o].written + 1, read |-> output[o].read]
      BY <1>1
    <3>2. [[written |-> output[o].written + 1, read |-> output[o].read] EXCEPT !.read = @ + 1]
             = [written |-> output[o].written + 1, read |-> output[o].read + 1]
      OBVIOUS
    <3>3. QED
      BY <3>1, <3>2
  <2>2. output' = [output EXCEPT ![o] = [[output[o] EXCEPT !.written = @ + 1] EXCEPT !.read = @ + 1]]
    BY <1>1 DEF ChildWritesInVain
  <2>3. QED
    BY <2>1, <2>2
<1>3. /\ \A q \in Outputs : q # o => output'[q] = output[q]
      /\ output'[o] = [written |-> output[o].written + 1, read |-> output[o].read + 1]
  BY <1>1, <1>2
<1>4. output' \in [Outputs -> [written : 0 .. MaxWritten, read : 0 .. MaxWritten]]
  BY <1>1, <1>2, HelperAssumption
<1>5. \A q \in Outputs : output'[q].read <= output'[q].written
                         /\ output'[q].written - output'[q].read <= Capacity
  BY <1>1, <1>3, HelperAssumption DEF PipesTypeOK, Buffered
<1>6. PipesTypeOK'
  BY <1>1, <1>4, <1>5 DEF PipesTypeOK, Buffered
<1>7. QED
  BY <1>1, <1>3, <1>6

LEMMA ClosedOutput ==
    ASSUME PipesTypeOK, NEW o \in Outputs, CloseOutput(o)
    PROVE  /\ PipesTypeOK' /\ child' = child /\ stdin' = stdin
           /\ output[o].read \in Nat /\ output'[o].read \in Nat
           /\ output'[o].read >= output[o].read
           /\ \A q \in Outputs : q # o => output'[q] = output[q]
<1>1. /\ output \in [Outputs -> [written : 0 .. MaxWritten, read : 0 .. MaxWritten]]
      /\ output[o].written \in Nat /\ output[o].read \in Nat /\ output[o].written <= MaxWritten
      /\ output[o].read <= output[o].written
      /\ child' = child /\ stdin' = stdin
  BY HelperAssumption DEF PipesTypeOK, CloseOutput, Buffered
<1>2. output' = [output EXCEPT ![o] = [written |-> output[o].written, read |-> output[o].written]]
  <2>1. [output[o] EXCEPT !.read = output[o].written] = [written |-> output[o].written, read |-> output[o].written]
    BY <1>1
  <2>2. output' = [output EXCEPT ![o] = [output[o] EXCEPT !.read = output[o].written]]
    BY <1>1 DEF CloseOutput
  <2>3. QED
    BY <2>1, <2>2
<1>3. /\ \A q \in Outputs : q # o => output'[q] = output[q]
      /\ output'[o] = [written |-> output[o].written, read |-> output[o].written]
  BY <1>1, <1>2
<1>4. output' \in [Outputs -> [written : 0 .. MaxWritten, read : 0 .. MaxWritten]]
  BY <1>1, <1>2, HelperAssumption
<1>5. \A q \in Outputs : output'[q].read <= output'[q].written
                         /\ output'[q].written - output'[q].read <= Capacity
  BY <1>1, <1>3, HelperAssumption DEF PipesTypeOK, Buffered
<1>6. PipesTypeOK'
  BY <1>1, <1>4, <1>5 DEF PipesTypeOK, Buffered
<1>7. QED
  BY <1>1, <1>3, <1>6

LEMMA Taken ==
    ASSUME PipesTypeOK, NEW o \in Outputs, NEW n, Take(o, n)
    PROVE  /\ PipesTypeOK' /\ n \in Nat /\ n > 0 /\ Buffered(o) # 0
           /\ child' = child /\ stdin' = stdin
           /\ output'[o].read = output[o].read + n
           /\ \A q \in Outputs : q # o => output'[q] = output[q]
<1>1. /\ output \in [Outputs -> [written : 0 .. MaxWritten, read : 0 .. MaxWritten]]
      /\ output[o].written \in Nat /\ output[o].read \in Nat /\ output[o].written <= MaxWritten
      /\ output[o].read <= output[o].written /\ output[o].written - output[o].read <= Capacity
  BY HelperAssumption DEF PipesTypeOK, Buffered
<1>2. /\ n \in Nat /\ n > 0 /\ output[o].read + n <= output[o].written
      /\ child' = child /\ stdin' = stdin
  BY <1>1 DEF Take, Buffered
<1>3. output' = [output EXCEPT ![o] = [written |-> output[o].written, read |-> output[o].read + n]]
  <2>1. [output[o] EXCEPT !.read = @ + n] = [written |-> output[o].written, read |-> output[o].read + n]
    BY <1>1
  <2>2. output' = [output EXCEPT ![o] = [output[o] EXCEPT !.read = @ + n]]
    BY <1>1 DEF Take
  <2>3. QED
    BY <2>1, <2>2
<1>4. /\ \A q \in Outputs : q # o => output'[q] = output[q]
      /\ output'[o] = [written |-> output[o].written, read |-> output[o].read + n]
  BY <1>1, <1>3
<1>5. output' \in [Outputs -> [written : 0 .. MaxWritten, read : 0 .. MaxWritten]]
  BY <1>1, <1>2, <1>3, HelperAssumption
<1>6. \A q \in Outputs : output'[q].read <= output'[q].written
                         /\ output'[q].written - output'[q].read <= Capacity
  BY <1>1, <1>2, <1>4, HelperAssumption DEF PipesTypeOK, Buffered
<1>7. PipesTypeOK'
  BY <1>2, <1>5, <1>6 DEF PipesTypeOK, Buffered
<1>8. QED
  BY <1>1, <1>2, <1>4, <1>7 DEF Buffered

-----------------------------------------------------------------------------
(* The call of the C# helper. *)
LEMMA CSharpTyped == CSharpTypes => CSharp!TypeOK
BY CSharpPipes DEF CSharpTypes, CSharp!TypeOK, CSharp!Stations, CSharp!Results

LEMMA CSharpInitially == ASSUME CSharp!Init PROVE CSharpInv
<1>1. /\ PipesInit /\ writer = "writing" /\ kept = [o \in Outputs |-> 0] /\ reading = Outputs
      /\ overflow = FALSE /\ late = FALSE /\ caller = "polling" /\ timedOut = FALSE
  BY CSharpPipes DEF CSharp!Init
<1>2. PipesTypeOK /\ \A o \in Outputs : output[o].read = 0
  BY <1>1, HelperAssumption DEF PipesInit, PipesTypeOK, Endings, Buffered
<1>3. CSharpTypes
  <2>1. kept \in [Outputs -> 0 .. MaxOutput] /\ \A o \in Outputs : kept[o] <= output[o].read
    BY <1>1, <1>2, HelperAssumption
  <2>2. overflow \in BOOLEAN /\ late \in BOOLEAN /\ timedOut \in BOOLEAN
    BY <1>1
  <2>3. QED
    BY <1>1, <1>2, <2>1, <2>2 DEF CSharpTypes
<1>4. QED
  BY <1>1, <1>3 DEF CSharpInv

LEMMA CSharpHelperKeeps ==
    ASSUME CSharpInv, CSharp!Helper
    PROVE  CSharpInv'
<1>1. /\ \/ ChildReads
         \/ \E o \in Outputs : ChildWrites(o)
         \/ \E how \in Endings : ChildEnds(how)
         \/ \E o \in Outputs : ChildWritesInVain(o)
      /\ UNCHANGED <<writer, kept, reading, overflow, late, caller, timedOut>>
  <2>1. reading \subseteq Outputs
    BY DEF CSharpInv, CSharpTypes
  <2>2. QED
    BY <2>1, CSharpPipes DEF CSharp!Helper, CSharp!caller_vars
<1>2. PipesTypeOK /\ kept \in [Outputs -> 0 .. MaxOutput]
      /\ \A o \in Outputs : kept[o] <= output[o].read /\ kept[o] \in Nat /\ output[o].read \in Nat
  BY HelperAssumption DEF CSharpTypes, CSharpInv, PipesTypeOK
<1>3. /\ PipesTypeOK' /\ child = "running" /\ (RequestSent' <=> RequestSent)
      /\ \A o \in Outputs : kept[o] <= output'[o].read
  <2>1. ASSUME NEW o \in Outputs, ChildWritesInVain(o)
        PROVE  /\ PipesTypeOK' /\ child = "running" /\ (RequestSent' <=> RequestSent)
               /\ \A q \in Outputs : kept[q] <= output'[q].read
    BY <1>2, <2>1, WroteInVain DEF RequestSent
  <2>2. QED
    BY <1>1, <1>2, <2>1, ChildActs
<1>4. CSharpTypes'
  BY <1>1, <1>3 DEF CSharpTypes, CSharpInv
<1>5. caller \notin {"joining", "facts", "incomplete", "error"}
  BY <1>3 DEF CSharpInv
<1>6. QED
  BY <1>1, <1>3, <1>4, <1>5 DEF CSharpInv

LEMMA CSharpWriteKeeps ==
    ASSUME CSharpInv, CSharp!WriteRequest \/ CSharp!WriteFails
    PROVE  CSharpInv'
<1>1. /\ writer = "writing"
      /\ UNCHANGED <<kept, reading, overflow, late, caller, timedOut>>
  BY DEF CSharp!WriteRequest, CSharp!WriteFails
<1>2. PipesTypeOK
  BY DEF CSharpTypes, CSharpInv
<1>3. /\ PipesTypeOK' /\ child' = child /\ output' = output
      /\ writer' \in {"writing", "done", "failed"} /\ (writer' = "done" => RequestSent')
  <2>1. CASE SendBlock /\ writer' = IF stdin'.closed THEN "done" ELSE "writing"
    BY <1>2, <2>1, SentBlock
  <2>2. CASE writer' = "failed" /\ UNCHANGED pipes
    BY <1>2, <2>2 DEF pipes, PipesTypeOK, Buffered
  <2>3. QED
    BY <2>1, <2>2, CSharpPipes DEF CSharp!WriteRequest, CSharp!WriteFails, CSharp!pipes, pipes
<1>4. CSharpTypes'
  BY <1>1, <1>3 DEF CSharpTypes, CSharpInv
<1>5. caller \notin {"facts", "incomplete", "error"}
  BY <1>1 DEF CSharpInv
<1>6. QED
  BY <1>1, <1>3, <1>4, <1>5 DEF CSharpInv

(* Reading goes on after the flag is raised, and nobody reads after the end. *)
LEMMA CSharpReadKeeps ==
    ASSUME CSharpInv, NEW o \in Outputs, CSharp!ReadCapped(o) \/ CSharp!ReadFails(o)
    PROVE  CSharpInv'
<1>1. o \in reading /\ UNCHANGED <<writer, late, caller, timedOut>>
  BY DEF CSharp!ReadCapped, CSharp!ReadFails
<1>2. /\ PipesTypeOK /\ kept \in [Outputs -> 0 .. MaxOutput]
      /\ \A q \in Outputs : kept[q] \in Nat /\ output[q].read \in Nat /\ kept[q] <= output[q].read
  BY HelperAssumption DEF CSharpTypes, CSharpInv, PipesTypeOK
<1>3. caller \notin {"facts", "incomplete", "error"}
  BY <1>1 DEF CSharpInv
<1>4. ASSUME NEW n, Take(o, n), reading' = reading,
             \/ /\ kept[o] + n <= MaxOutput
                /\ kept' = [kept EXCEPT ![o] = @ + n] /\ overflow' = overflow
             \/ overflow' = TRUE /\ kept' = kept
      PROVE  CSharpInv'
  <2>1. /\ PipesTypeOK' /\ n \in Nat /\ child' = child /\ stdin' = stdin
        /\ output'[o].read = output[o].read + n
        /\ \A q \in Outputs : q # o => output'[q] = output[q]
    BY <1>2, <1>4, Taken
  <2>2. kept' \in [Outputs -> 0 .. MaxOutput]
    BY <1>2, <1>4, <2>1, HelperAssumption
  <2>3. /\ \A q \in Outputs : q # o => kept'[q] = kept[q]
        /\ kept'[o] = kept[o] + n \/ kept'[o] = kept[o]
    BY <1>2, <1>4
  <2>4. \A q \in Outputs : kept'[q] <= output'[q].read
    BY <1>2, <2>1, <2>3
  <2>5. CSharpTypes'
    BY <1>1, <1>4, <2>1, <2>2, <2>4, Zenon DEF CSharpTypes, CSharpInv
  <2>6. QED
    BY <1>1, <1>3, <2>1, <2>5 DEF CSharpInv, RequestSent
<1>5. CASE reading' = reading \ {o} /\ UNCHANGED <<pipes, kept, overflow>>
  <2>1. UNCHANGED <<child, stdin, output>> /\ PipesTypeOK'
    BY <1>2, <1>5 DEF pipes, PipesTypeOK, Buffered
  <2>2. CSharpTypes'
    BY <1>1, <1>5, <2>1 DEF CSharpTypes, CSharpInv
  <2>3. QED
    BY <1>1, <1>3, <1>5, <2>1, <2>2 DEF CSharpInv, RequestSent
<1>6. CASE CloseOutput(o) /\ reading' = reading \ {o} /\ UNCHANGED <<kept, overflow>>
  <2>1. /\ PipesTypeOK' /\ child' = child /\ stdin' = stdin
        /\ \A q \in Outputs : kept[q] <= output'[q].read
    BY <1>2, <1>6, ClosedOutput
  <2>2. CSharpTypes'
    BY <1>1, <1>6, <2>1 DEF CSharpTypes, CSharpInv
  <2>3. QED
    BY <1>1, <1>3, <1>6, <2>1, <2>2 DEF CSharpInv, RequestSent
<1>7. QED
  BY <1>4, <1>5, <1>6, CSharpPipes DEF CSharp!ReadCapped, CSharp!ReadFails, CSharp!pipes, pipes

LEMMA CSharpCallerKeeps ==
    ASSUME CSharpInv, CSharp!Deadline \/ CSharp!Caller \/ CSharp!PollFails \/ CSharp!ReapFails
    PROVE  CSharpInv'
<1>1. PipesTypeOK
  BY DEF CSharpTypes, CSharpInv
<1>2. CASE CSharp!Deadline \/ CSharp!PollEnded \/ CSharp!Reap \/ CSharp!PollFails \/ CSharp!ReapFails
  <2>1. /\ UNCHANGED <<child, stdin, output, writer, kept, reading, overflow, timedOut>>
        /\ late' \in BOOLEAN
        /\ \/ caller' = caller
           \/ caller' \in {"reaping", "lost"}
           \/ caller' = "joining" /\ child # "running"
    BY <1>2 DEF CSharpTypes, CSharp!Deadline, CSharp!PollEnded, CSharp!Reap, CSharp!PollFails,
                CSharp!ReapFails, CSharp!pipes, CSharpInv
  <2>2. PipesTypeOK'
    BY <1>1, <2>1 DEF PipesTypeOK, Buffered
  <2>3. CSharpTypes'
    BY <2>1, <2>2 DEF CSharpTypes, CSharpInv
  <2>4. QED
    BY <2>1, <2>3 DEF CSharpInv, RequestSent
<1>3. CASE CSharp!PollGivesUp
  <2>1. /\ UNCHANGED <<stdin, output, writer, kept, reading, overflow, late>>
        /\ timedOut' = late /\ child' = (IF child = "running" THEN "killed" ELSE child)
        /\ caller' = "reaping"
    BY <1>3 DEF CSharp!PollGivesUp
  <2>2. PipesTypeOK'
    BY <1>1, <2>1 DEF PipesTypeOK, Buffered, Endings
  <2>3. CSharpTypes'
    BY <2>1, <2>2 DEF CSharpTypes, CSharpInv
  <2>4. QED
    BY <2>1, <2>3 DEF CSharpInv, RequestSent
<1>4. CASE CSharp!Return
  <2>1. /\ UNCHANGED <<child, stdin, output, writer, kept, reading, overflow, late, timedOut>>
        /\ caller = "joining" /\ writer # "writing" /\ reading = {}
        /\ \E answer \in CSharp!Answers : caller' = CSharp!Result(answer)
    BY <1>4 DEF CSharp!Return, CSharp!pipes
  <2>2. PICK answer : caller' = CSharp!Result(answer)
    BY <2>1
  <2>3. /\ caller' \in {"facts", "incomplete", "error"}
        /\ caller' = "facts" =>
              /\ child = "success" /\ writer = "done" /\ ~timedOut
              /\ kept["stdout"] = output["stdout"].written
    BY <2>1, <2>2 DEF CSharpTypes, CSharp!Result, CSharp!IsJson, CSharpInv
  <2>4. PipesTypeOK'
    BY <1>1, <2>1 DEF PipesTypeOK, Buffered
  <2>5. CSharpTypes'
    BY <2>1, <2>3, <2>4 DEF CSharpTypes, CSharpInv
  <2>6. child # "running"
    BY <2>1 DEF CSharpInv
  <2>7. QED
    BY <2>1, <2>3, <2>5, <2>6 DEF CSharpInv, RequestSent
<1>5. QED
  BY <1>2, <1>3, <1>4 DEF CSharp!Caller

LEMMA CSharpInductive ==
    ASSUME CSharpInv, CSharp!Next
    PROVE  CSharpInv'
<1>1. CASE CSharp!Helper
  BY <1>1, CSharpHelperKeeps
<1>2. CASE CSharp!WriteRequest \/ CSharp!WriteFails
  BY <1>2, CSharpWriteKeeps
<1>3. CASE CSharp!Deadline \/ CSharp!Caller \/ CSharp!PollFails \/ CSharp!ReapFails
  BY <1>3, CSharpCallerKeeps
<1>4. ASSUME NEW o \in Outputs, CSharp!ReadCapped(o) \/ CSharp!ReadFails(o) PROVE CSharpInv'
  BY <1>4, CSharpReadKeeps
<1>5. CASE CSharp!Finished
  BY <1>5 DEF CSharp!Finished, CSharp!vars, CSharp!pipes, CSharp!caller_vars, CSharpInv, CSharpTypes,
              PipesTypeOK, RequestSent, Buffered
<1>6. QED
  BY <1>1, <1>2, <1>3, <1>4, <1>5, CSharpPipes DEF CSharp!Next, CSharp!Failure

-----------------------------------------------------------------------------
(* The call of the TypeScript helper. *)
LEMMA TypeScriptTyped == TypeScriptTypes => TypeScript!TypeOK
BY TypeScriptPipes DEF TypeScriptTypes, TypeScript!TypeOK, TypeScript!Stations, TypeScript!Results

LEMMA TypeScriptInitially == ASSUME TypeScript!Init PROVE TypeScriptInv
<1>1. /\ PipesInit /\ kept = [o \in Outputs |-> 0] /\ cut = {} /\ reading = {}
      /\ caller = "writing"
  BY TypeScriptPipes DEF TypeScript!Init
<1>2. PipesTypeOK /\ \A o \in Outputs : output[o].read = 0
  BY <1>1, HelperAssumption DEF PipesInit, PipesTypeOK, Endings, Buffered
<1>3. TypeScriptTypes
  BY <1>1, <1>2, HelperAssumption DEF TypeScriptTypes
<1>4. QED
  BY <1>1, <1>2, <1>3 DEF TypeScriptInv

LEMMA TypeScriptHelperKeeps ==
    ASSUME TypeScriptInv, TypeScript!Helper
    PROVE  TypeScriptInv'
<1>1. /\ \/ ChildReads
         \/ \E o \in Outputs : ChildWrites(o)
         \/ \E how \in Endings : ChildEnds(how)
         \/ /\ caller \in {"waiting", "joining"}
            /\ \E o \in Outputs \ reading : ChildWritesInVain(o)
      /\ UNCHANGED <<kept, cut, reading, caller>>
  BY TypeScriptPipes DEF TypeScript!Helper, TypeScript!HelperWrites, TypeScript!WritesTo, Endings
<1>2. PipesTypeOK
  BY DEF TypeScriptInv, TypeScriptTypes
<1>3. /\ PipesTypeOK' /\ child = "running" /\ (RequestSent' <=> RequestSent)
      /\ \A o \in Outputs \ cut : output'[o].read = output[o].read
  <2>1. ASSUME caller \in {"waiting", "joining"}, NEW o \in Outputs \ reading, ChildWritesInVain(o)
        PROVE  /\ PipesTypeOK' /\ child = "running" /\ (RequestSent' <=> RequestSent)
               /\ \A q \in Outputs \ cut : output'[q].read = output[q].read
    <3>1. /\ PipesTypeOK' /\ child = "running" /\ stdin' = stdin
          /\ \A q \in Outputs : q # o => output'[q] = output[q]
      BY <1>2, <2>1, WroteInVain
    <3>2. o \in cut
      BY <2>1, <3>1 DEF TypeScriptInv, EndOfFile
    <3>3. QED
      BY <3>1, <3>2 DEF RequestSent
  <2>2. QED
    BY <1>1, <1>2, <2>1, ChildActs
<1>4. TypeScriptTypes'
  BY <1>1, <1>3 DEF TypeScriptInv, TypeScriptTypes
<1>5. caller \in {"waiting", "joining", "output"} => Outputs \ (reading \cup cut) = {}
  BY <1>3 DEF TypeScriptInv, TypeScriptTypes, EndOfFile
<1>6. caller # "output"
  BY <1>3 DEF TypeScriptInv
<1>7. QED
  BY <1>1, <1>3, <1>4, <1>5, <1>6 DEF TypeScriptInv

LEMMA TypeScriptWriteKeeps ==
    ASSUME TypeScriptInv, TypeScript!WriteRequest \/ TypeScript!WriteFails
    PROVE  TypeScriptInv'
<1>1. caller = "writing" /\ UNCHANGED <<kept, cut>>
  BY DEF TypeScript!WriteRequest, TypeScript!WriteFails
<1>2. PipesTypeOK
  BY DEF TypeScriptInv, TypeScriptTypes
<1>3. CASE /\ SendBlock
           /\ caller' = IF stdin'.closed THEN "waiting" ELSE "writing"
           /\ reading' = IF stdin'.closed THEN Outputs ELSE {}
  <2>1. PipesTypeOK' /\ (stdin'.closed <=> RequestSent') /\ output' = output
    BY <1>2, <1>3, SentBlock
  <2>2. TypeScriptTypes'
    BY <1>1, <1>3, <2>1 DEF TypeScriptInv, TypeScriptTypes
  <2>3. QED
    BY <1>1, <1>3, <2>1, <2>2 DEF TypeScriptInv
<1>4. CASE caller' = "error" /\ UNCHANGED <<child, stdin, output, reading>>
  <2>1. PipesTypeOK'
    BY <1>2, <1>4 DEF PipesTypeOK, Buffered
  <2>2. TypeScriptTypes'
    BY <1>1, <1>4, <2>1 DEF TypeScriptInv, TypeScriptTypes
  <2>3. QED
    BY <1>1, <1>4, <2>2 DEF TypeScriptInv
<1>5. QED
  BY <1>3, <1>4, TypeScriptPipes DEF TypeScript!WriteRequest, TypeScript!WriteFails, TypeScript!pipes

LEMMA TypeScriptReadKeeps ==
    ASSUME TypeScriptInv, NEW o \in Outputs, TypeScript!ReadCapped(o) \/ TypeScript!ReadFails(o)
    PROVE  TypeScriptInv'
<1>1. o \in reading /\ caller' = caller
  BY DEF TypeScript!ReadCapped, TypeScript!ReadFails
<1>2. /\ PipesTypeOK /\ kept \in [Outputs -> 0 .. MaxOutput] /\ kept[o] \in Nat
      /\ kept[o] <= MaxOutput /\ MaxOutput \in Nat
  BY HelperAssumption DEF TypeScriptInv, TypeScriptTypes
<1>3. caller # "output"
  BY <1>1 DEF TypeScriptInv
<1>4. ASSUME NEW n, Take(o, n), reading' = reading,
             kept' = [kept EXCEPT ![o] = TypeScript!Least(MaxOutput, @ + n)],
             cut' = IF kept[o] + n > MaxOutput THEN cut \cup {o} ELSE cut
      PROVE  TypeScriptInv'
  <2>1. /\ PipesTypeOK' /\ n \in Nat /\ child' = child /\ stdin' = stdin
        /\ output'[o].read = output[o].read + n
        /\ \A q \in Outputs : q # o => output'[q] = output[q]
    BY <1>2, <1>4, Taken
  <2>2. TypeScript!Least(MaxOutput, kept[o] + n) \in 0 .. MaxOutput
    BY <1>2, <2>1 DEF TypeScript!Least
  <2>3. /\ kept' \in [Outputs -> 0 .. MaxOutput]
        /\ kept'[o] = TypeScript!Least(MaxOutput, kept[o] + n)
        /\ \A q \in Outputs : q # o => kept'[q] = kept[q]
    BY <1>2, <1>4, <2>2
  <2>4. TypeScriptTypes'
    BY <1>1, <1>4, <2>1, <2>3 DEF TypeScriptInv, TypeScriptTypes
  <2>5. \A q \in Outputs \ cut' : kept'[q] = output'[q].read
    <3>1. CASE kept[o] + n > MaxOutput
      BY <1>4, <2>1, <2>3, <3>1 DEF TypeScriptInv
    <3>2. CASE ~(kept[o] + n > MaxOutput)
      <4>1. kept'[o] = kept[o] + n
        BY <1>2, <2>1, <2>3, <3>2 DEF TypeScript!Least
      <4>2. QED
        BY <1>4, <2>1, <2>3, <3>2, <4>1 DEF TypeScriptInv
    <3>3. QED
      BY <3>1, <3>2
  <2>6. caller \in {"waiting", "joining", "output"} =>
            \A q \in Outputs \ (reading' \cup cut') : EndOfFile(q)'
    BY <1>1, <1>4, <2>1 DEF TypeScriptInv, EndOfFile, Buffered
  <2>7. QED
    BY <1>1, <1>3, <2>1, <2>4, <2>5, <2>6 DEF TypeScriptInv, RequestSent
<1>5. CASE EndOfFile(o) /\ reading' = reading \ {o} /\ UNCHANGED <<child, stdin, output, kept, cut>>
  <2>1. PipesTypeOK'
    BY <1>2, <1>5 DEF PipesTypeOK, Buffered
  <2>2. TypeScriptTypes'
    BY <1>1, <1>5, <2>1 DEF TypeScriptInv, TypeScriptTypes
  <2>3. caller \in {"waiting", "joining", "output"} =>
            \A q \in Outputs \ (reading' \cup cut') : EndOfFile(q)'
    BY <1>5 DEF TypeScriptInv, EndOfFile, Buffered
  <2>4. QED
    BY <1>1, <1>3, <1>5, <2>2, <2>3 DEF TypeScriptInv, RequestSent
<1>6. CASE CloseOutput(o) /\ cut' = cut \cup {o} /\ reading' = reading \ {o} /\ UNCHANGED kept
  <2>1. /\ PipesTypeOK' /\ child' = child /\ stdin' = stdin
        /\ \A q \in Outputs : q # o => output'[q] = output[q]
    BY <1>2, <1>6, ClosedOutput
  <2>2. TypeScriptTypes'
    BY <1>1, <1>6, <2>1 DEF TypeScriptInv, TypeScriptTypes
  <2>3. caller \in {"waiting", "joining", "output"} =>
            \A q \in Outputs \ (reading' \cup cut') : EndOfFile(q)'
    BY <1>6, <2>1 DEF TypeScriptInv, EndOfFile, Buffered
  <2>4. \A q \in Outputs \ cut' : kept'[q] = output'[q].read
    BY <1>6, <2>1 DEF TypeScriptInv
  <2>5. QED
    BY <1>1, <1>3, <2>1, <2>2, <2>3, <2>4 DEF TypeScriptInv, RequestSent
<1>7. QED
  BY <1>4, <1>5, <1>6, TypeScriptPipes DEF TypeScript!ReadCapped, TypeScript!ReadFails, TypeScript!pipes

LEMMA TypeScriptWaitKeeps ==
    ASSUME TypeScriptInv,
           TypeScript!Wait \/ TypeScript!WaitFails \/ TypeScript!Return \/ TypeScript!Finished
    PROVE  TypeScriptInv'
<1>1. /\ UNCHANGED <<child, stdin, output, kept, cut, reading>>
      /\ \/ caller' = caller
         \/ caller = "waiting" /\ caller' = "joining"
         \/ caller' = "error"
         \/ /\ caller = "joining" /\ caller' = "output"
            /\ reading = {} /\ cut = {} /\ child = "success"
  BY DEF TypeScript!Wait, TypeScript!WaitFails, TypeScript!Return, TypeScript!Finished, TypeScript!vars, TypeScript!pipes
<1>2. PipesTypeOK'
  BY <1>1 DEF TypeScriptInv, TypeScriptTypes, PipesTypeOK, Buffered
<1>3. TypeScriptTypes'
  BY <1>1, <1>2 DEF TypeScriptInv, TypeScriptTypes
<1>4. QED
  BY <1>1, <1>3 DEF TypeScriptInv, RequestSent, EndOfFile, Buffered

LEMMA TypeScriptInductive ==
    ASSUME TypeScriptInv, TypeScript!Next
    PROVE  TypeScriptInv'
<1>1. CASE TypeScript!Helper
  BY <1>1, TypeScriptHelperKeeps
<1>2. CASE TypeScript!WriteRequest \/ TypeScript!WriteFails
  BY <1>2, TypeScriptWriteKeeps
<1>3. CASE TypeScript!Wait \/ TypeScript!WaitFails \/ TypeScript!Return \/ TypeScript!Finished
  BY <1>3, TypeScriptWaitKeeps
<1>4. ASSUME NEW o \in Outputs, TypeScript!ReadCapped(o) \/ TypeScript!ReadFails(o) PROVE TypeScriptInv'
  BY <1>4, TypeScriptReadKeeps
<1>5. QED
  BY <1>1, <1>2, <1>3, <1>4, TypeScriptPipes DEF TypeScript!Next, TypeScript!Failure

-----------------------------------------------------------------------------
LEMMA CallInvariant == Spec => []CallInv
<1>1. Init => CallInv
  <2>1. ASSUME CSharpCall, CSharp!Init PROVE CallInv
    BY <2>1, CSharpInitially DEF CallInv, CSharpCall, TypeScriptCall
  <2>2. ASSUME TypeScriptCall, TypeScript!Init PROVE CallInv
    BY <2>2, TypeScriptInitially DEF CallInv, CSharpCall, TypeScriptCall
  <2>3. QED
    BY <2>1, <2>2 DEF Init
<1>2. CallInv /\ [Next]_vars => CallInv'
  <2> SUFFICES ASSUME CallInv, [Next]_vars PROVE CallInv'
    OBVIOUS
  <2>1. CASE CSharpCall /\ CSharp!Next /\ UNCHANGED <<language, cut>>
    <3>1. CSharpInv'
      BY <2>1, CSharpInductive DEF CallInv
    <3>2. QED
      BY <2>1, <3>1 DEF CallInv, CSharpCall, TypeScriptCall
  <2>2. CASE TypeScriptCall /\ TypeScript!Next /\ UNCHANGED <<language, csharp_vars>>
    <3>1. TypeScriptInv'
      BY <2>2, TypeScriptInductive DEF CallInv
    <3>2. QED
      BY <2>2, <3>1 DEF CallInv, CSharpCall, TypeScriptCall
  <2>3. CASE UNCHANGED vars
    <3>1. UNCHANGED <<child, stdin, output, language, kept, reading, caller, writer, overflow,
                      late, timedOut, cut>>
      BY <2>3 DEF vars, pipes, csharp_vars
    <3>2. CSharpInv => CSharpInv'
      BY <3>1 DEF CSharpInv, CSharpTypes, PipesTypeOK, RequestSent, Buffered
    <3>3. TypeScriptInv => TypeScriptInv'
      BY <3>1 DEF TypeScriptInv, TypeScriptTypes, PipesTypeOK, RequestSent, EndOfFile, Buffered
    <3>4. QED
      BY <3>1, <3>2, <3>3 DEF CallInv, CSharpCall, TypeScriptCall
  <2>4. QED
    BY <2>1, <2>2, <2>3 DEF Next
<1>3. QED
  BY <1>1, <1>2, PTL DEF Spec

(* read_capped keeps no more than its bound of either output, for outputs    *)
(* and pipes of any size; when invoke_helper of hoonarqube-csharp returns,   *)
(* the child is gone and its three threads have ended, unless try_wait or    *)
(* wait failed.                                                              *)
THEOREM CallsAreBounded == Spec => []ResourcesBounded
<1>1. CallInv => ResourcesBounded
  <2>1. CSharpInv => CSharp!TypeOK /\ CSharp!NothingLeftRunning
    BY CSharpTyped DEF CSharpInv, CSharp!NothingLeftRunning, CSharp!Results
  <2>2. TypeScriptInv => TypeScript!TypeOK
    BY TypeScriptTyped DEF TypeScriptInv
  <2>3. QED
    BY <2>1, <2>2 DEF CallInv, ResourcesBounded
<1>2. QED
  BY <1>1, CallInvariant, PTL

(* Whatever the order of the end of a helper, an overflow and the deadline,  *)
(* and whichever read, write or wait fails, invoke_helper_response takes     *)
(* facts, and invoke_helper of hoonarqube-jsts output, only of a helper that *)
(* had its whole request, succeeded, and whose standard output was kept to   *)
(* the last block.                                                           *)
THEOREM AnswersAreWhole == Spec => []OnlyWholeAnswersUsed
<1>1. CallInv => OnlyWholeAnswersUsed
  <2>1. CSharpInv => CSharp!OnlyWholeAnswersUsed
    BY CSharpPipes DEF CSharpInv, CSharp!OnlyWholeAnswersUsed
  <2>2. ASSUME TypeScriptInv PROVE TypeScript!OnlyWholeOutputUsed
    <3>1. SUFFICES ASSUME caller = "output"
                   PROVE  /\ child = "success" /\ RequestSent
                          /\ \A o \in Outputs : kept[o] = output[o].written
      BY TypeScriptPipes DEF TypeScript!OnlyWholeOutputUsed
    <3>2. child = "success" /\ RequestSent /\ reading = {} /\ cut = {}
      BY <2>2, <3>1 DEF TypeScriptInv
    <3>3. \A o \in Outputs : kept[o] = output[o].read /\ output[o].written - output[o].read = 0
      BY <2>2, <3>1, <3>2 DEF TypeScriptInv, EndOfFile, Buffered
    <3>4. \A o \in Outputs : output[o].written \in Nat /\ output[o].read \in Nat
      BY <2>2, HelperAssumption DEF TypeScriptInv, TypeScriptTypes, PipesTypeOK
    <3>5. QED
      BY <3>2, <3>3, <3>4
  <2>3. QED
    BY <2>1, <2>2 DEF CallInv, OnlyWholeAnswersUsed
<1>2. QED
  BY <1>1, CallInvariant, PTL
=============================================================================
