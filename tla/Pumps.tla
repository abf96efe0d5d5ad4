-------------------------------- MODULE Pumps --------------------------------
(***************************************************************************)
(* The thread of the application's backend that runs the write command     *)
(* (flash in app/src-tauri/src/lib.rs): the command writes to two pipes of *)
(* bounded capacity, a pump for each splits what arrives into lines for    *)
(* the page, and when both have come to an end and the command has been    *)
(* waited for, one event says how it ended.  The command blocks when a     *)
(* pipe is full and dies when it writes to one nobody reads.               *)
(***************************************************************************)
EXTENDS Integers, Sequences

CONSTANTS
  Scripts,    \* what the command may write: sequences of <<stream, byte>>
  NL, CR,     \* the bytes that end a line
  Text,       \* the others
  Capacity,   \* of a pipe (64 KiB)
  Chunk       \* the most a pump takes in one read (4096)

Streams == {"out", "err"}
Ends    == {NL, CR}
Bytes   == Text \union Ends

ASSUME BytesAssumption   == NL # CR /\ Text \intersect Ends = {}
ASSUME ScriptsAssumption == Scripts \subseteq Seq(Streams \X Bytes)
ASSUME BoundsAssumption  == Capacity \in Nat \ {0} /\ Chunk \in Nat \ {0}

VARIABLES
  todo,     \* what the command has still to write
  child,    \* "running", "ok", "failed"
  pipe,     \* what is in each pipe
  written,  \* everything the command has written to each
  pump,     \* each pump: "reading", "done"
  line,     \* the line each has begun
  log,      \* the lines each has sent to the page
  event,    \* "none", "flash-done" or "flash-error"
  broken    \* the streams of which a read has failed

pumpsVars == <<todo, child, pipe, written, pump, line, log, event, broken>>

PumpsInit ==
  /\ todo \in Scripts
  /\ child = "running" /\ event = "none" /\ broken = {}
  /\ pump = [s \in Streams |-> "reading"]
  /\ pipe = [s \in Streams |-> <<>>] /\ written = [s \in Streams |-> <<>>]
  /\ line = [s \in Streams |-> <<>>] /\ log = [s \in Streams |-> <<>>]

-----------------------------------------------------------------------------
\* The command.  Its last bytes stay in the pipes when it ends.

Write ==
  /\ child = "running" /\ todo # <<>>
  /\ LET s == Head(todo)[1]  b == Head(todo)[2]
     IN  /\ pump[s] = "reading" /\ Len(pipe[s]) < Capacity
         /\ pipe' = [pipe EXCEPT ![s] = Append(@, b)]
         /\ written' = [written EXCEPT ![s] = Append(@, b)]
  /\ todo' = Tail(todo)
  /\ UNCHANGED <<child, pump, line, log, event, broken>>

WriteToNobody ==
  /\ child = "running" /\ todo # <<>> /\ pump[Head(todo)[1]] = "done"
  /\ child' = "failed"
  /\ UNCHANGED <<todo, pipe, written, pump, line, log, event, broken>>

ChildExits ==
  /\ child = "running" /\ todo = <<>>
  /\ child' \in {"ok", "failed"}
  /\ UNCHANGED <<todo, pipe, written, pump, line, log, event, broken>>

\* It fails, or is killed, before it has written everything.
Die ==
  /\ child = "running" /\ todo # <<>>
  /\ child' = "failed"
  /\ UNCHANGED <<todo, pipe, written, pump, line, log, event, broken>>

-----------------------------------------------------------------------------
\* A pump.  Of a chunk, what stands before each line end goes to the page,
\* unless it is empty, and what stands behind the last is the line begun.
Feed(state, b) ==
  IF b \notin Ends THEN [state EXCEPT !.line = Append(@, b)]
  ELSE IF state.line = <<>> THEN state
  ELSE [line |-> <<>>, log |-> Append(state.log, state.line)]

Fed(s, chunk) ==
  LET fed[n \in 0..Len(chunk)] ==
        IF n = 0 THEN [line |-> line[s], log |-> log[s]] ELSE Feed(fed[n - 1], chunk[n])
  IN  fed[Len(chunk)]

\* Mutant of PumpRead: standard error is read when standard output has ended.
PumpReadInTurn(s) ==
  /\ pump[s] = "reading" /\ pipe[s] # <<>>
  /\ s = "err" => pump["out"] = "done"
  /\ \E n \in 1..Chunk :
       /\ n <= Len(pipe[s])
       /\ pipe' = [pipe EXCEPT ![s] = SubSeq(@, n + 1, Len(@))]
       /\ LET fed == Fed(s, SubSeq(pipe[s], 1, n))
          IN  line' = [line EXCEPT ![s] = fed.line] /\ log' = [log EXCEPT ![s] = fed.log]
  /\ UNCHANGED <<todo, child, written, pump, event, broken>>

PumpRead(s) ==
  /\ pump[s] = "reading" /\ pipe[s] # <<>>
  /\ \E n \in 1..Chunk :
       /\ n <= Len(pipe[s])
       /\ pipe' = [pipe EXCEPT ![s] = SubSeq(@, n + 1, Len(@))]
       /\ LET fed == Fed(s, SubSeq(pipe[s], 1, n))
          IN  line' = [line EXCEPT ![s] = fed.line] /\ log' = [log EXCEPT ![s] = fed.log]
  /\ UNCHANGED <<todo, child, written, pump, event, broken>>

LastLine(s) ==
  /\ pump' = [pump EXCEPT ![s] = "done"]
  /\ line' = [line EXCEPT ![s] = <<>>]
  /\ log' = [log EXCEPT ![s] = IF line[s] = <<>> THEN @ ELSE Append(@, line[s])]
  /\ UNCHANGED <<todo, child, written, event>>

\* Mutant of PumpEnd: a last line without an end is dropped.
PumpEndForgets(s) ==
  /\ pump[s] = "reading" /\ pipe[s] = <<>> /\ child # "running"
  /\ pump' = [pump EXCEPT ![s] = "done"]
  /\ UNCHANGED <<todo, child, pipe, written, line, log, event, broken>>

\* The pipe is empty and its writer gone.
PumpEnd(s) ==
  /\ pump[s] = "reading" /\ pipe[s] = <<>> /\ child # "running"
  /\ LastLine(s)
  /\ UNCHANGED <<pipe, broken>>

\* A read fails: the pump ends as if the stream had, and closes the pipe.
PumpFails(s) ==
  /\ pump[s] = "reading"
  /\ LastLine(s)
  /\ pipe' = [pipe EXCEPT ![s] = <<>>]
  /\ broken' = broken \union {s}

\* Both pumps are joined, the command is waited for, and one event is sent.
Finish ==
  /\ event = "none" /\ \A s \in Streams : pump[s] = "done"
  /\ child # "running"
  /\ event' = IF child = "ok" THEN "flash-done" ELSE "flash-error"
  /\ UNCHANGED <<todo, child, pipe, written, pump, line, log, broken>>

Command == Write \/ WriteToNobody \/ ChildExits
PumpStep(s) == PumpRead(s) \/ PumpEnd(s)

PumpsNext == Command \/ Die \/ (\E s \in Streams : PumpStep(s) \/ PumpFails(s)) \/ Finish

\* Threads and processes run, the command too: that it goes on writing, or ends
\* when it has written everything, needs nobody to kill it.
PumpsSpec == PumpsInit /\ [][PumpsNext]_pumpsVars
             /\ WF_pumpsVars(Command) /\ (\A s \in Streams : WF_pumpsVars(PumpStep(s)))
             /\ WF_pumpsVars(Finish)

-----------------------------------------------------------------------------
\* Properties.

\* Where the lines of a text are: between two line ends, or before the first or
\* behind the last, if anything is there.
Bounds(text) ==
  LET cut(i) == i \in {0, Len(text) + 1} \/ text[i] \in Ends
  IN  {b \in (0..Len(text)) \X (1..Len(text) + 1) :
         b[1] + 1 < b[2] /\ cut(b[1]) /\ cut(b[2]) /\ \A k \in b[1] + 1 .. b[2] - 1 : ~cut(k)}

\* These are all of them, in order.
AreLines(lines, text) ==
  \E at \in [DOMAIN lines -> Bounds(text)] :
    /\ \A m, n \in DOMAIN lines : m < n => at[m][1] < at[n][1]
    /\ \A b \in Bounds(text) : \E n \in DOMAIN lines : at[n] = b
    /\ \A n \in DOMAIN lines : lines[n] = SubSeq(text, at[n][1] + 1, at[n][2] - 1)

\* When the event that ends the write reaches the page, every line the command
\* has written is on the log, each stream's in order, cut where the command
\* ended it by either byte however the reads fell, the last one whether it was
\* ended or not; a stream of which a read failed is the exception.
AllForwarded ==
  event # "none" => \A s \in Streams \ broken : AreLines(log[s], written[s])

\* Whatever the command writes and wherever, it is never stuck on a full pipe,
\* and the page is told of its end: the comment in flash about the deadlock of
\* draining one pipe after the other.
ChildIsHeard == <>(event # "none")
=============================================================================
