-------------------------------- MODULE Commands --------------------------------
(***************************************************************************)
(* One detached command of a sandbox and one viewer of its output.  The    *)
(* row is written by the request that starts the command, by every read    *)
(* that refreshes it from the provider and by the request that kills it,   *)
(* none of which compares the row with what it read.  The event stream     *)
(* polls the row and the provider's log and sends events with a cursor;    *)
(* the SDK's observer survives broken connections by its last cursor.      *)
(* A provider log that loses what it once returned is not modelled.        *)
(***************************************************************************)
EXTENDS Naturals, Sequences

CONSTANTS MaxOutput,     \* bound on the pieces of output the program writes
          MaxReconnects  \* maxReconnects of the observer

CommandBounds == MaxOutput \in Nat /\ MaxReconnects \in Nat

VARIABLES
    command,  \* sandbox_commands: its status and whether a provider_command_id is recorded
    program,  \* the program in the runtime and the pieces it has written to its log
    creator,  \* createSandboxCommand
    killer,   \* killSandboxCommand
    reader,   \* refreshCommand, once for the stream and once for any other caller
    stream,   \* commandEvents: its offset and the events the viewer has not consumed
    viewer    \* observeCommandStream

commandVars == <<command, program, creator, killer, reader, stream, viewer>>

Status == {"none", "queued", "running", "succeeded", "failed", "killed"}
Active == {"queued", "running"}
TerminalByItself(status) == status \in {"succeeded", "failed"}  \* mutant
Terminal(status) == status \notin Active
Reader == {"stream", "caller"}
Source == {"none", "p", "s"}  \* of a cursor: no cursor, provider log, stored output
Event == [type : {"output", "status", "complete", "error", "reconnect"}, after : 0..MaxOutput,
          source : {"p", "s"}, offset : 0..(MaxOutput + 1), status : Status]

TypeOK ==
    /\ command \in [status : Status, provider : BOOLEAN]
    /\ program \in [state : {"none", "running", "succeeded", "failed"}, output : 0..MaxOutput]
    /\ creator \in {"idle", "start", "save", "fail", "done"}
    /\ killer \in {"idle", "interrupt", "write"}
    /\ reader \in [Reader -> [at : {"idle", "get", "put", "seen"}, status : Status, provider : BOOLEAN]]
    /\ stream \in [at : {"closed", "read", "wait"}, given : BOOLEAN, source : {"p", "s"},
                   offset : 0..(MaxOutput + 1), status : Status, events : Seq(Event)]
    /\ viewer \in [at : {"idle", "connect", "watch", "complete", "error"}, source : Source,
                   offset : 0..(MaxOutput + 1), received : Seq(1..(MaxOutput + 1)),
                   retries : 0..MaxReconnects, told : Status]

Closed == [at |-> "closed", given |-> FALSE, source |-> "p", offset |-> 0, status |-> "none", events |-> <<>>]
Unread == [at |-> "idle", status |-> "none", provider |-> FALSE]

Init ==
    /\ command = [status |-> "none", provider |-> FALSE]
    /\ program = [state |-> "none", output |-> 0]
    /\ creator = "idle" /\ killer = "idle"
    /\ reader = [r \in Reader |-> Unread]
    /\ stream = Closed
    /\ viewer = [at |-> "idle", source |-> "none", offset |-> 0, received |-> <<>>, retries |-> 0, told |-> "none"]
--------------------------------------------------------------------------------
(* Starting and killing *)

InsertCommand ==
    /\ creator = "idle"
    /\ command' = [command EXCEPT !.status = "queued"] /\ creator' = "start"
    /\ UNCHANGED <<program, killer, reader, stream, viewer>>

\* Without a lease nothing is started; the runtime may start what it reports as failed.
StartProgram ==
    /\ creator = "start"
    /\ \/ program' = [program EXCEPT !.state = "running"] /\ creator' \in {"save", "fail"}
       \/ program' = program /\ creator' = "fail"
    /\ UNCHANGED <<command, killer, reader, stream, viewer>>

\* The event or the activity recorded next may fail.
SaveStarted ==
    /\ creator = "save"
    /\ command' = [status |-> "running", provider |-> TRUE] /\ creator' \in {"fail", "done"}
    /\ UNCHANGED <<program, killer, reader, stream, viewer>>
SaveFailed ==
    /\ creator = "fail"
    /\ command' = [command EXCEPT !.status = "failed"] /\ creator' = "done"
    /\ UNCHANGED <<program, killer, reader, stream, viewer>>
CreatorDies ==
    /\ creator \notin {"idle", "done"} /\ creator' = "done"
    /\ UNCHANGED <<command, program, killer, reader, stream, viewer>>

KillRead ==
    /\ killer = "idle" /\ command.status # "none"
    /\ killer' = IF command.provider /\ command.status = "running" THEN "interrupt" ELSE "write"
    /\ UNCHANGED <<command, program, creator, reader, stream, viewer>>
\* execd reports an interrupted program as failed; a lost answer ends the request.
Interrupt ==
    /\ killer = "interrupt"
    /\ \E state \in {program.state} \cup (IF program.state = "running" THEN {"failed"} ELSE {}) :
          program' = [program EXCEPT !.state = state]
    /\ killer' \in {"write", "idle"}
    /\ UNCHANGED <<command, creator, reader, stream, viewer>>
KillWrite ==
    /\ killer = "write"
    /\ command' = [command EXCEPT !.status = "killed"] /\ killer' = "idle"
    /\ UNCHANGED <<program, creator, reader, stream, viewer>>

Write ==
    /\ program.state = "running" /\ program.output < MaxOutput
    /\ program' = [program EXCEPT !.output = @ + 1]
    /\ UNCHANGED <<command, creator, killer, reader, stream, viewer>>
Exit ==
    /\ program.state = "running"
    /\ \E state \in {"succeeded", "failed"} : program' = [program EXCEPT !.state = state]
    /\ UNCHANGED <<command, creator, killer, reader, stream, viewer>>
--------------------------------------------------------------------------------
(* Reading the row, refreshed from the provider *)

\* Only a running command with a provider id is refreshed; the row is not locked meanwhile.
RowRead == [at |-> IF command.provider /\ command.status = "running" THEN "get" ELSE "seen",
            status |-> command.status, provider |-> command.provider]
CallerReads ==
    /\ reader["caller"].at = "idle" /\ RowRead.at = "get"
    /\ reader' = [reader EXCEPT !["caller"] = RowRead]
    /\ UNCHANGED <<command, program, creator, killer, stream, viewer>>
GetProgram(r) ==
    /\ reader[r].at = "get"
    /\ reader' = [reader EXCEPT ![r].at = "put", ![r].status = program.state]
    /\ UNCHANGED <<command, program, creator, killer, stream, viewer>>
PutRow(r) ==
    /\ reader[r].at = "put"
    /\ command' = [command EXCEPT !.status = reader[r].status]
    /\ reader' = [reader EXCEPT ![r] = IF r = "stream" THEN [@ EXCEPT !.at = "seen"] ELSE Unread]
    /\ UNCHANGED <<program, creator, killer, stream, viewer>>
--------------------------------------------------------------------------------
(* commandEvents *)

Ev(type, status, at) == [type |-> type, after |-> at.after, source |-> at.source, offset |-> at.offset, status |-> status]
Here == [after |-> stream.offset, source |-> stream.source, offset |-> stream.offset]
CloseWith(event) == [Closed EXCEPT !.events = Append(stream.events, event)]

\* The stream's loop: authorize, read the command, then read the log.
StreamReads ==
    /\ stream.at = "read" /\ reader["stream"].at = "idle"
    /\ reader' = [reader EXCEPT !["stream"] = RowRead]
    /\ UNCHANGED <<command, program, creator, killer, stream, viewer>>

\* What readLogs returns after the offset, or "unreadable" as the code decides.
Unreadable(r) ==
    \/ stream.given /\ (stream.source = "s") = r.provider
    \/ ~r.provider /\ ~Terminal(r.status)
NextOffsetWhileActive(r) == IF r.provider /\ Terminal(r.status) THEN stream.offset ELSE program.output  \* mutant
NextOffset(r) == IF r.provider THEN program.output ELSE 1
StreamSend ==
    LET r == reader["stream"]
        place == [after |-> stream.offset, source |-> IF r.provider THEN "p" ELSE "s", offset |-> NextOffset(r)]
        output == IF NextOffset(r) > stream.offset THEN <<Ev("output", "none", place)>> ELSE <<>>
        status == IF r.status # stream.status THEN <<Ev("status", r.status, place)>> ELSE <<>>
        sent == stream.events \o output \o status
    IN /\ stream.at = "read" /\ r.at = "seen"
       /\ stream' = IF Unreadable(r) THEN CloseWith(Ev("error", "none", Here))
                    ELSE IF Terminal(r.status)
                    THEN [Closed EXCEPT !.events = Append(sent, Ev("complete", r.status, place))]
                    ELSE [stream EXCEPT !.at = "wait", !.source = place.source, !.offset = place.offset,
                                        !.status = r.status, !.events = sent]
       /\ reader' = [reader EXCEPT !["stream"] = Unread]
       /\ UNCHANGED <<command, program, creator, killer, viewer>>

\* A poll, or the end of the stream's 60 seconds.
StreamWaits ==
    /\ stream.at = "wait"
    /\ \/ stream' = [stream EXCEPT !.at = "read"]
       \/ stream' = CloseWith(Ev("reconnect", "none", Here))
    /\ UNCHANGED <<command, program, creator, killer, reader, viewer>>

\* Authorization is revoked or a read fails.
StreamFails ==
    /\ stream.at = "read"
    /\ stream' = CloseWith(Ev("error", "none", Here))
    /\ reader' = [reader EXCEPT !["stream"] = Unread]
    /\ UNCHANGED <<command, program, creator, killer, viewer>>
--------------------------------------------------------------------------------
(* observeCommandStream *)

Connect ==
    /\ viewer.at \in {"idle", "connect"} /\ command.status # "none"
    /\ stream' = [Closed EXCEPT !.at = "read", !.given = viewer.source # "none",
                                !.source = IF viewer.source = "s" THEN "s" ELSE "p", !.offset = viewer.offset]
    /\ viewer' = [viewer EXCEPT !.at = "watch"]
    /\ UNCHANGED <<command, program, creator, killer, reader>>

Pieces(event) == [i \in 1..(event.offset - event.after) |-> event.after + i]
ConsumeKeepingCursor(event) == [viewer EXCEPT !.received = @ \o Pieces(event)]  \* mutant
ConsumeOutput(event) == [viewer EXCEPT !.source = event.source, !.offset = event.offset,
                                       !.received = @ \o Pieces(event)]
Consumed(event) ==
    CASE event.type = "output" -> ConsumeOutput(event)
      [] event.type = "status" -> [viewer EXCEPT !.source = event.source, !.offset = event.offset]
      [] event.type = "complete" -> [viewer EXCEPT !.at = "complete", !.told = event.status]
      [] event.type = "error" -> [viewer EXCEPT !.at = "error"]
      [] event.type = "reconnect" -> [viewer EXCEPT !.at = "connect", !.source = event.source, !.offset = event.offset]
Consume ==
    /\ viewer.at = "watch" /\ stream.events # <<>>
    /\ viewer' = Consumed(Head(stream.events))
    /\ stream' = [stream EXCEPT !.events = Tail(@)]
    /\ UNCHANGED <<command, program, creator, killer, reader>>

\* A connection that cannot be made, breaks or ends with its process; what is in flight is lost.
Disconnect ==
    /\ viewer.at \in {"connect", "watch"}
    /\ viewer' = IF viewer.retries < MaxReconnects
                 THEN [viewer EXCEPT !.at = "connect", !.retries = @ + 1] ELSE [viewer EXCEPT !.at = "error"]
    /\ stream' = Closed /\ reader' = [reader EXCEPT !["stream"] = Unread]
    /\ UNCHANGED <<command, program, creator, killer>>
--------------------------------------------------------------------------------
StreamStep == StreamReads \/ GetProgram("stream") \/ PutRow("stream") \/ StreamSend \/ StreamWaits
ViewerStep == Connect \/ Consume

Next ==
    \/ InsertCommand \/ StartProgram \/ SaveStarted \/ SaveFailed \/ CreatorDies
    \/ KillRead \/ Interrupt \/ KillWrite \/ Write \/ Exit
    \/ CallerReads \/ GetProgram("caller") \/ PutRow("caller")
    \/ StreamStep \/ StreamFails \/ ViewerStep \/ Disconnect

Spec == Init /\ [][Next]_commandVars
\* The stream's loop and the observer's loop run; nobody has to start, read or kill.
FairSpec == Spec /\ WF_commandVars(StreamStep) /\ WF_commandVars(ViewerStep)
--------------------------------------------------------------------------------
(* Every piece of output reaches the viewer once and in order, over any    *)
(* number of connections that rotate or break with events in flight.       *)
OutputOnce == viewer.received = [i \in 1..Len(viewer.received) |-> i]

(* A viewer told that the command succeeded has received all it wrote: the *)
(* stream reads the status before the log (command-events.ts:36,42).       *)
SucceededMeansAll == viewer.told = "succeeded" => Len(viewer.received) = program.output

(* Once the program has ended, its viewer comes to an end too, whichever   *)
(* writer's status is the row's last: the start's, a refresh's, a kill's.  *)
ViewerEnds ==
    (program.state \in {"succeeded", "failed"} /\ viewer.at \in {"connect", "watch"})
        ~> viewer.at \in {"complete", "error"}
================================================================================
