----------------------------- MODULE MCDeliveryProofs -----------------------------
(***************************************************************************)
(* The output of a command arrives once, in order and, when the command is *)
(* said to have succeeded, complete: for any length of the output and any  *)
(* number of connections.  The invariant follows the events in flight from *)
(* the cursor of the viewer to the offset of the stream.                   *)
(***************************************************************************)
EXTENDS MCDelivery, Sequences, SequenceTheorems, TLAPS

(* A step about a credential leaves the command alone. *)
LEMMA ImplementsExecution == Spec => Execution!Spec
<1>1. Init => Execution!Init
  BY DEF Init
<1>2. [Next]_vars => [Execution!Next]_(Execution!commandVars)
  BY DEF Next, OfCredential, OfCommand, vars, commandVars, Execution!commandVars
<1> QED
  BY <1>1, <1>2, PTL DEF Spec, Execution!Spec
--------------------------------------------------------------------------------
(* An event that the viewer may receive.                                   *)
Message == [type : {"output", "status", "complete", "error", "reconnect"}, after : Nat,
            source : {"p", "s"}, offset : Nat, status : Execution!Status]

(* An event carries on where the one before it ended. *)
Follows(e, from) ==
    IF e.type = "output" THEN e.after = from /\ e.offset > from ELSE e.offset = from
Cursor(q, from, i) == IF i = 0 THEN from ELSE q[i].offset
(* The events that carry on from a cursor, and where they end.             *)
Chain(q, from) ==
    q \in Seq(Message) /\ \A i \in 1..Len(q) : Follows(q[i], Cursor(q, from, i - 1))
Events(q) == {q[i] : i \in 1..Len(q)}

LEMMA EmptyChain ==
  ASSUME NEW from \in Nat
  PROVE  Chain(<<>>, from) /\ Cursor(<<>>, from, Len(<<>>)) = from /\ Events(<<>>) = {}
  BY EmptySeq DEF Chain, Cursor, Events

LEMMA LongerChain ==
  ASSUME NEW from \in Nat, NEW q, Chain(q, from), NEW e \in Message, Follows(e, Cursor(q, from, Len(q)))
  PROVE  /\ Chain(Append(q, e), from)
         /\ Cursor(Append(q, e), from, Len(Append(q, e))) = e.offset
         /\ Events(Append(q, e)) = Events(q) \cup {e}
<1>1. q \in Seq(Message) /\ Len(q) \in Nat
  BY LenProperties DEF Chain
<1>2. /\ Append(q, e) \in Seq(Message) /\ Len(Append(q, e)) = Len(q) + 1
      /\ \A i \in 1..Len(q) : Append(q, e)[i] = q[i]
      /\ Append(q, e)[Len(q) + 1] = e
  BY <1>1, AppendProperties
<1>3. ASSUME NEW i \in 1..Len(Append(q, e)) PROVE Follows(Append(q, e)[i], Cursor(Append(q, e), from, i - 1))
  <2>1. CASE i = Len(q) + 1
    <3>1. Cursor(Append(q, e), from, i - 1) = Cursor(q, from, Len(q))
      BY <1>1, <1>2, <2>1 DEF Cursor
    <3> QED
      BY <1>2, <2>1, <3>1
  <2>2. CASE i \in 1..Len(q)
    <3>1. Cursor(Append(q, e), from, i - 1) = Cursor(q, from, i - 1)
      BY <1>1, <1>2, <2>2 DEF Cursor
    <3>2. Append(q, e)[i] = q[i]
      BY <1>2, <2>2
    <3>3. Follows(q[i], Cursor(q, from, i - 1))
      BY <2>2 DEF Chain
    <3> QED
      BY <3>1, <3>2, <3>3
  <2> QED
    BY <1>1, <1>2, <2>1, <2>2
<1>4. Events(Append(q, e)) = Events(q) \cup {e}
  <2>1. 1..Len(Append(q, e)) = 1..Len(q) \cup {Len(q) + 1}
    BY <1>1, <1>2
  <2> QED
    BY <1>1, <1>2, <2>1 DEF Events
<1>5. Cursor(Append(q, e), from, Len(Append(q, e))) = e.offset
  BY <1>1, <1>2 DEF Cursor
<1> QED
  BY <1>2, <1>3, <1>4, <1>5 DEF Chain

LEMMA ShorterChain ==
  ASSUME NEW from \in Nat, NEW q, Chain(q, from), q # <<>>
  PROVE  /\ Head(q) \in Message /\ Head(q) \in Events(q) /\ Follows(Head(q), from)
         /\ Chain(Tail(q), Head(q).offset)
         /\ Cursor(Tail(q), Head(q).offset, Len(Tail(q))) = Cursor(q, from, Len(q))
         /\ Events(Tail(q)) \subseteq Events(q)
<1>1. q \in Seq(Message) /\ Len(q) \in Nat \ {0}
  BY EmptySeq DEF Chain
<1>2. /\ Head(q) \in Message /\ Tail(q) \in Seq(Message) /\ Len(Tail(q)) = Len(q) - 1
      /\ \A i \in 1..Len(Tail(q)) : Tail(q)[i] = q[i + 1]
  BY <1>1, HeadTailProperties
<1>3. Head(q) = q[1] /\ 1 \in 1..Len(q)
  BY <1>1
<1>4. Follows(Head(q), from)
  BY <1>1, <1>3 DEF Chain, Cursor
<1>5. ASSUME NEW i \in 1..Len(Tail(q)) PROVE Follows(Tail(q)[i], Cursor(Tail(q), Head(q).offset, i - 1))
  <2>1. i + 1 \in 1..Len(q) /\ Follows(q[i + 1], Cursor(q, from, i))
    BY <1>1, <1>2 DEF Chain
  <2>2. Cursor(Tail(q), Head(q).offset, i - 1) = Cursor(q, from, i)
    <3>1. CASE i = 1
      BY <1>3, <3>1 DEF Cursor
    <3>2. CASE i # 1
      <4>1. i - 1 \in 1..Len(Tail(q))
        BY <1>1, <1>2, <3>2
      <4> QED
        BY <1>2, <3>2, <4>1 DEF Cursor
    <3> QED
      BY <3>1, <3>2
  <2> QED
    BY <1>2, <2>1, <2>2
<1>6. Cursor(Tail(q), Head(q).offset, Len(Tail(q))) = Cursor(q, from, Len(q))
  <2>1. CASE Len(q) = 1
    BY <1>1, <1>2, <1>3, <2>1 DEF Cursor
  <2>2. CASE Len(q) # 1
    <3>1. Len(Tail(q)) \in 1..Len(Tail(q))
      BY <1>1, <1>2, <2>2
    <3> QED
      BY <1>1, <1>2, <3>1 DEF Cursor
  <2> QED
    BY <2>1, <2>2
<1>7. Events(Tail(q)) \subseteq Events(q)
  <2> SUFFICES ASSUME NEW i \in 1..Len(Tail(q)) PROVE Tail(q)[i] \in Events(q)
    BY DEF Events
  <2>1. i + 1 \in 1..Len(q)
    BY <1>1, <1>2
  <2> QED
    BY <1>2, <2>1 DEF Events
<1>8. Head(q) \in Events(q)
  BY <1>3 DEF Events
<1> QED
  BY <1>2, <1>4, <1>5, <1>6, <1>7, <1>8 DEF Chain

(* The pieces of output numbered up to n, each once and in order. *)
Pieced(s, n) == s \in Seq(Nat) /\ Len(s) = n /\ \A i \in 1..n : s[i] = i

LEMMA MorePieces ==
  ASSUME NEW n \in Nat, NEW m \in Nat, n < m, NEW s, Pieced(s, n)
  PROVE  Pieced(s \o [i \in 1..(m - n) |-> n + i], m)
<1> DEFINE t == [i \in 1..(m - n) |-> n + i]
<1>1. m - n \in Nat /\ n + (m - n) = m
  OBVIOUS
<1>2. t \in Seq(Nat) /\ Len(t) = m - n
  BY <1>1
<1>3. s \in Seq(Nat) /\ Len(s) = n /\ \A i \in 1..n : s[i] = i
  BY DEF Pieced
<1>4. \A i \in 1..(m - n) : t[i] = n + i
  OBVIOUS
<1> HIDE DEF t
<1>5. /\ s \o t \in Seq(Nat) /\ Len(s \o t) = Len(s) + Len(t)
      /\ \A i \in 1..(Len(s) + Len(t)) : (s \o t)[i] = IF i <= Len(s) THEN s[i] ELSE t[i - Len(s)]
  BY <1>2, <1>3, ConcatProperties, Zenon
<1>6. Len(s) + Len(t) = m
  BY <1>1, <1>2, <1>3
<1>7. ASSUME NEW i \in 1..m PROVE (s \o t)[i] = i
  <2>1. (s \o t)[i] = IF i <= n THEN s[i] ELSE t[i - n]
    BY <1>3, <1>5, <1>6
  <2>2. CASE i <= n
    BY <1>3, <2>1, <2>2
  <2>3. CASE ~(i <= n)
    <3>1. i - n \in 1..(m - n) /\ n + (i - n) = i
      BY <2>3
    <3> QED
      BY <1>4, <2>1, <2>3, <3>1
  <2> QED
    BY <2>2, <2>3
<1>8. Pieced(s \o t, m)
  BY <1>5, <1>6, <1>7 DEF Pieced
<1> QED
  BY <1>8 DEF t

LEMMA PerhapsLonger ==
  ASSUME NEW from \in Nat, NEW q, Chain(q, from), NEW e \in Message, NEW P \in BOOLEAN,
         P => Follows(e, Cursor(q, from, Len(q)))
  PROVE  LET r == q \o (IF P THEN <<e>> ELSE <<>>) IN
         /\ Chain(r, from)
         /\ Cursor(r, from, Len(r)) = (IF P THEN e.offset ELSE Cursor(q, from, Len(q)))
         /\ Events(r) \subseteq Events(q) \cup {e}
<1>1. q \in Seq(Message)
  BY DEF Chain
<1>2. CASE P
  <2>1. q \o <<e>> = Append(q, e)
    BY <1>1, AppendIsConcat
  <2>2. q \o (IF P THEN <<e>> ELSE <<>>) = Append(q, e)
    BY <1>2, <2>1
  <2>3. Follows(e, Cursor(q, from, Len(q)))
    BY <1>2
  <2>4. /\ Chain(Append(q, e), from)
        /\ Cursor(Append(q, e), from, Len(Append(q, e))) = e.offset
        /\ Events(Append(q, e)) = Events(q) \cup {e}
    BY <2>3, LongerChain
  <2> QED
    BY <1>2, <2>2, <2>4
<1>3. CASE ~P
  <2>1. q \o <<>> = q
    BY <1>1, ConcatEmptySeq
  <2>2. q \o (IF P THEN <<e>> ELSE <<>>) = q
    BY <1>3, <2>1
  <2> QED
    BY <1>3, <2>2
<1> QED
  BY <1>2, <1>3

(* What a read of the row, a connection and the observer keep.            *)
Refresh == [at : {"idle", "get", "put", "seen"}, status : Execution!Status, provider : BOOLEAN]
Connection == [at : {"closed", "read", "wait"}, given : BOOLEAN, source : {"p", "s"},
               offset : Nat, status : Execution!Status, events : Seq(Message)]
Observer == [at : {"idle", "connect", "watch", "complete", "error"}, source : Execution!Source,
             offset : Nat, received : Seq(Nat), retries : Nat, told : Execution!Status]

(* The types of the state, whatever the bounds.                            *)
Kinds ==
    /\ command \in [status : Execution!Status, provider : BOOLEAN]
    /\ program \in [state : {"none", "running", "succeeded", "failed"}, output : Nat]
    /\ creator \in {"idle", "start", "save", "fail", "done"}
    /\ killer \in {"idle", "interrupt", "write"}
    /\ reader \in [Execution!Reader -> Refresh]
    /\ stream \in Connection
    /\ viewer \in Observer

(* No program runs before its start was requested.                         *)
Started == creator \in {"idle", "start"} => program.state = "none"

(* The row says succeeded only of a program that did.                      *)
RowTrue == command.status = "succeeded" => program.state = "succeeded" /\ command.provider

(* What a refresh has read of the row and of the provider stays true.      *)
ReaderTrue(r) ==
    LET read == reader[r] IN
    /\ read.at # "idle" /\ read.provider => command.provider
    /\ read.at \in {"get", "put"} => read.provider
    /\ read.at \in {"put", "seen"} /\ read.status = "succeeded" => program.state = "succeeded" /\ read.provider

(* A stream is open for its viewer alone, at an offset the log has reached. *)
StreamTrue ==
    /\ viewer.at # "watch" => stream.at = "closed"
    /\ stream.at # "read" => reader["stream"].at = "idle"
    /\ stream.at # "closed" =>
          /\ stream.source = "p" => stream.offset <= program.output
          /\ stream.source = "s" => stream.offset <= 1
          /\ ~stream.given /\ stream.offset > 0 =>
                /\ stream.source = "p" /\ command.provider
                /\ reader["stream"].at # "idle" => reader["stream"].provider

(* What an event in flight says is true, and the last one closes the stream. *)
EventTrue(e) ==
    /\ e.source = "p" => e.offset <= program.output
    /\ e.source = "s" => e.offset <= 1
    /\ e.type = "complete" /\ e.status = "succeeded" => e.offset = program.output /\ program.state = "succeeded"
    /\ e.type \in {"complete", "error", "reconnect"} => stream.at = "closed"

(* The events in flight carry on from the viewer to the stream.            *)
InFlight ==
    viewer.at = "watch" =>
        /\ Chain(stream.events, viewer.offset)
        /\ stream.at # "closed" => Cursor(stream.events, viewer.offset, Len(stream.events)) = stream.offset
        /\ \A e \in Events(stream.events) : EventTrue(e)

(* The viewer has received what its cursor says.                           *)
ViewerTrue ==
    /\ Pieced(viewer.received, viewer.offset)
    /\ viewer.source = "none" => viewer.offset = 0
    /\ viewer.source = "p" => viewer.offset <= program.output
    /\ viewer.source = "s" => viewer.offset <= 1
    /\ viewer.told # "none" => viewer.at = "complete"
    /\ viewer.told = "succeeded" => viewer.offset = program.output /\ program.state = "succeeded"

CommandInv ==
    Kinds /\ Started /\ RowTrue /\ (\A r \in Execution!Reader : ReaderTrue(r)) /\ StreamTrue /\ InFlight /\ ViewerTrue

LEMMA RowFields ==
  ASSUME Kinds
  PROVE  /\ command.status \in Execution!Status /\ command.provider \in BOOLEAN
         /\ program.state \in {"none", "running", "succeeded", "failed"} /\ program.output \in Nat
         /\ \A r \in Execution!Reader : /\ reader[r].at \in {"idle", "get", "put", "seen"} /\ reader[r].status \in Execution!Status
                              /\ reader[r].provider \in BOOLEAN
         /\ "stream" \in Execution!Reader /\ "caller" \in Execution!Reader /\ "none" \in Execution!Status
         /\ stream.at \in {"closed", "read", "wait"} /\ stream.given \in BOOLEAN /\ stream.source \in {"p", "s"}
         /\ stream.offset \in Nat /\ stream.status \in Execution!Status /\ stream.events \in Seq(Message)
         /\ viewer.at \in {"idle", "connect", "watch", "complete", "error"} /\ viewer.source \in Execution!Source
         /\ viewer.offset \in Nat /\ viewer.received \in Seq(Nat) /\ viewer.retries \in Nat /\ viewer.told \in Execution!Status
         /\ \A e \in Events(stream.events) : e \in Message /\ e.after \in Nat /\ e.offset \in Nat
<1>1. /\ command \in [status : Execution!Status, provider : BOOLEAN] /\ reader \in [Execution!Reader -> Refresh]
      /\ program \in [state : {"none", "running", "succeeded", "failed"}, output : Nat]
      /\ stream \in Connection /\ viewer \in Observer
  BY DEF Kinds
<1>2. "stream" \in Execution!Reader /\ "caller" \in Execution!Reader /\ "none" \in Execution!Status
  BY DEF Execution!Reader, Execution!Status
<1>3. stream.events \in Seq(Message)
  BY <1>1 DEF Connection
<1>4. \A e \in Events(stream.events) : e \in Message
  BY <1>3 DEF Events
<1>5. \A e \in Message : e.after \in Nat /\ e.offset \in Nat
  BY DEF Message
<1>6. \A r \in Execution!Reader : reader[r] \in Refresh
  BY <1>1
<1> QED
  BY <1>1, <1>2, <1>3, <1>4, <1>5, <1>6 DEF Refresh, Connection, Observer

LEMMA Blank ==
  /\ Execution!Closed \in Connection /\ Execution!Unread \in Refresh
  /\ \A q \in Seq(Message) : [Execution!Closed EXCEPT !.events = q] \in Connection
<1>1. Execution!Closed \in Connection
  BY EmptySeq DEF Execution!Closed, Connection, Execution!Status
<1>2. \A q \in Seq(Message) : [Execution!Closed EXCEPT !.events = q] \in Connection
  BY <1>1, Zenon DEF Connection
<1> QED
  BY <1>1, <1>2 DEF Execution!Unread, Refresh, Execution!Status

LEMMA Messages ==
  ASSUME NEW type \in {"output", "status", "complete", "error", "reconnect"}, NEW status \in Execution!Status,
         NEW after \in Nat, NEW src \in {"p", "s"}, NEW offset \in Nat
  PROVE  LET e == Execution!Ev(type, status, [after |-> after, source |-> src, offset |-> offset]) IN
         /\ e \in Message
         /\ e.type = type /\ e.status = status /\ e.after = after /\ e.source = src /\ e.offset = offset
  BY DEF Execution!Ev, Message

(* What the stream sends after a read of the log.                          *)
Place == [after |-> stream.offset, source |-> IF reader["stream"].provider THEN "p" ELSE "s",
          offset |-> Execution!NextOffset(reader["stream"])]
SentOutput == stream.events \o (IF Execution!NextOffset(reader["stream"]) > stream.offset THEN <<Execution!Ev("output", "none", Place)>> ELSE <<>>)
Sent == SentOutput \o (IF reader["stream"].status # stream.status
                       THEN <<Execution!Ev("status", reader["stream"].status, Place)>> ELSE <<>>)

LEMMA Sends ==
  ASSUME Execution!StreamSend
  PROVE  /\ stream.at = "read" /\ reader["stream"].at = "seen"
         /\ reader' = [reader EXCEPT !["stream"] = Execution!Unread]
         /\ UNCHANGED <<command, program, creator, killer, viewer>>
         /\ Execution!Unreadable(reader["stream"]) => stream' = Execution!CloseWith(Execution!Ev("error", "none", Execution!Here))
         /\ ~Execution!Unreadable(reader["stream"]) /\ Execution!Terminal(reader["stream"].status) =>
               stream' = [Execution!Closed EXCEPT !.events = Append(Sent, Execution!Ev("complete", reader["stream"].status, Place))]
         /\ ~Execution!Unreadable(reader["stream"]) /\ ~Execution!Terminal(reader["stream"].status) =>
               stream' = [stream EXCEPT !.at = "wait", !.source = IF reader["stream"].provider THEN "p" ELSE "s",
                                        !.offset = Execution!NextOffset(reader["stream"]),
                                        !.status = reader["stream"].status, !.events = Sent]
  BY DEF Execution!StreamSend, Sent, SentOutput, Place

LEMMA Readable ==
  ASSUME CommandInv, stream.at = "read", reader["stream"].at = "seen", ~Execution!Unreadable(reader["stream"])
  PROVE  /\ Execution!NextOffset(reader["stream"]) \in Nat /\ stream.offset <= Execution!NextOffset(reader["stream"])
         /\ reader["stream"].provider => Execution!NextOffset(reader["stream"]) = program.output
         /\ ~reader["stream"].provider => Execution!NextOffset(reader["stream"]) = 1 /\ Execution!Terminal(reader["stream"].status)
<1>1. Kinds /\ StreamTrue
  BY DEF CommandInv
<1> QED
  BY <1>1, RowFields, SMTT(20) DEF StreamTrue, Execution!Unreadable, Execution!NextOffset

(* What is sent carries on to where the log was read.                      *)
LEMMA Sending ==
  ASSUME CommandInv, stream.at = "read", reader["stream"].at = "seen", ~Execution!Unreadable(reader["stream"])
  PROVE  /\ Chain(Sent, viewer.offset)
         /\ Cursor(Sent, viewer.offset, Len(Sent)) = Execution!NextOffset(reader["stream"])
         /\ \A e \in Events(Sent) : e.type # "complete" /\ EventTrue(e) /\ e.type \notin {"error", "reconnect"}
<1> DEFINE r == reader["stream"]
           n == Execution!NextOffset(r)
           output == Execution!Ev("output", "none", Place)
           status == Execution!Ev("status", r.status, Place)
<1>1. Kinds /\ StreamTrue /\ InFlight
  BY DEF CommandInv
<1>2. viewer.at = "watch"
  BY <1>1 DEF StreamTrue
<1>3. /\ Chain(stream.events, viewer.offset)
      /\ Cursor(stream.events, viewer.offset, Len(stream.events)) = stream.offset
      /\ \A e \in Events(stream.events) : EventTrue(e)
  BY <1>1, <1>2 DEF InFlight
<1>4. n \in Nat /\ stream.offset \in Nat /\ viewer.offset \in Nat /\ stream.offset <= n /\ r.status \in Execution!Status
  BY <1>1, RowFields, Readable
<1>5. /\ output \in Message /\ output.type = "output" /\ output.after = stream.offset /\ output.offset = n
      /\ output.source = (IF r.provider THEN "p" ELSE "s")
      /\ status \in Message /\ status.type = "status" /\ status.offset = n
      /\ status.source = (IF r.provider THEN "p" ELSE "s")
  BY <1>1, <1>4, RowFields, Messages DEF Place
<1>6. EventTrue(output) /\ EventTrue(status)
  BY <1>4, <1>5, Readable DEF EventTrue
<1> HIDE DEF output, status
<1>7. n > stream.offset => Follows(output, Cursor(stream.events, viewer.offset, Len(stream.events)))
  BY <1>3, <1>5 DEF Follows
<1>8. /\ Chain(SentOutput, viewer.offset)
      /\ Cursor(SentOutput, viewer.offset, Len(SentOutput)) = IF n > stream.offset THEN output.offset ELSE stream.offset
      /\ Events(SentOutput) \subseteq Events(stream.events) \cup {output}
  <2> DEFINE P == n > stream.offset
  <2>1. SentOutput = stream.events \o (IF P THEN <<output>> ELSE <<>>)
    BY DEF SentOutput, output
  <2>2. P \in BOOLEAN /\ (P => Follows(output, Cursor(stream.events, viewer.offset, Len(stream.events))))
    BY <1>7
  <2> HIDE DEF P
  <2>3. /\ Chain(SentOutput, viewer.offset)
        /\ Cursor(SentOutput, viewer.offset, Len(SentOutput))
              = IF P THEN output.offset ELSE Cursor(stream.events, viewer.offset, Len(stream.events))
        /\ Events(SentOutput) \subseteq Events(stream.events) \cup {output}
    BY <1>3, <1>4, <1>5, <2>1, <2>2, PerhapsLonger
  <2> QED
    BY <1>3, <2>3 DEF P
<1>9. Cursor(SentOutput, viewer.offset, Len(SentOutput)) = n
  BY <1>4, <1>5, <1>8
<1>10. Follows(status, Cursor(SentOutput, viewer.offset, Len(SentOutput)))
  BY <1>5, <1>9 DEF Follows
<1>11. /\ Chain(Sent, viewer.offset)
       /\ Cursor(Sent, viewer.offset, Len(Sent)) = n
       /\ Events(Sent) \subseteq Events(SentOutput) \cup {status}
  <2>1. Sent = SentOutput \o (IF r.status # stream.status THEN <<status>> ELSE <<>>)
    BY DEF Sent, status
  <2>2. (r.status # stream.status) \in BOOLEAN
    OBVIOUS
  <2>3. /\ Chain(Sent, viewer.offset)
        /\ Cursor(Sent, viewer.offset, Len(Sent))
              = IF r.status # stream.status THEN status.offset ELSE Cursor(SentOutput, viewer.offset, Len(SentOutput))
        /\ Events(Sent) \subseteq Events(SentOutput) \cup {status}
    BY <1>4, <1>5, <1>8, <1>10, <2>1, <2>2, PerhapsLonger, ZenonT(60)
  <2> QED
    BY <1>5, <1>9, <2>3
<1>12. \A e \in Events(stream.events) : e.type \notin {"complete", "error", "reconnect"}
  BY <1>3 DEF EventTrue
<1> QED
  BY <1>3, <1>5, <1>6, <1>8, <1>11, <1>12

(* A stream that ends without its command stays where it is.               *)
LEMMA Closing ==
  ASSUME CommandInv, stream.at # "closed", NEW type \in {"error", "reconnect"},
         stream' = Execution!CloseWith(Execution!Ev(type, "none", Execution!Here)), UNCHANGED <<program, viewer>>
  PROVE  stream' \in Connection /\ stream'.at = "closed" /\ InFlight'
<1> DEFINE e == Execution!Ev(type, "none", Execution!Here)
<1>1. Kinds /\ StreamTrue /\ InFlight /\ viewer.at = "watch"
  BY DEF CommandInv, StreamTrue
<1>2. /\ Chain(stream.events, viewer.offset)
      /\ Cursor(stream.events, viewer.offset, Len(stream.events)) = stream.offset
      /\ \A f \in Events(stream.events) : EventTrue(f)
  BY <1>1 DEF InFlight
<1>3. e \in Message /\ e.type = type /\ e.offset = stream.offset /\ e.source = stream.source
  BY <1>1, RowFields, Messages DEF Execution!Here
<1>4. e.source = "p" => e.offset <= program.output
  BY <1>1, <1>3 DEF StreamTrue
<1>5. e.source = "s" => e.offset <= 1
  BY <1>1, <1>3 DEF StreamTrue
<1>6. stream' = [Execution!Closed EXCEPT !.events = Append(stream.events, e)]
  BY DEF Execution!CloseWith
<1> HIDE DEF e
<1>7. stream'.at = "closed" /\ stream'.events = Append(stream.events, e)
  BY <1>6 DEF Execution!Closed
<1>8. Follows(e, Cursor(stream.events, viewer.offset, Len(stream.events)))
  BY <1>2, <1>3 DEF Follows
<1>9. /\ Chain(stream'.events, viewer.offset)
      /\ Events(stream'.events) = Events(stream.events) \cup {e}
  <2>1. viewer.offset \in Nat
    BY <1>1, RowFields
  <2>2. /\ Chain(Append(stream.events, e), viewer.offset)
        /\ Events(Append(stream.events, e)) = Events(stream.events) \cup {e}
    BY <1>2, <1>3, <1>8, <2>1, LongerChain
  <2> QED
    BY <1>7, <2>2
<1>10. stream' \in Connection
  <2>1. Append(stream.events, e) \in Seq(Message)
    BY <1>7, <1>9 DEF Chain
  <2> QED
    BY <1>6, <2>1, Blank
<1>11. ASSUME NEW f \in Events(stream'.events) PROVE EventTrue(f)'
  <2>1. CASE f = e
    BY <1>3, <1>4, <1>5, <1>7, <2>1 DEF EventTrue
  <2>2. CASE f \in Events(stream.events)
    BY <1>2, <1>7, <2>2 DEF EventTrue
  <2> QED
    BY <1>9, <2>1, <2>2
<1>12. InFlight'
  BY <1>7, <1>9, <1>11 DEF InFlight
<1> QED
  BY <1>7, <1>10, <1>12

(* A stream ends with its command only after all the output.               *)
LEMMA Completing ==
  ASSUME CommandInv, Execution!StreamSend, ~Execution!Unreadable(reader["stream"]), Execution!Terminal(reader["stream"].status)
  PROVE  stream' \in Connection /\ stream'.at = "closed" /\ InFlight'
<1> DEFINE r == reader["stream"]
           e == Execution!Ev("complete", r.status, Place)
<1>1. /\ Kinds /\ stream.at = "read" /\ r.at = "seen" /\ UNCHANGED <<program, viewer>>
      /\ stream' = [Execution!Closed EXCEPT !.events = Append(Sent, e)]
  BY Sends DEF CommandInv
<1>2. /\ Chain(Sent, viewer.offset)
      /\ Cursor(Sent, viewer.offset, Len(Sent)) = Execution!NextOffset(r)
      /\ \A f \in Events(Sent) : EventTrue(f) /\ f.type \notin {"complete", "error", "reconnect"}
  BY <1>1, Sending
<1>3. /\ Execution!NextOffset(r) \in Nat
      /\ r.provider => Execution!NextOffset(r) = program.output
      /\ ~r.provider => Execution!NextOffset(r) = 1
  BY <1>1, Readable
<1>4. /\ e \in Message /\ e.type = "complete" /\ e.offset = Execution!NextOffset(r) /\ e.status = r.status
      /\ e.source = (IF r.provider THEN "p" ELSE "s")
  BY <1>1, <1>3, RowFields, Messages DEF Place
<1>5. r.status = "succeeded" => program.state = "succeeded" /\ r.provider
  BY <1>1, RowFields DEF CommandInv, ReaderTrue
<1> HIDE DEF e
<1>6. stream'.at = "closed" /\ stream'.events = Append(Sent, e)
  BY <1>1 DEF Execution!Closed
<1>7. Follows(e, Cursor(Sent, viewer.offset, Len(Sent)))
  BY <1>2, <1>4 DEF Follows
<1>8. Chain(stream'.events, viewer.offset) /\ Events(stream'.events) = Events(Sent) \cup {e}
  BY <1>1, <1>2, <1>4, <1>6, <1>7, RowFields, LongerChain
<1>9. stream' \in Connection
  <2>1. Append(Sent, e) \in Seq(Message)
    BY <1>6, <1>8 DEF Chain
  <2> QED
    BY <1>1, <2>1, Blank
<1>10. ASSUME NEW f \in Events(stream'.events) PROVE EventTrue(f)'
  <2>1. CASE f = e
    BY <1>1, <1>3, <1>4, <1>5, <1>6, <2>1, RowFields DEF EventTrue
  <2>2. CASE f \in Events(Sent)
    BY <1>1, <1>2, <1>6, <2>2 DEF EventTrue
  <2> QED
    BY <1>8, <2>1, <2>2
<1>11. InFlight'
  BY <1>1, <1>6, <1>8, <1>10 DEF InFlight
<1> QED
  BY <1>6, <1>9, <1>11

LEMMA Continuing ==
  ASSUME CommandInv, Execution!StreamSend, ~Execution!Unreadable(reader["stream"]), ~Execution!Terminal(reader["stream"].status)
  PROVE  stream' \in Connection /\ InFlight'
<1> DEFINE r == reader["stream"]
<1>1. /\ Kinds /\ stream.at = "read" /\ r.at = "seen" /\ UNCHANGED <<program, viewer>>
      /\ stream' = [stream EXCEPT !.at = "wait", !.source = IF r.provider THEN "p" ELSE "s",
                                  !.offset = Execution!NextOffset(r), !.status = r.status, !.events = Sent]
  BY Sends DEF CommandInv
<1>2. /\ Chain(Sent, viewer.offset)
      /\ Cursor(Sent, viewer.offset, Len(Sent)) = Execution!NextOffset(r)
      /\ \A f \in Events(Sent) : EventTrue(f) /\ f.type \notin {"complete", "error", "reconnect"}
  BY <1>1, Sending
<1>3. Execution!NextOffset(r) \in Nat /\ r.status \in Execution!Status
  BY <1>1, RowFields, Readable
<1>4. Sent \in Seq(Message) /\ stream \in Connection
  BY <1>1, <1>2 DEF Chain, Kinds
<1>5. stream' \in Connection
  <2>1. (IF r.provider THEN "p" ELSE "s") \in {"p", "s"}
    OBVIOUS
  <2> HIDE DEF r
  <2> QED
    BY <1>1, <1>3, <1>4, <2>1, Zenon DEF Connection
<1>6. stream'.at = "wait" /\ stream'.offset = Execution!NextOffset(r) /\ stream'.events = Sent
  BY <1>1, <1>4 DEF Connection
<1>7. ASSUME NEW f \in Events(stream'.events) PROVE EventTrue(f)'
  BY <1>1, <1>2, <1>6, <1>7 DEF EventTrue
<1>8. InFlight'
  BY <1>1, <1>2, <1>6, <1>7 DEF InFlight
<1> QED
  BY <1>5, <1>8

(* The viewer takes the next event, which carries on from its cursor.      *)
LEMMA Consuming ==
  ASSUME CommandInv, Execution!Consume
  PROVE  LET e == Head(stream.events) IN
         /\ viewer.at = "watch" /\ viewer' = Execution!Consumed(e) /\ stream' = [stream EXCEPT !.events = Tail(@)]
         /\ UNCHANGED <<command, program, creator, killer, reader>>
         /\ e \in Message /\ EventTrue(e) /\ Follows(e, viewer.offset)
         /\ Tail(stream.events) \in Seq(Message) /\ Chain(Tail(stream.events), e.offset)
         /\ stream.at # "closed" =>
               Cursor(Tail(stream.events), e.offset, Len(Tail(stream.events))) = stream.offset
         /\ \A f \in Events(Tail(stream.events)) : EventTrue(f)
<1>1. /\ viewer.at = "watch" /\ stream.events # <<>>
      /\ viewer' = Execution!Consumed(Head(stream.events)) /\ stream' = [stream EXCEPT !.events = Tail(@)]
      /\ UNCHANGED <<command, program, creator, killer, reader>>
  BY DEF Execution!Consume
<1>2. Kinds /\ InFlight
  BY DEF CommandInv
<1>3. /\ Chain(stream.events, viewer.offset)
      /\ stream.at # "closed" => Cursor(stream.events, viewer.offset, Len(stream.events)) = stream.offset
      /\ \A e \in Events(stream.events) : EventTrue(e)
  BY <1>1, <1>2 DEF InFlight
<1>4. viewer.offset \in Nat
  BY <1>2, RowFields
<1>5. /\ Head(stream.events) \in Message /\ Head(stream.events) \in Events(stream.events)
      /\ Follows(Head(stream.events), viewer.offset)
      /\ Chain(Tail(stream.events), Head(stream.events).offset)
      /\ Cursor(Tail(stream.events), Head(stream.events).offset, Len(Tail(stream.events)))
            = Cursor(stream.events, viewer.offset, Len(stream.events))
      /\ Events(Tail(stream.events)) \subseteq Events(stream.events)
  BY <1>1, <1>3, <1>4, ShorterChain
<1> QED
  BY <1>1, <1>3, <1>5 DEF Chain

LEMMA KindsKept == ASSUME CommandInv, [Execution!Next]_(Execution!commandVars) PROVE Kinds'
<1>1. command \in [status : Execution!Status, provider : BOOLEAN]
  BY DEF Kinds, CommandInv
<1>2. program \in [state : {"none", "running", "succeeded", "failed"}, output : Nat]
  BY DEF Kinds, CommandInv
<1>3. creator \in {"idle", "start", "save", "fail", "done"}
  BY DEF Kinds, CommandInv
<1>4. killer \in {"idle", "interrupt", "write"}
  BY DEF Kinds, CommandInv
<1>5. reader \in [Execution!Reader -> Refresh]
  BY DEF Kinds, CommandInv
<1>6. stream \in Connection
  BY DEF Kinds, CommandInv
<1>7. viewer \in Observer
  BY DEF Kinds, CommandInv
<1>8. ASSUME Execution!InsertCommand PROVE Kinds'
  <2>1. command' \in [status : Execution!Status, provider : BOOLEAN]
    BY <1>8, <1>1, Zenon DEF Execution!InsertCommand, Execution!Status
  <2>2. creator' \in {"idle", "start", "save", "fail", "done"}
    BY <1>8, <1>3, Zenon DEF Execution!InsertCommand
  <2>3. UNCHANGED <<program, killer, reader, stream, viewer>>
    BY <1>8 DEF Execution!InsertCommand
  <2> QED
    BY <1>1, <1>2, <1>3, <1>4, <1>5, <1>6, <1>7, <2>1, <2>2, <2>3 DEF Kinds
<1>9. ASSUME Execution!StartProgram PROVE Kinds'
  <2>1. program' \in [state : {"none", "running", "succeeded", "failed"}, output : Nat]
    BY <1>9, <1>2, Zenon DEF Execution!StartProgram
  <2>2. creator' \in {"idle", "start", "save", "fail", "done"}
    BY <1>9, <1>3, Zenon DEF Execution!StartProgram
  <2>3. UNCHANGED <<command, killer, reader, stream, viewer>>
    BY <1>9 DEF Execution!StartProgram
  <2> QED
    BY <1>1, <1>2, <1>3, <1>4, <1>5, <1>6, <1>7, <2>1, <2>2, <2>3 DEF Kinds
<1>10. ASSUME Execution!SaveStarted PROVE Kinds'
  <2>1. command' \in [status : Execution!Status, provider : BOOLEAN]
    BY <1>10, <1>1, Zenon DEF Execution!SaveStarted, Execution!Status
  <2>2. creator' \in {"idle", "start", "save", "fail", "done"}
    BY <1>10, <1>3, Zenon DEF Execution!SaveStarted
  <2>3. UNCHANGED <<program, killer, reader, stream, viewer>>
    BY <1>10 DEF Execution!SaveStarted
  <2> QED
    BY <1>1, <1>2, <1>3, <1>4, <1>5, <1>6, <1>7, <2>1, <2>2, <2>3 DEF Kinds
<1>11. ASSUME Execution!SaveFailed PROVE Kinds'
  <2>1. command' \in [status : Execution!Status, provider : BOOLEAN]
    BY <1>11, <1>1, Zenon DEF Execution!SaveFailed, Execution!Status
  <2>2. creator' \in {"idle", "start", "save", "fail", "done"}
    BY <1>11, <1>3, Zenon DEF Execution!SaveFailed
  <2>3. UNCHANGED <<program, killer, reader, stream, viewer>>
    BY <1>11 DEF Execution!SaveFailed
  <2> QED
    BY <1>1, <1>2, <1>3, <1>4, <1>5, <1>6, <1>7, <2>1, <2>2, <2>3 DEF Kinds
<1>12. ASSUME Execution!CreatorDies PROVE Kinds'
  <2>1. creator' \in {"idle", "start", "save", "fail", "done"}
    BY <1>12, <1>3, Zenon DEF Execution!CreatorDies
  <2>2. UNCHANGED <<command, program, killer, reader, stream, viewer>>
    BY <1>12 DEF Execution!CreatorDies
  <2> QED
    BY <1>1, <1>2, <1>3, <1>4, <1>5, <1>6, <1>7, <2>1, <2>2 DEF Kinds
<1>13. ASSUME Execution!KillRead PROVE Kinds'
  <2>1. killer' \in {"idle", "interrupt", "write"}
    BY <1>13, <1>4, Zenon DEF Execution!KillRead
  <2>2. UNCHANGED <<command, program, creator, reader, stream, viewer>>
    BY <1>13 DEF Execution!KillRead
  <2> QED
    BY <1>1, <1>2, <1>3, <1>4, <1>5, <1>6, <1>7, <2>1, <2>2 DEF Kinds
<1>14. ASSUME Execution!Interrupt PROVE Kinds'
  <2>1. program' \in [state : {"none", "running", "succeeded", "failed"}, output : Nat]
    BY <1>14, <1>2, Zenon DEF Execution!Interrupt
  <2>2. killer' \in {"idle", "interrupt", "write"}
    BY <1>14, <1>4, Zenon DEF Execution!Interrupt
  <2>3. UNCHANGED <<command, creator, reader, stream, viewer>>
    BY <1>14 DEF Execution!Interrupt
  <2> QED
    BY <1>1, <1>2, <1>3, <1>4, <1>5, <1>6, <1>7, <2>1, <2>2, <2>3 DEF Kinds
<1>15. ASSUME Execution!KillWrite PROVE Kinds'
  <2>1. command' \in [status : Execution!Status, provider : BOOLEAN]
    BY <1>15, <1>1, Zenon DEF Execution!KillWrite, Execution!Status
  <2>2. killer' \in {"idle", "interrupt", "write"}
    BY <1>15, <1>4, Zenon DEF Execution!KillWrite
  <2>3. UNCHANGED <<program, creator, reader, stream, viewer>>
    BY <1>15 DEF Execution!KillWrite
  <2> QED
    BY <1>1, <1>2, <1>3, <1>4, <1>5, <1>6, <1>7, <2>1, <2>2, <2>3 DEF Kinds
<1>16. ASSUME Execution!Write PROVE Kinds'
  <2>1. program' \in [state : {"none", "running", "succeeded", "failed"}, output : Nat]
    <3>1. program' = [program EXCEPT !.output = program.output + 1]
      BY <1>16 DEF Execution!Write
    <3>2. program.output + 1 \in Nat
      BY <1>2
    <3> QED
      BY <3>1, <3>2, <1>2, Zenon
  <2>2. UNCHANGED <<command, creator, killer, reader, stream, viewer>>
    BY <1>16 DEF Execution!Write
  <2> QED
    BY <1>1, <1>2, <1>3, <1>4, <1>5, <1>6, <1>7, <2>1, <2>2 DEF Kinds
<1>17. ASSUME Execution!Exit PROVE Kinds'
  <2>1. program' \in [state : {"none", "running", "succeeded", "failed"}, output : Nat]
    BY <1>17, <1>2, Zenon DEF Execution!Exit
  <2>2. UNCHANGED <<command, creator, killer, reader, stream, viewer>>
    BY <1>17 DEF Execution!Exit
  <2> QED
    BY <1>1, <1>2, <1>3, <1>4, <1>5, <1>6, <1>7, <2>1, <2>2 DEF Kinds
<1>18. ASSUME Execution!CallerReads PROVE Kinds'
  <2>1. reader' \in [Execution!Reader -> Refresh]
    <3>1. reader' = [reader EXCEPT !["caller"] = Execution!RowRead]
      BY <1>18 DEF Execution!CallerReads
    <3>2. Execution!RowRead \in Refresh
      BY <1>1 DEF Execution!RowRead, Refresh, Execution!Status
    <3> QED
      BY <3>1, <3>2, <1>5, Zenon
  <2>2. UNCHANGED <<command, program, creator, killer, stream, viewer>>
    BY <1>18 DEF Execution!CallerReads, Execution!RowRead
  <2> QED
    BY <1>1, <1>2, <1>3, <1>4, <1>5, <1>6, <1>7, <2>1, <2>2 DEF Kinds
<1>19. ASSUME NEW r \in Execution!Reader, Execution!GetProgram(r) PROVE Kinds'
  <2>1. reader' \in [Execution!Reader -> Refresh]
    <3>1. reader' = [reader EXCEPT ![r].at = "put", ![r].status = program.state]
      BY <1>19 DEF Execution!GetProgram
    <3>2. reader[r] \in Refresh /\ program.state \in Execution!Status
      BY <1>2, <1>5 DEF Execution!Status
    <3>3. [reader[r] EXCEPT !.at = "put", !.status = program.state] \in Refresh
      BY <3>2, Zenon DEF Refresh
    <3>4. reader' = [reader EXCEPT ![r] = [reader[r] EXCEPT !.at = "put", !.status = program.state]]
      BY <3>1, <1>5
    <3> QED
      BY <3>3, <3>4, <1>5, Zenon
  <2>2. UNCHANGED <<command, program, creator, killer, stream, viewer>>
    BY <1>19 DEF Execution!GetProgram
  <2> QED
    BY <1>1, <1>2, <1>3, <1>4, <1>5, <1>6, <1>7, <2>1, <2>2 DEF Kinds
<1>20. ASSUME NEW r \in Execution!Reader, Execution!PutRow(r) PROVE Kinds'
  <2>1. command' \in [status : Execution!Status, provider : BOOLEAN]
    <3>1. command' = [command EXCEPT !.status = reader[r].status]
      BY <1>20 DEF Execution!PutRow
    <3>2. reader[r].status \in Execution!Status
      BY <1>5 DEF Refresh
    <3> QED
      BY <3>1, <3>2, <1>1, Zenon
  <2>2. reader' \in [Execution!Reader -> Refresh]
    <3>1. reader' = [reader EXCEPT ![r] = IF r = "stream" THEN [@ EXCEPT !.at = "seen"] ELSE Execution!Unread]
      BY <1>20 DEF Execution!PutRow
    <3>2. reader[r] \in Refresh
      BY <1>5
    <3>3. [reader[r] EXCEPT !.at = "seen"] \in Refresh /\ Execution!Unread \in Refresh
      BY <3>2, Blank, Zenon DEF Refresh
    <3>4. (IF r = "stream" THEN [reader[r] EXCEPT !.at = "seen"] ELSE Execution!Unread) \in Refresh
      BY <3>3
    <3>5. reader' = [reader EXCEPT ![r] = IF r = "stream" THEN [reader[r] EXCEPT !.at = "seen"] ELSE Execution!Unread]
      BY <3>1, <1>5
    <3> QED
      BY <3>4, <3>5, <1>5, Zenon
  <2>3. UNCHANGED <<program, creator, killer, stream, viewer>>
    BY <1>20 DEF Execution!PutRow
  <2> QED
    BY <1>1, <1>2, <1>3, <1>4, <1>5, <1>6, <1>7, <2>1, <2>2, <2>3 DEF Kinds
<1>21. ASSUME Execution!StreamReads PROVE Kinds'
  <2>1. reader' \in [Execution!Reader -> Refresh]
    <3>1. reader' = [reader EXCEPT !["stream"] = Execution!RowRead]
      BY <1>21 DEF Execution!StreamReads
    <3>2. Execution!RowRead \in Refresh
      BY <1>1 DEF Execution!RowRead, Refresh, Execution!Status
    <3> QED
      BY <3>1, <3>2, <1>5, Zenon
  <2>2. UNCHANGED <<command, program, creator, killer, stream, viewer>>
    BY <1>21 DEF Execution!StreamReads
  <2> QED
    BY <1>1, <1>2, <1>3, <1>4, <1>5, <1>6, <1>7, <2>1, <2>2 DEF Kinds
<1>22. ASSUME Execution!StreamSend PROVE Kinds'
  <2>1. reader' \in [Execution!Reader -> Refresh]
    <3>1. reader' = [reader EXCEPT !["stream"] = Execution!Unread]
      BY <1>22 DEF Execution!StreamSend
    <3>2. Execution!Unread \in Refresh
      BY Blank
    <3> QED
      BY <3>1, <3>2, <1>5, Zenon
  <2>2. stream' \in Connection
    <3>1. CASE Execution!Unreadable(reader["stream"])
      BY <1>22, <3>1, Sends, Closing
    <3>2. CASE ~Execution!Unreadable(reader["stream"]) /\ Execution!Terminal(reader["stream"].status)
      BY <1>22, <3>2, Completing
    <3>3. CASE ~Execution!Unreadable(reader["stream"]) /\ ~Execution!Terminal(reader["stream"].status)
      BY <1>22, <3>3, Continuing
    <3> QED
      BY <3>1, <3>2, <3>3
  <2>3. UNCHANGED <<command, program, creator, killer, viewer>>
    BY <1>22 DEF Execution!StreamSend
  <2> QED
    BY <1>1, <1>2, <1>3, <1>4, <1>5, <1>6, <1>7, <2>1, <2>2, <2>3 DEF Kinds
<1>23. ASSUME Execution!StreamWaits PROVE Kinds'
  <2>1. stream' \in Connection
    <3>1. CASE stream' = [stream EXCEPT !.at = "read"]
      BY <3>1, <1>6, Zenon DEF Connection
    <3>2. CASE stream' = Execution!CloseWith(Execution!Ev("reconnect", "none", Execution!Here))
      BY <1>23, <3>2, Closing DEF Execution!StreamWaits
    <3> QED
      BY <1>23, <3>1, <3>2 DEF Execution!StreamWaits
  <2>2. UNCHANGED <<command, program, creator, killer, reader, viewer>>
    BY <1>23 DEF Execution!StreamWaits
  <2> QED
    BY <1>1, <1>2, <1>3, <1>4, <1>5, <1>6, <1>7, <2>1, <2>2 DEF Kinds
<1>24. ASSUME Execution!StreamFails PROVE Kinds'
  <2>1. reader' \in [Execution!Reader -> Refresh]
    <3>1. reader' = [reader EXCEPT !["stream"] = Execution!Unread]
      BY <1>24 DEF Execution!StreamFails
    <3>2. Execution!Unread \in Refresh
      BY Blank
    <3> QED
      BY <3>1, <3>2, <1>5, Zenon
  <2>2. stream' \in Connection
    BY <1>24, Closing DEF Execution!StreamFails
  <2>3. UNCHANGED <<command, program, creator, killer, viewer>>
    BY <1>24 DEF Execution!StreamFails
  <2> QED
    BY <1>1, <1>2, <1>3, <1>4, <1>5, <1>6, <1>7, <2>1, <2>2, <2>3 DEF Kinds
<1>25. ASSUME Execution!Connect PROVE Kinds'
  <2>1. stream' \in Connection
    <3>1. viewer.source \in Execution!Source /\ viewer.offset \in Nat
      BY <1>7 DEF Observer
    <3>2. stream' = [Execution!Closed EXCEPT !.at = "read", !.given = viewer.source # "none",
                                   !.source = IF viewer.source = "s" THEN "s" ELSE "p", !.offset = viewer.offset]
      BY <1>25 DEF Execution!Connect
    <3>3. (viewer.source # "none") \in BOOLEAN /\ (IF viewer.source = "s" THEN "s" ELSE "p") \in {"p", "s"}
      OBVIOUS
    <3> QED
      BY <3>1, <3>2, <3>3, Blank, Zenon DEF Connection
  <2>2. viewer' \in Observer
    BY <1>25, <1>7, Zenon DEF Execution!Connect, Observer
  <2>3. UNCHANGED <<command, program, creator, killer, reader>>
    BY <1>25 DEF Execution!Connect
  <2> QED
    BY <1>1, <1>2, <1>3, <1>4, <1>5, <1>6, <1>7, <2>1, <2>2, <2>3 DEF Kinds
<1>26. ASSUME Execution!Consume PROVE Kinds'
  <2>1. stream' \in Connection
    <3>1. stream' = [stream EXCEPT !.events = Tail(stream.events)] /\ Tail(stream.events) \in Seq(Message)
      BY <1>26, Consuming
    <3> QED
      BY <3>1, <1>6, Zenon DEF Connection
  <2>2. viewer' \in Observer
    <3> DEFINE e == Head(stream.events)
    <3>1. viewer' = Execution!Consumed(e) /\ e \in Message /\ Follows(e, viewer.offset)
      BY <1>26, Consuming
    <3>2. /\ e.type \in {"output", "status", "complete", "error", "reconnect"} /\ e.source \in {"p", "s"}
          /\ e.after \in Nat /\ e.offset \in Nat /\ e.status \in Execution!Status
      BY <3>1 DEF Message
    <3>3. e.source \in Execution!Source /\ viewer.received \in Seq(Nat)
      BY <3>2, <1>7 DEF Observer, Execution!Source
    <3>4. CASE e.type = "output"
      <4>1. e.offset > e.after
        BY <3>1, <3>2, <3>4 DEF Follows
      <4>2. e.offset - e.after \in Nat
        BY <3>2, <4>1
      <4>3. Execution!Pieces(e) \in Seq(Nat)
        BY <3>2, <4>2 DEF Execution!Pieces
      <4>4. viewer.received \o Execution!Pieces(e) \in Seq(Nat)
        BY <3>3, <4>3, ConcatProperties
      <4>5. viewer' = [viewer EXCEPT !.source = e.source, !.offset = e.offset,
                                     !.received = viewer.received \o Execution!Pieces(e)]
        BY <3>1, <3>4 DEF Execution!Consumed, Execution!ConsumeOutput
      <4> QED
        BY <3>2, <3>3, <4>4, <4>5, <1>7, Zenon DEF Observer
    <3>5. CASE e.type = "status"
      <4>1. viewer' = [viewer EXCEPT !.source = e.source, !.offset = e.offset]
        BY <3>1, <3>5 DEF Execution!Consumed
      <4> QED
        BY <3>2, <3>3, <4>1, <1>7, Zenon DEF Observer
    <3>6. CASE e.type = "complete"
      <4>1. viewer' = [viewer EXCEPT !.at = "complete", !.told = e.status]
        BY <3>1, <3>6 DEF Execution!Consumed
      <4> QED
        BY <3>2, <4>1, <1>7, Zenon DEF Observer
    <3>7. CASE e.type = "error"
      <4>1. viewer' = [viewer EXCEPT !.at = "error"]
        BY <3>1, <3>7 DEF Execution!Consumed
      <4> QED
        BY <4>1, <1>7, Zenon DEF Observer
    <3>8. CASE e.type = "reconnect"
      <4>1. viewer' = [viewer EXCEPT !.at = "connect", !.source = e.source, !.offset = e.offset]
        BY <3>1, <3>8 DEF Execution!Consumed
      <4> QED
        BY <3>2, <3>3, <4>1, <1>7, Zenon DEF Observer
    <3> QED
      BY <3>2, <3>4, <3>5, <3>6, <3>7, <3>8
  <2>3. UNCHANGED <<command, program, creator, killer, reader>>
    BY <1>26 DEF Execution!Consume
  <2> QED
    BY <1>1, <1>2, <1>3, <1>4, <1>5, <1>6, <1>7, <2>1, <2>2, <2>3 DEF Kinds
<1>27. ASSUME Execution!Disconnect PROVE Kinds'
  <2>1. reader' \in [Execution!Reader -> Refresh]
    <3>1. reader' = [reader EXCEPT !["stream"] = Execution!Unread]
      BY <1>27 DEF Execution!Disconnect
    <3>2. Execution!Unread \in Refresh
      BY Blank
    <3> QED
      BY <3>1, <3>2, <1>5, Zenon
  <2>2. stream' \in Connection
    BY <1>27, Blank DEF Execution!Disconnect
  <2>3. viewer' \in Observer
    <3>1. viewer.retries + 1 \in Nat
      BY <1>7 DEF Observer
    <3>2. viewer' = [viewer EXCEPT !.at = "connect", !.retries = viewer.retries + 1] \/ viewer' = [viewer EXCEPT !.at = "error"]
      BY <1>27 DEF Execution!Disconnect
    <3> QED
      BY <3>1, <3>2, <1>7, Zenon DEF Observer
  <2>4. UNCHANGED <<command, program, creator, killer>>
    BY <1>27 DEF Execution!Disconnect
  <2> QED
    BY <1>1, <1>2, <1>3, <1>4, <1>5, <1>6, <1>7, <2>1, <2>2, <2>3, <2>4 DEF Kinds
<1>28. CASE UNCHANGED Execution!commandVars
  BY <1>28 DEF Execution!commandVars, Kinds, CommandInv
<1> QED
  BY <1>8, <1>9, <1>10, <1>11, <1>12, <1>13, <1>14, <1>15, <1>16, <1>17, <1>18, <1>19, <1>20, <1>21, <1>22, <1>23,
     <1>24, <1>25, <1>26, <1>27, <1>28
     DEF Execution!Next, Execution!StreamStep, Execution!ViewerStep, Execution!Reader

LEMMA CommandKept == ASSUME CommandInv, [Execution!Next]_(Execution!commandVars) PROVE CommandInv'
<1>1. /\ command \in [status : Execution!Status, provider : BOOLEAN]
      /\ program \in [state : {"none", "running", "succeeded", "failed"}, output : Nat]
      /\ creator \in {"idle", "start", "save", "fail", "done"}
      /\ killer \in {"idle", "interrupt", "write"}
      /\ reader \in [Execution!Reader -> Refresh]
      /\ stream \in Connection
      /\ viewer \in Observer
  BY DEF CommandInv, Kinds
<1>2. /\ Kinds /\ Started /\ RowTrue
      /\ \A x \in Execution!Reader : ReaderTrue(x)
      /\ StreamTrue /\ InFlight /\ ViewerTrue
  BY DEF CommandInv
<1>3. Kinds'
  BY KindsKept DEF CommandInv
<1>4. ASSUME Execution!InsertCommand PROVE CommandInv'
  <2>1. creator = "idle"
    BY <1>4 DEF Execution!InsertCommand
  <2>2. command' = [command EXCEPT !.status = "queued"]
    BY <1>4 DEF Execution!InsertCommand
  <2>3. /\ command'.status = "queued"
        /\ command'.provider = command.provider
    BY <1>1, <2>1, <2>2
  <2>4. creator' = "start"
    BY <1>4, <1>1, <2>1 DEF Execution!InsertCommand
  <2>5. UNCHANGED <<program, killer, reader, stream, viewer>>
    BY <1>4 DEF Execution!InsertCommand
  <2>6. Started'
    BY <1>2, RowFields, <2>1, <2>3, <2>4, <2>5, SMTT(20) DEF Started
  <2>7. RowTrue'
    BY <1>2, RowFields, <2>1, <2>3, <2>4, <2>5, SMTT(20) DEF RowTrue
  <2>8. ASSUME NEW x \in Execution!Reader PROVE ReaderTrue(x)'
    BY <1>2, RowFields, <2>1, <2>3, <2>4, <2>5, SMTT(20) DEF ReaderTrue
  <2>9. StreamTrue'
    BY <1>2, RowFields, <2>1, <2>3, <2>4, <2>5, SMTT(20) DEF StreamTrue
  <2>10. InFlight'
    BY <1>2, <2>5 DEF InFlight, EventTrue
  <2>11. ViewerTrue'
    BY <1>2, <2>5 DEF ViewerTrue
  <2> QED
    BY <1>3, <2>6, <2>7, <2>8, <2>9, <2>10, <2>11 DEF CommandInv
<1>5. ASSUME Execution!StartProgram PROVE CommandInv'
  <2>1. /\ creator = "start"
        /\ program.state = "none"
    BY <1>5, <1>2, RowFields DEF Execution!StartProgram, Started, ViewerTrue, StreamTrue
  <2>2. /\ program'.output = program.output
        /\ program'.state = program.state \/ program'.state = "running"
    BY <1>5, <1>1, <2>1 DEF Execution!StartProgram
  <2>3. creator' \notin {"idle", "start"}
    BY <1>5, <1>1, <2>1 DEF Execution!StartProgram
  <2>4. UNCHANGED <<command, killer, reader, stream, viewer>>
    BY <1>5 DEF Execution!StartProgram
  <2>5. Started'
    BY <1>2, RowFields, <2>1, <2>2, <2>3, <2>4, SMTT(20) DEF Started
  <2>6. RowTrue'
    BY <1>2, RowFields, <2>1, <2>2, <2>3, <2>4, SMTT(20) DEF RowTrue
  <2>7. ASSUME NEW x \in Execution!Reader PROVE ReaderTrue(x)'
    BY <1>2, RowFields, <2>1, <2>2, <2>3, <2>4, SMTT(20) DEF ReaderTrue
  <2>8. StreamTrue'
    BY <1>2, RowFields, <2>1, <2>2, <2>3, <2>4, SMTT(20) DEF StreamTrue
  <2>9. InFlight'
    BY <1>2, RowFields, <2>1, <2>2, <2>3, <2>4, SMTT(20) DEF InFlight, EventTrue
  <2>10. ViewerTrue'
    BY <1>2, RowFields, <2>1, <2>2, <2>3, <2>4, SMTT(20) DEF ViewerTrue
  <2> QED
    BY <1>3, <2>5, <2>6, <2>7, <2>8, <2>9, <2>10 DEF CommandInv
<1>6. ASSUME Execution!SaveStarted PROVE CommandInv'
  <2>1. creator = "save"
    BY <1>6 DEF Execution!SaveStarted
  <2>2. /\ command'.status = "running"
        /\ command'.provider = TRUE
    BY <1>6, <1>1, <2>1 DEF Execution!SaveStarted
  <2>3. creator' \notin {"idle", "start"}
    BY <1>6, <1>1, <2>1 DEF Execution!SaveStarted
  <2>4. UNCHANGED <<program, killer, reader, stream, viewer>>
    BY <1>6 DEF Execution!SaveStarted
  <2>5. Started'
    BY <1>2, RowFields, <2>1, <2>2, <2>3, <2>4, SMTT(20) DEF Started
  <2>6. RowTrue'
    BY <1>2, RowFields, <2>1, <2>2, <2>3, <2>4, SMTT(20) DEF RowTrue
  <2>7. ASSUME NEW x \in Execution!Reader PROVE ReaderTrue(x)'
    BY <1>2, RowFields, <2>1, <2>2, <2>3, <2>4, SMTT(20) DEF ReaderTrue
  <2>8. StreamTrue'
    BY <1>2, RowFields, <2>1, <2>2, <2>3, <2>4, SMTT(20) DEF StreamTrue
  <2>9. InFlight'
    BY <1>2, <2>4 DEF InFlight, EventTrue
  <2>10. ViewerTrue'
    BY <1>2, <2>4 DEF ViewerTrue
  <2> QED
    BY <1>3, <2>5, <2>6, <2>7, <2>8, <2>9, <2>10 DEF CommandInv
<1>7. ASSUME Execution!SaveFailed PROVE CommandInv'
  <2>1. creator = "fail"
    BY <1>7 DEF Execution!SaveFailed
  <2>2. command' = [command EXCEPT !.status = "failed"]
    BY <1>7 DEF Execution!SaveFailed
  <2>3. /\ command'.status = "failed"
        /\ command'.provider = command.provider
    BY <1>1, <2>1, <2>2
  <2>4. creator' = "done"
    BY <1>7, <1>1, <2>1 DEF Execution!SaveFailed
  <2>5. UNCHANGED <<program, killer, reader, stream, viewer>>
    BY <1>7 DEF Execution!SaveFailed
  <2>6. Started'
    BY <1>2, RowFields, <2>1, <2>3, <2>4, <2>5, SMTT(20) DEF Started
  <2>7. RowTrue'
    BY <1>2, RowFields, <2>1, <2>3, <2>4, <2>5, SMTT(20) DEF RowTrue
  <2>8. ASSUME NEW x \in Execution!Reader PROVE ReaderTrue(x)'
    BY <1>2, RowFields, <2>1, <2>3, <2>4, <2>5, SMTT(20) DEF ReaderTrue
  <2>9. StreamTrue'
    BY <1>2, RowFields, <2>1, <2>3, <2>4, <2>5, SMTT(20) DEF StreamTrue
  <2>10. InFlight'
    BY <1>2, <2>5 DEF InFlight, EventTrue
  <2>11. ViewerTrue'
    BY <1>2, <2>5 DEF ViewerTrue
  <2> QED
    BY <1>3, <2>6, <2>7, <2>8, <2>9, <2>10, <2>11 DEF CommandInv
<1>8. ASSUME Execution!CreatorDies PROVE CommandInv'
  <2>1. creator' = "done"
    BY <1>8, <1>1 DEF Execution!CreatorDies
  <2>2. UNCHANGED <<command, program, killer, reader, stream, viewer>>
    BY <1>8 DEF Execution!CreatorDies
  <2>3. Started'
    BY <1>2, RowFields, <2>1, <2>2, SMTT(20) DEF Started
  <2>4. RowTrue'
    BY <1>2, <2>2 DEF RowTrue
  <2>5. ASSUME NEW x \in Execution!Reader PROVE ReaderTrue(x)'
    BY <1>2, <2>2 DEF ReaderTrue
  <2>6. StreamTrue'
    BY <1>2, <2>2 DEF StreamTrue
  <2>7. InFlight'
    BY <1>2, <2>2 DEF InFlight, EventTrue
  <2>8. ViewerTrue'
    BY <1>2, <2>2 DEF ViewerTrue
  <2> QED
    BY <1>3, <2>3, <2>4, <2>5, <2>6, <2>7, <2>8 DEF CommandInv
<1>9. ASSUME Execution!KillRead PROVE CommandInv'
  <2>1. UNCHANGED <<command, program, creator, reader, stream, viewer>>
    BY <1>9 DEF Execution!KillRead
  <2>2. Started'
    BY <1>2, <2>1 DEF Started
  <2>3. RowTrue'
    BY <1>2, <2>1 DEF RowTrue
  <2>4. ASSUME NEW x \in Execution!Reader PROVE ReaderTrue(x)'
    BY <1>2, <2>1 DEF ReaderTrue
  <2>5. StreamTrue'
    BY <1>2, <2>1 DEF StreamTrue
  <2>6. InFlight'
    BY <1>2, <2>1 DEF InFlight, EventTrue
  <2>7. ViewerTrue'
    BY <1>2, <2>1 DEF ViewerTrue
  <2> QED
    BY <1>3, <2>2, <2>3, <2>4, <2>5, <2>6, <2>7 DEF CommandInv
<1>10. ASSUME Execution!Interrupt PROVE CommandInv'
  <2>1. /\ program'.output = program.output
        /\ program'.state = program.state \/ (program.state = "running" /\ program'.state = "failed")
    BY <1>10, <1>1 DEF Execution!Interrupt
  <2>2. UNCHANGED <<command, creator, reader, stream, viewer>>
    BY <1>10 DEF Execution!Interrupt
  <2>3. Started'
    BY <1>2, RowFields, <2>1, <2>2, SMTT(20) DEF Started
  <2>4. RowTrue'
    BY <1>2, RowFields, <2>1, <2>2, SMTT(20) DEF RowTrue
  <2>5. ASSUME NEW x \in Execution!Reader PROVE ReaderTrue(x)'
    BY <1>2, RowFields, <2>1, <2>2, SMTT(20) DEF ReaderTrue
  <2>6. StreamTrue'
    BY <1>2, RowFields, <2>1, <2>2, SMTT(20) DEF StreamTrue
  <2>7. InFlight'
    BY <1>2, RowFields, <2>1, <2>2, SMTT(20) DEF InFlight, EventTrue
  <2>8. ViewerTrue'
    BY <1>2, RowFields, <2>1, <2>2, SMTT(20) DEF ViewerTrue
  <2> QED
    BY <1>3, <2>3, <2>4, <2>5, <2>6, <2>7, <2>8 DEF CommandInv
<1>11. ASSUME Execution!KillWrite PROVE CommandInv'
  <2>1. command' = [command EXCEPT !.status = "killed"]
    BY <1>11 DEF Execution!KillWrite
  <2>2. /\ command'.status = "killed"
        /\ command'.provider = command.provider
    BY <1>1, <2>1
  <2>3. UNCHANGED <<program, creator, reader, stream, viewer>>
    BY <1>11 DEF Execution!KillWrite
  <2>4. Started'
    BY <1>2, <2>3 DEF Started
  <2>5. RowTrue'
    BY <1>2, RowFields, <2>2, <2>3, SMTT(20) DEF RowTrue
  <2>6. ASSUME NEW x \in Execution!Reader PROVE ReaderTrue(x)'
    BY <1>2, RowFields, <2>2, <2>3, SMTT(20) DEF ReaderTrue
  <2>7. StreamTrue'
    BY <1>2, RowFields, <2>2, <2>3, SMTT(20) DEF StreamTrue
  <2>8. InFlight'
    BY <1>2, <2>3 DEF InFlight, EventTrue
  <2>9. ViewerTrue'
    BY <1>2, <2>3 DEF ViewerTrue
  <2> QED
    BY <1>3, <2>4, <2>5, <2>6, <2>7, <2>8, <2>9 DEF CommandInv
<1>12. ASSUME Execution!Write PROVE CommandInv'
  <2>1. program.state = "running"
    BY <1>12 DEF Execution!Write
  <2>2. program' = [program EXCEPT !.output = @ + 1]
    BY <1>12 DEF Execution!Write
  <2>3. /\ program'.state = program.state
        /\ program'.output = program.output + 1
    BY <1>1, <2>1, <2>2
  <2>4. UNCHANGED <<command, creator, killer, reader, stream, viewer>>
    BY <1>12 DEF Execution!Write
  <2>5. Started'
    BY <1>2, RowFields, <2>1, <2>3, <2>4, SMTT(20) DEF Started
  <2>6. RowTrue'
    BY <1>2, RowFields, <2>1, <2>3, <2>4, SMTT(20) DEF RowTrue
  <2>7. ASSUME NEW x \in Execution!Reader PROVE ReaderTrue(x)'
    BY <1>2, RowFields, <2>1, <2>3, <2>4, SMTT(20) DEF ReaderTrue
  <2>8. StreamTrue'
    BY <1>2, RowFields, <2>1, <2>3, <2>4, SMTT(20) DEF StreamTrue
  <2>9. InFlight'
    BY <1>2, RowFields, <2>1, <2>3, <2>4, SMTT(20) DEF InFlight, EventTrue
  <2>10. ViewerTrue'
    BY <1>2, RowFields, <2>1, <2>3, <2>4, SMTT(20) DEF ViewerTrue
  <2> QED
    BY <1>3, <2>5, <2>6, <2>7, <2>8, <2>9, <2>10 DEF CommandInv
<1>13. ASSUME Execution!Exit PROVE CommandInv'
  <2>1. program.state = "running"
    BY <1>13 DEF Execution!Exit
  <2>2. /\ program'.output = program.output
        /\ program'.state \in {"succeeded", "failed"}
    BY <1>13, <1>1, <2>1 DEF Execution!Exit
  <2>3. UNCHANGED <<command, creator, killer, reader, stream, viewer>>
    BY <1>13 DEF Execution!Exit
  <2>4. Started'
    BY <1>2, RowFields, <2>1, <2>2, <2>3, SMTT(20) DEF Started
  <2>5. RowTrue'
    BY <1>2, RowFields, <2>1, <2>2, <2>3, SMTT(20) DEF RowTrue
  <2>6. ASSUME NEW x \in Execution!Reader PROVE ReaderTrue(x)'
    BY <1>2, RowFields, <2>1, <2>2, <2>3, SMTT(20) DEF ReaderTrue
  <2>7. StreamTrue'
    BY <1>2, RowFields, <2>1, <2>2, <2>3, SMTT(20) DEF StreamTrue
  <2>8. InFlight'
    BY <1>2, RowFields, <2>1, <2>2, <2>3, SMTT(20) DEF InFlight, EventTrue
  <2>9. ViewerTrue'
    BY <1>2, RowFields, <2>1, <2>2, <2>3, SMTT(20) DEF ViewerTrue
  <2> QED
    BY <1>3, <2>4, <2>5, <2>6, <2>7, <2>8, <2>9 DEF CommandInv
<1>14. ASSUME Execution!CallerReads PROVE CommandInv'
  <2>1. /\ reader["caller"].at = "idle"
        /\ command.provider
    BY <1>14 DEF Execution!CallerReads, Execution!RowRead
  <2>2. /\ reader'["caller"].at = "get"
        /\ reader'["caller"].provider = command.provider
        /\ \A z \in Execution!Reader : z # "caller" => reader'[z] = reader[z]
    BY <1>14, <1>1, <2>1 DEF Execution!CallerReads, Execution!RowRead, Refresh, Execution!Reader
  <2>3. UNCHANGED <<command, program, creator, killer, stream, viewer>>
    BY <1>14 DEF Execution!CallerReads, Execution!RowRead
  <2>4. Started'
    BY <1>2, <2>3 DEF Started
  <2>5. RowTrue'
    BY <1>2, <2>3 DEF RowTrue
  <2>6. ASSUME NEW x \in Execution!Reader PROVE ReaderTrue(x)'
    <3>1. CASE x = "caller"
      BY <2>1, <2>2, <2>3, <3>1 DEF ReaderTrue
    <3>2. CASE x # "caller"
      <4>1. ReaderTrue(x) /\ reader'[x] = reader[x]
        BY <1>2, <2>2, <3>2
      <4> QED
        BY <2>3, <4>1 DEF ReaderTrue
    <3> QED
      BY <3>1, <3>2
  <2>7. StreamTrue'
    BY <1>2, RowFields, <2>1, <2>2, <2>3, SMTT(20) DEF StreamTrue
  <2>8. InFlight'
    BY <1>2, <2>3 DEF InFlight, EventTrue
  <2>9. ViewerTrue'
    BY <1>2, <2>3 DEF ViewerTrue
  <2> QED
    BY <1>3, <2>4, <2>5, <2>6, <2>7, <2>8, <2>9 DEF CommandInv
<1>15. ASSUME NEW r \in Execution!Reader, Execution!GetProgram(r) PROVE CommandInv'
  <2>1. reader[r].at = "get"
    BY <1>15 DEF Execution!GetProgram
  <2>2. reader' = [reader EXCEPT ![r].at = "put", ![r].status = program.state]
    BY <1>15 DEF Execution!GetProgram
  <2>3. /\ reader'[r].at = "put"
        /\ reader'[r].status = program.state
        /\ reader'[r].provider = reader[r].provider
        /\ \A z \in Execution!Reader : z # r => reader'[z] = reader[z]
    BY <1>1, <2>1, <2>2 DEF Refresh
  <2>4. UNCHANGED <<command, program, creator, killer, stream, viewer>>
    BY <1>15 DEF Execution!GetProgram
  <2>5. Started'
    BY <1>2, <2>4 DEF Started
  <2>6. RowTrue'
    BY <1>2, <2>4 DEF RowTrue
  <2>7. ASSUME NEW x \in Execution!Reader PROVE ReaderTrue(x)'
    BY <1>2, RowFields, <2>1, <2>3, <2>4, SMTT(20) DEF ReaderTrue
  <2>8. StreamTrue'
    BY <1>2, RowFields, <2>1, <2>3, <2>4, SMTT(20) DEF StreamTrue
  <2>9. InFlight'
    BY <1>2, <2>4 DEF InFlight, EventTrue
  <2>10. ViewerTrue'
    BY <1>2, <2>4 DEF ViewerTrue
  <2> QED
    BY <1>3, <2>5, <2>6, <2>7, <2>8, <2>9, <2>10 DEF CommandInv
<1>16. ASSUME NEW r \in Execution!Reader, Execution!PutRow(r) PROVE CommandInv'
  <2>1. reader[r].at = "put"
    BY <1>16 DEF Execution!PutRow
  <2>2. command' = [command EXCEPT !.status = reader[r].status]
    BY <1>16 DEF Execution!PutRow
  <2>3. /\ command'.status = reader[r].status
        /\ command'.provider = command.provider
    BY <1>1, <2>1, <2>2
  <2>4. /\ (reader'[r].at = "seen" /\ reader'[r].status = reader[r].status /\ reader'[r].provider = reader[r].provider) \/ reader'[r].at = "idle"
        /\ \A z \in Execution!Reader : z # r => reader'[z] = reader[z]
    BY <1>16, <1>1, <2>1 DEF Execution!PutRow, Refresh, Execution!Unread, Execution!Reader
  <2>5. UNCHANGED <<program, creator, killer, stream, viewer>>
    BY <1>16 DEF Execution!PutRow
  <2>6. Started'
    BY <1>2, <2>5 DEF Started
  <2>7. RowTrue'
    <3>1. reader[r].provider /\ command.provider /\ (reader[r].status = "succeeded" => program.state = "succeeded")
      BY <1>2, <2>1 DEF ReaderTrue
    <3> QED
      BY <2>3, <2>5, <3>1 DEF RowTrue
  <2>8. ASSUME NEW x \in Execution!Reader PROVE ReaderTrue(x)'
    BY <1>2, RowFields, <2>1, <2>3, <2>4, <2>5, SMTT(20) DEF ReaderTrue
  <2>9. StreamTrue'
    BY <1>2, RowFields, <2>1, <2>3, <2>4, <2>5, SMTT(20) DEF StreamTrue
  <2>10. InFlight'
    BY <1>2, <2>5 DEF InFlight, EventTrue
  <2>11. ViewerTrue'
    BY <1>2, <2>5 DEF ViewerTrue
  <2> QED
    BY <1>3, <2>6, <2>7, <2>8, <2>9, <2>10, <2>11 DEF CommandInv
<1>17. ASSUME Execution!StreamReads PROVE CommandInv'
  <2>1. /\ stream.at = "read"
        /\ reader["stream"].at = "idle"
    BY <1>17 DEF Execution!StreamReads
  <2>2. /\ reader'["stream"].at = "get" => command.provider
        /\ reader'["stream"].at \in {"get", "seen"}
        /\ reader'["stream"].status = command.status
        /\ reader'["stream"].provider = command.provider
        /\ \A z \in Execution!Reader : z # "stream" => reader'[z] = reader[z]
    BY <1>17, <1>1, <2>1 DEF Execution!StreamReads, Refresh, Execution!RowRead, Execution!Reader
  <2>3. UNCHANGED <<command, program, creator, killer, stream, viewer>>
    BY <1>17 DEF Execution!StreamReads
  <2>4. Started'
    BY <1>2, <2>3 DEF Started
  <2>5. RowTrue'
    BY <1>2, <2>3 DEF RowTrue
  <2>6. ASSUME NEW x \in Execution!Reader PROVE ReaderTrue(x)'
    BY <1>2, RowFields, <2>1, <2>2, <2>3, SMTT(20) DEF ReaderTrue, RowTrue
  <2>7. StreamTrue'
    BY <1>2, RowFields, <2>1, <2>2, <2>3, SMTT(20) DEF StreamTrue
  <2>8. InFlight'
    BY <1>2, <2>3 DEF InFlight, EventTrue
  <2>9. ViewerTrue'
    BY <1>2, <2>3 DEF ViewerTrue
  <2> QED
    BY <1>3, <2>4, <2>5, <2>6, <2>7, <2>8, <2>9 DEF CommandInv
<1>18. ASSUME Execution!StreamSend PROVE CommandInv'
  <2>1. CASE Execution!Unreadable(reader["stream"])
    <3>1. stream.at = "read"
      BY <1>18, <2>1 DEF Execution!StreamSend
    <3>2. stream'.at = "closed"
    BY <2>1, <1>18, <1>2, Sends, Closing DEF CommandInv
    <3>3. /\ reader'["stream"].at = "idle"
          /\ \A z \in Execution!Reader : z # "stream" => reader'[z] = reader[z]
      BY <1>18, <2>1, <1>1, <3>1 DEF Execution!StreamSend, Refresh, Execution!Unread, Execution!Reader
    <3>4. UNCHANGED <<command, program, creator, killer, viewer>>
      BY <1>18, <2>1 DEF Execution!StreamSend
    <3>5. Started'
      BY <1>2, <3>4 DEF Started
    <3>6. RowTrue'
      BY <1>2, <3>4 DEF RowTrue
    <3>7. ASSUME NEW x \in Execution!Reader PROVE ReaderTrue(x)'
      BY <2>1, <1>2, RowFields, <3>1, <3>2, <3>3, <3>4, SMTT(20) DEF ReaderTrue
    <3>8. StreamTrue'
      BY <2>1, <1>2, RowFields, <3>1, <3>2, <3>3, <3>4, SMTT(20) DEF StreamTrue
    <3>9. InFlight'
      BY <2>1, <1>18, <1>2, Sends, Closing DEF CommandInv
    <3>10. ViewerTrue'
      BY <1>2, <3>4 DEF ViewerTrue
    <3> QED
      BY <1>3, <3>5, <3>6, <3>7, <3>8, <3>9, <3>10 DEF CommandInv
  <2>2. CASE ~Execution!Unreadable(reader["stream"]) /\ Execution!Terminal(reader["stream"].status)
    <3>1. stream.at = "read"
      BY <1>18, <2>2 DEF Execution!StreamSend
    <3>2. stream'.at = "closed"
    BY <2>2, <1>18, Completing
    <3>3. /\ reader'["stream"].at = "idle"
          /\ \A z \in Execution!Reader : z # "stream" => reader'[z] = reader[z]
      BY <1>18, <2>2, <1>1, <3>1 DEF Execution!StreamSend, Refresh, Execution!Unread, Execution!Reader
    <3>4. UNCHANGED <<command, program, creator, killer, viewer>>
      BY <1>18, <2>2 DEF Execution!StreamSend
    <3>5. Started'
      BY <1>2, <3>4 DEF Started
    <3>6. RowTrue'
      BY <1>2, <3>4 DEF RowTrue
    <3>7. ASSUME NEW x \in Execution!Reader PROVE ReaderTrue(x)'
      BY <2>2, <1>2, RowFields, <3>1, <3>2, <3>3, <3>4, SMTT(20) DEF ReaderTrue
    <3>8. StreamTrue'
      BY <2>2, <1>2, RowFields, <3>1, <3>2, <3>3, <3>4, SMTT(20) DEF StreamTrue
    <3>9. InFlight'
      BY <2>2, <1>18, Completing
    <3>10. ViewerTrue'
      BY <1>2, <3>4 DEF ViewerTrue
    <3> QED
      BY <1>3, <3>5, <3>6, <3>7, <3>8, <3>9, <3>10 DEF CommandInv
  <2>3. CASE ~Execution!Unreadable(reader["stream"]) /\ ~Execution!Terminal(reader["stream"].status)
    <3>1. /\ stream.at = "read"
          /\ reader["stream"].at = "seen"
      BY <1>18, <2>3 DEF Execution!StreamSend
    <3>2. /\ reader["stream"].provider
          /\ Execution!NextOffset(reader["stream"]) = program.output
    BY <2>3, <1>18, Readable DEF Execution!StreamSend
    <3>3. /\ stream'.at = "wait"
          /\ stream'.given = stream.given
          /\ stream'.source = "p"
          /\ stream'.offset = Execution!NextOffset(reader["stream"])
    BY <2>3, <1>18, <1>1, <3>2, Sends DEF Connection
    <3>4. /\ reader'["stream"].at = "idle"
          /\ \A z \in Execution!Reader : z # "stream" => reader'[z] = reader[z]
      BY <1>18, <2>3, <1>1, <3>1 DEF Execution!StreamSend, Refresh, Execution!Unread, Execution!Reader
    <3>5. UNCHANGED <<command, program, creator, killer, viewer>>
      BY <1>18, <2>3 DEF Execution!StreamSend
    <3>6. Started'
      BY <1>2, <3>5 DEF Started
    <3>7. RowTrue'
      BY <1>2, <3>5 DEF RowTrue
    <3>8. ASSUME NEW x \in Execution!Reader PROVE ReaderTrue(x)'
      BY <2>3, <1>2, RowFields, <3>1, <3>2, <3>3, <3>4, <3>5, SMTT(20) DEF ReaderTrue
    <3>9. StreamTrue'
      BY <2>3, <1>2, RowFields, <3>1, <3>2, <3>3, <3>4, <3>5, SMTT(20) DEF StreamTrue, ReaderTrue
    <3>10. InFlight'
      BY <2>3, <1>18, Continuing
    <3>11. ViewerTrue'
      BY <1>2, <3>5 DEF ViewerTrue
    <3> QED
      BY <1>3, <3>6, <3>7, <3>8, <3>9, <3>10, <3>11 DEF CommandInv
  <2> QED
    BY <2>1, <2>2, <2>3, <1>18 DEF Execution!StreamSend
<1>19. ASSUME Execution!StreamWaits PROVE CommandInv'
  <2>1. CASE stream' = [stream EXCEPT !.at = "read"]
    <3>1. stream.at = "wait"
      BY <1>19, <2>1 DEF Execution!StreamWaits
    <3>2. stream' = [stream EXCEPT !.at = "read"]
      BY <1>19, <2>1 DEF Execution!StreamWaits
    <3>3. /\ stream'.at = "read"
          /\ stream'.given = stream.given
          /\ stream'.source = stream.source
          /\ stream'.offset = stream.offset
          /\ stream'.status = stream.status
          /\ stream'.events = stream.events
      BY <1>1, <3>1, <3>2 DEF Connection
    <3>4. UNCHANGED <<command, program, creator, killer, reader, viewer>>
      BY <1>19, <2>1 DEF Execution!StreamWaits
    <3>5. Started'
      BY <1>2, <3>4 DEF Started
    <3>6. RowTrue'
      BY <1>2, <3>4 DEF RowTrue
    <3>7. ASSUME NEW x \in Execution!Reader PROVE ReaderTrue(x)'
      BY <1>2, <3>4 DEF ReaderTrue
    <3>8. StreamTrue'
      BY <1>2, RowFields, <3>1, <3>3, <3>4, SMTT(20) DEF StreamTrue
    <3>9. InFlight'
      BY <1>2, RowFields, <3>1, <3>3, <3>4, SMTT(20) DEF InFlight, EventTrue
    <3>10. ViewerTrue'
      BY <1>2, <3>4 DEF ViewerTrue
    <3> QED
      BY <1>3, <3>5, <3>6, <3>7, <3>8, <3>9, <3>10 DEF CommandInv
  <2>2. CASE stream' = Execution!CloseWith(Execution!Ev("reconnect", "none", Execution!Here))
    <3>1. stream.at = "wait"
      BY <1>19, <2>2 DEF Execution!StreamWaits
    <3>2. stream'.at = "closed"
    BY <2>2, <1>19, Closing DEF Execution!StreamWaits
    <3>3. UNCHANGED <<command, program, creator, killer, reader, viewer>>
      BY <1>19, <2>2 DEF Execution!StreamWaits
    <3>4. Started'
      BY <1>2, <3>3 DEF Started
    <3>5. RowTrue'
      BY <1>2, <3>3 DEF RowTrue
    <3>6. ASSUME NEW x \in Execution!Reader PROVE ReaderTrue(x)'
      BY <1>2, <3>3 DEF ReaderTrue
    <3>7. StreamTrue'
      BY <2>2, <1>2, RowFields, <3>1, <3>2, <3>3, SMTT(20) DEF StreamTrue
    <3>8. InFlight'
      BY <2>2, <1>19, Closing DEF Execution!StreamWaits
    <3>9. ViewerTrue'
      BY <1>2, <3>3 DEF ViewerTrue
    <3> QED
      BY <1>3, <3>4, <3>5, <3>6, <3>7, <3>8, <3>9 DEF CommandInv
  <2> QED
    BY <2>1, <2>2, <1>19 DEF Execution!StreamWaits
<1>20. ASSUME Execution!StreamFails PROVE CommandInv'
  <2>1. stream.at = "read"
    BY <1>20 DEF Execution!StreamFails
  <2>2. stream'.at = "closed"
    BY <1>20, Closing DEF Execution!StreamFails
  <2>3. /\ reader'["stream"].at = "idle"
        /\ \A z \in Execution!Reader : z # "stream" => reader'[z] = reader[z]
    BY <1>20, <1>1, <2>1 DEF Execution!StreamFails, Refresh, Execution!Unread, Execution!Reader
  <2>4. UNCHANGED <<command, program, creator, killer, viewer>>
    BY <1>20 DEF Execution!StreamFails
  <2>5. Started'
    BY <1>2, <2>4 DEF Started
  <2>6. RowTrue'
    BY <1>2, <2>4 DEF RowTrue
  <2>7. ASSUME NEW x \in Execution!Reader PROVE ReaderTrue(x)'
    BY <1>2, RowFields, <2>1, <2>2, <2>3, <2>4, SMTT(20) DEF ReaderTrue
  <2>8. StreamTrue'
    BY <1>2, RowFields, <2>1, <2>2, <2>3, <2>4, SMTT(20) DEF StreamTrue
  <2>9. InFlight'
    BY <1>20, Closing DEF Execution!StreamFails
  <2>10. ViewerTrue'
    BY <1>2, <2>4 DEF ViewerTrue
  <2> QED
    BY <1>3, <2>5, <2>6, <2>7, <2>8, <2>9, <2>10 DEF CommandInv
<1>21. ASSUME Execution!Connect PROVE CommandInv'
  <2>1. /\ viewer.at \in {"idle", "connect"}
        /\ stream.at = "closed"
        /\ viewer.told = "none"
    BY <1>21, <1>2, RowFields DEF Execution!Connect, Started, ViewerTrue, StreamTrue
  <2>2. /\ stream'.at = "read"
        /\ ~stream'.given => viewer.source = "none"
        /\ stream'.source = (IF viewer.source = "s" THEN "s" ELSE "p")
        /\ stream'.offset = viewer.offset
        /\ stream'.events = <<>>
    BY <1>21, <1>1, <2>1 DEF Execution!Connect, Connection, Execution!Closed
  <2>3. viewer' = [viewer EXCEPT !.at = "watch"]
    BY <1>21 DEF Execution!Connect
  <2>4. /\ viewer'.at = "watch"
        /\ viewer'.source = viewer.source
        /\ viewer'.offset = viewer.offset
        /\ viewer'.received = viewer.received
        /\ viewer'.retries = viewer.retries
        /\ viewer'.told = viewer.told
    BY <1>1, <2>1, <2>3 DEF Observer
  <2>5. UNCHANGED <<command, program, creator, killer, reader>>
    BY <1>21 DEF Execution!Connect
  <2>6. Started'
    BY <1>2, <2>5 DEF Started
  <2>7. RowTrue'
    BY <1>2, <2>5 DEF RowTrue
  <2>8. ASSUME NEW x \in Execution!Reader PROVE ReaderTrue(x)'
    BY <1>2, <2>5 DEF ReaderTrue
  <2>9. StreamTrue'
    <3>1. /\ viewer.source = "none" => viewer.offset = 0
          /\ viewer.source = "p" => viewer.offset <= program.output
          /\ viewer.source = "s" => viewer.offset <= 1
          /\ viewer.source \in {"none", "p", "s"} /\ viewer.offset \in Nat /\ program.output \in Nat
      BY <1>2, RowFields DEF ViewerTrue, Execution!Source
    <3>2. stream'.source = "p" => stream'.offset <= program'.output
      BY <2>2, <2>5, <3>1
    <3>3. stream'.source = "s" => stream'.offset <= 1
      BY <2>2, <3>1
    <3>4. ~stream'.given => stream'.offset = 0
      BY <2>2, <3>1
    <3> QED
      BY <2>2, <2>4, <3>1, <3>2, <3>3, <3>4 DEF StreamTrue
  <2>10. InFlight'
    BY <1>2, <2>2, <2>4, RowFields, EmptyChain DEF InFlight
  <2>11. ViewerTrue'
    BY <1>2, RowFields, <2>1, <2>2, <2>4, <2>5, SMTT(20) DEF ViewerTrue
  <2> QED
    BY <1>3, <2>6, <2>7, <2>8, <2>9, <2>10, <2>11 DEF CommandInv
<1>22. ASSUME Execution!Consume PROVE CommandInv'
  <2>1. CASE Head(stream.events).type = "output"
    <3>1. /\ viewer.at = "watch"
          /\ viewer.told = "none"
          /\ Head(stream.events) \in Message
          /\ Head(stream.events).offset \in Nat
          /\ Head(stream.events).source \in {"p", "s"}
          /\ Head(stream.events).source = "p" => Head(stream.events).offset <= program.output
          /\ Head(stream.events).source = "s" => Head(stream.events).offset <= 1
          /\ Head(stream.events).after = viewer.offset
          /\ Head(stream.events).offset > viewer.offset
    BY <2>1, <1>22, <1>2, Consuming, RowFields DEF Message, EventTrue, Follows, ViewerTrue
    <3>2. stream' = [stream EXCEPT !.events = Tail(@)]
      BY <1>22, <2>1 DEF Execution!Consume, Execution!Consumed
    <3>3. /\ stream'.at = stream.at
          /\ stream'.given = stream.given
          /\ stream'.source = stream.source
          /\ stream'.offset = stream.offset
          /\ stream'.status = stream.status
          /\ stream'.events = Tail(stream.events)
      BY <1>1, <3>1, <3>2 DEF Connection
    <3>4. viewer' = Execution!ConsumeOutput(Head(stream.events))
      BY <1>22, <2>1 DEF Execution!Consume, Execution!Consumed
    <3>5. /\ viewer'.at = viewer.at
          /\ viewer'.retries = viewer.retries
          /\ viewer'.told = viewer.told
          /\ viewer'.source = Head(stream.events).source
          /\ viewer'.offset = Head(stream.events).offset
          /\ viewer'.received = viewer.received \o Execution!Pieces(Head(stream.events))
      BY <1>1, <3>1, <3>4 DEF Observer, Execution!ConsumeOutput
    <3>6. UNCHANGED <<command, program, creator, killer, reader>>
      BY <1>22, <2>1 DEF Execution!Consume
    <3>7. Started'
      BY <1>2, <3>6 DEF Started
    <3>8. RowTrue'
      BY <1>2, <3>6 DEF RowTrue
    <3>9. ASSUME NEW x \in Execution!Reader PROVE ReaderTrue(x)'
      BY <1>2, <3>6 DEF ReaderTrue
    <3>10. StreamTrue'
      BY <2>1, <1>2, RowFields, <3>1, <3>3, <3>5, <3>6, SMTT(20) DEF StreamTrue
    <3>11. InFlight'
      BY <1>22, <3>3, <3>5, <3>6, Consuming DEF InFlight, EventTrue
    <3>12. ViewerTrue'
      <4>1. Pieced(viewer.received, viewer.offset) /\ viewer.offset \in Nat
        BY <1>2, RowFields DEF ViewerTrue
      <4>2. Pieced(viewer.received \o Execution!Pieces(Head(stream.events)), Head(stream.events).offset)
        BY <3>1, <4>1, MorePieces DEF Execution!Pieces
      <4> QED
        BY <1>2, <3>1, <3>5, <3>6, <4>2, RowFields, SMTT(20) DEF ViewerTrue
    <3> QED
      BY <1>3, <3>7, <3>8, <3>9, <3>10, <3>11, <3>12 DEF CommandInv
  <2>2. CASE Head(stream.events).type = "status"
    <3>1. /\ viewer.at = "watch"
          /\ viewer.told = "none"
          /\ Head(stream.events) \in Message
          /\ Head(stream.events).offset \in Nat
          /\ Head(stream.events).source \in {"p", "s"}
          /\ Head(stream.events).source = "p" => Head(stream.events).offset <= program.output
          /\ Head(stream.events).source = "s" => Head(stream.events).offset <= 1
          /\ Head(stream.events).offset = viewer.offset
    BY <2>2, <1>22, <1>2, Consuming, RowFields DEF Message, EventTrue, Follows, ViewerTrue
    <3>2. stream' = [stream EXCEPT !.events = Tail(@)]
      BY <1>22, <2>2 DEF Execution!Consume, Execution!Consumed
    <3>3. /\ stream'.at = stream.at
          /\ stream'.given = stream.given
          /\ stream'.source = stream.source
          /\ stream'.offset = stream.offset
          /\ stream'.status = stream.status
          /\ stream'.events = Tail(stream.events)
      BY <1>1, <3>1, <3>2 DEF Connection
    <3>4. viewer' = [viewer EXCEPT !.source = Head(stream.events).source, !.offset = Head(stream.events).offset]
      BY <1>22, <2>2 DEF Execution!Consume, Execution!Consumed
    <3>5. /\ viewer'.at = viewer.at
          /\ viewer'.received = viewer.received
          /\ viewer'.retries = viewer.retries
          /\ viewer'.told = viewer.told
          /\ viewer'.source = Head(stream.events).source
          /\ viewer'.offset = Head(stream.events).offset
      BY <1>1, <3>1, <3>4 DEF Observer
    <3>6. UNCHANGED <<command, program, creator, killer, reader>>
      BY <1>22, <2>2 DEF Execution!Consume
    <3>7. Started'
      BY <1>2, <3>6 DEF Started
    <3>8. RowTrue'
      BY <1>2, <3>6 DEF RowTrue
    <3>9. ASSUME NEW x \in Execution!Reader PROVE ReaderTrue(x)'
      BY <1>2, <3>6 DEF ReaderTrue
    <3>10. StreamTrue'
      BY <2>2, <1>2, RowFields, <3>1, <3>3, <3>5, <3>6, SMTT(20) DEF StreamTrue
    <3>11. InFlight'
      BY <1>22, <3>3, <3>5, <3>6, Consuming DEF InFlight, EventTrue
    <3>12. ViewerTrue'
      BY <2>2, <1>2, RowFields, <3>1, <3>3, <3>5, <3>6, SMTT(20) DEF ViewerTrue
    <3> QED
      BY <1>3, <3>7, <3>8, <3>9, <3>10, <3>11, <3>12 DEF CommandInv
  <2>3. CASE Head(stream.events).type = "complete"
    <3>1. /\ viewer.at = "watch"
          /\ viewer.told = "none"
          /\ Head(stream.events) \in Message
          /\ Head(stream.events).offset \in Nat
          /\ Head(stream.events).source \in {"p", "s"}
          /\ Head(stream.events).source = "p" => Head(stream.events).offset <= program.output
          /\ Head(stream.events).source = "s" => Head(stream.events).offset <= 1
          /\ Head(stream.events).offset = viewer.offset
          /\ stream.at = "closed"
          /\ Head(stream.events).status = "succeeded" => Head(stream.events).offset = program.output /\ program.state = "succeeded"
    BY <2>3, <1>22, <1>2, Consuming, RowFields DEF Message, EventTrue, Follows, ViewerTrue
    <3>2. stream' = [stream EXCEPT !.events = Tail(@)]
      BY <1>22, <2>3 DEF Execution!Consume, Execution!Consumed
    <3>3. /\ stream'.at = stream.at
          /\ stream'.given = stream.given
          /\ stream'.source = stream.source
          /\ stream'.offset = stream.offset
          /\ stream'.status = stream.status
          /\ stream'.events = Tail(stream.events)
      BY <1>1, <3>1, <3>2 DEF Connection
    <3>4. viewer' = [viewer EXCEPT !.at = "complete", !.told = Head(stream.events).status]
      BY <1>22, <2>3 DEF Execution!Consume, Execution!Consumed
    <3>5. /\ viewer'.source = viewer.source
          /\ viewer'.offset = viewer.offset
          /\ viewer'.received = viewer.received
          /\ viewer'.retries = viewer.retries
          /\ viewer'.at = "complete"
          /\ viewer'.told = Head(stream.events).status
      BY <1>1, <3>1, <3>4 DEF Observer
    <3>6. UNCHANGED <<command, program, creator, killer, reader>>
      BY <1>22, <2>3 DEF Execution!Consume
    <3>7. Started'
      BY <1>2, <3>6 DEF Started
    <3>8. RowTrue'
      BY <1>2, <3>6 DEF RowTrue
    <3>9. ASSUME NEW x \in Execution!Reader PROVE ReaderTrue(x)'
      BY <1>2, <3>6 DEF ReaderTrue
    <3>10. StreamTrue'
      BY <2>3, <1>2, RowFields, <3>1, <3>3, <3>5, <3>6, SMTT(20) DEF StreamTrue
    <3>11. InFlight'
      BY <2>3, <1>2, RowFields, <3>1, <3>3, <3>5, <3>6, SMTT(20) DEF InFlight, EventTrue
    <3>12. ViewerTrue'
      BY <2>3, <1>2, RowFields, <3>1, <3>3, <3>5, <3>6, SMTT(20) DEF ViewerTrue
    <3> QED
      BY <1>3, <3>7, <3>8, <3>9, <3>10, <3>11, <3>12 DEF CommandInv
  <2>4. CASE Head(stream.events).type = "error"
    <3>1. /\ viewer.at = "watch"
          /\ viewer.told = "none"
          /\ Head(stream.events) \in Message
          /\ Head(stream.events).offset \in Nat
          /\ Head(stream.events).source \in {"p", "s"}
          /\ Head(stream.events).source = "p" => Head(stream.events).offset <= program.output
          /\ Head(stream.events).source = "s" => Head(stream.events).offset <= 1
          /\ stream.at = "closed"
    BY <2>4, <1>22, <1>2, Consuming, RowFields DEF Message, EventTrue, Follows, ViewerTrue
    <3>2. stream' = [stream EXCEPT !.events = Tail(@)]
      BY <1>22, <2>4 DEF Execution!Consume, Execution!Consumed
    <3>3. /\ stream'.at = stream.at
          /\ stream'.given = stream.given
          /\ stream'.source = stream.source
          /\ stream'.offset = stream.offset
          /\ stream'.status = stream.status
          /\ stream'.events = Tail(stream.events)
      BY <1>1, <3>1, <3>2 DEF Connection
    <3>4. viewer' = [viewer EXCEPT !.at = "error"]
      BY <1>22, <2>4 DEF Execution!Consume, Execution!Consumed
    <3>5. /\ viewer'.source = viewer.source
          /\ viewer'.offset = viewer.offset
          /\ viewer'.received = viewer.received
          /\ viewer'.retries = viewer.retries
          /\ viewer'.told = viewer.told
          /\ viewer'.at = "error"
      BY <1>1, <3>1, <3>4 DEF Observer
    <3>6. UNCHANGED <<command, program, creator, killer, reader>>
      BY <1>22, <2>4 DEF Execution!Consume
    <3>7. Started'
      BY <1>2, <3>6 DEF Started
    <3>8. RowTrue'
      BY <1>2, <3>6 DEF RowTrue
    <3>9. ASSUME NEW x \in Execution!Reader PROVE ReaderTrue(x)'
      BY <1>2, <3>6 DEF ReaderTrue
    <3>10. StreamTrue'
      BY <2>4, <1>2, RowFields, <3>1, <3>3, <3>5, <3>6, SMTT(20) DEF StreamTrue
    <3>11. InFlight'
      BY <2>4, <1>2, RowFields, <3>1, <3>3, <3>5, <3>6, SMTT(20) DEF InFlight, EventTrue
    <3>12. ViewerTrue'
      BY <2>4, <1>2, RowFields, <3>1, <3>3, <3>5, <3>6, SMTT(20) DEF ViewerTrue
    <3> QED
      BY <1>3, <3>7, <3>8, <3>9, <3>10, <3>11, <3>12 DEF CommandInv
  <2>5. CASE Head(stream.events).type = "reconnect"
    <3>1. /\ viewer.at = "watch"
          /\ viewer.told = "none"
          /\ Head(stream.events) \in Message
          /\ Head(stream.events).offset \in Nat
          /\ Head(stream.events).source \in {"p", "s"}
          /\ Head(stream.events).source = "p" => Head(stream.events).offset <= program.output
          /\ Head(stream.events).source = "s" => Head(stream.events).offset <= 1
          /\ stream.at = "closed"
          /\ Head(stream.events).offset = viewer.offset
    BY <2>5, <1>22, <1>2, Consuming, RowFields DEF Message, EventTrue, Follows, ViewerTrue
    <3>2. stream' = [stream EXCEPT !.events = Tail(@)]
      BY <1>22, <2>5 DEF Execution!Consume, Execution!Consumed
    <3>3. /\ stream'.at = stream.at
          /\ stream'.given = stream.given
          /\ stream'.source = stream.source
          /\ stream'.offset = stream.offset
          /\ stream'.status = stream.status
          /\ stream'.events = Tail(stream.events)
      BY <1>1, <3>1, <3>2 DEF Connection
    <3>4. viewer' = [viewer EXCEPT !.at = "connect", !.source = Head(stream.events).source, !.offset = Head(stream.events).offset]
      BY <1>22, <2>5 DEF Execution!Consume, Execution!Consumed
    <3>5. /\ viewer'.received = viewer.received
          /\ viewer'.retries = viewer.retries
          /\ viewer'.told = viewer.told
          /\ viewer'.at = "connect"
          /\ viewer'.source = Head(stream.events).source
          /\ viewer'.offset = Head(stream.events).offset
      BY <1>1, <3>1, <3>4 DEF Observer
    <3>6. UNCHANGED <<command, program, creator, killer, reader>>
      BY <1>22, <2>5 DEF Execution!Consume
    <3>7. Started'
      BY <1>2, <3>6 DEF Started
    <3>8. RowTrue'
      BY <1>2, <3>6 DEF RowTrue
    <3>9. ASSUME NEW x \in Execution!Reader PROVE ReaderTrue(x)'
      BY <1>2, <3>6 DEF ReaderTrue
    <3>10. StreamTrue'
      BY <2>5, <1>2, RowFields, <3>1, <3>3, <3>5, <3>6, SMTT(20) DEF StreamTrue
    <3>11. InFlight'
      BY <2>5, <1>2, RowFields, <3>1, <3>3, <3>5, <3>6, SMTT(20) DEF InFlight, EventTrue
    <3>12. ViewerTrue'
      BY <2>5, <1>2, RowFields, <3>1, <3>3, <3>5, <3>6, SMTT(20) DEF ViewerTrue
    <3> QED
      BY <1>3, <3>7, <3>8, <3>9, <3>10, <3>11, <3>12 DEF CommandInv
  <2>6. Head(stream.events).type \in {"output", "status", "complete", "error", "reconnect"}
    BY <1>22, Consuming DEF Message
  <2> QED
    BY <2>1, <2>2, <2>3, <2>4, <2>5, <2>6
<1>23. ASSUME Execution!Disconnect PROVE CommandInv'
  <2>1. /\ viewer.at \in {"connect", "watch"}
        /\ viewer.told = "none"
    BY <1>23, <1>2, RowFields DEF Execution!Disconnect, Started, ViewerTrue, StreamTrue
  <2>2. stream'.at = "closed"
    BY <1>23, <1>1, <2>1 DEF Execution!Disconnect, Connection, Execution!Closed
  <2>3. /\ reader'["stream"].at = "idle"
        /\ \A z \in Execution!Reader : z # "stream" => reader'[z] = reader[z]
    BY <1>23, <1>1, <2>1 DEF Execution!Disconnect, Refresh, Execution!Unread, Execution!Reader
  <2>4. /\ viewer'.at \in {"connect", "error"}
        /\ viewer'.source = viewer.source
        /\ viewer'.offset = viewer.offset
        /\ viewer'.received = viewer.received
        /\ viewer'.told = viewer.told
    BY <1>23, <1>1, <2>1 DEF Execution!Disconnect, Observer
  <2>5. UNCHANGED <<command, program, creator, killer>>
    BY <1>23 DEF Execution!Disconnect
  <2>6. Started'
    BY <1>2, <2>5 DEF Started
  <2>7. RowTrue'
    BY <1>2, <2>5 DEF RowTrue
  <2>8. ASSUME NEW x \in Execution!Reader PROVE ReaderTrue(x)'
    BY <1>2, RowFields, <2>1, <2>2, <2>3, <2>4, <2>5, SMTT(20) DEF ReaderTrue
  <2>9. StreamTrue'
    BY <1>2, RowFields, <2>1, <2>2, <2>3, <2>4, <2>5, SMTT(20) DEF StreamTrue
  <2>10. InFlight'
    BY <1>2, RowFields, <2>1, <2>2, <2>3, <2>4, <2>5, SMTT(20) DEF InFlight, EventTrue
  <2>11. ViewerTrue'
    BY <1>2, RowFields, <2>1, <2>2, <2>3, <2>4, <2>5, SMTT(20) DEF ViewerTrue
  <2> QED
    BY <1>3, <2>6, <2>7, <2>8, <2>9, <2>10, <2>11 DEF CommandInv
<1>24. CASE UNCHANGED Execution!commandVars
  BY <1>2, <1>3, <1>24
     DEF Execution!commandVars, CommandInv, Started, RowTrue, ReaderTrue, StreamTrue, InFlight, EventTrue, ViewerTrue
<1> QED
  BY <1>4, <1>5, <1>6, <1>7, <1>8, <1>9, <1>10, <1>11, <1>12, <1>13, <1>14, <1>15, <1>16, <1>17, <1>18, <1>19, <1>20,
     <1>21, <1>22, <1>23, <1>24 DEF Execution!Next, Execution!StreamStep, Execution!ViewerStep, Execution!Reader

LEMMA CommandInvariant == Execution!Spec => []CommandInv
<1>1. Execution!Init => CommandInv
  <2> SUFFICES ASSUME Execution!Init PROVE CommandInv
    OBVIOUS
  <2>1. /\ command.status = "none" /\ program.state = "none" /\ creator = "idle"
        /\ \A r \in Execution!Reader : reader[r].at = "idle"
        /\ stream.at = "closed" /\ viewer.at = "idle" /\ viewer.source = "none" /\ viewer.offset = 0
        /\ viewer.received = <<>> /\ viewer.told = "none"
    BY DEF Execution!Init, Execution!Unread, Execution!Closed
  <2>2. <<>> \in Seq(Nat) /\ <<>> \in Seq(Message) /\ Len(<<>>) = 0
    BY EmptySeq
  <2>3. Kinds
    BY <2>2 DEF Execution!Init, Kinds, Execution!Unread, Execution!Closed, Refresh, Connection, Observer,
       Execution!Source, Execution!Status
  <2>4. Pieced(viewer.received, viewer.offset)
    BY <2>1, <2>2 DEF Pieced
  <2> QED
    BY <2>1, <2>3, <2>4, "stream" \in Execution!Reader
       DEF CommandInv, Started, RowTrue, ReaderTrue, StreamTrue, InFlight, ViewerTrue, Execution!Reader
<1>2. CommandInv /\ [Execution!Next]_(Execution!commandVars) => CommandInv'
  BY CommandKept
<1> QED
  BY <1>1, <1>2, PTL DEF Execution!Spec

(* Every piece of output reaches the viewer once and in order, for any     *)
(* length of the output and any number of connections that rotate or break. *)
THEOREM OutputArrivesOnce == Spec => []OutputOnce
<1>1. CommandInv => Execution!OutputOnce
  <2> SUFFICES ASSUME CommandInv PROVE viewer.received = [i \in 1..Len(viewer.received) |-> i]
    BY DEF Execution!OutputOnce
  <2>1. /\ viewer.received \in Seq(Nat) /\ Len(viewer.received) = viewer.offset
        /\ \A i \in 1..viewer.offset : viewer.received[i] = i
    BY DEF CommandInv, ViewerTrue, Pieced
  <2> QED
    BY <2>1
<1> QED
  BY <1>1, CommandInvariant, ImplementsExecution, PTL DEF OutputOnce

(* A viewer told that the command succeeded has received all it wrote,     *)
(* whichever reads, starts and kills wrote the row in between.             *)
THEOREM SuccessComesWithAllOutput == Spec => []SucceededMeansAll
<1>1. CommandInv => Execution!SucceededMeansAll
  BY DEF CommandInv, ViewerTrue, Pieced, Execution!SucceededMeansAll
<1> QED
  BY <1>1, CommandInvariant, ImplementsExecution, PTL DEF SucceededMeansAll
================================================================================
