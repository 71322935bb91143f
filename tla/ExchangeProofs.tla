--------------------------- MODULE ExchangeProofs ---------------------------
(***************************************************************************)
(* Proofs about Exchange, for conversations, answers and streams of any    *)
(* length, channels of any capacity, any upstream and any pace of the two  *)
(* goroutines.                                                             *)
(*                                                                         *)
(* The first half follows the events of a stream through the channel, the  *)
(* second what the adapters translate.                                     *)
(***************************************************************************)
EXTENDS Exchange, FunctionTheorems, FiniteSetTheorems, TLAPS

Final(e) == e.kind \in {"done", "error"}

\* Only the last event may be final, and the lines of the others go up.
Precedes(e, f) == e.kind = "data" /\ (f.line = 0 \/ e.line < f.line)

EventOK(e) ==
  /\ e \in Event
  /\ e.line <= read
  /\ e.kind = "data" => e.line > 0
  /\ Final(e) => reader = "closed"
  /\ e.kind = "done" /\ dialect # "google" => e.line = read /\ read > 0 /\ lines[read] = "end"

EventsInv ==
  /\ lines \in Seq(Lines)
  /\ read \in 0 .. Len(lines)
  /\ channel \in Seq(Event)
  /\ written \in Seq(Event)
  /\ \A n \in 1 .. Len(channel) : EventOK(channel[n])
  /\ \A n \in 1 .. Len(written) : EventOK(written[n])

OrderInv ==
  /\ \A m, n \in 1 .. Len(channel) : m < n => Precedes(channel[m], channel[n])
  /\ \A m, n \in 1 .. Len(written) : m < n => Precedes(written[m], written[n])
  /\ \A m \in 1 .. Len(written), n \in 1 .. Len(channel) : Precedes(written[m], channel[n])

\* Text that has been read is in the channel or has been written.
WholeInv ==
  \A i \in 1 .. read : lines[i] = "text" =>
    \/ \E n \in 1 .. Len(channel) : channel[n].kind = "data" /\ channel[n].line = i
    \/ \E n \in 1 .. Len(written) : written[n].kind = "data" /\ written[n].line = i

\* How the two goroutines stand, and why a closed channel is closed.
StagesInv ==
  /\ reader \in {"off", "reading", "closed"}
  /\ handler \in {"calling", "ranging", "done"}
  /\ reader = "off" => read = 0 /\ channel = <<>> /\ written = <<>>
  /\ handler = "calling" => reader = "off"
  /\ handler # "done" => released = "unset"
  /\ reader = "closed" /\ handler = "ranging" /\ dialect # "google" =>
       \/ \E n \in 1 .. Len(channel) : Final(channel[n])
       \/ body = "ended" /\ read = Len(lines)
  /\ released = "success" =>
       /\ channel = <<>> /\ reader # "reading"
       /\ stream /\ dialect # "google" =>
            \/ written # <<>> /\ written[Len(written)].kind = "done"
            \/ body = "ended" /\ read = Len(lines)
  /\ reader = "off" /\ handler = "done" => released # "success" \/ ~ stream

IInv == EventsInv /\ OrderInv /\ WholeInv /\ StagesInv

-----------------------------------------------------------------------------
(* The channel                                                             *)

\* An event goes behind those that are there.
LEMMA SendingOne ==
  ASSUME channel \in Seq(Event), NEW e \in Event, Sent(<<e>>)
  PROVE  /\ channel' \in Seq(Event)
         /\ Len(channel') = Len(channel) + 1
         /\ \A n \in 1 .. Len(channel) : channel'[n] = channel[n]
         /\ channel'[Len(channel) + 1] = e
  <1>1. <<e>> \in Seq(Event) /\ Len(<<e>>) = 1 /\ <<e>>[1] = e
    OBVIOUS
  <1>2. channel' = channel \o <<e>>
    BY DEF Sent
  <1>3. QED
    BY <1>1, <1>2

LEMMA SendingNone ==
  ASSUME channel \in Seq(Event), Sent(<<>>)
  PROVE  channel' = channel
  BY DEF Sent

\* What a reader adds at the end of its stream is nothing or one final event.
LEMMA LastOfStream ==
  ASSUME channel \in Seq(Event), NEW clean \in BOOLEAN,
         Sent([i \in DOMAIN LastEvents(dialect, clean) |->
                 [kind |-> LastEvents(dialect, clean)[i], line |-> 0]])
  PROVE  \/ dialect # "google" /\ clean /\ channel' = channel
         \/ \E kind \in {"done", "error"} :
              /\ kind = "done" => dialect = "google"
              /\ Sent(<<[kind |-> kind, line |-> 0]>>)
  <1> DEFINE last == LastEvents(dialect, clean)
             events == [i \in DOMAIN last |-> [kind |-> last[i], line |-> 0]]
  <1>1. CASE dialect # "google" /\ clean
    <2>1. last = <<>>
      BY <1>1 DEF LastEvents
    <2>2. events = <<>>
      BY <2>1
    <2> HIDE DEF events
    <2>3. QED
      BY <1>1, <2>2, SendingNone DEF events
  <1>2. ASSUME NEW kind \in {"done", "error"}, kind = "done" => dialect = "google",
               last = <<kind>>
        PROVE  \E k \in {"done", "error"} :
                 /\ k = "done" => dialect = "google"
                 /\ Sent(<<[kind |-> k, line |-> 0]>>)
    <2>1. events = <<[kind |-> kind, line |-> 0]>>
      BY <1>2
    <2>2. QED
      BY <1>2, <2>1
  <1>3. CASE dialect = "google"
    <2>1. last = <<"done">>
      BY <1>3 DEF LastEvents
    <2>2. QED
      BY <1>2, <1>3, <2>1
  <1>4. CASE dialect # "google" /\ ~ clean
    <2>1. last = <<"error">>
      BY <1>4 DEF LastEvents
    <2>2. QED
      BY <1>2, <1>4, <2>1
  <1>5. QED
    BY <1>1, <1>3, <1>4

\* While the reader reads, no final event is on its way or has been written.
LEMMA OnlyDataYet ==
  ASSUME EventsInv, reader = "reading"
  PROVE  /\ \A n \in 1 .. Len(channel) : channel[n].kind = "data"
         /\ \A n \in 1 .. Len(written) : written[n].kind = "data"
  BY DEF EventsInv, EventOK, Final, Event

-----------------------------------------------------------------------------
(* The actions                                                             *)

LEMMA InitHolds == ASSUME Init PROVE IInv
  BY DEF Init, IInv, EventsInv, OrderInv, WholeInv, StagesInv

\* Steps that leave the stream's events and what has been read alone.
LEMMA EventsFrame ==
  ASSUME IInv, UNCHANGED <<dialect, lines, read, reader, channel, written>>
  PROVE  EventsInv' /\ OrderInv' /\ WholeInv'
  BY DEF IInv, EventsInv, EventOK, OrderInv, WholeInv

LEMMA RefusedKeeps ==
  ASSUME IInv, NEW status \in Refusals, Refused(status)
  PROVE  IInv'
  <1>1. EventsInv' /\ OrderInv' /\ WholeInv'
    BY EventsFrame DEF Refused, request, upstreamVars, readerVars
  <1>2. StagesInv'
    BY DEF IInv, StagesInv, Refused, request, upstreamVars, readerVars
  <1>3. QED
    BY <1>1, <1>2 DEF IInv

LEMMA AnsweredKeeps ==
  ASSUME IInv, NEW a \in Answers, Answered(a)
  PROVE  IInv'
  <1>1. EventsInv' /\ OrderInv' /\ WholeInv'
    BY EventsFrame DEF Answered, request, upstreamVars, readerVars
  <1>2. StagesInv'
    BY DEF IInv, StagesInv, Answered, request, upstreamVars, readerVars
  <1>3. QED
    BY <1>1, <1>2 DEF IInv

LEMMA AcceptedKeeps ==
  ASSUME IInv, Accepted
  PROVE  IInv'
  <1>1. reader = "off" /\ read = 0 /\ channel = <<>> /\ written = <<>>
    BY DEF IInv, StagesInv, Accepted
  <1>2. EventsInv' /\ OrderInv' /\ WholeInv'
    BY <1>1 DEF IInv, EventsInv, OrderInv, WholeInv, Accepted, request, upstreamVars
  <1>3. StagesInv'
    BY <1>1 DEF IInv, StagesInv, Accepted, request, upstreamVars
  <1>4. QED
    BY <1>2, <1>3 DEF IInv

\* A new line changes none of those that were read.
LEMMA StreamLineKeeps ==
  ASSUME IInv, NEW line \in Lines, StreamLine(line)
  PROVE  IInv'
  <1>1. /\ lines' = Append(lines, line) /\ body = "open"
        /\ UNCHANGED <<dialect, stream, body, read, reader, channel, handler, written, released>>
    BY DEF StreamLine, request, readerVars
  <1>2. /\ lines' \in Seq(Lines)
        /\ Len(lines') = Len(lines) + 1
        /\ \A i \in 1 .. Len(lines) : lines'[i] = lines[i]
    BY <1>1 DEF IInv, EventsInv
  <1>3. read \in 0 .. Len(lines')
    BY <1>2 DEF IInv, EventsInv
  <1>4. \A i \in 1 .. read : lines'[i] = lines[i]
    BY <1>2 DEF IInv, EventsInv
  <1>5. \A e : EventOK(e) => EventOK(e)'
    BY <1>1, <1>4 DEF EventOK, Final, IInv, EventsInv
  <1>6. EventsInv'
    BY <1>1, <1>2, <1>3, <1>5 DEF IInv, EventsInv
  <1>7. OrderInv' /\ WholeInv'
    BY <1>1, <1>4 DEF IInv, OrderInv, WholeInv
  <1>8. StagesInv'
    BY <1>1 DEF IInv, StagesInv, Final
  <1>9. QED
    BY <1>6, <1>7, <1>8 DEF IInv

LEMMA EndBodyKeeps == ASSUME IInv, EndBody PROVE IInv'
  <1>1. EventsInv' /\ OrderInv' /\ WholeInv'
    BY EventsFrame DEF EndBody, request, readerVars
  <1>2. StagesInv'
    BY DEF IInv, StagesInv, EndBody, request, readerVars
  <1>3. QED
    BY <1>1, <1>2 DEF IInv

LEMMA HangUpKeeps == ASSUME IInv, HangUp PROVE IInv'
  <1>1. EventsInv' /\ OrderInv' /\ WholeInv'
    BY EventsFrame DEF HangUp, request, upstreamVars, readerVars
  <1>2. StagesInv'
    BY DEF IInv, StagesInv, HangUp, request, upstreamVars, readerVars
  <1>3. QED
    BY <1>1, <1>2 DEF IInv

\* An event that is sent comes last, and the lines behind it stay as they are.
LEMMA SendingKeeps ==
  ASSUME IInv, reader = "reading", NEW e \in Event, Sent(<<e>>),
         read' \in {read, read + 1}, read' <= Len(lines),
         e.line = 0 \/ (e.line = read + 1 /\ e.line = read'),
         e.kind = "data" => e.line > 0,
         Final(e) => reader' = "closed",
         e.kind = "done" /\ dialect # "google" =>
           e.line = read' /\ read' > 0 /\ lines[read'] = "end",
         UNCHANGED <<dialect, lines, written>>
  PROVE  EventsInv' /\ OrderInv'
  <1>1. /\ channel' \in Seq(Event)
        /\ Len(channel') = Len(channel) + 1
        /\ \A n \in 1 .. Len(channel) : channel'[n] = channel[n]
        /\ channel'[Len(channel) + 1] = e
        /\ Len(channel) \in Nat
    BY SendingOne DEF IInv, EventsInv
  <1>2. /\ \A n \in 1 .. Len(channel) :
             channel[n] \in Event /\ channel[n].kind = "data" /\ 0 < channel[n].line
             /\ channel[n].line <= read
        /\ \A n \in 1 .. Len(written) :
             written[n] \in Event /\ written[n].kind = "data" /\ 0 < written[n].line
             /\ written[n].line <= read
    BY OnlyDataYet DEF IInv, EventsInv, EventOK
  <1>3. read \in Nat /\ read' \in Nat /\ read <= read'
    BY DEF IInv, EventsInv
  <1>4. e.line \in Nat /\ e.line <= read'
    BY <1>3 DEF Event
  <1> DEFINE NextOK(f) ==
        /\ f \in Event
        /\ f.line <= read'
        /\ f.kind = "data" => f.line > 0
        /\ Final(f) => reader' = "closed"
        /\ f.kind = "done" /\ dialect # "google" =>
             f.line = read' /\ read' > 0 /\ lines[read'] = "end"
  <1>5. \A f \in Event : f.kind = "data" /\ 0 < f.line /\ f.line <= read => NextOK(f)
    BY <1>3 DEF Final, Event
  <1>6. NextOK(e)
    BY <1>4
  <1> HIDE DEF NextOK
  <1>7. EventsInv'
    <2>1. \A n \in 1 .. Len(channel') : NextOK(channel'[n])
      BY <1>1, <1>2, <1>5, <1>6
    <2>2. \A n \in 1 .. Len(written) : NextOK(written[n])
      BY <1>2, <1>5
    <2>3. QED
      BY <1>1, <1>3, <2>1, <2>2 DEF IInv, EventsInv, EventOK, NextOK, Final
  <1>8. \A f \in Event : f.kind = "data" /\ f.line <= read => Precedes(f, e)
    BY <1>3, <1>4 DEF Precedes, Event
  <1>9. \A m, n \in 1 .. Len(channel') : m < n => Precedes(channel'[m], channel'[n])
    <2>1. TAKE m, n \in 1 .. Len(channel')
    <2>2. HAVE m < n
    <2>3. CASE n = Len(channel) + 1
      BY <1>1, <1>2, <1>8, <2>2, <2>3
    <2>4. CASE n # Len(channel) + 1
      BY <1>1, <2>2, <2>4 DEF IInv, OrderInv
    <2>5. QED
      BY <2>3, <2>4
  <1>10. \A m \in 1 .. Len(written), n \in 1 .. Len(channel') : Precedes(written[m], channel'[n])
    <2>1. TAKE m \in 1 .. Len(written), n \in 1 .. Len(channel')
    <2>2. CASE n = Len(channel) + 1
      BY <1>1, <1>2, <1>8, <2>2
    <2>3. CASE n # Len(channel) + 1
      BY <1>1, <2>3 DEF IInv, OrderInv
    <2>4. QED
      BY <2>2, <2>3
  <1>11. QED
    BY <1>7, <1>9, <1>10 DEF IInv, OrderInv, Precedes

LEMMA ReadLineKeeps ==
  ASSUME IInv, ReadLine
  PROVE  IInv'
  <1> DEFINE line == lines[read + 1]
             kind == EventKind(dialect, line)
             e == [kind |-> kind, line |-> read + 1]
  <1>1. /\ reader = "reading" /\ read < Len(lines) /\ read' = read + 1
        /\ line # "huge"
        /\ Sent(IF kind = "none" THEN <<>> ELSE <<e>>)
        /\ reader' = IF kind \in {"done", "error"} THEN "closed" ELSE reader
        /\ UNCHANGED <<dialect, stream, lines, body, handler, written, released>>
    BY DEF ReadLine, Close, request, upstreamVars
  <1>2. read \in Nat /\ line \in Lines
    BY <1>1 DEF IInv, EventsInv
  <1>3. /\ kind \in {"none", "data", "done", "error"}
        /\ line = "text" => kind = "data"
        /\ kind = "done" => line = "end"
    BY <1>1, <1>2 DEF EventKind, Lines
  <1> HIDE DEF line, kind
  <1>4. CASE kind = "none"
    <2>1. channel' = channel /\ reader' = reader
      BY <1>1, <1>4, SendingNone DEF IInv, EventsInv
    <2>2. EventsInv'
      <3>1. \A f : EventOK(f) => EventOK(f)'
        BY <1>1, <1>2, <2>1 DEF EventOK, Final, Event
      <3>2. QED
        BY <1>1, <1>2, <2>1, <3>1 DEF IInv, EventsInv
    <2>3. OrderInv'
      BY <1>1, <2>1 DEF IInv, OrderInv
    <2>4. WholeInv'
      <3>1. lines[read + 1] # "text"
        BY <1>3, <1>4 DEF line
      <3>2. QED
        BY <1>1, <1>2, <2>1, <3>1 DEF IInv, WholeInv
    <2>5. StagesInv'
      BY <1>1, <2>1 DEF IInv, StagesInv
    <2>6. QED
      BY <2>2, <2>3, <2>4, <2>5 DEF IInv
  <1>5. CASE kind # "none"
    <2>1. e \in Event
      BY <1>2, <1>3, <1>5 DEF Event
    <2>2. e.line = read + 1 /\ e.kind = kind
      OBVIOUS
    <2>3. Sent(<<e>>)
      BY <1>1, <1>5
    <2> HIDE DEF e
    <2>4. /\ channel' \in Seq(Event)
          /\ Len(channel') = Len(channel) + 1
          /\ \A n \in 1 .. Len(channel) : channel'[n] = channel[n]
          /\ channel'[Len(channel) + 1] = e
          /\ Len(channel) \in Nat
      BY <2>1, <2>3, SendingOne DEF IInv, EventsInv
    <2>5. EventsInv' /\ OrderInv'
      <3>1. Final(e) => reader' = "closed"
        BY <1>1, <2>2 DEF Final
      <3>2. e.kind = "done" => lines[read'] = "end"
        BY <1>1, <1>3, <2>2 DEF line
      <3>3. read' \in {read, read + 1} /\ read' <= Len(lines) /\ read' > 0
            /\ e.line = read + 1 /\ e.line = read' /\ e.line > 0
        BY <1>1, <1>2, <2>2 DEF IInv, EventsInv
      <3>4. QED
        BY <1>1, <2>1, <2>3, <3>1, <3>2, <3>3, SendingKeeps
    <2>6. WholeInv'
      <3>1. ASSUME NEW i \in 1 .. read', lines[i] = "text"
            PROVE  \/ \E n \in 1 .. Len(channel') : channel'[n].kind = "data" /\ channel'[n].line = i
                   \/ \E n \in 1 .. Len(written) : written[n].kind = "data" /\ written[n].line = i
        <4>1. CASE i = read + 1
          <5>1. e.kind = "data" /\ e.line = i
            BY <1>3, <2>2, <3>1, <4>1 DEF line
          <5>2. Len(channel) + 1 \in 1 .. Len(channel')
            BY <2>4
          <5>3. QED
            BY <2>4, <5>1, <5>2
        <4>2. CASE i # read + 1
          <5>1. i \in 1 .. read
            BY <1>1, <1>2, <4>2
          <5>2. QED
            BY <2>4, <3>1, <5>1 DEF IInv, WholeInv
        <4>3. QED
          BY <4>1, <4>2
      <3>2. QED
        BY <1>1, <3>1 DEF WholeInv
    <2>7. StagesInv'
      <3>1. reader' = "closed" => \E n \in 1 .. Len(channel') : Final(channel'[n])
        <4>1. reader' = "closed" => Final(e)
          BY <1>1, <2>2 DEF Final
        <4>2. Len(channel) + 1 \in 1 .. Len(channel')
          BY <2>4
        <4>3. QED
          BY <2>4, <4>1, <4>2
      <3>2. QED
        BY <1>1, <3>1 DEF IInv, StagesInv, Final
    <2>8. QED
      BY <2>5, <2>6, <2>7 DEF IInv
  <1>6. QED
    BY <1>4, <1>5

LEMMA StopReadingKeeps ==
  ASSUME IInv, StopReading
  PROVE  IInv'
  <1>0. PICK failed \in BOOLEAN :
          LET last == LastEvents(dialect, ~ failed) IN
          /\ reader = "reading" /\ reader' = "closed"
          /\ failed \/ (body = "ended" /\ read = Len(lines))
          /\ Sent([i \in DOMAIN last |-> [kind |-> last[i], line |-> 0]])
          /\ UNCHANGED <<dialect, stream, lines, body, read, handler, written, released>>
    BY DEF StopReading, Close, request, upstreamVars
  <1> DEFINE last == LastEvents(dialect, ~ failed)
  <1>1. /\ reader = "reading" /\ reader' = "closed"
        /\ failed \/ (body = "ended" /\ read = Len(lines))
        /\ Sent([i \in DOMAIN last |-> [kind |-> last[i], line |-> 0]])
        /\ UNCHANGED <<dialect, stream, lines, body, read, handler, written, released>>
    BY <1>0
  <1>2. channel \in Seq(Event)
    BY DEF IInv, EventsInv
  <1>3. \/ dialect # "google" /\ ~ failed /\ channel' = channel
        \/ \E kind \in {"done", "error"} :
             /\ kind = "done" => dialect = "google"
             /\ Sent(<<[kind |-> kind, line |-> 0]>>)
    <2> DEFINE clean == ~ failed
    <2>1. clean \in BOOLEAN
      OBVIOUS
    <2>2. Sent([i \in DOMAIN LastEvents(dialect, clean) |->
                  [kind |-> LastEvents(dialect, clean)[i], line |-> 0]])
      BY <1>1
    <2> HIDE DEF clean
    <2>3. \/ dialect # "google" /\ clean /\ channel' = channel
          \/ \E kind \in {"done", "error"} :
               /\ kind = "done" => dialect = "google"
               /\ Sent(<<[kind |-> kind, line |-> 0]>>)
      BY <1>2, <2>1, <2>2, LastOfStream
    <2>4. QED
      BY <2>3 DEF clean
  <1> HIDE DEF last
  <1>4. CASE ~ failed /\ channel' = channel
    <2>1. EventsInv'
      <3>1. \A f : EventOK(f) => EventOK(f)'
        BY <1>1 DEF EventOK, Final
      <3>2. QED
        BY <1>1, <1>4, <3>1 DEF IInv, EventsInv
    <2>2. OrderInv' /\ WholeInv'
      BY <1>1, <1>4 DEF IInv, OrderInv, WholeInv
    <2>3. StagesInv'
      BY <1>1, <1>4 DEF IInv, StagesInv
    <2>4. QED
      BY <2>1, <2>2, <2>3 DEF IInv
  <1>5. ASSUME NEW kind \in {"done", "error"}, kind = "done" => dialect = "google",
               Sent(<<[kind |-> kind, line |-> 0]>>)
        PROVE  IInv'
    <2> DEFINE e == [kind |-> kind, line |-> 0]
    <2>1. e \in Event /\ e.kind = kind /\ e.line = 0 /\ Final(e)
      BY DEF Event, Final
    <2>2. Sent(<<e>>)
      BY <1>5
    <2> HIDE DEF e
    <2>3. /\ channel' \in Seq(Event)
          /\ Len(channel') = Len(channel) + 1
          /\ \A n \in 1 .. Len(channel) : channel'[n] = channel[n]
          /\ channel'[Len(channel) + 1] = e
          /\ Len(channel) \in Nat
      BY <1>2, <2>1, <2>2, SendingOne
    <2>4. EventsInv' /\ OrderInv'
      <3>1. read' \in {read, read + 1} /\ read' <= Len(lines)
        BY <1>1 DEF IInv, EventsInv
      <3>2. /\ e.kind = "data" => e.line > 0
            /\ e.kind = "done" /\ dialect # "google" =>
                 e.line = read' /\ read' > 0 /\ lines[read'] = "end"
        BY <1>5, <2>1
      <3>3. /\ e.line = 0 \/ (e.line = read + 1 /\ e.line = read')
            /\ Final(e) => reader' = "closed"
        BY <1>1, <2>1
      <3>4. UNCHANGED <<dialect, lines, written>> /\ reader = "reading"
        BY <1>1
      <3>5. QED
        BY <2>1, <2>2, <3>1, <3>2, <3>3, <3>4, SendingKeeps
    <2>5. WholeInv'
      <3>1. \A n \in 1 .. Len(channel) : n \in 1 .. Len(channel')
        BY <2>3
      <3>2. QED
        BY <1>1, <2>3, <3>1 DEF IInv, WholeInv
    <2>6. StagesInv'
      <3>1. \E n \in 1 .. Len(channel') : Final(channel'[n])
        <4>1. Len(channel) + 1 \in 1 .. Len(channel')
          BY <2>3
        <4>2. QED
          BY <2>1, <2>3, <4>1
      <3>2. QED
        BY <1>1, <3>1 DEF IInv, StagesInv, Final
    <2>7. QED
      BY <2>4, <2>5, <2>6 DEF IInv
  <1>6. QED
    BY <1>3, <1>4, <1>5

\* The first event leaves the channel, and is written unless it is an error.  A
\* final event leaves an empty channel behind.
LEMMA ReceiveKeeps ==
  ASSUME IInv, Receive
  PROVE  IInv'
  <1> DEFINE event == Head(channel)
  <1>1. /\ handler = "ranging" /\ channel # <<>>
        /\ channel' = Tail(channel)
        /\ written' = IF event.kind = "error" THEN written ELSE Append(written, event)
        /\ event.kind = "data" => UNCHANGED <<handler, released>>
        /\ event.kind = "done" => released' = "success" /\ handler' = "done"
        /\ event.kind = "error" => released' = "failure" /\ handler' = "done"
        /\ UNCHANGED <<dialect, stream, lines, body, read, reader>>
    <2>1. event \in Event
      BY DEF IInv, EventsInv, Receive
    <2>2. event.kind \in {"data", "done", "error"}
      BY <2>1 DEF Event
    <2>3. QED
      BY <2>2 DEF Receive, Finish, request, upstreamVars
  <1>2. /\ channel' \in Seq(Event)
        /\ Len(channel) \in Nat /\ Len(channel) >= 1
        /\ Len(channel') = Len(channel) - 1
        /\ \A n \in 1 .. Len(channel') : channel'[n] = channel[n + 1]
        /\ event = channel[1]
        /\ event \in Event
    BY <1>1 DEF IInv, EventsInv
  <1> HIDE DEF event
  <1>3. EventOK(event) /\ event.kind \in {"data", "done", "error"}
    BY <1>2 DEF IInv, EventsInv, Event
  <1>4. \A n \in 1 .. Len(channel') : n + 1 \in 1 .. Len(channel) /\ channel'[n] = channel[n + 1]
    BY <1>2
  <1>5. \A n \in 1 .. Len(channel') : Precedes(event, channel'[n])
    BY <1>2, <1>4 DEF IInv, OrderInv
  <1>6. event.kind # "data" => channel' = <<>> /\ reader = "closed"
    <2>1. event.kind # "data" => Len(channel') = 0
      BY <1>2, <1>5 DEF Precedes
    <2>2. QED
      BY <1>2, <1>3, <2>1 DEF EventOK, Final
  <1>7. /\ written' \in Seq(Event)
        /\ event.kind = "error" => written' = written
        /\ event.kind # "error" =>
             /\ Len(written') = Len(written) + 1
             /\ written'[Len(written) + 1] = event
        /\ \A n \in 1 .. Len(written) : n \in 1 .. Len(written') /\ written'[n] = written[n]
        /\ Len(written) \in Nat
    BY <1>1, <1>2 DEF IInv, EventsInv
  <1>8. \A n \in 1 .. Len(written') :
          n \in 1 .. Len(written) \/ (n = Len(written) + 1 /\ event.kind # "error")
    BY <1>7
  <1>9. \A f : EventOK(f) => EventOK(f)'
    BY <1>1 DEF EventOK, Final
  <1>10. EventsInv'
    <2>1. \A n \in 1 .. Len(channel') : EventOK(channel'[n])
      BY <1>4 DEF IInv, EventsInv
    <2>2. \A n \in 1 .. Len(written') : EventOK(written'[n])
      BY <1>3, <1>7, <1>8 DEF IInv, EventsInv
    <2>3. QED
      BY <1>1, <1>2, <1>7, <2>1, <2>2 DEF IInv, EventsInv, EventOK, Final
  <1>11. OrderInv'
    <2>1. \A m, n \in 1 .. Len(channel') : m < n => Precedes(channel'[m], channel'[n])
      <3>1. TAKE m, n \in 1 .. Len(channel')
      <3>2. m + 1 < n + 1 <=> m < n
        OBVIOUS
      <3>3. QED
        BY <1>4, <3>2 DEF IInv, OrderInv
    <2>2. \A m, n \in 1 .. Len(written') : m < n => Precedes(written'[m], written'[n])
      <3>1. \A m \in 1 .. Len(written) : Precedes(written[m], event)
        BY <1>2 DEF IInv, OrderInv
      <3>2. TAKE m, n \in 1 .. Len(written')
      <3>3. HAVE m < n
      <3>4. m \in 1 .. Len(written) /\ written'[m] = written[m]
        BY <1>7, <1>8, <3>3
      <3>5. CASE n \in 1 .. Len(written)
        BY <1>7, <3>3, <3>4, <3>5 DEF IInv, OrderInv
      <3>6. CASE n = Len(written) + 1 /\ event.kind # "error"
        BY <1>7, <3>1, <3>4, <3>6
      <3>7. QED
        BY <1>8, <3>5, <3>6
    <2>3. \A m \in 1 .. Len(written'), n \in 1 .. Len(channel') : Precedes(written'[m], channel'[n])
      <3>1. TAKE m \in 1 .. Len(written'), n \in 1 .. Len(channel')
      <3>2. CASE m \in 1 .. Len(written)
        BY <1>4, <1>7, <3>2 DEF IInv, OrderInv
      <3>3. CASE m = Len(written) + 1 /\ event.kind # "error"
        BY <1>5, <1>7, <3>3
      <3>4. QED
        BY <1>8, <3>2, <3>3
    <2>4. QED
      BY <2>1, <2>2, <2>3 DEF OrderInv, Precedes
  <1>12. WholeInv'
    <2>1. ASSUME NEW i \in 1 .. read, lines[i] = "text"
          PROVE  \/ \E n \in 1 .. Len(channel') : channel'[n].kind = "data" /\ channel'[n].line = i
                 \/ \E n \in 1 .. Len(written') : written'[n].kind = "data" /\ written'[n].line = i
      <3>1. CASE \E n \in 1 .. Len(written) : written[n].kind = "data" /\ written[n].line = i
        BY <1>7, <3>1
      <3>2. ASSUME NEW n \in 1 .. Len(channel), channel[n].kind = "data", channel[n].line = i
            PROVE  \/ \E m \in 1 .. Len(channel') : channel'[m].kind = "data" /\ channel'[m].line = i
                   \/ \E m \in 1 .. Len(written') : written'[m].kind = "data" /\ written'[m].line = i
        <4>1. CASE n = 1
          <5>1. event.kind = "data" /\ event.line = i
            BY <1>2, <3>2, <4>1
          <5>2. Len(written) + 1 \in 1 .. Len(written') /\ written'[Len(written) + 1] = event
            BY <1>7, <5>1
          <5>3. QED
            BY <5>1, <5>2
        <4>2. CASE n # 1
          <5>1. n - 1 \in 1 .. Len(channel') /\ (n - 1) + 1 = n
            BY <1>2, <4>2
          <5>2. channel'[n - 1] = channel[n]
            BY <1>4, <5>1
          <5>3. QED
            BY <3>2, <5>1, <5>2
        <4>3. QED
          BY <4>1, <4>2
      <3>3. QED
        BY <2>1, <3>1, <3>2 DEF IInv, WholeInv
    <2>2. QED
      BY <1>1, <2>1 DEF WholeInv
  <1>13. StagesInv'
    <2>1. reader # "off"
      BY <1>1 DEF IInv, StagesInv
    <2>2. CASE event.kind = "data"
      <3>1. released = "unset" /\ handler' = "ranging" /\ released' = "unset"
        BY <1>1, <2>2 DEF IInv, StagesInv
      <3>2. ASSUME NEW n \in 1 .. Len(channel), Final(channel[n])
            PROVE  \E m \in 1 .. Len(channel') : Final(channel'[m])
        <4>1. n # 1
          BY <1>2, <2>2, <3>2 DEF Final
        <4>2. n - 1 \in 1 .. Len(channel') /\ (n - 1) + 1 = n
          BY <1>2, <4>1
        <4>3. channel'[n - 1] = channel[n]
          BY <1>4, <4>2
        <4>4. QED
          BY <3>2, <4>2, <4>3
      <3>3. QED
        BY <1>1, <2>1, <3>1, <3>2 DEF IInv, StagesInv, Final
    <2>3. CASE event.kind = "done"
      <3>1. written' # <<>> /\ written'[Len(written')].kind = "done"
        BY <1>7, <2>3
      <3>2. QED
        BY <1>1, <1>6, <2>1, <2>3, <3>1 DEF IInv, StagesInv, Final
    <2>4. CASE event.kind = "error"
      BY <1>1, <1>6, <2>1, <2>4 DEF IInv, StagesInv, Final
    <2>5. QED
      BY <1>3, <2>2, <2>3, <2>4
  <1>14. QED
    BY <1>10, <1>11, <1>12, <1>13 DEF IInv

LEMMA EndRangeKeeps == ASSUME IInv, EndRange PROVE IInv'
  <1>1. EventsInv' /\ OrderInv' /\ WholeInv'
    BY EventsFrame DEF EndRange, request, upstreamVars, readerVars
  <1>2. StagesInv'
    BY DEF IInv, StagesInv, EndRange, Over, Finish, request, upstreamVars, readerVars, Final
  <1>3. QED
    BY <1>1, <1>2 DEF IInv

LEMMA StutterKeeps == ASSUME IInv, UNCHANGED vars PROVE IInv'
  <1>1. EventsInv' /\ OrderInv' /\ WholeInv'
    BY EventsFrame DEF vars, request, upstreamVars, readerVars
  <1>2. StagesInv'
    BY DEF IInv, StagesInv, Final, vars, request, upstreamVars, readerVars
  <1>3. QED
    BY <1>1, <1>2 DEF IInv

LEMMA NextKeeps == ASSUME IInv, [Next]_vars PROVE IInv'
  BY RefusedKeeps, AnsweredKeeps, AcceptedKeeps, StreamLineKeeps, EndBodyKeeps, HangUpKeeps,
     ReadLineKeeps, StopReadingKeeps, ReceiveKeeps, EndRangeKeeps, StutterKeeps
  DEF Next

-----------------------------------------------------------------------------
(* What the invariant gives                                                *)

LEMMA AlwaysIInv == Spec => []IInv
  BY InitHolds, NextKeeps, PTL DEF Spec

LEMMA WholeWhenInvariant == ASSUME IInv PROVE StreamIsWhole
  <1> DEFINE Text(i) == i \in DOMAIN lines /\ lines[i] = "text"
             Carries(n, i) == written[n].kind = "data" /\ written[n].line = i /\ Text(i)
             upTo == IF released = "success" THEN read
                     ELSE IF written = <<>> THEN 0 ELSE Last(written).line
  <1>1. /\ DOMAIN written = 1 .. Len(written) /\ Len(written) \in Nat
        /\ DOMAIN lines = 1 .. Len(lines) /\ Len(lines) \in Nat
        /\ written # <<>> => Len(written) >= 1
        /\ \A n \in 1 .. Len(written) : EventOK(written[n])
        /\ \A n \in 1 .. Len(channel) : EventOK(channel[n])
    BY DEF IInv, EventsInv
  <1>2. \A i \in 1 .. upTo : Text(i) => \E n \in DOMAIN written : Carries(n, i)
    <2> SUFFICES ASSUME NEW i \in 1 .. upTo, Text(i)
                 PROVE  \E n \in 1 .. Len(written) :
                          written[n].kind = "data" /\ written[n].line = i
      BY <1>1
    <2>1. CASE released = "success"
      <3>1. channel = <<>> /\ Len(channel) = 0 /\ i \in 1 .. read
        BY <2>1 DEF IInv, StagesInv
      <3>2. QED
        BY <3>1 DEF IInv, WholeInv
    <2>2. CASE released # "success" /\ written = <<>>
      BY <2>2
    <2>3. CASE released # "success" /\ written # <<>>
      <3> DEFINE z == Len(written)
      <3>1. z \in 1 .. Len(written)
        BY <1>1, <2>3
      <3>2. written[z].line <= read /\ written[z].line \in Nat /\ read \in Nat
        BY <1>1, <3>1 DEF EventOK, Event, IInv, EventsInv
      <3>3. i \in 1 .. written[z].line /\ i \in 1 .. read
        BY <2>3, <3>2 DEF Last
      <3>4. ASSUME NEW n \in 1 .. Len(channel), channel[n].kind = "data", channel[n].line = i
            PROVE  FALSE
        <4>1. Precedes(written[z], channel[n])
          BY <3>1 DEF IInv, OrderInv
        <4>2. QED
          BY <3>2, <3>3, <3>4, <4>1 DEF Precedes
      <3>5. QED
        BY <3>3, <3>4 DEF IInv, WholeInv
    <2>4. QED
      BY <2>1, <2>2, <2>3
  <1>3. \A m, n \in DOMAIN written, i, j \in DOMAIN lines :
          m < n /\ Carries(m, i) /\ Carries(n, j) => i < j
    <2> SUFFICES ASSUME NEW m \in 1 .. Len(written), NEW n \in 1 .. Len(written), m < n,
                        written[n].kind = "data"
                 PROVE  written[m].line < written[n].line
      BY <1>1
    <2>1. Precedes(written[m], written[n])
      BY DEF IInv, OrderInv
    <2>2. written[n].line > 0
      BY <1>1 DEF EventOK
    <2>3. QED
      BY <2>1, <2>2 DEF Precedes
  <1>4. released = "success" /\ stream /\ dialect # "google" =>
          \/ read > 0 /\ lines[read] = "end" /\ Last(written).kind = "done"
          \/ body = "ended" /\ read = Len(lines)
    <2> SUFFICES ASSUME released = "success", dialect # "google", written # <<>>,
                        written[Len(written)].kind = "done"
                 PROVE  read > 0 /\ lines[read] = "end" /\ Last(written).kind = "done"
      BY DEF IInv, StagesInv
    <2>1. EventOK(written[Len(written)])
      BY <1>1
    <2>2. QED
      BY <2>1 DEF EventOK, Last
  <1>5. QED
    BY <1>2, <1>3, <1>4 DEF StreamIsWhole

\* The readers of internal/provider and handleStreamingChat: text comes to the
\* client whole and in order, and a stream that is reported as a success came
\* to its end.
THEOREM StreamsAreWhole == Spec => []StreamIsWhole
  <1>1. IInv => StreamIsWhole
    BY WholeWhenInvariant
  <1>2. QED
    BY <1>1, AlwaysIInv, PTL

-----------------------------------------------------------------------------
(* Numbers in their order                                                  *)

Below(S, i) == {j \in S : j <= i}

\* Each number of a finite set has a place of its own in it, and every place
\* up to the set's size is taken.
LEMMA PlacesAreFilled ==
  ASSUME NEW S \in SUBSET Nat, IsFiniteSet(S)
  PROVE  /\ Cardinality(S) \in Nat
         /\ \A i, j \in S : i < j => Cardinality(Below(S, i)) < Cardinality(Below(S, j))
         /\ \A n \in 1 .. Cardinality(S) : \E i \in S : Cardinality(Below(S, i)) = n
         /\ \A i \in S : Cardinality(Below(S, i)) \in 1 .. Cardinality(S)
  <1> DEFINE f == [i \in S |-> Cardinality(Below(S, i))]
             places == 1 .. Cardinality(S)
  <1>1. Cardinality(S) \in Nat
    BY FS_CardinalityType
  <1>2. ASSUME NEW i \in S
        PROVE  /\ IsFiniteSet(Below(S, i))
               /\ Cardinality(Below(S, i)) \in places
    <2>1. /\ IsFiniteSet(Below(S, i)) /\ Below(S, i) \in SUBSET S
          /\ Cardinality(Below(S, i)) <= Cardinality(S)
      BY FS_Subset DEF Below
    <2>2. Below(S, i) # {}
      BY DEF Below
    <2>3. Cardinality(Below(S, i)) \in Nat /\ Cardinality(Below(S, i)) # 0
      BY <2>1, <2>2, FS_CardinalityType, FS_EmptySet
    <2>4. QED
      BY <1>1, <2>1, <2>3
  <1>3. ASSUME NEW i \in S, NEW j \in S, i < j
        PROVE  Cardinality(Below(S, i)) < Cardinality(Below(S, j))
    <2>1. Below(S, i) \in SUBSET Below(S, j)
      <3>1. ASSUME NEW x \in S, x <= i
            PROVE  x <= j
        <4>1. x \in Nat /\ i \in Nat /\ j \in Nat
          OBVIOUS
        <4>2. QED
          BY <1>3, <3>1, <4>1
      <3>2. QED
        BY <3>1 DEF Below
    <2>2. j \in Below(S, j) /\ j \notin Below(S, i)
      BY <1>3 DEF Below
    <2>3. /\ Cardinality(Below(S, i)) <= Cardinality(Below(S, j))
          /\ Cardinality(Below(S, i)) # Cardinality(Below(S, j))
      BY <1>2, <2>1, <2>2, FS_Subset
    <2>4. Cardinality(Below(S, i)) \in Nat /\ Cardinality(Below(S, j)) \in Nat
      BY <1>2
    <2>5. QED
      BY <2>3, <2>4
  <1>4. \A i, j \in S : f[i] = f[j] => i = j
    <2>1. TAKE i, j \in S
    <2>2. HAVE f[i] = f[j]
    <2>3. ~ (f[i] < f[j]) /\ ~ (f[j] < f[i])
      BY <1>2, <2>2
    <2>4. QED
      BY <1>3, <2>3
  <1>5. f \in Injection(S, places)
    BY <1>2, <1>4 DEF Injection, IsInjective
  <1>6. IsFiniteSet(places) /\ Cardinality(places) = Cardinality(S)
    BY <1>1, FS_Interval
  <1>7. f \in Surjection(S, places)
    BY <1>5, <1>6, FS_Injection
  <1>8. \A n \in places : \E i \in S : f[i] = n
    BY <1>7 DEF Surjection
  <1>9. QED
    BY <1>1, <1>2, <1>3, <1>8

\* InOrder lists all of them, going up.
LEMMA OrderIsComplete ==
  ASSUME NEW S \in SUBSET Nat, IsFiniteSet(S)
  PROVE  LET N == Cardinality(S)
             list == InOrder(S) IN
         /\ N \in Nat
         /\ list \in Seq(S) /\ Len(list) = N
         /\ \A n \in 1 .. N : list[n] \in S
         /\ \A i \in S : \E n \in 1 .. N : list[n] = i
         /\ \A m, n \in 1 .. N : m < n => list[m] < list[n]
  <1> DEFINE N == Cardinality(S)
             list == InOrder(S)
             Place(i) == Cardinality(Below(S, i))
  <1>1. /\ N \in Nat
        /\ \A i, j \in S : i < j => Place(i) < Place(j)
        /\ \A n \in 1 .. N : \E i \in S : Place(i) = n
        /\ \A i \in S : Place(i) \in 1 .. N
    BY PlacesAreFilled
  <1>2. list = [n \in 1 .. N |-> CHOOSE i \in S : Place(i) = n]
    BY DEF InOrder, Below
  <1> HIDE DEF Place, N, list
  <1>3. \A n \in 1 .. N : list[n] \in S /\ Place(list[n]) = n
    BY <1>1, <1>2
  <1>4. \A i, j \in S : Place(i) = Place(j) => i = j
    <2>1. TAKE i, j \in S
    <2>2. HAVE Place(i) = Place(j)
    <2>3. i \in Nat /\ j \in Nat /\ Place(i) \in Nat
      BY <1>1
    <2>4. ~ (i < j) /\ ~ (j < i)
      BY <1>1, <2>2, <2>3
    <2>5. QED
      BY <2>3, <2>4
  <1>5. ASSUME NEW i \in S
        PROVE  \E n \in 1 .. N : list[n] = i
    BY <1>1, <1>3, <1>4
  <1>6. ASSUME NEW m \in 1 .. N, NEW n \in 1 .. N, m < n
        PROVE  list[m] < list[n]
    <2>1. list[m] \in S /\ list[n] \in S /\ Place(list[m]) = m /\ Place(list[n]) = n
      BY <1>3
    <2>2. list[m] \in Nat /\ list[n] \in Nat
      BY <2>1
    <2>3. m \in Nat /\ n \in Nat /\ ~ (n < m) /\ n # m
      BY <1>1, <1>6
    <2>4. list[n] # list[m]
      BY <2>1, <2>3
    <2>5. ~ (list[n] < list[m])
      BY <1>1, <2>1, <2>3
    <2>6. QED
      BY <2>2, <2>4, <2>5
  <1>7. list \in Seq(S) /\ Len(list) = N
    BY <1>1, <1>2, <1>3
  <1>8. QED
    BY <1>1, <1>3, <1>5, <1>6, <1>7 DEF N, list

\* The greatest of some numbers is one of them and not exceeded.
LEMMA GreatestExists ==
  ASSUME NEW S \in SUBSET Nat, IsFiniteSet(S), S # {}
  PROVE  Max(S) \in S /\ \A i \in S : i <= Max(S)
  <1> DEFINE N == Cardinality(S)
             list == InOrder(S)
  <1>1. /\ N \in Nat
        /\ \A n \in 1 .. N : list[n] \in S
        /\ \A i \in S : \E n \in 1 .. N : list[n] = i
        /\ \A m, n \in 1 .. N : m < n => list[m] < list[n]
    BY OrderIsComplete
  <1> HIDE DEF N, list
  <1>2. N \in 1 .. N
    <2>1. 1 .. N # {}
      BY <1>1
    <2>2. QED
      BY <1>1, <2>1
  <1>3. ASSUME NEW i \in S
        PROVE  list[N] >= i
    <2>1. PICK n \in 1 .. N : list[n] = i
      BY <1>1
    <2>2. list[N] \in Nat /\ i \in Nat
      BY <1>1, <1>2
    <2>3. n = N \/ n < N
      BY <1>1
    <2>4. QED
      BY <1>1, <1>2, <2>1, <2>2, <2>3
  <1>4. \E x \in S : \A y \in S : x >= y
    BY <1>1, <1>2, <1>3
  <1>5. Max(S) \in S /\ \A y \in S : Max(S) >= y
    BY <1>4 DEF Max
  <1>6. QED
    BY <1>5

-----------------------------------------------------------------------------
(* Requests                                                                *)

LEMMA MessagesAre ==
  ASSUME NEW c \in Seq(Message), NEW m \in DOMAIN c
  PROVE  c[m].role \in Roles /\ c[m].content \in Contents
  <1>1. c[m] \in Message
    OBVIOUS
  <1>2. QED
    BY <1>1 DEF Message

\* The turns of some roles, each where its message comes.
Mirrors(turns, c, roles) ==
  /\ \E n \in Nat : DOMAIN turns = 1 .. n
  /\ \A i \in DOMAIN turns :
       /\ turns[i].of \in DOMAIN c /\ c[turns[i].of].role \in roles
       /\ turns[i] = Turn(c, turns[i].of, c[turns[i].of].role)
  /\ \A m \in DOMAIN c : c[m].role \in roles => \E i \in DOMAIN turns : turns[i].of = m
  /\ \A i, j \in DOMAIN turns : j < i => turns[j].of < turns[i].of

LEMMA TurnsMirror ==
  ASSUME NEW c \in Seq(Message), NEW roles
  PROVE  Mirrors(TurnsOf(c, roles), c, roles)
  <1> DEFINE S == {i \in DOMAIN c : c[i].role \in roles}
             kept == Numbered(c, roles)
             turns == TurnsOf(c, roles)
             N == Cardinality(S)
  <1>1. S \in SUBSET Nat /\ IsFiniteSet(S)
    <2>1. DOMAIN c = 1 .. Len(c) /\ Len(c) \in Nat
      OBVIOUS
    <2>2. IsFiniteSet(1 .. Len(c))
      BY <2>1, FS_Interval
    <2>3. S \in SUBSET (1 .. Len(c))
      BY <2>1
    <2>4. QED
      BY <2>1, <2>2, <2>3, FS_Subset
  <1>2. kept = InOrder(S)
    BY DEF Numbered
  <1>3. turns = [i \in DOMAIN kept |-> Turn(c, kept[i], c[kept[i]].role)]
    BY DEF TurnsOf
  <1> HIDE DEF kept, turns, S
  <1>4. /\ N \in Nat
        /\ kept \in Seq(S) /\ Len(kept) = N
        /\ \A n \in 1 .. N : kept[n] \in S
        /\ \A i \in S : \E n \in 1 .. N : kept[n] = i
        /\ \A m, n \in 1 .. N : m < n => kept[m] < kept[n]
    BY <1>1, <1>2, OrderIsComplete
  <1> HIDE DEF N
  <1>5. DOMAIN kept = 1 .. N
    BY <1>4
  <1>6. /\ DOMAIN turns = 1 .. N
        /\ \A i \in 1 .. N :
             /\ turns[i] = Turn(c, kept[i], c[kept[i]].role)
             /\ turns[i].of = kept[i]
    <2>1. \A m, r : Turn(c, m, r).of = m
      BY DEF Turn
    <2>2. QED
      BY <1>3, <1>5, <2>1
  <1>7. \A i \in 1 .. N : kept[i] \in DOMAIN c /\ c[kept[i]].role \in roles
    BY <1>4 DEF S
  <1>8. ASSUME NEW m \in DOMAIN c, c[m].role \in roles
        PROVE  \E i \in 1 .. N : turns[i].of = m
    BY <1>4, <1>6, <1>8 DEF S
  <1>9. \A i, j \in 1 .. N : j < i => turns[j].of < turns[i].of
    BY <1>4, <1>6
  <1>10. Mirrors(turns, c, roles)
    BY <1>4, <1>6, <1>7, <1>8, <1>9 DEF Mirrors
  <1>11. QED
    BY <1>10 DEF turns

\* Turns that carry all but what the system says.
Conveys(turns, c) ==
  LET said == {i \in DOMAIN turns : turns[i].role # "system"} IN
  /\ \A i \in said :
       /\ turns[i].of \in DOMAIN c
       /\ (turns[i].role = "user") <=> (c[turns[i].of].role = "user")
       /\ \A j \in said : j < i => turns[j].of < turns[i].of
  /\ {turns[i].of : i \in said} = {m \in DOMAIN c : c[m].role # "system"}

\* Whatever is done to the form of a turn, and to the name of its role as long
\* as users and the system keep theirs.
Restyles(turns, base) ==
  /\ DOMAIN turns = DOMAIN base
  /\ \A i \in DOMAIN base :
       /\ turns[i].of = base[i].of
       /\ (turns[i].role = "user") <=> (base[i].role = "user")
       /\ (turns[i].role = "system") <=> (base[i].role = "system")

LEMMA RestyledTurnsConvey ==
  ASSUME NEW c \in Seq(Message), NEW roles, Speakers \subseteq roles,
         NEW turns, Restyles(turns, TurnsOf(c, roles))
  PROVE  Conveys(turns, c)
  <1> DEFINE base == TurnsOf(c, roles)
             said == {i \in DOMAIN turns : turns[i].role # "system"}
  <1>1. /\ \A i \in DOMAIN base :
             /\ base[i].of \in DOMAIN c
             /\ base[i].role = c[base[i].of].role
        /\ \A m \in DOMAIN c : c[m].role \in roles => \E i \in DOMAIN base : base[i].of = m
        /\ \A i, j \in DOMAIN base : j < i => base[j].of < base[i].of
    <2>1. Mirrors(base, c, roles)
      BY TurnsMirror
    <2>2. \A m, r : Turn(c, m, r).role = r
      BY DEF Turn
    <2>3. QED
      BY <2>1, <2>2 DEF Mirrors
  <1>2. \A m \in DOMAIN c : c[m].role \in Roles
    BY MessagesAre
  <1>3. Restyles(turns, base)
    OBVIOUS
  <1> HIDE DEF base
  <1>4. ASSUME NEW i \in said
        PROVE  /\ turns[i].of \in DOMAIN c /\ c[turns[i].of].role # "system"
               /\ (turns[i].role = "user") <=> (c[turns[i].of].role = "user")
               /\ \A j \in said : j < i => turns[j].of < turns[i].of
    BY <1>1, <1>3 DEF Restyles
  <1>5. ASSUME NEW m \in DOMAIN c, c[m].role # "system"
        PROVE  \E i \in said : turns[i].of = m
    <2>1. c[m].role \in roles
      BY <1>2, <1>5 DEF Speakers
    <2>2. PICK i \in DOMAIN base : base[i].of = m
      BY <1>1, <2>1
    <2>3. i \in said /\ turns[i].of = m
      BY <1>1, <1>3, <1>5, <2>2 DEF Restyles
    <2>4. QED
      BY <2>3
  <1>6. {turns[i].of : i \in said} = {m \in DOMAIN c : c[m].role # "system"}
    BY <1>4, <1>5
  <1>7. QED
    BY <1>4, <1>6 DEF Conveys

\* A turn that is marked is a long text and the last turn of the user.
MarksLast(turns, c) ==
  \A i \in DOMAIN turns : turns[i].form = "cached" =>
    /\ turns[i].of \in DOMAIN c
    /\ c[turns[i].of] = [role |-> "user", content |-> "long"]
    /\ \A m \in DOMAIN c : m > turns[i].of => c[m].role # "user"

\* Every message is a turn.
Covers(turns, c) == \A m \in DOMAIN c : \E i \in DOMAIN turns : turns[i].of = m

\* A turn of a message, with a form of that message's.
LEMMA TurnsAre ==
  ASSUME NEW c \in Seq(Message), NEW roles, NEW i \in DOMAIN TurnsOf(c, roles)
  PROVE  LET t == TurnsOf(c, roles)[i] IN
         /\ t = [role |-> t.role, of |-> t.of, form |-> t.form]
         /\ t.of \in DOMAIN c /\ t.role = c[t.of].role /\ t.role \in roles
         /\ t.form = c[t.of].content /\ t.form \in Contents
  <1> DEFINE t == TurnsOf(c, roles)[i]
  <1>1. t.of \in DOMAIN c /\ c[t.of].role \in roles /\ t = Turn(c, t.of, c[t.of].role)
    BY TurnsMirror DEF Mirrors
  <1>2. \A m \in DOMAIN c : c[m].content \in Contents
    BY MessagesAre
  <1> HIDE DEF t
  <1>3. /\ t = [role |-> t.role, of |-> t.of, form |-> t.form]
        /\ t.role = c[t.of].role
        /\ t.form = c[t.of].content
    BY <1>1 DEF Turn
  <1>4. QED
    BY <1>1, <1>2, <1>3 DEF t

\* Parts that become their JSON, and an assistant's new name, change a turn no more.
LEMMA FlattenedIs ==
  ASSUME NEW r, NEW m, NEW f
  PROVE  LET t == [role |-> r, of |-> m, form |-> f] IN
         /\ Flattened(t).of = m /\ Flattened(t).role = r
         /\ Flattened(t).form = IF f = "parts" THEN "json" ELSE f
         /\ LET u == [Flattened(t) EXCEPT !.role = IF @ = "assistant" THEN "model" ELSE @] IN
            /\ u.of = m /\ u.form = Flattened(t).form
            /\ u.role = IF r = "assistant" THEN "model" ELSE r
  <1> DEFINE t == [role |-> r, of |-> m, form |-> f]
             g == IF f = "parts" THEN "json" ELSE f
             flat == [role |-> r, of |-> m, form |-> g]
  <1>1. Flattened(t) = flat
    BY DEF Flattened
  <1> HIDE DEF g
  <1>2. /\ flat.of = m /\ flat.role = r /\ flat.form = g
        /\ LET u == [flat EXCEPT !.role = IF @ = "assistant" THEN "model" ELSE @] IN
           /\ u.of = m /\ u.form = g
           /\ u.role = IF r = "assistant" THEN "model" ELSE r
    OBVIOUS
  <1>3. QED
    BY <1>1, <1>2 DEF g

LEMMA AllAreCovered ==
  ASSUME NEW c \in Seq(Message)
  PROVE  Covers(TurnsOf(c, Roles), c)
  <1> DEFINE base == TurnsOf(c, Roles)
  <1>1. Mirrors(base, c, Roles)
    BY TurnsMirror
  <1>2. \A m \in DOMAIN c : c[m].role \in Roles
    BY MessagesAre
  <1> HIDE DEF base
  <1>3. Covers(base, c)
    BY <1>1, <1>2 DEF Mirrors, Covers
  <1>4. QED
    BY <1>3 DEF base

Arrives(turns, c) == Conveys(turns, c) /\ MarksLast(turns, c)

LEMMA OpenAIArrives ==
  ASSUME NEW c \in Seq(Message)
  PROVE  LET turns == Converted("openai", c).turns IN
         Arrives(turns, c) /\ Covers(turns, c)
  <1> DEFINE base == TurnsOf(c, Roles)
  <1>1. Converted("openai", c).turns = base
    BY DEF Converted
  <1>2. Conveys(base, c)
    BY RestyledTurnsConvey DEF Restyles, Roles, Speakers
  <1>3. MarksLast(base, c)
    BY TurnsAre DEF MarksLast, Contents
  <1>4. Covers(base, c)
    BY AllAreCovered
  <1>5. QED
    BY <1>1, <1>2, <1>3, <1>4 DEF Arrives

LEMMA OllamaArrives ==
  ASSUME NEW c \in Seq(Message)
  PROVE  LET turns == Converted("ollama", c).turns IN
         Arrives(turns, c) /\ Covers(turns, c)
  <1> DEFINE base == TurnsOf(c, Roles)
             flat == [i \in DOMAIN base |-> Flattened(base[i])]
  <1>1. Converted("ollama", c).turns = flat
    BY DEF Converted, ConvertToOllama
  <1>2. ASSUME NEW i \in DOMAIN base
        PROVE  /\ flat[i].of = base[i].of /\ flat[i].role = base[i].role
               /\ flat[i].form # "cached"
    BY TurnsAre, FlattenedIs DEF Contents
  <1>3. Conveys(flat, c)
    <2>1. Restyles(flat, base)
      BY <1>2 DEF Restyles
    <2>2. QED
      BY <2>1, RestyledTurnsConvey DEF Roles, Speakers
  <1>4. MarksLast(flat, c)
    BY <1>2 DEF MarksLast
  <1>5. Covers(flat, c)
    <2>1. Covers(base, c)
      BY AllAreCovered
    <2>2. QED
      BY <1>2, <2>1 DEF Covers
  <1>6. QED
    BY <1>1, <1>3, <1>4, <1>5 DEF Arrives

LEMMA GoogleArrives ==
  ASSUME NEW c \in Seq(Message)
  PROVE  Arrives(Converted("google", c).turns, c)
  <1> DEFINE base == TurnsOf(c, Speakers)
             Renamed(t) == [Flattened(t) EXCEPT !.role = IF @ = "assistant" THEN "model" ELSE @]
             turns == [i \in DOMAIN base |-> Renamed(base[i])]
  <1>1. Converted("google", c).turns = turns
    BY DEF Converted, ConvertToGemini
  <1>2. ASSUME NEW i \in DOMAIN base
        PROVE  /\ turns[i].of = base[i].of
               /\ turns[i].role = IF base[i].role = "assistant" THEN "model" ELSE base[i].role
               /\ turns[i].form # "cached"
    <2>1. /\ base[i] = [role |-> base[i].role, of |-> base[i].of, form |-> base[i].form]
          /\ base[i].form \in Contents
      BY TurnsAre
    <2>2. turns[i] = Renamed(base[i])
      OBVIOUS
    <2> HIDE DEF base, turns
    <2>3. QED
      BY <2>1, <2>2, FlattenedIs DEF Contents
  <1>3. Conveys(turns, c)
    <2>1. Restyles(turns, base)
      BY <1>2 DEF Restyles
    <2>2. QED
      BY <2>1, RestyledTurnsConvey
  <1>4. MarksLast(turns, c)
    BY <1>2 DEF MarksLast
  <1>5. QED
    BY <1>1, <1>3, <1>4 DEF Arrives

\* Anthropic's mark is on the last turn of the user, a long text, or on none.
LEMMA MarkIsLast ==
  ASSUME NEW c \in Seq(Message), NEW roles, "user" \in roles,
         NEW i \in DOMAIN TurnsOf(c, roles), i = Markable(TurnsOf(c, roles))
  PROVE  LET m == TurnsOf(c, roles)[i].of IN
         /\ m \in DOMAIN c /\ c[m] = [role |-> "user", content |-> "long"]
         /\ \A n \in DOMAIN c : n > m => c[n].role # "user"
  <1> DEFINE base == TurnsOf(c, roles)
             users == {j \in DOMAIN base : base[j].role = "user"}
  <1>1. Mirrors(base, c, roles)
    BY TurnsMirror
  <1>2. \A j \in DOMAIN base :
          /\ base[j].of \in DOMAIN c
          /\ base[j].role = c[base[j].of].role
          /\ base[j].form = c[base[j].of].content
    BY TurnsAre
  <1>3. i \in DOMAIN base
    OBVIOUS
  <1>4. i = IF users # {} /\ base[Max(users)].form = "long" THEN Max(users) ELSE 0
    BY DEF Markable
  <1> HIDE DEF base
  <1>5. PICK n \in Nat : DOMAIN base = 1 .. n
    BY <1>1 DEF Mirrors
  <1>6. users \in SUBSET Nat /\ IsFiniteSet(users)
    <2>1. IsFiniteSet(1 .. n)
      BY FS_Interval
    <2>2. users \in SUBSET (1 .. n)
      BY <1>5
    <2>3. QED
      BY <2>1, <2>2, FS_Subset
  <1>7. i \in Nat /\ i # 0
    BY <1>3, <1>5
  <1>8. i = Max(users) /\ users # {} /\ base[i].form = "long"
    BY <1>4, <1>7
  <1>9. i \in users /\ \A j \in users : j <= i
    BY <1>6, <1>8, GreatestExists
  <1> HIDE DEF users
  <1>10. ASSUME NEW m \in DOMAIN c, m > base[i].of, c[m].role = "user"
         PROVE  FALSE
    <2>1. PICK j \in DOMAIN base : base[j].of = m
      BY <1>1, <1>10 DEF Mirrors
    <2>2. j \in users
      BY <1>2, <1>10, <2>1 DEF users
    <2>3. j <= i /\ j \in Nat
      BY <1>5, <1>9, <2>2
    <2>4. j < i => base[j].of < base[i].of
      BY <1>1, <1>3 DEF Mirrors
    <2>5. m \in Nat /\ base[i].of \in Nat
      BY <1>1, <1>3 DEF Mirrors
    <2>6. CASE j = i
      BY <1>10, <2>1, <2>5, <2>6
    <2>7. CASE j < i
      BY <1>10, <2>1, <2>4, <2>5, <2>7
    <2>8. QED
      BY <1>7, <2>3, <2>6, <2>7
  <1>11. base[i].of \in DOMAIN c /\ c[base[i].of] = [role |-> "user", content |-> "long"]
    <2>1. base[i].role = "user"
      BY <1>9 DEF users
    <2>2. c[base[i].of] \in Message
      BY <1>2, <1>3
    <2>3. c[base[i].of].role = "user" /\ c[base[i].of].content = "long"
      BY <1>2, <1>3, <1>8, <2>1
    <2>4. QED
      BY <1>2, <1>3, <2>2, <2>3 DEF Message
  <1>12. QED
    BY <1>10, <1>11 DEF base

LEMMA AnthropicArrives ==
  ASSUME NEW c \in Seq(Message)
  PROVE  Arrives(Converted("anthropic", c).turns, c)
  <1> DEFINE base == TurnsOf(c, Speakers)
             mark == Markable(base)
             turns == [i \in DOMAIN base |->
                         IF i = mark THEN [base[i] EXCEPT !.form = "cached"] ELSE base[i]]
  <1>1. Converted("anthropic", c).turns = turns
    BY DEF Converted, ConvertToAnthropic
  <1>2. ASSUME NEW i \in DOMAIN base
        PROVE  /\ turns[i].of = base[i].of /\ turns[i].role = base[i].role
               /\ turns[i].form = "cached" => i = mark
    <2>1. /\ base[i] = [role |-> base[i].role, of |-> base[i].of, form |-> base[i].form]
          /\ base[i].form # "cached"
      BY TurnsAre DEF Contents
    <2>2. turns[i] = IF i = mark THEN [base[i] EXCEPT !.form = "cached"] ELSE base[i]
      OBVIOUS
    <2> HIDE DEF base, turns, mark
    <2>3. CASE i = mark
      BY <2>1, <2>2, <2>3
    <2>4. CASE i # mark
      BY <2>1, <2>2, <2>4
    <2>5. QED
      BY <2>3, <2>4
  <1>3. Conveys(turns, c)
    <2>1. Restyles(turns, base)
      BY <1>2 DEF Restyles
    <2>2. QED
      BY <2>1, RestyledTurnsConvey
  <1>4. MarksLast(turns, c)
    <2> SUFFICES ASSUME NEW i \in DOMAIN turns, turns[i].form = "cached"
                 PROVE  /\ turns[i].of \in DOMAIN c
                        /\ c[turns[i].of] = [role |-> "user", content |-> "long"]
                        /\ \A m \in DOMAIN c : m > turns[i].of => c[m].role # "user"
      BY DEF MarksLast
    <2>1. i \in DOMAIN base
      OBVIOUS
    <2>2. i = mark /\ turns[i].of = base[i].of
      BY <1>2, <2>1
    <2>3. /\ base[i].of \in DOMAIN c
          /\ c[base[i].of] = [role |-> "user", content |-> "long"]
          /\ \A m \in DOMAIN c : m > base[i].of => c[m].role # "user"
      BY <2>1, <2>2, MarkIsLast DEF Speakers, Roles
    <2> HIDE DEF turns, base
    <2>4. QED
      BY <2>2, <2>3
  <1>5. QED
    BY <1>1, <1>3, <1>4 DEF Arrives

\* The only system message there is speaks for the system, if it is a plain text.
LEMMA OnlySystemSpeaks ==
  ASSUME NEW c \in Seq(Message), NEW m \in DOMAIN c,
         {i \in DOMAIN c : c[i].role = "system"} = {m},
         c[m].content \in {"short", "long"}
  PROVE  Converted("anthropic", c).system = m
  <1> DEFINE plain == {i \in DOMAIN c : c[i].role = "system" /\ Plain(c[i])}
  <1>1. plain = {m}
    BY DEF Plain
  <1>2. Max({m}) = m
    <2>1. m \in Nat
      OBVIOUS
    <2>2. {m} \in SUBSET Nat /\ IsFiniteSet({m})
      BY <2>1, FS_Singleton
    <2>3. QED
      BY <2>2, GreatestExists
  <1>3. LastSystem(c) = IF plain = {} \/ c[Max(plain)].content = "empty" THEN 0 ELSE Max(plain)
    BY DEF LastSystem
  <1>4. Converted("anthropic", c).system = LastSystem(c)
    BY DEF Converted, ConvertToAnthropic
  <1> HIDE DEF plain
  <1>5. QED
    BY <1>1, <1>2, <1>3, <1>4

\* Beside the turns, only a long text of the system's is marked.
LEMMA LongSystemIsMarked ==
  ASSUME NEW c \in Seq(Message), Converted("anthropic", c).systemCached
  PROVE  LET m == Converted("anthropic", c).system IN
         m \in DOMAIN c /\ c[m] = [role |-> "system", content |-> "long"]
  <1> DEFINE plain == {i \in DOMAIN c : c[i].role = "system" /\ Plain(c[i])}
             m == LastSystem(c)
  <1>1. /\ Converted("anthropic", c).system = m
        /\ m # 0 /\ c[m].content = "long"
    BY DEF Converted, ConvertToAnthropic
  <1>2. m = IF plain = {} \/ c[Max(plain)].content = "empty" THEN 0 ELSE Max(plain)
    BY DEF LastSystem
  <1>3. plain \in SUBSET Nat /\ IsFiniteSet(plain)
    <2>1. DOMAIN c = 1 .. Len(c) /\ Len(c) \in Nat
      OBVIOUS
    <2>2. plain \in SUBSET (1 .. Len(c))
      BY <2>1
    <2> HIDE DEF plain
    <2>3. IsFiniteSet(1 .. Len(c))
      BY <2>1, FS_Interval
    <2>4. IsFiniteSet(plain)
      BY <2>2, <2>3, FS_Subset
    <2>5. QED
      BY <2>1, <2>2, <2>4
  <1> HIDE DEF plain, m
  <1>4. plain # {} /\ m = Max(plain)
    BY <1>1, <1>2
  <1>5. m \in plain
    BY <1>3, <1>4, GreatestExists
  <1>6. m \in DOMAIN c /\ c[m].role = "system"
    BY <1>5 DEF plain
  <1>7. c[m] \in Message
    BY <1>6
  <1>8. c[m] = [role |-> "system", content |-> "long"]
    BY <1>1, <1>6, <1>7 DEF Message
  <1>9. QED
    BY <1>1, <1>6, <1>8

-----------------------------------------------------------------------------
(* Translations over time                                                  *)

\* What has been sent, and what a client was told, are translations.
TranslationInv ==
  /\ dialect \in Dialects
  /\ conversation \in Seq(Message)
  /\ answer \in Answer
  /\ got \in {Nothing, Converted(dialect, conversation)}
  /\ handler = "ranging" => stream
  /\ ~ stream /\ reply.status = 200 =>
       LET told == ConvertToOpenAI(dialect, answer) IN
       reply = [status |-> 200, text |-> told.text, finish |-> told.finish]

LEMMA TranslationStarts == ASSUME Init PROVE TranslationInv
  <1>1. dialect \in Dialects
    BY DEF Init, Dialect, Dialects
  <1>2. conversation \in Seq(Message)
    BY ExchangeAssumption DEF Init
  <1>3. NoAnswer \in Answer
    BY DEF NoAnswer, Answer
  <1>4. NoReply.status # 200
    BY DEF NoReply
  <1>5. QED
    BY <1>1, <1>2, <1>3, <1>4 DEF Init, TranslationInv

LEMMA TranslationStays == ASSUME TranslationInv, [Next]_vars PROVE TranslationInv'
  <1>1. ASSUME UNCHANGED <<request, got, answer, reply>>, stream \/ handler' = handler
        PROVE  TranslationInv'
    BY <1>1 DEF TranslationInv, request
  <1>2. ASSUME NEW status \in Refusals, Refused(status)
        PROVE  TranslationInv'
    <2>1. /\ UNCHANGED <<request, answer>> /\ handler' = "done"
          /\ got' = Converted(dialect, conversation)
          /\ reply' = [status |-> IF stream THEN status ELSE 500]
      BY <1>2 DEF Refused
    <2>2. ~ stream => reply'.status # 200
      BY <2>1
    <2>3. QED
      BY <2>1, <2>2 DEF TranslationInv, request
  <1>3. ASSUME NEW a \in Answers, Answered(a)
        PROVE  TranslationInv'
    <2>1. a \in Answer
      BY ExchangeAssumption
    <2>2. QED
      BY <1>3, <2>1 DEF Answered, TranslationInv, request
  <1>4. CASE Accepted
    BY <1>4 DEF Accepted, TranslationInv, request
  <1>5. CASE \E l \in Lines : StreamLine(l)
    BY <1>1, <1>5 DEF StreamLine
  <1>6. CASE EndBody
    BY <1>1, <1>6 DEF EndBody
  <1>7. CASE HangUp
    BY <1>1, <1>7 DEF HangUp
  <1>8. CASE ReadLine
    BY <1>1, <1>8 DEF ReadLine
  <1>9. CASE StopReading
    BY <1>1, <1>9 DEF StopReading
  <1>10. CASE Receive
    BY <1>1, <1>10 DEF Receive, TranslationInv
  <1>11. CASE EndRange
    BY <1>1, <1>11 DEF EndRange, TranslationInv
  <1>12. CASE UNCHANGED vars
    BY <1>1, <1>12 DEF vars
  <1>13. QED
    BY <1>2, <1>3, <1>4, <1>5, <1>6, <1>7, <1>8, <1>9, <1>10, <1>11, <1>12 DEF Next

LEMMA ConversationsArrive == ASSUME TranslationInv PROVE ConversationArrives
  <1> SUFFICES ASSUME got # Nothing
               PROVE  ConversationArrives
    BY DEF ConversationArrives
  <1> DEFINE said == {i \in DOMAIN got.turns : got.turns[i].role # "system"}
             system == {i \in DOMAIN conversation : conversation[i].role = "system"}
  <1>1. /\ conversation \in Seq(Message)
        /\ got = Converted(dialect, conversation)
        /\ dialect \in Dialects
    BY DEF TranslationInv
  <1>2. Conveys(got.turns, conversation) /\ MarksLast(got.turns, conversation)
    BY <1>1, OpenAIArrives, OllamaArrives, GoogleArrives, AnthropicArrives DEF Arrives, Dialects
  <1>3. ASSUME NEW i \in said
        PROVE  /\ (got.turns[i].role = "user") <=> (conversation[got.turns[i].of].role = "user")
               /\ \A j \in said : j < i => got.turns[j].of < got.turns[i].of
               /\ got.turns[i].form = "cached" =>
                    /\ LongText("user", got.turns[i].of)
                    /\ \A m \in Told : m > got.turns[i].of => ~ LongText("user", m)
    BY <1>2 DEF Conveys, MarksLast, Told, LongText
  <1>4. {got.turns[i].of : i \in said} = Told
    BY <1>2 DEF Conveys, Told
  <1>5. ASSUME NEW m \in system, system = {m}, conversation[m].content \in {"short", "long"},
               dialect # "google"
        PROVE  got.system = m \/ \E i \in DOMAIN got.turns : got.turns[i].of = m
    <2>1. CASE dialect = "anthropic"
      BY <1>1, <1>5, <2>1, OnlySystemSpeaks
    <2>2. CASE dialect \in {"openai", "ollama"}
      <3>1. Covers(got.turns, conversation)
        BY <1>1, <2>2, OpenAIArrives, OllamaArrives
      <3>2. QED
        BY <3>1 DEF Covers
    <2>3. QED
      BY <1>1, <1>5, <2>1, <2>2 DEF Dialects
  <1>6. got.systemCached => LongText("system", got.system)
    <2>1. HAVE got.systemCached
    <2>2. CASE dialect = "anthropic"
      BY <1>1, <2>1, <2>2, LongSystemIsMarked DEF LongText
    <2>3. CASE dialect # "anthropic"
      BY <1>1, <2>1, <2>3 DEF Converted, ConvertToGemini, ConvertToOllama, Dialects
    <2>4. QED
      BY <2>2, <2>3
  <1>7. QED
    BY <1>3, <1>4, <1>5, <1>6 DEF ConversationArrives

LEMMA AnswersArrive == ASSUME TranslationInv PROVE AnswerArrives
  <1> SUFFICES ASSUME ~ stream, reply.status = 200
               PROVE  AnswerArrives
    BY DEF AnswerArrives
  <1> DEFINE S == {i \in DOMAIN answer.blocks : answer.blocks[i] = "text"}
  <1>1. /\ answer \in Answer /\ dialect \in Dialects
        /\ reply.text = ConvertToOpenAI(dialect, answer).text
        /\ reply.finish = ConvertToOpenAI(dialect, answer).finish
    BY DEF TranslationInv
  <1>2. answer.blocks \in Seq({"text", "other"}) /\ answer.stop \in {"complete", "limit", "filter"}
    BY <1>1 DEF Answer
  <1>3. S \in SUBSET Nat /\ IsFiniteSet(S)
    <2>1. DOMAIN answer.blocks = 1 .. Len(answer.blocks) /\ Len(answer.blocks) \in Nat
      BY <1>2
    <2>2. IsFiniteSet(1 .. Len(answer.blocks))
      BY <2>1, FS_Interval
    <2>3. QED
      <3>1. S \in SUBSET (1 .. Len(answer.blocks))
        BY <2>1
      <3> HIDE DEF S
      <3>2. IsFiniteSet(S)
        BY <2>2, <3>1, FS_Subset
      <3>3. S \in SUBSET Nat
        BY <2>1, <3>1
      <3>4. QED
        BY <3>2, <3>3
  <1>4. dialect # "google" =>
          /\ Len(reply.text) = Cardinality(S)
          /\ \A i \in DOMAIN reply.text : reply.text[i] \in S
    <2>1. HAVE dialect # "google"
    <2>2. reply.text = InOrder(S)
      BY <1>1, <2>1 DEF ConvertToOpenAI, AllText
    <2> HIDE DEF S
    <2>3. InOrder(S) \in Seq(S) /\ Len(InOrder(S)) = Cardinality(S)
      BY <1>3, OrderIsComplete
    <2>4. QED
      BY <2>2, <2>3
  <1>5. dialect = "google" => \A i \in DOMAIN reply.text : reply.text[i] \in S
    <2>1. HAVE dialect = "google"
    <2>2. reply.text = FirstPart(answer)
      BY <1>1, <2>1 DEF ConvertToOpenAI
    <2>3. CASE answer.blocks # <<>> /\ Head(answer.blocks) = "text"
      <3>1. 1 \in S /\ reply.text = <<1>>
        BY <1>2, <2>2, <2>3 DEF FirstPart
      <3>2. QED
        BY <3>1
    <2>4. CASE ~ (answer.blocks # <<>> /\ Head(answer.blocks) = "text")
      BY <2>2, <2>4 DEF FirstPart
    <2>5. QED
      BY <2>3, <2>4
  <1>6. dialect # "ollama" => (reply.finish = "length") <=> (answer.stop = "limit")
    <2>1. reply.finish = FinishReason(dialect, answer.stop)
      BY <1>1 DEF ConvertToOpenAI
    <2>2. QED
      BY <1>2, <2>1 DEF FinishReason
  <1>7. QED
    BY <1>4, <1>5, <1>6 DEF AnswerArrives

\* internal/provider, ChatCompletion of all adapters: what the client has said
\* reaches every upstream, and an answer in one piece comes back whole but for the
\* later parts of Gemini's, for conversations and answers of any length.
THEOREM TranslationsKeep == Spec => []TranslationKeeps
  <1>1. TranslationInv => TranslationKeeps
    BY ConversationsArrive, AnswersArrive DEF TranslationKeeps
  <1>2. Init /\ [][Next]_vars => []TranslationInv
    BY TranslationStarts, TranslationStays, PTL
  <1>3. QED
    BY <1>1, <1>2, PTL DEF Spec
=============================================================================
