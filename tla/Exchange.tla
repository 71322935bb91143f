------------------------------ MODULE Exchange ------------------------------
(***************************************************************************)
(* One chat request and its provider: the request converted and sent, then *)
(* an answer in one piece converted back, or a stream that an adapter's    *)
(* goroutine reads line by line into a channel while handleStreamingChat   *)
(* of internal/proxy/proxy.go writes its events to the client.             *)
(*                                                                         *)
(* Nothing but the channel joins the two, and only the reader learns that  *)
(* the client is gone or that the time is over: its next read fails.       *)
(***************************************************************************)
EXTENDS Adapters

CONSTANTS ProviderTypes,  \* of servers, as administrators may write them
          Conversations,  \* the messages requests may have
          Streamed,       \* those of streamed requests
          Answers,        \* answers in one piece
          Refusals,       \* statuses other than 200
          Capacity,       \* of the channel: 100
          MaxLines        \* bound on the lines of a stream

ASSUME ExchangeAssumption ==
  /\ Conversations \cup Streamed \subseteq Seq(Message)
  /\ Answers \subseteq Answer
  /\ Refusals \subseteq Nat \ {200}
  /\ Capacity \in Nat \ {0} /\ MaxLines \in Nat

VARIABLES
  dialect,
  conversation,  \* the client's messages
  stream,        \* does it want a stream?
  got,           \* what the upstream got, in its dialect
  answer,        \* what it answers with in one piece
  lines,         \* what it has streamed so far
  body,          \* its connection: open, ended, or cut by an error or timeout
  read,          \* how many of the lines the reader has read
  reader,        \* off, reading, then closed with the channel
  channel,       \* events on their way to the handler
  handler,
  written,       \* the events the client was sent
  gone,          \* the client has disconnected
  reply,         \* what a request that is not streamed was answered
  released       \* how the server was released: unset, success or failure

request == <<dialect, conversation, stream>>
upstreamVars == <<lines, body>>
readerVars == <<read, reader, channel>>
vars == <<request, got, answer, upstreamVars, readerVars, handler, written, gone,
          reply, released>>

Nothing == [turns |-> <<>>, system |-> 0, systemCached |-> FALSE]
NoAnswer == [blocks |-> <<>>, stop |-> "complete"]
NoReply == [status |-> 0]
Event == [kind : {"data", "done", "error"}, line : Nat]

-----------------------------------------------------------------------------
(* Faulty variants of operators below, used by none of them.               *)

\* An event for which the channel has no room is dropped.
SentOrDropped(events) ==
  channel' = IF Len(channel) < Capacity THEN channel \o events ELSE channel

\* The handler of a client that is gone returns at once.
OverForClient ==
  \/ gone
  \/ channel = <<>> /\ reader = "closed"

-----------------------------------------------------------------------------
\* A send on the channel: it waits for room.
Sent(events) ==
  /\ events # <<>> => Len(channel) < Capacity
  /\ channel' = channel \o events

\* The range over the channel is done.
Over == channel = <<>> /\ reader = "closed"

Init ==
  /\ dialect \in {Dialect(t) : t \in ProviderTypes}
  /\ stream \in BOOLEAN
  /\ conversation \in IF stream THEN Streamed ELSE Conversations
  /\ got = Nothing
  /\ answer = NoAnswer
  /\ lines = <<>>
  /\ body = "open"
  /\ read = 0
  /\ reader = "off"
  /\ channel = <<>>
  /\ handler = "calling"
  /\ written = <<>>
  /\ gone = FALSE
  /\ reply = NoReply
  /\ released = "unset"

-----------------------------------------------------------------------------
(* Calls                                                                   *)

\* ChatCompletion, ChatCompletionStream: the request is converted and sent.
\* The upstream may refuse it: its status is the client's too when a stream was
\* asked for; else retry.Do wraps the error, and the client is told 500.
Refused(status) ==
  /\ handler = "calling"
  /\ got' = Converted(dialect, conversation)
  /\ reply' = [status |-> IF stream THEN status ELSE 500]
  /\ released' = "failure"
  /\ handler' = "done"
  /\ UNCHANGED <<request, answer, upstreamVars, readerVars, written, gone>>

\* It answers in one piece.
Answered(a) ==
  LET told == ConvertToOpenAI(dialect, a) IN
  /\ handler = "calling" /\ ~ stream
  /\ got' = Converted(dialect, conversation)
  /\ answer' = a
  /\ reply' = [status |-> 200, text |-> told.text, finish |-> told.finish]
  /\ released' = "success"
  /\ handler' = "done"
  /\ UNCHANGED <<request, upstreamVars, readerVars, written, gone>>

\* It begins to stream: the reader is started.
Accepted ==
  /\ handler = "calling" /\ stream
  /\ got' = Converted(dialect, conversation)
  /\ reader' = "reading"
  /\ handler' = "ranging"
  /\ UNCHANGED <<request, answer, upstreamVars, read, channel, written, gone,
                 reply, released>>

-----------------------------------------------------------------------------
(* The upstream and the client                                             *)

StreamLine(line) ==
  /\ reader # "off" /\ body = "open" /\ Len(lines) < MaxLines
  /\ lines' = Append(lines, line)
  /\ UNCHANGED <<request, got, answer, body, readerVars, handler, written, gone,
                 reply, released>>

\* The body ends, the connection breaks, or the client's timeout (the pool's, on
\* the whole exchange) closes it.
EndBody ==
  /\ reader # "off" /\ body = "open"
  /\ body' \in {"ended", "cut"}
  /\ UNCHANGED <<request, got, answer, lines, readerVars, handler, written, gone,
                 reply, released>>

\* The client hangs up: the request's context is cancelled, and with it the call
\* upstream.
HangUp ==
  /\ handler = "ranging" /\ ~ gone
  /\ gone' = TRUE
  /\ UNCHANGED <<request, got, answer, upstreamVars, readerVars, handler, written,
                 reply, released>>

-----------------------------------------------------------------------------
(* The reader: readSSE, readAnthropicSSE, readGeminiStream, readOllamaStream *)

Close == reader' = "closed"

\* One line.  A final event ends the reader, whatever the body still holds.
ReadLine ==
  LET line == lines[read + 1]
      kind == EventKind(dialect, line) IN
  /\ reader = "reading"
  /\ read < Len(lines)
  /\ line # "huge"
  /\ read' = read + 1
  /\ Sent(IF kind = "none" THEN <<>> ELSE <<[kind |-> kind, line |-> read + 1]>>)
  /\ IF kind \in {"done", "error"} THEN Close ELSE UNCHANGED reader
  /\ UNCHANGED <<request, got, answer, upstreamVars, handler, written, gone, reply,
                 released>>

\* Why a scanner may stop before the end, lines that had come in lost: an error,
\* after which a body that was whole may yet be read to its end; a line that it
\* cannot hold.
MayFail ==
  body = "cut" \/ gone \/ (read < Len(lines) /\ lines[read + 1] = "huge")

\* The scanner stops.
StopReading ==
  \E failed \in BOOLEAN :
    LET last == LastEvents(dialect, ~ failed) IN
    /\ reader = "reading"
    /\ IF failed THEN MayFail ELSE body = "ended" /\ read = Len(lines)
    /\ Sent([i \in DOMAIN last |-> [kind |-> last[i], line |-> 0]])
    /\ Close
    /\ UNCHANGED <<request, got, answer, upstreamVars, read, handler, written, gone,
                   reply, released>>

-----------------------------------------------------------------------------
(* The handler: handleStreamingChat                                        *)

Finish(outcome) ==
  /\ released' = outcome
  /\ handler' = "done"

\* Data and the end go to the client, present or not; an error goes nowhere.
Receive ==
  LET event == Head(channel) IN
  /\ handler = "ranging"
  /\ channel # <<>>
  /\ channel' = Tail(channel)
  /\ written' = IF event.kind = "error" THEN written ELSE Append(written, event)
  /\ CASE event.kind = "data"  -> UNCHANGED <<handler, released>>
       [] event.kind = "done"  -> Finish("success")
       [] event.kind = "error" -> Finish("failure")
  /\ UNCHANGED <<request, got, answer, upstreamVars, read, reader, gone, reply>>

\* A channel closed without a last event is a success too.
EndRange ==
  /\ handler = "ranging"
  /\ Over
  /\ Finish("success")
  /\ UNCHANGED <<request, got, answer, upstreamVars, readerVars, written, gone,
                 reply>>

Read == ReadLine \/ StopReading
Handle == Receive \/ EndRange

Next ==
  \/ \E s \in Refusals : Refused(s)
  \/ \E a \in Answers : Answered(a)
  \/ Accepted
  \/ \E l \in Lines : StreamLine(l)
  \/ EndBody \/ HangUp
  \/ ReadLine \/ StopReading \/ Receive \/ EndRange

\* Both goroutines run on.  A body is over in the end: the HTTP client's timeout
\* sees to that.
Fairness == WF_vars(Read) /\ WF_vars(Handle) /\ WF_vars(EndBody)

Spec == Init /\ [][Next]_vars /\ Fairness

-----------------------------------------------------------------------------
(* Properties                                                              *)

Told == {i \in DOMAIN conversation : conversation[i].role # "system"}

LongText(role, m) == conversation[m] = [role |-> role, content |-> "long"]

\* What a client has said reaches every upstream: all turns but the system's, in
\* their order and with their text, and the system's text, when there is one and it
\* is no list of parts, in a turn or beside them, to all but Gemini.  Two texts at
\* most are marked for the provider's cache: the system's if it is long, and of the
\* turns the last long text of the user's, never another.  The comments at
\* anthropic.go:179 and 182 say that this one is marked; the code marks none when a
\* short turn of the user's follows it, so that it is marked is not claimed here.
ConversationArrives ==
  LET turns == got.turns
      said == {i \in DOMAIN turns : turns[i].role # "system"}
      system == {i \in DOMAIN conversation : conversation[i].role = "system"} IN
  got # Nothing =>
    /\ \A i \in said :
         /\ (turns[i].role = "user") <=> (conversation[turns[i].of].role = "user")
         /\ \A j \in said : j < i => turns[j].of < turns[i].of
         /\ turns[i].form = "cached" =>
              /\ LongText("user", turns[i].of)
              /\ \A m \in Told : m > turns[i].of => ~ LongText("user", m)
    /\ got.systemCached => LongText("system", got.system)
    /\ {turns[i].of : i \in said} = Told
    /\ \A m \in system :
         /\ system = {m} /\ conversation[m].content \in {"short", "long"}
         /\ dialect # "google"
         => got.system = m \/ \E i \in DOMAIN turns : turns[i].of = m

\* An answer in one piece is passed on whole, and a client can tell one that was
\* cut at the token limit from one that was not, except that Gemini's later parts
\* are lost and Ollama's answers never say so.
AnswerArrives ==
  handler = "done" /\ ~ stream /\ reply.status = 200 =>
    /\ dialect # "google" =>
         Len(reply.text)
           = Cardinality({i \in DOMAIN answer.blocks : answer.blocks[i] = "text"})
    /\ \A i \in DOMAIN reply.text : answer.blocks[reply.text[i]] = "text"
    /\ dialect # "ollama" => (reply.finish = "length") <=> (answer.stop = "limit")

TranslationKeeps == ConversationArrives /\ AnswerArrives

\* A stream comes through whole and in order, whatever the pace of the two sides:
\* no text is passed over while a later one or the end mark is written.  The end
\* mark and the server's success say that nothing failed: the upstream's own end
\* was reached, or its body ended cleanly, and no client's hanging up cut it short.
\* For Gemini they say nothing.
StreamIsWhole ==
  LET Text(i) == i \in DOMAIN lines /\ lines[i] = "text"
      Carries(n, i) == written[n].kind = "data" /\ written[n].line = i /\ Text(i)
      upTo == IF released = "success" THEN read
              ELSE IF written = <<>> THEN 0 ELSE Last(written).line IN
  /\ \A i \in 1 .. upTo : Text(i) => \E n \in DOMAIN written : Carries(n, i)
  /\ \A m, n \in DOMAIN written, i, j \in DOMAIN lines :
       m < n /\ Carries(m, i) /\ Carries(n, j) => i < j
  /\ released = "success" /\ stream /\ dialect # "google" =>
       \/ read > 0 /\ lines[read] = "end" /\ Last(written).kind = "done"
       \/ body = "ended" /\ read = Len(lines)

\* However a stream goes, the reader is not left behind sending to a channel that
\* nobody reads, and the handler does not wait for one that nobody closes: both end,
\* and the server is released.
StreamEnds ==
  /\ (reader = "reading") ~> (reader = "closed")
  /\ (handler = "ranging") ~> (handler = "done" /\ released # "unset")
=============================================================================
