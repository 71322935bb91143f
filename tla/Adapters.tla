------------------------------ MODULE Adapters ------------------------------
(***************************************************************************)
(* internal/provider: what the adapters make of a request, of an answer in *)
(* one piece, and of each line of a streamed one, without state.  Azure's  *)
(* adapter, Groq's and the one for custom servers treat all of them as     *)
(* OpenAI's does, and count as that dialect.                               *)
(*                                                                         *)
(* Texts are told apart by where they come from: the number of a message,  *)
(* of a block of the answer, or of a line of the stream.                   *)
(***************************************************************************)
EXTENDS Naturals, SequencesExt

Dialects == {"openai", "anthropic", "google", "ollama"}

\* provider.New: the adapter for a server; an unknown type gets OpenAI's.
Dialect(providerType) ==
  IF providerType \in Dialects THEN providerType ELSE "openai"

\* The roles messages may have: only the first three are spelled out anywhere, and
\* any other is treated as a tool's is.
Roles == {"system", "user", "assistant", "tool"}
Speakers == Roles \ {"system"}

\* The contents messages may have: a text that is empty, short, or of at least
\* 1024 estimated tokens, or a list of parts.
Contents == {"empty", "short", "long", "parts"}
Message == [role : Roles, content : Contents]

Plain(message) == message.content # "parts"

\* Where an upstream may stop, in its own words (end_turn, STOP, SAFETY...).
Answer == [blocks : Seq({"text", "other"}), stop : {"complete", "limit", "filter"}]

-----------------------------------------------------------------------------
(* A faulty variant of an operator below, used by none of them.            *)

\* The last turn is marked if it is a long text, whoever's it is.
LastTurn(turns) ==
  IF turns # <<>> /\ Last(turns).form = "long" THEN Len(turns) ELSE 0

-----------------------------------------------------------------------------
(* Requests                                                                *)

\* A message as the upstream gets it: whose text it is, and in which form.
Turn(conversation, i, role) ==
  [role |-> role, of |-> i, form |-> conversation[i].content]

\* Parts are sent as the text of their JSON where only texts are understood.
Flattened(turn) ==
  [turn EXCEPT !.form = IF @ = "parts" THEN "json" ELSE @]

\* Numbers in their order: the n-th is that which n of them do not exceed.
InOrder(S) ==
  [n \in 1 .. Cardinality(S) |->
     CHOOSE i \in S : Cardinality({j \in S : j <= i}) = n]

Numbered(conversation, roles) ==
  InOrder({i \in DOMAIN conversation : conversation[i].role \in roles})

TurnsOf(conversation, roles) ==
  LET kept == Numbered(conversation, roles) IN
  [i \in DOMAIN kept |-> Turn(conversation, kept[i], conversation[kept[i]].role)]

\* The last plain system message speaks for all, 0 if it is empty or there is
\* none.
LastSystem(conversation) ==
  LET plain == {i \in DOMAIN conversation :
                  conversation[i].role = "system" /\ Plain(conversation[i])} IN
  IF plain = {} \/ conversation[Max(plain)].content = "empty" THEN 0 ELSE Max(plain)

\* The last turn of the user, if it is a long text.  When it is not, an earlier
\* long one is not looked for, though the comments there speak of the last long
\* message.
Markable(turns) ==
  LET users == {i \in DOMAIN turns : turns[i].role = "user"} IN
  IF users # {} /\ turns[Max(users)].form = "long" THEN Max(users) ELSE 0

\* convertToAnthropic marks at most one turn for the prompt cache, and the
\* system's text too when that is long.
ConvertToAnthropic(conversation) ==
  LET turns == TurnsOf(conversation, Speakers)
      mark == Markable(turns)
      system == LastSystem(conversation) IN
  [turns |-> [i \in DOMAIN turns |->
                IF i = mark THEN [turns[i] EXCEPT !.form = "cached"] ELSE turns[i]],
   system |-> system,
   systemCached |-> system # 0 /\ conversation[system].content = "long"]

\* convertToGemini leaves system messages out.
ConvertToGemini(conversation) ==
  LET turns == TurnsOf(conversation, Speakers) IN
  [turns |-> [i \in DOMAIN turns |->
                [Flattened(turns[i]) EXCEPT !.role = IF @ = "assistant" THEN "model"
                                                                        ELSE @]],
   system |-> 0, systemCached |-> FALSE]

ConvertToOllama(conversation) ==
  LET turns == TurnsOf(conversation, Roles) IN
  [turns |-> [i \in DOMAIN turns |-> Flattened(turns[i])],
   system |-> 0, systemCached |-> FALSE]

\* OpenAI's own format goes out as it came in.
Converted(dialect, conversation) ==
  CASE dialect = "openai" ->
         [turns |-> TurnsOf(conversation, Roles),
          system |-> 0, systemCached |-> FALSE]
    [] dialect = "anthropic" -> ConvertToAnthropic(conversation)
    [] dialect = "google"    -> ConvertToGemini(conversation)
    [] dialect = "ollama"    -> ConvertToOllama(conversation)

-----------------------------------------------------------------------------
(* Answers in one piece                                                    *)

\* Anthropic's text blocks are joined, the others left out.
AllText(answer) ==
  InOrder({i \in DOMAIN answer.blocks : answer.blocks[i] = "text"})

\* Of Gemini's parts the first is taken, whatever it is; one that is no text
\* has an empty text.
FirstPart(answer) ==
  IF answer.blocks # <<>> /\ Head(answer.blocks) = "text" THEN <<1>> ELSE <<>>

\* What the client is told of where the answer stopped.  Ollama's answers have
\* always simply stopped; Anthropic has no word for a filter.
FinishReason(dialect, stop) ==
  CASE dialect = "ollama"    -> "stop"
    [] stop = "limit" /\ dialect # "ollama"                -> "length"
    [] stop = "filter" /\ dialect \in {"openai", "google"} -> "content_filter"
    [] OTHER -> "stop"

ConvertToOpenAI(dialect, answer) ==
  [text |-> IF dialect = "google" THEN FirstPart(answer) ELSE AllText(answer),
   finish |-> FinishReason(dialect, answer.stop)]

-----------------------------------------------------------------------------
(* Lines of a stream                                                       *)

\* What an upstream may send in a line: some text; nothing; its report of an
\* error; data that cannot be parsed; its end mark; more than a Scanner takes.
Lines == {"text", "blank", "failure", "garbage", "end", "huge"}

\* The readers of the four adapters, line by line.  OpenAI's data is passed on
\* unread.  An Ollama line that is no message is one without text.  Gemini has
\* no end mark, and its reader passes over what it does not understand.
EventKind(dialect, line) ==
  CASE line = "text"  -> "data"
    [] line = "blank" -> "none"
    [] line = "failure" -> IF dialect = "anthropic" THEN "error"
                           ELSE IF dialect = "google" THEN "none" ELSE "data"
    [] line = "garbage" -> IF dialect = "openai" THEN "data"
                           ELSE IF dialect = "ollama" THEN "error" ELSE "none"
    [] line = "end"     -> IF dialect = "google" THEN "none" ELSE "done"

\* What a reader sends when the body is over, cleanly or with an error: Gemini's
\* does not ask which.
LastEvents(dialect, clean) ==
  CASE dialect = "google"            -> <<"done">>
    [] dialect # "google" /\ clean   -> <<>>
    [] dialect # "google" /\ ~ clean -> <<"error">>
=============================================================================
