------------------------------ MODULE LlmStream ------------------------------
(***************************************************************************)
(* The streaming providers of the LLM router: streamLines cuts the bytes   *)
(* of a response into lines whatever the size of the pieces they arrive    *)
(* in, and streamAnthropic, streamOllama and streamOpenAIProvider turn the *)
(* frames into deltas and a usage chunk.  The text of a line is two halves *)
(* (a piece may end between them) and its newline.                         *)
(***************************************************************************)
EXTENDS Naturals, Sequences, FiniteSets, Subsequences

CONSTANTS
  Providers,      \* among "anthropic", "ollama", "openai"
  Streams,        \* the responses considered: sequences of kinds of lines
  PromptTokens    \* the prompt's tokens, as the provider counts them

Kinds == {"start", "text", "usage", "both", "bad", "event", "blank"}

ASSUME StreamAssumption ==
  /\ Providers \subseteq {"anthropic", "ollama", "openai"}
  /\ Streams \subseteq Seq(Kinds) /\ PromptTokens \in Nat \ {0}

VARIABLES
  response,    \* provider, lines of the response, state of the generator
  received,    \* symbols received so far
  lineBuffer,  \* streamLines: buffer
  promptSeen,  \* streamAnthropic: promptTokens
  yielded      \* chunks yielded so far

streamVars == <<response, received, lineBuffer, promptSeen, yielded>>

NL == [line |-> 0, half |-> 0]
Symbols == [line : Nat, half : 0 .. 2]

(* The type invariant. *)
LlmStreamTypeOK ==
  /\ response \in [provider : Providers, lines : Streams, pc : {"open", "done", "failed"}]
  /\ received \in Nat /\ lineBuffer \in Seq(Symbols) /\ promptSeen \in {0, PromptTokens}
  /\ yielded \in Seq([usage : BOOLEAN, line : Nat, prompt : {0, PromptTokens}])

(* The text: where line i ends (line 0 is the beginning) and its symbols, two halves and *)
(* a newline, or only the newline.                                                        *)
Ends(i) == i + 2 * Cardinality({k \in 1 .. i : response.lines[k] # "blank"})
Text ==
  [n \in 1 .. Ends(Len(response.lines)) |->
     LET i == CHOOSE k \in DOMAIN response.lines : Ends(k - 1) < n /\ n <= Ends(k)
     IN IF n = Ends(i) THEN NL ELSE [line |-> i, half |-> n - Ends(i - 1)]]

LlmStreamInit ==
  /\ \E p \in Providers, s \in Streams : response = [provider |-> p, lines |-> s, pc |-> "open"]
  /\ received = 0 /\ lineBuffer = <<>> /\ promptSeen = 0 /\ yielded = <<>>

-----------------------------------------------------------------------------
(* streamLines: the lines that are complete in the buffer, and what is left after the *)
(* last newline.                                                                       *)
Newlines(buf) == InOrder({i \in DOMAIN buf : buf[i] = NL})
Piece(buf, ends, k) == SubSeq(buf, (IF k = 1 THEN 0 ELSE ends[k - 1]) + 1, ends[k] - 1)
CompleteLines(buf) == LET ends == Newlines(buf) IN [k \in DOMAIN ends |-> Piece(buf, ends, k)]

Rest_Dropped(buf) == <<>>
Rest(buf) ==
  LET ends == Newlines(buf)
  IN IF ends = <<>> THEN buf ELSE SubSeq(buf, ends[Len(ends)] + 1, Len(buf))

(* JSON.parse: only a whole line of a known kind is an event; all others, the blank ones *)
(* among them, are passed over.                                                           *)
EventOf(text) ==
  IF Len(text) = 2 /\ text[1].line = text[2].line /\ text[1].half = 1
  THEN [kind |-> response.lines[text[1].line], line |-> text[1].line]
  ELSE [kind |-> "bad", line |-> 0]

Delta(ev) == [usage |-> FALSE, line |-> ev.line, prompt |-> 0]
Usage(prompt) == [usage |-> TRUE, line |-> 0, prompt |-> prompt]

(* The kinds of events that yield a text and a usage, and those that tell the prompt's *)
(* tokens first: a usage of the other providers has its own count.                      *)
AnthropicEvent == [delta |-> {"text"}, usage |-> {"usage"}, start |-> {"start"}]
OllamaEvent == [delta |-> {"text", "both"}, usage |-> {"usage", "both"}, start |-> {}]
OpenAIEvent == OllamaEvent
Event ==
  CASE response.provider = "anthropic" -> AnthropicEvent
    [] response.provider = "ollama" -> OllamaEvent
    [] OTHER -> OpenAIEvent

(* The events of the lines one after the other: each has room for a text and a usage, *)
(* with the prompt's tokens as known by then, and yields those of its kind.            *)
Consume(texts) ==
  LET events == [k \in DOMAIN texts |-> EventOf(texts[k])]
      prompt(k) == IF \E j \in DOMAIN events : j < k /\ events[j].kind \in Event.start
                   THEN PromptTokens ELSE promptSeen
      told(k) == IF Event.start = {} THEN PromptTokens ELSE prompt(k)
      chunks == [n \in 1 .. 2 * Len(texts) |->
                   LET k == (n + 1) \div 2
                   IN IF n % 2 = 1 THEN Delta(events[k]) ELSE Usage(told(k))]
      yields == {n \in DOMAIN chunks : LET kind == events[(n + 1) \div 2].kind IN
                   IF n % 2 = 1 THEN kind \in Event.delta ELSE kind \in Event.usage}
  IN /\ promptSeen' = prompt(Len(texts) + 1)
     /\ yielded' = yielded \o Keep(chunks, yields)

-----------------------------------------------------------------------------
(* The next n symbols arrive in one piece. *)
ReadPiece(n) ==
  LET buf == lineBuffer \o SubSeq(Text, received + 1, received + n) IN
  /\ response.pc = "open" /\ received + n <= Len(Text)
  /\ received' = received + n
  /\ lineBuffer' = Rest(buf)
  /\ Consume(CompleteLines(buf))
  /\ UNCHANGED response

(* The response ends, perhaps before its last line: what is left counts as a line. *)
ResponseEnds ==
  /\ response.pc = "open"
  /\ response' = [response EXCEPT !.pc = "done"]
  /\ lineBuffer' = <<>>
  /\ Consume(IF lineBuffer = <<>> THEN <<>> ELSE <<lineBuffer>>)
  /\ UNCHANGED received

(* A status that is not ok, an aborted read, a broken connection. *)
ResponseFails ==
  /\ response.pc = "open"
  /\ response' = [response EXCEPT !.pc = "failed"]
  /\ UNCHANGED <<received, lineBuffer, promptSeen, yielded>>

LlmStreamNext ==
  \/ \E n \in 1 .. Len(Text) : ReadPiece(n)
  \/ ResponseEnds \/ ResponseFails

-----------------------------------------------------------------------------
(* What the lines received in whole should yield, from the response alone: a delta for  *)
(* each text, a usage with the tokens of the prompt, in the order of the lines.  There    *)
(* is room for both at each line.                                                         *)
Arrived == {i \in DOMAIN response.lines :
              received >= Ends(i) - (IF response.pc = "done" THEN 1 ELSE 0)}
PromptKnown(i) ==
  IF response.provider # "anthropic" \/ \E k \in 1 .. (i - 1) : response.lines[k] = "start"
  THEN PromptTokens ELSE 0
Room == [n \in 1 .. 2 * Len(response.lines) |->
           LET i == (n + 1) \div 2
           IN IF n % 2 = 1 THEN Delta([line |-> i]) ELSE Usage(PromptKnown(i))]
Due == {n \in DOMAIN Room :
          LET i == (n + 1) \div 2  kind == response.lines[i] IN
          /\ i \in Arrived
          /\ \/ kind = (IF n % 2 = 1 THEN "text" ELSE "usage")
             \/ kind = "both" /\ response.provider # "anthropic"}

(* However the bytes of a response are cut into pieces, and wherever it breaks off, each  *)
(* text that arrived in whole is yielded once and in order, and no usage is lost.         *)
FramesInOrder == LlmStreamTypeOK /\ yielded = Keep(Room, Due)
=============================================================================
