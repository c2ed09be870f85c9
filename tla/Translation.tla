------------------------------ MODULE Translation ------------------------------
(***************************************************************************)
(* What becomes of a provider's answer: modifyResponse of                  *)
(* internal/gateway/gateway.go with what it calls, translateBack, and      *)
(* streamFromOpenAI of translate.go.                                       *)
(*                                                                         *)
(* The stream is rewritten by a goroutine that reads a line, writes what   *)
(* it makes of it into a pipe, event by event, and ends by closing it.     *)
(* The client may leave at any moment: the next write fails.  The provider *)
(* may stop in the middle: the read fails.  Trailers arrive with the end of *)
(* the body, which is read after modifyResponse has had its say.           *)
(***************************************************************************)
EXTENDS Integers, Sequences, FiniteSets

CONSTANTS
    Answers,    \* answers: status, whether they stream, headers, body, trailers
    Lines,      \* lines of a stream
    MaxLines    \* bound: lines of a stream

ASSUME TranslationAssumption ==
    /\ MaxLines \in Nat
    /\ Lines \subseteq [kind : {"noise"}] \cup [kind : {"garbled"}, says : {"text", "error"}] \cup
          [kind : {"chunk", "error"}, text : STRING, finish : STRING, counted : Int, prompt : Int]

VARIABLES
    answer,    \* the provider's head; Waiting before it
    headers,   \* headers the client gets
    trailers,  \* and what it gets of that kind after the body
    body,      \* what the client gets: a body, or the events of a stream
    stage,     \* of the goroutine
    lines,     \* what the provider streamed, to the cut if the read fails
    kept,      \* what the goroutine remembers of it: stop reason and counts
    outcome,   \* how the answer ends for the client
    gone       \* the client left

translationVars == <<answer, headers, trailers, body, stage, lines, kept, outcome, gone>>

Waiting == [status |-> 0]
Ours(what) == [t |-> what]
Event(what) == [t |-> what]
Delta(text) == [t |-> "delta", text |-> text]

\* stopReason: a reason without an equivalent passes unchanged.
StopReason(finish) ==
    CASE finish = "length" -> "max_tokens"
      [] finish \in {"stop", ""} -> "end_turn"
      [] finish = "content_filter" -> "refusal"
      [] finish \in {"tool_calls", "function_call"} -> "tool_use"
      [] OTHER -> finish

TranslationInit ==
    /\ answer = Waiting /\ headers = {} /\ trailers = {} /\ body = <<>>
    /\ stage = "idle" /\ lines = <<>> /\ outcome = "open" /\ gone = FALSE
    /\ kept = [stop |-> "end_turn", produced |-> 0, reported |-> 0, prompt |-> 0]

Private == {"no-store", "outcome: spent"}

\* The credential echoed, what makes a client fetch something, and a token
\* outcome of the provider's own.
Stripped == {"echo", "location", "outcome: refunded"}

\* fromOpenAI.
Whole(a) ==
    [t |-> "message", text |-> Head(a.choices).text,
     stop |-> StopReason(Head(a.choices).finish)]

Answer(hs, content, how, after) ==
    /\ headers' = hs /\ body' = content /\ outcome' = how /\ trailers' = after

\* modifyResponse with, for an answer that is not a stream of ours, the copying
\* of its body.  The trailers are dropped before the body is read: what the
\* provider sends of them arrives when the body ends and is forwarded, unless
\* that body is never read.  Redirects and exhausted capacity are replaced as a whole;
\* an error is left to the provider's words; an answer that cannot be
\* translated passes as it is, and one too long is a transport failure.
Respond(a) ==
    LET passed == (a.headers \ Stripped) \cup Private IN
    /\ answer = Waiting /\ answer' = a
    /\ stage' = IF a.status = 200 /\ a.translated /\ a.streams THEN "begin" ELSE stage
    /\ \/ /\ a.status \in {301, 302, 303, 307, 308}
          /\ Answer(Private, <<Ours("redirect blocked")>>, "complete", {})
       \/ /\ a.status = 429
          /\ Answer(Private \cup (a.headers \cap {"retry-after"}), <<Ours("capacity")>>, "complete", {})
       \/ /\ a.status = 500 \/ (a.status = 200 /\ ~a.translated)
          /\ Answer(passed, <<Ours("as it is")>>, "complete", a.trailers)
       \/ /\ a.status = 200 /\ a.translated /\ a.streams
          /\ Answer(passed \ {"content-length"}, <<>>, "open", {})
       \/ /\ a.status = 200 /\ a.translated /\ ~a.streams
          /\ CASE a.long -> Answer(Private, <<Ours("upstream error")>>, "complete", {})
               [] ~a.long /\ a.choices = <<>> ->
                      Answer(passed, <<Ours("as it is")>>, "complete", a.trailers)
               [] OTHER -> Answer(passed, <<Whole(a)>>, "complete", a.trailers)
    /\ UNCHANGED <<lines, kept, gone>>

Close(how) == stage' = "closed" /\ outcome' = how

\* One event through the pipe, after which the goroutine is at "next".
Emit(event, next) ==
    IF gone THEN Close("broken") /\ UNCHANGED body
    ELSE body' = Append(body, event) /\ stage' = next /\ UNCHANGED outcome

Begin ==
    /\ stage \in {"begin", "block"}
    /\ IF stage = "begin" THEN Emit(Event("message_start"), "block")
                          ELSE Emit(Event("content_block_start"), "read")
    /\ UNCHANGED <<answer, headers, trailers, lines, kept, gone>>

\* Mutant: an error in the stream is a line without choices.
ErrorIsNoLine(line) == FALSE

\* The chunk carries an error of the provider.
ReportsError(line) == line.kind = "error"

Later(old, new) == IF new > 0 THEN new ELSE old

\* A comment, [DONE], what is not JSON, or what is JSON and does not decode
\* because a field has another type than is expected of it, whatever it says.
Skipped(line) == line.kind \in {"noise", "garbled"}

\* One line: it may be skipped; an error ends the stream with an event of its
\* own, the trailers being there if the body happened to end with it; a chunk
\* may count, finish, and speak.
Line(line) ==
    /\ stage = "read" /\ Len(lines) < MaxLines
    /\ lines' = Append(lines, line)
    /\ \/ Skipped(line) /\ UNCHANGED <<body, stage, kept, outcome, trailers>>
       \/ /\ ReportsError(line)
          /\ IF gone THEN Close("broken") /\ UNCHANGED <<body, trailers>>
             ELSE /\ body' = Append(body, Event("error")) /\ Close("complete")
                  /\ trailers' \in {{}, answer.trailers}
          /\ UNCHANGED kept
       \/ /\ ~Skipped(line) /\ ~ReportsError(line) /\ UNCHANGED trailers
          /\ kept' = [stop |-> IF line.finish # "" THEN StopReason(line.finish) ELSE kept.stop,
                      produced |-> kept.produced + (IF line.text # "" THEN 1 ELSE 0),
                      reported |-> Later(kept.reported, line.counted),
                      prompt |-> Later(kept.prompt, line.prompt)]
          /\ IF line.text = "" THEN UNCHANGED <<body, stage, outcome>>
                               ELSE Emit(Delta(line.text), "read")
    /\ UNCHANGED <<answer, headers, gone>>

\* Mutant: a read that fails ends the stream as its end does.
BrokenAsEnd == stage' = "stop" /\ UNCHANGED outcome

\* The read fails, or a line is too long: the pipe is closed with the error.
Broken == Close("broken")

ReadFails ==
    /\ stage = "read" /\ Broken
    /\ lines' = Append(lines, [kind |-> "cut"])
    /\ UNCHANGED <<answer, headers, trailers, body, kept, gone>>

StreamEnds ==
    /\ stage = "read" /\ stage' = "stop"
    /\ UNCHANGED <<answer, headers, trailers, body, lines, kept, outcome, gone>>

\* The three events that end an answer, and what they say of it; the body of
\* the provider has ended, so its trailers follow.
Finish ==
    /\ CASE stage = "stop" -> Emit(Event("content_block_stop"), "delta")
         [] stage = "delta" ->
                Emit([t |-> "message_delta", stop |-> kept.stop, prompt |-> kept.prompt,
                      output |-> Later(kept.produced, kept.reported)], "last")
         [] stage = "last" ->
                IF gone THEN Close("broken") /\ UNCHANGED body
                ELSE body' = Append(body, Event("message_stop")) /\ Close("complete")
         [] OTHER -> FALSE
    /\ trailers' = IF stage = "last" /\ ~gone THEN answer.trailers ELSE trailers
    /\ UNCHANGED <<answer, headers, lines, kept, gone>>

Leave ==
    /\ ~gone /\ answer # Waiting /\ gone' = TRUE
    /\ UNCHANGED <<answer, headers, trailers, body, stage, lines, kept, outcome>>

TranslationNext ==
    \/ \E a \in Answers : Respond(a)
    \/ Begin \/ ReadFails \/ StreamEnds \/ Finish \/ Leave
    \/ \E line \in Lines : Line(line)

TranslationSpec == TranslationInit /\ [][TranslationNext]_translationVars
-----------------------------------------------------------------------------
\* The lines that decode and speak, finish, count, or report an error.
Speaking  == {i \in DOMAIN lines : lines[i].kind = "chunk" /\ lines[i].text # ""}
Finishing == {i \in DOMAIN lines : lines[i].kind = "chunk" /\ lines[i].finish # ""}
Reporting == {i \in DOMAIN lines : lines[i].kind = "chunk" /\ lines[i].counted > 0}
Prompting == {i \in DOMAIN lines : lines[i].kind = "chunk" /\ lines[i].prompt > 0}
Failed == \E i \in DOMAIN lines : lines[i].kind \in {"error", "cut"}

Ordinal(i) == Cardinality({j \in Speaking : j <= i})
LastIn(S) == CHOOSE i \in S : \A j \in S : j <= i

\* What the end of a whole answer says of it.
Told ==
    [t |-> "message_delta",
     stop |-> StopReason(IF Finishing = {} THEN "" ELSE lines[LastIn(Finishing)].finish),
     prompt |-> IF Prompting = {} THEN 0 ELSE lines[LastIn(Prompting)].prompt,
     output |-> IF Reporting = {} THEN Cardinality(Speaking) ELSE lines[LastIn(Reporting)].counted]

Spoken == Cardinality({k \in DOMAIN body : body[k].t = "delta"})
Ended == \E k \in DOMAIN body : body[k].t = "message_stop"

\* A stream the client reads begins as a message, speaks the texts of the
\* provider's chunks in order and no others, and once it has ended did so in
\* one of three ways: whole, with the last stop reason the chunks gave, their
\* counts, and every text; with an error event, after a chunk reported an
\* error; or broken off.  Neither an error a chunk reports nor a read that
\* fails is passed off as a whole answer.  What does not decode does not
\* count, be it a text or an error (see NoErrorPassedOffAsWhole), and a body
\* that ends properly without a stop reason is told as a finished turn.
NothingPassedOffAsWhole ==
    stage # "idle" =>
        /\ Spoken <= Cardinality(Speaking)
        /\ \A i \in Speaking : Ordinal(i) <= Spoken => body[Ordinal(i) + 2] = Delta(lines[i].text)
        /\ Len(body) > 2 => body[1] = Event("message_start") /\ body[2] = Event("content_block_start")
        /\ Ended => /\ ~Failed /\ Spoken = Cardinality(Speaking) /\ outcome = "complete"
                    /\ body[Len(body) - 1] = Told
        /\ stage = "closed" => \/ Ended /\ Len(body) = Spoken + 5
                               \/ Failed /\ body[Len(body)] = Event("error")
                               \/ outcome = "broken"

\* Nothing a provider puts in its headers reaches the client in a header that
\* reveals the pooled credential, makes the client fetch something, or says
\* that the token may be used again; and a translated stream has no length.
HeadersAreOurs ==
    answer # Waiting =>
        /\ headers \cap Stripped = {} /\ Private \subseteq headers
        /\ stage # "idle" => "content-length" \notin headers

\* What translate.go says of errors, that a message is not closed as if it had
\* ended normally.  Refuted: it is, when the error is a string instead of an object.
NoErrorPassedOffAsWhole ==
    Ended => \A i \in DOMAIN lines :
                 lines[i].kind # "error" /\ (lines[i].kind = "garbled" => lines[i].says = "text")

\* What gateway.go says of trailers, that they do not bypass the policy for
\* headers.  Refuted: cleared before the body is read, they come back when it ends.
TrailersAreOurs == trailers \cap Stripped = {}

\* An answer as a whole: what the client is told, and by whom.
AnswerIsTrue == NothingPassedOffAsWhole /\ HeadersAreOurs
===============================================================================
