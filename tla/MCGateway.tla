------------------------------ MODULE MCGateway ------------------------------
(***************************************************************************)
(* Instances of Budget, Admission and Translation for TLC.  The three are  *)
(* parts of one gateway that share no state: the budget is asked by a      *)
(* weight, what a request weighs is Admission's, and an answer comes after *)
(* both.  Each behaviour belongs to one of them.                           *)
(***************************************************************************)
EXTENDS MCBudget, Admission, Translation

VARIABLE part  \* the part of the gateway that moves

\* Prices: 0.7 and 1.5 of a unit, and one with too many places.
Cheap == [whole |-> <<0>>, points |-> 1, fraction |-> <<7>>]
Dear  == [whole |-> <<1>>, points |-> 1, fraction |-> <<5>>]
Fine  == [whole |-> <<>>, points |-> 1, fraction |-> <<0, 1>>]

Plain == [malformed |-> FALSE, claims |-> FALSE, source |-> Absent, checked |-> FALSE,
          experimental |-> FALSE, expires |-> Never]
Sourced == [Plain EXCEPT !.claims = TRUE, !.source = "policy", !.checked = TRUE]
Preview == [Plain EXCEPT !.experimental = TRUE, !.expires = 2]
Annotations == {Plain, Sourced, Preview, [Plain EXCEPT !.expires = 2], [Plain EXCEPT !.claims = TRUE]}

RouteLine(model, style, prices, notes) ==
    [form |-> "route", model |-> model, style |-> style, upstream |-> style, key |-> model,
     prices |-> prices, notes |-> notes]
Comment == [RouteLine("m", OpenAI, <<>>, Plain) EXCEPT !.form = "comment"]

RouteFiles ==
    {<<RouteLine("m", OpenAI, prices, notes), Comment, RouteLine("n", Anthropic, <<Cheap, Dear>>, Plain)>> :
        prices \in {<<>>, <<Cheap>>, <<Dear, Cheap>>, <<Fine, Cheap>>}, notes \in Annotations}

Routed == {[complete |-> TRUE, routed |-> TRUE, lines |-> file, environment |-> {"m", "n"},
            models |-> <<>>, rates |-> NoPrice, upstream |-> Absent, credential |-> Absent,
            requireRates |-> require, maxBody |-> 0, maxOutput |-> most] :
            file \in RouteFiles, require \in BOOLEAN, most \in {0, 2, LimitMaximum + 1}}
Single == {[complete |-> TRUE, routed |-> FALSE, lines |-> <<>>, environment |-> {},
            models |-> models, rates |-> rates, upstream |-> "u", credential |-> "k",
            requireRates |-> require, maxBody |-> 14, maxOutput |-> 2] :
            models \in {<<"m">>, <<"m", Absent>>},
            rates \in {NoPrice, [input |-> 7, output |-> 15]}, require \in BOOLEAN}
SomeConfigs == Routed \cup Single

Integer(n) == [t |-> "number", n |-> n]
Half == [t |-> "half"]
Flag(b) == [t |-> "flag", b |-> b]
Array(items) == [t |-> "array", items |-> items]
Says(role, v) == Object(<<Member("role", Text(role)), Member("content", v)>>)

Conversations ==
    {Array(<<>>), Array(<<Says("user", Text("a"))>>),
     Array(<<Says("user", Text("a")), Says("assistant", Text("b"))>>),
     Array(<<Says("tool", Text("a"))>>),
     Array(<<Says("user", Array(<<Text("a")>>))>>),
     Array(<<Object(<<Member("role", Text("user")), Member("content", Text("a")),
                      Member("content", Text("b"))>>)>>)}
Extras ==
    {<<>>, <<Member("system", Text("s"))>>, <<Member("tools", Array(<<>>))>>,
     <<Member("max_tokens", Integer(9))>>,
     <<Member("stream", Flag(FALSE)), Member("temperature", Half)>>,
     <<Member("stream", Flag(TRUE)), Member("stop_sequences", Array(<<Text("x")>>)),
       Member("top_p", Integer(1))>>,
     <<Member("top_p", Integer(2))>>, <<Member("stop_sequences", Array(<<>>))>>}
Documents ==
    {Object(<<Member("model", Text(model)), Member("max_tokens", bound)>> \o extra
            \o <<Member("messages", said)>>) :
        model \in {"m", "n", "o"}, bound \in {Integer(0), Integer(2), Integer(3), Half},
        extra \in Extras, said \in Conversations}
SomeRequests ==
    {[defects |-> {}, declared |-> -1, raw |-> 9, doc |-> doc,
      headers |-> "Accept" :> "of the client" @@ "Cookie" :> "of the client"] : doc \in Documents}
    \cup {[defects |-> defects, declared |-> declared, raw |-> raw, headers |-> <<>>,
           doc |-> Object(<<Member("model", Text("m")), Member("max_tokens", Integer(1)),
                            Member("messages", Array(<<Says("user", Text("a"))>>))>>)] :
            defects \in {{}, {"query"}}, declared \in {-1, 9, 15}, raw \in {9, 15}}

Head200 == [status |-> 200, translated |-> TRUE, streams |-> TRUE, long |-> FALSE,
            choices |-> <<>>, headers |-> Stripped \cup {"content-length", "content-type"},
            trailers |-> {"echo", "checksum"}]
SomeAnswers ==
    {[Head200 EXCEPT !.status = status, !.translated = translated, !.headers = @ \cup {"retry-after"}] :
        status \in {301, 429, 500}, translated \in BOOLEAN}
    \cup {Head200, [Head200 EXCEPT !.translated = FALSE]}
    \cup {[Head200 EXCEPT !.streams = FALSE, !.long = long, !.choices = choices] :
            long \in BOOLEAN, choices \in {<<>>, <<[text |-> "a", finish |-> "length"]>>}}

Chunk(text, finish, counted) ==
    [kind |-> "chunk", text |-> text, finish |-> finish, counted |-> counted, prompt |-> counted]
SomeLines ==
    {[kind |-> "noise"], [Chunk("", "", 0) EXCEPT !.kind = "error"], Chunk("a", "", 0), Chunk("b", "length", 0),
     Chunk("", "stop", 7), Chunk("", "", 5), [kind |-> "garbled", says |-> "text"],
     [kind |-> "garbled", says |-> "error"]}

\* For the runs that are about answers alone.
NoRequests == {}

GatewayInit ==
    /\ Init /\ AdmissionInit /\ TranslationInit
    /\ part \in {"budget", "requests", "answers"}

GatewayNext ==
    \/ part = "budget" /\ Next /\ UNCHANGED <<admissionVars, translationVars, part>>
    \/ part = "requests" /\ AdmissionNext /\ UNCHANGED <<vars, translationVars, part>>
    \/ part = "answers" /\ TranslationNext /\ UNCHANGED <<vars, admissionVars, part>>

GatewaySpec == GatewayInit /\ [][GatewayNext]_<<vars, admissionVars, translationVars, part>>
===============================================================================
