------------------------------- MODULE Admission -------------------------------
(***************************************************************************)
(* The credential boundary of the gateway: what prepareRequest of          *)
(* internal/gateway/gateway.go admits, what toOpenAI of translate.go makes *)
(* of it, what it is estimated to cost, and what rewrite sends.            *)
(*                                                                         *)
(* A JSON value is a record: text, whole number, "half" for a number that  *)
(* is not whole and lies between 0 and 1, flag, null, array of values,     *)
(* object of members.  Its size counts one byte for each value inside;     *)
(* "raw", the bytes that were read, is another number, since whitespace    *)
(* goes and escapes grow when the request is encoded again.                *)
(***************************************************************************)
EXTENDS Routing

CONSTANTS
    Configs,  \* configurations an operator may give
    Asked,    \* requests with a valid token
    MaxDepth,
    MaxTime   \* bound: the clock stops here

ASSUME AdmissionAssumption == MaxDepth \in Nat /\ MaxTime \in Nat

VARIABLES
    server,   \* what New returned; Down before it
    time,
    request,  \* the request; Refused before it
    pick      \* what is sent for it; Refused, and no token is spent

admissionVars == <<server, time, request, pick>>

Refused == [model |-> Absent]
Down == [routes |-> NoRoutes]

Text(s) == [t |-> "text", s |-> s]
Object(members) == [t |-> "object", members |-> members]
Member(name, value) == [name |-> name, value |-> value]
Values(v) == IF v.t = "array" THEN v.items ELSE [i \in DOMAIN v.members |-> v.members[i].value]
Names(v) == [i \in DOMAIN v.members |-> v.members[i].name]

Composite(v) == v.t \in {"array", "object"}

\* The values inside a value, each with its place, by the number of objects and
\* arrays around it.
Inside(nodes) ==
    UNION {{[place |-> Append(node.place, i), value |-> Values(node.value)[i]] :
            i \in DOMAIN Values(node.value)} : node \in {k \in nodes : Composite(k.value)}}
Level(v) ==
    LET level[n \in 0..MaxDepth] ==
            IF n = 0 THEN {[place |-> <<>>, value |-> v]} ELSE Inside(level[n - 1])
    IN  level
Nodes(v) == UNION {Level(v)[n] : n \in 0..MaxDepth}

\* What a request and a configuration may be.
Value(v) ==
    /\ v.t \in {"text", "number", "half", "flag", "null", "array", "object"}
    /\ v.t = "number" => v.n \in Int
    /\ v.t = "array" => v.items \in Seq(Range(v.items))
    /\ v.t = "object" => v.members \in Seq(Range(v.members))

ASSUME AskedAssumption ==
    \A r \in Asked : "doc" \in DOMAIN r /\ \A node \in Nodes(r.doc) : Value(node.value)

ASSUME ConfigsAssumption ==
    \A config \in Configs :
        /\ config.rates \in [input : Nat, output : Nat]
        /\ \A i \in DOMAIN config.lines :
            config.lines[i].prices \in Seq([whole : Seq(Nat), points : Nat, fraction : Seq(Nat)])

Size(v) == Cardinality(Nodes(v))

\* Mutant: only the names of the request itself are looked at.
TopUnambiguous(v) == v.t = "object" => IsInjective(Names(v))

\* walkJSONValue.
Unambiguous(v) ==
    \A n \in 0..MaxDepth : \A node \in Level(v)[n] :
        Composite(node.value) =>
            /\ n < MaxDepth
            /\ node.value.t = "object" => IsInjective(Names(node.value))

\* An object decoded into a map: of two members with a name the last counts.
Fields(v) ==
    [n \in Range(Names(v)) |->
        v.members[CHOOSE i \in DOMAIN v.members :
            /\ v.members[i].name = n
            /\ \A j \in DOMAIN v.members : v.members[j].name = n => j <= i].value]

\* A map encoded: its members in the order of their names.
Order == <<"max_tokens", "messages", "model", "stop", "stop_sequences", "stream",
           "system", "temperature", "top_p">>
Encode(fields) ==
    Object([i \in {k \in DOMAIN Order : Order[k] \in DOMAIN fields} |->
               Member(Order[i], fields[Order[i]])])

Message(v) ==
    /\ v.t = "object" /\ Range(Names(v)) = {"role", "content"}
    /\ Fields(v).role \in {Text("user"), Text("assistant")}
    /\ Fields(v).content.t = "text"

\* What each supported field must be; the model and the bound come later.
Valid(name, v) ==
    CASE name = "messages" -> v.t = "array" /\ v.items # <<>> /\ \A i \in DOMAIN v.items : Message(v.items[i])
      [] name = "system" -> v.t = "text"
      [] name = "stream" -> v.t = "flag"
      [] name \in {"temperature", "top_p"} -> v.t = "half" \/ (v.t = "number" /\ v.n \in 0..1)
      [] name = "stop_sequences" -> v.t = "array" /\ \A i \in DOMAIN v.items : v.items[i].t = "text"
      [] name = "model" -> v.t = "text" /\ v.s # Absent
      [] name = "max_tokens" -> v.t = "number" /\ v.n >= 1
      [] OTHER -> FALSE

\* A plain POST of JSON to /v1/messages, without query, encoding or trailers,
\* and short enough, as it is declared and as it is read.
ValidFrame(r) ==
    r.defects = {} /\ r.declared <= server.maxBody /\ r.raw <= server.maxBody

\* Mutant: the bound is not compared with the gateway's.
ValidAnyBound(doc) ==
    /\ doc.t = "object" /\ {"messages", "model", "max_tokens"} \subseteq Range(Names(doc))
    /\ \A n \in DOMAIN Fields(doc) : Valid(n, Fields(doc)[n])

ValidBody(doc) ==
    /\ doc.t = "object" /\ {"messages", "model", "max_tokens"} \subseteq Range(Names(doc))
    /\ \A n \in DOMAIN Fields(doc) : Valid(n, Fields(doc)[n])
    /\ Fields(doc).max_tokens.n <= server.maxOutput

\* toOpenAI: the system prompt becomes the first message, and what is empty,
\* or false, is left out.
ToOpenAI(fields) ==
    LET system == IF "system" \in DOMAIN fields
                  THEN <<Object(<<Member("role", Text("system")), Member("content", fields.system)>>)>>
                  ELSE <<>>
        named(n) == IF n = "stop" THEN "stop_sequences" ELSE n
        empty(n) == \/ named(n) \notin DOMAIN fields
                    \/ n = "stop" /\ fields.stop_sequences.items = <<>>
                    \/ n = "stream" /\ ~fields.stream.b
        kept == {n \in {"model", "max_tokens", "stream", "temperature", "top_p", "stop"} : ~empty(n)}
    IN  [n \in kept \cup {"messages"} |->
            IF n = "messages"
            THEN [t |-> "array", items |-> system \o fields.messages.items]
            ELSE fields[named(n)]]

\* Mutant: the headers of an API client are passed on as they came.
KeptHeaders(r, route) ==
    [h \in (DOMAIN r.headers \cap {"Accept", "Content-Type", "Anthropic-Version"})
           \cup {"User-Agent", "Credential"} |->
        IF h \in DOMAIN r.headers THEN r.headers[h] ELSE route.credential]

\* rewrite starts from three names, and sets the value of each itself.
SentHeaders(r, route) ==
    LET fixed == {"Accept", "Content-Type", "User-Agent"}
                 \cup (IF route.style = Anthropic THEN {"Anthropic-Version"} ELSE {})
    IN  [h \in fixed \cup {"Credential"} |->
            IF h = "Credential" THEN route.credential ELSE "fixed"]

\* The request a provider is sent, and what the budget is asked for it.
Sent(r, route) ==
    LET fields == Fields(r.doc)
        body == Encode(IF route.style = OpenAI THEN ToOpenAI(fields) ELSE fields)
        bound == fields.max_tokens.n
    IN  [model |-> fields.model.s, body |-> body, bound |-> bound,
         path |-> IF route.style = OpenAI THEN "/v1/chat/completions" ELSE "/v1/messages",
         host |-> route.upstream, headers |-> SentHeaders(r, route),
         size |-> Size(body),
         cost |-> EstimateCost(Size(body), bound, route.rates)]

Admissible(r) ==
    /\ ValidFrame(r) /\ Unambiguous(r.doc) /\ ValidBody(r.doc)
    /\ Fields(r.doc).model.s \in ActiveModels(server, time)

AdmissionInit ==
    /\ server = Down /\ time = 1 /\ request = Refused /\ pick = Refused

New(config) ==
    /\ server = Down /\ Starts(config)
    /\ server' = Server(config)
    /\ UNCHANGED <<time, request, pick>>

\* prepareRequest and the estimate; a cost beyond a word refuses as well.  A
\* request leaves nothing behind that the next one reads: there is one, and the
\* clock stops at it.
Prepare(r) ==
    /\ server # Down /\ request = Refused
    /\ request' = r
    /\ pick' = IF ~Admissible(r) THEN Refused
               ELSE LET sent == Sent(r, server.routes[Fields(r.doc).model.s])
                    IN  IF sent.cost = Overflow THEN Refused ELSE sent
    /\ UNCHANGED <<server, time>>

TimeGoesOn ==
    /\ time < MaxTime /\ request = Refused
    /\ time' = time + 1
    /\ UNCHANGED <<server, request, pick>>

AdmissionNext ==
    \/ \E config \in Configs : New(config)
    \/ \E r \in Asked : Prepare(r)
    \/ TimeGoesOn

AdmissionSpec == AdmissionInit /\ [][AdmissionNext]_admissionVars
-----------------------------------------------------------------------------
\* Whichever of two members with the same name a parser keeps, it reads the same.
ReadsOneWay(v) ==
    v.t = "object" =>
        \A i, j \in DOMAIN v.members :
            v.members[i].name = v.members[j].name => v.members[i].value = v.members[j].value

\* The texts a request carries to the model, in order.
Said(v) == LET f == Fields(v) IN
    (IF "system" \in DOMAIN f THEN <<f.system>> ELSE <<>>)
    \o [i \in DOMAIN f.messages.items |-> Fields(f.messages.items[i]).content]

\* What is sent was priced and bounded in full: the provider reads one bound,
\* not above the catalogue's, for a model the catalogue listed when the request
\* was admitted; and the cost put to the budget covers the body that is sent
\* and that bound at the prices configured, to less than two parts.  Without a
\* price there is no ceiling on cost.
Covered ==
    LET rates == server.routes[pick.model].rates
        exact == (Size(pick.body) + Padding) * rates.input + pick.bound * rates.output
        listed == Catalogue(server, time)
    IN  /\ pick.model \in DOMAIN listed /\ Fields(pick.body).max_tokens.n = pick.bound
        /\ pick.bound <= listed[pick.model].maxOutput /\ pick.size = Size(pick.body)
        /\ IF Priced(rates) THEN pick.cost * PerUnit \in exact .. (exact + 2 * PerUnit - 1)
                            ELSE ~server.requireRates

\* Every parser reads what the policy looked at, and the texts of the client
\* arrive whole and in order.
OneMeaning ==
    /\ \A node \in Nodes(pick.body) : ReadsOneWay(node.value)
    /\ Said(pick.body) = Said(request.doc)

\* No header value of the client leaves with the pooled credential, and the
\* credential goes to the provider it belongs to.
NothingOfTheCaller ==
    /\ Range(pick.headers) = {"fixed", server.routes[pick.model].credential}
    /\ pick.host = server.routes[pick.model].upstream

\* What an admitted request costs, says and reveals at the provider.
PaidForIsSent == pick # Refused => Covered /\ OneMeaning /\ NothingOfTheCaller
===============================================================================
