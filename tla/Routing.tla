-------------------------------- MODULE Routing --------------------------------
(***************************************************************************)
(* What a gateway carries (internal/gateway routes.go, modelmeta.go,       *)
(* catalog.go, and New of gateway.go): the route file, the configuration   *)
(* it may start with, and the catalogue it answers GET /v1/models with.    *)
(*                                                                         *)
(* A route line is a record; its annotations are kept as what reading them *)
(* left, and "malformed" stands for one that cannot be read, is unknown or *)
(* appears twice.  The three claims of a policy are checked alike: one     *)
(* stands for them.  Both limits have a default and a maximum: one pair    *)
(* stands for both.  Times start at 1.                                     *)
(***************************************************************************)
EXTENDS Pricing

CONSTANTS LimitDefault, LimitMaximum

ASSUME LimitAssumption ==
    LimitDefault \in Nat \ {0} /\ LimitMaximum \in Nat \ {0}

Never == 0         \* the zero time
Unsafe == "http:"  \* an address without https, or with user or query parts
Absent == ""      \* also for a model name with spaces around it
NoRoutes == <<>>

Anthropic == "anthropic"
OpenAI == "openai"

ValidPolicy(notes) ==
    /\ notes.checked <=> (notes.source # Absent)
    /\ notes.claims => notes.source # Absent
    /\ notes.source # Unsafe

ValidLifecycle(notes) == notes.experimental <=> (notes.expires # Never)

\* A route is active until the instant it expires.
Active(notes, t) == notes.expires = Never \/ t < notes.expires

\* parseRouteAnnotations.
ValidNotes(notes) == ~notes.malformed /\ ValidPolicy(notes) /\ ValidLifecycle(notes)

Rates(prices) ==
    IF prices = <<>> THEN NoPrice
    ELSE [input |-> ParseAmount(prices[1]), output |-> ParseAmount(prices[2])]

Readable(line) ==
    /\ line.form = "route"
    /\ Len(line.prices) \in {0, 2}
    /\ \A i \in DOMAIN line.prices : ParseAmount(line.prices[i]) # Overflow
    /\ ValidNotes(line.notes)

RouteOf(line) ==
    [style |-> line.style, upstream |-> line.upstream, credential |-> line.key,
     rates |-> Rates(line.prices), notes |-> line.notes]

ValidRoute(route) ==
    /\ route.style \in {Anthropic, OpenAI}
    /\ route.credential # Absent /\ route.upstream \notin {Absent, Unsafe}
    /\ ValidPolicy(route.notes) /\ ValidLifecycle(route.notes)
    /\ ValidRates(route.rates)

\* Names and routes by their place in the file; a name listed twice, or an
\* empty table, is refused.
NewRoutes(names, routes) ==
    IF DOMAIN names # {} /\ IsInjective(names) /\ \A i \in DOMAIN routes : ValidRoute(routes[i])
    THEN [m \in Range(names) |-> routes[CHOOSE i \in DOMAIN names : names[i] = m]]
    ELSE NoRoutes

\* One line that cannot be read, or whose key is not in the environment,
\* refuses the whole file.
ParseRoutes(lines, environment) ==
    LET read == {i \in DOMAIN lines : lines[i].form # "comment"}
    IN  IF \A i \in read : Readable(lines[i]) /\ lines[i].key \in environment
        THEN NewRoutes([i \in read |-> lines[i].model], [i \in read |-> RouteOf(lines[i])])
        ELSE NoRoutes

Limit(n) == IF n = 0 THEN LimitDefault ELSE n

\* Mutant: a ceiling on cost is accepted with one priced route.
SomePriced(routes) == \E m \in DOMAIN routes : Priced(routes[m].rates)

AllPriced(routes) == \A m \in DOMAIN routes : Priced(routes[m].rates)

\* New: "complete" stands for an address, a redemption store, a budget, and
\* mint keys filed under their own ids.
Starts(config) ==
    LET routes == ParseRoutes(config.lines, config.environment) IN
    /\ config.complete /\ ValidRates(config.rates)
    /\ {Limit(config.maxBody), Limit(config.maxOutput)} \subseteq 1..LimitMaximum
    /\ config.upstream # Unsafe
    /\ \/ /\ config.routed /\ routes # NoRoutes
          /\ config.models = <<>> /\ ~Priced(config.rates)
          /\ config.requireRates => AllPriced(routes)
       \/ /\ ~config.routed /\ Absent \notin {config.upstream, config.credential}
          /\ config.models # <<>> /\ IsInjective(config.models)
          /\ Absent \notin Range(config.models)
          /\ config.requireRates => Priced(config.rates)

\* The server New returns: one table, whichever way the models are configured.
Server(config) ==
    [routes |->
        IF config.routed THEN ParseRoutes(config.lines, config.environment)
        ELSE [m \in Range(config.models) |->
                [style |-> Anthropic, upstream |-> config.upstream,
                 credential |-> config.credential, rates |-> config.rates,
                 notes |-> [malformed |-> FALSE, claims |-> FALSE, source |-> Absent,
                            checked |-> FALSE, experimental |-> FALSE, expires |-> Never]]],
     requireRates |-> config.requireRates,
     maxBody |-> Limit(config.maxBody), maxOutput |-> Limit(config.maxOutput)]

\* ActiveModels, and the lookups by name.
ActiveModels(server, t) ==
    {m \in DOMAIN server.routes : Active(server.routes[m].notes, t)}

\* handleModels: what is told of each model.
Catalogue(server, t) ==
    [m \in ActiveModels(server, t) |->
        [maxBytes |-> server.maxBody, maxOutput |-> server.maxOutput,
         claims |-> server.routes[m].notes.claims,
         source |-> server.routes[m].notes.source,
         checked |-> server.routes[m].notes.checked,
         expires |-> server.routes[m].notes.expires]]
===============================================================================
