---------------------------- MODULE RouteResolve ----------------------------
(***************************************************************************)
(* The choice of a route, server/routes/resolve.ts, as pure operators.     *)
(*                                                                         *)
(* A route is a record                                                     *)
(*    matched  the models its `match` matches                              *)
(*    exact    whether `match` is without a wildcard                       *)
(*    len      the length of `match`                                       *)
(*    expose   the alias it publishes, or NoModel                          *)
(*    upstream the id of the upstream it sends to, or Nobody               *)
(* and a table is [routes, upstreams], both sequences, an upstream being   *)
(* [id, adapter].  The model id an upstream is sent is left out: it does   *)
(* not take part in any choice.                                            *)
(***************************************************************************)
EXTENDS Integers, Sequences

CONSTANTS
    Models,    \* the model ids a request may name
    Anthropic, \* those that match /(claude|anthropic)/i
    NoModel,   \* a request without a readable model; a route without an alias
    Nobody     \* `upstream: null`

ASSUME ModelAssumption == Anthropic \subseteq Models /\ NoModel \notin Models

Routes(table) == DOMAIN table.routes

Claims(route, model) == route.expose = model \/ model \in route.matched

\* The models that are the route's own, an alias being one whatever `match` is.
ExactFor(route, model) == route.exact \/ route.expose = model

(***************************************************************************)
(* Exact rules first, then the longest pattern, then file order.           *)
(***************************************************************************)
Better(table, i, j, model) ==
    LET r == table.routes[i]
        s == table.routes[j]
        Tier(route) == IF ExactFor(route, model) THEN 0 ELSE 1
    IN  \/ Tier(r) < Tier(s)
        \/ Tier(r) = Tier(s) /\ r.len > s.len
        \/ Tier(r) = Tier(s) /\ r.len = s.len /\ i < j

Claiming(table, model) ==
    {i \in Routes(table) : model # NoModel /\ Claims(table.routes[i], model)}

Best(table, model) ==
    CHOOSE i \in Claiming(table, model) :
        \A j \in Claiming(table, model) \ {i} : Better(table, i, j, model)

Passthrough == [pipeline |-> "passthrough", upstream |-> Nobody]
Substitute(id) == [pipeline |-> "substitute", upstream |-> id]

(***************************************************************************)
(* A request no route claims, one without a model, and one claimed by a    *)
(* route whose upstream is null pass through.                              *)
(***************************************************************************)
ResolveRoute(table, model) ==
    IF \/ Claiming(table, model) = {}
       \/ table.routes[Best(table, model)].upstream = Nobody
    THEN Passthrough
    ELSE Substitute(table.routes[Best(table, model)].upstream)

AnthropicUpstreams(table) ==
    {i \in DOMAIN table.upstreams : table.upstreams[i].adapter = "anthropic"}

DefaultAnthropicUpstream(table) ==
    LET first == CHOOSE i \in AnthropicUpstreams(table) :
                     \A j \in AnthropicUpstreams(table) : i <= j
    IN  IF AnthropicUpstreams(table) = {} THEN Nobody
        ELSE table.upstreams[first].id

(***************************************************************************)
(* With no credential to pass through, an Anthropic model no route claims  *)
(* goes to the first upstream that is Anthropic's own API.                 *)
(***************************************************************************)
ResolveWithoutCallerCredential(table, model) ==
    IF /\ Claiming(table, model) = {}
       /\ model \in Anthropic
       /\ DefaultAnthropicUpstream(table) # Nobody
    THEN Substitute(DefaultAnthropicUpstream(table))
    ELSE ResolveRoute(table, model)

=============================================================================
