----------------------------- MODULE RouteTable -----------------------------
(***************************************************************************)
(* parseRouteTable, server/routes/table.ts: which routing files are taken. *)
(*                                                                         *)
(* A file is NotJson or a record of two sequences.  Of an upstream entry   *)
(* the model keeps its id, its adapter, what its base URL is and whether   *)
(* its credential is a reference; of a route entry its id, the shape of    *)
(* its match, its upstream, and what it exposes.  An entry is examined in  *)
(* the order of the code and its first fault ends the examination, except  *)
(* for a plaintext URL, which is a fault and lets the entry through.       *)
(***************************************************************************)
EXTENDS Integers, Sequences, FiniteSets, SequencesExt

CONSTANTS NotJson, Null

Adapters == {"anthropic", "fireworks"}
Id(entry) == entry.id

-----------------------------------------------------------------------------
(* upstreams *)

\* Why an upstream entry is left out of the table; Null when it is not.
UpstreamFault(entry) ==
    CASE ~entry.object -> "not an object"
      [] entry.object /\ entry.adapter \notin Adapters -> "adapter"
      [] entry.object /\ entry.adapter \in Adapters /\ entry.url = "malformed" -> "url"
      [] entry.object /\ entry.adapter \in Adapters /\ entry.url # "malformed" ->
            IF entry.reference THEN Null ELSE "credential"

\* A server-held credential must not cross the network in plaintext.
Plaintext(entry) == UpstreamFault(entry) # "not an object" /\ entry.url = "http"

Known(file) == {Id(u) : u \in {v \in ToSet(file.upstreams) : UpstreamFault(v) = Null}}

\* bug: an upstream that is refused might as well not be in the file
DeclaredIfKnown(file) == Known(file)

Declared(file) == {Id(u) : u \in ToSet(file.upstreams)}

UpstreamProblems(file) ==
    {<<"upstream", Id(u)>> : u \in {v \in ToSet(file.upstreams) :
        UpstreamFault(v) # Null \/ (Plaintext(v) /\ v.adapter \in Adapters)}}

-----------------------------------------------------------------------------
(* routes *)

\* Once an entry has an id nobody else has, the id is taken, whatever follows.
Taken(route, fault) == fault \notin {"id", "duplicate id"}

RouteFault(file, entry, ids, exposed) ==
    CASE entry.id = Null -> "id"
      [] entry.id \in ids -> "duplicate id"
      [] entry.id \notin ids \cup {Null} /\ entry.match \in {"missing", "inner star"} -> "match"
      [] OTHER ->
            IF entry.upstream \notin {Null} \cup Known(file)
            THEN IF entry.upstream \in Declared(file) THEN "invalid upstream"
                 ELSE "unknown upstream"
            ELSE IF entry.expose.kind \in {"pattern", "foreign"} THEN "expose"
            ELSE IF entry.expose.kind = "id" /\ entry.expose.id \in exposed
            THEN "exposed twice"
            ELSE Null

(***************************************************************************)
(* The routes are examined in file order, each against the ids and the     *)
(* aliases of those before it.  A route whose upstream is declared but     *)
(* invalid is dropped without a message of its own: the upstream has one.  *)
(***************************************************************************)
ExamineNext(file, acc, n) ==
    LET entry == file.routes[n]
        fault == RouteFault(file, entry, acc.ids, acc.exposed)
    IN  [ids |-> acc.ids \cup (IF Taken(entry, fault) THEN {entry.id} ELSE {}),
         exposed |-> acc.exposed \cup
             (IF fault = Null /\ entry.expose.kind = "id" THEN {entry.expose.id} ELSE {}),
         routes |-> IF fault = Null THEN Append(acc.routes, entry) ELSE acc.routes,
         problems |-> acc.problems \cup
             (IF fault \in {Null, "invalid upstream"} THEN {} ELSE {<<"route", n>>})]

Examine(file) ==
    LET upTo[n \in 0..Len(file.routes)] ==
            IF n = 0 THEN [ids |-> {}, exposed |-> {}, routes |-> <<>>, problems |-> {}]
            ELSE ExamineNext(file, upTo[n - 1], n)
    IN  upTo[Len(file.routes)]

AcceptedRoutes(file) == Examine(file).routes
RouteProblems(file) == Examine(file).problems

-----------------------------------------------------------------------------
\* An upstream nothing routes to, unless it is the default for Anthropic models.
DeadUpstreams(file) ==
    {<<"dead", Id(u)>> : u \in {v \in ToSet(file.upstreams) :
        /\ Id(v) \in Known(file)
        /\ v.adapter # "anthropic"
        /\ \A r \in ToSet(AcceptedRoutes(file)) : r.upstream # Id(v)}}

Problems(file) ==
    IF file = NotJson THEN {<<"not json", NotJson>>}
    ELSE UpstreamProblems(file) \cup RouteProblems(file) \cup DeadUpstreams(file)

\* The file is taken whole or not at all.
Valid(file) == Problems(file) = {}

-----------------------------------------------------------------------------
(***************************************************************************)
(* What a table taken must be, whatever the order of the checks: nothing   *)
(* of the file is missing from it, its names are unique and known, and no  *)
(* upstream is out of reach ("a route that silently does not apply sends   *)
(* traffic somewhere the operator did not intend", table.ts:93-94).        *)
(***************************************************************************)
Unique(set, F(_), n) == Cardinality({F(x) : x \in set}) = n

Honourable(file) ==
    LET routes == file.routes
        aliased == {i \in DOMAIN routes : routes[i].expose.kind = "id"}
    IN  /\ \A u \in ToSet(file.upstreams) :
              u.object /\ u.adapter \in Adapters /\ u.reference
              /\ u.url \in {"https", "loopback"}
        /\ AcceptedRoutes(file) = routes
        /\ Unique(DOMAIN routes, LAMBDA i : routes[i].id, Len(routes))
        /\ Unique(aliased, LAMBDA i : routes[i].expose.id, Cardinality(aliased))
        /\ \A r \in ToSet(routes) :
              r.upstream = Null \/ r.upstream \in Declared(file)
        /\ \A u \in ToSet(file.upstreams) :
              u.adapter = "fireworks" => \E r \in ToSet(routes) : r.upstream = u.id

(***************************************************************************)
(* One cause, one message: an upstream that is faulty in itself is the     *)
(* only thing said of it, and the routes that name it say nothing.         *)
(***************************************************************************)
OneCause(file) ==
    \A u \in ToSet(file.upstreams) : UpstreamFault(u) # Null =>
        /\ <<"dead", Id(u)>> \notin Problems(file)
        /\ \A i \in DOMAIN file.routes :
              /\ file.routes[i].upstream = Id(u)
              /\ file.routes[i].id # Null
              /\ file.routes[i].match = "good"
              /\ \A j \in 1..(i - 1) : file.routes[j].id # file.routes[i].id
              => <<"route", i>> \notin Problems(file)
=============================================================================
