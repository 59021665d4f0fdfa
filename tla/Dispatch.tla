------------------------------ MODULE Dispatch ------------------------------
(***************************************************************************)
(* A request to /v1/messages from its arrival to its record: the           *)
(* dispatcher (server/pipeline/dispatch.ts), the choice of its credential  *)
(* (server/credentials/resolve.ts) and the substitute pipeline             *)
(* (server/pipeline/substitute.ts), over a routing table that an operator  *)
(* replaces at any moment.  Of handleMessages the model keeps what comes   *)
(* before the upstream request; the relay itself is MessageRelay.          *)
(*                                                                         *)
(* The dispatcher is given the table in force when the request arrives and *)
(* then awaits the body: `snapshot` is that table, `table` the one the     *)
(* next request will see.  `pc` names the await the request is at.         *)
(***************************************************************************)
EXTENDS RouteResolve

CONSTANTS
    Tables,          \* the tables the operator puts in force
    Secrets,         \* the upstreams whose credential is set on the server
    RequireIdentity  \* FEST_REQUIRE_IDENTITY

ASSUME DispatchAssumption == RequireIdentity \in BOOLEAN

(***************************************************************************)
(* What detectInbound makes of the headers: the caller's own credential,   *)
(* what its identity token resolves to, and whether that token is in the   *)
(* credential position itself.                                             *)
(***************************************************************************)
Request ==
    [credential : {"subscription", "key", "none"},
     identity : {"resolved", "dead", "none"}, inPosition : BOOLEAN,
     model : Models \cup {NoModel}]
Inbound == {r \in Request : r.identity = "none" => ~r.inPosition}

VARIABLES
    table,      \* what routesOf() returns
    snapshot,   \* ctx.routes of the request
    request,    \* what detectInbound and the body say
    pc,         \* the await the request is suspended at, or "idle", "done"
    upstream,   \* decision.upstream of a substituted request
    sent,       \* the upstream requests: who received which credential
    considered, \* credentialsConsidered, as [source, result]
    records     \* what the sink was given

vars == <<table, snapshot, request, pc, upstream, sent, considered, records>>

Attempt(source, result) == [source |-> source, result |-> result]
Record(pipeline, origin, status, attempts) ==
    records' = Append(records,
        [pipeline |-> pipeline, origin |-> origin, status |-> status,
         considered |-> attempts])

CallerOrigin ==
    CASE request.credential = "subscription" -> "inbound_subscription"
      [] request.credential = "key" -> "inbound_key"
      [] request.credential = "none" -> "none"

Init ==
    /\ table \in Tables
    /\ snapshot = table
    /\ request \in Inbound
    /\ pc = "idle"
    /\ upstream = Nobody
    /\ sent = <<>>
    /\ considered = {}
    /\ records = <<>>

-----------------------------------------------------------------------------
(***************************************************************************)
(* Arrival.  Without routes and without an Anthropic upstream there is     *)
(* nothing to decide, and handleMessages reads the body itself.            *)
(***************************************************************************)
NothingToDecide ==
    table.routes = <<>> /\ DefaultAnthropicUpstream(table) = Nobody

Arrive ==
    /\ pc \in {"idle", "done"}
    /\ request' \in Inbound
    /\ snapshot' = table
    /\ pc' = IF NothingToDecide THEN "handle" ELSE "peek"
    /\ upstream' = Nobody
    /\ sent' = <<>>
    /\ considered' = {}
    /\ records' = <<>>
    /\ UNCHANGED table

\* The table is replaced: routes/watch.ts, which lets only valid ones through.
Reload ==
    /\ table' \in Tables \ {table}
    /\ UNCHANGED <<snapshot, request, pc, upstream, sent, considered, records>>

(***************************************************************************)
(* The dispatcher's await ends without a body: the client has gone, which  *)
(* the server's catch ends, or the body is too large.  Neither is recorded.*)
(***************************************************************************)
NoBodyToPeek ==
    /\ pc = "peek"
    /\ pc' = "done"
    /\ UNCHANGED <<table, snapshot, request, upstream, sent, considered, records>>

\* The same in handleMessages, which records the body that is too large.
NoBodyToForward ==
    /\ pc = "body"
    /\ pc' = "done"
    /\ \/ UNCHANGED records
       \/ Record("passthrough", CallerOrigin, "bad_request", considered)
    /\ UNCHANGED <<table, snapshot, request, upstream, sent, considered>>

-----------------------------------------------------------------------------
(* handleMessages, up to its upstream request                              *)

PassthroughConsidered ==
    {IF request.credential = "none" THEN Attempt("inbound", "missing")
     ELSE Attempt(CallerOrigin, "used")}

Denied ==
    \/ request.identity = "dead"
    \/ RequireIdentity /\ request.identity = "none"
Deny ==
    /\ pc' = "done"
    /\ Record("passthrough", CallerOrigin, "identity_denied", PassthroughConsidered)
    /\ UNCHANGED sent

(***************************************************************************)
(* The body is there.  A Fest token in the credential position and nothing *)
(* else leaves nothing to forward; otherwise what the caller sent goes on. *)
(***************************************************************************)
Forward ==
    IF request.credential = "none" /\ request.inPosition
    THEN /\ pc' = "done"
         /\ Record("passthrough", CallerOrigin, "bad_request", PassthroughConsidered)
         /\ UNCHANGED sent
    ELSE /\ pc' = "relay"
         /\ sent' = Append(sent, [to |-> "anthropic.com", secret |-> CallerOrigin])
         /\ UNCHANGED records

\* handleMessages called at once: its identity check, then its own await.
Handle ==
    /\ pc = "handle"
    /\ considered' = PassthroughConsidered
    /\ IF Denied THEN Deny
       ELSE pc' = "body" /\ UNCHANGED <<sent, records>>
    /\ UNCHANGED <<table, snapshot, request, upstream>>

BodyRead ==
    /\ pc = "body"
    /\ Forward
    /\ UNCHANGED <<table, snapshot, request, upstream, considered>>

\* The relay ends as in MessageRelay: with its record, or with none.
RelayEnds ==
    /\ pc = "relay"
    /\ pc' = "done"
    /\ \/ UNCHANGED records
       \/ \E status \in {"ok", "upstream_error", "client_abort", "stream_error",
                         "preflight_refused"} :
              Record("passthrough", CallerOrigin, status, considered)
    /\ UNCHANGED <<table, snapshot, request, upstream, sent, considered>>

-----------------------------------------------------------------------------
(* The decision                                                            *)

\* bug: the routes are looked up again after the body has been read
DecisionReread ==
    IF request.credential = "none"
    THEN ResolveWithoutCallerCredential(table, request.model)
    ELSE ResolveRoute(table, request.model)

Decision ==
    IF request.credential = "none"
    THEN ResolveWithoutCallerCredential(snapshot, request.model)
    ELSE ResolveRoute(snapshot, request.model)

\* The body is already read, so handleMessages runs to its fetch at once.
DecidePassthrough ==
    /\ pc = "peek"
    /\ Decision.pipeline = "passthrough"
    /\ considered' = PassthroughConsidered
    /\ IF Denied THEN Deny ELSE Forward
    /\ UNCHANGED <<table, snapshot, request, upstream>>

Skipped ==
    IF request.credential = "none" THEN {} ELSE {Attempt(CallerOrigin, "skipped")}

\* bug: without the server's credential the request goes on to Anthropic
SubstituteRefusedFallsBack ==
    /\ pc = "peek"
    /\ Decision.pipeline = "substitute"
    /\ Decision.upstream \notin Secrets
    /\ upstream' = Decision.upstream
    /\ considered' = PassthroughConsidered
    /\ Forward
    /\ UNCHANGED <<table, snapshot, request>>

(***************************************************************************)
(* resolveCredential for a substituted request: what the caller sent is    *)
(* skipped, and the server's own credential is there or it is not.  The    *)
(* identity is looked up for the record; it decides nothing.               *)
(***************************************************************************)
SubstituteRefused ==
    LET attempts == Skipped \cup {Attempt("env", "missing")}
    IN  /\ pc = "peek"
        /\ Decision.pipeline = "substitute"
        /\ Decision.upstream \notin Secrets
        /\ upstream' = Decision.upstream
        /\ considered' = attempts
        /\ pc' = "done"
        /\ Record("substitute", "fallback_server", "bad_request", attempts)
        /\ UNCHANGED <<table, snapshot, request, sent>>

SubstituteSent ==
    /\ pc = "peek"
    /\ Decision.pipeline = "substitute"
    /\ Decision.upstream \in Secrets
    /\ upstream' = Decision.upstream
    /\ considered' = Skipped \cup {Attempt("env", "used")}
    /\ sent' = Append(sent, [to |-> Decision.upstream, secret |-> "env"])
    /\ pc' = "fetch"
    /\ UNCHANGED <<table, snapshot, request, records>>

-----------------------------------------------------------------------------
(* handleSubstitute, from its fetch on                                     *)

Finish(status, attempts) == Record("substitute", "fallback_server", status, attempts)
ended == <<table, snapshot, request, upstream, sent>>

FetchFails ==
    /\ pc = "fetch"
    /\ pc' = "done"
    /\ Finish("upstream_error", considered)
    /\ UNCHANGED <<ended, considered>>

Rejected == {IF a.result = "used" THEN [a EXCEPT !.result = "rejected"] ELSE a :
             a \in considered}

\* bug: the list is taken from the context, as it was before the answer
ResponseArrivesBlind ==
    /\ pc = "fetch"
    /\ pc' \in {"refusal", "json", "stream"}
    /\ considered' = Skipped
    /\ UNCHANGED <<ended, records>>

(***************************************************************************)
(* The response's headers: a 401 or 403 rejects the server's credential, a *)
(* success is a stream or a body.                                          *)
(***************************************************************************)
ResponseArrives ==
    /\ pc = "fetch"
    /\ \/ pc' = "refusal" /\ considered' = Rejected
       \/ pc' \in {"refusal", "json", "stream"} /\ UNCHANGED considered
    /\ UNCHANGED <<ended, records>>

\* The text is read whole and recorded, or the read rejects and nothing is.
TextEnds ==
    /\ pc \in {"refusal", "json"}
    /\ pc' = "done"
    /\ \/ UNCHANGED records
       \/ Finish(IF pc = "refusal" THEN "upstream_error" ELSE "ok", considered)
    /\ UNCHANGED <<ended, considered>>

\* The same pipe as the relay's: it may also stay suspended for ever.
StreamEnds ==
    /\ pc = "stream"
    /\ pc' = "done"
    /\ \E status \in {"ok", "client_abort", "stream_error"} : Finish(status, considered)
    /\ UNCHANGED <<ended, considered>>

Next ==
    \/ Arrive \/ Reload
    \/ NoBodyToPeek \/ NoBodyToForward
    \/ Handle \/ BodyRead \/ RelayEnds
    \/ DecidePassthrough \/ SubstituteRefused \/ SubstituteSent
    \/ FetchFails \/ ResponseArrives \/ TextEnds \/ StreamEnds

Spec == Init /\ [][Next]_vars

-----------------------------------------------------------------------------
(* Properties                                                              *)

Source == {"inbound", "inbound_subscription", "inbound_key", "env"}

(***************************************************************************)
(* The types, among them that one request never makes two requests         *)
(* upstream and never leaves two records.                                  *)
(***************************************************************************)
TypeOK ==
    /\ {table, snapshot} \subseteq Tables
    /\ request \in Inbound
    /\ pc \in {"idle", "peek", "handle", "body", "relay", "fetch", "refusal",
              "json", "stream", "done"}
    /\ considered \subseteq
           [source : Source, result : {"used", "skipped", "missing", "rejected"}]
    /\ Len(sent) <= 1
    /\ Len(records) <= 1
    /\ pc \in {"relay", "fetch", "refusal", "json", "stream"} => Len(sent) = 1

OnServerCredential == \E i \in DOMAIN sent : sent[i].secret = "env"

(***************************************************************************)
(* A request that brings a credential of its own is served on the server's *)
(* only where a route of the operator claims its model: the default for    *)
(* Anthropic models never diverts what a caller's plan pays for, and a     *)
(* table that replaces the one the request arrived under decides nothing   *)
(* for it (resolve.ts:136-148, dispatch.ts:91-94).                         *)
(***************************************************************************)
PlanPaysItsOwn ==
    OnServerCredential /\ request.credential # "none" =>
        Claiming(snapshot, request.model) # {}

(***************************************************************************)
(* A substituted request that cannot be served fails.  It is never sent on *)
(* the caller's credential, nor to another vendor than the one decided,    *)
(* nor anywhere without that vendor's credential                           *)
(* (credentials/resolve.ts:16-20, substitute.ts:166-171).                  *)
(***************************************************************************)
NeverServedElsewhere ==
    upstream # Nobody =>
        \A i \in DOMAIN sent :
            /\ upstream \in Secrets
            /\ sent[i] = [to |-> upstream, secret |-> "env"]

(***************************************************************************)
(* The record says who paid: if a request went upstream, its record names  *)
(* the credential it went with, and that one only, as used or rejected,    *)
(* and its origin is the server exactly when that is the server's own      *)
(* (credentials/resolve.ts:1-7, passthrough.ts:189-193).                   *)
(***************************************************************************)
Billed(attempts) ==
    {a.source : a \in {b \in attempts : b.result \in {"used", "rejected"}}}
RecordSaysWhoPaid ==
    \A i \in DOMAIN records, j \in DOMAIN sent :
        /\ Billed(records[i].considered) = {sent[j].secret} \ {"none"}
        /\ records[i].origin =
               IF sent[j].secret = "env" THEN "fallback_server" ELSE sent[j].secret

=============================================================================
