-------------------------- MODULE AlgorithmsProofs ---------------------------
(***************************************************************************)
(* Proofs about the pure parts, each for every input its operators take,   *)
(* and about the price table that lives on once a question is answered.    *)
(***************************************************************************)
EXTENDS MCAlgorithms, BillingProofs, SequenceTheorems, FiniteSetTheorems, TLAPS

\* PricesCurrent, for any workers, refreshes, restarts and upgrades.
THEOREM TableIsCurrent == Spec => []PricesCurrent
<1>1. Init => PricesInv
    BY PricesInvInit DEF Init
<1>2. PricesInv /\ [Next]_algorithmVars => PricesInv'
    BY PricesInvNext DEF Next, Ask, Answer, TableMoves, algorithmVars
<1>3. PricesInv => PricesCurrent
    BY DEF PricesInv
<1> QED
    BY <1>1, <1>2, <1>3, PTL DEF Spec

-----------------------------------------------------------------------------
(* the edge: who is metered *)

\* The proxy in front of the gateway has taken the mount path off.
AtTheRoot(cfg, req) == E!StripBasePath(req.path, cfg.base) = req.path

\* A segment of a path is not blank.
NamedPlainly(req) == LET token == E!ParseIdentityPath(req.path).token
                     IN  token = NULL \/ token # "blank"

\* The token a request is taken to ask with is the one with the best claim.
LEMMA TokenIsBestClaim ==
    ASSUME NEW cfg, NEW req, AtTheRoot(cfg, req), NamedPlainly(req)
    PROVE  E!DetectInbound(req.path, req).token = E!BestClaim(cfg, req)
<1> DEFINE token == E!ParseIdentityPath(req.path).token
<1>1. E!DetectInbound(req.path, req).token =
        IF token # NULL THEN token
        ELSE IF E!Given(req.fest) THEN req.fest ELSE E!TokenFromAuthHeader(req)
    BY DEF E!DetectInbound, E!Carrier
<1>2. E!BestClaim(cfg, req) =
        IF E!Given(token) THEN token
        ELSE IF E!Given(req.fest) THEN req.fest ELSE E!TokenFromAuthHeader(req)
    BY DEF E!BestClaim, AtTheRoot
<1>3. E!Given(token) <=> token # NULL
    BY DEF E!Given, NamedPlainly
<1> QED
    BY <1>1, <1>2, <1>3

MeteredWith(cfg, req, answer) ==
    answer.kind = "sent" /\ answer.metered =>
        ~E!Denied(E!DetectInbound(req.path, req), cfg.require)

\* The relay looks at the request itself, whichever mount it is called from.
LEMMA RelayMeters ==
    ASSUME NEW cfg, NEW req, NEW host, NEW override, NEW wire
    PROVE  MeteredWith(cfg, req, E!HandleMessages(cfg, req, host, override, wire))
BY DEF MeteredWith, E!HandleMessages, E!Refused, E!Answered

\* Nothing else meters.
LEMMA OthersMeterNothing ==
    ASSUME NEW cfg, NEW req, NEW host, NEW path
    PROVE  /\ MeteredWith(cfg, req, E!HandleCountTokens(req, host, path))
           /\ MeteredWith(cfg, req, E!HandleCodexModels(req, host, path))
           /\ MeteredWith(cfg, req, E!Relay(req, host, path))
           /\ MeteredWith(cfg, req, E!RefuseDisabled)
           /\ \A status, retry : MeteredWith(cfg, req, E!Answered(status, retry))
BY DEF MeteredWith, E!HandleCountTokens, E!HandleCodexModels, E!Relay, E!RefuseDisabled,
       E!SentTo, E!Refused, E!Answered

LEMMA MountsMeter ==
    ASSUME NEW cfg, NEW req, NEW rest, NEW mount
    PROVE  /\ MeteredWith(cfg, req, E!HandleCopilot(cfg, req, rest))
           /\ MeteredWith(cfg, req, E!HandleCodex(cfg, req, mount, rest))
           /\ MeteredWith(cfg, req, E!HandleBedrock(cfg, req, rest))
<1>1. MeteredWith(cfg, req, E!HandleCopilot(cfg, req, rest))
    <2>1. \A host, path : /\ MeteredWith(cfg, req, E!HandleMessages(cfg, req, host, path, "copilot"))
                          /\ MeteredWith(cfg, req, E!Relay(req, host, path))
        BY RelayMeters, OthersMeterNothing
    <2>2. MeteredWith(cfg, req, E!RefuseDisabled) /\ \A status : MeteredWith(cfg, req, E!Refused(status))
        BY OthersMeterNothing DEF E!Refused
    <2> QED
        BY <2>1, <2>2 DEF E!HandleCopilot
<1>2. MeteredWith(cfg, req, E!HandleCodex(cfg, req, mount, rest))
    BY RelayMeters, OthersMeterNothing, ZenonT(60) DEF E!HandleCodex
<1>3. MeteredWith(cfg, req, E!HandleBedrock(cfg, req, rest))
    BY RelayMeters, OthersMeterNothing, ZenonT(60) DEF E!HandleBedrock
<1> QED
    BY <1>1, <1>2, <1>3

LEMMA HandleMeters ==
    ASSUME NEW cfg, NEW req
    PROVE  MeteredWith(cfg, req, E!Handle(cfg, req))
<1> DEFINE path == E!ParseIdentityPath(E!StripBasePath(req.path, cfg.base)).remainder
           own == E!OwnAnswer(cfg, req, path)
           mounted == E!OfMount(cfg, req, path)
           anthropic == E!AnthropicPath(cfg, req, path)
           last == E!LastResort(cfg, req, path)
<1>1. E!Handle(cfg, req) = IF own # E!NotMine THEN own ELSE IF mounted # E!NotMine THEN mounted
                           ELSE IF anthropic # E!NotMine THEN anthropic ELSE last
    BY DEF E!Handle
<1> HIDE DEF path
<1>2. own # E!NotMine => MeteredWith(cfg, req, own)
    <2>1. \A status : /\ MeteredWith(cfg, req, E!Refused(status))
                      /\ MeteredWith(cfg, req, E!Answered(status, NULL))
        BY OthersMeterNothing DEF E!Refused
    <2>2. MeteredWith(cfg, req, [kind |-> "dashboard"])
        BY DEF MeteredWith
    <2> QED
        BY <2>1, <2>2 DEF E!OwnAnswer
<1>3. mounted # E!NotMine => MeteredWith(cfg, req, mounted)
    BY MountsMeter, OthersMeterNothing DEF E!OfMount
<1>4. anthropic # E!NotMine => MeteredWith(cfg, req, anthropic)
    <2>1. \A host, p : /\ MeteredWith(cfg, req, E!HandleMessages(cfg, req, host, NULL, "anthropic"))
                       /\ MeteredWith(cfg, req, E!HandleCountTokens(req, host, p))
        BY RelayMeters, OthersMeterNothing
    <2>2. \A inbound, model :
             MeteredWith(cfg, req, [kind |-> "dispatched", inbound |-> inbound, model |-> model])
        BY DEF MeteredWith
    <2> QED
        BY <2>1, <2>2 DEF E!AnthropicPath
<1>5. MeteredWith(cfg, req, last)
    BY OthersMeterNothing, ZenonT(60) DEF E!LastResort
<1> QED
    BY <1>1, <1>2, <1>3, <1>4, <1>5

\* A token that does not resolve never passes for none, whatever the request and
\* however the gateway is configured, when it is asked at its root: see Gateway.
THEOREM MetersWhoAsked ==
    ASSUME NEW cfg, NEW req, AtTheRoot(cfg, req), NamedPlainly(req)
    PROVE  E!MeteredByWhoAsked(cfg, req)
<1>1. MeteredWith(cfg, req, E!Handle(cfg, req))
    BY HandleMeters
<1>2. E!DetectInbound(req.path, req).token = E!BestClaim(cfg, req)
    BY TokenIsBestClaim
<1> QED
    BY <1>1, <1>2 DEF E!MeteredByWhoAsked, MeteredWith, E!Denied

-----------------------------------------------------------------------------
(* the edge: where a request is sent *)

MountOf(asked) == IF asked # <<>> /\ Head(asked) \in E!Mounts THEN Head(asked) ELSE "anthropic"

\* What SentWhereTheUrlSays says of an answer to what the URL asks.
Sent1(cfg, req, asked, answer) ==
    /\ answer.kind = "answered" => ~E!Retried(answer)
    /\ answer.kind = "dispatched" => MountOf(asked) = "anthropic"
    /\ answer.kind = "sent" =>
          /\ answer.path = CASE MountOf(asked) \in {"anthropic", "mcp"} -> asked
                             [] MountOf(asked) = "copilot" -> E!Rest(asked, 2)
                             [] OTHER -> Tail(asked)
          /\ answer.host = IF MountOf(asked) = "copilot"
                           THEN <<cfg.hosts.copilot, asked[2]>> ELSE cfg.hosts[MountOf(asked)]
          /\ E!ReplyReadable(MountOf(asked), answer)
          /\ E!CredentialsKeptApart(req, answer)

\* The wire that a mount's answers come back on.
WireOf(mount, metered) ==
    IF mount \in {"openai", "chatgpt"} THEN IF metered THEN "codex" ELSE "codex models"
    ELSE IF mount \in {"copilot", "mcp"} THEN "copilot"
    ELSE IF metered THEN "anthropic" ELSE "count_tokens"

\* What comes back on the mount's wire is readable.
LEMMA EveryReplyReadable ==
    ASSUME NEW mount, NEW answer, answer.metered \in BOOLEAN,
           answer.wire = WireOf(mount, answer.metered)
    PROVE  E!ReplyReadable(mount, answer)
<1> DEFINE wire == answer.wire
           metered == answer.metered
           read == E!ReadBy(mount, metered)
           hidden == E!Secret \cup E!HopByHop \cup {"content-encoding", "content-length"}
           listed == {"content-type", "request-id", "anthropic-request-id", "retry-after"}
<1>1. SUFFICES ASSUME NEW names, NEW stream \in BOOLEAN
               PROVE  LET reply == DOMAIN E!ReplyHeaders(wire, names, stream)
                      IN  /\ names \cap read \subseteq reply
                          /\ "content-type" \in reply
                          /\ reply \cap hidden = {}
    BY DEF E!ReplyReadable
<1> DEFINE allowed == E!DownstreamAllow(wire, names)
           kept == (names \ hidden) \cap (E!Quota \cup listed \cup allowed)
           set == (IF "content-type" \in kept THEN {} ELSE {"content-type"}) \cup
                  (IF stream THEN {"cache-control", "x-accel-buffering"} ELSE {})
<1>2. {"content-type", "cache-control", "x-accel-buffering"} \cap hidden = {}
    BY DEF E!Secret, E!HopByHop
<1>3. (E!Quota \cup E!CodexAllow \cup {"mcp-session-id", "etag"}) \cap hidden = {}
    BY DEF E!Quota, E!CodexAllow, E!Secret, E!HopByHop
<1>4. CASE wire = "count_tokens"
    <2>1. read = {}
        BY <1>4 DEF E!ReadBy, WireOf
    <2>2. DOMAIN E!ReplyHeaders(wire, names, stream) = {"content-type"}
        BY <1>4 DEF E!ReplyHeaders
    <2> QED
        BY <1>2, <2>1, <2>2
<1>5. CASE wire # "count_tokens"
    <2>1. DOMAIN E!ReplyHeaders(wire, names, stream) = kept \cup set
        BY <1>5 DEF E!ReplyHeaders, E!BuildDownstreamHeaders
    <2>2. /\ mount \in {"openai", "chatgpt"} =>
                allowed = E!CodexAllow \cup (IF metered THEN {} ELSE {"etag"})
          /\ mount \in {"copilot", "mcp"} => allowed = names
        BY DEF E!DownstreamAllow, WireOf
    <2>3. /\ mount \in {"openai", "chatgpt"} =>
                read \subseteq E!Quota \cup E!CodexAllow \cup (IF metered THEN {} ELSE {"etag"})
          /\ mount \in {"copilot", "mcp"} =>
                read \subseteq E!Quota \cup E!CodexAllow \cup {"mcp-session-id"}
          /\ mount \notin {"openai", "chatgpt", "copilot", "mcp"} => read \subseteq E!Quota
        BY DEF E!ReadBy
    <2> HIDE DEF allowed, read, hidden, wire, metered
    <2>4. read \cap hidden = {} /\ names \cap read \subseteq E!Quota \cup listed \cup allowed
        BY <1>3, <2>2, <2>3
    <2> QED
        BY <1>2, <2>1, <2>4
<1> QED
    BY <1>4, <1>5

\* The two credential positions go on as they came; the gateway's own headers never do.
LEMMA HeadersSent ==
    ASSUME NEW req, NEW version
    PROVE  LET headers == E!BuildUpstreamHeaders(E!InboundHeaders(req), version)
           IN  /\ DOMAIN headers \cap E!FestHeaders = {}
               /\ \A name \in E!Credentials :
                     /\ name \in DOMAIN headers <=> E!ValueOf(req, name) # NULL
                     /\ name \in DOMAIN headers => headers[name] = E!ValueOf(req, name)
<1> DEFINE inbound == E!InboundHeaders(req)
           made == {"host", "accept-encoding"} \cup
                   (IF version /\ "anthropic-version" \notin DOMAIN inbound
                    THEN {"anthropic-version"} ELSE {})
           kept == DOMAIN inbound \ (E!HopByHop \cup E!FestHeaders \cup {"content-length"})
           headers == E!BuildUpstreamHeaders(inbound, version)
<1>1. /\ \A name \in E!Credentials : name \in DOMAIN inbound <=> E!ValueOf(req, name) # NULL
      /\ \A name \in DOMAIN inbound : inbound[name] = E!ValueOf(req, name)
    BY DEF E!InboundHeaders
<1>2. /\ made \cap E!FestHeaders = {} /\ made \cap E!Credentials = {}
      /\ E!Credentials \cap (E!HopByHop \cup E!FestHeaders \cup {"content-length"}) = {}
    BY DEF E!FestHeaders, E!Credentials, E!HopByHop
<1> HIDE DEF inbound
<1>3. headers = [name \in kept \cup made |-> IF name \in made THEN "gateway" ELSE inbound[name]]
    BY DEF E!BuildUpstreamHeaders
<1> HIDE DEF headers, made
<1>4. DOMAIN headers \cap E!FestHeaders = {}
    BY <1>2, <1>3
<1>5. \A name \in E!Credentials :
         /\ name \in DOMAIN headers <=> E!ValueOf(req, name) # NULL
         /\ name \in DOMAIN headers => headers[name] = E!ValueOf(req, name)
    BY <1>1, <1>2, <1>3
<1> QED
    BY <1>4, <1>5 DEF headers, inbound

\* Nothing is made of a request that would be held back for the token in it.
Payable(req) ==
    E!DetectInbound(req.path, req).credential # NULL
    \/ E!DetectInbound(req.path, req).carrier # "auth_header"

\* A token in a credential's place is carried there when nothing else is.
LEMMA TokenIsCarried ==
    ASSUME NEW req, NEW token \in {req.auth, req.key} \cap FestTokens, token # NULL,
           E!DetectInbound(req.path, req).credential = NULL
    PROVE  E!DetectInbound(req.path, req).carrier \in {"path", "header", "auth_header"}
<1>1. token # "blank"
    BY AlgorithmsAssumption
<1>2. E!UpstreamCredential(req) = NULL
    BY DEF E!DetectInbound
<1>3. ~(E!Given(req.auth) /\ req.auth \notin FestTokens)
    BY <1>2 DEF E!UpstreamCredential, E!Given
<1>4. E!Presented(req) \in FestTokens /\ E!Given(E!Presented(req))
    BY <1>1, <1>3 DEF E!Presented, E!Given
<1>5. E!TokenFromAuthHeader(req) # NULL
    BY <1>4 DEF E!TokenFromAuthHeader, E!Given
<1>6. \A fromPath : E!Carrier(fromPath, req) \in {"path", "header", "auth_header"}
    BY <1>5 DEF E!Carrier
<1> QED
    BY <1>6 DEF E!DetectInbound

LEMMA SentApart ==
    ASSUME NEW req, NEW version, NEW answer, answer.metered => Payable(req),
           answer.headers = E!BuildUpstreamHeaders(E!InboundHeaders(req), version)
    PROVE  E!CredentialsKeptApart(req, answer)
<1> DEFINE inbound == E!DetectInbound(req.path, req)
           sent == E!CredentialsSent(answer)
<1>1. /\ DOMAIN answer.headers \cap E!FestHeaders = {}
      /\ \A name \in E!Credentials :
            /\ name \in DOMAIN answer.headers <=> E!ValueOf(req, name) # NULL
            /\ name \in DOMAIN answer.headers => answer.headers[name] = E!ValueOf(req, name)
    BY HeadersSent
<1>2. E!ValueOf(req, "authorization") = req.auth /\ E!ValueOf(req, "x-api-key") = req.key
    BY DEF E!ValueOf
<1>3. sent = {req.auth, req.key} \ {NULL}
    BY <1>1, <1>2 DEF E!CredentialsSent, E!Credentials
<1>4. inbound.credential \in {req.auth, req.key, NULL}
    BY DEF E!DetectInbound, E!UpstreamCredential
<1>5. ASSUME answer.metered, NEW token \in sent \cap FestTokens, inbound.credential = NULL
      PROVE  inbound.carrier \in {"path", "header"}
    <2>1. inbound.carrier \in {"path", "header", "auth_header"}
        BY <1>3, <1>5, TokenIsCarried
    <2>2. inbound.carrier # "auth_header"
        BY <1>5 DEF Payable
    <2> QED
        BY <2>1, <2>2
<1> HIDE DEF inbound, sent
<1>6. /\ sent \subseteq {req.auth, req.key} \ {NULL} /\ inbound.credential \in sent \cup {NULL}
      /\ answer.metered /\ sent \cap FestTokens # {} =>
            inbound.credential # NULL \/ inbound.carrier \in {"path", "header"}
    BY <1>3, <1>4, <1>5
<1> QED
    BY <1>1, <1>6 DEF E!CredentialsKeptApart, inbound, sent

NoValue == NULL \notin {"individual", "business", "enterprise", "x-should-retry: false"}

\* The relay sends to the host it is given, on the mount's wire, and what it answers itself
\* it answers for good.
Safe(req, answer, host, path, mount) ==
    /\ answer.kind \in {"answered", "sent"}
    /\ answer.kind = "answered" => ~E!Retried(answer)
    /\ answer.kind = "sent" => /\ answer.path = path /\ answer.host = host
                               /\ answer.metered \in BOOLEAN
                               /\ answer.wire = WireOf(mount, answer.metered)
                               /\ E!CredentialsKeptApart(req, answer)

LEMMA RefusalIsFinal ==
    ASSUME NEW req, NEW host, NEW path, NEW mount, NEW status, NoValue
    PROVE  Safe(req, E!Refused(status), host, path, mount)
<1>1. "x-should-retry: false" # NULL
    BY DEF NoValue
<1> QED
    BY <1>1 DEF Safe, E!Refused, E!Answered, E!Retried

LEMMA AnswerIsFinal ==
    ASSUME NEW req, NEW host, NEW path, NEW mount, NEW status \in {200, 400, 404, 413}
    PROVE  Safe(req, E!Answered(status, NULL), host, path, mount)
BY DEF Safe, E!Answered, E!Retried

LEMMA SentIsSafe ==
    ASSUME NEW req, NEW host, NEW path, NEW mount, NEW answer, NEW version,
           answer.kind = "sent", answer.path = path, answer.host = host,
           answer.metered \in BOOLEAN, answer.wire = WireOf(mount, answer.metered),
           answer.metered => Payable(req),
           answer.headers = E!BuildUpstreamHeaders(E!InboundHeaders(req), version)
    PROVE  Safe(req, answer, host, path, mount)
<1>1. E!CredentialsKeptApart(req, answer)
    BY SentApart
<1> QED
    BY <1>1 DEF Safe

\* Without a mount's own path the relay reads the request's again.
LEMMA MessagesGoSafely ==
    ASSUME NEW cfg, NEW req, NEW host, NEW override, NEW mount, NEW wire, wire = WireOf(mount, TRUE),
           NoValue
    PROVE  Safe(req, E!HandleMessages(cfg, req, host, override, wire), host,
                IF override = NULL THEN E!DetectInbound(req.path, req).path ELSE override, mount)
<1> DEFINE path == IF override = NULL THEN E!DetectInbound(req.path, req).path ELSE override
           inbound == E!DetectInbound(req.path, req)
           version == wire = "anthropic"
           headers == E!BuildUpstreamHeaders(E!InboundHeaders(req), version)
           sent == E!SentTo(host, path, headers, wire, TRUE)
           answer == E!HandleMessages(cfg, req, host, override, wire)
<1>1. /\ Safe(req, E!Refused(400), host, path, mount)
      /\ Safe(req, E!Refused(401), host, path, mount)
      /\ Safe(req, E!Answered(400, NULL), host, path, mount)
    <2> HIDE DEF path
    <2> QED
        BY RefusalIsFinal, AnswerIsFinal
<1>2. Payable(req) => Safe(req, sent, host, path, mount)
    <2> HIDE DEF path, headers
    <2>1. /\ sent.kind = "sent" /\ sent.path = path /\ sent.host = host
          /\ sent.metered = TRUE /\ sent.wire = WireOf(mount, TRUE)
          /\ sent.headers = headers
        BY DEF E!SentTo
    <2>2. sent.metered \in BOOLEAN /\ sent.wire = WireOf(mount, sent.metered)
        BY <2>1 DEF WireOf
    <2> HIDE DEF sent, version
    <2> QED
        BY <2>1, <2>2, SentIsSafe DEF headers
<1>3. answer = CASE E!Denied(inbound, cfg.require) -> E!Refused(401)
                 [] ~E!Denied(inbound, cfg.require) /\ E!TooLarge(req) -> E!Answered(400, NULL)
                 [] OTHER -> IF inbound.credential = NULL /\ inbound.carrier = "auth_header"
                             THEN E!Refused(400) ELSE sent
    BY Zenon DEF E!HandleMessages
<1> HIDE DEF sent, answer
<1>4. \/ answer = E!Refused(400) \/ answer = E!Refused(401) \/ answer = E!Answered(400, NULL)
      \/ Payable(req) /\ answer = sent
    BY <1>3 DEF Payable
<1> HIDE DEF path
<1>5. Safe(req, answer, host, path, mount)
    BY <1>1, <1>2, <1>4
<1> QED
    BY <1>5 DEF answer, path

LEMMA UnmeteredIsSafe ==
    ASSUME NEW req, NEW host, NEW path, NEW mount, NEW version, NEW wire, wire = WireOf(mount, FALSE)
    PROVE  Safe(req, E!SentTo(host, path, E!BuildUpstreamHeaders(E!InboundHeaders(req), version),
                              wire, FALSE), host, path, mount)
<1> DEFINE headers == E!BuildUpstreamHeaders(E!InboundHeaders(req), version)
           sent == E!SentTo(host, path, headers, wire, FALSE)
<1> HIDE DEF headers
<1>1. /\ sent.kind = "sent" /\ sent.path = path /\ sent.host = host
      /\ sent.metered = FALSE /\ sent.wire = WireOf(mount, FALSE)
      /\ sent.headers = headers
    BY DEF E!SentTo
<1>2. sent.metered \in BOOLEAN /\ sent.wire = WireOf(mount, sent.metered)
    BY <1>1 DEF WireOf
<1> HIDE DEF sent
<1>3. Safe(req, sent, host, path, mount)
    BY <1>1, <1>2, SentIsSafe DEF headers
<1> QED
    BY <1>3 DEF sent, headers

LEMMA OthersGoSafely ==
    ASSUME NEW req, NEW host, NEW path, NEW mount
    PROVE  /\ mount \notin {"openai", "chatgpt", "copilot", "mcp"} =>
                Safe(req, E!HandleCountTokens(req, host, path), host, path, mount)
           /\ mount \in {"openai", "chatgpt"} =>
                Safe(req, E!HandleCodexModels(req, host, path), host, path, mount)
           /\ mount \in {"copilot", "mcp"} => Safe(req, E!Relay(req, host, path), host, path, mount)
<1> DEFINE Unmetered(version, wire) ==
               E!SentTo(host, path, E!BuildUpstreamHeaders(E!InboundHeaders(req), version), wire, FALSE)
           yes == TRUE
           no == FALSE
<1>1. \A version : \A wire \in {WireOf(mount, FALSE)} :
         Safe(req, Unmetered(version, wire), host, path, mount)
    BY UnmeteredIsSafe
<1>2. /\ Safe(req, E!Answered(400, NULL), host, path, mount)
      /\ Safe(req, E!Answered(413, NULL), host, path, mount)
    BY AnswerIsFinal
<1>3. /\ E!HandleCountTokens(req, host, path)
             \in {E!Answered(400, NULL), Unmetered(yes, "count_tokens")}
      /\ E!HandleCodexModels(req, host, path) = Unmetered(no, "codex models")
      /\ E!Relay(req, host, path) \in {E!Answered(413, NULL), Unmetered(no, "copilot")}
    BY DEF E!HandleCountTokens, E!HandleCodexModels, E!Relay
<1>4. /\ mount \notin {"openai", "chatgpt", "copilot", "mcp"} => "count_tokens" = WireOf(mount, FALSE)
      /\ mount \in {"openai", "chatgpt"} => "codex models" = WireOf(mount, FALSE)
      /\ mount \in {"copilot", "mcp"} => "copilot" = WireOf(mount, FALSE)
    BY DEF WireOf
<1> HIDE DEF Unmetered, yes, no
<1>5. ASSUME NEW version, NEW wire, wire = WireOf(mount, FALSE)
      PROVE  Safe(req, Unmetered(version, wire), host, path, mount)
    BY <1>1, <1>5
<1>6. CASE mount \notin {"openai", "chatgpt", "copilot", "mcp"}
    <2>1. Safe(req, Unmetered(yes, "count_tokens"), host, path, mount)
        BY <1>4, <1>5, <1>6
    <2> QED
        BY <1>2, <1>3, <1>6, <2>1
<1>7. CASE mount \in {"openai", "chatgpt"}
    <2>1. Safe(req, Unmetered(no, "codex models"), host, path, mount)
        BY <1>4, <1>5, <1>7
    <2> QED
        BY <1>3, <1>7, <2>1
<1>8. CASE mount \in {"copilot", "mcp"}
    <2>1. Safe(req, Unmetered(no, "copilot"), host, path, mount)
        BY <1>4, <1>5, <1>8
    <2>2. Safe(req, E!Relay(req, host, path), host, path, mount)
        BY <1>2, <1>3, <2>1
    <2> QED
        BY <1>8, <2>2
<1> QED
    BY <1>6, <1>7, <1>8

AskedIs(cfg, req, asked, Parts) ==
    /\ AtTheRoot(cfg, req)
    /\ asked = E!Asked(cfg, req) /\ asked \in Seq(Parts)
    /\ NoValue /\ NULL \notin Seq(Parts)

\* What goes safely to the upstream of the mount, with its path and on its wire, is sent right.
LEMMA SafeIsRight ==
    ASSUME NEW cfg, NEW req, NEW asked, NEW answer, NEW host, NEW path,
           Safe(req, answer, host, path, MountOf(asked)),
           host = (IF MountOf(asked) = "copilot" THEN <<cfg.hosts.copilot, asked[2]>>
                   ELSE cfg.hosts[MountOf(asked)]),
           path = (CASE MountOf(asked) \in {"anthropic", "mcp"} -> asked
                     [] MountOf(asked) = "copilot" -> E!Rest(asked, 2)
                     [] OTHER -> Tail(asked))
    PROVE  Sent1(cfg, req, asked, answer)
<1>1. answer.kind = "sent" => E!ReplyReadable(MountOf(asked), answer)
    BY EveryReplyReadable DEF Safe
<1> QED
    BY <1>1 DEF Safe, Sent1

LEMMA FinalIsRight ==
    ASSUME NEW cfg, NEW req, NEW asked, NoValue
    PROVE  /\ \A status \in {200, 400, 404, 413} : Sent1(cfg, req, asked, E!Answered(status, NULL))
           /\ \A status : Sent1(cfg, req, asked, E!Refused(status))
           /\ Sent1(cfg, req, asked, E!RefuseDisabled)
<1>1. "x-should-retry: false" # NULL
    BY DEF NoValue
<1>2. \A status \in {200, 400, 404, 413} : Sent1(cfg, req, asked, E!Answered(status, NULL))
    BY DEF Sent1, E!Answered, E!Retried
<1>3. \A status : Sent1(cfg, req, asked, E!Refused(status))
    BY <1>1 DEF Sent1, E!Refused, E!Answered, E!Retried
<1>4. Sent1(cfg, req, asked, E!RefuseDisabled)
    BY <1>3 DEF E!RefuseDisabled
<1> QED
    BY <1>2, <1>3, <1>4

LEMMA CopilotGoesRight ==
    ASSUME NEW cfg, NEW req, NEW Parts, NEW asked, AskedIs(cfg, req, asked, Parts), E!Under("copilot", asked)
    PROVE  Sent1(cfg, req, asked, E!HandleCopilot(cfg, req, Tail(asked)))
<1> DEFINE rest == Tail(asked)
           plan == IF rest = <<>> THEN NULL ELSE Head(rest)
           host == E!CopilotUpstream(cfg.hosts.copilot, plan)
<1>1. asked \in Seq(Parts) /\ asked # <<>> /\ Head(asked) = "copilot"
    BY DEF AskedIs, E!Under
<1>2. MountOf(asked) = "copilot"
    BY <1>1 DEF MountOf, E!Mounts
<1>3. /\ Sent1(cfg, req, asked, E!RefuseDisabled) /\ Sent1(cfg, req, asked, E!Refused(404))
      /\ Sent1(cfg, req, asked, E!Refused(401))
    BY FinalIsRight DEF AskedIs
<1>4. ASSUME plan \in E!CopilotPlans
      PROVE  /\ Sent1(cfg, req, asked, E!Relay(req, host, Tail(rest)))
             /\ Sent1(cfg, req, asked, E!HandleMessages(cfg, req, host, Tail(rest), "copilot"))
    <2>1. rest # <<>>
        BY <1>4 DEF AskedIs, NoValue, E!CopilotPlans
    <2>2. rest \in Seq(Parts) /\ Head(rest) = asked[2]
        BY <1>1, <2>1
    <2>3. Tail(rest) \in Seq(Parts) /\ Tail(rest) = E!Rest(asked, 2)
        BY <1>1, <2>1 DEF E!Rest
    <2>4. host = <<cfg.hosts.copilot, asked[2]>>
        BY <2>1, <2>2 DEF E!CopilotUpstream
    <2> HIDE DEF host, rest
    <2>5. Safe(req, E!Relay(req, host, Tail(rest)), host, Tail(rest), "copilot")
        BY OthersGoSafely
    <2>6. Safe(req, E!HandleMessages(cfg, req, host, Tail(rest), "copilot"), host, Tail(rest), "copilot")
        BY <2>3, MessagesGoSafely DEF AskedIs, WireOf
    <2> QED
        BY <1>2, <2>3, <2>4, <2>5, <2>6, SafeIsRight
<1> QED
    BY <1>3, <1>4 DEF E!HandleCopilot

LEMMA CodexGoesRight ==
    ASSUME NEW cfg, NEW req, NEW Parts, NEW asked, AskedIs(cfg, req, asked, Parts),
           NEW mount \in {"openai", "chatgpt"}, E!Under(mount, asked)
    PROVE  Sent1(cfg, req, asked, E!HandleCodex(cfg, req, mount, Tail(asked)))
<1> DEFINE rest == Tail(asked)
           host == cfg.hosts[mount]
<1>1. asked \in Seq(Parts) /\ asked # <<>> /\ Head(asked) = mount
    BY DEF AskedIs, E!Under
<1>2. MountOf(asked) = mount
    BY <1>1 DEF MountOf, E!Mounts
<1>3. rest \in Seq(Parts)
    BY <1>1
<1> HIDE DEF rest
<1>4. Sent1(cfg, req, asked, E!RefuseDisabled) /\ Sent1(cfg, req, asked, E!Answered(404, NULL))
    BY FinalIsRight DEF AskedIs
<1>5. Safe(req, E!HandleMessages(cfg, req, host, rest, "codex"), host, rest, mount)
    BY <1>3, MessagesGoSafely DEF AskedIs, WireOf
<1>6. Safe(req, E!HandleCodexModels(req, host, rest), host, rest, mount)
    BY OthersGoSafely
<1>7. /\ Sent1(cfg, req, asked, E!HandleMessages(cfg, req, host, rest, "codex"))
      /\ Sent1(cfg, req, asked, E!HandleCodexModels(req, host, rest))
    BY <1>2, <1>5, <1>6, SafeIsRight DEF rest
<1>8. Sent1(cfg, req, asked, E!HandleCodex(cfg, req, mount, rest))
    BY <1>4, <1>7 DEF E!HandleCodex
<1> QED
    BY <1>8 DEF rest

LEMMA BedrockGoesRight ==
    ASSUME NEW cfg, NEW req, NEW Parts, NEW asked, AskedIs(cfg, req, asked, Parts), E!Under("bedrock", asked)
    PROVE  Sent1(cfg, req, asked, E!HandleBedrock(cfg, req, Tail(asked)))
<1> DEFINE rest == Tail(asked)
           host == cfg.hosts.bedrock
<1>1. asked \in Seq(Parts) /\ asked # <<>> /\ Head(asked) = "bedrock"
    BY DEF AskedIs, E!Under
<1>2. MountOf(asked) = "bedrock"
    BY <1>1 DEF MountOf, E!Mounts
<1>3. rest \in Seq(Parts)
    BY <1>1
<1> HIDE DEF rest
<1>4. Sent1(cfg, req, asked, E!RefuseDisabled) /\ Sent1(cfg, req, asked, E!Answered(404, NULL))
    BY FinalIsRight DEF AskedIs
<1>5. Safe(req, E!HandleMessages(cfg, req, host, rest, "anthropic"), host, rest, "bedrock")
    BY <1>3, MessagesGoSafely DEF AskedIs, WireOf
<1>6. Safe(req, E!HandleCountTokens(req, host, rest), host, rest, "bedrock")
    BY OthersGoSafely
<1>7. /\ Sent1(cfg, req, asked, E!HandleMessages(cfg, req, host, rest, "anthropic"))
      /\ Sent1(cfg, req, asked, E!HandleCountTokens(req, host, rest))
    BY <1>2, <1>5, <1>6, SafeIsRight DEF rest
<1>8. Sent1(cfg, req, asked, E!HandleBedrock(cfg, req, rest))
    BY <1>4, <1>7 DEF E!HandleBedrock
<1> QED
    BY <1>8 DEF rest

LEMMA AnthropicGoesRight ==
    ASSUME NEW cfg, NEW req, NEW Parts, NEW asked, AskedIs(cfg, req, asked, Parts),
           E!AnthropicPath(cfg, req, asked) # E!NotMine
    PROVE  Sent1(cfg, req, asked, E!AnthropicPath(cfg, req, asked))
<1> DEFINE host == cfg.hosts.anthropic
<1>1. asked = <<"v1", "messages", "count_tokens">> \/ asked = <<"v1", "messages">>
    BY DEF E!AnthropicPath
<1>2. MountOf(asked) = "anthropic"
    BY <1>1 DEF MountOf, E!Mounts
<1>3. Safe(req, E!HandleCountTokens(req, host, asked), host, asked, "anthropic")
    BY OthersGoSafely
<1>4. E!DetectInbound(req.path, req).path = asked
    BY DEF AskedIs, AtTheRoot, E!Asked, E!DetectInbound
<1>5. Safe(req, E!HandleMessages(cfg, req, host, NULL, "anthropic"), host, asked, "anthropic")
    BY <1>4, MessagesGoSafely DEF AskedIs, WireOf
<1>6. /\ Sent1(cfg, req, asked, E!HandleCountTokens(req, host, asked))
      /\ Sent1(cfg, req, asked, E!HandleMessages(cfg, req, host, NULL, "anthropic"))
    BY <1>2, <1>3, <1>5, SafeIsRight
<1>7. \A inbound, model :
         Sent1(cfg, req, asked, [kind |-> "dispatched", inbound |-> inbound, model |-> model])
    BY <1>2 DEF Sent1
<1> QED
    BY <1>6, <1>7 DEF E!AnthropicPath

LEMMA HandleGoesRight ==
    ASSUME NEW cfg, NEW req, NEW Parts, NEW asked, AskedIs(cfg, req, asked, Parts)
    PROVE  Sent1(cfg, req, asked, E!Handle(cfg, req))
<1> DEFINE own == E!OwnAnswer(cfg, req, asked)
           mounted == E!OfMount(cfg, req, asked)
           anthropic == E!AnthropicPath(cfg, req, asked)
           last == E!LastResort(cfg, req, asked)
<1>1. E!Handle(cfg, req) = IF own # E!NotMine THEN own ELSE IF mounted # E!NotMine THEN mounted
                           ELSE IF anthropic # E!NotMine THEN anthropic ELSE last
    BY DEF E!Handle, AskedIs, E!Asked
<1>2. /\ Sent1(cfg, req, asked, E!Answered(200, NULL)) /\ Sent1(cfg, req, asked, E!Answered(404, NULL))
      /\ Sent1(cfg, req, asked, E!Refused(404)) /\ Sent1(cfg, req, asked, E!RefuseDisabled)
    BY FinalIsRight DEF AskedIs
<1>3. Sent1(cfg, req, asked, [kind |-> "dashboard"])
    BY DEF Sent1
<1>4. own # E!NotMine => Sent1(cfg, req, asked, own)
    BY <1>2, <1>3 DEF E!OwnAnswer
<1>5. mounted # E!NotMine => Sent1(cfg, req, asked, mounted)
    <2>1. E!Under("mcp", asked) => Sent1(cfg, req, asked, E!Relay(req, cfg.hosts.mcp, asked))
        <3> SUFFICES ASSUME E!Under("mcp", asked)
                     PROVE  Sent1(cfg, req, asked, E!Relay(req, cfg.hosts.mcp, asked))
            OBVIOUS
        <3>1. MountOf(asked) = "mcp"
            BY DEF MountOf, E!Mounts, E!Under
        <3>2. Safe(req, E!Relay(req, cfg.hosts.mcp, asked), cfg.hosts.mcp, asked, "mcp")
            BY OthersGoSafely
        <3> QED
            BY <3>1, <3>2, SafeIsRight
    <2>2. /\ E!Under("copilot", asked) => Sent1(cfg, req, asked, E!HandleCopilot(cfg, req, Tail(asked)))
          /\ E!Under("openai", asked) => Sent1(cfg, req, asked, E!HandleCodex(cfg, req, "openai", Tail(asked)))
          /\ E!Under("chatgpt", asked) => Sent1(cfg, req, asked, E!HandleCodex(cfg, req, "chatgpt", Tail(asked)))
          /\ E!Under("bedrock", asked) => Sent1(cfg, req, asked, E!HandleBedrock(cfg, req, Tail(asked)))
        BY CopilotGoesRight, CodexGoesRight, BedrockGoesRight
    <2> QED
        BY <2>1, <2>2 DEF E!OfMount
<1>6. anthropic # E!NotMine => Sent1(cfg, req, asked, anthropic)
    BY AnthropicGoesRight
<1>7. Sent1(cfg, req, asked, last)
    BY <1>2 DEF E!LastResort
<1> HIDE DEF own, mounted, anthropic, last
<1> QED
    BY <1>1, <1>4, <1>5, <1>6, <1>7

\* What is left of a path once its first segments are off it.
LEMMA RestOfPath ==
    ASSUME NEW Parts, NEW path \in Seq(Parts), NEW n \in Nat
    PROVE  /\ E!ToSet(E!Rest(path, n)) \subseteq {path[i] : i \in 1..Len(path)}
           /\ path # <<>> => Tail(path) = E!Rest(path, 1)
<1>1. ASSUME NEW i \in 1..Len(E!Rest(path, n))
      PROVE  i + n \in 1..Len(path) /\ E!Rest(path, n)[i] = path[i + n]
    BY <1>1 DEF E!Rest
<1>2. E!Rest(path, n) \in Seq(Parts)
    BY DEF E!Rest
<1>3. E!ToSet(E!Rest(path, n)) \subseteq {path[i] : i \in 1..Len(path)}
    BY <1>1, <1>2 DEF E!ToSet
<1> QED
    BY <1>3 DEF E!Rest

(***************************************************************************)
(* SentWhereTheUrlSays, of every request of every gateway: asked at its    *)
(* root for a path that holds no token and no tags beyond the ones that    *)
(* come off it, it sends it where the URL says and nowhere else.           *)
(***************************************************************************)
THEOREM GoesWhereTheUrlSays ==
    ASSUME NEW cfg, NEW req, NEW Parts, NEW asked, AskedIs(cfg, req, asked, Parts),
           \A i \in 1..Len(asked) : asked[i] \notin TagSegments \cup FestTokens
    PROVE  E!SentWhereTheUrlSays(cfg, req)
<1> DEFINE answer == E!Handle(cfg, req)
<1>1. Sent1(cfg, req, asked, answer)
    BY HandleGoesRight
<1> HIDE DEF answer
<1>2. ASSUME answer.kind = "sent"
      PROVE  E!ToSet(answer.path) \cap (TagSegments \cup FestTokens) = {}
    <2>1. asked \in Seq(Parts)
        BY DEF AskedIs
    <2>2. \A n \in Nat : E!ToSet(E!Rest(asked, n)) \subseteq {asked[i] : i \in 1..Len(asked)}
        BY <2>1, RestOfPath
    <2>3. asked # <<>> => E!ToSet(Tail(asked)) \subseteq {asked[i] : i \in 1..Len(asked)}
        BY <2>1, <2>2, RestOfPath
    <2>4. E!ToSet(asked) \subseteq {asked[i] : i \in 1..Len(asked)}
        BY <2>1 DEF E!ToSet
    <2>5. \/ answer.path = asked \/ answer.path = E!Rest(asked, 2)
          \/ asked # <<>> /\ answer.path = Tail(asked)
        BY <1>1, <1>2 DEF Sent1, MountOf
    <2>6. E!ToSet(answer.path) \subseteq {asked[i] : i \in 1..Len(asked)}
        BY <2>2, <2>3, <2>4, <2>5
    <2> QED
        BY <2>6
<1>3. asked = E!Asked(cfg, req)
    BY DEF AskedIs
<1>4. answer = E!Handle(cfg, req)
    BY DEF answer
<1> QED
    BY <1>1, <1>2, <1>3, <1>4 DEF Sent1, MountOf, E!SentWhereTheUrlSays

-----------------------------------------------------------------------------
(* a step asks one question of its topic, or leaves the question *)

LEMMA QuestionsOfTopics ==
    /\ AskStream => call'.of = "stream"
    /\ AskReports => call'.of = "reports"
    /\ AskPrice => call'.of = "price"
    /\ AskRoutes => call'.of = "routes"
    /\ AskTags => call'.of = "tags"
    /\ AskSession => call'.of = "session"
    /\ AskLaunch => call'.of = "launch"
    /\ AskPlan => call'.of = "plan"
    /\ AskBooks => call'.of = "books"
<1>1. AskStream => call'.of = "stream"
    BY DEF AskStream
<1>2. AskReports => call'.of = "reports"
    <2> SUFFICES ASSUME AskReports PROVE call'.of = "reports"
        OBVIOUS
    <2>1. PICK wire, events : call' = [of |-> "reports", wire |-> wire, events |-> events]
        BY Zenon DEF AskReports, AskTwoReports, AskOneReport, Said
    <2> QED
        BY <2>1
<1>3. AskPrice => call'.of = "price"
    BY DEF AskPrice, PriceOf
<1>4. AskRoutes => call'.of = "routes"
    BY DEF AskRoutes
<1>5. AskTags => call'.of = "tags"
    BY DEF AskTags
<1>6. AskSession => call'.of = "session"
    <2> SUFFICES ASSUME AskSession PROVE call'.of = "session"
        OBVIOUS
    <2>1. PICK argv, header, world : call' = [of |-> "session", argv |-> argv, header |-> header, world |-> world]
        BY Zenon DEF AskSession
    <2> QED
        BY <2>1
<1>7. AskLaunch => call'.of = "launch"
    <2>1. \A start, token : Launched(start, token) => call'.of = "launch"
        BY DEF Launched
    <2>2. ASSUME NEW env, NEW tags, NEW token
          PROVE  /\ AskClaude(env, tags, token) => \E start : Launched(start, token)
                 /\ AskCopilot(env, tags, token) => \E start : Launched(start, token)
                 /\ AskCodex(env, tags, token) => \E start : Launched(start, token)
        BY Zenon DEF AskClaude, AskCopilot, AskCodex
    <2>3. AskLaunch => \E env, tags, token : AskClaude(env, tags, token) \/ AskCopilot(env, tags, token)
                                            \/ AskCodex(env, tags, token)
        BY Zenon DEF AskLaunch
    <2> QED
        BY <2>1, <2>2, <2>3
<1>8. AskPlan => call'.of = "plan"
    <2> SUFFICES ASSUME AskPlan PROVE call'.of = "plan"
        OBVIOUS
    <2>1. PICK adapter, doc, req : call' = [of |-> "plan", adapter |-> adapter, doc |-> doc, req |-> req]
        BY Zenon DEF AskPlan
    <2> QED
        BY <2>1
<1>9. AskBooks => call'.of = "books"
    BY DEF AskBooks
<1> QED
    BY <1>1, <1>2, <1>3, <1>4, <1>5, <1>6, <1>7, <1>8, <1>9

LEMMA OneQuestion ==
    ASSUME [Next]_algorithmVars
    PROVE  AskEdge \/ AskView \/ call'.of \notin {"edge", "view"} \/ UNCHANGED call
<1>1. Ask => AskEdge \/ AskView \/ call'.of \notin {"edge", "view"}
    BY QuestionsOfTopics DEF Ask
<1>2. Answer => call'.of \notin {"edge", "view"}
    BY DEF Answer, Idle
<1> QED
    BY <1>1, <1>2 DEF Next, TableMoves, algorithmVars

-----------------------------------------------------------------------------
(* the same of every request the questions ask *)

Words == Segments \cup {"t", "good", "dead", "fest", "~t"}

\* A request of the edge names who asks and then a path of segments, and is
\* asked at the root.
EdgeAsked ==
    call.of = "edge" =>
        /\ call.cfg.base \in {<<>>, <<"gw">>}
        /\ \E prefix \in Identities : \E path \in Seq(Segments) : call.req.path = prefix \o path

LEMMA RemaindersOfSegments ==
    ASSUME NEW path \in Remainders \cup {<<"copilot", "business", "chat", "completions">>}
    PROVE  path \in Seq(Segments)
<1> DEFINE InSegments(p) == p \in Seq(Segments)
<1>1. /\ InSegments(<<>>)
      /\ \A a \in Segments : InSegments(<<a>>)
      /\ \A a, b \in Segments : InSegments(<<a, b>>)
      /\ \A a, b, c \in Segments : InSegments(<<a, b, c>>)
      /\ \A a, b, c, d \in Segments : InSegments(<<a, b, c, d>>)
      /\ \A a, b, c, d, e \in Segments : InSegments(<<a, b, c, d, e>>)
    OBVIOUS
<1>2. {"healthz", "api", "keys", "_admin", "usage", "users", "7", "_debug", "slow-stream", "v1",
       "models", "messages", "count_tokens", "copilot", "other", "business", "individual", "responses",
       "r1", "mcp", "x", "openai", "chatgpt", "backend-api", "codex", "bedrock", "chat", "completions"} \subseteq Segments
    BY DEF Segments
<1> HIDE DEF InSegments
<1>3. /\ InSegments(<<>>) /\ InSegments(<<"healthz">>) /\ InSegments(<<"api">>)
      /\ InSegments(<<"api", "keys">>) /\ InSegments(<<"_admin", "usage">>)
      /\ InSegments(<<"users", "7">>) /\ InSegments(<<"_debug", "slow-stream">>)
      /\ InSegments(<<"v1", "models">>) /\ InSegments(<<"v1", "messages">>)
      /\ InSegments(<<"v1", "messages", "count_tokens">>) /\ InSegments(<<"copilot">>)
      /\ InSegments(<<"copilot", "other", "v1">>)
      /\ InSegments(<<"copilot", "business", "v1", "messages">>)
      /\ InSegments(<<"copilot", "business", "models">>)
      /\ InSegments(<<"copilot", "individual", "responses", "r1">>) /\ InSegments(<<"mcp", "x">>)
      /\ InSegments(<<"openai", "v1", "responses">>) /\ InSegments(<<"openai", "v1", "models">>)
      /\ InSegments(<<"chatgpt", "backend-api", "codex", "responses", "r1">>)
      /\ InSegments(<<"chatgpt", "v1", "models">>) /\ InSegments(<<"bedrock", "v1", "messages">>)
      /\ InSegments(<<"bedrock", "v1", "messages", "count_tokens">>)
      /\ InSegments(<<"bedrock", "v1">>)
      /\ InSegments(<<"copilot", "business", "chat", "completions">>)
    BY <1>1, <1>2
<1>4. InSegments(path)
    BY <1>3, Zenon DEF Remainders
<1> QED
    BY <1>4 DEF InSegments

LEMMA AfterPrefix ==
    ASSUME NEW Parts, NEW prefix \in Seq(Parts), NEW path \in Seq(Parts)
    PROVE  /\ prefix \o path \in Seq(Parts)
           /\ Len(prefix \o path) = Len(prefix) + Len(path)
           /\ \A i \in 1..Len(prefix) : (prefix \o path)[i] = prefix[i]
           /\ E!Rest(prefix \o path, Len(prefix)) = path
<1>1. /\ prefix \o path \in Seq(Parts)
      /\ Len(prefix \o path) = Len(prefix) + Len(path)
      /\ \A i \in 1..Len(prefix) : (prefix \o path)[i] = prefix[i]
      /\ \A i \in 1..Len(path) : (prefix \o path)[Len(prefix) + i] = path[i]
    OBVIOUS
<1>2. /\ E!Rest(prefix \o path, Len(prefix)) \in Seq(Parts)
      /\ Len(E!Rest(prefix \o path, Len(prefix))) = Len(path)
    BY <1>1 DEF E!Rest
<1>3. ASSUME NEW i \in 1..Len(path)
      PROVE  E!Rest(prefix \o path, Len(prefix))[i] = path[i]
    BY <1>1 DEF E!Rest
<1> QED
    BY <1>1, <1>2, <1>3

\* Who asks comes off a path, and the rest is what it asks for.
LEMMA IdentityComesOff ==
    ASSUME NEW prefix \in Identities, NEW path \in Seq(Segments), NEW whole, whole = prefix \o path
    PROVE  /\ E!ParseIdentityPath(whole).remainder = path
           /\ E!ParseIdentityPath(whole).token \in {NULL, "good", "dead"}
           /\ ~E!IsPrefix(<<"gw">>, whole)
<1>1. path \in Seq(Words) /\ Segments \subseteq Words
    BY DEF Words
<1>2. /\ <<>> \in Seq(Words) /\ <<"t", "good">> \in Seq(Words) /\ <<"t", "dead">> \in Seq(Words)
      /\ <<"fest", "good", "~t">> \in Seq(Words) /\ <<"~t">> \in Seq(Words)
    BY DEF Words
<1>3. E!SplitTagSegment(path) = [tags |-> NULL, rest |-> path]
    <2>1. path # <<>> => Head(path) \in Segments
        OBVIOUS
    <2> QED
        BY <2>1, AlgorithmsAssumption DEF E!SplitTagSegment
<1>4. prefix \in Seq(Words)
    BY <1>2 DEF Identities
<1>5. /\ whole \in Seq(Words) /\ Len(whole) = Len(prefix) + Len(path)
      /\ \A i \in 1..Len(prefix) : whole[i] = prefix[i]
      /\ E!Rest(whole, Len(prefix)) = path
    BY <1>1, <1>4, AfterPrefix
<1>6. ~E!IsPrefix(<<"gw">>, whole)
    <2>1. ASSUME Len(whole) >= 1 PROVE ~E!IsPrefix(<<"gw">>, whole)
        <3>1. whole[1] \in Words /\ SubSeq(whole, 1, 1)[1] = whole[1]
            BY <1>5, <2>1
        <3>2. SubSeq(<<"gw">>, 1, 1)[1] = "gw"
            OBVIOUS
        <3> QED
            BY <3>1, <3>2 DEF E!IsPrefix, Words, Segments
    <2> QED
        BY <1>5, <2>1 DEF E!IsPrefix
<1>7. CASE prefix = <<>>
    <2>1. whole = path
        BY <1>5, <1>7
    <2>2. Len(path) >= 1 => Head(path) \notin {"t", "fest"}
        <3>1. Len(path) >= 1 => Head(path) \in Segments
            OBVIOUS
        <3> QED
            BY <3>1 DEF Segments
    <2> QED
        BY <1>3, <1>6, <2>1, <2>2 DEF E!ParseIdentityPath
<1>8. CASE prefix = <<"t", "good">> \/ prefix = <<"t", "dead">>
    <2>1. /\ Len(whole) >= 2 /\ Head(whole) = "t" /\ whole[2] \in {"good", "dead"}
          /\ E!Rest(whole, 2) = path
        BY <1>5, <1>8
    <2> QED
        BY <1>3, <1>6, <2>1 DEF E!ParseIdentityPath
<1>9. CASE prefix = <<"fest", "good", "~t">>
    <2>1. PICK tagged : tagged = <<"~t">> \o path
        OBVIOUS
    <2>2. /\ tagged \in Seq(Words) /\ Len(tagged) = 1 + Len(path) /\ tagged[1] = "~t"
          /\ E!Rest(tagged, 1) = path
        <3>1. Len(<<"~t">>) = 1 /\ <<"~t">>[1] = "~t"
            OBVIOUS
        <3>2. /\ <<"~t">> \o path \in Seq(Words)
              /\ Len(<<"~t">> \o path) = Len(<<"~t">>) + Len(path)
              /\ \A i \in 1..Len(<<"~t">>) : (<<"~t">> \o path)[i] = <<"~t">>[i]
              /\ E!Rest(<<"~t">> \o path, Len(<<"~t">>)) = path
            BY <1>1, <1>2, AfterPrefix
        <3> QED
            BY <2>1, <3>1, <3>2
    <2>3. whole = <<"fest", "good">> \o tagged
        <3>1. <<"fest", "good", "~t">> = <<"fest", "good">> \o <<"~t">> /\ <<"fest", "good">> \in Seq(Words)
            BY DEF Words
        <3> QED
            BY <1>1, <1>2, <1>9, <2>1, <3>1, ConcatAssociative
    <2>4. /\ Len(whole) >= 2 /\ Head(whole) = "fest" /\ whole[2] = "good"
          /\ E!Rest(whole, 2) = tagged
        <3>1. <<"fest", "good">> \in Seq(Words) /\ Len(<<"fest", "good">>) = 2
            BY DEF Words
        <3>2. E!Rest(<<"fest", "good">> \o tagged, Len(<<"fest", "good">>)) = tagged
            BY <2>2, <3>1, AfterPrefix
        <3>3. Len(whole) >= 3 /\ whole[1] = "fest" /\ whole[2] = "good"
            BY <1>5, <1>9
        <3> QED
            BY <1>5, <2>3, <3>1, <3>2, <3>3
    <2>5. tagged # <<>> /\ Head(tagged) = "~t" /\ Tail(tagged) = path
        BY <2>2 DEF E!Rest
    <2>6. E!SplitTagSegment(tagged) = [tags |-> "~t", rest |-> path]
        BY <2>5, AlgorithmsAssumption DEF E!SplitTagSegment
    <2> QED
        BY <1>6, <2>4, <2>6 DEF E!ParseIdentityPath
<1>10. CASE prefix = <<"~t">>
    <2>1. Len(whole) >= 1 /\ Head(whole) = "~t" /\ Tail(whole) = path /\ whole # <<>>
        BY <1>5, <1>10 DEF E!Rest
    <2>2. E!SplitTagSegment(whole) = [tags |-> "~t", rest |-> path]
        BY <2>1, AlgorithmsAssumption DEF E!SplitTagSegment
    <2> QED
        BY <1>6, <2>1, <2>2 DEF E!ParseIdentityPath
<1> QED
    BY <1>7, <1>8, <1>9, <1>10 DEF Identities

LEMMA EdgeIsAsked == AskEdge => EdgeAsked'
<1> SUFFICES ASSUME AskEdge
             PROVE  /\ call'.cfg.base \in {<<>>, <<"gw">>}
                    /\ \E prefix \in Identities : \E path \in Seq(Segments) :
                          call'.req.path = prefix \o path
    BY DEF EdgeAsked
<1>1. CASE \E hosts \in {On, Off}, require, routed \in BOOLEAN, method \in {"GET", "POST"},
              prefix \in Identities, path \in Remainders, headers \in {{}, Some},
              fest \in {NULL, "good"}, body \in {"plain", "huge"} :
              call' = [of |-> "edge", cfg |-> Configuration(<<"gw">>, hosts, require, routed),
                       req |-> Request(method, prefix \o path, headers, "plan", NULL, fest, body)]
    <2>1. PICK hosts \in {On, Off}, require \in BOOLEAN, routed \in BOOLEAN,
               method \in {"GET", "POST"}, prefix \in Identities, path \in Remainders,
               headers \in {{}, Some}, fest \in {NULL, "good"}, body \in {"plain", "huge"} :
              call' = [of |-> "edge", cfg |-> Configuration(<<"gw">>, hosts, require, routed),
                       req |-> Request(method, prefix \o path, headers, "plan", NULL, fest, body)]
        BY <1>1, Zenon
    <2>2. call'.cfg.base = <<"gw">> /\ call'.req.path = prefix \o path
        BY <2>1 DEF Configuration, Request
    <2> QED
        BY <2>2, RemaindersOfSegments
<1>2. CASE \E require, routed \in BOOLEAN, prefix \in Identities,
              path \in PostedTo,
              auth \in {NULL, "blank", "plan", "good", "dead"}, key \in {NULL, "sk", "good"},
              fest \in {NULL, "blank", "good", "dead"}, body \in {"plain", "gzip", "garbage"} :
              call' = [of |-> "edge", cfg |-> Configuration(<<>>, On, require, routed),
                       req |-> Request("POST", prefix \o path, {}, auth, key, fest, body)]
    <2>1. \A path \in PostedTo : path \in Seq(Segments)
        BY RemaindersOfSegments DEF PostedTo, Remainders
    <2>2. PICK require \in BOOLEAN, routed \in BOOLEAN, prefix \in Identities,
               path \in PostedTo,
               auth \in {NULL, "blank", "plan", "good", "dead"}, key \in {NULL, "sk", "good"},
               fest \in {NULL, "blank", "good", "dead"}, body \in {"plain", "gzip", "garbage"} :
              call' = [of |-> "edge", cfg |-> Configuration(<<>>, On, require, routed),
                       req |-> Request("POST", prefix \o path, {}, auth, key, fest, body)]
        BY <1>2, Zenon
    <2>3. call'.cfg.base = <<>> /\ call'.req.path = prefix \o path
        BY <2>2 DEF Configuration, Request
    <2> QED
        BY <2>1, <2>2, <2>3
<1> QED
    BY <1>1, <1>2 DEF AskEdge

LEMMA EdgeAskedAlways == Spec => []EdgeAsked
<1>1. Init => EdgeAsked
    BY DEF Init, About, EdgeAsked
<1>2. EdgeAsked /\ [Next]_algorithmVars => EdgeAsked'
    <2> SUFFICES ASSUME EdgeAsked, [Next]_algorithmVars PROVE EdgeAsked'
        OBVIOUS
    <2>1. AskView => call'.of # "edge"
        BY DEF AskView
    <2>2. CASE AskEdge
        BY <2>2, EdgeIsAsked
    <2>3. CASE call'.of # "edge"
        BY <2>3 DEF EdgeAsked
    <2>4. CASE UNCHANGED call
        BY <2>4 DEF EdgeAsked
    <2> QED
        BY <2>1, <2>2, <2>3, <2>4, OneQuestion
<1> QED
    BY <1>1, <1>2, PTL DEF Spec

LEMMA EdgeIsAskedPlainly ==
    ASSUME EdgeAsked, call.of = "edge"
    PROVE  /\ NamedPlainly(call.req)
           /\ \E asked \in Seq(Segments) : AskedIs(call.cfg, call.req, asked, Segments)
<1>1. PICK prefix \in Identities, path \in Seq(Segments) : call.req.path = prefix \o path
    BY DEF EdgeAsked
<1>2. /\ E!ParseIdentityPath(call.req.path).remainder = path
      /\ E!ParseIdentityPath(call.req.path).token \in {NULL, "good", "dead"}
      /\ ~E!IsPrefix(<<"gw">>, call.req.path)
    BY <1>1, IdentityComesOff
<1>3. AtTheRoot(call.cfg, call.req)
    BY <1>2 DEF EdgeAsked, AtTheRoot, E!StripBasePath
<1>4. NamedPlainly(call.req)
    BY <1>2 DEF NamedPlainly
<1>5. NULL \notin Seq(Segments)
    <2>1. Seq(Segments) \subseteq Seq(Segments \cup TagSegments)
        OBVIOUS
    <2> QED
        BY <2>1, AlgorithmsAssumption
<1> QED
    BY <1>2, <1>3, <1>4, <1>5, AlgorithmsAssumption DEF AskedIs, AtTheRoot, E!Asked, NoValue

\* MeteredByWhoAsked of the run, from the theorem that holds of every request.
THEOREM EveryAnswerMetersWhoAsked == Spec => []MeteredByWhoAsked
<1>1. EdgeAsked => MeteredByWhoAsked
    BY EdgeIsAskedPlainly, MetersWhoAsked DEF MeteredByWhoAsked, AskedIs
<1> QED
    BY <1>1, EdgeAskedAlways, PTL

\* SentWhereTheUrlSays of the run, from the theorem that holds of every request.
THEOREM EveryRequestGoesWhereItsUrlSays == Spec => []SentWhereTheUrlSays
<1>1. EdgeAsked => SentWhereTheUrlSays
    <2> SUFFICES ASSUME EdgeAsked, call.of = "edge"
                 PROVE  E!SentWhereTheUrlSays(call.cfg, call.req)
        BY DEF SentWhereTheUrlSays
    <2>1. PICK asked \in Seq(Segments) : AskedIs(call.cfg, call.req, asked, Segments)
        BY EdgeIsAskedPlainly
    <2>2. \A i \in 1..Len(asked) : asked[i] \notin TagSegments \cup FestTokens
        <3>1. \A i \in 1..Len(asked) : asked[i] \in Segments
            OBVIOUS
        <3> QED
            BY <3>1, AlgorithmsAssumption
    <2> QED
        BY <2>1, <2>2, GoesWhereTheUrlSays
<1> QED
    BY <1>1, EdgeAskedAlways, PTL
-----------------------------------------------------------------------------
(* the routing screen *)

\* What adopting a file makes sure of: see RouteTable.
Rated(rt) ==
    /\ \E n \in Nat : V!Routes(rt) = 1..n
    /\ \A i \in V!Routes(rt) : rt.routes[i].exact \in BOOLEAN /\ rt.routes[i].len \in Nat

\* The two orders, of the rules that claim a model and of all rules, as sets.
BetterFor(rt, m) ==
    {p \in V!Claiming(rt, m) \X V!Claiming(rt, m) : V!Better(rt, p[1], p[2], m)}
EarlierIn(rt) == {p \in V!Routes(rt) \X V!Routes(rt) : V!Earlier(rt, p[1], p[2])}

LEMMA BothAreOrders ==
    ASSUME NEW rt, NEW m, Rated(rt)
    PROVE  /\ StrictOrder(BetterFor(rt, m), V!Claiming(rt, m))
           /\ StrictOrder(EarlierIn(rt), V!Routes(rt))
<1>1. PICK n \in Nat : V!Routes(rt) = 1..n
    BY DEF Rated
<1>2. IsFiniteSet(V!Routes(rt))
    BY <1>1, FS_Interval
<1>3. V!Claiming(rt, m) \subseteq V!Routes(rt) /\ IsFiniteSet(V!Claiming(rt, m))
    BY <1>2, FS_Subset DEF V!Claiming
<1>4. \A i \in V!Routes(rt) : i \in Int /\ rt.routes[i].len \in Nat
    BY <1>1 DEF Rated
<1>5. /\ \A x \in V!Routes(rt) : ~V!Better(rt, x, x, m)
      /\ \A x, y, z \in V!Routes(rt) :
            V!Better(rt, x, y, m) /\ V!Better(rt, y, z, m) => V!Better(rt, x, z, m)
      /\ \A x, y \in V!Routes(rt) : x = y \/ V!Better(rt, x, y, m) \/ V!Better(rt, y, x, m)
    BY <1>4 DEF V!Better
<1>6. /\ \A x \in V!Routes(rt) : ~V!Earlier(rt, x, x)
      /\ \A x, y, z \in V!Routes(rt) :
            V!Earlier(rt, x, y) /\ V!Earlier(rt, y, z) => V!Earlier(rt, x, z)
      /\ \A x, y \in V!Routes(rt) : x = y \/ V!Earlier(rt, x, y) \/ V!Earlier(rt, y, x)
    BY <1>4 DEF V!Earlier
<1>7. \A x, y \in V!Claiming(rt, m) : <<x, y>> \in BetterFor(rt, m) <=> V!Better(rt, x, y, m)
    BY DEF BetterFor
<1>8. \A x, y \in V!Routes(rt) : <<x, y>> \in EarlierIn(rt) <=> V!Earlier(rt, x, y)
    BY DEF EarlierIn
<1>9. StrictOrder(BetterFor(rt, m), V!Claiming(rt, m))
    BY <1>3, <1>5, <1>7 DEF StrictOrder
<1>10. StrictOrder(EarlierIn(rt), V!Routes(rt))
    BY <1>2, <1>6, <1>8 DEF StrictOrder
<1> QED
    BY <1>9, <1>10

\* A claimed model has one best rule.
LEMMA BestIsBest ==
    ASSUME NEW rt, NEW m, Rated(rt), V!Claiming(rt, m) # {}
    PROVE  /\ V!Best(rt, m) \in V!Claiming(rt, m)
           /\ \A j \in V!Claiming(rt, m) \ {V!Best(rt, m)} : V!Better(rt, V!Best(rt, m), j, m)
<1>1. PICK i \in V!Claiming(rt, m) :
         \A j \in V!Claiming(rt, m) \ {i} : <<i, j>> \in BetterFor(rt, m)
    BY BothAreOrders, FirstOfAll
<1>2. \A j \in V!Claiming(rt, m) \ {i} : V!Better(rt, i, j, m)
    BY <1>1 DEF BetterFor
<1> QED
    BY <1>1, <1>2 DEF V!Best

\* The explanation lists every rule once, each after the ones that are earlier.
LEMMA OrderIsEarlier ==
    ASSUME NEW rt, Rated(rt)
    PROVE  LET order == V!EvaluationOrder(rt)
           IN  /\ DOMAIN order = V!Routes(rt)
               /\ \A n \in V!Routes(rt) : order[n] \in V!Routes(rt)
               /\ \A i \in V!Routes(rt) : \E n \in V!Routes(rt) : order[n] = i
               /\ \A n, k \in V!Routes(rt) : order[n] = order[k] => n = k
               /\ \A n, k \in V!Routes(rt) : k < n => V!Earlier(rt, order[k], order[n])
<1> DEFINE order == V!EvaluationOrder(rt)
           rules == V!Routes(rt)
           before == EarlierIn(rt)
<1>1. StrictOrder(before, rules)
    BY BothAreOrders
<1>2. PICK size \in Nat : rules = 1..size
    BY DEF Rated
<1>3. Cardinality(rules) = size
    BY <1>2, FS_Interval
<1>4. \A i \in rules : V!Place(rt, i) = Cardinality(BeforeIn(before, rules, i)) + 1
    <2> SUFFICES ASSUME NEW i \in rules
                 PROVE  V!Place(rt, i) = Cardinality(BeforeIn(before, rules, i)) + 1
        OBVIOUS
    <2>1. BeforeIn(before, rules, i) = {j \in rules : V!Earlier(rt, j, i)}
        BY DEF BeforeIn, EarlierIn
    <2>2. V!Place(rt, i) = Cardinality({j \in rules : V!Earlier(rt, j, i)}) + 1
        BY Zenon DEF V!Place, V!Cardinality, Cardinality
    <2> QED
        BY <2>1, <2>2, Zenon
<1>5. order = [n \in rules |-> CHOOSE i \in rules : V!Place(rt, i) = n]
    BY DEF V!EvaluationOrder
<1> HIDE DEF order, rules, before
<1>6. \A n \in rules : \E i \in rules : V!Place(rt, i) = n
    BY <1>1, <1>2, <1>3, <1>4, RanksAreTaken
<1>7. /\ DOMAIN order = rules
      /\ \A n \in rules : order[n] \in rules /\ V!Place(rt, order[n]) = n
    BY <1>5, <1>6
<1>8. \A i \in rules : V!Place(rt, i) \in rules
    BY <1>1, <1>2, <1>3, <1>4, RankGrows
<1>9. \A i, j \in rules : <<i, j>> \in before => V!Place(rt, i) < V!Place(rt, j)
    BY <1>1, <1>4, RankGrows
<1>10. \A i, j \in rules : V!Place(rt, i) = V!Place(rt, j) => i = j
    <2> SUFFICES ASSUME NEW i \in rules, NEW j \in rules, i # j
                 PROVE  V!Place(rt, i) # V!Place(rt, j)
        OBVIOUS
    <2>1. <<i, j>> \in before \/ <<j, i>> \in before
        BY <1>1 DEF StrictOrder
    <2>2. V!Place(rt, i) \in Int /\ V!Place(rt, j) \in Int
        BY <1>2, <1>8
    <2> QED
        BY <1>9, <2>1, <2>2
<1>11. \A i \in rules : \E n \in rules : order[n] = i
    BY <1>7, <1>8, <1>10
<1>12. \A n, k \in rules : k < n => <<order[k], order[n]>> \in before
    <2> SUFFICES ASSUME NEW n \in rules, NEW k \in rules, k < n
                 PROVE  <<order[k], order[n]>> \in before
        OBVIOUS
    <2>1. n \in Int /\ k \in Int
        BY <1>2
    <2>2. /\ order[k] \in rules /\ V!Place(rt, order[k]) = k
          /\ order[n] \in rules /\ V!Place(rt, order[n]) = n
        BY <1>7
    <2>3. order[k] # order[n]
        BY <2>1, <2>2
    <2>4. <<order[k], order[n]>> \in before \/ <<order[n], order[k]>> \in before
        BY <1>1, <2>2, <2>3 DEF StrictOrder
    <2>5. <<order[n], order[k]>> \in before => V!Place(rt, order[n]) < V!Place(rt, order[k])
        BY <1>9, <2>2
    <2> QED
        BY <2>1, <2>2, <2>4, <2>5
<1>13. \A i, j : <<i, j>> \in before => V!Earlier(rt, i, j)
    BY DEF before, EarlierIn
<1>14. \A n, k \in rules : order[n] = order[k] => n = k
    BY <1>7
<1> QED
    BY <1>7, <1>11, <1>12, <1>13, <1>14 DEF order, rules

LEMMA SameCount == \A x : V!Cardinality(x) = Cardinality(x)
BY Zenon DEF V!Cardinality, Cardinality

\* The rows of the explanation, and where the one that shows a model plainly is.
LEMMA RowsOfRules ==
    ASSUME NEW rt, Rated(rt), NEW rows, rows = V!ExplainRoutes(rt)
    PROVE  /\ DOMAIN rows = V!Routes(rt)
           /\ \A n \in DOMAIN rows :
                 /\ rows[n].rule \in V!Routes(rt)
                 /\ rows[n].upstream = rt.routes[rows[n].rule].upstream
                 /\ rows[n].shadows = V!Shadows(rt, rows[n].rule)
                 /\ rows[n].outranked = V!Outranked(rt, rows[n].rule)
                 /\ rows[n].menuIds = V!MenuIds(rt, rows[n].rule)
           /\ \A i \in V!Routes(rt) : \E n \in DOMAIN rows : rows[n].rule = i
           /\ \A n, k \in DOMAIN rows : rows[n].rule = rows[k].rule => n = k
           /\ \A n, k \in DOMAIN rows : k < n => V!Earlier(rt, rows[k].rule, rows[n].rule)
<1> DEFINE order == V!EvaluationOrder(rt)
<1>1. /\ DOMAIN order = V!Routes(rt)
      /\ \A n \in V!Routes(rt) : order[n] \in V!Routes(rt)
      /\ \A i \in V!Routes(rt) : \E n \in V!Routes(rt) : order[n] = i
      /\ \A n, k \in V!Routes(rt) : order[n] = order[k] => n = k
      /\ \A n, k \in V!Routes(rt) : k < n => V!Earlier(rt, order[k], order[n])
    BY OrderIsEarlier
<1>2. rows = [n \in DOMAIN order |->
                [rule |-> order[n], upstream |-> rt.routes[order[n]].upstream,
                 shadows |-> V!Shadows(rt, order[n]), outranked |-> V!Outranked(rt, order[n]),
                 menuIds |-> V!MenuIds(rt, order[n])]]
    BY DEF V!ExplainRoutes
<1> HIDE DEF order
<1>3. /\ DOMAIN rows = V!Routes(rt)
      /\ \A n \in DOMAIN rows :
            /\ rows[n].rule = order[n] /\ rows[n].upstream = rt.routes[order[n]].upstream
            /\ rows[n].shadows = V!Shadows(rt, order[n])
            /\ rows[n].outranked = V!Outranked(rt, order[n])
            /\ rows[n].menuIds = V!MenuIds(rt, order[n])
    BY <1>1, <1>2
<1> QED
    BY <1>1, <1>3

LEMMA ShownPlainly ==
    ASSUME NEW rt, Rated(rt), NEW rows, rows = V!ExplainRoutes(rt), NEW m \in BaseModels
    PROVE  /\ \A n \in DOMAIN rows : m \in rows[n].shadows <=>
                 V!Claiming(rt, m) # {} /\ rows[n].rule = V!Best(rt, m)
           /\ V!Claiming(rt, m) # {} => \E n \in DOMAIN rows : m \in rows[n].shadows
<1>1. V!Claiming(rt, m) # {} => V!Best(rt, m) \in V!Claiming(rt, m)
    BY BestIsBest
<1>2. \A n \in DOMAIN rows : rows[n].shadows = V!Shadows(rt, rows[n].rule)
    BY RowsOfRules
<1>3. \A i : m \in V!Shadows(rt, i) <=> i \in V!Claiming(rt, m) /\ V!Best(rt, m) = i
    BY DEF V!Shadows
<1>4. \A n \in DOMAIN rows : m \in rows[n].shadows <=>
                 V!Claiming(rt, m) # {} /\ rows[n].rule = V!Best(rt, m)
    BY <1>1, <1>2, <1>3
<1>5. V!Claiming(rt, m) \subseteq V!Routes(rt)
    BY DEF V!Claiming
<1> QED
    BY <1>1, <1>4, <1>5, RowsOfRules

\* A rule that names a model as its own is better than any that does not.
LEMMA OwnIsBest ==
    ASSUME NEW rt, Rated(rt), NEW m, NEW i \in V!Claiming(rt, m), V!ExactFor(rt.routes[i], m),
           \A j \in V!Claiming(rt, m) \ {i} : ~V!ExactFor(rt.routes[j], m)
    PROVE  V!Best(rt, m) = i
<1>1. V!Claiming(rt, m) # {}
    OBVIOUS
<1>2. /\ V!Best(rt, m) \in V!Claiming(rt, m)
      /\ V!Best(rt, m) # i => V!Better(rt, V!Best(rt, m), i, m)
    BY <1>1, BestIsBest
<1>3. \A j \in V!Claiming(rt, m) \ {i} : ~V!Better(rt, j, i, m)
    BY DEF V!Better
<1> QED
    BY <1>2, <1>3

(***************************************************************************)
(* RoutingScreenTruthful, for every table, every set of models and every   *)
(* menu of the vendor's: the screen and the menu say what the resolver     *)
(* does, and each base model's row is the first of its order that covers   *)
(* the model.                                                              *)
(***************************************************************************)
THEOREM ScreenSaysWhatIsServed ==
    ASSUME NEW rt, Rated(rt), NULL \notin Anthropic
    PROVE  V!RoutingScreenTruthful(rt)
<1>1. PICK rows : rows = V!ExplainRoutes(rt)
    OBVIOUS
<1>2. /\ DOMAIN rows = V!Routes(rt)
      /\ \A n \in DOMAIN rows :
            /\ rows[n].rule \in V!Routes(rt)
            /\ rows[n].upstream = rt.routes[rows[n].rule].upstream
            /\ rows[n].shadows = V!Shadows(rt, rows[n].rule)
            /\ rows[n].outranked = V!Outranked(rt, rows[n].rule)
            /\ rows[n].menuIds = V!MenuIds(rt, rows[n].rule)
      /\ \A n, k \in DOMAIN rows : rows[n].rule = rows[k].rule => n = k
      /\ \A n, k \in DOMAIN rows : k < n => V!Earlier(rt, rows[k].rule, rows[n].rule)
    BY <1>1, RowsOfRules
<1>3. ASSUME NEW m \in BaseModels
      PROVE  LET subs == V!Plain(rows, V!Substitutions(rows), m)
             IN  V!ResolveRoute(rt, m).upstream =
                    IF subs = {} THEN Null ELSE rows[CHOOSE n \in subs : TRUE].upstream
    <2> DEFINE subs == V!Plain(rows, V!Substitutions(rows), m)
               best == rt.routes[V!Best(rt, m)].upstream
    <2>1. \A n \in DOMAIN rows : m \in rows[n].shadows <=>
                 V!Claiming(rt, m) # {} /\ rows[n].rule = V!Best(rt, m)
        BY <1>1, ShownPlainly
    <2>2. \A n : n \in subs <=> /\ n \in DOMAIN rows /\ m \in rows[n].shadows
                                /\ rows[n].upstream # Null
        BY DEF V!Plain, V!Substitutions, V!SubstitutesFor
    <2>3. \A n \in subs : V!Claiming(rt, m) # {} /\ rows[n].upstream = best /\ best # Null
        BY <1>2, <2>1, <2>2
    <2>4. V!Claiming(rt, m) # {} /\ best # Null => subs # {}
        <3> SUFFICES ASSUME V!Claiming(rt, m) # {}, best # Null PROVE subs # {}
            OBVIOUS
        <3>1. PICK n \in DOMAIN rows : m \in rows[n].shadows
            BY <1>1, ShownPlainly
        <3> QED
            BY <1>2, <2>1, <2>2, <3>1
    <2>5. V!ResolveRoute(rt, m).upstream = IF V!Claiming(rt, m) = {} THEN Null ELSE best
        BY DEF V!ResolveRoute, V!Passthrough, V!Substitute
    <2> HIDE DEF subs
    <2>6. V!ResolveRoute(rt, m).upstream =
             IF subs = {} THEN Null ELSE rows[CHOOSE n \in subs : TRUE].upstream
        BY <2>3, <2>4, <2>5
    <2> QED
        BY <2>6 DEF subs
<1>4. ASSUME NEW m \in BaseModels PROVE V!Cardinality(V!Plain(rows, DOMAIN rows, m)) <= 1
    <2> DEFINE plain == V!Plain(rows, DOMAIN rows, m)
    <2>1. \A n, k \in plain : n = k
        BY <1>1, <1>2, ShownPlainly DEF V!Plain
    <2> HIDE DEF plain
    <2>2. CASE plain = {}
        BY <2>2, FS_EmptySet, SameCount DEF plain
    <2>3. CASE plain # {}
        <3>1. PICK n : plain = {n}
            BY <2>1, <2>3
        <3> QED
            BY <3>1, FS_Singleton, SameCount DEF plain
    <2> QED
        BY <2>2, <2>3
<1>5. ASSUME NEW m \in BaseModels
      PROVE  V!Plain(rows, V!PassThroughRows(rows), m) # {} => V!ResolveRoute(rt, m).upstream = Null
    <2> SUFFICES ASSUME NEW n \in V!Plain(rows, V!PassThroughRows(rows), m)
                 PROVE  V!ResolveRoute(rt, m).upstream = Null
        OBVIOUS
    <2>1. n \in DOMAIN rows /\ rows[n].upstream = Null /\ m \in rows[n].shadows
        BY DEF V!Plain, V!PassThroughRows
    <2>2. rt.routes[V!Best(rt, m)].upstream = Null
        BY <1>1, <1>2, <2>1, ShownPlainly
    <2> QED
        BY <2>2 DEF V!ResolveRoute, V!Passthrough
<1>6. ASSUME NEW m \in BaseModels, NEW n \in V!Additions(rows)
      PROVE  rows[n].rule \notin V!Claiming(rt, m)
    <2>1. /\ V!Shadows(rt, rows[n].rule) = {} /\ V!Outranked(rt, rows[n].rule) = {}
        BY <1>2 DEF V!Additions, V!SubstitutesFor
    <2> QED
        BY <2>1 DEF V!Shadows, V!Outranked
<1>7. ASSUME NEW m \in BaseModels, \A i \in V!Routes(rt) : rt.routes[i].expose # m,
             NEW n \in V!Plain(rows, DOMAIN rows, m), NEW k \in 1..(n - 1)
      PROVE  rows[k].rule \notin V!Claiming(rt, m)
    <2>1. n \in DOMAIN rows /\ m \in rows[n].shadows
        BY DEF V!Plain
    <2>2. k \in DOMAIN rows /\ k < n
        BY <1>2, <2>1 DEF Rated
    <2>3. rows[n].rule = V!Best(rt, m) /\ V!Claiming(rt, m) # {}
        BY <1>1, <2>1, ShownPlainly
    <2>4. rows[k].rule # rows[n].rule /\ V!Earlier(rt, rows[k].rule, rows[n].rule)
        BY <1>2, <2>1, <2>2
    <2>5. PICK i, j : /\ i = rows[n].rule /\ j = rows[k].rule
                      /\ i \in V!Routes(rt) /\ j \in V!Routes(rt)
        BY <1>2, <2>1, <2>2
    <2>6. j \in V!Claiming(rt, m) => V!Better(rt, i, j, m)
        BY <2>3, <2>4, <2>5, BestIsBest
    <2>7. V!Better(rt, i, j, m) => V!Earlier(rt, i, j)
        BY <1>7, <2>5 DEF V!Better, V!Earlier, V!ExactFor
    <2>8. ~(V!Earlier(rt, i, j) /\ V!Earlier(rt, j, i))
        BY <2>5 DEF V!Earlier, Rated
    <2> QED
        BY <2>4, <2>5, <2>6, <2>7, <2>8
<1>8. ASSUME NEW m \in BaseModels \cap Anthropic,
             V!ResolveWithoutCallerCredential(rt, m).pipeline = "substitute"
      PROVE  m \in V!BuildModelMenu(rt)
    BY <1>8 DEF V!BuildModelMenu, V!Candidates
<1>9. ASSUME NEW m \in V!HandleModels(rt, "v", NULL).ids
      PROVE  V!ResolveWithoutCallerCredential(rt, m) = V!Substitute(V!DisplayedAs(rt, m))
    <2>1. m \in V!BuildModelMenu(rt)
        BY DEF V!HandleModels
    <2>2. V!ResolveWithoutCallerCredential(rt, m).pipeline = "substitute"
        BY <2>1 DEF V!BuildModelMenu
    <2>3. \E id : V!ResolveWithoutCallerCredential(rt, m) \in {V!Passthrough, V!Substitute(id)}
        BY DEF V!ResolveWithoutCallerCredential, V!ResolveRoute
    <2> QED
        BY <2>2, <2>3 DEF V!DisplayedAs, V!Substitute, V!Passthrough
<1>10. ASSUME NEW n \in DOMAIN rows, NEW m \in rows[n].menuIds,
              \A i \in V!Routes(rt) \ {rows[n].rule} :
                 ~V!ExactFor(rt.routes[i], m) \/ i \notin V!Claiming(rt, m)
       PROVE  V!ResolveWithoutCallerCredential(rt, m).upstream = rows[n].upstream
    <2>1. PICK i \in V!Routes(rt) : i = rows[n].rule /\ rows[n].upstream = rt.routes[i].upstream
        BY <1>2
    <2>2. /\ (rt.routes[i].exact /\ m \in rt.routes[i].matched) \/ m = rt.routes[i].expose
          /\ m \in V!BuildModelMenu(rt)
        BY <1>2, <2>1 DEF V!MenuIds
    <2>3. /\ m \in Anthropic /\ m # NULL
          /\ V!ResolveWithoutCallerCredential(rt, m).pipeline = "substitute"
        BY <2>2 DEF V!BuildModelMenu
    <2>4. i \in V!Claiming(rt, m) /\ V!ExactFor(rt.routes[i], m)
        BY <2>2, <2>3 DEF V!Claiming, V!Claims, V!ExactFor
    <2>5. \A j \in V!Claiming(rt, m) \ {i} : ~V!ExactFor(rt.routes[j], m)
        BY <1>10, <2>1 DEF V!Claiming
    <2>6. V!Best(rt, m) = i
        BY <2>4, <2>5, OwnIsBest
    <2>7. V!ResolveWithoutCallerCredential(rt, m) =
             IF rt.routes[i].upstream = Null THEN V!Passthrough ELSE V!Substitute(rt.routes[i].upstream)
        BY <2>4, <2>6 DEF V!ResolveWithoutCallerCredential, V!ResolveRoute
    <2> QED
        BY <2>1, <2>3, <2>7 DEF V!Passthrough, V!Substitute
<1> QED
    BY <1>1, <1>3, <1>4, <1>5, <1>6, <1>7, <1>8, <1>9, <1>10 DEF V!RoutingScreenTruthful
\* Every table that is asked about is one that can be adopted.
ViewAsked == call.of = "view" => Rated(call.table)

LEMMA RulesAreRated ==
    ASSUME NEW exposes, NEW upstreams, NEW r \in Rules(exposes, upstreams)
    PROVE  r.exact \in BOOLEAN /\ r.len \in Nat
<1>1. \A p \in Matches : p[2] \in BOOLEAN /\ p[3] \in Nat
    <2>1. \A matched, exact, len : /\ <<matched, exact, len>>[2] = exact
                                    /\ <<matched, exact, len>>[3] = len
        OBVIOUS
    <2>2. ASSUME NEW p, NEW matched, NEW exact \in BOOLEAN, NEW len \in Nat, p = <<matched, exact, len>>
          PROVE  p[2] \in BOOLEAN /\ p[3] \in Nat
        BY <2>1, <2>2
    <2>3. 1 \in Nat /\ 3 \in Nat /\ 4 \in Nat /\ 5 \in Nat /\ 6 \in Nat
        OBVIOUS
    <2>4. TRUE \in BOOLEAN /\ FALSE \in BOOLEAN
        OBVIOUS
    <2>5. \A p \in Matches : \E matched : \E exact \in BOOLEAN, len \in Nat : p = <<matched, exact, len>>
        BY <2>3, <2>4, Zenon DEF Matches
    <2> QED
        BY <2>2, <2>5
<1>2. PICK p \in Matches, expose \in exposes, upstream \in upstreams :
         r = Rule(p[1], p[2], p[3], expose, upstream)
    BY DEF Rules
<1> QED
    BY <1>1, <1>2 DEF Rule

LEMMA ViewIsAsked == AskView => ViewAsked'
<1> SUFFICES ASSUME AskView PROVE Rated(call'.table)
    BY DEF ViewAsked
<1> DEFINE Plainly(r) == r.exact \in BOOLEAN /\ r.len \in Nat
           Asked(routes, upstreams) ==
               call' = [of |-> "view", table |-> [routes |-> routes, upstreams |-> upstreams]]
<1>1. \A exposes, upstreams : \A r \in Rules(exposes, upstreams) : Plainly(r)
    BY RulesAreRated
<1> HIDE DEF Plainly
<1>2. \/ \E upstreams : Asked(<<>>, upstreams)
      \/ \E upstreams, r, s, t : Asked(<<r, s, t>>, upstreams) /\ Plainly(r) /\ Plainly(s) /\ Plainly(t)
    BY <1>1, Zenon DEF AskView
<1>3. ASSUME NEW routes, NEW upstreams, Asked(routes, upstreams)
      PROVE  V!Routes(call'.table) = DOMAIN routes /\ call'.table.routes = routes
    BY <1>3 DEF V!Routes
<1>4. ASSUME NEW upstreams, Asked(<<>>, upstreams) PROVE Rated(call'.table)
    <2>1. V!Routes(call'.table) = 1..0
        BY <1>3, <1>4
    <2> QED
        BY <2>1 DEF Rated
<1>5. ASSUME NEW upstreams, NEW r, NEW s, NEW t, Asked(<<r, s, t>>, upstreams),
             Plainly(r), Plainly(s), Plainly(t)
      PROVE  Rated(call'.table)
    <2>1. V!Routes(call'.table) = 1..3 /\ \A i \in 1..3 : call'.table.routes[i] \in {r, s, t}
        BY <1>3, <1>5
    <2>2. \A x \in {r, s, t} : x.exact \in BOOLEAN /\ x.len \in Nat
        BY <1>5 DEF Plainly
    <2> QED
        BY <2>1, <2>2 DEF Rated
<1> QED
    BY <1>2, <1>4, <1>5

\* RoutingScreenTruthful of the run, from the theorem that holds of every table.
THEOREM EveryScreenSaysWhatIsServed == Spec => []RoutingScreenTruthful
<1>1. Init => ViewAsked
    BY DEF Init, About, ViewAsked
<1>2. ViewAsked /\ [Next]_algorithmVars => ViewAsked'
    <2> SUFFICES ASSUME ViewAsked, [Next]_algorithmVars PROVE ViewAsked'
        OBVIOUS
    <2>1. AskEdge => call'.of # "view"
        BY DEF AskEdge
    <2>2. CASE AskView
        BY <2>2, ViewIsAsked
    <2>3. CASE call'.of # "view"
        BY <2>3 DEF ViewAsked
    <2>4. CASE UNCHANGED call
        BY <2>4 DEF ViewAsked
    <2> QED
        BY <2>1, <2>2, <2>3, <2>4, OneQuestion
<1>3. ViewAsked => RoutingScreenTruthful
    BY ScreenSaysWhatIsServed, AlgorithmsAssumption DEF ViewAsked, RoutingScreenTruthful
<1> QED
    BY <1>1, <1>2, <1>3, PTL DEF Spec

-----------------------------------------------------------------------------
(* the routing file *)

Examinations(Entries) ==
    [ids : SUBSET {e.id : e \in Entries}, exposed : SUBSET {e.expose.id : e \in Entries},
     routes : Seq(Entries), problems : SUBSET ({"route"} \X Nat)]

Unexamined == [ids |-> {}, exposed |-> {}, routes |-> <<>>, problems |-> {}]

\* What the table is after each of its N routes.
ExaminedAs(file, Entries, N, at) ==
    /\ at \in [0..N -> Examinations(Entries)]
    /\ at[0] = Unexamined
    /\ \A n \in 1..N : at[n] = R!ExamineNext(file, at[n - 1], n)
    /\ R!Examine(file) = at[N]

LEMMA ExaminationGoesOn ==
    ASSUME NEW Entries, NEW file, file.routes \in Seq(Entries),
           NEW acc \in Examinations(Entries), NEW n \in 1..Len(file.routes)
    PROVE  R!ExamineNext(file, acc, n) \in Examinations(Entries)
<1> DEFINE entry == file.routes[n]
           fault == R!RouteFault(file, entry, acc.ids, acc.exposed)
<1>1. entry \in Entries
    OBVIOUS
<1> HIDE DEF entry, fault
<1>2. /\ acc.ids \cup (IF R!Taken(entry, fault) THEN {entry.id} ELSE {})
            \in SUBSET {e.id : e \in Entries}
      /\ acc.exposed \cup (IF fault = Null /\ entry.expose.kind = "id" THEN {entry.expose.id} ELSE {})
            \in SUBSET {e.expose.id : e \in Entries}
    BY <1>1 DEF Examinations
<1>3. (IF fault = Null THEN Append(acc.routes, entry) ELSE acc.routes) \in Seq(Entries)
    BY <1>1 DEF Examinations
<1>4. acc.problems \cup (IF fault \in {Null, "invalid upstream"} THEN {} ELSE {<<"route", n>>})
            \in SUBSET ({"route"} \X Nat)
    <2>1. <<"route", n>> \in {"route"} \X Nat
        OBVIOUS
    <2>2. acc.problems \in SUBSET ({"route"} \X Nat)
        BY DEF Examinations
    <2> QED
        BY <2>1, <2>2
<1> QED
    BY <1>2, <1>3, <1>4 DEF R!ExamineNext, Examinations, entry, fault

LEMMA ExaminedInOrder ==
    ASSUME NEW Entries, NEW file, file.routes \in Seq(Entries)
    PROVE  \E at : ExaminedAs(file, Entries, Len(file.routes), at)
<1> DEFINE N == Len(file.routes)
           States == Examinations(Entries)
           step == [p \in States \X (1..N) |-> R!ExamineNext(file, p[1], p[2])]
           Told(f) == f = [n \in 0..N |-> IF n = 0 THEN Unexamined
                                          ELSE R!ExamineNext(file, f[n - 1], n)]
           at == CHOOSE f : Told(f)
<1>1. N \in Nat /\ Unexamined \in States
    BY DEF Unexamined, Examinations
<1>2. \A acc \in States, n \in 1..N : R!ExamineNext(file, acc, n) \in States
    BY ExaminationGoesOn
<1>3. R!Examine(file) = at[N]
    BY DEF R!Examine, Unexamined
<1> HIDE DEF N, States
<1>4. step \in [States \X (1..N) -> States]
    BY <1>2
<1> HIDE DEF step
<1>5. PICK f \in [0..N -> States] : Follows(f, N, Unexamined, step)
    BY <1>1, <1>4, Recursion, Zenon
<1> USE DEF step
<1>6. f[0] = Unexamined /\ \A n \in 1..N : f[n] = step[<<f[n - 1], n>>]
    BY <1>5 DEF Follows
<1>7. Told(f)
    <2>1. \A n \in 1..N : f[n] = R!ExamineNext(file, f[n - 1], n)
        <3> SUFFICES ASSUME NEW n \in 1..N PROVE f[n] = R!ExamineNext(file, f[n - 1], n)
            OBVIOUS
        <3>1. n \in 0..N /\ n # 0 /\ n - 1 \in 0..N
            BY <1>1
        <3>2. <<f[n - 1], n>> \in States \X (1..N)
            BY <3>1
        <3>3. f[n] = step[<<f[n - 1], n>>]
            BY <1>6, <3>1
        <3> QED
            BY <3>2, <3>3
    <2>2. f[0] = Unexamined
        BY <1>1, <1>6
    <2>3. \A n \in 0..N : f[n] = IF n = 0 THEN Unexamined ELSE R!ExamineNext(file, f[n - 1], n)
        BY <1>1, <2>1, <2>2
    <2> QED
        BY <2>3
<1>8. Told(at)
    <2> HIDE DEF Told
    <2> QED
        BY <1>7
<1> HIDE DEF at
<1>9. /\ at[0] = Unexamined
      /\ \A n \in 1..N : at[n] = R!ExamineNext(file, at[n - 1], n)
    BY <1>1, <1>8
<1>10. at \in [0..N -> States]
    <2> DEFINE typed == {n \in 0..N : at[n] \in States}
    <2>1. 0 \in typed
        BY <1>1, <1>9
    <2>2. ASSUME NEW n \in 0..N, n + 1 \in 0..N, n \in typed PROVE n + 1 \in typed
        <3>1. n + 1 \in 1..N /\ (n + 1) - 1 = n
            BY <2>2, <1>1
        <3>2. at[n + 1] = R!ExamineNext(file, at[n], n + 1)
            BY <1>9, <3>1
        <3> QED
            BY <1>2, <2>2, <3>1, <3>2
    <2> HIDE DEF typed
    <2>3. 0..N \subseteq typed
        BY <1>1, <2>1, <2>2, CountingUp
    <2>4. \A n \in 0..N : at[n] \in States
        BY <2>3 DEF typed
    <2>5. at = [n \in 0..N |-> at[n]]
        BY <1>8
    <2> QED
        BY <2>4, <2>5
<1>11. ExaminedAs(file, Entries, N, at)
    BY <1>3, <1>9, <1>10 DEF ExaminedAs, States
<1> QED
    BY <1>11 DEF N


Harmless == {Null, "invalid upstream"}

\* The fault found in a route, by those before it.
FaultOf(file, at, n) == R!RouteFault(file, file.routes[n], at[n - 1].ids, at[n - 1].exposed)

Before(file, n) == {file.routes[j].id : j \in 1..n}

\* What a route adds to the table.
Adds(file, at, n) ==
    /\ at[n].ids = at[n - 1].ids \cup
           (IF R!Taken(file.routes[n], FaultOf(file, at, n)) THEN {file.routes[n].id} ELSE {})
    /\ at[n].exposed = at[n - 1].exposed \cup
           (IF FaultOf(file, at, n) = Null /\ file.routes[n].expose.kind = "id"
            THEN {file.routes[n].expose.id} ELSE {})
    /\ at[n].routes = IF FaultOf(file, at, n) = Null
                      THEN Append(at[n - 1].routes, file.routes[n]) ELSE at[n - 1].routes
    /\ at[n].problems = at[n - 1].problems \cup
           (IF FaultOf(file, at, n) \in Harmless THEN {} ELSE {<<"route", n>>})

LEMMA NextExamined ==
    ASSUME NEW Entries, NEW file, NEW N \in Nat, NEW at, ExaminedAs(file, Entries, N, at),
           NEW n \in 1..N
    PROVE  Adds(file, at, n)
<1> DEFINE entry == file.routes[n]
           acc == at[n - 1]
           fault == FaultOf(file, at, n)
<1>1. at[n] = R!ExamineNext(file, acc, n)
    BY DEF ExaminedAs
<1>2. R!ExamineNext(file, acc, n) =
        [ids |-> acc.ids \cup (IF R!Taken(entry, fault) THEN {entry.id} ELSE {}),
         exposed |-> acc.exposed \cup
             (IF fault = Null /\ entry.expose.kind = "id" THEN {entry.expose.id} ELSE {}),
         routes |-> IF fault = Null THEN Append(acc.routes, entry) ELSE acc.routes,
         problems |-> acc.problems \cup (IF fault \in Harmless THEN {} ELSE {<<"route", n>>})]
    BY Zenon DEF R!ExamineNext, FaultOf, Harmless
<1> HIDE DEF entry, acc, fault
<1>3. /\ at[n].ids = acc.ids \cup (IF R!Taken(entry, fault) THEN {entry.id} ELSE {})
      /\ at[n].exposed = acc.exposed \cup
             (IF fault = Null /\ entry.expose.kind = "id" THEN {entry.expose.id} ELSE {})
      /\ at[n].routes = IF fault = Null THEN Append(acc.routes, entry) ELSE acc.routes
      /\ at[n].problems = acc.problems \cup (IF fault \in Harmless THEN {} ELSE {<<"route", n>>})
    BY <1>1, <1>2
<1> QED
    BY <1>3, Zenon DEF Adds, entry, acc, fault

\* An id taken is the id of a route before.
LEMMA IdsAreOfThoseBefore ==
    ASSUME NEW Entries, NEW file, NEW N \in Nat, NEW at, ExaminedAs(file, Entries, N, at)
    PROVE  \A n \in 0..N : at[n].ids \subseteq Before(file, n)
<1> DEFINE good == {n \in 0..N : at[n].ids \subseteq Before(file, n)}
<1>1. 0 \in good
    BY DEF ExaminedAs, Unexamined
<1>2. ASSUME NEW n \in 0..N, n + 1 \in 0..N, n \in good PROVE n + 1 \in good
    <2>1. n + 1 \in 1..N /\ (n + 1) - 1 = n /\ 1..n \subseteq 1..n + 1 /\ n + 1 \in 1..n + 1
        BY <1>2
    <2>2. Adds(file, at, n + 1)
        BY <2>1, NextExamined
    <2>3. at[n + 1].ids \subseteq at[n].ids \cup {file.routes[n + 1].id}
        BY <2>1, <2>2 DEF Adds
    <2>4. Before(file, n) \cup {file.routes[n + 1].id} \subseteq Before(file, n + 1)
        BY <2>1 DEF Before
    <2> QED
        BY <1>2, <2>3, <2>4
<1> HIDE DEF good
<1>3. 0..N \subseteq good
    BY <1>1, <1>2, CountingUp
<1> QED
    BY <1>3 DEF good

\* A problem of a route is a fault found in it.
LEMMA ProblemsAreFaults ==
    ASSUME NEW Entries, NEW file, NEW N \in Nat, NEW at, ExaminedAs(file, Entries, N, at),
           NEW i \in 1..N, FaultOf(file, at, i) \in Harmless
    PROVE  <<"route", i>> \notin at[N].problems
<1> DEFINE good == {n \in 0..N : <<"route", i>> \notin at[n].problems}
<1>1. 0 \in good
    BY DEF ExaminedAs, Unexamined
<1>2. ASSUME NEW n \in 0..N, n + 1 \in 0..N, n \in good PROVE n + 1 \in good
    <2>1. n + 1 \in 1..N /\ (n + 1) - 1 = n
        BY <1>2
    <2>2. at[n + 1].problems = at[n].problems \cup
              (IF FaultOf(file, at, n + 1) \in Harmless THEN {} ELSE {<<"route", n + 1>>})
        <3>1. Adds(file, at, n + 1)
            BY <2>1, NextExamined
        <3> QED
            BY <2>1, <3>1 DEF Adds
    <2>3. <<"route", i>> \in {<<"route", n + 1>>} => i = n + 1
        OBVIOUS
    <2> QED
        BY <1>2, <2>2, <2>3
<1> HIDE DEF good
<1>3. 0..N \subseteq good
    BY <1>1, <1>2, CountingUp
<1> QED
    BY <1>3 DEF good

\* And where none is left at the end, none was found.
LEMMA NoProblemNoFault ==
    ASSUME NEW Entries, NEW file, NEW N \in Nat, NEW at, ExaminedAs(file, Entries, N, at),
           at[N].problems = {}
    PROVE  \A n \in 1..N : FaultOf(file, at, n) \in Harmless
<1> DEFINE good == {k \in 0..N : at[N - k].problems = {}}
<1>1. 0 \in good
    OBVIOUS
<1>2. ASSUME NEW k \in 0..N, k + 1 \in 0..N, k \in good PROVE k + 1 \in good
    <2>1. N - k \in 1..N /\ (N - k) - 1 = N - (k + 1)
        BY <1>2
    <2>2. at[N - (k + 1)].problems \subseteq at[N - k].problems
        <3>1. Adds(file, at, N - k)
            BY <2>1, NextExamined
        <3> QED
            BY <2>1, <3>1 DEF Adds
    <2> QED
        BY <1>2, <2>2
<1> HIDE DEF good
<1>3. 0..N \subseteq good
    BY <1>1, <1>2, CountingUp
<1>4. ASSUME NEW n \in 1..N PROVE FaultOf(file, at, n) \in Harmless
    <2>1. N - n \in 0..N /\ N - (N - n) = n
        OBVIOUS
    <2>2. at[n].problems = {}
        BY <1>3, <2>1 DEF good
    <2>3. Adds(file, at, n)
        BY NextExamined
    <2> QED
        BY <2>2, <2>3 DEF Adds
<1> QED
    BY <1>4

-----------------------------------------------------------------------------
\* A parsed file: its upstreams are the members of an object, and a fault is not a lack of one.
Parsed(file, Entries) ==
    /\ file # NotJson
    /\ file.routes \in Seq(Entries)
    /\ \A u \in R!ToSet(file.upstreams) : u.url \in {"https", "http", "loopback", "malformed"}
    /\ \A u, v \in R!ToSet(file.upstreams) : u.id = v.id => u = v
    /\ \A u \in R!ToSet(file.upstreams) : u.id # Null
    /\ Null \notin Faults

\* An upstream without a fault.
Sound(u) == /\ u.object /\ u.adapter \in R!Adapters /\ u.reference
            /\ u.url \in {"https", "loopback"}

LEMMA SoundUpstreams ==
    ASSUME NEW file, NEW Entries, Parsed(file, Entries), R!UpstreamProblems(file) = {}
    PROVE  /\ \A u \in R!ToSet(file.upstreams) : Sound(u) /\ R!UpstreamFault(u) = Null
           /\ R!Known(file) = R!Declared(file)
<1>1. ASSUME NEW u \in R!ToSet(file.upstreams) PROVE Sound(u) /\ R!UpstreamFault(u) = Null
    <2>1. ~(R!UpstreamFault(u) # Null \/ (R!Plaintext(u) /\ u.adapter \in R!Adapters))
        <3>1. SUFFICES ASSUME R!UpstreamFault(u) # Null \/ (R!Plaintext(u) /\ u.adapter \in R!Adapters)
                       PROVE  <<"upstream", R!Id(u)>> \in R!UpstreamProblems(file)
            OBVIOUS
        <3> QED
            BY <1>1, <3>1, Zenon DEF R!UpstreamProblems
    <2>2. Null \notin Faults /\ u.url \in {"https", "http", "loopback", "malformed"}
        BY <1>1 DEF Parsed
    <2>3. u.object /\ u.adapter \in R!Adapters /\ u.url # "malformed" /\ u.reference
        BY <2>1, <2>2 DEF R!UpstreamFault, Faults
    <2>4. u.url # "http"
        BY <2>1, <2>2, <2>3 DEF R!Plaintext, Faults
    <2> QED
        BY <2>1, <2>2, <2>3, <2>4 DEF Sound
<1>2. R!Known(file) = R!Declared(file)
    BY <1>1, Zenon DEF R!Known, R!Declared
<1> QED
    BY <1>1, <1>2

\* A route in which no fault is found, where all upstreams are sound.
FaultlessRoute(file, at, n) ==
    /\ file.routes[n].id \notin at[n - 1].ids
    /\ file.routes[n].upstream \in {Null} \cup R!Declared(file)
    /\ file.routes[n].expose.kind = "id" => file.routes[n].expose.id \notin at[n - 1].exposed
    /\ FaultOf(file, at, n) = Null

LEMMA NoFaultNoFlaw ==
    ASSUME NEW file, NEW Entries, Parsed(file, Entries), R!Known(file) = R!Declared(file),
           NEW at, NEW n, FaultOf(file, at, n) \in Harmless
    PROVE  FaultlessRoute(file, at, n)
<1> DEFINE entry == file.routes[n]
           ids == at[n - 1].ids
           exposed == at[n - 1].exposed
           fault == R!RouteFault(file, entry, ids, exposed)
<1>1. Null \notin Faults
    BY DEF Parsed
<1>2. fault \in {Null, "invalid upstream"}
    BY DEF FaultOf, Harmless
<1> HIDE DEF entry, ids, exposed
<1>3. fault # "invalid upstream"
    BY <1>1 DEF R!RouteFault, Faults
<1>4. /\ entry.id \notin ids
      /\ entry.upstream \in {Null} \cup R!Declared(file)
      /\ entry.expose.kind = "id" => entry.expose.id \notin exposed
    BY <1>1, <1>2, <1>3 DEF R!RouteFault, Faults
<1>5. FaultOf(file, at, n) = Null
    BY <1>2, <1>3, Zenon DEF FaultOf, entry, ids, exposed
<1> QED
    BY <1>4, <1>5, Zenon DEF FaultlessRoute, entry, ids, exposed


\* What the table is after n routes without a fault.
Aliased(file, n) == {i \in 1..n : file.routes[i].expose.kind = "id"}
Aliases(file, n) == {file.routes[i].expose.id : i \in Aliased(file, n)}

WholeUpTo(file, at, n) ==
    /\ at[n].ids = Before(file, n)
    /\ at[n].exposed = Aliases(file, n)
    /\ Len(at[n].routes) = n
    /\ \A i \in 1..n : at[n].routes[i] = file.routes[i]

LEMMA TakenWhole ==
    ASSUME NEW Entries, NEW file, NEW N \in Nat, NEW at, ExaminedAs(file, Entries, N, at),
           Null \notin Faults,
           \A n \in 1..N : FaultOf(file, at, n) = Null
    PROVE  \A n \in 0..N : WholeUpTo(file, at, n)
<1> DEFINE good == {n \in 0..N : WholeUpTo(file, at, n)}
<1>1. 0 \in good
    <2>1. at[0].ids = {} /\ at[0].exposed = {} /\ at[0].routes = <<>>
        BY DEF ExaminedAs, Unexamined
    <2>2. Before(file, 0) = {} /\ Aliases(file, 0) = {}
        BY DEF Before, Aliases, Aliased
    <2>3. 0 \in 0..N /\ 1..0 = {} /\ Len(<<>>) = 0
        OBVIOUS
    <2> QED
        BY <2>1, <2>2, <2>3 DEF WholeUpTo
<1>2. ASSUME NEW n \in 0..N, n + 1 \in 0..N, n \in good PROVE n + 1 \in good
    <2> DEFINE entry == file.routes[n + 1]
    <2>1. /\ n + 1 \in 1..N /\ (n + 1) - 1 = n
          /\ 1..n + 1 = 1..n \cup {n + 1} /\ n + 1 \notin 1..n
        BY <1>2
    <2>2. Adds(file, at, n + 1) /\ FaultOf(file, at, n + 1) = Null /\ WholeUpTo(file, at, n)
        BY <1>2, <2>1, NextExamined
    <2>3. at[n].routes \in Seq(Entries)
        BY DEF ExaminedAs, Examinations
    <2>4. /\ at[n + 1].ids = at[n].ids \cup {entry.id}
          /\ at[n + 1].exposed = at[n].exposed \cup
                 (IF entry.expose.kind = "id" THEN {entry.expose.id} ELSE {})
          /\ at[n + 1].routes = Append(at[n].routes, entry)
        BY <2>1, <2>2 DEF Adds, R!Taken, Faults
    <2>5. Before(file, n + 1) = Before(file, n) \cup {entry.id}
        BY <2>1 DEF Before
    <2>6. Aliases(file, n + 1) = Aliases(file, n) \cup
              (IF entry.expose.kind = "id" THEN {entry.expose.id} ELSE {})
        BY <2>1 DEF Aliases, Aliased
    <2>7. Len(at[n + 1].routes) = n + 1
        BY <2>2, <2>3, <2>4 DEF WholeUpTo
    <2>8. \A i \in 1..n + 1 : at[n + 1].routes[i] = file.routes[i]
        BY <2>1, <2>2, <2>3, <2>4 DEF WholeUpTo
    <2> QED
        BY <1>2, <2>2, <2>4, <2>5, <2>6, <2>7, <2>8 DEF WholeUpTo
<1> HIDE DEF good
<1>3. 0..N \subseteq good
    BY <1>1, <1>2, CountingUp
<1> QED
    BY <1>3 DEF good

\* Names all different are as many as the things named.
LEMMA AsManyNames ==
    ASSUME NEW things, IsFiniteSet(things), NEW name, DOMAIN name = things,
           \A i, j \in things : name[i] = name[j] => i = j
    PROVE  Cardinality({name[i] : i \in things}) = Cardinality(things)
<1> DEFINE names == {name[i] : i \in things}
           f == [i \in things |-> name[i]]
<1>1. f \in [things -> names] /\ \A i \in things : f[i] = name[i]
    OBVIOUS
<1> HIDE DEF f
<1>2. f \in Bijection(things, names)
    <2>1. IsInjective(f)
        BY <1>1 DEF IsInjective
    <2>2. \A t \in names : \E i \in things : f[i] = t
        BY <1>1
    <2> QED
        BY <1>1, <2>1, <2>2 DEF Bijection, Injection, Surjection
<1> HIDE DEF names
<1>3. ExistsBijection(things, names)
    BY <1>2 DEF ExistsBijection
<1> QED
    BY <1>3, FS_Bijection DEF names

LEMMA RoutesCount == \A x : R!Cardinality(x) = Cardinality(x)
BY Zenon DEF R!Cardinality, Cardinality


\* What a file without a problem was examined as.
LEMMA ValidIsWhole ==
    ASSUME NEW file, NEW Entries, Parsed(file, Entries), R!Valid(file),
           NEW N, N = Len(file.routes), NEW at, ExaminedAs(file, Entries, N, at)
    PROVE  /\ \A n \in 1..N : FaultlessRoute(file, at, n)
           /\ \A n \in 0..N : WholeUpTo(file, at, n)
<1>1. N \in Nat /\ Null \notin Faults
    BY DEF Parsed
<1>2. R!UpstreamProblems(file) = {} /\ R!RouteProblems(file) = {}
    BY DEF R!Valid, R!Problems, Parsed
<1>3. R!Known(file) = R!Declared(file)
    BY <1>2, SoundUpstreams
<1>4. at[N].problems = {}
    BY <1>2, Zenon DEF R!RouteProblems, ExaminedAs
<1>5. \A n \in 1..N : FaultOf(file, at, n) \in Harmless
    BY <1>1, <1>4, NoProblemNoFault
<1>6. \A n \in 1..N : FaultlessRoute(file, at, n)
    BY <1>3, <1>5, NoFaultNoFlaw
<1>7. \A n \in 1..N : FaultOf(file, at, n) = Null
    BY <1>6, Zenon DEF FaultlessRoute
<1>8. \A n \in 0..N : WholeUpTo(file, at, n)
    BY <1>1, <1>7, TakenWhole
<1> QED
    BY <1>6, <1>8

\* No two routes have one id, and no two offer one alias.
LEMMA NamesDiffer ==
    ASSUME NEW file, NEW N \in Nat, NEW at,
           \A n \in 1..N : FaultlessRoute(file, at, n),
           \A n \in 0..N : WholeUpTo(file, at, n)
    PROVE  /\ \A i, j \in 1..N : file.routes[i].id = file.routes[j].id => i = j
           /\ \A i, j \in Aliased(file, N) :
                 file.routes[i].expose.id = file.routes[j].expose.id => i = j
<1>1. ASSUME NEW i \in 1..N, NEW j \in 1..N, i < j
      PROVE  /\ file.routes[i].id # file.routes[j].id
             /\ i \in Aliased(file, N) /\ j \in Aliased(file, N) =>
                   file.routes[i].expose.id # file.routes[j].expose.id
    <2>1. j - 1 \in 0..N /\ i \in 1..j - 1
        BY <1>1
    <2>2. /\ file.routes[j].id \notin at[j - 1].ids
          /\ file.routes[j].expose.kind = "id" => file.routes[j].expose.id \notin at[j - 1].exposed
        BY Zenon DEF FaultlessRoute
    <2>3. at[j - 1].ids = Before(file, j - 1) /\ at[j - 1].exposed = Aliases(file, j - 1)
        BY <2>1, Zenon DEF WholeUpTo
    <2>4. file.routes[i].id \in Before(file, j - 1)
        BY <2>1 DEF Before
    <2>5. i \in Aliased(file, N) => file.routes[i].expose.id \in Aliases(file, j - 1)
        BY <2>1 DEF Aliases, Aliased
    <2>6. j \in Aliased(file, N) => file.routes[j].expose.kind = "id"
        BY DEF Aliased
    <2> QED
        BY <2>2, <2>3, <2>4, <2>5, <2>6, Zenon
<1>2. \A i, j \in 1..N : i = j \/ i < j \/ j < i
    OBVIOUS
<1>3. Aliased(file, N) \subseteq 1..N
    BY DEF Aliased
<1> QED
    BY <1>1, <1>2, <1>3

\* Whatever its length, a file that is taken can be honoured whole.
THEOREM TakenFileIsHonourable ==
    ASSUME NEW file, NEW Entries, Parsed(file, Entries), R!Valid(file)
    PROVE  R!Honourable(file)
<1> DEFINE N == Len(file.routes)
           routes == file.routes
<1>1. PICK at : ExaminedAs(file, Entries, N, at)
    BY ExaminedInOrder DEF Parsed
<1>2. N \in Nat /\ routes \in Seq(Entries) /\ DOMAIN routes = 1..N /\ routes \in [1..N -> Entries]
    BY DEF Parsed
<1>3. R!Examine(file) = at[N] /\ at \in [0..N -> Examinations(Entries)]
    BY <1>1, Zenon DEF ExaminedAs
<1>4. /\ \A n \in 1..N : FaultlessRoute(file, at, n)
      /\ \A n \in 0..N : WholeUpTo(file, at, n)
    <2> HIDE DEF N
    <2>1. N = Len(file.routes)
        BY DEF N
    <2> QED
        BY <1>1, <2>1, ValidIsWhole
<1> HIDE DEF N
<1>5. R!UpstreamProblems(file) = {} /\ R!DeadUpstreams(file) = {}
    BY DEF R!Valid, R!Problems, Parsed
<1>6. R!AcceptedRoutes(file) = routes
    <2>1. N \in 0..N
        BY <1>2
    <2>2. WholeUpTo(file, at, N)
        BY <1>4, <2>1
    <2>3. at[N].routes \in Seq(Entries)
        BY <1>3, <2>1 DEF Examinations
    <2> DEFINE taken == at[N].routes
    <2>4. Len(taken) = N /\ \A i \in 1..N : taken[i] = routes[i]
        BY <2>2, Zenon DEF WholeUpTo
    <2>5. R!AcceptedRoutes(file) = taken
        BY <1>3, Zenon DEF R!AcceptedRoutes
    <2> HIDE DEF taken
    <2>6. taken \in Seq(Entries)
        BY <2>3 DEF taken
    <2>7. Len(routes) = N
        BY DEF N
    <2>8. taken = routes
        BY <1>2, <2>4, <2>6, <2>7
    <2> QED
        BY <2>5, <2>8
<1>7. /\ \A i, j \in 1..N : routes[i].id = routes[j].id => i = j
      /\ \A i, j \in Aliased(file, N) : routes[i].expose.id = routes[j].expose.id => i = j
    BY <1>2, <1>4, NamesDiffer
<1>8. IsFiniteSet(1..N) /\ Cardinality(1..N) = N
    BY <1>2, FS_Interval
<1>9. Cardinality({routes[i].id : i \in 1..N}) = N
    <2> DEFINE all == 1..N
               name == [i \in all |-> routes[i].id]
    <2>1. \A i \in all : name[i] = routes[i].id
        OBVIOUS
    <2>2. DOMAIN name = all
        OBVIOUS
    <2>3. {name[i] : i \in all} = {routes[i].id : i \in all}
        OBVIOUS
    <2> HIDE DEF name, all
    <2>4. IsFiniteSet(all) /\ Cardinality(all) = N
        BY <1>8 DEF all
    <2>5. \A i, j \in all : name[i] = name[j] => i = j
        BY <1>7, <2>1 DEF all
    <2>6. Cardinality({name[i] : i \in all}) = Cardinality(all)
        BY <2>2, <2>4, <2>5, AsManyNames
    <2> QED
        BY <2>3, <2>4, <2>6 DEF all
<1>10. Cardinality({routes[i].expose.id : i \in Aliased(file, N)}) = Cardinality(Aliased(file, N))
    <2> DEFINE aliased == Aliased(file, N)
               name == [i \in aliased |-> routes[i].expose.id]
    <2>1. \A i \in aliased : name[i] = routes[i].expose.id
        OBVIOUS
    <2>2. DOMAIN name = aliased
        OBVIOUS
    <2>3. {name[i] : i \in aliased} = {routes[i].expose.id : i \in aliased}
        OBVIOUS
    <2>4. aliased \subseteq 1..N
        BY DEF Aliased
    <2> HIDE DEF name, aliased
    <2>5. IsFiniteSet(aliased)
        BY <1>8, <2>4, FS_Subset
    <2>6. \A i, j \in aliased : name[i] = name[j] => i = j
        BY <1>7, <2>1 DEF aliased
    <2>7. Cardinality({name[i] : i \in aliased}) = Cardinality(aliased)
        BY <2>2, <2>5, <2>6, AsManyNames
    <2> QED
        BY <2>3, <2>7 DEF aliased
<1>11. \A u \in R!ToSet(file.upstreams) : Sound(u)
    BY <1>5, SoundUpstreams
<1>12. \A r \in R!ToSet(routes) : r.upstream = Null \/ r.upstream \in R!Declared(file)
    <2>1. \A n \in 1..N : routes[n].upstream \in {Null} \cup R!Declared(file)
        BY <1>4, Zenon DEF FaultlessRoute
    <2> QED
        BY <1>2, <2>1 DEF R!ToSet
<1>13. ASSUME NEW u \in R!ToSet(file.upstreams), u.adapter = "fireworks"
       PROVE  \E r \in R!ToSet(routes) : r.upstream = u.id
    <2>1. R!Id(u) \in R!Known(file)
        BY <1>5, SoundUpstreams, Zenon DEF R!Declared
    <2>2. u.adapter # "anthropic"
        BY <1>13
    <2>3. ~ \A r \in R!ToSet(R!AcceptedRoutes(file)) : r.upstream # R!Id(u)
        <3>1. SUFFICES ASSUME \A r \in R!ToSet(R!AcceptedRoutes(file)) : r.upstream # R!Id(u)
                       PROVE  <<"dead", R!Id(u)>> \in R!DeadUpstreams(file)
            BY <1>5
        <3> QED
            BY <2>1, <2>2, <3>1, Zenon DEF R!DeadUpstreams
    <2> QED
        BY <1>6, <2>3, Zenon DEF R!Id
<1>14. R!Unique(DOMAIN routes, LAMBDA i : routes[i].id, Len(routes))
    BY <1>2, <1>9, RoutesCount DEF R!Unique, N
<1>15. LET aliased == {i \in DOMAIN routes : routes[i].expose.kind = "id"}
       IN  R!Unique(aliased, LAMBDA i : routes[i].expose.id, R!Cardinality(aliased))
    BY <1>2, <1>10, RoutesCount DEF R!Unique, Aliased
<1> QED
    BY <1>6, <1>11, <1>12, <1>13, <1>14, <1>15 DEF R!Honourable, Sound


\* Nor are the routes of a faulty upstream faulty for it.
THEOREM EachFaultOnce ==
    ASSUME NEW file, NEW Entries, Parsed(file, Entries)
    PROVE  R!OneCause(file)
<1> SUFFICES ASSUME NEW u \in R!ToSet(file.upstreams), R!UpstreamFault(u) # Null
             PROVE  /\ <<"dead", R!Id(u)>> \notin R!Problems(file)
                    /\ \A i \in DOMAIN file.routes :
                          /\ file.routes[i].upstream = R!Id(u)
                          /\ file.routes[i].id # Null
                          /\ file.routes[i].match = "good"
                          /\ \A j \in 1..(i - 1) : file.routes[j].id # file.routes[i].id
                          => <<"route", i>> \notin R!Problems(file)
    BY Zenon DEF R!OneCause
<1> DEFINE N == Len(file.routes)
<1>1. PICK at : ExaminedAs(file, Entries, N, at)
    BY ExaminedInOrder DEF Parsed
<1>2. N \in Nat /\ DOMAIN file.routes = 1..N /\ Null \notin Faults
    BY DEF Parsed
<1> HIDE DEF N
<1>3. /\ R!Id(u) \notin R!Known(file)
      /\ R!Id(u) \in R!Declared(file)
      /\ R!Id(u) # Null
    <2>1. \A v \in R!ToSet(file.upstreams) : R!Id(v) = R!Id(u) => v = u
        BY DEF Parsed, R!Id
    <2>2. R!Id(u) # Null
        BY DEF Parsed, R!Id
    <2> QED
        BY <2>1, <2>2, Zenon DEF R!Known, R!Declared
<1>4. R!Problems(file) = R!UpstreamProblems(file) \cup at[N].problems \cup R!DeadUpstreams(file)
    <2>1. file # NotJson
        BY DEF Parsed
    <2>2. R!Problems(file) =
            R!UpstreamProblems(file) \cup R!RouteProblems(file) \cup R!DeadUpstreams(file)
        BY <2>1, Zenon DEF R!Problems
    <2>3. R!RouteProblems(file) = at[N].problems
        BY <1>1, Zenon DEF R!RouteProblems, ExaminedAs
    <2> QED
        BY <2>2, <2>3
<1>5. at[N].problems \in SUBSET ({"route"} \X Nat)
    BY <1>1, <1>2 DEF ExaminedAs, Examinations
<1>6. \A x : /\ <<"dead", x>> \notin R!UpstreamProblems(file)
             /\ <<"route", x>> \notin R!UpstreamProblems(file) \cup R!DeadUpstreams(file)
    BY DEF R!UpstreamProblems, R!DeadUpstreams
<1>7. <<"dead", R!Id(u)>> \notin R!DeadUpstreams(file)
    BY <1>3 DEF R!DeadUpstreams
<1>8. <<"dead", R!Id(u)>> \notin R!Problems(file)
    <2>1. <<"dead", R!Id(u)>> \notin at[N].problems
        BY <1>5
    <2> QED
        BY <1>4, <1>6, <1>7, <2>1
<1>9. ASSUME NEW i \in DOMAIN file.routes,
             file.routes[i].upstream = R!Id(u), file.routes[i].id # Null,
             file.routes[i].match = "good",
             \A j \in 1..(i - 1) : file.routes[j].id # file.routes[i].id
      PROVE  <<"route", i>> \notin R!Problems(file)
    <2>1. i \in 1..N /\ i - 1 \in 0..N
        BY <1>2
    <2>2. file.routes[i].id \notin at[i - 1].ids
        <3>1. at[i - 1].ids \subseteq Before(file, i - 1)
            BY <1>1, <1>2, <2>1, IdsAreOfThoseBefore
        <3>2. file.routes[i].id \notin Before(file, i - 1)
            BY <1>9 DEF Before
        <3> QED
            BY <3>1, <3>2
    <2>3. FaultOf(file, at, i) = "invalid upstream"
        <3> DEFINE entry == file.routes[i]
                   ids == at[i - 1].ids
                   exposed == at[i - 1].exposed
        <3>1. /\ entry.id # Null /\ entry.id \notin ids /\ entry.match = "good"
              /\ entry.upstream \notin {Null} \cup R!Known(file)
              /\ entry.upstream \in R!Declared(file)
            BY <1>3, <1>9, <2>2
        <3> HIDE DEF entry, ids, exposed
        <3>2. R!RouteFault(file, entry, ids, exposed) = "invalid upstream"
            BY <3>1 DEF R!RouteFault
        <3> QED
            BY <3>2, Zenon DEF FaultOf, entry, ids, exposed
    <2>4. <<"route", i>> \notin at[N].problems
        <3>1. FaultOf(file, at, i) \in Harmless
            BY <2>3 DEF Harmless
        <3> QED
            BY <1>1, <1>2, <2>1, <3>1, ProblemsAreFaults
    <2> QED
        BY <1>4, <1>6, <2>4
<1> QED
    BY <1>8, <1>9

\* Every routing file that is asked about is a parsed one.
RoutesAsked == call.of = "routes" /\ call.file # NotJson => \E Entries : Parsed(call.file, Entries)

LEMMA RoutesAreAsked == AskRoutes => RoutesAsked'
<1> SUFFICES ASSUME AskRoutes, call'.file # NotJson PROVE \E Entries : Parsed(call'.file, Entries)
    BY DEF RoutesAsked
<1> DEFINE Asked(upstreams, routes) ==
               call' = [of |-> "routes", file |-> [upstreams |-> upstreams, routes |-> routes]]
           Shape(u, id) == u.id = id /\ u.url \in {"https", "http", "loopback", "malformed"}
<1>1. \A id : \A u \in Upstreams(id) : Shape(u, id)
    BY DEF Upstreams, Upstream
<1>2. Null \notin Faults /\ Null # "u1" /\ Null # "u2"
    BY AlgorithmsAssumption
<1>3. ASSUME NEW u1, NEW u2, Shape(u1, "u1"), Shape(u2, "u2"), NEW Entries,
             NEW routes \in Seq(Entries), Asked(<<u1, u2>>, routes)
      PROVE  Parsed(call'.file, Entries)
    <2>1. call'.file.upstreams = <<u1, u2>> /\ call'.file.routes = routes
        BY <1>3
    <2>2. R!ToSet(call'.file.upstreams) = {u1, u2}
        BY <2>1 DEF R!ToSet
    <2>3. u1.id # u2.id
        BY <1>3
    <2> QED
        BY <1>2, <1>3, <2>1, <2>2, <2>3 DEF Parsed
<1> HIDE DEF Shape
<1>4. ASSUME NEW first, NEW u1, NEW u2, Shape(u1, "u1"), Shape(u2, "u2"), Asked(<<u1, u2>>, <<first>>)
      PROVE  \E Entries : Parsed(call'.file, Entries)
    <2>1. <<first>> \in Seq({first})
        OBVIOUS
    <2> QED
        BY <1>3, <1>4, <2>1
<1>5. ASSUME NEW first, NEW second, NEW u1, NEW u2, Shape(u1, "u1"), Shape(u2, "u2"),
             Asked(<<u1, u2>>, <<first, second>>)
      PROVE  \E Entries : Parsed(call'.file, Entries)
    <2>1. <<first, second>> \in Seq({first, second})
        OBVIOUS
    <2> QED
        BY <1>3, <1>5, <2>1
<1>6. CASE call' = [of |-> "routes", file |-> NotJson]
    BY <1>6
<1>7. \/ call' = [of |-> "routes", file |-> NotJson]
      \/ \E first, u1, u2 : Shape(u1, "u1") /\ Shape(u2, "u2") /\ Asked(<<u1, u2>>, <<first>>)
      \/ \E first, second, u1, u2 :
            Shape(u1, "u1") /\ Shape(u2, "u2") /\ Asked(<<u1, u2>>, <<first, second>>)
    BY <1>1, Zenon DEF AskRoutes
<1> QED
    BY <1>4, <1>5, <1>6, <1>7

\* A step that asks about a routing file is AskRoutes.
LEMMA RoutesQuestion ==
    ASSUME [Next]_algorithmVars
    PROVE  AskRoutes \/ call'.of # "routes" \/ UNCHANGED call
<1>1. AskEdge \/ AskView => call'.of # "routes"
    <2>1. AskEdge => call'.of # "routes"
        BY DEF AskEdge
    <2>2. AskView => \E asked : call' = [of |-> "view", table |-> asked]
        BY Zenon DEF AskView
    <2> QED
        BY <2>1, <2>2
<1>2. Ask => AskRoutes \/ call'.of # "routes"
    BY <1>1, QuestionsOfTopics DEF Ask
<1>3. Answer => call'.of # "routes"
    BY DEF Answer, Idle
<1> QED
    BY <1>2, <1>3 DEF Next, TableMoves, algorithmVars

\* TakenIsHonourable of the run, from the theorems that hold of every file.
THEOREM EveryTakenFileIsHonourable == Spec => []TakenIsHonourable
<1>1. Init => RoutesAsked
    BY DEF Init, About, RoutesAsked
<1>2. RoutesAsked /\ [Next]_algorithmVars => RoutesAsked'
    <2> SUFFICES ASSUME RoutesAsked, [Next]_algorithmVars PROVE RoutesAsked'
        OBVIOUS
    <2>1. CASE AskRoutes
        BY <2>1, RoutesAreAsked
    <2>2. CASE call'.of # "routes"
        BY <2>2 DEF RoutesAsked
    <2>3. CASE UNCHANGED call
        BY <2>3 DEF RoutesAsked
    <2> QED
        BY <2>1, <2>2, <2>3, RoutesQuestion
<1>3. RoutesAsked => TakenIsHonourable
    BY TakenFileIsHonourable, EachFaultOnce DEF RoutesAsked, TakenIsHonourable
<1> QED
    BY <1>1, <1>2, <1>3, PTL DEF Spec

-----------------------------------------------------------------------------
(* Launch: fest claude, fest copilot and fest codex *)

\* What is put on is there, and what is taken off is not; the rest stays.
LEMMA WithSays ==
    ASSUME NEW env, NEW vars, NEW name
    PROVE  /\ E!Get(E!With(env, vars), name) =
                 IF name \in DOMAIN vars THEN vars[name] ELSE E!Get(env, name)
           /\ name \in DOMAIN vars => E!With(env, vars)[name] = vars[name]
           /\ name \in DOMAIN env \ DOMAIN vars => E!With(env, vars)[name] = env[name]
BY DEF E!Get, E!With

LEMMA UnsetSays ==
    ASSUME NEW env, NEW names, NEW name
    PROVE  E!Get(E!Unset(env, names), name) = IF name \in names THEN NULL ELSE E!Get(env, name)
BY DEF E!Get, E!Unset, E!Restrict

\* At most one segment of tags, and a path that begins with none and with no identity.
Tagged(tags) == tags = <<>> \/ \E tag \in TagSegments : tags = <<tag>>
Plainly(rest) == rest # <<>> /\ Head(rest) \notin TagSegments \cup {"t", "fest"}

\* What is left of a path is what follows the identity and the tags.
LEMMA PathComesOff ==
    ASSUME NEW Pieces, NEW token \in Pieces, "t" \in Pieces, {"t", "fest"} \cap TagSegments = {},
           NEW tags \in Seq(Pieces), Tagged(tags), NEW rest \in Seq(Pieces), Plainly(rest)
    PROVE  /\ E!ParseIdentityPath(tags \o rest).token = NULL
           /\ E!ParseIdentityPath(tags \o rest).remainder = rest
           /\ E!ParseIdentityPath((<<"t", token>> \o tags) \o rest).token = token
           /\ E!ParseIdentityPath((<<"t", token>> \o tags) \o rest).remainder = rest
<1> DEFINE q == tags \o rest
           named == <<"t", token>>
           p == named \o q
<1>1. q \in Seq(Pieces) /\ named \in Seq(Pieces)
    OBVIOUS
<1>2. (named \o tags) \o rest = p
    BY <1>1, ConcatAssociative
<1>3. /\ E!SplitTagSegment(q).rest = rest
      /\ q # <<>> /\ Head(q) \notin {"t", "fest"}
    <2>1. CASE tags = <<>>
        <3>1. q = rest
            BY <2>1
        <3> HIDE DEF q
        <3> QED
            BY <3>1 DEF E!SplitTagSegment, Plainly
    <2>2. ASSUME NEW tag \in TagSegments, tags = <<tag>>
          PROVE  E!SplitTagSegment(q).rest = rest /\ q # <<>> /\ Head(q) \notin {"t", "fest"}
        <3>1. tag \in Pieces
            BY <2>2
        <3>2. Len(q) = 1 + Len(rest) /\ q[1] = tag
            BY <2>2, <3>1
        <3>3. q # <<>> /\ Head(q) = tag
            BY <1>1, <3>2
        <3>4. Tail(q) = rest
            BY <2>2, <3>1
        <3> HIDE DEF q
        <3> QED
            BY <2>2, <3>3, <3>4 DEF E!SplitTagSegment
    <2> QED
        BY <2>1, <2>2 DEF Tagged
<1>4. /\ E!ParseIdentityPath(q).token = NULL
      /\ E!ParseIdentityPath(q).remainder = rest
    <2> HIDE DEF q
    <2> QED
        BY <1>3 DEF E!ParseIdentityPath
<1>5. /\ p \in Seq(Pieces) /\ Len(p) = Len(q) + 2 /\ Len(q) \in Nat
      /\ p[1] = "t" /\ p[2] = token /\ \A i \in 1..Len(q) : p[i + 2] = q[i]
    <2> HIDE DEF q
    <2> QED
        BY <1>1
<1> HIDE DEF p, q, named
<1>6. Head(p) = "t" /\ p # <<>> /\ Len(p) >= 2
    BY <1>5
<1>7. E!Rest(p, 2) = q
    <2> DEFINE s == SubSeq(p, 3, Len(p))
    <2>1. E!Rest(p, 2) = s
        BY DEF E!Rest
    <2>2. s \in Seq(Pieces) /\ Len(s) = Len(q)
        BY <1>5
    <2>3. \A i \in 1..Len(q) : s[i] = q[i]
        BY <1>5
    <2> HIDE DEF s
    <2>4. s = q
        BY <1>1, <2>2, <2>3, SeqEqual
    <2> QED
        BY <2>1, <2>4
<1>8. /\ E!ParseIdentityPath(p).token = token
      /\ E!ParseIdentityPath(p).remainder = rest
    BY <1>3, <1>5, <1>6, <1>7 DEF E!ParseIdentityPath
<1> QED
    BY <1>2, <1>4, <1>8 DEF q, named

\* A gateway under no path of its own, with the mounts a client may ask and something to route.
Serving(cfg) ==
    /\ cfg.base = <<>> /\ cfg.routed = TRUE
    /\ cfg.hosts["copilot"] # NULL /\ cfg.hosts["openai"] # NULL /\ cfg.hosts["chatgpt"] # NULL

\* A request that asks for `rest` by a token that resolves and with `credential`.
AsksBy(req, token, rest, credential) ==
    /\ req.method = "POST" /\ req.body = "plain"
    /\ E!ParseIdentityPath(req.path).remainder = rest
    /\ E!DetectInbound(req.path, req).token = token
    /\ E!DetectInbound(req.path, req).credential = credential

\* The relay sends and meters it, whatever the mount gives it.
LEMMA RelayTakes ==
    ASSUME NEW cfg, NEW req, NEW token \in Resolving, NEW rest, NEW credential, credential # NULL,
           AsksBy(req, token, rest, credential), NEW host, NEW override, NEW wire
    PROVE  /\ E!HandleMessages(cfg, req, host, override, wire).kind = "sent"
           /\ E!HandleMessages(cfg, req, host, override, wire).metered = TRUE
<1> DEFINE inbound == E!DetectInbound(req.path, req)
<1>1. inbound.token \in Resolving /\ inbound.credential # NULL /\ ~E!TooLarge(req)
    BY DEF AsksBy, E!TooLarge
<1> HIDE DEF inbound
<1>2. ~E!Denied(inbound, cfg.require)
    BY <1>1 DEF E!Denied
<1>3. E!HandleMessages(cfg, req, host, override, wire) =
        E!SentTo(host, IF override = NULL THEN inbound.path ELSE override,
                 E!BuildUpstreamHeaders(E!InboundHeaders(req), wire = "anthropic"), wire, TRUE)
    BY <1>1, <1>2 DEF E!HandleMessages, inbound
<1> QED
    BY <1>3 DEF E!SentTo

\* Where the table has something to decide, it decides.
LEMMA AnthropicTaken ==
    ASSUME NEW cfg, Serving(cfg), NEW req, NEW token \in Resolving, NEW credential,
           AsksBy(req, token, <<"v1", "messages">>, credential)
    PROVE  E!Handle(cfg, req).kind = "dispatched"
<1> DEFINE path == E!ParseIdentityPath(E!StripBasePath(req.path, cfg.base)).remainder
           dispatched == [kind |-> "dispatched", inbound |-> E!DetectInbound(req.path, req),
                          model |-> E!Peeked(req, FALSE)]
<1>1. path = <<"v1", "messages">>
    BY DEF Serving, AsksBy, E!StripBasePath
<1>2. req.method = "POST" /\ cfg.routed = TRUE
    BY DEF AsksBy, Serving
<1> HIDE DEF path
<1>3. Head(path) = "v1" /\ path # <<>>
    BY <1>1
<1>4. E!OwnAnswer(cfg, req, path) = E!NotMine
    BY <1>1, <1>2, <1>3 DEF E!OwnAnswer, E!Under
<1>5. E!OfMount(cfg, req, path) = E!NotMine
    BY <1>1, <1>3 DEF E!OfMount, E!Under
<1>6. E!AnthropicPath(cfg, req, path) = dispatched
    BY <1>1, <1>2 DEF E!AnthropicPath
<1>7. dispatched # E!NotMine /\ dispatched.kind = "dispatched"
    BY DEF E!NotMine
<1> HIDE DEF dispatched
<1>8. E!Handle(cfg, req) = dispatched
    BY <1>4, <1>5, <1>6, <1>7 DEF E!Handle, path
<1> QED
    BY <1>7, <1>8

LEMMA PrefixOfItself ==
    ASSUME NEW Pieces, NEW s \in Seq(Pieces)
    PROVE  E!IsPrefix(s, s)
<1>1. SubSeq(s, 1, Len(s)) = s
    OBVIOUS
<1> QED
    BY <1>1 DEF E!IsPrefix

\* An answer that the relay sends and meters.
Relayed(answer) == answer.kind = "sent" /\ answer.metered = TRUE

LEMMA MountHandles ==
    ASSUME NEW cfg, NEW req, NEW rest, Serving(cfg), E!ParseIdentityPath(req.path).remainder = rest,
           E!OwnAnswer(cfg, req, rest) = E!NotMine, Relayed(E!OfMount(cfg, req, rest))
    PROVE  Relayed(E!Handle(cfg, req))
<1> DEFINE answer == E!OfMount(cfg, req, rest)
<1>1. E!ParseIdentityPath(E!StripBasePath(req.path, cfg.base)).remainder = rest
    BY DEF Serving, E!StripBasePath
<1>2. answer # E!NotMine
    <2>1. E!NotMine.kind = "not mine"
        BY DEF E!NotMine
    <2>2. answer.kind = "sent"
        BY DEF Relayed
    <2> QED
        BY <2>1, <2>2
<1>3. E!Handle(cfg, req) = answer
    BY <1>1, <1>2 DEF E!Handle
<1> QED
    BY <1>3

\* A mount takes its own client's first request to the relay.
LEMMA MountTaken ==
    ASSUME NEW cfg, Serving(cfg), NEW req, NEW token \in Resolving,
           NEW credential, credential # NULL, NEW rest, AsksBy(req, token, rest, credential),
           \/ rest = <<"openai", "v1", "responses">>
           \/ rest = <<"chatgpt", "backend-api", "codex", "responses">>
           \/ \E plan \in E!CopilotPlans : rest = <<"copilot", plan, "v1", "messages">>
    PROVE  Relayed(E!Handle(cfg, req))
<1>1. E!ParseIdentityPath(req.path).remainder = rest
    BY DEF AsksBy
<1>2. req.method = "POST" /\ ~E!Denied(E!DetectInbound(req.path, req), cfg.require)
    BY DEF AsksBy, E!Denied
<1>3. \A host, override, how : Relayed(E!HandleMessages(cfg, req, host, override, how))
    BY RelayTakes DEF Relayed
<1>4. CASE rest = <<"openai", "v1", "responses">>
    <2> DEFINE after == Tail(rest)
    <2>1. Head(rest) = "openai" /\ rest # <<>> /\ Len(rest) = 3
        BY <1>4
    <2>2. after = <<"v1", "responses">> /\ after \in Seq({"v1", "responses"})
        BY <1>4
    <2>3. E!OwnAnswer(cfg, req, rest) = E!NotMine
        BY <1>2, <1>4, <2>1 DEF E!OwnAnswer, E!Under
    <2>4. E!OfMount(cfg, req, rest) = E!HandleCodex(cfg, req, "openai", after)
        BY <2>1 DEF E!OfMount, E!Under
    <2> HIDE DEF after
    <2>5. E!CodexPaths("openai").responses = after
        BY <2>2 DEF E!CodexPaths
    <2>6. E!IsPrefix(E!CodexPaths("openai").responses, after)
        BY <2>2, <2>5, PrefixOfItself
    <2>7. E!HandleCodex(cfg, req, "openai", after) =
            E!HandleMessages(cfg, req, cfg.hosts["openai"], after, "codex")
        BY <1>2, <2>6 DEF E!HandleCodex, Serving
    <2> QED
        BY <1>1, <1>3, <2>3, <2>4, <2>7, MountHandles
<1>5. CASE rest = <<"chatgpt", "backend-api", "codex", "responses">>
    <2> DEFINE after == Tail(rest)
    <2>1. Head(rest) = "chatgpt" /\ rest # <<>> /\ Len(rest) = 4
        BY <1>5
    <2>2. /\ after = <<"backend-api", "codex", "responses">>
          /\ after \in Seq({"backend-api", "codex", "responses"})
        BY <1>5
    <2>3. E!OwnAnswer(cfg, req, rest) = E!NotMine
        BY <1>2, <1>5, <2>1 DEF E!OwnAnswer, E!Under
    <2>4. E!OfMount(cfg, req, rest) = E!HandleCodex(cfg, req, "chatgpt", after)
        BY <2>1 DEF E!OfMount, E!Under
    <2> HIDE DEF after
    <2>5. E!CodexPaths("chatgpt").responses = after
        BY <2>2 DEF E!CodexPaths
    <2>6. E!IsPrefix(E!CodexPaths("chatgpt").responses, after)
        BY <2>2, <2>5, PrefixOfItself
    <2>7. E!HandleCodex(cfg, req, "chatgpt", after) =
            E!HandleMessages(cfg, req, cfg.hosts["chatgpt"], after, "codex")
        BY <1>2, <2>6 DEF E!HandleCodex, Serving
    <2> QED
        BY <1>1, <1>3, <2>3, <2>4, <2>7, MountHandles
<1>6. ASSUME NEW plan \in E!CopilotPlans, rest = <<"copilot", plan, "v1", "messages">>
      PROVE  Relayed(E!Handle(cfg, req))
    <2> DEFINE after == Tail(rest)
               wire == Tail(after)
    <2>1. Head(rest) = "copilot" /\ rest # <<>> /\ Len(rest) = 4
        BY <1>6
    <2>2. after = <<plan, "v1", "messages">>
        BY <1>6
    <2>3. E!OwnAnswer(cfg, req, rest) = E!NotMine
        BY <1>2, <1>6, <2>1 DEF E!OwnAnswer, E!Under
    <2>4. E!OfMount(cfg, req, rest) = E!HandleCopilot(cfg, req, after)
        BY <2>1 DEF E!OfMount, E!Under
    <2> HIDE DEF after
    <2>5. after # <<>> /\ Head(after) = plan /\ wire = <<"v1", "messages">>
        BY <2>2
    <2> HIDE DEF wire
    <2>6. E!CopilotWire(req, wire)
        BY <1>2, <2>5 DEF E!CopilotWire
    <2>7. E!HandleCopilot(cfg, req, after) =
            E!HandleMessages(cfg, req, E!CopilotUpstream(cfg.hosts["copilot"], plan), wire, "copilot")
        BY <1>2, <1>6, <2>5, <2>6 DEF E!HandleCopilot, Serving, wire
    <2> QED
        BY <1>1, <1>3, <2>3, <2>4, <2>7, MountHandles
<1> QED
    BY <1>4, <1>5, <1>6

-----------------------------------------------------------------------------

\* Whoever a request names in the position with the best claim asks it.
LEMMA NamesWhoAsks ==
    ASSUME NEW req, NEW token, E!Given(token),
           LET named == E!ParseIdentityPath(req.path).token
           IN  \/ named = token
               \/ named = NULL /\ req.fest = token
               \/ named = NULL /\ req.fest = NULL /\ req.auth = token /\ token \in FestTokens
    PROVE  E!DetectInbound(req.path, req).token = token
<1> DEFINE fromPath == E!ParseIdentityPath(req.path)
<1> HIDE DEF fromPath
<1>1. token # NULL /\ token # "blank"
    BY DEF E!Given
<1>2. CASE fromPath.token = token
    <2>1. E!Carrier(fromPath, req) = "path"
        BY <1>1, <1>2 DEF E!Carrier
    <2> QED
        BY <1>2, <2>1 DEF E!DetectInbound, fromPath
<1>3. CASE fromPath.token = NULL /\ req.fest = token
    <2>1. E!Carrier(fromPath, req) = "header"
        BY <1>1, <1>3 DEF E!Carrier, E!Given
    <2> QED
        BY <1>3, <2>1 DEF E!DetectInbound, fromPath
<1>4. CASE fromPath.token = NULL /\ req.fest = NULL /\ req.auth = token /\ token \in FestTokens
    <2>1. E!TokenFromAuthHeader(req) = token
        BY <1>1, <1>4 DEF E!TokenFromAuthHeader, E!Presented, E!Given
    <2>2. E!Carrier(fromPath, req) = "auth_header"
        BY <1>1, <1>4, <2>1 DEF E!Carrier, E!Given
    <2> QED
        BY <2>1, <2>2 DEF E!DetectInbound, fromPath
<1> QED
    BY <1>2, <1>3, <1>4 DEF fromPath

\* What pays is in one of the two positions, and nothing that could pay is in the other.
LEMMA PaysWithItsOwn ==
    ASSUME NEW req, NEW pays,
           \/ pays = NULL /\ req.auth \in FestTokens /\ req.key = NULL
           \/ pays # "blank" /\ pays \notin FestTokens \cup {NULL} /\
              (req.auth = pays \/ (req.auth = NULL /\ req.key = pays))
    PROVE  E!DetectInbound(req.path, req).credential = pays
<1>1. E!UpstreamCredential(req) = pays
    BY DEF E!UpstreamCredential, E!Given
<1> QED
    BY <1>1 DEF E!DetectInbound

LEMMA TakenAsAnnounced ==
    ASSUME NEW cfg, Serving(cfg), NEW token \in Resolving, NEW start, NEW req, NEW rest,
           E!FirstRequest(start) = req, AsksBy(req, token, rest, start.pays),
           \/ rest = <<"v1", "messages">>
           \/ start.pays # NULL /\
              (\/ rest = <<"openai", "v1", "responses">>
               \/ rest = <<"chatgpt", "backend-api", "codex", "responses">>
               \/ \E plan \in E!CopilotPlans : rest = <<"copilot", plan, "v1", "messages">>)
    PROVE  E!PaysAsAnnounced(cfg, start, token)
<1> DEFINE answer == E!Handle(cfg, req)
<1>1. /\ req # E!Elsewhere
      /\ E!DetectInbound(req.path, req).token = token
      /\ E!DetectInbound(req.path, req).credential = start.pays
    <2>1. E!Elsewhere.method = "none" /\ req.method = "POST"
        BY DEF E!Elsewhere, AsksBy
    <2> QED
        BY <2>1 DEF AsksBy
<1>2. \/ answer.kind = "dispatched"
      \/ answer.kind = "sent" /\ answer.metered = TRUE /\ start.pays # NULL
    BY AnthropicTaken, MountTaken DEF Relayed
<1> HIDE DEF answer
<1> QED
    BY <1>1, <1>2 DEF E!PaysAsAnnounced, E!Pays, answer

-----------------------------------------------------------------------------

\* A token of the gateway's own that it resolves.
Minted(token) == token \in Resolving \cap FestTokens /\ E!Given(token)

LEMMA TagsAreWords ==
    ASSUME NEW tags, Tagged(tags), NEW Pieces, TagSegments \subseteq Pieces
    PROVE  tags \in Seq(Pieces)
<1>1. ASSUME NEW tag \in TagSegments, tags = <<tag>> PROVE tags \in Seq(Pieces)
    <2>1. tag \in Pieces
        OBVIOUS
    <2> QED
        BY <1>1, <2>1
<1>2. <<>> \in Seq(Pieces)
    OBVIOUS
<1> QED
    BY <1>1, <1>2, Zenon DEF Tagged

ComesOff(token, tags, rest) ==
    /\ E!ParseIdentityPath(tags \o rest).token = NULL
    /\ E!ParseIdentityPath(tags \o rest).remainder = rest
    /\ E!ParseIdentityPath((<<"t", token>> \o tags) \o rest).token = token
    /\ E!ParseIdentityPath((<<"t", token>> \o tags) \o rest).remainder = rest

\* The path a client asks, from the base URL it is given.
LEMMA AskedAt ==
    ASSUME NEW token, NEW tags, Tagged(tags), NEW rest \in Seq(Segments), Plainly(rest)
    PROVE  ComesOff(token, tags, rest)
<1> DEFINE Pieces == Segments \cup TagSegments \cup {"t", token}
<1>1. token \in Pieces /\ "t" \in Pieces /\ {"t", "fest"} \cap TagSegments = {}
    BY AlgorithmsAssumption
<1>2. Segments \subseteq Pieces /\ TagSegments \subseteq Pieces
    OBVIOUS
<1> HIDE DEF Pieces
<1>3. tags \in Seq(Pieces)
    BY <1>2, TagsAreWords
<1>4. rest \in Seq(Pieces)
    BY <1>2
<1> QED
    BY <1>1, <1>3, <1>4, PathComesOff DEF ComesOff

ComesOffMount(token, tags, mount, suffix, rest) ==
    /\ E!ParseIdentityPath((tags \o mount) \o suffix).token = NULL
    /\ E!ParseIdentityPath((tags \o mount) \o suffix).remainder = rest
    /\ E!ParseIdentityPath(((<<"t", token>> \o tags) \o mount) \o suffix).token = token
    /\ E!ParseIdentityPath(((<<"t", token>> \o tags) \o mount) \o suffix).remainder = rest

LEMMA AskedAtMount ==
    ASSUME NEW token, NEW tags, Tagged(tags), NEW mount \in Seq(Segments),
           NEW suffix \in Seq(Segments), NEW rest, rest = mount \o suffix, Plainly(rest)
    PROVE  ComesOffMount(token, tags, mount, suffix, rest)
<1> DEFINE Pieces == Segments \cup TagSegments \cup {"t", token}
           named == <<"t", token>> \o tags
<1>1. token \in Pieces /\ "t" \in Pieces
    OBVIOUS
<1>2. Segments \subseteq Pieces /\ TagSegments \subseteq Pieces
    OBVIOUS
<1> HIDE DEF Pieces
<1>3. tags \in Seq(Pieces)
    BY <1>2, TagsAreWords
<1>4. mount \in Seq(Pieces) /\ suffix \in Seq(Pieces)
    BY <1>2
<1>5. named \in Seq(Pieces)
    BY <1>1, <1>3
<1> HIDE DEF named
<1>6. \A s \in Seq(Pieces) : (s \o mount) \o suffix = s \o rest
    BY <1>4, ConcatAssociative
<1>7. /\ (tags \o mount) \o suffix = tags \o rest
      /\ (named \o mount) \o suffix = named \o rest
    BY <1>3, <1>5, <1>6
<1>8. rest \in Seq(Segments)
    OBVIOUS
<1>9. ComesOff(token, tags, rest)
    BY <1>8, AskedAt
<1> QED
    BY <1>7, <1>9 DEF named, ComesOff, ComesOffMount

\* A settings file that changes none of these variables leaves them as they are.
LEMMA NotSet ==
    ASSUME NEW env, NEW files, NEW name, E!SetBy(files, name) = {}
    PROVE  E!Setting(env, files, name) = E!Get(env, name)
BY DEF E!Setting

\* Settings files that take no session anywhere: in the gateway posture the token that is
\* set comes before a helper's.
Leaves(files, posture) ==
    /\ \A v \in E!DemotionVars : E!SetBy(files, v) = {}
    /\ posture # "key" => \A i \in E!Read(files) : files[i].helper = FALSE

\* Whoever's settings do take the session somewhere is told, or it is one of the gateway's
\* own variables that they set.
LEMMA ToldOrUnsaid ==
    ASSUME NEW start, NEW files, NEW posture \in {"subscription", "key"}, NEW env,
           start.client = "claude", start.on.settings = files,
           start.pays = (IF posture = "key" THEN NULL ELSE "plan"),
           start.notes = E!PostureWarnings(posture, env,
                            IF posture = "subscription" THEN E!SettingsDemotionTriggers(files) ELSE {}),
           \A i \in E!Read(files) : files[i].helper \in BOOLEAN,
           ~Leaves(files, posture)
    PROVE  E!Warned(start) \/ E!Unsaid(start)
<1>1. CASE posture = "key"
    <2>1. \E v \in E!DemotionVars : E!SetBy(files, v) # {}
        BY <1>1 DEF Leaves
    <2> QED
        BY <1>1, <2>1 DEF E!Unsaid
<1>2. CASE posture = "subscription"
    <2>1. start.notes.demoted = E!SettingsDemotionTriggers(files)
        BY <1>2 DEF E!PostureWarnings
    <2>2. PICK i \in E!Read(files) : files[i].helper \/ DOMAIN files[i].env \cap E!DemotionVars # {}
        BY <1>2 DEF Leaves, E!SetBy
    <2>3. i \in E!SettingsDemotionTriggers(files) /\ files[i] # Unparseable
        BY <2>2 DEF E!SettingsDemotionTriggers, E!Read
    <2> QED
        BY <2>1, <2>3 DEF E!Warned
<1> QED
    BY <1>1, <1>2

\* fest claude: whatever the environment, the arguments and the machine's settings files,
\* the posture that is announced is the one that pays, or a file that takes the session off
\* it is named, or it is one of the disagreements that Launch owns to (PaysAsAnnounced).
THEOREM ClaudePays ==
    ASSUME NEW cfg, Serving(cfg), NEW token, token = NULL \/ Minted(token), NEW tags, Tagged(tags),
           NEW env, NEW machine, NEW argv, NEW requested \in {"auto", "subscription", "key"},
           \A i \in E!Read(machine.settings) : machine.settings[i].helper \in BOOLEAN
    PROVE  E!PaysAsAnnounced(cfg, E!RunClaude(machine, env, token, tags, argv, requested), token)
<1> DEFINE start == E!RunClaude(machine, env, token, tags, argv, requested)
           files == machine.settings
           posture == IF requested # "auto" THEN requested
                      ELSE IF E!DetectSubscriptionLogin(machine.claudeJson) THEN "subscription" ELSE "key"
           built == E!BuildClaudeEnv(env, token, tags, posture)
           base == IF posture = "key" THEN tags ELSE <<"t", token>> \o tags
           rest == <<"v1", "messages">>
           path == base \o rest
           req == E!ClaudeAsks(built, files)
           notes == E!PostureWarnings(posture, env,
                        IF posture = "subscription" THEN E!SettingsDemotionTriggers(files) ELSE {})
           Started == /\ token # NULL
                      /\ start.kind = "starts" /\ start.client = "claude" /\ start.on = machine
                      /\ start.env = built /\ start.notes = notes
                      /\ start.pays = IF posture = "key" THEN NULL ELSE "plan"
<1>0. posture \in {"subscription", "key"}
    OBVIOUS
<1>1. CASE start = E!Fails
    BY <1>1 DEF E!Fails, E!PaysAsAnnounced
<1>2. ASSUME Started, Leaves(files, posture)
      PROVE  E!PaysAsAnnounced(cfg, start, token)
    <2> HIDE DEF start
    <2>1. Minted(token) /\ token # NULL /\ token # "blank" /\ token \in FestTokens /\ token \in Resolving
        BY <1>2 DEF Minted, E!Given
    <2> HIDE DEF posture
    <2>2. /\ \A v \in E!DemotionVars \ {"ANTHROPIC_AUTH_TOKEN", "ANTHROPIC_BASE_URL"} :
                E!Get(built, v) = NULL
          /\ E!Get(built, "ANTHROPIC_AUTH_TOKEN") = IF posture = "key" THEN token ELSE NULL
          /\ E!Get(built, "ANTHROPIC_BASE_URL") = base
        <3> DEFINE vars == E!ClaudeVars(token, tags, posture)
                   clean == E!Unset(env, E!DemotionVars)
        <3>1. built = E!With(clean, vars)
            BY DEF E!BuildClaudeEnv
        <3>2. \A v \in E!DemotionVars : E!Get(clean, v) = NULL
            BY UnsetSays
        <3>3. /\ DOMAIN vars = IF posture = "key" THEN {"ANTHROPIC_BASE_URL", "ANTHROPIC_AUTH_TOKEN"}
                               ELSE {"ANTHROPIC_BASE_URL"}
              /\ vars["ANTHROPIC_BASE_URL"] = base
              /\ posture = "key" => vars["ANTHROPIC_AUTH_TOKEN"] = token
            BY DEF E!ClaudeVars
        <3> HIDE DEF vars, clean, base
        <3>4. \A v \in E!DemotionVars :
                 E!Get(built, v) = IF v \in DOMAIN vars THEN vars[v] ELSE NULL
            BY <3>1, <3>2, WithSays
        <3> HIDE DEF built
        <3> QED
            BY <3>3, <3>4 DEF E!DemotionVars
    <2> HIDE DEF built, base, path
    <2>3. req = E!Asks(path, IF posture = "key" THEN token ELSE "plan", NULL, NULL)
        <3>1. \A v \in E!DemotionVars : E!Setting(built, files, v) = E!Get(built, v)
            BY <1>2, NotSet DEF Leaves
        <3>2. ~\E v \in E!DemotionVars \ {"ANTHROPIC_API_KEY", "ANTHROPIC_AUTH_TOKEN", "ANTHROPIC_BASE_URL"} :
                   E!Setting(built, files, v) # NULL
            BY <2>2, <3>1
        <3>3. /\ E!Setting(built, files, "ANTHROPIC_API_KEY") = NULL
              /\ E!Setting(built, files, "ANTHROPIC_AUTH_TOKEN") = IF posture = "key" THEN token ELSE NULL
              /\ E!Setting(built, files, "ANTHROPIC_BASE_URL") = base
            <4>1. {"ANTHROPIC_API_KEY", "ANTHROPIC_AUTH_TOKEN", "ANTHROPIC_BASE_URL"} \subseteq E!DemotionVars
                BY DEF E!DemotionVars
            <4> QED
                BY <2>2, <3>1, <4>1
        <3>4. posture # "key" => ~\E i \in E!Read(files) : files[i].helper
            BY <1>2 DEF Leaves
        <3> HIDE DEF files
        <3> QED
            BY <2>1, <3>2, <3>3, <3>4 DEF E!ClaudeAsks, path
    <2>4. /\ E!ParseIdentityPath(path).token = IF posture = "key" THEN NULL ELSE token
          /\ E!ParseIdentityPath(path).remainder = rest
        <3>1. rest \in Seq(Segments)
            BY DEF Segments
        <3>2. Plainly(rest)
            <4>1. rest # <<>> /\ Head(rest) = "v1" /\ "v1" \in Segments
                BY DEF Segments
            <4> QED
                BY <4>1, AlgorithmsAssumption DEF Plainly
        <3> HIDE DEF rest
        <3> QED
            BY <3>1, <3>2, AskedAt DEF path, base, ComesOff
    <2>5. /\ req.path = path /\ req.method = "POST" /\ req.body = "plain"
          /\ req.key = NULL /\ req.fest = NULL
          /\ req.auth = IF posture = "key" THEN token ELSE "plan"
        BY <2>3 DEF E!Asks
    <2> HIDE DEF req, rest
    <2>6. E!DetectInbound(req.path, req).token = token
        BY <2>1, <2>4, <2>5, NamesWhoAsks DEF E!Given
    <2>7. E!DetectInbound(req.path, req).credential = start.pays
        <3>1. "plan" \notin FestTokens \cup {NULL}
            BY AlgorithmsAssumption
        <3> QED
            BY <1>2, <2>1, <2>5, <3>1, PaysWithItsOwn
    <2>8. AsksBy(req, token, rest, start.pays)
        BY <2>4, <2>5, <2>6, <2>7 DEF AsksBy
    <2>9. E!FirstRequest(start) = req
        BY <1>2 DEF E!FirstRequest, req
    <2> QED
        BY <2>1, <2>8, <2>9, TakenAsAnnounced DEF rest
<1>3. start = E!Fails \/ Started
    <2> DEFINE started == E!Starts("claude", machine, IF posture = "key" THEN NULL ELSE "plan", built,
                                   notes)
    <2>1. start = E!Fails \/ (token # NULL /\ start = started)
        BY DEF E!RunClaude
    <2> HIDE DEF notes, start, built, posture
    <2> QED
        BY <2>1 DEF E!Starts
<1>4. ASSUME Started, ~Leaves(files, posture)
      PROVE  E!PaysAsAnnounced(cfg, start, token)
    <2> HIDE DEF start, posture
    <2>1. start.on.settings = files
        BY <1>4
    <2>2. E!Warned(start) \/ E!Unsaid(start)
        BY <1>0, <1>4, <2>1, ToldOrUnsaid
    <2> QED
        BY <2>2 DEF E!PaysAsAnnounced
<1> QED
    BY <1>1, <1>2, <1>3, <1>4


LEMMA MessagesPlainly ==
    <<"v1", "messages">> \in Seq(Segments) /\ Plainly(<<"v1", "messages">>)
<1>1. <<"v1", "messages">> \in Seq(Segments)
    BY DEF Segments
<1>2. "v1" \in Segments
    BY DEF Segments
<1>3. "v1" \notin TagSegments \cup {"t", "fest"}
    BY <1>2, AlgorithmsAssumption
<1>4. <<"v1", "messages">> # <<>> /\ Head(<<"v1", "messages">>) = "v1"
    OBVIOUS
<1> QED
    BY <1>1, <1>3, <1>4 DEF Plainly

LEMMA OpenaiPlainly ==
    /\ <<"openai", "v1">> \in Seq(Segments) /\ <<"responses">> \in Seq(Segments)
    /\ <<"openai", "v1", "responses">> = <<"openai", "v1">> \o <<"responses">>
    /\ Plainly(<<"openai", "v1", "responses">>)
<1>1. <<"openai", "v1">> \in Seq(Segments) /\ <<"responses">> \in Seq(Segments)
    BY DEF Segments
<1>2. <<"openai", "v1", "responses">> = <<"openai", "v1">> \o <<"responses">>
    OBVIOUS
<1>3. "openai" \in Segments
    BY DEF Segments
<1>4. "openai" \notin TagSegments \cup {"t", "fest"}
    BY <1>3, AlgorithmsAssumption
<1> DEFINE rest == <<"openai", "v1", "responses">>
<1>5. rest # <<>> /\ Head(rest) = "openai"
    OBVIOUS
<1>6. Plainly(rest)
    BY <1>4, <1>5 DEF Plainly
<1> QED
    BY <1>1, <1>2, <1>6

LEMMA ChatgptPlainly ==
    /\ <<"chatgpt", "backend-api", "codex">> \in Seq(Segments) /\ <<"responses">> \in Seq(Segments)
    /\ <<"chatgpt", "backend-api", "codex", "responses">> =
          <<"chatgpt", "backend-api", "codex">> \o <<"responses">>
    /\ Plainly(<<"chatgpt", "backend-api", "codex", "responses">>)
<1>1. <<"chatgpt", "backend-api", "codex">> \in Seq(Segments) /\ <<"responses">> \in Seq(Segments)
    BY DEF Segments
<1>2. <<"chatgpt", "backend-api", "codex", "responses">> =
        <<"chatgpt", "backend-api", "codex">> \o <<"responses">>
    OBVIOUS
<1>3. "chatgpt" \in Segments
    BY DEF Segments
<1>4. "chatgpt" \notin TagSegments \cup {"t", "fest"}
    BY <1>3, AlgorithmsAssumption
<1> DEFINE rest == <<"chatgpt", "backend-api", "codex", "responses">>
<1>5. rest # <<>> /\ Head(rest) = "chatgpt"
    OBVIOUS
<1>6. Plainly(rest)
    BY <1>4, <1>5 DEF Plainly
<1> QED
    BY <1>1, <1>2, <1>6

\* A base URL is never the lack of one.
LEMMA TagsAreNoNull ==
    ASSUME NEW tags, Tagged(tags)
    PROVE  tags # NULL /\ \A mount \in Seq(Segments) : tags \o mount # NULL
<1> DEFINE Pieces == Segments \cup TagSegments
<1>1. NULL \notin Seq(Pieces)
    BY AlgorithmsAssumption
<1>2. Segments \subseteq Pieces /\ TagSegments \subseteq Pieces
    OBVIOUS
<1> HIDE DEF Pieces
<1>3. tags \in Seq(Pieces)
    BY <1>2, TagsAreWords
<1>4. \A mount \in Seq(Segments) : tags \o mount \in Seq(Pieces)
    BY <1>2, <1>3
<1> QED
    BY <1>1, <1>3, <1>4

\* fest copilot, in its four modes.  A provider's own key is not blank and not a token of
\* the gateway's (PaysAsAnnounced).
THEOREM CopilotPays ==
    ASSUME NEW cfg, Serving(cfg), NEW token, token = NULL \/ Minted(token), NEW tags, Tagged(tags),
           NEW env, NEW machine, NEW mode \in {"subscription", "anthropic", "gw", "openai"},
           E!OwnKey(env, mode) = NULL \/ E!OwnKey(env, mode) \notin {"blank"} \cup FestTokens
    PROVE  E!PaysAsAnnounced(cfg, E!RunCopilot(machine, env, token, tags, mode), token)
<1> DEFINE start == E!RunCopilot(machine, env, token, tags, mode)
           plan == IF mode = "subscription" THEN E!DetectPlan(env, machine.caches) ELSE NULL
           key == E!OwnKey(env, mode)
           built == E!BuildCopilotEnv(env, token, plan, tags, mode)
           clean == E!Unset(env, E!CopilotVars)
           req == E!CopilotAsks(built)
           messages == <<"v1", "messages">>
<1>1. CASE start = E!Fails
    BY <1>1 DEF E!Fails, E!PaysAsAnnounced
<1>2. \/ start = E!Fails
      \/ /\ token # NULL /\ ~E!CopilotError(env, plan, mode)
         /\ start.kind = "starts" /\ start.client = "copilot" /\ start.env = built
         /\ start.pays = CASE mode = "subscription" -> "github" [] mode = "gw" -> NULL
                           [] OTHER -> built["COPILOT_PROVIDER_API_KEY"]
    <2> HIDE DEF built, plan
    <2> QED
        BY DEF E!RunCopilot, E!Starts, built, plan
<1>3. SUFFICES ASSUME token # NULL, ~E!CopilotError(env, plan, mode),
                      start.kind = "starts", start.client = "copilot", start.env = built,
                      start.pays = CASE mode = "subscription" -> "github" [] mode = "gw" -> NULL
                                     [] OTHER -> built["COPILOT_PROVIDER_API_KEY"]
               PROVE  E!PaysAsAnnounced(cfg, start, token)
    BY <1>1, <1>2
<1> HIDE DEF start
<1>4. /\ Minted(token) /\ token # NULL /\ token # "blank" /\ token \in FestTokens /\ token \in Resolving
      /\ E!FirstRequest(start) = req
    BY <1>3 DEF Minted, E!Given, E!FirstRequest, req
<1>5. \A v \in E!CopilotVars : E!Get(clean, v) = NULL
    BY UnsetSays
<1>6. NULL \notin Segments \cup Seq(Segments \cup TagSegments)
    BY AlgorithmsAssumption
<1>7. ASSUME NEW base, NEW vars, built = E!With(base, vars),
             \A v \in E!CopilotVars : E!Get(base, v) = NULL
      PROVE  /\ \A v \in E!CopilotVars : E!Get(built, v) = IF v \in DOMAIN vars THEN vars[v] ELSE NULL
             /\ \A v \in DOMAIN vars : built[v] = vars[v]
    BY <1>7, WithSays
<1>8. messages \in Seq(Segments)
    BY DEF Segments
<1>9. CASE mode = "subscription"
    <2> DEFINE mount == <<"copilot", plan>>
               url == (<<"t", token>> \o tags) \o mount
               vars == [COPILOT_API_URL |-> url]
               rest == <<"copilot", plan, "v1", "messages">>
               path == url \o messages
    <2>1. built = E!With(clean, vars)
        BY <1>9 DEF E!BuildCopilotEnv
    <2>2. plan \in E!CopilotPlans
        <3>1. \A entries : E!PlanFromUserCache(entries).plan \in E!CopilotPlans \cup {NULL}
            BY DEF E!PlanFromUserCache
        <3>2. E!DetectPlan(env, machine.caches) \in E!CopilotPlans \cup {NULL}
            BY <3>1 DEF E!DetectPlan
        <3> QED
            BY <1>3, <1>9, <3>2 DEF E!CopilotError
    <2>3. mount \in Seq(Segments) /\ rest = mount \o messages /\ Plainly(rest)
        <3>1. plan \in Segments /\ "copilot" \in Segments
            <4> HIDE DEF plan
            <4> QED
                BY <2>2 DEF Segments, E!CopilotPlans
        <3> HIDE DEF plan
        <3>2. rest # <<>> /\ Head(rest) = "copilot" /\ rest = mount \o messages
            OBVIOUS
        <3>3. mount \in Seq(Segments)
            BY <3>1
        <3> HIDE DEF rest, mount, messages
        <3>4. Plainly(rest)
            BY <3>1, <3>2, AlgorithmsAssumption DEF Plainly
        <3> QED
            BY <3>2, <3>3, <3>4
    <2> HIDE DEF plan, messages, mount, url, path, rest
    <2>4. /\ E!Get(built, "COPILOT_PROVIDER_BASE_URL") = NULL
          /\ built["COPILOT_API_URL"] = url
        BY <1>5, <1>7, <2>1 DEF E!CopilotVars
    <2>5. /\ req.method = "POST" /\ req.body = "plain" /\ req.path = path
          /\ req.auth = "github" /\ req.key = NULL /\ req.fest = NULL
        <3> HIDE DEF built
        <3> QED
            BY <2>4 DEF E!CopilotAsks, E!Asks, path, messages
    <2>6. E!ParseIdentityPath(path).token = token /\ E!ParseIdentityPath(path).remainder = rest
        <3>1. ComesOffMount(token, tags, mount, messages, rest)
            BY <1>8, <2>3, AskedAtMount
        <3> QED
            BY <3>1 DEF path, url, ComesOffMount
    <2> HIDE DEF req
    <2>7. E!DetectInbound(req.path, req).token = token
        BY <1>4, <2>5, <2>6, NamesWhoAsks DEF E!Given
    <2>8. start.pays = "github" /\ "github" \notin FestTokens \cup {NULL}
        BY <1>3, <1>9, AlgorithmsAssumption
    <2>9. E!DetectInbound(req.path, req).credential = start.pays
        BY <2>5, <2>8, PaysWithItsOwn
    <2>10. AsksBy(req, token, rest, start.pays)
        BY <2>5, <2>6, <2>7, <2>9 DEF AsksBy
    <2> QED
        BY <1>4, <2>2, <2>8, <2>10, TakenAsAnnounced DEF rest
<1> DEFINE named == IF E!Get(env, "COPILOT_MODEL") = NULL THEN E!With(clean, [COPILOT_MODEL |-> "sonnet"])
                    ELSE clean
<1>10. \A v \in E!CopilotVars : E!Get(named, v) = NULL
    <2>1. \A v \in E!CopilotVars : E!Get(E!With(clean, [COPILOT_MODEL |-> "sonnet"]), v) = E!Get(clean, v)
        BY WithSays DEF E!CopilotVars
    <2> HIDE DEF clean
    <2> QED
        BY <1>5, <2>1
<1>11. CASE mode = "gw"
    <2> DEFINE vars == [COPILOT_PROVIDER_TYPE |-> "anthropic", COPILOT_PROVIDER_BASE_URL |-> tags,
                        COPILOT_PROVIDER_BEARER_TOKEN |-> token]
               path == tags \o messages
    <2>1. built = E!With(named, vars)
        BY <1>11 DEF E!BuildCopilotEnv
    <2>2. tags # NULL /\ Plainly(messages)
        BY <1>6, <1>8, TagsAreNoNull, MessagesPlainly
    <2> HIDE DEF messages, named
    <2>3. /\ E!Get(built, "COPILOT_PROVIDER_BASE_URL") = tags
          /\ E!Get(built, "COPILOT_PROVIDER_BEARER_TOKEN") = token
          /\ E!Get(built, "COPILOT_PROVIDER_API_KEY") = NULL
          /\ E!Get(built, "COPILOT_PROVIDER_HEADERS") = NULL
          /\ built["COPILOT_PROVIDER_BASE_URL"] = tags
          /\ built["COPILOT_PROVIDER_TYPE"] = "anthropic"
        BY <1>7, <1>10, <2>1 DEF E!CopilotVars
    <2>4. /\ req.method = "POST" /\ req.body = "plain" /\ req.path = path
          /\ req.auth = token /\ req.key = NULL /\ req.fest = NULL
        <3> HIDE DEF built
        <3> QED
            BY <1>4, <2>2, <2>3 DEF E!CopilotAsks, E!Asks, path, messages
    <2>5. E!ParseIdentityPath(path).token = NULL /\ E!ParseIdentityPath(path).remainder = messages
        <3>1. ComesOff(token, tags, messages)
            BY <1>8, <2>2, AskedAt
        <3> QED
            BY <3>1 DEF path, ComesOff
    <2> HIDE DEF req, built, path
    <2>6. E!DetectInbound(req.path, req).token = token
        BY <1>4, <2>4, <2>5, NamesWhoAsks DEF E!Given
    <2>7. E!DetectInbound(req.path, req).credential = start.pays
        BY <1>3, <1>4, <1>11, <2>4, PaysWithItsOwn
    <2>8. AsksBy(req, token, messages, start.pays)
        BY <2>4, <2>5, <2>6, <2>7 DEF AsksBy
    <2> QED
        BY <1>4, <2>8, TakenAsAnnounced DEF messages
<1>12. CASE mode = "anthropic"
    <2> DEFINE vars == [COPILOT_PROVIDER_TYPE |-> "anthropic", COPILOT_PROVIDER_BASE_URL |-> tags,
                        COPILOT_PROVIDER_API_KEY |-> key, COPILOT_PROVIDER_HEADERS |-> token]
               path == tags \o messages
    <2>1. built = E!With(named, vars)
        BY <1>12 DEF E!BuildCopilotEnv
    <2>2. tags # NULL /\ Plainly(messages)
        BY <1>6, <1>8, TagsAreNoNull, MessagesPlainly
    <2>3. key \notin {NULL, "plan", "blank"} \cup FestTokens
        <3> HIDE DEF plan
        <3> QED
            BY <1>3, <1>12 DEF E!CopilotError
    <2> HIDE DEF messages, named, key
    <2>4. /\ E!Get(built, "COPILOT_PROVIDER_BASE_URL") = tags
          /\ E!Get(built, "COPILOT_PROVIDER_BEARER_TOKEN") = NULL
          /\ E!Get(built, "COPILOT_PROVIDER_API_KEY") = key
          /\ E!Get(built, "COPILOT_PROVIDER_HEADERS") = token
          /\ built["COPILOT_PROVIDER_BASE_URL"] = tags
          /\ built["COPILOT_PROVIDER_TYPE"] = "anthropic"
          /\ built["COPILOT_PROVIDER_API_KEY"] = key
        BY <1>7, <1>10, <2>1 DEF E!CopilotVars
    <2> HIDE DEF built
    <2>5. /\ req.method = "POST" /\ req.body = "plain" /\ req.path = path
          /\ req.auth = NULL /\ req.key = key /\ req.fest = token
        BY <2>2, <2>4 DEF E!CopilotAsks, E!Asks, path, messages
    <2>6. E!ParseIdentityPath(path).token = NULL /\ E!ParseIdentityPath(path).remainder = messages
        <3>1. ComesOff(token, tags, messages)
            BY <1>8, <2>2, AskedAt
        <3> QED
            BY <3>1 DEF path, ComesOff
    <2> HIDE DEF req, path
    <2>7. E!DetectInbound(req.path, req).token = token
        BY <1>4, <2>5, <2>6, NamesWhoAsks DEF E!Given
    <2>8. start.pays = key
        BY <1>3, <1>12, <2>4
    <2>9. E!DetectInbound(req.path, req).credential = start.pays
        BY <2>3, <2>5, <2>8, PaysWithItsOwn
    <2>10. AsksBy(req, token, messages, start.pays)
        BY <2>5, <2>6, <2>7, <2>9 DEF AsksBy
    <2> QED
        BY <1>4, <2>10, TakenAsAnnounced DEF messages
<1>13. CASE mode = "openai"
    <2> DEFINE mount == <<"openai", "v1">>
               suffix == <<"responses">>
               url == tags \o mount
               vars == [COPILOT_PROVIDER_TYPE |-> "openai", COPILOT_PROVIDER_BASE_URL |-> url,
                        COPILOT_PROVIDER_API_KEY |-> key, COPILOT_PROVIDER_HEADERS |-> token]
               rest == <<"openai", "v1", "responses">>
               path == url \o suffix
    <2>1. built = E!With(clean, vars)
        BY <1>13 DEF E!BuildCopilotEnv
    <2>2. /\ mount \in Seq(Segments) /\ suffix \in Seq(Segments)
          /\ rest = mount \o suffix /\ Plainly(rest)
        BY OpenaiPlainly
    <2>3. key \notin {NULL, "blank"} \cup FestTokens
        <3> HIDE DEF plan
        <3> QED
            BY <1>3, <1>13 DEF E!CopilotError
    <2> HIDE DEF mount, suffix, rest, key
    <2>4. url # NULL
        BY <1>6, <2>2, TagsAreNoNull
    <2> HIDE DEF url
    <2>5. /\ E!Get(built, "COPILOT_PROVIDER_BASE_URL") = url
          /\ E!Get(built, "COPILOT_PROVIDER_BEARER_TOKEN") = NULL
          /\ E!Get(built, "COPILOT_PROVIDER_API_KEY") = key
          /\ E!Get(built, "COPILOT_PROVIDER_HEADERS") = token
          /\ built["COPILOT_PROVIDER_BASE_URL"] = url
          /\ built["COPILOT_PROVIDER_TYPE"] = "openai"
          /\ built["COPILOT_PROVIDER_API_KEY"] = key
        BY <1>5, <1>7, <2>1 DEF E!CopilotVars
    <2> HIDE DEF built
    <2>6. /\ req.method = "POST" /\ req.body = "plain" /\ req.path = path
          /\ req.auth = key /\ req.key = NULL /\ req.fest = token
        BY <2>4, <2>5 DEF E!CopilotAsks, E!Asks, path, suffix
    <2>7. E!ParseIdentityPath(path).token = NULL /\ E!ParseIdentityPath(path).remainder = rest
        <3>1. ComesOffMount(token, tags, mount, suffix, rest)
            BY <2>2, AskedAtMount
        <3> QED
            BY <3>1 DEF path, url, ComesOffMount
    <2> HIDE DEF req, path
    <2>8. E!DetectInbound(req.path, req).token = token
        BY <1>4, <2>6, <2>7, NamesWhoAsks DEF E!Given
    <2>9. start.pays = key
        BY <1>3, <1>13, <2>5
    <2>10. E!DetectInbound(req.path, req).credential = start.pays
        BY <2>3, <2>6, <2>9, PaysWithItsOwn
    <2>11. AsksBy(req, token, rest, start.pays)
        BY <2>6, <2>7, <2>8, <2>10 DEF AsksBy
    <2> QED
        BY <1>4, <2>3, <2>9, <2>11, TakenAsAnnounced DEF rest
<1> QED
    BY <1>9, <1>11, <1>12, <1>13

\* fest codex, whichever login it has or lacks, a key in its environment being neither blank
\* nor a token of the gateway's: who was announced pays, unless Codex is forced to one way of
\* paying and its login is of the other (PaysAsAnnounced).
THEOREM CodexPays ==
    ASSUME NEW cfg, Serving(cfg), NEW token, token = NULL \/ Minted(token), NEW tags, Tagged(tags),
           NEW env, NEW machine, NEW requested \in {"auto", "key"},
           \/ E!Get(env, "OPENAI_API_KEY") = NULL
           \/ E!Get(env, "OPENAI_API_KEY") \notin {"blank"} \cup FestTokens
    PROVE  E!PaysAsAnnounced(cfg, E!RunCodex(machine, env, token, tags, requested), token)
<1> DEFINE start == E!RunCodex(machine, env, token, tags, requested)
           mode == IF requested = "auto" THEN E!DetectCodexMode(machine.authJson) ELSE requested
           key == E!Get(env, "OPENAI_API_KEY")
           login == mode = "chatgpt" \/ key = NULL
           pays == IF mode = "chatgpt" THEN "chatgpt" ELSE IF key # NULL THEN key ELSE "stored"
           mount == IF mode = "chatgpt" THEN <<"chatgpt", "backend-api", "codex">> ELSE <<"openai", "v1">>
           suffix == <<"responses">>
           rest == IF mode = "chatgpt" THEN <<"chatgpt", "backend-api", "codex", "responses">>
                   ELSE <<"openai", "v1", "responses">>
           url == tags \o mount
           path == url \o suffix
           built == E!BuildCodexInvocation(env, token, tags, mode)
           req == E!CodexAsks(built, machine.authJson)
<1>1. CASE start = E!Fails
    BY <1>1 DEF E!Fails, E!PaysAsAnnounced
<1>2. mode \in {"chatgpt", "key"}
    BY DEF E!DetectCodexMode
<1>3. \/ start = E!Fails
      \/ /\ token # NULL
         /\ start.kind = "starts" /\ start.client = "codex" /\ start.on = machine
         /\ start.env = built /\ start.pays = pays
    <2>1. key # NULL => env["OPENAI_API_KEY"] = key
        BY DEF E!Get
    <2>2. start = E!Fails \/ (token # NULL /\ start = E!Starts("codex", machine, pays, built, {}))
        <3> HIDE DEF built
        <3> QED
            BY <1>2, <2>1 DEF E!RunCodex, built
    <2> HIDE DEF built, pays, start, login
    <2> QED
        BY <2>2 DEF E!Starts
<1>4. SUFFICES ASSUME token # NULL,
                      start.kind = "starts", start.client = "codex", start.on = machine,
                      start.env = built, start.pays = pays
               PROVE  E!PaysAsAnnounced(cfg, start, token)
    BY <1>1, <1>3
<1> HIDE DEF start
<1>5. /\ Minted(token) /\ token # NULL /\ token # "blank" /\ token \in FestTokens /\ token \in Resolving
      /\ E!FirstRequest(start) = req
    BY <1>4 DEF Minted, E!Given, E!FirstRequest, req
<1>6. /\ built["base_url"] = url /\ built["own_login"] = login /\ built["FEST_GATEWAY_TOKEN"] = token
      /\ ~login => built["OPENAI_API_KEY"] = key
    <2> DEFINE vars == [base_url |-> url, own_login |-> login, FEST_GATEWAY_TOKEN |-> token]
    <2>1. built = E!With(env, vars)
        BY DEF E!BuildCodexInvocation
    <2>2. key # NULL => "OPENAI_API_KEY" \in DOMAIN env /\ env["OPENAI_API_KEY"] = key
        BY DEF E!Get
    <2>3. /\ DOMAIN vars = {"base_url", "own_login", "FEST_GATEWAY_TOKEN"}
          /\ vars["base_url"] = url /\ vars["own_login"] = login /\ vars["FEST_GATEWAY_TOKEN"] = token
        OBVIOUS
    <2> HIDE DEF built, vars, url, key, mode
    <2> QED
        BY <2>1, <2>2, <2>3, WithSays
<1>7. /\ mount \in Seq(Segments) /\ suffix \in Seq(Segments) /\ rest = mount \o suffix
      /\ Plainly(rest)
    <2>1. CASE mode = "chatgpt"
        BY <2>1, ChatgptPlainly
    <2>2. CASE mode = "key"
        BY <2>2, OpenaiPlainly
    <2> QED
        BY <1>2, <2>1, <2>2
<1>8. pays \notin {NULL, "blank"} \cup FestTokens
    BY AlgorithmsAssumption
<1>9. \/ rest = <<"openai", "v1", "responses">>
      \/ rest = <<"chatgpt", "backend-api", "codex", "responses">>
    OBVIOUS
<1>10. CASE login /\ machine.authJson = NULL
    <2>1. req = E!LoginFirst
        <3> HIDE DEF built
        <3> QED
            BY <1>6, <1>10 DEF E!CodexAsks
    <2> QED
        BY <1>5, <2>1 DEF E!PaysAsAnnounced
<1>11. CASE login /\ machine.authJson = "chatgpt" /\ pays # "chatgpt"
    <2>1. E!Unsaid(start)
        <3> HIDE DEF built, pays, login
        <3> QED
            BY <1>4, <1>6, <1>11 DEF E!Unsaid
    <2> QED
        BY <2>1 DEF E!PaysAsAnnounced
<1>12. ASSUME \/ ~login
              \/ machine.authJson # NULL /\ (machine.authJson = "chatgpt" => pays = "chatgpt")
       PROVE  E!PaysAsAnnounced(cfg, start, token)
    <2>1. (IF login THEN IF machine.authJson = "chatgpt" THEN "chatgpt" ELSE "stored" ELSE key) = pays
        BY <1>2, <1>12 DEF E!DetectCodexMode
    <2> HIDE DEF mount, suffix, rest, url, built
    <2>2. /\ req.method = "POST" /\ req.body = "plain" /\ req.path = path
          /\ req.auth = pays /\ req.key = NULL /\ req.fest = token
        <3> HIDE DEF login, pays, key
        <3> QED
            BY <1>6, <1>12, <2>1 DEF E!CodexAsks, E!Asks, path, suffix
    <2>3. E!ParseIdentityPath(path).token = NULL /\ E!ParseIdentityPath(path).remainder = rest
        <3>1. ComesOffMount(token, tags, mount, suffix, rest)
            BY <1>7, AskedAtMount
        <3> QED
            BY <3>1 DEF path, url, ComesOffMount
    <2> HIDE DEF req, path, pays
    <2>4. E!DetectInbound(req.path, req).token = token
        BY <1>5, <2>2, <2>3, NamesWhoAsks DEF E!Given
    <2>5. start.pays # NULL
        BY <1>4, <1>8
    <2>6. E!DetectInbound(req.path, req).credential = start.pays
        BY <1>4, <1>8, <2>2, PaysWithItsOwn
    <2>7. AsksBy(req, token, rest, start.pays)
        BY <2>2, <2>3, <2>4, <2>6 DEF AsksBy
    <2> QED
        BY <1>5, <1>9, <2>5, <2>7, TakenAsAnnounced
<1> HIDE DEF login, pays
<1> QED
    BY <1>10, <1>11, <1>12

\* A settings file that is read either names a helper or does not.
LEMMA HelpersOrNone ==
    ASSUME NEW files \in SettingsFiles, NEW i \in E!Read(files)
    PROVE  files[i].helper \in BOOLEAN
<1> DEFINE HelperTold(layer) == layer.helper \in BOOLEAN
           editor == Layer(FALSE, [EDITOR |-> "vi"])
           helper == Layer(TRUE, <<>>)
           key == Layer(FALSE, [ANTHROPIC_API_KEY |-> "sk"])
           base == Layer(FALSE, [ANTHROPIC_BASE_URL |-> <<"elsewhere">>])
           both == Layer(TRUE, [ANTHROPIC_AUTH_TOKEN |-> "other"])
<1>1. HelperTold(editor) /\ HelperTold(helper) /\ HelperTold(key) /\ HelperTold(base) /\ HelperTold(both)
    BY DEF Layer
<1>2. files \in {<<>>, <<Unparseable, editor>>, <<helper, NULL>>, <<key>>, <<base, both>>}
    BY Zenon DEF SettingsFiles
<1>3. i \in DOMAIN files /\ files[i] # NULL /\ files[i] # Unparseable
    BY DEF E!Read
<1> HIDE DEF editor, helper, key, base, both
<1>4. files[i] \in {editor, helper, key, base, both}
    BY <1>2, <1>3
<1>5. HelperTold(files[i])
    <2> HIDE DEF HelperTold
    <2> QED
        BY <1>1, <1>4
<1> QED
    BY <1>5

\* Every launch that is asked about is of one of the three, by nobody or by a minted token.
LEMMA LaunchIsAsked == AskLaunch => PaysAsAnnounced'
<1> SUFFICES ASSUME NEW names \in SUBSET DOMAIN Inherited, NEW tags \in {<<>>, <<"~t">>},
                    NEW token \in {NULL, "good"}, NEW env, env = [n \in names |-> Inherited[n]],
                    AskClaude(env, tags, token) \/ AskCopilot(env, tags, token) \/ AskCodex(env, tags, token)
             PROVE  PaysAsAnnounced'
    BY DEF AskLaunch
<1> DEFINE cfg == Configuration(<<>>, On, TRUE, TRUE)
           OwnKeys == {NULL, "sk"}
<1>1. Serving(cfg)
    <2>1. NULL \notin {"copilot", "openai", "chatgpt"}
        BY AlgorithmsAssumption DEF Segments
    <2> QED
        BY <2>1 DEF Serving, Configuration, On
<1>2. token = NULL \/ Minted(token)
    BY AlgorithmsAssumption DEF Minted, E!Given
<1>3. Tagged(tags)
    BY AlgorithmsAssumption DEF Tagged
<1>4. /\ E!Get(env, "OPENAI_API_KEY") \in OwnKeys
      /\ \A mode : E!OwnKey(env, mode) \in OwnKeys
    <2>1. Inherited["OPENAI_API_KEY"] = "sk" /\ Inherited["ANTHROPIC_API_KEY"] = "sk"
        BY DEF Inherited
    <2>2. \A name \in {"OPENAI_API_KEY", "ANTHROPIC_API_KEY"} : E!Get(env, name) \in OwnKeys
        BY <2>1 DEF E!Get
    <2> QED
        BY <2>2 DEF E!OwnKey
<1>5. \A key \in OwnKeys : key = NULL \/ key \notin {"blank"} \cup FestTokens
    BY AlgorithmsAssumption
<1>6. ASSUME NEW start, E!PaysAsAnnounced(cfg, start, token), Launched(start, token)
      PROVE  PaysAsAnnounced'
    <2>1. call'.start = start /\ call'.token = token
        BY <1>6 DEF Launched
    <2> QED
        BY <1>6, <2>1 DEF PaysAsAnnounced
<1> HIDE DEF cfg, OwnKeys
<1>7. CASE AskClaude(env, tags, token)
    <2>1. PICK requested \in {"auto", "key"}, account \in {NULL, Unparseable, TRUE},
               settings \in SettingsFiles, menu \in {Menu(0, {}), Menu(200, {}), Menu(200, {"m1"})},
               argv \in {<<NULL>>, <<NULL, "m2">>} :
             Launched(E!RunClaude(Machine(account, settings, menu, <<>>, NULL), env, token, tags, argv,
                                  requested), token)
        BY <1>7, Zenon DEF AskClaude
    <2> DEFINE machine == Machine(account, settings, menu, <<>>, NULL)
    <2>2. machine.settings = settings
        BY DEF Machine
    <2>3. \A i \in E!Read(settings) : settings[i].helper \in BOOLEAN
        BY HelpersOrNone
    <2> HIDE DEF machine
    <2>4. E!PaysAsAnnounced(cfg, E!RunClaude(machine, env, token, tags, argv, requested), token)
        BY <1>1, <1>2, <1>3, <2>2, <2>3, ClaudePays
    <2> QED
        BY <1>6, <2>1, <2>4 DEF machine
<1>8. CASE AskCopilot(env, tags, token)
    <2>1. PICK mode \in {"subscription", "anthropic", "gw", "openai"}, caches \in {<<NULL>>, SignIns} :
             Launched(E!RunCopilot(Machine(NULL, <<>>, Menu(404, {}), caches, NULL), env, token, tags,
                                   mode), token)
        BY <1>8, Zenon DEF AskCopilot
    <2> QED
        BY <1>1, <1>2, <1>3, <1>4, <1>5, <1>6, <2>1, CopilotPays
<1>9. CASE AskCodex(env, tags, token)
    <2>1. PICK requested \in {"auto", "key"}, authJson \in {NULL, "chatgpt", "apikey"} :
             Launched(E!RunCodex(Machine(NULL, <<>>, Menu(404, {}), <<>>, authJson), env, token, tags,
                                 requested), token)
        BY <1>9, Zenon DEF AskCodex
    <2> QED
        BY <1>1, <1>2, <1>3, <1>4, <1>5, <1>6, <2>1, CodexPays
<1> QED
    BY <1>7, <1>8, <1>9

LEMMA LaunchQuestion ==
    ASSUME [Next]_algorithmVars
    PROVE  AskLaunch \/ call'.of # "launch" \/ UNCHANGED call
<1>1. AskEdge \/ AskView => call'.of # "launch"
    <2>1. AskEdge => call'.of # "launch"
        BY DEF AskEdge
    <2>2. AskView => \E asked : call' = [of |-> "view", table |-> asked]
        BY Zenon DEF AskView
    <2> QED
        BY <2>1, <2>2
<1>2. Ask => AskLaunch \/ call'.of # "launch"
    BY <1>1, QuestionsOfTopics DEF Ask
<1>3. Answer => call'.of # "launch"
    BY DEF Answer, Idle
<1> QED
    BY <1>2, <1>3 DEF Next, TableMoves, algorithmVars

\* PaysAsAnnounced of the run, from the theorems that hold of every developer's machine.
THEOREM EveryLaunchPaysAsAnnounced == Spec => []PaysAsAnnounced
<1>1. Init => PaysAsAnnounced
    BY DEF Init, About, PaysAsAnnounced
<1>2. PaysAsAnnounced /\ [Next]_algorithmVars => PaysAsAnnounced'
    <2> SUFFICES ASSUME PaysAsAnnounced, [Next]_algorithmVars PROVE PaysAsAnnounced'
        OBVIOUS
    <2>1. CASE AskLaunch
        BY <2>1, LaunchIsAsked
    <2>2. CASE call'.of # "launch"
        BY <2>2 DEF PaysAsAnnounced
    <2>3. CASE UNCHANGED call
        BY <2>3 DEF PaysAsAnnounced
    <2> QED
        BY <2>1, <2>2, <2>3, LaunchQuestion
<1> QED
    BY <1>1, <1>2, PTL DEF Spec
-----------------------------------------------------------------------------
(* Streams: the accumulators *)

\* Events that report usage.
Reports(types) ==
    {e \in [type : types, data : [Figures -> Nat \cup {NULL}]] : e.data \notin {NULL, Done}}

\* What was last said of a figure by the first n events.
SaidBy(events, field, n) ==
    LET said == {i \in 1..n : events[i].data[field] # NULL}
    IN  IF said = {} THEN 0 ELSE events[CHOOSE i \in said : \A j \in said : j <= i].data[field]

Divides(report) == report["write5m"] # NULL \/ report["write1h"] # NULL

\* A report that says how the cache writes divide says both parts and their total; one
\* that does not, after one that did, repeats the total or says nothing of it.
Coherent(events) ==
    \A i \in 1..Len(events) :
        LET report == events[i].data
        IN  /\ Divides(report) =>
                  /\ report["write5m"] # NULL /\ report["write1h"] # NULL /\ report["flat"] # NULL
                  /\ report["flat"] = report["write5m"] + report["write1h"]
            /\ ~Divides(report) /\ (\E j \in 1..i - 1 : Divides(events[j].data)) =>
                  report["flat"] \in {NULL, SaidBy(events, "flat", i - 1)}

LEMMA SaidNext ==
    ASSUME NEW events, NEW field, NEW n \in Nat
    PROVE  /\ SaidBy(events, field, 0) = 0
           /\ SaidBy(events, field, n + 1) =
                 IF events[n + 1].data[field] # NULL THEN events[n + 1].data[field]
                 ELSE SaidBy(events, field, n)
<1> DEFINE Told(i) == events[i].data[field]
           said(k) == {i \in 1..k : Told(i) # NULL}
           Latest(s) == CHOOSE i \in s : \A j \in s : j <= i
<1>1. \A k : SaidBy(events, field, k) = IF said(k) = {} THEN 0 ELSE Told(Latest(said(k)))
    BY DEF SaidBy
<1>2. said(0) = {}
    OBVIOUS
<1> HIDE DEF Told
<1>3. CASE Told(n + 1) = NULL
    <2>1. said(n + 1) = said(n)
        BY <1>3
    <2> HIDE DEF said, Latest
    <2> QED
        BY <1>1, <1>2, <1>3, <2>1 DEF Told
<1>4. CASE Told(n + 1) # NULL
    <2> DEFINE s == said(n + 1)
    <2>1. n + 1 \in s /\ s \subseteq 1..n + 1 /\ s # {}
        BY <1>4
    <2> HIDE DEF s
    <2>2. \E i \in s : \A j \in s : j <= i
        BY <2>1
    <2>3. Latest(s) \in s /\ \A j \in s : j <= Latest(s)
        BY <2>2
    <2>4. Latest(s) = n + 1
        <3> DEFINE last == Latest(s)
        <3>1. last \in s /\ \A j \in s : j <= last
            BY <2>3
        <3> HIDE DEF last
        <3>2. last \in 1..n + 1 /\ n + 1 <= last
            BY <2>1, <3>1
        <3>3. last = n + 1
            BY <3>2
        <3> QED
            BY <3>3 DEF last
    <2> USE DEF s
    <2> HIDE DEF said, Latest
    <2> QED
        BY <1>1, <1>2, <1>4, <2>1, <2>4 DEF Told
<1> QED
    BY <1>3, <1>4

\* The accumulator after each of N events.
AppliedAs(wire, events, States, N, after) ==
    /\ after \in [0..N -> States]
    /\ after[0] = S!Empty
    /\ \A n \in 1..N : after[n] = S!Apply(wire, after[n - 1], events[n])
    /\ S!Snapshot(wire, events) = after[N]

LEMMA AppliedInOrder ==
    ASSUME NEW wire, NEW Events, NEW events \in Seq(Events), NEW States, S!Empty \in States,
           \A acc \in States, e \in Events : S!Apply(wire, acc, e) \in States
    PROVE  \E after : AppliedAs(wire, events, States, Len(events), after)
<1> DEFINE N == Len(events)
           step == [p \in States \X (1..N) |-> S!Apply(wire, p[1], events[p[2]])]
           Told(f) == f = [n \in 0..N |-> IF n = 0 THEN S!Empty
                                          ELSE S!Apply(wire, f[n - 1], events[n])]
           after == CHOOSE f : Told(f)
<1>1. N \in Nat /\ \A n \in 1..N : events[n] \in Events
    OBVIOUS
<1>2. \A acc \in States, n \in 1..N : S!Apply(wire, acc, events[n]) \in States
    BY <1>1
<1>3. S!Snapshot(wire, events) = after[N]
    BY DEF S!Snapshot
<1> HIDE DEF N
<1>4. step \in [States \X (1..N) -> States]
    BY <1>2
<1> HIDE DEF step
<1>5. PICK f \in [0..N -> States] : Follows(f, N, S!Empty, step)
    BY <1>1, <1>4, Recursion, Zenon
<1> USE DEF step
<1>6. f[0] = S!Empty /\ \A n \in 1..N : f[n] = step[<<f[n - 1], n>>]
    BY <1>5 DEF Follows
<1>7. Told(f)
    <2>1. \A n \in 1..N : f[n] = S!Apply(wire, f[n - 1], events[n])
        <3> SUFFICES ASSUME NEW n \in 1..N PROVE f[n] = S!Apply(wire, f[n - 1], events[n])
            OBVIOUS
        <3>1. n \in 0..N /\ n # 0 /\ n - 1 \in 0..N
            BY <1>1
        <3>2. <<f[n - 1], n>> \in States \X (1..N)
            BY <3>1
        <3>3. f[n] = step[<<f[n - 1], n>>]
            BY <1>6, <3>1
        <3> QED
            BY <3>2, <3>3
    <2>2. f[0] = S!Empty
        BY <1>1, <1>6
    <2>3. \A n \in 0..N : f[n] = IF n = 0 THEN S!Empty ELSE S!Apply(wire, f[n - 1], events[n])
        BY <1>1, <2>1, <2>2
    <2> QED
        BY <2>3
<1>8. Told(after)
    <2> HIDE DEF Told
    <2> QED
        BY <1>7
<1> HIDE DEF after
<1>9. /\ after[0] = S!Empty
      /\ \A n \in 1..N : after[n] = S!Apply(wire, after[n - 1], events[n])
    BY <1>1, <1>8
<1>10. after \in [0..N -> States]
    <2> DEFINE typed == {n \in 0..N : after[n] \in States}
    <2>1. 0 \in typed
        BY <1>1, <1>9
    <2>2. ASSUME NEW n \in 0..N, n + 1 \in 0..N, n \in typed PROVE n + 1 \in typed
        <3>1. n + 1 \in 1..N /\ (n + 1) - 1 = n
            BY <2>2, <1>1
        <3>2. after[n + 1] = S!Apply(wire, after[n], events[n + 1])
            BY <1>9, <3>1
        <3> QED
            BY <1>2, <2>2, <3>1, <3>2
    <2> HIDE DEF typed
    <2>3. 0..N \subseteq typed
        BY <1>1, <2>1, <2>2, CountingUp
    <2>4. \A n \in 0..N : after[n] \in States
        BY <2>3 DEF typed
    <2>5. after = [n \in 0..N |-> after[n]]
        BY <1>8
    <2> QED
        BY <2>4, <2>5
<1>11. AppliedAs(wire, events, States, N, after)
    BY <1>3, <1>9, <1>10 DEF AppliedAs
<1> QED
    BY <1>11 DEF N

Accumulators ==
    [usage : [input : Nat, read : Nat, write5m : Nat, write1h : Nat, output : Nat],
     split : BOOLEAN, error : {NULL}, terminal : BOOLEAN]

\* What the accumulator of the messages wire holds of the first n reports.
Held(events, acc, n) ==
    /\ acc.usage.input = SaidBy(events, "input", n)
    /\ acc.usage.read = SaidBy(events, "read", n)
    /\ acc.usage.output = SaidBy(events, "output", n)
    /\ acc.usage.write5m + acc.usage.write1h = SaidBy(events, "flat", n)
    /\ acc.split <=> \E j \in 1..n : Divides(events[j].data)
    /\ ~acc.split => acc.usage.write1h = 0

Messages == Reports({"message_start", "message_delta"})

\* What a report makes of the accumulator.
Merges(acc, r, m) ==
    LET flat == IF acc.split \/ Divides(r) THEN NULL ELSE r["flat"]
    IN  /\ m.split = (acc.split \/ Divides(r))
        /\ m.usage.input = S!Or(r["input"], acc.usage.input)
        /\ m.usage.read = S!Or(r["read"], acc.usage.read)
        /\ m.usage.output = S!Or(r["output"], acc.usage.output)
        /\ m.usage.write5m = S!Or(r["write5m"], S!Or(flat, acc.usage.write5m))
        /\ m.usage.write1h = S!Or(r["write1h"], acc.usage.write1h)

LEMMA MessagesMerge ==
    ASSUME NEW acc \in Accumulators, NEW e \in Messages
    PROVE  /\ S!Apply("messages", acc, e) \in Accumulators
           /\ Merges(acc, e.data, S!Apply("messages", acc, e))
<1> DEFINE r == e.data
           m == S!MergeUsage(acc, r)
           flat == IF acc.split \/ Divides(r) THEN NULL ELSE r["flat"]
           usage == [input |-> S!Or(r["input"], acc.usage.input), read |-> S!Or(r["read"], acc.usage.read),
                     write5m |-> S!Or(r["write5m"], S!Or(flat, acc.usage.write5m)),
                     write1h |-> S!Or(r["write1h"], acc.usage.write1h),
                     output |-> S!Or(r["output"], acc.usage.output)]
           split == acc.split \/ Divides(r)
<1>1. /\ r # NULL /\ e.type \in {"message_start", "message_delta"}
      /\ \A field \in Figures : r[field] \in Nat \cup {NULL}
    BY DEF Messages, Reports
<1>2. S!Apply("messages", acc, e) = m
    BY <1>1 DEF S!Apply, S!ApplyMessages
<1> HIDE DEF r
<1>3. m = [acc EXCEPT !.split = split, !.usage = usage]
    BY DEF S!MergeUsage, Divides
<1>4. \A x \in Nat \cup {NULL}, y \in Nat : S!Or(x, y) \in Nat
    BY DEF S!Or
<1>5. usage \in [input : Nat, read : Nat, write5m : Nat, write1h : Nat, output : Nat]
    <2>1. /\ acc.usage.input \in Nat /\ acc.usage.read \in Nat /\ acc.usage.write5m \in Nat
          /\ acc.usage.write1h \in Nat /\ acc.usage.output \in Nat
        BY DEF Accumulators
    <2>2. /\ r["input"] \in Nat \cup {NULL} /\ r["read"] \in Nat \cup {NULL}
          /\ r["write5m"] \in Nat \cup {NULL} /\ r["write1h"] \in Nat \cup {NULL}
          /\ r["output"] \in Nat \cup {NULL} /\ flat \in Nat \cup {NULL}
        BY <1>1 DEF Figures
    <2> HIDE DEF flat
    <2>3. S!Or(flat, acc.usage.write5m) \in Nat
        BY <1>4, <2>1, <2>2
    <2> QED
        BY <1>4, <2>1, <2>2, <2>3
<1>6. split \in BOOLEAN
    BY DEF Accumulators, Divides
<1>7. m.split = split /\ m.usage = usage /\ m \in Accumulators
    <2> HIDE DEF m, split, usage
    <2> QED
        BY <1>3, <1>5, <1>6 DEF Accumulators
<1>8. Merges(acc, r, m)
    <2> HIDE DEF m
    <2> QED
        BY <1>7 DEF Merges
<1> QED
    BY <1>2, <1>7, <1>8 DEF r

LEMMA HeldNext ==
    ASSUME NEW events \in Seq(Messages), Coherent(events), NEW n \in Nat, n + 1 <= Len(events),
           NEW acc \in Accumulators, Held(events, acc, n)
    PROVE  Held(events, S!Apply("messages", acc, events[n + 1]), n + 1)
<1> DEFINE e == events[n + 1]
           r == e.data
           m == S!Apply("messages", acc, e)
           By(field) == SaidBy(events, field, n + 1)
           Was(field) == SaidBy(events, field, n)
           divided == \E j \in 1..n : Divides(events[j].data)
<1>1. e \in Messages /\ n + 1 \in 1..Len(events) /\ (n + 1) - 1 = n
    OBVIOUS
<1>2. Merges(acc, r, m)
    BY <1>1, MessagesMerge
<1>3. \A field : By(field) = IF r[field] # NULL THEN r[field] ELSE Was(field)
    BY SaidNext
<1>4. /\ Divides(r) => /\ r["write5m"] # NULL /\ r["write1h"] # NULL /\ r["flat"] # NULL
                       /\ r["flat"] = r["write5m"] + r["write1h"]
      /\ ~Divides(r) /\ divided => r["flat"] \in {NULL, Was("flat")}
    BY <1>1 DEF Coherent
<1>5. (\E j \in 1..n + 1 : Divides(events[j].data)) <=> divided \/ Divides(r)
    <2>1. \A j : j \in 1..n + 1 <=> j \in 1..n \/ j = n + 1
        OBVIOUS
    <2> QED
        BY <2>1
<1>6. /\ \A field \in Figures : r[field] \in Nat \cup {NULL}
      /\ acc.usage.write5m \in Nat /\ acc.usage.write1h \in Nat /\ acc.split \in BOOLEAN
    BY <1>1 DEF Messages, Reports, Accumulators
<1>7. /\ acc.usage.input = Was("input") /\ acc.usage.read = Was("read")
      /\ acc.usage.output = Was("output")
      /\ acc.usage.write5m + acc.usage.write1h = Was("flat")
      /\ acc.split <=> divided
      /\ ~acc.split => acc.usage.write1h = 0
    BY DEF Held
<1> HIDE DEF m, r, divided, By, Was
<1>8. m.usage.input = By("input") /\ m.usage.read = By("read") /\ m.usage.output = By("output")
    BY <1>2, <1>3, <1>7 DEF Merges, S!Or
<1>9. /\ m.usage.write5m + m.usage.write1h = By("flat")
      /\ ~m.split => m.usage.write1h = 0
    <2>1. CASE Divides(r)
        BY <1>2, <1>3, <1>4, <2>1 DEF Merges, S!Or
    <2>2. CASE ~Divides(r) /\ acc.split
        <3>1. r["write5m"] = NULL /\ r["write1h"] = NULL /\ By("flat") = Was("flat")
            BY <1>3, <1>4, <1>7, <2>2 DEF Divides
        <3> QED
            BY <1>2, <1>7, <2>2, <3>1 DEF Merges, S!Or
    <2>3. CASE ~Divides(r) /\ ~acc.split
        <3>1. r["write5m"] = NULL /\ r["write1h"] = NULL /\ acc.usage.write1h = 0
            BY <1>7, <2>3 DEF Divides
        <3>2. m.usage.write1h = 0 /\ m.usage.write5m = S!Or(r["flat"], acc.usage.write5m)
            BY <1>2, <2>3, <3>1 DEF Merges, S!Or
        <3>3. r["flat"] \in Nat \cup {NULL}
            BY <1>6 DEF Figures
        <3> QED
            BY <1>3, <1>6, <1>7, <3>1, <3>2, <3>3 DEF S!Or
    <2> QED
        BY <1>6, <2>1, <2>2, <2>3
<1>10. m.split <=> divided \/ Divides(r)
    BY <1>2, <1>7 DEF Merges
<1> QED
    BY <1>5, <1>8, <1>9, <1>10 DEF Held, m, r, divided, By

LEMMA SaidByAll ==
    ASSUME NEW Events, NEW events \in Seq(Events), NEW field
    PROVE  S!LastSaid(events, field) = SaidBy(events, field, Len(events))
<1>1. DOMAIN events = 1..Len(events)
    OBVIOUS
<1> QED
    BY <1>1 DEF S!LastSaid, SaidBy

\* Of any number of reports of one answer, no token is counted twice or lost (CountedOnce).
THEOREM ReportsCountOnce ==
    ASSUME NEW events \in Seq(Messages), Coherent(events)
    PROVE  S!CountedOnce("messages", events)
<1> DEFINE N == Len(events)
           u == S!Snapshot("messages", events).usage
<1>1. S!Empty \in Accumulators /\ Held(events, S!Empty, 0)
    <2>1. \A field : SaidBy(events, field, 0) = 0
        BY SaidNext
    <2> QED
        BY <2>1 DEF S!Empty, S!EmptyUsage, Accumulators, Held
<1>2. \A acc \in Accumulators, e \in Messages : S!Apply("messages", acc, e) \in Accumulators
    BY MessagesMerge
<1>3. PICK after : AppliedAs("messages", events, Accumulators, N, after)
    BY <1>1, <1>2, AppliedInOrder, Zenon
<1>4. /\ after \in [0..N -> Accumulators] /\ after[0] = S!Empty
      /\ \A n \in 1..N : after[n] = S!Apply("messages", after[n - 1], events[n])
      /\ S!Snapshot("messages", events) = after[N]
    BY <1>3 DEF AppliedAs
<1>5. N \in Nat
    OBVIOUS
<1> DEFINE held == {n \in 0..N : Held(events, after[n], n)}
<1>6. ASSUME NEW n \in 0..N, n + 1 \in 0..N, n \in held PROVE n + 1 \in held
    <2>1. n \in Nat /\ n + 1 <= Len(events) /\ n + 1 \in 1..N /\ (n + 1) - 1 = n
        BY <1>5, <1>6
    <2>2. after[n] \in Accumulators /\ Held(events, after[n], n)
        BY <1>4, <1>6
    <2>3. after[n + 1] = S!Apply("messages", after[n], events[n + 1])
        BY <1>4, <2>1
    <2>4. Held(events, after[n + 1], n + 1)
        BY <2>1, <2>2, <2>3, HeldNext
    <2> QED
        BY <1>6, <2>4
<1>7. 0 \in held
    BY <1>1, <1>4, <1>5
<1> HIDE DEF held, N
<1>8. N \in held
    <2>1. 0..N \subseteq held
        BY <1>5, <1>6, <1>7, CountingUp
    <2> QED
        BY <1>5, <2>1
<1>9. Held(events, after[N], N)
    BY <1>8 DEF held
<1>10. \A field : S!LastSaid(events, field) = SaidBy(events, field, N)
    BY SaidByAll DEF N
<1>11. u = after[N].usage
    BY <1>4
<1> HIDE DEF u
<1> QED
    BY <1>9, <1>10, <1>11 DEF S!CountedOnce, Held, u

\* What is cached of an input: what was read and, where a wire has such a
\* figure, what was written.
Cached(wire, r) == S!Or(r["read"], 0) + (IF wire = "chat" THEN 0 ELSE S!Or(r["flat"], 0))

\* Either OpenAI wire's buckets of one report.
LEMMA BucketsOfAReport ==
    ASSUME NEW wire \in {"responses", "chat"}, NEW r, DOMAIN r = Figures,
           \A field \in Figures : r[field] \in Nat \cup {NULL},
           r["input"] # NULL, Cached(wire, r) <= r["input"]
    PROVE  \E input, read, flat, output \in Int :
              /\ input = r["input"] - Cached(wire, r) /\ read = S!Or(r["read"], 0)
              /\ flat = Cached(wire, r) - read /\ output = S!Or(r["output"], 0)
              /\ (IF wire = "chat" THEN S!FromChatUsage(r) ELSE S!FromUsage(r)) =
                    [input |-> input, read |-> read, write5m |-> flat, write1h |-> 0, output |-> output]
<1> DEFINE read == S!Or(r["read"], 0)
           flat == IF wire = "chat" THEN 0 ELSE S!Or(r["flat"], 0)
           output == S!Or(r["output"], 0)
           left == r["input"] - Cached(wire, r)
           u == IF wire = "chat" THEN S!FromChatUsage(r) ELSE S!FromUsage(r)
<1>1. /\ r["input"] \in Nat /\ read \in Nat /\ output \in Nat /\ flat \in Nat
      /\ S!Or(r["flat"], 0) \in Nat /\ S!Or(r["input"], 0) = r["input"]
    BY DEF Figures, S!Or
<1>2. Cached(wire, r) = read + flat
    BY DEF Cached
<1>3. left \in Nat /\ flat = Cached(wire, r) - read
    BY <1>1, <1>2
<1>4. S!Positive(left) = left
    BY <1>3 DEF S!Positive
<1> HIDE DEF read, flat, output, left
<1>5. ASSUME wire = "chat"
      PROVE  u = [input |-> left, read |-> read, write5m |-> flat, write1h |-> 0, output |-> output]
    <2>1. flat = 0 /\ S!Or(r["input"], 0) - read = left
        BY <1>1, <1>2, <1>5 DEF flat, left
    <2>2. u = [S!EmptyUsage EXCEPT !.input = left, !.read = read, !.output = output]
        BY <1>4, <1>5, <2>1 DEF S!FromChatUsage, read, output
    <2> HIDE DEF u
    <2> QED
        BY <2>1, <2>2 DEF S!EmptyUsage
<1>6. ASSUME wire = "responses"
      PROVE  u = [input |-> left, read |-> read, write5m |-> flat, write1h |-> 0, output |-> output]
    <2>1. flat = S!Or(r["flat"], 0) /\ (S!Or(r["input"], 0) - read) - flat = left
        BY <1>1, <1>2, <1>6 DEF flat, left
    <2>2. u = [S!EmptyUsage EXCEPT !.input = left, !.read = read, !.write5m = flat, !.output = output]
        BY <1>4, <1>6, <2>1 DEF S!FromUsage, read, output
    <2> HIDE DEF u
    <2> QED
        BY <2>2 DEF S!EmptyUsage
<1>7. u = [input |-> left, read |-> read, write5m |-> flat, write1h |-> 0, output |-> output]
    BY <1>5, <1>6
<1>8. /\ left \in Int /\ left = r["input"] - Cached(wire, r)
      /\ read \in Int /\ read = S!Or(r["read"], 0)
      /\ flat \in Int /\ flat = Cached(wire, r) - S!Or(r["read"], 0)
      /\ output \in Int /\ output = S!Or(r["output"], 0)
    BY <1>1, <1>3 DEF read, output, left
<1>9. (IF wire = "chat" THEN S!FromChatUsage(r) ELSE S!FromUsage(r)) =
          [input |-> left, read |-> read, write5m |-> flat, write1h |-> 0, output |-> output]
    BY <1>7 DEF u
<1> QED
    BY <1>8, <1>9

\* On the OpenAI wires an answer has one report, whose input includes its cached
\* part (responses.ts:62-79, chat.ts:38-50).
THEOREM ReportCountsOnce ==
    ASSUME NEW wire \in {"responses", "chat"}, NEW types, "error" \notin types,
           NEW e \in Reports(types), e.data["input"] # NULL,
           Cached(wire, e.data) <= e.data["input"]
    PROVE  S!CountedOnce(wire, <<e>>)
<1> DEFINE events == <<e>>
           r == e.data
           u == IF wire = "chat" THEN S!FromChatUsage(r) ELSE S!FromUsage(r)
           Totals == [input : Int, read : Int, write5m : Int, write1h : Int, output : Int]
           Only == {e}
           Running == [usage : Totals, split : BOOLEAN, error : {NULL, "failed"}, terminal : BOOLEAN]
<1>1. events \in Seq({e}) /\ Len(events) = 1 /\ events[1] = e
    OBVIOUS
<1> HIDE DEF events
<1>2. /\ r # NULL /\ r # Done /\ e.type # "error" /\ DOMAIN r = Figures
      /\ \A field \in Figures : r[field] \in Nat \cup {NULL}
    BY DEF Reports
<1>3. /\ r["input"] \in Nat /\ S!Or(r["read"], 0) \in Nat /\ S!Or(r["flat"], 0) \in Nat
      /\ Cached(wire, r) \in Nat
    BY <1>2 DEF Figures, S!Or, Cached
<1>4. PICK input, read, flat, output \in Int :
          /\ input = r["input"] - Cached(wire, r) /\ read = S!Or(r["read"], 0)
          /\ flat = Cached(wire, r) - read /\ output = S!Or(r["output"], 0)
          /\ u = [input |-> input, read |-> read, write5m |-> flat, write1h |-> 0, output |-> output]
    BY <1>2, BucketsOfAReport
<1> HIDE DEF u
<1>5. /\ u \in Totals
      /\ u.input = input /\ u.read = read /\ u.write5m = flat /\ u.write1h = 0 /\ u.output = output
    BY <1>4
<1>6. \A acc \in Running :
         /\ S!Apply(wire, acc, e) \in Running
         /\ S!Apply(wire, acc, e).usage = u
    <2> SUFFICES ASSUME NEW acc \in Running
                 PROVE  S!Apply(wire, acc, e) \in Running /\ S!Apply(wire, acc, e).usage = u
        OBVIOUS
    <2> DEFINE applied == S!Apply(wire, acc, e)
               error == IF e.type = "response.failed" THEN "failed" ELSE acc.error
    <2>1. S!Reported(r)
        BY <1>2 DEF S!Reported
    <2>2. CASE wire = "responses"
        <3>1. applied = [acc EXCEPT !.terminal = TRUE, !.usage = u, !.error = error]
            BY <1>2, <2>1, <2>2 DEF S!Apply, S!ApplyResponses, u
        <3> HIDE DEF applied
        <3>2. applied \in Running /\ applied.usage = u
            BY <1>5, <3>1 DEF Running
        <3> QED
            BY <3>2 DEF applied
    <2>3. CASE wire = "chat"
        <3>1. applied = [acc EXCEPT !.usage = u]
            BY <1>2, <2>1, <2>3 DEF S!Apply, S!ApplyChat, Figures, u
        <3> HIDE DEF applied
        <3>2. applied \in Running /\ applied.usage = u
            BY <1>5, <3>1 DEF Running
        <3> QED
            BY <3>2 DEF applied
    <2> QED
        BY <2>2, <2>3
<1>7. S!Snapshot(wire, events).usage = u
    <2>1. S!Empty \in Running
        BY DEF S!Empty, S!EmptyUsage, Running, Totals
    <2> HIDE DEF Running
    <2>2. events \in Seq(Only) /\ \A acc \in Running, x \in Only : S!Apply(wire, acc, x) \in Running
        BY <1>1, <1>6
    <2> HIDE DEF Only
    <2>3. PICK after : AppliedAs(wire, events, Running, Len(events), after)
        BY <2>1, <2>2, AppliedInOrder, Zenon
    <2>4. AppliedAs(wire, events, Running, 1, after)
        BY <1>1, <2>3
    <2>5. /\ after \in [0..1 -> Running] /\ after[0] = S!Empty
          /\ after[1] = S!Apply(wire, after[1 - 1], events[1])
          /\ S!Snapshot(wire, events) = after[1]
        BY <2>4 DEF AppliedAs
    <2>6. after[1] = S!Apply(wire, after[0], e)
        BY <1>1, <2>5
    <2>7. after[0] \in Running
        BY <2>1, <2>5
    <2> QED
        BY <1>6, <2>5, <2>6, <2>7
<1>8. \A field : S!LastSaid(events, field) = S!Or(r[field], 0)
    <2>1. \A field : S!LastSaid(events, field) = SaidBy(events, field, 1)
        BY <1>1, SaidByAll
    <2>2. \A field : SaidBy(events, field, 0 + 1) =
                       IF events[0 + 1].data[field] # NULL THEN events[0 + 1].data[field]
                       ELSE SaidBy(events, field, 0)
        BY SaidNext
    <2>3. \A field : SaidBy(events, field, 0) = 0
        BY SaidNext
    <2> QED
        BY <1>1, <2>1, <2>2, <2>3 DEF S!Or
<1>9. /\ S!LastSaid(events, "output") = output /\ S!LastSaid(events, "read") = read
      /\ S!LastSaid(events, "flat") = S!Or(r["flat"], 0)
      /\ S!LastSaid(events, "input") = r["input"]
    BY <1>2, <1>4, <1>8 DEF S!Or
<1> DEFINE v == S!Snapshot(wire, events).usage
<1>10. v = u
    BY <1>7
<1> HIDE DEF v
<1>11. Cached(wire, r) = read + (IF wire = "chat" THEN 0 ELSE S!LastSaid(events, "flat"))
    BY <1>4, <1>9 DEF Cached
<1> HIDE DEF r
<1> DEFINE written == IF wire = "chat" THEN 0 ELSE S!LastSaid(events, "flat")
<1>12. Cached(wire, r) = read + written /\ written \in Nat
    BY <1>3, <1>9, <1>11
<1>13. flat = Cached(wire, r) - read
    BY <1>4
<1> HIDE DEF written
<1>14. /\ v.output = S!LastSaid(events, "output") /\ v.read = S!LastSaid(events, "read")
       /\ v.write5m + v.write1h = written
       /\ S!LastSaid(events, "input") = v.input + v.read + v.write5m + v.write1h
    BY <1>3, <1>4, <1>5, <1>9, <1>10, <1>12, <1>13
<1>15. wire # "messages"
    OBVIOUS
<1> QED
    BY <1>14, <1>15 DEF S!CountedOnce, v, events, written

\* A report as the questions write it.
Written(r, input, read, flat, write1h, output, broken) ==
    /\ r \in [Figures -> Nat \cup {NULL}]
    /\ r["input"] = input /\ r["read"] = read /\ r["flat"] = flat /\ r["output"] = output
    /\ Divides(r) <=> broken /\ flat # NULL
    /\ Divides(r) => /\ r["write5m"] # NULL /\ r["write1h"] # NULL
                     /\ r["flat"] = r["write5m"] + r["write1h"]

Amount == Nat \cup {NULL}
LEMMA ReportIsWritten ==
    ASSUME NEW input \in Amount, NEW read \in Amount, NEW flat \in Amount, NEW write1h \in Nat,
           NEW output \in Amount, NEW broken \in BOOLEAN, flat # NULL => write1h <= flat
    PROVE  /\ Written(Report(input, read, flat, write1h, output, broken),
                      input, read, flat, write1h, output, broken)
           /\ \A more \in Amount :
                 Written([Report(input, read, flat, write1h, output, broken) EXCEPT !.output = more],
                         input, read, flat, write1h, more, broken)
<1> DEFINE write5 == IF broken /\ flat # NULL THEN flat - write1h ELSE NULL
           write1 == IF broken /\ flat # NULL THEN write1h ELSE NULL
           As(out) == [input |-> input, read |-> read, flat |-> flat, write5m |-> write5,
                       write1h |-> write1, output |-> out]
<1>1. /\ Report(input, read, flat, write1h, output, broken) = As(output)
      /\ \A more : [Report(input, read, flat, write1h, output, broken) EXCEPT !.output = more] = As(more)
    BY DEF Report
<1>2. NULL \notin Nat
    BY PricesAssumption
<1>3. /\ write5 \in Nat \cup {NULL} /\ write1 \in Nat \cup {NULL}
      /\ IF broken /\ flat # NULL THEN /\ write5 # NULL /\ write1 # NULL /\ flat = write5 + write1
         ELSE write5 = NULL /\ write1 = NULL
    BY <1>2 DEF Amount
<1> HIDE DEF write5, write1
<1>4. \A out \in Amount : Written(As(out), input, read, flat, write1h, out, broken)
    BY <1>3 DEF Written, Divides, Figures, Amount
<1> HIDE DEF As
<1> QED
    BY <1>1, <1>4

LEMMA WrittenReports ==
    ASSUME NEW types, NEW type \in types, NEW r \in [Figures -> Nat \cup {NULL}]
    PROVE  Event(type, r) \in Reports(types) /\ Event(type, r).data = r
    BY AlgorithmsAssumption DEF Event, Reports

LEMMA TwoReportsCohere ==
    ASSUME NEW input \in Amount, NEW read \in Amount, NEW flat \in Amount, NEW write1h \in Nat,
           NEW output \in Amount, NEW broken \in BOOLEAN, flat # NULL => write1h <= flat,
           NEW more \in Amount,
           NEW second \in Again(Report(input, read, flat, write1h, output, broken), broken)
    PROVE  LET events == <<Event("message_start", Report(input, read, flat, write1h, output, broken)),
                           Event("message_delta", [second EXCEPT !.output = more])>>
           IN  events \in Seq(Messages) /\ Coherent(events)
<1> DEFINE one == Report(input, read, flat, write1h, output, broken)
           two == [second EXCEPT !.output = more]
           first == Event("message_start", one)
           then == Event("message_delta", two)
           events == <<first, then>>
<1>0. \A x \in {NULL, 0, 2, 3, 4, 5, 7, 8} : x \in Amount
    BY DEF Amount
<1>1. Written(one, input, read, flat, write1h, output, broken)
    BY ReportIsWritten
<1>2. \E in, rd, fl, wr, br :
          /\ Written(two, in, rd, fl, wr, more, br)
          /\ ~br => fl \in {NULL, flat} \/ ~broken
    <2>1. one.flat = flat
        BY DEF Report
    <2>2. CASE second = Report(NULL, NULL, NULL, 0, NULL, FALSE)
        <3> HIDE DEF one
        <3>1. 0 \in Nat /\ (NULL # NULL => 0 <= NULL) /\ FALSE \in BOOLEAN
            OBVIOUS
        <3>2. Written(two, NULL, NULL, NULL, 0, more, FALSE)
            BY <1>0, <2>2, <3>1, ReportIsWritten, Zenon
        <3> QED
            BY <3>2
    <2>3. CASE second = Report(8, NULL, NULL, 0, NULL, FALSE)
        <3> HIDE DEF one
        <3>1. 0 \in Nat /\ (NULL # NULL => 0 <= NULL) /\ FALSE \in BOOLEAN
            OBVIOUS
        <3>2. Written(two, 8, NULL, NULL, 0, more, FALSE)
            BY <1>0, <2>3, <3>1, ReportIsWritten, Zenon
        <3> QED
            BY <3>2
    <2>4. CASE second = Report(7, 3, IF broken THEN one.flat ELSE 4, 0, NULL, FALSE)
        <3> DEFINE total == IF broken THEN one.flat ELSE 4
        <3>1. total \in Amount /\ (total # NULL => 0 <= total) /\ (broken => total = flat)
            BY <2>1 DEF Amount
        <3>2. second = Report(7, 3, total, 0, NULL, FALSE) /\ 0 \in Nat /\ FALSE \in BOOLEAN
            BY <2>4
        <3> HIDE DEF total, one
        <3>3. Written(two, 7, 3, total, 0, more, FALSE)
            BY <1>0, <3>1, <3>2, ReportIsWritten, Zenon
        <3> QED
            BY <3>1, <3>3
    <2>5. CASE second = Report(NULL, NULL, 4, 2, NULL, TRUE)
        <3> HIDE DEF one
        <3>1. 2 \in Nat /\ (4 # NULL => 2 <= 4) /\ TRUE \in BOOLEAN
            OBVIOUS
        <3>2. Written(two, NULL, NULL, 4, 2, more, TRUE)
            BY <1>0, <2>5, <3>1, ReportIsWritten, Zenon
        <3> QED
            BY <3>2
    <2> QED
        BY <2>2, <2>3, <2>4, <2>5 DEF Again
<1> HIDE DEF one, two
<1>3. /\ one \in [Figures -> Nat \cup {NULL}] /\ two \in [Figures -> Nat \cup {NULL}]
      /\ one["flat"] = flat /\ flat \in Nat \cup {NULL}
      /\ \A r \in {one, two} : Divides(r) => /\ r["write5m"] # NULL /\ r["write1h"] # NULL
                                             /\ r["flat"] = r["write5m"] + r["write1h"]
      /\ ~Divides(two) /\ Divides(one) => two["flat"] \in {NULL, flat}
    BY <1>1, <1>2 DEF Written, Amount
<1>4. /\ first \in Messages /\ first.data = one
      /\ then \in Messages /\ then.data = two
    BY <1>3, WrittenReports DEF Messages
<1> HIDE DEF first, then
<1>5. events \in Seq(Messages) /\ Len(events) = 2 /\ events[1] = first /\ events[2] = then
    BY <1>4
<1> HIDE DEF events
<1>6. SaidBy(events, "flat", 1) = IF flat # NULL THEN flat ELSE 0
    <2>1. SaidBy(events, "flat", 0 + 1) =
              IF events[0 + 1].data["flat"] # NULL THEN events[0 + 1].data["flat"]
              ELSE SaidBy(events, "flat", 0)
        BY SaidNext
    <2>2. SaidBy(events, "flat", 0) = 0
        BY SaidNext
    <2> QED
        BY <1>3, <1>4, <1>5, <2>1, <2>2
<1>7. NULL \notin Nat /\ \A r \in {one, two} : r["flat"] \in Nat \cup {NULL}
                                       /\ r["write5m"] \in Nat \cup {NULL} /\ r["write1h"] \in Nat \cup {NULL}
    BY <1>3, PricesAssumption DEF Figures
<1>8. \A r \in {one, two} : Divides(r) => r["flat"] # NULL
    BY <1>3, <1>7
<1>9. Coherent(events)
    <2> SUFFICES ASSUME NEW i \in 1..2
                 PROVE  LET report == events[i].data
                        IN  /\ Divides(report) =>
                                  /\ report["write5m"] # NULL /\ report["write1h"] # NULL /\ report["flat"] # NULL
                                  /\ report["flat"] = report["write5m"] + report["write1h"]
                            /\ ~Divides(report) /\ (\E j \in 1..i - 1 : Divides(events[j].data)) =>
                                  report["flat"] \in {NULL, SaidBy(events, "flat", i - 1)}
        BY <1>5 DEF Coherent
    <2>1. CASE i = 1
        BY <1>3, <1>4, <1>5, <1>8, <2>1
    <2>2. CASE i = 2
        <3>1. \A j \in 1..i - 1 : events[j].data = one
            BY <1>4, <1>5, <2>2
        <3>2. Divides(one) => flat # NULL
            BY <1>3, <1>8
        <3>3. events[i].data = two /\ i - 1 = 1
            BY <1>4, <1>5, <2>2
        <3> QED
            BY <1>3, <1>6, <1>8, <3>1, <3>2, <3>3
    <2> QED
        BY <2>1, <2>2
<1> QED
    BY <1>5, <1>9 DEF events, first, then, one, two

LEMMA TwoReportsAreAsked == AskTwoReports => CountedOnce'
<1>1. ASSUME NEW input \in {0, 7}, NEW read \in {NULL, 0, 3}, NEW flat \in {NULL, 2, 4},
             NEW write1h \in 0..1, NEW output \in 0..1, NEW broken \in BOOLEAN, NEW more \in {NULL, 5},
             NEW second \in Again(Report(input, read, flat, write1h, output, broken), broken),
             Said("messages",
                  <<Event("message_start", Report(input, read, flat, write1h, output, broken)),
                    Event("message_delta", [second EXCEPT !.output = more])>>)
      PROVE  CountedOnce'
    <2> DEFINE events == <<Event("message_start", Report(input, read, flat, write1h, output, broken)),
                           Event("message_delta", [second EXCEPT !.output = more])>>
    <2>0. /\ input \in Amount /\ read \in Amount /\ flat \in Amount /\ write1h \in Nat
          /\ output \in Amount /\ (flat # NULL => write1h <= flat) /\ more \in Amount
          /\ broken \in BOOLEAN
          /\ second \in Again(Report(input, read, flat, write1h, output, broken), broken)
        BY <1>1 DEF Amount
    <2>1. events \in Seq(Messages) /\ Coherent(events)
        BY <2>0, TwoReportsCohere
    <2>2. call' = [of |-> "reports", wire |-> "messages", events |-> events]
        BY <1>1 DEF Said
    <2> HIDE DEF events
    <2>3. S!CountedOnce("messages", events)
        BY <2>1, ReportsCountOnce
    <2>4. call'.wire = "messages" /\ call'.events = events
        BY <2>2
    <2> QED
        BY <2>3, <2>4 DEF CountedOnce
<1> QED
    BY <1>1 DEF AskTwoReports

LEMMA OneReportIsAsked == AskOneReport => CountedOnce'
<1>1. ASSUME NEW wire \in {"responses", "chat"}, NEW input \in {7, 9}, NEW read \in {NULL, 0, 3},
             NEW flat \in {NULL, 4}, NEW output \in {0, 5},
             Said(wire, <<Event(IF wire = "chat" THEN "message" ELSE "response.completed",
                                Report(input, read, flat, 0, output, FALSE))>>)
      PROVE  CountedOnce'
    <2> DEFINE type == IF wire = "chat" THEN "message" ELSE "response.completed"
               types == {"message", "response.completed"}
               r == Report(input, read, flat, 0, output, FALSE)
               e == Event(type, r)
    <2>1. /\ input \in Amount /\ read \in Amount /\ flat \in Amount
          /\ output \in Amount /\ 0 \in Nat /\ FALSE \in BOOLEAN /\ (flat # NULL => 0 <= flat)
        BY <1>1 DEF Amount
    <2>2. Written(r, input, read, flat, 0, output, FALSE)
        <3> HIDE DEF r
        <3>1. Written(Report(input, read, flat, 0, output, FALSE), input, read, flat, 0, output, FALSE)
            BY <2>1, ReportIsWritten, Zenon
        <3> QED
            BY <3>1 DEF r
    <2> HIDE DEF r
    <2>3. /\ r \in [Figures -> Nat \cup {NULL}]
          /\ r["input"] = input /\ r["read"] = read /\ r["flat"] = flat
        BY <2>2 DEF Written
    <2>4. type \in types /\ "error" \notin types
        OBVIOUS
    <2>5. call' = [of |-> "reports", wire |-> wire, events |-> <<e>>]
        BY <1>1 DEF Said, r
    <2> HIDE DEF type, types
    <2>6. e \in Reports(types) /\ e.data = r
        BY <2>3, <2>4, WrittenReports
    <2> HIDE DEF e
    <2>7. /\ e.data["input"] # NULL
          /\ Cached(wire, e.data) <= e.data["input"]
        <3>1. e.data["input"] = input /\ e.data["read"] = read /\ e.data["flat"] = flat
            BY <2>3, <2>6
        <3>2. NULL \notin Nat
            BY PricesAssumption
        <3>3. S!Or(read, 0) \in {0, 3} /\ S!Or(flat, 0) \in {0, 4} /\ input \in {7, 9}
            BY <1>1 DEF S!Or
        <3>4. Cached(wire, e.data) = S!Or(read, 0) + (IF wire = "chat" THEN 0 ELSE S!Or(flat, 0))
            BY <3>1 DEF Cached
        <3> QED
            BY <3>1, <3>2, <3>3, <3>4
    <2>8. S!CountedOnce(wire, <<e>>)
        BY <2>4, <2>6, <2>7, ReportCountsOnce
    <2>9. call'.wire = wire /\ call'.events = <<e>>
        BY <2>5
    <2> QED
        BY <2>8, <2>9 DEF CountedOnce
<1> SUFFICES ASSUME AskOneReport PROVE CountedOnce'
    OBVIOUS
<1>2. PICK wire \in {"responses", "chat"}, input \in {7, 9}, read \in {NULL, 0, 3},
           flat \in {NULL, 4}, output \in {0, 5} :
           Said(wire, <<Event(IF wire = "chat" THEN "message" ELSE "response.completed",
                              Report(input, read, flat, 0, output, FALSE))>>)
    BY DEF AskOneReport
<1> QED
    BY <1>1, <1>2

LEMMA ReportsQuestion ==
    ASSUME [Next]_algorithmVars
    PROVE  AskReports \/ call'.of # "reports" \/ UNCHANGED call
<1>1. AskEdge \/ AskView => call'.of # "reports"
    <2>1. AskEdge => call'.of # "reports"
        BY DEF AskEdge
    <2>2. AskView => \E asked : call' = [of |-> "view", table |-> asked]
        BY Zenon DEF AskView
    <2> QED
        BY <2>1, <2>2
<1>2. Ask => AskReports \/ call'.of # "reports"
    BY <1>1, QuestionsOfTopics DEF Ask
<1>3. Answer => call'.of # "reports"
    BY DEF Answer, Idle
<1> QED
    BY <1>2, <1>3 DEF Next, TableMoves, algorithmVars

\* CountedOnce of the run, from the theorems that hold of every report.
THEOREM EveryReportCountsOnce == Spec => []CountedOnce
<1>1. Init => CountedOnce
    <2>1. \A topic \in Topics : About(topic).of = "topic"
        BY DEF About
    <2> QED
        BY <2>1 DEF Init, CountedOnce
<1>2. CountedOnce /\ [Next]_algorithmVars => CountedOnce'
    <2> SUFFICES ASSUME CountedOnce, [Next]_algorithmVars PROVE CountedOnce'
        OBVIOUS
    <2>1. CASE AskReports
        BY <2>1, TwoReportsAreAsked, OneReportIsAsked DEF AskReports
    <2>2. CASE call'.of # "reports"
        BY <2>2 DEF CountedOnce
    <2>3. CASE UNCHANGED call
        BY <2>3 DEF CountedOnce
    <2> QED
        BY <2>1, <2>2, <2>3, ReportsQuestion
<1> QED
    BY <1>1, <1>2, PTL DEF Spec

-----------------------------------------------------------------------------
(* the prices *)

\* The files, ids and calls the questions are about.
LEMMA CatalogsPublish ==
    ASSUME NEW key, key # <<"other">>, NEW raw \in Catalogs(key)
    PROVE  /\ DOMAIN raw = {key, <<"other">>}
           /\ \A k \in DOMAIN raw : Publishes(raw[k])
           /\ \E k \in DOMAIN raw : raw[k].mode \in {"chat", "responses"} /\ ~Half(raw[k], BaseTier)
<1> DEFINE Sparse == [Buckets -> Nat \cup {NULL}]
           Amounts == Nat \cup {NULL}
<1>1. ASSUME NEW i \in Amounts, NEW r \in Amounts, NEW w \in Amounts, NEW h \in Amounts, NEW o \in Amounts
      PROVE  Priced(i, r, w, h, o) \in Sparse /\ Priced(i, r, w, h, o)["input"] = i
             /\ Priced(i, r, w, h, o)["output"] = o
    BY DEF Priced, Buckets
<1>2. ASSUME NEW mode, NEW base \in Sparse, NEW lower \in Sparse, NEW upper \in Sparse, NEW priority \in Sparse
      PROVE  /\ Publishes(Entry(mode, base, lower, upper, priority))
             /\ Entry(mode, base, lower, upper, priority).mode = mode
             /\ base["input"] # NULL /\ base["output"] # NULL =>
                   ~Half(Entry(mode, base, lower, upper, priority), BaseTier)
    <2> DEFINE of(tier) == CASE tier = BaseTier -> base [] tier = PriorityTier -> priority
                             [] OTHER -> IF tier = 1 THEN lower ELSE upper
               rates == [at \in Buckets \X Tiers |-> of(at[2])[at[1]]]
               search == <<NULL, 1, NULL>>
               entry == Entry(mode, base, lower, upper, priority)
    <2>1. entry = [mode |-> mode, search |-> search, rates |-> rates]
        BY DEF Entry
    <2>2. \A tier : of(tier) \in Sparse
        OBVIOUS
    <2>3. of(BaseTier) = base
        BY PricesAssumption
    <2>4. search \in Seq(Nat \cup {NULL})
        OBVIOUS
    <2> HIDE DEF of, search, entry
    <2>5. rates \in [Buckets \X Tiers -> Nat \cup {NULL}]
        BY <2>2
    <2>6. BaseTier \in Tiers /\ {"input", "output"} \subseteq Buckets
        BY DEF Tiers, Buckets
    <2>7. rates[<<"input", BaseTier>>] = base["input"] /\ rates[<<"output", BaseTier>>] = base["output"]
        BY <2>3, <2>6
    <2> HIDE DEF rates
    <2>8. entry.rates = rates /\ entry.search = search /\ entry.mode = mode
        BY <2>1
    <2> QED
        BY <2>4, <2>5, <2>7, <2>8 DEF Publishes, Half, entry
<1>3. NULL \notin Nat
    BY PricesAssumption
<1>4. \A x \in {NULL, 1, 2, 3, 4, 5, 6, 7, 8, 9} : x \in Amounts
    OBVIOUS
<1>5. PICK mode \in {"chat", "embedding"}, read \in {NULL, 1}, write1h \in {NULL, 4},
           long \in {NULL, 6}, output \in {NULL, 7}, upper \in {NULL, 8}, priority \in {NULL, 6} :
           raw = [k \in {key, <<"other">>} |->
                     IF k = key THEN Entry(mode, Priced(2, read, NULL, write1h, 5), Priced(3, read, 4, long, output),
                                           Priced(upper, NULL, NULL, NULL, 9), Priced(priority, NULL, NULL, NULL, 9))
                     ELSE Other]
    BY DEF Catalogs
<1>6. /\ read \in Amounts /\ write1h \in Amounts /\ long \in Amounts /\ output \in Amounts
      /\ upper \in Amounts /\ priority \in Amounts
    OBVIOUS
<1> DEFINE base == Priced(2, read, NULL, write1h, 5)
           lower == Priced(3, read, 4, long, output)
           higher == Priced(upper, NULL, NULL, NULL, 9)
           first == Priced(priority, NULL, NULL, NULL, 9)
           cheap == Priced(2, NULL, NULL, NULL, 5)
           entry == Entry(mode, base, lower, higher, first)
<1> HIDE DEF Sparse, Amounts
<1>7. base \in Sparse /\ lower \in Sparse /\ higher \in Sparse /\ first \in Sparse
    BY <1>1, <1>4, <1>6
<1>8. Publishes(entry)
    <2> HIDE DEF base, lower, higher, first
    <2> QED
        BY <1>2, <1>7
<1>9. Publishes(Other) /\ ~Half(Other, BaseTier) /\ Other.mode = "chat"
    <2>1. Unpriced \in Sparse
        BY <1>1, <1>4 DEF Unpriced
    <2>2. cheap \in Sparse /\ cheap["input"] = 2 /\ cheap["output"] = 5
        <3>1. NULL \in Amounts /\ 2 \in Amounts /\ 5 \in Amounts
            BY <1>4
        <3>2. cheap \in Sparse
            BY <1>1, <3>1
        <3>3. cheap["input"] = 2 /\ cheap["output"] = 5
            BY DEF Priced
        <3> QED
            BY <3>2, <3>3
    <2>3. Other = Entry("chat", cheap, Unpriced, Unpriced, Unpriced)
        BY DEF Other
    <2> HIDE DEF cheap
    <2> QED
        BY <1>2, <1>3, <2>1, <2>2, <2>3
<1>10. /\ DOMAIN raw = {key, <<"other">>} /\ raw[key] = entry /\ raw[<<"other">>] = Other
    BY <1>5
<1> HIDE DEF entry
<1> QED
    BY <1>8, <1>9, <1>10

\* Of a catalog of two entries, at most one of which the id can name.
LEMMA NamedInACatalog ==
    ASSUME NEW key, key # <<"other">>, NEW raw \in Catalogs(key),
           NEW id \in Seq(Names), Plain(id) \in Seq(Names), id # NULL, Len(id) > 0,
           "other" \notin {Last(id), PlainName[Last(id)]},
           NEW provider \in Names \cup {NULL}, NEW subscription \in BOOLEAN,
           NEW usage, Counts(usage),
           NEW named \in Named(id, provider) \cup Named(Plain(id), provider),
           Last(key) \in {Last(id), PlainName[Last(id)]} => named = key
    PROVE  PricedAsPublished(raw, id, usage, subscription, provider)
<1> DEFINE ends == {Last(id), PlainName[Last(id)]}
<1>1. /\ DOMAIN raw = {key, <<"other">>}
      /\ \A k \in DOMAIN raw : Publishes(raw[k])
      /\ \E k \in DOMAIN raw : raw[k].mode \in {"chat", "responses"} /\ ~Half(raw[k], BaseTier)
    BY CatalogsPublish
<1>2. Last(<<"other">>) = "other"
    BY PlainOfOne
<1>3. \A k \in DOMAIN raw : Last(k) \in ends => k = named
    BY <1>1, <1>2
<1>4. \E k \in Named(id, provider) \cup Named(Plain(id), provider) :
         \A j \in DOMAIN raw : Last(j) \in ends => j = k
    BY <1>3
<1> QED
    BY <1>1, <1>4, PricedByTheVendor

LEMMA UsedCounts ==
    ASSUME NEW input \in Nat, NEW read \in Nat, NEW write5m \in Nat, NEW write1h \in Nat, NEW service
    PROVE  Counts(Used(input, read, write5m, write1h, service))
BY DEF Used, Counts

\* Each of the ids asked for names the one entry it may.
LEMMA NamesOfOne ==
    ASSUME NEW x \in {"m", "m-1m", "n"}, NEW provider \in Names \cup {NULL}
    PROVE  /\ <<x>> \in Seq(Names) /\ Plain(<<x>>) \in Seq(Names) /\ <<x>> # NULL /\ Len(<<x>>) > 0
           /\ "other" \notin {Last(<<x>>), PlainName[Last(<<x>>)]}
           /\ <<PlainName[x]>> \in Named(Plain(<<x>>), provider)
           /\ provider # NULL => <<provider>> \o <<PlainName[x]>> \in Named(Plain(<<x>>), provider)
<1>1. x \in Names /\ PlainName[x] \in Names /\ x # "other" /\ PlainName[x] # "other"
    BY AlgorithmsAssumption DEF Names
<1>2. Plain(<<x>>) = <<PlainName[x]>> /\ Last(<<x>>) = x /\ Len(<<x>>) = 1
    BY PlainOfOne
<1>3. <<x>> \in Seq(Names) /\ <<PlainName[x]>> \in Seq(Names)
    BY <1>1
<1>4. <<x>> # NULL
    BY <1>3, AlgorithmsAssumption
<1>5. \A id : id \in Named(id, provider) /\ (provider # NULL => <<provider>> \o id \in Named(id, provider))
    BY Zenon DEF Named
<1>6. /\ <<PlainName[x]>> \in Named(Plain(<<x>>), provider)
      /\ provider # NULL => <<provider>> \o <<PlainName[x]>> \in Named(Plain(<<x>>), provider)
    BY <1>2, <1>5
<1>7. "other" \notin {Last(<<x>>), PlainName[Last(<<x>>)]}
    BY <1>1, <1>2
<1>8. Plain(<<x>>) \in Seq(Names)
    BY <1>2, <1>3, Zenon
<1>9. Len(<<x>>) > 0
    OBVIOUS
<1> QED
    BY <1>3, <1>4, <1>6, <1>7, <1>8, <1>9, Zenon

LEMMA PriceIsAsked == AskPrice => PricedAsTheVendorSays'
<1> SUFFICES ASSUME AskPrice PROVE PricedAsTheVendorSays'
    OBVIOUS
<1>1. \A raw, id, provider, usage, subscription :
         call' = PriceOf(raw, id, provider, usage, subscription)
         /\ PricedAsPublished(raw, id, usage, subscription, provider) => PricedAsTheVendorSays'
    BY DEF PriceOf, PricedAsTheVendorSays
<1>2. PlainName["m"] = "m" /\ PlainName["m-1m"] = "m" /\ PlainName["n"] = "n"
    BY AlgorithmsAssumption
<1>3. <<"m">> # <<"other">> /\ Last(<<"m">>) = "m" /\ Last(<<"n">>) = "n"
    BY PlainOfOne
<1>4. ASSUME NEW raw \in Catalogs(<<"m">>), NEW x \in {"m", "n"}, NEW subscription \in BOOLEAN,
             NEW usage, Counts(usage)
      PROVE  PricedAsPublished(raw, <<x>>, usage, subscription, NULL)
    <2> DEFINE id == <<x>>
               named == <<PlainName[x]>>
    <2>1. /\ id \in Seq(Names) /\ Plain(id) \in Seq(Names) /\ id # NULL /\ Len(id) > 0
          /\ "other" \notin {Last(id), PlainName[Last(id)]}
          /\ named \in Named(Plain(id), NULL)
        BY NamesOfOne
    <2>2. Last(id) = x
        BY PlainOfOne
    <2>3. "m" \in {x, PlainName[x]} => named = <<"m">>
        BY <1>2
    <2> HIDE DEF id, named
    <2>4. Last(<<"m">>) \in {Last(id), PlainName[Last(id)]} => named = <<"m">>
        BY <1>3, <2>2, <2>3
    <2>5. PricedAsPublished(raw, id, usage, subscription, NULL)
        BY <1>3, <1>4, <2>1, <2>4, NamedInACatalog
    <2> QED
        BY <2>5 DEF id
<1>5. ASSUME NEW raw \in Catalogs(<<"v", "m">>), NEW id \in {<<"m">>, <<"m-1m">>, <<"a", "m">>},
             NEW usage, Counts(usage)
      PROVE  PricedAsPublished(raw, id, usage, FALSE, "v")
    <2> DEFINE key == <<"v", "m">>
    <2>1. key # <<"other">> /\ "v" \in Names /\ NULL \notin Names
        BY AlgorithmsAssumption DEF Names
    <2>2. /\ id \in Seq(Names) /\ Plain(id) \in Seq(Names) /\ id # NULL /\ Len(id) > 0
          /\ "other" \notin {Last(id), PlainName[Last(id)]}
          /\ key \in Named(Plain(id), "v")
        <3>1. CASE id = <<"m">> \/ id = <<"m-1m">>
            <4>1. PICK x \in {"m", "m-1m"} : id = <<x>> /\ PlainName[x] = "m"
                BY <1>2, <3>1
            <4>2. <<"v">> \o <<"m">> = key
                BY PairJoined
            <4>3. "v" # NULL
                BY <2>1
            <4> QED
                BY <2>1, <4>1, <4>2, <4>3, NamesOfOne
        <3>2. CASE id = <<"a", "m">>
            <4>1. Plain(id) = id /\ Last(id) = "m" /\ Len(id) = 2
                BY <1>2, <3>2, PlainOfOne
            <4>2. id \in Seq(Names)
                BY <3>2 DEF Names
            <4>3. id # NULL
                BY <4>2, AlgorithmsAssumption
            <4>4. key \in Named(id, "v")
                BY <2>1, <4>1 DEF Named
            <4> QED
                BY <1>2, <4>1, <4>2, <4>3, <4>4
        <3> QED
            BY <3>1, <3>2
    <2> HIDE DEF key
    <2>3. PricedAsPublished(raw, id, usage, FALSE, "v")
        BY <1>5, <2>1, <2>2, NamedInACatalog DEF key
    <2> QED
        BY <2>3
<1>6. CASE \E raw \in Catalogs(<<"m">>), usage \in Usages :
              call' = PriceOf(raw, <<"m">>, NULL, usage, FALSE)
    <2>1. PICK raw \in Catalogs(<<"m">>), usage \in Usages :
             call' = PriceOf(raw, <<"m">>, NULL, usage, FALSE)
        BY <1>6
    <2>2. Counts(usage)
        <3>1. PICK input \in Nat, read \in Nat, write5m \in Nat, write1h \in Nat, service \in {NULL, "priority"} :
                 usage = Used(input, read, write5m, write1h, service)
            BY DEF Usages
        <3> QED
            BY <3>1, UsedCounts
    <2> QED
        BY <1>1, <1>4, <2>1, <2>2
<1>7. CASE \E raw \in Catalogs(<<"m">>), id \in {<<"m">>, <<"n">>} :
              call' = PriceOf(raw, id, NULL, Used(2, 0, 0, 0, NULL), TRUE)
    <2>1. PICK raw \in Catalogs(<<"m">>), x \in {"m", "n"} :
             call' = PriceOf(raw, <<x>>, NULL, Used(2, 0, 0, 0, NULL), TRUE)
        BY <1>7
    <2>2. Counts(Used(2, 0, 0, 0, NULL))
        BY UsedCounts
    <2> QED
        BY <1>1, <1>4, <2>1, <2>2
<1>8. CASE \E raw \in Catalogs(<<"v", "m">>), id \in {<<"m">>, <<"m-1m">>, <<"a", "m">>} :
              call' = PriceOf(raw, id, "v", Used(0, 1, 3, 1, NULL), FALSE)
    <2>1. PICK raw \in Catalogs(<<"v", "m">>), id \in {<<"m">>, <<"m-1m">>, <<"a", "m">>} :
             call' = PriceOf(raw, id, "v", Used(0, 1, 3, 1, NULL), FALSE)
        BY <1>8
    <2>2. Counts(Used(0, 1, 3, 1, NULL))
        BY UsedCounts
    <2> QED
        BY <1>1, <1>5, <2>1, <2>2
<1> QED
    BY <1>6, <1>7, <1>8, Zenon DEF AskPrice

LEMMA PriceQuestion ==
    ASSUME [Next]_algorithmVars
    PROVE  AskPrice \/ call'.of # "price" \/ UNCHANGED call
<1>1. AskEdge \/ AskView => call'.of # "price"
    <2>1. AskEdge => call'.of # "price"
        BY DEF AskEdge
    <2>2. AskView => \E asked : call' = [of |-> "view", table |-> asked]
        BY Zenon DEF AskView
    <2> QED
        BY <2>1, <2>2
<1>2. Ask => AskPrice \/ call'.of # "price"
    BY <1>1, QuestionsOfTopics DEF Ask
<1>3. Answer => call'.of # "price"
    BY DEF Answer, Idle
<1> QED
    BY <1>2, <1>3 DEF Next, TableMoves, algorithmVars

\* PricedAsTheVendorSays of the run, from the theorem that holds of every file, id and call
\* (catalog.ts:80-91, table.ts:96-103, pricing.ts:22-36).
THEOREM EveryCallPricedAsTheVendorSays == Spec => []PricedAsTheVendorSays
<1>1. Init => PricedAsTheVendorSays
    <2>1. \A topic \in Topics : About(topic).of = "topic"
        BY DEF About
    <2> QED
        BY <2>1 DEF Init, PricedAsTheVendorSays
<1>2. PricedAsTheVendorSays /\ [Next]_algorithmVars => PricedAsTheVendorSays'
    <2> SUFFICES ASSUME PricedAsTheVendorSays, [Next]_algorithmVars PROVE PricedAsTheVendorSays'
        OBVIOUS
    <2>1. CASE AskPrice
        BY <2>1, PriceIsAsked
    <2>2. CASE call'.of # "price"
        BY <2>2 DEF PricedAsTheVendorSays
    <2>3. CASE UNCHANGED call
        BY <2>3 DEF PricedAsTheVendorSays
    <2> QED
        BY <2>1, <2>2, <2>3, PriceQuestion
<1> QED
    BY <1>1, <1>2, PTL DEF Spec

-----------------------------------------------------------------------------
(* the same of every stream the questions cut *)

LEMMA LinesOfSymbols ==
    /\ \A line \in Lines : line \in Seq(Symbols)
    /\ \A end \in {<<"lf">>, <<"cr", "lf">>} : end \in Seq(Symbols)
    /\ <<"event", "usage">> \in Seq(Symbols) /\ <<>> \in Seq(Symbols)
    /\ <<"data", "c1", "c2">> \in Seq(Symbols) /\ <<"c1">> \in Seq(Symbols)
BY DEF Lines, Symbols

LEMMA WireOfSymbols ==
    ASSUME NEW a \in Seq(Symbols), NEW b \in Seq(Symbols), NEW c \in Seq(Symbols), NEW end \in Seq(Symbols)
    PROVE  Wire(a, b, c, end) \in Seq(Symbols)
<1>1. a \o end \in Seq(Symbols)
    BY ConcatProperties
<1>2. a \o end \o b \in Seq(Symbols)
    BY <1>1, ConcatProperties
<1>3. a \o end \o b \o end \in Seq(Symbols)
    BY <1>2, ConcatProperties
<1>4. a \o end \o b \o end \o c \in Seq(Symbols)
    BY <1>3, ConcatProperties
<1>5. a \o end \o b \o end \o c \o end \in Seq(Symbols)
    BY <1>4, ConcatProperties
<1> QED
    BY <1>5 DEF Wire

LEMMA StreamsOfSymbols == \A bytes \in Wires \cup Followed : bytes \in Seq(Symbols)
<1>1. ASSUME NEW a \in Lines, NEW b \in Lines, NEW c \in Lines
      PROVE  /\ Wire(a, b, c, <<"cr", "lf">>) \in Seq(Symbols)
             /\ Wire(a, b, c, <<"lf">>) \o <<"c1">> \in Seq(Symbols)
    <2>1. /\ a \in Seq(Symbols) /\ b \in Seq(Symbols) /\ c \in Seq(Symbols)
          /\ <<"cr", "lf">> \in Seq(Symbols) /\ <<"lf">> \in Seq(Symbols) /\ <<"c1">> \in Seq(Symbols)
        BY LinesOfSymbols
    <2>2. Wire(a, b, c, <<"cr", "lf">>) \in Seq(Symbols)
        BY <2>1, WireOfSymbols
    <2>3. Wire(a, b, c, <<"lf">>) \in Seq(Symbols)
        BY <2>1, WireOfSymbols
    <2> QED
        BY <2>1, <2>2, <2>3, ConcatProperties
<1>2. ASSUME NEW line \in Lines, NEW end \in {<<"lf">>, <<"cr", "lf">>}
      PROVE  Wire(<<"event", "usage">>, line, <<>>, end) \o <<"data", "c1", "c2">> \o end \in Seq(Symbols)
    <2>1. /\ line \in Seq(Symbols) /\ end \in Seq(Symbols) /\ <<"event", "usage">> \in Seq(Symbols)
          /\ <<>> \in Seq(Symbols) /\ <<"data", "c1", "c2">> \in Seq(Symbols)
        BY LinesOfSymbols
    <2>2. Wire(<<"event", "usage">>, line, <<>>, end) \in Seq(Symbols)
        BY <2>1, WireOfSymbols
    <2>3. Wire(<<"event", "usage">>, line, <<>>, end) \o <<"data", "c1", "c2">> \in Seq(Symbols)
        BY <2>1, <2>2, ConcatProperties
    <2> QED
        BY <2>1, <2>3, ConcatProperties
<1>3. ASSUME NEW bytes \in Wires PROVE bytes \in Seq(Symbols)
    <2>1. PICK a \in Lines, b \in Lines, c \in Lines :
              \/ bytes = Wire(a, b, c, <<"cr", "lf">>)
              \/ bytes = Wire(a, b, c, <<"lf">>) \o <<"c1">>
        BY DEF Wires
    <2> QED
        BY <1>1, <2>1, Zenon
<1>4. ASSUME NEW bytes \in Followed PROVE bytes \in Seq(Symbols)
    <2>1. PICK line \in Lines, end \in {<<"lf">>, <<"cr", "lf">>} :
              bytes = Wire(<<"event", "usage">>, line, <<>>, end) \o <<"data", "c1", "c2">> \o end
        BY DEF Followed
    <2> QED
        BY <1>2, <2>1, Zenon
<1> QED
    BY <1>3, <1>4

LEMMA StreamIsAsked == AskStream => CutAnywhere'
<1>1. ASSUME NEW bytes \in Wires \cup Followed, NEW cuts \in SUBSET DOMAIN bytes,
             call' = [of |-> "stream", bytes |-> bytes, cuts |-> cuts]
      PROVE  CutAnywhere'
    <2>1. bytes \in Seq(Symbols)
        BY StreamsOfSymbols
    <2>2. DOMAIN bytes = 1..Len(bytes) /\ Len(bytes) \in Nat
        BY <2>1
    <2>3. cuts \in SUBSET (0..Len(bytes))
        BY <2>2
    <2>4. {"c", "?"} \subseteq Symbols
        BY DEF Symbols
    <2>5. NULL \notin Symbols /\ MaxEventChars \in Nat
        BY AlgorithmsAssumption
    <2>6. S!CutAnywhere(bytes, cuts)
        BY <2>1, <2>3, <2>4, <2>5, CutsAreInvisible
    <2>7. call'.bytes = bytes /\ call'.cuts = cuts
        BY <1>1
    <2> QED
        BY <2>6, <2>7 DEF CutAnywhere
<1>2. ASSUME NEW bytes \in Wires, NEW cuts \in {{}} \cup {{i} : i \in DOMAIN bytes},
             call' = [of |-> "stream", bytes |-> bytes, cuts |-> cuts]
      PROVE  CutAnywhere'
    <2>1. cuts \in SUBSET DOMAIN bytes
        OBVIOUS
    <2> QED
        BY <1>1, <1>2, <2>1
<1>3. ASSUME NEW bytes \in Followed, NEW i \in DOMAIN bytes, NEW j \in DOMAIN bytes,
             call' = [of |-> "stream", bytes |-> bytes, cuts |-> {i, j}]
      PROVE  CutAnywhere'
    <2>1. {i, j} \in SUBSET DOMAIN bytes
        OBVIOUS
    <2> QED
        BY <1>1, <1>3, <2>1
<1> QED
    BY <1>2, <1>3 DEF AskStream

LEMMA StreamQuestion ==
    ASSUME [Next]_algorithmVars
    PROVE  AskStream \/ call'.of # "stream" \/ UNCHANGED call
<1>1. AskEdge \/ AskView => call'.of # "stream"
    <2>1. AskEdge => call'.of # "stream"
        BY DEF AskEdge
    <2>2. AskView => \E asked : call' = [of |-> "view", table |-> asked]
        BY Zenon DEF AskView
    <2> QED
        BY <2>1, <2>2
<1>2. Ask => AskStream \/ call'.of # "stream"
    BY <1>1, QuestionsOfTopics DEF Ask
<1>3. Answer => call'.of # "stream"
    BY DEF Answer, Idle
<1> QED
    BY <1>2, <1>3 DEF Next, TableMoves, algorithmVars

\* CutAnywhere of the run, from the theorem that holds of every stream and every way to cut it
\* (sse.ts:53-159).
THEOREM EveryStreamCutAnywhere == Spec => []CutAnywhere
<1>1. Init => CutAnywhere
    <2>1. \A topic \in Topics : About(topic).of = "topic"
        BY DEF About
    <2> QED
        BY <2>1 DEF Init, CutAnywhere
<1>2. CutAnywhere /\ [Next]_algorithmVars => CutAnywhere'
    <2> SUFFICES ASSUME CutAnywhere, [Next]_algorithmVars PROVE CutAnywhere'
        OBVIOUS
    <2>1. CASE AskStream
        BY <2>1, StreamIsAsked
    <2>2. CASE call'.of # "stream"
        BY <2>2 DEF CutAnywhere
    <2>3. CASE UNCHANGED call
        BY <2>3 DEF CutAnywhere
    <2> QED
        BY <2>1, <2>2, <2>3, StreamQuestion
<1> QED
    BY <1>1, <1>2, PTL DEF Spec

-----------------------------------------------------------------------------
(* the same of every substitute the questions plan *)

LEMMA ValuesAreWhole == \A value \in Values : Whole(Atomic, value)
<1>1. /\ Whole(Atomic, A!Text("a")) /\ Whole(Atomic, A!Text("model")) /\ Whole(Atomic, Quoted)
      /\ Whole(Atomic, Slashed) /\ Whole(Atomic, Inner) /\ Whole(Atomic, <<"n">>) /\ Whole(Atomic, Listed)
    BY SaysA, SaysModel, QuotedIsWhole, SlashedIsWhole, InnerIsWhole, NumberIsWhole, ListedIsWhole
    DEF Quoted, Slashed, Inner, Listed
<1> QED
    BY <1>1, Zenon DEF Values

LEMMA MembersAreWhole ==
    ASSUME NEW key \in Atomic \ {"q", "bs"}, NEW gaps \in SUBSET {<<>>, <<"sp">>}, NEW m \in Members(key, gaps)
    PROVE  Member(Atomic, m) /\ m.key = key
<1>1. PICK gap \in gaps, value \in Values : m = [key |-> key, gap |-> gap, value |-> value]
    BY DEF Members
<1>2. m.key = key /\ m.gap = gap /\ m.value = value
    BY <1>1
<1>3. gap \in Seq({"sp"})
    <2>1. <<>> \in Seq({"sp"}) /\ <<"sp">> \in Seq({"sp"})
        OBVIOUS
    <2>2. gap = <<>> \/ gap = <<"sp">>
        OBVIOUS
    <2> QED
        BY <2>1, <2>2
<1>4. Whole(Atomic, value)
    BY ValuesAreWhole
<1> QED
    BY <1>2, <1>3, <1>4 DEF Member

LEMMA DocumentsAreLegible == \A doc \in Documents : Legible(Atomic, doc)
<1> DEFINE none == <<>>
<1>1. Legible(Atomic, none)
    BY DEF Legible
<1>2. ASSUME NEW m \in Members("model", {<<>>, <<"sp">>}) PROVE Legible(Atomic, <<m>>)
    <2>1. "model" \in Atomic \ {"q", "bs"}
        BY DEF Atomic
    <2>2. Member(Atomic, m)
        BY <2>1, MembersAreWhole
    <2> DEFINE doc == <<m>>
    <2>3. Len(doc) = 1 /\ DOMAIN doc = 1..1 /\ doc[1] = m
        OBVIOUS
    <2> HIDE DEF doc
    <2>4. \A n \in 1..1 : n = 1
        OBVIOUS
    <2>5. Legible(Atomic, doc)
        BY <2>2, <2>3, <2>4 DEF Legible
    <2> QED
        BY <2>5 DEF doc
<1>3. ASSUME NEW x \in Members("x", {<<>>}), NEW y \in Members("x", {<<>>}), NEW m \in Members("model", {<<"sp">>})
      PROVE  Legible(Atomic, <<x, m, y>>)
    <2>1. "model" \in Atomic \ {"q", "bs"} /\ "x" \in Atomic \ {"q", "bs"}
        BY DEF Atomic
    <2>2. {<<>>} \in SUBSET {<<>>, <<"sp">>} /\ {<<"sp">>} \in SUBSET {<<>>, <<"sp">>}
        OBVIOUS
    <2>3. Member(Atomic, m)
        BY <2>1, <2>2, MembersAreWhole
    <2>4. Member(Atomic, x) /\ x.key = "x"
        BY <2>1, <2>2, MembersAreWhole
    <2>5. Member(Atomic, y) /\ y.key = "x"
        BY <2>1, <2>2, MembersAreWhole
    <2> DEFINE doc == <<x, m, y>>
    <2>6. Len(doc) = 3 /\ DOMAIN doc = 1..3 /\ doc[1] = x /\ doc[2] = m /\ doc[3] = y
        OBVIOUS
    <2> HIDE DEF doc
    <2>7. \A n \in 1..3 : n = 1 \/ n = 2 \/ n = 3
        OBVIOUS
    <2>8. \A n \in 1..3 : Member(Atomic, doc[n]) /\ (Ours(doc[n]) => n = 2)
        BY <2>3, <2>4, <2>5, <2>6, <2>7 DEF Ours
    <2>9. Legible(Atomic, doc)
        BY <2>6, <2>8 DEF Legible
    <2> QED
        BY <2>9 DEF doc
<1> HIDE DEF none
<1>4. ASSUME NEW doc \in Documents PROVE Legible(Atomic, doc)
    <2>1. \/ doc = none
          \/ \E m \in Members("model", {<<>>, <<"sp">>}) : doc = <<m>>
          \/ \E x \in Members("x", {<<>>}), y \in Members("x", {<<>>}), m \in Members("model", {<<"sp">>}) :
                doc = <<x, m, y>>
        BY DEF Documents, none
    <2>2. CASE doc = none
        BY <1>1, <2>2
    <2>3. CASE \E m \in Members("model", {<<>>, <<"sp">>}) : doc = <<m>>
        <3>1. PICK m \in Members("model", {<<>>, <<"sp">>}) : doc = <<m>>
            BY <2>3
        <3> QED
            BY <1>2, <3>1
    <2>4. CASE \E x \in Members("x", {<<>>}), y \in Members("x", {<<>>}), m \in Members("model", {<<"sp">>}) :
                  doc = <<x, m, y>>
        <3>1. PICK x \in Members("x", {<<>>}), y \in Members("x", {<<>>}), m \in Members("model", {<<"sp">>}) :
                  doc = <<x, m, y>>
            BY <2>4
        <3>2. Legible(Atomic, <<x, m, y>>)
            BY <1>3
        <3> QED
            BY <3>1, <3>2
    <2> QED
        BY <2>1, <2>2, <2>3, <2>4
<1> QED
    BY <1>4

LEMMA FourOf ==
    ASSUME NEW Of, NEW a \in Of, NEW b \in Of, NEW c \in Of, NEW d \in Of
    PROVE  <<a, b, c, d>> \in Seq(Of) /\ <<a>> \in Seq(Of)
OBVIOUS

LEMMA PlanIsAsked == AskPlan => SubstitutesOnlyTheModel'
<1> SUFFICES ASSUME AskPlan PROVE SubstitutesOnlyTheModel'
    OBVIOUS
<1> DEFINE Flags == {"c", "", "oauth", "d"}
           Betas == {NULL, <<"oauth">>, <<"c", "", "oauth", "d">>}
<1>1. Betas \subseteq {NULL} \cup Seq(Flags)
    <2>1. "c" \in Flags /\ "" \in Flags /\ "oauth" \in Flags /\ "d" \in Flags
        BY Zenon
    <2> HIDE DEF Flags
    <2>2. <<"oauth">> \in Seq(Flags)
        BY <2>1, FourOf, Zenon
    <2>3. <<"c", "", "oauth", "d">> \in Seq(Flags)
        BY <2>1, FourOf, Zenon
    <2> QED
        BY <2>2, <2>3, Zenon
<1> DEFINE Req(doc, served, betas, base) ==
               [path |-> <<"v1", "messages">>, body |-> <<>>, servedModel |-> served, betas |-> betas,
                stream |-> doc # <<>>, secret |-> "key", baseUrl |-> base]
<1>2. PICK doc \in Documents, adapter \in {"anthropic", "fireworks"}, served \in {NULL, "b"},
          betas \in Betas, base \in {<<>>, <<"inference">>} :
          call' = [of |-> "plan", adapter |-> adapter, doc |-> doc, req |-> Req(doc, served, betas, base)]
    BY Zenon DEF AskPlan
<1> HIDE DEF Flags, Betas
<1> DEFINE req == Req(doc, served, betas, base)
<1>3. Posed(Flags, req)
    <2>1. betas = NULL \/ betas \in Seq(Flags)
        BY <1>1
    <2> QED
        BY <2>1 DEF Posed
<1>4. Legible(Atomic, doc)
    BY DocumentsAreLegible
<1>5. Atoms(Atomic) /\ "ff" \notin Atomic /\ NULL \notin Nat \X Nat
    <2>1. NULL \notin Nat \X Nat
        BY AlgorithmsAssumption, Zenon
    <2> QED
        BY <2>1 DEF Atoms, Atomic
<1> HIDE DEF req
<1>6. A!SubstitutesOnlyTheModel(adapter, doc, req)
    BY <1>3, <1>4, <1>5, OnlyTheModelChanges
<1>7. call'.adapter = adapter /\ call'.doc = doc /\ call'.req = req
    BY <1>2 DEF req
<1> QED
    BY <1>6, <1>7 DEF SubstitutesOnlyTheModel

LEMMA PlanQuestion ==
    ASSUME [Next]_algorithmVars
    PROVE  AskPlan \/ call'.of # "plan" \/ UNCHANGED call
<1>1. AskEdge \/ AskView => call'.of # "plan"
    <2>1. AskEdge => call'.of # "plan"
        BY DEF AskEdge
    <2>2. AskView => \E asked : call' = [of |-> "view", table |-> asked]
        BY Zenon DEF AskView
    <2> QED
        BY <2>1, <2>2
<1>2. Ask => AskPlan \/ call'.of # "plan"
    BY <1>1, QuestionsOfTopics DEF Ask
<1>3. Answer => call'.of # "plan"
    BY DEF Answer, Idle
<1> QED
    BY <1>2, <1>3 DEF Next, TableMoves, algorithmVars

\* SubstitutesOnlyTheModel of the run, from the theorem that holds of every document and every
\* request (rewrite.ts, adapters/anthropic.ts, adapters/fireworks.ts).
THEOREM EverySubstituteChangesOnlyTheModel == Spec => []SubstitutesOnlyTheModel
<1>1. Init => SubstitutesOnlyTheModel
    <2>1. \A topic \in Topics : About(topic).of = "topic"
        BY DEF About
    <2> QED
        BY <2>1 DEF Init, SubstitutesOnlyTheModel
<1>2. SubstitutesOnlyTheModel /\ [Next]_algorithmVars => SubstitutesOnlyTheModel'
    <2> SUFFICES ASSUME SubstitutesOnlyTheModel, [Next]_algorithmVars PROVE SubstitutesOnlyTheModel'
        OBVIOUS
    <2>1. CASE AskPlan
        BY <2>1, PlanIsAsked
    <2>2. CASE call'.of # "plan"
        BY <2>2 DEF SubstitutesOnlyTheModel
    <2>3. CASE UNCHANGED call
        BY <2>3 DEF SubstitutesOnlyTheModel
    <2> QED
        BY <2>1, <2>2, <2>3, PlanQuestion
<1> QED
    BY <1>1, <1>2, PTL DEF Spec
=============================================================================
