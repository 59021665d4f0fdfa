------------------------------- MODULE Gateway -------------------------------
(***************************************************************************)
(* The edge of the gateway: what server/http/server.ts makes of a request, *)
(* with detectInbound (server/auth/posture.ts), the mounts that relay the  *)
(* caller's own credential (server/pipeline/{openai,copilot,bedrock,       *)
(* count-tokens}.ts), the headers and the refusals.                        *)
(*                                                                         *)
(* A path is a sequence of segments without its query, which always stays  *)
(* with the remainder; a segment of TagSegments is a `~...` one.  A        *)
(* request is                                                              *)
(*    method, path, headers  the names of the headers with no credential   *)
(*    auth, key, fest        authorization, x-api-key and x-fest-token     *)
(*    body                   how it is encoded, or too large               *)
(* and a configuration                                                     *)
(*    base        the mount path of the whole gateway                      *)
(*    hosts       the upstream of each mount, NULL for one switched off    *)
(*    require     FEST_REQUIRE_IDENTITY                                    *)
(*    routed      whether the routing table has anything to decide         *)
(*    menu        whether it offers any model                              *)
(*    web         the files of the dashboard's bundle, {} when not built   *)
(***************************************************************************)
EXTENDS Integers, Sequences, SequencesExt

CONSTANTS
    NULL,
    Resolving,   \* the identity tokens the store resolves
    FestTokens,  \* the credentials with Fest's own prefix
    TagSegments

Rest(path, n) == SubSeq(path, n + 1, Len(path))
Under(mount, path) == path # <<>> /\ Head(path) = mount

-----------------------------------------------------------------------------
(* the path *)

\* Only whole segments count, and a prefix that is not there changes nothing.
StripBasePath(path, base) ==
    IF base # <<>> /\ IsPrefix(base, path) THEN Rest(path, Len(base)) ELSE path

SplitTagSegment(path) ==
    IF path # <<>> /\ Head(path) \in TagSegments
    THEN [tags |-> Head(path), rest |-> Tail(path)]
    ELSE [tags |-> NULL, rest |-> path]

ParseIdentityPath(path) ==
    LET named == Len(path) >= 2 /\ Head(path) \in {"t", "fest"}
        split == SplitTagSegment(IF named THEN Rest(path, 2) ELSE path)
    IN  [token |-> IF named THEN path[2] ELSE NULL,
         tags |-> split.tags, remainder |-> split.rest]

-----------------------------------------------------------------------------
(* who asks, and with what *)

\* A header that is blank is not there.
Given(c) == c \notin {NULL, "blank"}
Presented(req) == IF Given(req.auth) THEN req.auth ELSE req.key

\* The first credential that is not Fest's own; the scan stops at it.
UpstreamCredential(req) ==
    LET Own(c) == Given(c) /\ c \notin FestTokens
    IN  CASE Own(req.auth) -> req.auth
          [] ~Own(req.auth) /\ Own(req.key) -> req.key
          [] OTHER -> NULL

TokenFromAuthHeader(req) ==
    IF Given(Presented(req)) /\ Presented(req) \in FestTokens THEN Presented(req) ELSE NULL

\* bug: the token in the credential position is the first to be believed
CarrierByHeader(fromPath, req) ==
    CASE TokenFromAuthHeader(req) # NULL -> "auth_header"
      [] TokenFromAuthHeader(req) = NULL /\ Given(req.fest) -> "header"
      [] OTHER -> IF fromPath.token # NULL THEN "path" ELSE "none"

\* The URL is the deliberate one, then the header made for it.
Carrier(fromPath, req) ==
    CASE fromPath.token # NULL -> "path"
      [] fromPath.token = NULL /\ Given(req.fest) -> "header"
      [] OTHER -> IF TokenFromAuthHeader(req) # NULL THEN "auth_header" ELSE "none"

DetectInbound(path, req) ==
    LET fromPath == ParseIdentityPath(path)
        carrier == Carrier(fromPath, req)
    IN  [posture |-> IF UpstreamCredential(req) = "plan" THEN "subscription" ELSE "key",
         credential |-> UpstreamCredential(req),
         carrier |-> carrier,
         token |-> CASE carrier = "path" -> fromPath.token
                     [] carrier = "header" -> req.fest
                     [] carrier = "auth_header" -> TokenFromAuthHeader(req)
                     [] carrier = "none" -> NULL,
         path |-> fromPath.remainder]

-----------------------------------------------------------------------------
(* the headers *)

HopByHop == {"host", "connection", "keep-alive", "transfer-encoding", "upgrade",
             "proxy-connection", "te", "trailer"}
FestHeaders == {"x-fest-token", "x-fest-tags", "x-fest-client"}
Secret == {"authorization", "x-api-key", "set-cookie", "cookie", "x-fest-token"}
Quota == {"anthropic-ratelimit-unified-status"}

\* The headers of a request with what is in them, "caller" in the ones that hold no
\* credential.
Credentials == {"authorization", "x-api-key"}
ValueOf(req, name) ==
    CASE name = "authorization" -> req.auth
      [] name = "x-api-key" -> req.key
      [] name = "x-fest-token" -> req.fest
      [] OTHER -> "caller"
InboundHeaders(req) ==
    LET names == req.headers \cup Credentials \cup {"x-fest-token"}
    IN  [name \in {n \in names : ValueOf(req, n) # NULL} |-> ValueOf(req, name)]

\* Whatever is not dropped goes on as it came, a credential as well.
BuildUpstreamHeaders(inbound, version) ==
    LET kept == DOMAIN inbound \ (HopByHop \cup FestHeaders \cup {"content-length"})
        set == {"host", "accept-encoding"} \cup
               (IF version /\ "anthropic-version" \notin DOMAIN inbound
                THEN {"anthropic-version"} ELSE {})
    IN  [name \in kept \cup set |-> IF name \in set THEN "gateway" ELSE inbound[name]]

\* codexAllow, with the etag of a model list, and relayAll of the Copilot wires and
\* of relay: what the client of a wire reads of an answer beyond the common list.
CodexAllow == {"x-codex-turn-state", "x-request-id"}
DownstreamAllow(wire, names) ==
    CASE wire = "codex" -> CodexAllow
      [] wire = "codex models" -> CodexAllow \cup {"etag"}
      [] wire = "copilot" -> names
      [] OTHER -> {}

BuildDownstreamHeaders(names, stream, allowed) ==
    LET readable == names \ (Secret \cup HopByHop \cup {"content-encoding", "content-length"})
        listed == {"content-type", "request-id", "anthropic-request-id", "retry-after"}
        kept == readable \cap (Quota \cup listed \cup allowed)
        set == (IF "content-type" \in kept THEN {} ELSE {"content-type"}) \cup
               (IF stream THEN {"cache-control", "x-accel-buffering"} ELSE {})
    IN  [name \in kept \cup set |-> IF name \in set THEN "gateway" ELSE "upstream"]

\* What a client gets: of a token count, its type and nothing else.
ReplyHeaders(wire, names, stream) ==
    IF wire = "count_tokens" THEN [name \in {"content-type"} |-> "gateway"]
    ELSE BuildDownstreamHeaders(names, stream, DownstreamAllow(wire, names))

-----------------------------------------------------------------------------
(* the body *)

TooLarge(req) == req.body = "huge"

\* Whether the model and the stream flag of a body are read.  Only the relay
\* looks into a compressed one.
Peeked(req, decode) ==
    \/ req.body = "plain"
    \/ req.body = "gzip" /\ decode

-----------------------------------------------------------------------------
(* what becomes of a request *)

Answered(status, retry) == [kind |-> "answered", status |-> status, retry |-> retry]
Refused(status) == Answered(status, "x-should-retry: false")
SentTo(host, path, headers, wire, metered) ==
    [kind |-> "sent", host |-> host, path |-> path, headers |-> headers,
     wire |-> wire, metered |-> metered]

Denied(inbound, require) ==
    inbound.token \notin Resolving /\ (inbound.token # NULL \/ require)

(***************************************************************************)
(* handleMessages up to its fetch.  It reads the request's own URL again,  *)
(* for the token as for the path when no mount gives it one.               *)
(***************************************************************************)
HandleMessages(cfg, req, host, override, wire) ==
    LET inbound == DetectInbound(req.path, req)
    IN  CASE Denied(inbound, cfg.require) -> Refused(401)
          [] ~Denied(inbound, cfg.require) /\ TooLarge(req) -> Answered(400, NULL)
          [] OTHER ->
                IF inbound.credential = NULL /\ inbound.carrier = "auth_header"
                THEN Refused(400)
                ELSE SentTo(host, IF override = NULL THEN inbound.path ELSE override,
                            BuildUpstreamHeaders(InboundHeaders(req), wire = "anthropic"),
                            wire, TRUE)

HandleCountTokens(req, host, path) ==
    IF TooLarge(req) THEN Answered(400, NULL)
    ELSE SentTo(host, path, BuildUpstreamHeaders(InboundHeaders(req), TRUE), "count_tokens", FALSE)

HandleCodexModels(req, host, path) ==
    SentTo(host, path, BuildUpstreamHeaders(InboundHeaders(req), FALSE), "codex models", FALSE)

RefuseDisabled == Refused(501)

-----------------------------------------------------------------------------
(* Copilot: the plan names the host, and only a known plan does. *)

CopilotPlans == {"individual", "business", "enterprise"}
CopilotUpstream(template, plan) == <<template, plan>>

CopilotWire(req, rest) ==
    req.method = "POST" /\ (rest \in {<<"v1", "messages">>, <<"chat", "completions">>}
                            \/ Under("responses", rest))

Relay(req, host, path) ==
    IF req.method \notin {"GET", "HEAD"} /\ TooLarge(req) THEN Answered(413, NULL)
    ELSE SentTo(host, path, BuildUpstreamHeaders(InboundHeaders(req), FALSE), "copilot", FALSE)

HandleCopilot(cfg, req, rest) ==
    LET plan == IF rest = <<>> THEN NULL ELSE Head(rest)
        host == CopilotUpstream(cfg.hosts.copilot, plan)
    IN  CASE cfg.hosts.copilot = NULL -> RefuseDisabled
          [] cfg.hosts.copilot # NULL /\ plan \notin CopilotPlans -> Refused(404)
          [] OTHER ->
                IF Denied(DetectInbound(req.path, req), cfg.require) THEN Refused(401)
                ELSE IF CopilotWire(req, Tail(rest))
                THEN HandleMessages(cfg, req, host, Tail(rest), "copilot")
                ELSE Relay(req, host, Tail(rest))

-----------------------------------------------------------------------------
(* Codex and Bedrock *)

CodexPaths(mount) ==
    IF mount = "openai" THEN [responses |-> <<"v1", "responses">>, models |-> <<"v1", "models">>]
    ELSE [responses |-> <<"backend-api", "codex", "responses">>,
          models |-> <<"backend-api", "codex", "models">>]

HandleCodex(cfg, req, mount, rest) ==
    LET paths == CodexPaths(mount)
    IN  CASE cfg.hosts[mount] = NULL -> RefuseDisabled
          [] cfg.hosts[mount] # NULL /\ req.method = "POST" /\ IsPrefix(paths.responses, rest) ->
                HandleMessages(cfg, req, cfg.hosts[mount], rest, "codex")
          [] cfg.hosts[mount] # NULL /\ req.method \in {"GET", "HEAD"} /\ rest = paths.models ->
                HandleCodexModels(req, cfg.hosts[mount], rest)
          [] OTHER -> Answered(404, NULL)

\* bug: the mount's own path is relayed as the caller wrote it
BedrockUnsplit(cfg, req, rest) ==
    IF cfg.hosts.bedrock = NULL THEN RefuseDisabled
    ELSE IF rest = <<"v1", "messages">>
    THEN HandleMessages(cfg, req, cfg.hosts.bedrock, NULL, "anthropic")
    ELSE Answered(404, NULL)

HandleBedrock(cfg, req, rest) ==
    CASE cfg.hosts.bedrock = NULL -> RefuseDisabled
      [] cfg.hosts.bedrock # NULL /\ rest = <<"v1", "messages">> ->
            HandleMessages(cfg, req, cfg.hosts.bedrock, rest, "anthropic")
      [] cfg.hosts.bedrock # NULL /\ rest = <<"v1", "messages", "count_tokens">> ->
            HandleCountTokens(req, cfg.hosts.bedrock, rest)
      [] OTHER -> Answered(404, NULL)

-----------------------------------------------------------------------------
(* the dashboard's files *)

ExtensionOf(path) == IF path = <<>> THEN NULL
                     ELSE IF Last(path) \in {"app.js", "index.html"} THEN Last(path) ELSE NULL

Serve(web, path) ==
    /\ web # {}
    /\ \/ path \in web \cup {<<>>}
       \/ ExtensionOf(path) = NULL /\ ~(Len(path) > 1 /\ Head(path) \in {"v1", "api"})

-----------------------------------------------------------------------------
(***************************************************************************)
(* createServer's handler, in its order: its own answers, then the mounts, *)
(* the two Anthropic paths, and the dashboard's files last.                *)
(***************************************************************************)
NotMine == [kind |-> "not mine"]

OwnAnswer(cfg, req, path) ==
    CASE path \in {<<"api", "hello">>, <<"healthz">>} -> Answered(200, NULL)
      [] Under("api", path) /\ Len(path) > 1 /\ path # <<"api", "hello">> -> [kind |-> "dashboard"]
      [] path = <<"_admin", "usage">> /\ req.method = "GET" -> Answered(200, NULL)
      [] path = <<"_debug", "slow-stream">> -> Answered(200, NULL)
      [] path = <<"v1", "models">> /\ req.method \in {"GET", "HEAD"} ->
            IF cfg.menu THEN Answered(200, NULL) ELSE Refused(404)
      [] OTHER -> NotMine

OfMount(cfg, req, path) ==
    CASE Under("copilot", path) -> HandleCopilot(cfg, req, Tail(path))
      [] Under("mcp", path) /\ cfg.hosts.mcp # NULL -> Relay(req, cfg.hosts.mcp, path)
      [] Under("openai", path) -> HandleCodex(cfg, req, "openai", Tail(path))
      [] Under("chatgpt", path) -> HandleCodex(cfg, req, "chatgpt", Tail(path))
      [] Under("bedrock", path) /\ req.method = "POST" -> HandleBedrock(cfg, req, Tail(path))
      [] OTHER -> NotMine

\* dispatchMessages decides when there is anything to decide: see Dispatch.
AnthropicPath(cfg, req, path) ==
    CASE path = <<"v1", "messages", "count_tokens">> /\ req.method = "POST" ->
            HandleCountTokens(req, cfg.hosts.anthropic, path)
      [] path = <<"v1", "messages">> /\ req.method = "POST" ->
            IF cfg.routed
            THEN [kind |-> "dispatched", inbound |-> DetectInbound(req.path, req),
                  model |-> Peeked(req, FALSE)]
            ELSE HandleMessages(cfg, req, cfg.hosts.anthropic, NULL, "anthropic")
      [] OTHER -> NotMine

LastResort(cfg, req, path) ==
    IF req.method \in {"GET", "HEAD"} /\ Serve(cfg.web, path) THEN Answered(200, NULL)
    ELSE Answered(404, NULL)

Handle(cfg, req) ==
    LET path == ParseIdentityPath(StripBasePath(req.path, cfg.base)).remainder
        Else(answer, next) == IF answer # NotMine THEN answer ELSE next
    IN  Else(OwnAnswer(cfg, req, path),
             Else(OfMount(cfg, req, path),
                  Else(AnthropicPath(cfg, req, path), LastResort(cfg, req, path))))

-----------------------------------------------------------------------------
(* What the edge promises.                                                 *)

\* What the caller's URL asks for once the gateway's own segments are off it.
Asked(cfg, req) == ParseIdentityPath(StripBasePath(req.path, cfg.base)).remainder
Mounts == {"copilot", "mcp", "openai", "chatgpt", "bedrock"}

(***************************************************************************)
(* What is sent on goes where the URL says and nowhere else: a mount to    *)
(* its own upstream with the rest of the path, everything else to the      *)
(* Anthropic upstream; the routing table is asked about no mount; and      *)
(* nothing of the gateway's own is in the path.  What comes back keeps the *)
(* quota of what is metered and what the mount's client reads, has a type, *)
(* and carries no credential and no length of another body (headers.ts:    *)
(* 92-97, wire.ts:116-123).  And what the gateway answers itself is not    *)
(* retried: a client looks at the header first and then retries 408, 409,  *)
(* 429 and 5xx ("any condition that will NOT improve on retry",            *)
(* errors.ts:34-36).                                                       *)
(***************************************************************************)
FromUpstream == Secret \cup Quota \cup CodexAllow \cup
                {"etag", "content-encoding", "content-length", "connection", "mcp-session-id"}
ReadBy(mount, metered) ==
    (IF metered THEN Quota ELSE {}) \cup
    (CASE mount \in {"openai", "chatgpt"} -> CodexAllow \cup (IF metered THEN {} ELSE {"etag"})
       [] mount \in {"copilot", "mcp"} -> CodexAllow \cup {"mcp-session-id"}
       [] OTHER -> {})
ReplyReadable(mount, answer) ==
    \A names \in {FromUpstream, {}}, stream \in BOOLEAN :
        LET reply == DOMAIN ReplyHeaders(answer.wire, names, stream)
        IN  /\ names \cap ReadBy(mount, answer.metered) \subseteq reply
            /\ "content-type" \in reply
            /\ reply \cap (Secret \cup HopByHop \cup {"content-encoding", "content-length"}) = {}

(***************************************************************************)
(* The two credentials of a request are kept apart as far as the code      *)
(* keeps them: the headers made for the identity token stay here, what     *)
(* pays goes on as it came and no credential is made up on the way.  "A    *)
(* Fest token is IDENTITY and is never forwarded upstream" (posture.ts:    *)
(* 22-23) is more than the code does.  One in authorization or x-api-key   *)
(* is dropped from what is counted as a credential and not from the        *)
(* headers; the relay holds a request back for it when the token is who    *)
(* asks and nothing is there to pay (passthrough.ts:240), and then only.   *)
(***************************************************************************)
CredentialsSent(answer) ==
    {answer.headers[name] : name \in Credentials \cap DOMAIN answer.headers}
CredentialsKeptApart(req, answer) ==
    LET inbound == DetectInbound(req.path, req)
        sent == CredentialsSent(answer)
    IN  /\ DOMAIN answer.headers \cap FestHeaders = {}
        /\ sent \subseteq {req.auth, req.key} \ {NULL}
        /\ inbound.credential \in sent \cup {NULL}
        /\ answer.metered /\ sent \cap FestTokens # {} =>
              inbound.credential # NULL \/ inbound.carrier \in {"path", "header"}

Retried(answer) == answer.retry = NULL /\ (answer.status \in {408, 409, 429} \/ answer.status >= 500)
SentWhereTheUrlSays(cfg, req) ==
    LET asked == Asked(cfg, req)
        mount == IF asked # <<>> /\ Head(asked) \in Mounts THEN Head(asked) ELSE "anthropic"
        answer == Handle(cfg, req)
    IN  /\ answer.kind = "answered" => ~Retried(answer)
        /\ answer.kind = "dispatched" => mount = "anthropic"
        /\ answer.kind = "sent" =>
              /\ ReplyReadable(mount, answer)
              /\ CredentialsKeptApart(req, answer)
              /\ answer.path =
                    CASE mount \in {"anthropic", "mcp"} -> asked
                      [] mount = "copilot" -> Rest(asked, 2)
                      [] OTHER -> Tail(asked)
              /\ answer.host = IF mount = "copilot"
                               THEN <<cfg.hosts.copilot, asked[2]>> ELSE cfg.hosts[mount]
              /\ ToSet(answer.path) \cap (TagSegments \cup FestTokens) = {}

(***************************************************************************)
(* A token that does not resolve never passes for none: whatever is        *)
(* metered is asked for by a token that resolves or by nobody, and by the  *)
(* position that has the best claim (posture.ts:182-188).                  *)
(***************************************************************************)
BestClaim(cfg, req) ==
    LET fromPath == ParseIdentityPath(StripBasePath(req.path, cfg.base)).token
    IN  IF Given(fromPath) THEN fromPath
        ELSE IF Given(req.fest) THEN req.fest ELSE TokenFromAuthHeader(req)

MeteredByWhoAsked(cfg, req) ==
    Handle(cfg, req).kind = "sent" /\ Handle(cfg, req).metered =>
        \/ BestClaim(cfg, req) \in Resolving
        \/ BestClaim(cfg, req) = NULL /\ ~cfg.require

(***************************************************************************)
(* "Accepting both means a working deployment does not hinge on which of   *)
(* those the operator reached for" (server.ts:84-85): a request is treated *)
(* the same whether the proxy takes the mount path off or leaves it on.    *)
(***************************************************************************)
EitherWay(cfg, req) ==
    Handle(cfg, req) = Handle(cfg, [req EXCEPT !.path = cfg.base \o @])
=============================================================================
