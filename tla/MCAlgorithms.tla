----------------------------- MODULE MCAlgorithms -----------------------------
(***************************************************************************)
(* The pure parts, asked one question each: of every topic `call` is a     *)
(* question, and the invariants relate it to what the code answers.  Once  *)
(* it is answered the price table lives on.                                *)
(***************************************************************************)
EXTENDS Billing, TLC

CONSTANTS
    Null, NotJson, Malformed, Broken, Unparseable,
    Resolving, FestTokens, TagSegments,  \* see Gateway
    Models, Anthropic, BaseModels        \* see RoutingView

Idle == [of |-> "nothing"]
PlainNames == "m" :> "m" @@ "m-1m" :> "m" @@ "n" :> "n"
VARIABLE call

-----------------------------------------------------------------------------
(* the edge *)

E == INSTANCE Launch WITH BaseModels <- {"m1", "m2"}

On == [anthropic |-> "anthropic", openai |-> "openai", chatgpt |-> "chatgpt",
       copilot |-> "copilot", mcp |-> "github", bedrock |-> "bedrock"]
Off == [mount \in DOMAIN On |-> IF mount = "anthropic" THEN "anthropic" ELSE NULL]
Configuration(base, hosts, require, routed) ==
    [base |-> base, hosts |-> hosts, require |-> require, routed |-> routed,
     menu |-> routed, web |-> IF routed THEN {<<"index.html">>} ELSE {}]

Identities == {<<>>, <<"t", "good">>, <<"t", "dead">>, <<"fest", "good", "~t">>, <<"~t">>}
Remainders ==
    {<<>>, <<"healthz">>, <<"api">>, <<"api", "keys">>, <<"_admin", "usage">>, <<"users", "7">>,
     <<"_debug", "slow-stream">>, <<"v1", "models">>, <<"v1", "messages">>,
     <<"v1", "messages", "count_tokens">>, <<"copilot">>, <<"copilot", "other", "v1">>,
     <<"copilot", "business", "v1", "messages">>, <<"copilot", "business", "models">>,
     <<"copilot", "individual", "responses", "r1">>, <<"mcp", "x">>,
     <<"openai", "v1", "responses">>, <<"openai", "v1", "models">>,
     <<"chatgpt", "backend-api", "codex", "responses", "r1">>, <<"chatgpt", "v1", "models">>,
     <<"bedrock", "v1", "messages">>, <<"bedrock", "v1", "messages", "count_tokens">>,
     <<"bedrock", "v1">>}

\* What a request asks for is made of these.
Segments ==
    {"healthz", "api", "keys", "_admin", "usage", "users", "7", "_debug", "slow-stream", "v1",
     "models", "messages", "count_tokens", "copilot", "other", "business", "individual", "enterprise",
     "responses",
     "r1", "mcp", "x", "openai", "chatgpt", "backend-api", "codex", "bedrock", "chat", "completions"}

\* What may be said of an entry of the routing file.
Faults ==
    {"not an object", "adapter", "url", "credential"} \cup
    {"id", "duplicate id", "match", "unknown upstream", "invalid upstream", "expose", "exposed twice"}

\* What the id of a model is made of, and what a vendor's report may say.
Names == {"m", "m-1m", "n", "a", "v"}
Figures == {"input", "read", "flat", "write5m", "write1h", "output"}

\* What a stream is made of, and what is made of it.
Symbols == {"event", "data", "id", ":", "usage", "ping", "x", "c1", "c2", "cr", "lf", "c", "?"}

\* No value is the lack of one, and no segment of a remainder is the gateway's own.
ASSUME AlgorithmsAssumption ==
    /\ NULL \notin {"individual", "business", "enterprise", "x-should-retry: false"} \cup Anthropic
    /\ NULL \notin Segments \cup Seq(Segments \cup TagSegments)
    /\ "~t" \in TagSegments
    /\ Segments \cap (TagSegments \cup FestTokens) = {}
    /\ {"t", "fest"} \cap TagSegments = {}
    /\ {"plan", "github", "chatgpt", "stored", "sk", "blank"} \cap (FestTokens \cup {NULL}) = {}
    /\ "good" \in (Resolving \cap FestTokens) \ {NULL}
    /\ Null \notin Faults \cup {"u1", "u2"}
    /\ NULL \notin Names \cup Seq(Names)
    /\ PlainName["m"] = "m" /\ PlainName["m-1m"] = "m" /\ PlainName["n"] = "n"
    /\ NULL \notin Symbols \cup (Nat \X Nat) /\ MaxEventChars \in Nat
    /\ \A unsaid \in {NULL, Done} : unsaid \notin [Figures -> Nat \cup {NULL}]

Request(method, path, headers, auth, key, fest, body) ==
    [method |-> method, path |-> path, headers |-> headers, auth |-> auth, key |-> key,
     fest |-> fest, body |-> body]
Some == {"host", "x-fest-tags", "anthropic-version", "content-length", "user-agent"}

\* every path, whatever the configuration, then every credential
PostedTo == {<<"v1", "messages">>, <<"v1", "messages", "count_tokens">>,
             <<"bedrock", "v1", "messages">>, <<"copilot", "business", "chat", "completions">>}
AskEdge ==
    \/ \E hosts \in {On, Off}, require, routed \in BOOLEAN, method \in {"GET", "POST"},
          prefix \in Identities, path \in Remainders, headers \in {{}, Some},
          fest \in {NULL, "good"}, body \in {"plain", "huge"} :
          call' = [of |-> "edge", cfg |-> Configuration(<<"gw">>, hosts, require, routed),
                  req |-> Request(method, prefix \o path, headers, "plan", NULL, fest, body)]
    \/ \E require, routed \in BOOLEAN, prefix \in Identities,
          path \in PostedTo,
          auth \in {NULL, "blank", "plan", "good", "dead"}, key \in {NULL, "sk", "good"},
          fest \in {NULL, "blank", "good", "dead"}, body \in {"plain", "gzip", "garbage"} :
          call' = [of |-> "edge", cfg |-> Configuration(<<>>, On, require, routed),
                  req |-> Request("POST", prefix \o path, {}, auth, key, fest, body)]

\* See Gateway.
SentWhereTheUrlSays == call.of = "edge" => E!SentWhereTheUrlSays(call.cfg, call.req)
MeteredByWhoAsked == call.of = "edge" => E!MeteredByWhoAsked(call.cfg, call.req)
EitherWay == call.of = "edge" => E!EitherWay(call.cfg, call.req)

-----------------------------------------------------------------------------
(* the streams *)

\* Three lines of every kind, with the line ends of either convention, the
\* last block ended or not, cut once; then an event and what follows it, cut
\* in any two places.
Lines == {<<>>, <<"event", "usage">>, <<"event", "ping">>, <<"data", "x">>,
          <<"data", "c1", "c2">>, <<"data", "x", "x", "x", "x">>, <<"id", "x">>, <<":">>}
Wire(first, second, third, end) == first \o end \o second \o end \o third \o end
Wires == {Wire(a, b, c, <<"cr", "lf">>) : a, b, c \in Lines} \cup
         {Wire(a, b, c, <<"lf">>) \o <<"c1">> : a, b, c \in Lines}
Followed == {Wire(<<"event", "usage">>, data, <<>>, end) \o <<"data", "c1", "c2">> \o end :
                data \in Lines, end \in {<<"lf">>, <<"cr", "lf">>}}
AskStream ==
    \/ \E bytes \in Wires : \E cuts \in {{}} \cup {{i} : i \in DOMAIN bytes} :
          call' = [of |-> "stream", bytes |-> bytes, cuts |-> cuts]
    \/ \E bytes \in Followed : \E i, j \in DOMAIN bytes :
          call' = [of |-> "stream", bytes |-> bytes, cuts |-> {i, j}]

\* A vendor's reports of one answer.  One that has said how the cache writes
\* divide may repeat their total, and does not raise it without saying so again.
Report(input, read, flat, write1h, output, broken) ==
    [input |-> input, read |-> read, flat |-> flat,
     write5m |-> IF broken /\ flat # NULL THEN flat - write1h ELSE NULL,
     write1h |-> IF broken /\ flat # NULL THEN write1h ELSE NULL, output |-> output]
Again(first, broken) ==
    {Report(NULL, NULL, NULL, 0, NULL, FALSE), Report(8, NULL, NULL, 0, NULL, FALSE),
     Report(7, 3, IF broken THEN first.flat ELSE 4, 0, NULL, FALSE),
     Report(NULL, NULL, 4, 2, NULL, TRUE)}
Event(type, data) == [type |-> type, data |-> data]
Said(wire, events) == call' = [of |-> "reports", wire |-> wire, events |-> events]
AskTwoReports ==
    \E input \in {0, 7}, read \in {NULL, 0, 3}, flat \in {NULL, 2, 4}, write1h, output \in 0..1,
       broken \in BOOLEAN, more \in {NULL, 5} :
       \E second \in Again(Report(input, read, flat, write1h, output, broken), broken) :
          Said("messages",
               <<Event("message_start", Report(input, read, flat, write1h, output, broken)),
                 Event("message_delta", [second EXCEPT !.output = more])>>)
AskOneReport ==
    \E wire \in {"responses", "chat"}, input \in {7, 9}, read \in {NULL, 0, 3},
       flat \in {NULL, 4}, output \in {0, 5} :
       Said(wire, <<Event(IF wire = "chat" THEN "message" ELSE "response.completed",
                          Report(input, read, flat, 0, output, FALSE))>>)
AskReports == AskTwoReports \/ AskOneReport

\* See Streams.
CutAnywhere == call.of = "stream" => S!CutAnywhere(call.bytes, call.cuts)
CountedOnce == call.of = "reports" => S!CountedOnce(call.wire, call.events)

-----------------------------------------------------------------------------
(* the prices *)

\* What a vendor publishes of a tier, NULL for what it leaves out, and of a model.
Priced(input, read, write5m, write1h, output) ==
    [input |-> input, read |-> read, write5m |-> write5m, write1h |-> write1h, output |-> output]
Entry(mode, base, lower, upper, priority) ==
    [mode |-> mode, search |-> <<NULL, 1, NULL>>,
     rates |-> [at \in Buckets \X Tiers |->
                   (CASE at[2] = BaseTier -> base [] at[2] = PriorityTier -> priority
                      [] OTHER -> IF at[2] = 1 THEN lower ELSE upper)[at[1]]]]
Unpriced == Priced(NULL, NULL, NULL, NULL, NULL)
Other == Entry("chat", Priced(2, NULL, NULL, NULL, 5), Unpriced, Unpriced, Unpriced)
Catalogs(key) ==
    {[k \in {key, <<"other">>} |->
         IF k = key THEN Entry(mode, Priced(2, read, NULL, write1h, 5), Priced(3, read, 4, long, output),
                               Priced(upper, NULL, NULL, NULL, 9), Priced(priority, NULL, NULL, NULL, 9))
         ELSE Other] :
            mode \in {"chat", "embedding"}, read \in {NULL, 1}, write1h \in {NULL, 4},
            long \in {NULL, 6}, output \in {NULL, 7}, upper \in {NULL, 8}, priority \in {NULL, 6}}
Used(input, read, write5m, write1h, service) ==
    [input |-> input, read |-> read, write5m |-> write5m, write1h |-> write1h, output |-> 1,
     searches |-> 1, service |-> service]
Usages == {Used(input, read, write5m, write1h, service) :
              input \in {0, 2}, read, write1h \in 0..1, write5m \in {0, 3},
              service \in {NULL, "priority"}}
PriceOf(raw, id, provider, usage, subscription) ==
    [of |-> "price", raw |-> raw, id |-> id, provider |-> provider, usage |-> usage,
     subscription |-> subscription]
AskPrice ==
    \/ \E raw \in Catalogs(<<"m">>), usage \in Usages :
          call' = PriceOf(raw, <<"m">>, NULL, usage, FALSE)
    \/ \E raw \in Catalogs(<<"m">>), id \in {<<"m">>, <<"n">>} :
          call' = PriceOf(raw, id, NULL, Used(2, 0, 0, 0, NULL), TRUE)
    \/ \E raw \in Catalogs(<<"v", "m">>), id \in {<<"m">>, <<"m-1m">>, <<"a", "m">>} :
          call' = PriceOf(raw, id, "v", Used(0, 1, 3, 1, NULL), FALSE)

\* See Prices.
PricedAsTheVendorSays ==
    call.of = "price" => PricedAsPublished(call.raw, call.id, call.usage, call.subscription,
                                           call.provider)

-----------------------------------------------------------------------------
(* the routing file *)

R == INSTANCE RouteTable

Upstream(id, adapter, url) ==
    [id |-> id, object |-> TRUE, adapter |-> adapter, url |-> url, reference |-> TRUE]
Upstreams(id) ==
    {Upstream(id, "anthropic", "https"), Upstream(id, "fireworks", "https"),
     Upstream(id, "fireworks", "loopback"), Upstream(id, "fireworks", "http"),
     Upstream(id, "other", "http"), Upstream(id, "fireworks", "malformed"),
     [Upstream(id, "fireworks", "https") EXCEPT !.reference = FALSE],
     [Upstream(id, "fireworks", "https") EXCEPT !.object = FALSE]}
Route(id, match, upstream, expose) ==
    [id |-> id, match |-> match, upstream |-> upstream, expose |-> expose]
Exposes == {[kind |-> "none"], [kind |-> "id", id |-> "x"], [kind |-> "pattern"],
            [kind |-> "foreign"]}
Firsts == {Route(id, match, upstream, expose) :
              id \in {Null, "a"}, match \in {"good", "missing", "inner star"},
              upstream \in {Null, "u1", "u2", "u3"},
              expose \in {[kind |-> "none"], [kind |-> "id", id |-> "x"]}}
Seconds == {Route(id, "good", upstream, expose) :
               id \in {"a", "b"}, upstream \in {Null, "u1"}, expose \in Exposes}
AskRoutes ==
    \/ call' = [of |-> "routes", file |-> NotJson]
    \/ \E u1 \in Upstreams("u1"), u2 \in Upstreams("u2"), first \in Firsts :
          \/ call' = [of |-> "routes", file |-> [upstreams |-> <<u1, u2>>, routes |-> <<first>>]]
          \/ \E second \in Seconds :
                call' = [of |-> "routes",
                        file |-> [upstreams |-> <<u1, u2>>, routes |-> <<first, second>>]]

(***************************************************************************)
(* A file that is taken can be honoured whole, and each fault is reported  *)
(* once: see RouteTable.                                                   *)
(***************************************************************************)
TakenIsHonourable ==
    call.of = "routes" /\ call.file # NotJson =>
        /\ R!Valid(call.file) => R!Honourable(call.file)
        /\ R!OneCause(call.file)

-----------------------------------------------------------------------------
(* the tags *)

T == INSTANCE Tags WITH
         Lower <- ("a" :> "a" @@ "A" :> "a" @@ "b" :> "b" @@ "c" :> "c" @@
                   "project" :> "project"),
         MaxTags <- 3

OneTag == {<<<<"a", "1">>>>, <<<<"a", "">>>>}
Files == {<<>>, <<<<"a", "2">>, Malformed, <<"b", "2">>>>, <<<<"A", "">>>>}
Home == <<"home">>
Repo == <<"home", "repo">>
Inside == <<"home", "repo", "src">>
SavedFiles ==
    {NULL, [flat |-> <<<<"b", "3">>, <<"a", "3">>>>]} \cup
    {[global |-> <<<<"b", "3">>>>,
      paths |-> Home :> home @@ Repo :> repo @@ Inside :> inside @@ <<"other">> :> <<<<"a", "9">>>>] :
        home \in {<<>>, <<<<"a", "4">>>>}, repo \in {<<>>, <<<<"a", "5">>, <<"c", "5">>>>},
        inside \in {<<>>, <<<<"b", "6">>>>}}
World(saved, root, name, pkg, fest, cwd, env) ==
    [saved |-> saved, root |-> root, name |-> name, pkg |-> pkg, fest |-> fest, cwd |-> cwd,
     env |-> env]
Edits == {[sub |-> sub, global |-> global, pairs |-> pairs] :
             sub \in {"set", "unset"}, global \in BOOLEAN,
             pairs \in OneTag \cup {<<<<"A", "7">>, <<"b", "7">>>>, <<<<"b", "7">>, Malformed>>}}
AskTags ==
    \E saved \in SavedFiles, env \in {NULL, <<<<"a", "8">>>>}, edit \in Edits :
       \/ \E name \in {NULL, "repo"}, pkg, fest \in Files \cup {NULL, Broken}, cwd \in {Repo, Inside} :
             call' = [of |-> "tags", edit |-> edit,
                     world |-> World(saved, Repo, name, pkg, fest, cwd, env)]
       \/ \E cwd \in {Home, Repo} :
             call' = [of |-> "tags", edit |-> edit,
                     world |-> World(saved, NULL, NULL, NULL, NULL, cwd, env)]

Argvs ==
    {<<>>, <<<<"--tag">>>>, <<<<"--tag">>, <<"A", "0">>, <<"run">>>>,
     <<<<"--tag=", "a", "0">>, <<"--tag">>, <<"a", "">>, <<"run">>, <<"--tag">>, <<"b", "0">>>>,
     <<<<"run">>, <<"--tag=", "a", "0">>>>}
AskSession ==
    \E saved \in SavedFiles, fest \in Files, env \in {NULL, <<<<"a", "8">>>>}, argv \in Argvs,
       header \in {<<>>, <<<<"A", "h">>>>, <<Malformed, <<"c", "h">>, <<"b", "">>>>} :
       call' = [of |-> "session", argv |-> argv, header |-> header,
               world |-> World(saved, Repo, NULL, NULL, fest, Inside, env)]

(***************************************************************************)
(* See Tags.                                                               *)
(***************************************************************************)
TagsTakeEffect ==
    /\ call.of = "tags" => T!NarrowestWins(call.world) /\ T!EditTakesEffect(call.world, call.edit)
    /\ call.of = "session" /\ T!PeelTagFlags(call.argv) # NULL =>
          T!FiledAsMeant(call.world, call.argv, call.header)

-----------------------------------------------------------------------------
(* the clients *)

Inherited ==
    [ANTHROPIC_API_KEY |-> "sk", ANTHROPIC_AUTH_TOKEN |-> "other",
     ANTHROPIC_BASE_URL |-> <<"elsewhere">>, CLAUDE_CODE_USE_MANTLE |-> "1",
     COPILOT_PROVIDER_BEARER_TOKEN |-> "other", COPILOT_API_URL |-> <<"elsewhere">>,
     COPILOT_PROVIDER_BASE_URL |-> <<"elsewhere">>, OPENAI_API_KEY |-> "sk",
     COPILOT_MODEL |-> "m", FEST_COPILOT_PLAN |-> "business"]
Menu(status, ids) == [status |-> status, ids |-> ids]
Machine(claudeJson, settings, menu, caches, authJson) ==
    [claudeJson |-> claudeJson, settings |-> settings, menu |-> menu, caches |-> caches,
     authJson |-> authJson, serverPath |-> <<>>]
\* What a developer or a repository may have put into a settings file.
Layer(helper, env) == [helper |-> helper, env |-> env, model |-> "m1"]
SettingsFiles ==
    {<<>>, <<Unparseable, Layer(FALSE, [EDITOR |-> "vi"])>>, <<Layer(TRUE, <<>>), NULL>>,
     <<Layer(FALSE, [ANTHROPIC_API_KEY |-> "sk"])>>,
     <<Layer(FALSE, [ANTHROPIC_BASE_URL |-> <<"elsewhere">>]),
       Layer(TRUE, [ANTHROPIC_AUTH_TOKEN |-> "other"])>>}
SignIns == <<Unparseable, {[api |-> NULL, at |-> 1]},
             {[api |-> "business", at |-> 1], [api |-> "individual", at |-> 2]}>>
Launched(start, token) == call' = [of |-> "launch", start |-> start, token |-> token]
AskClaude(env, tags, token) ==
    \E requested \in {"auto", "key"}, account \in {NULL, Unparseable, TRUE},
       settings \in SettingsFiles, menu \in {Menu(0, {}), Menu(200, {}), Menu(200, {"m1"})},
       argv \in {<<NULL>>, <<NULL, "m2">>} :
       Launched(E!RunClaude(Machine(account, settings, menu, <<>>, NULL), env, token, tags, argv,
                            requested), token)
AskCopilot(env, tags, token) ==
    \E mode \in {"subscription", "anthropic", "gw", "openai"}, caches \in {<<NULL>>, SignIns} :
       Launched(E!RunCopilot(Machine(NULL, <<>>, Menu(404, {}), caches, NULL), env, token, tags, mode),
                token)
AskCodex(env, tags, token) ==
    \E requested \in {"auto", "key"}, authJson \in {NULL, "chatgpt", "apikey"} :
       Launched(E!RunCodex(Machine(NULL, <<>>, Menu(404, {}), <<>>, authJson), env, token, tags, requested),
                token)
AskLaunch ==
    \E names \in SUBSET DOMAIN Inherited, tags \in {<<>>, <<"~t">>}, token \in {NULL, "good"} :
       LET env == [n \in names |-> Inherited[n]]
       IN  AskClaude(env, tags, token) \/ AskCopilot(env, tags, token) \/ AskCodex(env, tags, token)

(***************************************************************************)
(* See Launch.                                                             *)
(***************************************************************************)
PaysAsAnnounced ==
    call.of = "launch" =>
        E!PaysAsAnnounced(Configuration(<<>>, On, TRUE, TRUE), call.start, call.token)

-----------------------------------------------------------------------------
(* the routing screen *)

V == INSTANCE RoutingView WITH NoModel <- NULL, Nobody <- Null

Rule(matched, exact, len, expose, upstream) ==
    [matched |-> matched, exact |-> exact, len |-> len, expose |-> expose,
     upstream |-> upstream]
Matches ==
    {<<{"opus"}, TRUE, 4>>, <<{"sonnet"}, TRUE, 6>>, <<{"gpt"}, TRUE, 3>>, <<{"alias"}, TRUE, 5>>,
     <<{"opus", "sonnet", "alias"}, FALSE, 1>>, <<{"opus"}, FALSE, 4>>}
Rules(exposes, upstreams) ==
    {Rule(p[1], p[2], p[3], expose, upstream) :
        p \in Matches, expose \in exposes, upstream \in upstreams}
AskView ==
    \E upstreams \in {<<"fw">>, <<"fw", "an">>} :
       LET ids == ToSet(upstreams) \cup {Null}
           Table(routes) ==
               [routes |-> routes,
                upstreams |-> [i \in DOMAIN upstreams |->
                    [id |-> upstreams[i],
                     adapter |-> IF upstreams[i] = "an" THEN "anthropic" ELSE "fireworks"]]]
       IN  \/ call' = [of |-> "view", table |-> Table(<<>>)]
           \/ \E r \in Rules({NULL, "alias"}, ids), s \in Rules({NULL, "opus"}, ids),
                 t \in Rules({NULL}, {"fw", Null}) :
                 call' = [of |-> "view", table |-> Table(<<r, s, t>>)]

(***************************************************************************)
(* See RoutingView.                                                        *)
(***************************************************************************)
RoutingScreenTruthful == call.of = "view" => V!RoutingScreenTruthful(call.table)

-----------------------------------------------------------------------------
(* the substitute's request *)

Quoted == <<"q", "bs", "q", "model", "bs", "q", "colon", "bs", "q", "a", "bs", "q", "q">>
Slashed == <<"q", "x", "bs", "bs", "q">>
Inner == <<"lbrace", "q", "model", "q", "colon", "q", "a", "q", "rbrace">>
Listed == <<"lbracket", "lbrace", "q", "model", "q", "colon", "q", "a", "q", "rbrace", "comma",
            "q", "model", "q", "rbracket">>
Values == {A!Text("a"), A!Text("model"), Quoted, Slashed, Inner, <<"n">>, Listed}
Members(key, gaps) == {[key |-> key, gap |-> gap, value |-> value] : gap \in gaps, value \in Values}
Documents ==
    {<<>>} \cup {<<m>> : m \in Members("model", {<<>>, <<"sp">>})} \cup
    {<<x, m, y>> : x, y \in Members("x", {<<>>}), m \in Members("model", {<<"sp">>})}
AskPlan ==
    \E doc \in Documents, adapter \in {"anthropic", "fireworks"}, served \in {NULL, "b"},
       betas \in {NULL, <<"oauth">>, <<"c", "", "oauth", "d">>}, base \in {<<>>, <<"inference">>} :
       call' = [of |-> "plan", adapter |-> adapter, doc |-> doc,
               req |-> [path |-> <<"v1", "messages">>, body |-> <<>>, servedModel |-> served,
                        betas |-> betas, stream |-> doc # <<>>, secret |-> "key",
                        baseUrl |-> base]]

(***************************************************************************)
(* See Adapters.                                                           *)
(***************************************************************************)
SubstitutesOnlyTheModel ==
    call.of = "plan" => A!SubstitutesOnlyTheModel(call.adapter, call.doc, call.req)

-----------------------------------------------------------------------------
(* the live screen *)

M == INSTANCE Measures WITH WindowSlices <- 2, Limit <- 2

Now == 5
Spent(input, write1h, output) ==
    [input |-> input, read |-> 1, write5m |-> 0, write1h |-> write1h, output |-> output]
Row(at, user, model, tags, status, subscription, cost, notional, usage) ==
    [at |-> at, user |-> user, model |-> model, tags |-> tags, status |-> status,
     subscription |-> subscription, cost |-> cost, notional |-> notional, usage |-> usage]
Rows ==
    {Row(at, who[1], "opus", who[2], "ok", TRUE, NULL, notional, Spent(2, 1, 1)) :
        at \in {2, 4}, who \in {<<"ann", [team |-> "t"]>>, <<NULL, <<>>>>}, notional \in {NULL, 3}} \cup
    {Row(what[1], "bob", what[2], [team |-> "t"], status, FALSE, cost, cost, Spent(1, 0, 2)) :
        what \in {<<5, "opus">>, <<3, "gpt">>}, status \in {"ok", "upstream_error"}, cost \in {NULL, 2}} \cup
    {Row(4, "eve", NULL, <<>>, "preflight_refused", FALSE, NULL, NULL,
         [input |-> 0, read |-> 0, write5m |-> 0, write1h |-> 0, output |-> 0])}
Sent(row, id) == [id |-> id] @@ row
AskBooks ==
    \E r, s \in Rows, t \in {row \in Rows : row.at >= 4}, filter \in {<<>>, [team |-> "t"]},
       book \in M!Books, seedFirst \in BOOLEAN :
       LET seed == <<Sent(r, 1), Sent(s, 2)>>
           live == <<Sent(s, 2), Sent(t, 3)>>
       IN  call' = [of |-> "books", filter |-> filter, book |-> book,
                   batches |-> IF seedFirst THEN <<seed, live>> ELSE <<live, seed>>]

(***************************************************************************)
(* See Measures.                                                           *)
(***************************************************************************)
BooksAgree ==
    call.of = "books" =>
        M!BooksAgree(call.batches, Now, call.filter, call.book, {"model", "user", "team"})

---------------------------------------------------------------------------
algorithmVars == <<call, pricesVars>>

Topics == {"edge", "stream", "reports", "price", "routes", "tags", "session", "launch", "view",
           "plan", "books"}
About(topic) == [of |-> "topic", topic |-> topic]
Ask ==
    /\ \/ call = About("edge") /\ AskEdge
       \/ call = About("stream") /\ AskStream
       \/ call = About("reports") /\ AskReports
       \/ call = About("price") /\ AskPrice
       \/ call = About("routes") /\ AskRoutes
       \/ call = About("tags") /\ AskTags
       \/ call = About("session") /\ AskSession
       \/ call = About("launch") /\ AskLaunch
       \/ call = About("view") /\ AskView
       \/ call = About("plan") /\ AskPlan
       \/ call = About("books") /\ AskBooks
    /\ UNCHANGED pricesVars
Init == call \in {About(topic) : topic \in Topics} /\ PricesInit
Answer ==
    /\ call # Idle /\ \A topic \in Topics : call # About(topic)
    /\ call' = Idle
    /\ UNCHANGED pricesVars
TableMoves == call = Idle /\ PricesNext /\ UNCHANGED call
Next == Ask \/ Answer \/ TableMoves
Spec == Init /\ [][Next]_algorithmVars
=============================================================================
