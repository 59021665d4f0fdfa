-------------------------------- MODULE Launch --------------------------------
(***************************************************************************)
(* `fest claude`, `fest copilot` and `fest codex` (cli/claude.ts,          *)
(* cli/copilot.ts, cli/codex.ts): the environment the real client is       *)
(* started with, and through Gateway what becomes of its first request.    *)
(*                                                                         *)
(* An environment is a function from the variables that are set to their   *)
(* values: a credential, or a base URL, which is the path of it under the  *)
(* gateway's address.  `tags` is the path segment of the session's tags,   *)
(* <<>> or a sequence of one, and `token` the developer's identity token.  *)
(***************************************************************************)
EXTENDS Gateway, FiniteSets, Functions

CONSTANTS BaseModels, Unparseable

Get(env, name) == IF name \in DOMAIN env THEN env[name] ELSE NULL
Unset(env, names) == Restrict(env, DOMAIN env \ names)
With(env, vars) ==
    [name \in DOMAIN env \cup DOMAIN vars |-> IF name \in DOMAIN vars THEN vars[name] ELSE env[name]]

-----------------------------------------------------------------------------
(* fest claude *)

DemotionVars ==
    {"ANTHROPIC_API_KEY", "ANTHROPIC_AUTH_TOKEN", "ANTHROPIC_BASE_URL",
     "CLAUDE_CODE_USE_BEDROCK", "CLAUDE_CODE_USE_VERTEX", "CLAUDE_CODE_USE_MANTLE",
     "CLAUDE_CODE_USE_FOUNDRY", "CLAUDE_CODE_USE_ANTHROPIC_AWS",
     "CLAUDE_CODE_USE_ANTHROPIC_GOOGLE_CLOUD"}

ClaudeVars(token, tags, posture) ==
    IF posture = "key" THEN [ANTHROPIC_BASE_URL |-> tags, ANTHROPIC_AUTH_TOKEN |-> token]
    ELSE [ANTHROPIC_BASE_URL |-> <<"t", token>> \o tags]

\* bug: what the developer has set is kept, and only the rest is filled in
BuildClaudeEnvKeeping(env, token, tags, posture) == With(ClaudeVars(token, tags, posture), env)

\* Everything that demotes is taken off first, then one credential is put on.
BuildClaudeEnv(env, token, tags, posture) ==
    With(Unset(env, DemotionVars), ClaudeVars(token, tags, posture))

\* ~/.claude.json: NULL, Unparseable, or whether it has an account.
DetectSubscriptionLogin(file) == file = TRUE

\* The settings files, most general first: NULL, Unparseable, or a record
\* [helper, env, model], `env` being an environment.
Read(files) == {i \in DOMAIN files : files[i] \notin {NULL, Unparseable}}
SettingsDemotionTriggers(files) ==
    {i \in DOMAIN files :
        \/ files[i] = Unparseable
        \/ i \in Read(files) /\ (files[i].helper \/ DOMAIN files[i].env \cap DemotionVars # {})}

(* An argument is NULL for any that names no model.                        *)
ResolveIntendedModel(argv, env, files) ==
    LET said == SelectSeq(argv, LAMBDA a : a # NULL)
        kept == SelectSeq(files, LAMBDA f : f \notin {NULL, Unparseable} /\ f.model # NULL)
    IN  CASE said # <<>> -> Head(said)
          [] said = <<>> /\ Get(env, "ANTHROPIC_MODEL") # NULL -> env["ANTHROPIC_MODEL"]
          [] OTHER -> IF kept = <<>> THEN NULL ELSE Last(kept).model

CheckServable(menu, intended) ==
    CASE intended # NULL -> IF intended \in menu THEN "ok" ELSE "fatal"
      [] OTHER -> IF BaseModels \subseteq menu THEN "ok" ELSE "warn"

\* GET /v1/models: a status, 0 for a gateway out of reach or an answer that is
\* not a menu, and the ids it offers.
FetchServableModels(answer) ==
    CASE answer.status = 404 \/ (answer.status = 200 /\ answer.ids = {}) -> "fatal"
      [] answer.status \notin {200, 404} -> "warn"
      [] OTHER -> "ok"

PostureWarnings(posture, env, triggers) ==
    IF posture = "subscription"
    THEN [demoted |-> triggers, menu |-> Get(env, "DISCOVERY") # NULL]
    ELSE [demoted |-> {}, menu |-> Get(env, "DISCOVERY") = NULL \/ Get(env, "FIRST_PARTY") # NULL]

Fails == [kind |-> "fails"]
Starts(client, machine, pays, env, notes) ==
    [kind |-> "starts", client |-> client, on |-> machine, pays |-> pays, env |-> env,
     notes |-> notes]

(***************************************************************************)
(* runClaude up to its spawn.  A machine has `claudeJson`, `settings` and  *)
(* what the gateway answers for its `menu`.                                *)
(***************************************************************************)
RunClaude(machine, env, token, tags, argv, requested) ==
    LET posture == IF requested # "auto" THEN requested
                   ELSE IF DetectSubscriptionLogin(machine.claudeJson) THEN "subscription"
                   ELSE "key"
        triggers == IF posture = "subscription" THEN SettingsDemotionTriggers(machine.settings)
                    ELSE {}
        intended == ResolveIntendedModel(argv, env, machine.settings)
        menu == FetchServableModels(machine.menu)
    IN  CASE token = NULL -> Fails
          [] token # NULL /\ posture = "key" /\
             (menu = "fatal" \/ (menu = "ok" /\ CheckServable(machine.menu.ids, intended) = "fatal")) ->
                Fails
          [] OTHER -> Starts("claude", machine, IF posture = "key" THEN NULL ELSE "plan",
                             BuildClaudeEnv(env, token, tags, posture),
                             PostureWarnings(posture, env, triggers))

-----------------------------------------------------------------------------
(* fest copilot *)

\* The variables of the provider, and those of the subscription.
CopilotVars == {"COPILOT_PROVIDER_BASE_URL", "COPILOT_PROVIDER_TYPE", "COPILOT_PROVIDER_API_KEY",
                "COPILOT_PROVIDER_BEARER_TOKEN", "COPILOT_PROVIDER_HEADERS",
                "COPILOT_PROVIDER_WIRE_API", "COPILOT_PROVIDERS_CONFIG", "COPILOT_API_URL",
                "COPILOT_OFFLINE"}

\* The cache's entries are records [api, at]; the last sign-in counts, and NULL
\* is a host that no plan names.
PlanFromUserCache(entries) ==
    LET told == {e \in entries : e.api # NULL}
    IN  IF told = {} THEN [found |-> FALSE, plan |-> NULL]
        ELSE [found |-> TRUE,
              plan |-> LET api == (CHOOSE e \in told : \A f \in told : f.at <= e.at).api
                       IN  IF api \in CopilotPlans THEN api ELSE NULL]

\* The caches, most specific first, Unparseable or a set of entries; NULL fails.
DetectPlan(env, caches) ==
    LET read == SelectSeq(caches, LAMBDA c : c \notin {NULL, Unparseable}
                                             /\ PlanFromUserCache(c).found)
    IN  IF Get(env, "FEST_COPILOT_PLAN") # NULL
        THEN IF env["FEST_COPILOT_PLAN"] \in CopilotPlans THEN env["FEST_COPILOT_PLAN"] ELSE NULL
        ELSE IF read = <<>> THEN NULL ELSE PlanFromUserCache(Head(read)).plan

\* The errors that a developer is told.
OwnKey(env, mode) == Get(env, IF mode = "openai" THEN "OPENAI_API_KEY" ELSE "ANTHROPIC_API_KEY")
CopilotError(env, plan, mode) ==
    CASE mode = "subscription" -> plan = NULL
      [] mode = "openai" -> OwnKey(env, mode) = NULL \/ Get(env, "COPILOT_MODEL") = NULL
      [] mode = "gw" -> FALSE
      [] mode = "anthropic" -> OwnKey(env, mode) \in {NULL, "plan"}

BuildCopilotEnv(env, token, plan, tags, mode) ==
    LET clean == Unset(env, CopilotVars)
        named == IF Get(env, "COPILOT_MODEL") = NULL THEN With(clean, [COPILOT_MODEL |-> "sonnet"])
                 ELSE clean
        Own(type, url) == [COPILOT_PROVIDER_TYPE |-> type, COPILOT_PROVIDER_BASE_URL |-> url,
                           COPILOT_PROVIDER_API_KEY |-> OwnKey(env, mode),
                           COPILOT_PROVIDER_HEADERS |-> token]
    IN  CASE mode = "subscription" ->
                With(clean, [COPILOT_API_URL |-> <<"t", token>> \o tags \o <<"copilot", plan>>])
          [] mode = "openai" -> With(clean, Own("openai", tags \o <<"openai", "v1">>))
          [] mode = "gw" ->
                With(named, [COPILOT_PROVIDER_TYPE |-> "anthropic", COPILOT_PROVIDER_BASE_URL |-> tags,
                             COPILOT_PROVIDER_BEARER_TOKEN |-> token])
          [] mode = "anthropic" -> With(named, Own("anthropic", tags))

\* A gateway under a path does not own its origin, where Copilot calls GitHub's
\* MCP server.
CopilotArgs(serverPath, mode) ==
    IF mode = "subscription" /\ serverPath # <<>> THEN {"--disable-mcp-server"} ELSE {}

RunCopilot(machine, env, token, tags, mode) ==
    LET plan == IF mode = "subscription" THEN DetectPlan(env, machine.caches) ELSE NULL
        built == BuildCopilotEnv(env, token, plan, tags, mode)
    IN  IF token = NULL \/ CopilotError(env, plan, mode) THEN Fails
        ELSE Starts("copilot", machine,
                    CASE mode = "subscription" -> "github" [] mode = "gw" -> NULL
                      [] OTHER -> built["COPILOT_PROVIDER_API_KEY"],
                    built, CopilotArgs(machine.serverPath, mode))

-----------------------------------------------------------------------------
(* fest codex *)

DetectCodexMode(authJson) == IF authJson = "chatgpt" THEN "chatgpt" ELSE "key"

BuildCodexInvocation(env, token, tags, mode) ==
    With(env, [base_url |-> tags \o IF mode = "chatgpt" THEN <<"chatgpt", "backend-api", "codex">>
                                    ELSE <<"openai", "v1">>,
               own_login |-> mode = "chatgpt" \/ Get(env, "OPENAI_API_KEY") = NULL,
               FEST_GATEWAY_TOKEN |-> token])

(* The notice names the plan, or the key's owner: of the key in the         *)
(* environment, or else of the one that `codex login` has stored.            *)
RunCodex(machine, env, token, tags, requested) ==
    LET mode == IF requested = "auto" THEN DetectCodexMode(machine.authJson) ELSE requested
        owner == IF Get(env, "OPENAI_API_KEY") # NULL THEN env["OPENAI_API_KEY"] ELSE "stored"
    IN  IF token = NULL THEN Fails
        ELSE Starts("codex", machine, IF mode = "chatgpt" THEN "chatgpt" ELSE owner,
                    BuildCodexInvocation(env, token, tags, mode), {})

-----------------------------------------------------------------------------
(***************************************************************************)
(* The clients, which are not Fest's: the first request each makes with    *)
(* the environment it is given, on the machine it is started on, or that   *)
(* it goes past the gateway, or that it has to be logged in first.         *)
(***************************************************************************)
Asks(path, auth, key, fest) ==
    [method |-> "POST", path |-> path, headers |-> {}, auth |-> auth, key |-> key,
     fest |-> fest, body |-> "plain"]

Elsewhere == [method |-> "none"]
LoginFirst == [method |-> "login"]

\* A variable that a settings file sets is read from the most specific that does.
SetBy(files, name) == {i \in Read(files) : name \in DOMAIN files[i].env}
Setting(env, files, name) ==
    LET by == SetBy(files, name)
    IN  IF by = {} THEN Get(env, name)
        ELSE files[CHOOSE i \in by : \A j \in by : j <= i].env[name]

\* A credential that is set, or that the helper makes, is used before the plan.
ClaudeAsks(env, files) ==
    LET auth == Setting(env, files, "ANTHROPIC_AUTH_TOKEN")
        key == Setting(env, files, "ANTHROPIC_API_KEY")
        own == IF \E i \in Read(files) : files[i].helper THEN "helper" ELSE "plan"
    IN  IF \E v \in DemotionVars \ {"ANTHROPIC_API_KEY", "ANTHROPIC_AUTH_TOKEN", "ANTHROPIC_BASE_URL"} :
               Setting(env, files, v) # NULL
        THEN Elsewhere
        ELSE Asks(Setting(env, files, "ANTHROPIC_BASE_URL") \o <<"v1", "messages">>,
                  IF auth = NULL /\ key = NULL THEN own ELSE auth, key, NULL)

CopilotAsks(env) ==
    CASE Get(env, "COPILOT_PROVIDER_BASE_URL") # NULL ->
            LET bearer == Get(env, "COPILOT_PROVIDER_BEARER_TOKEN")
                key == Get(env, "COPILOT_PROVIDER_API_KEY")
                openai == env["COPILOT_PROVIDER_TYPE"] = "openai"
            IN  Asks(env["COPILOT_PROVIDER_BASE_URL"]
                        \o (IF openai THEN <<"responses">> ELSE <<"v1", "messages">>),
                     IF bearer # NULL THEN bearer ELSE IF openai THEN key ELSE NULL,
                     IF bearer # NULL \/ openai THEN NULL ELSE key,
                     Get(env, "COPILOT_PROVIDER_HEADERS"))
      [] OTHER -> Asks(env["COPILOT_API_URL"] \o <<"v1", "messages">>, "github", NULL, NULL)

\* Its own login is whichever `codex login` left: the plan's token, or a stored key.
CodexAsks(env, authJson) ==
    LET login == IF authJson = "chatgpt" THEN "chatgpt" ELSE "stored"
    IN  IF env["own_login"] /\ authJson = NULL THEN LoginFirst
        ELSE Asks(env["base_url"] \o <<"responses">>,
                  IF env["own_login"] THEN login ELSE env["OPENAI_API_KEY"], NULL,
                  env["FEST_GATEWAY_TOKEN"])

FirstRequest(start) ==
    CASE start.client = "claude" -> ClaudeAsks(start.env, start.on.settings)
      [] start.client = "copilot" -> CopilotAsks(start.env)
      [] start.client = "codex" -> CodexAsks(start.env, start.on.authJson)

\* Asks this gateway, as this developer, with what was announced and no other
\* credential, and is taken to the relay that meters it or, when the organisation
\* pays, to the routing table.
Pays(cfg, start, token) ==
    LET req == FirstRequest(start)
        inbound == DetectInbound(req.path, req)
        answer == Handle(cfg, req)
    IN  /\ req # Elsewhere
        /\ inbound.token = token
        /\ inbound.credential = start.pays
        /\ answer.kind = "sent" => answer.metered
        /\ answer.kind \in (IF start.pays = NULL THEN {"dispatched"} ELSE {"sent", "dispatched"})

\* Told that a settings file takes the session off the plan.
Warned(start) ==
    start.client = "claude" /\ \E i \in start.notes.demoted : start.on.settings[i] # Unparseable

\* Nobody is told: a settings file sets a variable over the gateway posture's own, or
\* Codex is forced to a key, there is none in the environment and its login is the plan's.
Unsaid(start) ==
    \/ start.client = "claude" /\ start.pays = NULL /\
       \E v \in DemotionVars : SetBy(start.on.settings, v) # {}
    \/ start.client = "codex" /\ start.pays # "chatgpt" /\
       start.env["own_login"] /\ start.on.authJson = "chatgpt"

(***************************************************************************)
(* Who was said to pay pays: whatever the developer's environment holds    *)
(* and whatever the machine's own files say, the first request of the      *)
(* client that is started pays as its notice says, or a warning has named  *)
(* the file that takes the session off its plan (claude.ts:109-118,        *)
(* 332-344, copilot.ts:111-116, codex.ts:121-124).  A client that has no   *)
(* login asks for one first.  Unsaid is where the notice is wrong, and     *)
(* nothing is said; it is all there is.                                    *)
(***************************************************************************)
PaysAsAnnounced(cfg, start, token) ==
    start.kind = "starts" =>
        \/ FirstRequest(start) = LoginFirst
        \/ Pays(cfg, start, token)
        \/ Warned(start)
        \/ Unsaid(start)
=============================================================================
