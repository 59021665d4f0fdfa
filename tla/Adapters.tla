-------------------------------- MODULE Adapters --------------------------------
(***************************************************************************)
(* What the substitute pipeline sends (adapters/anthropic.ts,              *)
(* adapters/fireworks.ts, adapters/rewrite.ts, adapters/url.ts): a request *)
(* planned from scratch, with the one edit a body ever gets.               *)
(*                                                                         *)
(* A text is a sequence of atoms: the characters JSON turns on ("q" for a  *)
(* quote, "bs" for a backslash, "sp" for white space, braces, brackets,    *)
(* comma, colon), "ff" for a byte that is not UTF-8, and words.            *)
(***************************************************************************)
EXTENDS Integers, Sequences, SequencesExt, FiniteSetsExt

CONSTANT NULL

-----------------------------------------------------------------------------
(* the one edit *)

Deeper(ch) == CASE ch \in {"lbrace", "lbracket"} -> 1 [] ch \in {"rbrace", "rbracket"} -> -1 [] OTHER -> 0
Step(s, ch) ==
    CASE s.str /\ s.esc -> [s EXCEPT !.esc = FALSE]
      [] s.str /\ ~s.esc -> [s EXCEPT !.esc = ch = "bs", !.str = ch # "q"]
      [] ~s.str -> [s EXCEPT !.str = ch = "q",
                             !.depth = @ + Deeper(ch)]

\* Where the walk is before each atom, and at the end: in a string or not, and
\* how deep.
Outside == [str |-> FALSE, esc |-> FALSE, depth |-> 0]
Walk(text) ==
    LET walked[n \in 0..Len(text)] ==
            IF n = 0 THEN <<Outside>>
            ELSE LET before == walked[n - 1] IN Append(before, Step(Last(before), text[n]))
    IN  walked[Len(text)]

First(found) == IF found = {} THEN 0 ELSE Min(found)

Solid(text, n) == First({k \in n + 1..Len(text) : text[k] # "sp"})
ValueStart(text, colon) == IF colon # 0 /\ text[colon] = "colon" THEN Solid(text, colon) ELSE 0
StringEnd(text, at, open) ==
    IF open # 0 /\ text[open] = "q" THEN First({k \in open + 1..Len(text) : ~at[k + 1].str}) ELSE 0

\* Where the member that begins at i ends, when it is a "model" with a string
\* for a value; else 0.
MatchEnd(text, at, i) ==
    IF i + 2 <= Len(text) /\ SubSeq(text, i, i + 2) = <<"q", "model", "q">>
    THEN StringEnd(text, at, ValueStart(text, Solid(text, i + 2)))
    ELSE 0

RootStarts(text, at) ==
    First({i \in DOMAIN text : text[i] = "lbrace" /\ ~at[i].str /\ at[i].depth = 0})

FirstMatch(text, at, starts) ==
    LET found == {i \in starts : ~at[i].str /\ MatchEnd(text, at, i) # 0}
    IN  IF found = {} THEN NULL ELSE <<Min(found), MatchEnd(text, at, Min(found))>>

\* bug: a model at any depth will do
MembersAnywhere(text, at, root) == IF root = 0 THEN {} ELSE root + 1..Len(text)

\* The members of the root object, and of nothing inside it.
MembersOf(text, at, root) ==
    IF root = 0 THEN {}
    ELSE {i \in root + 1..Len(text) :
             at[i].depth = 1 /\ \A k \in root..i - 1 : at[k + 1].depth >= 1}

FindTopLevelModel(text) ==
    LET at == Walk(text)
    IN  FirstMatch(text, at, MembersOf(text, at, RootStarts(text, at)))

Text(word) == <<"q", word, "q">>

Replaced(body, found, servedModel) ==
    IF found = NULL THEN body
    ELSE SubSeq(body, 1, found[1] - 1) \o Text("model") \o <<"colon", "sp">> \o Text(servedModel)
             \o SubSeq(body, found[2] + 1, Len(body))

RewriteModel(body, servedModel) ==
    IF servedModel = NULL \/ Contains(body, "ff") THEN body
    ELSE Replaced(body, FindTopLevelModel(body), servedModel)

-----------------------------------------------------------------------------
(* the plans *)

OauthBeta == "oauth"
NotForwarded == {"", OauthBeta}

\* A header is NULL or its comma-separated flags, "" for none between commas.
ForwardableBetas(raw) ==
    LET kept[n \in 0..Len(raw)] ==
            IF n = 0 THEN <<>>
            ELSE IF raw[n] \in NotForwarded THEN kept[n - 1] ELSE Append(kept[n - 1], raw[n])
    IN  IF raw = NULL \/ kept[Len(raw)] = <<>> THEN NULL ELSE kept[Len(raw)]

\* A URL is its path: whatever the base carries comes first.
JoinUpstreamUrl(baseUrl, path) == baseUrl \o path

CommonHeaders == {"content-type", "accept-encoding", "accept", "user-agent"}
Common(req, name) ==
    CASE name = "content-type" -> "application/json"
      [] name = "accept-encoding" -> "identity"
      [] name = "user-agent" -> "fest"
      [] name = "accept" -> IF req.stream THEN "text/event-stream" ELSE "application/json"

AnthropicHeaders(req) ==
    LET betas == ForwardableBetas(req.betas)
        names == CommonHeaders \cup {"x-api-key", "anthropic-version"}
                     \cup IF betas = NULL THEN {} ELSE {"anthropic-beta"}
    IN  [name \in names |-> CASE name = "x-api-key" -> req.secret
                              [] name = "anthropic-version" -> "2023-06-01"
                              [] name = "anthropic-beta" -> betas
                              [] OTHER -> Common(req, name)]

AnthropicPlan(req) ==
    [url |-> JoinUpstreamUrl(req.baseUrl, req.path), headers |-> AnthropicHeaders(req),
     body |-> RewriteModel(req.body, req.servedModel)]

FireworksHeaders(req) ==
    [name \in CommonHeaders \cup {"authorization"} |->
        IF name = "authorization" THEN req.secret ELSE Common(req, name)]

FireworksPlan(req) ==
    [url |-> JoinUpstreamUrl(req.baseUrl, req.path), headers |-> FireworksHeaders(req),
     body |-> RewriteModel(req.body, req.servedModel)]

Plan(adapter, req) == IF adapter = "anthropic" THEN AnthropicPlan(req) ELSE FireworksPlan(req)

-----------------------------------------------------------------------------
(* A document: its members, each with a key, the white space about its     *)
(* colon and the atoms of its value.                                       *)

Written(member) ==
    Text(member.key) \o member.gap \o <<"colon">> \o member.gap \o member.value
Braced(members) ==
    LET upTo[n \in 0..Len(members)] ==
            IF n = 0 THEN <<"lbrace">>
            ELSE (IF n = 1 THEN upTo[n - 1] ELSE Append(upTo[n - 1], "comma")) \o members[n]
    IN  Append(upTo[Len(members)], "rbrace")
Rendered(doc) == Braced([i \in DOMAIN doc |-> Written(doc[i])])

IsText(value) == Head(value) = "q"
Renamed(member, servedModel) ==
    IF member.key = "model" /\ IsText(member.value)
    THEN Text("model") \o <<"colon", "sp">> \o Text(servedModel)
    ELSE Written(member)
Edited(doc, servedModel) == Braced([i \in DOMAIN doc |-> Renamed(doc[i], servedModel)])

Honest(plan, adapter, doc, req) ==
    LET names == DOMAIN plan.headers
    IN  /\ plan.body = IF req.servedModel = NULL THEN Rendered(doc) ELSE Edited(doc, req.servedModel)
        /\ plan.url = req.baseUrl \o req.path
        /\ \E name \in {"authorization", "x-api-key"} :
              names \cap {"authorization", "x-api-key"} = {name} /\ plan.headers[name] = req.secret
        /\ "anthropic-beta" \in names =>
              /\ ToSet(plan.headers["anthropic-beta"]) = ToSet(req.betas) \ {"", OauthBeta}
              /\ adapter = "anthropic"

(***************************************************************************)
(* What leaves differs from what came in the model it is served as and in  *)
(* nothing else: the request's own model, wherever it stands, and never a  *)
(* model inside a tool's schema, a list or what the developer wrote; every *)
(* other atom is where it was.  It goes below the whole of the upstream's  *)
(* base URL, on one credential, the server's, and no flag says that a key  *)
(* is a subscription's.                                                    *)
(***************************************************************************)
SubstitutesOnlyTheModel(adapter, doc, req) ==
    Honest(Plan(adapter, [req EXCEPT !.body = Rendered(doc)]), adapter, doc, req)
=============================================================================
