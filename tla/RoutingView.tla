----------------------------- MODULE RoutingView -----------------------------
(***************************************************************************)
(* What is said of a routing table: the model menu (server/api/models.ts), *)
(* the explanation of its rules (server/api/routing-view.ts, and           *)
(* evaluationOrder of server/routes/resolve.ts) and the screen that shows  *)
(* it (web/src/pages/Routing.tsx).                                         *)
(***************************************************************************)
EXTENDS RouteResolve, FiniteSets

CONSTANT BaseModels   \* the models Anthropic offers now

-----------------------------------------------------------------------------
(* the menu *)

Candidates(table) ==
    BaseModels
    \cup UNION {table.routes[i].matched : i \in {j \in Routes(table) : table.routes[j].exact}}
    \cup ({table.routes[i].expose : i \in Routes(table)} \ {NoModel})

\* bug: asked of the resolver for callers who have a credential
BuildModelMenuAsRouted(table) ==
    {m \in Candidates(table) \cap Anthropic : ResolveRoute(table, m).pipeline = "substitute"}

\* Every id the client would show and a request without a credential is served.
BuildModelMenu(table) ==
    {m \in Candidates(table) \cap Anthropic :
        ResolveWithoutCallerCredential(table, m).pipeline = "substitute"}

\* An entry names where its model comes from.
DisplayedAs(table, m) == ResolveWithoutCallerCredential(table, m).upstream

\* With nothing to offer the answer is 404, and the client keeps its own list;
\* a client that holds this version's menu is told so.
HandleModels(table, version, ifNoneMatch) ==
    CASE BuildModelMenu(table) = {} -> [status |-> 404, ids |-> {}]
      [] BuildModelMenu(table) # {} /\ ifNoneMatch = version -> [status |-> 304, ids |-> {}]
      [] OTHER -> [status |-> 200, ids |-> BuildModelMenu(table)]

-----------------------------------------------------------------------------
(* the explanation *)

\* The order of the rules when no model is asked for: an alias does not count.
Earlier(table, i, j) ==
    LET r == table.routes[i]
        s == table.routes[j]
        Tier(route) == IF route.exact THEN 0 ELSE 1
    IN  \/ Tier(r) < Tier(s)
        \/ Tier(r) = Tier(s) /\ r.len > s.len
        \/ Tier(r) = Tier(s) /\ r.len = s.len /\ i < j

Place(table, i) == Cardinality({j \in Routes(table) : Earlier(table, j, i)}) + 1
EvaluationOrder(table) ==
    [n \in Routes(table) |-> CHOOSE i \in Routes(table) : Place(table, i) = n]

Shadows(table, i) ==
    {m \in BaseModels : i \in Claiming(table, m) /\ Best(table, m) = i}
Outranked(table, i) ==
    {<<m, Best(table, m)>> : m \in {b \in BaseModels : /\ i \in Claiming(table, b)
                                                       /\ Best(table, b) # i}}
MenuIds(table, i) ==
    LET r == table.routes[i]
    IN  ((IF r.exact THEN r.matched ELSE {}) \cup {r.expose})
        \cap (BuildModelMenu(table) \ BaseModels)

ExplainRoutes(table) ==
    LET order == EvaluationOrder(table)
    IN  [n \in DOMAIN order |->
            [rule |-> order[n], upstream |-> table.routes[order[n]].upstream,
             shadows |-> Shadows(table, order[n]), outranked |-> Outranked(table, order[n]),
             menuIds |-> MenuIds(table, order[n])]]

-----------------------------------------------------------------------------
(* the screen: three tables, each in the order of the explanation *)

SubstitutesFor(row) == row.shadows # {} \/ row.outranked # {}
PassThroughRows(rows) == {n \in DOMAIN rows : rows[n].upstream = Nobody}
Substitutions(rows) ==
    {n \in DOMAIN rows : rows[n].upstream # Nobody /\ SubstitutesFor(rows[n])}
Additions(rows) ==
    {n \in DOMAIN rows : rows[n].upstream # Nobody /\ ~SubstitutesFor(rows[n])}

-----------------------------------------------------------------------------
(***************************************************************************)
(* The menu is a promise, and so is the screen (models.ts:58-69,           *)
(* routing-view.ts:14-19, Routing.tsx:111-121): with the plan's own        *)
(* credential a base model comes from the one row that shows it plainly,   *)
(* the first one of its order that covers it, and not from what is shown   *)
(* to pass it through or to add ids; without one, the menu offers what is  *)
(* served and says from where, and misses no base model; and an id only    *)
(* one rule names comes from the rule that is said to add it.              *)
(***************************************************************************)
Plain(rows, shown, m) == {n \in shown : m \in rows[n].shadows}

RoutingScreenTruthful(table) ==
    LET rows == ExplainRoutes(table)
        subs(m) == Plain(rows, Substitutions(rows), m)
        served == {m \in BaseModels \cap Anthropic :
                      ResolveWithoutCallerCredential(table, m).pipeline = "substitute"}
    IN  /\ \A m \in BaseModels :
              /\ ResolveRoute(table, m).upstream =
                    IF subs(m) = {} THEN Nobody ELSE rows[CHOOSE n \in subs(m) : TRUE].upstream
              /\ Cardinality(Plain(rows, DOMAIN rows, m)) <= 1
              /\ Plain(rows, PassThroughRows(rows), m) # {} => ResolveRoute(table, m).upstream = Nobody
              /\ \A n \in Additions(rows) : rows[n].rule \notin Claiming(table, m)
              /\ (\A i \in Routes(table) : table.routes[i].expose # m) =>
                    \A n \in Plain(rows, DOMAIN rows, m) : \A k \in 1..(n - 1) :
                        rows[k].rule \notin Claiming(table, m)
        /\ served \subseteq BuildModelMenu(table)
        /\ \A m \in HandleModels(table, "v", NoModel).ids :
              ResolveWithoutCallerCredential(table, m) = Substitute(DisplayedAs(table, m))
        /\ \A n \in DOMAIN rows : \A m \in rows[n].menuIds :
              (\A i \in Routes(table) \ {rows[n].rule} : ~ExactFor(table.routes[i], m)
                  \/ i \notin Claiming(table, m)) =>
              ResolveWithoutCallerCredential(table, m).upstream = rows[n].upstream
=============================================================================
