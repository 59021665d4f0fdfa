----------------------------- MODULE MCDispatch -----------------------------
(* Four models and the tables that tell the rules of the choice apart.      *)
EXTENDS Dispatch

MCModels == {"claude-opus", "claude-sonnet", "claude-oss", "gpt-oss"}
MCAnthropic == MCModels \ {"gpt-oss"}

Route(matched, exact, len, expose, to) ==
    [matched |-> matched, exact |-> exact, len |-> len, expose |-> expose,
     upstream |-> to]
Up(id, adapter) == [id |-> id, adapter |-> adapter]

Empty == [routes |-> <<>>, upstreams |-> <<>>]
DefaultOnly == [routes |-> <<>>, upstreams |-> <<Up("an", "anthropic")>>]

\* a broad rule above the exception it does not apply to
BroadFirst ==
    [routes |-> <<Route(MCAnthropic, FALSE, 8, NoModel, "fw"),
                  Route({"claude-opus"}, TRUE, 11, NoModel, Nobody)>>,
     upstreams |-> <<Up("fw", "fireworks"), Up("an", "anthropic")>>]

\* an alias on a short wildcard, and a longer wildcard kept on the plan
Alias ==
    [routes |-> <<Route({"gpt-oss"}, FALSE, 4, "claude-oss", "fw"),
                  Route(MCAnthropic, FALSE, 8, NoModel, Nobody)>>,
     upstreams |-> <<Up("fw", "fireworks"), Up("an", "anthropic")>>]

\* an upstream without its credential, and a default without one
Unset ==
    [routes |-> <<Route({"claude-opus", "claude-oss"}, FALSE, 9, NoModel, Nobody),
                  Route({"claude-opus"}, FALSE, 12, NoModel, "fw2"),
                  Route({"gpt-oss"}, TRUE, 7, NoModel, "fw2")>>,
     upstreams |-> <<Up("fw2", "fireworks"), Up("an2", "anthropic")>>]

MCTables == {Empty, DefaultOnly, BroadFirst, Alias, Unset}
MCSecrets == {"fw", "an"}
=============================================================================
