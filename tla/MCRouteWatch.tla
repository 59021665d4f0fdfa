---------------------------- MODULE MCRouteWatch ----------------------------
(* Two files that are taken and one that is not.                            *)
EXTENDS RouteWatch

Up(id, adapter, url) ==
    [id |-> id, object |-> TRUE, adapter |-> adapter, url |-> url, reference |-> TRUE]
To(id, upstream) ==
    [id |-> id, match |-> "good", upstream |-> upstream, expose |-> [kind |-> "none"]]

Plan == [upstreams |-> <<>>, routes |-> <<To("keep", Null)>>]
Routed == [upstreams |-> <<Up("fw", "fireworks", "https")>>, routes |-> <<To("oss", "fw")>>]
Mistyped == [upstreams |-> <<Up("fw", "fireworks", "https")>>, routes |-> <<To("oss", "wf")>>]

MCFiles == {Plan, Routed, Mistyped}
=============================================================================
