------------------------------ MODULE MCStore -------------------------------
EXTENDS Store

CONSTANTS ada, bob

\* A request of each way to be paid for, with and without a person, a model, a
\* price and a tag, ending well and badly.
SomeKinds == {
    [user |-> ada, model |-> "opus", origin |-> "inbound_subscription", basis |-> "subscription",
     cost |-> NULL, notional |-> 3, tokens |-> 2, failed |-> FALSE, error |-> NULL,
     tag |-> "fest", client |-> "claude", duration |-> 5, ago |-> 1, quota |-> 1],
    [user |-> NULL, model |-> "opus", origin |-> "server", basis |-> "list",
     cost |-> 2, notional |-> 2, tokens |-> 1, failed |-> TRUE, error |-> "overloaded",
     tag |-> NULL, client |-> NULL, duration |-> 1, ago |-> 0, quota |-> NULL],
    [user |-> ada, model |-> NULL, origin |-> "server", basis |-> "none",
     cost |-> NULL, notional |-> NULL, tokens |-> 0, failed |-> TRUE, error |-> "denied",
     tag |-> NULL, client |-> "codex", duration |-> 9, ago |-> 0, quota |-> NULL]}

TwoKinds == {k \in SomeKinds : k.model = "opus"}

\* As the query string gives them: without a beginning, with one that is too
\* early; the last is short enough to read rows.
SomeRanges == {ParseRange(r[1], r[2], r[3], 7, 5, 6) :
                  r \in {<<0, 5, NULL>>, <<NULL, 6, NULL>>, <<-9, NULL, "fest">>, <<2, 5, NULL>>}}
AdminAndMember == {[user |-> NULL], [user |-> ada]}
TwoEdges == <<2, 6>>
=============================================================================
