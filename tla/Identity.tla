------------------------------ MODULE Identity ------------------------------
(***************************************************************************)
(* Identity tokens: how a developer gets one with `fest login`             *)
(* (cli/login.ts), where it is kept (cli/config.ts), and what the server   *)
(* keeps of it (store/tokens.ts).                                          *)
(*                                                                         *)
(* The command listens on a loopback port and opens a browser tab.  The    *)
(* tab asks the server for approval (api/cli-auth.ts) or goes through a    *)
(* provider (api/oauth.ts), and is sent back to that port with a token; a  *)
(* timer of five minutes races it.  The tab outlives the command: a later  *)
(* login takes the first free port of the range, which is the same port    *)
(* again, so a tab of an earlier login may answer a later one.             *)
(*                                                                         *)
(* The server notes the use of a token in memory and writes it every       *)
(* Interval.  A write that throws is thrown out of a timer: it ends the    *)
(* process as a crash does.  The browser's session is a user or Nobody,    *)
(* and changes under the flow.  A token is identified with its number;     *)
(* 0 is none.  `first` and `used` are history: the first answer each login *)
(* got, and the latest use of each token by a process that still runs.     *)
(***************************************************************************)
EXTENDS Naturals

CONSTANTS
    Developers,
    Nobody,
    NoAnswer,
    Error,     \* any answer that is not a token: cancelled, a server's error, the time-out
    Interval,  \* flushIntervalMs
    MaxLogins, \* bound: logins, one after the other
    MaxTokens, \* bound: tokens minted
    MaxClock   \* bound: ticks

ASSUME IntervalPositive == Interval \in Nat \ {0}
ASSUME AnswersDistinct ==
    MaxLogins \in Nat /\ MaxTokens \in Nat /\ NoAnswer \notin Nat \cup {Error} /\ Error \notin Nat

VARIABLES
    browser, \* who is signed in to the dashboard
    cli,     \* the command: number of the login, where it is, and the result of the race
    tabs,    \* by login, where its browser tab is and what it carries
    config,  \* ~/.fest/config.json
    tokens,  \* identity_tokens: owner (Nobody: no row), revoked, last_used_at
    clock,
    pending, \* the tracker's map; 0 when the token is not in it
    due,     \* when the tracker's timer fires
    first,
    used

cliVars == <<browser, cli, tabs, config, first>>
trackVars == <<clock, pending, due, used>>
identityVars == <<cliVars, tokens, trackVars>>

Logins == 1..MaxLogins
Tokens == 1..MaxTokens
NoConfig == 0

IdentityInit ==
    /\ browser = Nobody
    /\ cli = [n |-> 0, at |-> "ended", result |-> NoAnswer]
    /\ tabs = [t \in Logins |-> [at |-> "closed"]]
    /\ config = NoConfig
    /\ tokens = [t \in Tokens |-> [user |-> Nobody, revoked |-> FALSE, at |-> 0]]
    /\ clock = 1 /\ due = 1 + Interval
    /\ pending = [t \in Tokens |-> 0]
    /\ first = [t \in Logins |-> NoAnswer]
    /\ used = [t \in Tokens |-> 0]

-----------------------------------------------------------------------------
(* the command *)

\* The server is a gateway, a port is free, the browser opens.
Start ==
    /\ cli.at = "ended" /\ cli.n < MaxLogins
    /\ cli' = [n |-> cli.n + 1, at |-> "waiting", result |-> NoAnswer]
    /\ tabs' = [tabs EXCEPT ![cli.n + 1] = [at |-> "asking"]]
    /\ UNCHANGED <<browser, config, first, tokens, trackVars>>

Remember(answer) ==
    first' = IF first[cli.n] = NoAnswer THEN [first EXCEPT ![cli.n] = answer] ELSE first

\* bug: the callback's result is kept in a variable the last answer wins.
SettleAgain(answer) ==
    /\ cli' = [cli EXCEPT !.at = "settled", !.result = answer]
    /\ Remember(answer)

\* Promise.race: what settles it first is the result.
Settle(answer) ==
    /\ cli' = IF cli.at = "waiting" THEN [cli EXCEPT !.at = "settled", !.result = answer] ELSE cli
    /\ Remember(answer)

TimeOut ==
    /\ cli.at = "waiting"
    /\ Settle(Error)
    /\ UNCHANGED <<browser, tabs, config, tokens, trackVars>>
\* writeCliConfig, which may fail.
Store ==
    /\ cli.at = "settled"
    /\ \/ cli.result # Error /\ config' = cli.result
       \/ UNCHANGED config
    /\ cli' = [cli EXCEPT !.at = "closing"]
    /\ UNCHANGED <<browser, tabs, first, tokens, trackVars>>

\* The listener is closed however the login ended.
CloseServer ==
    /\ cli.at = "closing"
    /\ cli' = [cli EXCEPT !.at = "ended", !.result = NoAnswer]
    /\ UNCHANGED <<browser, tabs, config, first, tokens, trackVars>>

\* `fest logout` forgets the file and leaves the token valid.
LogoutCli ==
    /\ config # NoConfig
    /\ config' = NoConfig
    /\ UNCHANGED <<browser, cli, tabs, first, tokens, trackVars>>

-----------------------------------------------------------------------------
(* the browser and the server *)

\* With a session, the page that asks; without one the dashboard's login
\* screen, which keeps the callback and comes back here.
Authorize(t) ==
    /\ tabs[t].at = "asking" /\ browser # Nobody
    /\ tabs' = [tabs EXCEPT ![t] = [at |-> "approval"]]
    /\ UNCHANGED <<browser, cli, config, first, tokens, trackVars>>

\* createToken, and the redirect that carries it.
Mint(t, u) ==
    \E id \in Tokens :
        /\ tokens[id].user = Nobody
        /\ \A older \in 1..(id - 1) : tokens[older].user # Nobody
        /\ tokens' = [tokens EXCEPT ![id].user = u]
        /\ tabs' = [tabs EXCEPT ![t] = [at |-> "back", answer |-> id]]

\* The session is resolved again; the cookie may be another by now.
Approve(t) ==
    /\ tabs[t].at = "approval" /\ browser # Nobody
    /\ Mint(t, browser)
    /\ UNCHANGED <<browser, cli, config, first, trackVars>>

ApproveUnauthenticated(t) ==
    /\ tabs[t].at = "approval" /\ browser = Nobody
    /\ tabs' = [tabs EXCEPT ![t] = [at |-> "closed"]]
    /\ UNCHANGED <<browser, cli, config, first, tokens, trackVars>>

\* The provider's callback for a CLI makes a token and no session.
ProviderMints(t, u) ==
    /\ tabs[t].at = "asking"
    /\ Mint(t, u)
    /\ UNCHANGED <<browser, cli, config, first, trackVars>>

Cancel(t) ==
    /\ tabs[t].at \in {"asking", "approval"}
    /\ tabs' = [tabs EXCEPT ![t] = [at |-> "back", answer |-> Error]]
    /\ UNCHANGED <<browser, cli, config, first, tokens, trackVars>>

Close(t) ==
    /\ tabs[t].at \in {"asking", "approval"}
    /\ tabs' = [tabs EXCEPT ![t] = [at |-> "closed"]]
    /\ UNCHANGED <<browser, cli, config, first, tokens, trackVars>>

\* The redirect reaches whoever listens on the port, or nobody.
CallbackArrives(t) ==
    /\ tabs[t].at = "back"
    /\ tabs' = [tabs EXCEPT ![t] = [at |-> "closed"]]
    /\ IF cli.at = "ended" THEN UNCHANGED <<cli, first>> ELSE Settle(tabs[t].answer)
    /\ UNCHANGED <<browser, config, tokens, trackVars>>

BrowserSigns(u) ==
    /\ browser # u
    /\ browser' = u
    /\ UNCHANGED <<cli, tabs, config, first, tokens, trackVars>>

-----------------------------------------------------------------------------
(* the token in use *)

\* revokeToken
RevokeToken(id) ==
    /\ tokens[id].user # Nobody /\ ~tokens[id].revoked
    /\ tokens' = [tokens EXCEPT ![id].revoked = TRUE]
    /\ UNCHANGED <<cliVars, trackVars>>

\* resolveToken
Resolves(id) == id # NoConfig /\ ~tokens[id].revoked

\* bug: a token already in the map is left as it is.
TouchOnce(id) == pending' = [pending EXCEPT ![id] = IF @ = 0 THEN clock ELSE @]

\* touch
Touch(id) == pending' = [pending EXCEPT ![id] = clock]

\* A relayed request of the command that holds the token.
UseToken ==
    /\ Resolves(config)
    /\ Touch(config)
    /\ used' = [used EXCEPT ![config] = clock]
    /\ UNCHANGED <<cliVars, tokens, clock, due>>

\* Timers are not exact; one that is late fires before anything later.
Tick ==
    /\ clock < MaxClock /\ clock < due
    /\ clock' = clock + 1
    /\ UNCHANGED <<cliVars, tokens, pending, due, used>>

\* flush: the map is emptied and then written, in one transaction.
Written == [t \in Tokens |-> IF pending[t] = 0 THEN tokens[t] ELSE [tokens[t] EXCEPT !.at = pending[t]]]

Flush ==
    /\ clock = due
    /\ due' = due + Interval
    /\ pending' = [t \in Tokens |-> 0]
    /\ tokens' = Written
    /\ UNCHANGED <<cliVars, clock, used>>

\* The process dies, of a write that throws or otherwise, and is started anew.
Crash ==
    /\ pending' = [t \in Tokens |-> 0]
    /\ used' = [t \in Tokens |-> tokens[t].at]
    /\ due' = clock + Interval
    /\ UNCHANGED <<cliVars, tokens, clock>>

\* stop() writes what is pending; then the process is started anew.
StopClean ==
    /\ pending' = [t \in Tokens |-> 0]
    /\ tokens' = Written
    /\ due' = clock + Interval
    /\ UNCHANGED <<cliVars, clock, used>>

-----------------------------------------------------------------------------
IdentityNext ==
    \/ Start \/ TimeOut \/ Store \/ CloseServer \/ LogoutCli
    \/ \E t \in Logins :
          Authorize(t) \/ Approve(t) \/ ApproveUnauthenticated(t) \/ Cancel(t) \/ Close(t)
              \/ CallbackArrives(t) \/ \E u \in Developers : ProviderMints(t, u)
    \/ \E u \in Developers \cup {Nobody} : BrowserSigns(u)
    \/ \E id \in Tokens : RevokeToken(id)
    \/ UseToken \/ Tick \/ Flush \/ Crash \/ StopClean

\* The timer, the write and the close belong to the event loop of the command.
IdentitySpec ==
    /\ IdentityInit /\ [][IdentityNext]_identityVars
    /\ WF_identityVars(TimeOut) /\ WF_identityVars(Store) /\ WF_identityVars(CloseServer)

-----------------------------------------------------------------------------
\* The command, its tabs and its file; the table and the tracker.
IdentityTypeOK ==
    /\ browser \in Developers \cup {Nobody}
    /\ cli \in [n : 0..MaxLogins, at : {"waiting", "settled", "closing", "ended"},
                result : Tokens \cup {Error, NoAnswer}]
    /\ tabs \in [Logins -> [at : {"closed", "asking", "approval"}]
                              \cup [at : {"back"}, answer : Tokens \cup {Error}]]
    /\ config \in Tokens \cup {NoConfig}
    /\ tokens \in [Tokens -> [user : Developers \cup {Nobody}, revoked : BOOLEAN, at : 0..clock]]
    /\ pending \in [Tokens -> 0..clock] /\ used \in [Tokens -> 0..clock]
    /\ clock <= due /\ due <= clock + Interval
    /\ first \in [Logins -> Tokens \cup {Error, NoAnswer}]

\* The race of login.ts:143 has one winner: whatever arrives while the token is
\* being written or the listener closed, from this login's tab or from one an
\* earlier login left open, the file changes only to the first answer the
\* running login got, and a login that timed out or was refused leaves the
\* file as it was.  And a login comes to an end although nobody answers in the
\* browser.
FileFollowsFirst ==
    [][config' # config /\ config' # NoConfig =>
           first[cli.n] # Error /\ config' = first[cli.n]]_identityVars
FirstAnswerDecides ==
    /\ FileFollowsFirst
    /\ cli.at = "waiting" ~> cli.at = "ended"

\* last_used_at lags the truth by less than the flush interval: whatever was
\* used before the last time the timer fired is in the table, revoked or not,
\* and nothing the table says is later than the latest use.
LastUsedFresh ==
    /\ IdentityTypeOK
    /\ \A t \in Tokens :
        /\ tokens[t].at <= used[t]
        /\ used[t] + Interval < due => tokens[t].at = used[t]
=============================================================================
