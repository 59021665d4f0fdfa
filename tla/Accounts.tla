------------------------------ MODULE Accounts ------------------------------
(***************************************************************************)
(* Dashboard accounts: server/auth/accounts.ts, session.ts and password.ts,*)
(* the handlers of api/auth.ts and api/oauth.ts, and `fest admin` of       *)
(* bin/fest.ts.  The rows are shared by the workers of the server and by   *)
(* the operator's commands, each of which is a process of its own.         *)
(*                                                                         *)
(* A handler is cut where it awaits: a sign-in reads the account, awaits   *)
(* scrypt, and then creates its session; `admin passwd` reads the role,    *)
(* awaits the password and then its hash.  Two statements of one handler   *)
(* that are transactions of their own are two steps, because other         *)
(* processes may come between them.  Which password was typed does not     *)
(* matter, only whether it is the one behind the hash that was read.  A    *)
(* session that is revoked, expired, idle or swept is none: every reader   *)
(* treats them alike.  The audit log is written by each handler and read   *)
(* by none, and is left out.                                               *)
(*                                                                         *)
(* `epoch` is history: it grows when the password changes or the account   *)
(* is disabled, so that a session's epoch says under which state of the    *)
(* account its sign-in began.                                              *)
(***************************************************************************)
EXTENDS Naturals, FiniteSets

CONSTANTS
    Users,       \* normalised emails
    Workers,     \* the server's processes (FEST_WORKERS)
    Slots,       \* requests to the server in flight at once
    Commands,    \* operator commands that may run at once
    MaxAttempts, \* MAX_ATTEMPTS
    MaxGuessed,  \* bound: accounts with an entry in some throttle at once
    MaxChanges,  \* bound: changes of password and disablings, of all accounts
    MaxSessions, \* bound: sessions that differ
    Flags,       \* the roles the operator names with --role
    Idle         \* nothing in flight

Roles == {"member", "admin", "owner"}
NoRole == "none"

\* What is suspended in an await, and where a command is.
RequestType ==
    [is : {"wrong"}, worker : Workers, user : Users]
        \cup [is : {"login"}, worker : Workers, user : Users, epoch : Nat]
        \cup [is : {"oauth"}, user : Users, epoch : Nat, claims : BOOLEAN]
CommandType ==
    [at : {"password", "hash"}, user : Users, role : Roles, may : SUBSET Roles]
        \cup [at : {"revoke"}, user : Users]

ASSUME AccountsAssumption ==
    /\ MaxAttempts \in Nat \ {0}
    /\ IsFiniteSet(Slots)
    /\ Flags \subseteq Roles
    /\ Idle \notin RequestType \cup CommandType

VARIABLES
    users,    \* the users table: role (NoRole: no row), pass, disabled, epoch
    sessions, \* those that can still authenticate, with the epoch of their sign-in
    attempts, \* each worker's throttle, per email; 0 when there is no entry in its window
    requests, \* sign-ins and OAuth callbacks suspended in an await
    commands, \* `fest admin` processes
    unrevoked \* history: accounts whose last change ended in an error before the revocation

vars == <<users, sessions, attempts, requests, commands, unrevoked>>

HasRow(u) == users[u].role # NoRole
HasAnyOwner == \E u \in Users : users[u].role = "owner" /\ ~users[u].disabled

\* A first boot: no account, nobody signed in.
Init ==
    /\ users = [u \in Users |-> [role |-> NoRole, pass |-> FALSE, disabled |-> FALSE, epoch |-> 0]]
    /\ sessions = {}
    /\ attempts = [w \in Workers |-> [u \in Users |-> 0]]
    /\ requests = [s \in Slots |-> Idle]
    /\ commands = [c \in Commands |-> Idle]
    /\ unrevoked = {}

\* The bound on changes is not reached.
MayChange == Cardinality({c \in Users \X (1..MaxChanges) : c[2] <= users[c[1]].epoch}) < MaxChanges

EnsureUser(u, role) ==
    IF HasRow(u) THEN users ELSE [users EXCEPT ![u].role = role]

Of(u) == {s \in sessions : s.user = u}

-----------------------------------------------------------------------------
(* signing in with a password *)

\* A key is an email and an address; one address stands for all.  The map is
\* the worker's own: it knows nothing of what another has counted.

\* bug: > for >=.
ThrottledLate(w, u) == attempts[w][u] > MaxAttempts
Throttled(w, u) == attempts[w][u] >= MaxAttempts

\* The row and the time are taken before the await.
Submit(s, w, u) ==
    /\ requests[s] = Idle
    /\ ~Throttled(w, u)
    /\ \E right \in BOOLEAN :
          requests' = [requests EXCEPT ![s] =
              IF right /\ HasRow(u) /\ users[u].pass /\ ~users[u].disabled
              THEN [is |-> "login", worker |-> w, user |-> u, epoch |-> users[u].epoch]
              ELSE [is |-> "wrong", worker |-> w, user |-> u]]
    /\ UNCHANGED <<users, sessions, attempts, commands, unrevoked>>

Forgotten(w, u) == [attempts EXCEPT ![w] = [attempts[w] EXCEPT ![u] = 0]]

\* The entry's fifteen minutes pass: whoever meets it next deletes it.  A map
\* cleared past ten thousand entries, and a worker that starts anew, forget
\* every entry the same way.
WindowPasses(w, u) ==
    /\ attempts[w][u] > 0
    /\ attempts' = Forgotten(w, u)
    /\ UNCHANGED <<users, sessions, requests, commands, unrevoked>>

\* The bound on the accounts guessed at is not exceeded by one more.
MayFail(u) ==
    Cardinality({u} \cup {v \in Users : \E w \in Workers : attempts[w][v] > 0}) <= MaxGuessed

\* noteFailure
LoginFails(s) ==
    /\ requests[s] # Idle /\ requests[s].is = "wrong"
    /\ MayFail(requests[s].user)
    /\ LET w == requests[s].worker
           u == requests[s].user
       IN  attempts' = [attempts EXCEPT ![w] = [attempts[w] EXCEPT ![u] = attempts[w][u] + 1]]
    /\ requests' = [requests EXCEPT ![s] = Idle]
    /\ UNCHANGED <<users, sessions, commands, unrevoked>>

\* createSession
SignedIn(request) ==
    sessions \cup {[user |-> request.user, epoch |-> request.epoch,
                    overtaken |-> users[request.user].epoch # request.epoch]}

LoginSucceeds(s) ==
    /\ Cardinality(sessions) < MaxSessions
    /\ requests[s] # Idle /\ requests[s].is = "login"
    /\ attempts' = Forgotten(requests[s].worker, requests[s].user)
    /\ sessions' = SignedIn(requests[s])
    /\ requests' = [requests EXCEPT ![s] = Idle]
    /\ UNCHANGED <<users, commands, unrevoked>>

Logout(s) ==
    /\ s \in sessions
    /\ sessions' = sessions \ {s}
    /\ UNCHANGED <<users, attempts, requests, commands, unrevoked>>

-----------------------------------------------------------------------------
(* signing in through a provider: the dashboard's callback *)

\* The email is verified and its domain allowed.  hasAnyOwner is read after
\* the row is there, and the claim it decides is a statement of its own.
OauthCallback(s, u) ==
    /\ requests[s] = Idle
    /\ users' = EnsureUser(u, "member")
    /\ requests' = [requests EXCEPT ![s] =
           [is |-> "oauth", user |-> u, epoch |-> users[u].epoch, claims |-> ~HasAnyOwner]]
    /\ UNCHANGED <<sessions, attempts, commands, unrevoked>>

OauthSession(s) ==
    /\ Cardinality(sessions) < MaxSessions
    /\ requests[s] # Idle /\ requests[s].is = "oauth"
    /\ users' = IF requests[s].claims THEN [users EXCEPT ![requests[s].user].role = "owner"]
                ELSE users
    /\ sessions' = SignedIn(requests[s])
    /\ requests' = [requests EXCEPT ![s] = Idle]
    /\ UNCHANGED <<attempts, commands, unrevoked>>

-----------------------------------------------------------------------------
(* `fest admin`, and the rows other commands make *)

\* `fest token create`, and the CLI's login through a provider.
EnsureMetered(u) ==
    /\ ~HasRow(u)
    /\ users' = EnsureUser(u, "member")
    /\ UNCHANGED <<sessions, attempts, requests, commands, unrevoked>>

\* bug: the role decided before the fix the comment in cmdAdmin tells of,
\* for every account.
RoleByDefault(u, flag) ==
    IF flag # NoRole THEN flag ELSE IF HasAnyOwner THEN "admin" ELSE "owner"

\* roleFlag ?? existingConsoleRole ?? (hasAnyOwner ? "admin" : "owner")
RoleFor(u, flag) ==
    IF flag # NoRole THEN flag
    ELSE IF HasRow(u) /\ users[u].pass THEN users[u].role
    ELSE IF HasAnyOwner THEN "admin" ELSE "owner"

\* What a command is for: the roles it may leave behind.  The one it was told;
\* else the one the account has, if a password of its own made it the
\* console's; else either default.
Purpose(u, flag) ==
    IF flag # NoRole THEN {flag}
    ELSE IF users[u].pass THEN {users[u].role} ELSE {"admin", "owner"}

\* `admin create` and `admin passwd` are one command but for what is logged.
\* `may` is history: its purpose when it began.
AdminStart(c, u) ==
    /\ commands[c] = Idle
    /\ \E flag \in Flags \cup {NoRole} :
          commands' = [commands EXCEPT ![c] =
              [at |-> "password", user |-> u, role |-> RoleFor(u, flag), may |-> Purpose(u, flag)]]
    /\ UNCHANGED <<users, sessions, attempts, requests, unrevoked>>

\* The password was empty, too short or too long: nothing is written.
AdminRefused(c) ==
    /\ commands[c] # Idle /\ commands[c].at = "password"
    /\ commands' = [commands EXCEPT ![c] = Idle]
    /\ UNCHANGED <<users, sessions, attempts, requests, unrevoked>>

AdminEnsures(c) ==
    /\ commands[c] # Idle /\ commands[c].at = "password"
    /\ users' = EnsureUser(commands[c].user, commands[c].role)
    /\ commands' = [commands EXCEPT ![c].at = "hash"]
    /\ UNCHANGED <<sessions, attempts, requests, unrevoked>>

AdminWrites(c) ==
    /\ commands[c] # Idle /\ commands[c].at = "hash"
    /\ MayChange
    /\ LET row == users[commands[c].user]
       IN  users' = [users EXCEPT ![commands[c].user] =
               [row EXCEPT !.role = commands[c].role, !.pass = TRUE, !.epoch = @ + 1]]
    /\ commands' = [commands EXCEPT ![c] = [at |-> "revoke", user |-> @.user]]
    /\ UNCHANGED <<sessions, attempts, requests, unrevoked>>

Disable(c, u) ==
    /\ commands[c] = Idle
    /\ HasRow(u) /\ MayChange
    /\ users' = [users EXCEPT ![u] = [users[u] EXCEPT !.disabled = TRUE, !.epoch = @ + 1]]
    /\ commands' = [commands EXCEPT ![c] =
           [at |-> "revoke", user |-> u]]
    /\ UNCHANGED <<sessions, attempts, requests, unrevoked>>

Enable(u) ==
    /\ HasRow(u) /\ users[u].disabled
    /\ users' = [users EXCEPT ![u].disabled = FALSE]
    /\ UNCHANGED <<sessions, attempts, requests, commands, unrevoked>>

\* bug: the command ends without its last statement.
RevokeForgotten(c) ==
    /\ commands[c] # Idle /\ commands[c].at = "revoke"
    /\ commands' = [commands EXCEPT ![c] = Idle]
    /\ UNCHANGED <<users, sessions, attempts, requests, unrevoked>>

\* revokeUserSessions
Revoke(c) ==
    /\ commands[c] # Idle /\ commands[c].at = "revoke"
    /\ sessions' = sessions \ Of(commands[c].user)
    /\ unrevoked' = unrevoked \ {commands[c].user}
    /\ commands' = [commands EXCEPT ![c] = Idle]
    /\ UNCHANGED <<users, attempts, requests>>

\* The write lock was not to be had for busy_timeout, or the process ends:
\* the command fails with its first statement committed.
RevokeFails(c) ==
    /\ commands[c] # Idle /\ commands[c].at = "revoke"
    /\ unrevoked' = unrevoked \cup {commands[c].user}
    /\ commands' = [commands EXCEPT ![c] = Idle]
    /\ UNCHANGED <<users, sessions, attempts, requests>>

-----------------------------------------------------------------------------
Serve ==
    \/ \E s \in Slots, u \in Users : OauthCallback(s, u) \/ \E w \in Workers : Submit(s, w, u)
    \/ \E s \in Slots : LoginFails(s) \/ LoginSucceeds(s) \/ OauthSession(s)
    \/ \E s \in sessions : Logout(s)
    \/ \E w \in Workers, u \in Users : WindowPasses(w, u)

Administer ==
    \/ \E c \in Commands, u \in Users : AdminStart(c, u) \/ Disable(c, u)
    \/ \E c \in Commands :
          AdminRefused(c) \/ AdminEnsures(c) \/ AdminWrites(c) \/ Revoke(c) \/ RevokeFails(c)
    \/ \E u \in Users : EnsureMetered(u) \/ Enable(u)

Next == Serve \/ Administer
Spec == Init /\ [][Next]_vars

-----------------------------------------------------------------------------
\* The tables and what is in flight over them; only a row can have a password.
TypeOK ==
    /\ users \in [Users -> [role : Roles \cup {NoRole}, pass : BOOLEAN,
                            disabled : BOOLEAN, epoch : Nat]]
    /\ \A u \in Users : ~HasRow(u) => ~users[u].pass /\ ~users[u].disabled
    /\ sessions \subseteq [user : Users, epoch : Nat, overtaken : BOOLEAN]
    /\ attempts \in [Workers -> [Users -> Nat]]
    /\ requests \in [Slots -> RequestType \cup {Idle}]
    /\ commands \in [Commands -> CommandType \cup {Idle}]
    /\ unrevoked \subseteq Users

\* What a change of the account owes a session: a command about to revoke it.
Owed(u) == \E c \in Commands : commands[c] # Idle /\ commands[c].at = "revoke" /\ commands[c].user = u

\* "Every password change revokes that user's existing sessions", and so does
\* disabling the account (accounts.ts:53, fest.ts:581): a session under which
\* somebody may still act was begun under the password and the state the
\* account has now.  The exceptions are named: the command has yet to revoke,
\* it told the operator that it failed, or the sign-in was already being
\* checked when the change was made.
SessionsEndWithTheirPassword ==
    \A s \in sessions :
        \/ s.epoch = users[s.user].epoch
        \/ s.overtaken
        \/ Owed(s.user)
        \/ s.user \in unrevoked

\* A worker checks its throttle before the await and counts after it, so the
\* sign-ins in flight may all fail past the limit, and no more than they.
\* "Each worker counts separately" (api/auth.ts:49-50): the bound is a
\* worker's, and a cluster's is that many times as large.
GuessesBounded ==
    /\ TypeOK
    /\ \A w \in Workers, u \in Users : attempts[w][u] < MaxAttempts + Cardinality(Slots)

\* The step in which a command writes the role and the password.
Writing(c) ==
    /\ commands[c] # Idle /\ commands[c].at = "hash"
    /\ commands'[c] # Idle /\ commands'[c].at = "revoke"

\* Signed in through a provider while nobody owned the deployment.
Claims(s, u) ==
    /\ requests[s] # Idle /\ requests[s].is = "oauth" /\ requests[s].user = u
    /\ requests[s].claims

\* "An existing user keeps their role unless --role says otherwise" (cmdAdmin's
\* comment), whatever is interleaved: an account's role changes only by a
\* command that was told one, by a claim, or by its first password.  A command
\* that was told none and changes the role of an account with a password puts
\* back the role it had when the command began, which somebody has changed
\* meanwhile.  The first password is not always a first grant: an owner who
\* signed in through a provider has none, and it takes the role away.
RolesChangeOnPurpose ==
    [][\A u \in Users : HasRow(u) /\ users'[u].role # users[u].role =>
          \/ users'[u].role = "owner" /\ \E s \in Slots : Claims(s, u)
          \/ \E c \in Commands : /\ Writing(c) /\ commands[c].user = u
                                 /\ users'[u].role \in commands[c].may]_vars
=============================================================================
