----------------------------- MODULE PeopleProofs -----------------------------
(***************************************************************************)
(* Proofs about the people of a deployment: about Accounts, and about      *)
(* Identity.                                                               *)
(***************************************************************************)
EXTENDS Accounts, Identity, FiniteSetTheorems, TLAPS

-----------------------------------------------------------------------------
(***************************************************************************)
(* For any accounts, requests in flight and operator commands: a session   *)
(* does not outlive the password and the state of the account it was begun *)
(* under, but for the exceptions the property names; guesses stay within   *)
(* a worker's throttle and what was being hashed already; and a role       *)
(* changes only on purpose.  The bound on guesses is not inductive: a failure is   *)
(* counted after the await, so what is bounded in every step is the count  *)
(* together with the sign-ins that may still add to it.                    *)
(***************************************************************************)

UserRecord == [role : Roles \cup {NoRole}, pass : BOOLEAN, disabled : BOOLEAN, epoch : Nat]

\* Signing in at a worker with a password, until the hash is done.
Hashing(w, u) ==
    {s \in Slots : /\ requests[s] # Idle /\ requests[s].is # "oauth"
                   /\ requests[s].worker = w /\ requests[s].user = u}

\* Every sign-in in flight may yet count one failure.
Within(w, u) ==
    attempts[w][u] + Cardinality(Hashing(w, u)) < MaxAttempts + Cardinality(Slots)
Counted == \A w \in Workers, u \in Users : Within(w, u)

\* A command writes a role it is for.
RoleMeant ==
    \A c \in Commands :
        commands[c] # Idle /\ commands[c].at # "revoke" => commands[c].role \in commands[c].may

-----------------------------------------------------------------------------
(* types *)

LEMMA InFlightTypes ==
    ASSUME TypeOK
    PROVE  /\ users \in [Users -> UserRecord]
           /\ \A s \in Slots : requests[s] # Idle =>
                 /\ requests[s].user \in Users
                 /\ requests[s].is \in {"wrong", "login", "oauth"}
                 /\ requests[s].is # "oauth" => requests[s].worker \in Workers
                 /\ requests[s].is # "wrong" => requests[s].epoch \in Nat
           /\ \A c \in Commands : commands[c] # Idle =>
                 /\ commands[c].user \in Users
                 /\ commands[c].at \in {"password", "hash", "revoke"}
                 /\ commands[c].at # "revoke" =>
                       commands[c] \in [at : {"password", "hash"}, user : Users, role : Roles,
                              may : SUBSET Roles]
<1>1. users \in [Users -> UserRecord]
    BY DEF TypeOK, UserRecord
<1>2. ASSUME NEW s \in Slots, requests[s] # Idle
      PROVE  /\ requests[s].user \in Users
             /\ requests[s].is \in {"wrong", "login", "oauth"}
             /\ requests[s].is # "oauth" => requests[s].worker \in Workers
             /\ requests[s].is # "wrong" => requests[s].epoch \in Nat
    <2>1. requests[s] \in RequestType
        BY <1>2 DEF TypeOK
    <2> QED
        BY <2>1 DEF RequestType
<1>3. ASSUME NEW c \in Commands, commands[c] # Idle
      PROVE  /\ commands[c].user \in Users
             /\ commands[c].at \in {"password", "hash", "revoke"}
             /\ commands[c].at # "revoke" =>
                   commands[c] \in [at : {"password", "hash"}, user : Users, role : Roles,
                              may : SUBSET Roles]
    <2>1. commands[c] \in CommandType
        BY <1>3 DEF TypeOK
    <2> QED
        BY <2>1 DEF CommandType
<1> QED
    BY <1>1, <1>2, <1>3

\* The table stays a table: each record is one, and only a row has a password.
UsersOK ==
    /\ users \in [Users -> UserRecord]
    /\ \A u \in Users : ~HasRow(u) => ~users[u].pass /\ ~users[u].disabled

\* A row is made where there was none, and no other row changes.
LEMMA Ensuring ==
    ASSUME TypeOK, NEW u \in Users, NEW role \in Roles, users' = EnsureUser(u, role)
    PROVE  /\ UsersOK'
           /\ \A v \in Users : users'[v].epoch = users[v].epoch
           /\ \A v \in Users : HasRow(v) => users'[v] = users[v]
<1>1. users \in [Users -> UserRecord] /\ UsersOK
    BY InFlightTypes DEF TypeOK, UsersOK
<1>2. CASE HasRow(u)
    BY <1>1, <1>2 DEF EnsureUser, UsersOK, HasRow
<1>3. CASE ~HasRow(u)
    <2> DEFINE row == [users[u] EXCEPT !.role = role]
    <2>1. users' = [users EXCEPT ![u] = row]
        BY <1>1, <1>3 DEF EnsureUser
    <2>2. row \in UserRecord /\ row.epoch = users[u].epoch /\ row.role # NoRole
        BY <1>1 DEF UserRecord, Roles, NoRole
    <2> HIDE DEF row
    <2> QED
        BY <1>1, <1>3, <2>1, <2>2 DEF UsersOK, HasRow
<1> QED
    BY <1>2, <1>3

\* A record in the place of another.
LEMMA Replacing ==
    ASSUME TypeOK, NEW u \in Users, NEW row \in UserRecord, row.role # NoRole,
           users' = [users EXCEPT ![u] = row]
    PROVE  UsersOK'
BY InFlightTypes DEF TypeOK, UsersOK, HasRow

LEMMA TypeInit == Init => TypeOK
<1> SUFFICES ASSUME Init PROVE TypeOK
    OBVIOUS
<1>1. \A u \in Users : users[u] = [role |-> NoRole, pass |-> FALSE, disabled |-> FALSE, epoch |-> 0]
    BY DEF Init
<1>2. users \in [Users -> UserRecord]
    BY DEF Init, UserRecord
<1>3. sessions = {} /\ unrevoked = {} /\ attempts \in [Workers -> [Users -> Nat]]
    BY DEF Init
<1>4. /\ requests \in [Slots -> RequestType \cup {Idle}]
      /\ commands \in [Commands -> CommandType \cup {Idle}]
    BY DEF Init
<1> QED
    BY <1>1, <1>2, <1>3, <1>4 DEF TypeOK, UserRecord

\* A session of a request in flight.
LEMMA SigningIn ==
    ASSUME TypeOK, NEW s \in Slots, requests[s] # Idle, requests[s].is # "wrong"
    PROVE  SignedIn(requests[s]) \subseteq [user : Users, epoch : Nat, overtaken : BOOLEAN]
<1> DEFINE overtaken == users[requests[s].user].epoch # requests[s].epoch
<1>1. overtaken \in BOOLEAN
    OBVIOUS
<1>2. requests[s].user \in Users /\ requests[s].epoch \in Nat
    BY InFlightTypes
<1>3. SignedIn(requests[s]) =
          sessions \cup {[user |-> requests[s].user, epoch |-> requests[s].epoch, overtaken |-> overtaken]}
    BY DEF SignedIn
<1> HIDE DEF overtaken
<1>4. [user |-> requests[s].user, epoch |-> requests[s].epoch, overtaken |-> overtaken]
          \in [user : Users, epoch : Nat, overtaken : BOOLEAN]
    BY <1>1, <1>2
<1> QED
    BY <1>3, <1>4 DEF TypeOK

LEMMA TypeServe ==
    ASSUME TypeOK, Serve
    PROVE  TypeOK'
<1>1. UsersOK /\ TypeOK
    BY InFlightTypes DEF TypeOK, UsersOK
<1>2. UsersOK /\ users' = users => UsersOK'
    BY DEF UsersOK, HasRow
<1>3. ASSUME NEW s \in Slots, requests' = [requests EXCEPT ![s] = Idle]
      PROVE  requests' \in [Slots -> RequestType \cup {Idle}]
    BY <1>3 DEF TypeOK
<1>0. ASSUME NEW w \in Workers, NEW u \in Users, NEW n \in Nat,
             attempts' = [attempts EXCEPT ![w] = [attempts[w] EXCEPT ![u] = n]]
      PROVE  attempts' \in [Workers -> [Users -> Nat]]
    <2>1. attempts \in [Workers -> [Users -> Nat]]
        BY DEF TypeOK
    <2>2. [attempts[w] EXCEPT ![u] = n] \in [Users -> Nat]
        BY <2>1
    <2> QED
        BY <1>0, <2>1, <2>2
<1>4. ASSUME NEW s \in Slots, NEW w \in Workers, NEW u \in Users, Submit(s, w, u) PROVE TypeOK'
    <2>1. PICK right \in BOOLEAN :
              requests' = [requests EXCEPT ![s] =
                  IF right /\ HasRow(u) /\ users[u].pass /\ ~users[u].disabled
                  THEN [is |-> "login", worker |-> w, user |-> u, epoch |-> users[u].epoch]
                  ELSE [is |-> "wrong", worker |-> w, user |-> u]]
        BY <1>4 DEF Submit
    <2>2. [is |-> "login", worker |-> w, user |-> u, epoch |-> users[u].epoch] \in RequestType
          /\ [is |-> "wrong", worker |-> w, user |-> u] \in RequestType
        BY <1>1 DEF RequestType, UsersOK, UserRecord
    <2>3. requests' \in [Slots -> RequestType \cup {Idle}]
        BY <2>1, <2>2 DEF TypeOK
    <2> QED
        BY <1>4, <2>3 DEF Submit, TypeOK, HasRow
<1>5. ASSUME NEW s \in Slots, NEW u \in Users, OauthCallback(s, u) PROVE TypeOK'
    <2>1. [is |-> "oauth", user |-> u, epoch |-> users[u].epoch, claims |-> ~HasAnyOwner] \in RequestType
        BY <1>1 DEF RequestType, UsersOK, UserRecord
    <2>2. requests' \in [Slots -> RequestType \cup {Idle}]
        BY <1>5, <2>1 DEF OauthCallback, TypeOK
    <2>3. UsersOK'
        BY <1>5, Ensuring DEF OauthCallback, Roles
    <2> QED
        BY <1>5, <2>2, <2>3 DEF OauthCallback, TypeOK, UsersOK, UserRecord
<1>6. ASSUME NEW s \in Slots, LoginFails(s) PROVE TypeOK'
    <2>1. requests[s].user \in Users /\ requests[s].worker \in Workers
        BY <1>6, InFlightTypes DEF LoginFails
    <2>2. attempts[requests[s].worker][requests[s].user] + 1 \in Nat
        BY <2>1 DEF TypeOK
    <2>3. attempts' \in [Workers -> [Users -> Nat]]
        BY <1>0, <1>6, <2>1, <2>2 DEF LoginFails
    <2> QED
        BY <1>3, <1>6, <2>3 DEF LoginFails, TypeOK, HasRow
<1>7. ASSUME NEW s \in Slots, LoginSucceeds(s) PROVE TypeOK'
    <2>1. requests[s].user \in Users /\ requests[s].worker \in Workers
        BY <1>7, InFlightTypes DEF LoginSucceeds
    <2>2. sessions' \subseteq [user : Users, epoch : Nat, overtaken : BOOLEAN]
        BY <1>7, SigningIn DEF LoginSucceeds
    <2>3. attempts' \in [Workers -> [Users -> Nat]]
        BY <1>0, <1>7, <2>1 DEF LoginSucceeds, Forgotten
    <2> QED
        BY <1>3, <1>7, <2>2, <2>3 DEF LoginSucceeds, TypeOK, HasRow
<1>8. ASSUME NEW s \in Slots, OauthSession(s) PROVE TypeOK'
    <2>1. requests[s].user \in Users
        BY <1>8, InFlightTypes DEF OauthSession
    <2>2. sessions' \subseteq [user : Users, epoch : Nat, overtaken : BOOLEAN]
        BY <1>8, SigningIn DEF OauthSession
    <2>3. UsersOK'
        <3>1. CASE users' = users
            BY <1>1, <1>2, <3>1
        <3>2. CASE users' = [users EXCEPT ![requests[s].user].role = "owner"]
            <4>1. [users[requests[s].user] EXCEPT !.role = "owner"] \in UserRecord
                  /\ [users[requests[s].user] EXCEPT !.role = "owner"].role # NoRole
                BY <1>1, <2>1 DEF UsersOK, UserRecord, Roles, NoRole
            <4>2. users' = [users EXCEPT ![requests[s].user] =
                                [users[requests[s].user] EXCEPT !.role = "owner"]]
                BY <1>1, <2>1, <3>2 DEF UsersOK
            <4> QED
                BY <2>1, <4>1, <4>2, Replacing
        <3> QED
            BY <1>8, <3>1, <3>2 DEF OauthSession
    <2> QED
        BY <1>3, <1>8, <2>2, <2>3 DEF OauthSession, TypeOK, UsersOK, UserRecord
<1>9. ASSUME NEW s \in sessions, Logout(s) PROVE TypeOK'
    BY <1>9 DEF Logout, TypeOK, HasRow
<1>10. ASSUME NEW w \in Workers, NEW u \in Users, WindowPasses(w, u) PROVE TypeOK'
    <2>1. attempts' \in [Workers -> [Users -> Nat]]
        BY <1>0, <1>10 DEF WindowPasses, Forgotten
    <2> QED
        BY <1>10, <2>1 DEF WindowPasses, TypeOK, HasRow
<1> QED
    BY <1>4, <1>5, <1>6, <1>7, <1>8, <1>9, <1>10 DEF Serve

LEMMA TypeAdminister ==
    ASSUME TypeOK, Administer
    PROVE  TypeOK'
<1>1. UsersOK /\ users \in [Users -> UserRecord]
    BY InFlightTypes DEF TypeOK, UsersOK
<1>2. ASSUME NEW c \in Commands, commands' = [commands EXCEPT ![c] = Idle]
      PROVE  commands' \in [Commands -> CommandType \cup {Idle}]
    BY <1>2 DEF TypeOK
<1>3. ASSUME NEW c \in Commands, NEW u \in Users,
             commands' = [commands EXCEPT ![c] = [at |-> "revoke", user |-> u]]
      PROVE  commands' \in [Commands -> CommandType \cup {Idle}]
    <2>1. [at |-> "revoke", user |-> u] \in CommandType
        BY DEF CommandType
    <2> QED
        BY <1>3, <2>1 DEF TypeOK
<1>4. ASSUME NEW c \in Commands, NEW u \in Users, AdminStart(c, u) PROVE TypeOK'
    <2>1. PICK flag \in Flags \cup {NoRole} :
              commands' = [commands EXCEPT ![c] =
                  [at |-> "password", user |-> u, role |-> RoleFor(u, flag), may |-> Purpose(u, flag)]]
        BY <1>4 DEF AdminStart
    <2>2. RoleFor(u, flag) \in Roles
        BY <1>1, AccountsAssumption DEF RoleFor, HasRow, Roles, UserRecord
    <2>3. Purpose(u, flag) \in SUBSET Roles
        <3>1. users[u].pass => users[u].role \in Roles
            BY <1>1 DEF UsersOK, HasRow, UserRecord
        <3>2. {"admin", "owner"} \subseteq Roles /\ (flag # NoRole => flag \in Roles)
            BY AccountsAssumption DEF Roles
        <3> QED
            BY <3>1, <3>2 DEF Purpose
    <2>4. [at |-> "password", user |-> u, role |-> RoleFor(u, flag), may |-> Purpose(u, flag)]
              \in CommandType
        BY <2>2, <2>3 DEF CommandType
    <2>5. commands' \in [Commands -> CommandType \cup {Idle}]
        BY <2>1, <2>4 DEF TypeOK
    <2> QED
        BY <1>4, <2>5 DEF AdminStart, TypeOK, HasRow
<1>5. ASSUME NEW c \in Commands, NEW u \in Users, Disable(c, u) PROVE TypeOK'
    <2> DEFINE row == [users[u] EXCEPT !.disabled = TRUE, !.epoch = @ + 1]
    <2>1. users' = [users EXCEPT ![u] = row]
        BY <1>1, <1>5 DEF Disable
    <2>2. users[u] \in UserRecord /\ users[u].epoch + 1 \in Nat /\ users[u].role # NoRole
        BY <1>1, <1>5 DEF Disable, HasRow, UserRecord
    <2>3. row \in UserRecord /\ row.role # NoRole
        BY <2>2 DEF UserRecord
    <2>4. UsersOK'
        BY <2>1, <2>3, Replacing
    <2>5. commands' \in [Commands -> CommandType \cup {Idle}]
        BY <1>3, <1>5 DEF Disable
    <2> QED
        BY <1>5, <2>4, <2>5 DEF Disable, TypeOK, UsersOK, UserRecord
<1>6. ASSUME NEW c \in Commands, AdminRefused(c) PROVE TypeOK'
    BY <1>2, <1>6 DEF AdminRefused, TypeOK, HasRow
<1>7. ASSUME NEW c \in Commands, AdminEnsures(c) PROVE TypeOK'
    <2>1. /\ commands[c].user \in Users /\ commands[c].role \in Roles
          /\ commands[c] \in [at : {"password", "hash"}, user : Users, role : Roles,
                              may : SUBSET Roles]
        BY <1>7, InFlightTypes DEF AdminEnsures
    <2>2. UsersOK'
        BY <1>7, <2>1, Ensuring DEF AdminEnsures
    <2>3. [commands[c] EXCEPT !.at = "hash"] \in CommandType
        BY <2>1 DEF CommandType
    <2>4. commands' = [commands EXCEPT ![c] = [commands[c] EXCEPT !.at = "hash"]]
        BY <1>7 DEF AdminEnsures, TypeOK
    <2>5. commands' \in [Commands -> CommandType \cup {Idle}]
        BY <2>3, <2>4 DEF TypeOK
    <2> QED
        BY <1>7, <2>2, <2>5 DEF AdminEnsures, TypeOK, UsersOK, UserRecord
<1>8. ASSUME NEW c \in Commands, AdminWrites(c) PROVE TypeOK'
    <2> DEFINE u == commands[c].user
    <2> DEFINE row == [users[u] EXCEPT !.role = commands[c].role, !.pass = TRUE, !.epoch = @ + 1]
    <2>1. u \in Users /\ commands[c].role \in Roles
        BY <1>8, InFlightTypes DEF AdminWrites
    <2>2. users' = [users EXCEPT ![u] = row]
          /\ commands' = [commands EXCEPT ![c] = [at |-> "revoke", user |-> u]]
        BY <1>1, <1>8, <2>1 DEF AdminWrites, TypeOK
    <2>3. users[u] \in UserRecord /\ users[u].epoch + 1 \in Nat /\ commands[c].role # NoRole
        BY <1>1, <2>1 DEF UserRecord, Roles, NoRole
    <2>4. row \in UserRecord /\ row.role # NoRole
        BY <2>1, <2>3 DEF UserRecord
    <2>5. UsersOK'
        BY <2>1, <2>2, <2>4, Replacing
    <2>6. commands' \in [Commands -> CommandType \cup {Idle}]
        BY <1>3, <2>1, <2>2
    <2> QED
        BY <1>8, <2>5, <2>6 DEF AdminWrites, TypeOK, UsersOK, UserRecord
<1>9. ASSUME NEW c \in Commands, Revoke(c) PROVE TypeOK'
    BY <1>2, <1>9 DEF Revoke, TypeOK, HasRow
<1>10. ASSUME NEW c \in Commands, RevokeFails(c) PROVE TypeOK'
    <2>1. commands[c].user \in Users
        BY <1>10, InFlightTypes DEF RevokeFails
    <2> QED
        BY <1>2, <1>10, <2>1 DEF RevokeFails, TypeOK, HasRow
<1>11. ASSUME NEW u \in Users, EnsureMetered(u) PROVE TypeOK'
    <2>1. UsersOK'
        BY <1>11, Ensuring DEF EnsureMetered, Roles
    <2> QED
        BY <1>11, <2>1 DEF EnsureMetered, TypeOK, UsersOK, UserRecord
<1>12. ASSUME NEW u \in Users, Enable(u) PROVE TypeOK'
    <2> DEFINE row == [users[u] EXCEPT !.disabled = FALSE]
    <2>1. users' = [users EXCEPT ![u] = row]
        BY <1>1, <1>12 DEF Enable
    <2>2. row \in UserRecord /\ row.role # NoRole
        BY <1>1, <1>12 DEF Enable, HasRow, UserRecord
    <2>3. UsersOK'
        BY <2>1, <2>2, Replacing
    <2> QED
        BY <1>12, <2>3 DEF Enable, TypeOK, UsersOK, UserRecord
<1> QED
    BY <1>4, <1>5, <1>6, <1>7, <1>8, <1>9, <1>10, <1>11, <1>12 DEF Administer

LEMMA TypeNext == TypeOK /\ [Next]_vars => TypeOK'
<1>1. TypeOK /\ UNCHANGED vars => TypeOK'
    BY DEF vars, TypeOK, HasRow
<1> QED
    BY <1>1, TypeServe, TypeAdminister DEF Next

-----------------------------------------------------------------------------
(* the throttle *)

LEMMA HashingFinite ==
    ASSUME NEW w \in Workers, NEW u \in Users
    PROVE  /\ IsFiniteSet(Hashing(w, u)) /\ Cardinality(Hashing(w, u)) \in Nat
           /\ Cardinality(Hashing(w, u)) <= Cardinality(Slots) /\ Cardinality(Slots) \in Nat
<1>1. Hashing(w, u) \subseteq Slots
    BY DEF Hashing
<1> QED
    BY <1>1, AccountsAssumption, FS_Subset, FS_CardinalityType

\* A throttle's entry that is below the limit, or forgotten, may be joined by
\* every sign-in there is room for.
LEMMA RoomForAll ==
    ASSUME NEW w \in Workers, NEW u \in Users,
           attempts'[w][u] \in Nat, attempts'[w][u] < MaxAttempts
    PROVE  Within(w, u)'
<1>1. Hashing(w, u)' \subseteq Slots
    BY DEF Hashing
<1>2. /\ Cardinality(Hashing(w, u)') \in Nat /\ Cardinality(Slots) \in Nat
      /\ Cardinality(Hashing(w, u)') <= Cardinality(Slots)
    BY <1>1, AccountsAssumption, FS_Subset, FS_CardinalityType
<1> QED
    BY <1>2, AccountsAssumption DEF Within

\* What becomes of no sign-in at this worker for this email, and leaves the
\* count.
LEMMA WithinKept ==
    ASSUME NEW w \in Workers, NEW u \in Users, Within(w, u),
           attempts'[w][u] = attempts[w][u], Hashing(w, u)' = Hashing(w, u)
    PROVE  Within(w, u)'
BY DEF Within

\* What does not change the requests and the counts.
LEMMA CountedKept ==
    ASSUME TypeOK, Counted, requests' = requests, attempts' = attempts
    PROVE  Counted'
BY DEF Counted, Within, Hashing

LEMMA CountedServe ==
    ASSUME TypeOK, Counted, Serve
    PROVE  Counted'
<1>1. attempts \in [Workers -> [Users -> Nat]] /\ MaxAttempts \in Nat \ {0}
      /\ requests \in [Slots -> RequestType \cup {Idle}]
    BY AccountsAssumption DEF TypeOK
<1>2. ASSUME NEW w \in Workers, NEW u \in Users, attempts' = Forgotten(w, u)
      PROVE  /\ attempts'[w][u] = 0
             /\ \A x \in Workers, v \in Users :
                    <<x, v>> # <<w, u>> => attempts'[x][v] = attempts[x][v]
    BY <1>1, <1>2 DEF Forgotten
<1>3. ASSUME NEW s \in Slots, NEW w \in Workers, NEW u \in Users, Submit(s, w, u) PROVE Counted'
    <2>1. attempts' = attempts /\ attempts[w][u] < MaxAttempts /\ requests[s] = Idle
        BY <1>1, <1>3 DEF Submit, Throttled
    <2>2. /\ \A q \in Slots \ {s} : requests'[q] = requests[q]
          /\ requests'[s].user = u /\ requests'[s].worker = w
        BY <1>1, <1>3 DEF Submit
    <2>3. ASSUME NEW x \in Workers, NEW v \in Users
          PROVE  Within(x, v)'
        <3>1. CASE x = w /\ v = u
            BY <1>1, <2>1, <3>1, RoomForAll
        <3>2. CASE ~(x = w /\ v = u)
            <4>1. Hashing(x, v)' = Hashing(x, v)
                BY <2>1, <2>2, <3>2 DEF Hashing
            <4> QED
                BY <2>1, <4>1, WithinKept DEF Counted
        <3> QED
            BY <3>1, <3>2
    <2> QED
        BY <2>3 DEF Counted
<1>4. ASSUME NEW s \in Slots, LoginFails(s) PROVE Counted'
    <2>1. PICK w \in Workers, u \in Users :
              w = requests[s].worker /\ u = requests[s].user
              /\ requests[s] # Idle /\ requests[s].is = "wrong"
        BY <1>4, InFlightTypes DEF LoginFails
    <2>2. /\ attempts' = [attempts EXCEPT ![w] = [attempts[w] EXCEPT ![u] = attempts[w][u] + 1]]
          /\ requests' = [requests EXCEPT ![s] = Idle]
        BY <1>4, <2>1 DEF LoginFails
    <2>3. /\ attempts'[w][u] = attempts[w][u] + 1
          /\ \A x \in Workers, v \in Users : ~(x = w /\ v = u) => attempts'[x][v] = attempts[x][v]
        BY <1>1, <2>2
    <2>4. Hashing(w, u)' = Hashing(w, u) \ {s} /\ s \in Hashing(w, u)
        BY <1>1, <2>1, <2>2 DEF Hashing
    <2>5. Cardinality(Hashing(w, u))' = Cardinality(Hashing(w, u)) - 1
        BY <2>4, HashingFinite, FS_RemoveElement
    <2>6. ASSUME NEW x \in Workers, NEW v \in Users
          PROVE  Within(x, v)'
        <3>1. CASE x = w /\ v = u
            <4>1. attempts[w][u] \in Nat /\ Cardinality(Hashing(w, u)) \in Nat
                BY <1>1, HashingFinite
            <4>2. Within(w, u)
                BY DEF Counted
            <4> QED
                BY <2>3, <2>5, <3>1, <4>1, <4>2 DEF Within
        <3>2. CASE ~(x = w /\ v = u)
            <4>1. Hashing(x, v)' = Hashing(x, v) /\ attempts'[x][v] = attempts[x][v]
                BY <1>1, <2>1, <2>2, <2>3, <3>2 DEF Hashing
            <4> QED
                BY <4>1, WithinKept DEF Counted
        <3> QED
            BY <3>1, <3>2
    <2> QED
        BY <2>6 DEF Counted
<1>5. ASSUME NEW s \in Slots, LoginSucceeds(s) PROVE Counted'
    <2>1. PICK w \in Workers, u \in Users :
              w = requests[s].worker /\ u = requests[s].user
              /\ attempts' = Forgotten(w, u) /\ requests' = [requests EXCEPT ![s] = Idle]
        BY <1>5, InFlightTypes DEF LoginSucceeds
    <2>2. ASSUME NEW x \in Workers, NEW v \in Users
          PROVE  Within(x, v)'
        <3>1. CASE x = w /\ v = u
            BY <1>1, <1>2, <2>1, <3>1, RoomForAll
        <3>2. CASE ~(x = w /\ v = u)
            <4>1. Hashing(x, v)' = Hashing(x, v)
                BY <1>1, <2>1, <3>2 DEF Hashing
            <4>2. attempts'[x][v] = attempts[x][v]
                BY <1>2, <2>1, <3>2
            <4> QED
                BY <4>1, <4>2, WithinKept DEF Counted
        <3> QED
            BY <3>1, <3>2
    <2> QED
        BY <2>2 DEF Counted
<1>6. ASSUME NEW s \in Slots, (\E u \in Users : OauthCallback(s, u)) \/ OauthSession(s) PROVE Counted'
    <2>1. /\ attempts' = attempts
          /\ \A q \in Slots \ {s} : requests'[q] = requests[q]
          /\ requests[s] = Idle \/ requests[s].is = "oauth"
          /\ requests'[s] = Idle \/ requests'[s].is = "oauth"
        BY <1>1, <1>6 DEF OauthCallback, OauthSession
    <2>2. \A w \in Workers, v \in Users : Hashing(w, v)' = Hashing(w, v)
        BY <2>1 DEF Hashing
    <2> QED
        BY <2>1, <2>2, WithinKept DEF Counted
<1>7. ASSUME NEW w \in Workers, NEW u \in Users, WindowPasses(w, u) PROVE Counted'
    <2>1. /\ attempts' = Forgotten(w, u)
          /\ \A x \in Workers, v \in Users : Hashing(x, v)' = Hashing(x, v)
        BY <1>7 DEF WindowPasses, Hashing
    <2>2. ASSUME NEW x \in Workers, NEW v \in Users
          PROVE  Within(x, v)'
        <3>1. CASE x = w /\ v = u
            BY <1>1, <1>2, <2>1, <3>1, RoomForAll
        <3>2. CASE ~(x = w /\ v = u)
            <4>1. attempts'[x][v] = attempts[x][v]
                BY <1>2, <2>1, <3>2
            <4> QED
                BY <2>1, <4>1, WithinKept DEF Counted
        <3> QED
            BY <3>1, <3>2
    <2> QED
        BY <2>2 DEF Counted
<1>8. ASSUME NEW s \in sessions, Logout(s) PROVE Counted'
    BY <1>8, CountedKept DEF Logout
<1> QED
    BY <1>3, <1>4, <1>5, <1>6, <1>7, <1>8 DEF Serve

LEMMA CountedNext == TypeOK /\ Counted /\ [Next]_vars => Counted'
<1>1. TypeOK /\ Counted /\ Administer => Counted'
    BY CountedKept
    DEF Administer, AdminStart, Disable, AdminRefused, AdminEnsures, AdminWrites, Revoke,
        RevokeFails, EnsureMetered, Enable
<1>2. TypeOK /\ Counted /\ UNCHANGED vars => Counted'
    BY CountedKept DEF vars
<1> QED
    BY <1>1, <1>2, CountedServe DEF Next

-----------------------------------------------------------------------------
(* the role a command writes *)

LEMMA RoleMeantNext == TypeOK /\ RoleMeant /\ [Next]_vars => RoleMeant'
<1> SUFFICES ASSUME TypeOK, RoleMeant, [Next]_vars PROVE RoleMeant'
    OBVIOUS
<1>1. commands' = commands => RoleMeant'
    BY DEF RoleMeant
<1>2. commands \in [Commands -> CommandType \cup {Idle}]
    BY DEF TypeOK
<1>3. ASSUME NEW c \in Commands, \A d \in Commands \ {c} : commands'[d] = commands[d],
             \/ commands'[c] = Idle
             \/ commands'[c].at = "revoke"
             \/ commands'[c].role \in commands'[c].may
      PROVE  RoleMeant'
    BY <1>3 DEF RoleMeant
<1>4. ASSUME NEW c \in Commands, NEW u \in Users, AdminStart(c, u) PROVE RoleMeant'
    <2>1. PICK flag \in Flags \cup {NoRole} :
              commands' = [commands EXCEPT ![c] =
                  [at |-> "password", user |-> u, role |-> RoleFor(u, flag), may |-> Purpose(u, flag)]]
        BY <1>4 DEF AdminStart
    <2>2. /\ commands'[c].role = RoleFor(u, flag) /\ commands'[c].may = Purpose(u, flag)
          /\ \A d \in Commands \ {c} : commands'[d] = commands[d]
        BY <1>2, <2>1
    <2>3. users[u].pass => HasRow(u)
        BY DEF TypeOK
    <2>4. RoleFor(u, flag) \in Purpose(u, flag)
        BY <2>3 DEF RoleFor, Purpose
    <2> QED
        BY <1>3, <2>2, <2>4
<1>5. ASSUME NEW c \in Commands,
             \/ AdminRefused(c) \/ AdminWrites(c) \/ Revoke(c) \/ RevokeFails(c)
             \/ \E u \in Users : Disable(c, u)
      PROVE  RoleMeant'
    <2>1. /\ \A d \in Commands \ {c} : commands'[d] = commands[d]
          /\ commands'[c] = Idle \/ commands'[c].at = "revoke"
        <3>1. CASE AdminRefused(c) \/ Revoke(c) \/ RevokeFails(c)
            BY <1>2, <3>1 DEF AdminRefused, Revoke, RevokeFails
        <3>2. CASE AdminWrites(c)
            BY <1>2, <3>2 DEF AdminWrites
        <3>3. CASE \E u \in Users : Disable(c, u)
            BY <1>2, <3>3 DEF Disable
        <3> QED
            BY <1>5, <3>1, <3>2, <3>3
    <2> QED
        BY <1>3, <2>1
<1>6. ASSUME NEW c \in Commands, AdminEnsures(c) PROVE RoleMeant'
    <2>1. commands[c] \in [at : {"password", "hash"}, user : Users, role : Roles,
                              may : SUBSET Roles]
          /\ commands[c] # Idle /\ commands[c].at # "revoke"
        BY <1>6, InFlightTypes DEF AdminEnsures
    <2>2. /\ commands'[c] = [commands[c] EXCEPT !.at = "hash"]
          /\ \A d \in Commands \ {c} : commands'[d] = commands[d]
        BY <1>2, <1>6 DEF AdminEnsures
    <2>3. commands'[c].role = commands[c].role /\ commands'[c].may = commands[c].may
        BY <2>1, <2>2
    <2> QED
        BY <1>3, <2>1, <2>2, <2>3 DEF RoleMeant
<1> QED
    BY <1>1, <1>4, <1>5, <1>6
    DEF Next, Serve, Administer, Submit, OauthCallback, LoginFails, LoginSucceeds, OauthSession,
        Logout, WindowPasses, EnsureMetered, Enable, vars

-----------------------------------------------------------------------------
(* sessions *)

\* What leaves the changes of the accounts and what is owed as they were.
LEMMA SessionsKept ==
    ASSUME SessionsEndWithTheirPassword,
           \A s \in sessions' \ sessions : s.epoch = users'[s.user].epoch \/ s.overtaken,
           \A s \in sessions : users'[s.user].epoch = users[s.user].epoch,
           \A u \in Users : Owed(u) => Owed(u)', unrevoked \subseteq unrevoked', TypeOK
    PROVE  SessionsEndWithTheirPassword'
BY DEF SessionsEndWithTheirPassword, TypeOK

LEMMA SessionsServe ==
    ASSUME TypeOK, SessionsEndWithTheirPassword, Serve
    PROVE  SessionsEndWithTheirPassword'
<1>1. commands' = commands => \A u \in Users : Owed(u) => Owed(u)'
    BY DEF Owed
<1>2. sessions \subseteq [user : Users, epoch : Nat, overtaken : BOOLEAN]
    BY DEF TypeOK
<1>3. users \in [Users -> UserRecord]
    BY InFlightTypes
<1>4. ASSUME NEW s \in Slots, LoginSucceeds(s) \/ OauthSession(s)
      PROVE  SessionsEndWithTheirPassword'
    <2>1. /\ sessions' = SignedIn(requests[s]) /\ commands' = commands /\ unrevoked' = unrevoked
          /\ requests[s].user \in Users
        BY <1>4, InFlightTypes DEF LoginSucceeds, OauthSession
    <2>2. \A u \in Users : users'[u].epoch = users[u].epoch
        <3>1. CASE users' = users
            BY <3>1
        <3>2. CASE users' = [users EXCEPT ![requests[s].user].role = "owner"]
            BY <1>3, <2>1, <3>2 DEF UserRecord
        <3> QED
            BY <1>4, <3>1, <3>2 DEF LoginSucceeds, OauthSession
    <2>3. ASSUME NEW q \in sessions' \ sessions
          PROVE  q.epoch = users'[q.user].epoch \/ q.overtaken
        <3> DEFINE overtaken == users[requests[s].user].epoch # requests[s].epoch
        <3>1. q = [user |-> requests[s].user, epoch |-> requests[s].epoch, overtaken |-> overtaken]
            BY <2>1 DEF SignedIn
        <3> HIDE DEF overtaken
        <3>2. q.user = requests[s].user /\ q.epoch = requests[s].epoch /\ q.overtaken = overtaken
            BY <3>1
        <3>3. CASE overtaken
            BY <3>2, <3>3
        <3>4. CASE ~overtaken
            BY <2>1, <2>2, <3>2, <3>4 DEF overtaken
        <3> QED
            BY <3>3, <3>4
    <2> QED
        BY <1>1, <1>2, <2>1, <2>2, <2>3, SessionsKept
<1>5. ASSUME NEW s \in Slots, NEW u \in Users, OauthCallback(s, u)
      PROVE  SessionsEndWithTheirPassword'
    <2>1. \A v \in Users : users'[v].epoch = users[v].epoch
        BY <1>5, Ensuring DEF OauthCallback, Roles
    <2> QED
        BY <1>1, <1>2, <1>5, <2>1, SessionsKept DEF OauthCallback
<1>6. ASSUME NEW s \in Slots, (\E w \in Workers, u \in Users : Submit(s, w, u)) \/ LoginFails(s)
      PROVE  SessionsEndWithTheirPassword'
    BY <1>6 DEF Submit, LoginFails, SessionsEndWithTheirPassword, Owed
<1>7. ASSUME (\E s \in sessions : Logout(s)) \/ \E w \in Workers, u \in Users : WindowPasses(w, u)
      PROVE  SessionsEndWithTheirPassword'
    BY <1>7 DEF Logout, WindowPasses, SessionsEndWithTheirPassword, Owed
<1> QED
    BY <1>4, <1>5, <1>6, <1>7 DEF Serve

LEMMA SessionsAdminister ==
    ASSUME TypeOK, SessionsEndWithTheirPassword, Administer
    PROVE  SessionsEndWithTheirPassword'
<1>1. /\ sessions \subseteq [user : Users, epoch : Nat, overtaken : BOOLEAN]
      /\ commands \in [Commands -> CommandType \cup {Idle}]
      /\ users \in [Users -> UserRecord]
    BY InFlightTypes DEF TypeOK
<1>2. ASSUME NEW c \in Commands, commands[c] = Idle \/ commands[c].at # "revoke",
             \A d \in Commands \ {c} : commands'[d] = commands[d]
      PROVE  \A u \in Users : Owed(u) => Owed(u)'
    BY <1>2 DEF Owed
<1>3. ASSUME NEW c \in Commands, (\E u \in Users : AdminStart(c, u)) \/ AdminRefused(c)
      PROVE  SessionsEndWithTheirPassword'
    <2>1. /\ \A d \in Commands \ {c} : commands'[d] = commands[d]
          /\ commands[c] = Idle \/ commands[c].at # "revoke"
          /\ UNCHANGED <<users, sessions, unrevoked>>
        BY <1>1, <1>3 DEF AdminStart, AdminRefused
    <2>2. \A u \in Users : Owed(u) => Owed(u)'
        BY <1>2, <2>1
    <2> QED
        BY <2>1, <2>2, SessionsKept
<1>4. ASSUME NEW c \in Commands, AdminEnsures(c) PROVE SessionsEndWithTheirPassword'
    <2>1. commands[c].user \in Users /\ commands[c].role \in Roles
        BY <1>4, InFlightTypes DEF AdminEnsures
    <2>2. \A v \in Users : users'[v].epoch = users[v].epoch
        BY <1>4, <2>1, Ensuring DEF AdminEnsures
    <2>3. \A d \in Commands \ {c} : commands'[d] = commands[d]
        BY <1>1, <1>4 DEF AdminEnsures
    <2>4. \A u \in Users : Owed(u) => Owed(u)'
        BY <1>2, <1>4, <2>3 DEF AdminEnsures
    <2> QED
        BY <1>1, <1>4, <2>2, <2>4, SessionsKept DEF AdminEnsures
<1>5. ASSUME NEW c \in Commands, NEW u \in Users, u = commands[c].user \/ Disable(c, u),
             AdminWrites(c) \/ Disable(c, u)
      PROVE  SessionsEndWithTheirPassword'
    <2>1. /\ \A d \in Commands \ {c} : commands'[d] = commands[d]
          /\ commands'[c] = [at |-> "revoke", user |-> u]
          /\ commands[c] = Idle \/ commands[c].at # "revoke"
          /\ UNCHANGED <<sessions, unrevoked>>
        BY <1>1, <1>5 DEF AdminWrites, Disable
    <2>2. \A v \in Users \ {u} : users'[v] = users[v]
        BY <1>1, <1>5 DEF AdminWrites, Disable
    <2>3. Owed(u)'
        <3>1. [at |-> "revoke", user |-> u] # Idle
            BY AccountsAssumption DEF CommandType
        <3> QED
            BY <2>1, <3>1 DEF Owed
    <2>4. \A v \in Users : Owed(v) => Owed(v)'
        BY <1>2, <2>1
    <2> QED
        BY <1>1, <2>1, <2>2, <2>3, <2>4 DEF SessionsEndWithTheirPassword
<1>6. ASSUME NEW c \in Commands, Revoke(c) PROVE SessionsEndWithTheirPassword'
    <2>1. /\ sessions' = {s \in sessions : s.user # commands[c].user}
          /\ unrevoked' = unrevoked \ {commands[c].user} /\ users' = users
          /\ \A d \in Commands \ {c} : commands'[d] = commands[d]
        BY <1>1, <1>6 DEF Revoke, Of
    <2>2. \A u \in Users \ {commands[c].user} : Owed(u) => Owed(u)'
        BY <2>1 DEF Owed
    <2> QED
        BY <1>1, <2>1, <2>2 DEF SessionsEndWithTheirPassword
<1>7. ASSUME NEW c \in Commands, RevokeFails(c) PROVE SessionsEndWithTheirPassword'
    <2>1. /\ sessions' = sessions /\ users' = users
          /\ unrevoked' = unrevoked \cup {commands[c].user}
          /\ \A d \in Commands \ {c} : commands'[d] = commands[d]
        BY <1>1, <1>7 DEF RevokeFails
    <2>2. \A u \in Users \ {commands[c].user} : Owed(u) => Owed(u)'
        BY <2>1 DEF Owed
    <2> QED
        BY <1>1, <2>1, <2>2 DEF SessionsEndWithTheirPassword
<1>8. ASSUME NEW u \in Users, EnsureMetered(u) \/ Enable(u) PROVE SessionsEndWithTheirPassword'
    <2>1. \A v \in Users : users'[v].epoch = users[v].epoch
        <3>1. CASE EnsureMetered(u)
            BY <3>1, Ensuring DEF EnsureMetered, Roles
        <3>2. CASE Enable(u)
            BY <1>1, <3>2 DEF Enable, UserRecord
        <3> QED
            BY <1>8, <3>1, <3>2
    <2>2. \A v \in Users : Owed(v) => Owed(v)'
        BY <1>8 DEF EnsureMetered, Enable, Owed
    <2> QED
        BY <1>1, <1>8, <2>1, <2>2, SessionsKept DEF EnsureMetered, Enable
<1>9. ASSUME NEW c \in Commands, AdminWrites(c) PROVE SessionsEndWithTheirPassword'
    <2>1. commands[c].user \in Users
        BY <1>9, InFlightTypes DEF AdminWrites
    <2> QED
        BY <1>5, <1>9, <2>1
<1> QED
    BY <1>3, <1>4, <1>5, <1>6, <1>7, <1>8, <1>9 DEF Administer

LEMMA SessionsNext ==
    TypeOK /\ SessionsEndWithTheirPassword /\ [Next]_vars => SessionsEndWithTheirPassword'
<1>1. SessionsEndWithTheirPassword /\ UNCHANGED vars => SessionsEndWithTheirPassword'
    BY DEF vars, SessionsEndWithTheirPassword, Owed
<1> QED
    BY <1>1, SessionsServe, SessionsAdminister DEF Next

-----------------------------------------------------------------------------
(* what follows *)

LEMMA InvInit == Init => Counted /\ RoleMeant /\ SessionsEndWithTheirPassword
<1> SUFFICES ASSUME Init PROVE Counted /\ RoleMeant /\ SessionsEndWithTheirPassword
    OBVIOUS
<1>1. ASSUME NEW w \in Workers, NEW u \in Users PROVE Within(w, u)
    <2>1. Hashing(w, u) = {} /\ attempts[w][u] = 0
        BY DEF Init, Hashing
    <2> QED
        BY <2>1, HashingFinite, FS_EmptySet, AccountsAssumption DEF Within
<1>2. RoleMeant /\ SessionsEndWithTheirPassword
    BY DEF Init, RoleMeant, SessionsEndWithTheirPassword
<1> QED
    BY <1>1, <1>2 DEF Counted

\* Under any interleaving of sign-ins and commands, who may act on an account
\* began to under its present password and state, but for the sessions a
\* command still owes or told the operator it could not revoke, and those
\* whose sign-in was being checked meanwhile (accounts.ts:53, fest.ts:581).
THEOREM SessionsEnd == Spec => []SessionsEndWithTheirPassword
BY TypeInit, TypeNext, InvInit, SessionsNext, PTL DEF Spec

\* However many workers there are and sign-ins in flight, an email has at most
\* that many failed ones counted past the limit at each worker
\* (api/auth.ts:46-55, 209).
THEOREM GuessesAreBounded == Spec => []GuessesBounded
<1>1. TypeOK /\ Counted => GuessesBounded
    <2> SUFFICES ASSUME TypeOK, Counted, NEW w \in Workers, NEW u \in Users
                 PROVE  attempts[w][u] < MaxAttempts + Cardinality(Slots)
        BY DEF GuessesBounded
    <2>1. attempts[w][u] \in Nat /\ MaxAttempts \in Nat
        BY AccountsAssumption DEF TypeOK
    <2>2. Within(w, u)
        BY DEF Counted
    <2> QED
        BY <2>1, <2>2, HashingFinite DEF Within
<1> QED
    BY <1>1, TypeInit, TypeNext, InvInit, CountedNext, PTL DEF Spec

\* Whatever is interleaved, an account's role changes only by a claim, to a
\* role a command was told, by the account's first password, or back to the
\* one it had when the command began (cmdAdmin).
THEOREM RolesStay == Spec => RolesChangeOnPurpose
<1> DEFINE Meant ==
        \A u \in Users : HasRow(u) /\ users'[u].role # users[u].role =>
            \/ users'[u].role = "owner" /\ \E s \in Slots : Claims(s, u)
            \/ \E c \in Commands : /\ Writing(c) /\ commands[c].user = u
                                   /\ users'[u].role \in commands[c].may
<1>1. TypeOK /\ RoleMeant /\ [Next]_vars => [Meant]_vars
    <2> SUFFICES ASSUME TypeOK, RoleMeant, Next, NEW u \in Users,
                        HasRow(u), users'[u].role # users[u].role
                 PROVE  \/ users'[u].role = "owner" /\ \E s \in Slots : Claims(s, u)
                        \/ \E c \in Commands : /\ Writing(c) /\ commands[c].user = u
                                               /\ users'[u].role \in commands[c].may
        OBVIOUS
    <2>1. users \in [Users -> UserRecord]
        BY InFlightTypes
    <2>2. ~(\E s \in Slots, v \in Users : OauthCallback(s, v))
        BY Ensuring DEF OauthCallback, Roles
    <2>3. ~(\E v \in Users : EnsureMetered(v))
        BY Ensuring DEF EnsureMetered, Roles
    <2>4. ASSUME NEW c \in Commands PROVE ~AdminEnsures(c)
        BY Ensuring, InFlightTypes DEF AdminEnsures
    <2>5. ASSUME NEW v \in Users PROVE ~Enable(v)
        BY <2>1 DEF Enable, UserRecord
    <2>6. ASSUME NEW c \in Commands, NEW v \in Users, Disable(c, v) PROVE FALSE
        <3>1. users'[u] = IF v = u THEN [users[u] EXCEPT !.disabled = TRUE, !.epoch = @ + 1]
                          ELSE users[u]
            BY <2>1, <2>6 DEF Disable
        <3>2. users[u] \in UserRecord
            BY <2>1
        <3>3. users'[u].role = users[u].role
            BY <3>1, <3>2 DEF UserRecord
        <3> QED
            BY <3>3
    <2>7. ASSUME NEW s \in Slots, OauthSession(s)
          PROVE  users'[u].role = "owner" /\ Claims(s, u)
        <3>1. requests[s] # Idle /\ requests[s].is = "oauth" /\ requests[s].user \in Users
            BY <2>7, InFlightTypes DEF OauthSession
        <3>2. requests[s].claims /\ users' = [users EXCEPT ![requests[s].user].role = "owner"]
            BY <2>7 DEF OauthSession
        <3>3. requests[s].user = u /\ users'[u].role = "owner"
            BY <2>1, <3>1, <3>2 DEF UserRecord
        <3> QED
            BY <3>1, <3>2, <3>3 DEF Claims
    <2>8. ASSUME NEW c \in Commands, AdminWrites(c)
          PROVE  Writing(c) /\ commands[c].user = u /\ users'[u].role \in commands[c].may
        <3>1. /\ commands[c] # Idle /\ commands[c].at = "hash" /\ commands[c].user \in Users
              /\ commands'[c] = [at |-> "revoke", user |-> commands[c].user]
            BY <2>8, InFlightTypes DEF AdminWrites, TypeOK
        <3>2. [at |-> "revoke", user |-> commands[c].user] # Idle
            BY <3>1, AccountsAssumption DEF CommandType
        <3>3. commands[c].user = u /\ users'[u].role = commands[c].role
            BY <2>1, <2>8, <3>1 DEF AdminWrites, UserRecord
        <3>4. commands[c].role \in commands[c].may
            BY <3>1 DEF RoleMeant
        <3> QED
            BY <3>1, <3>2, <3>3, <3>4 DEF Writing
    <2>9. users' # users
        OBVIOUS
    <2> QED
        BY <2>2, <2>3, <2>4, <2>5, <2>6, <2>7, <2>8, <2>9
        DEF Next, Serve, Administer, Submit, LoginFails, LoginSucceeds, Logout,
            WindowPasses, AdminStart, AdminRefused, Revoke, RevokeFails
<1>2. RoleMeant /\ TypeOK /\ [Next]_vars => RoleMeant' /\ TypeOK'
    BY TypeNext, RoleMeantNext
<1> QED
    BY <1>1, <1>2, TypeInit, InvInit, PTL DEF Spec, RolesChangeOnPurpose

-----------------------------------------------------------------------------
(***************************************************************************)
(* For any users, any number of logins and tokens, and any flush interval: *)
(* last_used_at lags by less than the interval, through failing writes and *)
(* crashes, and the file changes only to the first answer the running      *)
(* login got.  A token that is in the map was used after the timer last    *)
(* fired, and one that is not has its latest use in the table; a login     *)
(* that waits has had no answer, and one that has settled keeps its first. *)
(***************************************************************************)

Clocked == clock \in Nat \ {0} /\ due \in Nat /\ clock <= due /\ due <= clock + Interval

Tracked ==
    \A t \in Tokens :
        /\ pending[t] # 0 => pending[t] = used[t] /\ due <= pending[t] + Interval
        /\ pending[t] = 0 => tokens[t].at = used[t]
        /\ tokens[t].at <= used[t]

Raced ==
    /\ cli.at # "ended" => cli.n \in Logins
    /\ \A t \in Logins : t > cli.n => first[t] = NoAnswer
    /\ cli.at = "waiting" => first[cli.n] = NoAnswer
    /\ cli.at = "settled" => cli.result # NoAnswer /\ cli.result = first[cli.n]

TrackInv == IdentityTypeOK /\ Clocked /\ Tracked
Inv == TrackInv /\ Raced

-----------------------------------------------------------------------------
(* the race *)

\* An answer settles a login that waits, and changes nothing of one that does
\* not.
LEMMA Settling ==
    ASSUME Inv, cli.at # "ended", NEW answer \in Tokens \cup {Error}, Settle(answer)
    PROVE  /\ cli' \in [n : 0..MaxLogins, at : {"waiting", "settled", "closing", "ended"},
                        result : Tokens \cup {Error, NoAnswer}]
           /\ first' \in [Logins -> Tokens \cup {Error, NoAnswer}]
           /\ Raced'
<1>1. /\ cli \in [n : 0..MaxLogins, at : {"waiting", "settled", "closing", "ended"},
                  result : Tokens \cup {Error, NoAnswer}]
      /\ first \in [Logins -> Tokens \cup {Error, NoAnswer}]
      /\ cli.n \in Logins
    BY DEF Inv, TrackInv, IdentityTypeOK, Raced
<1>2. answer # NoAnswer
    BY AnswersDistinct DEF Tokens
<1>3. CASE cli.at = "waiting"
    <2>1. /\ cli' = [cli EXCEPT !.at = "settled", !.result = answer]
          /\ first' = [first EXCEPT ![cli.n] = answer]
        BY <1>3 DEF Settle, Remember, Inv, Raced
    <2>2. cli'.n = cli.n /\ cli'.at = "settled" /\ cli'.result = answer /\ first'[cli.n] = answer
        BY <1>1, <2>1
    <2>3. \A t \in Logins : t > cli.n => first'[t] = first[t]
        BY <1>1, <2>1 DEF Logins
    <2> QED
        BY <1>1, <1>2, <2>1, <2>2, <2>3 DEF Inv, Raced
<1>4. CASE cli.at # "waiting"
    <2>1. cli' = cli
        BY <1>4 DEF Settle
    <2>2. /\ first' \in [Logins -> Tokens \cup {Error, NoAnswer}]
          /\ \A t \in Logins : t > cli.n => first'[t] = first[t]
          /\ first[cli.n] # NoAnswer => first' = first
        BY <1>1 DEF Settle, Remember, Logins
    <2> QED
        BY <1>1, <1>4, <2>1, <2>2 DEF Inv, Raced
<1> QED
    BY <1>3, <1>4

-----------------------------------------------------------------------------
(* the steps *)

LEMMA IdentityInvInit == IdentityInit => Inv
<1> SUFFICES ASSUME IdentityInit PROVE Inv
    OBVIOUS
<1>1. Interval \in Nat \ {0} /\ MaxLogins \in Nat /\ MaxTokens \in Nat
    BY IntervalPositive, AnswersDistinct
<1>2. Clocked /\ Tracked
    BY <1>1 DEF IdentityInit, Clocked, Tracked
<1>3. IdentityTypeOK
    BY <1>1 DEF IdentityInit, IdentityTypeOK, Logins, Tokens, NoConfig
<1>4. Raced
    BY <1>1 DEF IdentityInit, Raced, Logins
<1> QED
    BY <1>2, <1>3, <1>4 DEF Inv, TrackInv

\* What the command does by itself.
LEMMA InvCommand ==
    Inv /\ (Start \/ TimeOut \/ Store \/ CloseServer \/ LogoutCli) => Inv'
<1> SUFFICES ASSUME Inv, Start \/ TimeOut \/ Store \/ CloseServer \/ LogoutCli PROVE Inv'
    OBVIOUS
<1> USE DEF trackVars
<1>1. CASE Start
    <2>1. cli.n + 1 \in Logins /\ cli.n \in Nat
        BY <1>1, AnswersDistinct DEF Start, Inv, TrackInv, IdentityTypeOK, Logins
    <2>2. cli' = [n |-> cli.n + 1, at |-> "waiting", result |-> NoAnswer] /\ first' = first
        BY <1>1 DEF Start
    <2>3. IdentityTypeOK'
        BY <1>1, <2>1, <2>2 DEF Start, Inv, TrackInv, IdentityTypeOK, Logins
    <2>4. Raced'
        BY <2>1, <2>2 DEF Inv, Raced, Logins
    <2> QED
        BY <1>1, <2>3, <2>4 DEF Start, Inv, TrackInv, Clocked, Tracked
<1>2. CASE TimeOut
    <2>1. cli.at # "ended" /\ Settle(Error)
        BY <1>2 DEF TimeOut
    <2> QED
        BY <1>2, <2>1, Settling DEF TimeOut, Inv, TrackInv, IdentityTypeOK, Clocked, Tracked
<1>3. CASE Store
    <2>1. config' \in Tokens \cup {NoConfig}
        BY <1>3 DEF Store, Inv, TrackInv, IdentityTypeOK, Raced
    <2>2. cli' = [cli EXCEPT !.at = "closing"] /\ first' = first
        BY <1>3 DEF Store
    <2>3. IdentityTypeOK'
        BY <1>3, <2>1, <2>2 DEF Store, Inv, TrackInv, IdentityTypeOK
    <2>4. Raced'
        BY <1>3, <2>2 DEF Store, Inv, TrackInv, IdentityTypeOK, Raced
    <2> QED
        BY <1>3, <2>3, <2>4 DEF Store, Inv, TrackInv, Clocked, Tracked
<1>4. CASE CloseServer
    <2>1. cli' = [cli EXCEPT !.at = "ended", !.result = NoAnswer] /\ first' = first
        BY <1>4 DEF CloseServer
    <2>2. IdentityTypeOK'
        BY <1>4, <2>1 DEF CloseServer, Inv, TrackInv, IdentityTypeOK
    <2>3. Raced'
        BY <2>1 DEF Inv, TrackInv, IdentityTypeOK, Raced
    <2> QED
        BY <1>4, <2>2, <2>3 DEF CloseServer, Inv, TrackInv, Clocked, Tracked
<1>5. CASE LogoutCli
    BY <1>5 DEF LogoutCli, Inv, TrackInv, IdentityTypeOK, Raced, Clocked, Tracked
<1> QED
    BY <1>1, <1>2, <1>3, <1>4, <1>5

\* A token that is made keeps what the tracker knows.
LEMMA Minting ==
    ASSUME Inv, NEW t \in Logins, NEW u \in Developers, Mint(t, u)
    PROVE  /\ tokens' \in [Tokens -> [user : Developers \cup {Nobody}, revoked : BOOLEAN, at : 0..clock]]
           /\ tabs' \in [Logins -> [at : {"closed", "asking", "approval"}]
                                      \cup [at : {"back"}, answer : Tokens \cup {Error}]]
           /\ \A id \in Tokens : tokens'[id].at = tokens[id].at
BY DEF Mint, Inv, TrackInv, IdentityTypeOK

\* What the browser and the server do.
LEMMA InvBrowser ==
    ASSUME Inv, NEW t \in Logins,
           \/ Authorize(t) \/ Approve(t) \/ ApproveUnauthenticated(t) \/ Cancel(t) \/ Close(t)
           \/ CallbackArrives(t) \/ \E u \in Developers : ProviderMints(t, u)
    PROVE  Inv'
<1> USE DEF trackVars
<1>1. CASE Authorize(t) \/ ApproveUnauthenticated(t) \/ Cancel(t) \/ Close(t)
    <2>1. IdentityTypeOK'
        BY <1>1 DEF Authorize, ApproveUnauthenticated, Cancel, Close, Inv, TrackInv, IdentityTypeOK
    <2> QED
        BY <1>1, <2>1 DEF Authorize, ApproveUnauthenticated, Cancel, Close,
                          Inv, TrackInv, Raced, Clocked, Tracked
<1>2. CASE Approve(t) \/ \E u \in Developers : ProviderMints(t, u)
    <2>1. PICK u \in Developers : Mint(t, u)
        BY <1>2 DEF Approve, ProviderMints, Inv, TrackInv, IdentityTypeOK
    <2>2. UNCHANGED <<browser, cli, config, first, clock, pending, due, used>>
        BY <1>2 DEF Approve, ProviderMints
    <2> QED
        BY <2>1, <2>2, Minting DEF Inv, TrackInv, IdentityTypeOK, Raced, Clocked, Tracked
<1>3. CASE CallbackArrives(t)
    <2>1. tabs[t].answer \in Tokens \cup {Error}
        BY <1>3 DEF CallbackArrives, Inv, TrackInv, IdentityTypeOK
    <2>2. tabs' \in [Logins -> [at : {"closed", "asking", "approval"}]
                                  \cup [at : {"back"}, answer : Tokens \cup {Error}]]
        BY <1>3 DEF CallbackArrives, Inv, TrackInv, IdentityTypeOK
    <2>3. CASE cli.at = "ended"
        BY <1>3, <2>2, <2>3 DEF CallbackArrives, Inv, TrackInv, IdentityTypeOK, Raced, Clocked, Tracked
    <2>4. CASE cli.at # "ended"
        <3>1. Settle(tabs[t].answer)
            BY <1>3, <2>4 DEF CallbackArrives
        <3> QED
            BY <1>3, <2>1, <2>2, <2>4, <3>1, Settling
            DEF CallbackArrives, Inv, TrackInv, IdentityTypeOK, Clocked, Tracked
    <2> QED
        BY <2>3, <2>4
<1> QED
    BY <1>1, <1>2, <1>3

\* What happens to the token in use.
LEMMA InvTracker ==
    ASSUME Inv, UseToken \/ Tick \/ Flush \/ Crash \/ StopClean
    PROVE  Inv'
<1>1. Interval \in Nat \ {0}
    BY IntervalPositive
<1>2. clock \in Nat \ {0} /\ due \in Nat /\ clock <= due /\ due <= clock + Interval
    BY DEF Inv, TrackInv, Clocked
<1>3. /\ tokens \in [Tokens -> [user : Developers \cup {Nobody}, revoked : BOOLEAN, at : 0..clock]]
      /\ pending \in [Tokens -> 0..clock] /\ used \in [Tokens -> 0..clock]
    BY DEF Inv, TrackInv, IdentityTypeOK
<1>4. Raced'
    BY DEF UseToken, Tick, Flush, Crash, StopClean, cliVars, Inv, Raced
<1>5. CASE UseToken
    <2>1. config \in Tokens /\ pending' = [pending EXCEPT ![config] = clock]
          /\ used' = [used EXCEPT ![config] = clock]
          /\ UNCHANGED <<cliVars, tokens, clock, due>>
        BY <1>5 DEF UseToken, Resolves, Touch, NoConfig, Inv, TrackInv, IdentityTypeOK
    <2>2. IdentityTypeOK'
        BY <1>2, <2>1 DEF cliVars, Inv, TrackInv, IdentityTypeOK
    <2>3. Tracked'
        <3> SUFFICES ASSUME NEW t \in Tokens
                     PROVE  /\ pending'[t] # 0 => pending'[t] = used'[t] /\ due <= pending'[t] + Interval
                            /\ pending'[t] = 0 => tokens[t].at = used'[t]
                            /\ tokens[t].at <= used'[t]
            BY <2>1 DEF Tracked
        <3>1. CASE t = config
            BY <1>2, <1>3, <2>1, <3>1
        <3>2. CASE t # config
            BY <1>3, <2>1, <3>2 DEF Inv, TrackInv, Tracked
        <3> QED
            BY <3>1, <3>2
    <2> QED
        BY <1>2, <1>4, <2>1, <2>2, <2>3 DEF Inv, TrackInv, Clocked
<1>6. CASE Tick
    <2>1. clock' = clock + 1 /\ clock < due /\ UNCHANGED <<cliVars, tokens, pending, due, used>>
        BY <1>6 DEF Tick
    <2>2. IdentityTypeOK'
        <3>1. 0..clock \subseteq 0..clock'
            BY <1>2, <2>1
        <3>2. tokens' \in [Tokens -> [user : Developers \cup {Nobody}, revoked : BOOLEAN, at : 0..clock']]
            BY <1>3, <2>1, <3>1
        <3>3. pending' \in [Tokens -> 0..clock'] /\ used' \in [Tokens -> 0..clock']
            BY <1>3, <2>1, <3>1
        <3> QED
            BY <1>1, <1>2, <2>1, <3>2, <3>3 DEF cliVars, Inv, TrackInv, IdentityTypeOK
    <2>3. Clocked'
        BY <1>1, <1>2, <2>1 DEF Clocked
    <2> QED
        BY <1>4, <2>1, <2>2, <2>3 DEF Inv, TrackInv, Tracked
<1>7. CASE Flush \/ StopClean
    <2>1. /\ pending' = [t \in Tokens |-> 0] /\ tokens' = Written
          /\ UNCHANGED <<cliVars, clock, used>>
          /\ due' \in Nat /\ clock <= due' /\ due' <= clock + Interval
        BY <1>1, <1>2, <1>7 DEF Flush, StopClean
    <2>2. ASSUME NEW t \in Tokens
          PROVE  /\ tokens'[t] \in [user : Developers \cup {Nobody}, revoked : BOOLEAN, at : 0..clock]
                 /\ tokens'[t].at = used[t]
        <3>1. tokens'[t] = IF pending[t] = 0 THEN tokens[t] ELSE [tokens[t] EXCEPT !.at = pending[t]]
            BY <2>1 DEF Written
        <3>2. CASE pending[t] = 0
            BY <1>3, <3>1, <3>2 DEF Inv, TrackInv, Tracked
        <3>3. CASE pending[t] # 0
            BY <1>3, <3>1, <3>3 DEF Inv, TrackInv, Tracked
        <3> QED
            BY <3>2, <3>3
    <2>3. tokens' \in [Tokens -> [user : Developers \cup {Nobody}, revoked : BOOLEAN, at : 0..clock]]
        BY <2>1, <2>2 DEF Written
    <2>4. IdentityTypeOK'
        BY <1>2, <2>1, <2>3 DEF cliVars, Inv, TrackInv, IdentityTypeOK
    <2>5. Tracked'
        BY <1>3, <2>1, <2>2 DEF Tracked
    <2> QED
        BY <1>2, <1>4, <2>1, <2>4, <2>5 DEF Inv, TrackInv, Clocked
<1>8. CASE Crash
    <2>1. /\ pending' = [t \in Tokens |-> 0] /\ used' = [t \in Tokens |-> tokens[t].at]
          /\ due' = clock + Interval /\ UNCHANGED <<cliVars, tokens, clock>>
        BY <1>8 DEF Crash
    <2>2. used' \in [Tokens -> 0..clock] /\ pending' \in [Tokens -> 0..clock]
        BY <1>2, <1>3, <2>1
    <2>3. IdentityTypeOK'
        BY <1>1, <1>2, <2>1, <2>2 DEF cliVars, Inv, TrackInv, IdentityTypeOK
    <2>4. Tracked'
        BY <1>3, <2>1 DEF Tracked
    <2> QED
        BY <1>1, <1>2, <1>4, <2>1, <2>3, <2>4 DEF Inv, TrackInv, Clocked
<1> QED
    BY <1>5, <1>6, <1>7, <1>8

LEMMA InvNext == Inv /\ [IdentityNext]_identityVars => Inv'
<1> SUFFICES ASSUME Inv, [IdentityNext]_identityVars PROVE Inv'
    OBVIOUS
<1>1. CASE Start \/ TimeOut \/ Store \/ CloseServer \/ LogoutCli
    BY <1>1, InvCommand
<1>2. CASE \E t \in Logins :
               \/ Authorize(t) \/ Approve(t) \/ ApproveUnauthenticated(t) \/ Cancel(t) \/ Close(t)
               \/ CallbackArrives(t) \/ \E u \in Developers : ProviderMints(t, u)
    BY <1>2, InvBrowser
<1>3. CASE \E u \in Developers \cup {Nobody} : BrowserSigns(u)
    BY <1>3 DEF BrowserSigns, trackVars, Inv, TrackInv, IdentityTypeOK, Raced, Clocked, Tracked
<1>4. CASE \E id \in Tokens : RevokeToken(id)
    <2>1. PICK id \in Tokens : RevokeToken(id)
        BY <1>4
    <2>2. /\ tokens' = [tokens EXCEPT ![id] = [tokens[id] EXCEPT !.revoked = TRUE]]
          /\ tokens \in [Tokens -> [user : Developers \cup {Nobody}, revoked : BOOLEAN, at : 0..clock]]
        BY <2>1 DEF RevokeToken, Inv, TrackInv, IdentityTypeOK
    <2>3. /\ [tokens[id] EXCEPT !.revoked = TRUE]
                 \in [user : Developers \cup {Nobody}, revoked : BOOLEAN, at : 0..clock]
          /\ [tokens[id] EXCEPT !.revoked = TRUE].at = tokens[id].at
        BY <2>2
    <2>4. /\ tokens' \in [Tokens -> [user : Developers \cup {Nobody}, revoked : BOOLEAN, at : 0..clock]]
          /\ \A t \in Tokens : tokens'[t].at = tokens[t].at
        BY <2>2, <2>3
    <2> QED
        BY <2>1, <2>4 DEF RevokeToken, cliVars, trackVars,
                          Inv, TrackInv, IdentityTypeOK, Raced, Clocked, Tracked
<1>5. CASE UseToken \/ Tick \/ Flush \/ Crash \/ StopClean
    BY <1>5, InvTracker
<1>6. CASE UNCHANGED identityVars
    BY <1>6 DEF identityVars, cliVars, trackVars, Inv, TrackInv, IdentityTypeOK, Raced, Clocked, Tracked
<1> QED
    BY <1>1, <1>2, <1>3, <1>4, <1>5, <1>6 DEF IdentityNext

-----------------------------------------------------------------------------
\* last_used_at lags the truth by less than the flush interval, and is never
\* ahead of it (tokens.ts:150-200).
THEOREM LagIsBounded == IdentitySpec => []LastUsedFresh
<1>1. Inv => LastUsedFresh
    <2> SUFFICES ASSUME Inv, NEW t \in Tokens
                 PROVE  /\ tokens[t].at <= used[t]
                        /\ used[t] + Interval < due => tokens[t].at = used[t]
        BY DEF LastUsedFresh, Inv, TrackInv
    <2>1. pending[t] \in Nat /\ used[t] \in Nat /\ due \in Nat /\ Interval \in Nat
        BY IntervalPositive DEF Inv, TrackInv, IdentityTypeOK, Clocked
    <2> QED
        BY <2>1 DEF Inv, TrackInv, Tracked
<1> QED
    BY <1>1, IdentityInvInit, InvNext, PTL DEF IdentitySpec

\* ~/.fest/config.json changes only to the first answer the running login got,
\* and never after an answer that was not a token (login.ts:143).
THEOREM FirstAnswerStands == IdentitySpec => FileFollowsFirst
<1>1. Inv /\ [IdentityNext]_identityVars =>
          [config' # config /\ config' # NoConfig => first[cli.n] # Error /\ config' = first[cli.n]]_identityVars
    <2> SUFFICES ASSUME Inv, IdentityNext, config' # config, config' # NoConfig
                 PROVE  first[cli.n] # Error /\ config' = first[cli.n]
        BY DEF identityVars, cliVars
    <2>1. Store
        BY DEF IdentityNext, Start, TimeOut, CloseServer, LogoutCli, Authorize, Approve,
               ApproveUnauthenticated, Cancel, Close, CallbackArrives, ProviderMints,
               BrowserSigns, RevokeToken, UseToken, Tick, Flush, Crash, StopClean, cliVars
    <2> QED
        BY <2>1 DEF Store, Inv, Raced
<1> QED
    BY <1>1, IdentityInvInit, InvNext, PTL DEF IdentitySpec, FileFollowsFirst
=============================================================================
