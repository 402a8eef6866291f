------------------------------- MODULE Accounts -------------------------------
(***************************************************************************)
(* Users and sessions: the user store (internal/auth/store.go), the token  *)
(* service and middleware (jwt.go, middleware.go), the first-boot admin    *)
(* (wizard.go), and the handlers of api_auth.go and api_users.go.          *)
(*                                                                         *)
(* A token is stateless: the server keeps none, so tokens is what clients  *)
(* hold, and a token is honoured until it expires whatever happens to its  *)
(* user.  Two tokens with equal claims are two: a refreshed one outlives   *)
(* the one it was issued for.  Each SQL statement is atomic (SetMaxOpenConns(1)); a handler     *)
(* that issues two of them is two steps, and requests interleave there.    *)
(* The middleware only looks at the token, so its check is part of the     *)
(* handler's first step.  Handlers that change nothing (list, get, me) and *)
(* requests that are refused are no steps.                                 *)
(***************************************************************************)
EXTENDS Integers, FiniteSets

CONSTANTS
    Role,       \* roles of jwt.go, "admin" among them
    Name,       \* usernames
    AdminName,  \* LGB_AUTH_ADMIN_USER
    Password,   \* passwords that ValidatePassword accepts
    Request,    \* requests that may be in progress at once
    NoUser,     \* no row
    MaxId,      \* bound: rows ever inserted
    MaxTokens   \* bound: unexpired tokens in clients' hands

ASSUME AccountsAssumption ==
    /\ "admin" \in Role /\ AdminName \in Name
    /\ MaxId \in Nat \ {0} /\ MaxTokens \in Nat \ {0}

Id == 1..MaxId
Row == [name: Name, role: Role, pw: Password]
Claims == [id: Id, name: Name, role: Role]
Slot == 1..MaxTokens
NoToken == [id |-> 0, name |-> AdminName, role |-> "admin"]

ASSUME NoUserAssumption == NoUser \notin Row

VARIABLES
    users,      \* the users table
    lastId,     \* the largest id SQLite has ever given out
    tokens,     \* the unexpired tokens that clients hold, slot by slot: their claims
    pc,         \* where each request is
    claims,     \* the claims a request came with, or is about to be issued
    target,     \* the user a delete request is about
    overtaken   \* history: a role changed or a user went since the request read it

vars == <<users, lastId, tokens, pc, claims, target, overtaken>>
reqVars == <<pc, claims, target, overtaken>>

NoClaims == [id |-> 1, name |-> AdminName, role |-> "admin"]

TypeOK ==
    /\ users \in [Id -> Row \cup {NoUser}]
    /\ lastId \in 0..MaxId
    /\ tokens \in [Slot -> Claims \cup {NoToken}]
    /\ pc \in [Request -> {"idle", "revalidate", "issue", "count", "delete"}]
    /\ claims \in [Request -> Claims]
    /\ target \in [Request -> Id]
    /\ overtaken \in [Request -> BOOLEAN]
    /\ \A i \in Id: i > lastId => users[i] = NoUser
    /\ \A i, j \in Id:
          i # j /\ users[i] # NoUser /\ users[j] # NoUser => users[i].name # users[j].name

-----------------------------------------------------------------------------
(* The user store. *)

Present == {i \in Id: users[i] # NoUser}

\* CountByRole(RoleAdmin).
Admins == {i \in Present: users[i].role = "admin"}

\* Mutant: username is not UNIQUE.
TakenNever(n) == FALSE

\* UNIQUE username.
Taken(n) == \E i \in Present: users[i].name = n

\* Mutant: without AUTOINCREMENT the id after the largest one in use is taken.
NewIdReused == 1 + Cardinality({i \in Id: \E j \in Present: i <= j})

\* The id of the next row: AUTOINCREMENT never gives one out twice.
NewId == lastId + 1

\* INSERT INTO users (bound: MaxId).
Insert(n, r, p) ==
    /\ ~Taken(n)
    /\ NewId \in Id
    /\ users' = [users EXCEPT ![NewId] = [name |-> n, role |-> r, pw |-> p]]
    /\ lastId' = IF NewId > lastId THEN NewId ELSE lastId

\* The row of an id, NoUser when there is none.
GetByID(i) == users[i]

\* One row is read and its password compared.
Authenticate(i, p) == i \in Present /\ users[i].pw = p

UpdateRole(i, r) == i \in Present /\ users' = [users EXCEPT ![i].role = r]

UpdatePassword(i, p) == i \in Present /\ users' = [users EXCEPT ![i].pw = p]

\* DELETE of a row; one that is gone already changes nothing.
Delete(i) == users' = [users EXCEPT ![i] = NoUser]

\* Every request in progress was overtaken by a change of roles.
Overtake == overtaken' = [q \in Request |-> pc[q] # "idle"]

Idle(q) ==
    /\ pc' = [pc EXCEPT ![q] = "idle"]
    /\ claims' = [claims EXCEPT ![q] = NoClaims]
    /\ target' = [target EXCEPT ![q] = 1]
    /\ overtaken' = [overtaken EXCEPT ![q] = FALSE]

\* A new data directory: Restart is the first boot.
Init ==
    /\ users = [i \in Id |-> NoUser]
    /\ lastId = 0
    /\ tokens = [s \in Slot |-> NoToken]
    /\ pc = [q \in Request |-> "idle"]
    /\ claims = [q \in Request |-> NoClaims]
    /\ target = [q \in Request |-> 1]
    /\ overtaken = [q \in Request |-> FALSE]

-----------------------------------------------------------------------------
(* api_auth.go. *)

\* The claims that clients can show.
InHand == {tokens[s] : s \in Slot} \ {NoToken}

\* The middleware: a token that Validate accepts.  It is not looked up anywhere.
Authenticated(c) == c \in InHand

RequireRole(c, roles) == c.role \in roles

\* What a token says of its user.
ClaimsOf(i, u) == [id |-> i, name |-> u.name, role |-> u.role]

\* handleLogin: credentials that Authenticate accepts; Issue is next.
handleLogin(q, i, p) ==
    /\ pc[q] = "idle"
    /\ Authenticate(i, p)
    /\ pc' = [pc EXCEPT ![q] = "issue"]
    /\ claims' = [claims EXCEPT ![q] = ClaimsOf(i, users[i])]
    /\ UNCHANGED <<users, lastId, tokens, target, overtaken>>

\* handleRefresh: the middleware and the handler validate the token.
handleRefresh(q, c) ==
    /\ pc[q] = "idle"
    /\ Authenticated(c)
    /\ pc' = [pc EXCEPT ![q] = "revalidate"]
    /\ claims' = [claims EXCEPT ![q] = c]
    /\ UNCHANGED <<users, lastId, tokens, target, overtaken>>

\* Mutant: the claims of the old token are issued again.
RevalidateNot(q) ==
    /\ pc[q] = "revalidate"
    /\ pc' = [pc EXCEPT ![q] = "issue"]
    /\ UNCHANGED <<users, lastId, tokens, claims, target, overtaken>>

\* Mutant: the user is looked up, and the role of the old token kept.
RevalidateKeepsRole(q) ==
    /\ pc[q] = "revalidate"
    /\ IF claims[q].id \in Present
       THEN /\ pc' = [pc EXCEPT ![q] = "issue"]
            /\ overtaken' = [overtaken EXCEPT ![q] = FALSE]
            /\ UNCHANGED <<claims, target>>
       ELSE Idle(q)
    /\ UNCHANGED <<users, lastId, tokens>>

\* GetByID: a user that is gone ends the session; a name and a role that
\* changed are picked up.
Revalidate(q) ==
    /\ pc[q] = "revalidate"
    /\ IF GetByID(claims[q].id) # NoUser
       THEN /\ pc' = [pc EXCEPT ![q] = "issue"]
            /\ claims' = [claims EXCEPT ![q] = ClaimsOf(@.id, GetByID(@.id))]
            /\ overtaken' = [overtaken EXCEPT ![q] = FALSE]
            /\ UNCHANGED target
       ELSE Idle(q)
    /\ UNCHANGED <<users, lastId, tokens>>

\* The first slot that is free.
Free(s) == tokens[s] = NoToken /\ \A r \in 1..(s-1): tokens[r] # NoToken

\* Issue, set the cookie and answer, for a login or a refresh.
Issue(q) ==
    /\ pc[q] = "issue"
    /\ \E s \in Slot: Free(s) /\ tokens' = [tokens EXCEPT ![s] = claims[q]]
    /\ Idle(q)
    /\ UNCHANGED <<users, lastId>>

\* handleLogout clears the cookie: the browser no longer holds the token.  (It
\* stays valid: a client that kept a copy takes no step.)
handleLogout(s) ==
    /\ tokens[s] # NoToken
    /\ tokens' = [tokens EXCEPT ![s] = NoToken]
    /\ UNCHANGED <<users, lastId, reqVars>>

\* A token reaches its exp (sessionTTL after it was issued).
Expire(s) ==
    /\ tokens[s] # NoToken
    /\ tokens' = [tokens EXCEPT ![s] = NoToken]
    /\ UNCHANGED <<users, lastId, reqVars>>

-----------------------------------------------------------------------------
(* api_users.go: the caller's token says "admin" (RequireRole). *)

AdminCaller(c) == Authenticated(c) /\ RequireRole(c, {"admin"})

\* INSERT, unless the name is taken.
handleCreateUser(c, n, r, p) ==
    /\ AdminCaller(c)
    /\ Insert(n, r, p)
    /\ UNCHANGED <<tokens, reqVars>>

\* UPDATE users SET role: also of the caller, also of the last admin.
handleUpdateUserRole(c, i, r) ==
    /\ AdminCaller(c)
    /\ UpdateRole(i, r)
    /\ users[i].role # r
    /\ Overtake
    /\ UNCHANGED <<lastId, tokens, pc, claims, target>>

\* UPDATE users SET password_hash: tokens issued before stay valid.
handleUpdateUserPassword(c, i, p) ==
    /\ AdminCaller(c)
    /\ UpdatePassword(i, p)
    /\ UNCHANGED <<lastId, tokens, reqVars>>

\* handleDeleteUser: not the caller's own account; GetByID, and only an admin
\* is counted against.
handleDeleteUser(q, c, i) ==
    /\ pc[q] = "idle"
    /\ AdminCaller(c) /\ c.id # i
    /\ GetByID(i) # NoUser
    /\ pc' = [pc EXCEPT ![q] = IF GetByID(i).role = "admin" THEN "count" ELSE "delete"]
    /\ target' = [target EXCEPT ![q] = i]
    /\ UNCHANGED <<users, lastId, tokens, claims, overtaken>>

\* Mutant: off by one.
DeleteCountOffByOne(q) ==
    /\ pc[q] = "count"
    /\ IF Cardinality(Admins) < 1
       THEN Idle(q)
       ELSE /\ pc' = [pc EXCEPT ![q] = "delete"]
            /\ overtaken' = [overtaken EXCEPT ![q] = FALSE]
            /\ UNCHANGED <<claims, target>>
    /\ UNCHANGED <<users, lastId, tokens>>

\* CountByRole: the last admin is refused.
DeleteCount(q) ==
    /\ pc[q] = "count"
    /\ IF Cardinality(Admins) <= 1
       THEN Idle(q)
       ELSE /\ pc' = [pc EXCEPT ![q] = "delete"]
            /\ overtaken' = [overtaken EXCEPT ![q] = FALSE]
            /\ UNCHANGED <<claims, target>>
    /\ UNCHANGED <<users, lastId, tokens>>

\* DELETE FROM users; a row that is gone by now is a 404.
DeleteUser(q) ==
    /\ pc[q] = "delete"
    /\ Delete(target[q])
    /\ pc' = [pc EXCEPT ![q] = "idle"]
    /\ target' = [target EXCEPT ![q] = 1]
    /\ overtaken' = [r \in Request |-> r # q /\ (overtaken[r] \/ (pc[r] # "idle" /\ target[q] \in Present))]
    /\ UNCHANGED <<lastId, tokens, claims>>

-----------------------------------------------------------------------------
\* The process stops at any point and starts again: requests are gone, rows
\* and tokens stay (the signing secret is configuration), and
\* EnsureAdminExists inserts an admin only into an empty table.
Restart ==
    /\ pc' = [q \in Request |-> "idle"]
    /\ claims' = [q \in Request |-> NoClaims]
    /\ target' = [q \in Request |-> 1]
    /\ overtaken' = [q \in Request |-> FALSE]
    /\ IF Present = {} THEN \E p \in Password: Insert(AdminName, "admin", p)
                       ELSE UNCHANGED <<users, lastId>>
    /\ UNCHANGED tokens

Session(q) == Revalidate(q) \/ Issue(q)

Next ==
    \/ \E q \in Request:
          \/ \E i \in Id, p \in Password: handleLogin(q, i, p)
          \/ \E c \in Claims: handleRefresh(q, c)
          \/ \E c \in Claims, i \in Id: handleDeleteUser(q, c, i)
          \/ Session(q) \/ DeleteCount(q) \/ DeleteUser(q)
    \/ \E s \in Slot: handleLogout(s) \/ Expire(s)
    \/ \E c \in Claims:
          \/ \E n \in Name, r \in Role, p \in Password: handleCreateUser(c, n, r, p)
          \/ \E i \in Id, r \in Role: handleUpdateUserRole(c, i, r)
          \/ \E i \in Id, p \in Password: handleUpdateUserPassword(c, i, p)
    \/ Restart

Spec == Init /\ [][Next]_vars

(***************************************************************************)
(* Fairness: time passes, so a token that is held reaches its exp, and the *)
(* goroutine of a request that is past its first read runs on.             *)
(***************************************************************************)
Fairness ==
    /\ \A s \in Slot: WF_vars(Expire(s))
    /\ \A q \in Request: WF_vars(Session(q) \/ DeleteCount(q) \/ DeleteUser(q))

FairSpec == Spec /\ Fairness

-----------------------------------------------------------------------------
(* Properties. *)

\* What a login or a refresh is about to sign is what the store holds of that
\* user, unless a role change or a deletion overtook the request between its
\* read and its Issue: a refresh never carries a former role forward.
IssuedIsCurrent ==
    \A q \in Request: pc[q] = "issue" /\ ~overtaken[q] =>
        claims[q].id \in Present /\ claims[q] = ClaimsOf(claims[q].id, users[claims[q].id])

\* A token never passes to somebody else: while its id is in the table, it is
\* the id of the user the token was issued to, however often users are
\* deleted and created again under the same or another name.
TokenNamesItsUser ==
    \A c \in InHand \cup {claims[q] : q \in {r \in Request: pc[r] \in {"revalidate", "issue"}}}:
        c.id \in Present => users[c.id].name = c.name

\* The last-admin guard of handleDeleteUser: a delete that no other change of
\* roles and no other delete overtook since it counted does not take the last
\* admin.  (Two deletes that overtake each other can, and a role change has no
\* such guard.)
LastAdminSurvives ==
    \A q \in Request:
        pc[q] = "delete" /\ ~overtaken[q] /\ target[q] \in Admins => Admins # {target[q]}

\* What handleDeleteUser says of itself ("guarding against removal of the last
\* admin"): the row that a request is about to delete is not the only admin.
\* The count and the DELETE are two statements, so this does not hold.
DeleteSparesLastAdmin ==
    \A q \in Request: pc[q] = "delete" /\ target[q] \in Admins => Admins # {target[q]}

\* A deleted user is locked out once the tokens in flight have expired: no
\* chain of refreshes keeps a session of that user alive.
DeletedUserIsLockedOut ==
    \A i \in Id: i <= lastId /\ i \notin Present ~> \A c \in InHand: c.id # i
=============================================================================
