---------------------------- MODULE AccountsProofs ----------------------------
(***************************************************************************)
(* Proofs about Accounts, for any set of roles, names, passwords and       *)
(* requests and any bounds MaxId and MaxTokens.                            *)
(***************************************************************************)
EXTENDS Accounts, FiniteSetTheorems, TLAPS

\* Claims in somebody's hands: a client's token, or what a login or a refresh
\* in progress works with.
Held(c) ==
    \/ \E s \in Slot: c = tokens[s]
    \/ \E q \in Request: pc[q] \in {"revalidate", "issue"} /\ c = claims[q]

(***************************************************************************)
(* The inductive invariant.  TokenNamesItsUser is kept by Insert only      *)
(* because no claim is ahead of the ids given out (HeldInv), and the       *)
(* last-admin guard because no delete is about an id still to come         *)
(* (TargetInv).                                                            *)
(***************************************************************************)
HeldInv ==
    \A c \in Claims: Held(c) =>
        /\ c.id <= lastId
        /\ users[c.id] # NoUser => users[c.id].name = c.name

TargetInv == \A q \in Request: pc[q] \in {"count", "delete"} => target[q] <= lastId

CurrentInv ==
    \A q \in Request: pc[q] = "issue" /\ ~overtaken[q] =>
        /\ users[claims[q].id] # NoUser
        /\ claims[q].name = users[claims[q].id].name
        /\ claims[q].role = users[claims[q].id].role

\* Somebody else is an admin.
Another(i) == \E j \in Id: j # i /\ users[j] # NoUser /\ users[j].role = "admin"

AdminInv ==
    \A q \in Request:
        /\ pc[q] = "delete" /\ ~overtaken[q]
        /\ users[target[q]] # NoUser /\ users[target[q]].role = "admin"
        => Another(target[q])

IndInv == TypeOK /\ HeldInv /\ TargetInv /\ CurrentInv /\ AdminInv

-----------------------------------------------------------------------------
(* What the statements of the user store do. *)

LEMMA RowFields == \A u \in Row: u.name \in Name /\ u.role \in Role /\ u.pw \in Password
BY DEF Row

LEMMA ClaimsFields == \A c \in Claims: c.id \in Id /\ c.name \in Name /\ c.role \in Role
BY DEF Claims

LEMMA NoClaimsType == NoClaims \in Claims
BY AccountsAssumption DEF NoClaims, Claims, Id

LEMMA NoTokenType == NoToken \notin Claims
BY AccountsAssumption DEF NoToken, Claims, Id

LEMMA ClaimsOfType ==
    ASSUME NEW i \in Id, NEW u \in Row
    PROVE  /\ ClaimsOf(i, u) \in Claims
           /\ ClaimsOf(i, u).id = i
           /\ ClaimsOf(i, u).name = u.name
           /\ ClaimsOf(i, u).role = u.role
BY RowFields DEF ClaimsOf, Claims

\* INSERT fills the row after the last id ever given out and no other.
LEMMA InsertEffect ==
    ASSUME TypeOK, NEW n \in Name, NEW r \in Role, NEW p \in Password, Insert(n, r, p)
    PROVE  /\ lastId' = lastId + 1 /\ lastId + 1 \in Id /\ lastId' \in 0..MaxId
           /\ users' \in [Id -> Row \cup {NoUser}]
           /\ users'[lastId + 1] = [name |-> n, role |-> r, pw |-> p]
           /\ \A i \in Id: i # lastId + 1 => users'[i] = users[i]
           /\ users[lastId + 1] = NoUser
           /\ \A i \in Id: users[i] # NoUser => users[i].name # n
<1> DEFINE row == [name |-> n, role |-> r, pw |-> p]
<1>1. row \in Row
  BY DEF Row
<1>2. lastId \in 0..MaxId /\ MaxId \in Nat /\ lastId + 1 \in Id /\ lastId' = lastId + 1
  BY AccountsAssumption DEF TypeOK, Insert, NewId
<1>3. users' = [users EXCEPT ![lastId + 1] = row]
  BY DEF Insert, NewId
<1> HIDE DEF row
<1>4. lastId' \in 0..MaxId
  BY <1>2 DEF Id
<1>5. users[lastId + 1] = NoUser
  BY <1>2 DEF TypeOK
<1>6. \A i \in Id: users[i] # NoUser => users[i].name # n
  BY DEF Insert, Taken, Present
<1> QED BY <1>1, <1>2, <1>3, <1>4, <1>5, <1>6 DEF TypeOK, row

\* UPDATE changes no name and makes no row appear or vanish.
LEMMA UpdateEffect ==
    ASSUME TypeOK, NEW i \in Id,
           \/ \E r \in Role: UpdateRole(i, r)
           \/ \E p \in Password: UpdatePassword(i, p)
    PROVE  /\ users' \in [Id -> Row \cup {NoUser}]
           /\ \A j \in Id: users'[j] # NoUser <=> users[j] # NoUser
           /\ \A j \in Id: users[j] # NoUser => users'[j].name = users[j].name
           /\ \A j \in Id: j # i => users'[j] = users[j]
           /\ (\E p \in Password: UpdatePassword(i, p)) => users'[i].role = users[i].role
<1> DEFINE u == users[i]
<1>1. u \in Row
  BY DEF TypeOK, UpdateRole, UpdatePassword, Present
<1>2. ASSUME NEW r \in Role, UpdateRole(i, r)
      PROVE  \E v \in Row: v.name = u.name /\ users' = [users EXCEPT ![i] = v]
  <2>1. [u EXCEPT !.role = r] \in Row /\ [u EXCEPT !.role = r].name = u.name
    BY <1>1 DEF Row
  <2>2. users' = [users EXCEPT ![i] = [u EXCEPT !.role = r]]
    BY <1>2 DEF UpdateRole, TypeOK
  <2> QED BY <2>1, <2>2
<1>3. ASSUME NEW p \in Password, UpdatePassword(i, p)
      PROVE  \E v \in Row: v.name = u.name /\ v.role = u.role /\ users' = [users EXCEPT ![i] = v]
  <2>1. [u EXCEPT !.pw = p] \in Row /\ [u EXCEPT !.pw = p].name = u.name
          /\ [u EXCEPT !.pw = p].role = u.role
    BY <1>1 DEF Row
  <2>2. users' = [users EXCEPT ![i] = [u EXCEPT !.pw = p]]
    BY <1>3 DEF UpdatePassword, TypeOK
  <2> QED BY <2>1, <2>2
<1>4. PICK v \in Row: v.name = u.name /\ users' = [users EXCEPT ![i] = v]
                      /\ ((\E p \in Password: UpdatePassword(i, p)) => users'[i].role = u.role)
  <2>1. CASE \E p \in Password: UpdatePassword(i, p)
    <3>1. PICK v \in Row: v.name = u.name /\ v.role = u.role /\ users' = [users EXCEPT ![i] = v]
      BY <1>3, <2>1
    <3>2. users'[i] = v
      BY <3>1 DEF TypeOK
    <3> QED BY <3>1, <3>2
  <2>2. CASE ~\E p \in Password: UpdatePassword(i, p)
    BY <1>2, <2>2
  <2> QED BY <2>1, <2>2
<1> QED BY <1>1, <1>4, NoUserAssumption DEF TypeOK

\* DELETE empties one row.
LEMMA DeleteEffect ==
    ASSUME TypeOK, NEW i \in Id, Delete(i)
    PROVE  /\ users' \in [Id -> Row \cup {NoUser}]
           /\ users'[i] = NoUser
           /\ \A j \in Id: j # i => users'[j] = users[j]
BY DEF TypeOK, Delete
-----------------------------------------------------------------------------
(* The steps, as far as the invariant is concerned. *)

\* The requests other than q stay as they are.
Elsewhere(q) ==
    \A r \in Request: r # q =>
        /\ pc'[r] = pc[r] /\ claims'[r] = claims[r]
        /\ target'[r] = target[r] /\ overtaken'[r] = overtaken[r]

RequestsType ==
    /\ pc' \in [Request -> {"idle", "revalidate", "issue", "count", "delete"}]
    /\ claims' \in [Request -> Claims]
    /\ target' \in [Request -> Id]
    /\ overtaken' \in [Request -> BOOLEAN]

LEMMA IdleEffect ==
    ASSUME TypeOK, NEW q \in Request, Idle(q)
    PROVE  Elsewhere(q) /\ RequestsType /\ pc'[q] = "idle"
<1> USE NoClaimsType
<1>1. 1 \in Id
  BY AccountsAssumption DEF Id
<1> QED BY <1>1 DEF TypeOK, Idle, Elsewhere, RequestsType

\* A request moves, and neither the table nor the tokens change: what has to be
\* shown of it is about that request alone.
LEMMA RequestStep ==
    ASSUME IndInv, NEW q \in Request, Elsewhere(q), RequestsType,
           UNCHANGED <<users, lastId, tokens>>,
           pc'[q] \in {"revalidate", "issue"} =>
               /\ claims'[q].id <= lastId
               /\ users[claims'[q].id] # NoUser => users[claims'[q].id].name = claims'[q].name,
           pc'[q] \in {"count", "delete"} => target'[q] <= lastId,
           pc'[q] = "issue" /\ ~overtaken'[q] =>
               /\ users[claims'[q].id] # NoUser
               /\ claims'[q].name = users[claims'[q].id].name
               /\ claims'[q].role = users[claims'[q].id].role,
           /\ pc'[q] = "delete" /\ ~overtaken'[q]
           /\ users[target'[q]] # NoUser /\ users[target'[q]].role = "admin"
           => Another(target'[q])
    PROVE  IndInv'
<1>1. TypeOK'
  BY DEF IndInv, TypeOK, RequestsType
<1>3. HeldInv'
  <2> SUFFICES ASSUME NEW c \in Claims, Held(c)'
               PROVE  c.id <= lastId /\ (users[c.id] # NoUser => users[c.id].name = c.name)
    BY DEF HeldInv
  <2>1. CASE \E s \in Slot: c = tokens[s]
    BY <2>1 DEF IndInv, HeldInv, Held
  <2>2. CASE ~\E s \in Slot: c = tokens[s]
    <3>1. PICK r \in Request: pc'[r] \in {"revalidate", "issue"} /\ c = claims'[r]
      BY <2>2 DEF Held
    <3>2. CASE r = q
      BY <3>1, <3>2
    <3>3. CASE r # q
      BY <3>1, <3>3 DEF IndInv, HeldInv, Held, Elsewhere
    <3> QED BY <3>2, <3>3
  <2> QED BY <2>1, <2>2
<1>4. TargetInv'
  BY DEF IndInv, TargetInv, Elsewhere
<1>5. CurrentInv'
  BY DEF IndInv, CurrentInv, Elsewhere
<1>6. AdminInv'
  BY DEF IndInv, AdminInv, Elsewhere, Another
<1> QED BY <1>1, <1>3, <1>4, <1>5, <1>6 DEF IndInv

LEMMA LoginInv ==
    ASSUME IndInv, NEW q \in Request, NEW i \in Id, NEW p \in Password, handleLogin(q, i, p)
    PROVE  IndInv'
<1>1. users[i] \in Row /\ users[i] # NoUser /\ i <= lastId
  BY NoUserAssumption, AccountsAssumption DEF IndInv, TypeOK, handleLogin, Authenticate, Present, Id
<1>2. pc'[q] = "issue" /\ claims'[q] = ClaimsOf(i, users[i]) /\ Elsewhere(q)
  BY DEF IndInv, TypeOK, handleLogin, Elsewhere
<1>3. RequestsType
  BY <1>1, ClaimsOfType DEF IndInv, TypeOK, handleLogin, RequestsType
<1> QED BY <1>1, <1>2, <1>3, ClaimsOfType, RequestStep DEF handleLogin

LEMMA RefreshInv ==
    ASSUME IndInv, NEW q \in Request, NEW c \in Claims, handleRefresh(q, c)
    PROVE  IndInv'
<1>1. pc'[q] = "revalidate" /\ claims'[q] = c /\ Elsewhere(q) /\ RequestsType
  BY DEF IndInv, TypeOK, handleRefresh, Elsewhere, RequestsType
<1>2. c.id <= lastId /\ (users[c.id] # NoUser => users[c.id].name = c.name)
  BY DEF IndInv, HeldInv, Held, handleRefresh, Authenticated, InHand
<1> QED BY <1>1, <1>2, RequestStep DEF handleRefresh

LEMMA RevalidateInv ==
    ASSUME IndInv, NEW q \in Request, Revalidate(q)
    PROVE  IndInv'
<1> DEFINE i == claims[q].id
<1>1. i \in Id /\ claims[q] \in Claims
  BY ClaimsFields DEF IndInv, TypeOK
<1>2. CASE users[i] # NoUser
  <2>1. users[i] \in Row
    BY <1>1, <1>2 DEF IndInv, TypeOK
  <2>2. pc'[q] = "issue" /\ claims'[q] = ClaimsOf(i, users[i]) /\ Elsewhere(q)
    BY <1>2 DEF IndInv, TypeOK, Revalidate, GetByID, Elsewhere
  <2>3. RequestsType
    <3>1. ClaimsOf(i, users[i]) \in Claims
      BY <1>1, <2>1, ClaimsOfType
    <3>2. claims' = [claims EXCEPT ![q] = ClaimsOf(i, users[i])]
      BY <1>2 DEF Revalidate, GetByID
    <3> QED BY <1>2, <3>1, <3>2 DEF IndInv, TypeOK, Revalidate, GetByID, RequestsType
  <2>4. i <= lastId
    BY <1>1, <1>2, AccountsAssumption DEF IndInv, TypeOK, Id
  <2> QED BY <1>1, <1>2, <2>1, <2>2, <2>3, <2>4, ClaimsOfType, RequestStep DEF Revalidate
<1>3. CASE users[i] = NoUser
  <2>1. Idle(q)
    BY <1>3 DEF Revalidate, GetByID
  <2> QED BY <2>1, IdleEffect, RequestStep DEF Revalidate, IndInv
<1> QED BY <1>2, <1>3

LEMMA DeleteUserBeginsInv ==
    ASSUME IndInv, NEW q \in Request, NEW c \in Claims, NEW i \in Id, handleDeleteUser(q, c, i)
    PROVE  IndInv'
<1>1. i <= lastId
  BY AccountsAssumption DEF IndInv, TypeOK, handleDeleteUser, GetByID, Id
<1>2. /\ pc'[q] = (IF users[i].role = "admin" THEN "count" ELSE "delete")
      /\ target'[q] = i /\ Elsewhere(q) /\ RequestsType
  BY DEF IndInv, TypeOK, handleDeleteUser, GetByID, Elsewhere, RequestsType
<1> QED BY <1>1, <1>2, RequestStep DEF handleDeleteUser

\* The guard: more than one admin is counted, so the target is not the only one.
LEMMA DeleteCountInv ==
    ASSUME IndInv, NEW q \in Request, DeleteCount(q)
    PROVE  IndInv'
<1>1. CASE Cardinality(Admins) <= 1
  <2>1. Idle(q)
    BY <1>1 DEF DeleteCount
  <2> QED BY <2>1, IdleEffect, RequestStep DEF DeleteCount, IndInv
<1>2. CASE ~(Cardinality(Admins) <= 1)
  <2>1. pc'[q] = "delete" /\ target'[q] = target[q] /\ Elsewhere(q) /\ RequestsType
    BY <1>2 DEF IndInv, TypeOK, DeleteCount, Elsewhere, RequestsType
  <2>2. target[q] <= lastId
    BY DEF IndInv, TargetInv, DeleteCount
  <2>3. ASSUME target[q] \in Admins PROVE Another(target[q])
    <3>1. Admins # {target[q]}
      BY <1>2, FS_Singleton
    <3> QED BY <2>3, <3>1 DEF Admins, Present, Another
  <2>4. /\ users[target[q]] # NoUser /\ users[target[q]].role = "admin"
        => Another(target[q])
    BY <2>3 DEF Admins, Present, IndInv, TypeOK
  <2> QED BY <2>1, <2>2, <2>4, RequestStep DEF DeleteCount
<1> QED BY <1>1, <1>2
\* A token is handed out: the claims were held already.
LEMMA IssueInv ==
    ASSUME IndInv, NEW q \in Request, Issue(q)
    PROVE  IndInv'
<1>1. Elsewhere(q) /\ RequestsType /\ pc'[q] = "idle" /\ UNCHANGED <<users, lastId>>
  BY IdleEffect DEF Issue, IndInv
<1>2. claims[q] \in Claims /\ Held(claims[q])
  BY DEF Issue, Held, IndInv, TypeOK
<1>3. PICK s \in Slot: tokens' = [tokens EXCEPT ![s] = claims[q]]
  BY DEF Issue
<1>4. TypeOK'
  BY <1>1, <1>2, <1>3 DEF IndInv, TypeOK, RequestsType
<1>5. ASSUME NEW c \in Claims, Held(c)' PROVE Held(c)
  <2>1. \A r \in Slot: tokens'[r] = claims[q] \/ tokens'[r] = tokens[r]
    BY <1>3 DEF IndInv, TypeOK
  <2> QED BY <1>1, <1>2, <1>5, <2>1 DEF Held, Elsewhere
<1>6. HeldInv'
  BY <1>1, <1>5 DEF IndInv, HeldInv
<1>7. TargetInv' /\ CurrentInv' /\ AdminInv'
  BY <1>1 DEF IndInv, TargetInv, CurrentInv, AdminInv, Elsewhere, Another
<1> QED BY <1>4, <1>6, <1>7 DEF IndInv

LEMMA ForgetInv ==
    ASSUME IndInv, NEW s \in Slot, handleLogout(s) \/ Expire(s)
    PROVE  IndInv'
<1>1. tokens' = [tokens EXCEPT ![s] = NoToken] /\ UNCHANGED <<users, lastId, reqVars>>
  BY DEF handleLogout, Expire
<1>2. \A r \in Slot: tokens'[r] = NoToken \/ tokens'[r] = tokens[r]
  BY <1>1 DEF IndInv, TypeOK
<1>3. TypeOK'
  BY <1>1 DEF IndInv, TypeOK, reqVars
<1>4. ASSUME NEW c \in Claims, Held(c)' PROVE Held(c)
  BY <1>1, <1>2, <1>4, NoTokenType DEF Held, reqVars
<1>5. HeldInv'
  BY <1>1, <1>4 DEF IndInv, HeldInv
<1>6. TargetInv' /\ CurrentInv' /\ AdminInv'
  BY <1>1 DEF IndInv, TargetInv, CurrentInv, AdminInv, Another, reqVars
<1> QED BY <1>3, <1>5, <1>6 DEF IndInv

-----------------------------------------------------------------------------
(* The steps that change the table. *)

\* A new row concerns no claim in anybody's hands and no delete in progress.
LEMMA CreateUserInv ==
    ASSUME IndInv, NEW n \in Name, NEW r \in Role, NEW p \in Password,
           Insert(n, r, p), UNCHANGED <<tokens, reqVars>>
    PROVE  IndInv'
<1> DEFINE new == lastId + 1
<1>1. /\ lastId' = new /\ new \in Id /\ lastId' \in 0..MaxId
      /\ users' \in [Id -> Row \cup {NoUser}]
      /\ users'[new] = [name |-> n, role |-> r, pw |-> p]
      /\ \A i \in Id: i # new => users'[i] = users[i]
      /\ users[new] = NoUser
      /\ \A i \in Id: users[i] # NoUser => users[i].name # n
  BY InsertEffect DEF IndInv
<1>2. MaxId \in Nat /\ lastId \in Nat
  BY AccountsAssumption DEF IndInv, TypeOK
<1> HIDE DEF new
<1>3. users'[new].name = n
  BY <1>1
<1>4. \A i \in Id: i > lastId' => users'[i] = NoUser
  BY <1>1, <1>2 DEF IndInv, TypeOK, Id, new
<1>5. \A i, j \in Id: i # j /\ users'[i] # NoUser /\ users'[j] # NoUser
                        => users'[i].name # users'[j].name
  <2> SUFFICES ASSUME NEW i \in Id, NEW j \in Id, i # j, users'[i] # NoUser, users'[j] # NoUser
               PROVE  users'[i].name # users'[j].name
    OBVIOUS
  <2>1. CASE i = new
    BY <1>1, <1>3, <2>1
  <2>2. CASE j = new
    BY <1>1, <1>3, <2>2
  <2>3. CASE i # new /\ j # new
    BY <1>1, <2>3 DEF IndInv, TypeOK
  <2> QED BY <2>1, <2>2, <2>3
<1>6. TypeOK'
  BY <1>1, <1>4, <1>5 DEF IndInv, TypeOK, reqVars
<1>7. \A i \in Id: i <= lastId => i # new /\ users'[i] = users[i] /\ i <= lastId'
  BY <1>1, <1>2 DEF Id, new
<1>8. HeldInv'
  <2>1. \A c \in Claims: Held(c)' => Held(c)
    BY DEF Held, reqVars
  <2> QED BY <1>7, <2>1, ClaimsFields DEF IndInv, HeldInv
<1>9. TargetInv'
  BY <1>7 DEF IndInv, TypeOK, TargetInv, reqVars
<1>10. CurrentInv'
  <2> SUFFICES ASSUME NEW q \in Request, pc[q] = "issue", ~overtaken[q]
               PROVE  /\ users'[claims[q].id] # NoUser
                      /\ claims[q].name = users'[claims[q].id].name
                      /\ claims[q].role = users'[claims[q].id].role
    BY DEF CurrentInv, reqVars
  <2>1. claims[q].id \in Id /\ claims[q].id <= lastId
    BY ClaimsFields DEF IndInv, TypeOK, HeldInv, Held
  <2> QED BY <1>7, <2>1 DEF IndInv, CurrentInv
<1>11. AdminInv'
  <2> SUFFICES ASSUME NEW q \in Request, pc[q] = "delete", ~overtaken[q],
                      users'[target[q]] # NoUser, users'[target[q]].role = "admin"
               PROVE  Another(target[q])'
    BY DEF AdminInv, Another, reqVars
  <2>1. target[q] \in Id /\ users'[target[q]] = users[target[q]]
    BY <1>7 DEF IndInv, TypeOK, TargetInv
  <2>2. PICK j \in Id: j # target[q] /\ users[j] # NoUser /\ users[j].role = "admin"
    BY <2>1 DEF IndInv, AdminInv, Another
  <2>3. users'[j] = users[j] /\ target'[q] = target[q]
    BY <1>1, <2>2 DEF reqVars
  <2> QED BY <2>2, <2>3 DEF Another
<1> QED BY <1>6, <1>8, <1>9, <1>10, <1>11 DEF IndInv

\* A new role leaves names alone and marks every request in progress; a new
\* password leaves roles alone too.
LEMMA UpdateInv ==
    ASSUME IndInv, NEW i \in Id,
           \/ (\E r \in Role: UpdateRole(i, r)) /\ Overtake
           \/ (\E p \in Password: UpdatePassword(i, p)) /\ UNCHANGED overtaken,
           UNCHANGED <<lastId, tokens, pc, claims, target>>
    PROVE  IndInv'
<1>1. /\ users' \in [Id -> Row \cup {NoUser}]
      /\ \A j \in Id: users'[j] # NoUser <=> users[j] # NoUser
      /\ \A j \in Id: users[j] # NoUser => users'[j].name = users[j].name
      /\ \A j \in Id: j # i => users'[j] = users[j]
      /\ (\E p \in Password: UpdatePassword(i, p)) => users'[i].role = users[i].role
  BY UpdateEffect DEF IndInv
<1>2. overtaken' \in [Request -> BOOLEAN]
  BY DEF IndInv, TypeOK, Overtake
<1>3. \A j \in Id: j > lastId => users'[j] = NoUser
  BY <1>1 DEF IndInv, TypeOK
<1>4. TypeOK'
  BY <1>1, <1>2, <1>3 DEF IndInv, TypeOK
<1>5. HeldInv'
  <2>1. \A c \in Claims: Held(c)' => Held(c)
    BY DEF Held
  <2> QED BY <1>1, <2>1, ClaimsFields DEF IndInv, HeldInv
<1>6. TargetInv'
  BY DEF IndInv, TargetInv
<1>7. ASSUME NEW q \in Request, pc[q] # "idle", ~overtaken'[q]
      PROVE  ~overtaken[q] /\ \A j \in Id: users'[j].role = users[j].role
  BY <1>1, <1>7 DEF Overtake
<1>8. CurrentInv'
  <2> SUFFICES ASSUME NEW q \in Request, pc[q] = "issue", ~overtaken'[q]
               PROVE  /\ users'[claims[q].id] # NoUser
                      /\ claims[q].name = users'[claims[q].id].name
                      /\ claims[q].role = users'[claims[q].id].role
    BY DEF CurrentInv
  <2>1. claims[q].id \in Id
    BY ClaimsFields DEF IndInv, TypeOK
  <2> QED BY <1>1, <1>7, <2>1 DEF IndInv, CurrentInv
<1>9. AdminInv'
  <2> SUFFICES ASSUME NEW q \in Request, pc[q] = "delete", ~overtaken'[q],
                      users'[target[q]] # NoUser, users'[target[q]].role = "admin"
               PROVE  Another(target[q])'
    BY DEF AdminInv, Another
  <2>1. target[q] \in Id
    BY DEF IndInv, TypeOK
  <2>2. PICK j \in Id: j # target[q] /\ users[j] # NoUser /\ users[j].role = "admin"
    BY <1>1, <1>7, <2>1 DEF IndInv, AdminInv, Another
  <2> QED BY <1>1, <1>7, <2>2 DEF Another
<1> QED BY <1>4, <1>5, <1>6, <1>8, <1>9 DEF IndInv

\* A row goes: every other request in progress is marked, unless the row was
\* gone already.
LEMMA DeleteUserInv ==
    ASSUME IndInv, NEW q \in Request, DeleteUser(q)
    PROVE  IndInv'
<1> DEFINE i == target[q]
<1>1. i \in Id /\ 1 \in Id
  BY AccountsAssumption DEF IndInv, TypeOK, Id
<1>2. /\ users' \in [Id -> Row \cup {NoUser}]
      /\ users'[i] = NoUser
      /\ \A j \in Id: j # i => users'[j] = users[j]
  BY <1>1, DeleteEffect DEF IndInv, DeleteUser
<1>3. pc'[q] = "idle" /\ UNCHANGED <<lastId, tokens, claims>>
      /\ \A r \in Request: r # q => pc'[r] = pc[r] /\ target'[r] = target[r]
  BY DEF IndInv, TypeOK, DeleteUser
<1>4. \A r \in Request: r # q /\ ~overtaken'[r] /\ pc[r] # "idle" =>
                         ~overtaken[r] /\ \A j \in Id: users'[j] = users[j]
  BY <1>1, <1>2 DEF DeleteUser, Present
<1>5. TypeOK'
  BY <1>1, <1>2, <1>3 DEF IndInv, TypeOK, DeleteUser
<1>6. HeldInv'
  <2>1. \A c \in Claims: Held(c)' => Held(c)
    BY <1>3 DEF Held
  <2> QED BY <1>2, <1>3, <2>1, ClaimsFields DEF IndInv, HeldInv
<1>7. TargetInv'
  BY <1>3 DEF IndInv, TargetInv
<1>8. CurrentInv'
  <2> SUFFICES ASSUME NEW r \in Request, pc'[r] = "issue", ~overtaken'[r]
               PROVE  /\ users'[claims[r].id] # NoUser
                      /\ claims[r].name = users'[claims[r].id].name
                      /\ claims[r].role = users'[claims[r].id].role
    BY <1>3 DEF CurrentInv
  <2>1. claims[r].id \in Id /\ r # q /\ pc[r] = "issue"
    BY <1>3, ClaimsFields DEF IndInv, TypeOK
  <2> QED BY <1>4, <2>1 DEF IndInv, CurrentInv
<1>9. AdminInv'
  <2> SUFFICES ASSUME NEW r \in Request, pc'[r] = "delete", ~overtaken'[r],
                      users'[target'[r]] # NoUser, users'[target'[r]].role = "admin"
               PROVE  Another(target[r])'
    BY DEF AdminInv, Another
  <2>1. r # q /\ pc[r] = "delete" /\ target'[r] = target[r] /\ target[r] \in Id
    BY <1>3 DEF IndInv, TypeOK
  <2>2. PICK j \in Id: j # target[r] /\ users[j] # NoUser /\ users[j].role = "admin"
    BY <1>4, <2>1 DEF IndInv, AdminInv, Another
  <2> QED BY <1>4, <2>1, <2>2 DEF Another
<1> QED BY <1>5, <1>6, <1>7, <1>8, <1>9 DEF IndInv

\* After a restart no request is in progress.
LEMMA RestartInv ==
    ASSUME IndInv, Restart
    PROVE  IndInv'
<1>1. 1 \in Id /\ AdminName \in Name /\ "admin" \in Role
  BY AccountsAssumption DEF Id
<1>2. RequestsType
  BY <1>1, NoClaimsType DEF Restart, RequestsType
<1>3. \A q \in Request: pc'[q] = "idle"
  BY DEF Restart
<1>4. TargetInv' /\ CurrentInv' /\ AdminInv'
  BY <1>3 DEF TargetInv, CurrentInv, AdminInv
<1>5. \A c \in Claims: Held(c)' => Held(c)
  BY <1>3 DEF Held, Restart
<1>6. CASE UNCHANGED <<users, lastId>>
  <2>1. TypeOK' /\ HeldInv'
    BY <1>2, <1>5, <1>6 DEF IndInv, TypeOK, HeldInv, RequestsType, Restart
  <2> QED BY <1>4, <2>1 DEF IndInv
<1>7. CASE \E p \in Password: Insert(AdminName, "admin", p)
  <2>1. PICK p \in Password: Insert(AdminName, "admin", p)
    BY <1>7
  <2>2. /\ lastId' = lastId + 1 /\ lastId + 1 \in Id /\ lastId' \in 0..MaxId
        /\ users' \in [Id -> Row \cup {NoUser}]
        /\ \A i \in Id: i # lastId + 1 => users'[i] = users[i]
        /\ users'[lastId + 1].name = AdminName
        /\ \A i \in Id: users[i] # NoUser => users[i].name # AdminName
    <3>1. TypeOK /\ AdminName \in Name /\ "admin" \in Role
      BY AccountsAssumption DEF IndInv
    <3>2. /\ lastId' = lastId + 1 /\ lastId + 1 \in Id /\ lastId' \in 0..MaxId
          /\ users' \in [Id -> Row \cup {NoUser}]
          /\ users'[lastId + 1] = [name |-> AdminName, role |-> "admin", pw |-> p]
          /\ \A i \in Id: i # lastId + 1 => users'[i] = users[i]
          /\ \A i \in Id: users[i] # NoUser => users[i].name # AdminName
      BY <2>1, <3>1, InsertEffect, Zenon
    <3>3. users'[lastId + 1].name = AdminName
      BY <3>2
    <3> QED BY <3>2, <3>3, Zenon
  <2>3. lastId \in Nat
    BY AccountsAssumption DEF IndInv, TypeOK
  <2>4. \A i \in Id: i > lastId' => users'[i] = NoUser
    BY <2>2, <2>3 DEF IndInv, TypeOK, Id
  <2>5. \A i, j \in Id: i # j /\ users'[i] # NoUser /\ users'[j] # NoUser
                          => users'[i].name # users'[j].name
    BY <2>2 DEF IndInv, TypeOK
  <2>6. TypeOK'
    BY <1>2, <2>2, <2>4, <2>5 DEF IndInv, TypeOK, RequestsType, Restart
  <2>7. \A i \in Id: i <= lastId => users'[i] = users[i] /\ i <= lastId'
    BY <2>2, <2>3 DEF Id
  <2>8. HeldInv'
    BY <1>5, <2>7, ClaimsFields DEF IndInv, HeldInv
  <2> QED BY <1>4, <2>6, <2>8 DEF IndInv
<1> QED BY <1>6, <1>7 DEF Restart

-----------------------------------------------------------------------------
LEMMA InitInv == Init => IndInv
<1> SUFFICES ASSUME Init PROVE IndInv
  OBVIOUS
<1>1. 1 \in Id /\ 0 \in 0..MaxId /\ MaxTokens \in Nat
  BY AccountsAssumption DEF Id
<1>2. TypeOK
  BY <1>1, NoClaimsType DEF Init, TypeOK
<1>3. HeldInv /\ TargetInv /\ CurrentInv /\ AdminInv
  BY NoTokenType DEF Init, HeldInv, Held, TargetInv, CurrentInv, AdminInv
<1> QED BY <1>2, <1>3 DEF IndInv

LEMMA NextInv == IndInv /\ [Next]_vars => IndInv'
<1> SUFFICES ASSUME IndInv, [Next]_vars PROVE IndInv'
  OBVIOUS
<1>1. ASSUME NEW q \in Request, NEW i \in Id, NEW p \in Password, handleLogin(q, i, p)
      PROVE  IndInv'
  BY <1>1, LoginInv
<1>2. ASSUME NEW q \in Request, NEW c \in Claims, handleRefresh(q, c) PROVE IndInv'
  BY <1>2, RefreshInv
<1>3. ASSUME NEW q \in Request, NEW c \in Claims, NEW i \in Id, handleDeleteUser(q, c, i)
      PROVE  IndInv'
  BY <1>3, DeleteUserBeginsInv
<1>4. ASSUME NEW q \in Request, Session(q) \/ DeleteCount(q) \/ DeleteUser(q) PROVE IndInv'
  BY <1>4, RevalidateInv, IssueInv, DeleteCountInv, DeleteUserInv DEF Session
<1>5. ASSUME NEW s \in Slot, handleLogout(s) \/ Expire(s) PROVE IndInv'
  BY <1>5, ForgetInv
<1>6. ASSUME NEW c \in Claims, NEW n \in Name, NEW r \in Role, NEW p \in Password,
             handleCreateUser(c, n, r, p)
      PROVE  IndInv'
  BY <1>6, CreateUserInv DEF handleCreateUser
<1>7. ASSUME NEW c \in Claims, NEW i \in Id, NEW r \in Role, handleUpdateUserRole(c, i, r)
      PROVE  IndInv'
  BY <1>7, UpdateInv DEF handleUpdateUserRole
<1>8. ASSUME NEW c \in Claims, NEW i \in Id, NEW p \in Password,
             handleUpdateUserPassword(c, i, p)
      PROVE  IndInv'
  BY <1>8, UpdateInv DEF handleUpdateUserPassword, reqVars
<1>9. CASE Restart
  BY <1>9, RestartInv
<1>10. CASE UNCHANGED vars
  BY <1>10 DEF vars, IndInv, TypeOK, HeldInv, Held, TargetInv, CurrentInv,
               AdminInv, Another
<1> QED BY <1>1, <1>2, <1>3, <1>4, <1>5, <1>6, <1>7, <1>8, <1>9, <1>10 DEF Next

LEMMA Inductive == Spec => []IndInv
BY InitInv, NextInv, PTL DEF Spec

-----------------------------------------------------------------------------
\* Every variable keeps its type, ids ahead of the counter are unused, and no
\* two users share a name (store.go: UNIQUE username, AUTOINCREMENT).
THEOREM TypeCorrect == Spec => []TypeOK
<1>1. IndInv => TypeOK
  BY DEF IndInv
<1> QED BY <1>1, Inductive, PTL

\* Whatever is created, deleted and created again, a token never passes to
\* another user (middleware.go honours it without a look at the table).
THEOREM TokensKeepTheirUser == Spec => []TokenNamesItsUser
<1>1. IndInv => TokenNamesItsUser
  BY DEF IndInv, HeldInv, Held, TypeOK, TokenNamesItsUser, InHand, Present
<1> QED BY <1>1, Inductive, PTL

\* A login or refresh signs the role the store holds, unless a role change or a
\* deletion came between its read and Issue (api_auth.go, handleRefresh).
THEOREM IssuesCurrentRole == Spec => []IssuedIsCurrent
<1>1. IndInv => IssuedIsCurrent
  <2> SUFFICES ASSUME IndInv, NEW q \in Request, pc[q] = "issue", ~overtaken[q]
               PROVE  claims[q].id \in Present /\ claims[q] = ClaimsOf(claims[q].id, users[claims[q].id])
    BY DEF IssuedIsCurrent
  <2>1. claims[q] \in Claims /\ claims[q].id \in Id
    BY ClaimsFields DEF IndInv, TypeOK
  <2>2. /\ users[claims[q].id] # NoUser
        /\ claims[q].name = users[claims[q].id].name
        /\ claims[q].role = users[claims[q].id].role
    BY DEF IndInv, CurrentInv
  <2>3. claims[q] = [id |-> claims[q].id, name |-> claims[q].name, role |-> claims[q].role]
    BY <2>1 DEF Claims
  <2> QED BY <2>1, <2>2, <2>3 DEF Present, ClaimsOf
<1> QED BY <1>1, Inductive, PTL

\* The last-admin guard of handleDeleteUser holds for every number of users and
\* requests, as long as nothing overtakes the request after it counted.
THEOREM GuardSparesLastAdmin == Spec => []LastAdminSurvives
<1>1. IndInv => LastAdminSurvives
  BY DEF IndInv, AdminInv, LastAdminSurvives, Admins, Present, Another
<1> QED BY <1>1, Inductive, PTL
=============================================================================
