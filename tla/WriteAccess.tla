----------------------------- MODULE WriteAccess -----------------------------
(***************************************************************************)
(* Writing a PLC tag: POST .../write and DCMD (internal/server/            *)
(* api_write.go, EdgeNode.handleDCMD), the write guard                     *)
(* (internal/writeguard/guard.go), the rules it asks (internal/aclstore,   *)
(* api_acl.go) and the audit log (internal/auth/audit.go).                 *)
(*                                                                         *)
(* The guard reads the tag's switches from the PLC store and the rule from *)
(* the ACL store in two queries, then the handler writes: each is a step,  *)
(* and the PLC configuration and the rules change in between.  A tag       *)
(* stands for a (plc, tag) pair, and a rule for its row: (role, plc, tag)  *)
(* is UNIQUE.  Rules outlive the tags they name.  Values are abstracted,   *)
(* and so is what the log holds: its errors are discarded, nobody reads it.*)
(***************************************************************************)
EXTENDS Integers, ServerRun

CONSTANTS
    Role,       \* viewer, operator, admin
    Tag,
    HttpWrite,  \* HTTP requests
    DcmdWrite,  \* metrics of DCMD messages
    NoTag,      \* the PLC store has no such tag
    SeedMeta,   \* the tags that the PLC store holds at boot
    SomeRole, SomeTag,  \* what role and tag hold before a write begins
    MaxEdits    \* bound: changes of the configuration and of the rules

Write == HttpWrite \cup DcmdWrite
Meta == [writable: BOOLEAN, dcmd: BOOLEAN]

ASSUME WriteAccessAssumption ==
    /\ HttpWrite \cap DcmdWrite = {}
    /\ NoTag \notin Meta /\ SeedMeta \in [Tag -> Meta \cup {NoTag}]
    /\ SomeRole \in Role /\ SomeTag \in Tag
    /\ MaxEdits \in Nat

VARIABLES
    meta,       \* plc_tags: the two switches of each tag
    rules,      \* tag_acl: "none", "allow" or "deny" for each role and tag
    edits,      \* counter for MaxEdits
    edited,     \* an ACL handler has changed the rules and not yet logged it
    step,       \* where each write is
    role,       \* role in the claims of each HTTP write
    tag,        \* the tag it is about
    saw         \* history: gates open at some moment since the write began

accessVars == <<meta, rules, edits, edited, step, role, tag, saw>>
writeVars == <<step, role, tag>>

AccessTypeOK ==
    /\ meta \in [Tag -> Meta \cup {NoTag}]
    /\ rules \in [Role \X Tag -> {"none", "allow", "deny"}]
    /\ edits \in 0..MaxEdits
    /\ edited \in BOOLEAN
    /\ step \in [Write -> {"idle", "meta", "acl", "write", "audit", "done"}]
    /\ role \in [HttpWrite -> Role]
    /\ tag \in [Write -> Tag]
    /\ saw \in [Write -> SUBSET {"switch", "grant", "dcmd"}]

\* An empty ACL store denies everything; the tags are those of the PLC store.
AccessInit ==
    /\ meta = SeedMeta
    /\ rules = [k \in Role \X Tag |-> "none"]
    /\ edits = 0
    /\ edited = FALSE
    /\ step = [w \in Write |-> "idle"]
    /\ role = [w \in HttpWrite |-> SomeRole]
    /\ tag = [w \in Write |-> SomeTag]
    /\ saw = [w \in Write |-> {}]

-----------------------------------------------------------------------------
(* The stores. *)

\* The row of a tag; a query that fails is as good as no row.
TagMeta(t) == IF "plc" \in open THEN meta[t] ELSE NoTag

Writable(m) == m # NoTag /\ m.writable

\* Mutant: the rule of any role will do.
CanWriteAnyRole(k) == \E r \in Role: rules[<<r, k[2]>>] = "allow"

\* CanWrite: an exact match with allow_write = 1.
CanWrite(k) == rules[k] = "allow"

\* INSERT: (role, plc, tag) is UNIQUE.
CreateRule(k, v) ==
    /\ rules[k] = "none"
    /\ rules' = [rules EXCEPT ![k] = v]

\* UPDATE of all columns: the row may move to another key that is free.
UpdateRule(j, k, v) ==
    /\ rules[j] # "none" /\ (j = k \/ rules[k] = "none")
    /\ rules' = [rules EXCEPT ![j] = "none", ![k] = v]

DeleteRule(k) ==
    /\ rules[k] # "none"
    /\ rules' = [rules EXCEPT ![k] = "none"]

\* The gates that are open for a write: the tag's switches m, the role's rule v.
OpenGates(m, v) ==
    (IF Writable(m) THEN {"switch"} ELSE {})
    \cup (IF m # NoTag /\ m.dcmd THEN {"dcmd"} ELSE {})
    \cup (IF v = "allow" THEN {"grant"} ELSE {})

RuleOf(w, r, t, acl) == IF w \in HttpWrite THEN acl[<<r, t>>] ELSE "none"

\* History: the writes in progress see the gates of the new state as well.
See ==
    saw' = [w \in Write |-> IF step[w] \in {"meta", "acl"}
                            THEN saw[w] \cup OpenGates(meta'[tag[w]], RuleOf(w, role[w], tag[w], rules'))
                            ELSE saw[w]]

\* A PLC is created, updated or deleted through the configuration API.
EditTag(t, m) ==
    /\ edits < MaxEdits /\ Accepting /\ "plc" \in open
    /\ meta[t] # m
    /\ meta' = [meta EXCEPT ![t] = m]
    /\ edits' = edits + 1
    /\ UNCHANGED <<rules, edited, writeVars>>
    /\ See

\* handleCreateACLRule; a second rule for the key is a 409.
handleCreateACLRule(k, v) ==
    /\ edits < MaxEdits /\ Accepting /\ ~edited /\ "acl" \in open
    /\ CreateRule(k, v)
    /\ edits' = edits + 1
    /\ edited' = TRUE
    /\ UNCHANGED <<meta, writeVars>>
    /\ See

handleUpdateACLRule(j, k, v) ==
    /\ edits < MaxEdits /\ Accepting /\ ~edited /\ "acl" \in open
    /\ UpdateRule(j, k, v)
    /\ edits' = edits + 1
    /\ edited' = TRUE
    /\ UNCHANGED <<meta, writeVars>>
    /\ See

handleDeleteACLRule(k) ==
    /\ edits < MaxEdits /\ Accepting /\ ~edited /\ "acl" \in open
    /\ DeleteRule(k)
    /\ edits' = edits + 1
    /\ edited' = TRUE
    /\ UNCHANGED <<meta, writeVars>>
    /\ See

\* The handler logs acl.create, acl.update or acl.delete (an error of Log is
\* discarded) and answers.
ACLAudit ==
    /\ edited
    /\ edited' = FALSE
    /\ UNCHANGED <<meta, rules, edits, writeVars, saw>>

-----------------------------------------------------------------------------
(* A write. *)

Begin(w, r, t, p) ==
    /\ step[w] = "idle"
    /\ step' = [step EXCEPT ![w] = p]
    /\ tag' = [tag EXCEPT ![w] = t]
    /\ role' = [x \in HttpWrite |-> IF x = w THEN r ELSE role[x]]
    /\ saw' = [saw EXCEPT ![w] = OpenGates(meta[t], RuleOf(w, r, t, rules))]
    /\ UNCHANGED <<meta, rules, edits, edited>>

\* The guard's answer: on to p, or denied and on to the audit log.
Decide(w, allowed, p) ==
    /\ step' = [step EXCEPT ![w] = IF allowed THEN p ELSE "audit"]
    /\ saw' = IF allowed THEN saw ELSE [saw EXCEPT ![w] = {}]
    /\ UNCHANGED <<meta, rules, edits, edited, role, tag>>

\* handleWriteTag: the tag must exist, or the answer is 404 without an entry.
handleWriteTag(w, r, t) ==
    /\ Accepting
    /\ Begin(w, r, t, IF TagMeta(t) = NoTag THEN "done" ELSE "meta")

\* handleDCMD calls the closure of SparkplugCommandHandler.
handleDCMD(w, t) == BrokerUp /\ Begin(w, SomeRole, t, "meta")

\* AuthorizeHTTP, gate 1: TagMeta; a query that fails denies.
AuthorizeHTTP(w) ==
    /\ step[w] = "meta" /\ w \in HttpWrite
    /\ Decide(w, Writable(TagMeta(tag[w])), "acl")

\* AuthorizeHTTP, gate 2: CanWrite; a query that fails denies.
AuthorizeACL(w) ==
    /\ step[w] = "acl"
    /\ Decide(w, "acl" \in open /\ CanWrite(<<role[w], tag[w]>>), "write")

\* AuthorizeDCMD: both switches, no rule.
AuthorizeDCMD(w) ==
    /\ step[w] = "meta" /\ w \in DcmdWrite
    /\ Decide(w, Writable(TagMeta(tag[w])) /\ TagMeta(tag[w]).dcmd, "write")

\* plcMgr.WriteTag.  Whether the PLC took the value and whether its answer
\* came back make a difference to the outcome in the entry only.
WriteTag(w) ==
    /\ step[w] = "write"
    /\ step' = [step EXCEPT ![w] = "audit"]
    /\ saw' = [saw EXCEPT ![w] = {}]
    /\ UNCHANGED <<meta, rules, edits, edited, role, tag>>

\* emitWriteAudit, and the answer.  An error of Log is discarded, so a handler
\* that is through need not have left an entry, even when the log was open.
emitWriteAudit(w) ==
    /\ step[w] = "audit"
    /\ step' = [step EXCEPT ![w] = "done"]
    /\ role' = [x \in HttpWrite |-> IF x = w THEN SomeRole ELSE role[x]]
    /\ tag' = [tag EXCEPT ![w] = SomeTag]
    /\ UNCHANGED <<meta, rules, edits, edited, saw>>

WriteSteps(w) ==
    \/ AuthorizeHTTP(w) \/ AuthorizeACL(w) \/ AuthorizeDCMD(w)
    \/ WriteTag(w) \/ emitWriteAudit(w)

Administer ==
    \/ \E t \in Tag, m \in Meta \cup {NoTag}: EditTag(t, m)
    \/ \E k \in Role \X Tag:
          \/ \E v \in {"allow", "deny"}: handleCreateACLRule(k, v)
          \/ \E j \in Role \X Tag, v \in {"allow", "deny"}: handleUpdateACLRule(j, k, v)
          \/ handleDeleteACLRule(k)
    \/ ACLAudit

\* Requests that http.Server.Shutdown waits for.
ActiveHandlers == {w \in HttpWrite: step[w] \notin {"idle", "done"}}

-----------------------------------------------------------------------------
(* Properties. *)

\* What is revoked stays revoked: a write reaches the PLC only if each gate it
\* needs was open at some moment after the request began.  A rule or a switch
\* withdrawn before that, or another role's rule, never admits it.  (The two
\* gates are read one after the other, so they need not have been open
\* together, and a revocation during the request may come too late.)
NoWriteAfterRevocation ==
    \A w \in Write: step[w] = "write" =>
        (IF w \in HttpWrite THEN {"switch", "grant"} ELSE {"switch", "dcmd"}) \subseteq saw[w]
=============================================================================
