-------------------------- MODULE WriteAccessProofs --------------------------
(***************************************************************************)
(* What every step of WriteAccess preserves, for any roles, tags, writes   *)
(* and number of edits.  GatewayProofs takes it to the composition.        *)
(***************************************************************************)
EXTENDS WriteAccess, TLAPS

\* The steps of the write path, without what the gateway says of the clients.
Accesses ==
    \/ \E w \in HttpWrite, r \in Role, t \in Tag: handleWriteTag(w, r, t)
    \/ \E w \in DcmdWrite, t \in Tag: handleDCMD(w, t)
    \/ Administer
    \/ \E w \in Write: WriteSteps(w)

(***************************************************************************)
(* The inductive invariant.  The history saw[w] holds at least the gates   *)
(* that are open now, from the moment a write begins until it is decided   *)
(* (SawInv): so the gate that the guard finds open is in it, and the       *)
(* second query does not forget the first (AclInv).                        *)
(***************************************************************************)
Gates(w) == OpenGates(meta[tag[w]], RuleOf(w, role[w], tag[w], rules))

SawInv == \A w \in Write: step[w] \in {"meta", "acl"} => Gates(w) \subseteq saw[w]

AclInv == \A w \in Write: step[w] = "acl" => w \in HttpWrite /\ "switch" \in saw[w]

AccessInv == AccessTypeOK /\ SawInv /\ AclInv /\ NoWriteAfterRevocation

-----------------------------------------------------------------------------
LEMMA InitAccess == AccessInit => AccessInv
<1> SUFFICES ASSUME AccessInit PROVE AccessInv
  OBVIOUS
<1>1. meta \in [Tag -> Meta \cup {NoTag}] /\ edits \in 0..MaxEdits
  BY WriteAccessAssumption DEF AccessInit
<1>2. rules \in [Role \X Tag -> {"none", "allow", "deny"}]
  BY DEF AccessInit
<1>3. role \in [HttpWrite -> Role] /\ tag \in [Write -> Tag]
  BY WriteAccessAssumption DEF AccessInit
<1>4. saw \in [Write -> SUBSET {"switch", "grant", "dcmd"}]
  BY DEF AccessInit
<1>5. AccessTypeOK
  BY <1>1, <1>2, <1>3, <1>4 DEF AccessInit, AccessTypeOK
<1> QED BY <1>5 DEF AccessInit, AccessInv, SawInv, AclInv, NoWriteAfterRevocation

\* The gates are named by the three strings of the history.
LEMMA GatesType ==
    ASSUME NEW m, NEW v
    PROVE  OpenGates(m, v) \in SUBSET {"switch", "grant", "dcmd"}
BY DEF OpenGates

\* A tag that the store reports as writable is writable: a query that fails
\* reports none.
LEMMA WritableOpens ==
    ASSUME NEW t \in Tag, Writable(TagMeta(t)), NEW v
    PROVE  /\ "switch" \in OpenGates(meta[t], v)
           /\ TagMeta(t).dcmd => "dcmd" \in OpenGates(meta[t], v)
BY DEF Writable, TagMeta, OpenGates

-----------------------------------------------------------------------------
(* Administration: only the rules, the switches and the history change. *)

LEMMA SeeInv ==
    ASSUME AccessInv, UNCHANGED writeVars, See,
           meta' \in [Tag -> Meta \cup {NoTag}],
           rules' \in [Role \X Tag -> {"none", "allow", "deny"}],
           edits' \in 0..MaxEdits, edited' \in BOOLEAN
    PROVE  AccessInv'
<1>1. UNCHANGED <<step, role, tag>>
  BY DEF writeVars
<1>2. \A w \in Write: saw'[w] = IF step[w] \in {"meta", "acl"} THEN saw[w] \cup Gates(w)' ELSE saw[w]
  BY <1>1 DEF See, Gates
<1>3. \A w \in Write: Gates(w)' \in SUBSET {"switch", "grant", "dcmd"}
  BY GatesType DEF Gates
<1>4. saw' \in [Write -> SUBSET {"switch", "grant", "dcmd"}]
  <2>1. saw \in [Write -> SUBSET {"switch", "grant", "dcmd"}]
    BY DEF AccessInv, AccessTypeOK
  <2>2. \A w \in Write: saw'[w] \in SUBSET {"switch", "grant", "dcmd"}
    BY <1>2, <1>3, <2>1
  <2>3. saw' = [w \in Write |-> saw'[w]]
    BY DEF See
  <2> QED BY <2>2, <2>3
<1>5. AccessTypeOK'
  BY <1>1, <1>4 DEF AccessInv, AccessTypeOK
<1>6. SawInv'
  BY <1>1, <1>2 DEF SawInv
<1>7. AclInv' /\ NoWriteAfterRevocation'
  BY <1>1, <1>2 DEF AccessInv, AclInv, NoWriteAfterRevocation
<1> QED BY <1>5, <1>6, <1>7 DEF AccessInv

LEMMA AdministerInv ==
    ASSUME AccessInv, Administer
    PROVE  AccessInv'
<1>0. /\ meta \in [Tag -> Meta \cup {NoTag}]
      /\ rules \in [Role \X Tag -> {"none", "allow", "deny"}]
      /\ edits \in 0..MaxEdits /\ edited \in BOOLEAN /\ MaxEdits \in Nat
  BY WriteAccessAssumption DEF AccessInv, AccessTypeOK
<1>1. ASSUME NEW t \in Tag, NEW m \in Meta \cup {NoTag}, EditTag(t, m) PROVE AccessInv'
  <2>1. UNCHANGED writeVars /\ See
    BY <1>1 DEF EditTag, writeVars
  <2>2. meta' \in [Tag -> Meta \cup {NoTag}] /\ rules' = rules /\ edits' \in 0..MaxEdits /\ edited' = edited
    BY <1>0, <1>1 DEF EditTag
  <2> QED BY <1>0, <2>1, <2>2, SeeInv
<1>2. ASSUME NEW k \in Role \X Tag, NEW v \in {"allow", "deny"}, handleCreateACLRule(k, v)
      PROVE  AccessInv'
  <2>1. UNCHANGED writeVars /\ See
    BY <1>2 DEF handleCreateACLRule, writeVars
  <2>2. meta' = meta /\ edits' \in 0..MaxEdits /\ edited' \in BOOLEAN
    BY <1>0, <1>2 DEF handleCreateACLRule
  <2>3. rules' \in [Role \X Tag -> {"none", "allow", "deny"}]
    BY <1>0, <1>2 DEF handleCreateACLRule, CreateRule
  <2> QED BY <1>0, <2>1, <2>2, <2>3, SeeInv
<1>3. ASSUME NEW j \in Role \X Tag, NEW k \in Role \X Tag, NEW v \in {"allow", "deny"},
             handleUpdateACLRule(j, k, v)
      PROVE  AccessInv'
  <2>1. UNCHANGED writeVars /\ See
    BY <1>3 DEF handleUpdateACLRule, writeVars
  <2>2. meta' = meta /\ edits' \in 0..MaxEdits /\ edited' \in BOOLEAN
    BY <1>0, <1>3 DEF handleUpdateACLRule
  <2>3. rules' \in [Role \X Tag -> {"none", "allow", "deny"}]
    BY <1>0, <1>3 DEF handleUpdateACLRule, UpdateRule
  <2> QED BY <1>0, <2>1, <2>2, <2>3, SeeInv
<1>4. ASSUME NEW k \in Role \X Tag, handleDeleteACLRule(k) PROVE AccessInv'
  <2>1. UNCHANGED writeVars /\ See
    BY <1>4 DEF handleDeleteACLRule, writeVars
  <2>2. meta' = meta /\ edits' \in 0..MaxEdits /\ edited' \in BOOLEAN
    BY <1>0, <1>4 DEF handleDeleteACLRule
  <2>3. rules' \in [Role \X Tag -> {"none", "allow", "deny"}]
    BY <1>0, <1>4 DEF handleDeleteACLRule, DeleteRule
  <2> QED BY <1>0, <2>1, <2>2, <2>3, SeeInv
<1>5. CASE ACLAudit
  BY <1>5 DEF ACLAudit, writeVars, AccessInv, AccessTypeOK, SawInv, AclInv,
              NoWriteAfterRevocation, Gates
<1> QED BY <1>1, <1>2, <1>3, <1>4, <1>5 DEF Administer

-----------------------------------------------------------------------------
(* The steps of a write. *)

LEMMA BeginInv ==
    ASSUME AccessInv, NEW w \in Write, NEW r \in Role, NEW t \in Tag,
           NEW p \in {"meta", "done"}, Begin(w, r, t, p)
    PROVE  AccessInv'
<1>0. AccessTypeOK
  BY DEF AccessInv
<1>1. /\ step[w] = "idle" /\ step' = [step EXCEPT ![w] = p] /\ tag' = [tag EXCEPT ![w] = t]
      /\ role' = [x \in HttpWrite |-> IF x = w THEN r ELSE role[x]]
      /\ saw' = [saw EXCEPT ![w] = OpenGates(meta[t], RuleOf(w, r, t, rules))]
      /\ UNCHANGED <<meta, rules, edits, edited>>
  BY DEF Begin
<1>2. OpenGates(meta[t], RuleOf(w, r, t, rules)) \in SUBSET {"switch", "grant", "dcmd"}
  BY GatesType
<1>3. AccessTypeOK'
  BY <1>0, <1>1, <1>2 DEF AccessTypeOK
<1>4. saw'[w] = Gates(w)'
  BY <1>0, <1>1 DEF AccessTypeOK, Gates, RuleOf
<1>5. \A x \in Write: x # w => Gates(x)' = Gates(x) /\ step'[x] = step[x] /\ saw'[x] = saw[x]
  BY <1>0, <1>1 DEF AccessTypeOK, Gates, RuleOf
<1>6. step'[w] = p
  BY <1>0, <1>1 DEF AccessTypeOK
<1>7. SawInv'
  BY <1>4, <1>5 DEF AccessInv, SawInv
<1>8. AclInv' /\ NoWriteAfterRevocation'
  BY <1>5, <1>6 DEF AccessInv, AclInv, NoWriteAfterRevocation
<1> QED BY <1>3, <1>7, <1>8 DEF AccessInv

\* A decision for p ("acl" or "write") has seen the gates that p asks for.
LEMMA DecideInv ==
    ASSUME AccessInv, NEW w \in Write, step[w] \in {"meta", "acl"},
           NEW p \in {"acl", "write"}, NEW allowed \in BOOLEAN, Decide(w, allowed, p),
           allowed /\ p = "acl" => w \in HttpWrite /\ "switch" \in saw[w],
           allowed /\ p = "write" =>
              (IF w \in HttpWrite THEN {"switch", "grant"} ELSE {"switch", "dcmd"}) \subseteq saw[w]
    PROVE  AccessInv'
<1>0. AccessTypeOK
  BY DEF AccessInv
<1>1. /\ step' = [step EXCEPT ![w] = IF allowed THEN p ELSE "audit"]
      /\ saw' = IF allowed THEN saw ELSE [saw EXCEPT ![w] = {}]
      /\ UNCHANGED <<meta, rules, edits, edited, role, tag>>
  BY DEF Decide
<1>2. AccessTypeOK'
  BY <1>0, <1>1 DEF AccessTypeOK
<1>3. \A x \in Write: Gates(x)' = Gates(x)
  BY <1>1 DEF Gates
<1>4. /\ step'[w] = IF allowed THEN p ELSE "audit"
      /\ allowed => saw'[w] = saw[w]
      /\ \A x \in Write: x # w => step'[x] = step[x] /\ saw'[x] = saw[x]
  BY <1>0, <1>1 DEF AccessTypeOK
<1>5. SawInv'
  BY <1>3, <1>4 DEF AccessInv, SawInv
<1>6. AclInv'
  BY <1>4 DEF AccessInv, AclInv
<1>7. NoWriteAfterRevocation'
  BY <1>4 DEF AccessInv, NoWriteAfterRevocation
<1> QED BY <1>2, <1>5, <1>6, <1>7 DEF AccessInv

LEMMA WriteStepsInv ==
    ASSUME AccessInv, NEW w \in Write, WriteSteps(w)
    PROVE  AccessInv'
<1>0. AccessTypeOK /\ tag[w] \in Tag
  BY DEF AccessInv, AccessTypeOK
<1>1. CASE AuthorizeHTTP(w)
  <2> DEFINE allowed == Writable(TagMeta(tag[w]))
  <2>1. step[w] = "meta" /\ w \in HttpWrite /\ Decide(w, allowed, "acl")
    BY <1>1 DEF AuthorizeHTTP
  <2>2. allowed => "switch" \in saw[w]
    BY <1>0, <2>1, WritableOpens DEF AccessInv, SawInv, Gates
  <2>3. allowed \in BOOLEAN
    BY <1>0 DEF Writable, TagMeta, AccessTypeOK, Meta
  <2> QED BY <2>1, <2>2, <2>3, DecideInv
<1>2. CASE AuthorizeACL(w)
  <2> DEFINE allowed == "acl" \in open /\ CanWrite(<<role[w], tag[w]>>)
  <2>1. step[w] = "acl" /\ Decide(w, allowed, "write")
    BY <1>2 DEF AuthorizeACL
  <2>2. w \in HttpWrite /\ "switch" \in saw[w]
    BY <2>1 DEF AccessInv, AclInv
  <2>3. allowed => "grant" \in Gates(w)
    BY <2>2 DEF CanWrite, Gates, RuleOf, OpenGates
  <2>4. allowed => "grant" \in saw[w]
    BY <2>1, <2>3 DEF AccessInv, SawInv
  <2>5. allowed \in BOOLEAN
    BY DEF CanWrite
  <2> HIDE DEF allowed
  <2> QED BY <2>1, <2>2, <2>4, <2>5, DecideInv
<1>3. CASE AuthorizeDCMD(w)
  <2> DEFINE allowed == Writable(TagMeta(tag[w])) /\ TagMeta(tag[w]).dcmd
  <2>1. step[w] = "meta" /\ w \in DcmdWrite /\ Decide(w, allowed, "write")
    BY <1>3 DEF AuthorizeDCMD
  <2>2. allowed => "switch" \in Gates(w) /\ "dcmd" \in Gates(w)
    BY <1>0, WritableOpens DEF Gates
  <2>3. allowed => {"switch", "dcmd"} \subseteq saw[w]
    BY <2>1, <2>2 DEF AccessInv, SawInv
  <2>4. w \notin HttpWrite
    BY <2>1, WriteAccessAssumption
  <2>5. allowed \in BOOLEAN
    BY <1>0 DEF Writable, TagMeta, AccessTypeOK, Meta
  <2> HIDE DEF allowed
  <2> QED BY <2>1, <2>3, <2>4, <2>5, DecideInv
<1>4. CASE WriteTag(w)
  <2>1. /\ step' = [step EXCEPT ![w] = "audit"] /\ saw' = [saw EXCEPT ![w] = {}]
        /\ UNCHANGED <<meta, rules, edits, edited, role, tag>>
    BY <1>4 DEF WriteTag
  <2>2. AccessTypeOK'
    BY <1>0, <2>1 DEF AccessTypeOK
  <2>3. \A x \in Write: Gates(x)' = Gates(x)
    BY <2>1 DEF Gates
  <2>4. /\ step'[w] = "audit"
        /\ \A x \in Write: x # w => step'[x] = step[x] /\ saw'[x] = saw[x]
    BY <1>0, <2>1 DEF AccessTypeOK
  <2>5. SawInv' /\ AclInv' /\ NoWriteAfterRevocation'
    BY <2>3, <2>4 DEF AccessInv, SawInv, AclInv, NoWriteAfterRevocation
  <2> QED BY <2>2, <2>5 DEF AccessInv
<1>5. CASE emitWriteAudit(w)
  <2>1. /\ step' = [step EXCEPT ![w] = "done"] /\ tag' = [tag EXCEPT ![w] = SomeTag]
        /\ role' = [x \in HttpWrite |-> IF x = w THEN SomeRole ELSE role[x]]
        /\ UNCHANGED <<meta, rules, edits, edited, saw>>
    BY <1>5 DEF emitWriteAudit
  <2>2. AccessTypeOK'
    BY <1>0, <2>1, WriteAccessAssumption DEF AccessTypeOK
  <2>3. /\ step'[w] = "done"
        /\ \A x \in Write: x # w => step'[x] = step[x] /\ Gates(x)' = Gates(x)
    BY <1>0, <2>1 DEF AccessTypeOK, Gates, RuleOf
  <2>4. SawInv' /\ AclInv' /\ NoWriteAfterRevocation'
    BY <2>1, <2>3 DEF AccessInv, SawInv, AclInv, NoWriteAfterRevocation
  <2> QED BY <2>2, <2>4 DEF AccessInv
<1> QED BY <1>1, <1>2, <1>3, <1>4, <1>5 DEF WriteSteps

-----------------------------------------------------------------------------
\* Every step of the write path and of its administration preserves AccessInv.
LEMMA AccessStepInv ==
    ASSUME AccessInv, Accesses
    PROVE  AccessInv'
<1>1. ASSUME NEW w \in HttpWrite, NEW r \in Role, NEW t \in Tag, handleWriteTag(w, r, t)
      PROVE  AccessInv'
  BY <1>1, BeginInv DEF handleWriteTag, Write
<1>2. ASSUME NEW w \in DcmdWrite, NEW t \in Tag, handleDCMD(w, t) PROVE AccessInv'
  BY <1>2, BeginInv, WriteAccessAssumption DEF handleDCMD, Write
<1> QED BY <1>1, <1>2, AdministerInv, WriteStepsInv DEF Accesses

LEMMA AccessStutter ==
    ASSUME AccessInv, UNCHANGED accessVars
    PROVE  AccessInv'
BY DEF AccessInv, AccessTypeOK, SawInv, AclInv, NoWriteAfterRevocation, Gates, accessVars
=============================================================================
