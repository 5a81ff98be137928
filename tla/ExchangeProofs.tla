--------------------------- MODULE ExchangeProofs ---------------------------
(***************************************************************************)
(* Proofs about Exchange.  The inductive invariant IInv says that history  *)
(* only ever relates a token to tokens that live at least as long and are  *)
(* of the same PS, and keeps what each call verified at its start.  The    *)
(* clock occurs in none of it: exp[t] is fixed when t is issued.           *)
(***************************************************************************)
EXTENDS Exchange, TLAPS

USE DEF AgentTokens, PersonTokens, AuthTokens, ResourceTokens, PresentableTokens, Given

(* What a token stands on grows by Join, by tokens that t may stand on.    *)
MayStandOn(t, e, inputs) ==
    /\ t \in PresentableTokens /\ inputs \subseteq Tokens
    /\ \A i \in inputs : 0 < e /\ e <= exp[i]
    /\ \A i \in inputs \ AgentTokens : PersonServer(i) = PersonServer(t)

(* Join keeps all tokens nested and of one PS, if t expires at e, which is *)
(* its expiration already or its first.                                    *)
LEMMA JoinKeeps ==
    ASSUME TokensTypeOK, NestedInv, OnePersonServer,
           NEW t \in Tokens, NEW e \in Nat, NEW inputs, MayStandOn(t, e, inputs),
           exp[t] \in {0, e}, exp' = [exp EXCEPT ![t] = e], under' = Join(t, inputs)
    PROVE  /\ NestedInv' /\ OnePersonServer'
           /\ under' \in [Tokens -> SUBSET Tokens]
<1> DEFINE below == inputs \cup UNION {under[i] : i \in inputs}
<1>1. /\ exp \in [Tokens -> Nat] /\ exp' \in [Tokens -> Nat]
      /\ under \in [Tokens -> SUBSET Tokens]
  <2>1. Expirations \cup {0} \subseteq Nat
    BY TimesAssumption
  <2>2. exp \in [Tokens -> Nat] /\ under \in [Tokens -> SUBSET Tokens]
    BY <2>1 DEF TokensTypeOK
  <2>3. exp' \in [Tokens -> Nat]
    BY <2>2
  <2>4. QED
    BY <2>2, <2>3
<1>2. below \subseteq Tokens
  BY <1>1 DEF MayStandOn
<1>3. under' \in [Tokens -> SUBSET Tokens]
  BY <1>1, <1>2 DEF Join
<1>4. \A d \in below : 0 < e /\ e <= exp[d]
  <2>1. SUFFICES ASSUME NEW i \in inputs, NEW d \in under[i] PROVE 0 < e /\ e <= exp[d]
    BY DEF MayStandOn
  <2>2. i \in Tokens /\ d \in Tokens /\ 0 < e /\ e <= exp[i]
    BY <1>1, <2>1 DEF MayStandOn
  <2>3. exp[i] <= exp[d]
    BY <2>1, <2>2 DEF NestedInv
  <2>4. QED
    BY <1>1, <2>2, <2>3
<1>5. \A d \in below \ AgentTokens : PersonServer(d) = PersonServer(t)
  <2>1. SUFFICES ASSUME NEW i \in inputs, NEW d \in under[i], d \notin AgentTokens
                 PROVE  PersonServer(d) = PersonServer(t)
    BY DEF MayStandOn
  <2>2. i \in Tokens /\ d \in Tokens /\ i \in PresentableTokens
    BY <1>1, <2>1 DEF MayStandOn, NestedInv
  <2>3. i \notin AgentTokens
    BY <2>2
  <2>4. PersonServer(i) = PersonServer(t)
    BY <2>1, <2>3 DEF MayStandOn
  <2>5. PersonServer(d) = PersonServer(i)
    BY <2>1, <2>2 DEF OnePersonServer
  <2>6. QED
    BY <2>4, <2>5
<1>6. ASSUME NEW x \in Tokens, NEW d \in Tokens, d \in under'[x]
      PROVE  /\ 0 < exp'[x] /\ exp'[x] <= exp'[d]
             /\ d \notin AgentTokens => PersonServer(d) = PersonServer(x)
             /\ x \in PresentableTokens
  <2>1. under'[x] = IF x = t \/ t \in under[x] THEN under[x] \cup below ELSE under[x]
    BY DEF Join
  <2>2. CASE d \in under[x]
    <3>1. /\ 0 < exp[x] /\ exp[x] <= exp[d] /\ x \in PresentableTokens
          /\ d \notin AgentTokens => PersonServer(d) = PersonServer(x)
      BY <2>2 DEF NestedInv, OnePersonServer
    <3>2. exp'[x] = exp[x] /\ exp'[d] = exp[d]
      BY <1>1, <3>1
    <3>3. QED
      BY <3>1, <3>2
  <2>3. CASE d \notin under[x]
    <3>1. (x = t \/ t \in under[x]) /\ d \in below
      BY <1>6, <2>1, <2>3
    <3>2. 0 < e /\ e <= exp[d]
      BY <1>4, <3>1
    <3>3. d \notin AgentTokens => PersonServer(d) = PersonServer(t)
      BY <1>5, <3>1
    <3>4. e <= exp'[d] /\ exp'[t] = e
      BY <1>1, <3>2
    <3>5. CASE x = t
      BY <3>2, <3>3, <3>4, <3>5 DEF MayStandOn
    <3>6. CASE t \in under[x] /\ x # t
      <4>1. 0 < exp[x] /\ exp[x] <= exp[t] /\ x \in PresentableTokens
        BY <3>6 DEF NestedInv
      <4>2. exp[t] = e /\ exp'[x] = exp[x]
        BY <1>1, <3>6, <4>1
      <4>3. PersonServer(t) = PersonServer(x)
        BY <3>6 DEF OnePersonServer, MayStandOn
      <4>4. 0 < exp'[x] /\ exp'[x] <= exp'[d]
        BY <1>1, <3>4, <4>1, <4>2
      <4>5. QED
        BY <3>3, <4>1, <4>3, <4>4
    <3>7. QED
      BY <3>1, <3>5, <3>6
  <2>4. QED
    BY <2>2, <2>3
<1>7. NestedInv'
  BY <1>3, <1>6 DEF NestedInv
<1>8. OnePersonServer'
  BY <1>6 DEF OnePersonServer, PersonServer
<1>9. QED
  BY <1>3, <1>7, <1>8

-----------------------------------------------------------------------------
LEMMA ExpsAreNat ==
    ASSUME TokensTypeOK
    PROVE  \A t \in Tokens : exp[t] \in Nat
<1>1. Expirations \cup {0} \subseteq Nat
  BY TimesAssumption
<1>2. QED
  BY <1>1 DEF TokensTypeOK

(* The exps an issuer chooses from are still to come.                      *)
LEMMA ToCome ==
    ASSUME NEW bounds
    PROVE  /\ BoundedExps(bounds) \subseteq {e \in Expirations : \A b \in bounds : e <= b}
           /\ BoundedExps(bounds) \subseteq Expirations /\ AnyExp \subseteq Expirations
BY DEF BoundedExps, AnyExp

(* A token that stands on nothing changes no relation between others.      *)
LEMMA IssueAlone ==
    ASSUME TokensTypeOK, NestedInv, OnePersonServer, NEW t \in Tokens, Issue(t, AnyExp, {})
    PROVE  TokensTypeOK' /\ NestedInv' /\ OnePersonServer'
<1>1. PICK e \in AnyExp : exp' = [exp EXCEPT ![t] = e]
  BY DEF Issue
<1>2. under' = under
  <2>1. \A x \in Tokens : under'[x] = under[x]
    BY DEF Issue, Join
  <2>2. under' = [x \in Tokens |-> under'[x]] /\ under = [x \in Tokens |-> under[x]]
    BY DEF Issue, Join, TokensTypeOK
  <2>3. QED
    BY <2>1, <2>2
<1>3. exp[t] = 0 /\ now' = now
  BY DEF Issue
<1>4. TokensTypeOK'
  BY <1>1, <1>2, <1>3, ToCome DEF TokensTypeOK
<1>5. \A x \in Tokens : 0 < exp[x] => exp'[x] = exp[x]
  BY <1>1, <1>3 DEF TokensTypeOK
<1>6. NestedInv'
  <2>1. ASSUME NEW x \in Tokens, NEW d \in Tokens, d \in under[x]
        PROVE  0 < exp'[x] /\ exp'[x] <= exp'[d]
    <3>1. 0 < exp[x] /\ exp[x] <= exp[d]
      BY <2>1 DEF NestedInv
    <3>2. exp[x] \in Nat /\ exp[d] \in Nat
      BY ExpsAreNat
    <3>3. QED
      BY <1>5, <3>1, <3>2
  <2>2. QED
    BY <1>2, <2>1 DEF NestedInv
<1>7. OnePersonServer'
  BY <1>2 DEF OnePersonServer, PersonServer
<1>8. QED
  BY <1>4, <1>6, <1>7

(* A token issued on others, within their expirations.                     *)
LEMMA IssueWithin ==
    ASSUME TokensTypeOK, NestedInv, OnePersonServer,
           NEW t \in Tokens, NEW inputs, NEW bounds, Issue(t, BoundedExps(bounds), inputs),
           \A e \in BoundedExps(bounds) : MayStandOn(t, e, inputs)
    PROVE  TokensTypeOK' /\ NestedInv' /\ OnePersonServer'
<1>1. PICK e \in BoundedExps(bounds) : exp' = [exp EXCEPT ![t] = e]
  BY DEF Issue
<1>2. e \in Nat /\ e \in Expirations
  BY <1>1, ToCome, TimesAssumption
<1>3. MayStandOn(t, e, inputs)
  BY <1>1
<1>4. exp[t] \in {0, e} /\ under' = Join(t, inputs) /\ now' = now
  BY DEF Issue
<1>5. /\ NestedInv' /\ OnePersonServer'
      /\ under' \in [Tokens -> SUBSET Tokens]
  BY <1>1, <1>2, <1>3, <1>4, JoinKeeps
<1>6. TokensTypeOK'
  BY <1>1, <1>2, <1>4, <1>5 DEF TokensTypeOK
<1>7. QED
  BY <1>5, <1>6

(* The agent token whose expiration bounds the new token's.                *)
LEMMA HolderIsAgent ==
    ASSUME NEW agent, NEW holder, Holder(agent, holder), NEW bound \in {agent, holder}
    PROVE  bound \in AgentTokens
BY DEF Holder, SubagentBinding

LEMMA UpstreamPS ==
    ASSUME NEW u, NEW agent, NEW ps, NEW role, UpstreamGiven(u, agent, ps, role)
    PROVE  \A i \in Given(u) : i \in PresentableTokens /\ PersonServer(i) = ps
BY DEF UpstreamGiven, UpstreamBinding

LEMMA CreatePersonTokenKeeps ==
    ASSUME TokensTypeOK, NestedInv, OnePersonServer, NEW t \in Tokens, NEW agent, NEW holder,
           NEW u, CreatePersonToken(t, agent, holder, u)
    PROVE  TokensTypeOK' /\ NestedInv' /\ OnePersonServer'
<1>1. PICK bound \in {agent, holder} :
          Issue(t, BoundedExps({exp[i] : i \in {bound} \cup Given(u)} \cup MissionEnds(t)),
                {bound} \cup Given(u))
  BY DEF CreatePersonToken
<1> DEFINE inputs == {bound} \cup Given(u)
           bounds == {exp[i] : i \in inputs} \cup MissionEnds(t)
<1>2. bound \in AgentTokens /\ t \in PersonTokens
  BY HolderIsAgent DEF CreatePersonToken
<1>3. \A i \in Given(u) : i \in PresentableTokens /\ PersonServer(i) = Claims[t].iss
  BY UpstreamPS DEF CreatePersonToken
<1>4. ASSUME NEW e \in BoundedExps(bounds) PROVE MayStandOn(t, e, inputs)
  <2>1. 0 < e /\ \A b \in bounds : e <= b
    <3> HIDE DEF bounds
    <3>1. e \in Expirations /\ \A b \in bounds : e <= b
      BY DEF BoundedExps
    <3>2. QED
      BY <3>1, TimesAssumption
  <2>2. \A i \in inputs \ AgentTokens : PersonServer(i) = PersonServer(t)
    BY <1>2, <1>3 DEF PersonServer
  <2>3. QED
    BY <1>2, <1>3, <2>1, <2>2 DEF MayStandOn
<1>5. Issue(t, BoundedExps(bounds), inputs)
  BY <1>1
<1> HIDE DEF inputs, bounds
<1>6. QED
  BY <1>4, <1>5, IssueWithin

(* What the PS of a resource token is, by its checks and by its claims.    *)
LEMMA PresentedPS ==
    ASSUME NEW rt, NEW p, ResourceBinding(rt, p)
    PROVE  /\ p \in PresentableTokens /\ rt \in ResourceTokens
           /\ p = Claims[rt].presented /\ PersonServer(p) = Claims[rt].ps
BY DEF ResourceBinding, PresentedBinding

LEMMA CreateAuthTokenKeeps ==
    ASSUME TokensTypeOK, NestedInv, OnePersonServer, NEW t \in Tokens, NEW agent, NEW holder,
           NEW rt \in ResourceTokens, NEW u, CreateAuthToken(t, agent, holder, rt, u)
    PROVE  TokensTypeOK' /\ NestedInv' /\ OnePersonServer'
<1> DEFINE p == Claims[rt].presented
           ends == IF Claims[t].iss = Claims[t].ps THEN MissionEnds(t) ELSE {}
<1>1. PICK bound \in {agent, holder} :
          Issue(t, BoundedExps({exp[i] : i \in {bound, p} \cup Given(u)} \cup ends),
                {bound, p} \cup Given(u))
  BY DEF CreateAuthToken
<1> DEFINE inputs == {bound, p} \cup Given(u)
           bounds == {exp[i] : i \in inputs} \cup ends
<1>2. bound \in AgentTokens /\ t \in AuthTokens
  BY HolderIsAgent DEF CreateAuthToken
<1>3. \A i \in Given(u) : i \in PresentableTokens /\ PersonServer(i) = Claims[t].ps
  BY UpstreamPS DEF CreateAuthToken
<1>4. p \in PresentableTokens /\ PersonServer(p) = Claims[t].ps
  BY PresentedPS DEF CreateAuthToken, Answers
<1>5. PersonServer(t) = Claims[t].ps
  BY <1>2 DEF PersonServer
<1>6. ASSUME NEW e \in BoundedExps(bounds) PROVE MayStandOn(t, e, inputs)
  <2>1. 0 < e /\ \A b \in bounds : e <= b
    <3> HIDE DEF bounds
    <3>1. e \in Expirations /\ \A b \in bounds : e <= b
      BY DEF BoundedExps
    <3>2. QED
      BY <3>1, TimesAssumption
  <2>2. \A i \in inputs \ AgentTokens : PersonServer(i) = PersonServer(t)
    BY <1>2, <1>3, <1>4, <1>5
  <2>3. QED
    BY <1>2, <1>3, <1>4, <2>1, <2>2 DEF MayStandOn
<1>7. Issue(t, BoundedExps(bounds), inputs)
  BY <1>1
<1> HIDE DEF inputs, bounds
<1>8. QED
  BY <1>6, <1>7, IssueWithin

(* Every step of the issuers.                                              *)
LEMMA IssuersKeep ==
    ASSUME TokensTypeOK, NestedInv, OnePersonServer, Issuers
    PROVE  TokensTypeOK' /\ NestedInv' /\ OnePersonServer'
<1>1. ASSUME NEW t \in Tokens,
             CreateAgentToken(t) \/ CreateResourceToken(t) \/ IssueElsewhere(t)
      PROVE  TokensTypeOK' /\ NestedInv' /\ OnePersonServer'
  BY <1>1, IssueAlone DEF CreateAgentToken, CreateResourceToken, IssueElsewhere
<1>2. ASSUME NEW t \in Tokens, NEW agent \in AgentTokens, NEW holder \in AgentTokens,
             NEW u, CreatePersonToken(t, agent, holder, u)
      PROVE  TokensTypeOK' /\ NestedInv' /\ OnePersonServer'
  BY <1>2, CreatePersonTokenKeeps
<1>3. ASSUME NEW t \in Tokens, NEW agent \in AgentTokens, NEW holder \in AgentTokens,
             NEW rt \in ResourceTokens, NEW u, CreateAuthToken(t, agent, holder, rt, u)
      PROVE  TokensTypeOK' /\ NestedInv' /\ OnePersonServer'
  BY <1>3, CreateAuthTokenKeeps
<1>4. QED
  BY <1>1, <1>2, <1>3 DEF Issuers

-----------------------------------------------------------------------------
(* A token a call accepts lives no longer than what the call was given,    *)
(* and is of the same PS.                                                  *)
LEMMA AcceptedWithin ==
    ASSUME IInv, NEW c \in Calls, NEW t \in Tokens, Return(c, t)
    PROVE  /\ MayStandOn(t, exp[t], Inputs(req[c]))
           /\ \A i \in Inputs(req[c]) : now < exp[i]
           /\ now < exp[t]
<1> DEFINE q == req[c]
<1>1. q \in Arguments /\ q \in Requests
  BY RequestsAssumption DEF IInv, TypeOK, Return
<1>2. /\ Inputs(q) \subseteq Tokens /\ q.agent \in Tokens
      /\ q.child \in Tokens \cup {None} /\ q.upstream \in Tokens \cup {None}
      /\ q.presented \in Tokens \cup {None}
  BY <1>1 DEF Arguments, Inputs
<1>3. /\ q.agent \in AgentTokens
      /\ q.child # None => q.child \in AgentTokens
      /\ q.upstream # None => PersonServer(q.upstream) = q.ps
      /\ q.kind # "person" => ResourceBinding(q.rt, q.presented) /\ Claims[q.rt].ps = q.ps
  BY DEF IInv, CallInv, Return
<1>4. now \in Nat /\ \A x \in Tokens : exp[x] \in Nat
  BY ExpsAreNat DEF IInv, TypeOK, TokensTypeOK
<1>5. /\ t \in PresentableTokens /\ now < exp[t] /\ PersonServer(t) = q.ps
      /\ \A i \in Inputs(q) : exp[t] <= exp[i]
      /\ q.presented # None => PersonServer(q.presented) = q.ps
  <2>1. CASE q.kind = "person"
    <3>1. PersonTokenGood(q, t) /\ q.presented = None
      BY <1>1, <2>1, RequestsAssumption DEF Return
    <3>2. QED
      BY <3>1 DEF PersonTokenGood, Inputs, Alive, PersonServer
  <2>2. CASE q.kind # "person"
    <3>1. AuthTokenGood(q, t)
      BY <2>2 DEF Return
    <3>2. PersonServer(q.presented) = q.ps
      BY <1>3, <2>2, PresentedPS
    <3>3. QED
      BY <3>1, <3>2 DEF AuthTokenGood, Alive, PersonServer
  <2>3. QED
    BY <2>1, <2>2
<1>6. \A i \in Inputs(q) \ AgentTokens : PersonServer(i) = PersonServer(t)
  BY <1>3, <1>5 DEF Inputs
<1>7. \A i \in Inputs(q) : 0 < exp[t] /\ now < exp[i]
  BY <1>2, <1>4, <1>5
<1>8. QED
  BY <1>2, <1>5, <1>6, <1>7 DEF MayStandOn

(* An auth token accepted for a resource token that was verified with the  *)
(* presented token is bound to the latter.                                 *)
LEMMA AcceptedBound ==
    ASSUME IInv, NEW c \in Calls, NEW t \in Tokens, Return(c, t), req[c].kind # "person"
    PROVE  LET p == Claims[req[c].presented]
               r == Claims[t]
           IN  /\ r.sub = p.sub /\ r.mission = p.mission /\ r.aud = p.aud /\ r.key = p.key
               /\ r.ps = PersonServer(req[c].presented)
               /\ r.key \in {Claims[i].key : i \in Inputs(req[c]) \cap AgentTokens}
               /\ req[c].upstream # None => r.mission = Claims[req[c].upstream].mission
<1> DEFINE q == req[c]
<1>1. AuthTokenGood(q, t)
  BY DEF Return
<1>2. /\ q.agent \in AgentTokens
      /\ q.child # None => q.child \in AgentTokens
      /\ ResourceBinding(q.rt, q.presented)
      /\ Claims[q.rt].iss = q.resource /\ Claims[q.rt].ps = q.ps
      /\ Claims[q.rt].key = KeyOf(q)
  BY DEF IInv, CallInv, Return
<1>3. KeyOf(q) \in {Claims[i].key : i \in Inputs(q) \cap AgentTokens}
  BY <1>2 DEF KeyOf, Inputs
<1>4. QED
  BY <1>1, <1>2, <1>3 DEF AuthTokenGood, ResourceBinding, PresentedBinding

LEMMA InitIInv == Init => IInv
<1> SUFFICES ASSUME Init PROVE IInv
  OBVIOUS
<1>1. TokensTypeOK /\ NestedInv /\ OnePersonServer
  BY DEF Init, TokensInit, TokensTypeOK, NestedInv, OnePersonServer
<1>2. TypeOK
  BY <1>1 DEF Init, TypeOK
<1>3. CallInv /\ BoundToPresented
  BY DEF Init, CallInv, BoundToPresented
<1>4. QED
  BY <1>1, <1>2, <1>3 DEF IInv

LEMMA StartKeeps ==
    ASSUME IInv, NEW c \in Calls, NEW q \in Requests, Start(c, q)
    PROVE  IInv'
<1>1. UNCHANGED tokens /\ result' = result /\ pc[c] = "idle"
  BY DEF Start
<1>2. TokensTypeOK' /\ NestedInv' /\ OnePersonServer'
  BY <1>1 DEF IInv, TypeOK, tokens, TokensTypeOK, NestedInv, OnePersonServer, PersonServer
<1>3. /\ pc' = [pc EXCEPT ![c] = "asking"] /\ req' = [req EXCEPT ![c] = q]
      /\ pc \in [Calls -> {"idle", "asking", "redeeming", "done", "failed"}]
      /\ req \in [Calls -> Requests \cup {None}]
  BY DEF Start, IInv, TypeOK
<1>4. result[c] = None
  BY <1>1 DEF IInv, TypeOK
<1>5. TypeOK'
  BY <1>1, <1>2, <1>3, <1>4, RequestsAssumption DEF IInv, TypeOK
<1>6. CallInv'
  BY <1>1, <1>3 DEF IInv, CallInv, Start, Participants, Challenge, UpstreamBinding,
     SubagentBinding, PersonServer, ResourceBinding, PresentedBinding, KeyOf
<1>7. BoundToPresented'
  BY <1>1, <1>3, <1>4 DEF IInv, BoundToPresented, PersonServer, Inputs
<1>8. QED
  BY <1>2, <1>5, <1>6, <1>7 DEF IInv

LEMMA ReturnKeeps ==
    ASSUME IInv, NEW c \in Calls, NEW t \in Tokens, Return(c, t)
    PROVE  IInv'
<1>1. /\ pc[c] = "asking" /\ req' = req /\ now' = now /\ exp' = exp
      /\ pc' = [pc EXCEPT ![c] = IF req[c].kind = "deferred" THEN "redeeming" ELSE "done"]
      /\ result' = [result EXCEPT ![c] = t] /\ under' = Join(t, Inputs(req[c]))
  BY DEF Return
<1>2. /\ TypeOK /\ TokensTypeOK /\ NestedInv /\ OnePersonServer /\ CallInv /\ BoundToPresented
      /\ pc \in [Calls -> {"idle", "asking", "redeeming", "done", "failed"}]
      /\ req \in [Calls -> Requests \cup {None}]
      /\ result \in [Calls -> Tokens \cup {None}]
  BY DEF IInv, TypeOK
<1>3. exp[t] \in Nat /\ exp' = [exp EXCEPT ![t] = exp[t]]
  BY <1>1, <1>2, ExpsAreNat DEF TokensTypeOK
<1>4. MayStandOn(t, exp[t], Inputs(req[c]))
  BY AcceptedWithin
<1>5. NestedInv' /\ OnePersonServer' /\ under' \in [Tokens -> SUBSET Tokens]
  BY <1>1, <1>2, <1>3, <1>4, JoinKeeps
<1>6. TokensTypeOK'
  BY <1>1, <1>2, <1>5 DEF TokensTypeOK
<1>7. TypeOK'
  BY <1>1, <1>2, <1>6, NoneAssumption DEF TypeOK
<1>8. CallInv'
  BY <1>1, <1>2 DEF CallInv, PersonServer, ResourceBinding, PresentedBinding, KeyOf
<1>9. BoundToPresented'
  <2>1. SUFFICES ASSUME NEW d \in Calls, result'[d] # None, req'[d].kind # "person"
                 PROVE  LET p == Claims[req'[d].presented]
                            r == Claims[result'[d]]
                        IN  /\ r.sub = p.sub /\ r.mission = p.mission /\ r.aud = p.aud
                            /\ r.key = p.key
                            /\ r.ps = PersonServer(req'[d].presented)
                            /\ r.key \in {Claims[i].key : i \in Inputs(req'[d]) \cap AgentTokens}
                            /\ req'[d].upstream # None =>
                                  r.mission = Claims[req'[d].upstream].mission
    BY DEF BoundToPresented, PersonServer, Inputs
  <2>2. CASE d = c
    BY <1>1, <1>2, <2>1, <2>2, AcceptedBound
  <2>3. CASE d # c
    BY <1>1, <1>2, <2>1, <2>3 DEF BoundToPresented
  <2>4. QED
    BY <2>2, <2>3
<1>10. QED
  BY <1>5, <1>7, <1>8, <1>9 DEF IInv

(* Steps that change only where a call is.                                 *)
LEMMA MoveKeeps ==
    ASSUME IInv, NEW c \in Calls, Redeem(c) \/ Fail(c)
    PROVE  IInv'
<1>1. /\ UNCHANGED tokens /\ req' = req /\ result' = result
      /\ pc[c] \in {"asking", "redeeming"}
      /\ \/ pc' = [pc EXCEPT ![c] = "failed"]
         \/ pc' = [pc EXCEPT ![c] = "done"] /\ pc[c] = "redeeming"
  BY DEF Redeem, Fail
<1>2. TokensTypeOK' /\ NestedInv' /\ OnePersonServer'
  BY <1>1 DEF IInv, TypeOK, tokens, TokensTypeOK, NestedInv, OnePersonServer, PersonServer
<1>3. TypeOK'
  BY <1>1, <1>2 DEF IInv, TypeOK
<1>4. CallInv'
  BY <1>1 DEF IInv, TypeOK, CallInv, PersonServer, ResourceBinding, PresentedBinding, KeyOf
<1>5. BoundToPresented'
  BY <1>1 DEF IInv, BoundToPresented, PersonServer, Inputs
<1>6. QED
  BY <1>2, <1>3, <1>4, <1>5 DEF IInv

(* Steps of the issuers and the clock.                                     *)
LEMMA OthersKeep ==
    ASSUME IInv, Issuers \/ Tick \/ UNCHANGED tokens, UNCHANGED <<pc, req, result>>
    PROVE  IInv'
<1>1. TokensTypeOK' /\ NestedInv' /\ OnePersonServer'
  <2>1. TokensTypeOK /\ NestedInv /\ OnePersonServer
    BY DEF IInv, TypeOK
  <2>2. CASE Issuers
    BY <2>1, <2>2, IssuersKeep
  <2>3. CASE Tick \/ UNCHANGED tokens
    BY <2>1, <2>3 DEF Tick, tokens, TokensTypeOK, NestedInv, OnePersonServer, PersonServer
  <2>4. QED
    BY <2>2, <2>3
<1>2. TypeOK'
  BY <1>1 DEF IInv, TypeOK
<1>3. CallInv' /\ BoundToPresented'
  BY DEF IInv, CallInv, BoundToPresented, PersonServer, ResourceBinding, PresentedBinding,
     KeyOf, Inputs
<1>4. QED
  BY <1>1, <1>2, <1>3 DEF IInv

LEMMA NextKeeps == IInv /\ [Next]_vars => IInv'
<1> SUFFICES ASSUME IInv, [Next]_vars PROVE IInv'
  OBVIOUS
<1>1. CASE Agents
  BY <1>1, StartKeeps, ReturnKeeps, MoveKeeps DEF Agents
<1>2. CASE (Issuers \/ Tick) /\ UNCHANGED <<pc, req, result>>
  BY <1>2, OthersKeep
<1>3. CASE UNCHANGED vars
  BY <1>3, OthersKeep DEF vars
<1>4. QED
  BY <1>1, <1>2, <1>3 DEF Next

(* The inductive invariant holds in every reachable state.                 *)
THEOREM Inductive == Spec => []IInv
BY InitIInv, NextKeeps, PTL DEF Spec

(* The types of all variables, whatever the PS answers.                    *)
THEOREM TypeCorrect == Spec => []TypeOK
<1>1. IInv => TypeOK
  BY DEF IInv
<1>2. QED
  BY <1>1, Inductive, PTL

(* When a resource accepts a token, all tokens it was issued or obtained   *)
(* with are unexpired, through any number of servers and calls.            *)
THEOREM ChainsAliveWhenAccepted == Spec => []AcceptedChainAlive
<1>1. IInv => AcceptedChainAlive
  <2>1. SUFFICES ASSUME IInv, NEW t \in Tokens, Alive(t), NEW d \in under[t] PROVE Alive(d)
    BY DEF AcceptedChainAlive, WouldAccept
  <2>2. d \in Tokens /\ exp[t] <= exp[d]
    BY <2>1 DEF IInv, TypeOK, TokensTypeOK, NestedInv
  <2>3. now \in Nat /\ exp[t] \in Nat /\ exp[d] \in Nat
    <3>1. TokensTypeOK
      BY <2>1 DEF IInv, TypeOK
    <3>2. QED
      BY <2>2, <3>1, ExpsAreNat DEF TokensTypeOK
  <2>4. QED
    BY <2>1, <2>2, <2>3 DEF Alive
<1>2. QED
  BY <1>1, Inductive, PTL

(* A chain never leaves the person server it began with.                   *)
THEOREM ChainsKeepPersonServer == Spec => []OnePersonServer
<1>1. IInv => OnePersonServer
  BY DEF IInv
<1>2. QED
  BY <1>1, Inductive, PTL

(* An auth token returned is bound to the token presented to the resource. *)
THEOREM ReturnedTokensAreBound == Spec => []BoundToPresented
<1>1. IInv => BoundToPresented
  BY DEF IInv
<1>2. QED
  BY <1>1, Inductive, PTL

(* What a call was given is alive when it returns.                         *)
THEOREM InputsAliveAtReturn == Spec => ReturnedAlive
<1>1. ASSUME IInv, [Next]_vars, NEW c \in Calls, result'[c] # result[c]
      PROVE  \A i \in Inputs(req[c]) \cup {result'[c]} : Alive(i)
  <2>1. PICK t \in Tokens : Return(c, t)
    <3>1. ~UNCHANGED result
      BY <1>1
    <3>2. PICK d \in Calls, t \in Tokens : Return(d, t)
      BY <1>1, <3>1 DEF Next, Agents, vars, Start, Redeem, Fail
    <3>3. d = c
      BY <1>1, <3>2 DEF Return, IInv, TypeOK
    <3>4. QED
      BY <3>2, <3>3
  <2>2. result'[c] = t
    BY <1>1, <2>1 DEF Return, IInv, TypeOK
  <2>3. QED
    BY <1>1, <2>1, <2>2, AcceptedWithin DEF Alive
<1>2. IInv /\ [Next]_vars =>
         [\A c \in Calls : result'[c] # result[c] =>
             \A i \in Inputs(req[c]) \cup {result'[c]} : Alive(i)]_vars
  BY <1>1
<1>3. QED
  BY <1>2, Inductive, PTL DEF Spec, ReturnedAlive

-----------------------------------------------------------------------------
(* Where all servers use the library, no token outlives its mission.       *)
LEMMA MissionStep ==
    ASSUME TokensTypeOK, MissionBound, Hosts = Servers, Issuers
    PROVE  MissionBound'
<1>1. ASSUME NEW t \in Tokens, NEW exps, NEW inputs, Issue(t, exps, inputs),
             t \in PresentableTokens /\ Claims[t].mission # None =>
                 \A e \in exps : e <= MissionEnd[Claims[t].mission]
      PROVE  MissionBound'
  <2>1. PICK e \in exps : exp' = [exp EXCEPT ![t] = e]
    BY <1>1 DEF Issue
  <2>2. \A x \in Tokens : x # t => exp'[x] = exp[x]
    BY <2>1 DEF TokensTypeOK
  <2>3. exp'[t] = e
    BY <2>1 DEF TokensTypeOK
  <2>4. QED
    BY <1>1, <2>2, <2>3 DEF MissionBound, Issued
<1>2. ASSUME NEW t \in Tokens,
             CreateAgentToken(t) \/ CreateResourceToken(t) \/ IssueElsewhere(t)
      PROVE  MissionBound'
  <2>1. Claims[t].iss \in Hosts
    BY ClaimsAssumption DEF Payloads
  <2>2. t \notin PresentableTokens /\ Issue(t, AnyExp, {})
    BY <1>2, <2>1 DEF CreateAgentToken, CreateResourceToken, IssueElsewhere
  <2>3. QED
    BY <1>1, <2>2
<1>3. \A t \in Tokens : Claims[t].mission # None =>
          MissionEnd[Claims[t].mission] \in MissionEnds(t)
  BY DEF MissionEnds
<1>4. ASSUME NEW t \in Tokens, NEW agent, NEW holder, NEW u,
             CreatePersonToken(t, agent, holder, u)
      PROVE  MissionBound'
  <2>1. PICK bound \in {agent, holder} :
            Issue(t, BoundedExps({exp[i] : i \in {bound} \cup Given(u)} \cup MissionEnds(t)),
                  {bound} \cup Given(u))
    BY <1>4 DEF CreatePersonToken
  <2>2. Claims[t].mission # None =>
            \A e \in BoundedExps({exp[i] : i \in {bound} \cup Given(u)} \cup MissionEnds(t)) :
                e <= MissionEnd[Claims[t].mission]
    BY <1>3 DEF BoundedExps
  <2>3. QED
    BY <1>1, <2>1, <2>2
<1>5. ASSUME NEW t \in Tokens, NEW agent, NEW holder, NEW rt \in ResourceTokens, NEW u,
             CreateAuthToken(t, agent, holder, rt, u)
      PROVE  MissionBound'
  <2> DEFINE p == Claims[rt].presented
             byPS == Claims[t].iss = Claims[t].ps
             bounds(b) == {exp[i] : i \in {b, p} \cup Given(u)}
                          \cup (IF byPS THEN MissionEnds(t) ELSE {})
  <2>1. PICK bound \in {agent, holder} :
            Issue(t, BoundedExps(bounds(bound)), {bound, p} \cup Given(u))
    BY <1>5 DEF CreateAuthToken
  <2>2. ASSUME Claims[t].mission # None, NEW e \in BoundedExps(bounds(bound))
        PROVE  e <= MissionEnd[Claims[t].mission]
    <3>1. e \in Expirations /\ \A b \in bounds(bound) : e <= b
      BY <2>2 DEF BoundedExps
    <3>2. CASE byPS
      BY <1>3, <2>2, <3>1, <3>2
    <3>3. CASE ~byPS
      <4>1. p \in PresentableTokens /\ Issued(p) /\ Claims[p].mission = Claims[t].mission
        BY <1>5 DEF CreateAuthToken, ResourceBinding, PresentedBinding, Answers
      <4>2. exp[p] <= MissionEnd[Claims[t].mission]
        BY <2>2, <4>1 DEF MissionBound
      <4>3. e <= exp[p]
        BY <3>1
      <4>4. Claims[t].mission \in Missions
        BY <2>2, ClaimsAssumption DEF Payloads
      <4>5. e \in Nat /\ exp[p] \in Nat /\ MissionEnd[Claims[t].mission] \in Nat
        BY <3>1, <4>1, <4>4, ExpsAreNat, TimesAssumption
      <4>6. QED
        BY <4>2, <4>3, <4>5
    <3>4. QED
      BY <3>2, <3>3
  <2>3. QED
    BY <1>1, <2>1, <2>2
<1>6. QED
  BY <1>2, <1>4, <1>5 DEF Issuers

(* A token with a mission ends with it, though an AS is not told when it   *)
(* ends: the token presented for it is bounded by it.                      *)
THEOREM TokensEndWithTheirMission ==
    ASSUME Hosts = Servers
    PROVE  Spec => []MissionBound
<1>1. Init => MissionBound
  BY DEF Init, TokensInit, MissionBound, Issued
<1>2. IInv /\ MissionBound /\ [Next]_vars => MissionBound'
  <2>1. SUFFICES ASSUME IInv, MissionBound, [Next]_vars PROVE MissionBound'
    OBVIOUS
  <2>2. CASE Issuers
    BY <2>1, <2>2, MissionStep DEF IInv, TypeOK
  <2>3. CASE exp' = exp
    BY <2>1, <2>3 DEF MissionBound, Issued
  <2>4. QED
    BY <2>1, <2>2, <2>3 DEF Next, Agents, Start, Return, Redeem, Fail, Tick, vars, tokens
<1>3. QED
  BY <1>1, <1>2, Inductive, PTL DEF Spec
=============================================================================
