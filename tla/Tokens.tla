------------------------------- MODULE Tokens -------------------------------
(***************************************************************************)
(* Chains of tokens: aauth/tokens and aauth_signing/tokens.  An agent      *)
(* token of an agent provider, a person token of a person server (PS), a   *)
(* resource token of a resource, and an auth token of the PS or of an      *)
(* access server (AS), each issued on the strength of earlier ones, each   *)
(* with an expiration of its own.                                          *)
(*                                                                         *)
(* What a token says never changes: Claims[t] is its payload, and exp[t]   *)
(* is fixed when it is issued (0 before).  So a host that holds verified   *)
(* claims across an await, and calls create_* later, holds what Claims and *)
(* exp still say; only the clock has moved.                                *)
(*                                                                         *)
(* Claims is all tokens that may exist, the badly bound ones too.  A host  *)
(* built from this library (Hosts) issues what create_* lets it issue; any *)
(* other issuer whatever it likes, at any time.  Tokens that verify_token  *)
(* refuses for their own content (malformed, unsigned, overlong) are as    *)
(* if never issued.                                                        *)
(*                                                                         *)
(* Where two definitions with the same parameters stand together, the      *)
(* first, with the longer name, is a plausible bug used by the mutants.    *)
(***************************************************************************)
EXTENDS Integers

CONSTANTS
    Tokens,      \* jti values
    Claims,      \* Claims[t]: the payload of t without exp, and typ
    None,        \* Python's None
    Servers,     \* identifiers of providers, person servers, resources and access servers
    Hosts,       \* the servers that use this library
    Subjects,    \* the sub values: agents, and the persons as each audience knows them
    Keys,        \* thumbprints of the keys tokens are bound to
    Federated,   \* the access servers a PS trusts (trusted_access_servers)
    Missions,    \* mission_s256 values
    MissionEnd,  \* MissionEnd[m]: mission_exp, as the PS keeps it
    Hour,        \* the cap on the lifetime of a person or auth token, 3600
    Expirations, \* the exp values tokens may have
    MaxTime      \* bound on the clock

(* The key of a resource token is its agent_jkt.  A claim a type does not  *)
(* have is None.                                                           *)
Payloads ==
    [typ : {"agent", "person", "auth", "resource"}, iss : Servers,
     aud : Servers \cup {None}, ps : Servers \cup {None}, sub : Subjects, key : Keys,
     mission : Missions \cup {None}, parent : Subjects \cup {None},
     presented : Tokens \cup {None}]

ASSUME ClaimsAssumption == Claims \in [Tokens -> Payloads]
ASSUME ResourceTokensAssumption ==
    \A t \in Tokens : Claims[t].typ = "resource" => Claims[t].presented # None
ASSUME NoneAssumption == \A S \in {Tokens, Missions, Servers, Subjects} : None \notin S
ASSUME TimesAssumption == /\ Expirations \subseteq Nat \ {0}
                          /\ MissionEnd \in [Missions -> Nat]
                          /\ Hour \in Nat /\ MaxTime \in Nat

VARIABLES
    now,    \* time.time(), in seconds
    exp,    \* exp[t], or 0 when t is not issued
    under   \* history: the tokens t was issued or obtained with, and theirs

tokens == <<now, exp, under>>

AgentTokens == {t \in Tokens : Claims[t].typ = "agent"}
PersonTokens == {t \in Tokens : Claims[t].typ = "person"}
AuthTokens == {t \in Tokens : Claims[t].typ = "auth"}
ResourceTokens == {t \in Tokens : Claims[t].typ = "resource"}
PresentableTokens == PersonTokens \cup AuthTokens

Given(x) == {x} \ {None}

Alive(t) == now < exp[t]
Issued(t) == exp[t] # 0

PersonServer(t) == IF Claims[t].typ = "person" THEN Claims[t].iss ELSE Claims[t].ps

-----------------------------------------------------------------------------
(* The checks that compare tokens with each other.                         *)

(* verify_subagent_token, and the same checks in create_agent_token.       *)
SubagentBinding(parent, child) ==
    /\ {parent, child} \subseteq AgentTokens
    /\ Claims[parent].parent = None
    /\ Claims[child].parent = Claims[parent].sub
    /\ Claims[child].iss = Claims[parent].iss
    /\ Claims[child].key # Claims[parent].key

UpstreamBindingOfAnyPS(u, intermediary, ps, role) ==
    /\ intermediary \in AgentTokens /\ u \in PresentableTokens
    /\ Claims[u].aud = Claims[intermediary].iss

(* verify_upstream_token.                                                  *)
UpstreamBinding(u, intermediary, ps, role) ==
    /\ intermediary \in AgentTokens /\ u \in PresentableTokens
    /\ Claims[u].aud = Claims[intermediary].iss
    /\ PersonServer(u) = ps
    /\ role = "ps" /\ u \in AuthTokens => Claims[u].iss \in {ps} \cup Federated

(* _presented.                                                             *)
PresentedBinding(p, resource, jkt) ==
    /\ p \in PresentableTokens
    /\ Claims[p].aud = resource
    /\ Claims[p].key = jkt

ResourceBindingWithoutPerson(rt, p) ==
    /\ rt \in ResourceTokens /\ p = Claims[rt].presented
    /\ PresentedBinding(p, Claims[rt].iss, Claims[rt].key)
    /\ Claims[rt].mission = Claims[p].mission

(* verify_resource_token; create_resource_token takes these claims over.   *)
ResourceBinding(rt, p) ==
    /\ rt \in ResourceTokens /\ p = Claims[rt].presented
    /\ PresentedBinding(p, Claims[rt].iss, Claims[rt].key)
    /\ Claims[rt].ps = PersonServer(p)
    /\ Claims[rt].sub = Claims[p].sub
    /\ Claims[rt].mission = Claims[p].mission

-----------------------------------------------------------------------------
(* Issuing.                                                                *)

BoundedExpsByLatest(bounds) ==
    {e \in Expirations : now < e /\ e <= now + Hour /\ \E b \in bounds : e <= b}

(* What bounded_exp returns, depending on the requested expiration: past   *)
(* none of the bounds, and still to come.                                  *)
BoundedExps(bounds) ==
    {e \in Expirations : now < e /\ e <= now + Hour /\ \A b \in bounds : e <= b}

AnyExp == {e \in Expirations : now < e}

(* History: t is now known to stand on the tokens in inputs, and so is all *)
(* that stands on t.                                                       *)
Join(t, inputs) ==
    LET below == inputs \cup UNION {under[i] : i \in inputs}
    IN  [x \in Tokens |-> IF x = t \/ t \in under[x] THEN under[x] \cup below ELSE under[x]]

Issue(t, exps, inputs) ==
    /\ exp[t] = 0
    /\ \E e \in exps : exp' = [exp EXCEPT ![t] = e]
    /\ under' = Join(t, inputs)
    /\ UNCHANGED now

(* create_agent_token; a sub-agent's needs its parent's, verified now.     *)
CreateAgentToken(t) ==
    /\ t \in AgentTokens /\ Claims[t].iss \in Hosts
    /\ Claims[t].parent # None => \E p \in Tokens : Alive(p) /\ SubagentBinding(p, t)
    /\ Issue(t, AnyExp, {})

(* The agent token that signed a request, and the one whose key the new    *)
(* token is for: the same, or a sub-agent's.                               *)
Holder(agent, holder) ==
    /\ Issued(agent) /\ Issued(holder) /\ agent \in AgentTokens
    /\ Claims[agent].parent = None
    /\ holder = agent \/ SubagentBinding(agent, holder)

UpstreamGiven(u, agent, ps, role) ==
    u # None => Issued(u) /\ UpstreamBinding(u, agent, ps, role)

(* mission_exp, for a token with a mission.                                *)
MissionEnds(t) == {MissionEnd[m] : m \in Given(Claims[t].mission)}

CreatePersonTokenUnboundedByMission(t, agent, holder, u) ==
    /\ t \in PersonTokens /\ Claims[t].iss \in Hosts
    /\ Holder(agent, holder) /\ Claims[t].key = Claims[holder].key
    /\ UpstreamGiven(u, agent, Claims[t].iss, "ps")
    /\ \E bound \in {agent, holder} :
          LET inputs == {bound} \cup Given(u)
          IN  Issue(t, BoundedExps({exp[i] : i \in inputs}), inputs)

(* A PS, having verified the tokens when they were good, calls             *)
(* create_person_token.  agent_exp may be that of either agent token.      *)
CreatePersonToken(t, agent, holder, u) ==
    /\ t \in PersonTokens /\ Claims[t].iss \in Hosts
    /\ Holder(agent, holder) /\ Claims[t].key = Claims[holder].key
    /\ UpstreamGiven(u, agent, Claims[t].iss, "ps")
    /\ \E bound \in {agent, holder} :
          LET inputs == {bound} \cup Given(u)
          IN  Issue(t, BoundedExps({exp[i] : i \in inputs} \cup MissionEnds(t)), inputs)

(* create_resource_token verifies the presented token now.  The resource   *)
(* token may outlive it.                                                   *)
CreateResourceToken(t) ==
    /\ t \in ResourceTokens /\ Claims[t].iss \in Hosts
    /\ Alive(Claims[t].presented) /\ ResourceBinding(t, Claims[t].presented)
    /\ Issue(t, AnyExp, {})

(* What an auth token is for is what its resource token asked for.         *)
Answers(t, rt) ==
    /\ Claims[t].iss = Claims[rt].aud /\ Claims[t].aud = Claims[rt].iss
    /\ Claims[t].key = Claims[rt].key
    /\ Claims[t].sub = Claims[rt].sub /\ Claims[t].ps = Claims[rt].ps
    /\ Claims[t].mission = Claims[rt].mission

(* A PS or an AS, having verified the tokens when they were good, calls    *)
(* create_auth_token.  Only a PS passes mission_exp.                       *)
CreateAuthToken(t, agent, holder, rt, u) ==
    LET p == Claims[rt].presented
        byPS == Claims[t].iss = Claims[t].ps
    IN  /\ t \in AuthTokens /\ Claims[t].iss \in Hosts
        /\ Holder(agent, holder) /\ Claims[t].key = Claims[holder].key
        /\ Issued(rt) /\ Issued(p) /\ ResourceBinding(rt, p) /\ Answers(t, rt)
        /\ UpstreamGiven(u, agent, Claims[t].ps, IF byPS THEN "ps" ELSE "as")
        /\ \E bound \in {agent, holder} :
              LET inputs == {bound, p} \cup Given(u)
              IN  Issue(t, BoundedExps({exp[i] : i \in inputs}
                                       \cup IF byPS THEN MissionEnds(t) ELSE {}), inputs)

(* A server that does not use this library.                                *)
IssueElsewhere(t) ==
    /\ Claims[t].iss \notin Hosts
    /\ Issue(t, AnyExp, {})

Issuers ==
    \/ \E t \in Tokens : \/ CreateAgentToken(t)
                        \/ CreateResourceToken(t)
                        \/ IssueElsewhere(t)
    \/ \E t \in {x \in PresentableTokens : exp[x] = 0}, agent, holder \in AgentTokens :
          \E u \in PresentableTokens \cup {None} :
             \/ CreatePersonToken(t, agent, holder, u)
             \/ \E rt \in ResourceTokens : CreateAuthToken(t, agent, holder, rt, u)

Tick ==
    /\ now < MaxTime
    /\ now' = now + 1
    /\ UNCHANGED <<exp, under>>

TokensInit ==
    /\ now = 1
    /\ exp = [t \in Tokens |-> 0]
    /\ under = [t \in Tokens |-> {}]

TokensTypeOK ==
    /\ now \in Nat
    /\ exp \in [Tokens -> Expirations \cup {0}]
    /\ under \in [Tokens -> SUBSET Tokens]
=============================================================================
