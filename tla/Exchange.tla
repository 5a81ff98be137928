------------------------------ MODULE Exchange ------------------------------
(***************************************************************************)
(* The agent's side of aauth/agent/token_exchange.py, among the issuers of *)
(* Tokens and resources that verify requests (aauth/resource/verifier.py). *)
(*                                                                         *)
(* A call of request_person_token, exchange_resource_token or              *)
(* complete_deferred_resource_request verifies the tokens it is given,     *)
(* asks the PS, and waits: for the metadata, for the answer, for the polls *)
(* of a deferred one.  Meanwhile time passes and tokens are issued and     *)
(* expire.  The PS may then answer with any token at all: one for another  *)
(* call, for another person, from another issuer.  What the call verifies  *)
(* at the end, and what it kept from the start, must suffice.              *)
(*                                                                         *)
(* The key fetcher is synchronous, so each verification, and all that      *)
(* follows the answer up to the return, is one step.                       *)
(***************************************************************************)
EXTENDS Tokens

CONSTANTS
    Calls,         \* concurrent calls
    Requests,      \* the arguments they may be made with
    TrustedAuth,   \* trusted_auth_servers of the resources
    TrustedPerson  \* trusted_person_servers of the resources

Arguments ==
    [kind : {"person", "auth", "deferred"}, agent : Tokens,
     child : Tokens \cup {None}, upstream : Tokens \cup {None},
     presented : Tokens \cup {None}, rt : Tokens \cup {None},
     resource : Servers, ps : Servers, mission : Missions \cup {None}]

ASSUME RequestsAssumption ==
    /\ Requests \subseteq Arguments
    /\ \A q \in Requests : IF q.kind = "person" THEN q.presented = None /\ q.rt = None
                           ELSE None \notin {q.presented, q.rt}
    /\ \A q \in Requests : q.kind = "deferred" => q.child = None /\ q.upstream = None
    /\ None \notin Requests

VARIABLES
    pc,      \* where each call is
    req,     \* its arguments, or None
    result   \* the token it has returned, or None

vars == <<tokens, pc, req, result>>

-----------------------------------------------------------------------------
(* What a call checks.                                                     *)

(* The key the new token must be bound to.                                 *)
KeyOf(q) == Claims[IF q.child = None THEN q.agent ELSE q.child].key

(* The mission asked for: the upstream token's, when it has one.           *)
MissionOf(q) ==
    IF q.upstream # None /\ Claims[q.upstream].mission # None
    THEN Claims[q.upstream].mission
    ELSE q.mission

(* The tokens a call stands on, its resource token aside.                  *)
Inputs(q) == {q.agent} \cup Given(q.child) \cup Given(q.upstream) \cup Given(q.presented)

Participants(q) ==
    /\ q.agent \in AgentTokens /\ Alive(q.agent) /\ Claims[q.agent].parent = None
    /\ q.child # None => Alive(q.child) /\ SubagentBinding(q.agent, q.child)
    /\ q.upstream # None =>
          Alive(q.upstream) /\ UpstreamBinding(q.upstream, q.agent, q.ps, "as")

Challenge(q) ==
    /\ Alive(q.rt) /\ Alive(q.presented) /\ ResourceBinding(q.rt, q.presented)
    /\ Claims[q.rt].iss = q.resource /\ Claims[q.rt].ps = q.ps
    /\ Claims[q.rt].key = KeyOf(q)

PersonTokenGoodForAgentOnly(q, t) ==
    /\ t \in PersonTokens /\ Alive(t)
    /\ Claims[t].iss = q.ps /\ Claims[t].aud = q.resource /\ Claims[t].key = KeyOf(q)
    /\ exp[t] <= exp[q.agent]
    /\ Claims[t].mission = MissionOf(q)
    /\ q.upstream # None => Alive(q.upstream) /\ exp[t] <= exp[q.upstream]

(* The end of request_person_token.                                        *)
PersonTokenGood(q, t) ==
    /\ t \in PersonTokens /\ Alive(t)
    /\ Claims[t].iss = q.ps /\ Claims[t].aud = q.resource /\ Claims[t].key = KeyOf(q)
    /\ exp[t] <= exp[q.agent]
    /\ q.child # None => exp[t] <= exp[q.child]
    /\ Claims[t].mission = MissionOf(q)
    /\ q.upstream # None => Alive(q.upstream) /\ exp[t] <= exp[q.upstream]

AuthTokenGoodForAnyPS(q, t) ==
    /\ t \in AuthTokens /\ Alive(t) /\ Alive(q.presented)
    /\ Claims[t].iss = Claims[q.rt].aud /\ Claims[t].aud = q.resource
    /\ Claims[t].key = KeyOf(q)
    /\ Claims[t].sub = Claims[q.rt].sub
    /\ Claims[t].mission = Claims[q.rt].mission
    /\ q.upstream # None => Claims[t].mission = Claims[q.upstream].mission
    /\ \A i \in Inputs(q) : exp[t] <= exp[i]

AuthTokenGoodForDuration(q, t) ==
    /\ t \in AuthTokens /\ Alive(t)
    /\ Claims[t].iss = Claims[q.rt].aud /\ Claims[t].aud = q.resource
    /\ Claims[t].key = KeyOf(q)
    /\ Claims[t].sub = Claims[q.rt].sub /\ Claims[t].ps = q.ps
    /\ Claims[t].mission = Claims[q.rt].mission
    /\ q.upstream # None => Claims[t].mission = Claims[q.upstream].mission

(* The end of exchange_resource_token.                                     *)
AuthTokenGood(q, t) ==
    /\ t \in AuthTokens /\ Alive(t) /\ Alive(q.presented)
    /\ Claims[t].iss = Claims[q.rt].aud /\ Claims[t].aud = q.resource
    /\ Claims[t].key = KeyOf(q)
    /\ Claims[t].sub = Claims[q.rt].sub /\ Claims[t].ps = q.ps
    /\ Claims[t].mission = Claims[q.rt].mission
    /\ q.upstream # None => Claims[t].mission = Claims[q.upstream].mission
    /\ \A i \in Inputs(q) : exp[t] <= exp[i]

(* verify_request, for a token that its holder presents to resource r.     *)
WouldAccept(r, t) ==
    /\ Alive(t)
    /\ \/ t \in AgentTokens /\ Claims[t].aud \in {None, r}
       \/ t \in AuthTokens /\ Claims[t].aud = r /\ Claims[t].iss \in TrustedAuth
       \/ t \in PersonTokens /\ Claims[t].aud = r /\ Claims[t].iss \in TrustedPerson

-----------------------------------------------------------------------------
(* Actions.                                                                *)

Start(c, q) ==
    /\ pc[c] = "idle"
    /\ Participants(q)
    /\ q.kind # "person" => Challenge(q)
    /\ pc' = [pc EXCEPT ![c] = "asking"]
    /\ req' = [req EXCEPT ![c] = q]
    /\ UNCHANGED <<tokens, result>>

Return(c, t) ==
    /\ pc[c] = "asking"
    /\ IF req[c].kind = "person" THEN PersonTokenGood(req[c], t) ELSE AuthTokenGood(req[c], t)
    /\ pc' = [pc EXCEPT ![c] = IF req[c].kind = "deferred" THEN "redeeming" ELSE "done"]
    /\ result' = [result EXCEPT ![c] = t]
    /\ under' = Join(t, Inputs(req[c]))
    /\ UNCHANGED <<now, exp, req>>

RedeemByAskingAgain(c) ==
    /\ pc[c] = "redeeming"
    /\ pc' = [pc EXCEPT ![c] = IF WouldAccept(req[c].resource, result[c])
                              THEN "done" ELSE "asking"]
    /\ UNCHANGED <<tokens, req, result>>

(* The resource answers the poll for the request it holds.                 *)
Redeem(c) ==
    /\ pc[c] = "redeeming"
    /\ WouldAccept(req[c].resource, result[c])
    /\ pc' = [pc EXCEPT ![c] = "done"]
    /\ UNCHANGED <<tokens, req, result>>

(* Every exception: no metadata, no answer, a refusal, too many polls, or  *)
(* a token that is not the one asked for.                                  *)
Fail(c) ==
    /\ pc[c] \in {"asking", "redeeming"}
    /\ pc' = [pc EXCEPT ![c] = "failed"]
    /\ UNCHANGED <<tokens, req, result>>

Init ==
    /\ TokensInit
    /\ pc = [c \in Calls |-> "idle"]
    /\ req = [c \in Calls |-> None]
    /\ result = [c \in Calls |-> None]

Agents ==
    \E c \in Calls :
        \/ \E q \in Requests : Start(c, q)
        \/ \E t \in Tokens : Return(c, t)
        \/ Redeem(c)
        \/ Fail(c)

Next ==
    \/ Agents
    \/ Issuers /\ UNCHANGED <<pc, req, result>>
    \/ Tick /\ UNCHANGED <<pc, req, result>>

Spec == Init /\ [][Next]_vars

-----------------------------------------------------------------------------
(* What makes the properties below inductive.                              *)

(* No token outlives those below it, and agent tokens stand on none.       *)
NestedInv ==
    /\ \A t \in Tokens, d \in Tokens : d \in under[t] => 0 < exp[t] /\ exp[t] <= exp[d]
    /\ \A t \in Tokens : under[t] # {} => t \in PresentableTokens

(* What was verified at the start and cannot change.                       *)
CallInv ==
    \A c \in Calls : pc[c] # "idle" =>
        LET q == req[c]
        IN  /\ q.agent \in AgentTokens
            /\ q.child # None => q.child \in AgentTokens
            /\ q.upstream # None => /\ q.upstream \in PresentableTokens
                                   /\ PersonServer(q.upstream) = q.ps
            /\ q.kind # "person" => /\ ResourceBinding(q.rt, q.presented)
                                    /\ Claims[q.rt].iss = q.resource
                                    /\ Claims[q.rt].ps = q.ps
                                    /\ Claims[q.rt].key = KeyOf(q)

-----------------------------------------------------------------------------
(* Properties.                                                             *)

(* The values of each variable.  A call that waits knows its arguments and *)
(* has no result yet; one that was answered has a token.                   *)
TypeOK ==
    /\ TokensTypeOK
    /\ pc \in [Calls -> {"idle", "asking", "redeeming", "done", "failed"}]
    /\ req \in [Calls -> Requests \cup {None}]
    /\ result \in [Calls -> Tokens \cup {None}]
    /\ \A c \in Calls : /\ pc[c] # "idle" => req[c] # None
                        /\ pc[c] \in {"idle", "asking"} => result[c] = None
                        /\ pc[c] \in {"redeeming", "done"} => result[c] # None

(* No resource accepts a token when any token below it has expired: not    *)
(* the agent's, not the presented one, not those of the agents upstream,   *)
(* however long the chain and whatever the order the calls ended in        *)
(* (bounded_exp, and the lifetime checks of token_exchange.py:213 and 308).*)
AcceptedChainAlive ==
    \A r \in Servers, t \in Tokens : WouldAccept(r, t) => \A d \in under[t] : Alive(d)

(* All tokens of a chain are of one PS, that of the first person token,    *)
(* though each is verified against its neighbours only (delegation.py:61,  *)
(* resource_token.py:105, token_exchange.py:206).                          *)
OnePersonServer ==
    \A t \in Tokens, d \in Tokens \ AgentTokens :
        d \in under[t] => PersonServer(d) = PersonServer(t)

(* The auth token a call returns is for the person, the mission, the       *)
(* resource, the key and the PS of the token the resource was shown, and   *)
(* for the mission of the upstream token: another call's answer, or one    *)
(* for a resource token that was bound to something else, is refused       *)
(* (exchange_resource_token).                                              *)
BoundToPresented ==
    \A c \in Calls :
        result[c] # None /\ req[c].kind # "person" =>
            LET p == Claims[req[c].presented]
                r == Claims[result[c]]
            IN  /\ r.sub = p.sub /\ r.mission = p.mission /\ r.aud = p.aud /\ r.key = p.key
                /\ r.ps = PersonServer(req[c].presented)
                /\ r.key \in {Claims[i].key : i \in Inputs(req[c]) \cap AgentTokens}
                /\ req[c].upstream # None => r.mission = Claims[req[c].upstream].mission

(* The inductive invariant.                                                *)
IInv == TypeOK /\ NestedInv /\ CallInv /\ OnePersonServer /\ BoundToPresented

(* When a call returns, the token and all the call was given are alive,    *)
(* although all but one were verified only before the wait                 *)
(* (token_exchange.py:202-222, 296-316).                                   *)
ReturnedAlive ==
    [][\A c \in Calls :
          result'[c] # result[c] => \A i \in Inputs(req[c]) \cup {result'[c]} : Alive(i)]_vars

(* "Person/auth lifetimes are capped ... at their agent, presented,        *)
(* upstream, and mission bounds" (README.md:144): a token with a mission   *)
(* ends with it, an auth token of an AS too, which is not told when the    *)
(* mission ends.  For servers that all use this library.                   *)
MissionBound ==
    \A t \in PresentableTokens :
        Issued(t) /\ Claims[t].mission # None => exp[t] <= MissionEnd[Claims[t].mission]
=============================================================================
