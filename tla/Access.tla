------------------------------- MODULE Access -------------------------------
(***************************************************************************)
(* Signed requests on their way to a resource: an agent that signs with    *)
(* the token the resource asks for and refreshes its tokens before they    *)
(* expire (aauth/agent, token_needs_refresh), a network that loses, delays *)
(* and duplicates, and the threads of a resource that run verify_request   *)
(* (aauth/resource, aauth_signing/verifier.py).                            *)
(*                                                                         *)
(* verify_request reads the clock three times, asks for the issuer's keys  *)
(* twice and looks the token up among the revoked ones once.  Time passes, *)
(* keys are dropped and tokens revoked between these steps.  The keys come *)
(* from a cache, which may know a key for a while after its issuer dropped *)
(* it (JWKS), and a revocation is forgotten once the token has expired.    *)
(*                                                                         *)
(* Times are kept as ages and as what is left of a token's lifetime, in    *)
(* ticks by the resource's clock, and stop where no comparison can tell    *)
(* them apart.  The agent's clock is skew ticks ahead; issuers are on      *)
(* time.  As in Revocation, the first of two operators that stand together *)
(* is a bug for PROJECT.json's mutants, used nowhere.                      *)
(***************************************************************************)
EXTENDS Integers, FiniteSets

CONSTANTS
    Jtis,       \* jti values; one that nobody holds any more is used again
    Slots,      \* requests that may be under way
    Threads,    \* threads of the resource
    TypeOf,     \* TypeOf[j]: the type of token j
    None,       \* Python's None
    Required,   \* the type of token the route requires
    Habits,     \* may the agent refresh its tokens before it uses them, or not?
    Margin,     \* margin of token_needs_refresh
    Window,     \* signature_window
    Second,     \* ticks in a second
    Patience,   \* how long a verification lasts: the limit of the key fetcher
    Staleness,  \* for how long the key fetcher may know a dropped key
    Lifetimes,  \* the lifetimes issuers give tokens, the bounds on them aside
    Skews,      \* how far ahead the agent's clock may be
    Longest,    \* no token is known for longer to have expired
    MaxFaults,  \* bound on key rotations and revocations
    Settles     \* may the environment settle down (see Settle)?

Types == {"agent", "person", "auth"}

ASSUME TypeAssumption == TypeOf \in [Jtis -> Types]
ASSUME NoneAssumption == None \notin Jtis /\ None \notin Slots
ASSUME RequiredAssumption ==
    Required \in Types /\ Habits \subseteq BOOLEAN /\ Settles \in BOOLEAN
ASSUME TimesAssumption ==
    /\ Margin \in Nat /\ Window \in Nat /\ Second \in Nat \ {0} /\ Patience \in Nat
    /\ Staleness \in Nat /\ Longest \in Nat \ {0} /\ MaxFaults \in Nat
    /\ Skews \subseteq Int /\ Lifetimes \subseteq Nat \ {0}

VARIABLES
    calm,    \* has the environment settled down?
    skew,    \* the agent's clock minus the resource's
    habit,   \* does the agent refresh its tokens before it uses them?
    left,    \* left[j]: exp - time.time()
    flaws,   \* flaws[j]: revoked, signed with a key that its issuer dropped
    cached,  \* cached[j]: for how long the key fetcher may know that key still
    faults,  \* how many of these there have been
    held,    \* the agent's tokens
    want,    \* the requirement it answers, an agent token at first
    ticket,  \* has it a resource token whose presented_jti is its person token's?
    asked,   \* the slot of the request it waits for, or None
    reply,   \* the answer that has arrived
    net,     \* signed requests; to receive one does not remove it
    pc,      \* where each thread is in verify_request
    job,     \* the token it verifies
    from,    \* the slot of its request
    busy,    \* for how long
    wrong    \* history: what was wrong with the token when it began

given == <<skew, habit>>
tokens == <<left, flaws, cached, faults>>
agent == <<held, want, ticket, asked, reply>>
threads == <<pc, job, from, busy, wrong>>
vars == <<calm, given, tokens, agent, net, threads>>

Least(a, b) == IF a < b THEN a ELSE b
Largest(a, b) == IF a > b THEN a ELSE b

(* The tokens that somebody holds, sends or verifies.                      *)
InUse ==
    {held[t] : t \in Types} \cup {job[w] : w \in Threads}
    \cup {net[s].token : s \in {x \in Slots : net[x] # None}}
    \cup (IF reply = None THEN {} ELSE {reply.ticket})
Unused == Jtis \ InUse

Alive(j) == left[j] > 0

(* verify_jwt finds the key in the set that its fetcher returns: it is     *)
(* published, or was until the set was made.                               *)
Published(j) == "dropped" \notin flaws[j]
Keyed(j) == Published(j) \/ cached[j] > 0

(* verify_jwt may return; it may raise, if only for want of a key set.     *)
Verifies(j) == Alive(j) /\ Keyed(j)
MayFail(j) == calm => ~ (Alive(j) /\ Published(j))

Recorded(j) == "revoked" \in flaws[j]

(* is_revoked: the record, which has the token's exp, lapses after it.     *)
Lapsed(j) == left[j] < 0
RevokedUntilExp(j) == Recorded(j) /\ Alive(j)
Revoked(j) == Recorded(j) /\ ~ Lapsed(j)

(* What a verification that begins now has reason to refuse.               *)
WrongWith(j) ==
    (IF Alive(j) THEN {} ELSE {"expired"})
    \cup (IF Keyed(j) THEN {} ELSE {"unknown"})
    \cup (IF Recorded(j) THEN {"revoked"} ELSE {})

FreshForTwiceTheWindow(r) == - Window <= r.age /\ r.age <= 2 * Window

(* verify_signature: created is at most signature_window off.              *)
Fresh(r) == - Window <= r.age /\ r.age <= Window

(* token_needs_refresh, by the agent's clock.                              *)
NeedsRefresh(j) == left[j] - skew < Margin

(* A token that the application has its signer use.                        *)
Good(t) == held[t] # None /\ (habit => ~ NeedsRefresh(held[t]))

Ok == [says |-> "ok", want |-> "agent", ticket |-> None]
Late == [says |-> "late", want |-> "agent", ticket |-> None]
Useless(j) == [says |-> "useless", want |-> "agent", ticket |-> j]
Require(t, j) == [says |-> "challenge", want |-> t, ticket |-> j]

Replies ==
    {Ok, Late} \cup {Useless(j) : j \in Jtis}
    \cup {Require(t, j) : t \in Types, j \in Jtis \cup {None}}

Requests == [token : Jtis, age : Int]

-----------------------------------------------------------------------------
(* The agent.                                                              *)

(* What a token is issued on.                                              *)
Inputs(t) ==
    {held[x] : x \in CASE t = "agent" -> {} [] t = "person" -> {"agent"}
                       [] OTHER -> {"agent", "person"}}

(* A token from the agent provider, request_person_token or                *)
(* exchange_resource_token returns, with the lifetime that bounded_exp     *)
(* allows.  The agent refreshes in order: agent, person, auth.             *)
Obtain(t) ==
    /\ asked = None
    /\ ~ Good(t)
    /\ t = "person" => want # "agent"
    /\ t = "auth" => ticket
    /\ \A i \in Inputs(t) : i # None /\ flaws[i] = {} /\ left[i] > 0
    /\ habit => \A i \in Inputs(t) : ~ NeedsRefresh(i)
    /\ \E j \in Unused, life \in Lifetimes :
          LET bound == {life} \cup {left[i] : i \in Inputs(t)}
          IN  \E l \in bound :
                 /\ TypeOf[j] = t
                 /\ \A b \in bound : l <= b
                 /\ l > skew
                 /\ left' = [left EXCEPT ![j] = l]
                 /\ flaws' = [flaws EXCEPT ![j] = {}]
                 /\ cached' = [cached EXCEPT ![j] = 0]
                 /\ held' = [held EXCEPT ![t] = j]
    /\ ticket' = (t = "agent" /\ ticket)
    /\ UNCHANGED <<calm, given, faults, want, asked, reply, net, threads>>

(* The agent learns from a failed exchange that a token is of no use.      *)
Discard(t) ==
    /\ asked = None
    /\ held[t] # None /\ flaws[held[t]] # {}
    /\ held' = [held EXCEPT ![t] = None]
    /\ ticket' = (t # "person" /\ ticket)
    /\ UNCHANGED <<calm, given, tokens, want, asked, reply, net, threads>>

(* determine_response_scheme: the token for a requirement, if available.   *)
Available(t) == t = want /\ Good(t)

(* Without the auth token, the application shows its person token to be    *)
(* challenged for one.                                                     *)
Credential(t) ==
    \/ Available(t)
    \/ t = "person" /\ want = "auth" /\ Good(t) /\ ~ Good("auth") /\ ~ ticket

(* sign_request: created is in whole seconds, which drops a part of the    *)
(* current one.                                                            *)
Sign(t) ==
    /\ asked = None
    /\ Credential(t)
    /\ \E s \in Slots, part \in 0..(Second - 1) :
          /\ net[s] = None /\ \A w \in Threads : from[w] # s
          /\ net' = [net EXCEPT ![s] =
                       [token |-> held[t],
                        age |-> Least(part - skew, Window + 1)]]
          /\ asked' = s
    /\ UNCHANGED <<calm, given, tokens, held, want, ticket, reply, threads>>

(* The application goes by the last challenge; a token that was refused is *)
(* not tried again.                                                        *)
Handle ==
    /\ reply # None
    /\ IF reply.says = "challenge"
       THEN /\ want' = reply.want
            /\ ticket' = (reply.ticket # None /\ reply.ticket = held["person"])
       ELSE /\ want' = want
            /\ ticket' = (ticket /\ reply.ticket # held["person"])
    /\ held' = [t \in Types |-> IF reply.says = "useless" /\ held[t] = reply.ticket
                                THEN None ELSE held[t]]
    /\ asked' = None
    /\ reply' = None
    /\ UNCHANGED <<calm, given, tokens, net, threads>>

(* The client's timeout.                                                   *)
GiveUp ==
    /\ asked # None /\ reply = None
    /\ calm => net[asked] = None /\ \A w \in Threads : from[w] # asked
    /\ asked' = None
    /\ UNCHANGED <<calm, given, tokens, held, want, ticket, reply, net, threads>>

-----------------------------------------------------------------------------
(* The resource.                                                           *)

(* An answer to a request the agent waits for; the first one counts.       *)
Respond(s, r) == reply' = IF asked = s /\ reply = None THEN r ELSE reply

(* verify_request up to the first key fetch: the checks of the request     *)
(* itself, then its time.                                                  *)
Begin(w, s) ==
    /\ pc[w] = "idle"
    /\ net[s] # None /\ Fresh(net[s])
    /\ calm => asked = s /\ reply = None
    /\ pc' = [pc EXCEPT ![w] = "signature"]
    /\ job' = [job EXCEPT ![w] = net[s].token]
    /\ from' = [from EXCEPT ![w] = s]
    /\ busy' = [busy EXCEPT ![w] = 0]
    /\ wrong' = [wrong EXCEPT ![w] = WrongWith(net[s].token)]
    /\ net' = IF calm THEN [net EXCEPT ![s] = None] ELSE net
    /\ UNCHANGED <<calm, given, tokens, agent>>

(* Clock skew, or a request that took too long.                            *)
RefuseLate(s) ==
    /\ net[s] # None /\ ~ Fresh(net[s])
    /\ asked = s /\ reply = None
    /\ Respond(s, Late)
    /\ UNCHANGED <<calm, given, tokens, held, want, ticket, asked, net, threads>>

(* _verify_jwt_scheme, and the signature with the key the token confirms.  *)
CheckSignature(w) ==
    /\ pc[w] = "signature"
    /\ Verifies(job[w])
    /\ pc' = [pc EXCEPT ![w] = "token"]
    /\ UNCHANGED <<calm, given, tokens, agent, net, job, from, busy, wrong>>

(* verify_token up to its last check: keys and expiration again.           *)
CheckToken(w) ==
    /\ pc[w] = "token"
    /\ Verifies(job[w])
    /\ pc' = [pc EXCEPT ![w] = "revocation"]
    /\ UNCHANGED <<calm, given, tokens, agent, net, job, from, busy, wrong>>

(* revocation_checker.                                                     *)
CheckRevocation(w) ==
    /\ pc[w] = "revocation"
    /\ ~ Revoked(job[w])
    /\ pc' = [pc EXCEPT ![w] = "decide"]
    /\ UNCHANGED <<calm, given, tokens, agent, net, job, from, busy, wrong>>

StopInPlace(w) ==
    /\ pc' = pc
    /\ job' = [job EXCEPT ![w] = None]
    /\ from' = [from EXCEPT ![w] = None]
    /\ busy' = [busy EXCEPT ![w] = 0]
    /\ wrong' = [wrong EXCEPT ![w] = {}]

(* verify_request returns or raises.                                       *)
Stop(w) ==
    /\ pc' = [pc EXCEPT ![w] = "idle"]
    /\ job' = [job EXCEPT ![w] = None]
    /\ from' = [from EXCEPT ![w] = None]
    /\ busy' = [busy EXCEPT ![w] = 0]
    /\ wrong' = [wrong EXCEPT ![w] = {}]

(* A check fails, or the fetcher has no keys.                              *)
Refuse(w) ==
    /\ \/ pc[w] \in {"signature", "token"} /\ MayFail(job[w])
       \/ pc[w] = "revocation" /\ Revoked(job[w])
    /\ Respond(from[w], Useless(job[w]))
    /\ Stop(w)
    /\ UNCHANGED <<calm, given, tokens, held, want, ticket, asked, net>>

PersonTokenChallenge(j) == {Require("person", None)}

(* build_challenge for a request that was not signed with the token the    *)
(* route requires.  It is given a person token as presented_token; for an  *)
(* agent token issue_token would raise.  issue_token verifies the          *)
(* presented token once more, which may fail now, but without a            *)
(* revocation_checker, which build_challenge does not pass on.             *)
Challenge(j) ==
    IF Required = "auth" /\ TypeOf[j] # "agent"
    THEN {r \in {Require("auth", j)} : Verifies(j)} \cup {r \in {Useless(j)} : MayFail(j)}
    ELSE {Require(IF Required = "agent" THEN "agent" ELSE "person", None)}

(* The end of verify_request, and the application's answer.                *)
Decide(w) ==
    /\ pc[w] = "decide"
    /\ \E r \in IF TypeOf[job[w]] = Required THEN {Ok} ELSE Challenge(job[w]) :
          Respond(from[w], r)
    /\ Stop(w)
    /\ UNCHANGED <<calm, given, tokens, held, want, ticket, asked, net>>

-----------------------------------------------------------------------------
(* The environment.                                                        *)

Lose(s) ==
    /\ net[s] # None
    /\ calm => asked # s
    /\ net' = [net EXCEPT ![s] = None]
    /\ UNCHANGED <<calm, given, tokens, agent, threads>>

(* A revocation is recorded, or an issuer drops the key it signed with.    *)
Fault(j, f) ==
    /\ ~ calm /\ faults < MaxFaults
    /\ j \in InUse /\ f \notin flaws[j]
    /\ faults' = faults + 1
    /\ flaws' = [flaws EXCEPT ![j] = @ \cup {f}]
    /\ cached' = IF f = "dropped" THEN [cached EXCEPT ![j] = Staleness] ELSE cached
    /\ UNCHANGED <<calm, given, left, agent, net, threads>>

(* A verification that reaches the limit of the key fetcher goes on before *)
(* time does.                                                              *)
Tick ==
    /\ calm => asked = None
    /\ \A w \in Threads : pc[w] # "idle" => busy[w] < Patience
    /\ left' = [j \in Jtis |->
                  IF j \in InUse THEN Largest(left[j] - 1, - Longest) ELSE 0]
    /\ cached' = [j \in Jtis |-> Largest(cached[j] - 1, 0)]
    /\ net' = [s \in Slots |->
                 IF net[s] = None THEN None
                 ELSE [net[s] EXCEPT !.age = Least(@ + 1, Window + 1)]]
    /\ busy' = [w \in Threads |-> IF pc[w] = "idle" THEN 0 ELSE busy[w] + 1]
    /\ UNCHANGED <<calm, given, flaws, faults, agent, pc, job, from, wrong>>

(* From now on nothing is lost, delivered twice, dropped or revoked, the   *)
(* fetcher has keys, and requests are answered at once.                    *)
Settle ==
    /\ Settles /\ ~ calm
    /\ calm' = TRUE
    /\ UNCHANGED <<given, tokens, agent, net, threads>>

Init ==
    /\ calm = FALSE
    /\ skew \in Skews
    /\ habit \in Habits
    /\ left = [j \in Jtis |-> 0]
    /\ flaws = [j \in Jtis |-> {}]
    /\ cached = [j \in Jtis |-> 0]
    /\ faults = 0
    /\ held = [t \in Types |-> None]
    /\ want = "agent"
    /\ ticket = FALSE
    /\ asked = None
    /\ reply = None
    /\ net = [s \in Slots |-> None]
    /\ pc = [w \in Threads |-> "idle"]
    /\ job = [w \in Threads |-> None]
    /\ from = [w \in Threads |-> None]
    /\ busy = [w \in Threads |-> 0]
    /\ wrong = [w \in Threads |-> {}]

Agent == Handle \/ GiveUp \/ \E t \in Types : Obtain(t) \/ Discard(t) \/ Sign(t)

Resource ==
    \/ \E w \in Threads :
          \/ \E s \in Slots : Begin(w, s)
          \/ CheckSignature(w) \/ CheckToken(w) \/ CheckRevocation(w)
          \/ Refuse(w) \/ Decide(w)
    \/ \E s \in Slots : RefuseLate(s)

Environment ==
    \/ \E s \in Slots : Lose(s)
    \/ \E j \in Jtis, f \in {"revoked", "dropped"} : Fault(j, f)
    \/ Tick \/ Settle

Next == Agent \/ Resource \/ Environment

Spec == Init /\ [][Next]_vars

(* The environment settles down; then the agent, which must not be late    *)
(* every time, uses and obtains tokens before they need a refresh, and     *)
(* what has begun goes on.                                                 *)
FairSpec ==
    /\ Spec
    /\ WF_vars(Settle)
    /\ WF_vars(\/ Handle \/ GiveUp \/ Resource
               \/ \E t \in Types : Discard(t)
               \/ \E s \in Slots : Lose(s))
    /\ \A t \in Types : SF_vars(Obtain(t)) /\ SF_vars(Sign(t))

-----------------------------------------------------------------------------
(* Properties.                                                             *)

TypeOK ==
    /\ calm \in BOOLEAN
    /\ skew \in Skews
    /\ habit \in Habits
    /\ left \in [Jtis -> Int]
    /\ flaws \in [Jtis -> SUBSET {"revoked", "dropped"}]
    /\ cached \in [Jtis -> 0..Staleness]
    /\ faults \in 0..MaxFaults
    /\ held \in [Types -> Jtis \cup {None}]
    /\ want \in Types
    /\ ticket \in BOOLEAN
    /\ asked \in Slots \cup {None}
    /\ reply \in Replies \cup {None}
    /\ net \in [Slots -> Requests \cup {None}]
    /\ pc \in [Threads -> {"idle", "signature", "token", "revocation", "decide"}]
    /\ job \in [Threads -> Jtis \cup {None}]
    /\ from \in [Threads -> Slots \cup {None}]
    /\ busy \in [Threads -> 0..Patience]
    /\ wrong \in [Threads -> SUBSET {"expired", "unknown", "revoked"}]
    /\ \A w \in Threads : pc[w] # "idle" => job[w] # None

(* verify_request is not atomic, but at the moment it began there was      *)
(* nothing wrong with a token it accepts: not expired, its key published   *)
(* no longer ago than the fetcher's cache may be behind, and not revoked.  *)
(* The one exception is a token that was revoked then and has expired      *)
(* since, after its expiration was checked: the record of the revocation   *)
(* was forgotten before it was looked up (verifier.py:38-105 of            *)
(* aauth/resource, tokens/common.py:133 and revocation.py:152 of aauth).   *)
ValidAtOnce ==
    \A w \in Threads :
       pc[w] = "decide" =>
          \/ wrong[w] = {}
          \/ (wrong[w] = {"revoked"} /\ Lapsed(job[w]))

(* The agent whose tokens do not need a refresh when it signs never has a  *)
(* request refused for an expired token: a request that takes so long is   *)
(* refused for its signature.  This rests on the margin, of aauth, being   *)
(* larger than the window, of aauth_signing, and holds for any skew        *)
(* (missions.py:78, verifier.py:88-101 of aauth_signing).                  *)
NoneExpiresOnTheWay ==
    habit => /\ \A s \in Slots :
                   net[s] # None /\ Fresh(net[s]) => Alive(net[s].token)
             /\ \A w \in Threads : pc[w] # "idle" => Alive(job[w])

(* An agent goes on being served: from any state, whatever has expired,    *)
(* been revoked, lost or refused, the challenges lead it to the token the  *)
(* route requires (challenge_builder.py:27, challenge_handler.py:11).      *)
Served == []<>(reply = Ok)
=============================================================================
