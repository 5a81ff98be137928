----------------------------- MODULE MCExchange -----------------------------
(***************************************************************************)
(* Two small worlds.  In the first an agent, with a sub-agent, deals with  *)
(* servers that may issue anything.  In the second all servers use the     *)
(* library, and a resource that was given a token goes on, as an agent     *)
(* itself, to another resource.                                            *)
(***************************************************************************)
EXTENDS Exchange, TLC

(* The calls are interchangeable.                                          *)
AnyCall == Permutations(Calls)

Payload(typ, iss, aud, sub, key) ==
    [typ |-> typ, iss |-> iss, aud |-> aud, ps |-> None, sub |-> sub, key |-> key,
     mission |-> None, parent |-> None, presented |-> None]

(* The same token with the claims in w.                                    *)
With(p, w) == [f \in DOMAIN p |-> IF f \in DOMAIN w THEN w[f] ELSE p[f]]

Agent == Payload("agent", "ap", None, "A", "kA")
Child == With(Payload("agent", "ap", None, "A+1", "kC"), [parent |-> "A"])
Person == With(Payload("person", "ps", "r", "u", "kA"), [mission |-> "m"])
Resource == With(Payload("resource", "r", "as", "u", "kA"),
                 [ps |-> "ps", mission |-> "m", presented |-> "p"])
Auth == With(Payload("auth", "as", "r", "u", "kA"), [ps |-> "ps", mission |-> "m"])

(* rv, tv: for another person; tq: of another PS; pc: for the sub-agent.   *)
Mixed ==
    [a |-> Agent, c |-> Child, p |-> Person, r |-> Resource, t |-> Auth,
     rv |-> With(Resource, [sub |-> "v"]), tv |-> With(Auth, [sub |-> "v"]),
     tq |-> With(Auth, [ps |-> "pq"]), pc |-> With(Person, [key |-> "kC"])]
MixedTokens == {"a", "c", "p", "r", "t", "rv", "tv", "tq", "pc"}
MixedClaims == [x \in MixedTokens |-> Mixed[x]]

(* The resource r is the agent i; the token it was given, t, is upstream.  *)
(* pq is a person token of another PS.                                     *)
Chain ==
    [a |-> Agent, p |-> Person, r |-> Resource, t |-> Auth,
     i |-> Payload("agent", "r", None, "I", "kI"),
     p2 |-> With(Person, [aud |-> "r2", key |-> "kI"]),
     pq |-> With(Person, [iss |-> "pq", aud |-> "r2", key |-> "kI"]),
     r2 |-> With(Resource, [iss |-> "r2", aud |-> "ps", key |-> "kI", presented |-> "p2"]),
     t2 |-> With(Auth, [iss |-> "ps", aud |-> "r2", key |-> "kI"])]
ChainTokens == {"a", "p", "r", "t", "i", "p2", "pq", "r2", "t2"}
ChainClaims == [x \in ChainTokens |-> Chain[x]]

MCMissionEnd == [m \in Missions |-> 3]

Request(kind, agent, presented, rt, resource) ==
    [kind |-> kind, agent |-> agent, child |-> None, upstream |-> None,
     presented |-> presented, rt |-> rt, resource |-> resource, ps |-> "ps",
     mission |-> IF kind = "person" THEN "m" ELSE None]

MixedRequests ==
    {Request("person", "a", None, None, "r"),
     With(Request("person", "a", None, None, "r"), [child |-> "c"]),
     Request("auth", "a", "p", "r", "r"),
     Request("auth", "a", "p", "rv", "r"),
     Request("deferred", "a", "p", "r", "r")}

ChainRequests ==
    {Request("person", "a", None, None, "r"),
     Request("auth", "a", "p", "r", "r"),
     With(Request("person", "i", None, None, "r2"), [upstream |-> "t"]),
     With(Request("auth", "i", "p2", "r2", "r2"), [upstream |-> "t"])}
=============================================================================
