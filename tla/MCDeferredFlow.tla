--------------------------- MODULE MCDeferredFlow ---------------------------
(***************************************************************************)
(* DeferredFlow with two questions, two interaction codes (the second      *)
(* replaces the first) and a gateway that gives any of the other answers a *)
(* poller may meet: slow and busy ones, moves within and off the origin,   *)
(* interactions of its own, headers that do not parse, a redirect.         *)
(***************************************************************************)
EXTENDS DeferredFlow

MCUrls == {"a/1", "a/2", "b/1"}
MCOrigin == [u \in MCUrls |-> IF u = "b/1" THEN "b" ELSE "a"]

MCVerdicts == {200, 403}

Plain(s) == Final(s)
After(r, n) == [r EXCEPT !.retry = n]
To(r, u) == [r EXCEPT !.location = u]
Interaction(c, e) == [Plain(202) EXCEPT !.requirement = "interaction",
                                        !.code = c, !.endpoint = e]

MCStrays ==
    {Plain(303), Plain(429), Plain(503), After(Plain(202), 0),
     After(Plain(429), 30), After(Plain(503), -1),
     To(Plain(202), "a/2"), To(Plain(202), "b/1"),
     Interaction("c1", "http"), To(Interaction("c2", None), "a/2"),
     [To(Plain(202), "a/2") EXCEPT !.requirement = "malformed"]}

MCStarts == {Pending202(q, c, FALSE) :
               q \in Questions \cup {None}, c \in Codes \cup {None}}
MCResponses ==
    MCStrays \cup {Final(v) : v \in MCVerdicts}
    \cup {Pending202(q, c, t) :
            q \in Questions \cup {None}, c \in Codes \cup {None}, t \in BOOLEAN}
=============================================================================
