----------------------------- MODULE MCAccess ------------------------------
(* Access with interchangeable requests and threads, and tokens that are   *)
(* interchangeable with those of their type.                               *)
EXTENDS Access, TLC

CONSTANTS AgentJtis, PersonJtis, AuthJtis

MCJtis == AgentJtis \cup PersonJtis \cup AuthJtis

MCTypeOf ==
    [j \in MCJtis |-> CASE j \in AgentJtis -> "agent"
                        [] j \in PersonJtis -> "person"
                        [] OTHER -> "auth"]

Renamings ==
    UNION {Permutations(S) :
              S \in {Slots, Threads, AgentJtis, PersonJtis, AuthJtis}}

(* A token that nobody holds any more has no data.                         *)
View ==
    <<calm, given, [j \in InUse \ {None} |-> <<left[j], flaws[j], cached[j]>>], faults,
      agent, net, threads>>

(* The agent's clock is behind or ahead.                                   *)
MCSkews == {-1, 1}
=============================================================================
