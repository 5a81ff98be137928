------------------------------ MODULE MCSigning ------------------------------
(***************************************************************************)
(* Signing with a person server, which requires the body to be covered,    *)
(* and a resource, which requires another header; two bodies, two session  *)
(* tokens of which one is another agent's, and a token for another key.    *)
(***************************************************************************)
EXTENDS Signing

MCKeyOf == [t \in Tokens |-> IF t = "t3" THEN "k2" ELSE "k1"]
MCBoundTo == [s \in Sessions |-> IF s = "s1" THEN "k1" ELSE "k2"]
MCProfile == [r \in Recipients |-> IF r = "ps" THEN {"digest", "type"} ELSE {"extra"}]

MCFirsts == {[target |-> "here", query |-> None, body |-> "b1", type |-> None,
            digest |-> None, auth |-> None, extra |-> "x1", key |-> "t1"]}
=============================================================================
