---------------------------- MODULE MCRevocation ----------------------------
(***************************************************************************)
(* Small instances of Revocation: a person server (PS) with an agent token *)
(* above a person token, a grant bound to the agent's identity only and an *)
(* auth token below the grant, and an access server (AS) with a chain of   *)
(* auth tokens and two recipients.                                         *)
(***************************************************************************)
EXTENDS RevocationInv, TLC

(* The calls are interchangeable.                                          *)
AnyCall == Permutations(Calls)

(* The key an agent provider issued, and the jti it shares with a token of *)
(* this server; a third server is not accepted.                            *)
AgentToken == <<"ap", "1">>
Stranger == <<"xx", "2">>
Person == <<"ps", "1">>
Auth == <<"ps", "2">>
Grant == <<"ps", "3">>

PSIssued == {Person, Auth, Grant}
PSForeign == {AgentToken, Stranger}
PSDeps == [t \in PSIssued |->
             CASE t = Person -> {AgentToken}
               [] t = Auth -> {Grant}
               [] t = Grant -> {}]
(* The same tokens as a chain of three below the agent token.              *)
ChainDeps == [t \in PSIssued |->
                CASE t = Person -> {AgentToken}
                  [] t = Grant -> {Person}
                  [] t = Auth -> {Grant}]
PSIdentity == [t \in PSIssued |-> IF t = Auth THEN None ELSE "alice"]
PSSubject == [k \in PSIssued \cup PSForeign |->
                IF k = AgentToken THEN "alice" ELSE None]
PSRecipients == [t \in PSIssued |-> IF t = Grant THEN <<>> ELSE <<"resource">>]

(* The AS: a person token of the PS, an auth token on it, and one below.   *)
ASIssued == {<<"as", "1">>, <<"as", "2">>}
ASForeign == {Person}
ASDeps == [t \in ASIssued |->
             IF t = <<"as", "1">> THEN {Person} ELSE {<<"as", "1">>}]
ASIdentity == [t \in ASIssued |-> None]
ASSubject == [k \in ASIssued \cup ASForeign |-> None]
ASRecipients == [t \in ASIssued |-> IF t = <<"as", "1">> THEN <<"r1", "r2">>
                                                         ELSE <<"r2">>]
OneIssued == {<<"as", "1">>}
OneDeps == [t \in OneIssued |-> {Person}]
OneIdentity == [t \in OneIssued |-> None]
OneSubject == [k \in OneIssued \cup ASForeign |-> None]
OneRecipients == [t \in OneIssued |-> <<"r1", "r2">>]
=============================================================================
