------------------------------- MODULE MCJWKS -------------------------------
(***************************************************************************)
(* A small instance of JWKS: an issuer with one metadata document that     *)
(* rotates its keys once.                                                  *)
(***************************************************************************)
EXTENDS JWKS

OneIssuer == [d \in Documents |-> "i1"]
OneUri == [d \in Documents |-> "u1"]

(* Each version keeps the key before it.                                   *)
Rolling == [v \in Versions |-> {v, v + 1} \cap Kids]
=============================================================================
