--------------------------- MODULE MCRevocationNet ---------------------------
(***************************************************************************)
(* RevocationNet with a person server above an access server above a       *)
(* resource, each of the two lower ones set up in any manner.              *)
(***************************************************************************)
EXTENDS RevocationNet

MCChildren == [s \in Servers |-> CASE s = "ps" -> <<"as">>
                                   [] s = "as" -> <<"r1">>
                                   [] OTHER -> <<>>]
MCRole == [s \in Servers |-> IF s \in {"ps", "as"} THEN s ELSE "resource"]
=============================================================================
