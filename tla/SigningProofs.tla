---------------------------- MODULE SigningProofs ----------------------------
(***************************************************************************)
(* What signatures guarantee, for any requests, profiles and keys, and any *)
(* number of edits, signatures and alterations.                            *)
(***************************************************************************)
EXTENDS Signing, TLAPS

(* What sign_request returns covers what was asked for and what is there,  *)
(* and a digest it covers is that of the body.                             *)
SentInv ==
    \A s \in sent :
        LET m == s.message
            r == s.message.request
        IN  /\ m.signature.over = SignatureBase(r, m.input)
            /\ m.signature.by = AgentKey
            /\ Base \cup s.asked \cup ServerProfile(r) \subseteq m.input
            /\ r.auth # None => "auth" \in m.input
            /\ "digest" \in m.input => r.digest = r.body
            /\ Buildable(r, m.input)

(* What is altered on the way keeps its Signature-Input and Signature.     *)
FlightInv ==
    message # None => \E s \in sent :
        message.input = s.message.input /\ message.signature = s.message.signature

VerdictInv ==
    /\ verdict = "accepted" => Verified(message)
    /\ verdict = "refused" => ~ Verified(message)

IInv == TypeOK /\ SentInv /\ FlightInv /\ VerdictInv

(* What Requests says, part by part.                                       *)
LEMMA RequestParts ==
    /\ Parts = {"target", "query", "body", "type", "digest", "auth", "extra", "key"}
    /\ Components \subseteq Parts
    /\ \A r \in Requests, p \in Parts :
         r[p] \in Values[p] /\ r[p] \in UNION {Values[q] : q \in Parts}
BY DEF Parts, Values, Components, Base, Optional, Requests

(* A part is replaced by a value of its kind.                              *)
LEMMA Replaced ==
    ASSUME NEW r \in Requests, NEW p \in Parts, NEW v \in Values[p]
    PROVE  [r EXCEPT ![p] = v] \in Requests
<1>1. [r EXCEPT ![p] = v] \in [Parts -> UNION {Values[q] : q \in Parts}]
  BY DEF Requests
<1>2. \A q \in Parts : [r EXCEPT ![p] = v][q] \in Values[q]
  BY DEF Requests
<1> QED
  BY <1>1, <1>2 DEF Requests

LEMMA PreparedType ==
    ASSUME NEW r \in Requests, NEW components
    PROVE  /\ Prepared(r, components) \in Requests
           /\ \A p \in Parts \ {"digest", "type"} : Prepared(r, components)[p] = r[p]
           /\ "digest" \in components => Prepared(r, components).digest = r.body
<1> DEFINE q == [r EXCEPT !.digest = IF "digest" \in components THEN r.body ELSE @]
<1>1. "digest" \in Parts /\ "type" \in Parts /\ "body" \in Parts
  BY RequestParts
<1>2. Values["digest"] = Values["body"] /\ DefaultType \in Values["type"]
  BY FirstsAssumption DEF Values, Maybe
<1>3. (IF "digest" \in components THEN r["body"] ELSE r["digest"]) \in Values["digest"]
  BY <1>1, <1>2, RequestParts
<1>4. q \in Requests
  BY <1>1, <1>3, Replaced
<1>5. (IF "type" \in components /\ q["type"] = None THEN DefaultType ELSE q["type"])
        \in Values["type"]
  BY <1>1, <1>2, <1>4, RequestParts
<1> DEFINE t == [q EXCEPT !.type = IF "type" \in components /\ @ = None
                                   THEN DefaultType ELSE @]
<1>6. t \in Requests
  <2> HIDE DEF q
  <2> QED BY <1>1, <1>4, <1>5, Replaced
<1>7. DOMAIN r = Parts /\ DOMAIN q = Parts
  BY <1>4 DEF Requests
<1>8. Prepared(r, components) = t
  BY <1>7, <1>1 DEF Prepared
<1>9. \A p \in Parts \ {"digest", "type"} : t[p] = r[p]
  BY <1>7
<1>10. "digest" \in components => t.digest = r.body
  BY <1>7, <1>1
<1> QED
  BY <1>6, <1>8, <1>9, <1>10

LEMMA SignatureBaseType ==
    ASSUME NEW r \in Requests, NEW covered \in SUBSET Components
    PROVE  SignatureBase(r, covered) \in SUBSET Lines
BY RequestParts DEF SignatureBase, Lines

(* Equal signature bases agree in every component they cover.              *)
LEMMA SameBase ==
    ASSUME NEW r, NEW s, NEW covered,
           SignatureBase(r, covered) = SignatureBase(s, covered)
    PROVE  \A c \in covered : r[c] = s[c]
<1> SUFFICES ASSUME NEW c \in covered PROVE r[c] = s[c]
  OBVIOUS
<1>1. <<c, r[c]>> \in SignatureBase(s, covered)
  BY DEF SignatureBase
<1>2. PICK d \in covered : <<c, r[c]>> = <<d, s[d]>>
  BY <1>1 DEF SignatureBase
<1> QED
  BY <1>2

LEMMA InitInv == Init => IInv
BY FirstsAssumption DEF Init, IInv, TypeOK, SentInv, FlightInv, VerdictInv
-----------------------------------------------------------------------------
(* Sign, with the names of its definition.                                 *)
LEMMA SignStep ==
    ASSUME IInv, NEW components \in SUBSET Optional, Sign(components)
    PROVE  IInv'
<1> DEFINE all == components \cup ServerProfile(request)
           r == Prepared(request, all)
           covered == Covered(r, all)
           m == [request |-> r, input |-> covered,
                 signature |-> [over |-> SignatureBase(r, covered), by |-> AgentKey]]
           s == [message |-> m, asked |-> components]
<1>1. /\ to' = to /\ request' = r /\ edits' = 0 /\ message' = m /\ altered' = 0
      /\ verdict' = "awaited" /\ sent' = sent \cup {s}
      /\ Buildable(r, covered)
  BY DEF Sign
<1>2. TypeOK /\ SentInv /\ request \in Requests
  BY DEF IInv, TypeOK
<1>3. all \subseteq Optional
  BY DEF ServerProfile, Optional
<1>4. /\ r \in Requests
      /\ \A p \in Parts \ {"digest", "type"} : r[p] = request[p]
      /\ "digest" \in all => r.digest = request.body
  BY <1>2, PreparedType
<1>5. r.body = request.body /\ r.auth = request.auth
  BY <1>4, RequestParts
<1>6. ServerProfile(r) = ServerProfile(request)
  BY <1>5 DEF ServerProfile
<1>7. /\ covered \in SUBSET Components
      /\ Base \cup all \subseteq covered
      /\ r.auth # None => "auth" \in covered
      /\ "digest" \in covered => "digest" \in all
  BY <1>3 DEF Covered, Components, Base, Optional
<1>8. SignatureBase(r, covered) \in SUBSET Lines
  BY <1>4, <1>7, SignatureBaseType
<1>9. m \in Messages
  BY <1>4, <1>7, <1>8, KeysAssumption DEF Messages
<1>10. s \in [message : Messages, asked : SUBSET Optional]
  BY <1>9
<1>11. /\ s.message = m /\ s.asked = components /\ m.request = r /\ m.input = covered
       /\ m.signature.over = SignatureBase(r, covered) /\ m.signature.by = AgentKey
  OBVIOUS
<1>12. m # None
  BY NoMessageAssumption, <1>9
<1> HIDE DEF m, s, covered, r, all
<1>13. TypeOK'
  BY <1>1, <1>2, <1>4, <1>9, <1>10, <1>12 DEF TypeOK
<1>14. components \subseteq all /\ ServerProfile(r) \subseteq all
  BY <1>6 DEF all
<1>15. "digest" \in covered => r.digest = r.body
  BY <1>4, <1>5, <1>7
<1>16. /\ m.signature.over = SignatureBase(r, m.input)
       /\ m.signature.by = AgentKey
       /\ Base \cup s.asked \cup ServerProfile(r) \subseteq m.input
       /\ r.auth # None => "auth" \in m.input
       /\ "digest" \in m.input => r.digest = r.body
       /\ Buildable(r, m.input)
  BY <1>1, <1>7, <1>11, <1>14, <1>15
<1>17. \A u : ServerProfile(u)' = ServerProfile(u)
  BY <1>1 DEF ServerProfile
<1>18. SentInv'
  BY <1>1, <1>2, <1>11, <1>16, <1>17 DEF SentInv
<1>19. FlightInv' /\ VerdictInv'
  BY <1>1, <1>11 DEF FlightInv, VerdictInv
<1> QED
  BY <1>13, <1>18, <1>19 DEF IInv
-----------------------------------------------------------------------------
(* Steps that keep to, sent and message, or forget the message, disturb    *)
(* TypeOK only in what they assign.                                        *)
LEMMA Kept ==
    ASSUME IInv, UNCHANGED <<to, sent>>,
           \/ message' = None /\ verdict' = "none"
           \/ UNCHANGED <<message, verdict>>
    PROVE  SentInv' /\ FlightInv' /\ VerdictInv'
<1>1. \A u : ServerProfile(u)' = ServerProfile(u)
  BY DEF ServerProfile
<1>2. SentInv'
  BY <1>1 DEF IInv, SentInv
<1>3. FlightInv'
  BY DEF IInv, FlightInv
<1>4. VerdictInv'
  <2>1. CASE message' = None /\ verdict' = "none"
    BY <2>1 DEF VerdictInv
  <2>2. CASE UNCHANGED <<message, verdict>>
    <3>1. \A m : Verified(m)' = Verified(m)
      BY DEF Verified, SignatureValid, SessionValid, Required
    <3> QED BY <2>2, <3>1 DEF IInv, VerdictInv
  <2> QED BY <2>1, <2>2
<1> QED
  BY <1>2, <1>3, <1>4

LEMMA EditStep ==
    ASSUME IInv, NEW p \in Parts, NEW v \in Values[p], Edit(p, v)
    PROVE  IInv'
<1>1. request' \in Requests
  BY Replaced DEF Edit, IInv, TypeOK
<1>2. TypeOK'
  BY <1>1 DEF IInv, TypeOK, Edit, Forget
<1> QED
  BY <1>2, Kept DEF IInv, Edit, Forget

LEMMA SignFailsStep ==
    ASSUME IInv, NEW components \in SUBSET Optional, SignFails(components)
    PROVE  IInv'
<1>1. request' \in Requests
  BY PreparedType DEF SignFails, IInv, TypeOK
<1>2. TypeOK'
  BY <1>1 DEF IInv, TypeOK, SignFails, Forget
<1> QED
  BY <1>2, Kept DEF IInv, SignFails, Forget

LEMMA AlterStep ==
    ASSUME IInv, NEW p \in Parts, NEW v \in Values[p], Alter(p, v)
    PROVE  IInv'
<1> DEFINE r == [message.request EXCEPT ![p] = v]
           m == [message EXCEPT !.request = r]
<1>1. message \in Messages
  BY DEF IInv, TypeOK, Alter
<1>2. r \in Requests
  BY <1>1, Replaced DEF Messages
<1>3. m \in Messages /\ m.input = message.input /\ m.signature = message.signature
  BY <1>1, <1>2 DEF Messages
<1>4. message' = m
  BY DEF Alter
<1>5. m # None
  BY <1>3, NoMessageAssumption
<1> HIDE DEF m
<1>6. TypeOK'
  BY <1>3, <1>4, <1>5 DEF IInv, TypeOK, Alter
<1>7. \A u : ServerProfile(u)' = ServerProfile(u)
  BY DEF ServerProfile, Alter
<1>8. SentInv'
  BY <1>7 DEF IInv, SentInv, Alter
<1>9. FlightInv'
  <2>1. message # None
    BY <1>1, NoMessageAssumption
  <2> QED BY <2>1, <1>3, <1>4 DEF IInv, FlightInv, Alter
<1>10. VerdictInv'
  BY DEF VerdictInv, Alter
<1> QED
  BY <1>6, <1>8, <1>9, <1>10 DEF IInv

LEMMA ReceiveStep ==
    ASSUME IInv, Receive
    PROVE  IInv'
<1>1. TypeOK'
  BY DEF IInv, TypeOK, Receive
<1>2. \A u : ServerProfile(u)' = ServerProfile(u)
  BY DEF ServerProfile, Receive
<1>3. SentInv'
  BY <1>2 DEF IInv, SentInv, Receive
<1>4. FlightInv'
  BY DEF IInv, FlightInv, Receive
<1>5. Verified(message)' = Verified(message)
  BY DEF Verified, SignatureValid, SessionValid, Required, Receive
<1>6. VerdictInv'
  BY <1>5 DEF VerdictInv, Receive
<1> QED
  BY <1>1, <1>3, <1>4, <1>6 DEF IInv

LEMMA StepInv == IInv /\ [Next]_vars => IInv'
<1> SUFFICES ASSUME IInv, [Next]_vars PROVE IInv'
  OBVIOUS
<1>1. CASE \E p \in Parts \ {"digest"} : \E v \in Values[p] : Edit(p, v)
  BY <1>1, EditStep
<1>2. CASE \E p \in Parts : \E v \in Values[p] : Alter(p, v)
  BY <1>2, AlterStep
<1>3. CASE \E components \in SUBSET Optional : Sign(components) \/ SignFails(components)
  BY <1>3, SignStep, SignFailsStep
<1>4. CASE Lose
  <2>1. TypeOK'
    BY <1>4 DEF IInv, TypeOK, Lose, Forget
  <2> QED BY <1>4, <2>1, Kept DEF IInv, Lose, Forget
<1>5. CASE Receive
  BY <1>5, ReceiveStep
<1>6. CASE UNCHANGED vars
  <2>1. TypeOK'
    BY <1>6 DEF IInv, TypeOK, vars
  <2> QED BY <1>6, <2>1, Kept DEF IInv, vars
<1> QED
  BY <1>1, <1>2, <1>3, <1>4, <1>5, <1>6 DEF Next

LEMMA Invariant == Spec => []IInv
BY InitInv, StepInv, PTL DEF Spec
-----------------------------------------------------------------------------
(* What passes verification and carries the signature of s agrees with s   *)
(* in all that is required and all that is covered, and in the body under  *)
(* a covered digest.                                                       *)
LEMMA AcceptedMeans == IInv => AcceptedAsSigned
<1> SUFFICES ASSUME IInv, verdict = "accepted"
    PROVE  \E s \in sent :
        /\ \A c \in Base \cup Profile[to] \cup s.message.input \cup {"auth"} :
              message.request[c] = s.message.request[c]
        /\ "digest" \in Profile[to] \cup s.message.input =>
              message.request.body = s.message.request.body
        /\ message.request.auth \in Sessions =>
              BoundTo[message.request.auth] = AgentKey
  BY DEF AcceptedAsSigned
<1>1. Verified(message) /\ message # None
  BY DEF IInv, VerdictInv, TypeOK
<1>2. PICK s \in sent :
        message.input = s.message.input /\ message.signature = s.message.signature
  BY <1>1 DEF IInv, FlightInv
<1> DEFINE r == message.request
           q == s.message.request
           input == message.input
<1>3. /\ SignatureBase(r, input) = SignatureBase(q, input)
      /\ message.signature.by = AgentKey
      /\ q.auth # None => "auth" \in input
      /\ "digest" \in input => q.digest = q.body
  BY <1>1, <1>2 DEF IInv, SentInv, Verified, SignatureValid
<1>4. /\ Base \cup Profile[to] \subseteq input
      /\ r.auth # None => "auth" \in input
      /\ "digest" \in input => r.digest = r.body
      /\ KeyOf[r.key] = AgentKey
      /\ r.auth \in Sessions => BoundTo[r.auth] = KeyOf[r.key]
  BY <1>1, <1>3 DEF Verified, SignatureValid, SessionValid, Required, DigestMatches
<1>5. \A c \in input : r[c] = q[c]
  BY <1>3, SameBase
<1>6. r.auth = q.auth
  BY <1>3, <1>4, <1>5
<1>7. \A c \in Base \cup Profile[to] \cup input \cup {"auth"} : r[c] = q[c]
  BY <1>4, <1>5, <1>6
<1>8. "digest" \in Profile[to] \cup input => r.body = q.body
  BY <1>3, <1>4, <1>5
<1> QED
  BY <1>2, <1>4, <1>7, <1>8

(* What was signed for the recipient verifies as it was sent.              *)
LEMMA RefusedMeans == IInv => UnalteredAccepted
<1> SUFFICES ASSUME IInv, verdict = "refused", NEW s \in sent,
                    s.message.request.target \in Canonical,
                    KeyOf[s.message.request.key] = AgentKey,
                    s.message.request.auth \in Sessions =>
                        BoundTo[s.message.request.auth] = AgentKey,
                    Profile[to] \subseteq s.asked \cup ServerProfile(s.message.request)
             PROVE  message # s.message
  BY DEF UnalteredAccepted
<1> DEFINE m == s.message
<1>1. /\ m.signature.over = SignatureBase(m.request, m.input)
      /\ m.signature.by = AgentKey
      /\ Base \cup s.asked \cup ServerProfile(m.request) \subseteq m.input
      /\ m.request.auth # None => "auth" \in m.input
      /\ "digest" \in m.input => m.request.digest = m.request.body
      /\ Buildable(m.request, m.input)
  BY DEF IInv, SentInv
<1>2. Required(m) \subseteq m.input
  BY <1>1 DEF Required
<1>3. "digest" \in m.input => DigestMatches(m)
  BY <1>1 DEF Buildable, DigestMatches
<1>4. SignatureValid(m) /\ SessionValid(m)
  BY <1>1, <1>2, <1>3 DEF SignatureValid, SessionValid
<1>5. Verified(m)
  BY <1>4 DEF Verified
<1> QED
  BY <1>5 DEF IInv, VerdictInv

(* The types of the state (signer.py and verifier.py of aauth_signing,     *)
(* agent/signer.py, resource/verifier.py).                                 *)
THEOREM TypeCorrect == Spec => []TypeOK
<1>1. IInv => TypeOK
  BY DEF IInv
<1> QED
  BY <1>1, Invariant, PTL

(* What a recipient accepts was signed by the agent, in all that the       *)
(* recipient requires or the signature covers (verifier.py:77-103 of       *)
(* aauth_signing, resource/verifier.py:85-134).                            *)
THEOREM OnlyWhatWasSigned == Spec => []AcceptedAsSigned
BY AcceptedMeans, Invariant, PTL

(* What was signed for its recipient is accepted if it arrives unaltered,  *)
(* however often the headers were used before (signer.py:60-85,            *)
(* agent/signer.py:32-43).                                                 *)
THEOREM NothingSignedIsRefused == Spec => []UnalteredAccepted
BY RefusedMeans, Invariant, PTL
=============================================================================
