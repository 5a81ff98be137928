------------------------------- MODULE Signing -------------------------------
(***************************************************************************)
(* HTTP message signatures (aauth_signing/signer.py, signature_base.py and *)
(* verifier.py, with aauth/agent/signer.py and aauth/resource/verifier.py  *)
(* around them).  An agent edits one request, signs it, and edits and      *)
(* signs it again: sign_request works on the headers the last attempt left *)
(* behind.  Intermediaries alter parts of what was sent, knowing no key; a *)
(* recipient accepts or refuses what arrives.                              *)
(*                                                                         *)
(* A digest is represented by the body it is of, a signature by what it is *)
(* over and the key that made it.  created and the window are in Access.   *)
(* Where operators with the same parameters stand together, the last one   *)
(* is the code's, the others are bugs for the mutants, used nowhere.        *)
(***************************************************************************)
EXTENDS Naturals, FiniteSets

CONSTANTS
    Targets,     \* method, authority and path together
    Canonical,   \* those whose authority is in canonical_authorities
    Queries, Bodies, ContentTypes,
    DefaultType, \* application/octet-stream
    Sessions,    \* session tokens, as Authorization: AAuth ...
    OtherAuth,   \* Authorization headers of other schemes
    Extras,      \* values of another header
    Tokens,      \* what Signature-Key may carry
    Keys,
    KeyOf,       \* KeyOf[t]: the key token t confirms
    AgentKey,    \* private_key of the agent
    BoundTo,     \* BoundTo[s]: the key session s was given to
    Recipients,  \* recipient roles
    Profile,     \* Profile[r]: the components r requires besides the base
    Firsts,      \* the requests an agent may begin with
    None,        \* Python's None, a missing header
    MaxEdits, MaxSigned, MaxAltered \* bounds

(* The parts of a request a signature can cover; "target" stands for       *)
(* @method, @authority and @path.                                          *)
Base == {"target", "key"}
Optional == {"type", "digest", "extra"}
Components == Base \cup Optional \cup {"query", "auth"}

Maybe(S) == S \cup {None}
Values ==
    [target |-> Targets, query |-> Maybe(Queries), body |-> Maybe(Bodies),
     type |-> Maybe(ContentTypes), digest |-> Maybe(Bodies),
     auth |-> Maybe(Sessions \cup OtherAuth), extra |-> Maybe(Extras),
     key |-> Tokens]
Parts == DOMAIN Values
Requests == {r \in [Parts -> UNION {Values[p] : p \in Parts}] :
               \A p \in Parts : r[p] \in Values[p]}

ASSUME KeysAssumption ==
    KeyOf \in [Tokens -> Keys] /\ AgentKey \in Keys /\ BoundTo \in [Sessions -> Keys]
ASSUME ProfileAssumption == Profile \in [Recipients -> SUBSET Optional]
ASSUME FirstsAssumption == Firsts \subseteq Requests /\ DefaultType \in ContentTypes
ASSUME NoneAssumption ==
    /\ \A S \in {Targets, Tokens} : None \notin S
    /\ \A S \in {Queries, Bodies, ContentTypes, Extras} : None \notin S
    /\ None \notin Sessions \cup OtherAuth /\ Sessions \cap OtherAuth = {}
ASSUME BoundsAssumption == MaxEdits \in Nat /\ MaxSigned \in Nat /\ MaxAltered \in Nat

VARIABLES
    to,       \* the recipient
    request,  \* the agent's request, with the headers dict it signs
    edits,    \* edits since the last signature
    message,  \* the message sent last, as it is by now; or None
    altered,  \* how many parts of it were changed
    verdict,  \* what became of it
    sent      \* history: the messages as they were sent, each with the
              \* additional components the caller had asked for

vars == <<to, request, edits, message, altered, verdict, sent>>

(* A message: the request, Signature-Input's components and Signature.     *)
Lines == Components \X UNION {Values[p] : p \in Parts}
Messages == [request : Requests, input : SUBSET Components,
             signature : [over : SUBSET Lines, by : Keys]]
ASSUME NoMessageAssumption == None \notin Messages
-----------------------------------------------------------------------------
(* signature_base.py                                                       *)

(* build_signature_base, for the components it does not raise on.          *)
SignatureBase(r, covered) == {<<c, r[c]>> : c \in covered}
Buildable(r, covered) ==
    /\ \A c \in covered : r[c] # None
    /\ covered \cap {"type", "digest"} # {} => r.body # None

(* _determine_covered_components, and authorization if there is one.       *)
CoveredWithoutAuth(r, components) ==
    Base \cup components \cup (IF r.query = None THEN {} ELSE {"query"})
Covered(r, components) ==
    Base \cup components \cup (IF r.query = None THEN {} ELSE {"query"})
                         \cup (IF r.auth = None THEN {} ELSE {"auth"})
-----------------------------------------------------------------------------
(* The agent.                                                              *)

(* AgentRequestSigner: what servers require of a body.                     *)
ServerProfile(r) ==
    IF r.body # None /\ to \in {"ps", "as", "revocation"} THEN {"digest", "type"}
                                                          ELSE {}

(* sign_request on the headers: a new Content-Digest instead of any there  *)
(* is, and a Content-Type where there is none.                             *)
PreparedOfHeader(r, components) ==
    [r EXCEPT !.digest = IF "digest" \in components THEN r.type ELSE @]
PreparedOnce(r, components) ==
    [r EXCEPT !.digest = IF "digest" \in components /\ @ = None THEN r.body ELSE @,
              !.type = IF "type" \in components /\ @ = None THEN DefaultType ELSE @]
Prepared(r, components) ==
    [r EXCEPT !.digest = IF "digest" \in components THEN r.body ELSE @,
              !.type = IF "type" \in components /\ @ = None THEN DefaultType ELSE @]

(* The caller has had its answer, or stopped waiting for it.               *)
Forget == message' = None /\ altered' = 0 /\ verdict' = "none"

(* The caller changes the request, whatever headers it has by now.         *)
Edit(p, v) ==
    /\ verdict # "awaited"
    /\ edits < MaxEdits /\ Cardinality(sent) < MaxSigned
    /\ v # request[p]
    /\ request' = [request EXCEPT ![p] = v]
    /\ edits' = edits + 1
    /\ Forget
    /\ UNCHANGED <<to, sent>>

(* sign_request returns, and the request is sent.                          *)
Sign(components) ==
    LET all == components \cup ServerProfile(request)
        r == Prepared(request, all)
        covered == Covered(r, all)
        m == [request |-> r, input |-> covered,
              signature |-> [over |-> SignatureBase(r, covered), by |-> AgentKey]]
    IN  /\ verdict # "awaited" /\ Cardinality(sent) < MaxSigned
        /\ Buildable(r, covered)
        /\ request' = r
        /\ edits' = 0
        /\ message' = m
        /\ altered' = 0
        /\ verdict' = "awaited"
        /\ sent' = sent \cup {[message |-> m, asked |-> components]}
        /\ UNCHANGED to

(* It raises; what it did to the headers stays.                            *)
SignFails(components) ==
    LET all == components \cup ServerProfile(request)
        r == Prepared(request, all)
    IN  /\ verdict # "awaited"
        /\ ~ Buildable(r, Covered(r, all))
        /\ request' = IF "digest" \in all /\ r.body = None THEN request ELSE r
        /\ Forget
        /\ UNCHANGED <<to, edits, sent>>
-----------------------------------------------------------------------------
(* Intermediaries: a part is rewritten, removed or added, or the request   *)
(* or its answer lost.                                                     *)
Alter(p, v) ==
    /\ verdict = "awaited" /\ altered < MaxAltered
    /\ v # message.request[p]
    /\ message' = [message EXCEPT !.request[p] = v]
    /\ altered' = altered + 1
    /\ UNCHANGED <<to, request, edits, verdict, sent>>

Lose ==
    /\ verdict = "awaited"
    /\ Forget
    /\ UNCHANGED <<to, request, edits, sent>>
-----------------------------------------------------------------------------
(* The recipient.                                                          *)

RequiredOfAll(m) == Base \cup Profile[to]
Required(m) == Base \cup Profile[to]
               \cup (IF m.request.auth = None THEN {} ELSE {"auth"})

(* _verify_content_digest, for a digest that is covered.                   *)
DigestUnread(m) == m.request.digest # None
DigestMatches(m) == m.request.digest # None /\ m.request.digest = m.request.body

(* verify_signature                                                        *)
SignatureValid(m) ==
    /\ Required(m) \subseteq m.input
    /\ "digest" \in m.input => DigestMatches(m)
    /\ Buildable(m.request, m.input)
    /\ m.signature.by = KeyOf[m.request.key]
    /\ m.signature.over = SignatureBase(m.request, m.input)

(* The end of verify_request: a session must be bound to the signing key.  *)
SessionValid(m) ==
    m.request.auth \in Sessions => BoundTo[m.request.auth] = KeyOf[m.request.key]

Verified(m) ==
    m.request.target \in Canonical /\ SignatureValid(m) /\ SessionValid(m)

Receive ==
    /\ verdict = "awaited"
    /\ verdict' = IF Verified(message) THEN "accepted" ELSE "refused"
    /\ UNCHANGED <<to, request, edits, message, altered, sent>>
-----------------------------------------------------------------------------
Init ==
    /\ to \in Recipients
    /\ request \in Firsts
    /\ edits = 0
    /\ message = None
    /\ altered = 0
    /\ verdict = "none"
    /\ sent = {}

Next ==
    \/ \E p \in Parts \ {"digest"} : \E v \in Values[p] : Edit(p, v)
    \/ \E p \in Parts : \E v \in Values[p] : Alter(p, v)
    \/ \E components \in SUBSET Optional : Sign(components) \/ SignFails(components)
    \/ Lose \/ Receive

Spec == Init /\ [][Next]_vars
-----------------------------------------------------------------------------
TypeOK ==
    /\ to \in Recipients
    /\ request \in Requests
    /\ edits \in Nat
    /\ message \in Messages \cup {None}
    /\ altered \in Nat
    /\ verdict \in {"none", "awaited", "accepted", "refused"}
    /\ verdict # "none" => message # None
    /\ sent \subseteq [message : Messages, asked : SUBSET Optional]

(* A request that is accepted agrees with one and the same signed request  *)
(* in all that the recipient requires and all that the signer covered, in  *)
(* its body where either of them has the digest covered, and in its        *)
(* Authorization, which is not one that joined it on the way               *)
(* (verifier.py:77-103 of aauth_signing, resource/verifier.py:85-134).     *)
AcceptedAsSigned ==
    verdict = "accepted" => \E s \in sent :
        /\ \A c \in Base \cup Profile[to] \cup s.message.input \cup {"auth"} :
              message.request[c] = s.message.request[c]
        /\ "digest" \in Profile[to] \cup s.message.input =>
              message.request.body = s.message.request.body
        /\ message.request.auth \in Sessions =>
              BoundTo[message.request.auth] = AgentKey

(* Nothing that was signed for its recipient and reaches it unaltered is   *)
(* refused, however often the request was edited and signed before: with   *)
(* what the recipient declares as additional components, or for a request  *)
(* with a body to a server with its role alone (README.md:126-128,         *)
(* signer.py:60-85, agent/signer.py:32-43).                                *)
UnalteredAccepted ==
    verdict = "refused" => \A s \in sent :
        LET r == s.message.request
        IN  /\ r.target \in Canonical
            /\ KeyOf[r.key] = AgentKey
            /\ r.auth \in Sessions => BoundTo[r.auth] = AgentKey
            /\ Profile[to] \subseteq s.asked \cup ServerProfile(r)
            => message # s.message
=============================================================================
