---------------------------- MODULE RevocationInv ---------------------------
(***************************************************************************)
(* The inductive invariants behind the safety properties of Revocation:    *)
(* what holds between any two steps of any call.                           *)
(***************************************************************************)
EXTENDS Revocation

Scanning(p) == pc[p] \in {"scan", "notify", "await"}
Notifying(p) == pc[p] \in {"notify", "await"}

Distinct(q) == \A i, j \in 1..Len(q) : q[i] = q[j] => i = j

(* Where a call is fixes what its locals hold.                             *)
ControlInv ==
    \A p \in Calls :
        /\ Notifying(p) => child[p] \in registered \cap scheduled[p]
        /\ pc[p] = "await" => rest[p] # <<>>
        /\ pc[p] = "idle" => scheduled[p] = {} /\ queue[p] = <<>>
        /\ pc[p] = "done" => queue[p] = <<>>
        /\ known[p] \cup todo[p] \subseteq registered

(* The queue holds, once each, scheduled keys that were not visited; until *)
(* a call is cancelled these are all the keys it still has to visit.       *)
QueueInv ==
    \A p \in Calls :
        /\ Range(queue[p]) \cup visited[p] \subseteq scheduled[p]
        /\ Range(queue[p]) \cap visited[p] = {}
        /\ Distinct(queue[p])
        /\ pc[p] # "cancelled" =>
             scheduled[p] \subseteq visited[p] \cup Range(queue[p])

(* Of the tokens known at the start, those a visited key affects are       *)
(* scheduled, but for what the scan under way has before it.               *)
WalkInv ==
    \A p \in Calls : \A k \in visited[p], t \in known[p] :
        pc[p] # "cancelled" /\ Live(t) /\ Affected(p, k, t) =>
            \/ t \in scheduled[p]
            \/ Scanning(p) /\ k = key[p] /\ t \in todo[p]

(* What a call scheduled, and what a recipient recorded, is on record      *)
(* here.                                                                   *)
CoverInv ==
    /\ \A p \in Calls : \A t \in scheduled[p] \cap Issued :
         t \in registered /\ Covered(t)
    /\ \A t \in Issued, r \in Recipients :
         <<t, r>> \in peer => t \in registered /\ Covered(t)

IInv == TypeOK /\ ControlInv /\ QueueInv /\ WalkInv /\ CoverInv

(* A success the store remembers was delivered; a recipient of a scheduled *)
(* token recorded it, or has an error in the report, or is still to be     *)
(* asked.                                                                  *)
DeliveryInv ==
    /\ \A t \in Issued, r \in Recipients :
         outcomes[t][r] \in {"ok", "downstream"} => <<t, r>> \in peer
    /\ \A p \in Calls : Role = "as" /\ pc[p] # "cancelled" =>
         \A t \in scheduled[p] \ {root[p]} : \A r \in Range(RecipientsOf[t]) :
            \/ <<t, r>> \in peer
            \/ \E x \in report[p] : x.recipient = r /\ x.error # "none"
            \/ Notifying(p) /\ t = child[p] /\ r \in Range(rest[p])

(* A call that has still to look at t for d's sake, or was kept from it.   *)
Pending(p, d, t) ==
    /\ d \in scheduled[p]
    /\ \/ pc[p] = "cancelled"
       \/ d \in Range(queue[p])
       \/ Scanning(p) /\ d = key[p] /\ t \in todo[p]

(* Every live token below a revoked one is revoked, or some call is on its *)
(* way to it.                                                              *)
ClosureInv ==
    \A t \in registered : \A d \in Deps[t] :
        IsRevoked(d) /\ Live(t) =>
            revoked[t] >= exp[t] \/ \E p \in Calls : Pending(p, d, t)

(* A registered token expires no later than those it depends on.           *)
NestInv ==
    \A t \in registered : \A d \in Deps[t] \cap Issued :
        d \in registered /\ exp[t] <= exp[d]

(* Whatever is revoked was scheduled by a call that has reason to revoke   *)
(* it.                                                                     *)
ReasonInv ==
    /\ \A t \in Issued : revoked[t] # 0 => \E p \in Calls : t \in scheduled[p]
    /\ \A p \in Calls :
        /\ pc[p] \in {"idle", "refused"} => scheduled[p] = {}
        /\ Scanning(p) => key[p] \in scheduled[p]
        /\ agent[p] # None => Role = "ps" /\ agent[p] = SubjectOf[root[p]]
        /\ scheduled[p] # {} => root[p] \in Keys /\ Issuer(root[p]) \in AllowedIssuers
        /\ \A t \in scheduled[p] : Reaches(p, t)

(* At most one call is under way.                                          *)
OneAtATime ==
    \A p, q \in Calls : {pc[p], pc[q]} \subseteq {"pop", "scan", "notify", "await"}
                          => p = q

(* The report names the recipients of all that was scheduled, but for those *)
(* of the token being notified that are still to be asked, or were skipped  *)
(* for an earlier success.                                                  *)
ReportInv ==
    \A p \in Calls : Role = "as" /\ pc[p] # "cancelled" =>
        \A t \in scheduled[p] \ {root[p]} : \A r \in Range(RecipientsOf[t]) :
            \/ \E x \in report[p] : x.recipient = r
            \/ /\ Notifying(p) /\ t = child[p]
               /\ r \in Range(rest[p]) \/ outcomes[t][r] = "ok"
=============================================================================
