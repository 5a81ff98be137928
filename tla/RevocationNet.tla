---------------------------- MODULE RevocationNet ----------------------------
(***************************************************************************)
(* A revocation on its way through several servers: send_revocation and    *)
(* handle_request of aauth/revocation.py on the two ends of every exchange *)
(* and revoke in between, which forwards it to the recipients of what the  *)
(* server issued on the revoked token.  Requests and replies are lost, a   *)
(* sender gives up while the recipient goes on, and the issuer's host      *)
(* repeats the request while what is left of the last one still runs.      *)
(*                                                                         *)
(* Revocation models one server in detail and takes what a send ends with  *)
(* for granted; this module shows it.  A hop <<n, s>> is the request that  *)
(* server s is sent in round n.  Where two operators with the same         *)
(* parameters stand together, the first is a bug for the mutants.          *)
(***************************************************************************)
EXTENDS Naturals, Sequences, Functions

CONSTANTS
    Servers,
    Top,         \* the server the issuer's host sends its request to
    Children,    \* Children[s]: node.recipients of what s has issued
    Role,        \* Role[s]: RevocationManager.role
    Deferring,   \* servers whose hosts may answer 202 first
    Rounds,      \* how often the issuer's host sends the request
    MaxPolls,    \* the max_polls argument
    None         \* no reply has arrived

Hops == (1..Rounds) \X Servers
Below(e, s) == <<e[1], s>>

Replies == {"pending", "ok", "report", "forbidden", "busy", "error"}
Outcomes == {"unsent", "ok", "downstream", "unsupported", "unavailable"}

(* The recipients form a tree.                                             *)
ASSUME TreeAssumption ==
    /\ Top \in Servers
    /\ Children \in [Servers -> Seq(Servers \ {Top})]
    /\ \A s, t \in Servers :
         s # t => Range(Children[s]) \cap Range(Children[t]) = {}
ASSUME RoleAssumption == Role \in [Servers -> {"ps", "as", "resource"}]
ASSUME BoundsAssumption == Rounds \in Nat /\ MaxPolls \in Nat
ASSUME NoneAssumption == None \notin Replies

(* What its metadata and its allowed_issuers say to the one above it.      *)
Manners == {"accepts", "refuses", "no_endpoint"}

VARIABLES
    manner,     \* manner[s]: how s is set up
    recorded,   \* the servers whose store has the record
    remembered, \* remembered[s]: node.outcomes, as the server above s has it
    inbox,      \* hops whose request is on its way
    job,        \* job[e]: where the call of revoke for hop e is
    left,       \* left[e]: node.recipients it still has to ask
    good, bad,  \* good[e], bad[e]: recipients reported without, with an error
    answer,     \* answer[e]: what it answers once it has ended
    link,       \* link[e]: where the sender is in send_revocation
    reply,      \* reply[e]: the reply that is on its way, or None
    polls,      \* polls[e]: requests of async_poll_pending_url
    outcome,    \* outcome[e]: what send_revocation returned
    faulty      \* history: the rounds in which an exchange failed

stores == <<manner, recorded, remembered>>
jobs == <<job, left, good, bad, answer>>
links == <<link, reply, polls, outcome, faulty>>
vars == <<stores, inbox, jobs, links>>

Report(e) == good[e] \cup bad[e]
-----------------------------------------------------------------------------
(* send_revocation                                                         *)

(* Up to the await of the POST.                                            *)
Begin(e) ==
    /\ link[e] = "idle"
    /\ IF manner[e[2]] = "no_endpoint"
       THEN /\ link' = [link EXCEPT ![e] = "over"]
            /\ outcome' = [outcome EXCEPT ![e] = "unsupported"]
            /\ inbox' = inbox
       ELSE /\ link' = [link EXCEPT ![e] = "posted"]
            /\ inbox' = inbox \cup {e}
            /\ outcome' = outcome
    /\ UNCHANGED <<reply, polls, faulty>>

(* It returns o, after a fault or none.                                    *)
End(e, o, fault) ==
    /\ link' = [link EXCEPT ![e] = "over"]
    /\ outcome' = [outcome EXCEPT ![e] = o]
    /\ reply' = [reply EXCEPT ![e] = None]
    /\ faulty' = IF fault THEN faulty \cup {e[1]} ELSE faulty
    /\ polls' = [polls EXCEPT ![e] = 0]

Go(e, where) ==
    /\ link' = [link EXCEPT ![e] = where]
    /\ reply' = [reply EXCEPT ![e] = None]
    /\ UNCHANGED <<outcome, faulty>>

(* What it makes of a final response.  The poller reports a 403 as a       *)
(* failure, so after a 202 it is not looked at.                            *)
OutcomeOfStatus(e, r) == IF r = "error" THEN "unavailable" ELSE "ok"
OutcomeOf(e, r) ==
    CASE r = "ok" -> "ok"
      [] r = "report" -> "downstream"
      [] r = "forbidden" /\ link[e] = "posted" -> "unsupported"
      [] OTHER -> "unavailable"

Receive(e) ==
    LET r == reply[e]
    IN  /\ r # None
        /\ IF r = "pending" \/ (r = "busy" /\ link[e] = "asked")
           THEN Go(e, "pending") /\ polls' = polls
           ELSE End(e, OutcomeOf(e, r), r = "error")
        /\ UNCHANGED <<stores, inbox, jobs>>

(* The next poll, or max_polls_exceeded.                                   *)
PollUncounted(e) ==
    /\ link[e] = "pending"
    /\ Go(e, "asked")
    /\ UNCHANGED <<polls, stores, inbox, jobs>>
Poll(e) ==
    /\ link[e] = "pending"
    /\ IF polls[e] < MaxPolls
       THEN Go(e, "asked") /\ polls' = [polls EXCEPT ![e] = @ + 1]
       ELSE End(e, "unavailable", TRUE)
    /\ UNCHANGED <<stores, inbox, jobs>>

(* The HTTP client raises; what it had sent may still arrive.              *)
Timeout(e) ==
    /\ link[e] \in {"posted", "asked"}
    /\ End(e, "unavailable", TRUE)
    /\ UNCHANGED <<stores, inbox, jobs>>
-----------------------------------------------------------------------------
(* handle_request and revoke, for hop e.                                   *)

Handle(e) ==
    /\ e \in inbox
    /\ inbox' = inbox \ {e}
    /\ IF manner[e[2]] = "refuses"
       THEN /\ job' = [job EXCEPT ![e] = "ended"]
            /\ answer' = [answer EXCEPT ![e] = "forbidden"]
            /\ UNCHANGED <<recorded, left>>
       ELSE /\ recorded' = recorded \cup {e[2]}
            /\ job' = [job EXCEPT ![e] = "running"]
            /\ left' = [left EXCEPT ![e] = Children[e[2]]]
            /\ answer' = answer
    /\ UNCHANGED <<manner, remembered, good, bad, links>>

(* Has s confirmed it, and need not be asked again?  Only the empty answer *)
(* says so.                                                                *)
ConfirmedWithoutError(s) == remembered[s] \in {"ok", "downstream"}
Confirmed(s) == remembered[s] = "ok"

Skip(e) ==
    /\ job[e] = "running" /\ left[e] # <<>>
    /\ Confirmed(Head(left[e]))
    /\ left' = [left EXCEPT ![e] = Tail(@)]
    /\ UNCHANGED <<stores, inbox, job, good, bad, answer, links>>

Forward(e) ==
    /\ job[e] = "running" /\ left[e] # <<>>
    /\ ~ Confirmed(Head(left[e]))
    /\ Begin(Below(e, Head(left[e])))
    /\ job' = [job EXCEPT ![e] = "sending"]
    /\ UNCHANGED <<stores, left, good, bad, answer>>

(* The send has ended.                                                     *)
Collect(e) ==
    LET s == Head(left[e])
        o == outcome[Below(e, s)]
    IN  /\ job[e] = "sending"
        /\ link[Below(e, s)] = "over"
        /\ remembered' = [remembered EXCEPT ![s] = o]
        /\ IF o \in {"unsupported", "unavailable"}
           THEN bad' = [bad EXCEPT ![e] = @ \cup {s}] /\ good' = good
           ELSE good' = [good EXCEPT ![e] = @ \cup {s}] /\ bad' = bad
        /\ left' = [left EXCEPT ![e] = Tail(@)]
        /\ job' = [job EXCEPT ![e] = "running"]
        /\ UNCHANGED <<manner, recorded, inbox, answer, links>>

(* The earlier successes join the report; only an AS returns it.           *)
Return(e) ==
    /\ job[e] = "running" /\ left[e] = <<>>
    /\ good' = [good EXCEPT ![e] = @ \cup
                  {s \in Range(Children[e[2]]) : Confirmed(s) /\ s \notin Report(e)}]
    /\ answer' = [answer EXCEPT ![e] = IF Role[e[2]] = "as" /\ good'[e] \cup bad[e] # {}
                                       THEN "report" ELSE "ok"]
    /\ job' = [job EXCEPT ![e] = "ended"]
    /\ UNCHANGED <<stores, inbox, left, bad, links>>
-----------------------------------------------------------------------------
(* The replies.                                                            *)

Say(e, r) ==
    /\ reply[e] = None
    /\ reply' = [reply EXCEPT ![e] = r]
    /\ UNCHANGED <<stores, inbox, jobs, link, polls, outcome, faulty>>

(* The host answers the POST when the cascade has ended, or at once.       *)
AnswerPost(e) ==
    /\ link[e] = "posted" /\ job[e] # "none"
    /\ \/ job[e] = "ended" /\ Say(e, answer[e])
       \/ e[2] \in Deferring /\ Say(e, "pending")

AnswerGet(e) ==
    /\ link[e] = "asked"
    /\ Say(e, IF job[e] = "ended" THEN answer[e] ELSE "pending")

(* An error of the host or of something between; overload (429, 503) is    *)
(* one too, except to the poller.                                          *)
Stray(e) ==
    \/ link[e] \in {"posted", "asked"} /\ Say(e, "error")
    \/ link[e] = "asked" /\ Say(e, "busy")

(* The issuer's host sends the request, once more when it has its answer.  *)
Request(n) ==
    /\ n > 1 => link[<<n - 1, Top>>] = "over"
    /\ Begin(<<n, Top>>)
    /\ UNCHANGED <<stores, jobs>>
-----------------------------------------------------------------------------
Init ==
    /\ manner \in [Servers -> Manners] /\ manner[Top] = "accepts"
    /\ recorded = {}
    /\ remembered = [s \in Servers |-> "unsent"]
    /\ inbox = {}
    /\ job = [e \in Hops |-> "none"]
    /\ left = [e \in Hops |-> <<>>]
    /\ good = [e \in Hops |-> {}]
    /\ bad = [e \in Hops |-> {}]
    /\ answer = [e \in Hops |-> "error"]
    /\ link = [e \in Hops |-> "idle"]
    /\ reply = [e \in Hops |-> None]
    /\ polls = [e \in Hops |-> 0]
    /\ outcome = [e \in Hops |-> "unsent"]
    /\ faulty = {}

Sender(e) == Receive(e) \/ Poll(e) \/ Timeout(e)
Manager(e) == Skip(e) \/ Forward(e) \/ Collect(e) \/ Return(e)

Next ==
    \/ \E n \in 1..Rounds : Request(n)
    \/ \E e \in Hops : \/ Sender(e) \/ Manager(e) \/ Handle(e)
                       \/ AnswerPost(e) \/ AnswerGet(e) \/ Stray(e)

Spec == Init /\ [][Next]_vars

(* Requests end, by the HTTP client's timeout if by nothing else, and the  *)
(* event loops run ready tasks: something goes on while anything can.      *)
Progress == \E e \in Hops : Sender(e) \/ Manager(e)
FairSpec == Spec /\ WF_vars(Progress)
-----------------------------------------------------------------------------
(* A send that ends without an error has reached its recipient, and so has *)
(* every recipient that a report names without an error, whatever was      *)
(* lost, late or answered by something in between (revocation.py:70-125,   *)
(* 233-265).                                                               *)
OutcomesAreTrue ==
    \A e \in Hops :
        /\ outcome[e] \in {"ok", "downstream"} => e[2] \in recorded
        /\ good[e] \subseteq recorded

(* S is closed: it has every server that accepts the revocation from one    *)
(* of S.                                                                   *)
Closed(S) == \A s \in S : \A t \in Range(Children[s]) :
                 manner[t] = "accepts" => t \in S

(* A repeated request makes up for all that failed before: once a round    *)
(* without a fault has ended, every server that accepts the revocation     *)
(* from the one above it has it, however the earlier rounds broke off and  *)
(* whatever of them still runs (README.md:146, "repeated requests retry    *)
(* failed deliveries"; revocation.py:234, 259-264).                        *)
RepeatHeals ==
    \A n \in 1..Rounds :
        link[<<n, Top>>] = "over" /\ n \notin faulty
          => Top \in recorded /\ Closed(recorded)

(* Every call of revoke comes to an end, though the calls below it defer,  *)
(* break off or never answer: each send ends within its polls.             *)
CascadesEnd == <>[](\A e \in Hops : job[e] \in {"none", "ended"})
=============================================================================
