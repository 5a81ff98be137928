---------------------------- MODULE DeferredFlow ----------------------------
(***************************************************************************)
(* A deferred request end to end: the polling loop of Poller, run by       *)
(* _post_ps (aauth/agent/token_exchange.py), against a server that builds  *)
(* its responses with aauth/http/deferred.py, and a user who may follow    *)
(* the interaction.  The server's state is the host's; the library builds  *)
(* each response from it.  Requests and replies take no time; only sleeps  *)
(* do.  A reply may be lost, or come from something between the two.       *)
(***************************************************************************)
EXTENDS Poller

CONSTANTS
    Verdicts,      \* the final statuses the server may decide on
    Granted,       \* that of build_success_response
    RetryAfter,    \* the builders' retry_after argument
    PendingUrl,    \* their location argument
    Endpoint,      \* their url argument, or None
    Strays,        \* answers that do not depend on the operation
    Failed         \* _post_ps raises for a reason of its own

ASSUME VerdictsAssumption ==
    /\ Verdicts \subseteq 100..599 /\ Granted \in Verdicts
    /\ \A v \in Verdicts : v \notin {202, 429, 503} /\ (Succeeds(v) => v = Granted)
    /\ Failed \notin Verdicts \cup {None} /\ None \notin Verdicts
ASSUME RetryAfterAssumption == RetryAfter \in Nat /\ RetryAfter # None
ASSUME StraysAssumption ==
    /\ Strays \subseteq Responses
    /\ \A r \in Strays : r.status \notin Verdicts /\ r.question = None
ASSUME QuestionsAssumption == None \notin Questions /\ None \notin Codes

VARIABLES
    verdict,   \* the server's decision, or None
    open,      \* the question it waits for, or None
    code,      \* the interaction code it issued last, or None
    there,     \* the user has arrived at the interaction endpoint with it
    codes,     \* the codes issued so far
    reply,     \* the reply on its way to the client, or None
    answers,   \* history: <<the question the client was asked, the question
               \* the server took the answer for>>, in order
    announced, \* history: codes the server asked the client to show
    elapsed,   \* history: seconds the client has slept
    decidedAt, \* history: elapsed when the server decided
    posts,     \* history: answers sent
    wasted     \* history: stray replies

server == <<verdict, open, code, there, codes, decidedAt>>
network == <<reply, answers, announced, wasted>>
clocks == <<elapsed, posts>>
flowVars == <<vars, server, network, clocks>>
-----------------------------------------------------------------------------
(* http/deferred.py, for a question q (or None), an interaction code c (or *)
(* None) and a user who is there or not.                                   *)

(* The require argument: a question goes before an interaction.            *)
Require(q, c) == IF q # None THEN "clarification"
                 ELSE IF c # None THEN "interaction" ELSE "none"

(* build_pending_response_body                                             *)
BodyWithoutCode(q, c, t) ==
    [requirement |-> Require(q, c), code |-> None, question |-> q,
     interacting |-> t]
PendingBody(q, c, t) ==
    [requirement |-> Require(q, c), code |-> c, question |-> q,
     interacting |-> t]

(* build_pending_response_headers: an interaction without a URL is named   *)
(* in the body only.                                                       *)
PendingHeader(q, c) ==
    LET shown == Require(q, c) = "interaction" /\ Endpoint # None
        kept == Require(q, c) # "interaction" \/ shown
    IN  [requirement |-> IF kept THEN Require(q, c) ELSE "none",
         code |-> IF shown THEN c ELSE None,
         endpoint |-> IF shown THEN Endpoint ELSE None]

(* What the loop reads of the two: the header first.                       *)
Pending202(q, c, t) ==
    LET h == PendingHeader(q, c)
        b == PendingBody(q, c, t)
    IN  [status |-> 202, retry |-> RetryAfter, location |-> PendingUrl,
         requirement |-> IF h.requirement = "none" THEN b.requirement
                                                   ELSE h.requirement,
         code |-> IF h.code = None THEN b.code ELSE h.code,
         endpoint |-> h.endpoint, interacting |-> b.interacting,
         question |-> b.question]

(* build_success_response, build_polling_error_body.                       *)
Final(v) ==
    [status |-> v, retry |-> None, location |-> None, requirement |-> "none",
     code |-> None, endpoint |-> None, interacting |-> FALSE,
     question |-> None]

ASSUME BuiltAssumption ==
    /\ \A q \in Questions \cup {None}, c \in Codes \cup {None}, t \in BOOLEAN :
         Pending202(q, c, t) \in Responses
    /\ \A v \in Verdicts : Final(v) \in Responses

Current == IF verdict = None THEN Pending202(open, code, there) ELSE Final(verdict)

(* The code the reply asks the client to show.                             *)
Announces == IF verdict = None /\ Require(open, code) = "interaction" /\ ~there
             THEN {code} ELSE {}
-----------------------------------------------------------------------------
(* The host's server, and the user.                                        *)

Ask(q) ==
    /\ verdict = None /\ open = None
    /\ \A i \in 1..Len(answers) : answers[i][2] # q
    /\ open' = q
    /\ UNCHANGED <<vars, verdict, code, there, codes, decidedAt, network, clocks>>

(* generate_interaction_code: a fresh one, also instead of one that        *)
(* nobody used.                                                            *)
RequireInteraction(c) ==
    /\ verdict = None /\ ~there
    /\ c \notin codes
    /\ code' = c
    /\ codes' = codes \cup {c}
    /\ UNCHANGED <<vars, verdict, open, there, decidedAt, network, clocks>>

(* The user follows the link on_interaction was given.                     *)
Arrive ==
    /\ verdict = None /\ ~there /\ code # None
    /\ \E i \in 1..Len(prompts) : prompts[i][2] = code
    /\ there' = TRUE
    /\ UNCHANGED <<vars, verdict, open, code, codes, decidedAt, network, clocks>>

(* Nothing is granted without the user where the user was called for.      *)
Decide(v) ==
    /\ verdict = None
    /\ v = Granted /\ code # None => there
    /\ verdict' = v
    /\ decidedAt' = elapsed
    /\ open' = None
    /\ UNCHANGED <<vars, code, there, codes, network, clocks>>
-----------------------------------------------------------------------------
(* The exchange of messages.                                               *)

(* The server answers a GET.                                               *)
ServeGet ==
    /\ pc = "get" /\ reply = None
    /\ reply' = Current
    /\ announced' = announced \cup Announces
    /\ UNCHANGED <<vars, server, answers, wasted, clocks>>

(* The server takes an answer, if it still waits for one, and answers with *)
(* what it has to say then.                                                *)
ServePost ==
    /\ pc = "post" /\ reply = None
    /\ answers' = IF open = None THEN answers
                  ELSE Append(answers, <<response.question, open>>)
    /\ open' = None
    /\ UNCHANGED <<vars, verdict, code, there, codes, decidedAt, wasted, clocks>>
    /\ reply' = Current'
    /\ announced' = announced \cup Announces'

(* The server is busy, or a gateway answers for it.                        *)
Stray(r) ==
    /\ pc \in {"get", "post"} /\ reply = None
    /\ reply' = r
    /\ wasted' = wasted + 1
    /\ UNCHANGED <<vars, server, answers, announced, clocks>>

Receive ==
    /\ reply # None
    /\ GetReply(reply) \/ PostReply(reply)
    /\ reply' = None
    /\ UNCHANGED <<server, answers, announced, wasted, clocks>>

(* The request, its reply or a callback fails.                             *)
Break ==
    /\ IoFails
    /\ reply' = None
    /\ UNCHANGED <<server, answers, announced, wasted, clocks>>

Sleep ==
    /\ Slept
    /\ elapsed' = elapsed + pause
    /\ UNCHANGED <<server, network, posts>>

Reply ==
    /\ Answer
    /\ posts' = posts + (sent' - sent)
    /\ UNCHANGED <<server, network, elapsed>>

Compute ==
    /\ \/ Poll \/ GiveUp \/ SlowDown \/ Busy \/ Conclude \/ Invalid
       \/ Unparsable \/ Prompt \/ Prompted \/ Clarify \/ NoAnswer \/ Idle
    /\ UNCHANGED <<server, network, clocks>>
-----------------------------------------------------------------------------
(* The first POST was answered with 202.                                   *)
FlowInit ==
    /\ verdict = None
    /\ open \in Questions \cup {None}
    /\ code \in Codes \cup {None}
    /\ there = FALSE
    /\ codes = {code} \ {None}
    /\ reply = None
    /\ answers = <<>>
    /\ announced = Announces
    /\ elapsed = 0
    /\ decidedAt = 0
    /\ posts = 0
    /\ wasted = 0
    /\ Init
    /\ response = Pending202(open, code, there)

Client == ServeGet \/ ServePost \/ (\E r \in Strays : Stray(r))
          \/ Receive \/ Break \/ Sleep \/ Reply \/ Compute

Server == \/ \E q \in Questions : Ask(q)
          \/ \E c \in Codes : RequireInteraction(c)
          \/ \E v \in Verdicts : Decide(v)
          \/ Arrive

FlowNext == Client \/ Server

FlowSpec == FlowInit /\ [][FlowNext]_flowVars

(* Requests end, sleeps end and callbacks return or raise; neither the     *)
(* server nor the user has to do anything but answer requests.             *)
FairFlowSpec == FlowSpec /\ WF_flowVars(Client)
-----------------------------------------------------------------------------
FlowTypeOK ==
    /\ TypeOK
    /\ verdict \in Verdicts \cup {None}
    /\ open \in Questions \cup {None}
    /\ code \in Codes \cup {None}
    /\ there \in BOOLEAN
    /\ codes \subseteq Codes
    /\ reply \in Responses \cup {None}
    /\ answers \in Seq((Questions \cup {None}) \X Questions)
    /\ announced \subseteq Codes
    /\ elapsed \in Nat /\ decidedAt \in Nat /\ posts \in Nat /\ wasted \in Nat

(* What the client ended with: the status of a final response, or a        *)
(* failure of its own.                                                     *)
Outcome ==
    IF pc # "done" THEN None
    ELSE IF result.error \in {"none", "refused"} /\ response.status \in Verdicts
         THEN response.status
         ELSE Failed

Promise == INSTANCE Deferred WITH
    answered <- [i \in 1..Len(answers) |-> answers[i][1]],
    outcome <- Outcome

(* The client ends with what the server decided or with a failure of its   *)
(* own, and each question is answered once, with the answer given to it,   *)
(* whatever is lost, late or answered by something in between              *)
(* (token_exchange.py:62-76, poller.py:147-171, http/deferred.py).         *)
KeepsPromise == Promise!FairSpec

(* A decision taken within retry_after seconds for each poll that max_polls *)
(* allows is never missed because the polls ran out; answers and stray     *)
(* replies cost a poll each.  With a retry_after of 0, the default, this   *)
(* promises nothing (http/deferred.py:81, poller.py:78-86, 172).           *)
DecidedInTime ==
    result.error = "max_polls_exceeded" /\ verdict # None =>
        decidedAt >= RetryAfter * (MaxPolls - posts - wasted)

(* Before the client sleeps on it, each code the server asked it to show   *)
(* has been handed to the user, named in the header or in the body only    *)
(* (http/deferred.py:62-65, 105-108; poller.py:117-146).                   *)
EveryCodeShown ==
    pc \in {"sleep", "poll"} /\ InteractionEnabled =>
        announced \subseteq {prompts[i][2] : i \in 1..Len(prompts)}
=============================================================================
