------------------------------- MODULE Poller -------------------------------
(***************************************************************************)
(* The client side of a deferred (202) response, aauth/agent/poller.py:    *)
(* the generator _steps and the drivers that carry out what it yields.     *)
(* The server may answer each request with any of Responses; a callback or *)
(* a request may raise.  As in Revocation, the first of two operators that *)
(* stand together is a bug for PROJECT.json's mutants, used nowhere.       *)
(***************************************************************************)
EXTENDS Integers, Sequences

CONSTANTS
    Urls,               \* URLs a Location may name
    Origin,             \* Origin[u]: scheme, host and port of u
    Codes,              \* interaction codes
    Endpoints,          \* interaction URLs a server may announce
    ValidEndpoints,     \* those _steps accepts: https, no query or fragment
    Questions,          \* what a server may ask for clarification
    Responses,          \* what the server may answer
    Starts,             \* initial_response: a response, or None
    FirstUrl,           \* the pending_url argument
    MaxPolls,           \* the max_polls argument
    DefaultWait,        \* the default_wait argument
    InteractionEnabled, \* bool(on_interaction)
    ClarifyEnabled,     \* bool(on_clarification and sign_and_send_post)
    None                \* Python's None

(* retry is a Retry-After that is an integer, question the clarification   *)
(* asked for, interacting the body's status of that name; requirement is   *)
(* malformed when the AAuth-Requirement header does not parse.             *)
ResponseShape ==
    [status : 100..599, retry : Int \cup {None}, location : Urls \cup {None},
     requirement : {"none", "malformed", "interaction", "clarification"},
     code : Codes \cup {None}, endpoint : Endpoints \cup {None},
     interacting : BOOLEAN, question : Questions \cup {None}]

ASSUME ResponsesAssumption == /\ Responses \subseteq ResponseShape
                              /\ Starts \subseteq Responses \cup {None}
ASSUME UrlAssumption == FirstUrl \in Urls
ASSUME BoundsAssumption == MaxPolls \in Nat /\ DefaultWait \in Nat
ASSUME NoneAssumption == None \notin Responses /\ None \notin Urls

VARIABLES
    pc,        \* what the generator yielded, or where it is between yields
    pending,   \* pending_url
    count,     \* count
    wait,      \* default_wait
    response,  \* response
    prompted,  \* prompted
    pause,     \* the seconds of the sleep yielded last
    result,    \* the PollingResult
    sent,      \* history: requests sent
    targets,   \* history: URLs requested
    prompts,   \* history: the (endpoint, code) pairs handed to on_interaction
    slowed     \* history: 429 responses seen

history == <<sent, targets, prompts, slowed>>
vars == <<pc, pending, count, wait, response, prompted, pause, result, history>>

NoResult == [success |-> FALSE, error |-> "none"]
Failure(e) == [success |-> FALSE, error |-> e]

Larger(a, b) == IF a > b THEN a ELSE b

(* _wait: Retry-After unless it is missing or not an integer.              *)
WaitUnclamped(r, default) == IF r.retry = None THEN default ELSE r.retry
WaitFor(r, default) == IF r.retry = None THEN default ELSE Larger(r.retry, 0)

(* The status a PollingResult counts as success.                           *)
Succeeds(status) == 200 <= status /\ status < 400

(* pending_location, once the URL has been resolved: same origin as the    *)
(* URL the response came from.                                             *)
AnyLocation(r) == TRUE
LocationAllowed(r) ==
    r.location # None => Origin[r.location] = Origin[pending]
Moved(r) == IF r.location = None THEN pending ELSE r.location

(* Does the response ask for an interaction the caller takes part in?      *)
Interacts(r) == /\ r.requirement = "interaction" /\ r.code # None
                /\ InteractionEnabled /\ ~ r.interacting
EndpointRejected(r) == r.endpoint # None /\ r.endpoint \notin ValidEndpoints

(* The key of prompted; without a URL the pending URL is the endpoint.     *)
PromptKey(r) == <<IF r.endpoint = None THEN Moved(r) ELSE r.endpoint, r.code>>

(* Does the response ask a question the caller can answer?                 *)
Asks(r) == /\ r.requirement = "clarification" /\ r.question # None
           /\ ClarifyEnabled
-----------------------------------------------------------------------------
Init ==
    /\ response \in Starts
    /\ pc = IF response = None THEN "poll" ELSE "handle"
    /\ pending = FirstUrl
    /\ count = 0
    /\ wait = DefaultWait
    /\ prompted = {}
    /\ pause = 0
    /\ result = NoResult
    /\ sent = 0
    /\ targets = {}
    /\ prompts = <<>>
    /\ slowed = 0

(* return PollingResult(...), or the driver's except clauses.              *)
Finish(res) ==
    /\ pc' = "done"
    /\ result' = res
    /\ UNCHANGED <<count, wait, prompted, pause>>

(* if response is None: the next GET, unless the polls are used up.        *)
Poll ==
    /\ pc = "poll"
    /\ count < MaxPolls
    /\ pc' = "get"
    /\ sent' = sent + 1
    /\ targets' = targets \cup {pending}
    /\ UNCHANGED <<pending, count, wait, response, prompted, pause, result,
                   prompts, slowed>>

GiveUp ==
    /\ pc = "poll"
    /\ count >= MaxPolls
    /\ Finish(Failure("max_polls_exceeded"))
    /\ UNCHANGED <<pending, response, history>>

GetReply(r) ==
    /\ pc = "get"
    /\ response' = r
    /\ count' = count + 1
    /\ pc' = "handle"
    /\ UNCHANGED <<pending, wait, prompted, pause, result, history>>

(* An exception of a request or a callback ends the polling.              *)
IoFails ==
    /\ pc \in {"get", "post", "prompt", "clarify"}
    /\ Finish(Failure("network_error"))
    /\ UNCHANGED <<pending, response, history>>
-----------------------------------------------------------------------------
(* The response at hand.                                                   *)

SleepFor(n) == pause' = n /\ pc' = "sleep"

(* 429: every later default wait is five seconds longer.                   *)
SameWait(w) == w
LongerWait(w) == w + 5

SlowDown ==
    /\ pc = "handle"
    /\ response.status = 429
    /\ wait' = LongerWait(wait)
    /\ SleepFor(Larger(wait', WaitFor(response, wait')))
    /\ slowed' = slowed + 1
    /\ UNCHANGED <<pending, count, response, prompted, result, sent, targets,
                   prompts>>

Busy ==
    /\ pc = "handle"
    /\ response.status = 503
    /\ SleepFor(WaitFor(response, Larger(wait * 2, 1)))
    /\ UNCHANGED <<pending, count, wait, response, prompted, result, history>>

Conclude ==
    /\ pc = "handle"
    /\ response.status \notin {202, 429, 503}
    /\ Finish(IF Succeeds(response.status)
              THEN [success |-> TRUE, error |-> "none"]
              ELSE Failure("refused"))
    /\ UNCHANGED <<pending, response, history>>

(* 202: pending_location or the check of the interaction URL raises, a     *)
(* ValueError instead of a TokenError if the URL cannot be parsed.         *)
Invalid ==
    /\ pc = "handle"
    /\ response.status = 202
    /\ \/ ~ LocationAllowed(response)
       \/ Interacts(response) /\ EndpointRejected(response)
    /\ \E e \in {"invalid_response", "network_error"} : Finish(Failure(e))
    /\ pending' = IF LocationAllowed(response) THEN Moved(response) ELSE pending
    /\ UNCHANGED <<response, history>>

(* parse_aauth_header raises a ChallengeError, no TokenError.              *)
Unparsable ==
    /\ pc = "handle"
    /\ response.status = 202
    /\ LocationAllowed(response)
    /\ response.requirement = "malformed"
    /\ Finish(Failure("network_error"))
    /\ pending' = Moved(response)
    /\ UNCHANGED <<response, history>>

(* 202 with the Location followed and a usable interaction URL.            *)
StillPending ==
    /\ pc = "handle"
    /\ response.status = 202
    /\ LocationAllowed(response)
    /\ response.requirement # "malformed"
    /\ Interacts(response) => ~ EndpointRejected(response)
    /\ pending' = Moved(response)

PromptedLast(r) == prompts # <<>> /\ prompts[Len(prompts)] = PromptKey(r)
AlreadyPrompted(r) == PromptKey(r) \in prompted

(* yield ("interaction", ...): the user is prompted once for each key.     *)
Prompt ==
    /\ StillPending
    /\ Interacts(response)
    /\ ~ AlreadyPrompted(response)
    /\ prompts' = Append(prompts, PromptKey(response))
    /\ pc' = "prompt"
    /\ UNCHANGED <<count, wait, response, prompted, pause, result, sent,
                   targets, slowed>>

(* on_interaction returned; the poll goes on as after any 202.             *)
PromptedAtOnce ==
    /\ pc = "prompt"
    /\ prompted' = prompted \cup {prompts[Len(prompts)]}
    /\ response' = None
    /\ pc' = "poll"
    /\ UNCHANGED <<pending, count, wait, pause, result, history>>
Prompted ==
    /\ pc = "prompt"
    /\ prompted' = prompted \cup {prompts[Len(prompts)]}
    /\ SleepFor(WaitFor(response, wait))
    /\ UNCHANGED <<pending, count, wait, response, result, history>>

(* yield ("clarify", ...)                                                  *)
Clarify ==
    /\ StillPending
    /\ Asks(response)
    /\ pc' = "clarify"
    /\ UNCHANGED <<count, wait, response, prompted, pause, result, history>>

(* on_clarification returned an answer: POST it, within the same limit.    *)
AnswerUncounted ==
    /\ pc = "clarify"
    /\ pc' = "post"
    /\ sent' = sent + 1
    /\ targets' = targets \cup {pending}
    /\ UNCHANGED <<pending, count, wait, response, prompted, pause, result,
                   prompts, slowed>>
Answer ==
    /\ pc = "clarify"
    /\ IF count >= MaxPolls
       THEN /\ Finish(Failure("max_polls_exceeded"))
            /\ UNCHANGED <<sent, targets>>
       ELSE /\ count' = count + 1
            /\ pc' = "post"
            /\ sent' = sent + 1
            /\ targets' = targets \cup {pending}
            /\ UNCHANGED <<wait, prompted, pause, result>>
    /\ UNCHANGED <<pending, response, prompts, slowed>>

(* on_clarification returned None: no answer, poll on.                     *)
NoAnswer ==
    /\ pc = "clarify"
    /\ SleepFor(WaitFor(response, wait))
    /\ UNCHANGED <<pending, count, wait, response, prompted, result, history>>

(* The answer's own response is handled without another GET; a driver that *)
(* returns None makes the generator poll.                                  *)
PostReplyUnread(r) ==
    /\ pc = "post"
    /\ pc' = "handle"
    /\ UNCHANGED <<pending, count, wait, response, prompted, pause, result,
                   history>>
PostReply(r) ==
    /\ pc = "post"
    /\ response' = r
    /\ pc' = IF r = None THEN "poll" ELSE "handle"
    /\ UNCHANGED <<pending, count, wait, prompted, pause, result, history>>

(* Any other 202: nothing to do but wait.                                  *)
Idle ==
    /\ StillPending
    /\ Interacts(response) => AlreadyPrompted(response)
    /\ ~ Asks(response)
    /\ SleepFor(WaitFor(response, wait))
    /\ UNCHANGED <<count, wait, response, prompted, result, history>>

Slept ==
    /\ pc = "sleep"
    /\ response' = None
    /\ pc' = "poll"
    /\ UNCHANGED <<pending, count, wait, prompted, pause, result, history>>
-----------------------------------------------------------------------------
Next ==
    \/ Poll \/ GiveUp \/ IoFails
    \/ \E r \in Responses : GetReply(r)
    \/ \E r \in Responses \cup {None} : PostReply(r)
    \/ SlowDown \/ Busy \/ Conclude \/ Invalid \/ Unparsable
    \/ Prompt \/ Prompted \/ Clarify \/ Answer \/ NoAnswer \/ Idle
    \/ Slept

Spec == Init /\ [][Next]_vars

(* The drivers run the generator on, requests end (HTTP timeouts), sleeps  *)
(* end and callbacks return or raise.                                      *)
FairSpec == Spec /\ WF_vars(Next)
-----------------------------------------------------------------------------
TypeOK ==
    /\ pc \in {"poll", "get", "handle", "prompt", "clarify", "post", "sleep",
               "done"}
    /\ pending \in Urls
    /\ count \in Nat
    /\ wait \in Nat
    /\ response \in Responses \cup {None}
    /\ prompted \subseteq (Urls \cup Endpoints) \X (Codes \cup {None})
    /\ pause \in Nat
    /\ result \in [success : BOOLEAN,
                   error : {"none", "refused", "max_polls_exceeded",
                            "invalid_response", "network_error"}]
    /\ sent \in Nat
    /\ targets \subseteq Urls
    /\ prompts \in Seq((Urls \cup Endpoints) \X (Codes \cup {None}))
    /\ slowed \in Nat

(* Polls and clarification answers together stay within max_polls, on      *)
(* every path through the generator, and polling is given up for the limit *)
(* only when it is used up (poller.py:73, 78-86, 153-160).                 *)
BudgetIsExact ==
    /\ sent <= MaxPolls
    /\ result.error = "max_polls_exceeded" => sent = MaxPolls

(* No chain of Location headers takes a signed request to another origin   *)
(* than that of the first pending URL (poller.py:34-46, 114).              *)
StaysOnOrigin ==
    /\ Origin[pending] = Origin[FirstUrl]
    /\ \A u \in targets : Origin[u] = Origin[FirstUrl]

(* The user is never prompted twice with one code at one endpoint, however *)
(* often the server repeats it and whatever it asked in between            *)
(* (poller.py:123-146).                                                    *)
PromptedOnce ==
    \A i, j \in 1..Len(prompts) : prompts[i] = prompts[j] => i = j

(* A poll after a 429 waits at least the default lengthened by five        *)
(* seconds for each 429 so far, and no poll is sent before the Retry-After *)
(* of the response it follows has passed (poller.py:57-62, 90-94).       *)
BackedOff ==
    pc = "sleep" =>
        /\ response.status = 429 => pause >= DefaultWait + 5 * slowed
        /\ response.retry # None => pause >= response.retry
        /\ response.retry = None => pause >= DefaultWait + 5 * slowed
=============================================================================
