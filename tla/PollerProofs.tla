---------------------------- MODULE PollerProofs ----------------------------
(***************************************************************************)
(* What the polling loop guarantees for every server, every limit and any  *)
(* set of URLs, codes and responses.                                       *)
(***************************************************************************)
EXTENDS Poller, TLAPS

(* A response is at hand where the generator works on one, a 202 where it  *)
(* has called back.                                                        *)
AtHand ==
    /\ pc \in {"handle", "prompt", "clarify", "sleep"} => response \in Responses
    /\ pc \in {"prompt", "clarify"} => response.status = 202

(* Every request is counted, a GET when it is answered.                    *)
CountInv ==
    /\ pc # "done" => sent = IF pc = "get" THEN count + 1 ELSE count
    /\ sent <= MaxPolls
    /\ result.error = "max_polls_exceeded" => pc = "done" /\ sent = MaxPolls

(* Every prompt is remembered once on_interaction has returned.            *)
PromptInv ==
    /\ PromptedOnce
    /\ \A i \in 1..Len(prompts) :
         prompts[i] \in prompted \/ (pc \in {"prompt", "done"} /\ i = Len(prompts))
    /\ pc = "prompt" => prompts # <<>>

WaitInv == wait = DefaultWait + 5 * slowed

IInv == TypeOK /\ AtHand /\ CountInv /\ StaysOnOrigin /\ PromptInv /\ WaitInv
          /\ BackedOff

LEMMA InitInv == Init => IInv
BY ResponsesAssumption, UrlAssumption, BoundsAssumption, NoneAssumption
   DEF Init, IInv, TypeOK, AtHand, CountInv, StaysOnOrigin, PromptInv,
       PromptedOnce, WaitInv, BackedOff, NoResult

LEMMA Shape ==
    ASSUME NEW r \in Responses
    PROVE  /\ r.status \in 100..599
           /\ r.retry \in Int \cup {None}
           /\ r.location \in Urls \cup {None}
           /\ r.code \in Codes \cup {None}
           /\ r.endpoint \in Endpoints \cup {None}
BY ResponsesAssumption DEF ResponseShape

(* A wait is a number of seconds, at least the Retry-After, or the default *)
(* where there is none.                                                    *)
LEMMA WaitBounds ==
    ASSUME NEW r \in Responses, NEW d \in Nat
    PROVE  /\ WaitFor(r, d) \in Nat
           /\ r.retry # None => WaitFor(r, d) >= r.retry
           /\ r.retry = None => WaitFor(r, d) = d
BY Shape DEF WaitFor, Larger

LEMMA NextUrl ==
    ASSUME TypeOK, StaysOnOrigin, NEW r \in Responses, LocationAllowed(r)
    PROVE  Moved(r) \in Urls /\ Origin[Moved(r)] = Origin[FirstUrl]
BY Shape DEF Moved, LocationAllowed, TypeOK, StaysOnOrigin

LEMMA Step == IInv /\ [Next]_vars => IInv'
<1> SUFFICES ASSUME IInv, [Next]_vars PROVE IInv'
  OBVIOUS
<1> USE DEF history
<1>0. /\ TypeOK /\ AtHand /\ CountInv /\ StaysOnOrigin /\ PromptInv /\ WaitInv
      /\ BackedOff
      /\ MaxPolls \in Nat /\ DefaultWait \in Nat
  BY BoundsAssumption DEF IInv
<1> USE <1>0 DEF IInv, TypeOK, AtHand, CountInv, StaysOnOrigin, PromptInv,
                 PromptedOnce, WaitInv, BackedOff
<1>1. CASE Poll
  BY <1>1 DEF Poll
<1>2. CASE GiveUp
  BY <1>2 DEF GiveUp, Finish, Failure
<1>3. CASE IoFails
  BY <1>3 DEF IoFails, Finish, Failure
<1>4. ASSUME NEW r \in Responses, GetReply(r) PROVE IInv'
  BY <1>4 DEF GetReply
<1>5. ASSUME NEW r \in Responses \cup {None}, PostReply(r) PROVE IInv'
  BY <1>5 DEF PostReply
<1>6. CASE SlowDown
  <2>1. LongerWait(wait) = wait + 5
    BY DEF LongerWait
  <2>2. /\ response \in Responses /\ wait + 5 \in Nat
        /\ WaitFor(response, wait + 5) \in Nat
        /\ response.retry # None => WaitFor(response, wait + 5) >= response.retry
        /\ response.retry = None => WaitFor(response, wait + 5) = wait + 5
    <3>1. response \in Responses /\ wait + 5 \in Nat
      BY <1>6 DEF SlowDown
    <3> HIDE <1>0 DEF IInv, TypeOK, AtHand, CountInv, StaysOnOrigin, PromptInv,
                      PromptedOnce, WaitInv, BackedOff, history
    <3> QED
      BY <3>1, WaitBounds
  <2>3. /\ pause' \in Nat /\ pause' >= wait + 5
        /\ response.retry # None => pause' >= response.retry
    BY <1>6, <2>1, <2>2, Shape DEF SlowDown, SleepFor, Larger
  <2>4. /\ pc = "handle" /\ pc' = "sleep" /\ response \in Responses
        /\ wait' = wait + 5 /\ slowed' = slowed + 1
        /\ UNCHANGED <<pending, count, response, prompted, result, sent,
                       targets, prompts>>
    BY <1>6, <2>1, <2>2 DEF SlowDown, SleepFor
  <2>5. TypeOK' /\ AtHand' /\ CountInv' /\ StaysOnOrigin' /\ PromptInv'
    BY <2>3, <2>4
  <2>6. WaitInv'
    BY <2>4
  <2>7. BackedOff'
    BY <2>3, <2>4, <2>6
  <2> QED
    BY <2>5, <2>6, <2>7
<1>7. CASE Busy
  <2>1. /\ response \in Responses /\ Larger(wait * 2, 1) \in Nat
        /\ Larger(wait * 2, 1) >= wait
    BY <1>7 DEF Busy, Larger
  <2>2. /\ WaitFor(response, Larger(wait * 2, 1)) \in Nat
        /\ response.retry # None =>
             WaitFor(response, Larger(wait * 2, 1)) >= response.retry
        /\ response.retry = None =>
             WaitFor(response, Larger(wait * 2, 1)) >= wait
    BY <2>1, WaitBounds
  <2> QED
    BY <1>7, <2>1, <2>2 DEF Busy, SleepFor
<1>8. CASE Conclude
  BY <1>8 DEF Conclude, Finish, Failure
<1>9. CASE Invalid
  <2>1. pending' \in Urls /\ Origin[pending'] = Origin[FirstUrl]
    BY <1>9, NextUrl DEF Invalid
  <2> QED
    BY <1>9, <2>1 DEF Invalid, Finish, Failure
<1>10. CASE Unparsable
  <2>1. pending' \in Urls /\ Origin[pending'] = Origin[FirstUrl]
    BY <1>10, NextUrl DEF Unparsable
  <2> QED
    BY <1>10, <2>1 DEF Unparsable, Finish, Failure
(* The 202s.                                                               *)
<1>11. ASSUME StillPending
       PROVE  /\ response \in Responses /\ response.status = 202
              /\ pending' \in Urls /\ Origin[pending'] = Origin[FirstUrl]
              /\ pc = "handle"
  BY <1>11, NextUrl DEF StillPending
<1>12. ASSUME response \in Responses
       PROVE  /\ WaitFor(response, wait) \in Nat
              /\ response.retry # None => WaitFor(response, wait) >= response.retry
              /\ response.retry = None => WaitFor(response, wait) = wait
  BY <1>12, WaitBounds
<1>13. CASE Prompt
  <2> DEFINE k == PromptKey(response)
  <2>1. /\ response \in Responses /\ response.status = 202
        /\ pending' = Moved(response)
        /\ pending' \in Urls /\ Origin[pending'] = Origin[FirstUrl]
        /\ pc = "handle" /\ pc' = "prompt" /\ k \notin prompted
        /\ prompts' = Append(prompts, k)
        /\ UNCHANGED <<count, wait, response, prompted, pause, result, sent,
                       targets, slowed>>
    <3>1. StillPending
      BY <1>13 DEF Prompt
    <3> HIDE <1>0 DEF IInv, TypeOK, AtHand, CountInv, StaysOnOrigin, PromptInv,
                      PromptedOnce, WaitInv, BackedOff
    <3>2. k \notin prompted
      BY <1>13 DEF Prompt, AlreadyPrompted
    <3>3. /\ pc' = "prompt" /\ prompts' = Append(prompts, k)
          /\ UNCHANGED <<count, wait, response, prompted, pause, result, sent,
                         targets, slowed>>
      BY <1>13 DEF Prompt
    <3>4. pending' = Moved(response)
      BY <3>1 DEF StillPending
    <3>5. /\ response \in Responses /\ response.status = 202 /\ pc = "handle"
          /\ pending' \in Urls /\ Origin[pending'] = Origin[FirstUrl]
      BY <1>11, <3>1
    <3> QED
      BY <3>2, <3>3, <3>4, <3>5
  <2>2. k \in (Urls \cup Endpoints) \X (Codes \cup {None})
    BY <2>1, Shape DEF PromptKey
  <2>3. /\ prompts' \in Seq((Urls \cup Endpoints) \X (Codes \cup {None}))
        /\ Len(prompts') = Len(prompts) + 1 /\ Len(prompts) \in Nat
        /\ \A i \in 1..Len(prompts) : prompts'[i] = prompts[i]
        /\ prompts'[Len(prompts) + 1] = k
    BY <2>1, <2>2
  <2>4. PromptInv'
    BY <2>1, <2>3
  <2>5. TypeOK' /\ AtHand' /\ CountInv' /\ StaysOnOrigin' /\ WaitInv' /\ BackedOff'
    BY <2>1, <2>3
  <2> QED
    BY <2>4, <2>5
<1>14. CASE Prompted
  <2>1. /\ prompts # <<>> /\ Len(prompts) \in Nat /\ response \in Responses
        /\ prompts[Len(prompts)] \in (Urls \cup Endpoints) \X (Codes \cup {None})
    BY <1>14 DEF Prompted
  <2>2. /\ pc = "prompt" /\ pc' = "sleep"
        /\ prompted' = prompted \cup {prompts[Len(prompts)]}
        /\ pause' = WaitFor(response, wait)
        /\ UNCHANGED <<pending, count, wait, response, result, sent, targets,
                       prompts, slowed>>
    BY <1>14 DEF Prompted, SleepFor
  <2>3. PromptInv'
    BY <2>1, <2>2
  <2>4. TypeOK' /\ AtHand' /\ CountInv' /\ StaysOnOrigin' /\ WaitInv'
    BY <2>1, <2>2, <1>12
  <2>5. BackedOff'
    BY <2>1, <2>2, <1>12
  <2> QED
    BY <2>3, <2>4, <2>5
<1>15. CASE Clarify
  BY <1>11, <1>15 DEF Clarify, StillPending
<1>16. CASE Answer
  <2>1. CASE count >= MaxPolls
    <3>1. /\ pc = "clarify" /\ pc' = "done" /\ sent = MaxPolls
          /\ result' = Failure("max_polls_exceeded")
          /\ UNCHANGED <<pending, count, wait, response, prompted, pause, sent,
                         targets, prompts, slowed>>
      BY <1>16, <2>1 DEF Answer, Finish
    <3>2. PromptInv'
      BY <3>1
    <3>3. TypeOK' /\ AtHand' /\ CountInv' /\ StaysOnOrigin' /\ WaitInv' /\ BackedOff'
      BY <3>1 DEF Failure
    <3> QED
      BY <3>2, <3>3
  <2>2. CASE ~ (count >= MaxPolls)
    <3>1. /\ pc = "clarify" /\ pc' = "post" /\ sent' = sent + 1 /\ sent = count
          /\ count' = count + 1 /\ count < MaxPolls
          /\ targets' = targets \cup {pending}
          /\ UNCHANGED <<pending, wait, response, prompted, pause, result,
                         prompts, slowed>>
      BY <1>16, <2>2 DEF Answer
    <3>2. PromptInv'
      BY <3>1
    <3>3. TypeOK' /\ AtHand' /\ CountInv' /\ StaysOnOrigin' /\ WaitInv' /\ BackedOff'
      BY <3>1
    <3> QED
      BY <3>2, <3>3
  <2> QED
    BY <2>1, <2>2
<1>17. CASE NoAnswer
  <2>1. /\ pc = "clarify" /\ pc' = "sleep" /\ response \in Responses
        /\ pause' = WaitFor(response, wait)
        /\ UNCHANGED <<pending, count, wait, response, prompted, result, sent,
                       targets, prompts, slowed>>
    BY <1>17 DEF NoAnswer, SleepFor
  <2>2. TypeOK' /\ AtHand' /\ CountInv' /\ StaysOnOrigin' /\ PromptInv' /\ WaitInv'
    BY <2>1, <1>12
  <2>3. BackedOff'
    BY <2>1, <1>12
  <2> QED
    BY <2>2, <2>3
<1>18. CASE Idle
  BY <1>11, <1>12, <1>18 DEF Idle, SleepFor, StillPending
<1>19. CASE Slept
  BY <1>19 DEF Slept
<1>20. CASE UNCHANGED vars
  BY <1>20 DEF vars
<1> HIDE <1>0 DEF IInv, TypeOK, AtHand, CountInv, StaysOnOrigin, PromptInv,
                  PromptedOnce, WaitInv, BackedOff, history
<1> QED
  BY <1>1, <1>2, <1>3, <1>4, <1>5, <1>6, <1>7, <1>8, <1>9, <1>10, <1>13,
     <1>14, <1>15, <1>16, <1>17, <1>18, <1>19, <1>20 DEF Next

(* Of every behaviour of the loop, with no fairness.                       *)
THEOREM Invariance == Spec => []IInv
BY InitInv, Step, PTL DEF Spec

(* The state of _steps keeps its types, whatever the server answers.       *)
THEOREM TypeCorrect == Spec => []TypeOK
<1>1. IInv => TypeOK
  BY DEF IInv
<1> QED
  BY <1>1, Invariance, PTL

(* max_polls bounds GETs and clarification POSTs together, and an answer   *)
(* of max_polls_exceeded means that all of them were sent.                 *)
THEOREM BudgetHolds == Spec => []BudgetIsExact
<1>1. IInv => BudgetIsExact
  BY DEF IInv, CountInv, BudgetIsExact
<1> QED
  BY <1>1, Invariance, PTL

(* Every request of the loop goes to the origin it was started on, through *)
(* any number of Location headers.                                         *)
THEOREM OriginKept == Spec => []StaysOnOrigin
<1>1. IInv => StaysOnOrigin
  BY DEF IInv
<1> QED
  BY <1>1, Invariance, PTL

(* The user is prompted at most once for each endpoint and code.           *)
THEOREM NoPromptTwice == Spec => []PromptedOnce
<1>1. IInv => PromptedOnce
  BY DEF IInv, PromptInv
<1> QED
  BY <1>1, Invariance, PTL

(* No sleep is shorter than the server or the number of 429s asks for.     *)
THEOREM WaitsLongEnough == Spec => []BackedOff
<1>1. IInv => BackedOff
  BY DEF IInv
<1> QED
  BY <1>1, Invariance, PTL
=============================================================================
