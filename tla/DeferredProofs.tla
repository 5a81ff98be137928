--------------------------- MODULE DeferredProofs ---------------------------
(***************************************************************************)
(* What a deferred request guarantees end to end, for every server that    *)
(* builds its responses with http/deferred.py, every gateway between the   *)
(* two and any limits: the polling loop within it keeps all that           *)
(* PollerProofs shows, and the whole implements Deferred.                  *)
(***************************************************************************)
EXTENDS DeferredFlow, PollerProofs

(* A reply is on its way only while the client waits for one, and what is  *)
(* answered was asked; the server asks nothing once it has decided.        *)
FlightInv ==
    /\ reply # None => pc \in {"get", "post"}
    /\ pc \in {"clarify", "post"} =>
         /\ response \in Responses /\ response.question # None
         /\ response.status = 202
    /\ pc \in {"prompt", "sleep"} => response.status \in {202, 429, 503}
    /\ open # None => verdict = None

Latest == IF reply # None THEN reply ELSE response

(* The question the client has in hand is open, if any still is.           *)
QuestionInv ==
    /\ pc # "done" /\ Latest # None /\ Latest.question # None =>
         open = Latest.question \/ verdict # None
    /\ \A i \in 1..Len(answers) : answers[i][1] = answers[i][2]

(* Only the server's decision looks like one.                              *)
VerdictInv ==
    /\ reply # None /\ reply.status \in Verdicts => verdict = reply.status
    /\ response # None /\ response.status \in Verdicts => verdict = response.status

(* The polls that neither were answers nor were wasted on stray replies;   *)
(* the client has slept retry_after seconds for each of them.              *)
Polls == sent - posts - wasted
Slow(n) == elapsed >= RetryAfter * n
Paces(r) == r.retry = RetryAfter \/ r.status \in Verdicts
PaceInv ==
    /\ Slow(Polls)
    /\ pc = "poll" => Slow(Polls + 1)
    /\ pc \in {"handle", "prompt", "clarify", "sleep"} =>
         Slow(Polls + 1) \/ Paces(response)
    /\ reply # None => Slow(Polls + 1) \/ Paces(reply)

(* Once the server has decided, each further poll is wasted or brings the  *)
(* decision.                                                               *)
Early(n) == decidedAt >= RetryAfter * n
LateInv ==
    verdict # None =>
        \/ Early(Polls)
        \/ pc = "get" /\ reply = None /\ Early(Polls - 1)
        \/ reply # None /\ reply.status \in Verdicts
        \/ pc = "handle" /\ response.status \in Verdicts
        \/ pc = "done" /\ result.error # "max_polls_exceeded"

(* A code that was announced was shown, or is in the response in hand.     *)
Shown == {prompts[i][2] : i \in 1..Len(prompts)}
Shows(r) == r.status = 202 /\ Interacts(r)
ShownInv ==
    /\ \A k \in prompted : k[2] \in Shown
    /\ InteractionEnabled /\ pc # "done" =>
         \A c \in announced \ Shown :
            \/ reply # None /\ Shows(reply) /\ reply.code = c
            \/ pc = "handle" /\ Shows(response) /\ response.code = c

FlowInv == FlowTypeOK /\ IInv /\ FlightInv /\ QuestionInv /\ VerdictInv
             /\ PaceInv /\ LateInv /\ ShownInv
-----------------------------------------------------------------------------
(* Lemmas about the responses and the arithmetic.                          *)

LEMMA FlowShape ==
    ASSUME NEW r \in Responses
    PROVE  /\ r # None /\ r.status \in 100..599 /\ r.retry \in Int \cup {None}
           /\ r.code \in Codes \cup {None} /\ r.question \in Questions \cup {None}
BY ResponsesAssumption, NoneAssumption DEF ResponseShape

LEMMA PendingShape ==
    ASSUME NEW q \in Questions \cup {None}, NEW c \in Codes \cup {None},
           NEW t \in BOOLEAN
    PROVE  /\ Pending202(q, c, t) \in Responses
           /\ Pending202(q, c, t).status = 202
           /\ Pending202(q, c, t).retry = RetryAfter
           /\ Pending202(q, c, t).question = q
           /\ Pending202(q, c, t).interacting = t
           /\ Require(q, c) = "interaction" =>
                /\ Pending202(q, c, t).requirement = "interaction"
                /\ Pending202(q, c, t).code = c /\ c # None
BY BuiltAssumption DEF Pending202, PendingHeader, PendingBody, Require

LEMMA FinalShape ==
    ASSUME NEW v \in Verdicts
    PROVE  Final(v) \in Responses /\ Final(v).status = v /\ Final(v).question = None
BY BuiltAssumption DEF Final

LEMMA VerdictShape ==
    /\ \A v \in Verdicts : v \in 100..599 /\ v \notin {202, 429, 503}
    /\ None \notin Verdicts /\ Failed \notin Verdicts /\ Failed # None
BY VerdictsAssumption

(* What the server sends: the truth about its state.                       *)
ServerTypeOK ==
    /\ verdict \in Verdicts \cup {None} /\ open \in Questions \cup {None}
    /\ code \in Codes \cup {None} /\ there \in BOOLEAN
CurrentIsTrue ==
    /\ Current \in Responses /\ Current # None
    /\ Current.question # None => verdict = None /\ Current.question = open
    /\ Current.status \in Verdicts => verdict = Current.status
    /\ verdict # None => Current.status \in Verdicts
    /\ Paces(Current)
    /\ Announces \subseteq Codes
    /\ \A c \in Announces : InteractionEnabled => Shows(Current) /\ Current.code = c

LEMMA CurrentShape == ServerTypeOK => CurrentIsTrue
<1> SUFFICES ASSUME ServerTypeOK PROVE CurrentIsTrue
  OBVIOUS
<1>1. CASE verdict = None
  <2>1. Current = Pending202(open, code, there)
    BY <1>1 DEF Current
  <2> DEFINE p == Pending202(open, code, there)
  <2>2. /\ p \in Responses /\ p.status = 202 /\ p.retry = RetryAfter
        /\ p.question = open /\ p.interacting = there
        /\ Require(open, code) = "interaction" =>
             p.requirement = "interaction" /\ p.code = code /\ code # None
    BY PendingShape DEF ServerTypeOK
  <2>3. p.status \notin Verdicts
    BY <2>2, VerdictShape
  <2> HIDE DEF p
  <2> QED
    BY <1>1, <2>1, <2>2, <2>3, FlowShape
       DEF p, ServerTypeOK, CurrentIsTrue, Announces, Paces, Shows, Interacts
<1>2. CASE verdict # None
  BY <1>2, FinalShape, FlowShape
     DEF ServerTypeOK, CurrentIsTrue, Current, Announces, Paces
<1> QED
  BY <1>1, <1>2

LEMMA CurrentShapeNext == ServerTypeOK' => CurrentIsTrue'
BY CurrentShape, PTL

LEMMA OneMore ==
    /\ RetryAfter \in Nat
    /\ \A n \in Int : /\ RetryAfter * n \in Int
                      /\ RetryAfter * (n + 1) = RetryAfter * n + RetryAfter
                      /\ RetryAfter * (n - 1) = RetryAfter * n - RetryAfter
<1>1. RetryAfter \in Nat
  BY RetryAfterAssumption
<1> QED
  BY <1>1

(* A poll more or less.                                                    *)
LEMMA PollsBounds ==
    ASSUME FlowTypeOK, NEW n \in Int
    PROVE  /\ Slow(n + 1) => Slow(n)
           /\ Early(n) => Early(n - 1)
           /\ Slow(n) <=> elapsed >= RetryAfter * n
           /\ elapsed + RetryAfter >= RetryAfter * (n + 1) <=> Slow(n)
<1>1. elapsed \in Nat /\ decidedAt \in Nat
  BY DEF FlowTypeOK
<1> QED
  BY <1>1, OneMore DEF Slow, Early
-----------------------------------------------------------------------------
(* The loop within the flow.                                               *)

LEMMA FlowStepsPoll == FlowTypeOK /\ [FlowNext]_flowVars => [Next]_vars
<1> SUFFICES ASSUME FlowTypeOK, [FlowNext]_flowVars PROVE [Next]_vars
  OBVIOUS
<1>1. CASE UNCHANGED flowVars
  BY <1>1 DEF flowVars
<1>2. CASE Server
  BY <1>2 DEF Server, Ask, RequireInteraction, Decide, Arrive
<1>3. CASE ServeGet \/ ServePost \/ \E r \in Strays : Stray(r)
  BY <1>3 DEF ServeGet, ServePost, Stray
<1>4. CASE Receive
  BY <1>4 DEF Receive, FlowTypeOK, Next
<1>5. CASE Break \/ Sleep \/ Reply \/ Compute
  BY <1>5 DEF Break, Sleep, Reply, Compute, Next
<1> QED
  BY <1>1, <1>2, <1>3, <1>4, <1>5 DEF FlowNext, Client

LEMMA FlowInitInv == FlowInit => FlowInv
<1> SUFFICES ASSUME FlowInit PROVE FlowInv
  OBVIOUS
<1>1. IInv
  BY InitInv DEF FlowInit
<1>2. ServerTypeOK
  BY DEF FlowInit, ServerTypeOK
<1> DEFINE p == Pending202(open, code, there)
<1>3. /\ response = p /\ p \in Responses /\ p # None
      /\ p = Current /\ p.question = open
      /\ pc = "handle" /\ result = NoResult /\ prompts = <<>> /\ prompted = {}
      /\ sent = 0 /\ p.retry = RetryAfter
  <2>1. /\ p \in Responses /\ p.question = open /\ p.retry = RetryAfter
    BY <1>2, PendingShape DEF ServerTypeOK
  <2>2. response = p /\ p = Current
    BY DEF FlowInit, Current
  <2> HIDE DEF p
  <2>3. p # None
    BY <2>1, FlowShape
  <2> QED
    BY <2>1, <2>2, <2>3 DEF FlowInit, Init
<1>4. CurrentIsTrue
  BY <1>2, CurrentShape
<1> HIDE DEF p
<1>5. /\ verdict = None /\ reply = None /\ answers = <<>> /\ announced = Announces
      /\ elapsed = 0 /\ decidedAt = 0 /\ posts = 0 /\ wasted = 0
      /\ codes \subseteq Codes
  BY DEF FlowInit
<1>6. FlowTypeOK
  BY <1>1, <1>2, <1>4, <1>5 DEF FlowTypeOK, IInv, ServerTypeOK, CurrentIsTrue
<1>7. FlightInv /\ QuestionInv /\ VerdictInv
  BY <1>3, <1>4, <1>5 DEF FlightInv, QuestionInv, VerdictInv, Latest, CurrentIsTrue
<1>8. PaceInv
  BY <1>3, <1>5, OneMore DEF PaceInv, Slow, Polls, Paces
<1>9. LateInv
  BY <1>5 DEF LateInv
<1>10. ShownInv
  BY <1>3, <1>4, <1>5 DEF ShownInv, CurrentIsTrue, Shown
<1> QED
  BY <1>1, <1>6, <1>7, <1>8, <1>9, <1>10 DEF FlowInv

(* What a step changes is small; the rest is carried over by these.        *)
LEMMA ServerKeeps ==
    ASSUME FlowInv, IInv', Server
    PROVE  FlowInv'
<1>1. /\ FlowTypeOK /\ FlightInv /\ QuestionInv /\ VerdictInv /\ PaceInv
      /\ LateInv /\ ShownInv /\ TypeOK'
  BY DEF FlowInv, IInv
<1>2. /\ pc' = pc /\ pending' = pending /\ count' = count /\ wait' = wait
      /\ response' = response /\ prompted' = prompted /\ pause' = pause
      /\ result' = result /\ sent' = sent /\ prompts' = prompts
      /\ reply' = reply /\ answers' = answers /\ announced' = announced
      /\ wasted' = wasted /\ elapsed' = elapsed /\ posts' = posts
  BY DEF Server, Ask, RequireInteraction, Decide, Arrive, vars, history, network,
         clocks
<1>3. PaceInv' /\ ShownInv'
  BY <1>1, <1>2 DEF PaceInv, ShownInv, Slow, Polls, Paces, Shown, Shows, Interacts
<1>4. CASE \E q \in Questions : Ask(q)
  <2>1. PICK q \in Questions : Ask(q)
    BY <1>4
  <2>2. /\ verdict = None /\ verdict' = None /\ open = None /\ open' = q
        /\ UNCHANGED <<code, there, codes, decidedAt>>
    BY <2>1 DEF Ask
  <2>3. FlowTypeOK'
    BY <1>1, <1>2, <2>2 DEF FlowTypeOK
  <2>4. FlightInv' /\ VerdictInv' /\ LateInv'
    BY <1>1, <1>2, <2>2 DEF FlightInv, VerdictInv, LateInv
  <2>5. QuestionInv'
    BY <1>1, <1>2, <2>2 DEF QuestionInv, Latest
  <2> QED
    BY <1>3, <2>3, <2>4, <2>5 DEF FlowInv
<1>5. CASE Arrive \/ \E c \in Codes : RequireInteraction(c)
  <2>1. /\ verdict' = verdict /\ open' = open /\ decidedAt' = decidedAt
        /\ code' \in Codes \cup {None} /\ codes' \subseteq Codes /\ there' \in BOOLEAN
    BY <1>1, <1>5 DEF Arrive, RequireInteraction, FlowTypeOK
  <2>2. FlowTypeOK'
    BY <1>1, <1>2, <2>1 DEF FlowTypeOK
  <2>3. FlightInv' /\ VerdictInv' /\ QuestionInv'
    BY <1>1, <1>2, <2>1 DEF FlightInv, VerdictInv, QuestionInv, Latest
  <2>4. LateInv'
    BY <1>1, <1>2, <2>1 DEF LateInv, Early, Polls
  <2> QED
    BY <1>3, <2>2, <2>3, <2>4 DEF FlowInv
<1>6. CASE \E v \in Verdicts : Decide(v)
  <2>1. PICK v \in Verdicts : Decide(v)
    BY <1>6
  <2>2. /\ verdict = None /\ verdict' = v /\ open' = None /\ v # None
        /\ decidedAt' = elapsed /\ UNCHANGED <<code, there, codes>>
    BY <2>1, VerdictShape DEF Decide
  <2>3. FlowTypeOK'
    BY <1>1, <1>2, <2>2 DEF FlowTypeOK
  <2>4. FlightInv'
    BY <1>1, <1>2, <2>2 DEF FlightInv
  <2>5. VerdictInv'
    BY <1>1, <1>2, <2>2, VerdictShape DEF VerdictInv, FlowTypeOK
  <2>6. QuestionInv'
    BY <1>1, <1>2, <2>2 DEF QuestionInv
  <2>7. LateInv'
    BY <1>1, <1>2, <2>2 DEF LateInv, PaceInv, Early, Slow, Polls
  <2> QED
    BY <1>3, <2>3, <2>4, <2>5, <2>6, <2>7 DEF FlowInv
<1> QED
  BY <1>4, <1>5, <1>6 DEF Server

(* The server answers, or something between the two does.                  *)
LEMMA AnswerKeeps ==
    ASSUME FlowInv, IInv', ServeGet \/ ServePost \/ \E r \in Strays : Stray(r)
    PROVE  FlowInv'
<1>1. /\ FlowTypeOK /\ FlightInv /\ QuestionInv /\ VerdictInv /\ PaceInv
      /\ LateInv /\ ShownInv /\ TypeOK'
  BY DEF FlowInv, IInv
<1>2. /\ pc' = pc /\ pending' = pending /\ count' = count /\ wait' = wait
      /\ response' = response /\ prompted' = prompted /\ pause' = pause
      /\ result' = result /\ sent' = sent /\ prompts' = prompts
      /\ reply = None /\ pc \in {"get", "post"}
      /\ elapsed' = elapsed /\ posts' = posts
      /\ verdict' = verdict /\ code' = code /\ there' = there
      /\ codes' = codes /\ decidedAt' = decidedAt
  BY DEF ServeGet, ServePost, Stray, vars, history, server, clocks
<1>3. ServerTypeOK
  BY <1>1 DEF FlowTypeOK, ServerTypeOK
<1>4. ASSUME open' \in {open, None}, CurrentIsTrue', reply' = Current',
             announced' = announced \cup Announces', wasted' = wasted,
             answers' \in Seq((Questions \cup {None}) \X Questions),
             \A i \in 1..Len(answers') : answers'[i][1] = answers'[i][2]
      PROVE  FlowInv'
  <2>1. FlowTypeOK'
    BY <1>1, <1>2, <1>4 DEF FlowTypeOK, CurrentIsTrue
  <2>2. FlightInv' /\ VerdictInv'
    BY <1>1, <1>2, <1>4 DEF FlightInv, VerdictInv, CurrentIsTrue
  <2>3. QuestionInv'
    BY <1>2, <1>4 DEF QuestionInv, Latest, CurrentIsTrue
  <2>4. Polls' = Polls
    BY <1>2, <1>4 DEF Polls
  <2>5. PaceInv'
    BY <1>1, <1>2, <1>4, <2>4 DEF PaceInv, Slow, CurrentIsTrue, Paces
  <2>6. LateInv'
    BY <1>1, <1>2, <1>4, <2>4 DEF LateInv, CurrentIsTrue
  <2>7. ShownInv'
    BY <1>1, <1>2, <1>4 DEF ShownInv, CurrentIsTrue, Shown, Shows, Interacts
  <2> QED
    BY <2>1, <2>2, <2>3, <2>5, <2>6, <2>7 DEF FlowInv
<1>5. CASE ServeGet
  <2>1. /\ open' = open /\ reply' = Current /\ announced' = announced \cup Announces
        /\ wasted' = wasted /\ answers' = answers
    BY <1>5 DEF ServeGet, server
  <2>2. Current' = Current /\ Announces' = Announces
    BY <1>2, <2>1 DEF Current, Announces
  <2>3. CurrentIsTrue'
    BY <1>2, <1>3, <2>1, CurrentShapeNext DEF ServerTypeOK
  <2> QED
    BY <1>1, <1>4, <2>1, <2>2, <2>3 DEF FlowTypeOK, QuestionInv
<1>6. CASE ServePost
  <2>1. /\ pc = "post" /\ open' = None /\ reply' = Current' /\ wasted' = wasted
        /\ announced' = announced \cup Announces'
        /\ answers' = IF open = None THEN answers
                      ELSE Append(answers, <<response.question, open>>)
    BY <1>6 DEF ServePost
  <2>2. CurrentIsTrue'
    BY <1>2, <1>3, <2>1, CurrentShapeNext DEF ServerTypeOK
  <2>3. answers \in Seq((Questions \cup {None}) \X Questions)
    BY <1>1 DEF FlowTypeOK
  <2>4. CASE open = None
    BY <1>1, <1>4, <2>1, <2>2, <2>3, <2>4 DEF QuestionInv
  <2>5. CASE open # None
    <3>1. response.question = open /\ open \in Questions
      BY <1>1, <1>2, <2>1, <2>5, FlowShape
         DEF QuestionInv, FlightInv, Latest, FlowTypeOK
    <3> DEFINE a == <<response.question, open>>
    <3>2. a \in (Questions \cup {None}) \X Questions /\ a[1] = a[2]
      BY <3>1
    <3>3. answers' = Append(answers, a)
      BY <2>1, <2>5
    <3> HIDE DEF a
    <3>4. /\ answers' \in Seq((Questions \cup {None}) \X Questions)
          /\ Len(answers') = Len(answers) + 1 /\ Len(answers) \in Nat
          /\ \A i \in 1..Len(answers) : answers'[i] = answers[i]
          /\ answers'[Len(answers) + 1] = a
      BY <2>3, <3>2, <3>3
    <3>5. \A i \in 1..Len(answers') : answers'[i][1] = answers'[i][2]
      BY <1>1, <3>2, <3>4 DEF QuestionInv
    <3> QED
      BY <1>4, <2>1, <2>2, <3>4, <3>5
  <2> QED
    BY <2>4, <2>5
<1>7. CASE \E r \in Strays : Stray(r)
  <2>1. PICK r \in Strays : Stray(r)
    BY <1>7
  <2>2. /\ reply' = r /\ wasted' = wasted + 1 /\ open' = open
        /\ answers' = answers /\ announced' = announced
    BY <2>1 DEF Stray, server
  <2>3. /\ r \in Responses /\ r # None /\ r.status \notin Verdicts
        /\ r.question = None
    BY StraysAssumption, FlowShape
  <2>4. FlowTypeOK'
    BY <1>1, <1>2, <2>2, <2>3 DEF FlowTypeOK
  <2>5. FlightInv' /\ VerdictInv'
    BY <1>1, <1>2, <2>2, <2>3 DEF FlightInv, VerdictInv
  <2>6. QuestionInv'
    BY <1>1, <1>2, <2>2, <2>3 DEF QuestionInv, Latest
  <2>7. Polls' = Polls - 1 /\ Polls' + 1 = Polls /\ Polls \in Int
    BY <1>1, <1>2, <2>2 DEF Polls, FlowTypeOK, TypeOK
  <2>8. PaceInv'
    <3>1. Slow(Polls - 1)
      BY <1>1, <2>7, PollsBounds DEF PaceInv
    <3> QED
      BY <1>1, <1>2, <2>2, <2>7, <3>1 DEF PaceInv, Slow
  <2>9. LateInv'
    <3>1. Early(Polls) => Early(Polls - 1)
      BY <1>1, <2>7, PollsBounds
    <3> QED
      BY <1>1, <1>2, <2>2, <2>7, <3>1 DEF LateInv, Early
  <2>10. ShownInv'
    BY <1>1, <1>2, <2>2 DEF ShownInv, Shown
  <2> QED
    BY <2>4, <2>5, <2>6, <2>8, <2>9, <2>10 DEF FlowInv
<1> QED
  BY <1>5, <1>6, <1>7

(* The client reads a reply, or the request or a callback fails.           *)
LEMMA ReceiveKeeps ==
    ASSUME FlowInv, IInv', Receive
    PROVE  FlowInv'
<1>1. /\ FlowTypeOK /\ FlightInv /\ QuestionInv /\ VerdictInv /\ PaceInv
      /\ LateInv /\ ShownInv /\ TypeOK'
  BY DEF FlowInv, IInv
<1>2. /\ reply # None /\ response' = reply /\ reply' = None
      /\ pc \in {"get", "post"} /\ pc' = "handle"
      /\ prompted' = prompted /\ result' = result /\ sent' = sent
      /\ prompts' = prompts
  BY DEF Receive, GetReply, PostReply, history
<1>3. /\ answers' = answers /\ announced' = announced /\ wasted' = wasted
      /\ elapsed' = elapsed /\ posts' = posts
      /\ verdict' = verdict /\ open' = open /\ code' = code /\ there' = there
      /\ codes' = codes /\ decidedAt' = decidedAt
  BY DEF Receive, server, clocks
<1>4. FlowTypeOK'
  BY <1>1, <1>2, <1>3 DEF FlowTypeOK
<1>5. FlightInv' /\ VerdictInv'
  BY <1>1, <1>2, <1>3 DEF FlightInv, VerdictInv
<1>6. QuestionInv'
  BY <1>1, <1>2, <1>3 DEF QuestionInv, Latest
<1>7. Polls' = Polls
  BY <1>2, <1>3 DEF Polls
<1>8. PaceInv'
  BY <1>1, <1>2, <1>3, <1>7 DEF PaceInv, Slow, Paces
<1>9. LateInv'
  BY <1>1, <1>2, <1>3, <1>7 DEF LateInv, Early
<1>10. ShownInv'
  BY <1>1, <1>2, <1>3 DEF ShownInv, Shown, Shows, Interacts
<1> QED
  BY <1>4, <1>5, <1>6, <1>8, <1>9, <1>10 DEF FlowInv

LEMMA BreakKeeps ==
    ASSUME FlowInv, IInv', Break
    PROVE  FlowInv'
<1>1. /\ FlowTypeOK /\ FlightInv /\ QuestionInv /\ VerdictInv /\ PaceInv
      /\ LateInv /\ ShownInv /\ TypeOK'
  BY DEF FlowInv, IInv
<1>2. /\ pc' = "done" /\ result'.error = "network_error" /\ reply' = None
      /\ response' = response /\ prompted' = prompted /\ sent' = sent
      /\ prompts' = prompts
      /\ answers' = answers /\ announced' = announced /\ wasted' = wasted
      /\ elapsed' = elapsed /\ posts' = posts
      /\ verdict' = verdict /\ open' = open /\ code' = code /\ there' = there
      /\ codes' = codes /\ decidedAt' = decidedAt
  BY DEF Break, IoFails, Finish, Failure, history, server, clocks
<1>3. FlowTypeOK'
  BY <1>1, <1>2 DEF FlowTypeOK
<1>4. FlightInv' /\ VerdictInv' /\ QuestionInv'
  BY <1>1, <1>2 DEF FlightInv, VerdictInv, QuestionInv
<1>5. PaceInv'
  BY <1>1, <1>2 DEF PaceInv, Slow, Polls
<1>6. LateInv' /\ ShownInv'
  BY <1>1, <1>2 DEF LateInv, ShownInv, Shown
<1> QED
  BY <1>3, <1>4, <1>5, <1>6 DEF FlowInv

(* A sleep after what the server sent takes at least retry_after seconds.  *)
LEMMA SleepKeeps ==
    ASSUME FlowInv, IInv', Sleep
    PROVE  FlowInv'
<1>1. /\ FlowTypeOK /\ FlightInv /\ QuestionInv /\ VerdictInv /\ PaceInv
      /\ LateInv /\ ShownInv /\ TypeOK' /\ BackedOff /\ AtHand
  BY DEF FlowInv, IInv
<1>2. /\ pc = "sleep" /\ pc' = "poll" /\ response' = None /\ reply = None
      /\ reply' = None /\ elapsed' = elapsed + pause
      /\ result' = result /\ prompted' = prompted /\ sent' = sent
      /\ prompts' = prompts
      /\ answers' = answers /\ announced' = announced /\ wasted' = wasted
      /\ posts' = posts
      /\ verdict' = verdict /\ open' = open /\ code' = code /\ there' = there
      /\ codes' = codes /\ decidedAt' = decidedAt
  BY <1>1 DEF Sleep, Slept, history, server, network, FlightInv
<1>3. pause \in Nat /\ elapsed \in Nat /\ Polls \in Int
  BY <1>1 DEF FlowTypeOK, TypeOK, Polls
<1>4. FlowTypeOK'
  BY <1>1, <1>2, <1>3 DEF FlowTypeOK
<1>5. FlightInv' /\ VerdictInv' /\ QuestionInv'
  BY <1>1, <1>2 DEF FlightInv, VerdictInv, QuestionInv, Latest
<1>6. Polls' = Polls
  BY <1>2 DEF Polls
<1>7. PaceInv'
  <2>1. Slow(Polls + 1) \/ pause >= RetryAfter
    <3>1. response.status \notin Verdicts /\ response \in Responses
      BY <1>1, <1>2, VerdictShape DEF FlightInv, AtHand
    <3>2. response.retry = RetryAfter => pause >= RetryAfter
      BY <1>1, <1>2, RetryAfterAssumption DEF BackedOff
    <3> QED
      BY <1>1, <1>2, <3>1, <3>2 DEF PaceInv, Paces
  <2>2. Slow(Polls)
    BY <1>1 DEF PaceInv
  <2>3. /\ elapsed + pause >= RetryAfter * Polls
        /\ elapsed + pause >= RetryAfter * (Polls + 1)
    BY <1>3, <2>1, <2>2, OneMore DEF Slow
  <2> QED
    BY <1>2, <1>6, <2>3 DEF PaceInv, Slow
<1>8. LateInv'
  BY <1>1, <1>2, <1>6 DEF LateInv, Early
<1>9. ShownInv'
  BY <1>1, <1>2 DEF ShownInv, Shown
<1> QED
  BY <1>4, <1>5, <1>7, <1>8, <1>9 DEF FlowInv

(* The client's answer to a question, if its polls are not used up.        *)
LEMMA ReplyKeeps ==
    ASSUME FlowInv, IInv', Reply
    PROVE  FlowInv'
<1>1. /\ FlowTypeOK /\ FlightInv /\ QuestionInv /\ VerdictInv /\ PaceInv
      /\ LateInv /\ ShownInv /\ TypeOK /\ TypeOK'
  BY DEF FlowInv, IInv
<1>2. /\ pc = "clarify" /\ reply = None /\ reply' = None
      /\ response' = response /\ prompted' = prompted /\ prompts' = prompts
      /\ posts' = posts + (sent' - sent)
      /\ answers' = answers /\ announced' = announced /\ wasted' = wasted
      /\ elapsed' = elapsed
      /\ verdict' = verdict /\ open' = open /\ code' = code /\ there' = there
      /\ codes' = codes /\ decidedAt' = decidedAt
  BY <1>1 DEF Reply, Answer, Finish, server, network, FlightInv
<1>3. sent \in Nat /\ posts \in Nat /\ wasted \in Nat
  BY <1>1 DEF FlowTypeOK, TypeOK
<1>4. \/ pc' = "done" /\ sent' = sent
      \/ pc' = "post" /\ sent' = sent + 1 /\ result' = result
  BY DEF Reply, Answer, Finish
<1>5. posts' \in Nat /\ Polls' = Polls
  <2>1. CASE sent' = sent
    <3>1. posts' = posts
      BY <1>2, <1>3, <2>1
    <3> QED
      BY <1>2, <1>3, <2>1, <3>1 DEF Polls
  <2>2. CASE sent' = sent + 1
    <3>1. posts' = posts + 1
      BY <1>2, <1>3, <2>2
    <3>2. (sent + 1) - (posts + 1) - wasted = sent - posts - wasted
      BY <1>3
    <3> QED
      BY <1>2, <1>3, <2>2, <3>1, <3>2 DEF Polls
  <2> QED
    BY <1>4, <2>1, <2>2
<1>6. FlowTypeOK'
  BY <1>1, <1>2, <1>5 DEF FlowTypeOK
<1>7. FlightInv' /\ VerdictInv'
  BY <1>1, <1>2, <1>4 DEF FlightInv, VerdictInv
<1>8. QuestionInv'
  BY <1>1, <1>2, <1>4 DEF QuestionInv, Latest
<1>9. PaceInv'
  BY <1>1, <1>2, <1>4, <1>5 DEF PaceInv, Slow
<1>10. LateInv'
  BY <1>1, <1>2, <1>4, <1>5 DEF LateInv, Early
<1>11. ShownInv'
  BY <1>1, <1>2, <1>4 DEF ShownInv, Shown
<1> QED
  BY <1>6, <1>7, <1>8, <1>9, <1>10, <1>11 DEF FlowInv

(* What the generator does between two yields.                             *)
LEMMA ComputeEffect ==
    ASSUME FlowInv, Compute
    PROVE  /\ response' = response /\ pc \notin {"get", "post", "done"}
           /\ \/ /\ pc = "poll" /\ pc' = "get" /\ sent' = sent + 1
                 /\ UNCHANGED <<result, prompts, prompted>>
              \/ /\ pc = "poll" /\ pc' = "done"
                 /\ UNCHANGED <<sent, prompts, prompted>>
              \/ /\ pc = "handle" /\ pc' = "done"
                 /\ result'.error # "max_polls_exceeded"
                 /\ UNCHANGED <<sent, prompts, prompted>>
              \/ /\ pc = "handle" /\ pc' = "sleep"
                 /\ response.status \in {202, 429, 503}
                 /\ Shows(response) => PromptKey(response) \in prompted
                 /\ UNCHANGED <<sent, result, prompts, prompted>>
              \/ /\ pc = "handle" /\ pc' = "prompt" /\ response.status = 202
                 /\ prompts' = Append(prompts, PromptKey(response))
                 /\ UNCHANGED <<sent, result, prompted>>
              \/ /\ pc = "handle" /\ pc' = "clarify" /\ response.status = 202
                 /\ ~ Shows(response) /\ response.question # None
                 /\ UNCHANGED <<sent, result, prompts, prompted>>
              \/ /\ pc = "prompt" /\ pc' = "sleep"
                 /\ prompted' = prompted \cup {prompts[Len(prompts)]}
                 /\ UNCHANGED <<sent, result, prompts>>
              \/ /\ pc = "clarify" /\ pc' = "sleep"
                 /\ UNCHANGED <<sent, result, prompts, prompted>>
<1> USE DEF history
<1>1. CASE Poll \/ GiveUp
  BY <1>1 DEF Poll, GiveUp, Finish
<1>2. CASE SlowDown \/ Busy
  BY <1>2 DEF SlowDown, Busy, SleepFor, Shows
<1>3. CASE Conclude
  BY <1>3 DEF Conclude, Finish, Failure
<1>4. CASE Invalid \/ Unparsable
  BY <1>4 DEF Invalid, Unparsable, Finish, Failure
<1>5. CASE Prompt
  BY <1>5 DEF Prompt, StillPending
<1>6. CASE Clarify
  BY <1>6 DEF Clarify, StillPending, Asks, Shows, Interacts
<1>7. CASE Idle
  BY <1>7 DEF Idle, StillPending, SleepFor, AlreadyPrompted, Shows
<1>8. CASE Prompted
  BY <1>8 DEF Prompted, SleepFor
<1>9. CASE NoAnswer
  BY <1>9 DEF NoAnswer, SleepFor
<1> QED
  BY <1>1, <1>2, <1>3, <1>4, <1>5, <1>6, <1>7, <1>8, <1>9 DEF Compute

LEMMA ComputeKeeps ==
    ASSUME FlowInv, IInv', Compute
    PROVE  FlowInv'
<1>1. /\ FlowTypeOK /\ FlightInv /\ QuestionInv /\ VerdictInv /\ PaceInv
      /\ LateInv /\ ShownInv /\ TypeOK /\ TypeOK' /\ AtHand /\ PromptInv
  BY DEF FlowInv, IInv
<1>2. /\ answers' = answers /\ announced' = announced /\ wasted' = wasted
      /\ elapsed' = elapsed /\ posts' = posts /\ reply' = reply
      /\ verdict' = verdict /\ open' = open /\ code' = code /\ there' = there
      /\ codes' = codes /\ decidedAt' = decidedAt
  BY DEF Compute, server, network, clocks
<1>3. response' = response /\ reply = None /\ pc \notin {"get", "post", "done"}
  BY <1>1, ComputeEffect DEF FlightInv
<1>4. Polls \in Int /\ sent \in Nat /\ posts \in Nat /\ wasted \in Nat
  BY <1>1 DEF FlowTypeOK, TypeOK, Polls
<1>5. FlowTypeOK'
  BY <1>1, <1>2 DEF FlowTypeOK
<1>6. VerdictInv'
  BY <1>1, <1>2, <1>3 DEF VerdictInv
<1>7. QuestionInv'
  BY <1>1, <1>2, <1>3 DEF QuestionInv, Latest
<1>8. ASSUME sent' = sent, pc' \notin {"poll", "get"},
             pc' # "done" => pc \in {"handle", "prompt", "clarify"},
             pc = "handle" /\ pc' # "done" => response.status \in {202, 429, 503},
             pc' = "done" => pc = "poll" \/ result'.error # "max_polls_exceeded",
             pc' # "done" => result' = result
      PROVE  PaceInv' /\ LateInv'
  <2>1. Polls' = Polls
    BY <1>2, <1>8 DEF Polls
  <2>2. pc \in {"handle", "prompt", "clarify", "sleep", "poll"}
    BY <1>1, <1>3 DEF TypeOK
  <2>3. PaceInv'
    BY <1>1, <1>2, <1>3, <1>8, <2>1 DEF PaceInv, Slow, Paces
  <2>4. pc = "handle" /\ pc' # "done" => response.status \notin Verdicts
    BY <1>8, VerdictShape
  <2>5. LateInv'
    BY <1>1, <1>2, <1>3, <1>8, <2>1, <2>4 DEF LateInv, Early
  <2> QED
    BY <2>3, <2>5
<1>9. ASSUME prompts' = prompts, prompted' = prompted,
             pc = "handle" => pc' = "done" \/ ~ Shows(response)
                                \/ PromptKey(response) \in prompted
      PROVE  ShownInv'
  <2>1. PromptKey(response)[2] = response.code
    BY DEF PromptKey
  <2> QED
    BY <1>1, <1>2, <1>3, <1>9, <2>1 DEF ShownInv, Shown
<1>10. CASE pc = "poll" /\ pc' = "get" /\ sent' = sent + 1
            /\ result' = result /\ prompts' = prompts /\ prompted' = prompted
  <2>1. FlightInv'
    BY <1>1, <1>2, <1>10 DEF FlightInv
  <2>2. Polls' = Polls + 1 /\ Polls' - 1 = Polls
    BY <1>2, <1>4, <1>10 DEF Polls
  <2>3. PaceInv'
    BY <1>1, <1>2, <1>3, <1>10, <2>2 DEF PaceInv, Slow
  <2>4. LateInv'
    BY <1>1, <1>2, <1>3, <1>10, <2>2 DEF LateInv, Early
  <2>5. ShownInv'
    BY <1>9, <1>10
  <2> QED
    BY <1>5, <1>6, <1>7, <2>1, <2>3, <2>4, <2>5 DEF FlowInv
<1>11. CASE pc \in {"poll", "handle"} /\ pc' = "done"
            /\ (pc = "handle" => result'.error # "max_polls_exceeded")
            /\ sent' = sent /\ prompts' = prompts /\ prompted' = prompted
  <2>1. FlightInv'
    BY <1>1, <1>2, <1>3, <1>11 DEF FlightInv
  <2>2. PaceInv' /\ LateInv' /\ ShownInv'
    BY <1>8, <1>9, <1>11
  <2> QED
    BY <1>5, <1>6, <1>7, <2>1, <2>2 DEF FlowInv
<1>12. CASE pc = "handle" /\ pc' \in {"sleep", "clarify"}
            /\ response.status \in {202, 429, 503}
            /\ (pc' = "clarify" => response.status = 202 /\ response.question # None)
            /\ (Shows(response) => PromptKey(response) \in prompted)
            /\ sent' = sent /\ result' = result /\ prompts' = prompts
            /\ prompted' = prompted
  <2>1. FlightInv'
    BY <1>1, <1>2, <1>3, <1>12 DEF FlightInv, AtHand
  <2>2. PaceInv' /\ LateInv' /\ ShownInv'
    BY <1>8, <1>9, <1>12
  <2> QED
    BY <1>5, <1>6, <1>7, <2>1, <2>2 DEF FlowInv
<1>13. CASE pc = "handle" /\ pc' = "prompt" /\ response.status = 202
            /\ prompts' = Append(prompts, PromptKey(response))
            /\ sent' = sent /\ result' = result /\ prompted' = prompted
  <2>1. FlightInv'
    BY <1>1, <1>2, <1>3, <1>13 DEF FlightInv, AtHand
  <2>2. PaceInv' /\ LateInv'
    BY <1>8, <1>13
  <2>3. ShownInv'
    <3> DEFINE k == PromptKey(response)
    <3>1. k[2] = response.code
      BY DEF PromptKey
    <3>2. prompts' = Append(prompts, k)
      BY <1>13
    <3> HIDE DEF k
    <3>3. /\ Len(prompts) \in Nat /\ Len(prompts') = Len(prompts) + 1
          /\ \A i \in 1..Len(prompts) : prompts'[i] = prompts[i]
          /\ prompts'[Len(prompts) + 1] = k
      BY <1>1, <3>2 DEF TypeOK
    <3>4. Shown \subseteq Shown' /\ response.code \in Shown'
      BY <3>1, <3>3 DEF Shown
    <3> QED
      BY <1>1, <1>2, <1>3, <1>13, <3>4 DEF ShownInv
  <2> QED
    BY <1>5, <1>6, <1>7, <2>1, <2>2, <2>3 DEF FlowInv
<1>14. CASE pc = "prompt" /\ pc' = "sleep"
            /\ prompted' = prompted \cup {prompts[Len(prompts)]}
            /\ sent' = sent /\ result' = result /\ prompts' = prompts
  <2>1. FlightInv'
    BY <1>1, <1>2, <1>3, <1>14 DEF FlightInv
  <2>2. PaceInv' /\ LateInv'
    BY <1>8, <1>14
  <2>3. ShownInv'
    <3>1. prompts[Len(prompts)][2] \in Shown
      <4>1. prompts # <<>> /\ Len(prompts) \in Nat
        BY <1>1, <1>14 DEF PromptInv, TypeOK
      <4>2. Len(prompts) \in 1..Len(prompts)
        BY <1>1, <4>1 DEF TypeOK
      <4> QED
        BY <4>2 DEF Shown
    <3> QED
      BY <1>1, <1>2, <1>3, <1>14, <3>1 DEF ShownInv, Shown
  <2> QED
    BY <1>5, <1>6, <1>7, <2>1, <2>2, <2>3 DEF FlowInv
<1>15. CASE pc = "clarify" /\ pc' = "sleep"
            /\ sent' = sent /\ result' = result /\ prompts' = prompts
            /\ prompted' = prompted
  <2>1. FlightInv'
    BY <1>1, <1>2, <1>3, <1>15 DEF FlightInv
  <2>2. PaceInv' /\ LateInv' /\ ShownInv'
    BY <1>8, <1>9, <1>15
  <2> QED
    BY <1>5, <1>6, <1>7, <2>1, <2>2 DEF FlowInv
<1> QED
  BY <1>10, <1>11, <1>12, <1>13, <1>14, <1>15, ComputeEffect

LEMMA FlowStep == FlowInv /\ [FlowNext]_flowVars => FlowInv'
<1> SUFFICES ASSUME FlowInv, [FlowNext]_flowVars PROVE FlowInv'
  OBVIOUS
<1>1. IInv'
  BY Step, FlowStepsPoll DEF FlowInv
<1>2. CASE UNCHANGED flowVars
  <2>1. /\ pc' = pc /\ pending' = pending /\ count' = count /\ wait' = wait
        /\ response' = response /\ prompted' = prompted /\ pause' = pause
        /\ result' = result /\ sent' = sent /\ targets' = targets
        /\ prompts' = prompts /\ slowed' = slowed
        /\ verdict' = verdict /\ open' = open /\ code' = code /\ there' = there
        /\ codes' = codes /\ decidedAt' = decidedAt
        /\ reply' = reply /\ answers' = answers /\ announced' = announced
        /\ wasted' = wasted /\ elapsed' = elapsed /\ posts' = posts
    BY <1>2 DEF flowVars, vars, history, server, network, clocks
  <2>2. FlowTypeOK'
    BY <1>1, <2>1 DEF FlowInv, FlowTypeOK, IInv
  <2>3. FlightInv' /\ QuestionInv' /\ VerdictInv'
    BY <2>1 DEF FlowInv, FlightInv, QuestionInv, VerdictInv, Latest
  <2>4. PaceInv'
    BY <2>1 DEF FlowInv, PaceInv, Slow, Polls, Paces
  <2>5. LateInv'
    BY <2>1 DEF FlowInv, LateInv, Early, Polls
  <2>6. ShownInv'
    BY <2>1 DEF FlowInv, ShownInv, Shown, Shows, Interacts
  <2> QED
    BY <1>1, <2>2, <2>3, <2>4, <2>5, <2>6 DEF FlowInv
<1> QED
  BY <1>1, <1>2, ServerKeeps, AnswerKeeps, ReceiveKeeps, BreakKeeps, SleepKeeps,
     ReplyKeeps, ComputeKeeps DEF FlowNext, Client

(* Of every behaviour, with no fairness.                                   *)
THEOREM FlowInvariance == FlowSpec => []FlowInv
BY FlowInitInv, FlowStep, PTL DEF FlowSpec

(* The flow keeps its types, whatever server, gateway and user do.         *)
THEOREM FlowTypeCorrect == FlowSpec => []FlowTypeOK
<1>1. FlowInv => FlowTypeOK
  BY DEF FlowInv
<1> QED
  BY <1>1, FlowInvariance, PTL

(* A decision taken within retry_after seconds for each poll that was      *)
(* neither an answer nor wasted on a stray reply reaches the client.       *)
THEOREM DecisionsArrive == FlowSpec => []DecidedInTime
<1>1. FlowInv => DecidedInTime
  <2> SUFFICES ASSUME FlowInv, result.error = "max_polls_exceeded", verdict # None
               PROVE  decidedAt >= RetryAfter * (MaxPolls - posts - wasted)
    BY DEF DecidedInTime
  <2>1. pc = "done" /\ sent = MaxPolls
    BY DEF FlowInv, IInv, CountInv
  <2>2. Early(Polls)
    BY <2>1 DEF FlowInv, LateInv, FlightInv
  <2> QED
    BY <2>1, <2>2 DEF Early, Polls
<1> QED
  BY <1>1, FlowInvariance, PTL

(* Each code the server asked for has been handed to the user before the   *)
(* client sleeps on it.                                                    *)
THEOREM CodesShown == FlowSpec => []EveryCodeShown
<1>1. FlowInv => EveryCodeShown
  BY DEF FlowInv, ShownInv, Shown, FlightInv, EveryCodeShown
<1> QED
  BY <1>1, FlowInvariance, PTL
-----------------------------------------------------------------------------
(* Refinement.                                                             *)

(* Within the flow, the client is the polling loop, for which the server   *)
(* and the gateway are just Responses.                                     *)
THEOREM FlowImplementsPoller == FlowSpec => Spec
<1>1. FlowInit => Init
  BY DEF FlowInit
<1>2. FlowInv => FlowTypeOK
  BY DEF FlowInv
<1> QED
  BY <1>1, <1>2, FlowStepsPoll, FlowInvariance, PTL DEF FlowSpec, Spec

Answered == [i \in 1..Len(answers) |-> answers[i][1]]

(* The client ends once, with what the server decided or with Failed.      *)
LEMMA OutcomeLearnt ==
    ASSUME FlowInv, Client
    PROVE  \/ Outcome' = Outcome
           \/ Outcome = None /\ Outcome' = Failed
           \/ Outcome = None /\ verdict # None /\ Outcome' = verdict
<1>1. FlightInv /\ VerdictInv /\ AtHand /\ FlowTypeOK
  BY DEF FlowInv, IInv
<1>2. CASE UNCHANGED vars
  BY <1>2 DEF vars, Outcome
<1>3. CASE pc # "done" /\ pc' # "done"
  BY <1>3 DEF Outcome
<1>4. CASE pc # "done" /\ pc' = "done" /\ result'.error \notin {"none", "refused"}
  BY <1>4 DEF Outcome
<1>5. CASE pc = "handle" /\ pc' = "done" /\ response' = response
  <2>1. response # None
    BY <1>1, <1>5, FlowShape DEF AtHand
  <2>2. response.status \in Verdicts => verdict = response.status /\ verdict # None
    BY <1>1, <2>1, VerdictShape DEF VerdictInv
  <2>3. Outcome' = Failed \/ (Outcome' = response.status /\ response.status \in Verdicts)
    BY <1>5 DEF Outcome
  <2>4. Outcome = None
    BY <1>5 DEF Outcome
  <2> QED
    BY <2>2, <2>3, <2>4
<1>6. CASE ServeGet \/ ServePost \/ \E r \in Strays : Stray(r)
  BY <1>2, <1>6 DEF ServeGet, ServePost, Stray
<1>7. CASE Receive
  BY <1>3, <1>7 DEF Receive, GetReply, PostReply
<1>8. CASE Break
  BY <1>4, <1>8 DEF Break, IoFails, Finish, Failure
<1>9. CASE Sleep
  BY <1>3, <1>9 DEF Sleep, Slept
<1>10. CASE Reply
  BY <1>3, <1>4, <1>10 DEF Reply, Answer, Finish, Failure
<1>11. CASE Compute
  <2>1. response' = response /\ pc # "done"
    BY <1>11, ComputeEffect
  <2>2. pc = "poll" /\ pc' = "done" => result'.error = "max_polls_exceeded"
    BY <1>11 DEF Compute, Poll, GiveUp, SlowDown, Busy, Conclude, Invalid, Unparsable,
                 Prompt, Prompted, Clarify, NoAnswer, Idle, StillPending, SleepFor,
                 Finish, Failure
  <2>3. pc' = "done" => pc \in {"poll", "handle"}
    BY <1>11, ComputeEffect
  <2> QED
    BY <1>3, <1>4, <1>5, <2>1, <2>2, <2>3
<1> QED
  BY <1>6, <1>7, <1>8, <1>9, <1>10, <1>11 DEF Client

(* Each step of the flow is one of Deferred, or none that it can see.      *)
LEMMA PromiseStep == FlowInv /\ [FlowNext]_flowVars => [Promise!Next]_(Promise!vars)
<1> SUFFICES ASSUME FlowInv, [FlowNext]_flowVars
             PROVE  [Promise!Next]_(Promise!vars)
  OBVIOUS
<1> USE DEF Promise!Next, Promise!vars
<1>1. /\ FlowTypeOK /\ FlightInv /\ QuestionInv
      /\ answers \in Seq((Questions \cup {None}) \X Questions)
  BY DEF FlowInv, FlowTypeOK
<1>2. answers' = answers => Answered' = Answered
  BY DEF Answered
<1>3. ASSUME verdict' = verdict, open' = open, answers' = answers,
             \/ Outcome' = Outcome
             \/ Outcome = None /\ Outcome' = Failed
             \/ Outcome = None /\ verdict # None /\ Outcome' = verdict
      PROVE  [Promise!Next]_(Promise!vars)
  BY <1>2, <1>3 DEF Promise!Learn, Promise!GiveUp, Answered
<1>4. CASE UNCHANGED flowVars
  BY <1>3, <1>4 DEF flowVars, vars, server, network, Outcome
<1>5. CASE Server
  <2>1. Outcome' = Outcome /\ answers' = answers
    BY <1>5 DEF Server, Ask, RequireInteraction, Decide, Arrive, vars, network, Outcome
  <2>2. ASSUME NEW q \in Questions, Ask(q) PROVE Promise!Next
    <3>1. \A i \in 1..Len(Answered) : Answered[i] # q
      BY <1>1, <2>2 DEF Ask, Answered, QuestionInv
    <3>2. Promise!Ask(q)
      BY <1>2, <2>1, <2>2, <3>1 DEF Ask, Promise!Ask, Answered
    <3> QED
      BY <3>2
  <2>3. ASSUME NEW v \in Verdicts, Decide(v) PROVE Promise!Next
    BY <1>2, <2>1, <2>3 DEF Decide, Promise!Decide, Answered
  <2>4. CASE Arrive \/ \E c \in Codes : RequireInteraction(c)
    BY <1>3, <2>1, <2>4 DEF Arrive, RequireInteraction
  <2> QED
    BY <1>5, <2>2, <2>3, <2>4 DEF Server
<1>6. CASE ServePost /\ open # None
  <2> DEFINE a == <<response.question, open>>
  <2>1. /\ pc = "post" /\ reply = None /\ open' = None /\ verdict' = verdict
        /\ answers' = Append(answers, a) /\ Outcome' = Outcome
    BY <1>6 DEF ServePost, vars, Outcome
  <2>2. response.question = open
    BY <1>1, <1>6, <2>1, FlowShape DEF QuestionInv, FlightInv, Latest
  <2>3. a[1] = open /\ a \in (Questions \cup {None}) \X Questions
    BY <1>1, <1>6, <2>2 DEF FlowTypeOK
  <2> HIDE DEF a
  <2>4. Answered' = Append(Answered, open)
    <3>1. /\ Len(answers) \in Nat /\ Len(answers') = Len(answers) + 1
          /\ \A i \in 1..Len(answers) : answers'[i] = answers[i]
          /\ answers'[Len(answers) + 1] = a
      BY <1>1, <2>1, <2>3
    <3>2. Answered \in Seq(Questions \cup {None}) /\ Len(Answered) = Len(answers)
      BY <1>1, <3>1 DEF Answered
    <3> QED
      BY <2>3, <3>1, <3>2 DEF Answered
  <2>5. Promise!Answer
    BY <1>6, <2>1, <2>4 DEF Promise!Answer, Answered
  <2> QED
    BY <2>5
<1>7. CASE Client /\ ~ (ServePost /\ open # None)
  <2>1. verdict' = verdict /\ open' = open /\ answers' = answers
    BY <1>7 DEF Client, ServeGet, ServePost, Stray, Receive, Break, Sleep, Reply,
                Compute, server, network
  <2> QED
    BY <1>3, <1>7, <2>1, OutcomeLearnt
<1> QED
  BY <1>4, <1>5, <1>6, <1>7 DEF FlowNext, Client

(* Whatever is lost, late or answered by something in between, the client  *)
(* ends with what the server decided or with a failure of its own, and     *)
(* each question is answered once, with the answer given to it: the safety *)
(* of KeepsPromise.                                                        *)
THEOREM Implementation == FlowSpec => Promise!Spec
<1>1. FlowInit => Promise!Init
  <2> SUFFICES ASSUME FlowInit PROVE Promise!Init
    OBVIOUS
  <2>1. verdict = None /\ open \in Questions \cup {None} /\ answers = <<>>
    BY DEF FlowInit
  <2>2. Outcome = None
    <3>1. FlowInv
      BY FlowInitInv
    <3>2. response # None
      BY <3>1, PendingShape, FlowShape DEF FlowInit
    <3> QED
      BY <3>2 DEF FlowInit, Init, Outcome
  <2> QED
    BY <2>1, <2>2 DEF Promise!Init
<1> QED
  BY <1>1, PromiseStep, FlowInvariance, PTL DEF FlowSpec, Promise!Spec
=============================================================================
