---------------------------- MODULE AccessProofs ----------------------------
(***************************************************************************)
(* What verify_request accepts was valid at one moment, save for what was  *)
(* revoked and expires meanwhile, for any number of requests, threads,     *)
(* tokens and faults and any clocks; and no request of an agent that       *)
(* refreshes its tokens is refused for an expired token, or accepted for a *)
(* revoked one, for any margin that is larger than the signature's window  *)
(* and the time that a verification lasts.                                 *)
(***************************************************************************)
EXTENDS Access, TLAPS

USE DEF Types

(***************************************************************************)
(* The types.                                                              *)
(***************************************************************************)
LEMMA LeastInt == \A a, b \in Int : Least(a, b) \in Int /\ Least(a, b) <= a /\ Least(a, b) <= b
BY DEF Least

LEMMA LargestInt == \A a, b \in Int : Largest(a, b) \in Int /\ Largest(a, b) >= a
BY DEF Largest

LEMMA ReplyShape ==
    ASSUME NEW r \in Replies
    PROVE  r.want \in Types /\ r.ticket \in Jtis \cup {None}
BY DEF Replies, Ok, Late, Useless, Require

LEMMA ChallengeShape ==
    ASSUME NEW j \in Jtis
    PROVE  Challenge(j) \subseteq Replies
<1>1. Require("auth", j) \in Replies /\ Useless(j) \in Replies
  BY DEF Replies
<1>2. Require("agent", None) \in Replies /\ Require("person", None) \in Replies
  BY DEF Replies
<1>3. Require(IF Required = "agent" THEN "agent" ELSE "person", None) \in Replies
  BY <1>2
<1> QED
  BY <1>1, <1>3 DEF Challenge

LEMMA TypeInit == Init => TypeOK
<1> SUFFICES ASSUME Init
             PROVE  TypeOK
    OBVIOUS
<1>1. wrong \in [Threads -> SUBSET {"expired", "unknown", "revoked"}]
  BY DEF Init
<1>2. /\ left \in [Jtis -> Int]
      /\ flaws \in [Jtis -> SUBSET {"revoked", "dropped"}]
      /\ cached \in [Jtis -> 0..Staleness]
      /\ faults \in 0..MaxFaults
      /\ busy \in [Threads -> 0..Patience]
  BY TimesAssumption DEF Init
<1>3. /\ held \in [Types -> Jtis \cup {None}]
      /\ net \in [Slots -> Requests \cup {None}]
      /\ pc \in [Threads -> {"idle", "signature", "token", "revocation", "decide"}]
      /\ job \in [Threads -> Jtis \cup {None}]
      /\ from \in [Threads -> Slots \cup {None}]
      /\ \A w \in Threads : pc[w] = "idle"
  BY DEF Init
<1> QED
  BY <1>1, <1>2, <1>3 DEF Init, TypeOK

LEMMA TypeStep == TypeOK /\ [Next]_vars => TypeOK'
<1> SUFFICES ASSUME TypeOK, [Next]_vars
             PROVE  TypeOK'
    OBVIOUS
<1> USE DEF TypeOK
<1>1. ASSUME NEW t \in Types, Obtain(t)
      PROVE  TypeOK'
  <2>1. PICK j \in Unused, life \in Lifetimes :
              \E l \in {life} \cup {left[i] : i \in Inputs(t)} :
                 /\ left' = [left EXCEPT ![j] = l]
                 /\ flaws' = [flaws EXCEPT ![j] = {}]
                 /\ cached' = [cached EXCEPT ![j] = 0]
                 /\ held' = [held EXCEPT ![t] = j]
    BY <1>1 DEF Obtain
  <2>2. j \in Jtis
    BY DEF Unused
  <2>3. \A i \in Inputs(t) : i \in Jtis
    BY <1>1 DEF Obtain, Inputs
  <2>4. \A l \in {life} \cup {left[i] : i \in Inputs(t)} : l \in Int
    BY <2>3, TimesAssumption
  <2>5. cached' \in [Jtis -> 0..Staleness]
    BY <2>1, <2>2, TimesAssumption
  <2> QED
    BY <1>1, <2>1, <2>2, <2>4, <2>5 DEF Obtain, given, threads
<1>2. ASSUME NEW t \in Types, Discard(t)
      PROVE  TypeOK'
  BY <1>2 DEF Discard, given, tokens, threads
<1>3. ASSUME NEW t \in Types, Sign(t)
      PROVE  TypeOK'
  <2>1. PICK s \in Slots, part \in 0..(Second - 1) :
              /\ net' = [net EXCEPT ![s] =
                           [token |-> held[t], age |-> Least(part - skew, Window + 1)]]
              /\ asked' = s
    BY <1>3 DEF Sign
  <2>2. held[t] \in Jtis
    BY <1>3 DEF Sign, Credential, Available, Good
  <2>3. Least(part - skew, Window + 1) \in Int
    BY TimesAssumption, LeastInt
  <2> QED
    BY <1>3, <2>1, <2>2, <2>3 DEF Sign, Requests, given, tokens, threads
<1>4. CASE Handle
  <2>1. reply.want \in Types /\ reply.ticket \in Jtis \cup {None}
    BY <1>4, ReplyShape DEF Handle
  <2>2. want' \in Types /\ ticket' \in BOOLEAN
    BY <1>4, <2>1 DEF Handle
  <2> QED
    BY <1>4, <2>2 DEF Handle, given, tokens, threads
<1>5. CASE GiveUp
  BY <1>5 DEF GiveUp, given, tokens, threads
<1>6. ASSUME NEW w \in Threads, NEW s \in Slots, Begin(w, s)
      PROVE  TypeOK'
  <2>1. net[s].token \in Jtis /\ net[s].age \in Int
    BY <1>6 DEF Begin, Requests
  <2>2. WrongWith(net[s].token) \in SUBSET {"expired", "unknown", "revoked"}
    BY DEF WrongWith
  <2>3. net' \in [Slots -> Requests \cup {None}]
    BY <1>6 DEF Begin
  <2>4. wrong' \in [Threads -> SUBSET {"expired", "unknown", "revoked"}]
    BY <1>6, <2>2 DEF Begin
  <2>5. /\ pc' = [pc EXCEPT ![w] = "signature"]
        /\ job' = [job EXCEPT ![w] = net[s].token]
        /\ from' = [from EXCEPT ![w] = s]
        /\ busy' = [busy EXCEPT ![w] = 0]
        /\ UNCHANGED <<calm, given, tokens, agent>>
    BY <1>6 DEF Begin
  <2>6. net[s].token # None
    BY <2>1, NoneAssumption
  <2>7. busy' \in [Threads -> 0..Patience]
    BY <2>5, TimesAssumption
  <2> QED
    BY <2>1, <2>3, <2>4, <2>5, <2>6, <2>7 DEF given, tokens, agent
<1>7. ASSUME NEW s \in Slots, RefuseLate(s)
      PROVE  TypeOK'
  BY <1>7 DEF RefuseLate, Respond, Replies, given, tokens, threads
<1>8. ASSUME NEW w \in Threads, CheckSignature(w) \/ CheckToken(w) \/ CheckRevocation(w)
      PROVE  TypeOK'
  BY <1>8 DEF CheckSignature, CheckToken, CheckRevocation, given, tokens, agent
<1>9. ASSUME NEW w \in Threads, Refuse(w) \/ Decide(w)
      PROVE  TypeOK'
  <2>1. job[w] \in Jtis
    BY <1>9 DEF Refuse, Decide
  <2>2. reply' \in Replies \cup {None}
    BY <1>9, <2>1, ChallengeShape DEF Refuse, Decide, Respond, Replies
  <2> QED
    <3>1. wrong' \in [Threads -> SUBSET {"expired", "unknown", "revoked"}]
      BY <1>9 DEF Refuse, Decide, Stop
    <3>2. /\ pc' = [pc EXCEPT ![w] = "idle"]
          /\ job' = [job EXCEPT ![w] = None]
          /\ from' = [from EXCEPT ![w] = None]
          /\ busy' = [busy EXCEPT ![w] = 0]
          /\ UNCHANGED <<calm, given, tokens, held, want, ticket, asked, net>>
      BY <1>9 DEF Refuse, Decide, Stop
    <3>3. busy' \in [Threads -> 0..Patience]
      BY <3>2, TimesAssumption
    <3> QED
      BY <2>2, <3>1, <3>2, <3>3 DEF given, tokens
<1>10. ASSUME NEW s \in Slots, Lose(s)
       PROVE  TypeOK'
  BY <1>10 DEF Lose, given, tokens, agent, threads
<1>11. ASSUME NEW j \in Jtis, NEW f \in {"revoked", "dropped"}, Fault(j, f)
       PROVE  TypeOK'
  BY <1>11, TimesAssumption DEF Fault, given, agent, threads
<1>12. CASE Tick
  <2>1. left' \in [Jtis -> Int]
    <3>1. ASSUME NEW j \in Jtis
          PROVE  Largest(left[j] - 1, - Longest) \in Int
      <4> left[j] - 1 \in Int /\ - Longest \in Int
        BY TimesAssumption
      <4> QED
        BY LargestInt
    <3> QED
      BY <1>12, <3>1 DEF Tick
  <2>2. net' \in [Slots -> Requests \cup {None}]
    <3>1. ASSUME NEW s \in Slots, net[s] # None
          PROVE  [net[s] EXCEPT !.age = Least(@ + 1, Window + 1)] \in Requests
      <4>1. net[s] \in Requests
        BY <3>1
      <4>2. net[s].age + 1 \in Int /\ Window + 1 \in Int
        BY <4>1, TimesAssumption DEF Requests
      <4>3. Least(net[s].age + 1, Window + 1) \in Int
        BY <4>2, LeastInt
      <4> QED
        BY <4>1, <4>3 DEF Requests
    <3> QED
      BY <1>12, <3>1 DEF Tick
  <2>3. busy' \in [Threads -> 0..Patience]
    BY <1>12, TimesAssumption DEF Tick
  <2>4. cached' \in [Jtis -> 0..Staleness]
    BY <1>12, TimesAssumption DEF Tick, Largest
  <2> QED
    BY <1>12, <2>1, <2>2, <2>3, <2>4 DEF Tick, given, agent
<1>13. CASE Settle
  BY <1>13 DEF Settle, given, tokens, agent, threads
<1>14. CASE UNCHANGED vars
  BY <1>14 DEF vars, given, tokens, agent, threads
<1> QED
  BY <1>1, <1>2, <1>3, <1>4, <1>5, <1>6, <1>7, <1>8, <1>9, <1>10, <1>11, <1>12, <1>13, <1>14
  DEF Next, Agent, Resource, Environment

(* The types of the agent's, the network's and the resource's variables.   *)
THEOREM TypeCorrect == Spec => []TypeOK
BY TypeInit, TypeStep, PTL DEF Spec

(***************************************************************************)
(* ValidAtOnce.  What was wrong with a token when its verification began   *)
(* is wrong as long as it lasts: it stays expired, a key set that had lost *)
(* its key does not find it again, and a revocation stays recorded until   *)
(* the token has expired.  Hence the checks before the revocation leave    *)
(* nothing but a revocation to be wrong, and the last one leaves that only *)
(* where its record has lapsed.                                            *)
(***************************************************************************)
StaysWrong(w) ==
    /\ "expired" \in wrong[w] => ~ Alive(job[w])
    /\ "unknown" \in wrong[w] => ~ Keyed(job[w])
    /\ "revoked" \in wrong[w] => Recorded(job[w])

ChecksDone(w) ==
    /\ pc[w] \in {"revocation", "decide"} => wrong[w] \subseteq {"revoked"}
    /\ pc[w] = "decide" /\ "revoked" \in wrong[w] => Lapsed(job[w])

WrongInv == \A w \in Threads : pc[w] # "idle" => StaysWrong(w) /\ ChecksDone(w)

LEMMA JobInUse ==
    ASSUME TypeOK, NEW w \in Threads, pc[w] # "idle"
    PROVE  job[w] \in InUse /\ job[w] \in Jtis
BY DEF TypeOK, InUse

(* A thread that does not move, while nothing is put right with its token. *)
LEMMA KeepsWrong ==
    ASSUME TypeOK, WrongInv, NEW w \in Threads, pc[w] # "idle",
           pc'[w] = pc[w], job'[w] = job[w], wrong'[w] = wrong[w],
           Alive(job[w])' => Alive(job[w]),
           Keyed(job[w])' => Keyed(job[w]),
           Recorded(job[w]) => Recorded(job[w])',
           Lapsed(job[w]) => Lapsed(job[w])'
    PROVE  StaysWrong(w)' /\ ChecksDone(w)'
BY DEF WrongInv, StaysWrong, ChecksDone, Alive, Keyed, Published, Recorded, Lapsed

LEMMA WrongStep == TypeOK /\ WrongInv /\ [Next]_vars => WrongInv'
<1> SUFFICES ASSUME TypeOK, WrongInv, [Next]_vars,
                    NEW x \in Threads, pc'[x] # "idle"
             PROVE  StaysWrong(x)' /\ ChecksDone(x)'
    BY DEF WrongInv
<1> USE DEF Alive, Keyed, Published, Recorded, Lapsed
<1>1. ASSUME pc'[x] = pc[x], job'[x] = job[x], wrong'[x] = wrong[x], UNCHANGED tokens
      PROVE  StaysWrong(x)' /\ ChecksDone(x)'
  BY <1>1 DEF WrongInv, StaysWrong, ChecksDone, tokens
<1>2. ASSUME NEW t \in Types, Obtain(t)
      PROVE  StaysWrong(x)' /\ ChecksDone(x)'
  <2>1. PICK j, l : /\ j \in Unused
                     /\ left' = [left EXCEPT ![j] = l]
                     /\ flaws' = [flaws EXCEPT ![j] = {}]
                     /\ cached' = [cached EXCEPT ![j] = 0]
    BY <1>2 DEF Obtain
  <2>2. pc'[x] = pc[x] /\ job'[x] = job[x] /\ wrong'[x] = wrong[x]
    BY <1>2 DEF Obtain, threads
  <2>3. job[x] \in Jtis /\ job[x] # j
    BY <2>1, <2>2, JobInUse DEF Unused
  <2>4. /\ left'[job[x]] = left[job[x]]
        /\ flaws'[job[x]] = flaws[job[x]]
        /\ cached'[job[x]] = cached[job[x]]
    BY <2>1, <2>3 DEF TypeOK
  <2> QED
    BY <2>2, <2>4, KeepsWrong
<1>3. ASSUME NEW w \in Threads, NEW s \in Slots, Begin(w, s)
      PROVE  StaysWrong(x)' /\ ChecksDone(x)'
  <2>1. CASE x = w
    <3>1. /\ pc'[x] = "signature" /\ job'[x] = net[s].token
          /\ wrong'[x] = WrongWith(net[s].token)
          /\ UNCHANGED tokens
      BY <1>3, <2>1 DEF Begin, TypeOK
    <3> QED
      BY <3>1 DEF StaysWrong, ChecksDone, WrongWith, tokens
  <2>2. CASE x # w
    BY <1>1, <1>3, <2>2 DEF Begin, TypeOK
  <2> QED
    BY <2>1, <2>2
<1>4. ASSUME NEW w \in Threads, CheckSignature(w) \/ CheckToken(w) \/ CheckRevocation(w)
      PROVE  StaysWrong(x)' /\ ChecksDone(x)'
  <2>1. UNCHANGED <<tokens, job, wrong>>
    BY <1>4 DEF CheckSignature, CheckToken, CheckRevocation
  <2>2. CASE x = w
    <3>1. StaysWrong(x) /\ ChecksDone(x)
      BY <1>4, <2>2 DEF CheckSignature, CheckToken, CheckRevocation, WrongInv
    <3>2. StaysWrong(x)'
      BY <2>1, <3>1 DEF StaysWrong, tokens
    <3>3. wrong[x] \in SUBSET {"expired", "unknown", "revoked"}
      BY DEF TypeOK
    <3>4. ChecksDone(x)'
      <4>1. CASE CheckSignature(w)
        BY <2>2, <4>1 DEF CheckSignature, ChecksDone, TypeOK
      <4>2. CASE CheckToken(w)
        BY <2>1, <2>2, <3>1, <3>3, <4>2
        DEF CheckToken, Verifies, StaysWrong, ChecksDone, TypeOK
      <4>3. CASE CheckRevocation(w)
        BY <2>1, <2>2, <3>1, <4>3
        DEF CheckRevocation, Revoked, StaysWrong, ChecksDone, tokens, TypeOK
      <4> QED
        BY <1>4, <4>1, <4>2, <4>3
    <3> QED
      BY <3>2, <3>4
  <2>3. CASE x # w
    BY <1>1, <1>4, <2>1, <2>3 DEF CheckSignature, CheckToken, CheckRevocation, TypeOK
  <2> QED
    BY <2>2, <2>3
<1>5. ASSUME NEW w \in Threads, Refuse(w) \/ Decide(w)
      PROVE  StaysWrong(x)' /\ ChecksDone(x)'
  <2>1. Stop(w) /\ UNCHANGED tokens
    BY <1>5 DEF Refuse, Decide
  <2>2. x # w
    BY <2>1 DEF Stop, TypeOK
  <2> QED
    BY <1>1, <2>1, <2>2 DEF Stop, TypeOK
<1>6. ASSUME NEW j \in Jtis, NEW f \in {"revoked", "dropped"}, Fault(j, f)
      PROVE  StaysWrong(x)' /\ ChecksDone(x)'
  <2>1. pc'[x] = pc[x] /\ job'[x] = job[x] /\ wrong'[x] = wrong[x]
    BY <1>6 DEF Fault, threads
  <2>2. job[x] \in Jtis
    BY <2>1, JobInUse
  <2>3. left' = left /\ flaws[job[x]] \subseteq flaws'[job[x]]
    BY <1>6, <2>2 DEF Fault, TypeOK
  <2>4. Keyed(job[x])' => Keyed(job[x])
    <3>1. CASE "dropped" \in flaws'[job[x]] /\ "dropped" \notin flaws[job[x]]
      BY <3>1
    <3>2. CASE "dropped" \in flaws[job[x]]
      BY <1>6, <2>1, <2>2, <3>2 DEF Fault, TypeOK
    <3> QED
      BY <2>1, <2>3, <3>1, <3>2
  <2> QED
    BY <2>1, <2>3, <2>4, KeepsWrong
<1>7. CASE Tick
  <2>1. pc'[x] = pc[x] /\ job'[x] = job[x] /\ wrong'[x] = wrong[x] /\ flaws' = flaws
    BY <1>7 DEF Tick
  <2>2. job[x] \in InUse /\ job[x] \in Jtis
    BY <2>1, JobInUse
  <2>3. left[job[x]] \in Int /\ cached[job[x]] \in Nat
    BY <2>2, TimesAssumption DEF TypeOK
  <2>4. /\ left'[job[x]] = Largest(left[job[x]] - 1, - Longest)
        /\ cached'[job[x]] = Largest(cached[job[x]] - 1, 0)
    BY <1>7, <2>2 DEF Tick
  <2>5. Alive(job[x])' => Alive(job[x])
    BY <2>1, <2>3, <2>4, TimesAssumption DEF Largest
  <2>6. Lapsed(job[x]) => Lapsed(job[x])'
    BY <2>1, <2>3, <2>4, TimesAssumption DEF Largest
  <2>7. Keyed(job[x])' => Keyed(job[x])
    BY <2>1, <2>3, <2>4 DEF Largest
  <2> QED
    BY <2>1, <2>5, <2>6, <2>7, KeepsWrong
<1>8. ASSUME UNCHANGED <<tokens, threads>>
      PROVE  StaysWrong(x)' /\ ChecksDone(x)'
  BY <1>1, <1>8 DEF threads
<1> QED
  BY <1>2, <1>3, <1>4, <1>5, <1>6, <1>7, <1>8
  DEF Next, Agent, Resource, Environment, Discard, Sign, Handle, GiveUp, RefuseLate,
      Lose, Settle, vars

LEMMA WrongAlways == Spec => []WrongInv
<1>1. Init => WrongInv
  BY DEF Init, WrongInv
<1> QED
  BY <1>1, WrongStep, TypeCorrect, PTL DEF Spec

LEMMA AcceptedWrong == TypeOK /\ WrongInv => ValidAtOnce
<1> SUFFICES ASSUME TypeOK, WrongInv, NEW w \in Threads, pc[w] = "decide"
             PROVE  wrong[w] = {} \/ (wrong[w] = {"revoked"} /\ Lapsed(job[w]))
    BY DEF ValidAtOnce
<1>1. wrong[w] \subseteq {"revoked"} /\ ("revoked" \in wrong[w] => Lapsed(job[w]))
  BY DEF WrongInv, ChecksDone
<1>2. CASE "revoked" \in wrong[w]
  BY <1>1, <1>2
<1>3. CASE "revoked" \notin wrong[w]
  BY <1>1, <1>3
<1> QED
  BY <1>2, <1>3

(* No request is accepted whose token was never valid while it was         *)
(* verified, although verify_request is not atomic; except for one that    *)
(* was revoked, and whose revocation lapsed before it was looked up.       *)
THEOREM AcceptedWereValid == Spec => []ValidAtOnce
BY WrongAlways, AcceptedWrong, TypeCorrect, PTL

(***************************************************************************)
(* NoneExpiresOnTheWay.  A request is signed with a token that has at      *)
(* least Margin left by the agent's clock.  That clock stamps created too, *)
(* so skew adds to the one what it takes from the other: what is left of   *)
(* the token and the age of the request sum to Margin or more, by the      *)
(* resource's clock.  Time keeps the sum, until the request is too old to  *)
(* be accepted.                                                            *)
(***************************************************************************)
FlightInv ==
    \A s \in Slots :
       habit /\ net[s] # None /\ net[s].age <= Window =>
          left[net[s].token] + net[s].age >= Margin

JobInv ==
    \A w \in Threads :
       habit /\ pc[w] # "idle" => left[job[w]] + Window + busy[w] >= Margin

LEMMA FlightInUse ==
    ASSUME TypeOK, NEW s \in Slots, net[s] # None
    PROVE  net[s].token \in InUse /\ net[s].token \in Jtis /\ net[s].age \in Int
BY DEF TypeOK, InUse, Requests

LEMMA HabitKept == [Next]_vars => UNCHANGED given
BY DEF Next, Agent, Resource, Environment, Obtain, Discard, Sign, Handle, GiveUp, Begin,
       RefuseLate, CheckSignature, CheckToken, CheckRevocation, Refuse, Decide, Lose,
       Fault, Tick, Settle, vars

LEMMA FlightStep == TypeOK /\ FlightInv /\ [Next]_vars => FlightInv'
<1> SUFFICES ASSUME TypeOK, FlightInv, [Next]_vars, habit,
                    NEW x \in Slots, net'[x] # None, net'[x].age <= Window
             PROVE  left'[net'[x].token] + net'[x].age >= Margin
    BY HabitKept DEF FlightInv, given
<1>1. ASSUME net'[x] = net[x], left' = left
      PROVE  left'[net'[x].token] + net'[x].age >= Margin
  BY <1>1 DEF FlightInv
<1>2. ASSUME NEW t \in Types, Obtain(t)
      PROVE  left'[net'[x].token] + net'[x].age >= Margin
  <2>1. PICK j, l : j \in Unused /\ left' = [left EXCEPT ![j] = l]
    BY <1>2 DEF Obtain
  <2>2. net' = net
    BY <1>2 DEF Obtain
  <2>3. net[x].token \in Jtis /\ net[x].token # j
    BY <2>1, <2>2, FlightInUse DEF Unused
  <2> QED
    BY <2>1, <2>2, <2>3 DEF FlightInv, TypeOK
<1>3. ASSUME NEW t \in Types, Sign(t)
      PROVE  left'[net'[x].token] + net'[x].age >= Margin
  <2>1. PICK s \in Slots, part \in 0..(Second - 1) :
              net' = [net EXCEPT ![s] =
                        [token |-> held[t], age |-> Least(part - skew, Window + 1)]]
    BY <1>3 DEF Sign
  <2>2. left' = left
    BY <1>3 DEF Sign, tokens
  <2>3. CASE x # s
    BY <1>1, <2>1, <2>2, <2>3 DEF TypeOK
  <2>4. CASE x = s
    <3>1. net'[x].token = held[t] /\ net'[x].age = Least(part - skew, Window + 1)
      BY <2>1, <2>4 DEF TypeOK
    <3>2. held[t] \in Jtis /\ left[held[t]] \in Int /\ skew \in Int
      BY <1>3, TimesAssumption DEF Sign, Credential, Available, Good, TypeOK
    <3>3. left[held[t]] - skew >= Margin
      BY <1>3, <3>2, TimesAssumption DEF Sign, Credential, Available, Good, NeedsRefresh
    <3> QED
      BY <2>2, <3>1, <3>2, <3>3, TimesAssumption DEF Least
  <2> QED
    BY <2>3, <2>4
<1>4. CASE Tick
  <2>1. net[x] # None
    BY <1>4 DEF Tick
  <2>2. /\ net'[x].token = net[x].token
        /\ net'[x].age = Least(net[x].age + 1, Window + 1)
    <3>1. net'[x] = [net[x] EXCEPT !.age = Least(@ + 1, Window + 1)]
      BY <1>4, <2>1 DEF Tick
    <3>2. net[x] \in Requests
      BY <2>1 DEF TypeOK
    <3> QED
      BY <3>1, <3>2 DEF Requests
  <2>3. left'[net[x].token] = Largest(left[net[x].token] - 1, - Longest)
    BY <1>4, <2>1, FlightInUse DEF Tick
  <2>4. left[net[x].token] \in Int /\ net[x].age \in Int
    BY <2>1, FlightInUse DEF TypeOK
  <2>5. net[x].age <= Window /\ net'[x].age = net[x].age + 1
    BY <2>2, <2>4, TimesAssumption DEF Least
  <2>6. left[net[x].token] + net[x].age >= Margin
    BY <2>1, <2>5 DEF FlightInv
  <2> QED
    BY <2>2, <2>3, <2>4, <2>5, <2>6, TimesAssumption DEF Largest
<1>5. ASSUME NEW s \in Slots, Lose(s) \/ \E w \in Threads : Begin(w, s)
      PROVE  left'[net'[x].token] + net'[x].age >= Margin
  <2>1. left' = left
    BY <1>5 DEF Lose, Begin, tokens
  <2>2. net'[x] = net[x]
    BY <1>5 DEF Lose, Begin, TypeOK
  <2> QED
    BY <1>1, <2>1, <2>2
<1>6. CASE UNCHANGED <<left, net>>
  BY <1>1, <1>6
<1> QED
  BY <1>2, <1>3, <1>4, <1>5, <1>6
  DEF Next, Agent, Resource, Environment, Discard, Handle, GiveUp, RefuseLate,
      CheckSignature, CheckToken, CheckRevocation, Refuse, Decide, Fault, Settle,
      tokens, vars

LEMMA JobStep == TypeOK /\ FlightInv /\ JobInv /\ [Next]_vars => JobInv'
<1> SUFFICES ASSUME TypeOK, FlightInv, JobInv, [Next]_vars, habit,
                    NEW x \in Threads, pc'[x] # "idle"
             PROVE  left'[job'[x]] + Window + busy'[x] >= Margin
    BY HabitKept DEF JobInv, given
<1>1. ASSUME pc[x] # "idle", job'[x] = job[x], busy'[x] = busy[x], left' = left
      PROVE  left'[job'[x]] + Window + busy'[x] >= Margin
  BY <1>1 DEF JobInv
<1>2. ASSUME NEW t \in Types, Obtain(t)
      PROVE  left'[job'[x]] + Window + busy'[x] >= Margin
  <2>1. PICK j, l : j \in Unused /\ left' = [left EXCEPT ![j] = l]
    BY <1>2 DEF Obtain
  <2>2. UNCHANGED threads
    BY <1>2 DEF Obtain
  <2>3. job[x] \in Jtis /\ job[x] # j
    BY <2>1, <2>2, JobInUse DEF Unused, threads
  <2> QED
    BY <2>1, <2>2, <2>3 DEF JobInv, TypeOK, threads
<1>3. ASSUME NEW w \in Threads, NEW s \in Slots, Begin(w, s)
      PROVE  left'[job'[x]] + Window + busy'[x] >= Margin
  <2>1. left' = left
    BY <1>3 DEF Begin, tokens
  <2>2. CASE x = w
    <3>1. job'[x] = net[s].token /\ busy'[x] = 0
      BY <1>3, <2>2 DEF Begin, TypeOK
    <3>2. net[s].age <= Window /\ net[s] # None
      BY <1>3 DEF Begin, Fresh
    <3>3. left[net[s].token] + net[s].age >= Margin
      BY <3>2 DEF FlightInv
    <3>4. left[net[s].token] \in Int /\ net[s].age \in Int
      BY <3>2, FlightInUse DEF TypeOK
    <3> QED
      BY <2>1, <3>1, <3>2, <3>3, <3>4, TimesAssumption
  <2>3. CASE x # w
    BY <1>1, <1>3, <2>1, <2>3 DEF Begin, TypeOK
  <2> QED
    BY <2>2, <2>3
<1>4. ASSUME NEW w \in Threads, CheckSignature(w) \/ CheckToken(w) \/ CheckRevocation(w)
      PROVE  left'[job'[x]] + Window + busy'[x] >= Margin
  BY <1>1, <1>4 DEF CheckSignature, CheckToken, CheckRevocation, TypeOK, tokens
<1>5. ASSUME NEW w \in Threads, Refuse(w) \/ Decide(w)
      PROVE  left'[job'[x]] + Window + busy'[x] >= Margin
  BY <1>1, <1>5 DEF Refuse, Decide, Stop, TypeOK, tokens
<1>6. CASE Tick
  <2>1. pc[x] # "idle" /\ job'[x] = job[x] /\ busy'[x] = busy[x] + 1
    BY <1>6 DEF Tick
  <2>2. left'[job[x]] = Largest(left[job[x]] - 1, - Longest)
    BY <1>6, <2>1, JobInUse DEF Tick
  <2>3. left[job[x]] \in Int /\ busy[x] \in Int
    BY <2>1, JobInUse, TimesAssumption DEF TypeOK
  <2> QED
    BY <2>1, <2>2, <2>3, TimesAssumption DEF JobInv, Largest
<1>7. CASE UNCHANGED <<left, threads>>
  BY <1>1, <1>7 DEF threads
<1> QED
  BY <1>2, <1>3, <1>4, <1>5, <1>6, <1>7
  DEF Next, Agent, Resource, Environment, Discard, Sign, Handle, GiveUp, RefuseLate,
      Lose, Fault, Settle, tokens, vars

(* The agent that refreshes its tokens is not refused for an expired one,  *)
(* whatever the clocks say, if the margin exceeds the signature's window   *)
(* and a verification's duration: 300 s are more than 60 s and 10 s.       *)
THEOREM MarginSuffices ==
    ASSUME Margin > Window + Patience
    PROVE  Spec => []NoneExpiresOnTheWay
<1>1. Init => FlightInv /\ JobInv
  BY DEF Init, FlightInv, JobInv
<1>2. TypeOK /\ FlightInv /\ JobInv => NoneExpiresOnTheWay
  <2> SUFFICES ASSUME TypeOK, FlightInv, JobInv, habit
               PROVE  /\ \A s \in Slots :
                            net[s] # None /\ Fresh(net[s]) => Alive(net[s].token)
                      /\ \A w \in Threads : pc[w] # "idle" => Alive(job[w])
      BY DEF NoneExpiresOnTheWay
  <2>1. ASSUME NEW s \in Slots, net[s] # None, Fresh(net[s])
        PROVE  Alive(net[s].token)
    <3>1. left[net[s].token] \in Int /\ net[s].age \in Int
      BY <2>1, FlightInUse DEF TypeOK
    <3> QED
      BY <2>1, <3>1, TimesAssumption DEF FlightInv, Fresh, Alive
  <2>2. ASSUME NEW w \in Threads, pc[w] # "idle"
        PROVE  Alive(job[w])
    <3>1. left[job[w]] \in Int /\ busy[w] \in 0..Patience
      BY <2>2, JobInUse DEF TypeOK
    <3> QED
      BY <2>2, <3>1, TimesAssumption DEF JobInv, Alive
  <2> QED
    BY <2>1, <2>2
<1> QED
  BY <1>1, <1>2, FlightStep, JobStep, TypeCorrect, PTL DEF Spec

(* Hence the one exception to AcceptedWereValid is none for the agent that *)
(* refreshes its tokens: what is accepted from it had not been revoked     *)
(* when the verification began.                                            *)
THEOREM NoneRevokedIsAccepted ==
    ASSUME Margin > Window + Patience
    PROVE  Spec => [](habit => \A w \in Threads : pc[w] = "decide" => wrong[w] = {})
<1>1. TypeOK /\ ValidAtOnce /\ NoneExpiresOnTheWay =>
         (habit => \A w \in Threads : pc[w] = "decide" => wrong[w] = {})
  <2> SUFFICES ASSUME TypeOK, ValidAtOnce, NoneExpiresOnTheWay, habit,
                      NEW w \in Threads, pc[w] = "decide"
               PROVE  wrong[w] = {}
      OBVIOUS
  <2>1. left[job[w]] > 0 /\ left[job[w]] \in Int
    BY JobInUse DEF NoneExpiresOnTheWay, Alive, TypeOK
  <2> QED
    BY <2>1 DEF ValidAtOnce, Lapsed
<1> QED
  BY <1>1, AcceptedWereValid, MarginSuffices, TypeCorrect, PTL
=============================================================================
