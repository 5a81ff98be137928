------------------------ MODULE RevocationNetProofs ------------------------
(***************************************************************************)
(* What a revocation on its way through any tree of servers guarantees,    *)
(* however many requests and replies are lost, late or answered by         *)
(* something in between, and however often the issuer's host repeats it.   *)
(***************************************************************************)
EXTENDS RevocationNet, TLAPS

NetTypeOK ==
    /\ manner \in [Servers -> Manners]
    /\ recorded \subseteq Servers
    /\ remembered \in [Servers -> Outcomes]
    /\ inbox \subseteq Hops
    /\ job \in [Hops -> {"none", "running", "sending", "ended"}]
    /\ left \in [Hops -> Seq(Servers)]
    /\ good \in [Hops -> SUBSET Servers]
    /\ bad \in [Hops -> SUBSET Servers]
    /\ answer \in [Hops -> Replies]
    /\ link \in [Hops -> {"idle", "posted", "pending", "asked", "over"}]
    /\ reply \in [Hops -> Replies \cup {None}]
    /\ polls \in [Hops -> Nat]
    /\ outcome \in [Hops -> Outcomes]
    /\ faulty \subseteq 1..Rounds

Parents(s) == {p \in Servers : s \in Range(Children[p])}

(* The servers below s, s included: the smallest set with s that is closed *)
(* under Children.                                                         *)
ChildClosed(T) == \A x \in T : Range(Children[x]) \subseteq T
Under(s) == {u \in Servers :
               \A T \in SUBSET Servers : s \in T /\ ChildClosed(T) => u \in T}

(* What has the record has it from above, down from Top.                   *)
SpreadInv ==
    /\ manner[Top] = "accepts"
    /\ \A s \in recorded : manner[s] = "accepts" /\ s \in Under(Top)
    /\ \A s \in Servers : remembered[s] = "ok" => s \in recorded
    /\ \A s \in (recorded \cup {e[2] : e \in inbox}) \ {Top} :
         Parents(s) \cap recorded # {}

(* Each hop is handled once, and never before its sender began.            *)
JobInv ==
    \A e \in Hops :
        /\ link[e] = "idle" => job[e] = "none" /\ e \notin inbox
        /\ e \in inbox => job[e] = "none" /\ manner[e[2]] # "no_endpoint"
        /\ job[e] \in {"running", "sending"} =>
             /\ e[2] \in recorded
             /\ Range(left[e]) \subseteq Range(Children[e[2]])
        /\ job[e] = "sending" => left[e] # <<>>
        /\ job[e] = "ended" =>
             \/ answer[e] \in {"ok", "report"} /\ e[2] \in recorded
             \/ answer[e] = "forbidden" /\ manner[e[2]] = "refuses"
        /\ good[e] \subseteq recorded

(* A reply that says something of the cascade is its answer; a send that   *)
(* ended without one failed or had no server that accepts.                 *)
LinkInv ==
    \A e \in Hops :
        /\ reply[e] \in {"ok", "report", "forbidden"} =>
             job[e] = "ended" /\ answer[e] = reply[e]
        /\ reply[e] = "busy" => link[e] = "asked"
        /\ reply[e] # None => link[e] \in {"posted", "asked"}
        /\ outcome[e] \in {"ok", "downstream"} =>
             /\ job[e] = "ended"
             /\ answer[e] = IF outcome[e] = "ok" THEN "ok" ELSE "report"
        /\ link[e] = "over" =>
             /\ outcome[e] # "unsent"
             /\ \/ e[1] \in faulty
                \/ outcome[e] \in {"ok", "downstream"}
                \/ manner[e[2]] # "accepts"

(* The server s and all that got the revocation below it have passed it    *)
(* on.                                                                     *)
PassedOn(s) == \A t \in Range(Children[s]) :
                   manner[t] = "accepts" => t \in recorded
Complete(s) == s \in recorded /\ \A u \in Under(s) \cap recorded : PassedOn(u)

(* A cascade that has ended without a fault is complete, and so is one     *)
(* that ends with the empty answer, in whichever round.                    *)
CascadeInv ==
    /\ \A e \in Hops :
        /\ job[e] \in {"running", "sending"} =>
             \A t \in Range(Children[e[2]]) \ Range(left[e]) :
                /\ t \in Report(e) \/ Complete(t)
                /\ e[1] \in faulty \/ manner[t] # "accepts" \/ Complete(t)
        /\ job[e] = "ended" /\ answer[e] # "forbidden" =>
             e[1] \in faulty \/ Complete(e[2])
        /\ answer[e] = "ok" /\ e[2] # Top => Complete(e[2])
    /\ \A s \in Servers : remembered[s] = "ok" => Complete(s)

NetInv == NetTypeOK /\ SpreadInv /\ JobInv /\ LinkInv
-----------------------------------------------------------------------------
(* The tree.                                                               *)

LEMMA ChildType ==
    ASSUME NEW s \in Servers
    PROVE  /\ Children[s] \in Seq(Servers)
           /\ Range(Children[s]) \subseteq Servers \ {Top}
BY TreeAssumption DEF Range

LEMMA OneParent ==
    ASSUME NEW s, NEW p \in Parents(s), NEW q \in Parents(s)
    PROVE  p = q
BY TreeAssumption DEF Parents

LEMMA UnderSelf == \A s \in Servers : s \in Under(s)
BY DEF Under

LEMMA UnderChild ==
    ASSUME NEW s, NEW u \in Under(s), NEW t \in Range(Children[u])
    PROVE  t \in Under(s)
<1>1. u \in Servers /\ t \in Servers
  BY ChildType DEF Under
<1> QED
  BY <1>1 DEF Under, ChildClosed

(* Whoever is below s is s, or is below one of its children.               *)
LEMMA UnderBelow ==
    ASSUME NEW s \in Servers, NEW u \in Under(s), u # s
    PROVE  \E t \in Range(Children[s]) : u \in Under(t)
<1> DEFINE T == {s} \cup {x \in Servers : \E t \in Range(Children[s]) : x \in Under(t)}
<1>1. ChildClosed(T)
  <2> SUFFICES ASSUME NEW x \in T, NEW y \in Range(Children[x])
               PROVE  y \in T
    BY DEF ChildClosed
  <2>1. y \in Servers
    BY ChildType
  <2>2. CASE x = s
    BY <2>1, <2>2, UnderSelf
  <2>3. CASE x # s
    BY <2>1, <2>3, UnderChild
  <2> QED
    BY <2>2, <2>3
<1>2. u \in T
  BY <1>1 DEF Under
<1> QED
  BY <1>2

(* Whoever is below s, but not s, has a parent that is below s.            *)
LEMMA UnderParent ==
    ASSUME NEW s \in Servers, NEW u \in Under(s), u # s
    PROVE  \E p \in Parents(u) : p \in Under(s)
<1> SUFFICES ASSUME \A p \in Parents(u) : p \notin Under(s) PROVE FALSE
  OBVIOUS
<1> DEFINE T == Under(s) \ {u}
<1>1. ChildClosed(T)
  BY UnderChild DEF ChildClosed, Parents, Under
<1>2. T \in SUBSET Servers /\ s \in T
  BY UnderSelf DEF Under
<1>3. u \in T
  BY <1>1, <1>2 DEF Under
<1> QED
  BY <1>3
-----------------------------------------------------------------------------
(* Complete subtrees.                                                      *)

(* Nobody has the record below one that has not.                           *)
LEMMA NotBelow ==
    ASSUME NetInv, NEW t \in Servers \ recorded, NEW u \in Under(t)
    PROVE  u \notin recorded
<1> DEFINE T == Servers \ recorded
<1>1. ChildClosed(T)
  <2> SUFFICES ASSUME NEW x \in T, NEW y \in Range(Children[x]), y \in recorded
               PROVE  FALSE
    BY ChildType DEF ChildClosed
  <2>1. y # Top /\ x \in Parents(y)
    BY ChildType DEF Parents
  <2> QED
    BY <2>1, OneParent DEF NetInv, SpreadInv
<1> QED
  BY <1>1 DEF Under

LEMMA ChildrenComplete ==
    ASSUME NetInv, NEW s \in recorded,
           \A t \in Range(Children[s]) : manner[t] # "accepts" \/ Complete(t)
    PROVE  Complete(s)
<1> SUFFICES ASSUME NEW u \in Under(s), u \in recorded PROVE PassedOn(u)
  BY DEF Complete
<1>1. s \in Servers
  BY DEF NetInv, NetTypeOK
<1>2. CASE u = s
  BY <1>2 DEF PassedOn, Complete
<1>3. CASE u # s
  <2>1. PICK t \in Range(Children[s]) : u \in Under(t)
    BY <1>1, <1>3, UnderBelow
  <2>2. t \in Servers
    BY <1>1, ChildType
  <2>3. t \in recorded
    BY <2>1, <2>2, NotBelow
  <2>4. Complete(t)
    BY <2>3 DEF NetInv, SpreadInv
  <2> QED
    BY <2>1, <2>4 DEF Complete
<1> QED
  BY <1>2, <1>3

(* A complete subtree stays so: what is recorded later is not in it.       *)
LEMMA StaysComplete ==
    ASSUME NetInv, NEW e \in inbox, NEW s \in Servers, Complete(s),
           manner[e[2]] = "accepts", recorded' = recorded \cup {e[2]},
           manner' = manner
    PROVE  Complete(s)'
<1> DEFINE x == e[2]
<1>1. x \notin Under(s) \/ x \in recorded
  <2> SUFFICES ASSUME x \in Under(s), x \notin recorded PROVE FALSE
    OBVIOUS
  <2>1. x # s
    BY DEF Complete
  <2>2. PICK p \in Parents(x) : p \in Under(s)
    BY <2>1, UnderParent
  <2>3. x # Top /\ p \in Servers /\ x \in Range(Children[p])
    BY ChildType DEF Parents
  <2>4. p \in recorded
    BY <2>2, <2>3, OneParent DEF NetInv, SpreadInv
  <2>5. PassedOn(p)
    BY <2>2, <2>4 DEF Complete
  <2> QED
    BY <2>3, <2>5 DEF PassedOn
<1>2. \A u \in Under(s) \cap recorded' : u \in recorded
  BY <1>1
<1> QED
  BY <1>2 DEF Complete, PassedOn
-----------------------------------------------------------------------------
(* What the actions do.                                                    *)

LEMMA HopParts ==
    ASSUME NEW e \in Hops
    PROVE  /\ e = <<e[1], e[2]>> /\ e[1] \in 1..Rounds /\ e[2] \in Servers
           /\ \A s \in Servers : /\ Below(e, s) \in Hops
                               /\ Below(e, s)[1] = e[1] /\ Below(e, s)[2] = s
BY DEF Hops, Below

LEMMA FirstOf ==
    ASSUME NEW q \in Seq(Servers), q # <<>>
    PROVE  /\ Head(q) \in Servers /\ Tail(q) \in Seq(Servers)
           /\ Range(q) = {Head(q)} \cup Range(Tail(q))
<1>1. /\ Head(q) \in Servers /\ Tail(q) \in Seq(Servers) /\ Head(q) = q[1]
      /\ DOMAIN q = 1..Len(q) /\ DOMAIN Tail(q) = 1..(Len(q) - 1)
      /\ Len(q) \in Nat \ {0}
      /\ \A i \in 1..(Len(q) - 1) : Tail(q)[i] = q[i + 1]
  OBVIOUS
<1>2. \A i \in DOMAIN q : i # 1 => i - 1 \in DOMAIN Tail(q) /\ Tail(q)[i - 1] = q[i]
  BY <1>1
<1>3. \A i \in DOMAIN Tail(q) : i + 1 \in DOMAIN q /\ Tail(q)[i] = q[i + 1]
  BY <1>1
<1>4. 1 \in DOMAIN q
  BY <1>1
<1> QED
  BY <1>1, <1>2, <1>3, <1>4 DEF Range

(* A sender moves on, or ends with what the reply says, or with a fault.   *)
LEMMA SenderEffect ==
    ASSUME NetInv, NEW e \in Hops, Sender(e)
    PROVE  /\ UNCHANGED <<stores, inbox, jobs>>
           /\ link[e] \in {"posted", "pending", "asked"}
           /\ reply' = [reply EXCEPT ![e] = None]
           /\ polls' \in [Hops -> Nat]
           /\ \/ /\ \E where \in {"pending", "asked"} :
                        link' = [link EXCEPT ![e] = where]
                 /\ UNCHANGED <<outcome, faulty>>
              \/ \E o \in Outcomes :
                    /\ link' = [link EXCEPT ![e] = "over"]
                    /\ outcome' = [outcome EXCEPT ![e] = o]
                    /\ \/ o = "unavailable" /\ faulty' = faulty \cup {e[1]}
                       \/ /\ faulty' = faulty
                          /\ \/ reply[e] = "ok" /\ o = "ok"
                             \/ reply[e] = "report" /\ o = "downstream"
                             \/ /\ reply[e] = "forbidden"
                                /\ o \in {"unsupported", "unavailable"}
<1>1. /\ NetTypeOK /\ reply[e] \in Replies \cup {None} /\ MaxPolls \in Nat
      /\ reply[e] = "busy" => link[e] = "asked"
      /\ reply[e] # None => link[e] \in {"posted", "asked"}
      /\ polls \in [Hops -> Nat]
  BY BoundsAssumption DEF NetInv, LinkInv, NetTypeOK
<1>2. CASE Receive(e)
  <2>1. CASE reply[e] = "pending" \/ (reply[e] = "busy" /\ link[e] = "asked")
    BY <1>1, <1>2, <2>1 DEF Receive, Go
  <2>2. CASE ~ (reply[e] = "pending" \/ (reply[e] = "busy" /\ link[e] = "asked"))
    <3>1. reply[e] \in {"ok", "report", "forbidden", "error"}
      BY <1>1, <1>2, <2>2 DEF Receive, Replies
    <3>2. /\ OutcomeOf(e, reply[e]) \in Outcomes
          /\ reply[e] = "error" => OutcomeOf(e, reply[e]) = "unavailable"
          /\ \/ reply[e] = "error"
             \/ reply[e] = "ok" /\ OutcomeOf(e, reply[e]) = "ok"
             \/ reply[e] = "report" /\ OutcomeOf(e, reply[e]) = "downstream"
             \/ /\ reply[e] = "forbidden"
                /\ OutcomeOf(e, reply[e]) \in {"unsupported", "unavailable"}
      BY <3>1 DEF OutcomeOf, Outcomes
    <3>3. End(e, OutcomeOf(e, reply[e]), reply[e] = "error")
      BY <1>2, <2>2 DEF Receive
    <3> QED
      BY <1>1, <1>2, <3>2, <3>3 DEF Receive, End
  <2> QED
    BY <2>1, <2>2
<1>3. CASE Poll(e)
  BY <1>1, <1>3 DEF Poll, Go, End, Outcomes
<1>4. CASE Timeout(e)
  BY <1>1, <1>4 DEF Timeout, End, Outcomes
<1> QED
  BY <1>2, <1>3, <1>4 DEF Sender

(* A reply leaves: what the cascade ended with, or no word of it.          *)
LEMMA ReplyEffect ==
    ASSUME NetInv, NEW e \in Hops, AnswerPost(e) \/ AnswerGet(e) \/ Stray(e)
    PROVE  /\ UNCHANGED <<stores, inbox, jobs, link, polls, outcome, faulty>>
           /\ link[e] \in {"posted", "asked"}
           /\ \E r \in Replies :
                 /\ reply' = [reply EXCEPT ![e] = r]
                 /\ r \in {"ok", "report", "forbidden"} =>
                      job[e] = "ended" /\ answer[e] = r
                 /\ r = "busy" => link[e] = "asked"
<1>1. job[e] = "ended" => answer[e] \in {"ok", "report", "forbidden"}
  BY DEF NetInv, JobInv
<1>2. {"ok", "report", "forbidden", "pending", "error", "busy"} \subseteq Replies
  BY DEF Replies
<1>3. CASE AnswerPost(e)
  BY <1>1, <1>2, <1>3 DEF AnswerPost, Say
<1>4. CASE AnswerGet(e)
  BY <1>1, <1>2, <1>4 DEF AnswerGet, Say
<1>5. CASE Stray(e)
  BY <1>2, <1>5 DEF Stray, Say
<1> QED
  BY <1>3, <1>4, <1>5
-----------------------------------------------------------------------------
(* NetInv, action by action.                                               *)

LEMMA NetInit == Init => NetInv
<1> SUFFICES ASSUME Init PROVE NetInv
  OBVIOUS
<1>1. NetTypeOK
  BY DEF Init, NetTypeOK, Outcomes, Replies
<1>2. SpreadInv
  BY DEF Init, SpreadInv
<1>3. JobInv
  BY DEF Init, JobInv
<1>4. LinkInv
  BY NoneAssumption DEF Init, LinkInv, Replies
<1> QED
  BY <1>1, <1>2, <1>3, <1>4 DEF NetInv

LEMMA SenderKeeps ==
    ASSUME NetInv, NEW e \in Hops, Sender(e)
    PROVE  NetInv' /\ UNCHANGED <<stores, jobs>> /\ faulty \subseteq faulty'
<1>1. NetTypeOK /\ SpreadInv /\ JobInv /\ LinkInv
  BY DEF NetInv
<1>2. /\ manner' = manner /\ recorded' = recorded /\ remembered' = remembered
      /\ inbox' = inbox /\ job' = job /\ left' = left /\ good' = good
      /\ bad' = bad /\ answer' = answer
      /\ link[e] \in {"posted", "pending", "asked"}
      /\ reply' = [reply EXCEPT ![e] = None]
      /\ polls' \in [Hops -> Nat]
  BY SenderEffect DEF stores, jobs
<1>3. CASE /\ \E where \in {"pending", "asked"} : link' = [link EXCEPT ![e] = where]
           /\ outcome' = outcome /\ faulty' = faulty
  <2>1. NetTypeOK'
    BY <1>1, <1>2, <1>3 DEF NetTypeOK
  <2>2. SpreadInv' /\ JobInv'
    BY <1>1, <1>2, <1>3 DEF SpreadInv, JobInv, NetTypeOK
  <2>3. LinkInv'
    BY <1>1, <1>2, <1>3, NoneAssumption DEF LinkInv, NetTypeOK, Replies
  <2> QED
    BY <1>2, <1>3, <2>1, <2>2, <2>3 DEF NetInv, stores, jobs
<1>4. ASSUME NEW o \in Outcomes,
             link' = [link EXCEPT ![e] = "over"],
             outcome' = [outcome EXCEPT ![e] = o],
             \/ o = "unavailable" /\ faulty' = faulty \cup {e[1]}
             \/ /\ faulty' = faulty
                /\ \/ reply[e] = "ok" /\ o = "ok"
                   \/ reply[e] = "report" /\ o = "downstream"
                   \/ /\ reply[e] = "forbidden"
                      /\ o \in {"unsupported", "unavailable"}
      PROVE  NetInv' /\ faulty \subseteq faulty'
  <2>1. NetTypeOK'
    BY <1>1, <1>2, <1>4, HopParts DEF NetTypeOK
  <2>2. SpreadInv' /\ JobInv'
    BY <1>1, <1>2, <1>4 DEF SpreadInv, JobInv, NetTypeOK
  <2>3. /\ o \in {"ok", "downstream"} =>
             job[e] = "ended" /\ answer[e] = IF o = "ok" THEN "ok" ELSE "report"
        /\ e[1] \in faulty' \/ o \in {"ok", "downstream"} \/ manner[e[2]] # "accepts"
        /\ o # "unsent"
    BY <1>1, <1>4 DEF LinkInv, JobInv
  <2>4. faulty \subseteq faulty'
    BY <1>4
  <2>5. LinkInv'
    BY <1>1, <1>2, <1>4, <2>3, <2>4, NoneAssumption DEF LinkInv, NetTypeOK, Replies
  <2> QED
    BY <2>1, <2>2, <2>4, <2>5 DEF NetInv
<1> QED
  BY <1>2, <1>3, <1>4, SenderEffect DEF stores, jobs

LEMMA ReplyKeeps ==
    ASSUME NetInv, NEW e \in Hops, AnswerPost(e) \/ AnswerGet(e) \/ Stray(e)
    PROVE  NetInv' /\ UNCHANGED <<stores, jobs, faulty>>
<1>1. NetTypeOK /\ SpreadInv /\ JobInv /\ LinkInv
  BY DEF NetInv
<1>2. /\ manner' = manner /\ recorded' = recorded /\ remembered' = remembered
      /\ inbox' = inbox /\ job' = job /\ left' = left /\ good' = good
      /\ bad' = bad /\ answer' = answer /\ link' = link /\ polls' = polls
      /\ outcome' = outcome /\ faulty' = faulty
      /\ link[e] \in {"posted", "asked"}
  BY ReplyEffect DEF stores, jobs
<1>3. PICK r \in Replies :
        /\ reply' = [reply EXCEPT ![e] = r]
        /\ r \in {"ok", "report", "forbidden"} => job[e] = "ended" /\ answer[e] = r
        /\ r = "busy" => link[e] = "asked"
  BY ReplyEffect
<1>4. NetTypeOK'
  BY <1>1, <1>2, <1>3 DEF NetTypeOK
<1>5. SpreadInv' /\ JobInv'
  BY <1>1, <1>2 DEF SpreadInv, JobInv
<1>6. LinkInv'
  BY <1>1, <1>2, <1>3 DEF LinkInv, NetTypeOK
<1> QED
  BY <1>2, <1>4, <1>5, <1>6 DEF NetInv, stores, jobs

LEMMA RequestKeeps ==
    ASSUME NetInv, NEW n \in 1..Rounds, Request(n)
    PROVE  NetInv' /\ UNCHANGED <<stores, jobs, faulty>>
<1> DEFINE d == <<n, Top>>
<1>1. NetTypeOK /\ SpreadInv /\ JobInv /\ LinkInv
  BY DEF NetInv
<1>2. d \in Hops /\ d[1] = n /\ d[2] = Top
  BY TreeAssumption DEF Hops
<1>3. /\ manner' = manner /\ recorded' = recorded /\ remembered' = remembered
      /\ job' = job /\ left' = left /\ good' = good
      /\ bad' = bad /\ answer' = answer /\ polls' = polls
      /\ reply' = reply /\ faulty' = faulty
  BY DEF Request, Begin, stores, jobs
<1>4. /\ link[d] = "idle" /\ link' = [link EXCEPT ![d] = "posted"]
      /\ inbox' = inbox \cup {d} /\ outcome' = outcome
  BY <1>1, <1>2 DEF Request, Begin, SpreadInv
<1> HIDE DEF d
<1>5. NetTypeOK'
  BY <1>1, <1>2, <1>3, <1>4 DEF NetTypeOK
<1>6. SpreadInv'
  BY <1>1, <1>2, <1>3, <1>4 DEF SpreadInv
<1>7. JobInv'
  BY <1>1, <1>2, <1>3, <1>4 DEF JobInv, SpreadInv, NetTypeOK
<1>8. LinkInv'
  BY <1>1, <1>2, <1>3, <1>4, NoneAssumption DEF LinkInv, NetTypeOK
<1> QED
  BY <1>3, <1>5, <1>6, <1>7, <1>8 DEF NetInv, stores, jobs

(* A request is handled for the first time; its sender has the record.     *)
LEMMA HandleKeeps ==
    ASSUME NetInv, NEW e \in Hops, Handle(e)
    PROVE  NetInv'
<1> DEFINE s == e[2]
<1>1. NetTypeOK /\ SpreadInv /\ JobInv /\ LinkInv
  BY DEF NetInv
<1>2. /\ manner' = manner /\ remembered' = remembered /\ inbox' = inbox \ {e}
      /\ good' = good /\ bad' = bad /\ link' = link /\ polls' = polls
      /\ reply' = reply /\ faulty' = faulty /\ outcome' = outcome
      /\ e \in inbox /\ job[e] = "none" /\ link[e] # "idle" /\ s \in Servers
  BY <1>1, HopParts DEF Handle, links, JobInv
<1>3. CASE manner[s] = "refuses"
  <2>1. /\ job' = [job EXCEPT ![e] = "ended"]
        /\ answer' = [answer EXCEPT ![e] = "forbidden"]
        /\ recorded' = recorded /\ left' = left
    BY <1>3 DEF Handle
  <2>2. NetTypeOK'
    BY <1>1, <1>2, <2>1 DEF NetTypeOK, Replies
  <2>3. SpreadInv'
    BY <1>1, <1>2, <2>1 DEF SpreadInv
  <2>4. JobInv'
    BY <1>1, <1>2, <1>3, <2>1 DEF JobInv, NetTypeOK
  <2>5. LinkInv'
    BY <1>1, <1>2, <2>1 DEF LinkInv, NetTypeOK
  <2> QED
    BY <2>2, <2>3, <2>4, <2>5 DEF NetInv
<1>4. CASE manner[s] # "refuses"
  <2>1. /\ job' = [job EXCEPT ![e] = "running"]
        /\ recorded' = recorded \cup {s}
        /\ left' = [left EXCEPT ![e] = Children[s]] /\ answer' = answer
        /\ manner[s] = "accepts"
    BY <1>1, <1>2, <1>4 DEF Handle, JobInv, NetTypeOK, Manners
  <2>2. NetTypeOK'
    BY <1>1, <1>2, <2>1, ChildType DEF NetTypeOK
  <2>3. s \in Under(Top)
    <3>1. CASE s = Top
      BY <3>1, UnderSelf, TreeAssumption
    <3>2. CASE s # Top
      <4>1. PICK p \in Parents(s) : p \in recorded
        BY <1>1, <1>2, <3>2 DEF SpreadInv
      <4> QED
        BY <1>1, <4>1, UnderChild DEF SpreadInv, Parents
    <3> QED
      BY <3>1, <3>2
  <2>4. SpreadInv'
    BY <1>1, <1>2, <2>1, <2>3 DEF SpreadInv, Parents
  <2>5. JobInv'
    BY <1>1, <1>2, <2>1 DEF JobInv, NetTypeOK
  <2>6. LinkInv'
    BY <1>1, <1>2, <2>1 DEF LinkInv, NetTypeOK
  <2> QED
    BY <2>2, <2>4, <2>5, <2>6 DEF NetInv
<1> QED
  BY <1>3, <1>4

(* Skip, Forward, Collect and Return.                                      *)
LEMMA SkipKeeps ==
    ASSUME NetInv, NEW e \in Hops, Skip(e)
    PROVE  NetInv'
<1> DEFINE q == left[e]
<1>1. NetTypeOK /\ SpreadInv /\ JobInv /\ LinkInv
  BY DEF NetInv
<1>2. /\ manner' = manner /\ recorded' = recorded /\ remembered' = remembered
      /\ inbox' = inbox /\ job' = job /\ good' = good /\ bad' = bad
      /\ answer' = answer /\ link' = link /\ polls' = polls
      /\ reply' = reply /\ faulty' = faulty /\ outcome' = outcome
      /\ job[e] = "running" /\ q # <<>> /\ left' = [left EXCEPT ![e] = Tail(q)]
  BY DEF Skip, stores, links
<1>3. Tail(q) \in Seq(Servers) /\ Range(Tail(q)) \subseteq Range(q)
  BY <1>1, <1>2, FirstOf DEF NetTypeOK
<1> HIDE DEF q
<1>4. NetTypeOK'
  BY <1>1, <1>2, <1>3 DEF NetTypeOK
<1>5. SpreadInv' /\ LinkInv'
  BY <1>1, <1>2 DEF SpreadInv, LinkInv
<1>6. JobInv'
  BY <1>1, <1>2, <1>3 DEF JobInv, NetTypeOK, q
<1> QED
  BY <1>4, <1>5, <1>6 DEF NetInv

LEMMA ForwardKeeps ==
    ASSUME NetInv, NEW e \in Hops, Forward(e)
    PROVE  NetInv'
<1> DEFINE s == Head(left[e])
           d == Below(e, s)
<1>1. NetTypeOK /\ SpreadInv /\ JobInv /\ LinkInv
  BY DEF NetInv
<1>2. /\ manner' = manner /\ recorded' = recorded /\ remembered' = remembered
      /\ left' = left /\ good' = good /\ bad' = bad /\ answer' = answer
      /\ job[e] = "running" /\ left[e] # <<>>
      /\ job' = [job EXCEPT ![e] = "sending"]
      /\ polls' = polls /\ reply' = reply /\ faulty' = faulty
  BY DEF Forward, Begin, stores
<1>3. s \in Servers /\ s \in Range(Children[e[2]]) /\ e[2] \in recorded
  <2>1. left[e] \in Seq(Servers)
    BY <1>1 DEF NetTypeOK
  <2>2. s \in Servers /\ s \in Range(left[e])
    BY <1>2, <2>1, FirstOf
  <2> QED
    BY <1>1, <1>2, <2>2 DEF JobInv
<1>4. d \in Hops /\ d[2] = s /\ e[2] \in Parents(s)
  BY <1>3, HopParts DEF Parents
<1>5. /\ link[d] = "idle" /\ job[d] = "none"
      /\ \/ /\ manner[s] = "no_endpoint" /\ inbox' = inbox
            /\ link' = [link EXCEPT ![d] = "over"]
            /\ outcome' = [outcome EXCEPT ![d] = "unsupported"]
         \/ /\ manner[s] # "no_endpoint" /\ inbox' = inbox \cup {d}
            /\ link' = [link EXCEPT ![d] = "posted"]
            /\ outcome' = outcome
  BY <1>1, <1>4 DEF Forward, Begin, JobInv
<1> HIDE DEF s, d
<1>6. NetTypeOK'
  BY <1>1, <1>2, <1>4, <1>5 DEF NetTypeOK, Outcomes
<1>7. SpreadInv'
  BY <1>1, <1>2, <1>3, <1>4, <1>5 DEF SpreadInv
<1>8. JobInv'
  BY <1>1, <1>2, <1>4, <1>5 DEF JobInv, NetTypeOK
<1>9. LinkInv'
  BY <1>1, <1>2, <1>4, <1>5, NoneAssumption DEF LinkInv, NetTypeOK
<1> QED
  BY <1>6, <1>7, <1>8, <1>9 DEF NetInv

LEMMA CollectKeeps ==
    ASSUME NetInv, NEW e \in Hops, Collect(e)
    PROVE  NetInv'
<1> DEFINE q == left[e]
           s == Head(q)
           d == Below(e, s)
<1>1. NetTypeOK /\ SpreadInv /\ JobInv /\ LinkInv
  BY DEF NetInv
<1>2. /\ manner' = manner /\ recorded' = recorded /\ inbox' = inbox
      /\ answer' = answer /\ link' = link /\ polls' = polls
      /\ reply' = reply /\ faulty' = faulty /\ outcome' = outcome
      /\ job[e] = "sending" /\ link[d] = "over"
      /\ remembered' = [remembered EXCEPT ![s] = outcome[d]]
      /\ left' = [left EXCEPT ![e] = Tail(q)]
      /\ job' = [job EXCEPT ![e] = "running"]
  BY DEF Collect, links
<1>3. /\ q # <<>> /\ s \in Servers /\ Tail(q) \in Seq(Servers)
      /\ Range(Tail(q)) \subseteq Range(q)
  BY <1>1, <1>2, FirstOf DEF NetTypeOK, JobInv
<1>4. /\ d \in Hops /\ d[2] = s /\ outcome[d] \in Outcomes
      /\ outcome[d] \in {"ok", "downstream"} => s \in recorded
  <2>1. d \in Hops /\ d[2] = s
    BY <1>3, HopParts
  <2> HIDE DEF d
  <2>2. outcome[d] \in {"ok", "downstream"} =>
          job[d] = "ended" /\ answer[d] \in {"ok", "report"}
    BY <1>1, <2>1 DEF LinkInv
  <2> QED
    BY <1>1, <2>1, <2>2 DEF JobInv, NetTypeOK
<1>5. \/ /\ outcome[d] \in {"unsupported", "unavailable"}
         /\ bad' = [bad EXCEPT ![e] = @ \cup {s}] /\ good' = good
      \/ /\ outcome[d] \notin {"unsupported", "unavailable"}
         /\ good' = [good EXCEPT ![e] = @ \cup {s}] /\ bad' = bad
  BY DEF Collect
<1> HIDE DEF q, s, d
<1>6. outcome[d] \notin {"unsupported", "unavailable"} => s \in recorded
  BY <1>1, <1>2, <1>4 DEF LinkInv, Outcomes
<1>7. NetTypeOK'
  <2>1. good' \in [Hops -> SUBSET Servers] /\ bad' \in [Hops -> SUBSET Servers]
    <3>1. /\ good \in [Hops -> SUBSET Servers] /\ bad \in [Hops -> SUBSET Servers]
          /\ good[e] \cup {s} \in SUBSET Servers /\ bad[e] \cup {s} \in SUBSET Servers
      BY <1>1, <1>3 DEF NetTypeOK
    <3> QED
      BY <1>5, <3>1
  <2> QED
    BY <1>1, <1>2, <1>3, <1>4, <2>1 DEF NetTypeOK
<1>8. SpreadInv'
  BY <1>1, <1>2, <1>3, <1>4 DEF SpreadInv, NetTypeOK
<1>9. JobInv'
  BY <1>1, <1>2, <1>3, <1>5, <1>6 DEF JobInv, NetTypeOK, q
<1>10. LinkInv'
  BY <1>1, <1>2 DEF LinkInv, NetTypeOK
<1> QED
  BY <1>7, <1>8, <1>9, <1>10 DEF NetInv

LEMMA ReturnKeeps ==
    ASSUME NetInv, NEW e \in Hops, Return(e)
    PROVE  NetInv'
<1> DEFINE g == good[e] \cup
                  {s \in Range(Children[e[2]]) : Confirmed(s) /\ s \notin Report(e)}
<1>1. NetTypeOK /\ SpreadInv /\ JobInv /\ LinkInv
  BY DEF NetInv
<1>2. /\ manner' = manner /\ recorded' = recorded /\ remembered' = remembered
      /\ inbox' = inbox /\ left' = left /\ bad' = bad
      /\ link' = link /\ polls' = polls
      /\ reply' = reply /\ faulty' = faulty /\ outcome' = outcome
      /\ job[e] = "running" /\ job' = [job EXCEPT ![e] = "ended"]
      /\ good' = [good EXCEPT ![e] = g]
      /\ \E a \in {"ok", "report"} : answer' = [answer EXCEPT ![e] = a]
  BY DEF Return, stores, links
<1>3. g \subseteq recorded
  BY <1>1, HopParts, ChildType DEF SpreadInv, JobInv, Confirmed
<1> HIDE DEF g
<1>4. NetTypeOK'
  BY <1>1, <1>2, <1>3 DEF NetTypeOK, Replies
<1>5. SpreadInv'
  BY <1>1, <1>2 DEF SpreadInv
<1>6. JobInv'
  BY <1>1, <1>2, <1>3 DEF JobInv, NetTypeOK
<1>7. LinkInv'
  BY <1>1, <1>2 DEF LinkInv, JobInv, NetTypeOK
<1> QED
  BY <1>4, <1>5, <1>6, <1>7 DEF NetInv

LEMMA NetStep == NetInv /\ [Next]_vars => NetInv'
<1> SUFFICES ASSUME NetInv, [Next]_vars PROVE NetInv'
  OBVIOUS
<1>1. CASE UNCHANGED vars
  <2>1. /\ manner' = manner /\ recorded' = recorded /\ remembered' = remembered
        /\ inbox' = inbox /\ job' = job /\ left' = left /\ good' = good
        /\ bad' = bad /\ answer' = answer /\ link' = link /\ reply' = reply
        /\ polls' = polls /\ outcome' = outcome /\ faulty' = faulty
    BY <1>1 DEF vars, stores, jobs, links
  <2>2. NetTypeOK' /\ SpreadInv' /\ JobInv'
    BY <2>1 DEF NetInv, NetTypeOK, SpreadInv, JobInv
  <2>3. LinkInv'
    BY <2>1 DEF NetInv, LinkInv
  <2> QED
    BY <2>2, <2>3 DEF NetInv
<1>2. ASSUME NEW n \in 1..Rounds, Request(n) PROVE NetInv'
  BY <1>2, RequestKeeps
<1>3. ASSUME NEW e \in Hops, Sender(e) PROVE NetInv'
  BY <1>3, SenderKeeps
<1>4. ASSUME NEW e \in Hops, Manager(e) \/ Handle(e) PROVE NetInv'
  BY <1>4, HandleKeeps, SkipKeeps, ForwardKeeps, CollectKeeps, ReturnKeeps
     DEF Manager
<1>5. ASSUME NEW e \in Hops, AnswerPost(e) \/ AnswerGet(e) \/ Stray(e)
      PROVE  NetInv'
  BY <1>5, ReplyKeeps
<1> QED
  BY <1>1, <1>2, <1>3, <1>4, <1>5 DEF Next

(* Of every behaviour, with no fairness.                                   *)
THEOREM Invariance == Spec => []NetInv
BY NetInit, NetStep, PTL DEF Spec

(* Whatever is lost, late or answered by something in between, a send that *)
(* ends without an error has reached its recipient, and so has every       *)
(* recipient that is reported without one.                                 *)
THEOREM OutcomesHold == Spec => []OutcomesAreTrue
<1>1. NetInv => OutcomesAreTrue
  BY DEF NetInv, JobInv, LinkInv, OutcomesAreTrue
<1> QED
  BY <1>1, Invariance, PTL
-----------------------------------------------------------------------------
(* RepeatHeals needs that what is below a server that answers ok without   *)
(* a report had no failure to report: only an AS, whose answer names each  *)
(* of its recipients, stands between Top and other servers.                *)
OnlyASBetween == \A s \in Servers \ {Top} : Children[s] # <<>> => Role[s] = "as"

LEMMA CascadeInit == Init => CascadeInv
BY DEF Init, CascadeInv, Hops

(* The actions of senders and hosts leave it alone: faulty only grows.     *)
LEMMA LinksKeepCascade ==
    ASSUME CascadeInv, UNCHANGED <<stores, jobs>>, faulty \subseteq faulty'
    PROVE  CascadeInv'
BY DEF CascadeInv, stores, jobs, Complete, PassedOn, Report

LEMMA HandleKeepsCascade ==
    ASSUME NetInv, CascadeInv, NEW e \in Hops, Handle(e)
    PROVE  CascadeInv'
<1> DEFINE s == e[2]
<1>1. NetTypeOK /\ SpreadInv /\ JobInv /\ LinkInv
  BY DEF NetInv
<1>2. /\ manner' = manner /\ remembered' = remembered /\ e \in inbox
      /\ good' = good /\ bad' = bad /\ faulty' = faulty
      /\ job[e] = "none" /\ s \in Servers
  BY <1>1, HopParts DEF Handle, links, JobInv
<1>3. CASE manner[s] = "refuses"
  <2>1. /\ job' = [job EXCEPT ![e] = "ended"]
        /\ answer' = [answer EXCEPT ![e] = "forbidden"]
        /\ recorded' = recorded /\ left' = left
    BY <1>3 DEF Handle
  <2> QED
    BY <1>1, <1>2, <2>1 DEF CascadeInv, NetTypeOK, Complete, PassedOn, Report
<1>4. CASE manner[s] # "refuses"
  <2>1. /\ job' = [job EXCEPT ![e] = "running"]
        /\ recorded' = recorded \cup {s}
        /\ left' = [left EXCEPT ![e] = Children[s]] /\ answer' = answer
        /\ manner[s] = "accepts"
    BY <1>1, <1>2, <1>4 DEF Handle, JobInv, NetTypeOK, Manners
  <2>2. \A t \in Servers : Complete(t) => Complete(t)'
    BY <1>2, <2>1, StaysComplete
  <2>3. ASSUME NEW f \in Hops
        PROVE  /\ job'[f] \in {"running", "sending"} =>
                    \A t \in Range(Children[f[2]]) \ Range(left'[f]) :
                       /\ t \in Report(f)' \/ Complete(t)'
                       /\ f[1] \in faulty' \/ manner'[t] # "accepts" \/ Complete(t)'
               /\ job'[f] = "ended" /\ answer'[f] # "forbidden" =>
                    f[1] \in faulty' \/ Complete(f[2])'
               /\ answer'[f] = "ok" /\ f[2] # Top => Complete(f[2])'
    <3>1. f[2] \in Servers /\ \A t \in Range(Children[f[2]]) : t \in Servers
      BY HopParts, ChildType
    <3>2. CASE f = e
      BY <1>1, <1>2, <2>1, <2>2, <3>1, <3>2 DEF CascadeInv, NetTypeOK
    <3>3. CASE f # e
      BY <1>1, <1>2, <2>1, <2>2, <3>1, <3>3 DEF CascadeInv, NetTypeOK, Report
    <3> QED
      BY <3>2, <3>3
  <2>4. \A t \in Servers : remembered'[t] = "ok" => Complete(t)'
    BY <1>2, <2>2 DEF CascadeInv
  <2> HIDE DEF s
  <2> QED
    BY <2>3, <2>4 DEF CascadeInv
<1> QED
  BY <1>3, <1>4

LEMMA SkipKeepsCascade ==
    ASSUME NetInv, CascadeInv, NEW e \in Hops, Skip(e)
    PROVE  CascadeInv'
<1> DEFINE q == left[e]
<1>1. NetTypeOK /\ SpreadInv /\ JobInv /\ LinkInv
  BY DEF NetInv
<1>2. /\ manner' = manner /\ recorded' = recorded /\ remembered' = remembered
      /\ job' = job /\ good' = good /\ bad' = bad
      /\ answer' = answer /\ faulty' = faulty
      /\ job[e] = "running" /\ q # <<>> /\ left' = [left EXCEPT ![e] = Tail(q)]
      /\ remembered[Head(q)] = "ok"
  BY DEF Skip, Confirmed, stores, links
<1>3. q \in Seq(Servers)
  BY <1>1 DEF NetTypeOK
<1>4. Head(q) \in Servers /\ Range(q) = {Head(q)} \cup Range(Tail(q))
  BY <1>2, <1>3, FirstOf
<1>5. Complete(Head(q))
  BY <1>2, <1>4 DEF CascadeInv
<1>6. \A t \in Servers : Complete(t)' <=> Complete(t)
  BY <1>2 DEF Complete, PassedOn
<1>7. \A f \in Hops : Report(f)' = Report(f)
  BY <1>2 DEF Report
<1>8. \A f \in Hops : f[2] \in Servers /\ Range(Children[f[2]]) \subseteq Servers
  BY HopParts, ChildType
<1>9. \A f \in Hops : f # e => left'[f] = left[f]
  BY <1>1, <1>2 DEF NetTypeOK
<1>10. left'[e] = Tail(q)
  BY <1>1, <1>2 DEF NetTypeOK
<1> HIDE DEF q
<1>11. ASSUME NEW f \in Hops, job'[f] \in {"running", "sending"},
              NEW t \in Range(Children[f[2]]) \ Range(left'[f])
       PROVE  /\ t \in Report(f)' \/ Complete(t)'
              /\ f[1] \in faulty' \/ manner'[t] # "accepts" \/ Complete(t)'
  <2>1. t \in Servers
    BY <1>8
  <2>2. CASE f = e /\ t = Head(q)
    BY <1>5, <1>6, <2>1, <2>2
  <2>3. CASE ~ (f = e /\ t = Head(q))
    <3>1. t \in Range(Children[f[2]]) \ Range(left[f])
      BY <1>4, <1>9, <1>10, <1>11, <2>3 DEF q
    <3> QED
      BY <1>2, <1>6, <1>7, <1>11, <2>1, <3>1 DEF CascadeInv
  <2> QED
    BY <2>2, <2>3
<1> QED
  BY <1>2, <1>6, <1>8, <1>11 DEF CascadeInv

LEMMA ForwardKeepsCascade ==
    ASSUME NetInv, CascadeInv, NEW e \in Hops, Forward(e)
    PROVE  CascadeInv'
<1>1. /\ manner' = manner /\ recorded' = recorded /\ remembered' = remembered
      /\ left' = left /\ good' = good /\ bad' = bad /\ answer' = answer
      /\ job[e] = "running" /\ job' = [job EXCEPT ![e] = "sending"]
      /\ faulty' = faulty /\ job \in [Hops -> {"none", "running", "sending", "ended"}]
  BY DEF Forward, Begin, stores, NetInv, NetTypeOK
<1> QED
  BY <1>1 DEF CascadeInv, Complete, PassedOn, Report

(* A send that ended in a round without a fault reached a cascade that has *)
(* ended without one, or a server that does not accept.                    *)
LEMMA CollectKeepsCascade ==
    ASSUME NetInv, CascadeInv, NEW e \in Hops, Collect(e)
    PROVE  CascadeInv'
<1> DEFINE q == left[e]
           s == Head(q)
           d == Below(e, s)
<1>1. NetTypeOK /\ SpreadInv /\ JobInv /\ LinkInv
  BY DEF NetInv
<1>2. /\ manner' = manner /\ recorded' = recorded
      /\ answer' = answer /\ faulty' = faulty
      /\ job[e] = "sending" /\ link[d] = "over"
      /\ remembered' = [remembered EXCEPT ![s] = outcome[d]]
      /\ left' = [left EXCEPT ![e] = Tail(q)]
      /\ job' = [job EXCEPT ![e] = "running"]
      /\ \/ bad' = [bad EXCEPT ![e] = @ \cup {s}] /\ good' = good
         \/ good' = [good EXCEPT ![e] = @ \cup {s}] /\ bad' = bad
  BY DEF Collect, links
<1>3. q # <<>> /\ q \in Seq(Servers)
  BY <1>1, <1>2 DEF NetTypeOK, JobInv
<1>4. s \in Servers /\ Range(q) = {s} \cup Range(Tail(q))
  BY <1>3, FirstOf
<1>5. d \in Hops /\ d[1] = e[1] /\ d[2] = s /\ s # Top
  <2>1. s \in Range(Children[e[2]])
    BY <1>1, <1>2, <1>4 DEF JobInv
  <2> QED
    BY <1>4, <2>1, HopParts, ChildType
<1> HIDE DEF d, s, q
<1>6. outcome[d] \in {"ok", "downstream"} =>
        /\ job[d] = "ended" /\ answer[d] \in {"ok", "report"}
        /\ outcome[d] = "ok" => answer[d] = "ok"
  BY <1>1, <1>5 DEF LinkInv
<1>7. e[1] \in faulty \/ manner[s] # "accepts" \/ Complete(s)
  BY <1>1, <1>2, <1>5, <1>6 DEF LinkInv, CascadeInv
<1>8. outcome[d] = "ok" => Complete(s)
  BY <1>5, <1>6 DEF CascadeInv
<1>9. \A t \in Servers : Complete(t)' <=> Complete(t)
  BY <1>2 DEF Complete, PassedOn
<1>10. \A f \in Hops : Report(f) \subseteq Report(f)' /\ s \in Report(e)'
  BY <1>1, <1>2 DEF Report, NetTypeOK
<1>11. \A f \in Hops : f[2] \in Servers /\ Range(Children[f[2]]) \subseteq Servers
  BY HopParts, ChildType
<1>12. \A f \in Hops : f # e => left'[f] = left[f] /\ job'[f] = job[f]
  BY <1>1, <1>2 DEF NetTypeOK
<1>13. left'[e] = Tail(q) /\ job'[e] = "running"
  BY <1>1, <1>2 DEF NetTypeOK
<1>14. ASSUME NEW f \in Hops, job'[f] \in {"running", "sending"},
              NEW t \in Range(Children[f[2]]) \ Range(left'[f])
       PROVE  /\ t \in Report(f)' \/ Complete(t)'
              /\ f[1] \in faulty' \/ manner'[t] # "accepts" \/ Complete(t)'
  <2>1. t \in Servers
    BY <1>11
  <2>2. CASE f = e /\ t = s
    BY <1>2, <1>7, <1>9, <1>10, <2>1, <2>2
  <2>3. CASE ~ (f = e /\ t = s)
    <3>1. /\ t \in Range(Children[f[2]]) \ Range(left[f])
          /\ job[f] \in {"running", "sending"}
      BY <1>2, <1>4, <1>12, <1>13, <1>14, <2>3 DEF q
    <3> QED
      BY <1>2, <1>9, <1>10, <2>1, <3>1 DEF CascadeInv
  <2> QED
    BY <2>2, <2>3
<1>15. ASSUME NEW t \in Servers, remembered'[t] = "ok" PROVE Complete(t)'
  BY <1>1, <1>2, <1>8, <1>9, <1>15 DEF CascadeInv, NetTypeOK
<1>16. ASSUME NEW f \in Hops
       PROVE  /\ job'[f] = "ended" /\ answer'[f] # "forbidden" =>
                    f[1] \in faulty' \/ Complete(f[2])'
              /\ answer'[f] = "ok" /\ f[2] # Top => Complete(f[2])'
  BY <1>2, <1>9, <1>11, <1>12, <1>13 DEF CascadeInv
<1> QED
  BY <1>14, <1>15, <1>16 DEF CascadeInv

(* The empty answer of an AS comes from a cascade that asked nobody, since *)
(* all below it were complete.                                             *)
LEMMA ReturnKeepsCascade ==
    ASSUME OnlyASBetween, NetInv, CascadeInv, NEW e \in Hops, Return(e)
    PROVE  CascadeInv'
<1> DEFINE s == e[2]
<1>1. NetTypeOK /\ SpreadInv /\ JobInv /\ LinkInv
  BY DEF NetInv
<1>2. /\ manner' = manner /\ recorded' = recorded /\ remembered' = remembered
      /\ left' = left /\ bad' = bad /\ faulty' = faulty
      /\ job[e] = "running" /\ left[e] = <<>>
      /\ job' = [job EXCEPT ![e] = "ended"]
  BY DEF Return, stores, links
<1>3. s \in recorded /\ s \in Servers /\ Range(left[e]) = {}
  BY <1>1, <1>2, HopParts DEF JobInv, Range
<1>4. \A f \in Hops : f[2] \in Servers
  BY HopParts
<1>5. good[e] \subseteq good'[e] /\ answer'[e] \in {"ok", "report"}
  BY <1>1 DEF Return, NetTypeOK
<1>6. \A f \in Hops : f # e => job'[f] = job[f] /\ good'[f] = good[f]
                              /\ answer'[f] = answer[f]
  BY <1>1 DEF Return, NetTypeOK
<1>7. answer'[e] = "ok" => Role[s] # "as" \/ good'[e] \cup bad[e] = {}
  BY <1>1 DEF Return, NetTypeOK
<1>8. \A t \in Servers : Complete(t)' <=> Complete(t)
  BY <1>2 DEF Complete, PassedOn
<1>9. \A t \in Range(Children[s]) :
        /\ t \in Report(e) \/ Complete(t)
        /\ e[1] \in faulty \/ manner[t] # "accepts" \/ Complete(t)
  BY <1>2, <1>3 DEF CascadeInv
<1> HIDE DEF s
<1>10. e[1] \in faulty \/ Complete(s)
  BY <1>3, <1>9, ChildrenComplete
<1>11. answer'[e] = "ok" /\ s # Top => Complete(s)
  <2> SUFFICES ASSUME answer'[e] = "ok", s # Top PROVE Complete(s)
    OBVIOUS
  <2>1. CASE Children[s] = <<>>
    BY <1>3, <2>1, ChildrenComplete DEF Range
  <2>2. CASE Children[s] # <<>>
    <3>1. Role[s] = "as"
      BY <1>3, <2>2 DEF OnlyASBetween
    <3>2. Report(e) = {}
      BY <1>5, <1>7, <3>1 DEF Report
    <3> QED
      BY <1>3, <1>9, <3>2, ChildrenComplete
  <2> QED
    BY <2>1, <2>2
<1>12. ASSUME NEW f \in Hops
       PROVE  /\ job'[f] \in {"running", "sending"} =>
                    \A t \in Range(Children[f[2]]) \ Range(left'[f]) :
                       /\ t \in Report(f)' \/ Complete(t)'
                       /\ f[1] \in faulty' \/ manner'[t] # "accepts" \/ Complete(t)'
              /\ job'[f] = "ended" /\ answer'[f] # "forbidden" =>
                    f[1] \in faulty' \/ Complete(f[2])'
              /\ answer'[f] = "ok" /\ f[2] # Top => Complete(f[2])'
  <2>1. CASE f = e
    <3>1. job'[e] = "ended"
      BY <1>1, <1>2 DEF NetTypeOK
    <3> QED
      BY <1>2, <1>3, <1>8, <1>10, <1>11, <2>1, <3>1 DEF s
  <2>2. CASE f # e
    <3>1. \A t \in Range(Children[f[2]]) : t \in Servers
      BY <1>4, ChildType
    <3> QED
      BY <1>2, <1>4, <1>6, <1>8, <2>2, <3>1 DEF CascadeInv, Report
  <2> QED
    BY <2>1, <2>2
<1> QED
  BY <1>2, <1>8, <1>12 DEF CascadeInv

LEMMA CascadeStep == OnlyASBetween /\ NetInv /\ CascadeInv /\ [Next]_vars => CascadeInv'
<1> SUFFICES ASSUME OnlyASBetween, NetInv, CascadeInv, [Next]_vars
             PROVE  CascadeInv'
  OBVIOUS
<1>1. CASE UNCHANGED vars
  BY <1>1, LinksKeepCascade DEF vars, links
<1>2. ASSUME NEW n \in 1..Rounds, Request(n) PROVE CascadeInv'
  BY <1>2, RequestKeeps, LinksKeepCascade
<1>3. ASSUME NEW e \in Hops, Sender(e) PROVE CascadeInv'
  BY <1>3, SenderKeeps, LinksKeepCascade
<1>4. ASSUME NEW e \in Hops, Manager(e) \/ Handle(e) PROVE CascadeInv'
  BY <1>4, HandleKeepsCascade, SkipKeepsCascade, ForwardKeepsCascade,
     CollectKeepsCascade, ReturnKeepsCascade DEF Manager
<1>5. ASSUME NEW e \in Hops, AnswerPost(e) \/ AnswerGet(e) \/ Stray(e)
      PROVE  CascadeInv'
  BY <1>5, ReplyKeeps, LinksKeepCascade
<1> QED
  BY <1>1, <1>2, <1>3, <1>4, <1>5 DEF Next

(* Where only an AS passes a revocation on between Top and other servers:  *)
(* once a round without a fault has ended, every server that accepts the   *)
(* revocation from the one above it has it.                                *)
THEOREM RepeatedRequestsHeal ==
    ASSUME OnlyASBetween
    PROVE  Spec => []RepeatHeals
<1>1. NetInv /\ CascadeInv => RepeatHeals
  <2> SUFFICES ASSUME NetInv, CascadeInv, NEW n \in 1..Rounds,
                      link[<<n, Top>>] = "over", n \notin faulty
               PROVE  Top \in recorded /\ Closed(recorded)
    BY DEF RepeatHeals
  <2> DEFINE d == <<n, Top>>
  <2>1. d \in Hops /\ d[1] = n /\ d[2] = Top
    BY TreeAssumption DEF Hops
  <2> HIDE DEF d
  <2>2. job[d] = "ended" /\ answer[d] \in {"ok", "report"}
    BY <2>1 DEF NetInv, LinkInv, SpreadInv, d
  <2>3. Complete(Top)
    BY <2>1, <2>2 DEF CascadeInv
  <2>4. recorded \subseteq Under(Top)
    BY DEF NetInv, SpreadInv
  <2> QED
    BY <2>3, <2>4 DEF Complete, PassedOn, Closed
<1>2. NetInv /\ CascadeInv /\ [Next]_vars => CascadeInv'
  BY CascadeStep
<1> QED
  BY <1>1, <1>2, CascadeInit, Invariance, PTL DEF Spec
=============================================================================
