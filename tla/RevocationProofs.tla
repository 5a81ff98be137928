-------------------------- MODULE RevocationProofs --------------------------
(***************************************************************************)
(* What Revocation guarantees for every set of tokens, calls, recipients   *)
(* and dependencies, and for a clock and token lifetimes without bound.    *)
(***************************************************************************)
EXTENDS RevocationInv, TLAPS

(* Facts about the range of a sequence.                                    *)

LEMMA RangeOfOne == ASSUME NEW x PROVE Range(<<x>>) = {x}
BY DEF Range

LEMMA RangeOfEmpty == Range(<<>>) = {}
BY DEF Range

LEMMA RangeOfAppend ==
    ASSUME NEW S, NEW s \in Seq(S), NEW x \in S
    PROVE  Range(Append(s, x)) = Range(s) \cup {x}
<1>1. DOMAIN Append(s, x) = DOMAIN s \cup {Len(s) + 1}
  OBVIOUS
<1>2. /\ \A i \in DOMAIN s : Append(s, x)[i] = s[i]
      /\ Append(s, x)[Len(s) + 1] = x
  OBVIOUS
<1> QED
  BY <1>1, <1>2 DEF Range

LEMMA RangeOfTail ==
    ASSUME NEW S, NEW s \in Seq(S), s # <<>>
    PROVE  Range(s) = {Head(s)} \cup Range(Tail(s))
<1>1. /\ Len(s) \in Nat \ {0}
      /\ DOMAIN s = 1..Len(s)
      /\ DOMAIN Tail(s) = 1..(Len(s) - 1)
      /\ Head(s) = s[1]
      /\ \A i \in 1..(Len(s) - 1) : Tail(s)[i] = s[i + 1]
  OBVIOUS
<1>2. ASSUME NEW y \in Range(s) PROVE y \in {Head(s)} \cup Range(Tail(s))
  <2>1. PICK i \in 1..Len(s) : y = s[i]
    BY <1>1, <1>2 DEF Range
  <2>2. CASE i = 1
    BY <1>1, <2>1, <2>2
  <2>3. CASE i # 1
    <3>1. i - 1 \in 1..(Len(s) - 1) /\ Tail(s)[i - 1] = y
      BY <1>1, <2>1, <2>3
    <3> QED
      BY <1>1, <3>1 DEF Range
  <2> QED
    BY <2>2, <2>3
<1>3. ASSUME NEW y \in {Head(s)} \cup Range(Tail(s)) PROVE y \in Range(s)
  <2>1. CASE y = Head(s)
    BY <1>1, <2>1 DEF Range
  <2>2. CASE y \in Range(Tail(s))
    <3>1. PICK i \in 1..(Len(s) - 1) : y = Tail(s)[i]
      BY <1>1, <2>2 DEF Range
    <3>2. i + 1 \in DOMAIN s /\ s[i + 1] = y
      BY <1>1, <3>1
    <3> QED
      BY <3>2 DEF Range
  <2> QED
    BY <1>3, <2>1, <2>2
<1> QED
  BY <1>2, <1>3

LEMMA DistinctAppend ==
    ASSUME NEW S, NEW s \in Seq(S), NEW x \in S, Distinct(s), x \notin Range(s)
    PROVE  Distinct(Append(s, x))
<1>1. /\ Len(Append(s, x)) = Len(s) + 1
      /\ \A i \in 1..Len(s) : Append(s, x)[i] = s[i] /\ s[i] # x
      /\ Append(s, x)[Len(s) + 1] = x
      /\ Len(s) \in Nat
  BY DEF Range
<1> QED
  BY <1>1 DEF Distinct

LEMMA DistinctTail ==
    ASSUME NEW S, NEW s \in Seq(S), s # <<>>, Distinct(s)
    PROVE  Distinct(Tail(s)) /\ Head(s) \notin Range(Tail(s))
<1>1. /\ Len(s) \in Nat \ {0}
      /\ Len(Tail(s)) = Len(s) - 1
      /\ DOMAIN Tail(s) = 1..(Len(s) - 1)
      /\ Head(s) = s[1]
      /\ \A i \in 1..(Len(s) - 1) : Tail(s)[i] = s[i + 1]
  OBVIOUS
<1>2. Distinct(Tail(s))
  BY <1>1 DEF Distinct
<1>3. Head(s) \notin Range(Tail(s))
  BY <1>1 DEF Distinct, Range
<1> QED
  BY <1>2, <1>3
-----------------------------------------------------------------------------
(* Type correctness needs ControlInv where a call is notified: the child   *)
(* and the recipient the answer is stored under exist.                     *)

LEMMA InitType == Init => TypeOK
BY NoneAssumption DEF Init, TypeOK, Keys, Outcomes

LEMMA TypeStep == TypeOK /\ ControlInv /\ [Next]_vars => TypeOK'
<1> SUFFICES ASSUME TypeOK, ControlInv, [Next]_vars PROVE TypeOK'
  OBVIOUS
<1> USE DEF TypeOK, store, walk, notice
<1>1. CASE Tick
  BY <1>1 DEF Tick
<1>2. ASSUME NEW k \in Keys, CheckToken(k) PROVE TypeOK'
  BY <1>2 DEF CheckToken
<1>3. ASSUME NEW k \in Foreign, RecordAgent(k) PROVE TypeOK'
  BY <1>3 DEF RecordAgent
<1>4. ASSUME NEW t \in Issued, AcceptIssue(t) PROVE TypeOK'
  BY <1>4 DEF AcceptIssue
<1>5. ASSUME NEW t \in Issued, RecordIssued(t) PROVE TypeOK'
  <2>1. PICK e \in BoundedExp(t) : exp' = [exp EXCEPT ![t] = e]
    BY <1>5 DEF RecordIssued
  <2>2. e \in Nat
    BY TimeAssumption DEF BoundedExp
  <2> QED
    BY <1>5, <2>1, <2>2 DEF RecordIssued
<1>6. ASSUME NEW p \in Calls, NEW k \in Keys, NEW e \in Exps,
             NEW s \in BOOLEAN, NEW f \in BOOLEAN, Refuse(p, k, e, s, f)
      PROVE  TypeOK'
  BY <1>6 DEF Refuse
<1>7. ASSUME NEW p \in Calls, NEW k \in Keys, NEW e \in Requested(k),
             Revoke(p, k, e)
      PROVE  TypeOK'
  <2>1. e \in Nat
    BY TimeAssumption DEF Requested, Keys
  <2>2. revoked' \in [Keys -> Nat]
    BY <1>7, <2>1 DEF Revoke, Record
  <2>3. queue' \in [Calls -> Seq(Keys)]
    BY <1>7 DEF Revoke
  <2> QED
    BY <1>7, <2>2, <2>3 DEF Revoke
<1>8. ASSUME NEW p \in Calls, Pop(p) PROVE TypeOK'
  <2>1. Head(queue[p]) \in Keys /\ Tail(queue[p]) \in Seq(Keys)
    BY <1>8 DEF Pop
  <2>2. CASE Head(queue[p]) \in visited[p]
    BY <1>8, <2>1, <2>2 DEF Pop
  <2>3. CASE Head(queue[p]) \notin visited[p]
    <3>1. queue' \in [Calls -> Seq(Keys)] /\ key' \in [Calls -> Keys \cup {None}]
      BY <1>8, <2>1 DEF Pop
    <3>2. visited' \in [Calls -> SUBSET Keys] /\ todo' \in [Calls -> SUBSET Issued]
      <4>1. /\ visited' = [visited EXCEPT ![p] = @ \cup {Head(queue[p])}]
            /\ todo' = [todo EXCEPT ![p] = Snapshot(p)]
        BY <1>8, <2>3 DEF Pop
      <4>2. visited[p] \cup {Head(queue[p])} \in SUBSET Keys
        BY <2>1
      <4>3. Snapshot(p) \in SUBSET Issued
        BY DEF Snapshot
      <4> QED
        BY <4>1, <4>2, <4>3
    <3>3. UNCHANGED <<store, now, peer, running, root, agent, scheduled, notice,
                      known>>
      BY <1>8 DEF Pop
    <3>4. pc' \in [Calls -> {"idle", "refused", "pop", "scan", "notify", "await",
                             "done", "cancelled"}]
      <4>1. pc' = [pc EXCEPT ![p] = "scan"]
        BY <1>8, <2>3 DEF Pop
      <4> QED
        BY <4>1
    <3> QED
      BY <3>1, <3>2, <3>3, <3>4
  <2> QED
    BY <2>2, <2>3
<1>9. ASSUME NEW p \in Calls, NEW t \in Issued, Cascade(p, t) PROVE TypeOK'
  <2>1. t \in Keys /\ revoked' \in [Keys -> Nat]
    BY <1>9 DEF Cascade, Record, Keys
  <2>2. queue' \in [Calls -> Seq(Keys)]
    BY <1>9, <2>1 DEF Cascade
  <2>3. rest' \in [Calls -> Seq(Recipients)]
    BY <1>9, RecipientsAssumption DEF Cascade
  <2> QED
    BY <1>9, <2>1, <2>2, <2>3 DEF Cascade
<1>10. ASSUME NEW p \in Calls, SkipRecipient(p) PROVE TypeOK'
  BY <1>10 DEF SkipRecipient
<1>11. ASSUME NEW p \in Calls, Send(p) PROVE TypeOK'
  BY <1>11 DEF Send
<1>12. ASSUME NEW p \in Calls, NEW raw \in Answers, NEW got \in BOOLEAN,
              Reply(p, raw, got)
       PROVE  TypeOK'
  <2> DEFINE t == child[p]
             r == Head(rest[p])
             o == Normalised(raw)
  <2>1. t \in Issued /\ r \in Recipients /\ Tail(rest[p]) \in Seq(Recipients)
    BY <1>12 DEF Reply, Remaining, ControlInv, Notifying
  <2>2. o \in Outcomes
    BY DEF Normalised, Outcomes
  <2>3. Entry(r, o) \in Entries
    BY <2>1 DEF Entry, Entries
  <2>4. outcomes' \in [Issued -> [Recipients -> Outcomes]]
    BY <1>12, <2>1, <2>2 DEF Reply, Remaining
  <2> QED
    BY <1>12, <2>1, <2>3, <2>4 DEF Reply, Remaining
<1>13. ASSUME NEW p \in Calls, Cancel(p) PROVE TypeOK'
  BY <1>13 DEF Cancel
<1>14. ASSUME NEW p \in Calls, EndNotify(p) PROVE TypeOK'
  <2>1. \A r \in PriorSuccesses(p, child[p]) : Entry(r, "ok") \in Entries
    BY <1>14, RecipientsAssumption
       DEF EndNotify, PriorSuccesses, Entry, Entries, ControlInv, Notifying,
           Range
  <2> QED
    BY <1>14, <2>1 DEF EndNotify
<1>15. ASSUME NEW p \in Calls, EndScan(p) PROVE TypeOK'
  BY <1>15 DEF EndScan
<1>16. ASSUME NEW p \in Calls, Return(p) PROVE TypeOK'
  BY <1>16 DEF Return, Answer
<1>17. CASE UNCHANGED vars
  BY <1>17 DEF vars
<1> HIDE DEF TypeOK, store, walk, notice
<1> QED
  BY <1>1, <1>2, <1>3, <1>4, <1>5, <1>6, <1>7, <1>8, <1>9, <1>10, <1>11,
     <1>12, <1>13, <1>14, <1>15, <1>16, <1>17
     DEF Next, Host, Requests, Compute, Answered

-----------------------------------------------------------------------------
LEMMA InitControl == Init => ControlInv
BY DEF Init, ControlInv, Notifying

LEMMA ControlStep ==
    TypeOK /\ ControlInv /\ QueueInv /\ [Next]_vars => ControlInv'
<1> SUFFICES ASSUME TypeOK, ControlInv, QueueInv, [Next]_vars
             PROVE  ControlInv'
  OBVIOUS
<1> USE DEF ControlInv, Notifying, store, walk, notice
<1>1. ASSUME \/ Tick
             \/ \E k \in Keys : CheckToken(k)
             \/ \E k \in Foreign : RecordAgent(k)
             \/ \E t \in Issued : AcceptIssue(t)
             \/ UNCHANGED vars
      PROVE  ControlInv'
  <2>1. UNCHANGED <<child, registered, scheduled, pc, rest, queue, known, todo>>
    BY <1>1 DEF Tick, CheckToken, RecordAgent, AcceptIssue, vars
  <2> QED
    BY <2>1
<1>2. ASSUME NEW t \in Issued, RecordIssued(t) PROVE ControlInv'
  BY <1>2 DEF RecordIssued
<1>3. ASSUME NEW p \in Calls, NEW k \in Keys, NEW e \in Exps,
             NEW s \in BOOLEAN, NEW f \in BOOLEAN, Refuse(p, k, e, s, f)
      PROVE  ControlInv'
  BY <1>3 DEF Refuse, TypeOK
<1>4. ASSUME NEW p \in Calls, NEW k \in Keys, NEW e \in Requested(k),
             Revoke(p, k, e)
      PROVE  ControlInv'
  BY <1>4 DEF Revoke, TypeOK
<1>5. ASSUME NEW p \in Calls, Pop(p) PROVE ControlInv'
  <2>1. /\ UNCHANGED <<child, registered, scheduled, rest, known>>
        /\ queue' = [queue EXCEPT ![p] = Tail(@)]
        /\ pc[p] = "pop"
        /\ \/ pc' = pc /\ todo' = todo
           \/ /\ pc' = [pc EXCEPT ![p] = "scan"]
              /\ todo' = [todo EXCEPT ![p] = registered]
    BY <1>5 DEF Pop, Snapshot
  <2> QED
    BY <2>1 DEF TypeOK
<1>6. ASSUME NEW p \in Calls, NEW t \in Issued, Cascade(p, t) PROVE ControlInv'
  <2>1. /\ pc' = [pc EXCEPT ![p] = "notify"]
        /\ child' = [child EXCEPT ![p] = t]
        /\ scheduled' = [scheduled EXCEPT ![p] = @ \cup {t}]
        /\ queue' = [queue EXCEPT ![p] = Append(@, t)]
        /\ rest' = [rest EXCEPT ![p] = RecipientsOf[t]]
        /\ UNCHANGED <<registered, known, todo>>
        /\ pc[p] = "scan" /\ t \in todo[p]
    BY <1>6 DEF Cascade
  <2>2. t \in registered
    BY <2>1
  <2> QED
    BY <2>1, <2>2 DEF TypeOK
<1>7. ASSUME NEW p \in Calls, SkipRecipient(p) PROVE ControlInv'
  BY <1>7 DEF SkipRecipient, TypeOK
<1>8. ASSUME NEW p \in Calls, Send(p) PROVE ControlInv'
  BY <1>8 DEF Send, TypeOK
<1>9. ASSUME NEW p \in Calls, NEW raw \in Answers, NEW got \in BOOLEAN,
             Reply(p, raw, got)
      PROVE  ControlInv'
  BY <1>9 DEF Reply, Remaining, TypeOK
<1>10. ASSUME NEW p \in Calls, Cancel(p) PROVE ControlInv'
  BY <1>10 DEF Cancel, TypeOK
<1>11. ASSUME NEW p \in Calls, EndNotify(p) PROVE ControlInv'
  BY <1>11 DEF EndNotify, TypeOK
<1>12. ASSUME NEW p \in Calls, EndScan(p) PROVE ControlInv'
  BY <1>12 DEF EndScan, TypeOK
<1>13. ASSUME NEW p \in Calls, Return(p) PROVE ControlInv'
  BY <1>13 DEF Return, TypeOK
<1> HIDE DEF ControlInv, Notifying, store, walk, notice
<1> QED
  BY <1>1, <1>2, <1>3, <1>4, <1>5, <1>6, <1>7, <1>8, <1>9, <1>10, <1>11,
     <1>12, <1>13
     DEF Next, Host, Requests, Compute, Answered
-----------------------------------------------------------------------------
LEMMA InitQueue == Init => QueueInv
BY RangeOfEmpty DEF Init, QueueInv, Distinct

LEMMA QueueStep ==
    TypeOK /\ ControlInv /\ QueueInv /\ [Next]_vars => QueueInv'
<1> SUFFICES ASSUME TypeOK, ControlInv, QueueInv, [Next]_vars
             PROVE  QueueInv'
  OBVIOUS
<1> USE DEF QueueInv, store, walk, notice
<1>1. ASSUME \/ Tick
             \/ \E k \in Keys : CheckToken(k)
             \/ \E k \in Foreign : RecordAgent(k)
             \/ \E t \in Issued : AcceptIssue(t) \/ RecordIssued(t)
             \/ \E p \in Calls : SkipRecipient(p)
             \/ UNCHANGED vars
      PROVE  QueueInv'
  <2>1. UNCHANGED <<scheduled, visited, queue, pc>>
    BY <1>1 DEF Tick, CheckToken, RecordAgent, AcceptIssue, RecordIssued,
                SkipRecipient, vars
  <2> QED
    BY <2>1
<1>2. ASSUME NEW p \in Calls, NEW k \in Keys, NEW e \in Requested(k),
             Revoke(p, k, e)
      PROVE  QueueInv'
  <2>1. /\ queue' = [queue EXCEPT ![p] = <<k>>]
        /\ scheduled' = [scheduled EXCEPT ![p] = {k}]
        /\ visited' = visited
        /\ pc' = [pc EXCEPT ![p] = "pop"]
        /\ visited[p] = {}
    BY <1>2 DEF Revoke, ControlInv
  <2>2. Range(<<k>>) = {k} /\ Distinct(<<k>>)
    BY RangeOfOne DEF Distinct
  <2> QED
    BY <2>1, <2>2 DEF TypeOK
<1>3. ASSUME NEW p \in Calls, Pop(p) PROVE QueueInv'
  <2> DEFINE k == Head(queue[p])
  <2>1. /\ queue[p] \in Seq(Keys) /\ queue[p] # <<>>
        /\ queue' = [queue EXCEPT ![p] = Tail(@)]
        /\ scheduled' = scheduled
        /\ pc[p] = "pop"
        /\ \A q \in Calls : pc'[q] = "cancelled" <=> pc[q] = "cancelled"
    BY <1>3 DEF Pop, TypeOK
  <2>2. /\ Range(queue[p]) = {k} \cup Range(Tail(queue[p]))
        /\ k \notin Range(Tail(queue[p]))
        /\ Distinct(Tail(queue[p]))
    BY <2>1, RangeOfTail, DistinctTail
  <2>3. visited' = [visited EXCEPT ![p] = @ \cup {k}]
    BY <1>3, <2>2 DEF Pop
  <2> QED
    BY <2>1, <2>2, <2>3 DEF TypeOK
<1>4. ASSUME NEW p \in Calls, NEW t \in Issued, Cascade(p, t) PROVE QueueInv'
  <2>1. /\ queue[p] \in Seq(Keys) /\ t \in Keys
        /\ queue' = [queue EXCEPT ![p] = Append(@, t)]
        /\ scheduled' = [scheduled EXCEPT ![p] = @ \cup {t}]
        /\ visited' = visited
        /\ pc' = [pc EXCEPT ![p] = "notify"]
        /\ pc[p] = "scan"
        /\ t \notin scheduled[p]
    BY <1>4 DEF Cascade, Hit, TypeOK, Keys
  <2>2. /\ Range(Append(queue[p], t)) = Range(queue[p]) \cup {t}
        /\ Distinct(Append(queue[p], t))
    BY <2>1, RangeOfAppend, DistinctAppend
  <2> QED
    BY <2>1, <2>2 DEF TypeOK
<1>5. ASSUME NEW p \in Calls, Cancel(p) PROVE QueueInv'
  BY <1>5, RangeOfEmpty DEF Cancel, Distinct, TypeOK
<1>6. ASSUME NEW p \in Calls,
             \/ \E k \in Keys, e \in Exps, s, f \in BOOLEAN :
                  Refuse(p, k, e, s, f)
             \/ Send(p)
             \/ \E raw \in Answers, got \in BOOLEAN : Reply(p, raw, got)
             \/ EndNotify(p) \/ EndScan(p) \/ Return(p)
      PROVE  QueueInv'
  <2>1. /\ UNCHANGED <<scheduled, visited, queue>>
        /\ \A q \in Calls : pc'[q] = "cancelled" <=> pc[q] = "cancelled"
    BY <1>6 DEF Refuse, Send, Reply, Remaining, EndNotify, EndScan, Return, TypeOK
  <2> QED
    BY <2>1
<1> HIDE DEF QueueInv, store, walk, notice
<1> QED
  BY <1>1, <1>2, <1>3, <1>4, <1>5, <1>6
     DEF Next, Host, Requests, Compute, Answered
-----------------------------------------------------------------------------
LEMMA InitWalk == Init => WalkInv
BY DEF Init, WalkInv

LEMMA WalkStep ==
    TypeOK /\ ControlInv /\ QueueInv /\ WalkInv /\ [Next]_vars => WalkInv'
<1> SUFFICES ASSUME TypeOK, ControlInv, QueueInv, WalkInv, [Next]_vars,
                    NEW q \in Calls, NEW k \in visited'[q], NEW t \in known'[q],
                    pc'[q] # "cancelled", Live(t)', Affected(q, k, t)'
             PROVE  (\/ t \in scheduled[q]
                     \/ Scanning(q) /\ k = key[q] /\ t \in todo[q])'
  BY DEF WalkInv
<1> USE DEF store, walk, notice
<1> DEFINE Goal == (\/ t \in scheduled[q]
                    \/ Scanning(q) /\ k = key[q] /\ t \in todo[q])'
(* Steps that leave the walk of every call alone, or let tokens expire.    *)
<1>1. ASSUME UNCHANGED <<visited, known, agent, scheduled, key, todo>>,
             \A t1 \in registered : Live(t1)' => Live(t1),
             \A p \in Calls : Scanning(p) => Scanning(p)' \/ pc'[p] = "cancelled",
             \A p \in Calls : pc[p] = "cancelled" => pc'[p] = "cancelled"
      PROVE  Goal
  BY <1>1 DEF WalkInv, ControlInv, Affected
<1>2. ASSUME Tick PROVE Goal
  BY <1>1, <1>2 DEF Tick, Live, Scanning, TypeOK
<1>3. ASSUME \/ \E k1 \in Keys : CheckToken(k1)
             \/ \E k1 \in Foreign : RecordAgent(k1)
             \/ \E t1 \in Issued : AcceptIssue(t1)
             \/ UNCHANGED vars
      PROVE  Goal
  BY <1>1, <1>3 DEF CheckToken, RecordAgent, AcceptIssue, vars, Live, Scanning
<1>4. ASSUME NEW t1 \in Issued, RecordIssued(t1) PROVE Goal
  <2>1. /\ UNCHANGED <<visited, known, agent, scheduled, key, todo, pc, now>>
        /\ \A t2 \in registered : exp'[t2] = exp[t2]
    BY <1>4 DEF RecordIssued, TypeOK
  <2> QED
    BY <1>1, <2>1 DEF Live, Scanning
<1>5. ASSUME NEW p \in Calls, NEW k1 \in Keys, NEW e \in Requested(k1),
             Revoke(p, k1, e)
      PROVE  Goal
  <2>1. /\ UNCHANGED <<visited, key, todo, exp, now>>
        /\ pc[p] = "idle" /\ visited[p] = {}
        /\ \A p1 \in Calls \ {p} :
             /\ known'[p1] = known[p1] /\ agent'[p1] = agent[p1]
             /\ scheduled'[p1] = scheduled[p1] /\ pc'[p1] = pc[p1]
    BY <1>5 DEF Revoke, ControlInv, QueueInv, TypeOK
  <2>2. q # p
    BY <2>1
  <2> QED
    BY <2>1, <2>2 DEF WalkInv, Affected, Live, Scanning
<1>6. ASSUME NEW p \in Calls, Pop(p) PROVE Goal
  <2> DEFINE h == Head(queue[p])
  <2>1. /\ queue[p] \in Seq(Keys) /\ queue[p] # <<>>
        /\ pc[p] = "pop"
        /\ UNCHANGED <<known, agent, scheduled, exp, now>>
        /\ \A p1 \in Calls \ {p} :
             /\ visited'[p1] = visited[p1] /\ key'[p1] = key[p1]
             /\ todo'[p1] = todo[p1] /\ pc'[p1] = pc[p1]
    BY <1>6 DEF Pop, TypeOK
  <2>2. CASE q # p
    BY <2>1, <2>2 DEF WalkInv, Affected, Live, Scanning
  <2>3. CASE q = p
    <3>1. h \in Range(queue[p])
      BY <2>1, RangeOfTail
    <3>2. h \notin visited[p]
      BY <3>1 DEF QueueInv
    <3>3. /\ key'[p] = h
          /\ visited'[p] = visited[p] \cup {h}
          /\ todo'[p] = registered
          /\ pc'[p] = "scan"
      BY <1>6, <3>2 DEF Pop, Snapshot, TypeOK
    <3>4. t \in registered
      BY <2>1, <2>3 DEF ControlInv
    <3>5. CASE k = h
      BY <2>3, <3>3, <3>4, <3>5 DEF Scanning
    <3>6. CASE k \in visited[p]
      BY <2>1, <2>3, <3>6 DEF WalkInv, Affected, Live, Scanning
    <3> QED
      BY <2>3, <3>3, <3>5, <3>6
  <2> QED
    BY <2>2, <2>3
<1>7. ASSUME NEW p \in Calls, NEW t1 \in Issued, Cascade(p, t1) PROVE Goal
  <2>1. /\ UNCHANGED <<visited, known, agent, key, todo, exp, now>>
        /\ \A p1 \in Calls : scheduled[p1] \subseteq scheduled'[p1]
        /\ \A p1 \in Calls : Scanning(p1) => Scanning(p1)'
        /\ \A p1 \in Calls : pc[p1] = "cancelled" => pc'[p1] = "cancelled"
    BY <1>7 DEF Cascade, Scanning, TypeOK
  <2> QED
    BY <2>1 DEF WalkInv, Affected, Live
<1>8. ASSUME NEW p \in Calls, EndScan(p) PROVE Goal
  <2>1. /\ UNCHANGED <<visited, known, agent, scheduled, exp, now>>
        /\ pc[p] = "scan"
        /\ \A t1 \in todo[p] : ~ Hit(p, t1)
        /\ \A p1 \in Calls \ {p} :
             /\ key'[p1] = key[p1] /\ todo'[p1] = todo[p1] /\ pc'[p1] = pc[p1]
    BY <1>8 DEF EndScan, TypeOK
  <2>2. Live(t) /\ Affected(q, k, t)
    BY <2>1 DEF Live, Affected
  <2>3. CASE q # p
    BY <2>1, <2>2, <2>3 DEF WalkInv, Scanning
  <2>4. CASE q = p
    BY <2>1, <2>2, <2>4 DEF WalkInv, Hit
  <2> QED
    BY <2>3, <2>4
<1>9. ASSUME NEW p \in Calls, Cancel(p) PROVE Goal
  <2>1. /\ UNCHANGED <<visited, known, agent, scheduled, exp, now>>
        /\ pc'[p] = "cancelled"
        /\ \A p1 \in Calls \ {p} :
             /\ key'[p1] = key[p1] /\ todo'[p1] = todo[p1] /\ pc'[p1] = pc[p1]
    BY <1>9 DEF Cancel, TypeOK
  <2> QED
    BY <2>1 DEF WalkInv, Affected, Live, Scanning
<1>10. ASSUME NEW p \in Calls,
              \/ \E k1 \in Keys, e \in Exps, s, f \in BOOLEAN :
                   Refuse(p, k1, e, s, f)
              \/ SkipRecipient(p) \/ Send(p) \/ EndNotify(p) \/ Return(p)
              \/ \E raw \in Answers, got \in BOOLEAN : Reply(p, raw, got)
       PROVE  Goal
  <2>1. /\ UNCHANGED <<visited, known, agent, scheduled, key, todo, exp, now>>
        /\ \A p1 \in Calls : Scanning(p1) => Scanning(p1)'
        /\ \A p1 \in Calls : pc[p1] = "cancelled" => pc'[p1] = "cancelled"
    BY <1>10 DEF Refuse, SkipRecipient, Send, EndNotify, Return, Reply, Remaining,
                 Scanning, TypeOK
  <2> QED
    BY <1>1, <2>1 DEF Live
<1> HIDE DEF Goal, store, walk, notice
<1>11. Goal
  BY <1>2, <1>3, <1>4, <1>5, <1>6, <1>7, <1>8, <1>9, <1>10
     DEF Next, Host, Requests, Compute, Answered
<1> QED
  BY <1>11 DEF Goal
-----------------------------------------------------------------------------
LEMMA InitCover == Init => CoverInv
BY DEF Init, CoverInv

(* No step takes a registered token's cover away: clocks do not run back,  *)
(* record keeps the later expiration, is_revoked drops a lapsed one only.  *)
LEMMA CoverKept ==
    ASSUME TypeOK, [Next]_vars, NEW t \in registered
    PROVE  /\ t \in registered' /\ exp'[t] = exp[t]
           /\ Covered(t) => Covered(t)'
<1> USE DEF store, walk, notice
<1> DEFINE Goal == /\ t \in registered' /\ exp'[t] = exp[t]
                   /\ Covered(t) => Covered(t)'
<1>1. /\ t \in Issued /\ t \in Keys /\ now \in Nat
      /\ revoked[t] \in Nat /\ exp[t] \in Nat
  BY DEF TypeOK, Keys
<1>2. ASSUME Tick PROVE Goal
  BY <1>1, <1>2 DEF Tick, Covered
<1>3. ASSUME NEW k \in Keys, CheckToken(k) PROVE Goal
  <2>1. /\ revoked'[t] = revoked[t] \/ (t = k /\ revoked'[t] = 0)
        /\ UNCHANGED <<registered, exp, now>>
        /\ now > revoked[k]
    BY <1>1, <1>3 DEF CheckToken, Lapsed, TypeOK
  <2> QED
    BY <1>1, <2>1 DEF Covered
<1>4. ASSUME NEW t1 \in Issued, RecordIssued(t1) PROVE Goal
  BY <1>1, <1>4 DEF RecordIssued, Covered, TypeOK
<1>5. ASSUME NEW p \in Calls, NEW k \in Keys, NEW e \in Requested(k),
             Revoke(p, k, e)
      PROVE  Goal
  <2>1. e \in Nat
    BY TimeAssumption DEF Requested, TypeOK, Keys
  <2>2. /\ UNCHANGED <<registered, exp, now>>
        /\ revoked'[t] = revoked[t] \/ (revoked'[t] = e /\ e > revoked[t])
    BY <1>1, <1>5, <2>1 DEF Revoke, Record, TypeOK
  <2> QED
    BY <1>1, <2>1, <2>2 DEF Covered
<1>6. ASSUME NEW p \in Calls, NEW t1 \in Issued, Cascade(p, t1) PROVE Goal
  <2>1. exp[t1] \in Nat
    BY DEF TypeOK
  <2>2. /\ UNCHANGED <<registered, exp, now>>
        /\ \/ revoked'[t] = revoked[t]
           \/ revoked'[t] = exp[t1] /\ exp[t1] > revoked[t]
    BY <1>1, <1>6, <2>1 DEF Cascade, Record, TypeOK
  <2> QED
    BY <1>1, <2>1, <2>2 DEF Covered
<1>7. ASSUME \/ \E k \in Foreign : RecordAgent(k)
             \/ \E t1 \in Issued : AcceptIssue(t1)
             \/ \E p \in Calls :
                  \/ \E k \in Keys, e \in Exps, s, f \in BOOLEAN :
                       Refuse(p, k, e, s, f)
                  \/ Pop(p) \/ SkipRecipient(p) \/ Send(p) \/ EndNotify(p)
                  \/ EndScan(p) \/ Return(p) \/ Cancel(p)
                  \/ \E raw \in Answers, got \in BOOLEAN : Reply(p, raw, got)
             \/ UNCHANGED vars
      PROVE  Goal
  <2>1. UNCHANGED <<registered, exp, now, revoked>>
    BY <1>7 DEF RecordAgent, AcceptIssue, Refuse, Pop, SkipRecipient, Send,
                EndNotify, EndScan, Return, Cancel, Reply, Remaining, vars
  <2> QED
    BY <2>1 DEF Covered
<1> HIDE DEF Goal, store, walk, notice
<1>8. Goal
  BY <1>2, <1>3, <1>4, <1>5, <1>6, <1>7
     DEF Next, Host, Requests, Compute, Answered
<1> QED
  BY <1>8 DEF Goal

LEMMA CoverStep ==
    TypeOK /\ ControlInv /\ CoverInv /\ [Next]_vars => CoverInv'
<1> SUFFICES ASSUME TypeOK, ControlInv, CoverInv, [Next]_vars
             PROVE  CoverInv'
  OBVIOUS
<1> USE DEF store, walk, notice
<1>0. \A t \in registered : /\ t \in registered' /\ exp'[t] = exp[t]
                            /\ Covered(t) => Covered(t)'
  BY CoverKept
(* Steps that schedule nothing and tell nobody.                            *)
<1>1. ASSUME scheduled' = scheduled, peer' = peer PROVE CoverInv'
  BY <1>0, <1>1 DEF CoverInv
<1>2. ASSUME NEW p \in Calls, NEW k \in Keys, NEW e \in Requested(k),
             Revoke(p, k, e)
      PROVE  CoverInv'
  <2>1. /\ scheduled' = [scheduled EXCEPT ![p] = {k}]
        /\ peer' = peer
        /\ UNCHANGED <<registered, exp, now>>
        /\ revoked' = Record(revoked, k, e)
    BY <1>2 DEF Revoke
  <2>2. ASSUME k \in Issued PROVE k \in registered' /\ Covered(k)'
    <3>1. k \in registered /\ e = exp[k] /\ k \notin Foreign
      BY <2>2, KeysAssumption DEF Requested
    <3>2. revoked'[k] >= exp[k]
      BY <2>1, <2>2, <3>1 DEF Record, TypeOK, Keys
    <3> QED
      BY <2>1, <3>1, <3>2 DEF Covered
  <2>3. \A q \in Calls : scheduled'[q] \subseteq scheduled[q] \cup {k}
    BY <2>1 DEF TypeOK
  <2> QED
    BY <1>0, <2>1, <2>2, <2>3 DEF CoverInv
<1>3. ASSUME NEW p \in Calls, NEW t \in Issued, Cascade(p, t) PROVE CoverInv'
  <2>1. /\ scheduled' = [scheduled EXCEPT ![p] = @ \cup {t}]
        /\ peer' = peer
        /\ UNCHANGED <<registered, exp, now>>
        /\ revoked' = Record(revoked, t, exp[t])
        /\ t \in todo[p]
    BY <1>3 DEF Cascade
  <2>2. t \in registered' /\ Covered(t)'
    <3>1. revoked'[t] >= exp[t]
      BY <2>1 DEF Record, TypeOK, Keys
    <3> QED
      BY <2>1, <3>1 DEF Covered, ControlInv
  <2>3. \A q \in Calls : scheduled'[q] \subseteq scheduled[q] \cup {t}
    BY <2>1 DEF TypeOK
  <2> QED
    BY <1>0, <2>1, <2>2, <2>3 DEF CoverInv
<1>4. ASSUME NEW p \in Calls, NEW raw \in Answers, NEW got \in BOOLEAN,
             Reply(p, raw, got)
      PROVE  CoverInv'
  <2>1. /\ scheduled' = scheduled
        /\ peer' \subseteq peer \cup {<<child[p], Head(rest[p])>>}
        /\ pc[p] = "await"
    BY <1>4 DEF Reply, Remaining
  <2>2. child[p] \in registered \cap scheduled[p] /\ child[p] \in Issued
    BY <2>1 DEF ControlInv, Notifying, TypeOK
  <2> QED
    BY <1>0, <2>1, <2>2 DEF CoverInv
<1>5. ASSUME \/ Tick
             \/ \E k \in Keys : CheckToken(k)
             \/ \E k \in Foreign : RecordAgent(k)
             \/ \E t1 \in Issued : AcceptIssue(t1) \/ RecordIssued(t1)
             \/ \E p \in Calls :
                  \/ \E k \in Keys, e \in Exps, s, f \in BOOLEAN :
                       Refuse(p, k, e, s, f)
                  \/ Pop(p) \/ SkipRecipient(p) \/ Send(p) \/ EndNotify(p)
                  \/ EndScan(p) \/ Return(p) \/ Cancel(p)
             \/ UNCHANGED vars
      PROVE  CoverInv'
  BY <1>1, <1>5 DEF Tick, CheckToken, RecordAgent, AcceptIssue, RecordIssued,
                    Refuse, Pop, SkipRecipient, Send, EndNotify, EndScan,
                    Return, Cancel, vars
<1> HIDE DEF store, walk, notice
<1> QED
  BY <1>2, <1>3, <1>4, <1>5 DEF Next, Host, Requests, Compute, Answered
-----------------------------------------------------------------------------
(* The inductive invariant: where every call is in its loops fixes its     *)
(* queue, what is left to scan, and what is on record.                     *)
THEOREM Invariance == Spec => []IInv
<1>1. Init => IInv
  BY InitType, InitControl, InitQueue, InitWalk, InitCover DEF IInv
<1>2. IInv /\ [Next]_vars => IInv'
  BY TypeStep, ControlStep, QueueStep, WalkStep, CoverStep DEF IInv
<1> QED
  BY <1>1, <1>2, PTL DEF Spec

(* Every variable keeps its type.                                          *)
THEOREM TypeCorrect == Spec => []TypeOK
<1>1. IInv => TypeOK
  BY DEF IInv
<1> QED
  BY <1>1, Invariance, PTL

(* No recipient is told of, or has recorded, a revocation that this server *)
(* does not enforce for the rest of the token's life (revocation.py:230).  *)
THEOREM RecordedFirst == Spec => []RecordedBeforeSend
<1>1. IInv => RecordedBeforeSend
  <2> SUFFICES ASSUME IInv PROVE RecordedBeforeSend
    OBVIOUS
  <2>1. ASSUME NEW p \in Calls, pc[p] = "await" PROVE Covered(child[p])
    <3>1. child[p] \in scheduled[p] \cap Issued
      BY <2>1 DEF IInv, ControlInv, Notifying, TypeOK
    <3> QED
      BY <3>1 DEF IInv, CoverInv
  <2> QED
    BY <2>1 DEF IInv, CoverInv, RecordedBeforeSend
<1> QED
  BY <1>1, Invariance, PTL

(* A call of revoke that returned left no live token it knew of and that   *)
(* its cascade affects unrevoked, for every interleaving with other calls, *)
(* cancelled ones included (revocation.py:221-233).                        *)
THEOREM CascadesComplete == Spec => []CascadeComplete
<1>1. IInv => CascadeComplete
  <2> SUFFICES ASSUME IInv, NEW p \in Calls, pc[p] = "done",
                      NEW d \in scheduled[p], NEW t \in known[p],
                      Live(t), Affected(p, d, t)
               PROVE  t \in scheduled[p] /\ IsRevoked(t)
    BY DEF CascadeComplete
  <2>1. d \in visited[p]
    BY RangeOfEmpty DEF IInv, ControlInv, QueueInv
  <2>2. t \in scheduled[p]
    BY <2>1 DEF IInv, WalkInv, Scanning
  <2>3. t \in Issued /\ Covered(t)
    BY <2>2 DEF IInv, CoverInv, TypeOK
  <2>4. IsRevoked(t)
    BY <2>3 DEF IInv, TypeOK, Covered, Live, IsRevoked, Lapsed, Keys
  <2> QED
    BY <2>2, <2>4
<1> QED
  BY <1>1, Invariance, PTL

(* A revocation in force is never ended before its expiration              *)
(* (revocation.py:148-160).                                                *)
THEOREM RevocationsHold == Spec => RevocationHolds
<1> DEFINE Kept == \A k \in Keys : revoked[k] # 0 /\ now' <= revoked[k]
                                     => revoked'[k] >= revoked[k]
<1>1. IInv /\ [Next]_vars => [Kept]_vars
  <2> SUFFICES ASSUME TypeOK, Next, NEW k \in Keys,
                      revoked[k] # 0, now' <= revoked[k]
               PROVE  revoked'[k] >= revoked[k]
    BY DEF IInv
  <2> USE DEF store, walk, notice
  <2>1. revoked[k] \in Nat /\ now \in Nat
    BY DEF TypeOK
  <2>2. ASSUME NEW k1 \in Keys, CheckToken(k1) PROVE revoked'[k] >= revoked[k]
    BY <2>1, <2>2 DEF CheckToken, Lapsed, TypeOK
  <2>3. ASSUME NEW p \in Calls, NEW k1 \in Keys, NEW e \in Requested(k1),
               Revoke(p, k1, e)
        PROVE  revoked'[k] >= revoked[k]
    <3>1. e \in Nat
      BY TimeAssumption DEF Requested, TypeOK, Keys
    <3> QED
      BY <2>1, <2>3, <3>1 DEF Revoke, Record, TypeOK
  <2>4. ASSUME NEW p \in Calls, NEW t \in Issued, Cascade(p, t)
        PROVE  revoked'[k] >= revoked[k]
    <3>1. exp[t] \in Nat
      BY DEF TypeOK
    <3> QED
      BY <2>1, <2>4, <3>1 DEF Cascade, Record, TypeOK
  <2>5. ASSUME revoked' = revoked PROVE revoked'[k] >= revoked[k]
    BY <2>1, <2>5
  <2>6. ASSUME \/ Tick
               \/ \E k1 \in Foreign : RecordAgent(k1)
               \/ \E t1 \in Issued : AcceptIssue(t1) \/ RecordIssued(t1)
               \/ \E p \in Calls :
                    \/ \E k1 \in Keys, e \in Exps, s, f \in BOOLEAN :
                         Refuse(p, k1, e, s, f)
                    \/ Pop(p) \/ SkipRecipient(p) \/ Send(p) \/ EndNotify(p)
                    \/ EndScan(p) \/ Return(p) \/ Cancel(p)
                    \/ \E raw \in Answers, got \in BOOLEAN : Reply(p, raw, got)
        PROVE  revoked'[k] >= revoked[k]
    BY <2>5, <2>6 DEF Tick, RecordAgent, AcceptIssue, RecordIssued, Refuse, Pop,
                      SkipRecipient, Send, EndNotify, EndScan, Return, Cancel,
                      Reply, Remaining
  <2> HIDE DEF store, walk, notice
  <2> QED
    BY <2>2, <2>3, <2>4, <2>6 DEF Next, Host, Requests, Compute, Answered
<1>2. RevocationHolds <=> [][Kept]_vars
  BY PTL DEF RevocationHolds
<1> QED
  BY <1>1, <1>2, Invariance, PTL DEF Spec
-----------------------------------------------------------------------------
(* Closure needs the host to check and record in one turn.                 *)

LEMMA ClosureStep ==
    ASSUME ~ DeferredIssue
    PROVE  IInv /\ ClosureInv /\ [Next]_vars => ClosureInv'
<1> SUFFICES ASSUME IInv, ClosureInv, [Next]_vars,
                    NEW t \in registered', NEW d \in Deps[t],
                    IsRevoked(d)', Live(t)'
             PROVE  (revoked[t] >= exp[t])' \/ \E p \in Calls : Pending(p, d, t)'
  BY DEF ClosureInv
<1> USE DEF store, walk, notice
<1> DEFINE Goal == (revoked[t] >= exp[t])' \/ \E p \in Calls : Pending(p, d, t)'
<1>0. /\ TypeOK /\ ControlInv /\ QueueInv /\ CoverInv
      /\ t \in Issued /\ t \in Keys /\ d \in Keys
  <2>1. TypeOK /\ ControlInv /\ QueueInv /\ CoverInv /\ WalkInv
    BY DEF IInv
  <2>2. TypeOK'
    BY <2>1, TypeStep
  <2> QED
    BY <2>1, <2>2, DepsAssumption DEF TypeOK, Keys
<1>1. t \in registered => /\ exp'[t] = exp[t]
                          /\ Covered(t) => Covered(t)'
  BY <1>0, CoverKept
(* A token that was covered still is, and it is live.                      *)
<1>2. ASSUME Covered(t), t \in registered PROVE Goal
  <2>1. Covered(t)' /\ now' \in Nat /\ exp'[t] \in Nat
    BY <1>1, <1>2, <1>0, TypeStep DEF TypeOK
  <2> QED
    BY <2>1 DEF Covered, Live
(* What was pending for a pair that was at risk before the step.           *)
<1>3. ASSUME t \in registered, IsRevoked(d), Live(t), ~ Covered(t)
      PROVE  \E p \in Calls : Pending(p, d, t)
  BY <1>3, <1>0 DEF ClosureInv, Covered
<1>4. ASSUME t \in registered, IsRevoked(d), Live(t),
             \A p \in Calls : Pending(p, d, t) => Pending(p, d, t)'
      PROVE  Goal
  BY <1>2, <1>3, <1>4
<1>5. ASSUME Tick PROVE Goal
  <2>1. t \in registered /\ IsRevoked(d) /\ Live(t)
    BY <1>0, <1>5 DEF Tick, IsRevoked, Lapsed, Live, TypeOK
  <2> QED
    BY <1>4, <1>5, <2>1 DEF Tick, Pending, Scanning
<1>6. ASSUME NEW k \in Keys, CheckToken(k) PROVE Goal
  <2>1. t \in registered /\ IsRevoked(d) /\ Live(t)
    BY <1>0, <1>6 DEF CheckToken, IsRevoked, Lapsed, Live, TypeOK
  <2> QED
    BY <1>4, <1>6, <2>1 DEF CheckToken, Pending, Scanning
<1>7. ASSUME NEW t1 \in Issued, RecordIssued(t1) PROVE Goal
  <2>1. UNCHANGED <<revoked, now, pc, scheduled, queue, key, todo>>
    BY <1>7 DEF RecordIssued
  <2>2. IsRevoked(d)
    BY <2>1 DEF IsRevoked, Lapsed
  <2>3. t # t1
    BY <1>7, <2>2 DEF RecordIssued, DepsUsable
  <2>4. t \in registered /\ exp'[t] = exp[t]
    BY <1>1, <1>7, <2>3 DEF RecordIssued
  <2> QED
    BY <1>4, <2>1, <2>2, <2>4 DEF Live, Pending, Scanning
<1>8. ASSUME NEW p \in Calls, NEW k \in Keys, NEW e \in Requested(k),
             Revoke(p, k, e)
      PROVE  Goal
  <2>1. /\ UNCHANGED <<registered, exp, now, key, todo>>
        /\ pc[p] = "idle"
        /\ queue'[p] = <<k>> /\ scheduled'[p] = {k}
        /\ \A q \in Calls \ {p} : /\ queue'[q] = queue[q] /\ pc'[q] = pc[q]
                                  /\ scheduled'[q] = scheduled[q]
    BY <1>8, <1>0 DEF Revoke, TypeOK
  <2>2. CASE d = k
    <3>1. Pending(p, d, t)'
      BY <2>1, <2>2, RangeOfOne DEF Pending
    <3> QED
      BY <3>1
  <2>3. CASE d # k
    <3>1. IsRevoked(d) /\ Live(t)
      BY <1>0, <1>8, <2>1, <2>3 DEF Revoke, Record, IsRevoked, Lapsed, Live, TypeOK
    <3>2. \A q \in Calls : Pending(q, d, t) => Pending(q, d, t)'
      BY <2>1, <1>0 DEF Pending, Scanning, ControlInv
    <3> QED
      BY <1>4, <2>1, <3>1, <3>2
  <2> QED
    BY <2>2, <2>3
<1>9. ASSUME NEW p \in Calls, Pop(p) PROVE Goal
  <2> DEFINE h == Head(queue[p])
  <2>1. /\ queue[p] \in Seq(Keys) /\ queue[p] # <<>>
        /\ pc[p] = "pop"
        /\ UNCHANGED <<revoked, registered, scheduled, exp, now>>
        /\ queue'[p] = Tail(queue[p])
        /\ key'[p] = h
        /\ \A q \in Calls \ {p} :
             /\ queue'[q] = queue[q] /\ key'[q] = key[q]
             /\ todo'[q] = todo[q] /\ pc'[q] = pc[q]
    BY <1>9, <1>0 DEF Pop, TypeOK
  <2>2. Range(queue[p]) = {h} \cup Range(Tail(queue[p]))
    BY <2>1, RangeOfTail
  <2>3. h \notin visited[p]
    BY <2>2, <1>0 DEF QueueInv
  <2>4. pc'[p] = "scan" /\ todo'[p] = registered
    BY <1>9, <2>3, <1>0 DEF Pop, Snapshot, TypeOK
  <2>5. \A q \in Calls : Pending(q, d, t) => Pending(q, d, t)'
    BY <2>1, <2>2, <2>4 DEF Pending, Scanning
  <2> QED
    BY <1>4, <2>1, <2>5 DEF IsRevoked, Lapsed, Live
<1>10. ASSUME NEW p \in Calls, NEW t1 \in Issued, Cascade(p, t1) PROVE Goal
  <2>1. /\ UNCHANGED <<registered, exp, now, key, todo>>
        /\ queue[p] \in Seq(Keys) /\ t1 \in Keys
        /\ queue'[p] = Append(queue[p], t1)
        /\ scheduled'[p] = scheduled[p] \cup {t1}
        /\ pc[p] = "scan" /\ pc'[p] = "notify"
        /\ \A q \in Calls \ {p} : /\ queue'[q] = queue[q] /\ pc'[q] = pc[q]
                                  /\ scheduled'[q] = scheduled[q]
    BY <1>10, <1>0 DEF Cascade, TypeOK, Keys
  <2>2. Range(queue'[p]) = Range(queue[p]) \cup {t1}
    BY <2>1, RangeOfAppend
  <2>3. CASE d = t1
    <3>1. Pending(p, d, t)'
      BY <2>1, <2>2, <2>3 DEF Pending
    <3> QED
      BY <3>1
  <2>4. CASE d # t1
    <3>1. IsRevoked(d) /\ Live(t)
      BY <1>0, <1>10, <2>1, <2>4
         DEF Cascade, Record, IsRevoked, Lapsed, Live, TypeOK
    <3>2. \A q \in Calls : Pending(q, d, t) => Pending(q, d, t)'
      BY <2>1, <2>2 DEF Pending, Scanning
    <3> QED
      BY <1>4, <2>1, <3>1, <3>2
  <2> QED
    BY <2>3, <2>4
<1>11. ASSUME NEW p \in Calls, EndScan(p) PROVE Goal
  <2>1. /\ UNCHANGED <<revoked, registered, scheduled, exp, now, queue>>
        /\ pc[p] = "scan"
        /\ \A t1 \in todo[p] : ~ Hit(p, t1)
        /\ \A q \in Calls \ {p} : /\ key'[q] = key[q] /\ todo'[q] = todo[q]
                                  /\ pc'[q] = pc[q]
    BY <1>11, <1>0 DEF EndScan, TypeOK
  <2>2. IsRevoked(d) /\ Live(t)
    BY <2>1 DEF IsRevoked, Lapsed, Live
  <2>3. CASE d = key[p] /\ t \in todo[p]
    <3>1. t \in scheduled[p]
      BY <2>1, <2>2, <2>3 DEF Hit, Affected
    <3> QED
      BY <1>2, <3>1, <1>0 DEF CoverInv
  <2>4. CASE ~ (d = key[p] /\ t \in todo[p])
    <3>1. \A q \in Calls : Pending(q, d, t) => Pending(q, d, t)'
      BY <2>1, <2>4 DEF Pending, Scanning
    <3> QED
      BY <1>4, <2>1, <2>2, <3>1
  <2> QED
    BY <2>3, <2>4
<1>12. ASSUME NEW p \in Calls, Cancel(p) PROVE Goal
  <2>1. /\ UNCHANGED <<revoked, registered, scheduled, exp, now>>
        /\ pc'[p] = "cancelled"
        /\ \A q \in Calls \ {p} : /\ queue'[q] = queue[q] /\ key'[q] = key[q]
                                  /\ todo'[q] = todo[q] /\ pc'[q] = pc[q]
    BY <1>12, <1>0 DEF Cancel, TypeOK
  <2>2. \A q \in Calls : Pending(q, d, t) => Pending(q, d, t)'
    BY <2>1 DEF Pending, Scanning
  <2> QED
    BY <1>4, <2>1, <2>2 DEF IsRevoked, Lapsed, Live
<1>13. ASSUME NEW p \in Calls, Return(p) PROVE Goal
  <2>1. /\ UNCHANGED <<revoked, registered, scheduled, exp, now, key, todo, queue>>
        /\ pc[p] = "pop" /\ queue[p] = <<>>
        /\ \A q \in Calls \ {p} : pc'[q] = pc[q]
    BY <1>13, <1>0 DEF Return, TypeOK
  <2>2. \A q \in Calls : Pending(q, d, t) => Pending(q, d, t)'
    BY <2>1, RangeOfEmpty DEF Pending, Scanning
  <2> QED
    BY <1>4, <2>1, <2>2 DEF IsRevoked, Lapsed, Live
<1>14. ASSUME \/ \E k \in Foreign : RecordAgent(k)
              \/ \E t1 \in Issued : AcceptIssue(t1)
              \/ \E p \in Calls :
                   \/ \E k \in Keys, e \in Exps, s, f \in BOOLEAN :
                        Refuse(p, k, e, s, f)
                   \/ SkipRecipient(p) \/ Send(p) \/ EndNotify(p)
                   \/ \E raw \in Answers, got \in BOOLEAN : Reply(p, raw, got)
              \/ UNCHANGED vars
       PROVE  Goal
  <2>1. /\ UNCHANGED <<revoked, registered, scheduled, exp, now, key, todo, queue>>
        /\ \A q \in Calls : Scanning(q) => Scanning(q)'
        /\ \A q \in Calls : pc[q] = "cancelled" => pc'[q] = "cancelled"
    BY <1>14, <1>0 DEF RecordAgent, AcceptIssue, Refuse, SkipRecipient, Send,
                       EndNotify, Reply, Remaining, vars, Scanning, TypeOK
  <2>2. \A q \in Calls : Pending(q, d, t) => Pending(q, d, t)'
    BY <2>1 DEF Pending
  <2> QED
    BY <1>4, <2>1, <2>2 DEF IsRevoked, Lapsed, Live
<1> HIDE DEF Goal, store, walk, notice
<1>15. Goal
  BY <1>5, <1>6, <1>7, <1>8, <1>9, <1>10, <1>11, <1>12, <1>13, <1>14
     DEF Next, Host, Requests, Compute, Answered
<1> QED
  BY <1>15 DEF Goal

(* With a host that issues atomically, once the calls that revoked a token *)
(* returned, every live registered token that depends on it is revoked,    *)
(* those registered while the calls ran included (revocation.py:222).      *)
THEOREM ClosedAtRest ==
    ASSUME ~ DeferredIssue
    PROVE  Spec => []ClosedWhenSettled
<1>1. Init => ClosureInv
  BY DEF Init, ClosureInv
<1>2. IInv /\ ClosureInv /\ [Next]_vars => ClosureInv'
  BY ClosureStep
<1>3. IInv /\ ClosureInv => ClosedWhenSettled
  <2> SUFFICES ASSUME IInv, ClosureInv, NEW t \in registered, NEW d \in Deps[t],
                      IsRevoked(d), Settled(d), Live(t)
               PROVE  IsRevoked(t)
    BY DEF ClosedWhenSettled
  <2>1. \A p \in Calls : ~ Pending(p, d, t)
    BY RangeOfEmpty DEF Settled, Pending, Scanning, IInv, ControlInv
  <2>2. revoked[t] >= exp[t]
    BY <2>1 DEF ClosureInv
  <2> QED
    BY <2>2 DEF IInv, TypeOK, Live, IsRevoked, Lapsed, Keys
<1> QED
  BY <1>1, <1>2, <1>3, Invariance, PTL DEF Spec
-----------------------------------------------------------------------------
LEMMA InitDelivery == Init => DeliveryInv
BY DEF Init, DeliveryInv

LEMMA DeliveryStep == IInv /\ DeliveryInv /\ [Next]_vars => DeliveryInv'
<1> SUFFICES ASSUME IInv, DeliveryInv, [Next]_vars PROVE DeliveryInv'
  OBVIOUS
<1> USE DEF store, walk, notice
<1> DEFINE Told(q, t, r) ==
             \/ <<t, r>> \in peer
             \/ \E x \in report[q] : x.recipient = r /\ x.error # "none"
             \/ Notifying(q) /\ t = child[q] /\ r \in Range(rest[q])
<1>0. TypeOK /\ ControlInv
  BY DEF IInv
<1>1. \A q \in Calls : Role = "as" /\ pc[q] # "cancelled" =>
        \A t \in scheduled[q] \ {root[q]} :
          \A r \in Range(RecipientsOf[t]) : Told(q, t, r)
  BY DEF DeliveryInv
(* Steps that neither schedule nor notify.                                 *)
<1>2. ASSUME UNCHANGED <<outcomes, peer, scheduled, root, child, rest>>,
             \A q \in Calls : Role = "as" /\ pc'[q] # "cancelled" =>
                report[q] \subseteq report'[q],
             \A q \in Calls : Notifying(q) => Notifying(q)',
             \A q \in Calls : pc[q] = "cancelled" => pc'[q] = "cancelled"
      PROVE  DeliveryInv'
  BY <1>1, <1>2 DEF DeliveryInv
<1>3. ASSUME NEW p \in Calls, NEW k \in Keys, NEW e \in Requested(k),
             Revoke(p, k, e)
      PROVE  DeliveryInv'
  <2>1. /\ UNCHANGED <<outcomes, peer, child, rest, report>>
        /\ scheduled'[p] = {k} /\ root'[p] = k /\ pc[p] = "idle"
        /\ \A q \in Calls \ {p} : /\ scheduled'[q] = scheduled[q]
                                  /\ root'[q] = root[q] /\ pc'[q] = pc[q]
    BY <1>0, <1>3 DEF Revoke, TypeOK
  <2> QED
    BY <1>1, <2>1 DEF DeliveryInv, Notifying
<1>4. ASSUME NEW p \in Calls, NEW t1 \in Issued, Cascade(p, t1)
      PROVE  DeliveryInv'
  <2>1. /\ UNCHANGED <<outcomes, peer, root, report>>
        /\ scheduled'[p] = scheduled[p] \cup {t1}
        /\ child'[p] = t1 /\ rest'[p] = RecipientsOf[t1]
        /\ pc[p] = "scan" /\ pc'[p] = "notify"
        /\ \A q \in Calls \ {p} :
             /\ scheduled'[q] = scheduled[q] /\ pc'[q] = pc[q]
             /\ child'[q] = child[q] /\ rest'[q] = rest[q]
    BY <1>0, <1>4 DEF Cascade, TypeOK
  <2> QED
    BY <1>1, <2>1 DEF DeliveryInv, Notifying
<1>5. ASSUME NEW p \in Calls, SkipRecipient(p) PROVE DeliveryInv'
  <2> DEFINE h == Head(rest[p])
  <2>1. /\ UNCHANGED <<outcomes, peer, root, report, scheduled, child, pc>>
        /\ rest[p] \in Seq(Recipients) /\ rest[p] # <<>>
        /\ outcomes[child[p]][h] = "ok"
        /\ pc[p] = "notify"
        /\ rest'[p] = Tail(rest[p])
        /\ \A q \in Calls \ {p} : rest'[q] = rest[q]
    BY <1>0, <1>5 DEF SkipRecipient, TypeOK
  <2>2. Range(rest[p]) = {h} \cup Range(Tail(rest[p])) /\ h \in Recipients
    BY <2>1, RangeOfTail
  <2>3. <<child[p], h>> \in peer
    BY <1>0, <2>1, <2>2 DEF DeliveryInv, ControlInv, Notifying, TypeOK
  <2> QED
    BY <1>1, <2>1, <2>2, <2>3 DEF DeliveryInv, Notifying
<1>6. ASSUME NEW p \in Calls, NEW raw \in Answers, NEW got \in BOOLEAN,
             Reply(p, raw, got)
      PROVE  DeliveryInv'
  <2> DEFINE c == child[p]
             h == Head(rest[p])
             o == Normalised(raw)
  <2>1. /\ UNCHANGED <<root, scheduled, child>>
        /\ rest[p] \in Seq(Recipients) /\ rest[p] # <<>>
        /\ pc[p] = "await" /\ pc'[p] = "notify"
        /\ rest'[p] = Tail(rest[p])
        /\ report'[p] = report[p] \cup {Entry(h, o)}
        /\ outcomes' = [outcomes EXCEPT ![c][h] = o]
        /\ peer' = IF got THEN peer \cup {<<c, h>>} ELSE peer
        /\ \A q \in Calls \ {p} :
             rest'[q] = rest[q] /\ report'[q] = report[q] /\ pc'[q] = pc[q]
    BY <1>0, <1>6 DEF Reply, Remaining, TypeOK, ControlInv
  <2>2. Range(rest[p]) = {h} \cup Range(Tail(rest[p])) /\ h \in Recipients
    BY <2>1, RangeOfTail
  <2>3. c \in Issued
    BY <1>0, <2>1 DEF ControlInv, Notifying, TypeOK
  <2>4. peer \subseteq peer'
    BY <2>1
  <2>5. o \in {"ok", "downstream"} => <<c, h>> \in peer'
    BY <1>6, <2>1 DEF Reply, Remaining, Normalised
  <2>6. o \notin {"ok", "downstream"} =>
          Entry(h, o).recipient = h /\ Entry(h, o).error # "none"
    BY DEF Entry, Normalised
  <2>7. \A t \in Issued, r \in Recipients :
          outcomes'[t][r] \in {"ok", "downstream"} => <<t, r>> \in peer'
    <3> SUFFICES ASSUME NEW t \in Issued, NEW r \in Recipients,
                        outcomes'[t][r] \in {"ok", "downstream"}
                 PROVE  <<t, r>> \in peer'
      OBVIOUS
    <3>1. CASE t = c /\ r = h
      <4>1. outcomes'[t][r] = o
        BY <1>0, <2>1, <2>2, <2>3, <3>1 DEF TypeOK
      <4> QED
        BY <2>5, <3>1, <4>1
    <3>2. CASE ~ (t = c /\ r = h)
      <4>1. outcomes'[t][r] = outcomes[t][r]
        BY <1>0, <2>1, <3>2 DEF TypeOK
      <4> QED
        BY <2>4, <4>1 DEF DeliveryInv
    <3> QED
      BY <3>1, <3>2
  <2>8. ASSUME NEW q \in Calls, Role = "as", pc'[q] # "cancelled",
               NEW t \in scheduled[q] \ {root[q]},
               NEW r \in Range(RecipientsOf[t])
        PROVE  Told(q, t, r)'
    <3>1. Told(q, t, r)
      BY <1>1, <2>1, <2>8
    <3>2. CASE q # p
      BY <2>1, <2>4, <3>1, <3>2 DEF Notifying
    <3>3. CASE q = p /\ t = c /\ r = h
      BY <2>1, <2>5, <2>6, <3>3
    <3>4. CASE q = p /\ ~ (t = c /\ r = h)
      BY <2>1, <2>2, <2>4, <3>1, <3>4 DEF Notifying
    <3> QED
      BY <3>2, <3>3, <3>4
  <2> QED
    BY <2>1, <2>7, <2>8 DEF DeliveryInv
<1>7. ASSUME NEW p \in Calls, EndNotify(p) PROVE DeliveryInv'
  <2>1. /\ UNCHANGED <<outcomes, peer, root, scheduled, rest>>
        /\ rest[p] = <<>>
        /\ pc[p] = "notify" /\ pc'[p] = "scan"
        /\ report[p] \subseteq report'[p]
        /\ \A q \in Calls \ {p} :
             /\ child'[q] = child[q] /\ report'[q] = report[q]
             /\ pc'[q] = pc[q]
    BY <1>0, <1>7 DEF EndNotify, TypeOK
  <2> QED
    BY <1>1, <2>1, RangeOfEmpty DEF DeliveryInv, Notifying
<1>8. ASSUME NEW p \in Calls, Cancel(p) PROVE DeliveryInv'
  <2>1. /\ UNCHANGED <<outcomes, peer, root, scheduled>>
        /\ pc'[p] = "cancelled"
        /\ \A q \in Calls \ {p} :
             /\ child'[q] = child[q] /\ report'[q] = report[q]
             /\ pc'[q] = pc[q] /\ rest'[q] = rest[q]
    BY <1>0, <1>8 DEF Cancel, TypeOK
  <2> QED
    BY <1>1, <2>1 DEF DeliveryInv, Notifying
<1>9. ASSUME \/ Tick
             \/ \E k \in Keys : CheckToken(k)
             \/ \E k \in Foreign : RecordAgent(k)
             \/ \E t1 \in Issued : AcceptIssue(t1) \/ RecordIssued(t1)
             \/ UNCHANGED vars
      PROVE  DeliveryInv'
  <2>1. UNCHANGED <<outcomes, peer, scheduled, root, child, rest, report, pc>>
    BY <1>9 DEF Tick, CheckToken, RecordAgent, AcceptIssue, RecordIssued, vars
  <2> QED
    BY <1>2, <2>1 DEF Notifying
<1>10. ASSUME NEW p \in Calls,
              \/ \E k \in Keys, e \in Exps, s, f \in BOOLEAN :
                   Refuse(p, k, e, s, f)
              \/ Pop(p) \/ Send(p) \/ EndScan(p) \/ Return(p)
       PROVE  DeliveryInv'
  <2>1. /\ UNCHANGED <<outcomes, peer, scheduled, root, child, rest>>
        /\ \A q \in Calls : Role = "as" => report'[q] = report[q]
        /\ \A q \in Calls : Notifying(q) => Notifying(q)'
        /\ \A q \in Calls : pc[q] = "cancelled" => pc'[q] = "cancelled"
    BY <1>0, <1>10 DEF Refuse, Pop, Send, EndScan, Return, Answer, Notifying,
                       TypeOK
  <2> QED
    BY <1>2, <2>1
<1> HIDE DEF store, walk, notice
<1> QED
  BY <1>3, <1>4, <1>5, <1>6, <1>7, <1>8, <1>9, <1>10
     DEF Next, Host, Requests, Compute, Answered

(* An AS's report names without an error only recipients that recorded     *)
(* every token of the cascade sent to them (revocation.py:234-264).        *)
THEOREM ReportsAreTrue == Spec => []ErrorFreeMeansDelivered
<1>1. IInv /\ DeliveryInv => ErrorFreeMeansDelivered
  BY DEF DeliveryInv, ErrorFreeMeansDelivered, Notifying
<1>2. IInv /\ DeliveryInv /\ [Next]_vars => DeliveryInv'
  BY DeliveryStep
<1> QED
  BY <1>1, <1>2, InitDelivery, Invariance, PTL DEF Spec
-----------------------------------------------------------------------------
(* Below is reflexive and follows the dependencies.                        *)

LEMMA BelowItself == ASSUME NEW d \in Keys PROVE d \in Below[d]
BY DEF Below

LEMMA BelowGrows ==
    ASSUME NEW d \in Keys, NEW k \in Below[d], NEW t \in Issued, k \in Deps[t]
    PROVE  t \in Below[d]
<1>1. k \in Keys /\ t \in Keys
  BY DEF Below, Keys
<1>2. ASSUME NEW T \in SUBSET Keys, d \in T, DependencyClosed(T) PROVE t \in T
  <2>1. k \in T
    BY <1>2 DEF Below
  <2> QED
    BY <1>2, <2>1 DEF DependencyClosed
<1> QED
  BY <1>1, <1>2 DEF Below

(* Each set of keys that holds d and is closed holds all below d.          *)
LEMMA BelowIsLeast ==
    ASSUME NEW d \in Keys, NEW T \in SUBSET Keys, d \in T, DependencyClosed(T)
    PROVE  Below[d] \subseteq T
BY DEF Below
-----------------------------------------------------------------------------
LEMMA InitReason == Init => ReasonInv
BY DEF Init, ReasonInv, Scanning, Keys

LEMMA ReasonStep == IInv /\ ReasonInv /\ [Next]_vars => ReasonInv'
<1> SUFFICES ASSUME IInv, ReasonInv, [Next]_vars PROVE ReasonInv'
  OBVIOUS
<1> USE DEF store, walk, notice
<1>0. TypeOK /\ ControlInv /\ QueueInv
  BY DEF IInv
(* Steps that leave the walk alone and revoke nothing.                     *)
<1>1. ASSUME UNCHANGED <<root, agent, scheduled>>,
             \A t \in Issued : revoked'[t] # 0 => revoked[t] # 0,
             \A q \in Calls : pc'[q] \in {"idle", "refused"}
                                => pc[q] \in {"idle", "refused"},
             \A q \in Calls : Scanning(q)' => Scanning(q) /\ key'[q] = key[q]
      PROVE  ReasonInv'
  BY <1>1 DEF ReasonInv, Reaches
<1>2. ASSUME \/ Tick
             \/ \E k \in Keys : CheckToken(k)
             \/ \E k \in Foreign : RecordAgent(k)
             \/ \E t \in Issued : AcceptIssue(t) \/ RecordIssued(t)
             \/ UNCHANGED vars
      PROVE  ReasonInv'
  <2>1. UNCHANGED <<root, agent, scheduled, pc, key>>
    BY <1>2 DEF Tick, CheckToken, RecordAgent, AcceptIssue, RecordIssued, vars
  <2>2. \A t \in Issued : revoked'[t] # 0 => revoked[t] # 0
    BY <1>0, <1>2 DEF Tick, CheckToken, RecordAgent, AcceptIssue, RecordIssued,
                      vars, TypeOK, Keys
  <2> QED
    BY <1>1, <2>1, <2>2 DEF Scanning
<1>3. ASSUME NEW p \in Calls,
             \/ \E k \in Keys, e \in Exps, s, f \in BOOLEAN :
                  Refuse(p, k, e, s, f)
             \/ SkipRecipient(p) \/ Send(p) \/ EndNotify(p) \/ EndScan(p)
             \/ \E raw \in Answers, got \in BOOLEAN : Reply(p, raw, got)
             \/ Cancel(p) \/ Return(p)
      PROVE  ReasonInv'
  <2>1. UNCHANGED <<root, agent, scheduled, revoked>>
    BY <1>3 DEF Refuse, SkipRecipient, Send, EndNotify, EndScan, Reply,
                Remaining, Cancel, Return
  <2>2. \A q \in Calls : pc'[q] \in {"idle", "refused"}
                           => pc[q] \in {"idle", "refused"}
    BY <1>0, <1>3 DEF Refuse, SkipRecipient, Send, EndNotify, EndScan, Reply,
                      Remaining, Cancel, Return, TypeOK
  <2>3. \A q \in Calls : Scanning(q)' => Scanning(q) /\ key'[q] = key[q]
    BY <1>0, <1>3 DEF Refuse, SkipRecipient, Send, EndNotify, EndScan, Reply,
                      Remaining, Cancel, Return, TypeOK, Scanning
  <2> QED
    BY <1>1, <2>1, <2>2, <2>3
<1>4. ASSUME NEW p \in Calls, NEW k \in Keys, NEW e \in Requested(k),
             Revoke(p, k, e)
      PROVE  ReasonInv'
  <2>1. /\ pc[p] = "idle" /\ pc'[p] = "pop" /\ UNCHANGED key
        /\ scheduled[p] = {} /\ scheduled'[p] = {k}
        /\ root'[p] = k /\ Issuer(k) \in AllowedIssuers
        /\ agent'[p] # None => Role = "ps" /\ agent'[p] = SubjectOf[k]
        /\ \A q \in Calls \ {p} :
             /\ pc'[q] = pc[q] /\ scheduled'[q] = scheduled[q]
             /\ root'[q] = root[q] /\ agent'[q] = agent[q]
    BY <1>0, <1>4 DEF Revoke, TypeOK, ControlInv
  <2>2. \A t \in Issued \ {k} : revoked'[t] = revoked[t]
    BY <1>0, <1>4 DEF Revoke, Record, TypeOK, Keys
  <2>3. Reaches(p, k)'
    BY <2>1, BelowItself DEF Reaches
  <2>4. \A t \in Issued : revoked'[t] # 0 => \E q \in Calls : t \in scheduled'[q]
    BY <2>1, <2>2 DEF ReasonInv
  <2>5. \A q \in Calls \ {p} : \A t \in scheduled[q] : Reaches(q, t)'
    BY <2>1 DEF ReasonInv, Reaches
  <2> QED
    BY <2>1, <2>3, <2>4, <2>5 DEF ReasonInv, Scanning
<1>5. ASSUME NEW p \in Calls, Pop(p) PROVE ReasonInv'
  <2> DEFINE h == Head(queue[p])
  <2>1. /\ queue[p] \in Seq(Keys) /\ queue[p] # <<>>
        /\ pc[p] = "pop" /\ pc'[p] \in {"pop", "scan"}
        /\ UNCHANGED <<root, agent, scheduled, revoked>>
        /\ key'[p] = h
        /\ \A q \in Calls \ {p} : key'[q] = key[q] /\ pc'[q] = pc[q]
    BY <1>0, <1>5 DEF Pop, TypeOK
  <2>2. h \in scheduled[p]
    BY <1>0, <2>1, RangeOfTail DEF QueueInv
  <2> QED
    BY <2>1, <2>2 DEF ReasonInv, Reaches, Scanning
<1>6. ASSUME NEW p \in Calls, NEW t \in Issued, Cascade(p, t) PROVE ReasonInv'
  <2>1. /\ pc[p] = "scan" /\ pc'[p] = "notify"
        /\ UNCHANGED <<root, agent, key>>
        /\ scheduled'[p] = scheduled[p] \cup {t}
        /\ \A q \in Calls \ {p} : pc'[q] = pc[q] /\ scheduled'[q] = scheduled[q]
        /\ Affected(p, key[p], t)
    BY <1>0, <1>6 DEF Cascade, Hit, TypeOK
  <2>2. \A t1 \in Issued \ {t} : revoked'[t1] = revoked[t1]
    BY <1>0, <1>6 DEF Cascade, Record, TypeOK, Keys
  <2>3. key[p] \in scheduled[p] /\ Reaches(p, key[p]) /\ root[p] \in Keys
    BY <2>1 DEF ReasonInv, Scanning
  <2>4. Reaches(p, t)
    <3>1. CASE key[p] \in Deps[t]
      <4>1. CASE key[p] \in Below[root[p]]
        BY <2>3, <3>1, <4>1, BelowGrows DEF Reaches
      <4>2. CASE key[p] \notin Below[root[p]]
        <5>1. PICK a \in Issued : /\ key[p] \in Below[a]
                                  /\ AgentIdentity[a] # None
                                  /\ Role = "ps"
                                  /\ AgentIdentity[a] = SubjectOf[root[p]]
          BY <2>3, <4>2 DEF Reaches
        <5>2. t \in Below[a]
          BY <3>1, <5>1, BelowGrows DEF Keys
        <5> QED
          BY <5>1, <5>2 DEF Reaches
      <4> QED
        BY <4>1, <4>2
    <3>2. CASE agent[p] # None /\ AgentIdentity[t] = agent[p]
      <4>1. Role = "ps" /\ AgentIdentity[t] = SubjectOf[root[p]]
        BY <3>2 DEF ReasonInv
      <4>2. t \in Below[t]
        BY BelowItself DEF Keys
      <4> QED
        BY <3>2, <4>1, <4>2 DEF Reaches
    <3> QED
      BY <2>1, <3>1, <3>2 DEF Affected
  <2>5. \A t1 \in Issued : revoked'[t1] # 0
                             => \E q \in Calls : t1 \in scheduled'[q]
    BY <2>1, <2>2 DEF ReasonInv
  <2>6. \A q \in Calls : \A t1 \in scheduled'[q] : Reaches(q, t1)'
    BY <2>1, <2>4 DEF ReasonInv, Reaches
  <2> QED
    BY <2>1, <2>3, <2>5, <2>6 DEF ReasonInv, Scanning
<1> HIDE DEF store, walk, notice
<1> QED
  BY <1>2, <1>3, <1>4, <1>5, <1>6
     DEF Next, Host, Requests, Compute, Answered

(* A token this server issued is revoked only for a request it accepted,   *)
(* about that token, one above it, or the agent of one of these            *)
(* (revocation.py:141, 212-233).                                           *)
THEOREM NothingElseRevoked == Spec => []NoCollateral
<1>1. IInv /\ ReasonInv => NoCollateral
  <2> SUFFICES ASSUME IInv, ReasonInv, NEW t \in Issued, revoked[t] # 0
               PROVE  \E p \in Calls : /\ root[p] # None
                                       /\ Issuer(root[p]) \in AllowedIssuers
                                       /\ Reaches(p, t)
    BY DEF NoCollateral
  <2>1. PICK p \in Calls : t \in scheduled[p]
    BY DEF ReasonInv
  <2>2. root[p] \in Keys /\ Issuer(root[p]) \in AllowedIssuers /\ Reaches(p, t)
    BY <2>1 DEF ReasonInv
  <2> QED
    BY <2>2, NoneAssumption
<1>2. IInv /\ ReasonInv /\ [Next]_vars => ReasonInv'
  BY ReasonStep
<1> QED
  BY <1>1, <1>2, InitReason, Invariance, PTL DEF Spec
-----------------------------------------------------------------------------
LEMMA InitNest == Init => NestInv
BY DEF Init, NestInv

(* Only a registration can disturb NestInv: the host finds the issued      *)
(* dependencies registered, and bounded_exp keeps within their lifetime.   *)
LEMMA NestStep ==
    ASSUME ~ DeferredIssue
    PROVE  TypeOK /\ NestInv /\ [Next]_vars => NestInv'
<1> SUFFICES ASSUME TypeOK, NestInv, [Next]_vars PROVE NestInv'
  OBVIOUS
<1> USE DEF store, walk, notice
<1>1. ASSUME NEW t \in Issued, RecordIssued(t) PROVE NestInv'
  <2>1. PICK e \in BoundedExp(t) : exp' = [exp EXCEPT ![t] = e]
    BY <1>1 DEF RecordIssued
  <2>2. /\ t \notin registered /\ registered' = registered \cup {t}
        /\ DepsUsable(t)
    BY <1>1 DEF RecordIssued
  <2>3. exp'[t] = e /\ \A x \in Issued \ {t} : exp'[x] = exp[x]
    BY <2>1 DEF TypeOK
  <2>4. \A d \in Deps[t] \cap Issued : d \in registered /\ e <= exp[d]
    BY <2>2 DEF DepsUsable, BoundedExp
  <2> QED
    BY <2>2, <2>3, <2>4 DEF NestInv, TypeOK
<1>2. ASSUME \/ Tick
             \/ \E k \in Keys : CheckToken(k)
             \/ \E k \in Foreign : RecordAgent(k)
             \/ \E t \in Issued : AcceptIssue(t)
             \/ \E p \in Calls :
                  \/ \E k \in Keys, e \in Exps, s, f \in BOOLEAN :
                       Refuse(p, k, e, s, f)
                  \/ \E k \in Keys : \E e \in Requested(k) : Revoke(p, k, e)
                  \/ Pop(p) \/ \E t \in Issued : Cascade(p, t)
                  \/ SkipRecipient(p) \/ Send(p) \/ EndNotify(p)
                  \/ EndScan(p) \/ Return(p) \/ Cancel(p)
                  \/ \E raw \in Answers, got \in BOOLEAN : Reply(p, raw, got)
             \/ UNCHANGED vars
      PROVE  NestInv'
  <2>1. UNCHANGED <<registered, exp>>
    BY <1>2 DEF Tick, CheckToken, RecordAgent, AcceptIssue, Refuse, Revoke, Pop,
                Cascade, SkipRecipient, Send, EndNotify, EndScan, Return,
                Cancel, Reply, Remaining, vars
  <2> QED
    BY <2>1 DEF NestInv
<1> HIDE DEF store, walk, notice
<1> QED
  BY <1>1, <1>2 DEF Next, Host, Requests, Compute, Answered

(* When no call is under way and none was cancelled, nothing below a       *)
(* revoked token, however far, is still accepted (tokens/common.py:40-51,  *)
(* revocation.py:223).  ClosureInv goes one dependency down and passes     *)
(* over expired tokens; NestInv says that below those nothing lives.       *)
THEOREM NothingLivesBelow ==
    ASSUME ~ DeferredIssue
    PROVE  Spec => []NoLiveDescendant
<1>1. IInv /\ ReasonInv /\ ClosureInv /\ NestInv => NoLiveDescendant
  <2> SUFFICES ASSUME IInv, ReasonInv, ClosureInv, NestInv,
                      \A p \in Calls : pc[p] \in {"idle", "refused", "done"},
                      NEW d \in Keys, NEW t \in registered,
                      IsRevoked(d), t \in Below[d], Live(t)
               PROVE  IsRevoked(t)
    BY DEF NoLiveDescendant
  <2> DEFINE T == {x \in Keys :
                     \/ x = d
                     \/ x \in Issued /\ (x \in registered /\ Live(x)
                                          => IsRevoked(x))}
  <2>1. ASSUME NEW x \in registered, NEW k \in Deps[x], IsRevoked(k), Live(x)
        PROVE  IsRevoked(x)
    <3>1. \A p \in Calls : ~ Pending(p, k, x)
      BY RangeOfEmpty
         DEF Pending, Scanning, IInv, ControlInv, ReasonInv
    <3>2. revoked[x] >= exp[x]
      BY <2>1, <3>1 DEF ClosureInv
    <3> QED
      BY <2>1, <3>2 DEF IInv, TypeOK, Live, IsRevoked, Lapsed, Keys
  <2>2. DependencyClosed(T)
    <3> SUFFICES ASSUME NEW x \in Issued, NEW k \in Deps[x] \cap T,
                        x \in registered, Live(x)
                 PROVE  IsRevoked(x)
      BY DEF DependencyClosed, Keys
    <3>1. CASE k = d
      BY <2>1, <3>1
    <3>2. CASE k # d
      <4>1. IsRevoked(k)
        <5>1. CASE k \in Issued
          <6>1. k \in registered /\ exp[x] <= exp[k]
            BY <5>1 DEF NestInv
          <6>2. Live(k)
            BY <5>1, <6>1 DEF Live, IInv, TypeOK
          <6> QED
            BY <3>2, <6>1, <6>2
        <5> QED
          BY <5>1
      <4> QED
        BY <2>1, <4>1
    <3> QED
      BY <3>1, <3>2
  <2>3. Below[d] \subseteq T
    BY <2>2, BelowIsLeast
  <2>4. CASE t = d
    BY <2>4
  <2>5. CASE t # d
    BY <2>3, <2>5
  <2> QED
    BY <2>4, <2>5
<1>2. Init => ClosureInv
  BY DEF Init, ClosureInv
<1>3. IInv /\ ClosureInv /\ [Next]_vars => ClosureInv'
  BY ClosureStep
<1>4. IInv => TypeOK
  BY DEF IInv
<1>5. IInv /\ NestInv /\ [Next]_vars => NestInv'
  BY <1>4, NestStep
<1>6. IInv /\ ReasonInv /\ [Next]_vars => ReasonInv'
  BY ReasonStep
<1> QED
  BY <1>1, <1>2, <1>3, <1>5, <1>6, InitReason, InitNest, Invariance, PTL
     DEF Spec
-----------------------------------------------------------------------------
LEMMA InitReport == Init => ReportInv
BY DEF Init, ReportInv

(* Only an answer to another call could unsay a success that this call has *)
(* relied on.                                                              *)
LEMMA ReportStep ==
    OneAtATime /\ IInv /\ ReportInv /\ [Next]_vars => ReportInv'
<1> SUFFICES ASSUME OneAtATime, IInv, ReportInv, [Next]_vars PROVE ReportInv'
  OBVIOUS
<1> USE DEF store, walk, notice
<1> DEFINE Named(q, t, r) ==
             \/ \E x \in report[q] : x.recipient = r
             \/ /\ Notifying(q) /\ t = child[q]
                /\ r \in Range(rest[q]) \/ outcomes[t][r] = "ok"
<1>0. TypeOK /\ ControlInv
  BY DEF IInv
<1>1. \A q \in Calls : Role = "as" /\ pc[q] # "cancelled" =>
        \A t \in scheduled[q] \ {root[q]} :
          \A r \in Range(RecipientsOf[t]) : Named(q, t, r)
  BY DEF ReportInv
(* Steps that neither schedule nor notify.                                 *)
<1>2. ASSUME UNCHANGED <<outcomes, scheduled, root, child, rest>>,
             \A q \in Calls : Role = "as" /\ pc'[q] # "cancelled" =>
                report[q] \subseteq report'[q],
             \A q \in Calls : Notifying(q) => Notifying(q)',
             \A q \in Calls : pc[q] = "cancelled" => pc'[q] = "cancelled"
      PROVE  ReportInv'
  BY <1>1, <1>2 DEF ReportInv
<1>3. ASSUME NEW p \in Calls, NEW k \in Keys, NEW e \in Requested(k),
             Revoke(p, k, e)
      PROVE  ReportInv'
  <2>1. /\ UNCHANGED <<outcomes, child, rest, report>>
        /\ scheduled'[p] = {k} /\ root'[p] = k /\ pc[p] = "idle"
        /\ \A q \in Calls \ {p} : /\ scheduled'[q] = scheduled[q]
                                  /\ root'[q] = root[q] /\ pc'[q] = pc[q]
    BY <1>0, <1>3 DEF Revoke, TypeOK
  <2> QED
    BY <1>1, <2>1 DEF ReportInv, Notifying
<1>4. ASSUME NEW p \in Calls, NEW t1 \in Issued, Cascade(p, t1) PROVE ReportInv'
  <2>1. /\ UNCHANGED <<outcomes, root, report>>
        /\ scheduled'[p] = scheduled[p] \cup {t1}
        /\ child'[p] = t1 /\ rest'[p] = RecipientsOf[t1]
        /\ pc[p] = "scan" /\ pc'[p] = "notify"
        /\ \A q \in Calls \ {p} :
             /\ scheduled'[q] = scheduled[q] /\ pc'[q] = pc[q]
             /\ child'[q] = child[q] /\ rest'[q] = rest[q]
    BY <1>0, <1>4 DEF Cascade, TypeOK
  <2> QED
    BY <1>1, <2>1 DEF ReportInv, Notifying
<1>5. ASSUME NEW p \in Calls, SkipRecipient(p) PROVE ReportInv'
  <2> DEFINE h == Head(rest[p])
  <2>1. /\ UNCHANGED <<outcomes, root, report, scheduled, child, pc>>
        /\ rest[p] \in Seq(Recipients) /\ rest[p] # <<>>
        /\ outcomes[child[p]][h] = "ok"
        /\ rest'[p] = Tail(rest[p])
        /\ \A q \in Calls \ {p} : rest'[q] = rest[q]
    BY <1>0, <1>5 DEF SkipRecipient, TypeOK
  <2>2. Range(rest[p]) = {h} \cup Range(Tail(rest[p]))
    BY <2>1, RangeOfTail
  <2> QED
    BY <1>1, <2>1, <2>2 DEF ReportInv, Notifying
<1>6. ASSUME NEW p \in Calls, NEW raw \in Answers, NEW got \in BOOLEAN,
             Reply(p, raw, got)
      PROVE  ReportInv'
  <2> DEFINE c == child[p]
             h == Head(rest[p])
             o == Normalised(raw)
  <2>1. /\ UNCHANGED <<root, scheduled, child>>
        /\ rest[p] \in Seq(Recipients) /\ rest[p] # <<>>
        /\ pc[p] = "await" /\ pc'[p] = "notify"
        /\ rest'[p] = Tail(rest[p])
        /\ report'[p] = report[p] \cup {Entry(h, o)}
        /\ outcomes' = [outcomes EXCEPT ![c][h] = o]
        /\ \A q \in Calls \ {p} :
             rest'[q] = rest[q] /\ report'[q] = report[q] /\ pc'[q] = pc[q]
    BY <1>0, <1>6 DEF Reply, Remaining, TypeOK, ControlInv
  <2>2. Range(rest[p]) = {h} \cup Range(Tail(rest[p]))
    BY <2>1, RangeOfTail
  <2>3. Entry(h, o).recipient = h
    BY DEF Entry
  <2>4. \A q \in Calls \ {p} : ~ Notifying(q)
    BY <2>1 DEF OneAtATime, Notifying
  <2>5. /\ c \in Issued /\ Range(RecipientsOf[c]) \subseteq Recipients
        /\ \A r \in Recipients \ {h} : outcomes'[c][r] = outcomes[c][r]
    <3>1. c \in Issued
      BY <1>0, <2>1 DEF ControlInv, Notifying, TypeOK
    <3>2. Range(RecipientsOf[c]) \subseteq Recipients
      BY <3>1, RecipientsAssumption DEF Range
    <3> QED
      BY <1>0, <2>1, <3>1, <3>2 DEF TypeOK
  <2>6. ASSUME NEW q \in Calls, Role = "as", pc'[q] # "cancelled",
               NEW t \in scheduled[q] \ {root[q]},
               NEW r \in Range(RecipientsOf[t])
        PROVE  Named(q, t, r)'
    <3>1. Named(q, t, r)
      BY <1>1, <2>1, <2>6
    <3>2. CASE q # p
      BY <2>1, <2>4, <3>1, <3>2
    <3>3. CASE q = p /\ r = h
      BY <2>1, <2>3, <3>3
    <3>4. CASE q = p /\ r # h
      BY <2>1, <2>2, <2>5, <3>1, <3>4 DEF Notifying
    <3> QED
      BY <3>2, <3>3, <3>4
  <2> QED
    BY <2>1, <2>6 DEF ReportInv
<1>7. ASSUME NEW p \in Calls, EndNotify(p) PROVE ReportInv'
  <2>1. /\ UNCHANGED <<outcomes, root, scheduled, rest>>
        /\ rest[p] = <<>>
        /\ pc[p] = "notify" /\ pc'[p] = "scan"
        /\ report'[p] = report[p] \cup
             {Entry(r, "ok") : r \in PriorSuccesses(p, child[p])}
        /\ \A q \in Calls \ {p} :
             /\ child'[q] = child[q] /\ report'[q] = report[q]
             /\ pc'[q] = pc[q]
    BY <1>0, <1>7 DEF EndNotify, TypeOK
  <2>2. \A r : Entry(r, "ok").recipient = r
    BY DEF Entry
  <2>3. \A r \in Range(RecipientsOf[child[p]]) :
          outcomes[child[p]][r] = "ok" => \E x \in report'[p] : x.recipient = r
    BY <2>1, <2>2 DEF PriorSuccesses
  <2>4. \A q \in Calls \ {p} : Notifying(q)' <=> Notifying(q)
    BY <2>1 DEF Notifying
  <2>5. ASSUME NEW q \in Calls, Role = "as", pc'[q] # "cancelled",
               NEW t \in scheduled[q] \ {root[q]},
               NEW r \in Range(RecipientsOf[t])
        PROVE  Named(q, t, r)'
    <3>1. Named(q, t, r)
      BY <1>1, <2>1, <2>5
    <3>2. CASE q # p
      BY <2>1, <2>4, <3>1, <3>2
    <3>3. CASE q = p
      BY <2>1, <2>3, <3>1, <3>3, RangeOfEmpty
    <3> QED
      BY <3>2, <3>3
  <2> QED
    BY <2>1, <2>5 DEF ReportInv
<1>8. ASSUME NEW p \in Calls, Cancel(p) PROVE ReportInv'
  <2>1. /\ UNCHANGED <<outcomes, root, scheduled>>
        /\ pc'[p] = "cancelled"
        /\ \A q \in Calls \ {p} :
             /\ child'[q] = child[q] /\ report'[q] = report[q]
             /\ pc'[q] = pc[q] /\ rest'[q] = rest[q]
    BY <1>0, <1>8 DEF Cancel, TypeOK
  <2> QED
    BY <1>1, <2>1 DEF ReportInv, Notifying
<1>9. ASSUME \/ Tick
             \/ \E k \in Keys : CheckToken(k)
             \/ \E k \in Foreign : RecordAgent(k)
             \/ \E t1 \in Issued : AcceptIssue(t1) \/ RecordIssued(t1)
             \/ UNCHANGED vars
      PROVE  ReportInv'
  <2>1. UNCHANGED <<outcomes, scheduled, root, child, rest, report, pc>>
    BY <1>9 DEF Tick, CheckToken, RecordAgent, AcceptIssue, RecordIssued, vars
  <2> QED
    BY <1>2, <2>1 DEF Notifying
<1>10. ASSUME NEW p \in Calls,
              \/ \E k \in Keys, e \in Exps, s, f \in BOOLEAN :
                   Refuse(p, k, e, s, f)
              \/ Pop(p) \/ Send(p) \/ EndScan(p) \/ Return(p)
       PROVE  ReportInv'
  <2>1. /\ UNCHANGED <<outcomes, scheduled, root, child, rest>>
        /\ \A q \in Calls : Role = "as" => report'[q] = report[q]
        /\ \A q \in Calls : Notifying(q) => Notifying(q)'
        /\ \A q \in Calls : pc[q] = "cancelled" => pc'[q] = "cancelled"
    BY <1>0, <1>10 DEF Refuse, Pop, Send, EndScan, Return, Answer, Notifying,
                       TypeOK
  <2> QED
    BY <1>2, <2>1
<1> HIDE DEF store, walk, notice
<1> QED
  BY <1>3, <1>4, <1>5, <1>6, <1>7, <1>8, <1>9, <1>10
     DEF Next, Host, Requests, Compute, Answered

(* While no two calls are under way at once, every report names every      *)
(* recipient, those that only an earlier call has asked included           *)
(* (revocation.py:259): overlapping repeats are the only exception.        *)
THEOREM ReportsAreFull == Spec /\ []OneAtATime => []EveryRecipientReported
<1>1. IInv /\ ReportInv => EveryRecipientReported
  BY DEF ReportInv, EveryRecipientReported, Notifying
<1>2. OneAtATime /\ IInv /\ ReportInv /\ [Next]_vars => ReportInv'
  BY ReportStep
<1> QED
  BY <1>1, <1>2, InitReport, Invariance, PTL DEF Spec
=============================================================================
