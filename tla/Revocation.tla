----------------------------- MODULE Revocation -----------------------------
(***************************************************************************)
(* The revocation state of one server (aauth/revocation.py): its           *)
(* RevocationStore and the cascades RevocationManager.revoke runs over it. *)
(*                                                                         *)
(* revoke is a coroutine.  It gives up the event loop only where it awaits *)
(* self.send, so several calls interleave at their sends, and the host may *)
(* issue tokens, check tokens or cancel a call there.  `running' is the    *)
(* call that holds the loop; time passes at any moment.                    *)
(*                                                                         *)
(* Where two operators with the same parameters stand together, the first  *)
(* is a bug the second could have had: no specification uses it, and the   *)
(* mutants in PROJECT.json put it in the second one's place.               *)
(***************************************************************************)
EXTENDS Integers, Sequences, FiniteSets, Functions

CONSTANTS
    Issued,         \* keys <<iss, jti>> of the tokens this server may issue
    Foreign,        \* keys of tokens other servers issued
    Recipients,     \* the servers an issued token was sent to
    Calls,          \* the calls of revoke
    None,           \* Python's None
    AllowedIssuers, \* RevocationManager.allowed_issuers
    Role,           \* RevocationManager.role
    MaxLifetime,    \* RevocationManager.max_lifetime
    TokenLifetime,  \* the longest lifetime bounded_exp gives a token
    Deps,           \* Deps[t]: the dependencies t is registered with
    RecipientsOf,   \* RecipientsOf[t]: the recipients t is registered with
    AgentIdentity,  \* AgentIdentity[t]: the (iss, sub) t is issued to, or None
    SubjectOf,      \* SubjectOf[k]: the (iss, sub) of the agent token k, or None
    Answers,        \* what a send may end with: a value, or "raised"
    Exps,           \* the expirations a peer's request may carry
    DeferredIssue,  \* does the host await between the check and the record?
    MaxTime         \* bound on the clock

Keys == Issued \cup Foreign
Outcomes == {"unsent", "ok", "downstream", "unsupported", "unavailable"}
Entries == [recipient : Recipients,
            error : {"none", "unsupported", "unavailable"}]

RawOutcomes == {"ok", "downstream", "unsupported", "unavailable",
                "malformed", "raised"}

ASSUME KeysAssumption == Issued \cap Foreign = {}
ASSUME NoneAssumption == None \notin Calls \cup Keys \cup Recipients
ASSUME TimeAssumption == /\ MaxLifetime \in Nat
                         /\ TokenLifetime \in Nat
                         /\ MaxTime \in Nat
                         /\ Exps \subseteq Nat \ {0}
ASSUME AnswersAssumption == Answers \subseteq RawOutcomes
ASSUME DepsAssumption == Deps \in [Issued -> SUBSET Keys]
ASSUME RecipientsAssumption == RecipientsOf \in [Issued -> Seq(Recipients)]

VARIABLES
    revoked,     \* store.revoked: the recorded expiration, 0 for no record
    agents,      \* store.agents: the agent tokens recorded
    registered,  \* the keys of store.issued
    exp,         \* store.issued[t].exp
    outcomes,    \* store.issued[t].outcomes
    accepted,    \* issues whose dependencies the host has checked
    now,         \* time.time()
    peer,        \* the pairs <<token, recipient>> a recipient has recorded
    running,     \* the call that holds the event loop, or None
    pc,          \* where each call is
    root,        \* the key each call was asked to revoke
    agent,       \* the local variable agent
    queue, visited, scheduled, key,  \* locals of the same names
    todo,        \* the snapshot list(self.store.issued.items())
    child,       \* the local variable child_key
    rest,        \* what is left of node.recipients, the one asked first
    report,      \* the local variable report
    known        \* history: the keys registered when the call began

store == <<revoked, agents, registered, exp, outcomes, accepted>>
walk == <<root, agent, queue, visited, scheduled, key, todo>>
notice == <<child, rest, report>>
vars == <<store, now, peer, running, pc, walk, notice, known>>

Issuer(k) == k[1]

(* Is the record of k past its expiration?  Not yet in the second exp.     *)
LapsedAtExp(k) == revoked[k] # 0 /\ now >= revoked[k]
Lapsed(k) == revoked[k] # 0 /\ now > revoked[k]

(* RevocationStore.is_revoked                                              *)
IsRevoked(k) == revoked[k] # 0 /\ ~ Lapsed(k)

(* The clock test of the cascade, node.exp <= time.time(), negated.        *)
Live(t) == exp[t] > now

(* RevocationStore.record: a record is never shortened.                    *)
RecordLatest(r, k, e) == [r EXCEPT ![k] = e]
Record(r, k, e) == [r EXCEPT ![k] = IF e > @ THEN e ELSE @]

(* The expirations bounded_exp may give a token issued now.                *)
UnboundedExp(t) == now + 1 .. now + TokenLifetime
BoundedExp(t) == {e \in now + 1 .. now + TokenLifetime :
                    \A d \in Deps[t] \cap registered : e <= exp[d]}

(* Must this call revoke t when it visits k?                               *)
AffectedUnguarded(p, k, t) == k \in Deps[t] \/ AgentIdentity[t] = agent[p]
Affected(p, k, t) == \/ k \in Deps[t]
                     \/ agent[p] # None /\ AgentIdentity[t] = agent[p]

(* What revoke makes of the value or exception self.send ends with.        *)
NormalisedUncaught(raw) == IF raw = "malformed" THEN "unavailable" ELSE raw
Normalised(raw) == IF raw \in {"ok", "downstream", "unsupported"}
                   THEN raw ELSE "unavailable"

(* The entry an outcome adds to the report.                                *)
EntryUnavailableOnly(r, o) ==
    [recipient |-> r, error |-> IF o = "unavailable" THEN o ELSE "none"]
Entry(r, o) ==
    [recipient |-> r,
     error |-> IF o \in {"unsupported", "unavailable"} THEN o ELSE "none"]

(* Recipients of t that confirmed it and that the report does not name.    *)
PriorSuccesses(p, t) ==
    {r \in Range(RecipientsOf[t]) : /\ outcomes[t][r] = "ok"
                                    /\ \A x \in report[p] : x.recipient # r}

(* What revoke returns: only an AS tells its caller about downstream.      *)
Answer(p) == IF Role = "as" THEN report[p] ELSE {}
-----------------------------------------------------------------------------
Init ==
    /\ revoked = [k \in Keys |-> 0]
    /\ agents = {}
    /\ registered = {}
    /\ exp = [t \in Issued |-> 0]
    /\ outcomes = [t \in Issued |-> [r \in Recipients |-> "unsent"]]
    /\ accepted = {}
    /\ now = 1
    /\ peer = {}
    /\ running = None
    /\ pc = [p \in Calls |-> "idle"]
    /\ root = [p \in Calls |-> None]
    /\ agent = [p \in Calls |-> None]
    /\ queue = [p \in Calls |-> <<>>]
    /\ visited = [p \in Calls |-> {}]
    /\ scheduled = [p \in Calls |-> {}]
    /\ key = [p \in Calls |-> None]
    /\ todo = [p \in Calls |-> {}]
    /\ child = [p \in Calls |-> None]
    /\ rest = [p \in Calls |-> <<>>]
    /\ report = [p \in Calls |-> {}]
    /\ known = [p \in Calls |-> {}]

(* Time passes, also while a call computes.                                *)
Tick ==
    /\ now < MaxTime
    /\ now' = now + 1
    /\ UNCHANGED <<store, peer, running, pc, walk, notice, known>>
-----------------------------------------------------------------------------
(* The host, between two turns of the event loop.                          *)

(* is_revoked(k) drops a record whose expiration has passed.               *)
CheckToken(k) ==
    /\ running = None
    /\ Lapsed(k)
    /\ revoked' = [revoked EXCEPT ![k] = 0]
    /\ UNCHANGED <<agents, registered, exp, outcomes, accepted>>
    /\ UNCHANGED <<now, peer, running, pc, walk, notice, known>>

(* record_agent keeps the identity an accepted agent token speaks for.     *)
RecordAgent(k) ==
    /\ running = None
    /\ SubjectOf[k] # None
    /\ agents' = agents \cup {k}
    /\ UNCHANGED <<revoked, registered, exp, outcomes, accepted>>
    /\ UNCHANGED <<now, peer, running, pc, walk, notice, known>>

(* verify_token accepts every token the new one depends on.                *)
DepsUsable(t) == /\ \A d \in Deps[t] \cap Issued : d \in registered /\ Live(d)
                 /\ \A d \in Deps[t] : ~ IsRevoked(d)

(* The host checks t's dependencies, then awaits before it issues t.       *)
AcceptIssue(t) ==
    /\ DeferredIssue
    /\ running = None
    /\ t \notin accepted
    /\ DepsUsable(t)
    /\ accepted' = accepted \cup {t}
    /\ UNCHANGED <<revoked, agents, registered, exp, outcomes>>
    /\ UNCHANGED <<now, peer, running, pc, walk, notice, known>>

(* record_issued, with the expiration bounded_exp computes: at once after  *)
(* the check, or some turns later when the host defers.                    *)
RecordIssued(t) ==
    /\ running = None
    /\ t \notin registered
    /\ IF DeferredIssue THEN t \in accepted ELSE DepsUsable(t)
    /\ \E e \in BoundedExp(t) : exp' = [exp EXCEPT ![t] = e]
    /\ registered' = registered \cup {t}
    /\ UNCHANGED <<revoked, agents, outcomes, accepted>>
    /\ UNCHANGED <<now, peer, running, pc, walk, notice, known>>
-----------------------------------------------------------------------------
(* handle_request and the synchronous part of revoke, up to the loop.      *)

(* The request is unsigned, malformed, of an issuer that is not accepted,  *)
(* or asks for too long a record: nothing is stored.                       *)
Refuse(p, k, e, wellSigned, wellFormed) ==
    /\ running = None
    /\ pc[p] = "idle"
    /\ \/ ~ wellSigned
       \/ ~ wellFormed
       \/ Issuer(k) \notin AllowedIssuers
       \/ e > now + MaxLifetime
    /\ pc' = [pc EXCEPT ![p] = "refused"]
    /\ UNCHANGED <<store, now, peer, running, walk, notice, known>>

(* An issuer revokes its own tokens: peers those of Foreign, with any      *)
(* expiration, this server the tokens it issued, with theirs.              *)
Requested(k) == IF k \in Foreign THEN Exps
                ELSE IF k \in registered THEN {exp[k]} ELSE {}

Revoke(p, k, e) ==
    /\ running = None
    /\ pc[p] = "idle"
    /\ Issuer(k) \in AllowedIssuers
    /\ e <= now + MaxLifetime
    /\ revoked' = Record(revoked, k, e)
    /\ agent' = [agent EXCEPT ![p] = IF Role = "ps" /\ k \in agents
                                     THEN SubjectOf[k] ELSE None]
    /\ root' = [root EXCEPT ![p] = k]
    /\ queue' = [queue EXCEPT ![p] = <<k>>]
    /\ scheduled' = [scheduled EXCEPT ![p] = {k}]
    /\ known' = [known EXCEPT ![p] = registered]
    /\ pc' = [pc EXCEPT ![p] = "pop"]
    /\ running' = p
    /\ UNCHANGED <<agents, registered, exp, outcomes, accepted>>
    /\ UNCHANGED <<visited, key, todo, notice, now, peer>>
-----------------------------------------------------------------------------
(* The loops of revoke.  A local variable is cleared where its value is    *)
(* dead; root, scheduled, agent and known stay for the properties.         *)

(* list(self.store.issued.items()), taken afresh for every key.            *)
SnapshotAtStart(p) == known[p]
Snapshot(p) == registered

(* key = queue.pop(0); a key not yet visited gets a snapshot to scan.      *)
Pop(p) ==
    /\ running = p
    /\ pc[p] = "pop"
    /\ queue[p] # <<>>
    /\ key' = [key EXCEPT ![p] = Head(queue[p])]
    /\ queue' = [queue EXCEPT ![p] = Tail(@)]
    /\ IF Head(queue[p]) \in visited[p]
       THEN UNCHANGED <<visited, todo, pc>>
       ELSE /\ visited' = [visited EXCEPT ![p] = @ \cup {Head(queue[p])}]
            /\ todo' = [todo EXCEPT ![p] = Snapshot(p)]
            /\ pc' = [pc EXCEPT ![p] = "scan"]
    /\ UNCHANGED <<store, now, peer, running, root, agent, scheduled>>
    /\ UNCHANGED <<notice, known>>

(* Has the scan of key to revoke t and pass it on?  A token of the         *)
(* snapshot it passes over, expired, unaffected or scheduled, stays so.    *)
HitUnlessRevoked(p, t) == /\ Live(t)
                          /\ Affected(p, key[p], t)
                          /\ ~ IsRevoked(t)
Hit(p, t) == /\ Live(t)
             /\ Affected(p, key[p], t)
             /\ t \notin scheduled[p]

(* The scan revokes t, queues it, and starts to tell its recipients.       *)
Cascade(p, t) ==
    /\ running = p
    /\ pc[p] = "scan"
    /\ t \in todo[p]
    /\ Hit(p, t)
    /\ revoked' = Record(revoked, t, exp[t])
    /\ scheduled' = [scheduled EXCEPT ![p] = @ \cup {t}]
    /\ queue' = [queue EXCEPT ![p] = Append(@, t)]
    /\ child' = [child EXCEPT ![p] = t]
    /\ rest' = [rest EXCEPT ![p] = RecipientsOf[t]]
    /\ pc' = [pc EXCEPT ![p] = "notify"]
    /\ UNCHANGED <<agents, registered, exp, outcomes, accepted>>
    /\ UNCHANGED <<now, peer, running, root, agent, visited, key, todo>>
    /\ UNCHANGED <<report, known>>

(* A recipient that confirmed the token before is not asked again.         *)
SkipRecipient(p) ==
    /\ running = p
    /\ pc[p] = "notify"
    /\ rest[p] # <<>>
    /\ outcomes[child[p]][Head(rest[p])] = "ok"
    /\ rest' = [rest EXCEPT ![p] = Tail(@)]
    /\ UNCHANGED <<store, now, peer, running, pc, walk, child, report, known>>

(* await self.send(recipient, node.jti, node.exp): other tasks may run.    *)
Send(p) ==
    /\ running = p
    /\ pc[p] = "notify"
    /\ rest[p] # <<>>
    /\ outcomes[child[p]][Head(rest[p])] # "ok"
    /\ pc' = [pc EXCEPT ![p] = "await"]
    /\ running' = None
    /\ UNCHANGED <<store, now, peer, walk, notice, known>>

(* Every recipient is asked once, whatever it answers.                     *)
RemainingUntilOk(q, o) == IF o = "ok" THEN Tail(q) ELSE q
Remaining(q, o) == Tail(q)

(* The send ends with the value raw, or raises; got says whether the       *)
(* recipient recorded the revocation, which only an error may leave open.  *)
Reply(p, raw, got) ==
    LET t == child[p]
        r == Head(rest[p])
        o == Normalised(raw)
    IN  /\ running = None
        /\ pc[p] = "await"
        /\ raw \in {"ok", "downstream"} => got
        /\ outcomes' = [outcomes EXCEPT ![t][r] = o]
        /\ report' = [report EXCEPT ![p] = @ \cup {Entry(r, o)}]
        /\ peer' = IF got THEN peer \cup {<<t, r>>} ELSE peer
        /\ rest' = [rest EXCEPT ![p] = Remaining(@, o)]
        /\ running' = p
        /\ pc' = [pc EXCEPT ![p] = "notify"]
        /\ UNCHANGED <<revoked, agents, registered, exp, accepted>>
        /\ UNCHANGED <<now, walk, child, known>>

(* The task is cancelled in its await: revoke does not catch that.         *)
Cancel(p) ==
    /\ running = None
    /\ pc[p] = "await"
    /\ pc' = [pc EXCEPT ![p] = "cancelled"]
    /\ queue' = [queue EXCEPT ![p] = <<>>]
    /\ todo' = [todo EXCEPT ![p] = {}]
    /\ key' = [key EXCEPT ![p] = None]
    /\ child' = [child EXCEPT ![p] = None]
    /\ rest' = [rest EXCEPT ![p] = <<>>]
    /\ report' = [report EXCEPT ![p] = {}]
    /\ UNCHANGED <<store, now, peer, running, root, agent, visited>>
    /\ UNCHANGED <<scheduled, known>>

(* All recipients are done: earlier successes join the report.             *)
EndNotify(p) ==
    /\ running = p
    /\ pc[p] = "notify"
    /\ rest[p] = <<>>
    /\ report' = [report EXCEPT ![p] = @ \cup
                    {Entry(r, "ok") : r \in PriorSuccesses(p, child[p])}]
    /\ child' = [child EXCEPT ![p] = None]
    /\ pc' = [pc EXCEPT ![p] = "scan"]
    /\ UNCHANGED <<store, now, peer, running, walk, rest, known>>

EndScan(p) ==
    /\ running = p
    /\ pc[p] = "scan"
    /\ \A t \in todo[p] : ~ Hit(p, t)
    /\ todo' = [todo EXCEPT ![p] = {}]
    /\ key' = [key EXCEPT ![p] = None]
    /\ pc' = [pc EXCEPT ![p] = "pop"]
    /\ UNCHANGED <<store, now, peer, running, root, agent, queue, visited>>
    /\ UNCHANGED <<scheduled, notice, known>>

Return(p) ==
    /\ running = p
    /\ pc[p] = "pop"
    /\ queue[p] = <<>>
    /\ report' = [report EXCEPT ![p] = Answer(p)]
    /\ pc' = [pc EXCEPT ![p] = "done"]
    /\ running' = None
    /\ UNCHANGED <<store, now, peer, walk, child, rest, known>>
-----------------------------------------------------------------------------
(* The steps of a call once it is accepted.                                *)
Compute(p) ==
    \/ Pop(p)
    \/ \E t \in Issued : Cascade(p, t)
    \/ SkipRecipient(p) \/ Send(p) \/ EndNotify(p)
    \/ EndScan(p) \/ Return(p)

Answered(p) ==
    \E raw \in Answers, got \in BOOLEAN : Reply(p, raw, got)

Host ==
    \/ \E k \in Keys : CheckToken(k)
    \/ \E k \in Foreign : RecordAgent(k)
    \/ \E t \in Issued : AcceptIssue(t) \/ RecordIssued(t)

Requests(p) ==
    \/ \E k \in Keys, e \in Exps, s, f \in BOOLEAN : Refuse(p, k, e, s, f)
    \/ \E k \in Keys : \E e \in Requested(k) : Revoke(p, k, e)

Next ==
    \/ Tick
    \/ Host
    \/ \E p \in Calls : Requests(p) \/ Compute(p) \/ Answered(p) \/ Cancel(p)

Spec == Init /\ [][Next]_vars

(* The event loop runs a ready task, and every send ends: send_revocation  *)
(* uses an HTTP timeout and a poll limit.  No call has to be made, and no  *)
(* call has to be cancelled.                                               *)
FairSpec == Spec /\ \A p \in Calls : WF_vars(Compute(p) \/ Answered(p))
-----------------------------------------------------------------------------
TypeOK ==
    /\ revoked \in [Keys -> Nat]
    /\ agents \subseteq Foreign
    /\ registered \subseteq Issued
    /\ exp \in [Issued -> Nat]
    /\ outcomes \in [Issued -> [Recipients -> Outcomes]]
    /\ accepted \subseteq Issued
    /\ now \in Nat
    /\ peer \subseteq Issued \X Recipients
    /\ running \in Calls \cup {None}
    /\ pc \in [Calls -> {"idle", "refused", "pop", "scan", "notify", "await",
                         "done", "cancelled"}]
    /\ root \in [Calls -> Keys \cup {None}]
    /\ agent \in [Calls -> {SubjectOf[k] : k \in Keys} \cup {None}]
    /\ queue \in [Calls -> Seq(Keys)]
    /\ visited \in [Calls -> SUBSET Keys]
    /\ scheduled \in [Calls -> SUBSET Keys]
    /\ key \in [Calls -> Keys \cup {None}]
    /\ todo \in [Calls -> SUBSET Issued]
    /\ child \in [Calls -> Issued \cup {None}]
    /\ rest \in [Calls -> Seq(Recipients)]
    /\ report \in [Calls -> SUBSET Entries]
    /\ known \in [Calls -> SUBSET Issued]
-----------------------------------------------------------------------------
(* Is the revocation of t on record for as long as t would be valid?       *)
Covered(t) == now > exp[t] \/ revoked[t] >= exp[t]

(* No recipient is told, and none has recorded, that a token is revoked    *)
(* while this server would still accept it (revocation.py:187: "Record     *)
(* before sending"): record precedes the await of send, and no later call  *)
(* or lookup shortens what was recorded.                                   *)
RecordedBeforeSend ==
    /\ \A p \in Calls : pc[p] = "await" => Covered(child[p])
    /\ \A t \in Issued, r \in Recipients : <<t, r>> \in peer => Covered(t)

(* A call that returned has revoked every live token it knew that depends  *)
(* on a token it revoked, or that was issued to the revoked agent: however *)
(* its awaits were interleaved with other calls, and whatever calls were   *)
(* cancelled half-way before it (revocation.py:221-233).                   *)
CascadeComplete ==
    \A p \in Calls : pc[p] = "done" =>
        \A d \in scheduled[p], t \in known[p] :
            Live(t) /\ Affected(p, d, t) => t \in scheduled[p] /\ IsRevoked(t)

(* Has every call that revoked d returned?                                 *)
Settled(d) == \A p \in Calls : d \in scheduled[p] => pc[p] = "done"

(* Once the calls that revoked d have returned no registered live token    *)
(* depends on d unrevoked, the tokens registered while they ran included.  *)
(* It takes a host that checks and records in one turn of the event loop   *)
(* (record_issued does not look at the dependencies again).                *)
ClosedWhenSettled ==
    \A t \in registered : \A d \in Deps[t] :
        IsRevoked(d) /\ Settled(d) /\ Live(t) => IsRevoked(t)

(* The keys below d, d included: the smallest set with d that holds what   *)
(* depends on one of its own.                                              *)
DependencyClosed(T) == \A t \in Issued : Deps[t] \cap T # {} => t \in T
Below == [d \in Keys |-> {k \in Keys : \A T \in SUBSET Keys :
                             d \in T /\ DependencyClosed(T) => k \in T}]

(* When no call is under way and none was cancelled, nothing below a       *)
(* revoked token is accepted, even where a token in between has expired    *)
(* and was passed over: bounded_exp lets no token outlive its dependencies *)
(* (tokens/common.py:40-51, revocation.py:223).                            *)
NoLiveDescendant ==
    (\A p \in Calls : pc[p] \in {"idle", "refused", "done"}) =>
        \A d \in Keys, t \in registered :
            IsRevoked(d) /\ t \in Below[d] /\ Live(t) => IsRevoked(t)

(* Has the call p reason to revoke t: is t below the token it was asked to *)
(* revoke, or below one issued to that token's agent?                      *)
Reaches(p, t) ==
    \/ t \in Below[root[p]]
    \/ \E a \in Issued : /\ t \in Below[a]
                         /\ AgentIdentity[a] # None
                         /\ Role = "ps"
                         /\ AgentIdentity[a] = SubjectOf[root[p]]

(* A token this server issued is revoked only when a request for it, for a *)
(* token above it, or for its agent (or the agent of a token above it) was *)
(* accepted: the same jti of another issuer, another agent, or a token     *)
(* without an agent identity does not reach it (revocation.py:141,212-233).*)
NoCollateral ==
    \A t \in Issued : revoked[t] # 0 =>
        \E p \in Calls : /\ root[p] # None /\ Issuer(root[p]) \in AllowedIssuers
                         /\ Reaches(p, t)

(* A revocation in force stays in force until its expiration: no repeat    *)
(* with an earlier one, no cascade and no lookup ends it sooner            *)
(* (revocation.py:148-160).                                                *)
RevocationHolds ==
    [][\A k \in Keys : revoked[k] # 0 /\ now' <= revoked[k]
                         => revoked'[k] >= revoked[k]]_vars

(* A recipient the AS's report names without an error has recorded every   *)
(* token of the cascade it holds (revocation.py:234-264): the report is    *)
(* built from this call's answers and from those of earlier calls.         *)
ErrorFreeMeansDelivered ==
    \A p \in Calls : pc[p] = "done" /\ Role = "as" =>
        \A t \in scheduled[p] \ {root[p]} : \A r \in Range(RecipientsOf[t]) :
            \/ <<t, r>> \in peer
            \/ \E x \in report[p] : x.recipient = r /\ x.error # "none"

(* A call that returned names every recipient of the tokens it revoked     *)
(* (revocation.py:259: "Report prior successes on a repeat too").          *)
EveryRecipientReported ==
    \A p \in Calls : pc[p] = "done" /\ Role = "as" =>
        \A t \in scheduled[p] \ {root[p]} : \A r \in Range(RecipientsOf[t]) :
            \E x \in report[p] : x.recipient = r

(* Every accepted call comes to an end, whatever is issued meanwhile: each *)
(* token is queued once.                                                   *)
Termination ==
    \A p \in Calls : pc[p] \in {"pop", "scan", "notify", "await"}
                       ~> pc[p] \in {"done", "cancelled"}

(* A dependency's revocation reaches the dependent in the end, unless the  *)
(* dependent expires or a call that should have done it is cancelled.      *)
RevocationSpreads ==
    \A t \in Issued : \A d \in Deps[t] :
        t \in registered /\ IsRevoked(d)
          ~> \/ IsRevoked(t) \/ ~ Live(t)
             \/ \E p \in Calls : pc[p] = "cancelled"
=============================================================================
