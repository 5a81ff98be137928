------------------------------ MODULE Deferred ------------------------------
(***************************************************************************)
(* What a deferred request (202) promises its two sides, abstractly: the   *)
(* server decides once; the questions it asks on the way are answered one  *)
(* at a time, each at most once, while it still wants to know; and the     *)
(* client ends with the server's verdict or with a failure of its own,     *)
(* never with a verdict the server did not reach.                          *)
(***************************************************************************)
EXTENDS Naturals, Sequences

CONSTANTS
    Questions, \* what the server may ask
    Verdicts,  \* the statuses it may end with
    Failed,    \* the client's outcome when it gives up
    None

VARIABLES
    verdict,   \* what the server decided, or None
    open,      \* the question it waits for, or None
    answered,  \* the questions answered, in order
    outcome    \* what the client ended with, or None

vars == <<verdict, open, answered, outcome>>

Init ==
    /\ verdict = None
    /\ open \in Questions \cup {None}
    /\ answered = <<>>
    /\ outcome = None

(* A question that was answered is not asked again.                        *)
Ask(q) ==
    /\ verdict = None /\ open = None
    /\ \A i \in 1..Len(answered) : answered[i] # q
    /\ open' = q
    /\ UNCHANGED <<verdict, answered, outcome>>

Answer ==
    /\ open # None
    /\ answered' = Append(answered, open)
    /\ open' = None
    /\ UNCHANGED <<verdict, outcome>>

(* A decision closes the question.                                         *)
Decide(v) ==
    /\ verdict = None
    /\ verdict' = v
    /\ open' = None
    /\ UNCHANGED <<answered, outcome>>

Learn ==
    /\ outcome = None /\ verdict # None
    /\ outcome' = verdict
    /\ UNCHANGED <<verdict, open, answered>>

GiveUp ==
    /\ outcome = None
    /\ outcome' = Failed
    /\ UNCHANGED <<verdict, open, answered>>

Next ==
    \/ \E q \in Questions : Ask(q)
    \/ \E v \in Verdicts : Decide(v)
    \/ Answer \/ Learn \/ GiveUp

Spec == Init /\ [][Next]_vars

(* The client does not wait for ever.                                      *)
FairSpec == Spec /\ WF_vars(Learn \/ GiveUp)
=============================================================================
