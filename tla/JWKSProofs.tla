----------------------------- MODULE JWKSProofs -----------------------------
(***************************************************************************)
(* What the key fetcher guarantees for any issuers, callers, key sets,     *)
(* intervals, lifetimes and timeouts.                                      *)
(***************************************************************************)
EXTENDS JWKS, TLAPS

(* A call past its start has an issuer, one with an answer a key set.      *)
CallInv ==
    \A p \in Calls :
        /\ pc[p] \in {"metadata", "jwks", "reply"} => asked[p] \in Documents
        /\ pc[p] = "reply" => body[p] \in Versions

(* The ages stay within what is counted.                                   *)
BoundsInv ==
    /\ \A u \in Uris : age[u] <= Lifetime + 1
    /\ \A i \in Issuers : since[i] <= gap[i] /\ gap[i] <= Interval
    /\ \A p \in Calls : wait[p] <= Timeout
    /\ \A u \in Uris, v \in Versions :
         /\ superseded[u][v] <= Horizon
         /\ v >= version[u] => superseded[u][v] = 0

(* An answer was current when the server gave it, a cached key set at most *)
(* a request's duration before it was cached.                              *)
AgeInv ==
    /\ \A p \in Calls : pc[p] = "reply" => superseded[Uri(p)][body[p]] <= wait[p]
    /\ \A u \in Uris : cached[u] # None =>
         superseded[u][cached[u]] <= age[u] + Timeout

IInv == TypeOK /\ CallInv /\ BoundsInv /\ AgeInv

LEMMA AgedBounds ==
    ASSUME NEW n \in Nat, NEW cap \in Nat
    PROVE  /\ Aged(n, cap) \in Nat
           /\ n <= cap => Aged(n, cap) <= cap
           /\ n < cap => Aged(n, cap) = n + 1
           /\ n >= cap => Aged(n, cap) = n
BY DEF Aged

LEMMA InitInv == Init => IInv
BY MetadataAssumption, VersionsAssumption, LimitsAssumption, NoneAssumption
   DEF Init, IInv, TypeOK, CallInv, BoundsInv, AgeInv, InFlight, Horizon,
       Ended, Versions
-----------------------------------------------------------------------------
LEMMA TypeStep == TypeOK /\ CallInv /\ [Next]_vars => TypeOK' /\ CallInv'
<1> SUFFICES ASSUME TypeOK, CallInv, [Next]_vars
             PROVE  TypeOK' /\ CallInv'
  OBVIOUS
<1>0. /\ UriOf \in [Documents -> Uris] /\ IssuerOf \in [Documents -> Issuers]
      /\ MaxVersion \in Nat
      /\ Interval \in Nat /\ Lifetime \in Nat /\ Timeout \in Nat
      /\ None \notin Versions
  BY MetadataAssumption, VersionsAssumption, LimitsAssumption, NoneAssumption
<1> USE DEF fetcher, call, history, Ended
<1>1. CASE Tick
  <2>1. Horizon \in Nat /\ Lifetime + 1 \in Nat
    BY <1>0 DEF Horizon
  <2>2. \A n, cap \in Nat : Aged(n, cap) \in Nat
    BY DEF Aged
  <2>3. /\ age' \in [Uris -> Nat] /\ since' \in [Issuers -> Nat]
        /\ gap' \in [Issuers -> Nat]
    BY <1>0, <1>1, <2>1, <2>2 DEF Tick, TypeOK
  <2>4. wait' \in [Calls -> Nat]
    BY <1>1 DEF Tick, TypeOK
  <2>5. superseded' \in [Uris -> [Versions -> Nat]]
    BY <1>1, <2>1, <2>2 DEF Tick, TypeOK
  <2> QED
    BY <1>1, <2>3, <2>4, <2>5 DEF Tick, TypeOK, CallInv
<1>2. ASSUME NEW u \in Uris, Rotate(u) PROVE TypeOK' /\ CallInv'
  <2>1. version[u] + 1 \in Versions
    BY <1>0, <1>2 DEF Rotate, TypeOK, Versions
  <2> QED
    BY <1>2, <2>1 DEF Rotate, TypeOK, CallInv
<1>3. ASSUME NEW p \in Calls, NEW d \in Documents, NEW k \in Kids \cup {None},
             Call(p, d, k)
      PROVE  TypeOK' /\ CallInv'
  BY <1>3 DEF Call, TypeOK, CallInv
<1>4. ASSUME NEW p \in Calls, NoMetadata(p) PROVE TypeOK' /\ CallInv'
  BY <1>4 DEF NoMetadata, TypeOK, CallInv
<1>5. ASSUME NEW p \in Calls, UseCache(p) PROVE TypeOK' /\ CallInv'
  <2>1. cached[Uri(p)] \in Versions
    BY <1>0, <1>5 DEF UseCache, Usable, Uri, TypeOK, CallInv
  <2> QED
    BY <1>5, <2>1 DEF UseCache, TypeOK, CallInv
<1>6. ASSUME NEW p \in Calls, Refuse(p) PROVE TypeOK' /\ CallInv'
  BY <1>6 DEF Refuse, TypeOK, CallInv
<1>7. ASSUME NEW p \in Calls, Begin(p) PROVE TypeOK' /\ CallInv'
  BY <1>7 DEF Begin, TypeOK, CallInv
<1>8. ASSUME NEW p \in Calls, Serve(p) PROVE TypeOK' /\ CallInv'
  <2>1. version[Uri(p)] \in Versions
    BY <1>0, <1>8 DEF Serve, Uri, TypeOK, CallInv
  <2> QED
    BY <1>8, <2>1 DEF Serve, TypeOK, CallInv
<1>9. ASSUME NEW p \in Calls, Arrive(p) PROVE TypeOK' /\ CallInv'
  <2>1. body[p] \in Versions /\ Uri(p) \in Uris /\ newest[Uri(p)] \in Versions
    BY <1>0, <1>9 DEF Arrive, Uri, TypeOK, CallInv
  <2> QED
    BY <1>9, <2>1 DEF Arrive, Over, Later, TypeOK, CallInv
<1>10. ASSUME NEW p \in Calls, Fail(p) PROVE TypeOK' /\ CallInv'
  BY <1>10 DEF Fail, Over, TypeOK, CallInv, InFlight
<1>11. ASSUME NEW U, Drop(U) PROVE TypeOK' /\ CallInv'
  BY <1>11 DEF Drop, TypeOK, CallInv
<1>12. CASE UNCHANGED vars
  BY <1>12 DEF vars, TypeOK, CallInv
<1> QED
  BY <1>1, <1>2, <1>3, <1>4, <1>5, <1>6, <1>7, <1>8, <1>9, <1>10, <1>11, <1>12
     DEF Next, Answer, Invalidate, Clear

LEMMA BoundsStep ==
    TypeOK /\ CallInv /\ BoundsInv /\ [Next]_vars => BoundsInv'
<1> SUFFICES ASSUME TypeOK, CallInv, BoundsInv, [Next]_vars
             PROVE  BoundsInv'
  OBVIOUS
<1>0. /\ UriOf \in [Documents -> Uris] /\ IssuerOf \in [Documents -> Issuers]
      /\ MaxVersion \in Nat
      /\ Interval \in Nat /\ Lifetime \in Nat /\ Timeout \in Nat
      /\ Lifetime + 1 \in Nat /\ Horizon \in Nat
  BY MetadataAssumption, VersionsAssumption, LimitsAssumption DEF Horizon
<1> USE DEF fetcher, call, history
<1>1. CASE Tick
  <2>1. \A u \in Uris : age'[u] <= Lifetime + 1
    <3>1. \A u \in Uris : age[u] \in Nat /\ age[u] <= Lifetime + 1
      BY DEF TypeOK, BoundsInv
    <3>2. \A u \in Uris : age'[u] \in {0, Aged(age[u], Lifetime + 1)}
      BY <1>1 DEF Tick
    <3> QED
      BY <1>0, <3>1, <3>2 DEF Aged
  <2>2. ASSUME NEW i \in Issuers
        PROVE  since'[i] <= gap'[i] /\ gap'[i] <= Interval
    <3>1. /\ since[i] \in Nat /\ gap[i] \in Nat
          /\ since[i] <= gap[i] /\ gap[i] <= Interval
          /\ since'[i] = Aged(since[i], Interval)
          /\ gap'[i] = Aged(gap[i], Interval)
      BY <1>1 DEF Tick, TypeOK, BoundsInv
    <3> QED
      BY <1>0, <3>1 DEF Aged
  <2>3. \A p \in Calls : wait'[p] <= Timeout
    BY <1>0, <1>1 DEF Tick, TypeOK, InFlight
  <2>4. ASSUME NEW u \in Uris, NEW v \in Versions
        PROVE  /\ superseded'[u][v] <= Horizon
               /\ v >= version'[u] => superseded'[u][v] = 0
    <3>1. /\ superseded[u][v] \in Nat /\ superseded[u][v] <= Horizon
          /\ superseded'[u][v] = IF v < version[u]
                                 THEN Aged(superseded[u][v], Horizon) ELSE 0
          /\ version' = version /\ v \in Nat /\ version[u] \in Nat
      BY <1>0, <1>1 DEF Tick, TypeOK, BoundsInv, Versions
    <3> QED
      BY <1>0, <3>1 DEF Aged
  <2> QED
    BY <2>1, <2>2, <2>3, <2>4 DEF BoundsInv
<1>2. ASSUME NEW u \in Uris, Rotate(u) PROVE BoundsInv'
  <2>1. ASSUME NEW w \in Uris, NEW v \in Versions, v >= version'[w]
        PROVE  v >= version[w]
    BY <1>0, <1>2, <2>1 DEF Rotate, TypeOK, Versions
  <2> QED
    BY <1>2, <2>1 DEF Rotate, BoundsInv, InFlight
<1>3. ASSUME NEW p \in Calls, NEW d \in Documents, NEW k \in Kids \cup {None},
             Call(p, d, k)
      PROVE  BoundsInv'
  BY <1>3 DEF Call, BoundsInv, InFlight, TypeOK
<1>4. ASSUME NEW p \in Calls, NoMetadata(p) \/ UseCache(p) \/ Refuse(p)
      PROVE  BoundsInv'
  BY <1>4 DEF NoMetadata, UseCache, Refuse, BoundsInv, InFlight, TypeOK
<1>5. ASSUME NEW p \in Calls, Begin(p) PROVE BoundsInv'
  BY <1>0, <1>5 DEF Begin, BoundsInv, InFlight, TypeOK, CallInv
<1>6. ASSUME NEW p \in Calls, Serve(p) PROVE BoundsInv'
  BY <1>6 DEF Serve, BoundsInv, InFlight, TypeOK
<1>7. ASSUME NEW p \in Calls, Arrive(p) PROVE BoundsInv'
  BY <1>0, <1>7 DEF Arrive, Over, BoundsInv, InFlight, TypeOK, CallInv
<1>8. ASSUME NEW p \in Calls, Fail(p) PROVE BoundsInv'
  BY <1>0, <1>8 DEF Fail, Over, BoundsInv, InFlight, TypeOK
<1>9. ASSUME NEW U, Drop(U) PROVE BoundsInv'
  BY <1>9 DEF Drop, BoundsInv, InFlight
<1>10. CASE UNCHANGED vars
  BY <1>10 DEF vars, BoundsInv, InFlight
<1> QED
  BY <1>1, <1>2, <1>3, <1>4, <1>5, <1>6, <1>7, <1>8, <1>9, <1>10
     DEF Next, Answer, Invalidate, Clear

LEMMA AgeStep == IInv /\ [Next]_vars => AgeInv'
<1> SUFFICES ASSUME TypeOK, CallInv, BoundsInv, AgeInv, [Next]_vars
             PROVE  AgeInv'
  BY DEF IInv
<1>0. /\ UriOf \in [Documents -> Uris] /\ IssuerOf \in [Documents -> Issuers]
      /\ MaxVersion \in Nat
      /\ Interval \in Nat /\ Lifetime \in Nat /\ Timeout \in Nat
      /\ None \notin Versions
  BY MetadataAssumption, VersionsAssumption, LimitsAssumption, NoneAssumption
<1> USE DEF fetcher, call, history
(* What is cached and what is under way, where a step leaves it alone.     *)
<1>1. ASSUME UNCHANGED superseded, UNCHANGED asked,
             \A u \in Uris : cached'[u] # None =>
               cached'[u] = cached[u] /\ age'[u] = age[u],
             \A p \in Calls : pc'[p] = "reply" =>
               pc[p] = "reply" /\ body'[p] = body[p] /\ wait'[p] = wait[p]
      PROVE  AgeInv'
  BY <1>1 DEF AgeInv, Uri
<1>2. CASE Tick
  <2>1. ASSUME NEW p \in Calls, pc'[p] = "reply"
        PROVE  superseded'[Uri(p)'][body'[p]] <= wait'[p]
    <3>1. /\ Uri(p)' = Uri(p) /\ Uri(p) \in Uris /\ body'[p] = body[p]
          /\ body[p] \in Versions /\ wait'[p] = wait[p] + 1 /\ wait[p] \in Nat
          /\ superseded[Uri(p)][body[p]] \in Nat
          /\ superseded[Uri(p)][body[p]] <= wait[p]
      BY <1>0, <1>2, <2>1 DEF Tick, Uri, InFlight, TypeOK, CallInv, AgeInv
    <3>2. superseded'[Uri(p)][body[p]] \in
            {0, Aged(superseded[Uri(p)][body[p]], Horizon)}
      BY <1>2, <3>1 DEF Tick
    <3> QED
      BY <3>1, <3>2 DEF Aged
  <2>2. ASSUME NEW u \in Uris, cached'[u] # None
        PROVE  superseded'[u][cached'[u]] <= age'[u] + Timeout
    <3>1. /\ cached'[u] = cached[u] /\ cached[u] \in Versions
          /\ age[u] \in Nat /\ age[u] <= Lifetime + 1
          /\ age'[u] = Aged(age[u], Lifetime + 1)
          /\ superseded[u][cached[u]] \in Nat
          /\ superseded[u][cached[u]] <= Horizon
          /\ superseded[u][cached[u]] <= age[u] + Timeout
      BY <1>2, <2>2 DEF Tick, TypeOK, BoundsInv, AgeInv
    <3>2. superseded'[u][cached[u]] \in
            {0, Aged(superseded[u][cached[u]], Horizon)}
      BY <1>2, <3>1 DEF Tick
    <3> QED
      BY <1>0, <3>1, <3>2 DEF Aged, Horizon
  <2> QED
    BY <2>1, <2>2 DEF AgeInv
<1>3. ASSUME NEW u \in Uris, Rotate(u) PROVE AgeInv'
  BY <1>1, <1>3 DEF Rotate
<1>4. ASSUME NEW p \in Calls, NEW d \in Documents, NEW k \in Kids \cup {None},
             Call(p, d, k)
      PROVE  AgeInv'
  <2>1. \A q \in Calls : pc'[q] = "reply" =>
          /\ pc[q] = "reply" /\ asked'[q] = asked[q]
          /\ body'[q] = body[q] /\ wait'[q] = wait[q]
    BY <1>4 DEF Call, TypeOK
  <2> QED
    BY <1>4, <2>1 DEF Call, AgeInv, Uri
<1>5. ASSUME NEW p \in Calls, NoMetadata(p) \/ UseCache(p) PROVE AgeInv'
  <2>1. \A q \in Calls : pc'[q] = "reply" => pc[q] = "reply"
    BY <1>5 DEF NoMetadata, UseCache, TypeOK
  <2> QED
    BY <1>1, <1>5, <2>1 DEF NoMetadata, UseCache
<1>6. ASSUME NEW p \in Calls, Refuse(p) \/ Begin(p) PROVE AgeInv'
  <2>1. \A q \in Calls : pc'[q] = "reply" => pc[q] = "reply"
    BY <1>6 DEF Refuse, Begin, TypeOK
  <2>2. \A u \in Uris : cached'[u] # None => cached'[u] = cached[u]
    BY <1>6 DEF Refuse, Begin, TypeOK
  <2> QED
    BY <1>1, <1>6, <2>1, <2>2 DEF Refuse, Begin
<1>7. ASSUME NEW p \in Calls, Serve(p) PROVE AgeInv'
  <2>1. /\ Uri(p) \in Uris /\ version[Uri(p)] \in Versions
        /\ superseded[Uri(p)][version[Uri(p)]] = 0 /\ wait[p] \in Nat
    <3>1. Uri(p) \in Uris /\ wait[p] \in Nat
      BY <1>0, <1>7 DEF Serve, Uri, TypeOK, CallInv
    <3>2. version[Uri(p)] \in Versions /\ version[Uri(p)] >= version[Uri(p)]
      BY <1>0, <3>1 DEF TypeOK, Versions
    <3> QED
      BY <3>1, <3>2 DEF BoundsInv
  <2>2. body'[p] = version[Uri(p)] /\ UNCHANGED <<superseded, asked, wait, cached, age>>
    BY <1>7 DEF Serve, TypeOK
  <2>3. \A q \in Calls : q # p /\ pc'[q] = "reply" =>
          pc[q] = "reply" /\ body'[q] = body[q]
    BY <1>7 DEF Serve, TypeOK
  <2> QED
    BY <2>1, <2>2, <2>3 DEF AgeInv, Uri
<1>8. ASSUME NEW p \in Calls, Arrive(p) PROVE AgeInv'
  <2>1. /\ Uri(p) \in Uris /\ body[p] \in Versions /\ wait[p] \in Nat
        /\ superseded[Uri(p)][body[p]] \in Nat
        /\ superseded[Uri(p)][body[p]] <= wait[p] /\ wait[p] <= Timeout
    BY <1>0, <1>8 DEF Arrive, Uri, TypeOK, CallInv, AgeInv, BoundsInv
  <2>2. /\ cached' = [cached EXCEPT ![Uri(p)] = body[p]]
        /\ age' = [age EXCEPT ![Uri(p)] = 0]
        /\ UNCHANGED <<superseded, asked>>
    BY <1>8 DEF Arrive
  <2>3. \A q \in Calls : pc'[q] = "reply" =>
          pc[q] = "reply" /\ body'[q] = body[q] /\ wait'[q] = wait[q]
    BY <1>8 DEF Arrive, Over, TypeOK
  <2>4. \A u \in Uris : cached'[u] # None =>
          superseded[u][cached'[u]] <= age'[u] + Timeout
    BY <1>0, <2>1, <2>2 DEF AgeInv, TypeOK
  <2> QED
    BY <2>2, <2>3, <2>4 DEF AgeInv, Uri
<1>9. ASSUME NEW p \in Calls, Fail(p) PROVE AgeInv'
  <2>1. \A q \in Calls : pc'[q] = "reply" =>
          pc[q] = "reply" /\ body'[q] = body[q] /\ wait'[q] = wait[q]
    BY <1>9 DEF Fail, Over, TypeOK
  <2> QED
    BY <1>1, <1>9, <2>1 DEF Fail
<1>10. ASSUME NEW U, Drop(U) PROVE AgeInv'
  BY <1>1, <1>10 DEF Drop
<1>11. CASE UNCHANGED vars
  BY <1>1, <1>11 DEF vars
<1> QED
  BY <1>2, <1>3, <1>4, <1>5, <1>6, <1>7, <1>8, <1>9, <1>10, <1>11
     DEF Next, Answer, Invalidate, Clear

(* The inductive invariant: how old an answer or a cached key set is.      *)
THEOREM Invariance == Spec => []IInv
<1>1. IInv /\ [Next]_vars => IInv'
  BY TypeStep, BoundsStep, AgeStep DEF IInv
<1> QED
  BY <1>1, InitInv, PTL DEF Spec

(* The fetcher's state keeps its types; a call that is done has a key set. *)
THEOREM TypeCorrect == Spec => []TypeOK
<1>1. IInv => TypeOK
  BY DEF IInv
<1> QED
  BY <1>1, Invariance, PTL

(* JWKS requests for one issuer begin at least the interval apart          *)
(* (jwks.py:225-232): the limit never lags behind the requests.            *)
THEOREM LimitHolds == Spec => OncePerInterval
<1>1. IInv /\ [Next]_vars =>
        [\A p \in Calls : pc[p] = "metadata" /\ pc'[p] = "jwks"
                            => gap[Issuer(p)] >= Interval]_vars
  <2> SUFFICES ASSUME IInv, Next, NEW p \in Calls,
                      pc[p] = "metadata", pc'[p] = "jwks"
               PROVE  gap[Issuer(p)] >= Interval
    OBVIOUS
  <2>1. Begin(p)
    BY DEF Next, Answer, IInv, TypeOK, Tick, Rotate, Call, NoMetadata, UseCache,
           Refuse, Begin, Serve, Arrive, Fail, InFlight, Invalidate, Clear,
           Drop, call, vars
  <2>2. Issuer(p) \in Issuers /\ since[Issuer(p)] >= Interval
    BY <2>1, MetadataAssumption DEF Begin, CanFetch, Issuer, IInv, CallInv
  <2>3. /\ since[Issuer(p)] \in Nat /\ gap[Issuer(p)] \in Nat /\ Interval \in Nat
        /\ since[Issuer(p)] <= gap[Issuer(p)]
    BY <2>2, LimitsAssumption DEF IInv, TypeOK, BoundsInv
  <2> QED
    BY <2>2, <2>3
<1> QED
  BY <1>1, Invariance, PTL DEF Spec, OncePerInterval

(* No key set is returned that was replaced longer ago than the cache's    *)
(* lifetime and a request's duration (jwks.py:86-98, 244).                 *)
THEOREM StalenessBounded == Spec => NotStale
<1>1. IInv /\ [Next]_vars =>
        [\A p \in Calls : pc[p] # "done" /\ pc'[p] = "done"
           => superseded[Uri(p)][result'[p]] <= Lifetime + Timeout]_vars
  <2> SUFFICES ASSUME IInv, Next, NEW p \in Calls,
                      pc[p] # "done", pc'[p] = "done"
               PROVE  superseded[Uri(p)][result'[p]] <= Lifetime + Timeout
    OBVIOUS
  <2>0. /\ UriOf \in [Documents -> Uris] /\ IssuerOf \in [Documents -> Issuers]
        /\ Lifetime \in Nat /\ Timeout \in Nat /\ None \notin Versions
    BY MetadataAssumption, LimitsAssumption, NoneAssumption
  <2>1. UseCache(p) \/ Arrive(p)
    BY DEF Next, Answer, IInv, TypeOK, Tick, Rotate, Call, NoMetadata, UseCache,
           Refuse, Begin, Serve, Arrive, Fail, InFlight, Invalidate, Clear,
           Drop, call, vars
  <2>2. CASE UseCache(p)
    <3>1. /\ Uri(p) \in Uris /\ cached[Uri(p)] # None
          /\ age[Uri(p)] <= Lifetime /\ result'[p] = cached[Uri(p)]
      BY <2>0, <2>2 DEF UseCache, Usable, Uri, IInv, TypeOK, CallInv
    <3>2. /\ cached[Uri(p)] \in Versions /\ age[Uri(p)] \in Nat
          /\ superseded[Uri(p)][cached[Uri(p)]] \in Nat
          /\ superseded[Uri(p)][cached[Uri(p)]] <= age[Uri(p)] + Timeout
      BY <3>1 DEF IInv, TypeOK, AgeInv
    <3> QED
      BY <2>0, <3>1, <3>2
  <2>3. CASE Arrive(p)
    <3>1. /\ Uri(p) \in Uris /\ body[p] \in Versions /\ result'[p] = body[p]
          /\ superseded[Uri(p)][body[p]] <= wait[p]
      BY <2>0, <2>3 DEF Arrive, Uri, IInv, TypeOK, CallInv, AgeInv
    <3>2. /\ superseded[Uri(p)][body[p]] \in Nat /\ wait[p] \in Nat
          /\ wait[p] <= Timeout
      BY <3>1 DEF IInv, TypeOK, BoundsInv
    <3> QED
      BY <2>0, <3>1, <3>2
  <2> QED
    BY <2>1, <2>2, <2>3
<1> QED
  BY <1>1, Invariance, PTL DEF Spec, NotStale
-----------------------------------------------------------------------------
(* No two issuers share a jwks_uri; an issuer's documents name the same.   *)
NoneShared == \A d, e \in Documents : UriOf[d] = UriOf[e] => IssuerOf[d] = IssuerOf[e]
OneEach == \A d, e \in Documents : IssuerOf[d] = IssuerOf[e] => UriOf[d] = UriOf[e]

(* What arrived last is cached as long as the limit forbids a request.     *)
KeptInv ==
    \A d \in Documents : outcome[IssuerOf[d]] = "ok" /\ since[IssuerOf[d]] < Interval =>
        cached[UriOf[d]] # None /\ age[UriOf[d]] <= since[IssuerOf[d]]

LEMMA KeptStep ==
    ASSUME NoneShared, OneEach, Interval <= Lifetime
    PROVE  IInv /\ KeptInv /\ [Next]_vars => KeptInv'
<1> SUFFICES ASSUME TypeOK, CallInv, BoundsInv, KeptInv, [Next]_vars
             PROVE  KeptInv'
  BY DEF IInv
<1>0. /\ UriOf \in [Documents -> Uris] /\ IssuerOf \in [Documents -> Issuers]
      /\ Interval \in Nat /\ Lifetime \in Nat /\ None \notin Versions
      /\ \A p \in Calls : pc[p] \in {"metadata", "jwks", "reply"} =>
           asked[p] \in Documents /\ Uri(p) \in Uris /\ Issuer(p) \in Issuers
      /\ \A p \in Calls, d \in Documents : asked[p] \in Documents =>
           (IssuerOf[d] = Issuer(p) <=> UriOf[d] = Uri(p))
  BY MetadataAssumption, LimitsAssumption, NoneAssumption
     DEF CallInv, NoneShared, OneEach, Uri, Issuer
<1> USE DEF fetcher, call, history
<1>1. CASE Tick
  <2> SUFFICES ASSUME NEW d \in Documents, outcome'[IssuerOf[d]] = "ok",
                      since'[IssuerOf[d]] < Interval
               PROVE  /\ cached'[UriOf[d]] # None
                      /\ age'[UriOf[d]] <= since'[IssuerOf[d]]
    BY DEF KeptInv
  <2> DEFINE i == IssuerOf[d]
             u == UriOf[d]
  <2>1. /\ u \in Uris /\ i \in Issuers /\ since[i] \in Nat /\ age[u] \in Nat
        /\ outcome[i] = "ok" /\ cached' = cached
        /\ since'[i] = Aged(since[i], Interval)
    BY <1>0, <1>1 DEF Tick, TypeOK
  <2>2. since[i] < Interval /\ since'[i] = since[i] + 1
    BY <1>0, <2>1 DEF Aged
  <2>3. cached[u] # None /\ age[u] <= since[i]
    BY <2>1, <2>2 DEF KeptInv
  <2>4. age'[u] = Aged(age[u], Lifetime + 1)
    BY <1>1, <2>1, <2>3 DEF Tick
  <2> QED
    BY <1>0, <2>1, <2>2, <2>3, <2>4 DEF Aged
<1>2. ASSUME NEW p \in Calls, Refuse(p) PROVE KeptInv'
  <2>1. /\ asked[p] \in Documents /\ Uri(p) \in Uris /\ Issuer(p) \in Issuers
        /\ ~ Usable(Uri(p)) /\ ~ (since[Issuer(p)] >= Interval)
    BY <1>0, <1>2 DEF Refuse, CanFetch
  <2>2. outcome[Issuer(p)] # "ok"
    <3>1. /\ since[Issuer(p)] \in Nat /\ since[Issuer(p)] < Interval
          /\ age[Uri(p)] \in Nat
      BY <1>0, <2>1 DEF TypeOK
    <3> QED
      BY <1>0, <2>1, <3>1 DEF KeptInv, Usable, Uri, Issuer
  <2>3. ASSUME NEW d \in Documents, IssuerOf[d] # Issuer(p)
        PROVE  cached'[UriOf[d]] = cached[UriOf[d]]
    BY <1>0, <1>2, <2>1, <2>3 DEF Refuse, TypeOK
  <2> QED
    BY <1>2, <2>2, <2>3 DEF Refuse, KeptInv
<1>3. ASSUME NEW p \in Calls, Begin(p) PROVE KeptInv'
  <2>1. /\ asked[p] \in Documents /\ Issuer(p) \in Issuers /\ Uri(p) \in Uris
        /\ outcome'[Issuer(p)] = "awaited"
    BY <1>0, <1>3 DEF Begin, TypeOK
  <2>2. ASSUME NEW d \in Documents, IssuerOf[d] # Issuer(p)
        PROVE  /\ cached'[UriOf[d]] = cached[UriOf[d]]
               /\ outcome'[IssuerOf[d]] = outcome[IssuerOf[d]]
               /\ since'[IssuerOf[d]] = since[IssuerOf[d]]
    BY <1>0, <1>3, <2>1, <2>2 DEF Begin, TypeOK
  <2>3. age' = age
    BY <1>3 DEF Begin
  <2> QED
    BY <2>1, <2>2, <2>3 DEF KeptInv
<1>4. ASSUME NEW p \in Calls, Arrive(p) PROVE KeptInv'
  <2>1. /\ asked[p] \in Documents /\ Issuer(p) \in Issuers /\ Uri(p) \in Uris
        /\ body[p] \in Versions
    BY <1>0, <1>4 DEF Arrive, CallInv
  <2>2. cached'[Uri(p)] # None /\ age'[Uri(p)] = 0 /\ since'[Issuer(p)] = 0
    BY <1>0, <1>4, <2>1 DEF Arrive, TypeOK
  <2>3. ASSUME NEW d \in Documents, IssuerOf[d] # Issuer(p)
        PROVE  /\ cached'[UriOf[d]] = cached[UriOf[d]]
               /\ age'[UriOf[d]] = age[UriOf[d]]
               /\ outcome'[IssuerOf[d]] = outcome[IssuerOf[d]]
               /\ since'[IssuerOf[d]] = since[IssuerOf[d]]
    BY <1>0, <1>4, <2>1, <2>3 DEF Arrive, TypeOK
  <2>4. ASSUME NEW d \in Documents, IssuerOf[d] = Issuer(p)
        PROVE  UriOf[d] = Uri(p)
    BY <1>0, <2>1, <2>4
  <2> QED
    BY <2>2, <2>3, <2>4 DEF KeptInv
<1>5. ASSUME NEW p \in Calls, Fail(p) PROVE KeptInv'
  BY <1>5 DEF Fail, KeptInv, TypeOK
<1>6. ASSUME NEW U, Drop(U) PROVE KeptInv'
  <2> SUFFICES ASSUME NEW d \in Documents, outcome'[IssuerOf[d]] = "ok",
                      since'[IssuerOf[d]] < Interval
               PROVE  /\ cached'[UriOf[d]] # None
                      /\ age'[UriOf[d]] <= since'[IssuerOf[d]]
    BY DEF KeptInv
  <2>1. outcome[IssuerOf[d]] = "ok" /\ UNCHANGED <<age, since>>
    BY <1>0, <1>6 DEF Drop
  <2>2. cached[UriOf[d]] # None /\ age[UriOf[d]] <= since[IssuerOf[d]]
    BY <2>1 DEF KeptInv
  <2>3. UriOf[d] \notin U
    BY <1>0, <1>6, <2>1, <2>2 DEF Drop
  <2> QED
    BY <1>0, <1>6, <2>1, <2>2, <2>3 DEF Drop
<1>7. ASSUME UNCHANGED <<cached, age, since, outcome>> PROVE KeptInv'
  BY <1>7 DEF KeptInv
<1> QED
  BY <1>1, <1>2, <1>3, <1>4, <1>5, <1>6, <1>7
     DEF Next, Answer, Rotate, Call, NoMetadata, UseCache, Serve, Invalidate,
         Clear, vars

(* With an interval within the cache's lifetime, a call is refused for the *)
(* limit only while the last request for its issuer is awaited or after it *)
(* failed: a miss does not take keys away that are there (jwks.py:217-229).*)
THEOREM KeysNotLostToMisses ==
    ASSUME NoneShared, OneEach, Interval <= Lifetime
    PROVE  Spec => LimitedOnlyByFailure
<1>1. Init => KeptInv
  BY MetadataAssumption DEF Init, KeptInv
<1>2. IInv /\ KeptInv /\ [Next]_vars =>
        [\A p \in Calls : pc[p] = "metadata" /\ pc'[p] = "limited"
           => outcome[Issuer(p)] # "ok"]_vars
  <2> SUFFICES ASSUME IInv, KeptInv, Next, NEW p \in Calls,
                      pc[p] = "metadata", pc'[p] = "limited"
               PROVE  outcome[Issuer(p)] # "ok"
    OBVIOUS
  <2>1. Refuse(p)
    BY DEF Next, Answer, IInv, TypeOK, Tick, Rotate, Call, NoMetadata, UseCache,
           Refuse, Begin, Serve, Arrive, Fail, InFlight, Invalidate, Clear,
           Drop, call, vars
  <2>2. /\ asked[p] \in Documents /\ ~ Usable(Uri(p))
        /\ ~ (since[Issuer(p)] >= Interval)
    BY <2>1 DEF Refuse, CanFetch, IInv, CallInv
  <2>3. /\ Uri(p) \in Uris /\ Issuer(p) \in Issuers /\ since[Issuer(p)] \in Nat
        /\ age[Uri(p)] \in Nat /\ Interval \in Nat /\ Lifetime \in Nat
    BY <2>2, MetadataAssumption, LimitsAssumption DEF IInv, TypeOK, Uri, Issuer
  <2> QED
    BY <2>2, <2>3 DEF KeptInv, Usable, Uri, Issuer
<1> QED
  BY <1>1, <1>2, KeptStep, Invariance, PTL DEF Spec, LimitedOnlyByFailure
-----------------------------------------------------------------------------
(* At most one request for an issuer is under way: it was counted when it  *)
(* began, and ends before the limit allows the next.                       *)
SingleInv ==
    /\ \A p \in Calls : InFlight(p) => since[Issuer(p)] <= wait[p]
    /\ \A p, q \in Calls : InFlight(p) /\ InFlight(q) /\ Issuer(p) = Issuer(q) => p = q

(* An answer is no older than what has been cached.                        *)
NewestInv ==
    /\ CacheNeverGoesBack
    /\ \A u \in Uris : newest[u] <= version[u]
    /\ \A p \in Calls : pc[p] = "reply" =>
         newest[Uri(p)] <= body[p] /\ body[p] <= version[Uri(p)]

LEMMA SingleStep ==
    ASSUME Timeout < Interval
    PROVE  IInv /\ SingleInv /\ [Next]_vars => SingleInv'
<1> SUFFICES ASSUME TypeOK, CallInv, BoundsInv, SingleInv, [Next]_vars
             PROVE  SingleInv'
  BY DEF IInv
<1>0. /\ Interval \in Nat /\ Timeout \in Nat
      /\ \A p \in Calls : InFlight(p) \/ pc[p] = "metadata" => Issuer(p) \in Issuers
      /\ \A p \in Calls : InFlight(p) => since[Issuer(p)] <= wait[p] /\ wait[p] <= Timeout
  BY MetadataAssumption, LimitsAssumption
     DEF CallInv, InFlight, Issuer, BoundsInv, SingleInv
<1> USE DEF fetcher, call, history
(* A step under which no call joins those under way.                       *)
<1>1. ASSUME UNCHANGED since,
             \A p \in Calls : InFlight(p)' =>
               InFlight(p) /\ asked'[p] = asked[p] /\ wait'[p] = wait[p]
      PROVE  SingleInv'
  BY <1>1 DEF SingleInv, Issuer
<1>2. CASE Tick
  <2>1. ASSUME NEW p \in Calls, InFlight(p)' PROVE since'[Issuer(p)'] <= wait'[p]
    <3>1. /\ InFlight(p) /\ Issuer(p)' = Issuer(p) /\ Issuer(p) \in Issuers
          /\ wait'[p] = wait[p] + 1 /\ since'[Issuer(p)] = Aged(since[Issuer(p)], Interval)
          /\ since[Issuer(p)] \in Nat /\ wait[p] \in Nat /\ since[Issuer(p)] <= wait[p]
      BY <1>0, <1>2, <2>1 DEF Tick, TypeOK, InFlight, Issuer
    <3> QED
      BY <1>0, <3>1 DEF Aged
  <2> QED
    BY <1>2, <2>1 DEF Tick, SingleInv, InFlight, Issuer
<1>3. ASSUME NEW p \in Calls, NEW d \in Documents, NEW k \in Kids \cup {None},
             Call(p, d, k)
      PROVE  SingleInv'
  <2>1. \A q \in Calls : InFlight(q)' =>
          InFlight(q) /\ asked'[q] = asked[q] /\ wait'[q] = wait[q]
    BY <1>3 DEF Call, TypeOK, InFlight
  <2> QED
    BY <1>1, <1>3, <2>1 DEF Call
<1>4. ASSUME NEW p \in Calls, NoMetadata(p) \/ UseCache(p) \/ Refuse(p) \/ Fail(p)
      PROVE  SingleInv'
  <2>1. \A q \in Calls : InFlight(q)' =>
          InFlight(q) /\ asked'[q] = asked[q] /\ wait'[q] = wait[q]
    BY <1>4 DEF NoMetadata, UseCache, Refuse, Fail, Over, TypeOK, InFlight
  <2> QED
    BY <1>1, <1>4, <2>1 DEF NoMetadata, UseCache, Refuse, Fail
<1>5. ASSUME NEW p \in Calls, Begin(p) PROVE SingleInv'
  <2>1. /\ Issuer(p) \in Issuers /\ since[Issuer(p)] \in Nat /\ since[Issuer(p)] >= Interval
        /\ since' = [since EXCEPT ![Issuer(p)] = 0] /\ UNCHANGED <<asked, wait>>
        /\ ~ InFlight(p)
    BY <1>0, <1>5 DEF Begin, CanFetch, TypeOK, InFlight
  <2>2. \A q \in Calls : InFlight(q)' => q = p \/ InFlight(q)
    BY <1>5 DEF Begin, TypeOK, InFlight
  <2>3. \A q \in Calls : InFlight(q) => Issuer(q) # Issuer(p)
    <3> SUFFICES ASSUME NEW q \in Calls, InFlight(q), Issuer(q) = Issuer(p) PROVE FALSE
      OBVIOUS
    <3>1. wait[q] \in Nat /\ since[Issuer(p)] <= wait[q] /\ wait[q] <= Timeout
      BY <1>0 DEF TypeOK
    <3> QED
      BY <1>0, <2>1, <3>1
  <2>4. wait[p] \in Nat /\ since'[Issuer(p)] = 0
    BY <2>1 DEF TypeOK
  <2>5. \A q \in Calls : InFlight(q) => since'[Issuer(q)] = since[Issuer(q)]
    BY <1>0, <2>1, <2>3 DEF TypeOK
  <2> QED
    BY <2>1, <2>2, <2>3, <2>4, <2>5 DEF SingleInv, Issuer
<1>6. ASSUME NEW p \in Calls, Serve(p) PROVE SingleInv'
  <2>1. \A q \in Calls : InFlight(q)' =>
          InFlight(q) /\ asked'[q] = asked[q] /\ wait'[q] = wait[q]
    BY <1>6 DEF Serve, TypeOK, InFlight
  <2> QED
    BY <1>1, <1>6, <2>1 DEF Serve
<1>7. ASSUME NEW p \in Calls, Arrive(p) PROVE SingleInv'
  <2>1. /\ InFlight(p) /\ Issuer(p) \in Issuers /\ asked' = asked
        /\ since' = [since EXCEPT ![Issuer(p)] = 0]
    BY <1>0, <1>7 DEF Arrive, InFlight
  <2>2. \A q \in Calls : InFlight(q)' =>
          q # p /\ InFlight(q) /\ wait'[q] = wait[q]
    BY <1>7 DEF Arrive, Over, TypeOK, InFlight
  <2>3. \A q \in Calls : q # p /\ InFlight(q) =>
          Issuer(q) # Issuer(p) /\ since'[Issuer(q)] = since[Issuer(q)]
    BY <1>0, <2>1 DEF SingleInv, TypeOK
  <2> QED
    BY <2>1, <2>2, <2>3 DEF SingleInv, Issuer
<1>8. ASSUME UNCHANGED <<since, asked, wait, pc>> PROVE SingleInv'
  BY <1>1, <1>8 DEF InFlight
<1> QED
  BY <1>2, <1>3, <1>4, <1>5, <1>6, <1>7, <1>8 DEF Next, Answer, Rotate,
     Invalidate, Clear, Drop, vars

LEMMA NewestStep ==
    ASSUME NoneShared
    PROVE  IInv /\ SingleInv /\ NewestInv /\ [Next]_vars => NewestInv'
<1> SUFFICES ASSUME TypeOK, CallInv, SingleInv, NewestInv, [Next]_vars
             PROVE  NewestInv'
  BY DEF IInv
<1>0. /\ UriOf \in [Documents -> Uris] /\ IssuerOf \in [Documents -> Issuers]
      /\ MaxVersion \in Nat /\ None \notin Versions
      /\ \A p \in Calls : InFlight(p) \/ pc[p] = "metadata" => Uri(p) \in Uris
      /\ \A p, q \in Calls : InFlight(p) /\ InFlight(q) /\ Uri(p) = Uri(q) => p = q
  BY MetadataAssumption, VersionsAssumption, NoneAssumption
     DEF CallInv, InFlight, NoneShared, Uri, Issuer, SingleInv
<1> USE DEF fetcher, call, history
(* A step that caches and answers nothing.                                 *)
<1>1. ASSUME UNCHANGED <<version, newest>>,
             \A u \in Uris : cached'[u] # None => cached'[u] = cached[u],
             \A p \in Calls : pc'[p] = "reply" =>
               pc[p] = "reply" /\ body'[p] = body[p] /\ asked'[p] = asked[p]
      PROVE  NewestInv'
  BY <1>1 DEF NewestInv, CacheNeverGoesBack, Uri
<1>2. ASSUME NEW u \in Uris, Rotate(u) PROVE NewestInv'
  <2>1. \A w \in Uris : /\ version[w] \in Nat /\ version'[w] \in Nat
                         /\ version[w] <= version'[w] /\ newest[w] \in Nat
    <3>1. \A w \in Uris : version[w] \in 0..MaxVersion /\ newest[w] \in 0..MaxVersion
      BY DEF TypeOK, Versions
    <3>2. \A w \in Uris : version'[w] = IF w = u THEN version[w] + 1 ELSE version[w]
      BY <1>2 DEF Rotate, TypeOK
    <3> QED
      BY <1>0, <3>1, <3>2
  <2>2. ASSUME NEW p \in Calls, pc'[p] = "reply"
        PROVE  newest'[Uri(p)'] <= body'[p] /\ body'[p] <= version'[Uri(p)']
    <3>1. /\ pc[p] = "reply" /\ Uri(p)' = Uri(p) /\ Uri(p) \in Uris
          /\ body'[p] = body[p] /\ newest' = newest /\ body[p] \in Nat
      BY <1>0, <1>2, <2>2 DEF Rotate, Uri, InFlight, CallInv, Versions
    <3> QED
      BY <2>1, <3>1 DEF NewestInv
  <2>3. \A w \in Uris : newest'[w] <= version'[w]
    BY <1>2, <2>1 DEF Rotate, NewestInv
  <2> QED
    BY <1>2, <2>2, <2>3 DEF Rotate, NewestInv, CacheNeverGoesBack
<1>3. ASSUME NEW p \in Calls, NEW d \in Documents, NEW k \in Kids \cup {None},
             Call(p, d, k)
      PROVE  NewestInv'
  <2>1. \A q \in Calls : pc'[q] = "reply" =>
          pc[q] = "reply" /\ body'[q] = body[q] /\ asked'[q] = asked[q]
    BY <1>3 DEF Call, TypeOK
  <2> QED
    BY <1>1, <1>3, <2>1 DEF Call
<1>4. ASSUME NEW p \in Calls, \/ NoMetadata(p) \/ UseCache(p) \/ Refuse(p)
                              \/ Begin(p) \/ Fail(p)
      PROVE  NewestInv'
  <2>1. \A q \in Calls : pc'[q] = "reply" =>
          pc[q] = "reply" /\ body'[q] = body[q] /\ asked'[q] = asked[q]
    BY <1>4 DEF NoMetadata, UseCache, Refuse, Begin, Fail, Over, TypeOK
  <2>2. \A u \in Uris : cached'[u] # None => cached'[u] = cached[u]
    BY <1>4 DEF NoMetadata, UseCache, Refuse, Begin, Fail, TypeOK
  <2>3. UNCHANGED <<version, newest>>
    BY <1>4 DEF NoMetadata, UseCache, Refuse, Begin, Fail
  <2> QED
    BY <1>1, <2>1, <2>2, <2>3
<1>5. ASSUME NEW p \in Calls, Serve(p) PROVE NewestInv'
  <2>1. /\ Uri(p) \in Uris /\ body'[p] = version[Uri(p)]
        /\ UNCHANGED <<asked, version, newest, cached>>
        /\ version[Uri(p)] \in Nat
    BY <1>0, <1>5 DEF Serve, TypeOK, InFlight, Versions
  <2>2. \A q \in Calls : q # p /\ pc'[q] = "reply" =>
          pc[q] = "reply" /\ body'[q] = body[q]
    BY <1>5 DEF Serve, TypeOK
  <2> QED
    BY <2>1, <2>2 DEF NewestInv, CacheNeverGoesBack, Uri
<1>6. ASSUME NEW p \in Calls, Arrive(p) PROVE NewestInv'
  <2>1. /\ Uri(p) \in Uris /\ body[p] \in Nat /\ newest[Uri(p)] \in Nat
        /\ newest[Uri(p)] <= body[p] /\ body[p] <= version[Uri(p)]
        /\ InFlight(p)
    BY <1>0, <1>6 DEF Arrive, TypeOK, InFlight, Versions, CallInv, NewestInv
  <2>2. /\ cached' = [cached EXCEPT ![Uri(p)] = body[p]]
        /\ newest' = [newest EXCEPT ![Uri(p)] = body[p]]
        /\ UNCHANGED <<version, asked>>
    <3>1. Later(newest[Uri(p)], body[p]) = body[p]
      BY <2>1 DEF Later
    <3> QED
      BY <1>6, <3>1 DEF Arrive
  <2>3. \A q \in Calls : pc'[q] = "reply" =>
          q # p /\ pc[q] = "reply" /\ body'[q] = body[q]
    BY <1>6 DEF Arrive, Over, TypeOK
  <2>4. \A u \in Uris : u # Uri(p) =>
          cached'[u] = cached[u] /\ newest'[u] = newest[u]
    BY <2>2 DEF TypeOK
  <2>5. cached'[Uri(p)] = body[p] /\ newest'[Uri(p)] = body[p]
    BY <2>1, <2>2 DEF TypeOK
  <2>6. \A q \in Calls : q # p /\ pc[q] = "reply" =>
          Uri(q) # Uri(p) /\ Uri(q) \in Uris
    BY <1>0, <2>1 DEF InFlight
  <2> QED
    BY <2>1, <2>2, <2>3, <2>4, <2>5, <2>6 DEF NewestInv, CacheNeverGoesBack, Uri
<1>7. ASSUME NEW U, Drop(U) PROVE NewestInv'
  BY <1>1, <1>7 DEF Drop
<1>8. ASSUME UNCHANGED <<version, newest, cached, pc, body, asked>> PROVE NewestInv'
  BY <1>1, <1>8
<1> QED
  BY <1>2, <1>3, <1>4, <1>5, <1>6, <1>7, <1>8
     DEF Next, Answer, Tick, Invalidate, Clear, vars

(* With requests that end within the interval, no late answer replaces a   *)
(* later key set in the cache (jwks.py:244).                               *)
THEOREM CacheMonotone ==
    ASSUME NoneShared, Timeout < Interval
    PROVE  Spec => []CacheNeverGoesBack
<1>1. Init => SingleInv /\ NewestInv
  BY VersionsAssumption
     DEF Init, SingleInv, NewestInv, CacheNeverGoesBack, InFlight
<1>2. NewestInv => CacheNeverGoesBack
  BY DEF NewestInv
<1> QED
  BY <1>1, <1>2, SingleStep, NewestStep, Invariance, PTL DEF Spec
=============================================================================
