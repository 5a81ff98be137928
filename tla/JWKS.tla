-------------------------------- MODULE JWKS --------------------------------
(***************************************************************************)
(* The key discovery of one verifier, aauth/keys/jwks.py: a JWKSFetcher    *)
(* with its JWKSCache and its rate limit, under concurrent calls of fetch, *)
(* and the issuers whose keys it fetches.                                  *)
(*                                                                         *)
(* fetch gives up the event loop at its two requests: for the metadata,    *)
(* and for the JWKS.  All it does to the cache and the limit between the   *)
(* answer to the first and the start of the second is one step.            *)
(*                                                                         *)
(* A key set is the number of its version.  Times are ages, in seconds,    *)
(* counted up to where they stop to matter.  As in Revocation, the first   *)
(* of two actions that stand together is a bug for the mutants.            *)
(***************************************************************************)
EXTENDS Integers

CONSTANTS
    Issuers,     \* identifiers
    Documents,   \* metadata documents: an issuer has one for each of its roles
    IssuerOf,    \* IssuerOf[d]: the identifier d is found under
    Uris,        \* jwks_uri values
    UriOf,       \* UriOf[d]: the jwks_uri in d
    Kids,        \* key identifiers
    MaxVersion,  \* bound on the key sets an issuer publishes
    KidsIn,      \* KidsIn[v]: the keys of version v
    Calls,       \* concurrent callers of fetch
    Interval,    \* min_fetch_interval
    Lifetime,    \* the smaller of the cache's ttl and max_age
    Timeout,     \* the longest a JWKS request takes, a limit of the HTTP client
    None         \* Python's None

Versions == 0..MaxVersion

ASSUME MetadataAssumption == /\ IssuerOf \in [Documents -> Issuers]
                             /\ UriOf \in [Documents -> Uris]
ASSUME VersionsAssumption == /\ MaxVersion \in Nat
                             /\ KidsIn \in [Versions -> SUBSET Kids]
ASSUME LimitsAssumption == Interval \in Nat /\ Lifetime \in Nat /\ Timeout \in Nat
ASSUME NoneAssumption == None \notin Versions /\ None \notin Kids /\ None \notin Documents

VARIABLES
    version,     \* the key set each jwks_uri serves
    superseded,  \* history: how long each version has been replaced
    cached,      \* _cache: the version cached for a jwks_uri, or None
    age,         \* how long ago it was cached
    since,       \* how long ago _last_fetch_times[i] was
    pc,          \* where each call is
    asked, kid,  \* its arguments: the metadata document and the key
    body,        \* the key set the server answered with
    wait,        \* how long the JWKS request has been under way
    result,      \* the key set returned
    gap,         \* history: how long ago the last JWKS request for i began
    newest,      \* history: the latest version ever cached for a jwks_uri
    outcome      \* history: what the last JWKS request for i came to

fetcher == <<cached, age, since>>
call == <<asked, kid, body, wait, result>>
history == <<gap, newest, outcome>>
vars == <<version, superseded, fetcher, pc, call, history>>

(* How long a version may be in use after its replacement, and one more.   *)
Horizon == Lifetime + Timeout + 1

Aged(n, cap) == IF n < cap THEN n + 1 ELSE n
Later(a, b) == IF a > b THEN a ELSE b

Ended == {"idle", "done", "failed", "limited"}
InFlight(p) == pc[p] \in {"jwks", "reply"}
Uri(p) == UriOf[asked[p]]
Issuer(p) == IssuerOf[asked[p]]

(* JWKSCache.get: an entry older than the ttl or max_age does not count.   *)
UsableForever(u) == cached[u] # None
Usable(u) == cached[u] # None /\ age[u] <= Lifetime

(* get_key_by_kid; a call without a kid takes any key set.                 *)
HasKey(p, v) == kid[p] = None \/ kid[p] \in KidsIn[v]
Hit(p) == Usable(Uri(p)) /\ HasKey(p, cached[Uri(p)])

CanFetch(i) == since[i] >= Interval
-----------------------------------------------------------------------------
Init ==
    /\ version = [u \in Uris |-> 0]
    /\ superseded = [u \in Uris |-> [v \in Versions |-> 0]]
    /\ cached = [u \in Uris |-> None]
    /\ age = [u \in Uris |-> 0]
    /\ since = [i \in Issuers |-> Interval]
    /\ pc = [p \in Calls |-> "idle"]
    /\ asked = [p \in Calls |-> None]
    /\ kid = [p \in Calls |-> None]
    /\ body = [p \in Calls |-> None]
    /\ wait = [p \in Calls |-> 0]
    /\ result = [p \in Calls |-> None]
    /\ gap = [i \in Issuers |-> Interval]
    /\ newest = [u \in Uris |-> 0]
    /\ outcome = [i \in Issuers |-> "none"]

(* A second passes; a request that has taken Timeout ends before it does.  *)
Tick ==
    /\ \A p \in Calls : InFlight(p) => wait[p] < Timeout
    /\ age' = [u \in Uris |-> IF cached[u] = None THEN 0
                              ELSE Aged(age[u], Lifetime + 1)]
    /\ since' = [i \in Issuers |-> Aged(since[i], Interval)]
    /\ wait' = [p \in Calls |-> IF InFlight(p) THEN wait[p] + 1 ELSE 0]
    /\ gap' = [i \in Issuers |-> Aged(gap[i], Interval)]
    /\ superseded' = [u \in Uris |-> [v \in Versions |->
                        IF v < version[u] THEN Aged(superseded[u][v], Horizon)
                                          ELSE 0]]
    /\ UNCHANGED <<version, cached, pc, asked, kid, body, result, newest, outcome>>

(* An issuer rotates its keys.                                             *)
Rotate(u) ==
    /\ version[u] < MaxVersion
    /\ version' = [version EXCEPT ![u] = @ + 1]
    /\ UNCHANGED <<superseded, fetcher, pc, call, history>>

(* fetch(identifier, kid, metadata_path) asks for the metadata.            *)
Call(p, d, k) ==
    /\ pc[p] \in Ended
    /\ pc' = [pc EXCEPT ![p] = "metadata"]
    /\ asked' = [asked EXCEPT ![p] = d]
    /\ kid' = [kid EXCEPT ![p] = k]
    /\ result' = [result EXCEPT ![p] = None]
    /\ UNCHANGED <<version, superseded, fetcher, body, wait, history>>

(* The metadata request fails or its document is not valid.                *)
NoMetadata(p) ==
    /\ pc[p] = "metadata"
    /\ pc' = [pc EXCEPT ![p] = "failed"]
    /\ UNCHANGED <<version, superseded, fetcher, call, history>>
-----------------------------------------------------------------------------
(* The metadata is there.                                                  *)

(* The cached key set is returned: it has the key, or the limit forbids to *)
(* look for a later one.                                                   *)
UseCache(p) ==
    /\ pc[p] = "metadata"
    /\ Usable(Uri(p))
    /\ Hit(p) \/ ~ CanFetch(Issuer(p))
    /\ result' = [result EXCEPT ![p] = cached[Uri(p)]]
    /\ pc' = [pc EXCEPT ![p] = "done"]
    /\ UNCHANGED <<version, superseded, fetcher, asked, kid, body, wait, history>>

(* Nothing cached, and the limit forbids a request; get has dropped an     *)
(* entry that was too old.                                                 *)
RefuseUnknown(p) ==
    /\ pc[p] = "metadata"
    /\ ~ Hit(p)
    /\ ~ CanFetch(Issuer(p))
    /\ cached' = [cached EXCEPT ![Uri(p)] = None]
    /\ pc' = [pc EXCEPT ![p] = "limited"]
    /\ UNCHANGED <<version, superseded, age, since, call, history>>
RefuseRecorded(p) ==
    /\ pc[p] = "metadata"
    /\ ~ Usable(Uri(p))
    /\ ~ CanFetch(Issuer(p))
    /\ cached' = [cached EXCEPT ![Uri(p)] = None]
    /\ since' = [since EXCEPT ![Issuer(p)] = 0]
    /\ pc' = [pc EXCEPT ![p] = "limited"]
    /\ UNCHANGED <<version, superseded, age, call, history>>
Refuse(p) ==
    /\ pc[p] = "metadata"
    /\ ~ Usable(Uri(p))
    /\ ~ CanFetch(Issuer(p))
    /\ cached' = [cached EXCEPT ![Uri(p)] = None]
    /\ pc' = [pc EXCEPT ![p] = "limited"]
    /\ UNCHANGED <<version, superseded, age, since, call, history>>

(* Nothing cached, or a key set without the key, which is dropped at once: *)
(* the request is counted, then awaited.                                   *)
BeginUnrecorded(p) ==
    /\ pc[p] = "metadata"
    /\ ~ Hit(p)
    /\ CanFetch(Issuer(p))
    /\ cached' = [cached EXCEPT ![Uri(p)] = None]
    /\ pc' = [pc EXCEPT ![p] = "jwks"]
    /\ gap' = [gap EXCEPT ![Issuer(p)] = 0]
    /\ outcome' = [outcome EXCEPT ![Issuer(p)] = "awaited"]
    /\ UNCHANGED <<version, superseded, age, since, call, newest>>
Begin(p) ==
    /\ pc[p] = "metadata"
    /\ ~ Hit(p)
    /\ CanFetch(Issuer(p))
    /\ cached' = [cached EXCEPT ![Uri(p)] = None]
    /\ since' = [since EXCEPT ![Issuer(p)] = 0]
    /\ pc' = [pc EXCEPT ![p] = "jwks"]
    /\ gap' = [gap EXCEPT ![Issuer(p)] = 0]
    /\ outcome' = [outcome EXCEPT ![Issuer(p)] = "awaited"]
    /\ UNCHANGED <<version, superseded, age, call, newest>>
-----------------------------------------------------------------------------
(* The server answers with the keys it has; the answer may travel a while. *)
Serve(p) ==
    /\ pc[p] = "jwks"
    /\ body' = [body EXCEPT ![p] = version[Uri(p)]]
    /\ pc' = [pc EXCEPT ![p] = "reply"]
    /\ UNCHANGED <<version, superseded, fetcher, asked, kid, wait, result, history>>

(* The request is over; body and wait are dead.                            *)
Over(p) ==
    /\ body' = [body EXCEPT ![p] = None]
    /\ wait' = [wait EXCEPT ![p] = 0]

(* The answer arrives: it is cached, and the time of the fetch recorded.   *)
Arrive(p) ==
    /\ pc[p] = "reply"
    /\ cached' = [cached EXCEPT ![Uri(p)] = body[p]]
    /\ age' = [age EXCEPT ![Uri(p)] = 0]
    /\ since' = [since EXCEPT ![Issuer(p)] = 0]
    /\ result' = [result EXCEPT ![p] = body[p]]
    /\ pc' = [pc EXCEPT ![p] = "done"]
    /\ newest' = [newest EXCEPT ![Uri(p)] = Later(@, body[p])]
    /\ outcome' = [outcome EXCEPT ![Issuer(p)] = "ok"]
    /\ Over(p)
    /\ UNCHANGED <<version, superseded, asked, kid, gap>>

(* The request fails, times out, is cancelled, or returns no key set.      *)
FailSwallowed(p) ==
    /\ InFlight(p)
    /\ pc' = [pc EXCEPT ![p] = "done"]
    /\ outcome' = [outcome EXCEPT ![Issuer(p)] = "failed"]
    /\ Over(p)
    /\ UNCHANGED <<version, superseded, fetcher, asked, kid, result, gap, newest>>
Fail(p) ==
    /\ InFlight(p)
    /\ pc' = [pc EXCEPT ![p] = "failed"]
    /\ outcome' = [outcome EXCEPT ![Issuer(p)] = "failed"]
    /\ Over(p)
    /\ UNCHANGED <<version, superseded, fetcher, asked, kid, result, gap, newest>>

(* The application empties the cache, in part or all of it, at any moment: *)
(* JWKSCache.invalidate, JWKSCache.clear.                                  *)
Drop(U) ==
    /\ cached' = [u \in Uris |-> IF u \in U THEN None ELSE cached[u]]
    /\ outcome' = [i \in Issuers |->
                     IF outcome[i] = "ok" /\ \E d \in Documents :
                          IssuerOf[d] = i /\ UriOf[d] \in U /\ cached[UriOf[d]] # None
                     THEN "dropped" ELSE outcome[i]]
    /\ UNCHANGED <<version, superseded, age, since, pc, call, gap, newest>>
Invalidate(u) == Drop({u})
Clear == Drop(Uris)
-----------------------------------------------------------------------------
Answer(p) == NoMetadata(p) \/ UseCache(p) \/ Refuse(p) \/ Begin(p)

Next ==
    \/ Tick
    \/ \E u \in Uris : Rotate(u) \/ Invalidate(u)
    \/ Clear
    \/ \E p \in Calls :
         \/ \E d \in Documents, k \in Kids \cup {None} : Call(p, d, k)
         \/ Answer(p) \/ Serve(p) \/ Arrive(p) \/ Fail(p)

Spec == Init /\ [][Next]_vars

(* Requests end (HTTP timeouts) and time passes.  For RotationFollowed,    *)
(* which is about verifiers that go on asking and issuers that answer now  *)
(* and then: callers call again, and no request fails every time.          *)
FairSpec ==
    /\ Spec
    /\ WF_vars(Tick)
    /\ \A p \in Calls :
         /\ WF_vars(Answer(p) \/ Serve(p) \/ Arrive(p) \/ Fail(p))
         /\ SF_vars(UseCache(p) \/ Refuse(p) \/ Begin(p))
         /\ SF_vars(Serve(p)) /\ SF_vars(Arrive(p))
         /\ \A d \in Documents : SF_vars(\E k \in Kids \cup {None} : Call(p, d, k))
-----------------------------------------------------------------------------
TypeOK ==
    /\ version \in [Uris -> Versions]
    /\ superseded \in [Uris -> [Versions -> Nat]]
    /\ cached \in [Uris -> Versions \cup {None}]
    /\ age \in [Uris -> Nat]
    /\ since \in [Issuers -> Nat]
    /\ pc \in [Calls -> Ended \cup {"metadata", "jwks", "reply"}]
    /\ asked \in [Calls -> Documents \cup {None}]
    /\ kid \in [Calls -> Kids \cup {None}]
    /\ body \in [Calls -> Versions \cup {None}]
    /\ wait \in [Calls -> Nat]
    /\ result \in [Calls -> Versions \cup {None}]
    /\ \A p \in Calls : pc[p] = "done" => result[p] \in Versions
    /\ gap \in [Issuers -> Nat]
    /\ newest \in [Uris -> Versions]
    /\ outcome \in [Issuers -> {"none", "awaited", "ok", "failed", "dropped"}]

(* JWKS requests for an issuer begin at least the interval apart, however  *)
(* many calls wait for metadata at once and whatever becomes of the        *)
(* requests (jwks.py:127, 151-158, 225-232).                               *)
OncePerInterval ==
    [][\A p \in Calls : pc[p] = "metadata" /\ pc'[p] = "jwks"
                          => gap[Issuer(p)] >= Interval]_vars

(* A slow answer never puts an older key set in the place of a later one   *)
(* (jwks.py:244): no two requests for a jwks_uri overlap, where the        *)
(* requests end within the interval and no two issuers share a jwks_uri.   *)
CacheNeverGoesBack ==
    \A u \in Uris : cached[u] # None => cached[u] = newest[u]

(* A key set is not returned when it has been replaced for longer than the *)
(* cache's lifetime and a request's duration (jwks.py:86-98, 107): the age *)
(* counts from the arrival.                                                *)
NotStale ==
    [][\A p \in Calls : pc[p] # "done" /\ pc'[p] = "done"
         => superseded[Uri(p)][result'[p]] <= Lifetime + Timeout]_vars

(* A call is refused for the rate limit only if the last request for its   *)
(* issuer is still awaited or has failed: never because of a key set that  *)
(* arrived and that fetch dropped since (jwks.py:209-229); what the        *)
(* application drops it must do without.  It takes an issuer with one      *)
(* jwks_uri: the limit does not tell its documents apart.                  *)
LimitedOnlyByFailure ==
    [][\A p \in Calls : pc[p] = "metadata" /\ pc'[p] = "limited"
         => outcome[Issuer(p)] # "ok"]_vars

(* The keys an issuer has rotated in are used in the end, whatever was     *)
(* cached before: a miss is rate limited, not refused for good, and a key  *)
(* set that has all keys asked for expires (jwks.py:94, 126, 216-232).     *)
RotationFollowed ==
    \A d \in Documents : version[UriOf[d]] = MaxVersion
        ~> \E p \in Calls : /\ pc[p] = "done" /\ asked[p] = d
                            /\ result[p] = MaxVersion
=============================================================================
