SPECIFICATION FairSpec
CONSTANTS
    None = None
    Issuers = {"i1"}
    Uris = {"u1"}
    Documents = {"d1"}
    IssuerOf <- OneIssuer
    UriOf <- OneUri
    Kids = {1, 2}
    MaxVersion = 1
    KidsIn <- Rolling
    Calls = {p1, p2}
    Interval = 2
    Lifetime = 2
    Timeout = 1
INVARIANTS TypeOK CacheNeverGoesBack
PROPERTIES OncePerInterval NotStale LimitedOnlyByFailure RotationFollowed
