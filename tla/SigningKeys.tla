---------------------------- MODULE SigningKeys ----------------------------
(***************************************************************************)
(* GitHubOidcVerifier: the key set (JWKS) that one process keeps of what   *)
(* GitHub publishes, and the requests whose tokens are judged by it.       *)
(*                                                                         *)
(* Time passes in ticks.  A request is somewhere between the steps its     *)
(* coroutine takes without waiting: it waits for the lock, or holds it     *)
(* while it fetches.  GitHub rotates its keys at any time, and a fetch     *)
(* gets what was published at some time before it ends, or fails.          *)
(***************************************************************************)
EXTENDS Integers, FiniteSets

CONSTANTS
    Keys,        \* key IDs
    Requests,    \* requests that present a token
    TTL,         \* jwks_ttl, in ticks
    Cooldown     \* jwks_kid_miss_cooldown, in ticks

VARIABLES
    published,   \* the keys GitHub publishes
    jwks,        \* the cached set, and its age: jwks_fetched_at
    missed,      \* the age of _kid_miss_refreshed_at, or Unset
    fetch,       \* the fetch under the lock: what GitHub answered, if it has
    request      \* each request

vars == <<published, jwks, missed, fetch, request>>

None == "none"
Unset == Cooldown
NoJwks == [keys |-> {}, age |-> 0, cached |-> FALSE]
NoFetch == [by |-> None]

\* at:      waiting for _get_jwks or for _refresh_jwks, or how it was judged
\* kid:     its token's key
\* current: the set it was given is the one that is cached ("jwks is stale")
\* genuine: its key has been published ever since it came
\* renewed: a fetch that began after it came has been cached
\* excused: its own fetch failed, or it came inside the window that another
\*          request's refetch opened
NoRequest == [at |-> None, kid |-> None, current |-> FALSE, genuine |-> FALSE,
              renewed |-> FALSE, excused |-> FALSE]

TypeOK ==
    /\ published \subseteq Keys
    /\ jwks \in [keys : SUBSET Keys, age : 0 .. TTL, cached : BOOLEAN]
    /\ missed \in 0 .. Cooldown
    /\ fetch = NoFetch \/ fetch \in
        [by : Requests, answer : SUBSET Keys, since : SUBSET Requests]
    /\ request \in [Requests ->
        [at : {None, "getting", "refreshing", "accepted", "rejected",
               "unavailable"},
         kid : Keys \cup {None}, current : BOOLEAN, genuine : BOOLEAN,
         renewed : BOOLEAN, excused : BOOLEAN]]

-----------------------------------------------------------------------------

IsExpired == jwks.age >= TTL
IsInCooldown == missed < Cooldown
Waits(r, at) == request[r].at = at /\ fetch = NoFetch

\* _find_key, in a set that a request is given: its token is judged, or a
\* refetch waited for.
Given(r, keys) ==
    [r EXCEPT !.at = IF r.kid \in keys THEN "accepted" ELSE "refreshing",
              !.current = TRUE]
Judged(r, keys) ==
    [r EXCEPT !.at = IF r.kid \in keys THEN "accepted" ELSE "rejected"]

Arrive(r, kid) ==
    /\ request[r].at = None
    /\ request' = [request EXCEPT ![r] =
        [NoRequest EXCEPT !.at = "getting", !.kid = kid,
                          !.genuine = kid \in published]]
    /\ UNCHANGED <<published, jwks, missed, fetch>>

\* _get_jwks
GetCached(r) ==
    /\ Waits(r, "getting")
    /\ jwks.cached /\ ~IsExpired
    /\ request' = [request EXCEPT ![r] = Given(@, jwks.keys)]
    /\ UNCHANGED <<published, jwks, missed, fetch>>

Fetching(r) ==
    [by |-> r, answer |-> {},
     since |-> {q \in Requests : request[q].at \in {"getting", "refreshing"}}]

GetFetches(r) ==
    /\ Waits(r, "getting")
    /\ ~jwks.cached \/ IsExpired
    /\ fetch' = Fetching(r)
    /\ UNCHANGED <<published, jwks, missed, request>>

\* Mutant: the window is looked at before what another request fetched.
CooldownFirst(r) == ~request[r].current /\ ~IsInCooldown

\* "jwks is not stale": another request replaced what this one was given.
WasReplaced(r) == ~request[r].current

\* _refresh_jwks
TakeReplaced(r) ==
    /\ Waits(r, "refreshing")
    /\ WasReplaced(r)
    /\ request' = [request EXCEPT ![r] = Judged(@, jwks.keys)]
    /\ UNCHANGED <<published, jwks, missed, fetch>>

SkipRefetch(r) ==
    /\ Waits(r, "refreshing")
    /\ ~WasReplaced(r)
    /\ IsInCooldown
    /\ request' = [request EXCEPT ![r].at = "rejected", ![r].excused = TRUE]
    /\ UNCHANGED <<published, jwks, missed, fetch>>

Refetch(r) ==
    /\ Waits(r, "refreshing")
    /\ ~WasReplaced(r)
    /\ ~IsInCooldown
    /\ missed' = 0
    /\ fetch' = Fetching(r)
    /\ UNCHANGED <<published, jwks, request>>

-----------------------------------------------------------------------------
(* _fetch_jwks.                                                            *)

GitHubAnswers ==
    /\ fetch # NoFetch
    /\ fetch.answer = {}
    /\ fetch' = [fetch EXCEPT !.answer = published]
    /\ UNCHANGED <<published, jwks, missed, request>>

\* What is left of the request that fetched, given a set.
Resumed(r, keys) ==
    IF r.at = "getting" THEN Given(r, keys) ELSE Judged(r, keys)

Cache ==
    /\ fetch # NoFetch
    /\ fetch.answer # {}
    /\ LET keys == fetch.answer IN
        /\ jwks' = [keys |-> keys, age |-> 0, cached |-> TRUE]
        /\ request' = [q \in Requests |->
            LET r == [request[q] EXCEPT !.current = FALSE,
                                        !.renewed = @ \/ q \in fetch.since]
            IN IF q = fetch.by THEN Resumed(r, keys) ELSE r]
    /\ fetch' = NoFetch
    /\ UNCHANGED <<published, missed>>

\* _fall_back_to_stale: the cached set keeps its date.
FallBack ==
    /\ fetch # NoFetch
    /\ request' = [request EXCEPT ![fetch.by] =
        LET r == [@ EXCEPT !.excused = TRUE] IN
        IF jwks.cached THEN Resumed(r, jwks.keys)
        ELSE [r EXCEPT !.at = "unavailable"]]
    /\ fetch' = NoFetch
    /\ UNCHANGED <<published, jwks, missed>>

-----------------------------------------------------------------------------

Leave(r) ==
    /\ request[r].at \in {"accepted", "rejected", "unavailable"}
    /\ request' = [request EXCEPT ![r] = NoRequest]
    /\ UNCHANGED <<published, jwks, missed, fetch>>

Rotate(keys) ==
    /\ published' = keys
    /\ request' = [q \in Requests |->
        [request[q] EXCEPT !.genuine = @ /\ request[q].kid \in keys]]
    /\ UNCHANGED <<jwks, missed, fetch>>

Tick ==
    /\ jwks.cached
    /\ jwks' = [jwks EXCEPT !.age = IF @ < TTL THEN @ + 1 ELSE @]
    /\ missed' = IF missed < Cooldown THEN missed + 1 ELSE missed
    /\ <<jwks', missed'>> # <<jwks, missed>>
    /\ UNCHANGED <<published, fetch, request>>

Init ==
    /\ published \in (SUBSET Keys) \ {{}}
    /\ jwks = NoJwks
    /\ missed = Unset
    /\ fetch = NoFetch
    /\ request = [r \in Requests |-> NoRequest]

Next ==
    \/ \E r \in Requests :
        \/ \E kid \in Keys : Arrive(r, kid)
        \/ GetCached(r) \/ GetFetches(r)
        \/ TakeReplaced(r) \/ SkipRefetch(r) \/ Refetch(r)
        \/ Leave(r)
    \/ GitHubAnswers
    \/ Cache
    \/ FallBack
    \/ \E keys \in (SUBSET Keys) \ {{}} : Rotate(keys)
    \/ Tick

Spec == Init /\ [][Next]_vars

-----------------------------------------------------------------------------
(* A rotation is invisible: a token whose key is published all the while   *)
(* is rejected only if no fetch that began after it came has succeeded,    *)
(* and then only inside the window of an earlier refetch or because its    *)
(* own fetch failed (verify, _refresh_jwks).                               *)
RotationIsInvisible ==
    \A r \in Requests :
        request[r].at = "rejected" /\ request[r].genuine =>
            /\ ~request[r].renewed
            /\ request[r].excused
=============================================================================
