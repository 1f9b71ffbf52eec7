----------------------------- MODULE UrlChecker -----------------------------
(***************************************************************************)
(* The HTTP checker of links (ook/services/linkcheck/_urlchecker.py): a    *)
(* batch of check() coroutines on one event loop that share a semaphore    *)
(* and a politeness schedule per host.                                     *)
(*                                                                         *)
(* A coroutine runs without interruption between two awaits: the           *)
(* resolution of a host, the sleep until its slot, the semaphore, the      *)
(* request, and the sleep of a rate-limited retry.  Time is kept as what   *)
(* is left to wait, so it has no bound.  A URL is its host: paths, headers *)
(* and error prose are left out.                                           *)
(***************************************************************************)
EXTENDS Integers, Sequences, FiniteSets

CONSTANTS
    Tasks,           \* the URLs of the batch
    Hosts,           \* hosts that URLs and redirects name
    MaxConcurrency,  \* UrlChecker max_concurrency
    HostInterval,    \* UrlChecker host_interval
    MaxRedirects,    \* MAX_REDIRECTS
    RetryAfter,      \* the Retry-After delays servers ask for
    RetryCap         \* min(_MAX_RETRY_AFTER_SECONDS, request_timeout)

ASSUME CheckerAssumption ==
    /\ MaxConcurrency \in Nat \ {0}
    /\ HostInterval \in Nat
    /\ MaxRedirects \in Nat
    /\ RetryAfter \subseteq Nat
    /\ RetryCap \in Nat

VARIABLES
    origin,   \* the host of each task's URL
    task,     \* where each coroutine is
    queue,    \* the tasks that wait for the semaphore, oldest first
    backlog,  \* per host: the time from now to its next free slot
    holdOff   \* history: the rest of the capped delay of a 429, or Forever

vars == <<origin, task, queue, backlog, holdOff>>

-----------------------------------------------------------------------------
Phases  == {"guarding", "claiming", "sleeping", "queued", "requesting", "resting",
            "done", "raised"}
Forever == RetryCap + 1

RedirectCodes          == {301, 302}     \* one permanent, one temporary
PermanentRedirectCodes == {301}
RateLimited            == 429
NoCode                 == 0
NoDelay                == -1

(* What a request may come back with: a redirect, a terminal response, a   *)
(* rate limit, or no response.                                             *)
Redirects == [ code : RedirectCodes, target : Hosts ]
Terminals == {200, 404}
Limits    == RetryAfter \cup {NoDelay}     \* a 429 and its Retry-After
Failures  == {"timeout", "dropped"}

(* The outcome of a check: the part of LinkCheckOutcome the status engine  *)
(* reads.                                                                  *)
NoOutcome == [ result |-> "none", status_code |-> NoCode, redirect_status_code |-> NoCode ]
Outcomes  == [ result               : {"none", "success", "failure", "unsupported"},
               status_code          : {NoCode, 200, 404, RateLimited},
               redirect_status_code : {NoCode} \cup RedirectCodes ]

TaskStates ==
    [ phase   : Phases,
      method  : {"HEAD", "GET"},
      retried : BOOLEAN,
      host    : Hosts,
      pinned  : Hosts,           \* the host whose address the socket is pinned to
      hops    : Seq(RedirectCodes),
      wait    : Nat,
      outcome : Outcomes ]

Smaller(a, b) == IF a <= b THEN a ELSE b
Larger(a, b)  == IF a >= b THEN a ELSE b

Requesting == {k \in Tasks : task[k].phase = "requesting"}

(* _FetchResult.redirect_status_code: the first hop of a permanent chain,  *)
(* or the first temporary hop.                                             *)
redirect_status_code(hops) ==
    IF hops = << >> THEN NoCode
    ELSE IF \A i \in DOMAIN hops : hops[i] \in PermanentRedirectCodes THEN hops[1]
    ELSE LET temporary == {i \in DOMAIN hops : hops[i] \notin PermanentRedirectCodes}
         IN  hops[CHOOSE i \in temporary : \A j \in temporary : i <= j]

(* check() returns: a failure without a response keeps no code.            *)
Done(t, result, code) ==
    [ t EXCEPT !.phase = "done",
               !.outcome = [ result |-> result, status_code |-> code,
                             redirect_status_code |->
                                 IF code = NoCode THEN NoCode
                                 ELSE redirect_status_code(t.hops) ] ]

(* Mutant: the next fetch keeps the pin of the last hop. *)
FetchFromLastHop(t, first, method) ==
    [ t EXCEPT !.phase = "claiming", !.method = method, !.host = first, !.hops = << >> ]

(* _fetch starts over at the URL itself, at the address validated for it.  *)
Fetch(t, first, method) ==
    [ t EXCEPT !.phase = "claiming", !.method = method, !.host = first,
               !.pinned = first, !.hops = << >> ]

-----------------------------------------------------------------------------
Init ==
    /\ origin \in [Tasks -> Hosts]
    /\ task = [k \in Tasks |->
                 [ phase |-> "guarding", method |-> "HEAD", retried |-> FALSE,
                   host |-> origin[k], pinned |-> origin[k], hops |-> << >>,
                   wait |-> 0, outcome |-> NoOutcome ]]
    /\ queue = << >>
    /\ backlog = [h \in Hosts |-> 0]
    /\ holdOff = [k \in Tasks |-> 0]

(* Mutant: what the resolver raises is left to escape check(). *)
EscapesCheck(t) == [ t EXCEPT !.phase = "raised" ]

(* HostResolutionError becomes an outcome. *)
Unresolved(t) == Done(t, "failure", NoCode)

(* _resolve_and_validate, of the URL and of every redirect target.  A host *)
(* that is not public makes the URL unsupported, one that does not resolve *)
(* fails the check; neither is asked again with GET.                       *)
Guard(k) ==
    /\ task[k].phase = "guarding"
    /\ \/ task' = [task EXCEPT ![k].phase = "claiming", ![k].pinned = task[k].host]
       \/ task' = [task EXCEPT ![k] = Done(@, "unsupported", NoCode)]
       \/ task' = [task EXCEPT ![k] = Unresolved(@)]
    /\ UNCHANGED <<origin, queue, backlog, holdOff>>

(* _wait_for_host_slot: claim the host's next slot and sleep until then.   *)
Claim(k) ==
    LET host == task[k].host
    IN  /\ task[k].phase = "claiming"
        /\ task' = [task EXCEPT ![k].phase = "sleeping", ![k].wait = backlog[host]]
        /\ backlog' = [backlog EXCEPT ![host] = @ + HostInterval]
        /\ UNCHANGED <<origin, queue, holdOff>>

(* The slot has come: wait for the semaphore, which is first come first    *)
(* served.                                                                 *)
Enqueue(k) ==
    /\ task[k].phase = "sleeping" /\ task[k].wait = 0
    /\ task' = [task EXCEPT ![k].phase = "queued"]
    /\ queue' = Append(queue, k)
    /\ UNCHANGED <<origin, backlog, holdOff>>

Start(k) ==
    /\ queue # << >> /\ Head(queue) = k
    /\ Cardinality(Requesting) < MaxConcurrency
    /\ task' = [task EXCEPT ![k].phase = "requesting"]
    /\ queue' = Tail(queue)
    /\ UNCHANGED <<origin, backlog, holdOff>>

(* The hop count alone decides, before the target is looked at.            *)
MayFollow(hops) == Len(hops) < MaxRedirects

Follow(t, redirect) ==
    [ t EXCEPT !.phase = "guarding", !.host = redirect.target,
               !.hops = Append(@, redirect.code) ]

(* One hop of _fetch. *)
Redirected(k) ==
    /\ task[k].phase = "requesting"
    /\ \E redirect \in Redirects :
         task' = [task EXCEPT ![k] =
                    IF MayFollow(@.hops) THEN Follow(@, redirect)
                    ELSE Done(@, "failure", NoCode)]
    /\ UNCHANGED <<origin, queue, backlog, holdOff>>

(* _head_then_get: a HEAD that fails otherwise than by a rate limit or a   *)
(* timeout is asked again with GET.                                        *)
Answered(k) ==
    /\ task[k].phase = "requesting"
    /\ \E code \in Terminals :
         task' = [task EXCEPT ![k] =
                    IF code = 200 THEN Done(@, "success", code)
                    ELSE IF @.method = "HEAD" THEN Fetch(@, origin[k], "GET")
                    ELSE Done(@, "failure", code)]
    /\ UNCHANGED <<origin, queue, backlog, holdOff>>

(* No response.  A timeout of httpx is one of a connect, a read or a write *)
(* and starts anew with each: no step says that it comes.                  *)
Failed(k) ==
    /\ task[k].phase = "requesting"
    /\ \E failure \in Failures :
         task' = [task EXCEPT ![k] =
                    IF failure = "dropped" /\ @.method = "HEAD"
                    THEN Fetch(@, origin[k], "GET")
                    ELSE Done(@, "failure", NoCode)]
    /\ UNCHANGED <<origin, queue, backlog, holdOff>>

(* Mutant: a 429 to a HEAD is asked again with GET, like other failures.   *)
RetriesAtOnce(t) == t.method = "HEAD"

(* A 429 is never asked again with GET. *)
FallsBackAfterLimit(t) == FALSE

(* Mutant: every 429 with a delay is retried. *)
RetriesEachLimit(t, after) == after # NoDelay

(* One retry, and only if the server names a delay. *)
MayRetry(t, after) == after # NoDelay /\ ~t.retried

(* _retry_after_delay: what check() sleeps. *)
Delay(after) == Smaller(after, RetryCap)

(* For how long the 429 is in force: the rule, apart from what is slept.   *)
InForce(t, after) ==
    IF after = NoDelay \/ t.retried THEN Forever ELSE Smaller(after, RetryCap)

(* A 429 ends the fetch whatever its method: check() sleeps for a usable   *)
(* Retry-After, once, and reports an inconclusive failure otherwise.       *)
Limited(k) ==
    /\ task[k].phase = "requesting"
    /\ \E after \in Limits :
         LET usable == MayRetry(task[k], after)
             delay  == IF usable THEN Delay(after) ELSE 0
         IN  /\ task' = [task EXCEPT ![k] =
                  IF FallsBackAfterLimit(@) THEN Fetch(@, origin[k], "GET")
                  ELSE IF usable THEN [@ EXCEPT !.phase = "resting", !.wait = delay]
                  ELSE Done(@, "failure", RateLimited)]
             /\ holdOff' = [holdOff EXCEPT ![k] = InForce(task[k], after)]
    /\ UNCHANGED <<origin, queue, backlog>>

(* A number of seconds beyond the range of floats: float(int(value)) in    *)
(* _parse_retry_after raises an OverflowError, which check() lets through. *)
(* The batch's gather() raises it, and no outcome of the batch is used,    *)
(* though the other checks go on.  A second 429 is not parsed.             *)
Overflows(k) ==
    /\ task[k].phase = "requesting" /\ ~task[k].retried
    /\ task' = [task EXCEPT ![k].phase = "raised"]
    /\ holdOff' = [holdOff EXCEPT ![k] = Forever]
    /\ UNCHANGED <<origin, queue, backlog>>

(* _retry_after_once: the whole fetch once more. *)
Retry(k) ==
    /\ task[k].phase = "resting" /\ task[k].wait = 0
    /\ task' = [task EXCEPT ![k] = [Fetch(@, origin[k], "HEAD") EXCEPT !.retried = TRUE]]
    /\ UNCHANGED <<origin, queue, backlog, holdOff>>

(* Mutant: a wait may become negative. *)
ElapseUnclamped(wait) == wait - 1

(* A unit of a wait goes by; a slot that has passed is a slot that is now. *)
Elapse(wait) == Larger(wait, 1) - 1

(* The event loop runs what is ready before time passes. *)
Ready(k) ==
    \/ task[k].phase = "claiming"
    \/ task[k].phase \in {"sleeping", "resting"} /\ task[k].wait = 0
    \/ queue # << >> /\ Head(queue) = k /\ Cardinality(Requesting) < MaxConcurrency

Ended(k) == task[k].phase \in {"done", "raised"}

Tick ==
    /\ \A k \in Tasks : ~Ready(k)
    /\ \E k \in Tasks : ~Ended(k)
    /\ task' = [k \in Tasks |-> [task[k] EXCEPT !.wait = Elapse(@)]]
    /\ backlog' = [h \in Hosts |-> Elapse(backlog[h])]
    /\ holdOff' = [k \in Tasks |-> IF holdOff[k] = Forever THEN Forever
                                   ELSE Elapse(holdOff[k])]
    /\ UNCHANGED <<origin, queue>>

(* What servers do, and what the event loop does with it. *)
Respond(k) ==
    Redirected(k) \/ Answered(k) \/ Failed(k) \/ Limited(k) \/ Overflows(k)

Proceed(k) == Guard(k) \/ Claim(k) \/ Enqueue(k) \/ Start(k) \/ Retry(k)

Finished == (\A k \in Tasks : Ended(k)) /\ UNCHANGED vars

Next == (\E k \in Tasks : Proceed(k) \/ Respond(k)) \/ Tick \/ Finished

(* The event loop runs every coroutine that is ready, a resolution ends,   *)
(* and time passes.  Nothing makes a request end: a server that trickles   *)
(* its response keeps every timeout of _send from expiring.                *)
Spec == Init /\ [][Next]_vars /\ WF_vars(Tick) /\ \A k \in Tasks : WF_vars(Proceed(k))

-----------------------------------------------------------------------------
TypeOK ==
    /\ origin \in [Tasks -> Hosts]
    /\ task \in [Tasks -> TaskStates]
    /\ queue \in Seq(Tasks)
    /\ backlog \in [Hosts -> Nat]
    /\ holdOff \in [Tasks -> 0..Forever]

(* A request goes to an address that was validated for the very host it    *)
(* names: after a redirect the pin moves along, and a GET fallback or a    *)
(* retry goes back to the first pin (_fetch, _head_then_get).              *)
PinMatchesHost ==
    \A k \in Tasks :
        task[k].phase \in {"claiming", "sleeping", "queued", "requesting"} =>
            task[k].pinned = task[k].host

(* This step makes a request for the URL. *)
Sends(k) == task[k].phase = "queued" /\ task'[k].phase = "requesting"

(* A rate limit is not hammered: after a 429 a URL is requested again no   *)
(* sooner than after the delay that the server asked for, or after the cap *)
(* where that is less: a longer delay is cut to 60 seconds or the request  *)
(* timeout and not waited out.  Without a delay, or after a second 429,    *)
(* it is not requested again (_head_then_get, _retry_after_once,           *)
(* _retry_after_delay).                                                    *)
RateLimitIsHonoured ==
    [][ \A k \in Tasks : Sends(k) => holdOff[k] = 0 ]_vars

(* The bookkeeping behind it: who sleeps for a rate limit sleeps as long   *)
(* as it lasts, and who may still send has none to wait for.               *)
HoldIsWaitedOut ==
    \A k \in Tasks :
        /\ task[k].phase \notin {"resting", "done", "raised"} => holdOff[k] = 0
        /\ task[k].phase = "resting" => holdOff[k] = task[k].wait /\ task[k].wait <= RetryCap

(* The waiters of the semaphore are the queued tasks, each once.           *)
QueueHoldsWaiters ==
    /\ \A i \in DOMAIN queue : task[queue[i]].phase = "queued"
    /\ \A i, j \in DOMAIN queue : queue[i] = queue[j] => i = j

Judged(k) == task[k].phase = "done" /\ task[k].outcome.result # "none"

(* Every request ends, in whatever way. *)
NoneTricklesForever == \A k \in Tasks : []<>(task[k].phase # "requesting")

(* The one exception that may escape check(): a Retry-After out of range.  *)
IsOutOfRange(k) == task[k].phase = "raised" /\ holdOff[k] = Forever

(* Unless a server trickles a response for ever, every check of a batch    *)
(* comes to an outcome, however the others delay it by the cap, the        *)
(* schedule, the redirects and the retries, or raises because of a         *)
(* Retry-After that is out of range: nothing else is left to escape and    *)
(* take the outcomes of the batch with it (check, _send,                   *)
(* _resolve_and_validate, _parse_retry_after).                             *)
EveryUrlIsJudged ==
    NoneTricklesForever => \A k \in Tasks : <>(Judged(k) \/ IsOutOfRange(k))
=============================================================================
