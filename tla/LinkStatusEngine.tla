-------------------------- MODULE LinkStatusEngine --------------------------
(***************************************************************************)
(* The status-transition engine of link checking                           *)
(* (ook/domain/linkcheck/_engine.py): a pure function from a URL's stored  *)
(* state and the outcome of one check to the URL's next state; and the     *)
(* service's rule for which stored states still count (_is_due).           *)
(*                                                                         *)
(* Times are naturals in an abstract unit; NoDate stands for None.  HTTP   *)
(* status codes are the integers the code compares; NoCode stands for None.*)
(* The redirect target and the error prose are left out: no transition     *)
(* reads them.                                                             *)
(***************************************************************************)
EXTENDS Integers, Sequences

CONSTANTS
    BrokenThreshold,         \* RetryLadderConfig.broken_threshold
    MinAttempts,             \* RetryLadderConfig.min_attempts
    RecheckIntervals,        \* RetryLadderConfig.recheck_intervals
    BrokenRecheckInterval,   \* RetryLadderConfig.broken_recheck_interval
    BlockedRecheckInterval,  \* RetryLadderConfig.blocked_recheck_interval
    FreshnessTtl             \* LinkCheckService freshness_ttl

(* What the code requires or presumes of RetryLadderConfig: at least one   *)
(* attempt, a non-empty tuple of intervals, and positive intervals.        *)
ASSUME LadderAssumption ==
    /\ BrokenThreshold \in Nat
    /\ MinAttempts \in Nat \ {0}
    /\ RecheckIntervals \in Seq(Nat \ {0})
    /\ Len(RecheckIntervals) >= 1
    /\ BrokenRecheckInterval \in Nat \ {0}
    /\ BlockedRecheckInterval \in Nat \ {0}
    /\ FreshnessTtl \in Nat \ {0}

NoDate == -1
NoCode == 0

Dates     == Nat
MaybeDate == Nat \cup {NoDate}

-----------------------------------------------------------------------------
(* The stored state of a URL *)

Healthy   == {"ok", "redirected"}
Forceable == {"broken", "blocked", "failing"}     \* FORCEABLE_STATUSES
Statuses  == Healthy \cup Forceable \cup {"unsupported"}

(* LinkState, as the columns of SqlCheckedUrl hold it.  "unchecked" is the *)
(* null status of a row that no check has filled in yet, for which the     *)
(* engine is handed None; its columns hold their defaults.                 *)
Unchecked ==
    [ status                    |-> "unchecked",
      date_checked              |-> NoDate,
      date_last_ok              |-> NoDate,
      date_failing_since        |-> NoDate,
      failure_count             |-> 0,
      consecutive_blocked_count |-> 0,
      status_code               |-> NoCode,
      redirect_status_code      |-> NoCode,
      date_next_check           |-> NoDate,
      result_source             |-> "server" ]

LinkStates ==
    [ status                    : Statuses \cup {"unchecked"},
      date_checked              : MaybeDate,
      date_last_ok              : MaybeDate,
      date_failing_since        : MaybeDate,
      failure_count             : Nat,
      consecutive_blocked_count : Nat,
      status_code               : Nat,
      redirect_status_code      : Nat,
      date_next_check           : MaybeDate,
      result_source             : {"server", "contribution"} ]

(* LinkCheckOutcome: what one check of a URL saw. *)
Outcomes ==
    [ date_checked         : Dates,
      result               : {"success", "failure", "unsupported"},
      status_code          : Nat,
      redirect_status_code : Nat,
      is_bot_blocked       : BOOLEAN,
      is_transient         : BOOLEAN,
      result_source        : {"server", "contribution"} ]

-----------------------------------------------------------------------------
(* Classification of status codes *)

SuccessCodes           == 200..299
BotBlockedCode         == 403
TransientCodes         == {421, 429, 503}
PermanentRedirectCodes == {301, 308}

(* contributed_outcome: a client reports a status code, not a response, so *)
(* the code alone decides.                                                 *)
contributed_outcome(code, redirectCode, receivedAt) ==
    [ date_checked         |-> receivedAt,
      result               |-> IF code \in SuccessCodes THEN "success" ELSE "failure",
      status_code          |-> code,
      redirect_status_code |-> redirectCode,
      is_bot_blocked       |-> code = BotBlockedCode,
      is_transient         |-> code \in TransientCodes,
      result_source        |-> "contribution" ]

(* accepts_contribution: only a verdict the server could not reach. *)
accepts_contribution(state) ==
    \/ state.status = "blocked"
    \/ state.status = "broken" /\ state.status_code = NoCode

-----------------------------------------------------------------------------
(* The transition function *)

Least(a, b)    == IF a <= b THEN a ELSE b
Greatest(a, b) == IF a >= b THEN a ELSE b

MaxBlockedBackoffDoublings == 30

(* Mutant: the doubling is not capped. *)
UncappedDelay(n) ==
    BlockedRecheckInterval * 2 ^ Least(n - 1, MaxBlockedBackoffDoublings)

(* The backoff of the n-th consecutive block. *)
blocked_recheck_delay(n) ==
    Least(BlockedRecheckInterval * 2 ^ Least(n - 1, MaxBlockedBackoffDoublings),
          Greatest(BrokenRecheckInterval, BlockedRecheckInterval))

(* Mutant: the result of the check is stored for the status it leads to. *)
ObservedResult(outcome, status) ==
    [ Unchecked EXCEPT
        !.status        = outcome.result,
        !.date_checked  = outcome.date_checked,
        !.status_code   = outcome.status_code,
        !.result_source = outcome.result_source ]

(* What every branch of evaluate_outcome copies from the outcome.  A       *)
(* successful check alone keeps its redirect code.                         *)
Observed(outcome, status) ==
    [ Unchecked EXCEPT
        !.status        = status,
        !.date_checked  = outcome.date_checked,
        !.status_code   = outcome.status_code,
        !.result_source = outcome.result_source ]

ToUnsupported(prior, outcome) ==
    [ Observed(outcome, "unsupported") EXCEPT !.date_last_ok = prior.date_last_ok ]

ToHealthy(outcome) ==
    [ Observed(outcome,
               IF outcome.redirect_status_code \in PermanentRedirectCodes
               THEN "redirected" ELSE "ok") EXCEPT
        !.date_last_ok         = outcome.date_checked,
        !.redirect_status_code = outcome.redirect_status_code ]

(* Mutant: a forced recheck counts as a scheduled one. *)
NeverKeepsBackoff(prior, forced) == FALSE

(* A forced recheck of a scheduled blocked link is schedule-neutral. *)
KeepsBackoff(prior, forced) ==
    forced /\ prior.status = "blocked" /\ prior.date_next_check # NoDate

(* Mutant: a block forgives the failures counted so far. *)
ToBlockedForgiving(prior, outcome, forced) ==
    [ Observed(outcome, "blocked") EXCEPT
        !.date_last_ok              = prior.date_last_ok,
        !.consecutive_blocked_count = prior.consecutive_blocked_count + 1,
        !.date_next_check           =
            outcome.date_checked + blocked_recheck_delay(prior.consecutive_blocked_count + 1) ]

ToBlocked(prior, outcome, forced) ==
    LET n == prior.consecutive_blocked_count + 1
    IN  [ Observed(outcome, "blocked") EXCEPT
            !.date_last_ok       = prior.date_last_ok,
            !.date_failing_since = prior.date_failing_since,
            !.failure_count      = prior.failure_count,
            !.consecutive_blocked_count =
                IF KeepsBackoff(prior, forced) THEN prior.consecutive_blocked_count ELSE n,
            !.date_next_check =
                IF KeepsBackoff(prior, forced) THEN prior.date_next_check
                ELSE outcome.date_checked + blocked_recheck_delay(n) ]

(* The consecutive-failure streak, extended or started by this failure. *)
StreakStart(prior, outcome) ==
    IF prior.date_failing_since # NoDate THEN prior.date_failing_since
    ELSE outcome.date_checked

StreakCount(prior) ==
    IF prior.date_failing_since # NoDate THEN prior.failure_count + 1 ELSE 1

(* Mutant: either condition is enough to break a link. *)
LadderExhaustedEither(prior, outcome) ==
    \/ StreakCount(prior) >= MinAttempts
    \/ outcome.date_checked - StreakStart(prior, outcome) >= BrokenThreshold

(* Mutant: off by one at the threshold. *)
LadderExhaustedLate(prior, outcome) ==
    /\ StreakCount(prior) >= MinAttempts
    /\ outcome.date_checked - StreakStart(prior, outcome) > BrokenThreshold

LadderExhausted(prior, outcome) ==
    /\ StreakCount(prior) >= MinAttempts
    /\ outcome.date_checked - StreakStart(prior, outcome) >= BrokenThreshold

(* A link never seen OK is broken at once. *)
IsBroken(prior, outcome) ==
    prior.date_last_ok = NoDate \/ LadderExhausted(prior, outcome)

LadderInterval(count) == RecheckIntervals[Least(count, Len(RecheckIntervals))]

(* Mutant: a broken link is given no recheck. *)
ToFailingUnscheduled(prior, outcome) ==
    LET broken == IsBroken(prior, outcome)
    IN  [ Observed(outcome, IF broken THEN "broken" ELSE "failing") EXCEPT
            !.date_last_ok       = prior.date_last_ok,
            !.date_failing_since = StreakStart(prior, outcome),
            !.failure_count      = StreakCount(prior),
            !.date_next_check    =
                IF broken THEN NoDate
                ELSE outcome.date_checked + LadderInterval(StreakCount(prior)) ]

ToFailing(prior, outcome) ==
    LET broken == IsBroken(prior, outcome)
    IN  [ Observed(outcome, IF broken THEN "broken" ELSE "failing") EXCEPT
            !.date_last_ok       = prior.date_last_ok,
            !.date_failing_since = StreakStart(prior, outcome),
            !.failure_count      = StreakCount(prior),
            !.date_next_check    =
                outcome.date_checked +
                    (IF broken THEN BrokenRecheckInterval
                     ELSE LadderInterval(StreakCount(prior))) ]

(* A block, an outage or a rate limit says nothing about the link. *)
Inconclusive(outcome) == outcome.is_bot_blocked \/ outcome.is_transient

evaluate_outcome(prior, outcome, forced) ==
    CASE outcome.result = "unsupported" -> ToUnsupported(prior, outcome)
      [] outcome.result = "success"     -> ToHealthy(outcome)
      [] outcome.result = "failure" /\ Inconclusive(outcome)
                                        -> ToBlocked(prior, outcome, forced)
      [] outcome.result = "failure" /\ ~Inconclusive(outcome)
                                        -> ToFailing(prior, outcome)

(* The delays the ladder knows. *)
Delays == {BrokenRecheckInterval, BlockedRecheckInterval}
          \cup {RecheckIntervals[i] : i \in DOMAIN RecheckIntervals}

-----------------------------------------------------------------------------
(* Freshness *)

(* Mutant: only staleness makes a URL due. *)
IsDueWhenStale(state, t, force) ==
    \/ state.status = "unchecked"
    \/ state.status # "unsupported" /\ (force \/ state.date_checked <= t - FreshnessTtl)

(* Mutant: only the schedule makes a URL due. *)
IsDueWhenScheduled(state, t, force) ==
    \/ state.status = "unchecked"
    \/ /\ state.status # "unsupported"
       /\ force \/ (state.date_next_check # NoDate /\ state.date_next_check <= t)

(* LinkCheckService._is_due *)
IsDue(state, t, force) ==
    \/ state.status = "unchecked"
    \/ /\ state.status # "unsupported"
       /\ \/ force
          \/ state.date_next_check # NoDate /\ state.date_next_check <= t
          \/ state.date_checked <= t - FreshnessTtl

(* LinkCheckService._report_url: a result counts for a check when it was   *)
(* fresh at submission; otherwise the URL is reported as pending.          *)
IsReportedPending(state, submittedAt) ==
    \/ state.status = "unchecked"
    \/ state.date_checked < submittedAt - FreshnessTtl
=============================================================================
