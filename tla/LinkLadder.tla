----------------------------- MODULE LinkLadder -----------------------------
(***************************************************************************)
(* The life of one referenced URL: every way a stored state is advanced    *)
(* (an execution or a scheduled recheck, a forced recheck, a client's      *)
(* contribution), each applied to the state it was judged from.  What      *)
(* overlapping writers do to each other is the matter of LinkCheckService. *)
(*                                                                         *)
(* The daily job and the consumer are assumed prompt: a URL that is due is *)
(* checked before the clock moves on, one unit of time being the period of *)
(* the job.  With PromptRecheck = FALSE nothing is assumed of them.        *)
(***************************************************************************)
EXTENDS LinkStatusEngine

CONSTANTS
    ServerCodes,       \* status codes a site may answer the server with
    ContributedCodes,  \* status codes a client may report
    PromptRecheck,     \* BOOLEAN: due URLs are checked before time passes
    MaxTime,           \* bound on the clock
    MaxAttempts        \* bound on off-schedule failures and blocks

ASSUME LadderBoundsAssumption ==
    /\ ServerCodes \subseteq Nat
    /\ ContributedCodes \subseteq Nat
    /\ PromptRecheck \in BOOLEAN
    /\ MaxTime \in Nat
    /\ MaxAttempts \in Nat

VARIABLES
    now,          \* the clock
    site,         \* "up", "down" or "private": what the server would find
    siteSince,    \* since when it has been so
    link,         \* the stored LinkState
    lastSuccess,  \* history: the last check that succeeded
    failed        \* history: confirmed failures since the last success

vars == <<now, site, siteSince, link, lastSuccess, failed>>

-----------------------------------------------------------------------------
(* What the URL checker makes of the site (UrlChecker.check).  A site that *)
(* is down fails, with or without an answer, or hides behind a bot wall or *)
(* an outage; a private host is refused before any request is made.        *)
Answer(result, code, redirectCode, isBot) ==
    [ date_checked         |-> now,
      result               |-> result,
      status_code          |-> code,
      redirect_status_code |-> redirectCode,
      is_bot_blocked       |-> isBot,
      is_transient         |-> code \in TransientCodes,
      result_source        |-> "server" ]

ServerOutcomes ==
    CASE site = "up" ->
            { Answer("success", 200, rc, FALSE) : rc \in {NoCode, 301, 302} }
      [] site = "private" ->
            { Answer("unsupported", NoCode, NoCode, FALSE) }
      [] OTHER ->
            { Answer("failure", code, NoCode, FALSE) :
                code \in ServerCodes \ SuccessCodes }
            \cup { Answer("failure", BotBlockedCode, NoCode, TRUE) }

-----------------------------------------------------------------------------
Init ==
    /\ now = 0
    /\ site \in {"up", "down", "private"}
    /\ siteSince = 0
    /\ link = Unchecked
    /\ lastSuccess = NoDate
    /\ failed = << >>

(* The history the properties compare the stored state with.  It is kept   *)
(* from the outcomes alone, never from the row.                            *)
Witnessed(outcome) ==
    CASE outcome.result = "success" ->
            lastSuccess' = outcome.date_checked /\ failed' = << >>
      [] outcome.result = "unsupported" ->
            failed' = << >> /\ UNCHANGED lastSuccess
      [] outcome.result = "failure" /\ Inconclusive(outcome) ->
            UNCHANGED <<lastSuccess, failed>>
      [] outcome.result = "failure" /\ ~Inconclusive(outcome) ->
            failed' = Append(failed, outcome.date_checked) /\ UNCHANGED lastSuccess

Record(outcome, forced) ==
    /\ link' = evaluate_outcome(link, outcome, forced)
    /\ Witnessed(outcome)
    /\ UNCHANGED <<now, site, siteSince>>

(* Off-schedule writes can be repeated at will; the bound stops them only. *)
WithinAttempts ==
    Len(failed) < MaxAttempts /\ link.consecutive_blocked_count < MaxAttempts

(* execute_check, or execute_recheck with force off: a due URL is checked. *)
Check ==
    /\ IsDue(link, now, FALSE)
    /\ \E outcome \in ServerOutcomes : Record(outcome, FALSE)

(* execute_recheck with force on, for a row the forcing options select.    *)
ForcedRecheck ==
    /\ link.status \in Forceable
    /\ IsDue(link, now, TRUE)
    /\ WithinAttempts
    /\ \E outcome \in ServerOutcomes : Record(outcome, TRUE)

(* contribute_results, one accepted entry.                                 *)
Contribute ==
    /\ accepts_contribution(link)
    /\ WithinAttempts
    /\ \E code \in ContributedCodes :
         Record(contributed_outcome(code, NoCode, now), FALSE)

(* The site changes: no code of Ook runs. *)
SiteChanges ==
    /\ site' \in {"up", "down", "private"} \ {site}
    /\ siteSince' = now
    /\ UNCHANGED <<now, link, lastSuccess, failed>>

Tick ==
    /\ now < MaxTime
    /\ PromptRecheck => ~IsDue(link, now, FALSE)
    /\ now' = now + 1
    /\ UNCHANGED <<site, siteSince, link, lastSuccess, failed>>

Next == Check \/ ForcedRecheck \/ Contribute \/ SiteChanges \/ Tick

Spec == Init /\ [][Next]_vars

-----------------------------------------------------------------------------
TypeOK ==
    /\ now \in Nat
    /\ site \in {"up", "down", "private"}
    /\ siteSince \in Nat
    /\ link \in LinkStates
    /\ lastSuccess \in MaybeDate
    /\ failed \in Seq(Nat)

(* The row remembers what the checks witnessed: the last success, and the  *)
(* streak of confirmed failures since, blocks in between leaving the       *)
(* streak alone and neither extending nor forgiving it (the inconclusive   *)
(* branch of evaluate_outcome).                                            *)
StreakIsHistory ==
    /\ link.date_last_ok = lastSuccess
    /\ link.failure_count = Len(failed)
    /\ link.date_failing_since = IF failed = << >> THEN NoDate ELSE failed[1]

(* A link that was ever seen OK is called broken only after MinAttempts    *)
(* confirmed failures that span the broken threshold, with no success in   *)
(* between, whoever contributed them (evaluate_outcome's ladder).          *)
BrokenIsEarned ==
    link.status = "broken" /\ lastSuccess # NoDate =>
        /\ Len(failed) >= MinAttempts
        /\ failed[Len(failed)] - failed[1] >= BrokenThreshold

(* A link on the ladder has not exhausted it: no row stays "failing" once  *)
(* its recorded failures call for "broken", and one never seen OK is never *)
(* given the benefit of the ladder.                                        *)
FailingIsOpen ==
    link.status = "failing" =>
        /\ lastSuccess # NoDate
        /\ failed # << >>
        /\ \/ Len(failed) < MinAttempts
           \/ failed[Len(failed)] - failed[1] < BrokenThreshold

(* An unhealthy row is always on the schedule and a healthy or unsupported *)
(* one never is: no path, a forced recheck or a contribution included,     *)
(* strands an unhealthy row.                                               *)
UnhealthyIsScheduled ==
    link.status \in Forceable <=> link.date_next_check # NoDate

(* The recheck of an unhealthy row is never put off beyond a delay of the  *)
(* ladder, however often the row was blocked (_blocked_recheck_delay's cap,*)
(* a forced recheck's kept schedule).                                      *)
RecheckIsNear ==
    link.status \in Forceable =>
        \E d \in Delays : link.date_next_check <= link.date_checked + d

(* The server's look at a blocked row that was not due leaves the row's    *)
(* schedule and its backoff as they were if the block persists: an         *)
(* operator's forced rechecks cannot push the scheduled one away.          *)
OffScheduleIsNeutral ==
    [][ /\ link.status = "blocked" /\ link'.status = "blocked"
        /\ ~IsDue(link, now, FALSE)
        /\ link'.result_source = "server"
        => /\ link'.date_next_check = link.date_next_check
           /\ link'.consecutive_blocked_count = link.consecutive_blocked_count ]_vars

(* The last moment at which something other than the server's own schedule *)
(* decided what the row says: the site changed, or a client contributed.   *)
Disturbed ==
    IF link.result_source = "contribution" THEN Greatest(siteSince, link.date_checked)
    ELSE siteSince

(* A link that works again is found to work within a delay of the ladder:  *)
(* no sequence of blocks, failures, forced rechecks and contributions      *)
(* stretches it (date_next_check in evaluate_outcome, _is_due).            *)
HealsInTime ==
    PromptRecheck /\ site = "up" /\ link.status \in Forceable =>
        \E d \in Delays : now <= Disturbed + d

(* Rot is noticed within the freshness TTL of its onset (_is_due's clause  *)
(* on date_checked, the only one that reaches a healthy row).              *)
RotIsNoticed ==
    PromptRecheck /\ site # "up" /\ link.status \in Healthy =>
        now <= Disturbed + FreshnessTtl
=============================================================================
