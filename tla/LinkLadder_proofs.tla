-------------------------- MODULE LinkLadder_proofs --------------------------
(***************************************************************************)
(* Proofs about the life of one URL: the stored row is a faithful record   *)
(* of what the checks witnessed, and from that the ladder's promises.      *)
(***************************************************************************)
EXTENDS LinkLadder, LinkStatusEngine_proofs

-----------------------------------------------------------------------------
(* The inductive invariant *)

DatesArePast == link.date_checked <= now /\ siteSince <= now

LadderInv ==
    /\ TypeOK
    /\ StreakIsHistory
    /\ BrokenIsEarned
    /\ FailingIsOpen
    /\ UnhealthyIsScheduled
    /\ RecheckIsNear
    /\ DatesArePast

LEMMA ServerOutcomesTyped ==
    ASSUME TypeOK, NEW o \in ServerOutcomes
    PROVE  /\ o \in Outcomes
           /\ o.date_checked = now
           /\ o.result_source = "server"
           /\ site = "up" => o.result = "success"
           /\ o.result = "success" => site = "up"
<1>1. ASSUME NEW result \in {"success", "failure", "unsupported"}, NEW code \in Nat,
             NEW rc \in Nat, NEW bot \in BOOLEAN, o = Answer(result, code, rc, bot)
      PROVE  /\ o \in Outcomes /\ o.date_checked = now
             /\ o.result_source = "server" /\ o.result = result
  <2>1. (code \in TransientCodes) \in BOOLEAN
    OBVIOUS
  <2> DEFINE transient == code \in TransientCodes
  <2>2. o = [ date_checked |-> now, result |-> result, status_code |-> code,
              redirect_status_code |-> rc, is_bot_blocked |-> bot,
              is_transient |-> transient, result_source |-> "server" ]
    BY <1>1 DEF Answer
  <2> HIDE DEF transient
  <2>3. transient \in BOOLEAN
    BY <2>1 DEF transient
  <2>. QED
    BY <2>2, <2>3 DEF Outcomes, Dates, TypeOK
<1>2. CASE site = "up"
  <2>1. PICK rc \in {NoCode, 301, 302} : o = Answer("success", 200, rc, FALSE)
    BY <1>2 DEF ServerOutcomes
  <2>2. rc \in Nat
    BY <2>1 DEF NoCode
  <2> DEFINE code == 200
  <2>3. code \in Nat /\ o = Answer("success", code, rc, FALSE)
    BY <2>1
  <2> HIDE DEF code
  <2>4. /\ o \in Outcomes /\ o.date_checked = now
        /\ o.result_source = "server" /\ o.result = "success"
    BY <1>1, <2>2, <2>3, Zenon
  <2>. QED
    BY <1>2, <2>4
<1>3. CASE site = "private"
  <2>1. o = Answer("unsupported", NoCode, NoCode, FALSE)
    BY <1>3 DEF ServerOutcomes
  <2>. QED
    BY <1>1, <1>3, <2>1 DEF NoCode
<1>4. CASE site = "down"
  <2>1. o \in { Answer("failure", code, NoCode, FALSE) : code \in ServerCodes \ SuccessCodes }
              \cup { Answer("failure", BotBlockedCode, NoCode, TRUE) }
    BY <1>4 DEF ServerOutcomes
  <2>2. CASE o = Answer("failure", BotBlockedCode, NoCode, TRUE)
    <3>1. BotBlockedCode \in Nat /\ NoCode \in Nat
      BY DEF BotBlockedCode, NoCode
    <3>. QED
      BY <1>1, <1>4, <2>2, <3>1
  <2>3. CASE o \in { Answer("failure", code, NoCode, FALSE) : code \in ServerCodes \ SuccessCodes }
    <3>1. PICK code \in ServerCodes \ SuccessCodes : o = Answer("failure", code, NoCode, FALSE)
      BY <2>3
    <3>2. code \in Nat /\ FALSE \in BOOLEAN
      BY <3>1, LadderBoundsAssumption
    <3>. QED
      BY <1>1, <1>4, <3>1, <3>2 DEF NoCode
  <2>. QED
    BY <2>1, <2>2, <2>3
<1>. QED
  BY <1>2, <1>3, <1>4 DEF TypeOK

LEMMA ContributedOutcomesTyped ==
    ASSUME TypeOK, NEW code \in ContributedCodes
    PROVE  LET o == contributed_outcome(code, NoCode, now)
           IN  /\ o \in Outcomes
               /\ o.date_checked = now
               /\ o.result_source = "contribution"
<1>1. code \in Nat /\ now \in Nat
  BY LadderBoundsAssumption DEF TypeOK
<1>. QED
  BY <1>1, ContributedOutcome

(* Which transition an outcome takes, and what history makes of it. *)
LEMMA Branches ==
    ASSUME NEW o \in Outcomes, NEW forced \in BOOLEAN, Record(o, forced)
    PROVE  \/ /\ o.result = "unsupported"
              /\ link' = ToUnsupported(link, o)
              /\ failed' = << >> /\ lastSuccess' = lastSuccess
           \/ /\ o.result = "success"
              /\ link' = ToHealthy(o)
              /\ failed' = << >> /\ lastSuccess' = o.date_checked
           \/ /\ o.result = "failure"
              /\ link' = ToBlocked(link, o, forced)
              /\ failed' = failed /\ lastSuccess' = lastSuccess
           \/ /\ o.result = "failure"
              /\ link' = ToFailing(link, o)
              /\ failed' = Append(failed, o.date_checked) /\ lastSuccess' = lastSuccess
<1>1. o.result \in {"success", "failure", "unsupported"}
  BY DEF Outcomes
<1>2. CASE o.result = "unsupported"
  BY <1>2 DEF Record, Witnessed, evaluate_outcome
<1>3. CASE o.result = "success"
  BY <1>3 DEF Record, Witnessed, evaluate_outcome
<1>4. CASE o.result = "failure" /\ Inconclusive(o)
  BY <1>4 DEF Record, Witnessed, evaluate_outcome
<1>5. CASE o.result = "failure" /\ ~Inconclusive(o)
  BY <1>5 DEF Record, Witnessed, evaluate_outcome
<1>. QED
  BY <1>1, <1>2, <1>3, <1>4, <1>5

LEMMA RecordKeepsLadder ==
    ASSUME LadderInv, NEW o \in Outcomes, o.date_checked = now,
           NEW forced \in BOOLEAN, Record(o, forced)
    PROVE  LadderInv'
<1> USE DEF LadderInv
<1>1. /\ link \in LinkStates /\ lastSuccess \in MaybeDate
      /\ failed \in Seq(Nat) /\ now \in Nat /\ siteSince \in Nat
      /\ site \in {"up", "down", "private"}
  BY DEF TypeOK
<1>2. now' = now /\ site' = site /\ siteSince' = siteSince
  BY DEF Record
<1>3. CASE /\ link' = ToUnsupported(link, o)
           /\ failed' = << >> /\ lastSuccess' = lastSuccess
  <2>1. /\ link' \in LinkStates
        /\ link'.status = "unsupported"
        /\ link'.date_checked = now
        /\ link'.date_last_ok = link.date_last_ok
        /\ link'.date_failing_since = NoDate
        /\ link'.failure_count = 0
        /\ link'.date_next_check = NoDate
    BY <1>1, <1>3, UnsupportedTransition
  <2>. QED
    BY <1>1, <1>2, <1>3, <2>1
       DEF TypeOK, StreakIsHistory, BrokenIsEarned, FailingIsOpen, UnhealthyIsScheduled,
           RecheckIsNear, DatesArePast, Forceable
<1>4. CASE /\ link' = ToHealthy(o)
           /\ failed' = << >> /\ lastSuccess' = o.date_checked
  <2>1. /\ link' \in LinkStates
        /\ link'.status \in Healthy
        /\ link'.date_checked = now
        /\ link'.date_last_ok = now
        /\ link'.date_failing_since = NoDate
        /\ link'.failure_count = 0
        /\ link'.date_next_check = NoDate
    BY <1>4, HealthyTransition
  <2>2. lastSuccess' = now
    BY <1>4
  <2>. QED
    BY <1>1, <1>2, <1>4, <2>1, <2>2
       DEF TypeOK, StreakIsHistory, BrokenIsEarned, FailingIsOpen, UnhealthyIsScheduled,
           RecheckIsNear, DatesArePast, Forceable, Healthy, MaybeDate
<1>5. CASE /\ link' = ToBlocked(link, o, forced)
           /\ failed' = failed /\ lastSuccess' = lastSuccess
  <2>1. /\ link' \in LinkStates
        /\ link'.status = "blocked"
        /\ link'.date_checked = now
        /\ link'.date_last_ok = link.date_last_ok
        /\ link'.date_failing_since = link.date_failing_since
        /\ link'.failure_count = link.failure_count
        /\ link'.date_next_check # NoDate
        /\ KeepsBackoff(link, forced) => link'.date_next_check = link.date_next_check
        /\ ~KeepsBackoff(link, forced) =>
              \E d \in Delays : link'.date_next_check <= now + d
    BY <1>1, <1>5, BlockedTransition
  <2>2. RecheckIsNear'
    <3>1. CASE KeepsBackoff(link, forced)
      <4>1. PICK d \in Delays : link.date_next_check <= link.date_checked + d
        BY <3>1 DEF RecheckIsNear, KeepsBackoff, Forceable
      <4>2. d \in Nat /\ link.date_checked <= now /\ link.date_checked \in Int
            /\ link.date_next_check \in Int
        BY <1>1, Intervals DEF DatesArePast, LinkStates, MaybeDate, Dates, NoDate
      <4>3. link'.date_next_check <= link'.date_checked + d
        BY <1>1, <2>1, <3>1, <4>1, <4>2
      <4>. QED
        BY <4>3 DEF RecheckIsNear
    <3>2. CASE ~KeepsBackoff(link, forced)
      BY <2>1, <3>2 DEF RecheckIsNear
    <3>. QED
      BY <3>1, <3>2
  <2>. QED
    BY <1>1, <1>2, <1>5, <2>1, <2>2
       DEF TypeOK, StreakIsHistory, BrokenIsEarned, FailingIsOpen, UnhealthyIsScheduled,
           DatesArePast, Forceable
<1>6. CASE /\ link' = ToFailing(link, o)
           /\ failed' = Append(failed, o.date_checked) /\ lastSuccess' = lastSuccess
  <2>1. /\ link' \in LinkStates
        /\ link'.status = IF IsBroken(link, o) THEN "broken" ELSE "failing"
        /\ link'.date_checked = now
        /\ link'.date_last_ok = link.date_last_ok
        /\ link'.date_failing_since = StreakStart(link, o)
        /\ link'.failure_count = StreakCount(link)
        /\ link'.date_next_check >= now
        /\ \E d \in Delays : link'.date_next_check = now + d
    BY <1>1, <1>6, FailingTransition
  <2>2. /\ failed' \in Seq(Nat)
        /\ Len(failed') = Len(failed) + 1
        /\ failed' # << >>
        /\ failed'[Len(failed')] = now
        /\ failed'[1] = IF failed = << >> THEN now ELSE failed[1]
    BY <1>1, <1>6
  <2>3. StreakCount(link) = Len(failed') /\ StreakStart(link, o) = failed'[1]
    <3>1. CASE failed = << >>
      BY <2>2, <3>1 DEF StreakIsHistory, StreakCount, StreakStart, NoDate
    <3>2. CASE failed # << >>
      <4>1. failed[1] \in Nat /\ link.date_failing_since = failed[1]
        BY <1>1, <3>2 DEF StreakIsHistory
      <4>. QED
        BY <2>2, <3>2, <4>1 DEF StreakIsHistory, StreakCount, StreakStart, NoDate
    <3>. QED
      BY <3>1, <3>2
  <2>4. StreakIsHistory'
    BY <1>6, <2>1, <2>2, <2>3 DEF StreakIsHistory
  <2>5. IsBroken(link, o) <=>
          \/ lastSuccess = NoDate
          \/ /\ Len(failed') >= MinAttempts
             /\ failed'[Len(failed')] - failed'[1] >= BrokenThreshold
    BY <2>2, <2>3 DEF IsBroken, LadderExhausted, StreakIsHistory
  <2>6. failed'[Len(failed')] \in Nat /\ failed'[1] \in Nat /\ Len(failed') \in Nat
    BY <2>2
  <2>7. BrokenIsEarned' /\ FailingIsOpen'
    BY <1>6, <2>1, <2>2, <2>5, <2>6, LadderAssumption DEF BrokenIsEarned, FailingIsOpen
  <2>8. PICK d \in Delays : link'.date_next_check = now + d
    BY <2>1
  <2>9. UnhealthyIsScheduled' /\ RecheckIsNear'
    BY <1>1, <2>1, <2>8, Intervals DEF UnhealthyIsScheduled, RecheckIsNear, Forceable, NoDate
  <2>. QED
    BY <1>1, <1>2, <1>6, <2>1, <2>2, <2>4, <2>7, <2>9 DEF TypeOK, DatesArePast
<1>. QED
  BY <1>3, <1>4, <1>5, <1>6, Branches
LEMMA LadderStep == LadderInv /\ [Next]_vars => LadderInv'
<1> SUFFICES ASSUME LadderInv, [Next]_vars PROVE LadderInv'
  OBVIOUS
<1>1. TypeOK
  BY DEF LadderInv
<1>2. CASE Check
  <2>1. PICK o \in ServerOutcomes : Record(o, FALSE)
    BY <1>2 DEF Check
  <2>. QED
    BY <1>1, <2>1, ServerOutcomesTyped, RecordKeepsLadder
<1>3. CASE ForcedRecheck
  <2>1. PICK o \in ServerOutcomes : Record(o, TRUE)
    BY <1>3 DEF ForcedRecheck
  <2>. QED
    BY <1>1, <2>1, ServerOutcomesTyped, RecordKeepsLadder
<1>4. CASE Contribute
  <2>1. PICK code \in ContributedCodes :
          Record(contributed_outcome(code, NoCode, now), FALSE)
    BY <1>4 DEF Contribute
  <2>. QED
    BY <1>1, <2>1, ContributedOutcomesTyped, RecordKeepsLadder
<1>5. CASE SiteChanges
  BY <1>5 DEF SiteChanges, LadderInv, TypeOK, StreakIsHistory, BrokenIsEarned, FailingIsOpen,
              UnhealthyIsScheduled, RecheckIsNear, DatesArePast
<1>6. CASE Tick
  BY <1>6 DEF Tick, LadderInv, TypeOK, StreakIsHistory, BrokenIsEarned, FailingIsOpen,
              UnhealthyIsScheduled, RecheckIsNear, DatesArePast, LinkStates, MaybeDate,
              Dates, NoDate
<1>7. CASE UNCHANGED vars
  BY <1>7 DEF vars, LadderInv, TypeOK, StreakIsHistory, BrokenIsEarned, FailingIsOpen,
              UnhealthyIsScheduled, RecheckIsNear, DatesArePast
<1>. QED
  BY <1>2, <1>3, <1>4, <1>5, <1>6, <1>7 DEF Next

LEMMA LadderInit == Init => LadderInv
  BY DEF Init, LadderInv, TypeOK, StreakIsHistory, BrokenIsEarned, FailingIsOpen,
         UnhealthyIsScheduled, RecheckIsNear, DatesArePast, Unchecked, LinkStates,
         Statuses, Healthy, Forceable, MaybeDate, Dates, NoDate, NoCode

(* The stored row is an inductive record of the checks: its type, the      *)
(* streak it keeps and the schedule it is on (evaluate_outcome).           *)
THEOREM LadderInvariant == Spec => []LadderInv
  BY LadderInit, LadderStep, PTL DEF Spec

(* The variables have their types in every reachable state. *)
THEOREM TypeCorrect == Spec => []TypeOK
  BY LadderInvariant, PTL DEF LadderInv

(* The row's last success and failing streak are those the checks saw. *)
THEOREM StreakCorrect == Spec => []StreakIsHistory
  BY LadderInvariant, PTL DEF LadderInv

(* A link that was seen OK is broken only after MinAttempts failures over  *)
(* the threshold (evaluate_outcome).                                       *)
THEOREM LadderIsFair == Spec => []BrokenIsEarned
  BY LadderInvariant, PTL DEF LadderInv

(* ... and is failing only short of that.                                  *)
THEOREM LadderIsClimbed == Spec => []FailingIsOpen
  BY LadderInvariant, PTL DEF LadderInv

(* No path strands an unhealthy row off the schedule ... *)
THEOREM NoneIsStranded == Spec => []UnhealthyIsScheduled
  BY LadderInvariant, PTL DEF LadderInv

(* ... or far out on it (evaluate_outcome). *)
THEOREM UnhealthyIsRechecked == Spec => []RecheckIsNear
  BY LadderInvariant, PTL DEF LadderInv

-----------------------------------------------------------------------------
(* A forced recheck is schedule-neutral *)

LEMMA NeutralStep ==
    LadderInv /\ [Next]_vars =>
        [ /\ link.status = "blocked" /\ link'.status = "blocked"
          /\ ~IsDue(link, now, FALSE)
          /\ link'.result_source = "server"
          => /\ link'.date_next_check = link.date_next_check
             /\ link'.consecutive_blocked_count = link.consecutive_blocked_count ]_vars
<1> SUFFICES ASSUME LadderInv, Next,
                    link.status = "blocked", link'.status = "blocked",
                    ~IsDue(link, now, FALSE), link'.result_source = "server"
             PROVE  /\ link'.date_next_check = link.date_next_check
                    /\ link'.consecutive_blocked_count = link.consecutive_blocked_count
  OBVIOUS
<1>1. TypeOK /\ link \in LinkStates
  BY DEF LadderInv, TypeOK
<1>2. CASE Check
  BY <1>2 DEF Check
<1>3. CASE ForcedRecheck
  <2>1. PICK o \in ServerOutcomes : Record(o, TRUE)
    BY <1>3 DEF ForcedRecheck
  <2>2. o \in Outcomes
    BY <1>1, <2>1, ServerOutcomesTyped
  <2>3. KeepsBackoff(link, TRUE)
    BY DEF KeepsBackoff, LadderInv, UnhealthyIsScheduled, Forceable
  <2>4. CASE link' = ToUnsupported(link, o)
    BY <1>1, <2>2, <2>4, UnsupportedTransition
  <2>5. CASE link' = ToHealthy(o)
    BY <2>2, <2>5, HealthyTransition DEF Healthy
  <2>6. CASE link' = ToBlocked(link, o, TRUE)
    BY <1>1, <2>2, <2>3, <2>6, BlockedTransition
  <2>7. CASE link' = ToFailing(link, o)
    BY <1>1, <2>2, <2>7, FailingTransition
  <2>. QED
    BY <2>1, <2>2, <2>4, <2>5, <2>6, <2>7, Branches
<1>4. CASE Contribute
  <2>1. PICK code \in ContributedCodes :
          Record(contributed_outcome(code, NoCode, now), FALSE)
    BY <1>4 DEF Contribute
  <2> DEFINE o == contributed_outcome(code, NoCode, now)
  <2>2. o \in Outcomes /\ o.result_source = "contribution" /\ Record(o, FALSE)
    BY <1>1, <2>1, ContributedOutcomesTyped
  <2> HIDE DEF o
  <2>3. link'.result_source = "contribution"
    <3>1. CASE link' = ToUnsupported(link, o)
      BY <1>1, <2>2, <3>1, UnsupportedTransition
    <3>2. CASE link' = ToHealthy(o)
      BY <2>2, <3>2, HealthyTransition
    <3>3. CASE link' = ToBlocked(link, o, FALSE)
      BY <1>1, <2>2, <3>3, BlockedTransition
    <3>4. CASE link' = ToFailing(link, o)
      BY <1>1, <2>2, <3>4, FailingTransition
    <3>. QED
      BY <2>2, <3>1, <3>2, <3>3, <3>4, Branches
  <2>. QED
    BY <2>3
<1>5. CASE SiteChanges \/ Tick
  BY <1>5 DEF SiteChanges, Tick
<1>. QED
  BY <1>2, <1>3, <1>4, <1>5 DEF Next

(* An operator's forced rechecks never move a blocked row's schedule or    *)
(* backoff (the forced branch of evaluate_outcome).                        *)
THEOREM ForcingIsNeutral == Spec => OffScheduleIsNeutral
<1>1. Spec => [][LadderInv /\ [Next]_vars]_vars
  BY LadderInvariant, PTL DEF Spec
<1>. QED
  BY <1>1, LadderInvariant, NeutralStep, PTL DEF Spec, OffScheduleIsNeutral

-----------------------------------------------------------------------------
(* Timeliness: what promptness and the schedule give together *)

Timely ==
    /\ PromptRecheck /\ link.status \in Forceable => now <= link.date_next_check
    /\ PromptRecheck /\ link.status \in Healthy => now <= link.date_checked + FreshnessTtl
    /\ link.result_source = "server" /\ site = "up" /\ link.status \in Forceable =>
          link.date_checked <= siteSince
    /\ link.result_source = "server" /\ site # "up" /\ link.status \in Healthy =>
          link.date_checked <= siteSince

LEMMA RecordKeepsTimely ==
    ASSUME LadderInv, Timely, NEW o \in Outcomes, o.date_checked = now,
           NEW forced \in BOOLEAN, Record(o, forced),
           o.result_source = "server" =>
               (site = "up" <=> o.result = "success")
    PROVE  Timely'
<1>1. link \in LinkStates /\ now \in Nat /\ FreshnessTtl \in Nat
  BY LadderAssumption DEF LadderInv, TypeOK
<1>2. now' = now /\ site' = site /\ siteSince' = siteSince
  BY DEF Record
<1>3. CASE link' = ToUnsupported(link, o)
  BY <1>1, <1>3, UnsupportedTransition DEF Timely, Forceable, Healthy
<1>4. CASE o.result = "success" /\ link' = ToHealthy(o)
  BY <1>1, <1>2, <1>4, HealthyTransition DEF Timely, Forceable, Healthy
<1>5. CASE o.result = "failure" /\ link' = ToBlocked(link, o, forced)
  BY <1>1, <1>2, <1>5, BlockedTransition DEF Timely, Forceable, Healthy, KeepsBackoff
<1>6. CASE o.result = "failure" /\ link' = ToFailing(link, o)
  BY <1>1, <1>2, <1>6, FailingTransition DEF Timely, Forceable, Healthy
<1>. QED
  BY <1>3, <1>4, <1>5, <1>6, Branches

LEMMA TimelyStep == LadderInv /\ Timely /\ [Next]_vars => Timely'
<1> SUFFICES ASSUME LadderInv, Timely, [Next]_vars PROVE Timely'
  OBVIOUS
<1>1. TypeOK /\ link \in LinkStates /\ now \in Nat /\ siteSince \in Nat
      /\ FreshnessTtl \in Nat
  BY LadderAssumption DEF LadderInv, TypeOK
<1>2. CASE Check
  <2>1. PICK o \in ServerOutcomes : Record(o, FALSE)
    BY <1>2 DEF Check
  <2>. QED
    BY <1>1, <2>1, ServerOutcomesTyped, RecordKeepsTimely
<1>3. CASE ForcedRecheck
  <2>1. PICK o \in ServerOutcomes : Record(o, TRUE)
    BY <1>3 DEF ForcedRecheck
  <2>. QED
    BY <1>1, <2>1, ServerOutcomesTyped, RecordKeepsTimely
<1>4. CASE Contribute
  <2>1. PICK code \in ContributedCodes :
          Record(contributed_outcome(code, NoCode, now), FALSE)
    BY <1>4 DEF Contribute
  <2> DEFINE o == contributed_outcome(code, NoCode, now)
  <2>2. /\ o \in Outcomes /\ o.date_checked = now
        /\ o.result_source = "contribution" /\ Record(o, FALSE)
    BY <1>1, <2>1, ContributedOutcomesTyped
  <2> HIDE DEF o
  <2>. QED
    BY <2>2, RecordKeepsTimely
<1>5. CASE SiteChanges
  BY <1>1, <1>5 DEF SiteChanges, Timely, LadderInv, DatesArePast
<1>6. CASE Tick
  BY <1>1, <1>6 DEF Tick, Timely, IsDue, LadderInv, UnhealthyIsScheduled, Forceable, Healthy,
                    LinkStates, MaybeDate, Dates, NoDate
<1>7. CASE UNCHANGED vars
  BY <1>7 DEF vars, Timely
<1>. QED
  BY <1>2, <1>3, <1>4, <1>5, <1>6, <1>7 DEF Next

LEMMA TimelyInit == Init => Timely
  BY DEF Init, Timely, Unchecked, Forceable, Healthy

LEMMA TimelyBounds == LadderInv /\ Timely => HealsInTime /\ RotIsNoticed
<1> SUFFICES ASSUME LadderInv, Timely PROVE HealsInTime /\ RotIsNoticed
  OBVIOUS
<1>1. /\ link \in LinkStates /\ now \in Nat /\ siteSince \in Nat
      /\ FreshnessTtl \in Nat /\ Delays \subseteq Nat
      /\ link.date_checked \in Int /\ link.date_next_check \in Int
      /\ link.result_source \in {"server", "contribution"}
  BY LadderAssumption, Intervals
     DEF LadderInv, TypeOK, LinkStates, MaybeDate, Dates, NoDate
<1>2. Disturbed \in Int
  BY <1>1 DEF Disturbed, Greatest
<1>3. ASSUME PromptRecheck, site = "up", link.status \in Forceable
      PROVE  \E d \in Delays : now <= Disturbed + d
  <2>1. link.date_checked <= Disturbed
    BY <1>1, <1>3 DEF Timely, Disturbed, Greatest
  <2>2. PICK d \in Delays : link.date_next_check <= link.date_checked + d
    BY <1>3 DEF LadderInv, RecheckIsNear
  <2>3. now <= link.date_next_check
    BY <1>3 DEF Timely
  <2>4. now <= Disturbed + d
    BY <1>1, <1>2, <2>1, <2>2, <2>3
  <2>. QED
    BY <2>4
<1>4. ASSUME PromptRecheck, site # "up", link.status \in Healthy
      PROVE  now <= Disturbed + FreshnessTtl
  <2>1. link.date_checked <= Disturbed
    BY <1>1, <1>4 DEF Timely, Disturbed, Greatest
  <2>. QED
    BY <1>1, <1>2, <1>4, <2>1 DEF Timely
<1>. QED
  BY <1>3, <1>4 DEF HealsInTime, RotIsNoticed

LEMMA TimelyCorrect == Spec => []Timely
  BY LadderInvariant, TimelyInit, TimelyStep, PTL DEF Spec

(* A link that works again is found healthy within a delay of the ladder, *)
(* for every configuration ...                                            *)
THEOREM VerdictsAreTimely == Spec => []HealsInTime
  BY LadderInvariant, TimelyCorrect, TimelyBounds, PTL

(* ... and rot is noticed within the freshness TTL.                       *)
THEOREM RotIsFound == Spec => []RotIsNoticed
  BY LadderInvariant, TimelyCorrect, TimelyBounds, PTL
=============================================================================
