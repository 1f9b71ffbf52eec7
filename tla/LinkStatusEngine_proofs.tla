----------------------- MODULE LinkStatusEngine_proofs -----------------------
(***************************************************************************)
(* Lemmas about the status engine: what a URL's row becomes by each of the *)
(* engine's transitions, and when it is next due.                          *)
(***************************************************************************)
EXTENDS LinkStatusEngine, TLAPS

-----------------------------------------------------------------------------
(* Arithmetic of the backoff *)

(* The exponents blocked_recheck_delay can use, one by one: the provers    *)
(* know 2^k only for a literal k.                                          *)
LEMMA Doublings == ASSUME NEW e \in 0..30 PROVE 2 ^ e \in Nat /\ 2 ^ e >= 1
<1>0. CASE e = 0  BY <1>0
<1>1. CASE e = 1  BY <1>1
<1>2. CASE e = 2  BY <1>2
<1>3. CASE e = 3  BY <1>3
<1>4. CASE e = 4  BY <1>4
<1>5. CASE e = 5  BY <1>5
<1>6. CASE e = 6  BY <1>6
<1>7. CASE e = 7  BY <1>7
<1>8. CASE e = 8  BY <1>8
<1>9. CASE e = 9  BY <1>9
<1>10. CASE e = 10  BY <1>10
<1>11. CASE e = 11  BY <1>11
<1>12. CASE e = 12  BY <1>12
<1>13. CASE e = 13  BY <1>13
<1>14. CASE e = 14  BY <1>14
<1>15. CASE e = 15  BY <1>15
<1>16. CASE e = 16  BY <1>16
<1>17. CASE e = 17  BY <1>17
<1>18. CASE e = 18  BY <1>18
<1>19. CASE e = 19  BY <1>19
<1>20. CASE e = 20  BY <1>20
<1>21. CASE e = 21  BY <1>21
<1>22. CASE e = 22  BY <1>22
<1>23. CASE e = 23  BY <1>23
<1>24. CASE e = 24  BY <1>24
<1>25. CASE e = 25  BY <1>25
<1>26. CASE e = 26  BY <1>26
<1>27. CASE e = 27  BY <1>27
<1>28. CASE e = 28  BY <1>28
<1>29. CASE e = 29  BY <1>29
<1>30. CASE e = 30  BY <1>30
<1>31. e \in {0, 1, 2, 3, 4, 5, 6, 7, 8, 9, 10, 11, 12, 13, 14, 15}
      \/ e \in {16, 17, 18, 19, 20, 21, 22, 23, 24, 25, 26, 27, 28, 29, 30}
  OBVIOUS
<1>. QED
  BY <1>0, <1>1, <1>2, <1>3, <1>4, <1>5, <1>6, <1>7, <1>8, <1>9, <1>10,
     <1>11, <1>12, <1>13, <1>14, <1>15, <1>16, <1>17, <1>18, <1>19, <1>20,
     <1>21, <1>22, <1>23, <1>24, <1>25, <1>26, <1>27, <1>28, <1>29, <1>30, <1>31

LEMMA ProductPositive ==
    ASSUME NEW a \in Nat, a >= 1, NEW b \in Nat, b >= 1
    PROVE  a * b \in Nat /\ a * b >= 1
  BY SMT

(* A block is rechecked after a positive delay, within the larger of the   *)
(* blocked and the broken interval.                                        *)
LEMMA BlockedDelay ==
    ASSUME NEW n \in Nat, n >= 1
    PROVE  /\ blocked_recheck_delay(n) \in Nat
           /\ blocked_recheck_delay(n) >= 1
           /\ \E d \in Delays : blocked_recheck_delay(n) <= d
<1> DEFINE e == Least(n - 1, MaxBlockedBackoffDoublings)
<1>1. e \in 0..30
  BY DEF Least, MaxBlockedBackoffDoublings
<1>2. 2 ^ e \in Nat /\ 2 ^ e >= 1
  BY <1>1, Doublings
<1> DEFINE p == 2 ^ e
<1> HIDE DEF e
<1>3. BlockedRecheckInterval \in Nat /\ BlockedRecheckInterval >= 1
      /\ BrokenRecheckInterval \in Nat /\ BrokenRecheckInterval >= 1
  BY LadderAssumption
<1>4. p \in Nat /\ p >= 1
  BY <1>2
<1> HIDE DEF p
<1>5. BlockedRecheckInterval * p \in Nat /\ BlockedRecheckInterval * p >= 1
  BY <1>3, <1>4, ProductPositive
<1>6. BlockedRecheckInterval \in Delays /\ BrokenRecheckInterval \in Delays
  BY DEF Delays
<1> DEFINE q == BlockedRecheckInterval * p
<1>7. q \in Nat /\ q >= 1
  BY <1>5
<1>8. blocked_recheck_delay(n) = Least(q, Greatest(BrokenRecheckInterval, BlockedRecheckInterval))
  BY DEF blocked_recheck_delay, q, p, e
<1> HIDE DEF q
<1>. QED
  BY <1>3, <1>6, <1>7, <1>8 DEF Least, Greatest
-----------------------------------------------------------------------------
(* The four transitions, field by field *)

LEMMA UnsupportedTransition ==
    ASSUME NEW prior \in LinkStates, NEW o \in Outcomes
    PROVE  LET s == ToUnsupported(prior, o)
           IN  /\ s \in LinkStates
               /\ s.status = "unsupported"
               /\ s.date_checked = o.date_checked
               /\ s.date_last_ok = prior.date_last_ok
               /\ s.date_failing_since = NoDate
               /\ s.failure_count = 0
               /\ s.date_next_check = NoDate
               /\ s.result_source = o.result_source
  BY DEF ToUnsupported, Observed, Unchecked, LinkStates, Outcomes, Statuses, Forceable,
         Healthy, MaybeDate, Dates, NoDate, NoCode

LEMMA HealthyTransition ==
    ASSUME NEW o \in Outcomes
    PROVE  LET s == ToHealthy(o)
           IN  /\ s \in LinkStates
               /\ s.status \in Healthy
               /\ s.date_checked = o.date_checked
               /\ s.date_last_ok = o.date_checked
               /\ s.date_failing_since = NoDate
               /\ s.failure_count = 0
               /\ s.date_next_check = NoDate
               /\ s.result_source = o.result_source
  BY DEF ToHealthy, Observed, Unchecked, LinkStates, Outcomes, Statuses, Forceable,
         Healthy, MaybeDate, Dates, NoDate, NoCode

LEMMA BlockedTransition ==
    ASSUME NEW prior \in LinkStates, NEW o \in Outcomes, NEW forced \in BOOLEAN
    PROVE  LET s == ToBlocked(prior, o, forced)
           IN  /\ s \in LinkStates
               /\ s.status = "blocked"
               /\ s.date_checked = o.date_checked
               /\ s.date_last_ok = prior.date_last_ok
               /\ s.date_failing_since = prior.date_failing_since
               /\ s.failure_count = prior.failure_count
               /\ s.date_next_check # NoDate
               /\ KeepsBackoff(prior, forced) =>
                    /\ s.date_next_check = prior.date_next_check
                    /\ s.consecutive_blocked_count = prior.consecutive_blocked_count
               /\ ~KeepsBackoff(prior, forced) =>
                    /\ s.date_next_check >= o.date_checked
                    /\ \E d \in Delays : s.date_next_check <= o.date_checked + d
               /\ s.result_source = o.result_source
<1> DEFINE n == prior.consecutive_blocked_count + 1
           delay == blocked_recheck_delay(n)
<1>1. n \in Nat /\ n >= 1
  BY DEF LinkStates
<1>2. /\ delay \in Nat /\ delay >= 1
      /\ \E d \in Delays : delay <= d
  BY <1>1, BlockedDelay
<1>3. Delays \subseteq Nat
  BY LadderAssumption DEF Delays
<1>4. o.date_checked \in Nat
  BY DEF Outcomes, Dates
<1>5. ToBlocked(prior, o, forced) =
        [ Observed(o, "blocked") EXCEPT
            !.date_last_ok       = prior.date_last_ok,
            !.date_failing_since = prior.date_failing_since,
            !.failure_count      = prior.failure_count,
            !.consecutive_blocked_count =
                IF KeepsBackoff(prior, forced) THEN prior.consecutive_blocked_count ELSE n,
            !.date_next_check =
                IF KeepsBackoff(prior, forced) THEN prior.date_next_check
                ELSE o.date_checked + delay ]
  BY DEF ToBlocked
<1> HIDE DEF n, delay
<1> DEFINE s == ToBlocked(prior, o, forced)
           next == IF KeepsBackoff(prior, forced) THEN prior.date_next_check
                   ELSE o.date_checked + delay
           count == IF KeepsBackoff(prior, forced)
                    THEN prior.consecutive_blocked_count ELSE n
<1>6. next \in Nat /\ next # NoDate /\ count \in Nat
  BY <1>1, <1>2, <1>4 DEF KeepsBackoff, LinkStates, MaybeDate, Dates, NoDate
<1>7. ~KeepsBackoff(prior, forced) =>
        next >= o.date_checked /\ \E d \in Delays : next <= o.date_checked + d
  BY <1>2, <1>3, <1>4
<1>8. KeepsBackoff(prior, forced) =>
        next = prior.date_next_check /\ count = prior.consecutive_blocked_count
  OBVIOUS
<1>9. /\ s \in LinkStates
      /\ s.status = "blocked"
      /\ s.date_checked = o.date_checked
      /\ s.date_last_ok = prior.date_last_ok
      /\ s.date_failing_since = prior.date_failing_since
      /\ s.failure_count = prior.failure_count
      /\ s.consecutive_blocked_count = count
      /\ s.date_next_check = next
      /\ s.result_source = o.result_source
  <2> HIDE DEF next, count
  <2>1. s = [ Observed(o, "blocked") EXCEPT
                !.date_last_ok              = prior.date_last_ok,
                !.date_failing_since        = prior.date_failing_since,
                !.failure_count             = prior.failure_count,
                !.consecutive_blocked_count = count,
                !.date_next_check           = next ]
    BY <1>5 DEF next, count
  <2> HIDE DEF s
  <2>. QED
    BY <2>1, <1>6
       DEF Observed, Unchecked, LinkStates, Outcomes, Statuses, Forceable,
           Healthy, MaybeDate, Dates, NoDate, NoCode
<1> HIDE DEF s, next, count
<1>. QED
  BY <1>6, <1>7, <1>8, <1>9 DEF s

LEMMA Intervals ==
    /\ Delays \subseteq Nat
    /\ BrokenRecheckInterval \in Delays
    /\ \A k \in Nat \ {0} : LadderInterval(k) \in Delays
  BY LadderAssumption DEF Delays, LadderInterval, Least

LEMMA FailingTransition ==
    ASSUME NEW prior \in LinkStates, NEW o \in Outcomes
    PROVE  LET s == ToFailing(prior, o)
           IN  /\ s \in LinkStates
               /\ s.status = IF IsBroken(prior, o) THEN "broken" ELSE "failing"
               /\ s.date_checked = o.date_checked
               /\ s.date_last_ok = prior.date_last_ok
               /\ s.date_failing_since = StreakStart(prior, o)
               /\ s.failure_count = StreakCount(prior)
               /\ s.date_next_check >= o.date_checked
               /\ \E d \in Delays : s.date_next_check = o.date_checked + d
               /\ s.result_source = o.result_source
<1> DEFINE delay == IF IsBroken(prior, o) THEN BrokenRecheckInterval
                    ELSE LadderInterval(StreakCount(prior))
<1>1. StreakCount(prior) \in Nat \ {0}
  BY DEF StreakCount, LinkStates
<1>2. delay \in Delays /\ delay \in Nat
  BY <1>1, Intervals
<1>3. o.date_checked \in Nat /\ StreakStart(prior, o) \in MaybeDate
  BY DEF Outcomes, Dates, StreakStart, LinkStates, MaybeDate
<1>4. ToFailing(prior, o) =
        [ Observed(o, IF IsBroken(prior, o) THEN "broken" ELSE "failing") EXCEPT
            !.date_last_ok       = prior.date_last_ok,
            !.date_failing_since = StreakStart(prior, o),
            !.failure_count      = StreakCount(prior),
            !.date_next_check    = o.date_checked + delay ]
  BY DEF ToFailing
<1> DEFINE s == ToFailing(prior, o)
           status == IF IsBroken(prior, o) THEN "broken" ELSE "failing"
           next == o.date_checked + delay
<1>5. status \in Statuses /\ next \in Nat /\ next >= o.date_checked
  BY <1>2, <1>3 DEF Statuses, Forceable
<1> HIDE DEF delay, status
<1>6. /\ s \in LinkStates
      /\ s.status = status
      /\ s.date_checked = o.date_checked
      /\ s.date_last_ok = prior.date_last_ok
      /\ s.date_failing_since = StreakStart(prior, o)
      /\ s.failure_count = StreakCount(prior)
      /\ s.date_next_check = next
      /\ s.result_source = o.result_source
  <2> HIDE DEF next
  <2>1. s = [ Observed(o, status) EXCEPT
                !.date_last_ok       = prior.date_last_ok,
                !.date_failing_since = StreakStart(prior, o),
                !.failure_count      = StreakCount(prior),
                !.date_next_check    = next ]
    BY <1>4 DEF next, status
  <2> HIDE DEF s
  <2>. QED
    BY <2>1, <1>1, <1>3, <1>5
       DEF Observed, Unchecked, LinkStates, Outcomes, Statuses, Forceable,
           Healthy, MaybeDate, Dates, NoDate, NoCode
<1> HIDE DEF s
<1>. QED
  BY <1>2, <1>3, <1>5, <1>6 DEF s, status, next

-----------------------------------------------------------------------------
(* Whatever the transition *)

LEMMA EvaluatedRow ==
    ASSUME NEW prior \in LinkStates, NEW o \in Outcomes, NEW forced \in BOOLEAN
    PROVE  LET s == evaluate_outcome(prior, o, forced)
           IN  /\ s \in LinkStates
               /\ s.status # "unchecked"
               /\ s.date_checked = o.date_checked
<1>1. o.result \in {"success", "failure", "unsupported"}
  BY DEF Outcomes
<1>2. CASE o.result = "unsupported"
  BY <1>2, UnsupportedTransition DEF evaluate_outcome
<1>3. CASE o.result = "success"
  BY <1>3, HealthyTransition DEF evaluate_outcome, Healthy
<1>4. CASE o.result = "failure" /\ Inconclusive(o)
  BY <1>4, BlockedTransition DEF evaluate_outcome
<1>5. CASE o.result = "failure" /\ ~Inconclusive(o)
  BY <1>5, FailingTransition DEF evaluate_outcome
<1>. QED
  BY <1>1, <1>2, <1>3, <1>4, <1>5

LEMMA ContributedOutcome ==
    ASSUME NEW code \in Nat, NEW d \in Nat
    PROVE  /\ contributed_outcome(code, NoCode, d) \in Outcomes
           /\ contributed_outcome(code, NoCode, d).date_checked = d
           /\ contributed_outcome(code, NoCode, d).result_source = "contribution"
<1>1. /\ (code = BotBlockedCode) \in BOOLEAN
      /\ (code \in TransientCodes) \in BOOLEAN
      /\ (IF code \in SuccessCodes THEN "success" ELSE "failure") \in {"success", "failure"}
  OBVIOUS
<1>. QED
  BY <1>1 DEF contributed_outcome, Outcomes, Dates, NoCode

(* A row that is not due has a result that a check of now may report, or   *)
(* one that the server cannot improve.                                     *)
LEMMA NotDueIsReportable ==
    ASSUME NEW s \in LinkStates, NEW t \in Nat, ~IsDue(s, t, FALSE)
    PROVE  ~IsReportedPending(s, t) \/ s.status = "unsupported"
<1>1. s.date_checked \in Int /\ FreshnessTtl \in Int
  BY LadderAssumption DEF LinkStates, MaybeDate, NoDate
<1>. QED
  BY <1>1 DEF IsDue, IsReportedPending
=============================================================================
