-------------------------- MODULE UrlChecker_proofs --------------------------
(***************************************************************************)
(* Proofs about UrlChecker, for any batch, hosts, cap, interval, number of *)
(* redirects and delays: the pin of every request is that of its host, and *)
(* a rate limit is honoured.  Both follow from one inductive invariant.    *)
(***************************************************************************)
EXTENDS UrlChecker, FiniteSetTheorems, WellFoundedInduction, TLAPS

Safe == Init /\ [][Next]_vars

IInv == TypeOK /\ PinMatchesHost /\ HoldIsWaitedOut /\ QueueHoldsWaiters

USE CheckerAssumption

-----------------------------------------------------------------------------
(* A non-empty set of positions has a first one: strict inclusion between  *)
(* the sets of the positions up to each of them is well-founded.           *)
LEMMA FirstPosition ==
    ASSUME NEW S \in SUBSET Nat, S # {}
    PROVE  \E i \in S : \A j \in S : i <= j
<1> DEFINE Upto == {1..i : i \in S}
           Below == StrictSubsetOrdering(Nat)
<1>1. Upto \subseteq FiniteSubsetsOf(Nat) /\ Upto # {}
  <2>1. ASSUME NEW i \in S PROVE 1..i \in FiniteSubsetsOf(Nat)
    <3>1. 1..i \in SUBSET Nat
      OBVIOUS
    <3>2. IsFiniteSet(1..i)
      BY FS_Interval
    <3> QED
      BY <3>1, <3>2, Zenon DEF FiniteSubsetsOf
  <2> QED
    BY <2>1
<1>2. IsWellFoundedOn(Below, FiniteSubsetsOf(Nat))
  BY FS_StrictSubsetOrderingWellFounded
<1> HIDE DEF Upto, Below
<1>3. PICK least \in Upto : \A other \in Upto : ~ (<<other, least>> \in Below)
  BY <1>1, <1>2, WFMin
<1>4. PICK i \in S : least = 1..i
  BY <1>3 DEF Upto
<1>5. ASSUME NEW j \in S, j < i PROVE FALSE
  <2>1. 1..j \in Upto /\ 1..j \subseteq 1..i /\ i \in 1..i /\ i \notin 1..j
    BY <1>5 DEF Upto
  <2>2. <<1..j, 1..i>> \in Below
    BY <2>1 DEF Below, StrictSubsetOrdering
  <2> QED
    BY <1>3, <1>4, <2>1, <2>2
<1> QED
  BY <1>5

(* What redirect_status_code reports is a code of the chain, or none. *)
LEMMA ChainCodeTyped ==
    ASSUME NEW hops \in Seq(RedirectCodes)
    PROVE  redirect_status_code(hops) \in {NoCode} \cup RedirectCodes
<1> DEFINE temporary == {i \in DOMAIN hops : hops[i] \notin PermanentRedirectCodes}
<1>1. CASE hops = << >>
  BY <1>1 DEF redirect_status_code
<1>2. CASE hops # << >> /\ \A i \in DOMAIN hops : hops[i] \in PermanentRedirectCodes
  <2>1. 1 \in DOMAIN hops
    BY <1>2
  <2> QED
    BY <1>2, <2>1 DEF redirect_status_code
<1>3. CASE hops # << >> /\ \E i \in DOMAIN hops : hops[i] \notin PermanentRedirectCodes
  <2>1. temporary # {} /\ temporary \subseteq Nat
    BY <1>3
  <2>2. \E i \in temporary : \A j \in temporary : i <= j
    BY <2>1, FirstPosition
  <2> DEFINE first == CHOOSE i \in temporary : \A j \in temporary : i <= j
  <2>3. first \in temporary
    BY <2>2
  <2>4. redirect_status_code(hops) = hops[first]
    BY <1>3 DEF redirect_status_code
  <2> QED
    BY <2>3, <2>4
<1> QED
  BY <1>1, <1>2, <1>3

(* A finished task. *)
LEMMA DoneTyped ==
    ASSUME NEW t \in TaskStates,
           NEW result \in {"success", "failure", "unsupported"},
           NEW code \in {NoCode, 200, 404, RateLimited}
    PROVE  /\ Done(t, result, code) \in TaskStates
           /\ Done(t, result, code).phase = "done"
<1> DEFINE redirect == IF code = NoCode THEN NoCode ELSE redirect_status_code(t.hops)
           outcome  == [ result |-> result, status_code |-> code,
                         redirect_status_code |-> redirect ]
<1>1. t.hops \in Seq(RedirectCodes)
  BY DEF TaskStates
<1>2. redirect \in {NoCode} \cup RedirectCodes
  BY <1>1, ChainCodeTyped
<1>3. outcome \in Outcomes
  BY <1>2 DEF Outcomes
<1>4. Done(t, result, code) = [t EXCEPT !.phase = "done", !.outcome = outcome]
  BY DEF Done
<1> HIDE DEF outcome
<1> QED
  BY <1>3, <1>4 DEF TaskStates, Phases

(* A task that starts a fetch at the host of its URL. *)
LEMMA FetchTyped ==
    ASSUME NEW t \in TaskStates, NEW first \in Hosts, NEW method \in {"HEAD", "GET"}
    PROVE  /\ Fetch(t, first, method) \in TaskStates
           /\ Fetch(t, first, method).phase = "claiming"
           /\ Fetch(t, first, method).host = first
           /\ Fetch(t, first, method).pinned = first
<1>1. << >> \in Seq(RedirectCodes)
  OBVIOUS
<1>2. t \in [ phase : Phases, method : {"HEAD", "GET"}, retried : BOOLEAN, host : Hosts,
              pinned : Hosts, hops : Seq(RedirectCodes), wait : Nat, outcome : Outcomes ]
  BY DEF TaskStates
<1>3. "claiming" \in Phases
  BY DEF Phases
<1> QED
  BY <1>1, <1>2, <1>3 DEF Fetch, TaskStates

-----------------------------------------------------------------------------
LEMMA CheckerInit ==
    Init => IInv
<1> SUFFICES ASSUME Init PROVE IInv
  OBVIOUS
<1>1. TypeOK
  BY DEF Init, TypeOK, TaskStates, Phases, NoOutcome, Outcomes, Forever
<1>2. PinMatchesHost /\ HoldIsWaitedOut /\ QueueHoldsWaiters
  BY DEF Init, PinMatchesHost, HoldIsWaitedOut, QueueHoldsWaiters
<1> QED
  BY <1>1, <1>2 DEF IInv

(* What a step of one coroutine that leaves the queue alone has to respect *)
(* for the invariant to hold after it.                                     *)
LEMMA LocalStep ==
    ASSUME IInv, NEW k \in Tasks, NEW t \in TaskStates, NEW hold \in 0..Forever,
           task[k].phase # "queued",
           task' = [task EXCEPT ![k] = t],
           holdOff' = [holdOff EXCEPT ![k] = hold],
           t.phase \in {"claiming", "sleeping", "queued", "requesting"} => t.pinned = t.host,
           t.phase \notin {"resting", "done", "raised"} => hold = 0,
           t.phase = "resting" => hold = t.wait /\ t.wait <= RetryCap,
           UNCHANGED <<origin, queue>>,
           backlog' \in [Hosts -> Nat]
    PROVE  IInv'
<1>1. TypeOK'
  BY DEF IInv, TypeOK
<1>2. PinMatchesHost'
  BY DEF IInv, TypeOK, PinMatchesHost
<1>3. HoldIsWaitedOut'
  BY DEF IInv, TypeOK, HoldIsWaitedOut
<1>4. QueueHoldsWaiters'
  <2>1. \A i \in DOMAIN queue : queue[i] # k /\ queue[i] \in Tasks
    BY DEF IInv, TypeOK, QueueHoldsWaiters
  <2> QED
    BY <2>1 DEF IInv, TypeOK, QueueHoldsWaiters
<1> QED
  BY <1>1, <1>2, <1>3, <1>4 DEF IInv

-----------------------------------------------------------------------------
(* One lemma per action.  holdOff does not change where LocalStep is given *)
(* the value it has.                                                       *)
LEMMA GuardStep ==
    ASSUME IInv, NEW k \in Tasks, Guard(k)
    PROVE  IInv'
<1>1. /\ task[k] \in TaskStates /\ task[k].phase = "guarding" /\ task[k].host \in Hosts
      /\ holdOff[k] \in 0..Forever /\ holdOff[k] = 0
      /\ holdOff' = [holdOff EXCEPT ![k] = holdOff[k]]
      /\ backlog' \in [Hosts -> Nat] /\ UNCHANGED <<origin, queue>>
  BY DEF Guard, IInv, TypeOK, HoldIsWaitedOut, TaskStates
<1>2. CASE task' = [task EXCEPT ![k].phase = "claiming", ![k].pinned = task[k].host]
  <2> DEFINE t == [task[k] EXCEPT !.phase = "claiming", !.pinned = task[k].host]
  <2>1. /\ t \in TaskStates /\ t.phase = "claiming" /\ t.pinned = t.host
    BY <1>1 DEF TaskStates, Phases
  <2>2. task' = [task EXCEPT ![k] = t]
    BY <1>1, <1>2 DEF IInv, TypeOK
  <2> HIDE DEF t
  <2> QED
    BY <1>1, <2>1, <2>2, LocalStep
<1>3. ASSUME NEW result \in {"unsupported", "failure"},
             task' = [task EXCEPT ![k] = Done(task[k], result, NoCode)]
      PROVE  IInv'
  <2> DEFINE t == Done(task[k], result, NoCode)
  <2>1. t \in TaskStates /\ t.phase = "done"
    BY <1>1, DoneTyped
  <2>2. task' = [task EXCEPT ![k] = t]
    BY <1>3
  <2> HIDE DEF t
  <2> QED
    BY <1>1, <2>1, <2>2, LocalStep
<1> QED
  BY <1>2, <1>3 DEF Guard, Unresolved

LEMMA ClaimStep ==
    ASSUME IInv, NEW k \in Tasks, Claim(k)
    PROVE  IInv'
<1> DEFINE host == task[k].host
           t    == [task[k] EXCEPT !.phase = "sleeping", !.wait = backlog[host]]
<1>1. /\ task[k] \in TaskStates /\ task[k].phase = "claiming" /\ task[k].host \in Hosts
      /\ holdOff[k] \in 0..Forever /\ holdOff[k] = 0
      /\ holdOff' = [holdOff EXCEPT ![k] = holdOff[k]]
      /\ task[k].pinned = task[k].host /\ UNCHANGED <<origin, queue>>
  BY DEF Claim, IInv, TypeOK, HoldIsWaitedOut, PinMatchesHost, TaskStates
<1>2. /\ backlog \in [Hosts -> Nat] /\ backlog[host] \in Nat
      /\ backlog' = [backlog EXCEPT ![host] = backlog[host] + HostInterval]
  BY <1>1 DEF Claim, IInv, TypeOK
<1>3. backlog' \in [Hosts -> Nat]
  BY <1>1, <1>2
<1>4. /\ t \in TaskStates /\ t.phase = "sleeping" /\ t.pinned = t.host
  BY <1>1, <1>2 DEF TaskStates, Phases
<1>5. task' = [task EXCEPT ![k] = t]
  BY <1>1 DEF Claim, IInv, TypeOK
<1> HIDE DEF t, host
<1> QED
  BY <1>1, <1>3, <1>4, <1>5, LocalStep

(* A request comes back: the task is finished, or fetches anew, or follows *)
(* a redirect, without any wait.                                           *)
LEMMA RespondStep ==
    ASSUME IInv, NEW k \in Tasks, NEW t \in TaskStates,
           task[k].phase = "requesting",
           task' = [task EXCEPT ![k] = t],
           \/ t.phase \in {"done", "guarding"}
           \/ t.phase = "claiming" /\ t.pinned = t.host,
           UNCHANGED <<origin, queue, backlog, holdOff>>
    PROVE  IInv'
<1>1. /\ holdOff[k] \in 0..Forever /\ holdOff[k] = 0
      /\ holdOff' = [holdOff EXCEPT ![k] = holdOff[k]]
      /\ backlog' \in [Hosts -> Nat]
  BY DEF IInv, TypeOK, HoldIsWaitedOut
<1> QED
  BY <1>1, LocalStep

LEMMA RedirectedStep ==
    ASSUME IInv, NEW k \in Tasks, Redirected(k)
    PROVE  IInv'
<1>1. task[k] \in TaskStates /\ task[k].phase = "requesting"
  BY DEF IInv, TypeOK, Redirected
<1>2. UNCHANGED <<origin, queue, backlog, holdOff>>
  BY DEF Redirected
<1>3. PICK redirect \in Redirects :
        task' = [task EXCEPT ![k] =
                   IF MayFollow(task[k].hops) THEN Follow(task[k], redirect)
                   ELSE Done(task[k], "failure", NoCode)]
  BY DEF Redirected
<1> DEFINE followed == Follow(task[k], redirect)
<1>4. /\ task[k].hops \in Seq(RedirectCodes)
      /\ redirect.code \in RedirectCodes /\ redirect.target \in Hosts
  BY <1>1 DEF TaskStates, Redirects
<1>5. Append(task[k].hops, redirect.code) \in Seq(RedirectCodes)
  BY <1>4
<1>6. followed \in TaskStates /\ followed.phase = "guarding"
  BY <1>1, <1>4, <1>5 DEF Follow, TaskStates, Phases
<1>7. CASE MayFollow(task[k].hops)
  <2>1. task' = [task EXCEPT ![k] = followed]
    BY <1>3, <1>7
  <2> HIDE DEF followed
  <2> QED
    BY <1>1, <1>2, <1>6, <2>1, RespondStep
<1>8. CASE ~MayFollow(task[k].hops)
  <2> DEFINE t == Done(task[k], "failure", NoCode)
  <2>1. t \in TaskStates /\ t.phase = "done"
    BY <1>1, DoneTyped
  <2>2. task' = [task EXCEPT ![k] = t]
    BY <1>3, <1>8
  <2> HIDE DEF t
  <2> QED
    BY <1>1, <1>2, <2>1, <2>2, RespondStep
<1> QED
  BY <1>7, <1>8

(* The two ways a request that is no redirect and no rate limit ends. *)
LEMMA DoneOrFetched ==
    ASSUME IInv, NEW k \in Tasks, task[k].phase = "requesting",
           UNCHANGED <<origin, queue, backlog, holdOff>>,
           NEW result \in {"success", "failure"},
           NEW code \in {NoCode, 200, 404, RateLimited},
           \/ task' = [task EXCEPT ![k] = Done(task[k], result, code)]
           \/ task' = [task EXCEPT ![k] = Fetch(task[k], origin[k], "GET")]
    PROVE  IInv'
<1>1. task[k] \in TaskStates /\ origin[k] \in Hosts
  BY DEF IInv, TypeOK
<1> DEFINE t == Done(task[k], result, code)
           f == Fetch(task[k], origin[k], "GET")
<1>2. t \in TaskStates /\ t.phase = "done"
  BY <1>1, DoneTyped
<1>3. f \in TaskStates /\ f.phase = "claiming" /\ f.pinned = f.host
  BY <1>1, FetchTyped
<1>4. task' = [task EXCEPT ![k] = t] \/ task' = [task EXCEPT ![k] = f]
  OBVIOUS
<1> HIDE DEF t, f
<1>5. CASE task' = [task EXCEPT ![k] = t]
  BY <1>2, <1>5, RespondStep
<1>6. CASE task' = [task EXCEPT ![k] = f]
  BY <1>3, <1>6, RespondStep
<1> QED
  BY <1>4, <1>5, <1>6

LEMMA AnsweredStep ==
    ASSUME IInv, NEW k \in Tasks, Answered(k)
    PROVE  IInv'
<1>1. task[k].phase = "requesting" /\ UNCHANGED <<origin, queue, backlog, holdOff>>
  BY DEF Answered
<1>2. PICK code \in Terminals :
        task' = [task EXCEPT ![k] =
                   IF code = 200 THEN Done(task[k], "success", code)
                   ELSE IF task[k].method = "HEAD" THEN Fetch(task[k], origin[k], "GET")
                   ELSE Done(task[k], "failure", code)]
  BY DEF Answered
<1>3. code \in {NoCode, 200, 404, RateLimited}
  BY DEF Terminals
<1>4. CASE code = 200
  BY <1>1, <1>2, <1>3, <1>4, DoneOrFetched
<1>5. CASE code # 200 /\ task[k].method = "HEAD"
  BY <1>1, <1>2, <1>3, <1>5, DoneOrFetched
<1>6. CASE code # 200 /\ task[k].method # "HEAD"
  <2> DEFINE result == "failure"
  <2>1. result \in {"success", "failure"}
    OBVIOUS
  <2>2. \/ task' = [task EXCEPT ![k] = Done(task[k], result, code)]
        \/ task' = [task EXCEPT ![k] = Fetch(task[k], origin[k], "GET")]
    BY <1>2, <1>6
  <2> HIDE DEF result
  <2> QED
    BY <1>1, <1>3, <2>1, <2>2, DoneOrFetched
<1> QED
  BY <1>4, <1>5, <1>6

LEMMA FailedStep ==
    ASSUME IInv, NEW k \in Tasks, Failed(k)
    PROVE  IInv'
<1>1. task[k].phase = "requesting" /\ UNCHANGED <<origin, queue, backlog, holdOff>>
  BY DEF Failed
<1>2. \/ task' = [task EXCEPT ![k] = Done(task[k], "failure", NoCode)]
      \/ task' = [task EXCEPT ![k] = Fetch(task[k], origin[k], "GET")]
  BY DEF Failed
<1> QED
  BY <1>1, <1>2, DoneOrFetched

(* A rate limit: the task rests as long as the server asks, up to the cap, *)
(* or is finished and may never send again.                                *)
LEMMA LimitedStep ==
    ASSUME IInv, NEW k \in Tasks, Limited(k)
    PROVE  IInv'
<1>1. /\ task[k] \in TaskStates /\ task[k].phase = "requesting"
      /\ UNCHANGED <<origin, queue>> /\ backlog' \in [Hosts -> Nat]
  BY DEF IInv, TypeOK, Limited
<1>2. PICK after \in Limits :
        LET usable == MayRetry(task[k], after)
            delay  == IF usable THEN Smaller(after, RetryCap) ELSE 0
        IN  /\ task' = [task EXCEPT ![k] =
                 IF usable THEN [task[k] EXCEPT !.phase = "resting", !.wait = delay]
                 ELSE Done(task[k], "failure", RateLimited)]
            /\ holdOff' = [holdOff EXCEPT ![k] = InForce(task[k], after)]
  BY DEF Limited, FallsBackAfterLimit, Delay
<1>3. CASE MayRetry(task[k], after)
  <2> DEFINE delay == Smaller(after, RetryCap)
             t     == [task[k] EXCEPT !.phase = "resting", !.wait = delay]
  <2>1. after \in Nat
    BY <1>3 DEF MayRetry, Limits
  <2>2. delay \in Nat /\ delay <= RetryCap /\ delay \in 0..Forever
    BY <2>1 DEF Smaller, Forever
  <2>3. InForce(task[k], after) = delay
    BY <1>3 DEF MayRetry, InForce
  <2>4. task' = [task EXCEPT ![k] = t] /\ holdOff' = [holdOff EXCEPT ![k] = delay]
    BY <1>2, <1>3, <2>3
  <2> HIDE DEF delay
  <2>5. t \in TaskStates /\ t.phase = "resting" /\ t.wait = delay
    BY <1>1, <2>2 DEF TaskStates, Phases
  <2> HIDE DEF t
  <2> QED
    BY <1>1, <2>2, <2>4, <2>5, LocalStep
<1>4. CASE ~MayRetry(task[k], after)
  <2> DEFINE t == Done(task[k], "failure", RateLimited)
  <2>1. t \in TaskStates /\ t.phase = "done"
    BY <1>1, DoneTyped
  <2>2. task' = [task EXCEPT ![k] = t] /\ holdOff' = [holdOff EXCEPT ![k] = Forever]
    BY <1>2, <1>4 DEF MayRetry, InForce
  <2>3. Forever \in 0..Forever
    BY DEF Forever
  <2> HIDE DEF t
  <2> QED
    BY <1>1, <2>1, <2>2, <2>3, LocalStep
<1> QED
  BY <1>3, <1>4

(* A delay out of range: the task is over, and will not send again.        *)
LEMMA OverflowsStep ==
    ASSUME IInv, NEW k \in Tasks, Overflows(k)
    PROVE  IInv'
<1> DEFINE t == [task[k] EXCEPT !.phase = "raised"]
<1>1. /\ task[k] \in TaskStates /\ task[k].phase = "requesting"
      /\ UNCHANGED <<origin, queue>> /\ backlog' \in [Hosts -> Nat]
  BY DEF IInv, TypeOK, Overflows
<1>2. /\ task' = [task EXCEPT ![k] = t] /\ holdOff' = [holdOff EXCEPT ![k] = Forever]
      /\ Forever \in 0..Forever
  BY <1>1 DEF Overflows, IInv, TypeOK, Forever
<1>3. t \in TaskStates /\ t.phase = "raised"
  BY <1>1 DEF TaskStates, Phases
<1> HIDE DEF t
<1> QED
  BY <1>1, <1>2, <1>3, LocalStep

LEMMA RetryStep ==
    ASSUME IInv, NEW k \in Tasks, Retry(k)
    PROVE  IInv'
<1> DEFINE f == Fetch(task[k], origin[k], "HEAD")
           t == [f EXCEPT !.retried = TRUE]
<1>1. /\ task[k] \in TaskStates /\ origin[k] \in Hosts
      /\ task[k].phase = "resting"
      /\ holdOff[k] \in 0..Forever /\ holdOff[k] = 0
      /\ holdOff' = [holdOff EXCEPT ![k] = holdOff[k]]
      /\ UNCHANGED <<origin, queue>> /\ backlog' \in [Hosts -> Nat]
  BY DEF Retry, IInv, TypeOK, HoldIsWaitedOut
<1>2. f \in TaskStates /\ f.phase = "claiming" /\ f.pinned = f.host
  BY <1>1, FetchTyped
<1>3. task' = [task EXCEPT ![k] = t]
  BY DEF Retry
<1> HIDE DEF f
<1>4. t \in TaskStates /\ t.phase = "claiming" /\ t.pinned = t.host
  BY <1>2 DEF TaskStates
<1> HIDE DEF t
<1> QED
  BY <1>1, <1>3, <1>4, LocalStep

-----------------------------------------------------------------------------
(* The semaphore's queue: a sleeper joins it, its oldest waiter leaves it. *)
LEMMA EnqueueStep ==
    ASSUME IInv, NEW k \in Tasks, Enqueue(k)
    PROVE  IInv'
<1> DEFINE t == [task[k] EXCEPT !.phase = "queued"]
<1>1. /\ task[k] \in TaskStates /\ task[k].phase = "sleeping"
      /\ task[k].pinned = task[k].host
      /\ UNCHANGED <<origin, backlog, holdOff>> /\ queue' = Append(queue, k)
  BY DEF Enqueue, IInv, TypeOK, PinMatchesHost
<1>2. t \in TaskStates /\ t.phase = "queued" /\ t.pinned = t.host
  BY <1>1 DEF TaskStates, Phases
<1>3. task' = [task EXCEPT ![k] = t]
  BY <1>1 DEF Enqueue, IInv, TypeOK
<1> HIDE DEF t
<1>4. TypeOK'
  BY <1>1, <1>2, <1>3 DEF IInv, TypeOK
<1>5. PinMatchesHost' /\ HoldIsWaitedOut'
  BY <1>1, <1>2, <1>3 DEF IInv, TypeOK, PinMatchesHost, HoldIsWaitedOut
<1>6. QueueHoldsWaiters'
  <2>1. \A i \in DOMAIN queue : queue[i] # k /\ queue[i] \in Tasks
    BY <1>1 DEF IInv, TypeOK, QueueHoldsWaiters
  <2>2. \A i \in DOMAIN queue' :
          \/ i \in DOMAIN queue /\ queue'[i] = queue[i]
          \/ i = Len(queue) + 1 /\ queue'[i] = k
    BY <1>1 DEF IInv, TypeOK
  <2>3. \A i \in DOMAIN queue' : task'[queue'[i]].phase = "queued"
    BY <1>2, <1>3, <2>1, <2>2 DEF IInv, TypeOK, QueueHoldsWaiters
  <2>4. \A i, j \in DOMAIN queue' : queue'[i] = queue'[j] => i = j
    BY <2>1, <2>2 DEF IInv, QueueHoldsWaiters
  <2> QED
    BY <2>3, <2>4 DEF QueueHoldsWaiters
<1> QED
  BY <1>4, <1>5, <1>6 DEF IInv

LEMMA StartStep ==
    ASSUME IInv, NEW k \in Tasks, Start(k)
    PROVE  IInv'
<1> DEFINE t == [task[k] EXCEPT !.phase = "requesting"]
<1>1. /\ task[k] \in TaskStates /\ queue \in Seq(Tasks) /\ queue # << >>
      /\ queue[1] = k /\ queue' = Tail(queue)
      /\ UNCHANGED <<origin, backlog, holdOff>>
  BY DEF Start, IInv, TypeOK
<1>2. task[k].phase = "queued" /\ task[k].pinned = task[k].host
  BY <1>1 DEF IInv, QueueHoldsWaiters, PinMatchesHost
<1>3. t \in TaskStates /\ t.phase = "requesting" /\ t.pinned = t.host
  BY <1>1, <1>2 DEF TaskStates, Phases
<1>4. task' = [task EXCEPT ![k] = t]
  BY DEF Start, IInv, TypeOK
<1> HIDE DEF t
<1>5. TypeOK'
  BY <1>1, <1>3, <1>4 DEF IInv, TypeOK
<1>6. PinMatchesHost' /\ HoldIsWaitedOut'
  BY <1>1, <1>2, <1>3, <1>4 DEF IInv, TypeOK, PinMatchesHost, HoldIsWaitedOut
<1>7. QueueHoldsWaiters'
  <2>1. \A i \in DOMAIN queue' : i \in Nat /\ i + 1 \in DOMAIN queue /\ queue'[i] = queue[i + 1]
    BY <1>1
  <2>2. 1 \in DOMAIN queue /\ \A i \in DOMAIN queue' : i + 1 # 1
    BY <1>1
  <2>3. \A i \in DOMAIN queue' : queue'[i] # k /\ queue'[i] \in Tasks
    BY <1>1, <2>1, <2>2 DEF IInv, QueueHoldsWaiters
  <2>4. \A i \in DOMAIN queue' : task'[queue'[i]].phase = "queued"
    BY <1>4, <2>1, <2>3 DEF IInv, TypeOK, QueueHoldsWaiters
  <2>5. \A i, j \in DOMAIN queue' : queue'[i] = queue'[j] => i = j
    BY <2>1 DEF IInv, QueueHoldsWaiters
  <2> QED
    BY <2>4, <2>5 DEF QueueHoldsWaiters
<1> QED
  BY <1>5, <1>6, <1>7 DEF IInv

(* Time passes: a rate limit and the sleep for it end together.            *)
LEMMA TickStep ==
    ASSUME IInv, Tick
    PROVE  IInv'
<1>1. /\ task \in [Tasks -> TaskStates] /\ backlog \in [Hosts -> Nat]
      /\ holdOff \in [Tasks -> 0..Forever]
  BY DEF IInv, TypeOK
<1>2. UNCHANGED <<origin, queue>> /\ backlog' = [h \in Hosts |-> Elapse(backlog[h])]
  BY DEF Tick
<1>3. ASSUME NEW n \in Nat
      PROVE  Elapse(n) \in Nat /\ Elapse(n) <= n
  BY <1>3 DEF Elapse, Larger
<1>4. ASSUME NEW k \in Tasks
      PROVE  /\ task'[k] \in TaskStates
             /\ task'[k].phase = task[k].phase
             /\ task'[k].host = task[k].host /\ task'[k].pinned = task[k].pinned
             /\ task'[k].wait = Elapse(task[k].wait)
  <2>1. task'[k] = [task[k] EXCEPT !.wait = Elapse(task[k].wait)]
    BY DEF Tick
  <2>2. task[k] \in TaskStates /\ Elapse(task[k].wait) \in Nat
    BY <1>1, <1>3 DEF TaskStates
  <2> QED
    BY <2>1, <2>2 DEF TaskStates
<1>5. ASSUME NEW k \in Tasks
      PROVE  /\ holdOff[k] \in 0..Forever
             /\ holdOff'[k] = IF holdOff[k] = Forever THEN Forever ELSE Elapse(holdOff[k])
  BY <1>1 DEF Tick
<1>6. task' \in [Tasks -> TaskStates]
  BY <1>4 DEF Tick
<1>7. holdOff' \in [Tasks -> 0..Forever]
  <2>1. ASSUME NEW k \in Tasks PROVE holdOff'[k] \in 0..Forever
    BY <1>3, <1>5 DEF Forever
  <2> QED
    BY <2>1 DEF Tick
<1>8. backlog' \in [Hosts -> Nat]
  BY <1>1, <1>2, <1>3
<1>9. TypeOK'
  BY <1>2, <1>6, <1>7, <1>8 DEF IInv, TypeOK
<1>10. PinMatchesHost'
  BY <1>4 DEF IInv, PinMatchesHost
<1>11. HoldIsWaitedOut'
  <2> SUFFICES ASSUME NEW k \in Tasks
               PROVE  /\ task'[k].phase \notin {"resting", "done", "raised"} => holdOff'[k] = 0
                      /\ task'[k].phase = "resting" =>
                           holdOff'[k] = task'[k].wait /\ task'[k].wait <= RetryCap
    BY DEF HoldIsWaitedOut
  <2>1. task[k].phase \notin {"resting", "done", "raised"} => holdOff[k] = 0
    BY DEF IInv, HoldIsWaitedOut
  <2>2. task[k].phase = "resting" => holdOff[k] = task[k].wait /\ task[k].wait <= RetryCap
    BY DEF IInv, HoldIsWaitedOut
  <2>3. task[k].wait \in Nat
    BY <1>1 DEF TaskStates
  <2>4. CASE task[k].phase = "resting"
    <3>1. task[k].wait # Forever
      BY <2>2, <2>3, <2>4 DEF Forever
    <3>2. Elapse(task[k].wait) \in Nat /\ Elapse(task[k].wait) <= task[k].wait
      BY <1>3, <2>3
    <3> QED
      BY <1>4, <1>5, <2>2, <2>3, <2>4, <3>1, <3>2
  <2>5. CASE task[k].phase # "resting"
    <3>1. Elapse(0) = 0 /\ Forever # 0
      BY DEF Elapse, Larger, Forever
    <3> QED
      BY <1>4, <1>5, <2>1, <2>5, <3>1
  <2> QED
    BY <2>4, <2>5
<1>12. QueueHoldsWaiters'
  <2>1. \A i \in DOMAIN queue : queue[i] \in Tasks /\ task[queue[i]].phase = "queued"
    BY DEF IInv, TypeOK, QueueHoldsWaiters
  <2>2. \A i \in DOMAIN queue' : task'[queue'[i]].phase = "queued"
    BY <1>2, <1>4, <2>1
  <2> QED
    BY <1>2, <2>2 DEF IInv, QueueHoldsWaiters
<1> QED
  BY <1>9, <1>10, <1>11, <1>12 DEF IInv

LEMMA CheckerStep ==
    IInv /\ [Next]_vars => IInv'
<1> SUFFICES ASSUME IInv, [Next]_vars PROVE IInv'
  OBVIOUS
<1>1. ASSUME NEW k \in Tasks, Proceed(k) \/ Respond(k) PROVE IInv'
  BY <1>1, GuardStep, ClaimStep, EnqueueStep, StartStep, RedirectedStep, AnsweredStep,
     FailedStep, LimitedStep, OverflowsStep, RetryStep DEF Proceed, Respond
<1>2. CASE Tick
  BY <1>2, TickStep
<1>3. CASE UNCHANGED vars
  BY <1>3 DEF vars, IInv, TypeOK, PinMatchesHost, HoldIsWaitedOut, QueueHoldsWaiters
<1> QED
  BY <1>1, <1>2, <1>3 DEF Next, Finished

-----------------------------------------------------------------------------
(* The inductive invariant: the types, the pins, that a hold-off is slept  *)
(* out, and that the semaphore's waiters are the queued tasks.             *)
THEOREM CheckerInvariant == Spec => []IInv
<1>1. Init => IInv
  BY CheckerInit
<1>2. IInv /\ [Next]_vars => IInv'
  BY CheckerStep
<1> QED
  BY <1>1, <1>2, PTL DEF Spec

(* Every state is well typed, in particular no wait is ever negative and   *)
(* every redirect code reported is one a hop of the chain returned.        *)
THEOREM TypeCorrect == Spec => []TypeOK
<1>1. IInv => TypeOK
  BY DEF IInv
<1> QED
  BY <1>1, CheckerInvariant, PTL

(* Whatever the redirects, fallbacks and retries of any number of URLs,    *)
(* every request goes to the address validated for the host it names.      *)
THEOREM PinsAreRight == Spec => []PinMatchesHost
<1>1. IInv => PinMatchesHost
  BY DEF IInv
<1> QED
  BY <1>1, CheckerInvariant, PTL

(* After a rate limit a URL is requested again no sooner than after the    *)
(* delay the server asked for, or after the cap where that is less (a      *)
(* longer delay is not waited out), and not at all after a rate limit      *)
(* without a delay or a second one; for every cap, delay and interval and  *)
(* however long the semaphore's queue (_retry_after_delay).                *)
THEOREM RateLimitsAreHonoured == Spec => RateLimitIsHonoured
<1>1. IInv /\ [Next]_vars => [ \A k \in Tasks : Sends(k) => holdOff[k] = 0 ]_vars
  BY DEF IInv, HoldIsWaitedOut, Sends
<1> QED
  BY <1>1, CheckerInvariant, PTL DEF Spec, RateLimitIsHonoured
=============================================================================
