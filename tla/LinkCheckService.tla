-------------------------- MODULE LinkCheckService --------------------------
(***************************************************************************)
(* Link checks as they run: the HTTP handler that accepts a submission     *)
(* (handlers/linkcheck/endpoints.py), the Kafka consumer that executes     *)
(* checks and rechecks (handlers/kafka.py), clients that contribute        *)
(* results, and the daily job (cli.py) that enqueues rechecks and purges,  *)
(* all over one PostgreSQL database.                                       *)
(*                                                                         *)
(* Each service call is one READ COMMITTED transaction.  It is modelled by *)
(* what other transactions can see of it: a Begin step that reads, and a   *)
(* Commit step that publishes its writes.  `row', `check' and `occurrence' *)
(* are the committed tables; what a transaction read is held in `tx'.      *)
(* The URL checker's HTTP traffic happens between the two steps.           *)
(***************************************************************************)
EXTENDS LinkStatusEngine, FiniteSets

CONSTANTS
    Urls,             \* canonical URLs
    UnsupportedUrls,  \* those is_supported_url refuses
    Checks,           \* link-check ids
    Workers,          \* consumers of the link-check topic
    Client,           \* the request that contributes results
    Job,              \* the linkcheck-recheck job
    NoCheck,          \* the check of a recheck message
    CheckRetention,   \* LinkCheckService check_retention
    Submissions,      \* the builds: their URLs, and whether of the default version
    Answers,          \* the outcomes a URL check may have
    ContributedCodes, \* the status codes a client may report
    MaxTime,          \* bound on the clock
    MaxOpen,          \* bound on how long a transaction stays open
    MaxTransactions,  \* bound on the transactions open at once
    MaxOffSchedule,   \* bound on contributions and jobs that force rechecks
    MaxFaults         \* bound on crashes, losses and redeliveries

Actors == Checks \cup Workers \cup {Client, Job}

ASSUME ServiceAssumption ==
    /\ UnsupportedUrls \subseteq Urls
    /\ NoCheck \notin Checks
    /\ Client # Job
    /\ Checks \cap Workers = {}
    /\ {Client, Job} \cap (Checks \cup Workers) = {}
    /\ CheckRetention \in Nat
    /\ Submissions \subseteq [urls : SUBSET Urls, isDefault : BOOLEAN]
    /\ ContributedCodes \subseteq Nat
    /\ MaxTime \in Nat /\ MaxOpen \in Nat /\ MaxTransactions \in Nat
    /\ MaxOffSchedule \in Nat /\ MaxFaults \in Nat
    /\ Answers \subseteq [ result        : {"success", "failure", "unsupported"},
                           status_code   : Nat,
                           is_bot_blocked: BOOLEAN ]

(* No transaction stays open for longer than a result counts as fresh.     *)
ASSUME PromptAssumption == MaxOpen <= FreshnessTtl

VARIABLES
    now,         \* the clock
    stored,      \* the URLs that have a checked_url row
    row,         \* their link states
    check,       \* linkcheck_check and its members
    occurrence,  \* the URLs that occur on a page of the default version
    topic,       \* messages of the link-check topic
    tx,          \* the open transaction of each actor
    offSchedule, \* contributions and forcing jobs so far
    faults,      \* faults so far
    lost         \* history: checks whose message was lost

database == <<stored, row, check, occurrence>>
bounded  == <<offSchedule, faults>>
vars     == <<now, database, topic, tx, bounded, lost>>

-----------------------------------------------------------------------------
(* Data *)

(* "absent" and "purged" are checks without a row: not yet submitted, and  *)
(* deleted after the retention period.  The completion date is left out:   *)
(* nothing reads it but the report.                                        *)
RunStatuses == {"absent", "pending", "in_progress", "complete", "purged"}

CheckRecords ==
    [ status       : RunStatuses,
      date_created : MaybeDate,
      members      : SUBSET Urls ]

NotSubmitted == [ status |-> "absent", date_created |-> NoDate, members |-> {} ]

(* CheckLinksMessageV1 names a check, RecheckUrlsMessageV1 names URL rows. *)
CheckMessage(c)          == [ check |-> c, urls |-> {}, force |-> FALSE ]
RecheckMessage(us, f)    == [ check |-> NoCheck, urls |-> us, force |-> f ]
Messages == [ check : Checks \cup {NoCheck}, urls : SUBSET Urls, force : BOOLEAN ]

(* An open transaction: when it began, the URLs it works on, the states it *)
(* read for them, and per kind                                             *)
(*   msg    the message a worker took from the topic                       *)
(*   due    the due URLs of a submission or of the job                     *)
(*   flag   submission: default version; worker: holds the check's row     *)
(*   marked the URLs a submission inserted, or the job forces or purges    *)
(*   gone   the URLs whose row a submission addressed by an id now deleted *)
Phases == {"idle", "submitting", "publishing", "locking", "checking",
           "contributing", "purging"}

Transactions ==
    [ phase  : Phases,
      at     : Dates,
      urls   : SUBSET Urls,
      prior  : [Urls -> LinkStates],
      msg    : Messages,
      due    : SUBSET Urls,
      flag   : BOOLEAN,
      marked : SUBSET Urls,
      gone   : SUBSET Urls ]

Idle == [ phase |-> "idle", at |-> 0, urls |-> {}, prior |-> [u \in Urls |-> Unchecked],
          msg |-> RecheckMessage({}, FALSE), due |-> {}, flag |-> FALSE,
          marked |-> {}, gone |-> {} ]

Supported == Urls \ UnsupportedUrls

(* A further transaction may begin. *)
MayBegin ==
    Cardinality({a \in Actors : tx[a].phase \notin {"idle", "publishing"}}) < MaxTransactions

Exists(c) == check[c].status \notin {"absent", "purged"}

(* What get_url_states returns: nothing for a row without a status.        *)
StatesOf(us) == [u \in Urls |-> IF u \in us \cap stored THEN row[u] ELSE Unchecked]

(* A result of UrlChecker.check at time d. *)
ServerOutcome(answer, d) ==
    [ date_checked         |-> d,
      result               |-> answer.result,
      status_code          |-> answer.status_code,
      redirect_status_code |-> NoCode,
      is_bot_blocked       |-> answer.is_bot_blocked,
      is_transient         |-> answer.status_code \in TransientCodes,
      result_source        |-> "server" ]

-----------------------------------------------------------------------------
Init ==
    /\ now = 0
    /\ stored = {}
    /\ row = [u \in Urls |-> Unchecked]
    /\ check = [c \in Checks |-> NotSubmitted]
    /\ occurrence = {}
    /\ topic = {}
    /\ tx = [a \in Actors |-> Idle]
    /\ offSchedule = 0
    /\ faults = 0
    /\ lost = {}

-----------------------------------------------------------------------------
(* Submission: POST /checks.  The handler's transaction (submit_check) and *)
(* then, outside it, the publication of the execution message.             *)

(* Inserting a URL waits for a transaction that has inserted it and not    *)
(* committed (ON CONFLICT DO NOTHING on the unique index).  There is one   *)
(* origin, and the builds of its default version do not overlap.           *)
SubmitBegin(c, us, isDefault) ==
    /\ MayBegin
    /\ check[c].status = "absent" /\ tx[c].phase = "idle"
    /\ \A other \in Checks : tx[other].phase = "submitting" =>
         /\ us \cap tx[other].marked = {}
         /\ ~(isDefault /\ tx[other].flag)
    /\ LET states == StatesOf(us \ UnsupportedUrls)
       IN  tx' = [tx EXCEPT ![c] =
                    [ Idle EXCEPT
                        !.phase = "submitting", !.at = now, !.urls = us,
                        !.due   = {u \in us \ UnsupportedUrls : IsDue(states[u], now, FALSE)},
                        !.flag  = isDefault,
                        !.marked = us \ stored ]]
    /\ UNCHANGED <<now, database, topic, bounded, lost>>

UnsupportedRow(d) ==
    ToUnsupported(Unchecked, ServerOutcome(
        [result |-> "unsupported", status_code |-> NoCode, is_bot_blocked |-> FALSE], d))

(* Mutant: only an execution completes a check. *)
AlwaysPending(due) == "pending"

(* Mutant: an accepted check is reported as complete. *)
AlwaysComplete(due) == "complete"

(* Only execution advances a check, and nothing is executed when no URL is *)
(* due.                                                                    *)
InitialStatus(due) == IF due = {} THEN "complete" ELSE "pending"

(* replace_origin_occurrences: only a default version replaces them. *)
Replaced(t) == IF t.flag THEN t.urls ELSE occurrence

(* The transaction commits: the rows, the check with its members, complete *)
(* at once if nothing is due, and for a default version the occurrences.   *)
SubmitCommit(c) ==
    /\ tx[c].phase = "submitting" /\ tx[c].gone = {}
    /\ LET t == tx[c]
       IN  /\ stored' = stored \cup t.urls
           /\ row' = [u \in Urls |-> IF u \in t.urls \cap UnsupportedUrls
                                     THEN UnsupportedRow(t.at) ELSE row[u]]
           /\ check' = [check EXCEPT ![c] =
                [ status       |-> InitialStatus(t.due),
                  date_created |-> t.at,
                  members      |-> t.urls ]]
           /\ occurrence' = Replaced(t)
           /\ tx' = [tx EXCEPT ![c] =
                IF t.due = {} THEN Idle ELSE [Idle EXCEPT !.phase = "publishing", !.at = now]]
    /\ UNCHANGED <<now, topic, bounded, lost>>

(* A row the submission refers to by id was deleted: its foreign key fails *)
(* and the request ends in an error with nothing written.                  *)
SubmitAbort(c) ==
    /\ tx[c].phase = "submitting" /\ tx[c].gone # {}
    /\ tx' = [tx EXCEPT ![c] = Idle]
    /\ UNCHANGED <<now, database, topic, bounded, lost>>

(* Mutant: the message is published from within the transaction. *)
MayPublishEarly(c) == tx[c].phase \in {"submitting", "publishing"}

(* The handler publishes after its transaction, and only if URLs are due.  *)
MayPublish(c) == tx[c].phase = "publishing"

SubmitPublish(c) ==
    /\ MayPublish(c)
    /\ topic' = topic \cup {CheckMessage(c)}
    /\ tx' = [tx EXCEPT ![c] = Idle]
    /\ UNCHANGED <<now, database, bounded, lost>>

(* The process dies, or the broker refuses, between commit and publish.    *)
SubmitCrash(c) ==
    /\ faults < MaxFaults
    /\ tx[c].phase = "publishing"
    /\ tx' = [tx EXCEPT ![c] = Idle]
    /\ faults' = faults + 1
    /\ lost' = lost \cup {c}
    /\ UNCHANGED <<now, database, topic, offSchedule>>

-----------------------------------------------------------------------------
(* The consumer: one transaction per message.                              *)

(* An execution request may outlive its check, or find it completed. *)
AwaitsExecution(c) == Exists(c) /\ check[c].status # "complete"

(* execute_check up to its first write: an unknown or a completed check is *)
(* skipped, otherwise the worker goes on to write in_progress.             *)
ExecuteBegin(w, m) ==
    /\ MayBegin
    /\ m \in topic /\ m.check # NoCheck /\ tx[w].phase = "idle"
    /\ topic' = topic \ {m}
    /\ tx' = IF AwaitsExecution(m.check)
             THEN [tx EXCEPT ![w] =
                     [ Idle EXCEPT !.phase = "locking", !.at = now, !.msg = m,
                                   !.urls = check[m.check].members ]]
             ELSE tx
    /\ UNCHANGED <<now, database, bounded, lost>>

HoldsCheck(w, c) == tx[w].phase = "checking" /\ tx[w].flag /\ tx[w].msg.check = c

(* The job's transaction has deleted this check and not yet committed.     *)
Expired(c, t)  == Exists(c) /\ check[c].date_created < t - CheckRetention
BeingPurged(c) == tx[Job].phase = "purging" /\ Expired(c, tx[Job].at)

(* Mutant: nothing serializes the executions of a check. *)
CheckRowIsAlwaysFree(c) == TRUE

CheckRowIsFree(c) ==
    /\ \A w \in Workers : ~HoldsCheck(w, c)
    /\ ~BeingPurged(c)

(* Writing in_progress takes the check's row: it waits for the transaction *)
(* that holds it, and finds no row if the check was purged meanwhile.      *)
(* Nobody else sees in_progress, which this transaction overwrites before  *)
(* it commits.  Only then are the clock and the members' states read.      *)
ExecuteLock(w) ==
    /\ tx[w].phase = "locking"
    /\ LET t == tx[w]
           c == t.msg.check
           members == t.urls \cap Supported
           due     == {u \in members : IsDue(StatesOf(members)[u], now, FALSE)}
       IN  /\ CheckRowIsFree(c)
           /\ tx' = [tx EXCEPT ![w] =
                [ t EXCEPT !.phase = "checking", !.at = now, !.flag = Exists(c),
                           !.urls = due, !.prior = StatesOf(due) ]]
    /\ UNCHANGED <<now, database, topic, bounded, lost>>

(* execute_recheck: unknown ids are skipped, and without force the URLs    *)
(* that are no longer due.                                                 *)
RecheckBegin(w, m) ==
    /\ MayBegin
    /\ m \in topic /\ m.check = NoCheck /\ tx[w].phase = "idle"
    /\ LET known == m.urls \cap stored \cap Supported
           due   == {u \in known : IsDue(StatesOf(known)[u], now, m.force)}
       IN  tx' = [tx EXCEPT ![w] =
                    [ Idle EXCEPT !.phase = "checking", !.at = now, !.msg = m,
                                  !.urls = due, !.prior = StatesOf(due) ]]
    /\ topic' = topic \ {m}
    /\ UNCHANGED <<now, database, bounded, lost>>

(* The outcomes of a batch: one answer per URL, at a time since the batch  *)
(* began.                                                                  *)
OutcomesOf(t) == [t.urls -> {ServerOutcome(a, d) : a \in Answers, d \in t.at..now}]

(* The rows a worker writes: each from the state it read, whatever the row *)
(* holds by now (upsert_url_state overwrites it).                          *)
Advanced(t, outcomes) ==
    [u \in Urls |-> IF u \in t.urls
                    THEN evaluate_outcome(t.prior[u], outcomes[u], t.msg.force)
                    ELSE row[u]]

(* The rest of execute_check or execute_recheck, and the commit.           *)
CheckingCommit(w) ==
    /\ tx[w].phase = "checking"
    /\ LET t == tx[w]
           c == t.msg.check
       IN  /\ \E outcomes \in OutcomesOf(t) : row' = Advanced(t, outcomes)
           /\ stored' = stored \cup t.urls
           /\ check' = IF t.flag THEN [check EXCEPT ![c].status = "complete"] ELSE check
    /\ tx' = [tx EXCEPT ![w] = Idle]
    /\ UNCHANGED <<now, occurrence, topic, bounded, lost>>

(* The worker fails or dies: its transaction is rolled back, and the       *)
(* message is gone if its offset was committed.                            *)
WorkerFails(w) ==
    /\ faults < MaxFaults
    /\ tx[w].phase \in {"locking", "checking"}
    /\ tx' = [tx EXCEPT ![w] = Idle]
    /\ faults' = faults + 1
    /\ lost' = lost \cup ({tx[w].msg.check} \cap Checks)
    /\ UNCHANGED <<now, database, topic, offSchedule>>

(* The topic hands the message to a consumer again (delivery is at least   *)
(* once), while the first still works on it.                               *)
Redeliver(w) ==
    /\ faults < MaxFaults
    /\ tx[w].phase \in {"locking", "checking"}
    /\ topic' = topic \cup {tx[w].msg}
    /\ faults' = faults + 1
    /\ UNCHANGED <<now, database, tx, offSchedule, lost>>

-----------------------------------------------------------------------------
(* Contributions: POST /checks/{id}/contributions.  The batch is a set of  *)
(* entries; the eligible ones are members open to a contribution.          *)
Eligible(c, states) ==
    {u \in check[c].members \cap Supported \cap DOMAIN states :
        accepts_contribution(states[u])}

ContributeBegin(c, us) ==
    /\ MayBegin
    /\ tx[Client].phase = "idle" /\ Exists(c)
    /\ us # {} /\ offSchedule < MaxOffSchedule
    /\ LET states == StatesOf(us)
       IN  /\ us \subseteq Eligible(c, states)
           /\ tx' = [tx EXCEPT ![Client] =
                [ Idle EXCEPT !.phase = "contributing", !.at = now, !.urls = us,
                              !.prior = states, !.msg = CheckMessage(c) ]]
    /\ offSchedule' = offSchedule + 1
    /\ UNCHANGED <<now, database, topic, faults, lost>>

(* The contribution rows refer to the check: they wait for a transaction   *)
(* that has deleted it, and fail with the whole request once it is gone.   *)
ContributeCommit ==
    /\ tx[Client].phase = "contributing"
    /\ ~BeingPurged(tx[Client].msg.check)
    /\ LET t == tx[Client]
       IN  IF Exists(t.msg.check)
           THEN /\ \E codes \in [t.urls -> ContributedCodes] :
                     row' = Advanced(t, [u \in t.urls |->
                                           contributed_outcome(codes[u], NoCode, t.at)])
                /\ stored' = stored \cup t.urls
           ELSE UNCHANGED <<row, stored>>
    /\ tx' = [tx EXCEPT ![Client] = Idle]
    /\ UNCHANGED <<now, check, occurrence, topic, bounded, lost>>

-----------------------------------------------------------------------------
(* The daily job: run_linkcheck_recheck.                                   *)

(* Still-referenced URLs that are due, and with the forcing option the     *)
(* unhealthy ones that are not.                                            *)
DueForRecheck ==
    {u \in occurrence \cap stored : IsDue(row[u], now, FALSE)}

Forced ==
    {u \in occurrence \cap stored : row[u].status \in Forceable}
        \ DueForRecheck

Retained(t) == {c \in Checks : Exists(c) /\ ~Expired(c, t)}

(* purge_orphan_urls, as the deleting statement's snapshot shows them: the *)
(* URLs on no page and in no retained check.                               *)
Orphans == stored \ (occurrence \cup UNION {check[c].members : c \in Retained(now)})

(* The job lists the URLs and deletes the expired checks, waiting for a    *)
(* worker that holds the row of one.  Then the orphans are looked up.      *)
JobBegin(forcing) ==
    /\ MayBegin
    /\ tx[Job].phase = "idle"
    /\ \A w \in Workers, c \in Checks : HoldsCheck(w, c) => ~Expired(c, now)
    /\ tx' = [tx EXCEPT ![Job] =
                [ Idle EXCEPT !.phase = "purging", !.at = now, !.due = DueForRecheck,
                              !.urls = IF forcing THEN Forced ELSE {},
                              !.marked = Orphans ]]
    /\ forcing => offSchedule < MaxOffSchedule
    /\ offSchedule' = IF forcing THEN offSchedule + 1 ELSE offSchedule
    /\ UNCHANGED <<now, database, topic, faults, lost>>

(* The deletions take effect.  Deleting a URL row takes its memberships    *)
(* and occurrences along, those inserted since the snapshot included, and  *)
(* leaves dangling the ids that open submissions and messages hold.        *)
JobCommit ==
    /\ tx[Job].phase = "purging"
    /\ LET t    == tx[Job]
           dead == t.marked \cap stored
       IN  /\ stored' = stored \ dead
           /\ row' = [u \in Urls |-> IF u \in dead THEN Unchecked ELSE row[u]]
           /\ occurrence' = occurrence \ dead
           /\ check' = [c \in Checks |->
                IF Expired(c, t.at)
                THEN [NotSubmitted EXCEPT !.status = "purged"]
                ELSE [check[c] EXCEPT !.members = @ \ dead]]
           /\ topic' = {[m EXCEPT !.urls = @ \ dead] : m \in topic}
           /\ tx' = [a \in Actors |->
                IF a = Job THEN [t EXCEPT !.phase = "publishing", !.marked = {}]
                ELSE IF tx[a].phase = "submitting"
                THEN [tx[a] EXCEPT !.gone = @ \cup ((tx[a].urls \cap dead) \ tx[a].marked)]
                ELSE [tx[a] EXCEPT !.msg.urls = @ \ dead]]
    /\ UNCHANGED <<now, bounded, lost>>

(* Mutant: only full batches, of two URLs here, are published. *)
FullBatches(t) ==
    {m \in {RecheckMessage(t.due, FALSE), RecheckMessage(t.urls, TRUE)} :
        Cardinality(m.urls) >= 2}

(* The due URLs and the forced ones, each in a batch of its own; a batch   *)
(* is never empty.                                                         *)
Batches(t) ==
    {m \in {RecheckMessage(t.due, FALSE), RecheckMessage(t.urls, TRUE)} : m.urls # {}}

JobPublish ==
    /\ tx[Job].phase = "publishing"
    /\ topic' = topic \cup Batches(tx[Job])
    /\ tx' = [tx EXCEPT ![Job] = Idle]
    /\ UNCHANGED <<now, database, bounded, lost>>

(* The job dies before its commit, or before it has published. *)
JobCrash ==
    /\ faults < MaxFaults
    /\ tx[Job].phase # "idle"
    /\ tx' = [tx EXCEPT ![Job] = Idle]
    /\ faults' = faults + 1
    /\ UNCHANGED <<now, database, topic, offSchedule, lost>>

-----------------------------------------------------------------------------
Tick ==
    /\ now < MaxTime
    /\ \A a \in Actors : tx[a].phase # "idle" => now - tx[a].at < MaxOpen
    /\ now' = now + 1
    /\ UNCHANGED <<database, topic, tx, bounded, lost>>

Submission ==
    \E c \in Checks :
        \/ \E build \in Submissions : SubmitBegin(c, build.urls, build.isDefault)
        \/ SubmitCommit(c) \/ SubmitAbort(c) \/ SubmitPublish(c) \/ SubmitCrash(c)

Consumption ==
    \E w \in Workers :
        \/ \E m \in topic : ExecuteBegin(w, m) \/ RecheckBegin(w, m)
        \/ ExecuteLock(w) \/ CheckingCommit(w) \/ WorkerFails(w) \/ Redeliver(w)

Contribution ==
    \/ \E c \in Checks : \E us \in SUBSET Urls : ContributeBegin(c, us)
    \/ ContributeCommit

DailyJob ==
    \/ \E forcing \in BOOLEAN : JobBegin(forcing)
    \/ JobCommit \/ JobPublish \/ JobCrash

Next == Submission \/ Consumption \/ Contribution \/ DailyJob \/ Tick

Spec == Init /\ [][Next]_vars

(* What the deployment provides when nothing fails for good: the database  *)
(* runs every transaction to its end and grants a row lock to the oldest   *)
(* waiter, each partition of the topic is consumed in order by one         *)
(* consumer, and the job is scheduled daily.  The requests of a batch end, *)
(* which no server is made to let them.                                    *)
Published ==
    {CheckMessage(c) : c \in Checks}
    \cup {RecheckMessage(us, f) : us \in (SUBSET Urls) \ {{}}, f \in BOOLEAN}

Fairness ==
    /\ \A c \in Checks :
         /\ WF_vars(SubmitCommit(c) \/ SubmitAbort(c))
         /\ WF_vars(SubmitPublish(c))
    /\ \A m \in Published :
         SF_vars(\E w \in Workers : ExecuteBegin(w, m) \/ RecheckBegin(w, m))
    /\ \A w \in Workers :
         /\ SF_vars(ExecuteLock(w))
         /\ WF_vars(CheckingCommit(w))
    /\ WF_vars(ContributeCommit)
    /\ SF_vars(\E forcing \in BOOLEAN : JobBegin(forcing))
    /\ WF_vars(JobCommit)
    /\ WF_vars(JobPublish)

FairSpec == Spec /\ Fairness

-----------------------------------------------------------------------------
TypeOK ==
    /\ now \in Nat /\ offSchedule \in Nat /\ faults \in Nat
    /\ stored \subseteq Urls /\ occurrence \subseteq Urls
    /\ row \in [Urls -> LinkStates]
    /\ check \in [Checks -> CheckRecords]
    /\ topic \subseteq Messages
    /\ tx \in [Actors -> Transactions]
    /\ lost \subseteq Checks

(* A check that was accepted and is not complete is on somebody's hands:   *)
(* about to be published, in the topic, or with a worker, unless a fault   *)
(* lost it.                                                                *)
Carried(c) ==
    \/ tx[c].phase = "publishing"
    \/ CheckMessage(c) \in topic
    \/ \E w \in Workers : tx[w].phase \in {"locking", "checking"} /\ tx[w].msg = CheckMessage(c)

NoCheckIsForgotten ==
    \A c \in Checks : check[c].status = "pending" => Carried(c) \/ c \in lost

(* "Enqueue execution only after the transaction commits so the consumer   *)
(* never sees a check id before its row is visible" (endpoints.py).        *)
PublishedIsVisible ==
    \A c \in Checks :
        (\/ CheckMessage(c) \in topic
         \/ \E w \in Workers : tx[w].phase = "locking" /\ tx[w].msg = CheckMessage(c))
        => check[c].status # "absent"

(* A member counts as resolved for a check once the check reports a result *)
(* for it, or its stored status says that the server cannot check it.      *)
Settled(c, u) ==
    ~IsReportedPending(row[u], check[c].date_created) \/ row[u].status = "unsupported"

(* A completed check reports a result for every member that the server can *)
(* check, and goes on doing so, whatever rechecks, contributions and other *)
(* checks do to the shared rows (execute_check, submit_check, _report_url).*)
CompleteIsSettled ==
    \A c \in Checks : check[c].status = "complete" =>
        \A u \in check[c].members : Settled(c, u)

(* The members a poll of the check reports as pending and may wait for. *)
Unresolved(c) == {u \in check[c].members : ~Settled(c, u)}

(* What a poller sees of a check keeps the promise of LinkCheckRun: the    *)
(* report of no check ever regresses, though the rows it is read from are  *)
(* shared, overwritten and purged (get_check_report, _report_url).         *)
Promised ==
    INSTANCE LinkCheckRun WITH
        run        <- [c \in Checks |-> check[c].status],
        unresolved <- [c \in Checks |-> Unresolved(c)]

KeepsPromise == Promised!Spec

(* Executions of one check never overwrite each other: while one works     *)
(* from the states it read, no other execution of the same check advances  *)
(* any of those rows, though the message be delivered twice (the write of  *)
(* in_progress in execute_check, which takes the check's row).             *)
ExecutionsDoNotOverlap ==
    [][ \A w, v \in Workers, c \in Checks :
          /\ w # v /\ HoldsCheck(w, c)
          /\ tx[v].phase = "checking" /\ tx[v].msg.check = c /\ tx'[v].phase = "idle"
          => \A u \in tx[w].urls : row'[u] = row[u] ]_vars

(* Every accepted check comes to an end: it completes, or is purged, or a  *)
(* fault lost its message (SubmitPublish, execute_check).                  *)
EveryCheckEnds ==
    \A c \in Checks :
        check[c].status = "pending" ~> (check[c].status # "pending" \/ c \in lost)

(* The job heals what faults leave behind: a URL on a page of the default  *)
(* version that is due does not stay due, though the check that should     *)
(* have resolved it was lost (run_linkcheck_recheck, execute_recheck).     *)
DueIsRechecked ==
    \A u \in Urls : u \in DueForRecheck ~> u \notin DueForRecheck

(* ---- What the documentation promises and the code does not keep ------- *)

(* "All of the check's URLs have resolved statuses" (CheckRunStatus, the   *)
(* complete member): a completed check reports no URL as pending.          *)
CompleteMeansResolved ==
    \A c \in Checks : check[c].status = "complete" =>
        \A u \in check[c].members : ~IsReportedPending(row[u], check[c].date_created)

(* "None if it has never been seen OK" (LinkState.date_last_ok): a URL     *)
(* that was seen OK is not, while its row exists, recorded as never OK.    *)
SeenOkIsRemembered ==
    [][ \A u \in stored \cap stored' :
          row[u].date_last_ok # NoDate => row'[u].date_last_ok # NoDate ]_vars

(* "URLs that are only members of retained checks are kept so active check *)
(* reports never lose members" (purge_orphan_urls).                        *)
ReportsKeepMembers ==
    [][ \A c \in Checks :
          Exists(c) /\ check'[c].status # "purged" =>
              check[c].members \subseteq check'[c].members ]_vars
=============================================================================
