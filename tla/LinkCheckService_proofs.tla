------------------------ MODULE LinkCheckService_proofs ------------------------
(***************************************************************************)
(* Proofs about the link-check service, for any URLs, checks, workers,     *)
(* faults and interleavings: no accepted check is forgotten, executions of *)
(* one check exclude each other, and reports keep their promise.           *)
(*                                                                         *)
(* The argument is in two parts.  HandOver follows a check from handler to *)
(* topic to worker: whoever holds its message knows that the check was     *)
(* submitted, and whoever holds its row, that it is still there.  Settling *)
(* then says of every party that is about to complete a check which of its *)
(* members already have a result: those it will not write itself.          *)
(***************************************************************************)
EXTENDS LinkCheckService, LinkStatusEngine_proofs

-----------------------------------------------------------------------------
(* The inductive invariant: the hand-over *)

Roles ==
    /\ \A c \in Checks : tx[c].phase \in {"idle", "submitting", "publishing"}
    /\ \A w \in Workers : tx[w].phase \in {"idle", "locking", "checking"}
    /\ tx[Client].phase \in {"idle", "contributing"}
    /\ tx[Job].phase \in {"idle", "purging", "publishing"}

(* A check exists from its submission's commit on, and until it is purged. *)
RunIsSound(c) ==
    /\ check[c].status # "in_progress"
    /\ ~Exists(c) => check[c].members = {}
    /\ tx[c].phase = "submitting" => check[c].status = "absent"
    /\ tx[c].phase = "publishing" => check[c].status # "absent"

(* A message that names a check is its execution message, and says that    *)
(* the check was submitted.                                                *)
MessageIsSound(m) ==
    m.check \in Checks =>
        /\ m = CheckMessage(m.check)
        /\ check[m.check].status # "absent"

(* Who holds a check's row has a check that the job is not deleting; who   *)
(* found no row had a check that was purged.                               *)
ExecutionIsSound(w) ==
    /\ tx[w].phase \in {"locking", "checking"} => MessageIsSound(tx[w].msg)
    /\ tx[w].phase = "locking" => tx[w].msg.check \in Checks
    /\ tx[w].phase = "checking" /\ tx[w].flag =>
        /\ tx[w].msg.check \in Checks
        /\ Exists(tx[w].msg.check) /\ ~BeingPurged(tx[w].msg.check)
    /\ tx[w].phase = "checking" /\ ~tx[w].flag /\ tx[w].msg.check \in Checks =>
        check[tx[w].msg.check].status = "purged"

HoldersExclude ==
    \A c \in Checks, w, v \in Workers : HoldsCheck(w, c) /\ HoldsCheck(v, c) => w = v

HandOver ==
    /\ TypeOK
    /\ Roles
    /\ \A c \in Checks : RunIsSound(c)
    /\ \A m \in topic : MessageIsSound(m)
    /\ \A w \in Workers : ExecutionIsSound(w)
    /\ HoldersExclude
    /\ NoCheckIsForgotten

-----------------------------------------------------------------------------
(* The inductive invariant: settling *)

(* No transaction is older than MaxOpen, and no check younger than now.    *)
Timely ==
    /\ \A a \in Actors : tx[a].phase # "idle" => tx[a].at <= now /\ now <= tx[a].at + MaxOpen
    /\ \A c \in Checks : check[c].date_created <= now

(* State s holds a result for a check of date d, or none is to be had. *)
HasResult(s, d) == ~IsReportedPending(s, d) \/ s.status = "unsupported"

RefusedIsUnsupported(c) ==
    \A u \in check[c].members \cap UnsupportedUrls : row[u].status = "unsupported"

SubmissionSettles(c) ==
    tx[c].phase = "submitting" =>
        /\ tx[c].marked \ UnsupportedUrls \subseteq tx[c].due
        /\ \A u \in tx[c].urls \ (tx[c].due \cup UnsupportedUrls \cup tx[c].gone) :
                HasResult(row[u], tx[c].at)

ExecutionSettles(w) ==
    /\ tx[w].phase = "locking" /\ Exists(tx[w].msg.check) =>
        check[tx[w].msg.check].members \subseteq tx[w].urls
    /\ tx[w].phase = "checking" => tx[w].urls \subseteq Supported
    /\ tx[w].phase = "checking" /\ tx[w].flag =>
        \A u \in check[tx[w].msg.check].members \ (tx[w].urls \cup UnsupportedUrls) :
            Settled(tx[w].msg.check, u)

Settling ==
    /\ Timely
    /\ \A c \in Checks : RefusedIsUnsupported(c) /\ SubmissionSettles(c)
    /\ \A w \in Workers : ExecutionSettles(w)
    /\ tx[Client].phase = "contributing" => tx[Client].urls \subseteq Supported
    /\ CompleteIsSettled

-----------------------------------------------------------------------------
(* Types *)

LEMMA ActorsDiffer ==
    /\ Checks \subseteq Actors /\ Workers \subseteq Actors
    /\ Client \in Actors /\ Job \in Actors
    /\ \A c \in Checks : c \notin Workers /\ c # Client /\ c # Job
    /\ \A w \in Workers : w \notin Checks /\ w # Client /\ w # Job
    /\ Client # Job
BY ServiceAssumption DEF Actors

LEMMA UncheckedIsAState == Unchecked \in LinkStates
BY DEF Unchecked, LinkStates, Statuses, Forceable, MaybeDate, NoDate, NoCode

LEMMA MessageTypes ==
    /\ \A c \in Checks : CheckMessage(c) \in Messages
    /\ \A us \in SUBSET Urls, f \in BOOLEAN : RecheckMessage(us, f) \in Messages
BY DEF CheckMessage, RecheckMessage, Messages

LEMMA IdleType == Idle \in Transactions
<1>1. [u \in Urls |-> Unchecked] \in [Urls -> LinkStates]
  BY UncheckedIsAState
<1>2. RecheckMessage({}, FALSE) \in Messages
  BY MessageTypes
<1>. QED
  BY <1>1, <1>2 DEF Idle, Transactions, Phases, Dates

LEMMA StatesType ==
    ASSUME TypeOK, NEW us
    PROVE  StatesOf(us) \in [Urls -> LinkStates]
BY UncheckedIsAState DEF TypeOK, StatesOf

LEMMA ServerOutcomeType ==
    ASSUME NEW d \in Nat, NEW a, a.result \in {"success", "failure", "unsupported"},
           a.status_code \in Nat, a.is_bot_blocked \in BOOLEAN
    PROVE  /\ ServerOutcome(a, d) \in Outcomes
           /\ ServerOutcome(a, d).date_checked = d
           /\ ServerOutcome(a, d).result = a.result
<1> DEFINE transient == a.status_code \in TransientCodes
<1>1. transient \in BOOLEAN
  OBVIOUS
<1>2. ServerOutcome(a, d) =
        [ date_checked |-> d, result |-> a.result, status_code |-> a.status_code,
          redirect_status_code |-> NoCode, is_bot_blocked |-> a.is_bot_blocked,
          is_transient |-> transient, result_source |-> "server" ]
  BY DEF ServerOutcome
<1> HIDE DEF transient
<1>. QED
  BY <1>1, <1>2 DEF Outcomes, Dates, NoCode

LEMMA UnsupportedRowIs ==
    ASSUME NEW d \in Nat
    PROVE  UnsupportedRow(d) \in LinkStates /\ UnsupportedRow(d).status = "unsupported"
<1> DEFINE a == [result |-> "unsupported", status_code |-> NoCode, is_bot_blocked |-> FALSE]
<1>1. a.result = "unsupported" /\ a.status_code \in Nat /\ a.is_bot_blocked \in BOOLEAN
  BY DEF NoCode
<1>2. UnsupportedRow(d) = ToUnsupported(Unchecked, ServerOutcome(a, d))
  BY DEF UnsupportedRow
<1> HIDE DEF a
<1>3. ServerOutcome(a, d) \in Outcomes
  BY <1>1, ServerOutcomeType
<1>. QED
  BY <1>2, <1>3, UncheckedIsAState, UnsupportedTransition

(* What a worker or a contribution writes: typed, with a result, and of    *)
(* the date of the outcome.                                                *)
LEMMA AdvancedIs ==
    ASSUME TypeOK, NEW t \in Transactions, NEW outcomes \in [t.urls -> Outcomes]
    PROVE  /\ Advanced(t, outcomes) \in [Urls -> LinkStates]
           /\ \A u \in Urls : u \notin t.urls => Advanced(t, outcomes)[u] = row[u]
           /\ \A u \in t.urls :
                /\ Advanced(t, outcomes)[u].status # "unchecked"
                /\ Advanced(t, outcomes)[u].date_checked = outcomes[u].date_checked
<1>1. t.urls \subseteq Urls /\ t.prior \in [Urls -> LinkStates] /\ t.msg.force \in BOOLEAN
  BY DEF Transactions, Messages
<1>2. ASSUME NEW u \in t.urls
      PROVE  LET s == evaluate_outcome(t.prior[u], outcomes[u], t.msg.force)
             IN  /\ s \in LinkStates
                 /\ s.status # "unchecked"
                 /\ s.date_checked = outcomes[u].date_checked
  BY <1>1, EvaluatedRow
<1>. QED
  BY <1>1, <1>2 DEF Advanced, TypeOK

(* One transaction moves on. *)
LEMMA OneMoves ==
    ASSUME TypeOK, NEW a \in Actors, NEW t \in Transactions, tx' = [tx EXCEPT ![a] = t]
    PROVE  /\ tx' \in [Actors -> Transactions]
           /\ tx'[a] = t
           /\ \A b \in Actors : b # a => tx'[b] = tx[b]
BY DEF TypeOK

-----------------------------------------------------------------------------
(* The hand-over: steps of others than workers, that leave checks alone *)

LEMMA QuietStep ==
    ASSUME HandOver, TypeOK', Roles', check' = check,
           \A w \in Workers : tx'[w] = tx[w],
           \A c \in Checks : RunIsSound(c)',
           topic \subseteq topic', \A m \in topic' : m \in topic \/ MessageIsSound(m),
           lost \subseteq lost',
           \A c \in Checks, w \in Workers : HoldsCheck(w, c) /\ BeingPurged(c)' => BeingPurged(c),
           \A c \in Checks : tx[c].phase = "publishing" =>
                tx'[c].phase = "publishing" \/ CheckMessage(c) \in topic' \/ c \in lost'
    PROVE  HandOver'
<1>1. \A m : MessageIsSound(m)' <=> MessageIsSound(m)
  BY DEF MessageIsSound
<1>2. \A m \in topic' : MessageIsSound(m)'
  BY <1>1 DEF HandOver
<1>3. ASSUME NEW w \in Workers PROVE ExecutionIsSound(w)'
  <2>1. ExecutionIsSound(w) /\ tx'[w] = tx[w]
    BY DEF HandOver
  <2>2. \A c : Exists(c)' <=> Exists(c)
    BY DEF Exists
  <2>3. tx[w].phase = "checking" /\ tx[w].flag => ~BeingPurged(tx[w].msg.check)'
    BY <2>1 DEF ExecutionIsSound, HoldsCheck
  <2>. QED
    BY <1>1, <2>1, <2>2, <2>3 DEF ExecutionIsSound
<1>4. HoldersExclude'
  BY DEF HandOver, HoldersExclude, HoldsCheck
<1>5. NoCheckIsForgotten'
  <2> SUFFICES ASSUME NEW c \in Checks, check'[c].status = "pending"
               PROVE  Carried(c)' \/ c \in lost'
    BY DEF NoCheckIsForgotten
  <2>1. Carried(c) \/ c \in lost
    BY DEF HandOver, NoCheckIsForgotten
  <2>2. CASE c \in lost
    BY <2>2
  <2>3. CASE tx[c].phase = "publishing"
    BY <2>3 DEF Carried
  <2>4. CASE CheckMessage(c) \in topic
    <3>1. CheckMessage(c)' = CheckMessage(c)
      BY DEF CheckMessage
    <3>. QED
      BY <2>4, <3>1 DEF Carried
  <2>5. CASE \E w \in Workers : tx[w].phase \in {"locking", "checking"} /\ tx[w].msg = CheckMessage(c)
    BY <2>5 DEF Carried, CheckMessage
  <2>. QED
    BY <2>1, <2>2, <2>3, <2>4, <2>5 DEF Carried
<1>. QED
  BY <1>2, <1>3, <1>4, <1>5 DEF HandOver

LEMMA ActorStep ==
    ASSUME HandOver, NEW a \in Actors \ Workers, NEW t \in Transactions,
           tx' = [tx EXCEPT ![a] = t], check' = check, TypeOK',
           a \in Checks =>
                /\ t.phase \in {"idle", "submitting", "publishing"}
                /\ t.phase = "submitting" => check[a].status = "absent"
                /\ t.phase = "publishing" => check[a].status # "absent"
                /\ tx[a].phase = "publishing" =>
                    t.phase = "publishing" \/ CheckMessage(a) \in topic' \/ a \in lost',
           a = Client => t.phase \in {"idle", "contributing"},
           a = Job =>
                /\ t.phase \in {"idle", "purging", "publishing"}
                /\ t.phase = "purging" =>
                    \A c \in Checks, w \in Workers : HoldsCheck(w, c) => ~Expired(c, t.at),
           topic \subseteq topic', \A m \in topic' : m \in topic \/ MessageIsSound(m),
           lost \subseteq lost'
    PROVE  HandOver'
<1>1. TypeOK /\ Roles
  BY DEF HandOver
<1>2. tx'[a] = t /\ \A b \in Actors : b # a => tx'[b] = tx[b]
  BY <1>1, OneMoves
<1>3. Roles'
  BY <1>1, <1>2, ActorsDiffer DEF Roles
<1>4. ASSUME NEW c \in Checks PROVE RunIsSound(c)'
  BY <1>2, ActorsDiffer DEF HandOver, RunIsSound, Exists
<1>5. ASSUME NEW c \in Checks, NEW w \in Workers, HoldsCheck(w, c), BeingPurged(c)'
      PROVE  BeingPurged(c)
  BY <1>2, <1>5, ActorsDiffer DEF BeingPurged, Expired, Exists
<1>6. \A w \in Workers : tx'[w] = tx[w]
  BY <1>2, ActorsDiffer
<1>7. ASSUME NEW c \in Checks, tx[c].phase = "publishing"
      PROVE  tx'[c].phase = "publishing" \/ CheckMessage(c) \in topic' \/ c \in lost'
  BY <1>2, <1>7, ActorsDiffer
<1>. QED
  BY <1>3, <1>4, <1>5, <1>6, <1>7, QuietStep

LEMMA SubmitBeginHandsOver ==
    ASSUME HandOver, NEW c \in Checks, NEW us \in SUBSET Urls, NEW d \in BOOLEAN,
           SubmitBegin(c, us, d)
    PROVE  HandOver'
<1> DEFINE due == {u \in us \ UnsupportedUrls : IsDue(StatesOf(us \ UnsupportedUrls)[u], now, FALSE)}
           t == [ Idle EXCEPT !.phase = "submitting", !.at = now, !.urls = us, !.due = due,
                              !.flag = d, !.marked = us \ stored ]
<1>1. TypeOK
  BY DEF HandOver
<1>2. tx' = [tx EXCEPT ![c] = t]
  BY DEF SubmitBegin
<1>3. t \in Transactions /\ t.phase = "submitting"
  <2>1. due \subseteq Urls /\ us \subseteq Urls /\ us \ stored \subseteq Urls /\ now \in Nat
    BY <1>1 DEF TypeOK
  <2> HIDE DEF due
  <2>. QED
    BY <2>1, IdleType DEF Transactions, Phases, Dates
<1> HIDE DEF t
<1>4. TypeOK'
  BY <1>1, <1>2, <1>3, OneMoves, ActorsDiffer DEF TypeOK, SubmitBegin, database, bounded
<1>5. /\ UNCHANGED <<check, topic, lost>>
      /\ check[c].status = "absent" /\ tx[c].phase = "idle"
  BY DEF SubmitBegin, database
<1>. QED
  BY <1>2, <1>3, <1>4, <1>5, ActorStep, ActorsDiffer

LEMMA SubmitAbortHandsOver ==
    ASSUME HandOver, NEW c \in Checks, SubmitAbort(c)
    PROVE  HandOver'
<1>1. TypeOK
  BY DEF HandOver
<1>2. tx' = [tx EXCEPT ![c] = Idle] /\ Idle.phase = "idle" /\ Idle \in Transactions
  BY IdleType DEF SubmitAbort, Idle
<1>3. TypeOK'
  BY <1>1, <1>2, OneMoves, ActorsDiffer DEF TypeOK, SubmitAbort, database, bounded
<1>4. UNCHANGED <<check, topic, lost>> /\ tx[c].phase = "submitting"
  BY DEF SubmitAbort, database
<1>. QED
  BY <1>2, <1>3, <1>4, ActorStep, ActorsDiffer

LEMMA SubmitPublishHandsOver ==
    ASSUME HandOver, NEW c \in Checks, SubmitPublish(c)
    PROVE  HandOver'
<1>1. TypeOK
  BY DEF HandOver
<1>2. tx' = [tx EXCEPT ![c] = Idle] /\ Idle.phase = "idle" /\ Idle \in Transactions
  BY IdleType DEF SubmitPublish, Idle
<1>3. TypeOK'
  BY <1>1, <1>2, OneMoves, MessageTypes, ActorsDiffer
     DEF TypeOK, SubmitPublish, database, bounded
<1>4. UNCHANGED <<check, lost>> /\ topic' = topic \cup {CheckMessage(c)}
  BY DEF SubmitPublish, database
<1>5. MessageIsSound(CheckMessage(c))
  BY DEF SubmitPublish, MayPublish, HandOver, RunIsSound, MessageIsSound, CheckMessage
<1>. QED
  BY <1>2, <1>3, <1>4, <1>5, ActorStep, ActorsDiffer

LEMMA SubmitCrashHandsOver ==
    ASSUME HandOver, NEW c \in Checks, SubmitCrash(c)
    PROVE  HandOver'
<1>1. TypeOK
  BY DEF HandOver
<1>2. tx' = [tx EXCEPT ![c] = Idle] /\ Idle.phase = "idle" /\ Idle \in Transactions
  BY IdleType DEF SubmitCrash, Idle
<1>3. TypeOK'
  BY <1>1, <1>2, OneMoves, ActorsDiffer DEF TypeOK, SubmitCrash, database
<1>4. UNCHANGED <<check, topic>> /\ lost' = lost \cup {c}
  BY DEF SubmitCrash, database
<1>. QED
  BY <1>2, <1>3, <1>4, ActorStep, ActorsDiffer

LEMMA ContributeBeginHandsOver ==
    ASSUME HandOver, NEW c \in Checks, NEW us \in SUBSET Urls, ContributeBegin(c, us)
    PROVE  HandOver'
<1> DEFINE t == [ Idle EXCEPT !.phase = "contributing", !.at = now, !.urls = us,
                              !.prior = StatesOf(us), !.msg = CheckMessage(c) ]
<1>1. TypeOK
  BY DEF HandOver
<1>2. tx' = [tx EXCEPT ![Client] = t]
  BY DEF ContributeBegin
<1>3. t \in Transactions /\ t.phase = "contributing"
  <2>1. StatesOf(us) \in [Urls -> LinkStates] /\ now \in Nat /\ CheckMessage(c) \in Messages
    BY <1>1, StatesType, MessageTypes DEF TypeOK
  <2>. QED
    BY <2>1, IdleType DEF Transactions, Phases, Dates
<1> HIDE DEF t
<1>4. TypeOK'
  BY <1>1, <1>2, <1>3, OneMoves, ActorsDiffer DEF TypeOK, ContributeBegin, database
<1>5. UNCHANGED <<check, topic, lost>>
  BY DEF ContributeBegin, database
<1>. QED
  BY <1>2, <1>3, <1>4, <1>5, ActorStep, ActorsDiffer

(* The rows a contribution writes. *)
LEMMA ContributedRows ==
    ASSUME TypeOK, ContributeCommit
    PROVE  /\ row' \in [Urls -> LinkStates]
           /\ \A u \in Urls :
                \/ row'[u] = row[u]
                \/ /\ u \in tx[Client].urls
                   /\ row'[u].status # "unchecked"
                   /\ row'[u].date_checked = tx[Client].at
<1> DEFINE t == tx[Client]
<1>1. t \in Transactions
  BY ActorsDiffer DEF TypeOK
<1>2. CASE Exists(t.msg.check)
  <2>1. PICK codes \in [t.urls -> ContributedCodes] :
          row' = Advanced(t, [u \in t.urls |-> contributed_outcome(codes[u], NoCode, t.at)])
    BY <1>2 DEF ContributeCommit
  <2> DEFINE outcomes == [u \in t.urls |-> contributed_outcome(codes[u], NoCode, t.at)]
  <2>2. \A u \in t.urls : codes[u] \in Nat /\ t.at \in Nat
    BY <1>1, ServiceAssumption DEF Transactions, Dates
  <2>3. outcomes \in [t.urls -> Outcomes] /\ \A u \in t.urls : outcomes[u].date_checked = t.at
    BY <2>2, ContributedOutcome
  <2>4. row' = Advanced(t, outcomes)
    BY <2>1
  <2> HIDE DEF outcomes, t
  <2>. QED
    BY <1>1, <2>3, <2>4, AdvancedIs DEF t
<1>3. CASE ~Exists(t.msg.check)
  BY <1>3 DEF ContributeCommit, TypeOK
<1>. QED
  BY <1>2, <1>3

LEMMA ContributeCommitHandsOver ==
    ASSUME HandOver, ContributeCommit
    PROVE  HandOver'
<1>1. TypeOK
  BY DEF HandOver
<1>2. tx' = [tx EXCEPT ![Client] = Idle] /\ Idle.phase = "idle" /\ Idle \in Transactions
  BY IdleType DEF ContributeCommit, Idle
<1>3. TypeOK'
  <2>1. stored' \subseteq Urls
    BY <1>1, ActorsDiffer DEF TypeOK, ContributeCommit, Transactions
  <2>. QED
    BY <1>1, <1>2, <2>1, ContributedRows, OneMoves, ActorsDiffer
       DEF TypeOK, ContributeCommit, bounded
<1>4. UNCHANGED <<check, topic, lost>>
  BY DEF ContributeCommit
<1>. QED
  BY <1>2, <1>3, <1>4, ActorStep, ActorsDiffer

LEMMA JobBeginHandsOver ==
    ASSUME HandOver, NEW forcing \in BOOLEAN, JobBegin(forcing)
    PROVE  HandOver'
<1> DEFINE t == [ Idle EXCEPT !.phase = "purging", !.at = now, !.due = DueForRecheck,
                              !.urls = IF forcing THEN Forced ELSE {}, !.marked = Orphans ]
<1>1. TypeOK
  BY DEF HandOver
<1>2. tx' = [tx EXCEPT ![Job] = t]
  BY DEF JobBegin
<1>3. t \in Transactions /\ t.phase = "purging" /\ t.at = now
  <2>1. /\ DueForRecheck \subseteq Urls /\ (IF forcing THEN Forced ELSE {}) \subseteq Urls
        /\ Orphans \subseteq Urls /\ now \in Nat
    BY <1>1 DEF TypeOK, DueForRecheck, Forced, Orphans
  <2>. QED
    BY <2>1, IdleType DEF Transactions, Phases, Dates
<1> HIDE DEF t
<1>4. TypeOK'
  BY <1>1, <1>2, <1>3, OneMoves, ActorsDiffer DEF TypeOK, JobBegin, database
<1>5. /\ UNCHANGED <<check, topic, lost>>
      /\ \A w \in Workers, c \in Checks : HoldsCheck(w, c) => ~Expired(c, now)
  BY DEF JobBegin, database
<1>. QED
  BY <1>2, <1>3, <1>4, <1>5, ActorStep, ActorsDiffer

LEMMA JobPublishHandsOver ==
    ASSUME HandOver, JobPublish
    PROVE  HandOver'
<1>1. TypeOK
  BY DEF HandOver
<1>2. tx' = [tx EXCEPT ![Job] = Idle] /\ Idle.phase = "idle" /\ Idle \in Transactions
  BY IdleType DEF JobPublish, Idle
<1>3. \A m \in Batches(tx[Job]) : m \in Messages /\ m.check = NoCheck
  <2>1. tx[Job].due \in SUBSET Urls /\ tx[Job].urls \in SUBSET Urls
    BY <1>1, ActorsDiffer DEF TypeOK, Transactions
  <2>2. /\ RecheckMessage(tx[Job].due, FALSE) \in Messages
        /\ RecheckMessage(tx[Job].urls, TRUE) \in Messages
    BY <2>1, MessageTypes
  <2>3. /\ RecheckMessage(tx[Job].due, FALSE).check = NoCheck
        /\ RecheckMessage(tx[Job].urls, TRUE).check = NoCheck
    BY DEF RecheckMessage
  <2>. QED
    BY <2>2, <2>3 DEF Batches
<1>4. TypeOK'
  BY <1>1, <1>2, <1>3, OneMoves, ActorsDiffer DEF TypeOK, JobPublish, database, bounded
<1>5. UNCHANGED <<check, lost>> /\ topic' = topic \cup Batches(tx[Job])
  BY DEF JobPublish, database
<1>6. \A m \in Batches(tx[Job]) : MessageIsSound(m)
  BY <1>3, ServiceAssumption DEF MessageIsSound
<1>. QED
  BY <1>2, <1>4, <1>5, <1>6, ActorStep, ActorsDiffer

LEMMA JobCrashHandsOver ==
    ASSUME HandOver, JobCrash
    PROVE  HandOver'
<1>1. TypeOK
  BY DEF HandOver
<1>2. tx' = [tx EXCEPT ![Job] = Idle] /\ Idle.phase = "idle" /\ Idle \in Transactions
  BY IdleType DEF JobCrash, Idle
<1>3. TypeOK'
  BY <1>1, <1>2, OneMoves, ActorsDiffer DEF TypeOK, JobCrash, database
<1>4. UNCHANGED <<check, topic, lost>>
  BY DEF JobCrash, database
<1>. QED
  BY <1>2, <1>3, <1>4, ActorStep, ActorsDiffer

LEMMA TickHandsOver ==
    ASSUME HandOver, Tick
    PROVE  HandOver'
<1>1. UNCHANGED <<check, topic, tx, lost>> /\ TypeOK'
  BY DEF Tick, database, bounded, HandOver, TypeOK
<1>2. Roles'
  BY <1>1 DEF HandOver, Roles
<1>3. \A c \in Checks : RunIsSound(c)' /\ (BeingPurged(c)' <=> BeingPurged(c))
  BY <1>1 DEF HandOver, RunIsSound, Exists, BeingPurged, Expired
<1>. QED
  BY <1>1, <1>2, <1>3, QuietStep

-----------------------------------------------------------------------------
(* The hand-over: steps of workers *)

Executing(w) == tx[w].phase \in {"locking", "checking"}

LEMMA WorkerStep ==
    ASSUME HandOver, NEW w \in Workers, NEW t \in Transactions,
           tx' = [tx EXCEPT ![w] = t], check' = check, TypeOK',
           t.phase \in {"idle", "locking", "checking"},
           t.phase # "idle" => MessageIsSound(t.msg),
           t.phase = "locking" => t.msg.check \in Checks,
           t.phase = "checking" /\ t.flag =>
                /\ t.msg.check \in Checks /\ Exists(t.msg.check)
                /\ ~BeingPurged(t.msg.check)
                /\ \A v \in Workers \ {w} : ~HoldsCheck(v, t.msg.check),
           t.phase = "checking" /\ ~t.flag /\ t.msg.check \in Checks =>
                check[t.msg.check].status = "purged",
           \A m \in topic' : m \in topic \/ MessageIsSound(m),
           lost \subseteq lost',
           \A c \in Checks :
                /\ check[c].status = "pending"
                /\ CheckMessage(c) \in topic \/ (Executing(w) /\ tx[w].msg = CheckMessage(c))
                => \/ CheckMessage(c) \in topic'
                   \/ t.phase # "idle" /\ t.msg = CheckMessage(c)
                   \/ c \in lost'
    PROVE  HandOver'
<1>1. TypeOK /\ Roles
  BY DEF HandOver
<1>2. tx'[w] = t /\ \A b \in Actors : b # w => tx'[b] = tx[b]
  BY <1>1, OneMoves, ActorsDiffer
<1>3. Roles'
  BY <1>1, <1>2, ActorsDiffer DEF Roles
<1>4. \A c \in Checks : RunIsSound(c)'
  BY <1>2, ActorsDiffer DEF HandOver, RunIsSound, Exists
<1>5. /\ \A m : MessageIsSound(m)' <=> MessageIsSound(m)
      /\ \A c : Exists(c)' <=> Exists(c)
      /\ \A c : BeingPurged(c)' <=> BeingPurged(c)
  BY <1>2, ActorsDiffer DEF MessageIsSound, Exists, BeingPurged, Expired
<1>6. \A m \in topic' : MessageIsSound(m)'
  BY <1>5 DEF HandOver
<1>7. ASSUME NEW v \in Workers PROVE ExecutionIsSound(v)'
  <2>1. CASE v = w
    BY <1>2, <1>5, <2>1 DEF ExecutionIsSound
  <2>2. CASE v # w
    <3>1. tx'[v] = tx[v] /\ ExecutionIsSound(v)
      BY <1>2, <2>2, ActorsDiffer DEF HandOver
    <3>. QED
      BY <1>5, <3>1 DEF ExecutionIsSound
  <2>. QED
    BY <2>1, <2>2
<1>8. HoldersExclude'
  BY <1>2, ActorsDiffer DEF HandOver, HoldersExclude, HoldsCheck
<1>9. NoCheckIsForgotten'
  <2> SUFFICES ASSUME NEW c \in Checks, check[c].status = "pending"
               PROVE  Carried(c)' \/ c \in lost'
    BY DEF NoCheckIsForgotten
  <2>1. Carried(c) \/ c \in lost
    BY DEF HandOver, NoCheckIsForgotten
  <2>2. CASE c \in lost
    BY <2>2
  <2>3. CASE tx[c].phase = "publishing"
    BY <1>2, <2>3, ActorsDiffer DEF Carried
  <2>4. CASE CheckMessage(c) \in topic \/ (Executing(w) /\ tx[w].msg = CheckMessage(c))
    BY <1>2, <2>4 DEF Carried, CheckMessage
  <2>5. CASE \E v \in Workers \ {w} : Executing(v) /\ tx[v].msg = CheckMessage(c)
    <3>1. PICK v \in Workers \ {w} : Executing(v) /\ tx[v].msg = CheckMessage(c)
      BY <2>5
    <3>2. tx'[v] = tx[v]
      BY <1>2, ActorsDiffer
    <3>. QED
      BY <3>1, <3>2 DEF Carried, CheckMessage, Executing
  <2>. QED
    BY <2>1, <2>2, <2>3, <2>4, <2>5 DEF Carried, Executing
<1>. QED
  BY <1>3, <1>4, <1>6, <1>7, <1>8, <1>9 DEF HandOver

LEMMA ExecuteBeginHandsOver ==
    ASSUME HandOver, NEW w \in Workers, NEW m \in topic, ExecuteBegin(w, m)
    PROVE  HandOver'
<1>1. /\ TypeOK /\ MessageIsSound(m)
      /\ m \in Messages /\ m.check \in Checks /\ m = CheckMessage(m.check)
      /\ tx[w].phase = "idle"
  BY DEF HandOver, MessageIsSound, ExecuteBegin, TypeOK, Messages
<1>2. UNCHANGED <<now, stored, row, check, occurrence, bounded, lost>> /\ topic' = topic \ {m}
  BY DEF ExecuteBegin, database
<1>3. CASE ~AwaitsExecution(m.check)
  <2>1. tx' = tx
    BY <1>3 DEF ExecuteBegin
  <2>2. tx' = [tx EXCEPT ![w] = tx[w]] /\ tx[w] \in Transactions
    BY <1>1, <2>1, ActorsDiffer DEF TypeOK
  <2>3. TypeOK'
    BY <1>1, <1>2, <2>1 DEF TypeOK, bounded
  <2>4. check[m.check].status # "pending"
    BY <1>3 DEF AwaitsExecution, Exists
  <2>5. ASSUME NEW c \in Checks, check[c].status = "pending", CheckMessage(c) \in topic
        PROVE  CheckMessage(c) \in topic'
    BY <1>1, <1>2, <2>4, <2>5 DEF CheckMessage
  <2>. QED
    BY <1>1, <1>2, <2>2, <2>3, <2>5, WorkerStep DEF Executing
<1>4. CASE AwaitsExecution(m.check)
  <2> DEFINE t == [ Idle EXCEPT !.phase = "locking", !.at = now, !.msg = m,
                                !.urls = check[m.check].members ]
  <2>1. tx' = [tx EXCEPT ![w] = t]
    BY <1>4 DEF ExecuteBegin
  <2>2. t \in Transactions /\ t.phase = "locking" /\ t.msg = m
    <3>1. check[m.check].members \subseteq Urls /\ now \in Nat
      BY <1>1 DEF TypeOK, CheckRecords
    <3>. QED
      BY <1>1, <3>1, IdleType DEF Transactions, Phases, Dates
  <2> HIDE DEF t
  <2>3. TypeOK'
    BY <1>1, <1>2, <2>1, <2>2, OneMoves, ActorsDiffer DEF TypeOK, bounded
  <2>4. ASSUME NEW c \in Checks, CheckMessage(c) \in topic
        PROVE  CheckMessage(c) \in topic' \/ t.msg = CheckMessage(c)
    BY <1>2, <2>2, <2>4
  <2>. QED
    BY <1>1, <1>2, <2>1, <2>2, <2>3, <2>4, WorkerStep DEF Executing
<1>. QED
  BY <1>3, <1>4

(* What a worker reads. *)
LEMMA ReadUrls ==
    ASSUME TypeOK, NEW us
    PROVE  StatesOf(us) \in [Urls -> LinkStates] /\ now \in Nat
BY StatesType DEF TypeOK

LEMMA RecheckBeginHandsOver ==
    ASSUME HandOver, NEW w \in Workers, NEW m \in topic, RecheckBegin(w, m)
    PROVE  HandOver'
<1> DEFINE known == m.urls \cap stored \cap Supported
           due == {u \in known : IsDue(StatesOf(known)[u], now, m.force)}
           t == [ Idle EXCEPT !.phase = "checking", !.at = now, !.msg = m,
                              !.urls = due, !.prior = StatesOf(due) ]
<1>1. TypeOK /\ m \in Messages /\ m.check = NoCheck /\ tx[w].phase = "idle"
  BY DEF HandOver, RecheckBegin, TypeOK
<1>2. tx' = [tx EXCEPT ![w] = t]
  BY DEF RecheckBegin
<1>3. t \in Transactions /\ t.phase = "checking" /\ t.msg = m /\ ~t.flag
  <2>1. due \subseteq Urls /\ StatesOf(due) \in [Urls -> LinkStates] /\ now \in Nat
    BY <1>1, ReadUrls DEF Supported
  <2> HIDE DEF due
  <2>2. Idle.flag = FALSE
    BY DEF Idle
  <2>. QED
    BY <1>1, <2>1, <2>2, IdleType DEF Transactions, Phases, Dates
<1> HIDE DEF t
<1>4. UNCHANGED <<now, stored, row, check, occurrence, bounded, lost>> /\ topic' = topic \ {m}
  BY DEF RecheckBegin, database
<1>5. TypeOK'
  BY <1>1, <1>2, <1>3, <1>4, OneMoves, ActorsDiffer DEF TypeOK, bounded
<1>6. NoCheck \notin Checks
  BY ServiceAssumption
<1>7. ASSUME NEW c \in Checks, CheckMessage(c) \in topic
      PROVE  CheckMessage(c) \in topic'
  BY <1>1, <1>4, <1>6, <1>7 DEF CheckMessage
<1>. QED
  BY <1>1, <1>2, <1>3, <1>4, <1>5, <1>6, <1>7, WorkerStep DEF Executing, MessageIsSound

LEMMA ExecuteLockHandsOver ==
    ASSUME HandOver, NEW w \in Workers, ExecuteLock(w)
    PROVE  HandOver'
<1> DEFINE c == tx[w].msg.check
           members == tx[w].urls \cap Supported
           due == {u \in members : IsDue(StatesOf(members)[u], now, FALSE)}
           t == [ tx[w] EXCEPT !.phase = "checking", !.at = now, !.flag = Exists(c),
                               !.urls = due, !.prior = StatesOf(due) ]
<1>1. /\ TypeOK /\ tx[w] \in Transactions /\ tx[w].phase = "locking"
      /\ c \in Checks /\ MessageIsSound(tx[w].msg) /\ check[c].status # "absent"
  BY ActorsDiffer DEF HandOver, TypeOK, ExecuteLock, ExecutionIsSound, MessageIsSound
<1>2. tx' = [tx EXCEPT ![w] = t] /\ CheckRowIsFree(c)
  BY DEF ExecuteLock
<1>3. /\ t \in Transactions /\ t.phase = "checking" /\ t.msg = tx[w].msg
      /\ t.flag <=> Exists(c)
  <2>1. due \subseteq Urls /\ StatesOf(due) \in [Urls -> LinkStates] /\ now \in Nat
    BY <1>1, ReadUrls DEF Supported
  <2>2. Exists(c) \in BOOLEAN
    BY DEF Exists
  <2> HIDE DEF due
  <2>. QED
    BY <1>1, <2>1, <2>2 DEF Transactions, Phases, Dates
<1> HIDE DEF t
<1>4. UNCHANGED <<now, stored, row, check, occurrence, topic, bounded, lost>>
  BY DEF ExecuteLock, database
<1>5. TypeOK'
  BY <1>1, <1>2, <1>3, <1>4, OneMoves, ActorsDiffer DEF TypeOK, bounded
<1>. QED
  BY <1>1, <1>2, <1>3, <1>4, <1>5, WorkerStep DEF CheckRowIsFree, Exists

LEMMA WorkerFailsHandsOver ==
    ASSUME HandOver, NEW w \in Workers, WorkerFails(w)
    PROVE  HandOver'
<1>1. TypeOK /\ Idle \in Transactions /\ Idle.phase = "idle"
  BY IdleType DEF HandOver, Idle
<1>2. /\ tx' = [tx EXCEPT ![w] = Idle]
      /\ UNCHANGED <<now, stored, row, check, occurrence, topic, offSchedule>>
      /\ lost' = lost \cup ({tx[w].msg.check} \cap Checks)
  BY DEF WorkerFails, database
<1>3. TypeOK'
  BY <1>1, <1>2, OneMoves, ActorsDiffer DEF TypeOK, WorkerFails
<1>4. ASSUME NEW c \in Checks, tx[w].msg = CheckMessage(c)
      PROVE  c \in lost'
  BY <1>2, <1>4 DEF CheckMessage
<1>. QED
  BY <1>1, <1>2, <1>3, <1>4, WorkerStep

LEMMA RedeliverHandsOver ==
    ASSUME HandOver, NEW w \in Workers, Redeliver(w)
    PROVE  HandOver'
<1>1. /\ TypeOK /\ tx[w] \in Transactions /\ ExecutionIsSound(w)
      /\ tx[w].phase \in {"locking", "checking"}
  BY ActorsDiffer DEF HandOver, TypeOK, Redeliver
<1>2. /\ UNCHANGED <<now, stored, row, check, occurrence, tx, offSchedule, lost>>
      /\ topic' = topic \cup {tx[w].msg}
  BY DEF Redeliver, database
<1>3. TypeOK'
  BY <1>1, <1>2 DEF TypeOK, Redeliver, Transactions
<1>4. Roles' /\ \A c \in Checks : RunIsSound(c)' /\ (BeingPurged(c)' <=> BeingPurged(c))
  BY <1>2 DEF HandOver, Roles, RunIsSound, Exists, BeingPurged, Expired
<1>5. MessageIsSound(tx[w].msg)
  BY <1>1 DEF ExecutionIsSound
<1>. QED
  BY <1>2, <1>3, <1>4, <1>5, QuietStep

LEMMA SubmitCommitHandsOver ==
    ASSUME HandOver, NEW c \in Checks, SubmitCommit(c)
    PROVE  HandOver'
<1> DEFINE t == tx[c]
           s == IF t.due = {} THEN Idle ELSE [Idle EXCEPT !.phase = "publishing", !.at = now]
           r == [ status       |-> InitialStatus(t.due),
                  date_created |-> t.at,
                  members      |-> t.urls ]
<1>1. /\ TypeOK /\ Roles /\ t \in Transactions /\ t.phase = "submitting"
      /\ check[c].status = "absent"
  BY ActorsDiffer DEF HandOver, TypeOK, SubmitCommit, RunIsSound
<1>2. /\ tx' = [tx EXCEPT ![c] = s]
      /\ check' = [check EXCEPT ![c] = r]
      /\ stored' = stored \cup t.urls
      /\ row' = [u \in Urls |-> IF u \in t.urls \cap UnsupportedUrls
                                THEN UnsupportedRow(t.at) ELSE row[u]]
      /\ occurrence' = Replaced(t)
      /\ UNCHANGED <<now, topic, offSchedule, faults, lost>>
  BY DEF SubmitCommit, bounded
<1>3. /\ s \in Transactions /\ s.phase \in {"idle", "publishing"}
      /\ t.due # {} => s.phase = "publishing"
  BY <1>1, IdleType DEF Transactions, Phases, Dates, TypeOK, Idle
<1>4. r \in CheckRecords /\ r.status \in {"pending", "complete"} /\ (r.status = "pending" => t.due # {})
  BY <1>1 DEF CheckRecords, InitialStatus, RunStatuses, Transactions, Dates, MaybeDate
<1> HIDE DEF s, r
<1>5. TypeOK'
  <2>1. row' \in [Urls -> LinkStates]
    <3>1. t.at \in Nat
      BY <1>1 DEF Transactions, Dates
    <3>2. UnsupportedRow(t.at) \in LinkStates
      BY <3>1, UnsupportedRowIs
    <3>. QED
      BY <1>1, <1>2, <3>2 DEF TypeOK
  <2>2. occurrence' \subseteq Urls /\ stored' \subseteq Urls
    BY <1>1, <1>2 DEF TypeOK, Replaced, Transactions
  <2>3. check' \in [Checks -> CheckRecords]
    BY <1>1, <1>2, <1>4 DEF TypeOK
  <2>. QED
    BY <1>1, <1>2, <1>3, <2>1, <2>2, <2>3, OneMoves, ActorsDiffer DEF TypeOK
<1>6. /\ tx'[c] = s /\ \A b \in Actors : b # c => tx'[b] = tx[b]
      /\ check'[c] = r /\ \A d \in Checks : d # c => check'[d] = check[d]
  BY <1>1, <1>2, <1>3, OneMoves, ActorsDiffer DEF TypeOK
<1>7. Roles'
  BY <1>1, <1>3, <1>6, ActorsDiffer DEF Roles
<1>8. ASSUME NEW d \in Checks PROVE RunIsSound(d)'
  <2>1. RunIsSound(d)
    BY DEF HandOver
  <2>2. CASE d = c
    BY <1>3, <1>4, <1>6, <2>2 DEF RunIsSound, Exists
  <2>3. CASE d # c
    BY <1>6, <2>1, <2>3, ActorsDiffer DEF RunIsSound, Exists
  <2>. QED
    BY <2>2, <2>3
<1>9. ASSUME NEW m, MessageIsSound(m) PROVE MessageIsSound(m)'
  BY <1>4, <1>6, <1>9 DEF MessageIsSound, CheckMessage
<1>10. ASSUME NEW w \in Workers PROVE ExecutionIsSound(w)'
  <2>1. ExecutionIsSound(w) /\ tx'[w] = tx[w] /\ tx'[Job] = tx[Job]
    BY <1>6, ActorsDiffer DEF HandOver
  <2>2. ASSUME NEW d \in Checks, Exists(d)
        PROVE  check'[d] = check[d] /\ Exists(d)' /\ (BeingPurged(d)' <=> BeingPurged(d))
    BY <1>1, <1>6, <2>1, <2>2 DEF Exists, BeingPurged, Expired
  <2>3. ASSUME NEW d \in Checks, check[d].status = "purged"
        PROVE  check'[d].status = "purged"
    BY <1>1, <1>6, <2>3
  <2>. QED
    BY <1>9, <2>1, <2>2, <2>3 DEF ExecutionIsSound
<1>11. HoldersExclude'
  BY <1>6, ActorsDiffer DEF HandOver, HoldersExclude, HoldsCheck
<1>12. NoCheckIsForgotten'
  <2> SUFFICES ASSUME NEW d \in Checks, check'[d].status = "pending"
               PROVE  Carried(d)' \/ d \in lost'
    BY DEF NoCheckIsForgotten
  <2>1. CASE d = c
    BY <1>3, <1>4, <1>6, <2>1 DEF Carried
  <2>2. CASE d # c
    <3>1. Carried(d) \/ d \in lost
      BY <1>6, <2>2 DEF HandOver, NoCheckIsForgotten
    <3>. QED
      BY <1>2, <1>6, <2>2, <3>1, ActorsDiffer DEF Carried, CheckMessage
  <2>. QED
    BY <2>1, <2>2
<1>. QED
  BY <1>2, <1>5, <1>7, <1>8, <1>9, <1>10, <1>11, <1>12 DEF HandOver

(* The rows an execution writes. *)
LEMMA CheckedRows ==
    ASSUME TypeOK, NEW w \in Workers, CheckingCommit(w)
    PROVE  /\ row' \in [Urls -> LinkStates]
           /\ \A u \in Urls : u \notin tx[w].urls => row'[u] = row[u]
           /\ \A u \in tx[w].urls :
                /\ row'[u].status # "unchecked"
                /\ row'[u].date_checked \in tx[w].at..now
<1> DEFINE t == tx[w]
<1>1. t \in Transactions /\ now \in Nat
  BY ActorsDiffer DEF TypeOK
<1>2. PICK outcomes \in OutcomesOf(t) : row' = Advanced(t, outcomes)
  BY DEF CheckingCommit
<1>3. ASSUME NEW u \in t.urls
      PROVE  outcomes[u] \in Outcomes /\ outcomes[u].date_checked \in t.at..now
  <2>1. PICK a \in Answers, d \in t.at..now : outcomes[u] = ServerOutcome(a, d)
    BY <1>2, <1>3 DEF OutcomesOf
  <2>2. d \in Nat
    BY <1>1, <2>1 DEF Transactions, Dates
  <2>3. /\ a.result \in {"success", "failure", "unsupported"}
        /\ a.status_code \in Nat /\ a.is_bot_blocked \in BOOLEAN
    BY <2>1, ServiceAssumption
  <2>. QED
    BY <2>1, <2>2, <2>3, ServerOutcomeType
<1>4. outcomes \in [t.urls -> Outcomes]
  BY <1>2, <1>3 DEF OutcomesOf
<1> HIDE DEF t
<1>. QED
  BY <1>1, <1>2, <1>3, <1>4, AdvancedIs DEF t

LEMMA CheckingCommitHandsOver ==
    ASSUME HandOver, NEW w \in Workers, CheckingCommit(w)
    PROVE  HandOver'
<1> DEFINE c == tx[w].msg.check
<1>1. /\ TypeOK /\ Roles /\ tx[w] \in Transactions /\ ExecutionIsSound(w)
      /\ tx[w].phase = "checking" /\ tx[w].flag \in BOOLEAN
      /\ Idle \in Transactions /\ Idle.phase = "idle"
  BY ActorsDiffer, IdleType DEF HandOver, TypeOK, CheckingCommit, Transactions, Idle
<1>2. /\ tx' = [tx EXCEPT ![w] = Idle]
      /\ check' = IF tx[w].flag THEN [check EXCEPT ![c].status = "complete"] ELSE check
      /\ stored' = stored \cup tx[w].urls
      /\ UNCHANGED <<now, topic, occurrence, offSchedule, faults, lost>>
  BY DEF CheckingCommit, bounded
<1>3. tx[w].flag => c \in Checks /\ Exists(c) /\ ~BeingPurged(c)
  BY <1>1 DEF ExecutionIsSound
<1>4. /\ tx'[w] = Idle /\ \A b \in Actors : b # w => tx'[b] = tx[b]
      /\ tx'[Job] = tx[Job]
  BY <1>1, <1>2, OneMoves, ActorsDiffer
<1>5. ASSUME NEW d \in Checks
      PROVE  /\ check'[d] \in CheckRecords
             /\ check'[d].members = check[d].members
             /\ check'[d].date_created = check[d].date_created
             /\ check'[d].status = check[d].status \/ (tx[w].flag /\ d = c)
             /\ tx[w].flag /\ d = c => check'[d].status = "complete" /\ Exists(d)
  <2>1. check[d] \in CheckRecords
    BY <1>1 DEF TypeOK
  <2>2. CASE tx[w].flag /\ d = c
    <3>1. check'[d] = [check[d] EXCEPT !.status = "complete"]
      BY <1>1, <1>2, <1>3, <2>2 DEF TypeOK
    <3>. QED
      BY <1>3, <2>1, <2>2, <3>1 DEF CheckRecords, RunStatuses
  <2>3. CASE ~(tx[w].flag /\ d = c)
    <3>1. check'[d] = check[d]
      BY <1>1, <1>2, <1>3, <2>3 DEF TypeOK
    <3>. QED
      BY <2>1, <2>3, <3>1 DEF CheckRecords
  <2>. QED
    BY <2>2, <2>3
<1>6. ASSUME NEW d \in Checks
      PROVE  /\ check'[d].members = check[d].members
             /\ check'[d].date_created = check[d].date_created
             /\ Exists(d)' <=> Exists(d)
             /\ check[d].status = "absent" <=> check'[d].status = "absent"
             /\ check[d].status = "purged" <=> check'[d].status = "purged"
             /\ BeingPurged(d)' <=> BeingPurged(d)
  <2>1. /\ check'[d].members = check[d].members
        /\ check'[d].date_created = check[d].date_created
    BY <1>5
  <2>2. /\ Exists(d)' <=> Exists(d)
        /\ check[d].status = "absent" <=> check'[d].status = "absent"
        /\ check[d].status = "purged" <=> check'[d].status = "purged"
    BY <1>5 DEF Exists
  <2>. QED
    BY <1>2, <1>4, <2>1, <2>2 DEF BeingPurged, Expired
<1>7. TypeOK'
  <2>1. check' \in [Checks -> CheckRecords]
    <3>1. check' = [d \in Checks |-> check'[d]]
      BY <1>1, <1>2, <1>3 DEF TypeOK
    <3>. QED
      BY <1>5, <3>1
  <2>2. stored' \subseteq Urls
    BY <1>1, <1>2 DEF TypeOK, Transactions
  <2>3. row' \in [Urls -> LinkStates]
    BY <1>1, CheckedRows
  <2>. QED
    BY <1>1, <1>2, <2>1, <2>2, <2>3, OneMoves, ActorsDiffer DEF TypeOK
<1>8. Roles'
  BY <1>1, <1>4, ActorsDiffer DEF Roles
<1>9. ASSUME NEW d \in Checks PROVE RunIsSound(d)'
  <2>1. RunIsSound(d) /\ tx'[d] = tx[d]
    BY <1>4, ActorsDiffer DEF HandOver
  <2>2. check'[d].status # "in_progress"
    BY <1>5, <2>1 DEF RunIsSound
  <2>. QED
    BY <1>6, <2>1, <2>2 DEF RunIsSound
<1>10. ASSUME NEW m, MessageIsSound(m) PROVE MessageIsSound(m)'
  BY <1>6, <1>10 DEF MessageIsSound, CheckMessage
<1>11. ASSUME NEW v \in Workers PROVE ExecutionIsSound(v)'
  <2>1. CASE v = w
    BY <1>1, <1>4, <2>1 DEF ExecutionIsSound
  <2>2. CASE v # w
    <3>1. ExecutionIsSound(v) /\ tx'[v] = tx[v]
      BY <1>4, <2>2, ActorsDiffer DEF HandOver
    <3>. QED
      BY <1>6, <1>10, <3>1 DEF ExecutionIsSound
  <2>. QED
    BY <2>1, <2>2
<1>12. HoldersExclude'
  BY <1>1, <1>4, ActorsDiffer DEF HandOver, HoldersExclude, HoldsCheck
<1>13. NoCheckIsForgotten'
  <2> SUFFICES ASSUME NEW d \in Checks, check'[d].status = "pending"
               PROVE  Carried(d)' \/ d \in lost'
    BY DEF NoCheckIsForgotten
  <2>1. check[d].status = "pending" /\ ~(tx[w].flag /\ d = c)
    BY <1>5
  <2>2. tx[w].msg # CheckMessage(d)
    <3>1. tx[w].msg = CheckMessage(d) => c = d
      BY DEF CheckMessage
    <3>2. ~tx[w].flag /\ c = d => check[d].status = "purged"
      BY <1>1 DEF ExecutionIsSound
    <3>. QED
      BY <1>1, <2>1, <3>1, <3>2
  <2>3. Carried(d) \/ d \in lost
    BY <2>1 DEF HandOver, NoCheckIsForgotten
  <2>. QED
    BY <1>2, <1>4, <2>2, <2>3, ActorsDiffer DEF Carried, CheckMessage
<1>. QED
  BY <1>2, <1>7, <1>8, <1>9, <1>10, <1>11, <1>12, <1>13 DEF HandOver

(* What the job's commit leaves of a message. *)
Trim(m, dead) == [m EXCEPT !.urls = @ \ dead]

LEMMA Trimmed ==
    ASSUME NEW m \in Messages, NEW dead
    PROVE  /\ Trim(m, dead) \in Messages
           /\ Trim(m, dead).check = m.check
           /\ \A c \in Checks : m = CheckMessage(c) => Trim(m, dead) = CheckMessage(c)
<1>1. /\ Trim(m, dead) \in Messages
      /\ Trim(m, dead).check = m.check
      /\ Trim(m, dead).urls = m.urls \ dead
      /\ Trim(m, dead).force = m.force
  BY DEF Messages, Trim
<1>2. ASSUME NEW c \in Checks, m = CheckMessage(c)
      PROVE  Trim(m, dead) = CheckMessage(c)
  <2>1. Trim(m, dead).urls = {}
    BY <1>1, <1>2 DEF CheckMessage
  <2>2. /\ Trim(m, dead).check = c
        /\ Trim(m, dead).force = FALSE
    BY <1>1, <1>2 DEF CheckMessage
  <2>. QED
    BY <1>1, <2>1, <2>2 DEF CheckMessage, Messages
<1>. QED
  BY <1>1, <1>2

(* The URLs the job deletes. *)
Dead == tx[Job].marked \cap stored

LEMMA JobCommitMoves ==
    ASSUME TypeOK, Roles, JobCommit
    PROVE  /\ tx' \in [Actors -> Transactions]
           /\ tx'[Job].phase = "publishing" /\ tx'[Job].at = tx[Job].at
           /\ \A c \in Checks :
                /\ tx'[c].phase = tx[c].phase /\ tx'[c].at = tx[c].at
                /\ tx'[c].urls = tx[c].urls /\ tx'[c].marked = tx[c].marked
                /\ tx'[c].due = tx[c].due
                /\ tx[c].phase = "submitting" =>
                    tx'[c].gone = tx[c].gone \cup ((tx[c].urls \cap Dead) \ tx[c].marked)
           /\ \A a \in Workers \cup {Client} :
                /\ tx'[a].phase = tx[a].phase /\ tx'[a].at = tx[a].at
                /\ tx'[a].urls = tx[a].urls /\ tx'[a].flag = tx[a].flag
                /\ tx'[a].msg = Trim(tx[a].msg, Dead)
<1> DEFINE dead == tx[Job].marked \cap stored
<1>1. tx' = [a \in Actors |->
                IF a = Job THEN [tx[Job] EXCEPT !.phase = "publishing", !.marked = {}]
                ELSE IF tx[a].phase = "submitting"
                THEN [tx[a] EXCEPT !.gone = @ \cup ((tx[a].urls \cap dead) \ tx[a].marked)]
                ELSE [tx[a] EXCEPT !.msg.urls = @ \ dead]]
  BY DEF JobCommit
<1>2. \A a \in Actors : tx[a] \in Transactions
  BY DEF TypeOK
<1>3. dead = Dead
  BY DEF Dead
<1> HIDE DEF dead
<1>4. /\ tx'[Job] = [tx[Job] EXCEPT !.phase = "publishing", !.marked = {}]
      /\ tx'[Job] \in Transactions
      /\ tx'[Job].phase = "publishing" /\ tx'[Job].at = tx[Job].at
  BY <1>1, <1>2, ActorsDiffer DEF Transactions, Phases
<1>5. ASSUME NEW a \in Actors, a # Job, tx[a].phase = "submitting"
      PROVE  /\ tx'[a] \in Transactions
             /\ tx'[a].phase = tx[a].phase /\ tx'[a].at = tx[a].at
             /\ tx'[a].urls = tx[a].urls /\ tx'[a].marked = tx[a].marked
             /\ tx'[a].due = tx[a].due
             /\ tx'[a].gone = tx[a].gone \cup ((tx[a].urls \cap dead) \ tx[a].marked)
  BY <1>1, <1>2, <1>5 DEF Transactions
<1>6. ASSUME NEW a \in Actors, a # Job, tx[a].phase # "submitting"
      PROVE  /\ tx'[a] \in Transactions
             /\ tx'[a].phase = tx[a].phase /\ tx'[a].at = tx[a].at
             /\ tx'[a].urls = tx[a].urls /\ tx'[a].marked = tx[a].marked
             /\ tx'[a].due = tx[a].due /\ tx'[a].flag = tx[a].flag
             /\ tx'[a].msg = Trim(tx[a].msg, dead)
  <2>1. tx[a].msg \in Messages
    BY <1>2 DEF Transactions
  <2>2. Trim(tx[a].msg, dead) \in Messages
    BY <2>1, Trimmed
  <2>3. tx'[a] = [tx[a] EXCEPT !.msg = Trim(tx[a].msg, dead)]
    BY <1>1, <1>2, <1>6, <2>1 DEF Transactions, Messages, Trim
  <2>. QED
    BY <1>2, <2>2, <2>3 DEF Transactions
<1>7. \A a \in Workers \cup {Client} : tx[a].phase # "submitting"
  BY DEF Roles
<1>8. tx' \in [Actors -> Transactions]
  <2>1. \A a \in Actors : tx'[a] \in Transactions
    BY <1>4, <1>5, <1>6
  <2>2. tx' = [a \in Actors |-> tx'[a]]
    BY <1>1
  <2>. QED
    BY <2>1, <2>2
<1>9. \A c \in Checks :
        /\ tx'[c].phase = tx[c].phase /\ tx'[c].at = tx[c].at
        /\ tx'[c].urls = tx[c].urls /\ tx'[c].marked = tx[c].marked
        /\ tx'[c].due = tx[c].due
        /\ tx[c].phase = "submitting" =>
            tx'[c].gone = tx[c].gone \cup ((tx[c].urls \cap Dead) \ tx[c].marked)
  BY <1>3, <1>5, <1>6, ActorsDiffer
<1>10. \A a \in Workers \cup {Client} :
        /\ tx'[a].phase = tx[a].phase /\ tx'[a].at = tx[a].at
        /\ tx'[a].urls = tx[a].urls /\ tx'[a].flag = tx[a].flag
        /\ tx'[a].msg = Trim(tx[a].msg, Dead)
  BY <1>3, <1>6, <1>7, ActorsDiffer
<1>. QED
  BY <1>4, <1>8, <1>9, <1>10

LEMMA JobCommitPurges ==
    ASSUME TypeOK, JobCommit
    PROVE  /\ check' \in [Checks -> CheckRecords]
           /\ row' \in [Urls -> LinkStates]
           /\ stored' = stored \ Dead /\ occurrence' = occurrence \ Dead
           /\ \A u \in Urls : row'[u] = IF u \in Dead THEN Unchecked ELSE row[u]
           /\ \A c \in Checks :
                IF BeingPurged(c)
                THEN check'[c] = [NotSubmitted EXCEPT !.status = "purged"]
                ELSE /\ check'[c].status = check[c].status
                     /\ check'[c].date_created = check[c].date_created
                     /\ check'[c].members = check[c].members \ Dead
<1> DEFINE dead == tx[Job].marked \cap stored
           purged == [NotSubmitted EXCEPT !.status = "purged"]
<1>1. /\ check' = [c \in Checks |-> IF Expired(c, tx[Job].at) THEN purged
                                    ELSE [check[c] EXCEPT !.members = @ \ dead]]
      /\ row' = [u \in Urls |-> IF u \in dead THEN Unchecked ELSE row[u]]
      /\ stored' = stored \ dead /\ occurrence' = occurrence \ dead
      /\ tx[Job].phase = "purging"
  BY DEF JobCommit
<1>2. dead = Dead
  BY DEF Dead
<1>3. purged \in CheckRecords
  BY DEF NotSubmitted, CheckRecords, RunStatuses, MaybeDate, NoDate
<1> HIDE DEF dead, purged
<1>4. ASSUME NEW c \in Checks
      PROVE  /\ check'[c] \in CheckRecords
             /\ IF BeingPurged(c)
                THEN check'[c] = purged
                ELSE /\ check'[c].status = check[c].status
                     /\ check'[c].date_created = check[c].date_created
                     /\ check'[c].members = check[c].members \ dead
  <2>1. check[c] \in CheckRecords
    BY DEF TypeOK
  <2>2. BeingPurged(c) <=> Expired(c, tx[Job].at)
    BY <1>1 DEF BeingPurged
  <2>. QED
    BY <1>1, <1>3, <2>1, <2>2 DEF CheckRecords
<1>5. check' \in [Checks -> CheckRecords]
  <2>1. check' = [c \in Checks |-> check'[c]]
    BY <1>1
  <2>. QED
    BY <1>4, <2>1
<1>6. row' \in [Urls -> LinkStates]
  BY <1>1, UncheckedIsAState DEF TypeOK
<1>7. \A u \in Urls : row'[u] = IF u \in dead THEN Unchecked ELSE row[u]
  BY <1>1
<1>. QED
  BY <1>1, <1>2, <1>4, <1>5, <1>6, <1>7 DEF purged

LEMMA JobCommitHandsOver ==
    ASSUME HandOver, JobCommit
    PROVE  HandOver'
<1>1. TypeOK /\ Roles
  BY DEF HandOver
<1>2. /\ UNCHANGED <<now, offSchedule, faults, lost>>
      /\ topic' = {Trim(m, Dead) : m \in topic}
  BY DEF JobCommit, bounded, Dead, Trim
<1>3. TypeOK'
  <2>1. topic' \subseteq Messages
    BY <1>1, <1>2, Trimmed DEF TypeOK
  <2>2. tx' \in [Actors -> Transactions]
    BY <1>1, JobCommitMoves
  <2>3. stored' \subseteq Urls /\ occurrence' \subseteq Urls
    BY <1>1, JobCommitPurges DEF TypeOK
  <2>4. row' \in [Urls -> LinkStates] /\ check' \in [Checks -> CheckRecords]
    BY <1>1, JobCommitPurges
  <2>. QED
    BY <1>1, <1>2, <2>1, <2>2, <2>3, <2>4 DEF TypeOK
<1>4. Roles'
  BY <1>1, JobCommitMoves, ActorsDiffer DEF Roles
<1>5. ASSUME NEW c \in Checks
      PROVE  /\ check[c].status = "absent" <=> check'[c].status = "absent"
             /\ check[c].status = "purged" => check'[c].status = "purged"
             /\ check'[c].status \in {check[c].status, "purged"}
             /\ ~BeingPurged(c)'
             /\ Exists(c) /\ ~BeingPurged(c) => Exists(c)'
  <2>1. \/ check'[c] = [NotSubmitted EXCEPT !.status = "purged"] /\ BeingPurged(c)
        \/ check'[c].status = check[c].status
    BY <1>1, JobCommitPurges
  <2>2. [NotSubmitted EXCEPT !.status = "purged"].status = "purged"
    BY DEF NotSubmitted
  <2>3. BeingPurged(c) => check[c].status \notin {"absent", "purged"}
    BY DEF BeingPurged, Expired, Exists
  <2>4. ~BeingPurged(c)'
    BY <1>1, JobCommitMoves DEF BeingPurged
  <2>5. ~BeingPurged(c) => check'[c].status = check[c].status
    BY <1>1, JobCommitPurges
  <2>. QED
    BY <2>1, <2>2, <2>3, <2>4, <2>5 DEF Exists
<1>6. ASSUME NEW c \in Checks PROVE RunIsSound(c)'
  <2>1. RunIsSound(c)
    BY DEF HandOver
  <2>2. CASE BeingPurged(c)
    <3>1. check'[c] = [NotSubmitted EXCEPT !.status = "purged"] /\ check[c].status # "absent"
      BY <1>1, <2>2, JobCommitPurges DEF BeingPurged, Expired, Exists
    <3>. QED
      BY <1>1, <2>1, <3>1, JobCommitMoves DEF RunIsSound, NotSubmitted, Exists
  <2>3. CASE ~BeingPurged(c)
    <3>1. check'[c].status = check[c].status /\ check'[c].members = check[c].members \ Dead
      BY <1>1, <2>3, JobCommitPurges
    <3>. QED
      BY <1>1, <2>1, <3>1, JobCommitMoves DEF RunIsSound, Exists
  <2>. QED
    BY <2>2, <2>3
<1>7. ASSUME NEW m \in Messages, MessageIsSound(m), NEW n, n = Trim(m, Dead)
      PROVE  MessageIsSound(n)'
  <2>1. n.check = m.check /\ \A c \in Checks : m = CheckMessage(c) => n = CheckMessage(c)
    BY <1>7, Trimmed
  <2>2. n.check \in Checks => n = CheckMessage(n.check) /\ check'[n.check].status # "absent"
    BY <1>5, <1>7, <2>1 DEF MessageIsSound
  <2>. QED
    BY <2>2 DEF MessageIsSound, CheckMessage
<1>8. ASSUME NEW n \in topic' PROVE MessageIsSound(n)'
  <2>1. PICK m \in topic : n = Trim(m, Dead)
    BY <1>2
  <2>2. m \in Messages /\ MessageIsSound(m)
    BY <1>1 DEF HandOver, TypeOK
  <2>. QED
    BY <1>7, <2>1, <2>2
<1>9. ASSUME NEW w \in Workers PROVE ExecutionIsSound(w)'
  <2>1. /\ ExecutionIsSound(w)
        /\ tx'[w].phase = tx[w].phase /\ tx'[w].flag = tx[w].flag
        /\ tx'[w].msg = Trim(tx[w].msg, Dead)
        /\ tx[w].msg \in Messages
    BY <1>1, JobCommitMoves, ActorsDiffer DEF HandOver, TypeOK, Transactions
  <2>2. tx'[w].msg.check = tx[w].msg.check
    BY <2>1, Trimmed
  <2>3. ASSUME NEW n, n = Trim(tx[w].msg, Dead), tx[w].phase \in {"locking", "checking"}
        PROVE  MessageIsSound(n)'
    BY <1>7, <2>1, <2>3 DEF ExecutionIsSound
  <2>4. (tx[w].phase \in {"locking", "checking"} => MessageIsSound(tx[w].msg))'
    BY <2>1, <2>3 DEF MessageIsSound, CheckMessage
  <2>5. ASSUME tx[w].phase = "checking", tx[w].flag, NEW d, d = tx[w].msg.check
        PROVE  d \in Checks /\ Exists(d)' /\ ~BeingPurged(d)'
    BY <1>5, <2>1, <2>5 DEF ExecutionIsSound
  <2>6. (tx[w].phase = "checking" /\ tx[w].flag =>
            /\ tx[w].msg.check \in Checks
            /\ Exists(tx[w].msg.check) /\ ~BeingPurged(tx[w].msg.check))'
    BY <2>1, <2>2, <2>5 DEF Exists, BeingPurged, Expired
  <2>7. (tx[w].phase = "checking" /\ ~tx[w].flag /\ tx[w].msg.check \in Checks =>
            check[tx[w].msg.check].status = "purged")'
    BY <1>5, <2>1, <2>2 DEF ExecutionIsSound
  <2>8. (tx[w].phase = "locking" => tx[w].msg.check \in Checks)'
    BY <2>1, <2>2 DEF ExecutionIsSound
  <2>. QED
    BY <2>4, <2>6, <2>7, <2>8 DEF ExecutionIsSound
<1>10. ASSUME NEW w \in Workers, NEW c \in Checks PROVE HoldsCheck(w, c)' <=> HoldsCheck(w, c)
  <2>1. tx[w].msg \in Messages
    BY <1>1, ActorsDiffer DEF TypeOK, Transactions
  <2>. QED
    BY <1>1, <2>1, JobCommitMoves, Trimmed, ActorsDiffer DEF HoldsCheck
<1>11. HoldersExclude'
  BY <1>10 DEF HandOver, HoldersExclude
<1>12. NoCheckIsForgotten'
  <2> SUFFICES ASSUME NEW c \in Checks, check'[c].status = "pending"
               PROVE  Carried(c)' \/ c \in lost'
    BY DEF NoCheckIsForgotten
  <2>1. Carried(c) \/ c \in lost
    BY <1>5 DEF HandOver, NoCheckIsForgotten
  <2>2. CASE c \in lost
    BY <1>2, <2>2
  <2>3. CASE tx[c].phase = "publishing"
    BY <1>1, <2>3, JobCommitMoves DEF Carried
  <2>4. CASE CheckMessage(c) \in topic
    <3>1. CheckMessage(c) = Trim(CheckMessage(c), Dead)
      BY MessageTypes, Trimmed
    <3>2. CheckMessage(c) \in topic'
      BY <1>2, <2>4, <3>1
    <3>. QED
      BY <3>2 DEF Carried, CheckMessage
  <2>5. ASSUME NEW w \in Workers, Executing(w), tx[w].msg = CheckMessage(c)
        PROVE  Carried(c)'
    <3>1. tx'[w].phase = tx[w].phase /\ tx'[w].msg = Trim(tx[w].msg, Dead)
      BY <1>1, JobCommitMoves
    <3>2. Trim(CheckMessage(c), Dead) = CheckMessage(c)
      BY MessageTypes, Trimmed
    <3>. QED
      BY <2>5, <3>1, <3>2 DEF Carried, Executing, CheckMessage
  <2>. QED
    BY <2>1, <2>2, <2>3, <2>4, <2>5 DEF Carried, Executing
<1>. QED
  BY <1>3, <1>4, <1>6, <1>8, <1>9, <1>11, <1>12 DEF HandOver

LEMMA HandOverInit == Init => HandOver
<1> SUFFICES ASSUME Init PROVE HandOver
  OBVIOUS
<1>1. TypeOK
  <2>1. NotSubmitted \in CheckRecords
    BY DEF NotSubmitted, CheckRecords, RunStatuses, MaybeDate, NoDate
  <2>. QED
    BY <2>1, IdleType, UncheckedIsAState DEF Init, TypeOK
<1>2. \A a \in Actors : tx[a] = Idle /\ Idle.phase = "idle"
  BY DEF Init, Idle
<1>3. \A c \in Checks : check[c].status = "absent" /\ check[c].members = {}
  BY DEF Init, NotSubmitted
<1>4. topic = {}
  BY DEF Init
<1>5. Roles
  BY <1>2, ActorsDiffer DEF Roles
<1>6. \A c \in Checks : RunIsSound(c)
  BY <1>2, <1>3, ActorsDiffer DEF RunIsSound
<1>7. \A w \in Workers : ExecutionIsSound(w)
  BY <1>2, ActorsDiffer DEF ExecutionIsSound
<1>8. HoldersExclude
  BY <1>2, ActorsDiffer DEF HoldersExclude, HoldsCheck
<1>9. NoCheckIsForgotten
  BY <1>3 DEF NoCheckIsForgotten
<1>. QED
  BY <1>1, <1>4, <1>5, <1>6, <1>7, <1>8, <1>9 DEF HandOver

LEMMA HandOverStep == HandOver /\ [Next]_vars => HandOver'
<1> SUFFICES ASSUME HandOver, [Next]_vars PROVE HandOver'
  OBVIOUS
<1>1. ASSUME Submission PROVE HandOver'
  <2>1. PICK c \in Checks :
          \/ \E build \in Submissions : SubmitBegin(c, build.urls, build.isDefault)
          \/ SubmitCommit(c) \/ SubmitAbort(c) \/ SubmitPublish(c) \/ SubmitCrash(c)
    BY <1>1 DEF Submission
  <2>2. ASSUME NEW build \in Submissions, SubmitBegin(c, build.urls, build.isDefault)
        PROVE  HandOver'
    <3>1. build.urls \in SUBSET Urls /\ build.isDefault \in BOOLEAN
      BY ServiceAssumption
    <3>. QED
      BY <2>2, <3>1, SubmitBeginHandsOver
  <2>. QED
    BY <2>1, <2>2, SubmitCommitHandsOver, SubmitAbortHandsOver, SubmitPublishHandsOver,
       SubmitCrashHandsOver
<1>2. ASSUME Consumption PROVE HandOver'
  <2>1. PICK w \in Workers :
          \/ \E m \in topic : ExecuteBegin(w, m) \/ RecheckBegin(w, m)
          \/ ExecuteLock(w) \/ CheckingCommit(w) \/ WorkerFails(w) \/ Redeliver(w)
    BY <1>2 DEF Consumption
  <2>. QED
    BY <2>1, ExecuteBeginHandsOver, RecheckBeginHandsOver, ExecuteLockHandsOver,
       CheckingCommitHandsOver, WorkerFailsHandsOver, RedeliverHandsOver
<1>3. ASSUME Contribution PROVE HandOver'
  BY <1>3, ContributeBeginHandsOver, ContributeCommitHandsOver DEF Contribution
<1>4. ASSUME DailyJob PROVE HandOver'
  BY <1>4, JobBeginHandsOver, JobCommitHandsOver, JobPublishHandsOver, JobCrashHandsOver
     DEF DailyJob
<1>5. ASSUME Tick PROVE HandOver'
  BY <1>5, TickHandsOver
<1>6. ASSUME UNCHANGED vars PROVE HandOver'
  <2>1. UNCHANGED <<check, topic, tx, lost>> /\ TypeOK'
    BY <1>6 DEF vars, database, bounded, HandOver, TypeOK
  <2>2. Roles'
    BY <2>1 DEF HandOver, Roles
  <2>3. \A c \in Checks : RunIsSound(c)' /\ (BeingPurged(c)' <=> BeingPurged(c))
    BY <2>1 DEF HandOver, RunIsSound, Exists, BeingPurged, Expired
  <2>. QED
    BY <2>1, <2>2, <2>3, QuietStep
<1>. QED
  BY <1>1, <1>2, <1>3, <1>4, <1>5, <1>6 DEF Next

(* The hand-over of a check is sound in every reachable state. *)
THEOREM HandOverInvariant == Spec => []HandOver
<1>. QED
  BY HandOverInit, HandOverStep, PTL DEF Spec

(* Every variable keeps to its type, whatever the tables, the topic and    *)
(* the open transactions hold.                                             *)
THEOREM TypeCorrect == Spec => []TypeOK
<1>1. HandOver => TypeOK
  BY DEF HandOver
<1>. QED
  BY <1>1, HandOverInvariant, PTL

(* No accepted check is forgotten: one that is still pending is about to   *)
(* be published, in the topic or with a worker, unless a fault lost it.    *)
THEOREM NoneIsForgotten == Spec => []NoCheckIsForgotten
<1>1. HandOver => NoCheckIsForgotten
  BY DEF HandOver
<1>. QED
  BY <1>1, HandOverInvariant, PTL

(* The handler publishes after its commit: no consumer ever holds the id   *)
(* of a check whose row was not yet written.                               *)
THEOREM PublicationsAreVisible == Spec => []PublishedIsVisible
<1>1. HandOver => PublishedIsVisible
  BY DEF HandOver, PublishedIsVisible, MessageIsSound, ExecutionIsSound, CheckMessage
<1>. QED
  BY <1>1, HandOverInvariant, PTL

(* While one worker holds a check's row, no other execution of that check  *)
(* has URLs to write to under it: the others found the row gone.           *)
THEOREM ExecutionsExclude == Spec => ExecutionsDoNotOverlap
<1> DEFINE Excluded ==
      \A w, v \in Workers, c \in Checks :
          /\ w # v /\ HoldsCheck(w, c)
          /\ tx[v].phase = "checking" /\ tx[v].msg.check = c /\ tx'[v].phase = "idle"
          => \A u \in tx[w].urls : row'[u] = row[u]
<1>1. HandOver => Excluded
  <2> SUFFICES ASSUME HandOver, NEW w \in Workers, NEW v \in Workers, NEW c \in Checks,
                      w # v, HoldsCheck(w, c), tx[v].phase = "checking", tx[v].msg.check = c
               PROVE  FALSE
    OBVIOUS
  <2>1. ~tx[v].flag
    BY DEF HandOver, HoldersExclude, HoldsCheck
  <2>2. check[c].status = "purged"
    BY <2>1 DEF HandOver, ExecutionIsSound
  <2>3. Exists(c)
    BY DEF HandOver, ExecutionIsSound, HoldsCheck
  <2>. QED
    BY <2>2, <2>3 DEF Exists
<1>2. HandOver => [Excluded]_vars
  BY <1>1
<1>. QED
  BY <1>2, HandOverInvariant, PTL DEF ExecutionsDoNotOverlap

-----------------------------------------------------------------------------
(* Settling: what a step may do to the rows and to the checks *)

RowMoves(u) ==
    \/ row'[u] = row[u]
    \/ row'[u].status = "unsupported"
    \/ /\ u \in Supported
       /\ row'[u].status # "unchecked"
       /\ now <= row'[u].date_checked + MaxOpen

CheckMoves(c) ==
    \/ /\ check'[c].members = check[c].members
       /\ check'[c].date_created = check[c].date_created
       /\ \/ check'[c].status = check[c].status
          \/ /\ check[c].status = "pending" /\ check'[c].status = "complete"
             /\ \A u \in check[c].members : HasResult(row'[u], check[c].date_created)
    \/ /\ check[c].status = "absent"
       /\ check'[c].status \in {"pending", "complete"}
       /\ check'[c].date_created <= now
       /\ \A u \in check'[c].members \cap UnsupportedUrls : row'[u].status = "unsupported"
       /\ check'[c].status = "complete" =>
            \A u \in check'[c].members : HasResult(row'[u], check'[c].date_created)

(* What a poller may see a step do to a check. *)
Progress(c) ==
    \/ check'[c].status = check[c].status /\ Unresolved(c)' \subseteq Unresolved(c)
    \/ check[c].status = "absent" /\ check'[c].status \in {"pending", "complete"}
    \/ /\ check[c].status = "pending" /\ check'[c].status = "complete"
       /\ Unresolved(c)' \subseteq Unresolved(c)
    \/ check[c].status \in {"pending", "complete"} /\ check'[c].status = "purged"

(* A row that was just written has a result for every check submitted by   *)
(* now: no transaction is open for longer than a result stays fresh.       *)
LEMMA ResultIsKept ==
    ASSUME TypeOK, TypeOK', NEW u \in Urls, RowMoves(u), NEW d \in MaybeDate, d <= now,
           HasResult(row[u], d)
    PROVE  HasResult(row'[u], d)
<1>1. /\ row'[u].date_checked \in Int /\ d \in Int /\ now \in Nat
      /\ FreshnessTtl \in Nat /\ MaxOpen \in Nat /\ MaxOpen <= FreshnessTtl
  BY LadderAssumption, ServiceAssumption, PromptAssumption
     DEF TypeOK, LinkStates, MaybeDate, NoDate
<1>2. CASE row'[u] = row[u]
  BY <1>2
<1>3. CASE row'[u].status = "unsupported"
  BY <1>3 DEF HasResult
<1>4. CASE row'[u].status # "unchecked" /\ now <= row'[u].date_checked + MaxOpen
  <2>1. ~(row'[u].date_checked < d - FreshnessTtl)
    BY <1>1, <1>4
  <2>. QED
    BY <1>4, <2>1 DEF HasResult, IsReportedPending
<1>. QED
  BY <1>2, <1>3, <1>4 DEF RowMoves

(* A step after which every row and every check has moved as it may, and   *)
(* the parties that moved have settled what they must.                     *)
LEMMA SettlingFrame ==
    ASSUME HandOver, Settling, HandOver', Timely',
           \A u \in Urls : RowMoves(u),
           \A c \in Checks : CheckMoves(c),
           \A c \in Checks : tx'[c] = tx[c] \/ SubmissionSettles(c)',
           \A w \in Workers : tx'[w] = tx[w] \/ ExecutionSettles(w)',
           tx'[Client].phase = "contributing" =>
                tx'[Client] = tx[Client] \/ tx'[Client].urls \subseteq Supported
    PROVE  Settling' /\ \A c \in Checks : Progress(c)
<1>1. TypeOK /\ TypeOK'
  BY DEF HandOver
<1>2. ASSUME NEW c \in Checks
      PROVE  /\ check[c].members \subseteq Urls /\ check'[c].members \subseteq Urls
             /\ check[c].date_created \in MaybeDate /\ check[c].date_created <= now
             /\ tx[c].urls \subseteq Urls /\ tx[c].at \in MaybeDate
             /\ tx[c].phase = "submitting" => tx[c].at <= now
  <2>1. /\ check[c] \in CheckRecords /\ check'[c] \in CheckRecords
        /\ tx[c] \in Transactions
    BY <1>1, ActorsDiffer DEF TypeOK
  <2>2. check[c].date_created <= now /\ (tx[c].phase = "submitting" => tx[c].at <= now)
    BY ActorsDiffer DEF Settling, Timely
  <2>. QED
    BY <2>1, <2>2 DEF CheckRecords, Transactions, Dates, MaybeDate
<1>3. ASSUME NEW c \in Checks, check[c].status # "absent"
      PROVE  /\ check'[c].members = check[c].members
             /\ check'[c].date_created = check[c].date_created
             /\ Exists(c)' => Exists(c)
             /\ \A u \in check[c].members :
                    HasResult(row[u], check[c].date_created)
                        => HasResult(row'[u], check'[c].date_created)
  <2>1. /\ check'[c].members = check[c].members
        /\ check'[c].date_created = check[c].date_created
        /\ Exists(c)' => Exists(c)
    BY <1>3 DEF CheckMoves, Exists
  <2>. QED
    BY <1>1, <1>2, <2>1, ResultIsKept
<1>4. ASSUME NEW c \in Checks
      PROVE  RefusedIsUnsupported(c)'
  <2>1. CASE check'[c].members = check[c].members
    <3>1. ASSUME NEW u \in check[c].members \cap UnsupportedUrls
          PROVE  row'[u].status = "unsupported"
      <4>1. row[u].status = "unsupported" /\ u \in Urls /\ RowMoves(u)
        BY <1>2 DEF Settling, RefusedIsUnsupported
      <4>. QED
        BY <4>1 DEF RowMoves, Supported
    <3>. QED
      BY <2>1, <3>1 DEF RefusedIsUnsupported
  <2>2. CASE check'[c].members # check[c].members
    BY <2>2 DEF CheckMoves, RefusedIsUnsupported
  <2>. QED
    BY <2>1, <2>2
<1>5. ASSUME NEW c \in Checks, check'[c].status = "complete", NEW u \in check'[c].members
      PROVE  HasResult(row'[u], check'[c].date_created)
  <2>1. CASE check[c].status = "complete"
    <3>1. HasResult(row[u], check[c].date_created)
      BY <1>3, <1>5, <2>1 DEF Settling, CompleteIsSettled, Settled, HasResult
    <3>. QED
      BY <1>3, <1>5, <2>1, <3>1
  <2>2. CASE check[c].status # "complete"
    BY <1>5, <2>2 DEF CheckMoves
  <2>. QED
    BY <2>1, <2>2
<1>6. CompleteIsSettled'
  BY <1>5 DEF CompleteIsSettled, Settled, HasResult
<1>7. ASSUME NEW c \in Checks PROVE SubmissionSettles(c)'
  <2>1. CASE tx'[c] = tx[c]
    <3>1. SubmissionSettles(c)
      BY DEF Settling
    <3>2. ASSUME NEW u \in tx[c].urls, tx[c].phase = "submitting", HasResult(row[u], tx[c].at)
          PROVE  HasResult(row'[u], tx[c].at)
      BY <1>1, <1>2, <3>2, ResultIsKept
    <3>. QED
      BY <2>1, <3>1, <3>2 DEF SubmissionSettles
  <2>. QED
    BY <2>1
<1>8. ASSUME NEW w \in Workers PROVE ExecutionSettles(w)'
  <2>1. CASE tx'[w] = tx[w]
    <3>1. ExecutionSettles(w) /\ ExecutionIsSound(w)
      BY DEF Settling, HandOver
    <3>2. ASSUME tx[w].phase = "locking", Exists(tx[w].msg.check)'
          PROVE  check'[tx[w].msg.check].members \subseteq tx[w].urls
      <4>1. tx[w].msg.check \in Checks /\ check[tx[w].msg.check].status # "absent"
        BY <3>1, <3>2 DEF ExecutionIsSound, MessageIsSound
      <4>2. tx'[w].msg.check = tx[w].msg.check
        BY <2>1
      <4>3. check'[tx[w].msg.check].status \notin {"absent", "purged"}
        BY <3>2, <4>2 DEF Exists
      <4>4. Exists(tx[w].msg.check)
        BY <4>1, <4>3 DEF CheckMoves, Exists
      <4>. QED
        BY <1>3, <3>1, <3>2, <4>1, <4>4 DEF ExecutionSettles
    <3>3. ASSUME tx[w].phase = "checking", tx[w].flag,
                 NEW u \in check'[tx[w].msg.check].members \ (tx[w].urls \cup UnsupportedUrls)
          PROVE  HasResult(row'[u], check'[tx[w].msg.check].date_created)
      <4>1. tx[w].msg.check \in Checks /\ check[tx[w].msg.check].status # "absent"
        BY <3>1, <3>3 DEF ExecutionIsSound, Exists
      <4>2. u \in check[tx[w].msg.check].members
        BY <1>3, <3>3, <4>1
      <4>3. HasResult(row[u], check[tx[w].msg.check].date_created)
        BY <3>1, <3>3, <4>2 DEF ExecutionSettles, Settled, HasResult
      <4>. QED
        BY <1>3, <4>1, <4>2, <4>3
    <3>4. (tx[w].phase = "locking" /\ Exists(tx[w].msg.check) =>
                check[tx[w].msg.check].members \subseteq tx[w].urls)'
      BY <2>1, <3>2 DEF Exists
    <3>5. (tx[w].phase = "checking" /\ tx[w].flag =>
                \A u \in check[tx[w].msg.check].members \ (tx[w].urls \cup UnsupportedUrls) :
                    Settled(tx[w].msg.check, u))'
      BY <2>1, <3>3 DEF Settled, HasResult
    <3>6. (tx[w].phase = "checking" => tx[w].urls \subseteq Supported)'
      BY <2>1, <3>1 DEF ExecutionSettles
    <3>. QED
      BY <3>4, <3>5, <3>6 DEF ExecutionSettles
  <2>. QED
    BY <2>1
<1>9. (tx[Client].phase = "contributing" => tx[Client].urls \subseteq Supported)'
  BY DEF Settling
<1>10. Settling'
  BY <1>4, <1>6, <1>7, <1>8, <1>9 DEF Settling
<1>11. ASSUME NEW c \in Checks PROVE Progress(c)
  <2>1. CASE check[c].status = "absent"
    <3>1. check[c].members = {}
      BY <2>1 DEF HandOver, RunIsSound, Exists
    <3>2. check'[c].status = "absent" => check'[c].members = {}
      BY <2>1, <3>1 DEF CheckMoves
    <3>3. check'[c].status = "absent" => Unresolved(c)' \subseteq Unresolved(c)
      BY <3>2 DEF Unresolved
    <3>. QED
      BY <2>1, <3>3 DEF CheckMoves, Progress
  <2>2. CASE check[c].status # "absent"
    <3>1. Unresolved(c)' \subseteq Unresolved(c)
      BY <1>3, <2>2 DEF Unresolved, Settled, HasResult
    <3>. QED
      BY <2>2, <3>1 DEF CheckMoves, Progress
  <2>. QED
    BY <2>1, <2>2
<1>. QED
  BY <1>10, <1>11

LEMMA ActorSettles ==
    ASSUME HandOver, Settling, HandOver',
           NEW a \in Actors, NEW t, tx' = [tx EXCEPT ![a] = t], now' = now,
           t.phase = "idle" \/ t.at = now,
           \A u \in Urls : RowMoves(u),
           \A c \in Checks : CheckMoves(c),
           a \in Checks => t.phase # "submitting" \/ SubmissionSettles(a)',
           a \in Workers => t.phase = "idle" \/ ExecutionSettles(a)',
           a = Client => t.phase = "idle" \/ t.urls \subseteq Supported
    PROVE  Settling' /\ \A c \in Checks : Progress(c)
<1>1. tx'[a] = t /\ \A b \in Actors : b # a => tx'[b] = tx[b]
  BY DEF HandOver, TypeOK
<1>2. Timely'
  <2>1. now \in Nat /\ MaxOpen \in Nat /\ now <= now + MaxOpen
    BY ServiceAssumption DEF HandOver, TypeOK
  <2>2. \A b \in Actors : tx'[b].phase # "idle" =>
            tx'[b].at <= now /\ now <= tx'[b].at + MaxOpen
    BY <1>1, <2>1 DEF Settling, Timely
  <2>3. \A c \in Checks : check'[c].date_created <= now
    BY DEF Settling, Timely, CheckMoves
  <2>. QED
    BY <2>2, <2>3 DEF Timely
<1>3. \A c \in Checks : tx'[c] = tx[c] \/ SubmissionSettles(c)'
  BY <1>1, ActorsDiffer DEF SubmissionSettles
<1>4. \A w \in Workers : tx'[w] = tx[w] \/ ExecutionSettles(w)'
  BY <1>1, ActorsDiffer DEF ExecutionSettles
<1>5. tx'[Client].phase = "contributing" =>
        tx'[Client] = tx[Client] \/ tx'[Client].urls \subseteq Supported
  BY <1>1, ActorsDiffer
<1>. QED
  BY <1>2, <1>3, <1>4, <1>5, SettlingFrame

-----------------------------------------------------------------------------
(* Settling: the steps *)

LEMMA NothingWritten ==
    ASSUME row' = row, check' = check
    PROVE  (\A u \in Urls : RowMoves(u)) /\ (\A c \in Checks : CheckMoves(c))
BY DEF RowMoves, CheckMoves

LEMMA SubmitBeginSettles ==
    ASSUME HandOver, Settling, HandOver', NEW c \in Checks, NEW us \in SUBSET Urls,
           NEW d \in BOOLEAN, SubmitBegin(c, us, d)
    PROVE  Settling' /\ \A e \in Checks : Progress(e)
<1> DEFINE states == StatesOf(us \ UnsupportedUrls)
           due == {u \in us \ UnsupportedUrls : IsDue(states[u], now, FALSE)}
           t == [ Idle EXCEPT !.phase = "submitting", !.at = now, !.urls = us, !.due = due,
                              !.flag = d, !.marked = us \ stored ]
<1>1. /\ TypeOK /\ tx' = [tx EXCEPT ![c] = t]
      /\ UNCHANGED <<now, stored, row, check>>
  BY DEF HandOver, SubmitBegin, database
<1>2. tx'[c] = t
  BY <1>1, ActorsDiffer DEF TypeOK
<1>3. /\ t.phase = "submitting" /\ t.at = now /\ t.urls = us /\ t.due = due
      /\ t.marked = us \ stored /\ t.gone = {}
  BY DEF Idle
<1>4. (us \ stored) \ UnsupportedUrls \subseteq due
  BY DEF StatesOf, IsDue, Unchecked
<1>5. ASSUME NEW u \in us \ (due \cup UnsupportedUrls) PROVE HasResult(row[u], now)
  <2>1. u \in stored /\ states[u] = row[u] /\ ~IsDue(row[u], now, FALSE)
    BY <1>4, <1>5 DEF StatesOf
  <2>2. row[u] \in LinkStates /\ now \in Nat
    BY <1>1, <1>5 DEF TypeOK
  <2>. QED
    BY <2>1, <2>2, NotDueIsReportable DEF HasResult
<1> HIDE DEF t, due
<1>6. SubmissionSettles(c)'
  BY <1>1, <1>2, <1>3, <1>4, <1>5 DEF SubmissionSettles
<1>. QED
  BY <1>1, <1>3, <1>6, NothingWritten, ActorSettles, ActorsDiffer

LEMMA SubmitCommitSettles ==
    ASSUME HandOver, Settling, HandOver', NEW c \in Checks, SubmitCommit(c)
    PROVE  Settling' /\ \A e \in Checks : Progress(e)
<1> DEFINE t == tx[c]
           s == IF t.due = {} THEN Idle ELSE [Idle EXCEPT !.phase = "publishing", !.at = now]
           r == [ status       |-> InitialStatus(t.due),
                  date_created |-> t.at,
                  members      |-> t.urls ]
<1>1. /\ TypeOK /\ t \in Transactions /\ t.phase = "submitting" /\ t.gone = {}
      /\ check[c].status = "absent" /\ SubmissionSettles(c) /\ t.at <= now
  BY ActorsDiffer DEF HandOver, TypeOK, SubmitCommit, RunIsSound, Settling, Timely
<1>2. /\ tx' = [tx EXCEPT ![c] = s]
      /\ check' = [check EXCEPT ![c] = r]
      /\ row' = [u \in Urls |-> IF u \in t.urls \cap UnsupportedUrls
                                THEN UnsupportedRow(t.at) ELSE row[u]]
      /\ now' = now
  BY DEF SubmitCommit
<1>3. s.phase = "idle" \/ (s.phase = "publishing" /\ s.at = now)
  BY DEF Idle
<1>4. /\ r.status \in {"pending", "complete"} /\ (r.status = "complete" => t.due = {})
      /\ r.members = t.urls /\ r.date_created = t.at
  BY DEF InitialStatus
<1> HIDE DEF s, r
<1>5. ASSUME NEW u \in t.urls
      PROVE  /\ u \in UnsupportedUrls => row'[u].status = "unsupported"
             /\ u \notin UnsupportedUrls => row'[u] = row[u]
  <2>1. t.at \in Nat /\ t.urls \subseteq Urls
    BY <1>1 DEF Transactions, Dates
  <2>. QED
    BY <1>2, <2>1, UnsupportedRowIs
<1>6. \A u \in Urls : RowMoves(u)
  BY <1>2, <1>5 DEF RowMoves
<1>7. ASSUME t.due = {}, NEW u \in t.urls PROVE HasResult(row'[u], t.at)
  BY <1>1, <1>5, <1>7 DEF SubmissionSettles, HasResult
<1>8. check'[c] = r /\ \A e \in Checks : e # c => check'[e] = check[e]
  BY <1>1, <1>2 DEF TypeOK
<1>9. ASSUME NEW e \in Checks PROVE CheckMoves(e)
  BY <1>1, <1>4, <1>5, <1>7, <1>8 DEF CheckMoves
<1>. QED
  BY <1>2, <1>3, <1>6, <1>9, ActorSettles, ActorsDiffer

LEMMA ContributeBeginSettles ==
    ASSUME HandOver, Settling, HandOver', NEW c \in Checks, NEW us \in SUBSET Urls,
           ContributeBegin(c, us)
    PROVE  Settling' /\ \A e \in Checks : Progress(e)
<1> DEFINE t == [ Idle EXCEPT !.phase = "contributing", !.at = now, !.urls = us,
                              !.prior = StatesOf(us), !.msg = CheckMessage(c) ]
<1>1. tx' = [tx EXCEPT ![Client] = t] /\ UNCHANGED <<now, row, check>>
  BY DEF ContributeBegin, database
<1>2. t.phase = "contributing" /\ t.at = now /\ t.urls = us /\ us \subseteq Supported
  BY DEF Idle, ContributeBegin, Eligible
<1> HIDE DEF t
<1>. QED
  BY <1>1, <1>2, NothingWritten, ActorSettles, ActorsDiffer

LEMMA ContributeCommitSettles ==
    ASSUME HandOver, Settling, HandOver', ContributeCommit
    PROVE  Settling' /\ \A e \in Checks : Progress(e)
<1>1. /\ TypeOK /\ tx' = [tx EXCEPT ![Client] = Idle] /\ Idle.phase = "idle"
      /\ UNCHANGED <<now, check>>
  BY DEF HandOver, ContributeCommit, Idle
<1>2. tx[Client].urls \subseteq Supported /\ now <= tx[Client].at + MaxOpen
  BY ActorsDiffer DEF Settling, Timely, ContributeCommit
<1>3. \A u \in Urls : RowMoves(u)
  BY <1>1, <1>2, ContributedRows DEF RowMoves
<1>4. \A c \in Checks : CheckMoves(c)
  BY <1>1 DEF CheckMoves
<1>. QED
  BY <1>1, <1>3, <1>4, ActorSettles, ActorsDiffer

LEMMA JobBeginSettles ==
    ASSUME HandOver, Settling, HandOver', NEW forcing \in BOOLEAN, JobBegin(forcing)
    PROVE  Settling' /\ \A e \in Checks : Progress(e)
<1> DEFINE t == [ Idle EXCEPT !.phase = "purging", !.at = now, !.due = DueForRecheck,
                              !.urls = IF forcing THEN Forced ELSE {}, !.marked = Orphans ]
<1>1. tx' = [tx EXCEPT ![Job] = t] /\ UNCHANGED <<now, row, check>>
  BY DEF JobBegin, database
<1>2. t.phase = "purging" /\ t.at = now
  BY DEF Idle
<1> HIDE DEF t
<1>. QED
  BY <1>1, <1>2, NothingWritten, ActorSettles, ActorsDiffer

(* An actor gives up, or publishes what it has committed. *)
LEMMA LeavingSettles ==
    ASSUME HandOver, Settling, HandOver', NEW a \in Actors, tx' = [tx EXCEPT ![a] = Idle],
           UNCHANGED <<now, row, check>>
    PROVE  Settling' /\ \A e \in Checks : Progress(e)
<1>1. Idle.phase = "idle"
  BY DEF Idle
<1>. QED
  BY <1>1, NothingWritten, ActorSettles

(* The transactions stay as they are. *)
LEMMA WaitingSettles ==
    ASSUME HandOver, Settling, HandOver', UNCHANGED <<row, check, tx>>, Timely'
    PROVE  Settling' /\ \A e \in Checks : Progress(e)
BY NothingWritten, SettlingFrame

LEMMA ExecuteBeginSettles ==
    ASSUME HandOver, Settling, HandOver', NEW w \in Workers, NEW m \in topic,
           ExecuteBegin(w, m)
    PROVE  Settling' /\ \A e \in Checks : Progress(e)
<1>1. UNCHANGED <<now, row, check>>
  BY DEF ExecuteBegin, database
<1>2. CASE AwaitsExecution(m.check)
  <2> DEFINE t == [ Idle EXCEPT !.phase = "locking", !.at = now, !.msg = m,
                                !.urls = check[m.check].members ]
  <2>1. tx' = [tx EXCEPT ![w] = t]
    BY <1>2 DEF ExecuteBegin
  <2>2. t.phase = "locking" /\ t.at = now /\ t.msg = m /\ t.urls = check[m.check].members
    BY DEF Idle
  <2> HIDE DEF t
  <2>3. tx'[w] = t
    BY <2>1, ActorsDiffer DEF HandOver, TypeOK
  <2>4. ExecutionSettles(w)'
    BY <1>1, <2>2, <2>3 DEF ExecutionSettles
  <2>. QED
    BY <1>1, <2>1, <2>2, <2>4, NothingWritten, ActorSettles, ActorsDiffer
<1>3. CASE ~AwaitsExecution(m.check)
  <2>1. tx' = tx
    BY <1>3 DEF ExecuteBegin
  <2>2. Timely'
    BY <1>1, <2>1 DEF Settling, Timely
  <2>. QED
    BY <1>1, <2>1, <2>2, WaitingSettles
<1>. QED
  BY <1>2, <1>3

LEMMA RecheckBeginSettles ==
    ASSUME HandOver, Settling, HandOver', NEW w \in Workers, NEW m \in topic,
           RecheckBegin(w, m)
    PROVE  Settling' /\ \A e \in Checks : Progress(e)
<1> DEFINE known == m.urls \cap stored \cap Supported
           due == {u \in known : IsDue(StatesOf(known)[u], now, m.force)}
           t == [ Idle EXCEPT !.phase = "checking", !.at = now, !.msg = m,
                              !.urls = due, !.prior = StatesOf(due) ]
<1>1. tx' = [tx EXCEPT ![w] = t] /\ UNCHANGED <<now, row, check>>
  BY DEF RecheckBegin, database
<1>2. /\ t.phase = "checking" /\ t.at = now /\ t.urls = due /\ ~t.flag
      /\ due \subseteq Supported
  BY DEF Idle
<1> HIDE DEF t, due
<1>3. tx'[w] = t
  BY <1>1, ActorsDiffer DEF HandOver, TypeOK
<1>4. ExecutionSettles(w)'
  BY <1>2, <1>3 DEF ExecutionSettles
<1>. QED
  BY <1>1, <1>2, <1>4, NothingWritten, ActorSettles, ActorsDiffer

LEMMA ExecuteLockSettles ==
    ASSUME HandOver, Settling, HandOver', NEW w \in Workers, ExecuteLock(w)
    PROVE  Settling' /\ \A e \in Checks : Progress(e)
<1> DEFINE c == tx[w].msg.check
           members == tx[w].urls \cap Supported
           due == {u \in members : IsDue(StatesOf(members)[u], now, FALSE)}
           t == [ tx[w] EXCEPT !.phase = "checking", !.at = now, !.flag = Exists(c),
                               !.urls = due, !.prior = StatesOf(due) ]
<1>1. /\ TypeOK /\ tx[w] \in Transactions /\ tx[w].phase = "locking"
      /\ c \in Checks /\ ExecutionSettles(w) /\ ExecutionSettles(w)
  BY ActorsDiffer DEF HandOver, TypeOK, ExecuteLock, ExecutionIsSound, Settling
<1>2. tx' = [tx EXCEPT ![w] = t] /\ UNCHANGED <<now, row, check>>
  BY DEF ExecuteLock, database
<1>3. /\ t.phase = "checking" /\ t.at = now /\ t.urls = due /\ (t.flag <=> Exists(c))
      /\ t.msg = tx[w].msg /\ due \subseteq Supported
  BY <1>1 DEF Transactions
<1>4. ASSUME Exists(c), NEW u \in check[c].members \ (due \cup UnsupportedUrls)
      PROVE  HasResult(row[u], check[c].date_created)
  <2>1. check[c] \in CheckRecords /\ check[c].date_created <= now /\ now \in Nat
    BY <1>1 DEF TypeOK, Settling, Timely
  <2>2. u \in Urls /\ row[u] \in LinkStates /\ u \in members
    BY <1>1, <1>4, <2>1 DEF TypeOK, CheckRecords, ExecutionSettles, Supported
  <2>3. u \in stored /\ StatesOf(members)[u] = row[u]
    BY <2>2, <1>4 DEF StatesOf, IsDue, Unchecked
  <2>4. HasResult(row[u], now)
    BY <1>4, <2>1, <2>2, <2>3, NotDueIsReportable DEF HasResult
  <2>5. row[u].date_checked \in Int
    BY <2>2 DEF LinkStates, MaybeDate, NoDate
  <2>6. check[c].date_created \in Int
    BY <2>1 DEF CheckRecords, MaybeDate, NoDate
  <2>7. FreshnessTtl \in Int
    BY LadderAssumption
  <2>. QED
    BY <2>1, <2>4, <2>5, <2>6, <2>7 DEF HasResult, IsReportedPending
<1> HIDE DEF t, due
<1>5. tx'[w] = t
  BY <1>1, <1>2, ActorsDiffer DEF TypeOK
<1>6. ExecutionSettles(w)'
  BY <1>2, <1>3, <1>4, <1>5 DEF ExecutionSettles, Settled, HasResult
<1>. QED
  BY <1>2, <1>3, <1>6, NothingWritten, ActorSettles, ActorsDiffer

LEMMA CheckingCommitSettles ==
    ASSUME HandOver, Settling, HandOver', NEW w \in Workers, CheckingCommit(w)
    PROVE  Settling' /\ \A e \in Checks : Progress(e)
<1> DEFINE c == tx[w].msg.check
<1>1. /\ TypeOK /\ TypeOK' /\ ExecutionIsSound(w) /\ ExecutionSettles(w)
      /\ tx[w].phase = "checking" /\ Idle.phase = "idle"
      /\ tx' = [tx EXCEPT ![w] = Idle] /\ now' = now
      /\ check' = IF tx[w].flag THEN [check EXCEPT ![c].status = "complete"] ELSE check
  BY DEF HandOver, CheckingCommit, Settling, Idle
<1>2. tx[w] \in Transactions /\ now <= tx[w].at + MaxOpen /\ tx[w].urls \subseteq Supported
  BY <1>1, ActorsDiffer DEF TypeOK, Settling, Timely, ExecutionSettles
<1>3. ASSUME NEW u \in Urls PROVE RowMoves(u)
  <2>1. CASE u \in tx[w].urls
    <3>1. row'[u].status # "unchecked" /\ row'[u].date_checked \in tx[w].at..now
      BY <1>1, <2>1, CheckedRows
    <3>2. tx[w].at \in Nat /\ now \in Nat /\ MaxOpen \in Nat
      BY <1>1, <1>2, ServiceAssumption DEF Transactions, Dates, TypeOK
    <3>3. now <= row'[u].date_checked + MaxOpen
      BY <1>2, <3>1, <3>2
    <3>. QED
      BY <1>2, <2>1, <3>1, <3>3 DEF RowMoves
  <2>2. CASE u \notin tx[w].urls
    BY <1>1, <2>2, CheckedRows DEF RowMoves
  <2>. QED
    BY <2>1, <2>2
<1>4. ASSUME tx[w].flag, NEW u \in check[c].members
      PROVE  HasResult(row'[u], check[c].date_created)
  <2>1. /\ c \in Checks /\ check[c] \in CheckRecords
        /\ check[c].date_created <= now
    BY <1>1, <1>4 DEF ExecutionIsSound, TypeOK, Settling, Timely
  <2>2. u \in Urls /\ check[c].date_created \in MaybeDate
    BY <1>4, <2>1 DEF CheckRecords
  <2>3. CASE u \in tx[w].urls
    <3>1. row'[u].status # "unchecked" /\ row'[u].date_checked \in tx[w].at..now
      BY <1>1, <2>3, CheckedRows
    <3>2. tx[w].at \in Nat /\ now \in Nat /\ MaxOpen \in Nat /\ FreshnessTtl \in Nat
      BY <1>1, <1>2, ServiceAssumption, LadderAssumption DEF Transactions, Dates, TypeOK
    <3>3. check[c].date_created \in Int
      BY <2>2 DEF MaybeDate, NoDate
    <3>4. ~(row'[u].date_checked < check[c].date_created - FreshnessTtl)
      BY <1>2, <2>1, <3>1, <3>2, <3>3, PromptAssumption
    <3>. QED
      BY <3>1, <3>4 DEF HasResult, IsReportedPending
  <2>4. CASE u \in UnsupportedUrls
    <3>1. row[u].status = "unsupported"
      BY <1>4, <2>1, <2>4 DEF Settling, RefusedIsUnsupported
    <3>2. row'[u] = row[u]
      BY <1>1, <1>2, <2>2, <2>4, CheckedRows DEF Supported
    <3>. QED
      BY <3>1, <3>2 DEF HasResult
  <2>5. CASE u \notin tx[w].urls \cup UnsupportedUrls
    <3>1. HasResult(row[u], check[c].date_created)
      BY <1>1, <1>4, <2>5 DEF ExecutionSettles, Settled, HasResult
    <3>2. row'[u] = row[u]
      BY <1>1, <2>2, <2>5, CheckedRows
    <3>. QED
      BY <3>1, <3>2
  <2>. QED
    BY <2>3, <2>4, <2>5
<1>5. ASSUME NEW e \in Checks PROVE CheckMoves(e)
  <2>1. check[e] \in CheckRecords
    BY <1>1 DEF TypeOK
  <2>2. CASE tx[w].flag /\ e = c
    <3>1. check'[e] = [check[e] EXCEPT !.status = "complete"]
      BY <1>1, <2>2 DEF TypeOK
    <3>2. check[e].status \in {"pending", "complete"}
      BY <1>1, <2>1, <2>2 DEF CheckRecords, RunStatuses, ExecutionIsSound, Exists,
         HandOver, RunIsSound
    <3>. QED
      BY <1>4, <2>1, <2>2, <3>1, <3>2 DEF CheckMoves, CheckRecords
  <2>3. CASE ~(tx[w].flag /\ e = c)
    <3>1. check'[e] = check[e]
      BY <1>1, <2>3 DEF TypeOK, ExecutionIsSound
    <3>. QED
      BY <3>1 DEF CheckMoves
  <2>. QED
    BY <2>2, <2>3
<1>. QED
  BY <1>1, <1>3, <1>5, ActorSettles, ActorsDiffer

(* The job's commit: the URLs it deletes are nobody's members any more,    *)
(* and a submission that counted on one of them will fail.                 *)
LEMMA JobCommitSettles ==
    ASSUME HandOver, Settling, HandOver', JobCommit
    PROVE  Settling' /\ \A e \in Checks : Progress(e)
<1>1. TypeOK /\ Roles /\ Roles' /\ now' = now /\ \A u \in Urls : u \notin Dead => row'[u] = row[u]
  <2>1. TypeOK /\ Roles /\ Roles' /\ now' = now
    BY DEF HandOver, JobCommit
  <2>. QED
    BY <2>1, JobCommitPurges
<1>2. ASSUME NEW c \in Checks
      PROVE  \/ /\ check'[c].members = {} /\ check'[c].status = "purged"
                /\ check'[c].date_created = NoDate
                /\ check[c].status \in {"pending", "complete"}
             \/ /\ check'[c].status = check[c].status
                /\ check'[c].date_created = check[c].date_created
                /\ check'[c].members = check[c].members \ Dead
                /\ check[c].members \subseteq Urls
  <2>1. check[c] \in CheckRecords
    BY <1>1 DEF TypeOK
  <2>2. CASE BeingPurged(c)
    <3>1. check'[c] = [NotSubmitted EXCEPT !.status = "purged"]
      BY <1>1, <2>2, JobCommitPurges
    <3>2. check[c].status \in {"pending", "complete"}
      BY <2>1, <2>2 DEF BeingPurged, Expired, Exists, CheckRecords, RunStatuses,
         HandOver, RunIsSound
    <3>. QED
      BY <3>1, <3>2 DEF NotSubmitted
  <2>3. CASE ~BeingPurged(c)
    BY <1>1, <2>1, <2>3, JobCommitPurges DEF CheckRecords
  <2>. QED
    BY <2>2, <2>3
<1>3. ASSUME NEW c \in Checks, NEW u \in check'[c].members
      PROVE  /\ u \in check[c].members /\ row'[u] = row[u]
             /\ check'[c].date_created = check[c].date_created
  BY <1>1, <1>2, <1>3
<1>4. Timely'
  <2>1. ASSUME NEW a \in Actors, tx'[a].phase # "idle"
        PROVE  tx'[a].at <= now /\ now <= tx'[a].at + MaxOpen
    <3>1. tx'[a].at = tx[a].at /\ tx[a].phase # "idle"
      <4>1. CASE a = Job
        BY <1>1, <4>1, JobCommitMoves DEF JobCommit
      <4>2. CASE a # Job
        BY <1>1, <2>1, <4>2, JobCommitMoves DEF Actors
      <4>. QED
        BY <4>1, <4>2
    <3>. QED
      BY <3>1 DEF Settling, Timely
  <2>2. ASSUME NEW c \in Checks PROVE check'[c].date_created <= now
    <3>1. now \in Nat /\ NoDate <= now
      BY <1>1 DEF TypeOK, NoDate
    <3>. QED
      BY <1>2, <3>1 DEF Settling, Timely
  <2>. QED
    BY <1>1, <2>1, <2>2 DEF Timely
<1>5. ASSUME NEW c \in Checks PROVE RefusedIsUnsupported(c)'
  BY <1>3 DEF Settling, RefusedIsUnsupported
<1>6. ASSUME NEW c \in Checks PROVE SubmissionSettles(c)'
  <2>1. /\ tx'[c].phase = tx[c].phase /\ tx'[c].at = tx[c].at
        /\ tx'[c].urls = tx[c].urls /\ tx'[c].marked = tx[c].marked
        /\ tx'[c].due = tx[c].due
        /\ tx[c].phase = "submitting" =>
                tx'[c].gone = tx[c].gone \cup ((tx[c].urls \cap Dead) \ tx[c].marked)
    BY <1>1, JobCommitMoves
  <2>2. SubmissionSettles(c) /\ tx[c].urls \subseteq Urls
    BY <1>1, ActorsDiffer DEF Settling, TypeOK, Transactions
  <2>3. ASSUME tx[c].phase = "submitting",
               NEW u \in tx[c].urls \ (tx[c].due \cup UnsupportedUrls \cup tx'[c].gone)
        PROVE  HasResult(row'[u], tx[c].at)
    <3>1. u \notin Dead /\ u \notin tx[c].gone
      BY <2>1, <2>2, <2>3 DEF SubmissionSettles
    <3>. QED
      BY <1>1, <2>2, <2>3, <3>1 DEF SubmissionSettles
  <2>. QED
    BY <2>1, <2>2, <2>3 DEF SubmissionSettles
<1>7. CompleteIsSettled'
  <2>1. ASSUME NEW c \in Checks, check'[c].status = "complete", NEW u \in check'[c].members
        PROVE  HasResult(row'[u], check'[c].date_created)
    <3>1. check[c].status = "complete"
      BY <1>2, <2>1
    <3>2. HasResult(row[u], check[c].date_created)
      BY <1>3, <2>1, <3>1 DEF Settling, CompleteIsSettled, Settled, HasResult
    <3>. QED
      BY <1>3, <2>1, <3>2
  <2>. QED
    BY <2>1 DEF CompleteIsSettled, Settled, HasResult
<1>8. ASSUME NEW w \in Workers PROVE ExecutionSettles(w)'
  <2> DEFINE c == tx[w].msg.check
  <2>1. /\ tx'[w].phase = tx[w].phase /\ tx'[w].urls = tx[w].urls
        /\ tx'[w].flag = tx[w].flag /\ tx'[w].msg = Trim(tx[w].msg, Dead)
    BY <1>1, JobCommitMoves
  <2>2. tx[w].msg \in Messages /\ ExecutionSettles(w) /\ ExecutionIsSound(w)
    BY <1>1, ActorsDiffer DEF TypeOK, Transactions, Settling, HandOver
  <2>3. tx'[w].msg.check = c
    BY <2>1, <2>2, Trimmed
  <2> HIDE DEF c
  <2>4. ASSUME tx[w].phase = "locking", check'[c].status \notin {"absent", "purged"}
        PROVE  check'[c].members \subseteq tx[w].urls
    <3>1. c \in Checks
      BY <2>2, <2>4 DEF ExecutionIsSound, c
    <3>2. check[c].status \notin {"absent", "purged"} /\ check'[c].members \subseteq check[c].members
      BY <1>2, <2>4, <3>1
    <3>. QED
      BY <2>2, <2>4, <3>2 DEF ExecutionSettles, Exists, c
  <2>5. ASSUME tx[w].phase = "checking", tx[w].flag,
               NEW u \in check'[c].members \ (tx[w].urls \cup UnsupportedUrls)
        PROVE  HasResult(row'[u], check'[c].date_created)
    <3>1. c \in Checks
      BY <2>2, <2>5 DEF ExecutionIsSound, c
    <3>2. /\ u \in check[c].members /\ row'[u] = row[u]
          /\ check'[c].date_created = check[c].date_created
      BY <1>3, <2>5, <3>1
    <3>. QED
      BY <2>2, <2>5, <3>2 DEF ExecutionSettles, Settled, HasResult, c
  <2>. QED
    BY <2>1, <2>2, <2>3, <2>4, <2>5 DEF ExecutionSettles, Exists, Settled, HasResult
<1>9. (tx[Client].phase = "contributing" => tx[Client].urls \subseteq Supported)'
  <2>1. tx'[Client].phase = tx[Client].phase /\ tx'[Client].urls = tx[Client].urls
    BY <1>1, JobCommitMoves
  <2>. QED
    BY <2>1 DEF Settling
<1>10. ASSUME NEW c \in Checks PROVE Progress(c)
  <2>1. Unresolved(c)' \subseteq Unresolved(c)
    BY <1>3 DEF Unresolved, Settled
  <2>. QED
    BY <1>2, <2>1 DEF Progress
<1>. QED
  BY <1>4, <1>5, <1>6, <1>7, <1>8, <1>9, <1>10 DEF Settling

LEMMA SettlingInit == Init => Settling
<1> SUFFICES ASSUME Init PROVE Settling
  OBVIOUS
<1>1. \A a \in Actors : tx[a] = Idle /\ Idle.phase = "idle"
  BY DEF Init, Idle
<1>2. \A c \in Checks : /\ check[c].status = "absent" /\ check[c].members = {}
                        /\ check[c].date_created = NoDate
  BY DEF Init, NotSubmitted
<1>3. Timely
  BY <1>1, <1>2 DEF Timely, Init, NoDate
<1>4. \A c \in Checks : RefusedIsUnsupported(c) /\ SubmissionSettles(c)
  BY <1>1, <1>2, ActorsDiffer DEF RefusedIsUnsupported, SubmissionSettles
<1>5. \A w \in Workers : ExecutionSettles(w)
  BY <1>1, ActorsDiffer DEF ExecutionSettles
<1>6. tx[Client].phase # "contributing"
  BY <1>1, ActorsDiffer
<1>7. CompleteIsSettled
  BY <1>2 DEF CompleteIsSettled
<1>. QED
  BY <1>3, <1>4, <1>5, <1>6, <1>7 DEF Settling

LEMMA SettlingStep ==
    ASSUME HandOver, Settling, [Next]_vars
    PROVE  Settling' /\ \A c \in Checks : Progress(c)
<1>0. HandOver'
  BY HandOverStep
<1> DEFINE Goal == Settling' /\ \A c \in Checks : Progress(c)
<1>1. ASSUME Submission PROVE Goal
  <2>1. PICK c \in Checks :
          \/ \E build \in Submissions : SubmitBegin(c, build.urls, build.isDefault)
          \/ SubmitCommit(c) \/ SubmitAbort(c) \/ SubmitPublish(c) \/ SubmitCrash(c)
    BY <1>1 DEF Submission
  <2>2. ASSUME NEW build \in Submissions, SubmitBegin(c, build.urls, build.isDefault)
        PROVE  Goal
    <3>1. build.urls \in SUBSET Urls /\ build.isDefault \in BOOLEAN
      BY ServiceAssumption
    <3>. QED
      BY <1>0, <2>2, <3>1, SubmitBeginSettles
  <2>3. ASSUME SubmitAbort(c) \/ SubmitPublish(c) \/ SubmitCrash(c) PROVE Goal
    <3>1. tx' = [tx EXCEPT ![c] = Idle] /\ UNCHANGED <<now, row, check>>
      BY <2>3 DEF SubmitAbort, SubmitPublish, SubmitCrash, database
    <3>. QED
      BY <1>0, <3>1, LeavingSettles, ActorsDiffer
  <2>. QED
    BY <1>0, <2>1, <2>2, <2>3, SubmitCommitSettles
<1>2. ASSUME Consumption PROVE Goal
  <2>1. PICK w \in Workers :
          \/ \E m \in topic : ExecuteBegin(w, m) \/ RecheckBegin(w, m)
          \/ ExecuteLock(w) \/ CheckingCommit(w) \/ WorkerFails(w) \/ Redeliver(w)
    BY <1>2 DEF Consumption
  <2>2. ASSUME WorkerFails(w) PROVE Goal
    <3>1. tx' = [tx EXCEPT ![w] = Idle] /\ UNCHANGED <<now, row, check>>
      BY <2>2 DEF WorkerFails, database
    <3>. QED
      BY <1>0, <3>1, LeavingSettles, ActorsDiffer
  <2>3. ASSUME Redeliver(w) PROVE Goal
    <3>1. UNCHANGED <<now, row, check, tx>>
      BY <2>3 DEF Redeliver, database
    <3>2. Timely'
      BY <3>1 DEF Settling, Timely
    <3>. QED
      BY <1>0, <3>1, <3>2, WaitingSettles
  <2>. QED
    BY <1>0, <2>1, <2>2, <2>3, ExecuteBeginSettles, RecheckBeginSettles, ExecuteLockSettles,
       CheckingCommitSettles
<1>3. ASSUME Contribution PROVE Goal
  BY <1>0, <1>3, ContributeBeginSettles, ContributeCommitSettles DEF Contribution
<1>4. ASSUME DailyJob PROVE Goal
  <2>1. ASSUME JobPublish \/ JobCrash PROVE Goal
    <3>1. tx' = [tx EXCEPT ![Job] = Idle] /\ UNCHANGED <<now, row, check>>
      BY <2>1 DEF JobPublish, JobCrash, database
    <3>. QED
      BY <1>0, <3>1, LeavingSettles, ActorsDiffer
  <2>. QED
    BY <1>0, <1>4, <2>1, JobBeginSettles, JobCommitSettles DEF DailyJob
<1>5. ASSUME Tick PROVE Goal
  <2>1. UNCHANGED <<row, check, tx>> /\ now' = now + 1
    BY <1>5 DEF Tick, database
  <2>2. TypeOK /\ now \in Nat /\ MaxOpen \in Nat
    BY ServiceAssumption DEF HandOver, TypeOK
  <2>3. ASSUME NEW a \in Actors, tx[a].phase # "idle"
        PROVE  tx[a].at <= now' /\ now' <= tx[a].at + MaxOpen
    <3>1. tx[a].at \in Nat
      BY <2>2 DEF TypeOK, Transactions, Dates
    <3>. QED
      BY <1>5, <2>1, <2>2, <2>3, <3>1 DEF Tick, Settling, Timely
  <2>4. ASSUME NEW c \in Checks PROVE check[c].date_created <= now'
    <3>1. check[c].date_created \in Int
      BY <2>2 DEF TypeOK, CheckRecords, MaybeDate, NoDate
    <3>. QED
      BY <2>1, <2>2, <3>1 DEF Settling, Timely
  <2>5. Timely'
    BY <2>1, <2>3, <2>4 DEF Timely
  <2>. QED
    BY <1>0, <2>1, <2>5, WaitingSettles
<1>6. ASSUME UNCHANGED vars PROVE Goal
  <2>1. UNCHANGED <<now, row, check, tx>>
    BY <1>6 DEF vars, database
  <2>2. Timely'
    BY <2>1 DEF Settling, Timely
  <2>. QED
    BY <1>0, <2>1, <2>2, WaitingSettles
<1>. QED
  BY <1>1, <1>2, <1>3, <1>4, <1>5, <1>6 DEF Next

(* A completed check reports a result for every member the server can      *)
(* check, however the executions, rechecks, contributions and purges that  *)
(* share its rows interleave, crash and repeat.                            *)
THEOREM CompletionSettles == Spec => []CompleteIsSettled
<1>1. Init => HandOver /\ Settling
  BY HandOverInit, SettlingInit
<1>2. HandOver /\ Settling /\ [Next]_vars => (HandOver /\ Settling)'
  BY HandOverStep, SettlingStep
<1>3. Settling => CompleteIsSettled
  BY DEF Settling
<1>. QED
  BY <1>1, <1>2, <1>3, PTL DEF Spec

-----------------------------------------------------------------------------
(* The promise to a client that polls *)

(* Every step of the service moves each check as LinkCheckRun allows. *)
LEMMA PromisedStep ==
    ASSUME HandOver, Settling, HandOver', Settling', \A c \in Checks : Progress(c)
    PROVE  Promised!Next
<1> DEFINE run == [c \in Checks |-> check[c].status]
           unresolved == [c \in Checks |-> Unresolved(c)]
<1>1. ASSUME NEW c \in Checks
      PROVE  /\ check'[c].status \in {"absent", "pending", "complete", "purged"}
             /\ Unresolved(c)' \subseteq Urls
             /\ check'[c].status \in {"absent", "complete", "purged"} => Unresolved(c)' = {}
  <2>1. check'[c] \in CheckRecords /\ RunIsSound(c)' /\ CompleteIsSettled'
    BY DEF HandOver, TypeOK, Settling
  <2>2. check'[c].status \in {"absent", "pending", "complete", "purged"}
    BY <2>1 DEF CheckRecords, RunStatuses, RunIsSound
  <2>3. Unresolved(c)' \subseteq Urls
    BY <2>1 DEF CheckRecords, Unresolved
  <2>4. check'[c].status \in {"absent", "purged"} => Unresolved(c)' = {}
    BY <2>1 DEF RunIsSound, Exists, Unresolved
  <2>5. check'[c].status = "complete" => Unresolved(c)' = {}
    BY <2>1 DEF CompleteIsSettled, Unresolved
  <2>. QED
    BY <2>2, <2>3, <2>4, <2>5
<1>2. ASSUME NEW c \in Checks
      PROVE  check[c].status \in {"absent", "complete", "purged"} => Unresolved(c) = {}
  <2>1. RunIsSound(c) /\ CompleteIsSettled
    BY DEF HandOver, Settling
  <2>2. check[c].status \in {"absent", "purged"} => Unresolved(c) = {}
    BY <2>1 DEF RunIsSound, Exists, Unresolved
  <2>3. check[c].status = "complete" => Unresolved(c) = {}
    BY <2>1 DEF CompleteIsSettled, Unresolved
  <2>. QED
    BY <2>2, <2>3
<1>3. /\ run' \in [Checks -> Promised!Phases]
      /\ unresolved' \in [Checks -> SUBSET Urls]
  BY <1>1 DEF Promised!Phases
<1>4. ASSUME NEW c \in Checks
      PROVE  /\ run[c] = check[c].status /\ run'[c] = check'[c].status
             /\ unresolved[c] = Unresolved(c) /\ unresolved'[c] = Unresolved(c)'
  OBVIOUS
<1> HIDE DEF run, unresolved
<1>5. ASSUME NEW c \in Checks
      PROVE  \/ run'[c] = run[c] /\ unresolved'[c] = unresolved[c]
             \/ /\ run[c] = "absent" /\ run'[c] \in {"pending", "complete"}
                /\ run'[c] = "complete" => unresolved'[c] = {}
             \/ /\ run[c] = "pending" /\ run'[c] \in {"pending", "complete"}
                /\ unresolved'[c] \subseteq unresolved[c]
                /\ run'[c] = "complete" => unresolved'[c] = {}
             \/ /\ run[c] \in {"pending", "complete"}
                /\ run'[c] = "purged" /\ unresolved'[c] = {}
  BY <1>1, <1>2, <1>4 DEF Progress
<1>. QED
  BY <1>3, <1>5 DEF Promised!Next, Promised!Unchanged, Promised!Accept, Promised!Resolve,
     Promised!Purge, run, unresolved

(* What a poller sees of the service is what LinkCheckRun promises: the    *)
(* report of no check ever regresses, for any number of checks, workers,   *)
(* clients and jobs over the same rows.                                    *)
THEOREM ServiceKeepsPromise == Spec => KeepsPromise
<1>1. Init => HandOver /\ Settling /\ Promised!Init
  <2> SUFFICES ASSUME Init PROVE Promised!Init
    BY HandOverInit, SettlingInit
  <2>1. \A c \in Checks : check[c].status = "absent" /\ Unresolved(c) = {}
    BY DEF Init, NotSubmitted, Unresolved
  <2>. QED
    BY <2>1 DEF Promised!Init
<1>2. HandOver /\ Settling /\ [Next]_vars => (HandOver /\ Settling)'
  BY HandOverStep, SettlingStep
<1>3. HandOver /\ Settling /\ [Next]_vars => [Promised!Next]_Promised!promise
  BY HandOverStep, SettlingStep, PromisedStep
<1>. QED
  BY <1>1, <1>2, <1>3, PTL DEF Spec, KeepsPromise, Promised!Spec

=============================================================================
