--------------------------- MODULE InventoryCache ---------------------------
(***************************************************************************)
(* The cache of Sphinx inventories: the rows of intersphinx_inventory, the *)
(* clients of IntersphinxCacheService.get_inventory (the public endpoint,  *)
(* which never revalidates, and the ingest, which does) and the cron job   *)
(* that runs refresh_inventories.  What an origin answers is taken at one  *)
(* instant of the fetch, what the database does with it at a later one,    *)
(* and other processes, time and crashes fall between the two.             *)
(*                                                                         *)
(* A date is kept as its age, up to the age past which nothing tells two   *)
(* dates apart.  Dates carry microseconds, so two writes never share one,  *)
(* and "date_fetched IS NOT DISTINCT FROM the one that was read" is that   *)
(* nobody has written it since: the flag same of whoever read it.          *)
(***************************************************************************)
EXTENDS Integers, Sequences, FiniteSets

CONSTANTS
    Urls,          \* inventory URLs
    Readers,       \* requests to the public endpoint, which never revalidate
    Ingests,       \* sources being ingested, which do
    Jobs,          \* runs of the refresh job
    IngestModes,   \* the RevalidationModes the ingests use
    TTL,           \* freshness TTL
    NegativeTTL,   \* life of a cached failure
    ActiveWindow,  \* how long after a request the job keeps a copy warm
    Budget,        \* time one fetch may take
    MaxVersion     \* bound: contents an origin serves, one after the other

ASSUME CacheAssumption ==
    /\ {TTL, NegativeTTL, ActiveWindow, Budget} \subseteq Nat
    /\ MaxVersion \in Nat \ {0}
    /\ IsFiniteSet(Urls)
    /\ IngestModes \subseteq {"when_stale", "always"}
    /\ Readers \cap Ingests = {}
    /\ (Readers \cup Ingests) \cap Jobs = {}

VARIABLES
    origin,    \* the version each origin serves
    replaced,  \* how long ago each version stopped being served
    row,       \* intersphinx_inventory
    flight,    \* what each process is doing
    due        \* the rest of each job's due list, as it was read

vars == <<origin, replaced, row, flight, due>>

Clients == Readers \cup Ingests
Procs == Clients \cup Jobs
None == -1       \* SQL NULL, and the content of a row without any
Versions == 1 .. MaxVersion

Larger(a, b) == IF a > b THEN a ELSE b
AgeCap == Larger(TTL, Larger(NegativeTTL, ActiveWindow)) + 1
ReplacedCap == AgeCap + Budget + 1
\* Mutant: a date that is NULL ages too.
AgesFromNull(age, cap) == IF age < cap THEN age + 1 ELSE cap
Older(age, cap) ==
    IF age = None THEN None ELSE IF age < cap THEN age + 1 ELSE cap
Ages == 0 .. AgeCap

NoRow == [cached |-> FALSE, content |-> None, age |-> None, asked |-> 0,
          status |-> "success", backoff |-> None]

Rows == {NoRow} \cup
    [cached : {TRUE}, content : Versions \cup {None}, age : Ages,
     asked : Ages, status : {"success", "failure"}, backoff : Ages \cup {None}]

Modes(c) == IF c \in Readers THEN {"never"} ELSE IngestModes

Grounded == [at |-> "idle"]

TypeOK ==
    /\ origin \in [Urls -> Versions]
    /\ replaced \in [Urls -> [Versions -> 0 .. ReplacedCap]]
    /\ row \in [Urls -> Rows]
    /\ \A p \in Procs :
        \/ flight[p] = Grounded
        \/ flight[p] \in
            [at : {"asking", "reading", "failed", "writing", "superseded",
                   "served"},
             cold : BOOLEAN, url : Urls, held : Versions \cup {None},
             same : BOOLEAN, body : Versions \cup {None}, spent : 0 .. Budget,
             age : Ages]
    /\ \A j \in Jobs : \A i \in DOMAIN due[j] :
        due[j][i] \in [url : Urls, held : Versions \cup {None},
                       same : BOOLEAN, age : Ages]

-----------------------------------------------------------------------------
(* What the code asks of a row.                                            *)

IsStale(u) == row[u].age > TTL
BackingOff(u) == row[u].backoff # None /\ row[u].backoff <= TTL

\* _is_revalidation_due
IsRevalidationDue(u, mode) ==
    \/ mode = "always"
    \/ mode = "when_stale" /\ IsStale(u) /\ ~BackingOff(u)

\* _is_negative_cache_fresh
IsNegativeCacheFresh(u) ==
    /\ row[u].content = None
    /\ row[u].status = "failure"
    /\ row[u].age # None
    /\ row[u].age <= NegativeTTL

\* The due list's WHERE clause (get_stale_active_inventories)
IsDue(u) ==
    /\ row[u].cached
    /\ row[u].asked <= ActiveWindow
    /\ IsStale(u)
    /\ ~BackingOff(u)

-----------------------------------------------------------------------------
(* Processes in flight.                                                    *)

\* held is the copy whose validators are sent, age that copy's.
Fetch(u, held, cold, same, age) ==
    [at |-> "asking", cold |-> cold, url |-> u, held |-> held, same |-> same,
     body |-> None, spent |-> 0, age |-> age]

(* Forget: whoever read date_fetched of a row before now read an old one.  *)
Forget(u, read) == IF read.url = u THEN [read EXCEPT !.same = FALSE] ELSE read

\* date_fetched of u is written by p, which goes on as f.
DateWritten(u, p, f) ==
    /\ flight' = [q \in Procs |->
        IF q = p THEN f
        ELSE IF flight[q] = Grounded THEN Grounded ELSE Forget(u, flight[q])]
    /\ due' = [j \in Jobs |-> [i \in DOMAIN due[j] |-> Forget(u, due[j][i])]]

\* No date_fetched is written; p goes on as f.
Continue(p, f) ==
    /\ flight' = [flight EXCEPT ![p] = f]
    /\ UNCHANGED due

\* A caller is handed a copy and its date; the job only counts.
Served(p, u, content, age) ==
    IF p \in Jobs THEN Grounded
    ELSE [at |-> "served", cold |-> FALSE, url |-> u, held |-> None,
          same |-> FALSE, body |-> content, spent |-> 0, age |-> age]

-----------------------------------------------------------------------------
(* get_inventory: the row is read, and decides.                            *)

\* The stored copy is served as it is, and date_requested bumped.
ServeCached(c, u, mode) ==
    /\ flight[c] = Grounded
    /\ row[u].content # None
    /\ ~IsRevalidationDue(u, mode)
    /\ row' = [row EXCEPT ![u].asked = 0]
    /\ Continue(c, Served(c, u, row[u].content, row[u].age))
    /\ UNCHANGED <<origin, replaced>>

\* The bump is committed before the conditional GET starts.
Revalidate(c, u, mode) ==
    /\ flight[c] = Grounded
    /\ row[u].content # None
    /\ IsRevalidationDue(u, mode)
    /\ row' = [row EXCEPT ![u].asked = 0]
    /\ Continue(c, Fetch(u, row[u].content, FALSE, TRUE, row[u].age))
    /\ UNCHANGED <<origin, replaced>>

\* Nothing cached, or a failure that has outlived the negative TTL.
ColdMiss(c, u) ==
    /\ flight[c] = Grounded
    /\ row[u].content = None
    /\ ~IsNegativeCacheFresh(u)
    /\ Continue(c, Fetch(u, None, TRUE, FALSE, 0))
    /\ UNCHANGED <<origin, replaced, row>>

-----------------------------------------------------------------------------
(* refresh_inventories: the due list is read and committed, then each of   *)
(* its rows is revalidated from what was read of it.                       *)

StalestFirst(list) ==
    \A i, j \in DOMAIN list : i < j => list[i].age >= list[j].age

StartJob(j) ==
    /\ flight[j] = Grounded
    /\ due[j] = <<>>
    /\ \E list \in [1 .. Cardinality({u \in Urls : IsDue(u)}) ->
            {[url |-> u, held |-> row[u].content, same |-> TRUE,
              age |-> row[u].age] : u \in {v \in Urls : IsDue(v)}}] :
        /\ list # <<>>
        /\ \A u \in Urls : IsDue(u) => \E i \in DOMAIN list : list[i].url = u
        /\ StalestFirst(list)
        /\ due' = [due EXCEPT ![j] = list]
    /\ UNCHANGED <<origin, replaced, row, flight>>

NextDue(j) ==
    /\ flight[j] = Grounded
    /\ due[j] # <<>>
    /\ LET read == Head(due[j]) IN
        flight' = [flight EXCEPT ![j] =
            Fetch(read.url, read.held, FALSE, read.same, read.age)]
    /\ due' = [due EXCEPT ![j] = Tail(due[j])]
    /\ UNCHANGED <<origin, replaced, row>>

-----------------------------------------------------------------------------
(* The fetch (_refresh_one up to its writes, _fetch_and_store up to its).  *)

\* The origin answers: 304 when the copy held is the one it serves, if it
\* looks at validators at all, else 200 and the version it serves.
Answer(p) ==
    LET f == flight[p] IN
    /\ f # Grounded /\ f.at = "asking"
    /\ \/ Continue(p, [f EXCEPT !.at = "reading", !.body = origin[f.url]])
       \/ /\ f.held = origin[f.url]
          /\ Continue(p, [f EXCEPT !.at = "reading"])
    /\ UNCHANGED <<origin, replaced, row>>

\* The body is in, and date_fetched is now.
FetchEnds(p) ==
    /\ flight[p] # Grounded /\ flight[p].at = "reading"
    /\ Continue(p, [flight[p] EXCEPT !.at = "writing", !.age = 0, !.spent = 0])
    /\ UNCHANGED <<origin, replaced, row>>

\* An error status, a lost connection, a refused hop, or the budget is spent.
FetchFails(p) ==
    /\ flight[p] # Grounded /\ flight[p].at \in {"asking", "reading"}
    /\ Continue(p, [flight[p] EXCEPT !.at = "failed", !.body = None, !.spent = 0])
    /\ UNCHANGED <<origin, replaced, row>>

\* The guard refuses the URL a client asked for: a 400, and nothing stored.
Refuse(c) ==
    /\ flight[c] # Grounded /\ flight[c].at = "asking" /\ flight[c].cold
    /\ Continue(c, Grounded)
    /\ UNCHANGED <<origin, replaced, row>>

-----------------------------------------------------------------------------
(* The writes.                                                             *)

\* upsert_inventory: every column, whatever the row holds by now.
StoreFetched(c) ==
    LET f == flight[c] IN
    /\ f # Grounded /\ f.at = "writing" /\ f.cold
    /\ row' = [row EXCEPT ![f.url] =
        [cached |-> TRUE, content |-> f.body, age |-> f.age, asked |-> f.age,
         status |-> "success", backoff |-> None]]
    /\ DateWritten(f.url, c, Served(c, f.url, f.body, f.age))
    /\ UNCHANGED <<origin, replaced>>

\* Mutant: the upsert lacks its WHERE.
CachesAnyFailure(u) == TRUE

\* upsert_fetch_failure: an insert, or an update WHERE content IS NULL.
MayCacheFailure(u) == row[u].content = None

StoreFailure(c) ==
    LET f == flight[c] IN
    /\ f # Grounded /\ f.at = "failed" /\ f.cold
    /\ IF MayCacheFailure(f.url)
       THEN /\ row' = [row EXCEPT ![f.url] =
                [NoRow EXCEPT !.cached = TRUE, !.age = 0, !.status = "failure"]]
            /\ DateWritten(f.url, c, Grounded)
       ELSE UNCHANGED row /\ Continue(c, Grounded)
    /\ UNCHANGED <<origin, replaced>>

\* Mutant: the update is keyed on the URL alone.
WritesAnyway(f) == TRUE

\* _write_refresh_columns: the outcome columns, the content too after a 200,
\* and never date_requested; only while date_fetched is the one read.
MayWrite(f) == f.same

\* Mutant: a 304 leaves date_fetched where it was.
RevalidationKeepsDate(u, f) ==
    [row[u] EXCEPT !.status = "success", !.backoff = None,
                   !.age = IF f.body = None THEN @ ELSE f.age,
                   !.content = IF f.body = None THEN @ ELSE f.body]

OutcomeColumns(u, f) ==
    [row[u] EXCEPT !.age = f.age, !.status = "success", !.backoff = None,
                   !.content = IF f.body = None THEN @ ELSE f.body]

WriteRefresh(p) ==
    LET f == flight[p]
        content == IF f.body = None THEN f.held ELSE f.body
    IN
    /\ f # Grounded /\ f.at = "writing" /\ ~f.cold
    /\ IF MayWrite(f)
       THEN /\ row' = [row EXCEPT ![f.url] = OutcomeColumns(f.url, f)]
            /\ DateWritten(f.url, p, Served(p, f.url, content, f.age))
       ELSE /\ Continue(p, IF p \in Jobs THEN Grounded
                           ELSE [f EXCEPT !.at = "superseded"])
            /\ UNCHANGED row
    /\ UNCHANGED <<origin, replaced>>

\* _serve_current_row: the row that superseded this outcome is read back.
ServeCurrentRow(c) ==
    LET f == flight[c] IN
    /\ f # Grounded /\ f.at = "superseded"
    /\ Continue(c, Served(c, f.url, row[f.url].content, row[f.url].age))
    /\ UNCHANGED <<origin, replaced, row>>

\* Mutant: a failed refresh moves the freshness anchor.
FailureMovesDate(u) ==
    [row[u] EXCEPT !.status = "failure", !.backoff = 0, !.age = 0]

\* update_refresh_failure, under the same guard: the status and the backoff.
FailureColumns(u) == [row[u] EXCEPT !.status = "failure", !.backoff = 0]

\* Mutant: the failure is recorded on whatever the row holds by now.
BlamesAnyway(f) == TRUE

MayRecordFailure(f) == f.same

RecordFailure(p) ==
    LET f == flight[p] IN
    /\ f # Grounded /\ f.at = "failed" /\ ~f.cold
    /\ row' = IF MayRecordFailure(f)
              THEN [row EXCEPT ![f.url] = FailureColumns(f.url)] ELSE row
    /\ Continue(p, Served(p, f.url, f.held, f.age))
    /\ UNCHANGED <<origin, replaced>>

\* The database refuses that write; the error is logged and swallowed.
FailureUnrecorded(p) ==
    /\ flight[p] # Grounded /\ flight[p].at = "failed" /\ ~flight[p].cold
    /\ Continue(p, Served(p, flight[p].url, flight[p].held, flight[p].age))
    /\ UNCHANGED <<origin, replaced, row>>

-----------------------------------------------------------------------------
(* The world.                                                              *)

\* The response has gone out.
Done(c) ==
    /\ flight[c] # Grounded /\ flight[c].at = "served"
    /\ Continue(c, Grounded)
    /\ UNCHANGED <<origin, replaced, row>>

\* A cancelled request, a restarted pod, a job whose write failed.
Crash(p) ==
    /\ flight[p] # Grounded /\ flight[p].at # "served"
    /\ flight' = [flight EXCEPT ![p] = Grounded]
    /\ due' = IF p \in Jobs THEN [due EXCEPT ![p] = <<>>] ELSE due
    /\ UNCHANGED <<origin, replaced, row>>

Publish(u) ==
    /\ origin[u] < MaxVersion
    /\ origin' = [origin EXCEPT ![u] = @ + 1]
    /\ UNCHANGED <<replaced, row, flight, due>>

Fetching(f) == f # Grounded /\ f.at \in {"asking", "reading"}

Aged(f) ==
    IF f = Grounded THEN f
    ELSE [f EXCEPT !.age = Older(@, AgeCap),
                   !.spent = IF Fetching(f) THEN @ + 1 ELSE @]

\* _fetch_budget cancels a fetch that has spent it, no statement waits for
\* a row lock for a whole TTL, and a response is sent when it is ready.
Tick ==
    /\ \A p \in Procs :
        /\ flight[p] # Grounded => flight[p].at # "served"
        /\ Fetching(flight[p]) => flight[p].spent < Budget
        /\ flight[p] # Grounded /\ flight[p].at = "writing" =>
            flight[p].age < TTL
    /\ replaced' = [u \in Urls |-> [v \in Versions |->
        IF v < origin[u] THEN Older(replaced[u][v], ReplacedCap) ELSE 0]]
    /\ row' = [u \in Urls |->
        [row[u] EXCEPT !.age = Older(@, AgeCap), !.backoff = Older(@, AgeCap),
                       !.asked = IF row[u].cached THEN Older(@, AgeCap) ELSE @]]
    /\ flight' = [p \in Procs |-> Aged(flight[p])]
    /\ due' = [j \in Jobs |-> [i \in DOMAIN due[j] |->
        [due[j][i] EXCEPT !.age = Older(@, AgeCap)]]]
    /\ UNCHANGED origin

Init ==
    /\ origin = [u \in Urls |-> 1]
    /\ replaced = [u \in Urls |-> [v \in Versions |-> 0]]
    /\ row = [u \in Urls |-> NoRow]
    /\ flight = [p \in Procs |-> Grounded]
    /\ due = [j \in Jobs |-> <<>>]

Client(c) ==
    \/ \E u \in Urls :
        \/ ColdMiss(c, u)
        \/ \E mode \in Modes(c) : ServeCached(c, u, mode) \/ Revalidate(c, u, mode)
    \/ Refuse(c)
    \/ StoreFetched(c)
    \/ StoreFailure(c)
    \/ ServeCurrentRow(c)
    \/ Done(c)

Refresh(p) ==
    \/ Answer(p)
    \/ FetchEnds(p)
    \/ FetchFails(p)
    \/ WriteRefresh(p)
    \/ RecordFailure(p)
    \/ FailureUnrecorded(p)

Next ==
    \/ \E c \in Clients : Client(c)
    \/ \E j \in Jobs : StartJob(j) \/ NextDue(j)
    \/ \E p \in Procs : Refresh(p) \/ Crash(p)
    \/ \E u \in Urls : Publish(u)
    \/ Tick

Spec == Init /\ [][Next]_vars

-----------------------------------------------------------------------------
(* A copy's age tells how old its content can be.  The ETag and Age        *)
(* headers, and the freshness TTL, rest on it: content dated d was what    *)
(* its origin served at d, or a fetch budget before, however many fetches  *)
(* overlapped and whatever failed (_fetch_and_store, _refresh_one).        *)
TrueAtItsAge(u, content, age) ==
    content = None \/ age = AgeCap \/ content = origin[u]
    \/ replaced[u][content] <= age + Budget

AgeIsHonest ==
    /\ \A u \in Urls : TrueAtItsAge(u, row[u].content, row[u].age)
    /\ \A c \in Clients :
        flight[c] # Grounded /\ flight[c].at = "served" =>
            TrueAtItsAge(flight[c].url, flight[c].body, flight[c].age)

(* A failure never takes away what can be served: once a URL has content   *)
(* it keeps some, whatever races with its cold misses                      *)
(* (upsert_fetch_failure).                                                 *)
ContentSurvives ==
    [][ \A u \in Urls : row[u].content # None => row'[u].content # None ]_vars

(* A refresh computed from a row that was replaced meanwhile does not take *)
(* it back (_write_refresh_columns).                                       *)
RefreshNeverReverts ==
    [][ \A p \in Procs : WriteRefresh(p) =>
            \A u \in Urls : row'[u].content >= row[u].content ]_vars

(* Without callers that always revalidate, only a stale copy is asked      *)
(* about, so only a stale copy is marked as failing: never the fresh one   *)
(* that another process stored while the fetch that failed was under way   *)
(* (update_refresh_failure).                                               *)
FreshIsNotBlamed ==
    "always" \notin IngestModes =>
        \A u \in Urls :
            row[u].content # None /\ row[u].backoff # None =>
                row[u].age > TTL /\ row[u].status = "failure"

(* The job settles a row that nobody else has written since it read it:    *)
(* after a 304, a 200 or a failure alike the row is not due any more, so   *)
(* that a row is not asked about run after run and starves no other one    *)
(* (refresh_inventories, get_stale_active_inventories).                    *)
DueIsSettled ==
    [][ \A j \in Jobs, u \in Urls :
            /\ WriteRefresh(j) \/ RecordFailure(j)
            /\ flight[j].url = u /\ flight[j].same
            => ~IsDue(u)' ]_vars
=============================================================================
