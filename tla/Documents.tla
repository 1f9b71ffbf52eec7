----------------------------- MODULE Documents -----------------------------
(***************************************************************************)
(* The identity of documents in the bibliography: requests that ingest     *)
(* documents, each in a transaction of its own with a savepoint for each   *)
(* document.  A document is resolved to a row by three statements, one for *)
(* each unique constraint that it could meet, and then updates that row or *)
(* is inserted under a fresh ID.  Its contributors and relations follow,   *)
(* and may fail when the row is written.                                   *)
(*                                                                         *)
(* Only the identifying columns are kept.  The statements that write a row *)
(* are taken as one, and a row's date_updated always changes: ingests of a *)
(* document are a second apart or more.                                    *)
(***************************************************************************)
EXTENDS Integers, FiniteSets

CONSTANTS
    Docs,       \* documents: records of a handle, a (series, number), a DOI
    Ids,        \* resource IDs, 1 .. n
    Requests    \* POST /ingest/resources/documents

VARIABLES
    resource,   \* resource and document_resource, as committed
    batch       \* the requests

vars == <<resource, batch>>

New == 0        \* the resolution of a document that has no row
NoDoi == "none"
Absent == [handle |-> "", slot |-> "", doi |-> NoDoi]

Columns == {"handle", "slot", "doi"}
Rows == [handle : {d.handle : d \in Docs}, slot : {d.slot : d \in Docs},
         doi : {d.doi : d \in Docs} \cup {NoDoi}] \cup {Absent}

Nothing == [i \in Ids |-> Absent]
Idle == [at |-> "idle", doc |-> Absent, id |-> New, loaded |-> Absent,
         mine |-> Nothing, savepoint |-> Nothing, quiet |-> FALSE, result |-> "none"]

TypeOK ==
    /\ resource \in [Ids -> Rows]
    /\ batch \in [Requests ->
        [at : {"idle", "handle", "slot", "doi", "loading", "writing", "relating"},
         doc : Rows, id : Ids \cup {New}, loaded : Rows, mine : [Ids -> Rows],
         savepoint : [Ids -> Rows], quiet : BOOLEAN,
         result : {"none", "created", "updated", "failed"}]]

-----------------------------------------------------------------------------

\* The commits under a request's own writes.
Under(writes) ==
    [i \in Ids |-> IF writes[i] # Absent THEN writes[i] ELSE resource[i]]

\* What a request's statements see, and what they saw at its savepoint.
View(r) == Under(batch[r].mine)
Before(r) == Under(batch[r].savepoint)

\* document_resource_handle_key, uq_document_series_number and the unique
\* doi, in which NULLs are distinct.
Clash(a, b) ==
    /\ a # Absent /\ b # Absent
    /\ \/ a.handle = b.handle
       \/ a.slot = b.slot
       \/ a.doi = b.doi /\ a.doi # NoDoi

\* post_ingest_documents goes on to its next document.
Take(r, doc) ==
    /\ batch[r].at = "idle"
    /\ batch' = [batch EXCEPT ![r].at = "handle", ![r].doc = doc,
                              ![r].savepoint = batch[r].mine,
                              ![r].quiet = TRUE, ![r].result = "none"]
    /\ UNCHANGED resource

\* One statement of _resolve_document_id.
LookUp(r, column, otherwise) ==
    LET doc == batch[r].doc
        found == {i \in Ids : /\ View(r)[i] # Absent
                              /\ View(r)[i][column] = doc[column]
                              /\ doc[column] # NoDoi}
    IN
    /\ batch[r].at = column
    /\ IF found = {}
       THEN batch' = [batch EXCEPT ![r].at = otherwise, ![r].id = New]
       ELSE \E i \in found :
                batch' = [batch EXCEPT ![r].at = "loading", ![r].id = i]
    /\ UNCHANGED resource

\* Mutant: the handle and the DOI are enough.
SkipsTheNumber(r) ==
    \/ LookUp(r, "handle", "doi")
    \/ LookUp(r, "doi", "writing")

Resolve(r) ==
    \/ LookUp(r, "handle", "slot")
    \/ LookUp(r, "slot", "doi")
    \/ LookUp(r, "doi", "writing")

\* The select of _upsert_joined_inheritance.
Load(r) ==
    /\ batch[r].at = "loading"
    /\ batch' = [batch EXCEPT ![r].at = "writing",
                              ![r].loaded = View(r)[batch[r].id]]
    /\ UNCHANGED resource

-----------------------------------------------------------------------------

\* The row is locked by another request, or a key is in its uncommitted
\* writes, to be taken or given up.
WaitsFor(r, s) ==
    /\ batch[r].at = "writing" /\ s # r
    /\ \E i \in Ids :
        /\ batch[s].mine[i] # Absent
        /\ \/ i = batch[r].id
           \/ Clash(batch[s].mine[i], batch[r].doc)
           \/ Clash(resource[i], batch[r].doc)

Waits(r) == \E s \in Requests : WaitsFor(r, s)

\* IDs that no request has used, and the next of them.
Fresh ==
    {i \in Ids : resource[i] = Absent /\ \A s \in Requests : batch[s].mine[i] = Absent}

Targets(r) ==
    IF batch[r].id # New THEN {batch[r].id} ELSE {i \in Fresh : \A j \in Fresh : i <= j}

\* _update_document sets the columns that differ from what was loaded.
Written(r) ==
    IF batch[r].id = New THEN batch[r].doc
    ELSE [c \in Columns |->
            IF batch[r].doc[c] # batch[r].loaded[c] THEN batch[r].doc[c]
            ELSE View(r)[batch[r].id][c]]

Refused(r) ==
    \E i \in Ids \ {batch[r].id} : Clash(View(r)[i], Written(r))

\* _insert_new_document, _update_document
Write(r) ==
    /\ batch[r].at = "writing" /\ ~Waits(r) /\ ~Refused(r)
    /\ \E i \in Targets(r) :
        batch' = [batch EXCEPT ![r].at = "relating", ![r].mine[i] = Written(r)]
    /\ UNCHANGED resource

Settled(r, writes, what) ==
    [batch EXCEPT ![r] = [Idle EXCEPT !.mine = writes, !.result = what]]

\* _upsert_contributors, _upsert_relations, and the document is read again.
Relate(r) ==
    /\ batch[r].at = "relating"
    /\ batch' = Settled(r, batch[r].mine,
                        IF batch[r].id = New THEN "created" ELSE "updated")
    /\ UNCHANGED resource

\* A row that this request has written is what the other may wait for when it
\* relates its document.
Deadlocked(r) ==
    \E s \in Requests :
        /\ WaitsFor(r, s)
        /\ WaitsFor(s, r) \/ (batch[s].at = "relating" /\ batch[r].mine # Nothing)

\* A unique constraint is met, a deadlock is broken, or something that goes
\* with the document is refused, such as an external reference without any
\* identifier.
FailsNow(r) ==
    \/ batch[r].at = "writing" /\ ~Waits(r) /\ Refused(r)
    \/ Deadlocked(r)
    \/ batch[r].at = "relating"

\* Mutant: what the failed document has written is kept.
KeepsTheRow(r) ==
    /\ FailsNow(r)
    /\ batch' = Settled(r, batch[r].mine, "failed")
    /\ UNCHANGED resource

\* The savepoint is rolled back, and the batch goes on.
Fail(r) ==
    /\ FailsNow(r)
    /\ batch' = Settled(r, batch[r].savepoint, "failed")
    /\ UNCHANGED resource

Commit(r) ==
    /\ batch[r].at = "idle"
    /\ resource' = View(r)
    /\ batch' = [s \in Requests |->
            IF s = r THEN Idle
            ELSE [batch[s] EXCEPT !.quiet = @ /\ batch[r].mine = Nothing]]

\* The request dies and is sent again, or not.
Crash(r) ==
    /\ batch' = [batch EXCEPT ![r] = Idle]
    /\ UNCHANGED resource

Init ==
    /\ resource = Nothing
    /\ batch = [r \in Requests |-> Idle]

Next ==
    \E r \in Requests :
        \/ \E doc \in Docs : Take(r, doc)
        \/ Resolve(r)
        \/ Load(r)
        \/ Write(r)
        \/ Relate(r)
        \/ Fail(r)
        \/ Commit(r)
        \/ Crash(r)

Spec == Init /\ [][Next]_vars

-----------------------------------------------------------------------------

Holders(r) == {i \in Ids : Clash(Before(r)[i], batch[r].doc)}

\* What becomes of a document that no commit overtook since its resolution
\* began.
IsUpdate(r) ==
    LET result == batch[r].result'
        Stores(i) == View(r)' = [Before(r) EXCEPT ![i] = batch[r].doc]
    IN
    \/ /\ result = "created" /\ Holders(r) = {}
       /\ \E i \in Ids : Before(r)[i] = Absent /\ Stores(i)
    \/ /\ result = "updated"
       /\ \E i \in Holders(r) : Stores(i)
    \/ /\ result = "failed"
       /\ Cardinality(Holders(r)) > 1 \/ Waits(r) \/ batch[r].at = "relating"

LeavesNoTrace(r) == View(r)' = Before(r)

ReingestsUpdate ==
    \A r \in Requests : batch[r].at # "idle" =>
        /\ batch[r].quiet /\ batch[r].result' # "none" => IsUpdate(r)
        /\ batch[r].result' = "failed" => LeavesNoTrace(r)

(* A document that shares an identity with a stored one updates its row in *)
(* place and no other, whichever of its three keys has changed, and one    *)
(* that shares none is created, unless                                     *)
(*   - another request commits between its resolution and its result,      *)
(*   - its keys are those of two rows: the write meets a unique constraint *)
(*     (upsert_document's docstring says that it never does),              *)
(*   - it waits for another request: a deadlock may be broken, or          *)
(*   - what goes with it is refused, when its row is written.              *)
(* In the last three cases it may fail.  Whenever it fails, commits or no  *)
(* commits, it leaves no trace in the batch (upsert_document,              *)
(* post_ingest_documents).                                                 *)
ReingestIsUpdate == [][ReingestsUpdate]_vars
=============================================================================
