---------------------------- MODULE SourceIngest ----------------------------
(***************************************************************************)
(* The registry of documentation sites and the ingest of their             *)
(* inventories: sweeps over the enabled sources and triggers of one        *)
(* (IntersphinxIngestService), registrations, PATCHes and deletions        *)
(* (IntersphinxSourceService), and what they share in the database: the    *)
(* rows of intersphinx_source, the entities, and the links of each source  *)
(* to them.                                                                *)
(*                                                                         *)
(* A transaction writes under two locks, the source's registration row     *)
(* (SELECT ... FOR UPDATE) and the entity graph's advisory lock, and what  *)
(* it writes is seen when it commits.  An inventory's bytes are the set of *)
(* names it documents, and are their own digest: two sites that document   *)
(* the same names serve the same bytes.  The inventory cache serves what   *)
(* InventoryCache says: the site's inventory, or a copy of it from before. *)
(***************************************************************************)
EXTENDS Integers, Sequences, FiniteSets, SequencesExt

CONSTANTS
    Sources,       \* registration ids; a deleted one never comes back
    Urls,          \* where inventories are
    Titles,        \* titles a source can be given
    Names,         \* documented objects
    Contents,      \* what an inventory can document
    Starts,        \* the sources that can be registered at the start
    Home,          \* the site each of them is for
    Parent,        \* Parent[n]: the name that n's last dot nests it under
    NoName,        \* what Parent gives for a name with no dot
    Workers,       \* ingest runs and API requests
    Null,          \* SQL NULL, and bytes never seen
    Garbled,       \* bytes that are no inventory
    PatchesRace,   \* does a PATCH compare with the digest it loaded?
    MaxEvents      \* bound: publications, requests to the API, refused writes

Free == "free"             \* a lock nobody holds
NoSource == "no source"    \* the source of a convergence

ASSUME IngestAssumption ==
    /\ IsFiniteSet(Sources) /\ NoSource \notin Sources
    /\ Free \notin Workers
    /\ Titles # {}
    /\ NoName \notin Names
    /\ Parent \in [Names -> Names \cup {NoName}]
    /\ Contents \subseteq SUBSET Names
    /\ Starts \subseteq SUBSET Sources
    /\ Home \in [Sources -> Urls] /\ IsInjective(Home)
    /\ Garbled \notin Contents
    /\ Null \notin Contents \cup {Garbled}
    /\ PatchesRace \in BOOLEAN
    /\ MaxEvents \in Nat

VARIABLES
    published,  \* the bytes at each URL
    cached,     \* the copy the inventory cache holds
    source,     \* intersphinx_source
    links,      \* intersphinx_link
    entities,   \* intersphinx_entity
    nested,     \* the entities whose parent_id is set
    worker,     \* what each run or request is doing
    registration, \* who holds each source's row lock
    graph,      \* who holds the entity graph's lock
    events      \* publications, requests and refusals so far

vars == <<published, cached, source, links, entities, nested, worker,
          registration, graph, events>>
database == <<source, links, entities, nested>>
world == <<published, cached>>
locks == <<registration, graph>>

Bytes == Contents \cup {Garbled}

Row(url, title, enabled) ==
    [state |-> "registered", url |-> url, title |-> title, enabled |-> enabled,
     status |-> "none", digest |-> Null]
Unused == [state |-> "unused"]
Deleted == [state |-> "deleted"]
Registered(s) == source[s].state = "registered"

Rows == {Unused, Deleted} \cup
    [state : {"registered"}, url : Urls, title : Titles, enabled : BOOLEAN,
     status : {"none", "success", "failure"}, digest : Bytes \cup {Null}]

Links == [source : Sources, name : Names, url : Urls, title : Titles]

-----------------------------------------------------------------------------
(* The entity graph.                                                       *)

NamesOf(L) == {l.name : l \in L}

\* recompute_containment: n sits under its parent while something links to it.
NestedBy(L, E) == {n \in E : Parent[n] \in NamesOf(L) \cap E}

\* A change that never collects.
NeverPrunes(L, E) == {}

\* prune_orphan_entities
Orphans(L, E) == E \ NamesOf(L)

Converged == entities = NamesOf(links) /\ nested = NestedBy(links, entities)

\* What one transaction is about to do to the links of s: its entities are
\* upserted, its links replaced, and both judged with every link it can see.
LinksOf(s, content, row) ==
    [source : {s}, name : content, url : {row.url}, title : {row.title}]

Change(s, new) ==
    LET L == {l \in links : l.source # s} \cup new
        E == entities \cup NamesOf(new)
    IN [source |-> s, new |-> new, nested |-> NestedBy(L, E),
        orphans |-> Orphans(L, E)]

Convergence == Change(NoSource, {})

\* The commit: a deleted entity takes its links with it.
Apply(change) ==
    LET L == {l \in links : l.source # change.source} \cup change.new
    IN /\ links' = {l \in L : l.name \notin change.orphans}
       /\ entities' = (entities \cup NamesOf(change.new)) \ change.orphans
       /\ nested' = change.nested \ change.orphans

-----------------------------------------------------------------------------
(* What runs and requests share.                                           *)

Idle == [at |-> "idle"]
Task(op, at, s, url) ==
    [op |-> op, at |-> at, todo |-> <<>>, replaced |-> FALSE, id |-> s,
     url |-> url, title |-> Null, bytes |-> Null, same |-> TRUE,
     change |-> Null]

At(w, where) == worker[w] # Idle /\ worker[w].at = where

\* A sweep that leaves convergence to the sources that replaced their links.
TurnsWithoutConverging(t) ==
    IF t.op = "sweep" /\ t.todo # <<>>
    THEN [Task("sweep", "fetching", Head(t.todo).id, Head(t.todo).url)
            EXCEPT !.todo = Tail(t.todo)]
    ELSE Idle

\* One source is done with.  A sweep turns to the next, and one that replaced
\* no source's links converges the graph on its own.
Turn(t) ==
    CASE t.op # "sweep" -> Idle
      [] t.op = "sweep" /\ t.todo # <<>> ->
            [Task("sweep", "fetching", Head(t.todo).id, Head(t.todo).url)
                EXCEPT !.todo = Tail(t.todo), !.replaced = t.replaced]
      [] t.op = "sweep" /\ t.todo = <<>> ->
            IF t.replaced THEN Idle ELSE Task("converge", "graph", NoSource, Null)

\* The row of s is stamped with an outcome; date_ingested moves.
Stamped(s, status, digest) ==
    [source EXCEPT ![s].status = status,
                   ![s].digest = IF status = "success" THEN digest ELSE @]

Step(w, t) == worker' = [worker EXCEPT ![w] = t]
StampStep(w, s, t) ==
    worker' = [v \in Workers |->
        IF v = w THEN t
        ELSE IF worker[v] # Idle /\ worker[v].id = s
        THEN [worker[v] EXCEPT !.same = FALSE] ELSE worker[v]]

\* A lock that outlives its transaction.
KeepsTheGraph(w) ==
    /\ registration' = [s \in Sources |->
        IF registration[s] = w THEN Free ELSE registration[s]]
    /\ UNCHANGED graph

Release(w) ==
    /\ registration' = [s \in Sources |->
        IF registration[s] = w THEN Free ELSE registration[s]]
    /\ graph' = IF graph = w THEN Free ELSE graph

Event ==
    /\ events < MaxEvents
    /\ events' = events + 1

-----------------------------------------------------------------------------
(* Ingest.                                                                 *)

\* list_sources(enabled_only=True)
StartSweep(w) ==
    /\ worker[w] = Idle
    /\ Step(w, Turn([Task("sweep", "listed", NoSource, Null) EXCEPT
        !.todo = SetToSeq({[id |-> s, url |-> source[s].url] :
            s \in {v \in Sources : Registered(v) /\ source[v].enabled}})]))
    /\ UNCHANGED <<world, database, locks, events>>

\* get_source_by_url: the source is ingested whether it is enabled or not.
StartTrigger(w, s) ==
    /\ worker[w] = Idle
    /\ Registered(s)
    /\ Event
    /\ Step(w, Task("trigger", "fetching", s, source[s].url))
    /\ UNCHANGED <<world, database, locks>>

\* The cache fetches the inventory, or finds it unchanged.
ReadCurrent(w) ==
    /\ At(w, "fetching")
    /\ LET u == worker[w].url IN
        /\ cached' = [cached EXCEPT ![u] = published[u]]
        /\ Step(w, [worker[w] EXCEPT !.at = "lock", !.bytes = published[u]])
    /\ UNCHANGED <<published, database, locks, events>>

\* The cache serves its copy: it is fresh, or the origin cannot be reached.
ReadStale(w) ==
    /\ At(w, "fetching")
    /\ LET u == worker[w].url IN
        /\ cached[u] # Null
        /\ Step(w, [worker[w] EXCEPT !.at = "lock", !.bytes = cached[u]])
    /\ UNCHANGED <<world, database, locks, events>>

\* There is no copy and the origin fails.
ReadFails(w) ==
    /\ At(w, "fetching") /\ cached[worker[w].url] = Null
    /\ Step(w, [worker[w] EXCEPT !.at = "failed"])
    /\ UNCHANGED <<world, database, locks, events>>

\* record_ingest_outcome by id, whatever the row says by now.
RecordReadFailure(w) ==
    /\ At(w, "failed")
    /\ LET t == worker[w] IN
        /\ registration[t.id] = Free
        /\ source' = IF Registered(t.id)
                     THEN Stamped(t.id, "failure", Null) ELSE source
        /\ StampStep(w, t.id, Turn(t))
    /\ UNCHANGED <<world, links, entities, nested, locks, events>>

\* A read without FOR UPDATE.
ReadsUnlocked(w) == At(w, "lock")

\* lock_source: wait for the row, and read it as it stands.
Locks(w) ==
    /\ At(w, "lock")
    /\ registration[worker[w].id] = Free

\* A source deregistered or repointed while its inventory was fetched.
StillNames(t) == Registered(t.id) /\ source[t.id].url = t.url

Abandon(w) ==
    /\ Locks(w)
    /\ ~StillNames(worker[w])
    /\ Step(w, Turn(worker[w]))
    /\ UNCHANGED <<world, database, locks, events>>

\* _is_already_ingested, of the row under its lock
IsAlreadyIngested(t) ==
    /\ source[t.id].status = "success"
    /\ source[t.id].digest # Null
    /\ source[t.id].digest = t.bytes

RecordUnchanged(w) ==
    LET t == worker[w] IN
    /\ Locks(w)
    /\ StillNames(t) /\ IsAlreadyIngested(t)
    /\ source' = Stamped(t.id, "success", t.bytes)
    /\ StampStep(w, t.id, Turn(t))
    /\ UNCHANGED <<world, links, entities, nested, locks, events>>

RecordParseFailure(w) ==
    LET t == worker[w] IN
    /\ Locks(w)
    /\ StillNames(t) /\ ~IsAlreadyIngested(t) /\ t.bytes = Garbled
    /\ source' = Stamped(t.id, "failure", Null)
    /\ StampStep(w, t.id, Turn(t))
    /\ UNCHANGED <<world, links, entities, nested, locks, events>>

LockSource(w) ==
    LET t == worker[w] IN
    /\ Locks(w)
    /\ StillNames(t) /\ ~IsAlreadyIngested(t) /\ t.bytes # Garbled
    /\ registration' = [registration EXCEPT ![t.id] = w]
    /\ Step(w, [t EXCEPT !.at = "graph", !.title = source[t.id].title])
    /\ UNCHANGED <<world, database, graph, events>>

-----------------------------------------------------------------------------
(* Writing: _store_links, _converge_entities, and the commit.              *)

\* Converging without the advisory lock.
DoesNotWait == TRUE

GraphIsFree == graph = Free

ChangeOf(t) ==
    CASE t.op = "converge" -> Convergence
      [] t.op = "delete" -> Change(t.id, {})
      [] OTHER -> Change(t.id, LinksOf(t.id, t.bytes, t))

Write(w) ==
    /\ At(w, "graph")
    /\ GraphIsFree
    /\ graph' = w
    /\ Step(w, [worker[w] EXCEPT !.at = "writing", !.change = ChangeOf(worker[w])])
    /\ UNCHANGED <<world, database, registration, events>>

Commit(w) ==
    LET t == worker[w] IN
    /\ At(w, "writing")
    /\ Apply(t.change)
    /\ source' = CASE t.op = "converge" -> source
                   [] t.op = "delete" -> [source EXCEPT ![t.id] = Deleted]
                   [] OTHER -> Stamped(t.id, "success", t.bytes)
    /\ StampStep(w, t.id, Turn([t EXCEPT !.replaced = TRUE]))
    /\ Release(w)
    /\ UNCHANGED <<world, events>>

\* The database refuses: the transaction is rolled back, its locks dropped.
Refuse(w) ==
    /\ At(w, "writing")
    /\ Event
    /\ Step(w, IF worker[w].op \in {"converge", "delete"} THEN Idle
               ELSE [worker[w] EXCEPT !.at = "refused", !.same = TRUE,
                                      !.change = Null])
    /\ Release(w)
    /\ UNCHANGED <<world, database>>

\* The row is locked and read again: a failure of this attempt is stamped
\* unless somebody has described the row since.
IsStillOurs(t) == StillNames(t) /\ t.same

RecordRefusedWrite(w) ==
    LET t == worker[w] IN
    /\ At(w, "refused")
    /\ registration[t.id] = Free
    /\ IF IsStillOurs(t)
       THEN /\ source' = Stamped(t.id, "failure", Null)
            /\ StampStep(w, t.id, Turn(t))
       ELSE UNCHANGED source /\ Step(w, Turn(t))
    /\ UNCHANGED <<world, links, entities, nested, locks, events>>

Crash(w) ==
    /\ worker[w] # Idle
    /\ Event
    /\ Step(w, Idle)
    /\ Release(w)
    /\ UNCHANGED <<world, database>>

-----------------------------------------------------------------------------
(* The registry (IntersphinxSourceService), and the sites.                 *)

UrlIsTaken(u, s) == \E v \in Sources \ {s} : Registered(v) /\ source[v].url = u

Register(s, u, title, enabled) ==
    /\ Event
    /\ source[s] = Unused
    /\ ~UrlIsTaken(u, s)
    /\ source' = [source EXCEPT ![s] = Row(u, title, enabled)]
    /\ UNCHANGED <<world, links, entities, nested, worker, locks>>

\* update_source sets what the request names on the row it loaded, and the
\* flush writes the columns that now differ from what was loaded: a digest
\* that was NULL then is not cleared again.
Differs(loaded, change) == change.url # loaded.url \/ change.title # loaded.title

\* A PATCH that leaves the digest alone.
PatchedWithDigest(row, loaded, change) ==
    [row EXCEPT
        !.url = IF change.url # loaded.url THEN change.url ELSE @,
        !.title = IF change.title # loaded.title THEN change.title ELSE @,
        !.enabled = IF change.enabled # loaded.enabled THEN change.enabled ELSE @]

Patched(row, loaded, change) ==
    LET digest == IF PatchesRace THEN loaded.digest ELSE row.digest IN
    [row EXCEPT
        !.url = IF change.url # loaded.url THEN change.url ELSE @,
        !.title = IF change.title # loaded.title THEN change.title ELSE @,
        !.enabled = IF change.enabled # loaded.enabled THEN change.enabled ELSE @,
        !.digest = IF Differs(loaded, change) /\ digest # Null THEN Null ELSE @]

PatchReads(w, s, change) ==
    /\ Event
    /\ worker[w] = Idle /\ Registered(s)
    /\ Step(w, [Task("patch", "patching", s, Null) EXCEPT
        !.change = [loaded |-> source[s], to |-> change]])
    /\ UNCHANGED <<world, database, locks>>

\* The UPDATE waits for the row; a deleted row, or a URL registered by
\* another source, is an error and changes nothing.
PatchWrites(w) ==
    LET t == worker[w] IN
    /\ At(w, "patching")
    /\ registration[t.id] = Free
    /\ source' = IF Registered(t.id) /\ ~UrlIsTaken(t.change.to.url, t.id)
                 THEN [source EXCEPT ![t.id] =
                        Patched(source[t.id], t.change.loaded, t.change.to)]
                 ELSE source
    /\ Step(w, Idle)
    /\ UNCHANGED <<world, links, entities, nested, locks, events>>

\* delete_source takes the row's lock, then the graph's.
StartDelete(w, s) ==
    /\ worker[w] = Idle
    /\ Event
    /\ Registered(s) /\ registration[s] = Free
    /\ registration' = [registration EXCEPT ![s] = w]
    /\ Step(w, Task("delete", "graph", s, Null))
    /\ UNCHANGED <<world, database, graph>>

Publish(u) ==
    /\ Event
    /\ \E bytes \in Bytes \ {published[u]} :
        published' = [published EXCEPT ![u] = bytes]
    /\ UNCHANGED <<cached, database, worker, locks>>

\* A site was ingested by a release that nested nothing, or none was.
Init ==
    /\ published \in [Urls -> Contents]
    /\ \E first \in Starts, ingested \in BOOLEAN :
        LET before(s) == published[Home[s]]
            row(s) == Row(Home[s], CHOOSE title \in Titles : TRUE, TRUE)
        IN /\ source = [s \in Sources |->
                IF s \notin first THEN Unused
                ELSE IF ingested
                THEN [row(s) EXCEPT !.status = "success", !.digest = before(s)]
                ELSE row(s)]
           /\ cached = [u \in Urls |->
                IF ingested /\ u \in {Home[s] : s \in first}
                THEN published[u] ELSE Null]
           /\ links = IF ingested
                THEN UNION {LinksOf(s, before(s), row(s)) : s \in first}
                ELSE {}
    /\ nested = {}
    /\ entities = NamesOf(links)
    /\ worker = [w \in Workers |-> Idle]
    /\ registration = [s \in Sources |-> Free]
    /\ graph = Free
    /\ events = 0

Ingest(w) ==
    \/ StartSweep(w)
    \/ \E s \in Sources : StartTrigger(w, s)
    \/ ReadCurrent(w) \/ ReadStale(w) \/ ReadFails(w)
    \/ RecordReadFailure(w)
    \/ Abandon(w) \/ RecordUnchanged(w) \/ RecordParseFailure(w)
    \/ LockSource(w)
    \/ Write(w) \/ Commit(w)
    \/ Refuse(w) \/ RecordRefusedWrite(w)
    \/ Crash(w)

Registry ==
    \E s \in Sources :
        \/ \E u \in Urls, title \in Titles, enabled \in BOOLEAN :
            \/ Register(s, u, title, enabled)
            \/ \E w \in Workers :
                PatchReads(w, s, [url |-> u, title |-> title, enabled |-> enabled])
        \/ \E w \in Workers : StartDelete(w, s)

Next ==
    \/ \E w \in Workers :
        \/ Ingest(w)
        \/ PatchWrites(w)
    \/ Registry
    \/ \E u \in Urls : Publish(u)

Progress(w) ==
    \/ ReadCurrent(w) \/ ReadStale(w) \/ ReadFails(w)
    \/ RecordReadFailure(w)
    \/ Abandon(w) \/ RecordUnchanged(w) \/ RecordParseFailure(w)
    \/ LockSource(w)
    \/ Write(w) \/ Commit(w) \/ RecordRefusedWrite(w)
    \/ PatchWrites(w)

\* The cron starts sweeps for ever, a transaction that can go on does, locks
\* are granted to who waits, and an origin asked again and again answers.
Fairness ==
    /\ WF_vars(\E w \in Workers : StartSweep(w))
    /\ \A w \in Workers : SF_vars(Progress(w))
    /\ \A s \in Sources :
        SF_vars(\E w \in Workers : ReadCurrent(w) /\ worker[w].id = s)

Spec == Init /\ [][Next]_vars /\ Fairness

-----------------------------------------------------------------------------
(* Properties.                                                             *)

Ops == {"sweep", "trigger", "converge", "delete", "patch"}

\* Every variable keeps its type, and the locks are held by those who hold
\* them: the row's by an ingest or a deletion, the graph's by a writer.
TypeOK ==
    /\ published \in [Urls -> Bytes]
    /\ cached \in [Urls -> Bytes \cup {Null}]
    /\ source \in [Sources -> Rows]
    /\ links \subseteq Links
    /\ nested \subseteq entities /\ entities \subseteq Names
    /\ \A w \in Workers : worker[w] = Idle \/ worker[w].op \in Ops
    /\ graph \in Workers \cup {Free}
    /\ registration \in [Sources -> Workers \cup {Free}]
    /\ events \in 0..MaxEvents
    /\ \A w \in Workers : graph = w <=> At(w, "writing")
    /\ \A s \in Sources, w \in Workers :
        registration[s] = w
            <=> /\ At(w, "graph") \/ At(w, "writing")
                /\ worker[w].id = s

\* _is_already_ingested may skip a site: what a success and its digest say was
\* stored is stored, under the URL and the title the registration has now,
\* and nobody's prune or replacement has taken any of it.
SkipIsSound ==
    \A s \in Sources :
        /\ Registered(s)
        /\ source[s].status = "success"
        /\ source[s].digest # Null
        => {l \in links : l.source = s} = LinksOf(s, source[s].digest, source[s])

\* update_source says of a changed title: "Clearing [the digest] is what
\* makes the next ingest rebuild them [the links] instead of recognizing the
\* inventory and leaving them as they are."  So what the next ingest would
\* recognize carries the title.
RetitledIsRebuilt ==
    \A s \in Sources :
        /\ Registered(s)
        /\ source[s].status = "success"
        /\ source[s].digest # Null
        => \A l \in links : l.source = s => l.title = source[s].title

\* A site deregistered while its inventory is in flight is not resurrected:
\* no link is left to a source nobody registers.
DeregisteredIsGone == \A l \in links : Registered(l.source)

\* Every writer converges what it leaves: once each entity has a link, and is
\* nested under its parent just when something links to the parent, no commit
\* of anybody undoes that.
StaysConverged == [][Converged => Converged']_vars

\* A sweep leaves the graph converged whether it replaced links or skipped
\* every site: a release that derives containment otherwise needs no
\* migration.
SweepConverges ==
    [][\A w \in Workers :
        /\ worker[w] # Idle /\ worker[w].op \in {"sweep", "converge"}
        /\ worker'[w] = Idle /\ ~Crash(w) /\ ~Refuse(w)
        => Converged']_vars

\* When sites and operators let it, the ingest ends by saying of each enabled
\* source what its site documents, under its own title: nothing waits for a
\* lock for ever, and no digest makes a sweep skip what it should rebuild.
SitesBecomeCurrent ==
    \A s \in Sources :
        <>[](/\ Registered(s) /\ source[s].enabled
             /\ published[source[s].url] # Garbled
             => {l \in links : l.source = s}
                    = LinksOf(s, published[source[s].url], source[s]))

=============================================================================
