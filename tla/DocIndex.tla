------------------------------ MODULE DocIndex ------------------------------
(***************************************************************************)
(* The records of one document of LSST the Docs in the Algolia index: the  *)
(* site is published anew, an ingest of it is queued on Kafka by how the   *)
(* site is classified then, and a consumer replaces the document's records *)
(* by those it makes of the site as it is when the message is handled.     *)
(*                                                                         *)
(* Algolia applies writes later, in order, and a browse sees those that    *)
(* are applied.  The messages of one URL have one key, so one consumer     *)
(* handles them one after the other; it may die between any two steps, and *)
(* the message is then delivered again or lost.                            *)
(***************************************************************************)
EXTENDS Integers, Sequences

CONSTANTS
    Objects,      \* object IDs: a URL, its headings, a paragraph
    MaxVersion,   \* bound: how often the site is published
    MaxQueue,     \* bound: messages on the topic
    MaxLag        \* bound: writes that Algolia has not applied

VARIABLES
    site,         \* the published site
    queue,        \* the kinds that the queued messages say
    ingest,       \* the message being handled, or Idle
    index,        \* the records that a browse and a search see
    writes,       \* the writes that are not applied yet
    latest,       \* the records of the last ingest that saved any
    tidy          \* that ingest deleted what was stale, and had seen it all

vars == <<site, queue, ingest, index, writes, latest, tidy>>

\* What the classifier tells apart: a site it has no ingest for, or none yet
\* that its metadata supports.
Kinds == {"ltd_technote", "ltd_sphinx_technote", "ltd_lander_jsonld",
          "ltd_generic"}
Idle == [at |-> "idle"]

\* The version of each record; 0 is none.
Contents == [Objects -> 0 .. MaxVersion]
Empty == [o \in Objects |-> 0]
Ids(content) == {o \in Objects : content[o] # 0}

TypeOK ==
    /\ site \in [kind : Kinds, content : Contents, version : 1 .. MaxVersion]
    /\ queue \in Seq(Kinds) /\ Len(queue) <= MaxQueue
    /\ ingest = Idle \/ ingest \in
        [at : {"handling", "browsing", "saving", "deleting"}, kind : Kinds,
         records : Contents, existing : SUBSET Objects, seen : BOOLEAN]
    /\ index \in Contents
    /\ writes \in Seq([save : Contents, delete : SUBSET Objects])
    /\ Len(writes) <= MaxLag
    /\ latest \in Contents
    /\ tidy \in BOOLEAN

-----------------------------------------------------------------------------

\* The site is built again, maybe by another tool.
Publish(kind, ids) ==
    /\ site.version < MaxVersion
    /\ site' = [kind |-> kind, version |-> site.version + 1,
                content |-> [o \in Objects |->
                    IF o \in ids THEN site.version + 1 ELSE 0]]
    /\ UNCHANGED <<queue, ingest, index, writes, latest, tidy>>

\* queue_ingest_for_ltd_product_slug, asked for by a request, by the daily
\* look at updated projects or by the audit of missing documents.
Queue ==
    /\ Len(queue) < MaxQueue
    /\ queue' = Append(queue, site.kind)
    /\ UNCHANGED <<site, ingest, index, writes, latest, tidy>>

\* handle_ltd_document_ingest
Handle ==
    /\ ingest = Idle
    /\ queue # <<>>
    /\ queue' = Tail(queue)
    /\ ingest' = IF Head(queue) = "ltd_generic" THEN Idle
                 ELSE [at |-> "handling", kind |-> Head(queue),
                       records |-> Empty, existing |-> {}, seen |-> FALSE]
    /\ UNCHANGED <<site, index, writes, latest, tidy>>

\* The services' ingest: the download and the records made of it, which
\* have one surrogate key and always that of the description.
MakeRecords ==
    /\ ingest.at = "handling"
    /\ ingest.kind = site.kind
    /\ ingest' = [ingest EXCEPT !.at = "browsing", !.records = site.content]
    /\ UNCHANGED <<site, queue, index, writes, latest, tidy>>

\* find_object_ids, before anything is saved.
Browse ==
    /\ ingest.at = "browsing"
    /\ ingest' = [ingest EXCEPT !.at = "saving", !.existing = Ids(index),
                                !.seen = (writes = <<>>)]
    /\ UNCHANGED <<site, queue, index, writes, latest, tidy>>

Save ==
    /\ ingest.at = "saving"
    /\ Len(writes) < MaxLag
    /\ writes' = Append(writes, [save |-> ingest.records, delete |-> {}])
    /\ ingest' = [ingest EXCEPT !.at = "deleting"]
    /\ latest' = ingest.records
    /\ tidy' = FALSE
    /\ UNCHANGED <<site, queue, index>>

\* Mutant: the records of before are deleted, whatever was saved.
AllOfBefore == ingest.existing

StaleIds == ingest.existing \ Ids(ingest.records)

Delete ==
    /\ ingest.at = "deleting"
    /\ Len(writes) < MaxLag
    /\ writes' = IF StaleIds = {} THEN writes
                 ELSE Append(writes, [save |-> Empty, delete |-> StaleIds])
    /\ ingest' = Idle
    /\ tidy' = ingest.seen
    /\ UNCHANGED <<site, queue, index, latest>>

\* The site is not what the message says, a request fails, or the process
\* ends: the message is lost, or delivered again.
Fail(again) ==
    /\ ingest # Idle
    /\ again => Len(queue) < MaxQueue
    /\ queue' = IF again THEN <<ingest.kind>> \o queue ELSE queue
    /\ ingest' = Idle
    /\ UNCHANGED <<site, index, writes, latest, tidy>>

\* Algolia applies a write.
Apply ==
    /\ writes # <<>>
    /\ LET write == Head(writes) IN
        index' = [o \in Objects |->
            IF write.save[o] # 0 THEN write.save[o]
            ELSE IF o \in write.delete THEN 0 ELSE index[o]]
    /\ writes' = Tail(writes)
    /\ UNCHANGED <<site, queue, ingest, latest, tidy>>

-----------------------------------------------------------------------------

Init ==
    /\ \E kind \in Kinds, ids \in (SUBSET Objects) \ {{}} :
        site = [kind |-> kind, version |-> 1,
                content |-> [o \in Objects |-> IF o \in ids THEN 1 ELSE 0]]
    /\ queue = <<>>
    /\ ingest = Idle
    /\ index = Empty
    /\ writes = <<>>
    /\ latest = Empty
    /\ tidy = FALSE

Next ==
    \/ \E kind \in Kinds, ids \in (SUBSET Objects) \ {{}} : Publish(kind, ids)
    \/ Queue
    \/ Handle
    \/ MakeRecords
    \/ Browse
    \/ Save
    \/ Delete
    \/ \E again \in BOOLEAN : Fail(again)
    \/ Apply

Spec == Init /\ [][Next]_vars

-----------------------------------------------------------------------------
(* Whatever Algolia has yet to apply and wherever ingests have failed:     *)
(* once it has applied it all, a search finds each record of the last      *)
(* ingest that saved any; it finds no other one if that ingest browsed an  *)
(* index that was up to date and got to its deletion; and a document that  *)
(* is found once is found ever after (replace_records).                    *)
SearchFindsTheLatest ==
    /\ writes = <<>> =>
        /\ \A o \in Ids(latest) : index[o] = latest[o]
        /\ tidy => index = latest
    /\ \A w \in 1 .. Len(writes) :
        LET deleted == writes[w].delete IN
        deleted # {} => ~(Ids(index) \subseteq deleted) \/ w > 1
=============================================================================
