------------------------------ MODULE SdmLinks ------------------------------
(***************************************************************************)
(* The columns (or tables) of one SDM schema and the documentation links   *)
(* to them: the ingest of a release of sdm_schemas, one transaction, and a *)
(* client that walks the paginated listing of the links while releases are *)
(* ingested.  A page is one query, bounded by the cursor that the page     *)
(* before it handed out.                                                   *)
(*                                                                         *)
(* Names are numbers, in their alphabetical order.  The three listings     *)
(* differ in their sort key and in how their cursors compare it.           *)
(***************************************************************************)
EXTENDS Integers, FiniteSets

CONSTANTS
    Names,      \* names of columns or tables, as numbers
    MaxIndex,   \* bound: TAP indexes are 1 .. MaxIndex, or NULL
    Limit       \* entries on a page

VARIABLES
    listing,    \* which listing the client walks: its cursor class
    stored,     \* sdm_column (or sdm_table) and its links
    client      \* the client's walk

vars == <<listing, stored, client>>

Listings == {"columns", "tables", "entities"}
Null == 0
Indexes == 0 .. MaxIndex

\* old: date_updated is more than two seconds ago.
Records == [kept : BOOLEAN, index : Indexes, old : BOOLEAN, linked : BOOLEAN]
Absent == [kept |-> FALSE, index |-> Null, old |-> FALSE, linked |-> FALSE]

Keys == [name : Names, index : Indexes]
Start == [name |-> 0, index |-> Null]

Away == [at |-> "away", cursor |-> Start, seen |-> [n \in Names |-> 0],
         stayed |-> {}, shown |-> {}, fresh |-> FALSE, tied |-> FALSE]

TypeOK ==
    /\ listing \in Listings
    /\ stored \in [Names -> Records]
    /\ client \in [at : {"away", "walking", "done"}, cursor : Keys \cup {Start},
                   seen : [Names -> 0 .. 2], stayed : SUBSET Names,
                   shown : SUBSET Names, fresh : BOOLEAN, tied : BOOLEAN]

-----------------------------------------------------------------------------
(* The listings.                                                           *)

Listed == {n \in Names : stored[n].kept /\ stored[n].linked}
Key(n) == [name |-> n, index |-> stored[n].index]

\* An index that is NULL is infinitely large.
SortsBefore(a, b) ==
    \/ a.index # Null /\ b.index = Null
    \/ a.index # Null /\ b.index # Null /\ a.index < b.index
    \/ a.index = b.index /\ a.name < b.name

\* apply_order
Precedes(a, b) ==
    IF listing = "entities" THEN a.name < b.name ELSE SortsBefore(a, b)

\* SdmColumnLinksCollectionCursor.apply_cursor: any index as large will do.
FromColumn(k, c) ==
    IF c.index = Null THEN k.index = Null /\ k.name >= c.name
    ELSE k.index = Null \/ k.index >= c.index

\* SdmTableLinksCollectionCursor.apply_cursor
FromTable(k, c) ==
    IF c.index = Null THEN k.index = Null /\ k.name >= c.name
    ELSE \/ k.index = Null
         \/ k.index > c.index
         \/ k.index = c.index /\ k.name >= c.name

\* SdmLinksCollectionCursor.apply_cursor
FromEntity(k, c) == k.name >= c.name

\* Mutant: the bound is left out, as it is of a page before.
AfterCursor(k, c) == c = Start \/ Precedes(c, k)

AtOrAfter(k, c) ==
    \/ c = Start
    \/ listing = "columns" /\ FromColumn(k, c)
    \/ listing = "tables" /\ FromTable(k, c)
    \/ listing = "entities" /\ FromEntity(k, c)

\* The inverted cursors of columns and of tables.
BeforeIndex(k, c) ==
    IF c.index = Null THEN k.index # Null \/ k.name < c.name
    ELSE /\ k.index # Null
         /\ k.index < c.index \/ (k.index = c.index /\ k.name < c.name)

Before(k, c) ==
    IF listing = "entities" THEN k.name < c.name ELSE BeforeIndex(k, c)

-----------------------------------------------------------------------------
(* The paginated query runner.                                             *)

First(S, count) ==
    {n \in S : Cardinality({m \in S : Precedes(Key(m), Key(n))}) < count}
Last(S, count) ==
    {n \in S : Cardinality({m \in S : Precedes(Key(n), Key(m))}) < count}

Page(c) == First({n \in Listed : AtOrAfter(Key(n), c)}, Limit)

\* The entry read beyond the page is the bound of the next one.
Beyond(c) == First({n \in Listed : AtOrAfter(Key(n), c)}, Limit + 1) \ Page(c)

PageBefore(c) == Last({n \in Listed : Before(Key(n), c)}, Limit)

-----------------------------------------------------------------------------

\* stayed are the entities that were listed then and have not moved since,
\* seen how often each of them was, shown the page before if it is current,
\* tied whether columns have shared an index meanwhile.

\* Two columns that are listed have one index: nothing forbids it.
Ties(rows) ==
    /\ listing = "columns"
    /\ \E m, n \in Names :
        /\ m # n /\ rows[m].index = rows[n].index /\ rows[m].index # Null
        /\ rows[m].kept /\ rows[m].linked /\ rows[n].kept /\ rows[n].linked

\* A client asks for the first page.
Begin ==
    /\ client.at = "away"
    /\ client' = [Away EXCEPT !.at = "walking", !.stayed = Listed, !.tied = Ties(stored)]
    /\ UNCHANGED <<listing, stored>>

\* The client reads a page, and will follow its next link if it has one.
Turn ==
    /\ client.at = "walking"
    /\ LET page == Page(client.cursor)
           beyond == Beyond(client.cursor)
       IN
        client' = [client EXCEPT
            !.seen = [n \in Names |->
                IF n \in page \cap client.stayed /\ @[n] < 2 THEN @[n] + 1
                ELSE @[n]],
            !.shown = page,
            !.fresh = TRUE,
            !.at = IF beyond = {} THEN "done" ELSE @,
            !.cursor = IF beyond = {} THEN @ ELSE Key(CHOOSE n \in beyond : TRUE)]
    /\ UNCHANGED <<listing, stored>>

\* A client that has the last page is done before anything else happens.
Leave ==
    /\ client.at = "done"
    /\ client' = Away
    /\ UNCHANGED <<listing, stored>>

\* What a release has: an index for each of its names, if the listing looks
\* at indexes.
NamesOnly == UNION {[S -> {Null}] : S \in (SUBSET Names) \ {{}}}
Indexed == UNION {[S -> Indexes] : S \in (SUBSET Names) \ {{}}}
Releases == IF listing = "entities" THEN NamesOnly ELSE Indexed

Dropped(release) ==
    {n \in Names \ DOMAIN release : stored[n].kept /\ stored[n].old}

\* update_schema, and update_sdm_schema_links if the schema has a page.
Updated(release, browsed) ==
    [n \in Names |->
        IF n \in DOMAIN release
        THEN [kept |-> TRUE, index |-> release[n], old |-> FALSE,
              linked |-> browsed \/ stored[n].linked]
        ELSE IF stored[n].kept /\ ~stored[n].old
        THEN [stored[n] EXCEPT !.linked = @ \/ browsed]
        ELSE Absent]

\* The transaction commits; a dropped row that is linked to makes it fail.
Ingest(release, browsed) ==
    /\ client.at # "done"
    /\ \A n \in Dropped(release) : ~stored[n].linked
    /\ stored' = Updated(release, browsed)
    /\ LET staying == {n \in client.stayed :
            stored'[n].kept /\ stored'[n].index = stored[n].index}
       IN client' = [client EXCEPT !.fresh = FALSE, !.shown = {},
            !.stayed = staying, !.tied = @ \/ (client.at # "away" /\ Ties(stored')),
            !.seen = [n \in Names |-> IF n \in staying THEN @[n] ELSE 0]]
    /\ UNCHANGED listing

\* More than two seconds pass.
Wait ==
    /\ client.at # "done"
    /\ \E n \in Names : stored[n].kept /\ ~stored[n].old
    /\ stored' = [n \in Names |-> [stored[n] EXCEPT !.old = stored[n].kept]]
    /\ UNCHANGED <<listing, client>>

Init ==
    /\ listing \in Listings
    /\ stored = [n \in Names |-> Absent]
    /\ client = Away

Next ==
    \/ Begin
    \/ Turn
    \/ Leave
    \/ \E release \in Releases, browsed \in BOOLEAN : Ingest(release, browsed)
    \/ Wait

Spec == Init /\ [][Next]_vars

-----------------------------------------------------------------------------
(* A client that follows the next links sees every entity that stays where *)
(* it is exactly once, in the order of the listing, whatever is ingested   *)
(* between two of its pages; and the previous link of the page it goes on  *)
(* to leads back to the page it comes from (the docstrings of the cursors, *)
(* their apply_cursor and apply_order).  The code breaks it.               *)
ShowsWhatStays ==
    /\ \A n \in client.stayed :
        /\ client.seen[n] <= 1
        /\ client.at = "done" => client.seen[n] = 1
    /\ client.at = "walking" /\ client.fresh =>
        PageBefore(client.cursor) = client.shown

(* It holds of every walk but those through a listing of columns two of    *)
(* which have one tap_column_index meanwhile: the cursor compares the      *)
(* index alone, so that its pages repeat entries, and the walk may never   *)
(* end (SdmColumnLinksCollectionCursor.apply_cursor).                      *)
PagesShowWhatStays == client.tied \/ ShowsWhatStays
=============================================================================
