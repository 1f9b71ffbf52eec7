------------------------------ MODULE Listings ------------------------------
(***************************************************************************)
(* The listings that are paged by one unique key: authors, an origin's     *)
(* links, resources, Python objects and the children of one.  A client     *)
(* walks one of them by its next links while rows come and go.             *)
(*                                                                         *)
(* Keys are numbers in their order.  A page is filled in by later          *)
(* statements of its request, each of which sees what is committed then.   *)
(* A commit of many rows is taken a row at a time: a client that asks for  *)
(* nothing in between cannot tell.                                         *)
(***************************************************************************)
EXTENDS Integers, FiniteSets

CONSTANTS
    Keys,       \* 1 .. n: internal IDs, URLs, resource IDs or names
    Limit       \* entries on a page

VARIABLES
    collection, \* which listing the client walks
    rows,       \* a row is absent, or wanted by the listing's filter, or not
    parent,     \* the entity whose children are listed is stored
    walker      \* the client's walk

vars == <<collection, rows, parent, walker>>

Collections == {"authors", "origin_links", "resources", "entities", "children"}
Filtered == {"origin_links", "entities", "children"}
Append == {"resources"}                         \* rows are never deleted
InTwo == {"resources", "entities", "children"}  \* a page is then filled in

Start == 0

Away == [at |-> "away", cursor |-> Start, page |-> {}, next |-> Start,
         seen |-> [k \in Keys |-> 0], stayed |-> {}, shown |-> {},
         fresh |-> FALSE]

TypeOK ==
    /\ collection \in Collections
    /\ rows \in [Keys -> {"absent", "other", "wanted"}]
    /\ parent \in BOOLEAN
    /\ walker \in
        [at : {"away", "asking", "found", "filling", "done", "missing"},
         cursor : Keys \cup {Start}, page : SUBSET Keys,
         next : Keys \cup {Start}, seen : [Keys -> 0 .. 2],
         stayed : SUBSET Keys, shown : SUBSET Keys, fresh : BOOLEAN]

-----------------------------------------------------------------------------
(* The cursors and the statements they bound.                              *)

\* _apply_role_filter; the status and the path of create_origin_links_stmt.
Listed == {k \in Keys : rows[k] = "wanted"}

\* apply_cursor: the bound belongs to the page it opens ...
From(k, bound) == k >= bound
\* ... and not to the one before.
Before(k, bound) == k < bound

\* apply_order
First(S, count) == {k \in S : Cardinality({j \in S : j < k}) < count}
Last(S, count) == {k \in S : Cardinality({j \in S : j > k}) < count}

Page(bound) == First({k \in Listed : From(k, bound)}, Limit)

\* from_entry: the entry beyond the page is the next page's bound.
Following(bound) ==
    LET beyond == First({k \in Listed : From(k, bound)}, Limit + 1) \ Page(bound)
    IN IF beyond = {} THEN Start ELSE CHOOSE k \in beyond : TRUE

PageBefore(bound) == Last({k \in Listed : Before(k, bound)}, Limit)

-----------------------------------------------------------------------------
(* The client.  stayed are the rows that have been listed ever since the   *)
(* walk began, seen how often each was, shown the last page if no row has  *)
(* changed since.                                                          *)

Ask ==
    /\ walker.at = "away"
    /\ walker' = [Away EXCEPT !.at = "asking",
                              !.stayed = IF parent THEN Listed ELSE {}]
    /\ UNCHANGED <<collection, rows, parent>>

\* get_children looks the parent up first: a 404 if there is none.
LookUpParent ==
    /\ walker.at = "asking" /\ collection = "children"
    /\ walker' = [walker EXCEPT !.at = IF parent THEN "found" ELSE "missing"]
    /\ UNCHANGED <<collection, rows, parent>>

\* What the client has got once it is answered.
Answered(page, next) ==
    [walker EXCEPT
        !.seen = [k \in Keys |->
            IF k \in page \cap walker.stayed /\ @[k] < 2 THEN @[k] + 1 ELSE @[k]],
        !.page = {},
        !.next = Start,
        !.shown = IF walker.at = "filling" /\ ~walker.fresh THEN {} ELSE page,
        !.fresh = walker.at # "filling" \/ walker.fresh,
        !.cursor = IF next = Start THEN @ ELSE next,
        !.at = IF next = Start THEN "done" ELSE "asking"]

\* query_row
ReadPage ==
    /\ walker.at = IF collection = "children" THEN "found" ELSE "asking"
    /\ LET page == IF collection = "children" /\ ~parent THEN {}
                   ELSE Page(walker.cursor)
           next == IF page = {} THEN Start ELSE Following(walker.cursor)
       IN walker' = IF collection \in InTwo /\ page # {}
                    THEN [walker EXCEPT !.at = "filling", !.page = page,
                                        !.next = next, !.fresh = TRUE]
                    ELSE Answered(page, next)
    /\ UNCHANGED <<collection, rows, parent>>

\* get_resource_by_id of each entry, or the links of the entries by name: a
\* row that has gone is left out, or comes without links.
FillPage ==
    /\ walker.at = "filling"
    /\ walker' = Answered({k \in walker.page : rows[k] # "absent"}, walker.next)
    /\ UNCHANGED <<collection, rows, parent>>

Leave ==
    /\ walker.at \in {"done", "missing"}
    /\ walker' = Away
    /\ UNCHANGED <<collection, rows, parent>>

-----------------------------------------------------------------------------
(* The world: ingests, author updates, contributions and checks.           *)

\* A row that is not listed any more has not stayed.
Forget(gone) ==
    walker' = [walker EXCEPT
        !.stayed = @ \ gone,
        !.seen = [k \in Keys |-> IF k \in gone THEN 0 ELSE @[k]],
        !.shown = {},
        !.fresh = FALSE]

ChangeRow(k, to) ==
    /\ to # rows[k]
    /\ to = "other" => collection \in Filtered
    /\ to = "absent" => collection \notin Append
    /\ to = "wanted" /\ collection = "children" => parent
    /\ rows' = [rows EXCEPT ![k] = to]
    /\ Forget(IF to = "wanted" THEN {} ELSE {k})
    /\ UNCHANGED <<collection, parent>>

\* The parent is pruned, and its children have none; or it is documented.
ChangeParent ==
    /\ collection = "children"
    /\ parent' = ~parent
    /\ rows' = [k \in Keys |-> IF rows[k] = "wanted" THEN "other" ELSE rows[k]]
    /\ Forget(Keys)
    /\ UNCHANGED collection

Init ==
    /\ collection \in Collections
    /\ rows = [k \in Keys |-> "absent"]
    /\ parent = (collection # "children")
    /\ walker = Away

Next ==
    \/ Ask
    \/ LookUpParent
    \/ ReadPage
    \/ FillPage
    \/ Leave
    \/ \E k \in Keys, to \in {"absent", "other", "wanted"} : ChangeRow(k, to)
    \/ ChangeParent

Spec == Init /\ [][Next]_vars

-----------------------------------------------------------------------------
(* A client that follows the next links sees every row that stays listed   *)
(* exactly once, and filled in, whatever comes, goes or is filtered out    *)
(* between two statements; and the previous link of the page it goes on to *)
(* leads back to the page it comes from (apply_cursor, apply_order,        *)
(* from_entry).                                                            *)
PagesShowWhatStays ==
    /\ \A k \in walker.stayed :
        /\ walker.seen[k] <= 1
        /\ walker.at \in {"done", "missing"} => walker.seen[k] = 1
    /\ walker.at \in {"asking", "found"} /\ walker.fresh =>
        PageBefore(walker.cursor) = walker.shown
=============================================================================
