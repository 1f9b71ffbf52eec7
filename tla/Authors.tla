------------------------------- MODULE Authors -------------------------------
(***************************************************************************)
(* The author database: authordb.yaml is ingested, administrators merge an *)
(* author into another one by an alias, delete aliases and authors, and    *)
(* documents are ingested that credit authors by their internal IDs.       *)
(*                                                                         *)
(* An ingest of authors and one of a document read first and write later,  *)
(* and everything else may commit in between.  An administrator's request  *)
(* is one step: administrators are not taken to race one another.          *)
(* Affiliations and what else an author has are left out.                  *)
(***************************************************************************)
EXTENDS Integers, FiniteSets

CONSTANTS
    Names,       \* internal IDs
    Orcids,      \* ORCIDs, in their normal form
    Documents    \* documents with one contributor each

VARIABLES
    author,      \* the author table: internal ID -> ORCID, or Absent
    alias,       \* the author_alias table: internal ID -> the author's
    credit,      \* the contributor table: document -> author
    ingest,      \* the ingest of authordb.yaml in flight
    crediting    \* the document being ingested: the author it resolved to

vars == <<author, alias, credit, ingest, crediting>>

None == "none"
Absent == "absent"

Stored == {n \in Names : author[n] # Absent}

\* An authordb.yaml, the ORCIDs of those it lists.
Lists == UNION {[S -> Orcids \cup {None}] : S \in (SUBSET Names) \ {{}}}

NoIngest == [at |-> None]
NotCrediting == [document |-> None]

TypeOK ==
    /\ author \in [Names -> Orcids \cup {None, Absent}]
    /\ alias \in [Names -> Names \cup {None}]
    /\ credit \in [Documents -> Names \cup {None}]
    /\ ingest = NoIngest \/
        /\ ingest.at = "filtered"
        /\ ingest.listed \in Lists
        /\ ingest.delete \in BOOLEAN
        /\ ingest.aliases \subseteq Names
    /\ crediting = NotCrediting \/
        crediting \in [document : Documents, author : Names]

-----------------------------------------------------------------------------

\* get_author_by_id, and what _upsert_contributors makes of an internal ID.
Resolve(n) == IF n \in Stored THEN n ELSE alias[n]

\* author_alias.author_id is ON DELETE CASCADE.
Cascaded(aliases, gone) ==
    [n \in Names |-> IF aliases[n] \in gone THEN None ELSE aliases[n]]

\* contributor.author_id is not: the statement fails.
MayDelete(gone) == \A d \in Documents : credit[d] \notin gone

-----------------------------------------------------------------------------
(* The ingest of lsst-texmf's authordb.yaml.                               *)

\* _filter_aliased_authors: if every author is an alias's, that is all.
BeginIngest(list, delete) ==
    /\ ingest = NoIngest
    /\ LET aliases == {n \in Names : alias[n] # None}
           listed == DOMAIN list \ aliases
       IN /\ listed # {}
          /\ ingest' = [at |-> "filtered", delete |-> delete,
                        listed |-> [n \in listed |-> list[n]],
                        aliases |-> aliases]
    /\ UNCHANGED <<author, alias, credit, crediting>>

\* _check_orcid_conflicts, and uq_author_orcid: an ORCID that an author
\* holds is not given to another one, not even if the list takes it back.
Conflicts(listed) ==
    \E m \in DOMAIN listed, n \in Names :
        /\ m # n
        /\ listed[m] # None
        /\ \/ listed[m] = author[n]
           \/ n \in DOMAIN listed /\ listed[m] = listed[n]

\* Those with a date_updated before this ingest's.
Stale == IF ingest.delete THEN Stored \ DOMAIN ingest.listed ELSE {}

\* upsert_authors, and the commit.
CommitIngest ==
    /\ ingest # NoIngest
    /\ ~Conflicts(ingest.listed)
    /\ MayDelete(Stale)
    /\ author' = [n \in Names |->
        IF n \in DOMAIN ingest.listed THEN ingest.listed[n]
        ELSE IF n \in Stale THEN Absent ELSE author[n]]
    /\ alias' = Cascaded(alias, Stale)
    /\ ingest' = NoIngest
    /\ UNCHANGED <<credit, crediting>>

\* A DuplicateOrcidError, a foreign key, or the end of the process.
AbortIngest ==
    /\ ingest # NoIngest
    /\ ingest' = NoIngest
    /\ UNCHANGED <<author, alias, credit, crediting>>

-----------------------------------------------------------------------------
(* The administrators' requests.                                           *)

\* Mutant: the aliases of the author that is merged go with it.
LeavesAliases(old, root) == Cascaded(alias, {old})

\* Aliases of the merged author are pointed to the root, so that no chain
\* forms and none is deleted with it.
Repointed(old, root) ==
    IF old \in Stored
    THEN [n \in Names |-> IF alias[n] = old THEN root ELSE alias[n]]
    ELSE alias

\* The alias of an author (or of one that an alias resolves to) is stored,
\* and an author of that name merged.
CreateAlias(old, canonical) ==
    LET root == Resolve(canonical) IN
    /\ root # None
    /\ root # old
    /\ alias[old] = None
    /\ credit' = [d \in Documents |->
        IF credit[d] = old THEN root ELSE credit[d]]
    /\ alias' = [Repointed(old, root) EXCEPT ![old] = root]
    /\ author' = [author EXCEPT ![old] = Absent]
    /\ UNCHANGED <<ingest, crediting>>

DeleteAlias(n) ==
    /\ alias[n] # None
    /\ alias' = [alias EXCEPT ![n] = None]
    /\ UNCHANGED <<author, credit, ingest, crediting>>

\* An alias is a conflict, and so, in effect, is an author with a credit.
DeleteAuthor(n) ==
    /\ n \in Stored
    /\ MayDelete({n})
    /\ author' = [author EXCEPT ![n] = Absent]
    /\ alias' = Cascaded(alias, {n})
    /\ UNCHANGED <<credit, ingest, crediting>>

-----------------------------------------------------------------------------
(* The ingest of a document.                                               *)

\* The contributors of before are deleted and those it has now resolved.
ResolveContributor(d, n) ==
    /\ crediting = NotCrediting
    /\ Resolve(n) # None
    /\ crediting' = [document |-> d, author |-> Resolve(n)]
    /\ UNCHANGED <<author, alias, credit, ingest>>

\* An unknown author is skipped.
IngestUncredited(d) ==
    /\ crediting = NotCrediting
    /\ credit' = [credit EXCEPT ![d] = None]
    /\ UNCHANGED <<author, alias, ingest, crediting>>

InsertContributor ==
    /\ crediting # NotCrediting
    /\ crediting.author \in Stored
    /\ credit' = [credit EXCEPT ![crediting.document] = crediting.author]
    /\ crediting' = NotCrediting
    /\ UNCHANGED <<author, alias, ingest>>

\* The author was deleted meanwhile: the document's savepoint rolls back.
LoseContributor ==
    /\ crediting # NotCrediting
    /\ crediting.author \notin Stored
    /\ crediting' = NotCrediting
    /\ UNCHANGED <<author, alias, credit, ingest>>

-----------------------------------------------------------------------------

Init ==
    /\ author = [n \in Names |-> Absent]
    /\ alias = [n \in Names |-> None]
    /\ credit = [d \in Documents |-> None]
    /\ ingest = NoIngest
    /\ crediting = NotCrediting

Next ==
    \/ \E list \in Lists, delete \in BOOLEAN : BeginIngest(list, delete)
    \/ CommitIngest
    \/ AbortIngest
    \/ \E old, canonical \in Names : CreateAlias(old, canonical)
    \/ \E n \in Names : DeleteAlias(n)
    \/ \E n \in Names : DeleteAuthor(n)
    \/ \E d \in Documents, n \in Names : ResolveContributor(d, n)
    \/ \E d \in Documents : IngestUncredited(d)
    \/ InsertContributor
    \/ LoseContributor

Spec == Init /\ [][Next]_vars

-----------------------------------------------------------------------------

\* What a name resolved to it resolves to afterwards, through the merge.
Follows(n) ==
    LET was == Resolve(n) IN
    \/ Resolve(n)' = was
    \/ alias[was] = None /\ alias'[was] # None /\ Resolve(n)' = alias'[was]

\* The step deletes an alias or an author of the line of n, or it upserts an
\* author whose alias is younger than the ingest's look at the aliases.
Forgets(n) ==
    \/ alias[n] # None /\ alias'[n] = None /\ author' = author
    \/ Resolve(n) \in Names /\ author'[Resolve(n)] = Absent
        /\ alias'[Resolve(n)] \in {alias[Resolve(n)], None}
    \/ ingest # NoIngest /\ n \in DOMAIN ingest.listed \ ingest.aliases
        /\ alias[n] # None /\ ingest' = NoIngest

LosesNothing ==
    /\ \A n \in Names : Resolve(n) # None /\ ~Forgets(n) => Follows(n)
    /\ \A d \in Documents : credit'[d] # None => author'[credit'[d]] # Absent
    /\ \A d \in Documents :
        credit[d] # None /\ crediting' = crediting /\ author' # author =>
            credit'[d] \in {credit[d], alias'[credit[d]]}

(* No name that resolves is lost, or resolves to somebody else, unless its *)
(* alias or its author is deleted: merging an author takes its aliases and *)
(* its credits to the root (create_author_alias), an ingest of authors     *)
(* leaves alone what an alias stands for (_filter_aliased_authors), and a  *)
(* document's contributor is always an author that is there.               *)
MergesLoseNothing == [][LosesNothing]_vars
=============================================================================
