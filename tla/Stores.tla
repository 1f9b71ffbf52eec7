------------------------------- MODULE Stores -------------------------------
(***************************************************************************)
(* The stores and caches that share nothing, side by side: a behaviour is  *)
(* one of the part that Init chooses, and the other parts' variables are   *)
(* void.  The inventory cache is InventoryCache; the other parts are       *)
(* instances of their modules.                                             *)
(***************************************************************************)
EXTENDS InventoryCache

CONSTANTS
    PageUrls, Requested, HostOf,   \* the fetch: its pages, and their hosts
    Addresses, Public,             \* where names resolve to, and may
    PageContents, EtagOf, MaxDate, MaxRedirects,
    SdmNames, MaxIndex, ColumnsLimit,   \* the links of SDM columns
    People, Orcids, Credited,      \* authors, and documents that credit them
    KeyIds, Callers, KeysTTL, Cooldown,   \* the key set, and the requests
    Objects, MaxBuilds, MaxQueue, MaxLag,   \* the document index
    RowKeys, PageLimit,            \* the listings
    Docs, ResourceIds              \* the bibliography; Callers ingest it

\* The ETags of one page are strong.
ASSUME FetchAssumption ==
    /\ Requested \in PageUrls /\ DOMAIN HostOf = PageUrls
    /\ Public \subseteq Addresses
    /\ "none" \notin PageUrls \cup Addresses \cup PageContents
    /\ DOMAIN EtagOf = PageUrls
    /\ \A u \in PageUrls : DOMAIN EtagOf[u] = PageContents
    /\ \A u \in PageUrls : \A c, d \in PageContents :
        EtagOf[u][c] # "none" /\ (EtagOf[u][c] = EtagOf[u][d] => c = d)
    /\ {MaxDate, MaxRedirects} \subseteq Nat

ASSUME AuthorsAssumption ==
    {"none", "absent"} \cap (People \cup Orcids) = {}

ASSUME KeysAssumption ==
    /\ {KeysTTL, Cooldown} \subseteq Nat
    /\ "none" \notin KeyIds \cup Callers

ASSUME IndexAssumption ==
    MaxBuilds \in Nat \ {0} /\ {MaxQueue, MaxLag} \subseteq Nat

\* A document has a handle and a number in a series.
ASSUME DocumentsAssumption ==
    /\ Docs \subseteq [handle : {d.handle : d \in Docs}, slot : {d.slot : d \in Docs},
                        doi : {d.doi : d \in Docs}]
    /\ \A d \in Docs : {d.handle, d.slot} \cap {"", "none"} = {}
    /\ IsFiniteSet(ResourceIds) /\ ResourceIds \subseteq Nat \ {0}

\* A request asks for one row at least.
ASSUME PagesAssumption ==
    /\ RowKeys \cup SdmNames \subseteq Nat \ {0}
    /\ IsFiniteSet(RowKeys) /\ IsFiniteSet(SdmNames)
    /\ {PageLimit, ColumnsLimit} \subseteq Nat \ {0} /\ MaxIndex \in Nat

VARIABLES
    part,
    site, copy, walk, pool, served, minter,
    listing, stored, client,
    author, alias, credit, ingest, crediting,
    published, jwks, missed, fetch, request,
    queue, index, writes, latest, tidy,
    collection, rows, parent, walker,
    resource, batch

Walking == INSTANCE InventoryFetch WITH
    Urls <- PageUrls, Contents <- PageContents

Links == INSTANCE SdmLinks WITH Names <- SdmNames, Limit <- ColumnsLimit

Crediting == INSTANCE Authors WITH Names <- People, Documents <- Credited

Signing == INSTANCE SigningKeys WITH
    Keys <- KeyIds, Requests <- Callers, TTL <- KeysTTL

Indexing == INSTANCE DocIndex WITH MaxVersion <- MaxBuilds

Paging == INSTANCE Listings WITH Keys <- RowKeys, Limit <- PageLimit

Bibliography == INSTANCE Documents WITH
    Ids <- ResourceIds, Requests <- Callers

Void == <<>>
IsPart(p) == part = p

fetchVars == <<copy, walk, pool, served, minter>>
linkVars == <<listing, stored, client>>
authorVars == <<author, alias, credit, crediting>>
keyVars == <<published, jwks, missed, fetch, request>>
indexVars == <<queue, index, writes, latest, tidy>>
pageVars == <<collection, rows, parent, walker>>
docVars == <<resource, batch>>
storesVars ==
    <<vars, part, site, ingest, fetchVars, linkVars, authorVars, keyVars,
      indexVars, pageVars, docVars>>

VoidFetch ==
    copy = Void /\ walk = Void /\ pool = Void /\ served = Void /\ minter = Void
VoidLinks == listing = Void /\ stored = Void /\ client = Void
VoidAuthors == author = Void /\ alias = Void /\ credit = Void /\ crediting = Void
VoidKeys ==
    published = Void /\ jwks = Void /\ missed = Void /\ fetch = Void /\ request = Void
VoidIndex ==
    queue = Void /\ index = Void /\ writes = Void /\ latest = Void /\ tidy = Void
VoidPages == collection = Void /\ rows = Void /\ parent = Void /\ walker = Void
VoidDocs == resource = Void /\ batch = Void

StoresInit ==
    /\ part \in {"cache", "fetch", "links", "authors", "keys", "index",
                "pages", "documents"}
    /\ Init
    /\ IF IsPart("fetch") THEN Walking!Init
       ELSE VoidFetch /\ (IsPart("index") \/ site = Void)
    /\ IF IsPart("links") THEN Links!Init ELSE VoidLinks
    /\ IF IsPart("authors") THEN Crediting!Init
       ELSE VoidAuthors /\ (IsPart("index") \/ ingest = Void)
    /\ IF IsPart("keys") THEN Signing!Init ELSE VoidKeys
    /\ IF IsPart("index") THEN Indexing!Init ELSE VoidIndex
    /\ IF IsPart("pages") THEN Paging!Init ELSE VoidPages
    /\ IF IsPart("documents") THEN Bibliography!Init ELSE VoidDocs

StoresNext ==
    /\ UNCHANGED part
    /\ \/ /\ IsPart("cache") /\ Next
          /\ UNCHANGED <<site, ingest, fetchVars, linkVars, authorVars, keyVars,
                         indexVars, pageVars, docVars>>
       \/ /\ IsPart("fetch") /\ Walking!Next
          /\ UNCHANGED <<vars, ingest, linkVars, authorVars, keyVars,
                         indexVars, pageVars, docVars>>
       \/ /\ IsPart("links") /\ Links!Next
          /\ UNCHANGED <<vars, site, ingest, fetchVars, authorVars, keyVars,
                         indexVars, pageVars, docVars>>
       \/ /\ IsPart("authors") /\ Crediting!Next
          /\ UNCHANGED <<vars, site, fetchVars, linkVars, keyVars,
                         indexVars, pageVars, docVars>>
       \/ /\ IsPart("keys") /\ Signing!Next
          /\ UNCHANGED <<vars, site, ingest, fetchVars, linkVars, authorVars,
                         indexVars, pageVars, docVars>>
       \/ /\ IsPart("index") /\ Indexing!Next
          /\ UNCHANGED <<vars, fetchVars, linkVars, authorVars, keyVars,
                         pageVars, docVars>>
       \/ /\ IsPart("pages") /\ Paging!Next
          /\ UNCHANGED <<vars, site, ingest, fetchVars, linkVars, authorVars,
                         keyVars, indexVars, docVars>>
       \/ /\ IsPart("documents") /\ Bibliography!Next
          /\ UNCHANGED <<vars, site, ingest, fetchVars, linkVars, authorVars,
                         keyVars, indexVars, pageVars>>

StoresSpec == StoresInit /\ [][StoresNext]_storesVars

-----------------------------------------------------------------------------

(* Each part's variables have their types.                                 *)
StoresTypeOK ==
    /\ TypeOK
    /\ IsPart("fetch") => Walking!TypeOK
    /\ IsPart("links") => Links!TypeOK
    /\ IsPart("authors") => Crediting!TypeOK
    /\ IsPart("keys") => Signing!TypeOK
    /\ IsPart("index") => Indexing!TypeOK
    /\ IsPart("pages") => Paging!TypeOK
    /\ IsPart("documents") => Bibliography!TypeOK

(* A copy that is marked as fresh is what the end of its chain served when *)
(* it was marked: no 304 vouches for other bytes, unless the copy was      *)
(* fetched without a redirect and confirmed at the end of one              *)
(* (_fetch_inventory, _revalidate).                                        *)
StoredIsServed == IsPart("fetch") => Walking!StoredIsServed

(* A socket is only ever open to an address that the guard accepted        *)
(* (_guard_url, pinned_to, connect_tcp).                                   *)
SocketsAreGuarded == IsPart("fetch") => Walking!SocketsAreGuarded

(* A client that walks a listing sees what stays there exactly once, and   *)
(* can go back, unless it is a listing of SDM columns two of which have    *)
(* one index while it walks (the cursors of linkstore.py, of the authors,  *)
(* an origin's links, the resources and the Python objects).               *)
PagesShowWhatStays ==
    /\ IsPart("links") => Links!PagesShowWhatStays
    /\ IsPart("pages") => Paging!PagesShowWhatStays

(* Merging authors by aliases loses no name and no credit                  *)
(* (create_author_alias, upsert_authors, _upsert_contributors).            *)
MergesLoseNothing ==
    [][IsPart("authors") => Crediting!LosesNothing]_<<part, ingest, authorVars>>

(* A token whose key is published is rejected only inside the window of an *)
(* earlier refetch or when the fetch fails (verify, _refresh_jwks).        *)
RotationIsInvisible == IsPart("keys") => Signing!RotationIsInvisible

(* A search finds what the last ingest of a document saved                 *)
(* (replace_records).                                                      *)
SearchFindsTheLatest == IsPart("index") => Indexing!SearchFindsTheLatest

(* A document that shares a key with a stored one updates it in place,     *)
(* unless another request's commit comes between; or it fails, when its    *)
(* keys are those of two rows, a deadlock is broken or what goes with it   *)
(* is refused, and then leaves no trace (upsert_document,                  *)
(* _resolve_document_id, post_ingest_documents).                           *)
ReingestIsUpdate == [][IsPart("documents") => Bibliography!ReingestsUpdate]_<<part, docVars>>
=============================================================================
