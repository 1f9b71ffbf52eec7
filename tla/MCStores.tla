------------------------------ MODULE MCStores ------------------------------
(***************************************************************************)
(* Small instances of the stores.                                          *)
(*                                                                         *)
(* The inventory cache has one inventory, a reader, an ingest and the job. *)
(* The fetch has two pages on two hosts and a private address; the listing *)
(* three entities on pages of one; the author database three names, one    *)
(* document and one ORCID; the key set two keys and two requests; the      *)
(* document index two records; the pages two of four rows; and the         *)
(* bibliography three documents, of which one shares a key with each of    *)
(* the others, and two requests.                                           *)
(***************************************************************************)
EXTENDS Stores, TLC

\* The two pages use the same ETags, for different contents.
SharedEtags == [u \in PageUrls |-> IF u = "a" THEN [c |-> "e", d |-> "f"]
                                   ELSE [c |-> "f", d |-> "e"]]

TwoHosts == [u \in PageUrls |-> IF u = "a" THEN "ha" ELSE "hb"]

Doc(handle, slot, doi) == [handle |-> handle, slot |-> slot, doi |-> doi]
SharingKeys == {Doc("h1", "s1", "d"), Doc("h2", "s1", "none"), Doc("h3", "s3", "d")}

\* Nothing but their identity tells apart two requests, or two names.
Interchangeable ==
    Permutations(Callers) \cup Permutations(People \ {CHOOSE p \in People : TRUE})
=============================================================================
