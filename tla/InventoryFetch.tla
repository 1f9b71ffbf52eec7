--------------------------- MODULE InventoryFetch ---------------------------
(***************************************************************************)
(* How one cached inventory is fetched again: the walk along redirects,    *)
(* one guarded hop at a time, the validators each hop is sent, what a 304  *)
(* is taken to say, and the sockets the hops are sent through.  Between    *)
(* two fetches, and between two hops of one, sites publish and repoint     *)
(* their pages and names resolve to whatever their owners like.            *)
(*                                                                         *)
(* A page has an ETag of its own for each content, and two pages may use   *)
(* one ETag for different contents: ETags are compared only within a page  *)
(* (RFC 9110).  A site dates what it publishes later by a later date.      *)
(* What else the row holds, and who writes it when, is InventoryCache's.   *)
(***************************************************************************)
EXTENDS Integers, FiniteSets

CONSTANTS
    Urls,          \* the pages of the sites
    Requested,     \* the URL of the inventory
    HostOf,        \* the host of each URL
    Addresses,     \* where names may resolve to
    Public,        \* those that are globally routable
    Contents,      \* what a page may hold
    EtagOf,        \* per page, the strong ETag of each content
    MaxDate,       \* bound: how often a page is published
    MaxRedirects   \* MAX_REDIRECTS (20 in the code)

VARIABLES
    site,     \* what each URL answers: a redirect, or a page and its headers
    copy,     \* the row: content, validators and the URL they came from
    walk,     \* the chain being followed, or Idle
    pool,     \* the address each host's pooled connection was opened to
    served,   \* history: what the end of the last chain that answered held
    minter    \* history: the page that the copy's bytes and validators are from

vars == <<site, copy, walk, pool, served, minter>>

None == "none"
Hosts == {HostOf[u] : u \in Urls}
Headers == {"ETag", "Last-Modified"}
Idle == [at |-> None]

Etags == {EtagOf[u][c] : u \in Urls, c \in Contents}

\* No date is zero: SQL NULL, and no If-Modified-Since.
Validators == [etag : Etags \cup {None}, date : 0 .. MaxDate]
NoValidators == [etag |-> None, date |-> 0]

Sites == [to : Urls \cup {None}, content : Contents, date : 1 .. MaxDate,
          headers : SUBSET Headers]

Copies == [content : Contents \cup {None}, validators : Validators,
           resolved : Urls \cup {None}]
NoCopy == [content |-> None, validators |-> NoValidators, resolved |-> None]

TypeOK ==
    /\ site \in [Urls -> Sites]
    /\ copy \in Copies
    /\ walk = Idle \/ walk \in
        [at : Urls, hops : 0 .. MaxRedirects, carried : Validators,
         minted : Urls \cup {None},
         known : [Hosts -> Addresses \cup {None}]]
    /\ pool \in [Hosts -> Addresses \cup {None}]
    /\ served \in Contents \cup {None}
    /\ minter \in Urls \cup {None}

-----------------------------------------------------------------------------
(* The guard and the sockets.                                              *)

\* resolve_and_validate: every address of the answer has to be public.
Accepts(answer) == answer # {} /\ answer \subseteq Public

\* _guard_url of a hop, by a host this chain has validated or by a lookup.
GuardedBy(known, host) ==
    IF known[host] # None THEN {known}
    ELSE {[known EXCEPT ![host] = address] :
            address \in UNION {answer \in SUBSET Addresses : Accepts(answer)}}

\* Mutant: the socket is opened to the name, which is resolved again.
DialsTheName(w) == Addresses

\* PinningNetworkBackend.connect_tcp under pinned_to.
Dialed(w) == {w.known[HostOf[w.at]]}

\* A pooled connection to the host is used again, or one is opened.
Connects ==
    LET host == HostOf[walk.at] IN
    IF pool[host] # None THEN UNCHANGED pool
    ELSE \E address \in Dialed(walk) : pool' = [pool EXCEPT ![host] = address]

-----------------------------------------------------------------------------
(* The requests.                                                           *)

\* Mutant: the validators ride every hop, whoever minted them.
SentOnEveryHop(w) == w.carried

\* request_validators: held to the URL that minted them, where it is known.
Sent(w) ==
    IF w.minted = None \/ w.at = w.minted THEN w.carried ELSE NoValidators

\* What the next hop carries.
CarriedOn(w) ==
    IF w.minted = None THEN [w.carried EXCEPT !.date = 0] ELSE w.carried

\* An origin that keeps to RFC 9110: a date counts only without an ETag.
Matches(u, sent) ==
    IF sent.etag # None
    THEN "ETag" \in site[u].headers /\ sent.etag = EtagOf[u][site[u].content]
    ELSE "Last-Modified" \in site[u].headers /\ site[u].date <= sent.date

\* _InventoryFetch.resolved_url
ResolvedUrl == IF walk.hops = 0 THEN None ELSE walk.at

-----------------------------------------------------------------------------

\* A cold miss, or the revalidation of the copy, past the guard.
Begin ==
    /\ walk = Idle
    /\ \E known \in GuardedBy([h \in Hosts |-> None], HostOf[Requested]) :
        walk' = [at |-> Requested, hops |-> 0, carried |-> copy.validators,
                 minted |-> copy.resolved, known |-> known]
    /\ UNCHANGED <<site, copy, pool, served, minter>>

\* A redirect is followed while the chain is short enough, under the guard.
Follow ==
    /\ walk # Idle /\ site[walk.at].to # None
    /\ walk.hops < MaxRedirects
    /\ Connects
    /\ \E known \in GuardedBy(walk.known, HostOf[site[walk.at].to]) :
        walk' = [walk EXCEPT !.at = site[walk.at].to, !.hops = @ + 1,
                             !.carried = CarriedOn(walk), !.known = known]
    /\ UNCHANGED <<site, copy, served, minter>>

\* A 304 that answers no question is refused: the fetch fails.
IsAnswer(sent) == sent # NoValidators

\* 304: the copy is kept, and the chain it was confirmed through recorded.
NotModified ==
    /\ walk # Idle /\ site[walk.at].to = None
    /\ LET sent == Sent(walk) IN
        /\ sent = NoValidators \/ Matches(walk.at, sent)
        /\ IsAnswer(sent)
    /\ Connects
    /\ copy' = [copy EXCEPT !.resolved = ResolvedUrl]
    /\ served' = site[walk.at].content
    /\ walk' = Idle
    /\ UNCHANGED <<site, minter>>

\* 200, conditional or not: the copy and its validators are replaced.
Fetched ==
    /\ walk # Idle /\ site[walk.at].to = None
    /\ Connects
    /\ LET s == site[walk.at] IN
        /\ copy' =
            [content |-> s.content,
             validators |->
                [etag |-> IF "ETag" \in s.headers THEN EtagOf[walk.at][s.content]
                          ELSE None,
                 date |-> IF "Last-Modified" \in s.headers THEN s.date ELSE 0],
             resolved |-> ResolvedUrl]
        /\ served' = s.content
    /\ minter' = walk.at
    /\ walk' = Idle
    /\ UNCHANGED site

\* The guard refuses a hop, a Location is malformed, the chain too long, the
\* body empty or too large, the status an error, or the budget is spent.
WalkFails ==
    /\ walk # Idle
    /\ walk' = Idle
    /\ Connects \/ UNCHANGED pool
    /\ UNCHANGED <<site, copy, served, minter>>

\* A pooled connection is idle too long.
Expire(host) ==
    /\ pool[host] # None
    /\ pool' = [pool EXCEPT ![host] = None]
    /\ UNCHANGED <<site, copy, walk, served, minter>>

\* A site publishes a page.
Publish(u) ==
    /\ site[u].date < MaxDate
    /\ \E content \in Contents :
        site' = [site EXCEPT ![u].content = content, ![u].date = @ + 1]
    /\ UNCHANGED <<copy, walk, pool, served, minter>>

\* A site makes a page redirect, or serve itself again.
Repoint(u) ==
    /\ \E to \in (Urls \ {u}) \cup {None} :
        site' = [site EXCEPT ![u].to = to]
    /\ UNCHANGED <<copy, walk, pool, served, minter>>

Init ==
    /\ site \in [Urls -> {s \in Sites : s.to = None /\ s.date = 1}]
    /\ copy = NoCopy
    /\ walk = Idle
    /\ pool = [h \in Hosts |-> None]
    /\ served = None
    /\ minter = None

Next ==
    \/ Begin
    \/ Follow
    \/ NotModified
    \/ Fetched
    \/ WalkFails
    \/ \E h \in Hosts : Expire(h)
    \/ \E u \in Urls : Publish(u) \/ Repoint(u)

Spec == Init /\ [][Next]_vars

-----------------------------------------------------------------------------
(* The copy was fetched without a redirect, and a 304 from the end of a    *)
(* redirect has confirmed it since: its ETag is taken for one of that      *)
(* other page.  _revalidate's docstring accepts such a 304 once; but the   *)
(* page that is recorded then is asked about the same ETag the next time,  *)
(* and confirms it again.                                                  *)
Adopted == copy.resolved \notin {None, minter}

(* A copy that is marked as fresh is what the end of its chain served when *)
(* it was marked: wherever a chain moves, and whatever ETags pages share,  *)
(* no 304 vouches for other bytes, except for a copy adopted as above      *)
(* (_fetch_inventory, request_validators, _revalidate).                    *)
StoredIsServed == Adopted \/ copy.content = served

(* A socket is only ever open to an address the guard accepted, whatever   *)
(* its name resolves to by then (_guard_url, pinned_to, connect_tcp).      *)
SocketsAreGuarded == \A h \in Hosts : pool[h] \in Public \cup {None}
=============================================================================
