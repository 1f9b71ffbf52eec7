---------------------------- MODULE Stores_proofs ----------------------------
(***************************************************************************)
(* Proofs about the parts of Stores, for any pages, sites and hosts, any   *)
(* keys, requests and times, and any objects, builds and lags.  Each part  *)
(* has an inductive invariant of its own, from which what the runs check   *)
(* of the part follows, on its own and side by side with the others.  The  *)
(* listings' are in Pages_proofs, the cache's in InventoryCache_proofs.    *)
(***************************************************************************)
EXTENDS Stores, Pages_proofs, InventoryCache_proofs

-----------------------------------------------------------------------------
(* The fetch.                                                              *)

FetchNone == Walking!None

(* The page that the copy came from, or was last confirmed by. *)
Origin == IF copy.resolved = FetchNone THEN Requested ELSE copy.resolved

(* The copy's bytes and its ETag are from one page: the requested one, or  *)
(* the one that it was last confirmed by.                                  *)
CopyIsMinted ==
    /\ copy.validators.etag # FetchNone =>
        /\ minter # FetchNone /\ copy.content # FetchNone
        /\ copy.validators.etag = EtagOf[minter][copy.content]
    /\ minter # FetchNone => minter \in {Requested, copy.resolved}

(* A copy that has only a date to be known by is what its page held then:  *)
(* the page has not been published since, or has a later date.             *)
CopyIsDated ==
    copy.validators.etag = FetchNone /\ copy.validators.date # 0 =>
        /\ copy.validators.date <= site[Origin].date
        /\ site[Origin].date = copy.validators.date => site[Origin].content = copy.content

(* What a chain carries is the copy's, and its date only while it is sure  *)
(* to be asked of the page that gave it.                                   *)
WalkIsSound ==
    walk # Walking!Idle =>
        /\ walk.minted = copy.resolved
        /\ walk.carried.etag = copy.validators.etag
        /\ walk.carried.date \in {0, copy.validators.date}
        /\ walk.minted = FetchNone /\ walk.hops # 0 => walk.carried.date = 0
        /\ walk.hops = 0 => walk.at = Requested
        /\ \A h \in Walking!Hosts : walk.known[h] \in Public \cup {FetchNone}

FetchInv ==
    /\ Walking!TypeOK
    /\ Walking!StoredIsServed
    /\ Walking!SocketsAreGuarded
    /\ CopyIsMinted
    /\ CopyIsDated
    /\ WalkIsSound

LEMMA FetchInit == Walking!Init => FetchInv
<1> SUFFICES ASSUME Walking!Init PROVE FetchInv
  OBVIOUS
<1>1. /\ site \in [PageUrls -> {s \in Walking!Sites : s.to = Walking!None /\ s.date = 1}]
      /\ copy = Walking!NoCopy /\ walk = Walking!Idle
      /\ pool = [h \in Walking!Hosts |-> Walking!None] /\ served = Walking!None
      /\ minter = Walking!None
  BY DEF Walking!Init
<1>2. copy \in Walking!Copies
  BY <1>1, FetchAssumption
     DEF Walking!NoCopy, Walking!Copies, Walking!NoValidators, Walking!Validators
<1>3. Walking!TypeOK
  BY <1>1, <1>2 DEF Walking!TypeOK
<1>. QED
  BY <1>1, <1>3 DEF FetchInv, FetchNone, Walking!NoCopy, Walking!NoValidators,
     Walking!StoredIsServed, Walking!SocketsAreGuarded, CopyIsMinted, CopyIsDated, WalkIsSound

(* The fields of a walk under way. *)
LEMMA WalkHas ==
    ASSUME FetchInv, walk # Walking!Idle
    PROVE  /\ walk.at \in PageUrls /\ walk.hops \in 0 .. MaxRedirects
           /\ walk.carried \in Walking!Validators
           /\ walk.minted \in PageUrls \cup {FetchNone}
           /\ walk.known \in [Walking!Hosts -> Addresses \cup {FetchNone}]
           /\ HostOf[walk.at] \in Walking!Hosts
           /\ site[walk.at] \in Walking!Sites
BY DEF FetchInv, Walking!TypeOK, FetchNone, Walking!Hosts

LEMMA GuardIs ==
    ASSUME NEW known \in [Walking!Hosts -> Addresses \cup {FetchNone}],
           NEW host \in Walking!Hosts, NEW after \in Walking!GuardedBy(known, host),
           \A h \in Walking!Hosts : known[h] \in Public \cup {FetchNone}
    PROVE  /\ after \in [Walking!Hosts -> Addresses \cup {FetchNone}]
           /\ \A h \in Walking!Hosts : after[h] \in Public \cup {FetchNone}
<1>1. CASE known[host] # FetchNone
  BY <1>1 DEF Walking!GuardedBy, FetchNone
<1>2. CASE known[host] = FetchNone
  <2>1. PICK address \in UNION {answer \in SUBSET Addresses : Walking!Accepts(answer)} :
            after = [known EXCEPT ![host] = address]
    BY <1>2 DEF Walking!GuardedBy, FetchNone
  <2>2. address \in Public /\ address \in Addresses
    BY <2>1 DEF Walking!Accepts
  <2>. QED
    BY <2>1, <2>2
<1>. QED
  BY <1>1, <1>2

(* A socket is opened to what the guard accepted in this chain. *)
LEMMA ConnectsIs ==
    ASSUME FetchInv, walk # Walking!Idle, Walking!Connects
    PROVE  /\ pool' \in [Walking!Hosts -> Addresses \cup {FetchNone}]
           /\ \A h \in Walking!Hosts : pool'[h] \in Public \cup {FetchNone}
<1>1. /\ pool \in [Walking!Hosts -> Addresses \cup {FetchNone}]
      /\ \A h \in Walking!Hosts : pool[h] \in Public \cup {FetchNone}
  BY DEF FetchInv, Walking!TypeOK, Walking!SocketsAreGuarded, FetchNone
<1>2. CASE pool[HostOf[walk.at]] # Walking!None
  BY <1>1, <1>2 DEF Walking!Connects
<1>3. CASE pool[HostOf[walk.at]] = Walking!None
  <2>1. pool' = [pool EXCEPT ![HostOf[walk.at]] = walk.known[HostOf[walk.at]]]
    BY <1>3 DEF Walking!Connects, Walking!Dialed
  <2>2. walk.known[HostOf[walk.at]] \in Public \cup {FetchNone}
    BY WalkHas DEF FetchInv, WalkIsSound
  <2>3. Public \subseteq Addresses
    BY FetchAssumption
  <2>. QED
    BY <1>1, <2>1, <2>2, <2>3
<1>. QED
  BY <1>2, <1>3

LEMMA BeginStep ==
    ASSUME FetchInv, Walking!Begin
    PROVE  FetchInv'
<1>1. PICK known \in Walking!GuardedBy([h \in Walking!Hosts |-> Walking!None], HostOf[Requested]) :
        walk' = [at |-> Requested, hops |-> 0, carried |-> copy.validators,
                 minted |-> copy.resolved, known |-> known]
  BY DEF Walking!Begin
<1>2. UNCHANGED <<site, copy, pool, served, minter>>
  BY DEF Walking!Begin
<1>3. /\ known \in [Walking!Hosts -> Addresses \cup {FetchNone}]
      /\ \A h \in Walking!Hosts : known[h] \in Public \cup {FetchNone}
  <2> DEFINE nothing == [h \in Walking!Hosts |-> Walking!None]
  <2>1. /\ nothing \in [Walking!Hosts -> Addresses \cup {FetchNone}]
        /\ \A h \in Walking!Hosts : nothing[h] \in Public \cup {FetchNone}
    BY DEF FetchNone
  <2>2. HostOf[Requested] \in Walking!Hosts
    BY FetchAssumption DEF Walking!Hosts
  <2> HIDE DEF nothing
  <2>3. known \in Walking!GuardedBy(nothing, HostOf[Requested])
    BY <1>1 DEF nothing
  <2>. QED
    BY <2>1, <2>2, <2>3, GuardIs
<1>4. copy.validators \in Walking!Validators /\ copy.resolved \in PageUrls \cup {Walking!None}
  BY DEF FetchInv, Walking!TypeOK, Walking!Copies
<1>5. Walking!TypeOK'
  BY <1>1, <1>2, <1>3, <1>4, FetchAssumption DEF FetchInv, Walking!TypeOK, FetchNone
<1>6. WalkIsSound'
  BY <1>1, <1>2, <1>3 DEF WalkIsSound, FetchNone
<1>. QED
  BY <1>2, <1>5, <1>6 DEF FetchInv, CopyIsMinted, CopyIsDated, Origin, FetchNone,
     Walking!StoredIsServed, Walking!Adopted, Walking!SocketsAreGuarded

LEMMA FollowStep ==
    ASSUME FetchInv, Walking!Follow
    PROVE  FetchInv'
<1> DEFINE to == site[walk.at].to
           hops == walk.hops + 1
           kept == Walking!CarriedOn(walk)
<1>1. /\ walk # Walking!Idle /\ to # Walking!None /\ walk.hops < MaxRedirects
      /\ Walking!Connects /\ UNCHANGED <<site, copy, served, minter>>
  BY DEF Walking!Follow
<1>2. PICK known \in Walking!GuardedBy(walk.known, HostOf[to]) :
        walk' = [walk EXCEPT !.at = to, !.hops = @ + 1,
                             !.carried = Walking!CarriedOn(walk), !.known = known]
  BY DEF Walking!Follow
<1>3. /\ walk.at \in PageUrls /\ walk.hops \in 0 .. MaxRedirects
      /\ walk.carried \in Walking!Validators /\ walk.minted \in PageUrls \cup {FetchNone}
      /\ walk.known \in [Walking!Hosts -> Addresses \cup {FetchNone}]
      /\ to \in PageUrls
  BY <1>1, WalkHas DEF Walking!Sites
<1>4. walk \in [at : PageUrls, hops : 0 .. MaxRedirects, carried : Walking!Validators,
                minted : PageUrls \cup {Walking!None},
                known : [Walking!Hosts -> Addresses \cup {Walking!None}]]
  BY <1>1 DEF FetchInv, Walking!TypeOK
<1>5. /\ known \in [Walking!Hosts -> Addresses \cup {FetchNone}]
      /\ \A h \in Walking!Hosts : known[h] \in Public \cup {FetchNone}
  <2>1. HostOf[to] \in Walking!Hosts
    BY <1>3 DEF Walking!Hosts
  <2>2. \A h \in Walking!Hosts : walk.known[h] \in Public \cup {FetchNone}
    BY <1>1 DEF FetchInv, WalkIsSound
  <2>. QED
    BY <1>2, <1>3, <2>1, <2>2, GuardIs
<1>6. /\ Walking!CarriedOn(walk) \in Walking!Validators
      /\ Walking!CarriedOn(walk).etag = walk.carried.etag
      /\ Walking!CarriedOn(walk).date \in {0, walk.carried.date}
      /\ walk.minted = FetchNone => Walking!CarriedOn(walk).date = 0
  BY <1>3, FetchAssumption DEF Walking!CarriedOn, Walking!Validators, FetchNone
<1>11. hops \in 0 .. MaxRedirects /\ hops # 0
  BY <1>1, <1>3, FetchAssumption
<1>12. walk' = [walk EXCEPT !.at = to, !.hops = hops, !.carried = kept, !.known = known]
  BY <1>2
<1>13. kept \in Walking!Validators /\ kept = Walking!CarriedOn(walk)
  BY <1>6
<1> HIDE DEF to, hops, kept
<1>7. /\ walk' \in [at : PageUrls, hops : 0 .. MaxRedirects, carried : Walking!Validators,
                    minted : PageUrls \cup {Walking!None},
                    known : [Walking!Hosts -> Addresses \cup {Walking!None}]]
      /\ walk'.at = to /\ walk'.hops = hops /\ walk'.carried = kept
      /\ walk'.minted = walk.minted /\ walk'.known = known
  BY <1>3, <1>4, <1>5, <1>11, <1>12, <1>13 DEF FetchNone
<1>8. WalkIsSound'
  BY <1>1, <1>3, <1>5, <1>6, <1>7, <1>11, <1>13 DEF FetchInv, WalkIsSound, FetchNone
<1>9. /\ pool' \in [Walking!Hosts -> Addresses \cup {FetchNone}]
      /\ \A h \in Walking!Hosts : pool'[h] \in Public \cup {FetchNone}
  BY <1>1, ConnectsIs
<1>10. Walking!TypeOK'
  BY <1>1, <1>7, <1>9 DEF FetchInv, Walking!TypeOK, FetchNone
<1>. QED
  BY <1>1, <1>8, <1>9, <1>10 DEF FetchInv, CopyIsMinted, CopyIsDated, Origin, FetchNone,
     Walking!StoredIsServed, Walking!Adopted, Walking!SocketsAreGuarded

(* The end of a walk: what became of the copy is all there is to show. *)
LEMMA WalkEnds ==
    ASSUME FetchInv, walk # Walking!Idle, walk' = Walking!Idle, site' = site,
           Walking!Connects \/ UNCHANGED pool,
           copy' \in Walking!Copies, served' \in PageContents \cup {FetchNone},
           minter' \in PageUrls \cup {FetchNone},
           Walking!StoredIsServed', CopyIsMinted', CopyIsDated'
    PROVE  FetchInv'
<1>1. /\ pool' \in [Walking!Hosts -> Addresses \cup {FetchNone}]
      /\ \A h \in Walking!Hosts : pool'[h] \in Public \cup {FetchNone}
  BY ConnectsIs DEF FetchInv, Walking!TypeOK, Walking!SocketsAreGuarded, FetchNone
<1>2. Walking!TypeOK'
  BY <1>1 DEF FetchInv, Walking!TypeOK, FetchNone
<1>3. WalkIsSound'
  BY DEF WalkIsSound, Walking!Idle
<1>. QED
  BY <1>1, <1>2, <1>3 DEF FetchInv, FetchNone, Walking!SocketsAreGuarded

(* The origin of a copy is the end of the chain that brought it. *)
LEMMA ResolvedIs ==
    ASSUME FetchInv, walk # Walking!Idle, copy'.resolved = Walking!ResolvedUrl
    PROVE  /\ Origin' = walk.at
           /\ Walking!ResolvedUrl \in PageUrls \cup {FetchNone}
<1>1. walk.at \in PageUrls /\ (walk.hops = 0 => walk.at = Requested) /\ FetchNone \notin PageUrls
  BY WalkHas, FetchAssumption DEF FetchInv, WalkIsSound, FetchNone, Walking!None
<1>. QED
  BY <1>1 DEF Origin, Walking!ResolvedUrl, FetchNone, Walking!None

(* A 304 vouches for the copy only where it was asked about it. *)
LEMMA NotModifiedStep ==
    ASSUME FetchInv, Walking!NotModified
    PROVE  FetchInv'
<1> DEFINE s == site[walk.at]
           sent == Walking!Sent(walk)
<1>1. /\ walk # Walking!Idle /\ walk' = Walking!Idle /\ site' = site /\ Walking!Connects
      /\ copy' = [copy EXCEPT !.resolved = Walking!ResolvedUrl] /\ served' = s.content
      /\ sent # Walking!NoValidators /\ Walking!Matches(walk.at, sent) /\ minter' = minter
  BY DEF Walking!NotModified, Walking!IsAnswer
<1>2. /\ copy \in Walking!Copies /\ copy.validators \in Walking!Validators
      /\ copy.resolved \in PageUrls \cup {FetchNone}
      /\ s \in Walking!Sites /\ s.content \in PageContents
  BY <1>1, WalkHas DEF FetchInv, Walking!TypeOK, Walking!Copies, FetchNone, Walking!Sites
<1>3. /\ walk.minted = copy.resolved /\ walk.carried.etag = copy.validators.etag
      /\ walk.carried.date \in {0, copy.validators.date}
      /\ walk.minted = FetchNone /\ walk.hops # 0 => walk.carried.date = 0
      /\ walk.hops = 0 => walk.at = Requested
  BY <1>1 DEF FetchInv, WalkIsSound
<1>4. sent = walk.carried /\ (walk.minted = FetchNone \/ walk.at = walk.minted)
  BY <1>1 DEF Walking!Sent, FetchNone
<1>5. walk.carried \in Walking!Validators
  BY <1>1, WalkHas
<1>6. Walking!ResolvedUrl \in PageUrls \cup {FetchNone}
  <2>1. walk.at \in PageUrls
    BY <1>1, WalkHas
  <2>. QED
    BY <2>1 DEF Walking!ResolvedUrl, FetchNone
<1>7. /\ copy' \in Walking!Copies /\ copy'.content = copy.content
      /\ copy'.validators = copy.validators /\ copy'.resolved = Walking!ResolvedUrl
  BY <1>1, <1>2, <1>6 DEF Walking!Copies, FetchNone
<1>8. Origin' = walk.at
  BY <1>1, <1>7, ResolvedIs
<1>9. CopyIsMinted /\ CopyIsDated /\ minter \in PageUrls \cup {FetchNone}
  BY DEF FetchInv, Walking!TypeOK, FetchNone
<1>10. /\ minter # FetchNone => minter \in {Requested, copy'.resolved}
       /\ walk.at \in PageUrls /\ FetchNone \notin PageUrls
       /\ copy'.resolved = IF walk.hops = 0 THEN FetchNone ELSE walk.at
       /\ minter' = minter /\ served' = s.content
  BY <1>1, <1>3, <1>4, <1>7, <1>9, WalkHas, FetchAssumption
     DEF CopyIsMinted, Walking!ResolvedUrl, FetchNone, Walking!None
<1>11. CASE walk.carried.etag # FetchNone
  <2>1. /\ copy.validators.etag = EtagOf[minter][copy.content]
        /\ copy.validators.etag = EtagOf[walk.at][s.content]
        /\ minter \in PageUrls /\ copy.content \in PageContents
    BY <1>1, <1>2, <1>3, <1>4, <1>9, <1>11
       DEF Walking!Matches, CopyIsMinted, Walking!Copies, FetchNone
  <2>2. ASSUME walk.at = minter PROVE Walking!StoredIsServed'
    <3>1. \A c, d \in PageContents :
            EtagOf[walk.at][c] = EtagOf[walk.at][d] => c = d
      BY <1>10, FetchAssumption
    <3>2. copy.content = s.content
      BY <1>2, <2>1, <2>2, <3>1
    <3>. QED
      BY <1>7, <1>10, <3>2 DEF Walking!StoredIsServed
  <2>3. ASSUME walk.at # minter PROVE Walking!StoredIsServed'
    <3>1. walk.hops # 0
      BY <1>3, <1>4, <1>9, <2>1, <2>3, FetchAssumption DEF CopyIsMinted, FetchNone, Walking!None
    <3>. QED
      BY <1>10, <2>3, <3>1 DEF Walking!StoredIsServed, Walking!Adopted, FetchNone
  <2>4. CopyIsMinted' /\ CopyIsDated'
    BY <1>1, <1>3, <1>7, <1>9, <1>10, <1>11 DEF CopyIsMinted, CopyIsDated, FetchNone
  <2>. QED
    BY <1>1, <1>2, <1>7, <1>9, <2>2, <2>3, <2>4, WalkEnds
<1>12. CASE walk.carried.etag = FetchNone
  <2>1. walk.carried.date # 0
    BY <1>1, <1>4, <1>5, <1>12 DEF Walking!Validators, Walking!NoValidators, FetchNone
  <2>2. s.date <= walk.carried.date /\ walk.carried.date = copy.validators.date
    BY <1>1, <1>3, <1>4, <1>12, <2>1 DEF Walking!Matches, FetchNone
  <2>3. Origin = walk.at
    BY <1>3, <1>4, <2>1, FetchAssumption DEF Origin
  <2>4. copy.validators.date <= s.date /\ (s.date = copy.validators.date => s.content = copy.content)
    BY <1>3, <1>9, <1>12, <2>1, <2>2, <2>3 DEF CopyIsDated
  <2>5. s.date \in Int /\ copy.validators.date \in Int
    BY <1>2, FetchAssumption DEF Walking!Sites, Walking!Validators
  <2>6. copy.content = s.content /\ copy.validators.date <= s.date
    BY <2>2, <2>4, <2>5
  <2>7. CopyIsMinted' /\ CopyIsDated' /\ Walking!StoredIsServed'
    BY <1>1, <1>3, <1>7, <1>8, <1>10, <1>12, <2>6
       DEF CopyIsMinted, CopyIsDated, Walking!StoredIsServed, FetchNone
  <2>. QED
    BY <1>1, <1>2, <1>7, <1>9, <2>7, WalkEnds
<1>. QED
  BY <1>11, <1>12

LEMMA FetchedStep ==
    ASSUME FetchInv, Walking!Fetched
    PROVE  FetchInv'
<1> DEFINE s == site[walk.at]
           etag == IF "ETag" \in s.headers THEN EtagOf[walk.at][s.content] ELSE Walking!None
           date == IF "Last-Modified" \in s.headers THEN s.date ELSE 0
<1>1. /\ walk # Walking!Idle /\ walk' = Walking!Idle /\ site' = site /\ Walking!Connects
      /\ copy' = [content |-> s.content, validators |-> [etag |-> etag, date |-> date],
                  resolved |-> Walking!ResolvedUrl]
      /\ served' = s.content /\ minter' = walk.at
  BY DEF Walking!Fetched
<1>2. /\ s.content \in PageContents /\ s.date \in 1 .. MaxDate
      /\ walk.at \in PageUrls /\ (walk.hops = 0 => walk.at = Requested)
      /\ FetchNone \notin PageUrls \cup PageContents
  BY <1>1, WalkHas, FetchAssumption DEF Walking!Sites, FetchInv, WalkIsSound, FetchNone, Walking!None
<1>3. /\ etag \in Walking!Etags \cup {Walking!None}
      /\ etag # FetchNone => etag = EtagOf[walk.at][s.content]
      /\ date \in 0 .. MaxDate /\ date \in {0, s.date}
  BY <1>2, FetchAssumption DEF FetchNone, Walking!Etags
<1> HIDE DEF etag, date
<1>4. Origin' = walk.at /\ Walking!ResolvedUrl \in PageUrls \cup {FetchNone}
  BY <1>1, ResolvedIs
<1>5. copy' \in Walking!Copies
  BY <1>1, <1>2, <1>3, <1>4 DEF Walking!Copies, Walking!Validators, FetchNone
<1>6. CopyIsDated'
  BY <1>1, <1>2, <1>3, <1>4 DEF CopyIsDated
<1>7. CopyIsMinted' /\ Walking!StoredIsServed'
  BY <1>1, <1>2, <1>3 DEF CopyIsMinted, Walking!StoredIsServed, Walking!ResolvedUrl, FetchNone
<1>8. served' \in PageContents \cup {FetchNone} /\ minter' \in PageUrls \cup {FetchNone}
  BY <1>1, <1>2
<1>. QED
  BY <1>1, <1>5, <1>6, <1>7, <1>8, WalkEnds

LEMMA WalkFailsStep ==
    ASSUME FetchInv, Walking!WalkFails
    PROVE  FetchInv'
<1>1. /\ walk # Walking!Idle /\ walk' = Walking!Idle /\ UNCHANGED <<site, copy, served, minter>>
      /\ Walking!Connects \/ UNCHANGED pool
  BY DEF Walking!WalkFails
<1>2. /\ copy \in Walking!Copies /\ served \in PageContents \cup {FetchNone}
      /\ minter \in PageUrls \cup {FetchNone}
      /\ Walking!StoredIsServed /\ CopyIsMinted /\ CopyIsDated
  BY DEF FetchInv, Walking!TypeOK, FetchNone
<1>3. CopyIsDated' /\ CopyIsMinted' /\ Walking!StoredIsServed'
  BY <1>1, <1>2 DEF CopyIsDated, CopyIsMinted, Origin, FetchNone,
     Walking!StoredIsServed, Walking!Adopted
<1>. QED
  BY <1>1, <1>2, <1>3, WalkEnds

LEMMA ExpireStep ==
    ASSUME FetchInv, NEW host \in Walking!Hosts, Walking!Expire(host)
    PROVE  FetchInv'
<1>1. /\ pool' = [pool EXCEPT ![host] = Walking!None] /\ UNCHANGED <<site, copy, walk, served, minter>>
  BY DEF Walking!Expire
<1>2. /\ pool' \in [Walking!Hosts -> Addresses \cup {Walking!None}]
      /\ \A h \in Walking!Hosts : pool'[h] \in Public \cup {Walking!None}
  BY <1>1 DEF FetchInv, Walking!TypeOK, Walking!SocketsAreGuarded
<1>. QED
  BY <1>1, <1>2 DEF FetchInv, Walking!TypeOK, CopyIsMinted, CopyIsDated, Origin, WalkIsSound,
     FetchNone, Walking!StoredIsServed, Walking!Adopted, Walking!SocketsAreGuarded

(* A page that is published anew has a later date. *)
LEMMA SiteStep ==
    ASSUME FetchInv, NEW u \in PageUrls, Walking!Publish(u) \/ Walking!Repoint(u)
    PROVE  FetchInv'
<1>1. site \in [PageUrls -> Walking!Sites] /\ UNCHANGED <<copy, walk, pool, served, minter>>
  BY DEF FetchInv, Walking!TypeOK, Walking!Publish, Walking!Repoint
<1>2. /\ site' \in [PageUrls -> Walking!Sites]
      /\ \A v \in PageUrls : \/ site'[v].date = site[v].date /\ site'[v].content = site[v].content
                             \/ site'[v].date = site[v].date + 1
  <2>1. CASE Walking!Publish(u)
    <3>1. PICK content \in PageContents :
            site' = [site EXCEPT ![u].content = content, ![u].date = @ + 1]
      BY <2>1 DEF Walking!Publish
    <3>2. site[u].date < MaxDate
      BY <2>1 DEF Walking!Publish
    <3> DEFINE later == site[u].date + 1
               r == [site[u] EXCEPT !.content = content, !.date = later]
    <3>3. later \in 1 .. MaxDate /\ site[u] \in Walking!Sites
      BY <1>1, <3>2, FetchAssumption DEF Walking!Sites
    <3>4. site' = [site EXCEPT ![u] = r]
      BY <1>1, <3>1
    <3>5. later = site[u].date + 1
      OBVIOUS
    <3> HIDE DEF later
    <3>6. r \in Walking!Sites /\ r.date = later
      BY <3>3 DEF Walking!Sites
    <3> HIDE DEF r
    <3>. QED
      BY <1>1, <3>4, <3>5, <3>6
  <2>2. CASE Walking!Repoint(u)
    <3>1. PICK to \in (PageUrls \ {u}) \cup {Walking!None} : site' = [site EXCEPT ![u].to = to]
      BY <2>2 DEF Walking!Repoint
    <3> DEFINE r == [site[u] EXCEPT !.to = to]
    <3>2. r \in Walking!Sites /\ r.date = site[u].date /\ r.content = site[u].content
      BY <1>1 DEF Walking!Sites
    <3>3. site' = [site EXCEPT ![u] = r]
      BY <1>1, <3>1
    <3> HIDE DEF r
    <3>. QED
      BY <1>1, <3>2, <3>3
  <2>. QED
    BY <2>1, <2>2
<1>3. Origin' = Origin /\ Origin \in PageUrls
  BY <1>1, FetchAssumption DEF Origin, FetchNone, FetchInv, Walking!TypeOK, Walking!Copies
<1>4. CopyIsDated'
  <2>1. /\ site[Origin].date \in Int /\ copy.validators.date \in Int
        /\ \/ /\ site'[Origin].date = site[Origin].date
              /\ site'[Origin].content = site[Origin].content
           \/ site'[Origin].date = site[Origin].date + 1
    BY <1>1, <1>2, <1>3, FetchAssumption
       DEF Walking!Sites, FetchInv, Walking!TypeOK, Walking!Copies, Walking!Validators
  <2>2. CopyIsDated /\ copy' = copy
    BY <1>1 DEF FetchInv
  <2>3. site[Origin]' = site'[Origin]
    BY <1>3
  <2>. QED
    BY <2>1, <2>2, <2>3 DEF CopyIsDated, FetchNone
<1>. QED
  BY <1>1, <1>2, <1>4 DEF FetchInv, Walking!TypeOK, CopyIsMinted, WalkIsSound, FetchNone,
     Walking!StoredIsServed, Walking!Adopted, Walking!SocketsAreGuarded

LEMMA FetchNext == FetchInv /\ [Walking!Next]_Walking!vars => FetchInv'
<1> SUFFICES ASSUME FetchInv, [Walking!Next]_Walking!vars PROVE FetchInv'
  OBVIOUS
<1>1. CASE Walking!Begin \/ Walking!Follow
  BY <1>1, BeginStep, FollowStep
<1>2. CASE Walking!NotModified \/ Walking!Fetched \/ Walking!WalkFails
  BY <1>2, NotModifiedStep, FetchedStep, WalkFailsStep
<1>3. CASE \E h \in Walking!Hosts : Walking!Expire(h)
  BY <1>3, ExpireStep
<1>4. CASE \E u \in PageUrls : Walking!Publish(u) \/ Walking!Repoint(u)
  BY <1>4, SiteStep
<1>5. CASE UNCHANGED Walking!vars
  BY <1>5 DEF Walking!vars, FetchInv, Walking!TypeOK, CopyIsMinted, CopyIsDated, Origin,
     WalkIsSound, FetchNone, Walking!StoredIsServed, Walking!Adopted, Walking!SocketsAreGuarded
<1>. QED
  BY <1>1, <1>2, <1>3, <1>4, <1>5 DEF Walking!Next

(* The fetch keeps its invariant, for any pages, names and answers, and    *)
(* whatever ETags different pages give to different bytes: a copy and its  *)
(* ETag come from one page, the requested one or the one that the copy is  *)
(* recorded to have come from, and what a 304 from there confirms is what  *)
(* it serves.  A copy whose ETag is of another page than the recorded one  *)
(* is excepted: the requested page was fetched, then redirected, and the   *)
(* ETag confirmed at the end of the redirect (_revalidate).                *)
THEOREM FetchIsSound == Walking!Spec => []FetchInv
BY FetchInit, FetchNext, PTL DEF Walking!Spec


-----------------------------------------------------------------------------
(* The key set.                                                            *)

Waiting == {"getting", "refreshing"}

RequestRecords ==
    [at : {Signing!None, "getting", "refreshing", "accepted", "rejected", "unavailable"},
     kid : KeyIds \cup {Signing!None}, current : BOOLEAN, genuine : BOOLEAN,
     renewed : BOOLEAN, excused : BOOLEAN]

(* What the cached set says of a request that waits: a fetch that began    *)
(* after it came has its key, if that is published; it waits for a refetch *)
(* only of a set without its key, or of one that has been replaced since.  *)
RequestIsSound(r) ==
    LET q == request[r] IN
    /\ q.genuine => q.kid \in published
    /\ q.at = "rejected" /\ q.genuine => ~q.renewed /\ q.excused
    /\ q.at \in Waiting /\ q.genuine /\ q.renewed => jwks.cached /\ q.kid \in jwks.keys
    /\ q.at = "refreshing" /\ q.current => q.kid \notin jwks.keys
    /\ q.at = "refreshing" /\ ~q.current => q.renewed

(* A fetch began after the requests that wait for a refetch, or know of an *)
(* earlier one, had come; its answer has the keys that stay published.     *)
FetchCovers(r) ==
    LET q == request[r] IN
    /\ r \in fetch.since => q.at \in Waiting
    /\ q.at \in Waiting /\ (q.at = "refreshing" \/ q.renewed) => r \in fetch.since
    /\ r \in fetch.since /\ q.genuine /\ fetch.answer # {} => q.kid \in fetch.answer

KeysInv ==
    /\ Signing!TypeOK
    /\ \A r \in Callers : RequestIsSound(r)
    /\ fetch # Signing!NoFetch =>
        /\ fetch.by \in fetch.since
        /\ \A r \in Callers : FetchCovers(r)

LEMMA KeysInit == Signing!Init => KeysInv
<1> SUFFICES ASSUME Signing!Init PROVE KeysInv
  OBVIOUS
<1>1. /\ published \in SUBSET KeyIds /\ jwks = Signing!NoJwks /\ missed = Cooldown
      /\ fetch = Signing!NoFetch /\ request = [r \in Callers |-> Signing!NoRequest]
  BY DEF Signing!Init, Signing!Unset
<1>2. Signing!TypeOK
  BY <1>1, KeysAssumption DEF Signing!TypeOK, Signing!NoJwks, Signing!NoRequest, Signing!NoFetch
<1>3. \A r \in Callers : RequestIsSound(r)
  BY <1>1 DEF RequestIsSound, Signing!NoRequest, Waiting, Signing!None
<1>. QED
  BY <1>1, <1>2, <1>3 DEF KeysInv

LEMMA KeysTyped ==
    ASSUME KeysInv
    PROVE  /\ published \subseteq KeyIds
           /\ jwks.keys \subseteq KeyIds /\ jwks.cached \in BOOLEAN
           /\ request \in [Callers -> RequestRecords]
           /\ fetch # Signing!NoFetch =>
                /\ fetch.by \in Callers /\ fetch.answer \subseteq KeyIds
                /\ fetch.since \subseteq Callers
BY DEF KeysInv, Signing!TypeOK, RequestRecords

(* One request's step leaves the others as they are. *)
LEMMA RequestStep ==
    ASSUME KeysInv, NEW r \in Callers, NEW q \in RequestRecords,
           request' = [request EXCEPT ![r] = q],
           UNCHANGED <<published, jwks, missed>>, RequestIsSound(r)',
           \/ fetch' = Signing!NoFetch
           \/ fetch' = fetch /\ (fetch # Signing!NoFetch => FetchCovers(r)')
    PROVE  KeysInv'
<1>1. request'[r] = q /\ \A s \in Callers \ {r} : request'[s] = request[s]
  BY KeysTyped
<1>2. Signing!TypeOK'
  <2>1. request' \in [Callers -> RequestRecords]
    BY KeysTyped
  <2>. QED
    BY <2>1 DEF KeysInv, Signing!TypeOK, RequestRecords
<1>3. \A s \in Callers : RequestIsSound(s)'
  <2>1. ASSUME NEW s \in Callers \ {r} PROVE RequestIsSound(s)'
    BY <1>1 DEF KeysInv, RequestIsSound
  <2>. QED
    BY <2>1
<1>4. ASSUME fetch' # Signing!NoFetch
      PROVE  fetch'.by \in fetch'.since /\ \A s \in Callers : FetchCovers(s)'
  <2>1. fetch' = fetch
    BY <1>4
  <2>2. ASSUME NEW s \in Callers \ {r} PROVE FetchCovers(s)'
    BY <1>1, <1>4, <2>1 DEF KeysInv, FetchCovers
  <2>. QED
    BY <1>4, <2>1, <2>2 DEF KeysInv
<1>. QED
  BY <1>2, <1>3, <1>4 DEF KeysInv, Signing!NoFetch

LEMMA ArriveStep ==
    ASSUME KeysInv, NEW r \in Callers, NEW kid \in KeyIds, Signing!Arrive(r, kid)
    PROVE  KeysInv'
<1> DEFINE known == kid \in published
           q == [Signing!NoRequest EXCEPT !.at = "getting", !.kid = kid, !.genuine = known]
<1>1. /\ request[r].at = Signing!None /\ request' = [request EXCEPT ![r] = q]
      /\ UNCHANGED <<published, jwks, missed, fetch>>
  BY DEF Signing!Arrive
<1>6. Signing!NoRequest \in RequestRecords /\ Signing!NoRequest.renewed = FALSE
  BY DEF RequestRecords, Signing!NoRequest
<1>7. known \in BOOLEAN /\ (known <=> kid \in published)
  OBVIOUS
<1> HIDE DEF known
<1>2. /\ q \in RequestRecords /\ q.at = "getting" /\ q.kid = kid
      /\ q.genuine = known /\ q.renewed = FALSE
  BY <1>6, <1>7 DEF RequestRecords
<1> HIDE DEF q
<1>3. request'[r] = q
  BY <1>1, KeysTyped
<1>4. RequestIsSound(r)'
  BY <1>1, <1>2, <1>3, <1>7 DEF RequestIsSound, Waiting
<1>5. fetch # Signing!NoFetch => FetchCovers(r)'
  BY <1>1, <1>2, <1>3 DEF KeysInv, FetchCovers, Waiting, Signing!None
<1>. QED
  BY <1>1, <1>2, <1>4, <1>5, RequestStep

LEMMA LeaveStep ==
    ASSUME KeysInv, NEW r \in Callers, Signing!Leave(r)
    PROVE  KeysInv'
<1> DEFINE q == Signing!NoRequest
<1>1. /\ request[r].at \in {"accepted", "rejected", "unavailable"}
      /\ request' = [request EXCEPT ![r] = q] /\ UNCHANGED <<published, jwks, missed, fetch>>
  BY DEF Signing!Leave
<1>2. /\ q \in RequestRecords /\ q.at = Signing!None /\ q.genuine = FALSE
  BY DEF RequestRecords, Signing!NoRequest
<1> HIDE DEF q
<1>3. request'[r] = q
  BY <1>1, KeysTyped
<1>4. RequestIsSound(r)'
  BY <1>1, <1>2, <1>3 DEF RequestIsSound, Waiting, Signing!None
<1>5. fetch # Signing!NoFetch => FetchCovers(r)'
  BY <1>1, <1>2, <1>3 DEF KeysInv, FetchCovers, Waiting, Signing!None
<1>. QED
  BY <1>1, <1>2, <1>4, <1>5, RequestStep

(* A request that is given a set is accepted by it, or waits for a newer   *)
(* one; a request that is judged by a set is rejected if its key is not    *)
(* there.                                                                  *)
LEMMA GivenIs ==
    ASSUME NEW q \in RequestRecords, NEW keys
    PROVE  LET g == Signing!Given(q, keys) IN
           /\ g \in RequestRecords /\ g.kid = q.kid /\ g.genuine = q.genuine
           /\ g.renewed = q.renewed /\ g.excused = q.excused /\ g.current = TRUE
           /\ g.at = IF q.kid \in keys THEN "accepted" ELSE "refreshing"
BY DEF Signing!Given, RequestRecords

LEMMA JudgedIs ==
    ASSUME NEW q \in RequestRecords, NEW keys
    PROVE  LET j == Signing!Judged(q, keys) IN
           /\ j \in RequestRecords /\ j.kid = q.kid /\ j.genuine = q.genuine
           /\ j.renewed = q.renewed /\ j.excused = q.excused
           /\ j.at = IF q.kid \in keys THEN "accepted" ELSE "rejected"
BY DEF Signing!Judged, RequestRecords

LEMMA GetCachedStep ==
    ASSUME KeysInv, NEW r \in Callers, Signing!GetCached(r)
    PROVE  KeysInv'
<1> DEFINE q == Signing!Given(request[r], jwks.keys)
<1>1. /\ request[r].at = "getting" /\ fetch = Signing!NoFetch
      /\ request' = [request EXCEPT ![r] = q] /\ UNCHANGED <<published, jwks, missed, fetch>>
  BY DEF Signing!GetCached, Signing!Waits
<1>2. request[r] \in RequestRecords /\ RequestIsSound(r)
  BY KeysTyped DEF KeysInv
<1>3. /\ q \in RequestRecords /\ q.kid = request[r].kid /\ q.genuine = request[r].genuine
      /\ q.renewed = request[r].renewed /\ q.current = TRUE
      /\ q.at = IF request[r].kid \in jwks.keys THEN "accepted" ELSE "refreshing"
  BY <1>2, GivenIs
<1> HIDE DEF q
<1>4. request'[r] = q
  BY <1>1, KeysTyped
<1>5. RequestIsSound(r)'
  BY <1>1, <1>2, <1>3, <1>4 DEF RequestIsSound, Waiting
<1>. QED
  BY <1>1, <1>3, <1>5, RequestStep

(* What another request fetched has the key, if it is published. *)
LEMMA TakeReplacedStep ==
    ASSUME KeysInv, NEW r \in Callers, Signing!TakeReplaced(r)
    PROVE  KeysInv'
<1> DEFINE q == Signing!Judged(request[r], jwks.keys)
<1>1. /\ request[r].at = "refreshing" /\ fetch = Signing!NoFetch /\ ~request[r].current
      /\ request' = [request EXCEPT ![r] = q] /\ UNCHANGED <<published, jwks, missed, fetch>>
  BY DEF Signing!TakeReplaced, Signing!Waits, Signing!WasReplaced
<1>2. request[r] \in RequestRecords /\ RequestIsSound(r)
  BY KeysTyped DEF KeysInv
<1>3. /\ q \in RequestRecords /\ q.kid = request[r].kid /\ q.genuine = request[r].genuine
      /\ q.at = IF request[r].kid \in jwks.keys THEN "accepted" ELSE "rejected"
  BY <1>2, JudgedIs
<1> HIDE DEF q
<1>4. request'[r] = q
  BY <1>1, KeysTyped
<1>5. RequestIsSound(r)'
  BY <1>1, <1>2, <1>3, <1>4 DEF RequestIsSound, Waiting
<1>. QED
  BY <1>1, <1>3, <1>5, RequestStep

(* A request that is turned away inside the window is not renewed: its key *)
(* is not in the set that it was given.                                    *)
LEMMA SkipRefetchStep ==
    ASSUME KeysInv, NEW r \in Callers, Signing!SkipRefetch(r)
    PROVE  KeysInv'
<1> DEFINE q == [request[r] EXCEPT !.at = "rejected", !.excused = TRUE]
<1>1. /\ request[r].at = "refreshing" /\ fetch = Signing!NoFetch /\ request[r].current
      /\ request' = [request EXCEPT ![r].at = "rejected", ![r].excused = TRUE]
      /\ UNCHANGED <<published, jwks, missed, fetch>>
  BY DEF Signing!SkipRefetch, Signing!Waits, Signing!WasReplaced
<1>2. request[r] \in RequestRecords /\ RequestIsSound(r)
  BY KeysTyped DEF KeysInv
<1>3. /\ q \in RequestRecords /\ q.kid = request[r].kid /\ q.genuine = request[r].genuine
      /\ q.renewed = request[r].renewed /\ q.at = "rejected" /\ q.excused = TRUE
  BY <1>2 DEF RequestRecords
<1>4. request' = [request EXCEPT ![r] = q]
  BY <1>1, KeysTyped
<1> HIDE DEF q
<1>5. request'[r] = q
  BY <1>4, KeysTyped
<1>6. RequestIsSound(r)'
  BY <1>1, <1>2, <1>3, <1>5 DEF RequestIsSound, Waiting
<1>. QED
  BY <1>1, <1>3, <1>4, <1>6, RequestStep

(* A fetch begins: it is after all the requests that wait. *)
LEMMA FetchBegins ==
    ASSUME KeysInv, NEW r \in Callers, request[r].at \in Waiting,
           fetch' = Signing!Fetching(r), UNCHANGED <<published, jwks, request>>,
           missed' \in 0 .. Cooldown
    PROVE  KeysInv'
<1>1. /\ fetch' # Signing!NoFetch /\ fetch'.by = r /\ fetch'.answer = {}
      /\ fetch'.since = {q \in Callers : request[q].at \in Waiting}
      /\ fetch' \in [by : Callers, answer : SUBSET KeyIds, since : SUBSET Callers]
  BY KeysAssumption DEF Signing!Fetching, Signing!NoFetch, Signing!None, Waiting
<1>2. Signing!TypeOK'
  BY <1>1 DEF KeysInv, Signing!TypeOK
<1>3. \A q \in Callers : RequestIsSound(q)'
  BY DEF KeysInv, RequestIsSound
<1>4. \A q \in Callers : FetchCovers(q)'
  BY <1>1 DEF FetchCovers
<1>. QED
  BY <1>1, <1>2, <1>3, <1>4 DEF KeysInv

LEMMA AnswerStep ==
    ASSUME KeysInv, Signing!GitHubAnswers
    PROVE  KeysInv'
<1>1. /\ fetch # Signing!NoFetch /\ fetch' = [fetch EXCEPT !.answer = published]
      /\ UNCHANGED <<published, jwks, missed, request>>
  BY DEF Signing!GitHubAnswers
<1>2. fetch \in [by : Callers, answer : SUBSET KeyIds, since : SUBSET Callers]
  BY <1>1 DEF KeysInv, Signing!TypeOK
<1>3. /\ fetch' \in [by : Callers, answer : SUBSET KeyIds, since : SUBSET Callers]
      /\ fetch'.by = fetch.by /\ fetch'.since = fetch.since /\ fetch'.answer = published
  BY <1>1, <1>2, KeysTyped
<1>4. Signing!TypeOK'
  BY <1>1, <1>3 DEF KeysInv, Signing!TypeOK
<1>5. \A q \in Callers : RequestIsSound(q)'
  BY <1>1 DEF KeysInv, RequestIsSound
<1>6. \A q \in Callers : FetchCovers(q)'
  BY <1>1, <1>3 DEF KeysInv, FetchCovers, RequestIsSound
<1>. QED
  BY <1>1, <1>3, <1>4, <1>5, <1>6 DEF KeysInv

(* What is left of a request that fetched, given a set that has its key if *)
(* that is published and the request is renewed.                           *)
LEMMA ResumedIs ==
    ASSUME NEW q \in RequestRecords, q.at \in Waiting, NEW keys,
           q.genuine /\ q.renewed => q.kid \in keys,
           q.at = "refreshing" => q.renewed \/ q.excused
    PROVE  LET s == Signing!Resumed(q, keys) IN
           /\ s \in RequestRecords /\ s.kid = q.kid /\ s.genuine = q.genuine
           /\ s.renewed = q.renewed
           /\ s.at \in {"accepted", "rejected", "refreshing"}
           /\ s.at = "refreshing" => s.current /\ s.kid \notin keys
           /\ s.at # "accepted" /\ s.genuine => ~s.renewed
           /\ s.at = "rejected" /\ s.genuine => s.excused
<1>1. CASE q.at = "getting"
  <2> DEFINE g == Signing!Given(q, keys)
  <2>1. /\ g \in RequestRecords /\ g.kid = q.kid /\ g.genuine = q.genuine
        /\ g.renewed = q.renewed /\ g.excused = q.excused /\ g.current = TRUE
        /\ g.at = IF q.kid \in keys THEN "accepted" ELSE "refreshing"
    BY GivenIs
  <2> HIDE DEF g
  <2>2. /\ g.at \in {"accepted", "refreshing"}
        /\ g.at = "refreshing" => g.current /\ g.kid \notin keys
        /\ g.at # "accepted" /\ g.genuine => ~g.renewed
    BY <2>1
  <2>3. Signing!Resumed(q, keys) = g
    BY <1>1 DEF Signing!Resumed, g
  <2>. QED
    BY <2>1, <2>2, <2>3
<1>2. CASE q.at = "refreshing"
  <2> DEFINE j == Signing!Judged(q, keys)
  <2>1. /\ j \in RequestRecords /\ j.kid = q.kid /\ j.genuine = q.genuine
        /\ j.renewed = q.renewed /\ j.excused = q.excused
        /\ j.at = IF q.kid \in keys THEN "accepted" ELSE "rejected"
    BY JudgedIs
  <2> HIDE DEF j
  <2>2. /\ j.at \in {"accepted", "rejected"}
        /\ j.at # "accepted" /\ j.genuine => ~j.renewed
        /\ j.at = "rejected" /\ j.genuine => j.excused
    BY <1>2, <2>1
  <2>3. Signing!Resumed(q, keys) = j
    BY <1>2 DEF Signing!Resumed, j
  <2>. QED
    BY <2>1, <2>2, <2>3
<1>. QED
  BY <1>1, <1>2 DEF Waiting

(* The set is replaced: every request that a fetch covered has its key.    *)
LEMMA CacheStep ==
    ASSUME KeysInv, Signing!Cache
    PROVE  KeysInv'
<1> DEFINE keys == fetch.answer
           seen(q) == [request[q] EXCEPT !.current = FALSE,
                                         !.renewed = @ \/ q \in fetch.since]
<1>1. /\ fetch # Signing!NoFetch /\ keys # {} /\ fetch' = Signing!NoFetch
      /\ jwks' = [keys |-> keys, age |-> 0, cached |-> TRUE]
      /\ request' = [q \in Callers |->
            IF q = fetch.by THEN Signing!Resumed(seen(q), keys) ELSE seen(q)]
      /\ UNCHANGED <<published, missed>>
  BY DEF Signing!Cache
<1>2. /\ fetch.by \in Callers /\ keys \subseteq KeyIds /\ fetch.by \in fetch.since
      /\ \A q \in Callers : RequestIsSound(q) /\ FetchCovers(q)
  BY <1>1, KeysTyped DEF KeysInv
<1>3. ASSUME NEW q \in Callers
      PROVE  /\ seen(q) \in RequestRecords /\ seen(q).at = request[q].at
             /\ seen(q).kid = request[q].kid /\ seen(q).genuine = request[q].genuine
             /\ seen(q).excused = request[q].excused /\ seen(q).current = FALSE
             /\ seen(q).renewed <=> request[q].renewed \/ q \in fetch.since
  <2> DEFINE renewed == request[q].renewed \/ q \in fetch.since
  <2>1. request[q] \in RequestRecords
    BY KeysTyped
  <2>2. seen(q) = [request[q] EXCEPT !.current = FALSE, !.renewed = renewed]
    BY <2>1 DEF RequestRecords
  <2>3. renewed \in BOOLEAN /\ (renewed <=> request[q].renewed \/ q \in fetch.since)
    OBVIOUS
  <2> HIDE DEF renewed
  <2>. QED
    BY <2>1, <2>2, <2>3 DEF RequestRecords
<1> HIDE DEF seen
<1>4. ASSUME NEW q \in Callers, seen(q).at \in Waiting \/ seen(q).at = "rejected"
      PROVE  /\ seen(q).genuine => seen(q).kid \in published
             /\ seen(q).at \in Waiting /\ seen(q).genuine /\ seen(q).renewed => seen(q).kid \in keys
             /\ seen(q).at = "refreshing" => seen(q).renewed
             /\ seen(q).at = "rejected" /\ seen(q).genuine => ~seen(q).renewed /\ seen(q).excused
  BY <1>1, <1>2, <1>3 DEF RequestIsSound, FetchCovers, Waiting
<1>5. ASSUME NEW q \in Callers
      PROVE  request'[q] \in RequestRecords /\ RequestIsSound(q)'
  <2>1. CASE q = fetch.by
    <3>1. request'[q] = Signing!Resumed(seen(q), keys)
      BY <1>1, <2>1
    <3>2. seen(q).at \in Waiting /\ seen(q) \in RequestRecords
      BY <1>2, <1>3, <2>1 DEF FetchCovers
    <3>3. /\ seen(q).genuine /\ seen(q).renewed => seen(q).kid \in keys
          /\ seen(q).at = "refreshing" => seen(q).renewed
          /\ seen(q).genuine => seen(q).kid \in published
      BY <1>4, <3>2
    <3> HIDE DEF keys
    <3>4. /\ request'[q] \in RequestRecords /\ request'[q].kid = seen(q).kid
          /\ request'[q].genuine = seen(q).genuine
          /\ request'[q].at \in {"accepted", "rejected", "refreshing"}
          /\ request'[q].at = "refreshing" => request'[q].current /\ request'[q].kid \notin keys
          /\ request'[q].at # "accepted" /\ request'[q].genuine => ~request'[q].renewed
          /\ request'[q].at = "rejected" /\ request'[q].genuine => request'[q].excused
      BY <3>1, <3>2, <3>3, ResumedIs
    <3>5. jwks'.keys = keys /\ published' = published
      BY <1>1
    <3>. QED
      BY <3>3, <3>4, <3>5 DEF RequestIsSound, Waiting
  <2>2. CASE q # fetch.by
    <3>1. request'[q] = seen(q) /\ jwks'.keys = keys /\ jwks'.cached = TRUE /\ published' = published
      BY <1>1, <2>2
    <3>2. seen(q).genuine => seen(q).kid \in published
      BY <1>2, <1>3 DEF RequestIsSound
    <3>. QED
      BY <1>3, <1>4, <3>1, <3>2 DEF RequestIsSound, Waiting
  <2>. QED
    BY <2>1, <2>2
<1>6. Signing!TypeOK'
  <2>1. jwks' \in [keys : SUBSET KeyIds, age : 0 .. KeysTTL, cached : BOOLEAN]
    BY <1>1, <1>2, KeysAssumption
  <2>2. request' \in [Callers -> RequestRecords]
    BY <1>1, <1>5
  <2>. QED
    BY <1>1, <2>1, <2>2 DEF KeysInv, Signing!TypeOK, RequestRecords
<1>. QED
  BY <1>1, <1>5, <1>6 DEF KeysInv

LEMMA FallBackStep ==
    ASSUME KeysInv, Signing!FallBack
    PROVE  KeysInv'
<1> SUFFICES ASSUME NEW r, r = fetch.by PROVE KeysInv'
  OBVIOUS
<1> DEFINE q == [request[r] EXCEPT !.excused = TRUE]
           s == IF jwks.cached THEN Signing!Resumed(q, jwks.keys)
                ELSE [q EXCEPT !.at = "unavailable"]
<1>1. /\ fetch # Signing!NoFetch /\ fetch' = Signing!NoFetch
      /\ request' = [request EXCEPT ![r] = s] /\ UNCHANGED <<published, jwks, missed>>
  BY DEF Signing!FallBack
<1>2. /\ r \in Callers /\ request[r] \in RequestRecords /\ RequestIsSound(r)
      /\ request[r].at \in Waiting
  BY <1>1, KeysTyped DEF KeysInv, FetchCovers
<1>3. /\ q \in RequestRecords /\ q.at = request[r].at /\ q.kid = request[r].kid
      /\ q.genuine = request[r].genuine /\ q.renewed = request[r].renewed /\ q.excused = TRUE
  BY <1>2 DEF RequestRecords
<1> HIDE DEF q
<1>4. request'[r] = s
  BY <1>1, <1>2, KeysTyped
<1>5. CASE jwks.cached
  <2>1. /\ q.genuine /\ q.renewed => q.kid \in jwks.keys
        /\ q.genuine => q.kid \in published
    BY <1>2, <1>3 DEF RequestIsSound
  <2>2. /\ s \in RequestRecords /\ s.kid = q.kid /\ s.genuine = q.genuine
        /\ s.at \in {"accepted", "rejected", "refreshing"}
        /\ s.at = "refreshing" => s.current /\ s.kid \notin jwks.keys
        /\ s.at # "accepted" /\ s.genuine => ~s.renewed
        /\ s.at = "rejected" /\ s.genuine => s.excused
    BY <1>2, <1>3, <1>5, <2>1, ResumedIs
  <2> HIDE DEF s
  <2>3. RequestIsSound(r)'
    BY <1>1, <1>4, <2>1, <2>2 DEF RequestIsSound, Waiting
  <2>. QED
    BY <1>1, <1>2, <2>2, <2>3, RequestStep
<1>6. CASE ~jwks.cached
  <2>1. s \in RequestRecords /\ s.at = "unavailable" /\ s.kid = q.kid /\ s.genuine = q.genuine
    BY <1>3, <1>6 DEF RequestRecords
  <2> HIDE DEF s
  <2>2. RequestIsSound(r)'
    BY <1>1, <1>2, <1>3, <1>4, <2>1 DEF RequestIsSound, Waiting
  <2>. QED
    BY <1>1, <1>2, <2>1, <2>2, RequestStep
<1>. QED
  BY <1>5, <1>6

(* GitHub rotates its keys: only what has been published all the while is  *)
(* held to be genuine.                                                     *)
LEMMA RotateStep ==
    ASSUME KeysInv, NEW keys \in SUBSET KeyIds, Signing!Rotate(keys)
    PROVE  KeysInv'
<1> DEFINE kept(q) == [request[q] EXCEPT !.genuine = @ /\ request[q].kid \in keys]
<1>1. /\ published' = keys /\ request' = [q \in Callers |-> kept(q)]
      /\ UNCHANGED <<jwks, missed, fetch>>
  BY DEF Signing!Rotate
<1>2. ASSUME NEW q \in Callers
      PROVE  /\ kept(q) \in RequestRecords /\ kept(q).at = request[q].at
             /\ kept(q).kid = request[q].kid /\ kept(q).current = request[q].current
             /\ kept(q).renewed = request[q].renewed /\ kept(q).excused = request[q].excused
             /\ kept(q).genuine <=> request[q].genuine /\ request[q].kid \in keys
  <2> DEFINE genuine == request[q].genuine /\ request[q].kid \in keys
  <2>1. request[q] \in RequestRecords
    BY KeysTyped
  <2>2. kept(q) = [request[q] EXCEPT !.genuine = genuine]
    BY <2>1 DEF RequestRecords
  <2>3. genuine \in BOOLEAN /\ (genuine <=> request[q].genuine /\ request[q].kid \in keys)
    OBVIOUS
  <2> HIDE DEF genuine
  <2>. QED
    BY <2>1, <2>2, <2>3 DEF RequestRecords
<1> HIDE DEF kept
<1>3. \A q \in Callers : request'[q] = kept(q)
  BY <1>1
<1>4. ASSUME NEW q \in Callers PROVE RequestIsSound(q)'
  BY <1>1, <1>2, <1>3 DEF KeysInv, RequestIsSound
<1>5. ASSUME NEW q \in Callers, fetch # Signing!NoFetch PROVE FetchCovers(q)'
  BY <1>1, <1>2, <1>3, <1>5 DEF KeysInv, FetchCovers
<1>6. Signing!TypeOK'
  <2>1. request' \in [Callers -> RequestRecords]
    BY <1>1, <1>2
  <2>. QED
    BY <1>1, <2>1 DEF KeysInv, Signing!TypeOK, RequestRecords
<1>. QED
  BY <1>1, <1>4, <1>5, <1>6 DEF KeysInv

LEMMA TickStep ==
    ASSUME KeysInv, Signing!Tick
    PROVE  KeysInv'
<1> DEFINE age == IF jwks.age < KeysTTL THEN jwks.age + 1 ELSE jwks.age
<1>1. /\ jwks' = [jwks EXCEPT !.age = age] /\ UNCHANGED <<published, fetch, request>>
      /\ missed' = IF missed < Cooldown THEN missed + 1 ELSE missed
  BY DEF Signing!Tick
<1>2. /\ jwks \in [keys : SUBSET KeyIds, age : 0 .. KeysTTL, cached : BOOLEAN]
      /\ missed \in 0 .. Cooldown
  BY DEF KeysInv, Signing!TypeOK
<1>3. age \in 0 .. KeysTTL /\ missed' \in 0 .. Cooldown
  BY <1>1, <1>2, KeysAssumption
<1> HIDE DEF age
<1>4. /\ jwks' \in [keys : SUBSET KeyIds, age : 0 .. KeysTTL, cached : BOOLEAN]
      /\ jwks'.keys = jwks.keys /\ jwks'.cached = jwks.cached
  BY <1>1, <1>2, <1>3
<1>5. Signing!TypeOK'
  BY <1>1, <1>3, <1>4 DEF KeysInv, Signing!TypeOK
<1>. QED
  BY <1>1, <1>4, <1>5 DEF KeysInv, RequestIsSound, FetchCovers

LEMMA KeysNext == KeysInv /\ [Signing!Next]_Signing!vars => KeysInv'
<1> SUFFICES ASSUME KeysInv, [Signing!Next]_Signing!vars PROVE KeysInv'
  OBVIOUS
<1>1. ASSUME NEW r \in Callers, NEW kid \in KeyIds, Signing!Arrive(r, kid) PROVE KeysInv'
  BY <1>1, ArriveStep
<1>2. ASSUME NEW r \in Callers,
             \/ Signing!GetCached(r) \/ Signing!TakeReplaced(r) \/ Signing!SkipRefetch(r)
             \/ Signing!Leave(r)
      PROVE  KeysInv'
  BY <1>2, GetCachedStep, TakeReplacedStep, SkipRefetchStep, LeaveStep
<1>3. ASSUME NEW r \in Callers, Signing!GetFetches(r) \/ Signing!Refetch(r) PROVE KeysInv'
  <2>1. /\ request[r].at \in Waiting /\ fetch' = Signing!Fetching(r)
        /\ UNCHANGED <<published, jwks, request>> /\ missed' \in {0, missed}
    BY <1>3 DEF Signing!GetFetches, Signing!Refetch, Signing!Waits, Waiting
  <2>2. missed' \in 0 .. Cooldown
    BY <2>1, KeysAssumption DEF KeysInv, Signing!TypeOK
  <2>. QED
    BY <2>1, <2>2, FetchBegins
<1>4. CASE Signing!GitHubAnswers \/ Signing!Cache \/ Signing!FallBack \/ Signing!Tick
  BY <1>4, AnswerStep, CacheStep, FallBackStep, TickStep
<1>5. CASE \E keys \in (SUBSET KeyIds) \ {{}} : Signing!Rotate(keys)
  BY <1>5, RotateStep
<1>6. CASE UNCHANGED Signing!vars
  BY <1>6 DEF Signing!vars, KeysInv, Signing!TypeOK, RequestIsSound, FetchCovers
<1>. QED
  BY <1>1, <1>2, <1>3, <1>4, <1>5, <1>6 DEF Signing!Next

(* The key set keeps its invariant, for any keys, requests and times.        *)
THEOREM KeysAreSound == Signing!Spec => []KeysInv
BY KeysInit, KeysNext, PTL DEF Signing!Spec


-----------------------------------------------------------------------------
(* The document index.                                                     *)

Saves(w, o) == writes[w].save[o] # 0
Deletes(w, o) == o \in writes[w].delete

WriteRecords == [save : Indexing!Contents, delete : SUBSET Objects]
IngestRecords ==
    [at : {"handling", "browsing", "saving", "deleting"}, kind : Indexing!Kinds,
     records : Indexing!Contents, existing : SUBSET Objects, seen : BOOLEAN]

(* What the index has of an object once every write is applied: a version  *)
(* of it that nothing touches any more, or nothing.                        *)
WillBe(o, v) ==
    \/ index[o] = v /\ \A w \in 1 .. Len(writes) : ~Saves(w, o) /\ ~Deletes(w, o)
    \/ \E w \in 1 .. Len(writes) :
        /\ writes[w].save[o] = v
        /\ \A u \in (w + 1) .. Len(writes) : ~Saves(u, o) /\ ~Deletes(u, o)

WillBeGone(o) ==
    \/ index[o] = 0 /\ \A w \in 1 .. Len(writes) : ~Saves(w, o)
    \/ \E w \in 1 .. Len(writes) :
        Deletes(w, o) /\ \A u \in w .. Len(writes) : ~Saves(u, o)

(* The object is in the index when Algolia comes to a write. *)
IsThere(o, w) ==
    \/ index[o] # 0 /\ \A u \in 1 .. (w - 1) : ~Deletes(u, o)
    \/ \E v \in 1 .. (w - 1) :
        Saves(v, o) /\ \A u \in (v + 1) .. (w - 1) : ~Deletes(u, o)

(* An ingest that has records has some, and when it browsed an index that  *)
(* was up to date, what it has not seen is neither there nor to be saved.  *)
IngestIsSound ==
    /\ ingest.at \in {"browsing", "saving", "deleting"} => Indexing!Ids(ingest.records) # {}
    /\ ingest.at = "saving" /\ ingest.seen =>
        writes = <<>> /\ ingest.existing = Indexing!Ids(index)
    /\ ingest.at = "deleting" => latest = ingest.records
    /\ ingest.at = "deleting" /\ ingest.seen =>
        \A o \in Objects \ (ingest.existing \cup Indexing!Ids(latest)) :
            index[o] = 0 /\ \A w \in 1 .. Len(writes) : ~Saves(w, o)

(* A write that deletes leaves an object that is there when it is applied. *)
DeletesSpare ==
    \A w \in 1 .. Len(writes) :
        writes[w].delete # {} => \E o \in Objects \ writes[w].delete : IsThere(o, w)

LatestWillBe == \A o \in Indexing!Ids(latest) : WillBe(o, latest[o])
RestWillBeGone == tidy => \A o \in Objects \ Indexing!Ids(latest) : WillBeGone(o)

IndexInv ==
    /\ Indexing!TypeOK
    /\ Indexing!Ids(site.content) # {}
    /\ IngestIsSound
    /\ LatestWillBe
    /\ RestWillBeGone
    /\ DeletesSpare

LEMMA IndexInit == Indexing!Init => IndexInv
<1> SUFFICES ASSUME Indexing!Init PROVE IndexInv
  OBVIOUS
<1>1. PICK kind \in Indexing!Kinds, ids \in (SUBSET Objects) \ {{}} :
        site = [kind |-> kind, version |-> 1,
                content |-> [o \in Objects |-> IF o \in ids THEN 1 ELSE 0]]
  BY DEF Indexing!Init
<1>2. /\ queue = <<>> /\ ingest = Indexing!Idle /\ index = Indexing!Empty
      /\ writes = <<>> /\ latest = Indexing!Empty /\ tidy = FALSE
  BY DEF Indexing!Init
<1>3. site \in [kind : Indexing!Kinds, content : Indexing!Contents, version : 1 .. MaxBuilds]
  BY <1>1, IndexAssumption DEF Indexing!Contents
<1>4. Indexing!Empty \in Indexing!Contents /\ Indexing!Ids(Indexing!Empty) = {}
  BY IndexAssumption DEF Indexing!Contents, Indexing!Empty, Indexing!Ids
<1>5. Indexing!TypeOK
  <2>1. queue \in Seq(Indexing!Kinds) /\ Len(queue) <= MaxQueue
    BY <1>2, IndexAssumption
  <2>2. writes \in Seq(WriteRecords) /\ Len(writes) <= MaxLag
    BY <1>2, IndexAssumption
  <2>3. tidy \in BOOLEAN
    BY <1>2
  <2>. QED
    BY <1>2, <1>3, <1>4, <2>1, <2>2, <2>3 DEF Indexing!TypeOK, WriteRecords
<1>6. Indexing!Ids(site.content) # {}
  <2>1. PICK o \in Objects : o \in ids
    OBVIOUS
  <2>2. site.content[o] = 1
    BY <1>1, <2>1
  <2>. QED
    BY <2>2 DEF Indexing!Ids
<1>7. IngestIsSound
  BY <1>2 DEF IngestIsSound, Indexing!Idle
<1>. QED
  BY <1>2, <1>4, <1>5, <1>6, <1>7 DEF IndexInv, LatestWillBe, RestWillBeGone, DeletesSpare

LEMMA IndexTyped ==
    ASSUME IndexInv
    PROVE  /\ index \in Indexing!Contents /\ latest \in Indexing!Contents
           /\ writes \in Seq(WriteRecords) /\ Len(writes) \in Nat
           /\ \A w \in 1 .. Len(writes) : writes[w] \in WriteRecords
           /\ queue \in Seq(Indexing!Kinds)
           /\ ingest # Indexing!Idle => ingest \in IngestRecords
<1>1. /\ index \in Indexing!Contents /\ latest \in Indexing!Contents
      /\ queue \in Seq(Indexing!Kinds)
      /\ ingest # Indexing!Idle => ingest \in IngestRecords
  BY DEF IndexInv, Indexing!TypeOK, IngestRecords
<1>2. writes \in Seq(WriteRecords)
  BY DEF IndexInv, Indexing!TypeOK, WriteRecords
<1>. QED
  BY <1>1, <1>2

(* What leaves the index, the writes and the last ingest as they are. *)
LEMMA NothingIsWritten ==
    ASSUME IndexInv, UNCHANGED <<index, writes, latest, tidy>>, Indexing!TypeOK',
           Indexing!Ids(site'.content) # {}, IngestIsSound'
    PROVE  IndexInv'
<1>1. Indexing!Ids(site.content)' # {}
  BY DEF Indexing!Ids
<1>2. LatestWillBe'
  BY DEF IndexInv, LatestWillBe, WillBe, Saves, Deletes, Indexing!Ids
<1>3. RestWillBeGone'
  BY DEF IndexInv, RestWillBeGone, WillBeGone, Saves, Deletes, Indexing!Ids
<1>4. DeletesSpare'
  BY DEF IndexInv, DeletesSpare, IsThere, Saves, Deletes
<1>. QED
  BY <1>1, <1>2, <1>3, <1>4 DEF IndexInv

LEMMA PublishStep ==
    ASSUME IndexInv, NEW kind \in Indexing!Kinds, NEW ids \in (SUBSET Objects) \ {{}},
           Indexing!Publish(kind, ids)
    PROVE  IndexInv'
<1> DEFINE version == site.version + 1
           content == [o \in Objects |-> IF o \in ids THEN version ELSE 0]
<1>1. /\ site' = [kind |-> kind, version |-> version, content |-> content]
      /\ site.version < MaxBuilds /\ UNCHANGED <<queue, ingest, index, writes, latest, tidy>>
  BY DEF Indexing!Publish
<1>2. site.version \in 1 .. MaxBuilds
  BY DEF IndexInv, Indexing!TypeOK
<1>3. version \in 1 .. MaxBuilds /\ version # 0 /\ 0 \in 0 .. MaxBuilds
  BY <1>1, <1>2, IndexAssumption
<1> HIDE DEF version
<1>4. content \in Indexing!Contents /\ Indexing!Ids(content) # {}
  <2>1. content \in Indexing!Contents
    BY <1>3, IndexAssumption DEF Indexing!Contents
  <2>2. PICK o \in Objects : o \in ids
    OBVIOUS
  <2>3. content[o] = version
    BY <2>2
  <2>. QED
    BY <1>3, <2>1, <2>3 DEF Indexing!Ids
<1> HIDE DEF content
<1>5. Indexing!TypeOK'
  BY <1>1, <1>3, <1>4 DEF IndexInv, Indexing!TypeOK
<1>6. IngestIsSound'
  BY <1>1 DEF IndexInv, IngestIsSound, Saves, Indexing!Ids
<1>. QED
  BY <1>1, <1>4, <1>5, <1>6, NothingIsWritten

LEMMA QueueStep ==
    ASSUME IndexInv, Indexing!Queue
    PROVE  IndexInv'
<1>1. /\ queue' = Append(queue, site.kind) /\ Len(queue) < MaxQueue
      /\ UNCHANGED <<site, ingest, index, writes, latest, tidy>>
  BY DEF Indexing!Queue
<1>2. queue \in Seq(Indexing!Kinds) /\ site.kind \in Indexing!Kinds
  BY DEF IndexInv, Indexing!TypeOK
<1>3. queue' \in Seq(Indexing!Kinds) /\ Len(queue') <= MaxQueue
  BY <1>1, <1>2, IndexAssumption
<1>4. Indexing!TypeOK'
  BY <1>1, <1>3 DEF IndexInv, Indexing!TypeOK
<1>5. IngestIsSound'
  BY <1>1 DEF IndexInv, IngestIsSound, Saves, Indexing!Ids
<1>. QED
  BY <1>1, <1>4, <1>5, NothingIsWritten DEF IndexInv

LEMMA HandleStep ==
    ASSUME IndexInv, Indexing!Handle
    PROVE  IndexInv'
<1>1. /\ queue # <<>> /\ queue' = Tail(queue)
      /\ ingest' = IF Head(queue) = "ltd_generic" THEN Indexing!Idle
                   ELSE [at |-> "handling", kind |-> Head(queue),
                         records |-> Indexing!Empty, existing |-> {}, seen |-> FALSE]
      /\ UNCHANGED <<site, index, writes, latest, tidy>>
  BY DEF Indexing!Handle
<1>2. queue \in Seq(Indexing!Kinds) /\ Len(queue) <= MaxQueue
  BY DEF IndexInv, Indexing!TypeOK
<1>3. /\ queue' \in Seq(Indexing!Kinds) /\ Len(queue') <= MaxQueue
      /\ Head(queue) \in Indexing!Kinds
  BY <1>1, <1>2, IndexAssumption
<1>4. Indexing!Empty \in Indexing!Contents
  BY IndexAssumption DEF Indexing!Contents, Indexing!Empty
<1>5. ingest' = Indexing!Idle \/ (ingest' \in IngestRecords /\ ingest'.at = "handling")
  BY <1>1, <1>3, <1>4 DEF IngestRecords
<1>6. Indexing!TypeOK'
  BY <1>1, <1>3, <1>5 DEF IndexInv, Indexing!TypeOK, IngestRecords
<1>7. IngestIsSound'
  BY <1>5 DEF IngestIsSound, Indexing!Idle
<1>. QED
  BY <1>1, <1>6, <1>7, NothingIsWritten DEF IndexInv

LEMMA MakeRecordsStep ==
    ASSUME IndexInv, Indexing!MakeRecords
    PROVE  IndexInv'
<1>1. /\ ingest.at = "handling"
      /\ ingest' = [ingest EXCEPT !.at = "browsing", !.records = site.content]
      /\ UNCHANGED <<site, queue, index, writes, latest, tidy>>
  BY DEF Indexing!MakeRecords
<1>2. ingest \in IngestRecords /\ site.content \in Indexing!Contents
  BY <1>1, IndexTyped DEF Indexing!Idle, IndexInv, Indexing!TypeOK
<1>3. /\ ingest' \in IngestRecords /\ ingest'.at = "browsing"
      /\ ingest'.records = site.content
  BY <1>1, <1>2 DEF IngestRecords
<1>4. Indexing!TypeOK'
  BY <1>1, <1>3 DEF IndexInv, Indexing!TypeOK, IngestRecords
<1>5. IngestIsSound'
  BY <1>1, <1>3 DEF IngestIsSound, IndexInv, Indexing!Ids
<1>. QED
  BY <1>1, <1>4, <1>5, NothingIsWritten DEF IndexInv

LEMMA BrowseStep ==
    ASSUME IndexInv, Indexing!Browse
    PROVE  IndexInv'
<1> DEFINE ids == Indexing!Ids(index)
           all == (writes = <<>>)
<1>1. /\ ingest.at = "browsing"
      /\ ingest' = [ingest EXCEPT !.at = "saving", !.existing = ids, !.seen = all]
      /\ UNCHANGED <<site, queue, index, writes, latest, tidy>>
  BY DEF Indexing!Browse
<1>2. ingest \in IngestRecords
  BY <1>1, IndexTyped DEF Indexing!Idle
<1>3. ids \in SUBSET Objects /\ all \in BOOLEAN /\ (all <=> writes = <<>>)
  BY DEF Indexing!Ids
<1>4. ids = Indexing!Ids(index)
  OBVIOUS
<1> HIDE DEF ids, all
<1>5. /\ ingest' \in IngestRecords /\ ingest'.at = "saving" /\ ingest'.existing = ids
      /\ ingest'.seen = all /\ ingest'.records = ingest.records
  BY <1>1, <1>2, <1>3 DEF IngestRecords
<1>6. Indexing!TypeOK'
  BY <1>1, <1>5 DEF IndexInv, Indexing!TypeOK, IngestRecords
<1>7. IngestIsSound'
  BY <1>1, <1>3, <1>4, <1>5 DEF IngestIsSound, IndexInv, Indexing!Ids
<1>. QED
  BY <1>1, <1>6, <1>7, NothingIsWritten DEF IndexInv

LEMMA FailStep ==
    ASSUME IndexInv, NEW again \in BOOLEAN, Indexing!Fail(again)
    PROVE  IndexInv'
<1>1. /\ ingest # Indexing!Idle /\ (again => Len(queue) < MaxQueue)
      /\ queue' = (IF again THEN <<ingest.kind>> \o queue ELSE queue)
      /\ ingest' = Indexing!Idle /\ UNCHANGED <<site, index, writes, latest, tidy>>
  BY DEF Indexing!Fail
<1>2. queue \in Seq(Indexing!Kinds) /\ Len(queue) <= MaxQueue /\ ingest.kind \in Indexing!Kinds
  BY <1>1, IndexTyped DEF IndexInv, Indexing!TypeOK, IngestRecords
<1>3. queue' \in Seq(Indexing!Kinds) /\ Len(queue') <= MaxQueue
  <2>1. CASE again
    <3>1. queue' = <<ingest.kind>> \o queue /\ Len(queue) < MaxQueue
      BY <1>1, <2>1
    <3>. QED
      BY <1>2, <3>1, IndexAssumption
  <2>2. CASE ~again
    BY <1>1, <1>2, <2>2
  <2>. QED
    BY <2>1, <2>2
<1>4. Indexing!TypeOK'
  BY <1>1, <1>3 DEF IndexInv, Indexing!TypeOK
<1>5. IngestIsSound'
  BY <1>1 DEF IngestIsSound, Indexing!Idle
<1>. QED
  BY <1>1, <1>4, <1>5, NothingIsWritten DEF IndexInv

(* A write comes last. *)
LEMMA AppendIs ==
    ASSUME IndexInv, NEW x \in WriteRecords, writes' = Append(writes, x), Len(writes) < MaxLag
    PROVE  /\ writes' \in Seq(WriteRecords) /\ Len(writes') <= MaxLag
           /\ Len(writes') = Len(writes) + 1 /\ writes'[Len(writes) + 1] = x
           /\ \A w \in 1 .. Len(writes) : writes'[w] = writes[w]
BY IndexTyped, IndexAssumption

(* A write that is not to delete anything is always in order. *)
LEMMA AppendSpares ==
    ASSUME IndexInv, NEW x \in WriteRecords, writes' = Append(writes, x), Len(writes) < MaxLag,
           index' = index,
           x.delete # {} => \E o \in Objects \ x.delete : IsThere(o, Len(writes) + 1)
    PROVE  DeletesSpare'
<1>1. /\ Len(writes') = Len(writes) + 1 /\ writes'[Len(writes) + 1] = x /\ Len(writes) \in Nat
      /\ \A w \in 1 .. Len(writes) : writes'[w] = writes[w]
  BY AppendIs, IndexTyped
<1>2. ASSUME NEW o \in Objects, NEW w \in 1 .. (Len(writes) + 1), IsThere(o, w)
      PROVE  IsThere(o, w)'
  BY <1>1, <1>2 DEF IsThere, Saves, Deletes
<1>3. ASSUME NEW w \in 1 .. (Len(writes) + 1), writes'[w].delete # {}
      PROVE  \E o \in Objects \ writes'[w].delete : IsThere(o, w)'
  <2>1. CASE w \in 1 .. Len(writes)
    BY <1>1, <1>2, <1>3, <2>1 DEF IndexInv, DeletesSpare
  <2>2. CASE w = Len(writes) + 1
    BY <1>1, <1>2, <1>3, <2>2
  <2>. QED
    BY <1>1, <2>1, <2>2
<1>. QED
  BY <1>1, <1>3 DEF DeletesSpare

LEMMA SaveStep ==
    ASSUME IndexInv, Indexing!Save
    PROVE  IndexInv'
<1> DEFINE x == [save |-> ingest.records, delete |-> {}]
           n == Len(writes) + 1
<1>1. /\ ingest.at = "saving" /\ Len(writes) < MaxLag /\ writes' = Append(writes, x)
      /\ ingest' = [ingest EXCEPT !.at = "deleting"] /\ latest' = ingest.records
      /\ tidy' = FALSE /\ UNCHANGED <<site, queue, index>>
  BY DEF Indexing!Save
<1>2. ingest \in IngestRecords /\ ingest.records \in Indexing!Contents
  BY <1>1, IndexTyped DEF Indexing!Idle, IngestRecords
<1>3. x \in WriteRecords /\ x.save = ingest.records /\ x.delete = {}
  BY <1>2 DEF WriteRecords
<1> HIDE DEF x
<1>4. /\ writes' \in Seq(WriteRecords) /\ Len(writes') <= MaxLag /\ Len(writes') = n
      /\ writes'[n] = x /\ \A w \in 1 .. Len(writes) : writes'[w] = writes[w]
      /\ n \in Nat /\ n \in 1 .. n
  BY <1>1, <1>3, AppendIs, IndexTyped
<1>5. /\ ingest' \in IngestRecords /\ ingest'.at = "deleting"
      /\ ingest'.records = ingest.records /\ ingest'.existing = ingest.existing
      /\ ingest'.seen = ingest.seen
  BY <1>1, <1>2 DEF IngestRecords
<1>6. Indexing!TypeOK'
  BY <1>1, <1>2, <1>4, <1>5 DEF IndexInv, Indexing!TypeOK, WriteRecords, IngestRecords
<1>7. LatestWillBe'
  <2>1. ASSUME NEW o \in Objects PROVE WillBe(o, latest[o])'
    BY <1>1, <1>3, <1>4 DEF WillBe
  <2>. QED
    BY <2>1 DEF LatestWillBe, Indexing!Ids
<1>8. DeletesSpare'
  BY <1>1, <1>3, AppendSpares
<1>9. IngestIsSound'
  <2>1. Indexing!Ids(ingest.records)' # {} /\ latest' = ingest'.records
    BY <1>1, <1>5 DEF IndexInv, IngestIsSound, Indexing!Ids
  <2>2. ASSUME ingest.seen, NEW o \in Objects, o \notin ingest.existing, latest'[o] = 0
        PROVE  index'[o] = 0 /\ \A w \in 1 .. Len(writes') : writes'[w].save[o] = 0
    <3>1. writes = <<>> /\ ingest.existing = Indexing!Ids(index)
      BY <1>1, <2>2 DEF IndexInv, IngestIsSound
    <3>2. Len(writes) = 0 /\ n = 1
      BY <3>1
    <3>. QED
      BY <1>1, <1>3, <1>4, <2>2, <3>1, <3>2 DEF Indexing!Ids
  <2>. QED
    BY <1>5, <2>1, <2>2 DEF IngestIsSound, Saves, Indexing!Ids
<1>. QED
  BY <1>1, <1>6, <1>7, <1>8, <1>9 DEF IndexInv, RestWillBeGone

(* What is saved last is there when the write after it is applied. *)
LEMMA LatestIsThere ==
    ASSUME IndexInv, NEW o \in Indexing!Ids(latest)
    PROVE  IsThere(o, Len(writes) + 1)
<1>1. WillBe(o, latest[o]) /\ latest[o] # 0
  BY DEF IndexInv, LatestWillBe, Indexing!Ids
<1>2. Len(writes) \in Nat
  BY IndexTyped
<1>3. CASE index[o] = latest[o] /\ \A w \in 1 .. Len(writes) : ~Saves(w, o) /\ ~Deletes(w, o)
  BY <1>1, <1>2, <1>3 DEF IsThere
<1>4. ASSUME NEW w \in 1 .. Len(writes), writes[w].save[o] = latest[o],
             \A u \in (w + 1) .. Len(writes) : ~Saves(u, o) /\ ~Deletes(u, o)
      PROVE  IsThere(o, Len(writes) + 1)
  BY <1>1, <1>2, <1>4 DEF IsThere, Saves
<1>. QED
  BY <1>1, <1>3, <1>4 DEF WillBe

(* What the ingest has not saved goes if it was there when the ingest      *)
(* browsed; what it has saved, and some of it there is, stays.             *)
LEMMA DeleteStep ==
    ASSUME IndexInv, Indexing!Delete
    PROVE  IndexInv'
<1> DEFINE stale == Indexing!StaleIds
           x == [save |-> Indexing!Empty, delete |-> stale]
           n == Len(writes) + 1
<1>1. /\ ingest.at = "deleting" /\ Len(writes) < MaxLag
      /\ writes' = (IF stale = {} THEN writes ELSE Append(writes, x))
      /\ ingest' = Indexing!Idle /\ tidy' = ingest.seen
      /\ UNCHANGED <<site, queue, index, latest>>
  BY DEF Indexing!Delete
<1>2. /\ ingest \in IngestRecords /\ latest = ingest.records
      /\ stale = ingest.existing \ Indexing!Ids(latest)
      /\ latest \in Indexing!Contents /\ Indexing!Ids(latest) # {}
  BY <1>1, IndexTyped DEF Indexing!Idle, IndexInv, IngestIsSound, Indexing!StaleIds
<1>3. /\ x \in WriteRecords /\ x.delete = stale /\ \A o \in Objects : x.save[o] = 0
  <2>1. stale \in SUBSET Objects
    BY <1>2 DEF IngestRecords
  <2>2. Indexing!Empty \in Indexing!Contents /\ \A o \in Objects : Indexing!Empty[o] = 0
    BY IndexAssumption DEF Indexing!Contents, Indexing!Empty
  <2> HIDE DEF stale
  <2>. QED
    BY <2>1, <2>2 DEF WriteRecords
<1>4. /\ ingest.seen \in BOOLEAN
      /\ ingest.seen => \A o \in Objects \ (ingest.existing \cup Indexing!Ids(latest)) :
            index[o] = 0 /\ \A w \in 1 .. Len(writes) : ~Saves(w, o)
  BY <1>1, <1>2 DEF IngestRecords, IndexInv, IngestIsSound
<1> HIDE DEF x, stale
<1>5. IngestIsSound' /\ tidy' \in BOOLEAN
  BY <1>1, <1>4 DEF IngestIsSound, Indexing!Idle
<1>6. CASE stale = {}
  <2>1. writes' = writes
    BY <1>1, <1>6
  <2>2. Indexing!TypeOK'
    BY <1>1, <1>5, <2>1 DEF IndexInv, Indexing!TypeOK
  <2>3. LatestWillBe'
    BY <1>1, <2>1 DEF IndexInv, LatestWillBe, WillBe, Saves, Deletes, Indexing!Ids
  <2>4. RestWillBeGone'
    <3>1. ASSUME ingest.seen, NEW o \in Objects, latest[o] = 0
          PROVE  index[o] = 0 /\ \A w \in 1 .. Len(writes) : writes[w].save[o] = 0
      BY <1>2, <1>4, <1>6, <3>1 DEF Indexing!Ids, Saves
    <3>. QED
      BY <1>1, <2>1, <3>1 DEF RestWillBeGone, WillBeGone, Saves, Indexing!Ids
  <2>5. DeletesSpare'
    BY <1>1, <2>1 DEF IndexInv, DeletesSpare, IsThere, Saves, Deletes
  <2>. QED
    BY <1>1, <1>5, <2>2, <2>3, <2>4, <2>5 DEF IndexInv, Indexing!Ids
<1>7. CASE stale # {}
  <2>1. writes' = Append(writes, x)
    BY <1>1, <1>7
  <2>2. /\ writes' \in Seq(WriteRecords) /\ Len(writes') <= MaxLag /\ Len(writes') = n
        /\ writes'[n] = x /\ \A w \in 1 .. Len(writes) : writes'[w] = writes[w]
        /\ n \in Nat /\ n \in 1 .. n /\ Len(writes) \in Nat
    BY <1>1, <1>3, <2>1, AppendIs, IndexTyped
  <2>3. Indexing!TypeOK'
    BY <1>1, <1>5, <2>2 DEF IndexInv, Indexing!TypeOK, WriteRecords
  <2>4. ASSUME NEW o \in Objects, latest[o] # 0
        PROVE  WillBe(o, latest[o])'
    <3>1. o \in Indexing!Ids(latest) /\ o \notin stale /\ WillBe(o, latest[o])
      BY <1>2, <2>4 DEF Indexing!Ids, IndexInv, LatestWillBe
    <3>2. writes'[n].save[o] = 0 /\ o \notin writes'[n].delete /\ latest'[o] = latest[o]
      BY <1>1, <1>3, <2>2, <3>1
    <3>3. CASE index[o] = latest[o] /\ \A w \in 1 .. Len(writes) : ~Saves(w, o) /\ ~Deletes(w, o)
      BY <1>1, <2>2, <3>2, <3>3 DEF WillBe, Saves, Deletes
    <3>4. ASSUME NEW w \in 1 .. Len(writes), writes[w].save[o] = latest[o],
                 \A u \in (w + 1) .. Len(writes) : ~Saves(u, o) /\ ~Deletes(u, o)
          PROVE  WillBe(o, latest[o])'
      <4>1. w \in 1 .. Len(writes') /\ writes'[w].save[o] = latest'[o]
        BY <2>2, <3>2, <3>4
      <4>2. \A u \in (w + 1) .. Len(writes') : writes'[u].save[o] = 0 /\ o \notin writes'[u].delete
        <5>1. ASSUME NEW u \in (w + 1) .. n
              PROVE  writes'[u].save[o] = 0 /\ o \notin writes'[u].delete
          <6>1. u = n \/ (u \in 1 .. Len(writes) /\ u \in (w + 1) .. Len(writes))
            BY <2>2
          <6>. QED
            BY <2>2, <3>2, <3>4, <6>1 DEF Saves, Deletes
        <5>. QED
          BY <2>2, <5>1
      <4>. QED
        BY <4>1, <4>2 DEF WillBe, Saves, Deletes
    <3>. QED
      BY <3>1, <3>3, <3>4 DEF WillBe
  <2>5. LatestWillBe'
    BY <1>1, <2>4 DEF LatestWillBe, Indexing!Ids
  <2>6. RestWillBeGone'
    <3>1. ASSUME ingest.seen, NEW o \in Objects, latest[o] = 0 PROVE WillBeGone(o)'
      <4>1. o \notin Indexing!Ids(latest) /\ writes'[n].save[o] = 0
        BY <1>3, <2>2, <3>1 DEF Indexing!Ids
      <4>2. CASE o \in ingest.existing
        <5>1. o \in writes'[n].delete
          BY <1>2, <1>3, <2>2, <4>1, <4>2
        <5>. QED
          BY <2>2, <4>1, <5>1 DEF WillBeGone, Saves, Deletes
      <4>3. CASE o \notin ingest.existing
        <5>1. index[o] = 0 /\ \A w \in 1 .. Len(writes) : writes[w].save[o] = 0
          BY <1>4, <3>1, <4>1, <4>3 DEF Saves
        <5>2. index'[o] = 0 /\ \A w \in 1 .. Len(writes') : writes'[w].save[o] = 0
          BY <1>1, <2>2, <4>1, <5>1
        <5>. QED
          BY <5>2 DEF WillBeGone, Saves
      <4>. QED
        BY <4>2, <4>3
    <3>. QED
      BY <1>1, <3>1 DEF RestWillBeGone, Indexing!Ids
  <2>7. DeletesSpare'
    <3>1. PICK o \in Indexing!Ids(latest) : TRUE
      BY <1>2
    <3>2. o \in Objects /\ o \notin x.delete
      BY <1>2, <1>3 DEF Indexing!Ids
    <3>3. IsThere(o, Len(writes) + 1)
      BY LatestIsThere
    <3>. QED
      BY <1>1, <1>3, <2>1, <3>2, <3>3, AppendSpares
  <2>. QED
    BY <1>1, <1>5, <2>3, <2>5, <2>6, <2>7 DEF IndexInv, Indexing!Ids
<1>. QED
  BY <1>6, <1>7

(* Algolia applies the first write: the others move up. *)
LEMMA ApplyStep ==
    ASSUME IndexInv, Indexing!Apply
    PROVE  IndexInv'
<1> DEFINE x == Head(writes)
           n == Len(writes)
<1>1. /\ writes # <<>> /\ writes' = Tail(writes)
      /\ index' = [o \in Objects |-> IF x.save[o] # 0 THEN x.save[o]
                                     ELSE IF o \in x.delete THEN 0 ELSE index[o]]
      /\ UNCHANGED <<site, queue, ingest, latest, tidy>>
  BY DEF Indexing!Apply
<1>2. /\ writes' \in Seq(WriteRecords) /\ n \in Nat \ {0} /\ Len(writes') = n - 1
      /\ x = writes[1] /\ x \in WriteRecords
      /\ \A w \in 1 .. (n - 1) : writes'[w] = writes[w + 1]
  BY <1>1, IndexTyped
<1> HIDE DEF x
<1>3. index' \in Indexing!Contents
  BY <1>1, <1>2, IndexTyped, IndexAssumption DEF WriteRecords, Indexing!Contents
<1>4. Indexing!TypeOK'
  <2>1. Len(writes') <= MaxLag
    BY <1>2, IndexAssumption DEF IndexInv, Indexing!TypeOK
  <2>. QED
    BY <1>1, <1>2, <1>3, <2>1 DEF IndexInv, Indexing!TypeOK, WriteRecords
<1>5. \A o \in Objects :
        /\ Saves(1, o) => index'[o] = writes[1].save[o]
        /\ ~Saves(1, o) /\ Deletes(1, o) => index'[o] = 0
        /\ ~Saves(1, o) /\ ~Deletes(1, o) => index'[o] = index[o]
  BY <1>1, <1>2 DEF Saves, Deletes
<1>6. \A o \in Objects, w \in 1 .. (n - 1) :
        /\ writes'[w].save[o] = writes[w + 1].save[o]
        /\ Saves(w, o)' <=> Saves(w + 1, o)
        /\ Deletes(w, o)' <=> Deletes(w + 1, o)
  BY <1>2 DEF Saves, Deletes
<1>7. ASSUME NEW o \in Objects, latest[o] # 0, WillBe(o, latest[o])
      PROVE  WillBe(o, latest[o])'
  <2>1. latest'[o] = latest[o] /\ Len(writes') = n - 1
    BY <1>1, <1>2
  <2>2. CASE index[o] = latest[o] /\ \A w \in 1 .. n : ~Saves(w, o) /\ ~Deletes(w, o)
    <3>1. index'[o] = latest'[o]
      BY <1>2, <1>5, <2>1, <2>2
    <3>2. \A w \in 1 .. (n - 1) : ~Saves(w, o)' /\ ~Deletes(w, o)'
      BY <1>2, <1>6, <2>2
    <3>. QED
      BY <2>1, <3>1, <3>2 DEF WillBe
  <2>3. ASSUME NEW w \in 1 .. n, writes[w].save[o] = latest[o],
               \A u \in (w + 1) .. n : ~Saves(u, o) /\ ~Deletes(u, o)
        PROVE  WillBe(o, latest[o])'
    <3>1. \A u \in w .. (n - 1) : ~Saves(u, o)' /\ ~Deletes(u, o)'
      BY <1>2, <1>6, <2>3
    <3>2. CASE w = 1
      <4>1. index'[o] = latest'[o]
        BY <1>5, <1>7, <2>1, <2>3, <3>2 DEF Saves
      <4>. QED
        BY <2>1, <3>1, <3>2, <4>1 DEF WillBe
    <3>3. CASE w # 1
      <4>1. w - 1 \in 1 .. (n - 1) /\ (w - 1) + 1 = w
        BY <1>2, <3>3
      <4>2. writes'[w - 1].save[o] = latest'[o]
        BY <1>6, <2>1, <2>3, <4>1
      <4>. QED
        BY <2>1, <3>1, <4>1, <4>2 DEF WillBe
    <3>. QED
      BY <3>2, <3>3
  <2>. QED
    BY <1>7, <2>2, <2>3 DEF WillBe
<1>8. LatestWillBe'
  BY <1>1, <1>7 DEF IndexInv, LatestWillBe, Indexing!Ids
<1>9. ASSUME NEW o \in Objects, WillBeGone(o)
      PROVE  WillBeGone(o)'
  <2>1. Len(writes') = n - 1
    BY <1>2
  <2>2. CASE index[o] = 0 /\ \A w \in 1 .. n : ~Saves(w, o)
    <3>1. index'[o] = 0 /\ \A w \in 1 .. (n - 1) : ~Saves(w, o)'
      BY <1>2, <1>5, <1>6, <2>2
    <3>. QED
      BY <2>1, <3>1 DEF WillBeGone
  <2>3. ASSUME NEW w \in 1 .. n, Deletes(w, o), \A u \in w .. n : ~Saves(u, o)
        PROVE  WillBeGone(o)'
    <3>1. CASE w = 1
      <4>1. index'[o] = 0 /\ \A u \in 1 .. (n - 1) : ~Saves(u, o)'
        BY <1>2, <1>5, <1>6, <2>3, <3>1
      <4>. QED
        BY <2>1, <4>1 DEF WillBeGone
    <3>2. CASE w # 1
      <4>1. w - 1 \in 1 .. (n - 1) /\ (w - 1) + 1 = w
        BY <1>2, <3>2
      <4>2. Deletes(w - 1, o)' /\ \A u \in (w - 1) .. (n - 1) : ~Saves(u, o)'
        BY <1>2, <1>6, <2>3, <4>1
      <4>. QED
        BY <2>1, <4>1, <4>2 DEF WillBeGone
    <3>. QED
      BY <3>1, <3>2
  <2>. QED
    BY <1>9, <2>2, <2>3 DEF WillBeGone
<1>10. RestWillBeGone'
  BY <1>1, <1>9 DEF IndexInv, RestWillBeGone, Indexing!Ids
<1>11. ASSUME NEW o \in Objects, NEW w \in 1 .. (n - 1), IsThere(o, w + 1)
       PROVE  IsThere(o, w)'
  <2>1. CASE index[o] # 0 /\ \A u \in 1 .. w : ~Deletes(u, o)
    <3>1. index'[o] # 0
      BY <1>2, <1>5, <2>1 DEF Saves
    <3>2. \A u \in 1 .. (w - 1) : ~Deletes(u, o)'
      BY <1>2, <1>6, <2>1
    <3>. QED
      BY <3>1, <3>2 DEF IsThere
  <2>2. ASSUME NEW v \in 1 .. w, Saves(v, o), \A u \in (v + 1) .. w : ~Deletes(u, o)
        PROVE  IsThere(o, w)'
    <3>1. CASE v = 1
      <4>1. index'[o] # 0
        BY <1>5, <2>2, <3>1 DEF Saves
      <4>2. \A u \in 1 .. (w - 1) : ~Deletes(u, o)'
        BY <1>2, <1>6, <2>2, <3>1
      <4>. QED
        BY <4>1, <4>2 DEF IsThere
    <3>2. CASE v # 1
      <4>1. v - 1 \in 1 .. (w - 1) /\ v - 1 \in 1 .. (n - 1) /\ (v - 1) + 1 = v
        BY <1>2, <3>2
      <4>2. Saves(v - 1, o)' /\ \A u \in v .. (w - 1) : ~Deletes(u, o)'
        BY <1>2, <1>6, <2>2, <4>1
      <4>. QED
        BY <4>1, <4>2 DEF IsThere
    <3>. QED
      BY <3>1, <3>2
  <2>3. (w + 1) - 1 = w
    BY <1>2
  <2>. QED
    BY <1>11, <2>1, <2>2, <2>3 DEF IsThere
<1>12. DeletesSpare'
  <2>1. ASSUME NEW w \in 1 .. (n - 1), writes'[w].delete # {}
        PROVE  \E o \in Objects \ writes'[w].delete : IsThere(o, w)'
    <3>1. w + 1 \in 1 .. n /\ writes'[w] = writes[w + 1]
      BY <1>2
    <3>2. PICK o \in Objects \ writes[w + 1].delete : IsThere(o, w + 1)
      BY <2>1, <3>1 DEF IndexInv, DeletesSpare
    <3>. QED
      BY <1>11, <3>1, <3>2
  <2>. QED
    BY <1>2, <2>1 DEF DeletesSpare
<1>13. IngestIsSound'
  <2>1. ~(ingest.at = "saving" /\ ingest.seen)
    BY <1>1 DEF IndexInv, IngestIsSound
  <2>2. ASSUME NEW o \in Objects, index[o] = 0, \A w \in 1 .. n : ~Saves(w, o)
        PROVE  index'[o] = 0 /\ \A w \in 1 .. Len(writes') : ~Saves(w, o)'
    BY <1>2, <1>5, <1>6, <2>2
  <2>. QED
    BY <1>1, <2>1, <2>2 DEF IndexInv, IngestIsSound, Indexing!Ids
<1>. QED
  BY <1>1, <1>4, <1>8, <1>10, <1>12, <1>13 DEF IndexInv, Indexing!Ids

LEMMA IndexNext == IndexInv /\ [Indexing!Next]_Indexing!vars => IndexInv'
<1> SUFFICES ASSUME IndexInv, [Indexing!Next]_Indexing!vars PROVE IndexInv'
  OBVIOUS
<1>1. CASE \E kind \in Indexing!Kinds, ids \in (SUBSET Objects) \ {{}} : Indexing!Publish(kind, ids)
  BY <1>1, PublishStep
<1>2. CASE Indexing!Queue \/ Indexing!Handle \/ Indexing!MakeRecords \/ Indexing!Browse
  BY <1>2, QueueStep, HandleStep, MakeRecordsStep, BrowseStep
<1>3. CASE Indexing!Save \/ Indexing!Delete \/ Indexing!Apply
  BY <1>3, SaveStep, DeleteStep, ApplyStep
<1>4. CASE \E again \in BOOLEAN : Indexing!Fail(again)
  BY <1>4, FailStep
<1>5. CASE UNCHANGED Indexing!vars
  <2>1. UNCHANGED <<site, queue, ingest, index, writes, latest, tidy>>
    BY <1>5 DEF Indexing!vars
  <2>2. Indexing!TypeOK' /\ Indexing!Ids(site'.content) # {} /\ IngestIsSound'
    BY <2>1 DEF IndexInv, Indexing!TypeOK, IngestIsSound, Saves, Indexing!Ids
  <2>. QED
    BY <2>1, <2>2, NothingIsWritten
<1>. QED
  BY <1>1, <1>2, <1>3, <1>4, <1>5 DEF Indexing!Next

LEMMA IndexFindsLatest == IndexInv => Indexing!SearchFindsTheLatest
<1> SUFFICES ASSUME IndexInv PROVE Indexing!SearchFindsTheLatest
  OBVIOUS
<1>1. ASSUME writes = <<>>, NEW o \in Indexing!Ids(latest) PROVE index[o] = latest[o]
  <2>1. Len(writes) = 0 /\ WillBe(o, latest[o])
    BY <1>1 DEF IndexInv, LatestWillBe
  <2>. QED
    BY <2>1 DEF WillBe
<1>2. ASSUME writes = <<>>, tidy PROVE index = latest
  <2>1. ASSUME NEW o \in Objects PROVE index[o] = latest[o]
    <3>1. CASE latest[o] # 0
      BY <1>1, <1>2, <3>1 DEF Indexing!Ids
    <3>2. CASE latest[o] = 0
      <4>1. Len(writes) = 0 /\ WillBeGone(o)
        BY <1>2, <3>2 DEF IndexInv, RestWillBeGone, Indexing!Ids
      <4>. QED
        BY <3>2, <4>1 DEF WillBeGone
    <3>. QED
      BY <3>1, <3>2
  <2>. QED
    BY <2>1, IndexTyped DEF Indexing!Contents
<1>3. ASSUME NEW w \in 1 .. Len(writes), writes[w].delete # {}, w = 1
      PROVE  ~(Indexing!Ids(index) \subseteq writes[w].delete)
  <2>1. PICK o \in Objects \ writes[w].delete : IsThere(o, w)
    BY <1>3 DEF IndexInv, DeletesSpare
  <2>2. index[o] # 0
    BY <1>3, <2>1 DEF IsThere
  <2>. QED
    BY <2>1, <2>2 DEF Indexing!Ids
<1>4. \A w \in 1 .. Len(writes) : w = 1 \/ w > 1
  BY IndexTyped
<1>. QED
  BY <1>1, <1>2, <1>3, <1>4 DEF Indexing!SearchFindsTheLatest

(* The index keeps its invariant, for any objects, builds, queue and lag.    *)
THEOREM IndexIsSound == Indexing!Spec => []IndexInv
BY IndexInit, IndexNext, PTL DEF Indexing!Spec


-----------------------------------------------------------------------------
(* The author database.                                                    *)

NoName == Crediting!None
Gone == Crediting!Absent

(* An ingest leaves out the names that were aliases when it looked. *)
IngestFilters ==
    ingest # Crediting!NoIngest =>
        DOMAIN ingest.listed \cap ingest.aliases = {}

(* An alias stands for an author that is there, and nobody else is         *)
(* credited.                                                               *)
AuthorsInv ==
    /\ Crediting!TypeOK
    /\ IngestFilters
    /\ \A n \in People : alias[n] # NoName => alias[n] \in Crediting!Stored
    /\ \A d \in Credited : credit[d] # NoName => credit[d] \in Crediting!Stored

LEMMA AuthorsInit == Crediting!Init => AuthorsInv
BY DEF Crediting!Init, AuthorsInv, Crediting!TypeOK, IngestFilters, NoName

LEMMA AuthorsTyped ==
    ASSUME AuthorsInv
    PROVE  /\ author \in [People -> Orcids \cup {NoName, Gone}]
           /\ alias \in [People -> People \cup {NoName}]
           /\ credit \in [Credited -> People \cup {NoName}]
           /\ Crediting!Stored \subseteq People /\ NoName \notin People /\ NoName # Gone
           /\ \A n \in People : n \in Crediting!Stored <=> author[n] # Gone
           /\ \A n \in People : Crediting!Resolve(n) # NoName => Crediting!Resolve(n) \in Crediting!Stored
BY AuthorsAssumption
   DEF AuthorsInv, Crediting!TypeOK, Crediting!Stored, Crediting!Resolve, NoName, Gone,
       Crediting!None, Crediting!Absent

LEMMA ListsAre ==
    ASSUME NEW S \in (SUBSET People) \ {{}}, NEW list \in [S -> Orcids \cup {NoName}]
    PROVE  list \in Crediting!Lists
BY DEF Crediting!Lists, NoName

LEMMA ListedAre ==
    ASSUME NEW list \in Crediting!Lists
    PROVE  /\ DOMAIN list \in (SUBSET People) \ {{}}
           /\ list \in [DOMAIN list -> Orcids \cup {NoName}]
<1>1. PICK S \in (SUBSET People) \ {{}} : list \in [S -> Orcids \cup {NoName}]
  BY DEF Crediting!Lists, NoName
<1>. QED
  BY <1>1

(* What changes no author and no alias. *)
LEMMA NobodyMoves ==
    ASSUME AuthorsInv, UNCHANGED <<author, alias>>, Crediting!TypeOK', IngestFilters',
           \A d \in Credited : credit'[d] # NoName => credit'[d] \in Crediting!Stored
    PROVE  AuthorsInv' /\ Crediting!LosesNothing
<1>1. Crediting!Stored' = Crediting!Stored
  BY DEF Crediting!Stored
<1>2. \A n \in People : Crediting!Resolve(n)' = Crediting!Resolve(n)
  BY <1>1 DEF Crediting!Resolve
<1>3. AuthorsInv'
  BY <1>1 DEF AuthorsInv
<1>4. \A n \in People : Crediting!Follows(n)
  BY <1>2 DEF Crediting!Follows
<1>5. \A d \in Credited : credit'[d] # Crediting!None => author'[credit'[d]] # Crediting!Absent
  BY AuthorsTyped DEF NoName, Gone
<1>. QED
  BY <1>3, <1>4, <1>5 DEF Crediting!LosesNothing

LEMMA BeginIngestStep ==
    ASSUME AuthorsInv, NEW list \in Crediting!Lists, NEW delete \in BOOLEAN,
           Crediting!BeginIngest(list, delete)
    PROVE  AuthorsInv' /\ Crediting!LosesNothing
<1> DEFINE aliases == {n \in People : alias[n] # Crediting!None}
           listed == DOMAIN list \ aliases
           names == [n \in listed |-> list[n]]
<1>1. /\ listed # {} /\ UNCHANGED <<author, alias, credit, crediting>>
      /\ ingest' = [at |-> "filtered", delete |-> delete, listed |-> names, aliases |-> aliases]
  BY DEF Crediting!BeginIngest
<1>2. aliases \subseteq People
  OBVIOUS
<1>3. names \in Crediting!Lists /\ DOMAIN names = listed
  <2>1. listed \in (SUBSET People) \ {{}} /\ names \in [listed -> Orcids \cup {NoName}]
    BY <1>1, ListedAre
  <2> HIDE DEF names, listed
  <2>. QED
    BY <2>1, ListsAre
<1>4. listed \cap aliases = {}
  OBVIOUS
<1> HIDE DEF aliases, listed, names
<1>5. Crediting!TypeOK'
  BY <1>1, <1>2, <1>3 DEF AuthorsInv, Crediting!TypeOK
<1>6. IngestFilters'
  BY <1>1, <1>3, <1>4 DEF IngestFilters
<1>. QED
  BY <1>1, <1>5, <1>6, NobodyMoves DEF AuthorsInv

LEMMA AbortIngestStep ==
    ASSUME AuthorsInv, Crediting!AbortIngest
    PROVE  AuthorsInv' /\ Crediting!LosesNothing
<1>1. ingest' = Crediting!NoIngest /\ UNCHANGED <<author, alias, credit, crediting>>
  BY DEF Crediting!AbortIngest
<1>2. Crediting!TypeOK' /\ IngestFilters'
  BY <1>1 DEF AuthorsInv, Crediting!TypeOK, IngestFilters
<1>. QED
  BY <1>1, <1>2, NobodyMoves DEF AuthorsInv

LEMMA CreditStep ==
    ASSUME AuthorsInv,
           \/ \E d \in Credited, n \in People : Crediting!ResolveContributor(d, n)
           \/ \E d \in Credited : Crediting!IngestUncredited(d)
           \/ Crediting!InsertContributor \/ Crediting!LoseContributor
    PROVE  AuthorsInv' /\ Crediting!LosesNothing
<1>1. UNCHANGED <<author, alias, ingest>>
  BY DEF Crediting!ResolveContributor, Crediting!IngestUncredited,
         Crediting!InsertContributor, Crediting!LoseContributor
<1>2. /\ crediting' = Crediting!NotCrediting \/ crediting' \in [document : Credited, author : People]
      /\ credit' \in [Credited -> People \cup {NoName}]
      /\ \A d \in Credited : credit'[d] # NoName => credit'[d] \in Crediting!Stored
  <2>1. /\ crediting = Crediting!NotCrediting \/ crediting \in [document : Credited, author : People]
        /\ credit \in [Credited -> People \cup {NoName}]
        /\ \A d \in Credited : credit[d] # NoName => credit[d] \in Crediting!Stored
    BY DEF AuthorsInv, Crediting!TypeOK, NoName
  <2>2. ASSUME NEW d \in Credited, NEW n \in People, Crediting!ResolveContributor(d, n)
        PROVE  /\ crediting' \in [document : Credited, author : People]
               /\ credit' = credit
    <3>1. Crediting!Resolve(n) \in People
      BY <2>2, AuthorsTyped DEF Crediting!ResolveContributor, NoName
    <3>. QED
      BY <2>2, <3>1 DEF Crediting!ResolveContributor
  <2>3. ASSUME NEW d \in Credited, Crediting!IngestUncredited(d)
        PROVE  credit' = [credit EXCEPT ![d] = NoName] /\ crediting' = crediting
    BY <2>3 DEF Crediting!IngestUncredited, NoName
  <2>4. CASE Crediting!InsertContributor
    BY <2>1, <2>4, AuthorsTyped DEF Crediting!InsertContributor
  <2>5. CASE Crediting!LoseContributor
    BY <2>1, <2>5 DEF Crediting!LoseContributor
  <2>. QED
    BY <2>1, <2>2, <2>3, <2>4, <2>5
<1>3. Crediting!TypeOK' /\ IngestFilters'
  BY <1>1, <1>2 DEF AuthorsInv, Crediting!TypeOK, IngestFilters, NoName
<1>. QED
  BY <1>1, <1>2, <1>3, NobodyMoves

(* Authors that are deleted take their aliases with them, and no credit.   *)
(* Names that are stored anew are not aliases, or are forgotten as such.   *)
LEMMA AuthorsGo ==
    ASSUME AuthorsInv, NEW gone \in SUBSET Crediting!Stored, NEW new \in SUBSET People,
           gone \cap new = {}, Crediting!MayDelete(gone),
           author' \in [People -> Orcids \cup {NoName, Gone}],
           \A n \in People : \/ n \in gone /\ author'[n] = Gone
                             \/ n \in new /\ author'[n] # Gone
                             \/ n \notin gone \cup new /\ author'[n] = author[n],
           alias' = Crediting!Cascaded(alias, gone), credit' = credit, crediting' = crediting,
           Crediting!TypeOK', IngestFilters',
           \A n \in new : alias[n] # NoName => Crediting!Forgets(n)
    PROVE  AuthorsInv' /\ Crediting!LosesNothing
<1>1. \A n \in People : alias'[n] = IF alias[n] \in gone THEN NoName ELSE alias[n]
  BY DEF Crediting!Cascaded, NoName
<1>2. \A n \in People : n \in Crediting!Stored' <=> author'[n] # Gone
  BY DEF Crediting!Stored, Gone
<1>3. \A d \in Credited : credit'[d] # NoName => credit'[d] \in Crediting!Stored'
  <2>1. ASSUME NEW d \in Credited, credit[d] # NoName PROVE credit[d] \in Crediting!Stored'
    <3>1. credit[d] \in Crediting!Stored /\ credit[d] \notin gone
      BY <2>1 DEF AuthorsInv, Crediting!MayDelete
    <3>. QED
      BY <1>2, <3>1, AuthorsTyped
  <2>. QED
    BY <2>1
<1>4. \A n \in People : alias'[n] # NoName => alias'[n] \in Crediting!Stored'
  <2>1. ASSUME NEW n \in People, alias'[n] # NoName PROVE alias'[n] \in Crediting!Stored'
    <3>1. alias'[n] = alias[n] /\ alias[n] \in Crediting!Stored /\ alias[n] \notin gone
      BY <1>1, <2>1 DEF AuthorsInv
    <3>. QED
      BY <1>2, <3>1, AuthorsTyped
  <2>. QED
    BY <2>1
<1>5. AuthorsInv'
  BY <1>3, <1>4 DEF AuthorsInv
<1>6. ASSUME NEW n \in People, Crediting!Resolve(n) # Crediting!None, ~Crediting!Forgets(n)
      PROVE  Crediting!Follows(n)
  <2> DEFINE was == Crediting!Resolve(n)
  <2>1. was \in Crediting!Stored /\ was \in People
    BY <1>6, AuthorsTyped DEF NoName
  <2>2. was \notin gone
    <3>1. ASSUME was \in gone PROVE FALSE
      <4>1. author'[was] = Gone /\ alias'[was] \in {alias[was], NoName}
        BY <1>1, <2>1, <3>1
      <4>. QED
        BY <1>6, <2>1, <4>1 DEF Crediting!Forgets, NoName, Gone
    <3>. QED
      BY <3>1
  <2>3. CASE n \in Crediting!Stored
    <3>1. was = n
      BY <2>3 DEF Crediting!Resolve
    <3>2. author'[n] # Gone
      BY <2>2, <2>3, <3>1, AuthorsTyped
    <3>. QED
      BY <1>2, <3>1, <3>2 DEF Crediting!Follows, Crediting!Resolve
  <2>4. CASE n \notin Crediting!Stored
    <3>1. was = alias[n] /\ alias[n] # NoName
      BY <1>6, <2>4 DEF Crediting!Resolve, NoName
    <3>2. n \notin new
      BY <1>6, <3>1
    <3>3. author'[n] = Gone
      BY <2>4, <3>2, AuthorsTyped
    <3>4. alias'[n] = was
      BY <1>1, <2>2, <3>1
    <3>5. Crediting!Resolve(n)' = was
      BY <1>2, <3>3, <3>4 DEF Crediting!Resolve
    <3>. QED
      BY <3>5 DEF Crediting!Follows
  <2>. QED
    BY <2>3, <2>4
<1>7. \A d \in Credited : credit'[d] # Crediting!None => author'[credit'[d]] # Crediting!Absent
  BY <1>2, <1>3 DEF NoName, Gone, Crediting!Stored
<1>. QED
  BY <1>5, <1>6, <1>7 DEF Crediting!LosesNothing

LEMMA DeleteAuthorStep ==
    ASSUME AuthorsInv, NEW n \in People, Crediting!DeleteAuthor(n)
    PROVE  AuthorsInv' /\ Crediting!LosesNothing
<1>1. /\ n \in Crediting!Stored /\ Crediting!MayDelete({n})
      /\ author' = [author EXCEPT ![n] = Gone] /\ alias' = Crediting!Cascaded(alias, {n})
      /\ UNCHANGED <<credit, ingest, crediting>>
  BY DEF Crediting!DeleteAuthor, Gone
<1>2. author' \in [People -> Orcids \cup {NoName, Gone}]
  BY <1>1, AuthorsTyped
<1>3. alias' \in [People -> People \cup {NoName}]
  BY <1>1, AuthorsTyped DEF Crediting!Cascaded, NoName
<1>4. Crediting!TypeOK' /\ IngestFilters'
  BY <1>1, <1>2, <1>3 DEF AuthorsInv, Crediting!TypeOK, IngestFilters, NoName, Gone
<1> DEFINE gone == {n}
           new == {}
<1>5. /\ gone \in SUBSET Crediting!Stored /\ new \in SUBSET People /\ gone \cap new = {}
      /\ \A m \in People : \/ m \in gone /\ author'[m] = Gone
                           \/ m \notin gone \cup new /\ author'[m] = author[m]
      /\ \A m \in new : alias[m] # NoName => Crediting!Forgets(m)
      /\ Crediting!MayDelete(gone) /\ alias' = Crediting!Cascaded(alias, gone)
  BY <1>1, AuthorsTyped
<1> HIDE DEF gone, new
<1>. QED
  BY <1>1, <1>2, <1>4, <1>5, AuthorsGo

LEMMA CommitIngestStep ==
    ASSUME AuthorsInv, Crediting!CommitIngest
    PROVE  AuthorsInv' /\ Crediting!LosesNothing
<1> DEFINE gone == Crediting!Stale
           new == DOMAIN ingest.listed
<1>1. /\ ingest # Crediting!NoIngest /\ Crediting!MayDelete(gone)
      /\ author' = [n \in People |-> IF n \in new THEN ingest.listed[n]
                                     ELSE IF n \in gone THEN Gone ELSE author[n]]
      /\ alias' = Crediting!Cascaded(alias, gone)
      /\ ingest' = Crediting!NoIngest /\ UNCHANGED <<credit, crediting>>
  BY DEF Crediting!CommitIngest, Gone
<1>2. ingest.listed \in Crediting!Lists
  BY <1>1 DEF AuthorsInv, Crediting!TypeOK
<1>3. /\ new \in SUBSET People /\ ingest.listed \in [new -> Orcids \cup {NoName}]
      /\ \A n \in new : ingest.listed[n] # Gone
  BY <1>2, ListedAre, AuthorsAssumption DEF NoName, Gone, Crediting!None, Crediting!Absent
<1>4. gone \in SUBSET Crediting!Stored /\ gone \cap new = {}
  BY DEF Crediting!Stale
<1>5. \A n \in new : alias[n] # NoName => Crediting!Forgets(n)
  BY <1>1 DEF AuthorsInv, IngestFilters, Crediting!Forgets, NoName
<1> HIDE DEF gone, new
<1>6. author' \in [People -> Orcids \cup {NoName, Gone}]
  BY <1>1, <1>3, AuthorsTyped
<1>7. alias' \in [People -> People \cup {NoName}]
  BY <1>1, AuthorsTyped DEF Crediting!Cascaded, NoName
<1>8. Crediting!TypeOK' /\ IngestFilters'
  BY <1>1, <1>6, <1>7 DEF AuthorsInv, Crediting!TypeOK, IngestFilters, NoName, Gone
<1>9. \A n \in People : \/ n \in gone /\ author'[n] = Gone
                        \/ n \in new /\ author'[n] # Gone
                        \/ n \notin gone \cup new /\ author'[n] = author[n]
  BY <1>1, <1>3, <1>4
<1>. QED
  BY <1>1, <1>3, <1>4, <1>5, <1>6, <1>8, <1>9, AuthorsGo

LEMMA DeleteAliasStep ==
    ASSUME AuthorsInv, NEW m \in People, Crediting!DeleteAlias(m)
    PROVE  AuthorsInv' /\ Crediting!LosesNothing
<1>1. /\ alias[m] # NoName /\ alias' = [alias EXCEPT ![m] = NoName]
      /\ UNCHANGED <<author, credit, ingest, crediting>>
  BY DEF Crediting!DeleteAlias, NoName
<1>2. /\ Crediting!Stored' = Crediting!Stored /\ alias'[m] = NoName
      /\ \A n \in People \ {m} : alias'[n] = alias[n]
      /\ alias' \in [People -> People \cup {NoName}]
  BY <1>1, AuthorsTyped DEF Crediting!Stored
<1>3. Crediting!TypeOK' /\ IngestFilters'
  BY <1>1, <1>2 DEF AuthorsInv, Crediting!TypeOK, IngestFilters, NoName
<1>4. AuthorsInv'
  BY <1>1, <1>2, <1>3 DEF AuthorsInv
<1>5. ASSUME NEW n \in People, ~Crediting!Forgets(n) PROVE Crediting!Follows(n)
  <2>1. n # m
    BY <1>1, <1>2, <1>5 DEF Crediting!Forgets, NoName
  <2>2. Crediting!Resolve(n)' = Crediting!Resolve(n)
    BY <1>2, <2>1 DEF Crediting!Resolve
  <2>. QED
    BY <2>2 DEF Crediting!Follows
<1>6. \A d \in Credited : credit'[d] # Crediting!None => author'[credit'[d]] # Crediting!Absent
  BY <1>1, AuthorsTyped DEF AuthorsInv, NoName, Gone
<1>. QED
  BY <1>1, <1>4, <1>5, <1>6 DEF Crediting!LosesNothing

(* A merge: the aliases of the merged author and its credits go to the     *)
(* root, which stays.                                                      *)
LEMMA CreateAliasStep ==
    ASSUME AuthorsInv, NEW old \in People, NEW canonical \in People,
           Crediting!CreateAlias(old, canonical)
    PROVE  AuthorsInv' /\ Crediting!LosesNothing
<1> DEFINE root == Crediting!Resolve(canonical)
<1>1. /\ root # NoName /\ root # old /\ alias[old] = NoName
      /\ credit' = [d \in Credited |-> IF credit[d] = old THEN root ELSE credit[d]]
      /\ alias' = [Crediting!Repointed(old, root) EXCEPT ![old] = root]
      /\ author' = [author EXCEPT ![old] = Gone] /\ UNCHANGED <<ingest, crediting>>
  BY DEF Crediting!CreateAlias, NoName, Gone
<1>2. root \in Crediting!Stored /\ root \in People
  BY <1>1, AuthorsTyped
<1> HIDE DEF root
<1>3. /\ alias' \in [People -> People \cup {NoName}] /\ alias'[old] = root
      /\ \A n \in People \ {old} :
            alias'[n] = IF alias[n] = old THEN root ELSE alias[n]
  <2>1. /\ Crediting!Repointed(old, root) \in [People -> People \cup {NoName}]
        /\ \A n \in People : Crediting!Repointed(old, root)[n] =
                                IF alias[n] = old THEN root ELSE alias[n]
    BY <1>2, AuthorsTyped DEF Crediting!Repointed, AuthorsInv
  <2>. QED
    BY <1>1, <1>2, <2>1
<1>4. /\ author' \in [People -> Orcids \cup {NoName, Gone}] /\ author'[old] = Gone
      /\ \A n \in People : n \in Crediting!Stored' <=> n \in Crediting!Stored /\ n # old
  BY <1>1, AuthorsTyped DEF Crediting!Stored, Gone
<1>5. credit' \in [Credited -> People \cup {NoName}]
  BY <1>1, <1>2, AuthorsTyped
<1>6. Crediting!TypeOK' /\ IngestFilters'
  BY <1>1, <1>3, <1>4, <1>5 DEF AuthorsInv, Crediting!TypeOK, IngestFilters, NoName, Gone
<1>7. \A d \in Credited : credit'[d] # NoName => credit'[d] \in Crediting!Stored'
  BY <1>1, <1>2, <1>4, AuthorsTyped DEF AuthorsInv
<1>8. \A n \in People : alias'[n] # NoName => alias'[n] \in Crediting!Stored'
  BY <1>1, <1>2, <1>3, <1>4, AuthorsTyped DEF AuthorsInv
<1>9. AuthorsInv'
  BY <1>6, <1>7, <1>8 DEF AuthorsInv
<1>10. ASSUME NEW n \in People, Crediting!Resolve(n) # NoName
       PROVE  Crediting!Follows(n)
  <2>1. CASE n = old
    <3>1. Crediting!Resolve(n) = old
      BY <1>1, <1>10, <2>1 DEF Crediting!Resolve
    <3>2. Crediting!Resolve(n)' = alias'[old]
      BY <1>4, <2>1 DEF Crediting!Resolve
    <3>. QED
      BY <1>1, <1>3, <3>1, <3>2 DEF Crediting!Follows, NoName
  <2>2. CASE n # old /\ n \in Crediting!Stored
    BY <1>4, <2>2 DEF Crediting!Follows, Crediting!Resolve
  <2>3. CASE n # old /\ n \notin Crediting!Stored
    <3>1. Crediting!Resolve(n) = alias[n] /\ Crediting!Resolve(n)' = alias'[n]
      BY <1>4, <2>3 DEF Crediting!Resolve
    <3>. QED
      BY <1>1, <1>3, <2>3, <3>1 DEF Crediting!Follows, NoName
  <2>. QED
    BY <2>1, <2>2, <2>3
<1>11. \A d \in Credited : credit'[d] # Crediting!None => author'[credit'[d]] # Crediting!Absent
  BY <1>7 DEF NoName, Crediting!Stored
<1>12. \A d \in Credited : credit'[d] \in {credit[d], alias'[credit[d]]}
  BY <1>1, <1>3
<1>. QED
  BY <1>9, <1>10, <1>11, <1>12 DEF Crediting!LosesNothing, NoName

LEMMA AuthorsNext == AuthorsInv /\ Crediting!Next => AuthorsInv' /\ Crediting!LosesNothing
<1> SUFFICES ASSUME AuthorsInv, Crediting!Next PROVE AuthorsInv' /\ Crediting!LosesNothing
  OBVIOUS
<1>1. ASSUME NEW list \in Crediting!Lists, NEW delete \in BOOLEAN, Crediting!BeginIngest(list, delete)
      PROVE  AuthorsInv' /\ Crediting!LosesNothing
  BY <1>1, BeginIngestStep
<1>2. CASE Crediting!CommitIngest \/ Crediting!AbortIngest
  BY <1>2, CommitIngestStep, AbortIngestStep
<1>3. ASSUME NEW old \in People, NEW canonical \in People, Crediting!CreateAlias(old, canonical)
      PROVE  AuthorsInv' /\ Crediting!LosesNothing
  BY <1>3, CreateAliasStep
<1>4. ASSUME NEW n \in People, Crediting!DeleteAlias(n) \/ Crediting!DeleteAuthor(n)
      PROVE  AuthorsInv' /\ Crediting!LosesNothing
  BY <1>4, DeleteAliasStep, DeleteAuthorStep
<1>5. CASE \/ \E d \in Credited, n \in People : Crediting!ResolveContributor(d, n)
           \/ \E d \in Credited : Crediting!IngestUncredited(d)
           \/ Crediting!InsertContributor \/ Crediting!LoseContributor
  BY <1>5, CreditStep
<1>. QED
  BY <1>1, <1>2, <1>3, <1>4, <1>5 DEF Crediting!Next

LEMMA AuthorsStutter == AuthorsInv /\ UNCHANGED Crediting!vars => AuthorsInv'
BY DEF Crediting!vars, AuthorsInv, Crediting!TypeOK, IngestFilters, Crediting!Stored

(* The author database keeps its invariant, for any names and documents.     *)
THEOREM AuthorsAreSound == Crediting!Spec => []AuthorsInv
<1>1. AuthorsInv /\ [Crediting!Next]_Crediting!vars => AuthorsInv'
  BY AuthorsNext, AuthorsStutter
<1>. QED
  BY <1>1, AuthorsInit, PTL DEF Crediting!Spec


-----------------------------------------------------------------------------
(* The bibliography.                                                       *)

NoResource == Bibliography!Absent
NewRow == Bibliography!New
Seen(r) == Bibliography!View(r)
Old(r) == Bibliography!Before(r)

BatchRecords ==
    [at : {"idle", "handle", "slot", "doi", "loading", "writing", "relating"},
     doc : Bibliography!Rows, id : ResourceIds \cup {NewRow}, loaded : Bibliography!Rows,
     mine : [ResourceIds -> Bibliography!Rows],
     savepoint : [ResourceIds -> Bibliography!Rows], quiet : BOOLEAN,
     result : {"none", "created", "updated", "failed"}]

(* What a request has stored of a document: that, and nothing else.        *)
StoredIt(r) ==
    \E i \in ResourceIds :
        /\ Seen(r) = [Old(r) EXCEPT ![i] = batch[r].doc]
        /\ batch[r].id = NewRow => Bibliography!Holders(r) = {} /\ Old(r)[i] = NoResource
        /\ batch[r].id # NewRow => i \in Bibliography!Holders(r)

(* What a request knows of the document it is at.  Rows are never deleted, *)
(* so the one it has found stays; that it is the one to update, or that    *)
(* there is none, is known while no commit comes in between.               *)
RequestKnows(r) ==
    LET b == batch[r] IN
    /\ b.at # "idle" => b.doc \in Docs /\ b.result = "none"
    /\ b.at \notin {"idle", "relating"} => b.mine = b.savepoint
    /\ b.at = "loading" => b.id # NewRow
    /\ b.at \in {"loading", "writing"} /\ b.id # NewRow => Seen(r)[b.id] # NoResource
    /\ b.quiet =>
        /\ b.at # "idle"
        /\ b.at \in {"slot", "doi"} =>
            \A i \in ResourceIds : Seen(r)[i] = NoResource \/ Seen(r)[i].handle # b.doc.handle
        /\ b.at = "doi" =>
            \A i \in ResourceIds : Seen(r)[i] = NoResource \/ Seen(r)[i].slot # b.doc.slot
        /\ b.at = "writing" /\ b.id = NewRow => Bibliography!Holders(r) = {}
        /\ b.at \in {"loading", "writing"} /\ b.id # NewRow => b.id \in Bibliography!Holders(r)
        /\ b.at = "writing" /\ b.id # NewRow => b.loaded = Seen(r)[b.id]
        /\ b.at = "relating" => StoredIt(r)

DocsInv ==
    /\ Bibliography!TypeOK
    /\ \A r \in Callers : RequestKnows(r)

LEMMA DocsTyped ==
    ASSUME DocsInv
    PROVE  /\ resource \in [ResourceIds -> Bibliography!Rows]
           /\ batch \in [Callers -> BatchRecords]
           /\ \A r \in Callers : /\ batch[r] \in BatchRecords
                                 /\ Seen(r) \in [ResourceIds -> Bibliography!Rows]
                                 /\ Old(r) \in [ResourceIds -> Bibliography!Rows]
           /\ NewRow \notin ResourceIds
<1>1. /\ resource \in [ResourceIds -> Bibliography!Rows] /\ batch \in [Callers -> BatchRecords]
  BY DEF DocsInv, Bibliography!TypeOK, BatchRecords, NewRow
<1>2. \A r \in Callers : /\ Seen(r) \in [ResourceIds -> Bibliography!Rows]
                          /\ Old(r) \in [ResourceIds -> Bibliography!Rows]
  BY <1>1 DEF Seen, Old, Bibliography!View, Bibliography!Before, Bibliography!Under, BatchRecords
<1>. QED
  BY <1>1, <1>2, DocumentsAssumption DEF NewRow, Bibliography!New

(* A request that has yet to write its document sees what it saw at its    *)
(* savepoint.                                                              *)
LEMMA SeesTheOld ==
    ASSUME NEW r \in Callers, RequestKnows(r), batch[r].at \notin {"idle", "relating"}
    PROVE  Seen(r) = Old(r)
BY DEF RequestKnows, Seen, Old, Bibliography!View, Bibliography!Before

(* What a request sees depends on its own writes and the commits.          *)
LEMMA SeesTheSame ==
    ASSUME NEW r \in Callers, resource' = resource, batch'[r].mine = batch[r].mine,
           batch'[r].savepoint = batch[r].savepoint, batch'[r].doc = batch[r].doc
    PROVE  /\ Seen(r)' = Seen(r) /\ Old(r)' = Old(r)
           /\ Bibliography!Holders(r)' = Bibliography!Holders(r)
<1>1. Bibliography!View(r)' = Bibliography!View(r)
  BY DEF Bibliography!View, Bibliography!Under
<1>2. Bibliography!Before(r)' = Bibliography!Before(r)
  BY DEF Bibliography!Before, Bibliography!Under
<1>. QED
  BY <1>1, <1>2 DEF Seen, Old, Bibliography!Holders

LEMMA ResourcesAre ==
    /\ NoResource \in Bibliography!Rows /\ NoResource \notin Docs
    /\ Docs \subseteq Bibliography!Rows
    /\ \A d \in Docs : d.handle # "none" /\ d.slot # "none"
BY DocumentsAssumption DEF Bibliography!Rows, NoResource, Bibliography!Absent, Bibliography!NoDoi

LEMMA DocsInit == Bibliography!Init => DocsInv
<1> SUFFICES ASSUME Bibliography!Init PROVE DocsInv
  OBVIOUS
<1>1. resource = Bibliography!Nothing /\ batch = [r \in Callers |-> Bibliography!Idle]
  BY DEF Bibliography!Init
<1>2. Bibliography!Nothing \in [ResourceIds -> Bibliography!Rows]
  BY ResourcesAre DEF Bibliography!Nothing, NoResource
<1>3. Bibliography!Idle \in BatchRecords
  BY <1>2, ResourcesAre, DocumentsAssumption DEF BatchRecords, Bibliography!Idle, NewRow, NoResource
<1>4. Bibliography!TypeOK
  BY <1>1, <1>2, <1>3 DEF Bibliography!TypeOK, BatchRecords, NewRow
<1>5. \A r \in Callers : RequestKnows(r)
  BY <1>1 DEF RequestKnows, Bibliography!Idle
<1>. QED
  BY <1>4, <1>5 DEF DocsInv

(* One request's step leaves what the others know. *)
LEMMA OneBatchSteps ==
    ASSUME DocsInv, NEW r \in Callers, NEW q \in BatchRecords,
           batch' = [batch EXCEPT ![r] = q], resource' = resource, RequestKnows(r)'
    PROVE  DocsInv' /\ \A s \in Callers \ {r} : batch'[s] = batch[s]
<1>1. /\ batch' \in [Callers -> BatchRecords] /\ \A s \in Callers \ {r} : batch'[s] = batch[s]
  BY DocsTyped
<1>2. Bibliography!TypeOK'
  BY <1>1 DEF DocsInv, Bibliography!TypeOK, BatchRecords, NewRow
<1>3. ASSUME NEW s \in Callers \ {r} PROVE RequestKnows(s)'
  <2>1. batch'[s] = batch[s]
    BY <1>1
  <2>2. /\ Seen(s)' = Seen(s) /\ Old(s)' = Old(s)
        /\ Bibliography!Holders(s)' = Bibliography!Holders(s)
    BY <2>1, SeesTheSame
  <2>. QED
    BY <2>1, <2>2 DEF DocsInv, RequestKnows, StoredIt
<1>. QED
  BY <1>1, <1>2, <1>3 DEF DocsInv

LEMMA TakeStep ==
    ASSUME DocsInv, NEW r \in Callers, NEW doc \in Docs, Bibliography!Take(r, doc)
    PROVE  DocsInv' /\ Bibliography!ReingestsUpdate
<1> DEFINE q == [batch[r] EXCEPT !.at = "handle", !.doc = doc, !.savepoint = batch[r].mine,
                                 !.quiet = TRUE, !.result = "none"]
<1>1. /\ batch[r].at = "idle" /\ resource' = resource
      /\ batch' = [batch EXCEPT ![r].at = "handle", ![r].doc = doc,
                                ![r].savepoint = batch[r].mine,
                                ![r].quiet = TRUE, ![r].result = "none"]
  BY DEF Bibliography!Take
<1>2. batch[r] \in BatchRecords
  BY DocsTyped
<1>3. batch' = [batch EXCEPT ![r] = q]
  BY <1>1, DocsTyped
<1>4. /\ q \in BatchRecords /\ q.at = "handle" /\ q.doc = doc /\ q.quiet = TRUE
      /\ q.result = "none" /\ q.mine = batch[r].mine /\ q.savepoint = batch[r].mine
  BY <1>2, ResourcesAre DEF BatchRecords
<1> HIDE DEF q
<1>5. batch'[r] = q
  BY <1>3, DocsTyped
<1>6. RequestKnows(r)'
  BY <1>4, <1>5 DEF RequestKnows
<1>7. DocsInv' /\ \A s \in Callers \ {r} : batch'[s] = batch[s]
  BY <1>1, <1>3, <1>4, <1>6, OneBatchSteps
<1>8. \A s \in Callers : batch[s].at # "idle" => batch'[s].result = "none"
  BY <1>4, <1>5, <1>7 DEF DocsInv, RequestKnows
<1>. QED
  BY <1>7, <1>8 DEF Bibliography!ReingestsUpdate

(* A document clashes with the rows that its statements look for. *)
LEMMA ClashIs ==
    ASSUME NEW held \in Bibliography!Rows, NEW doc \in Docs
    PROVE  Bibliography!Clash(held, doc) <=>
            /\ held # NoResource
            /\ \/ held.handle = doc.handle
               \/ held.slot = doc.slot
               \/ held.doi = doc.doi /\ doc.doi # "none"
<1>1. doc # NoResource
  BY ResourcesAre
<1>. QED
  BY <1>1 DEF Bibliography!Clash, NoResource, Bibliography!NoDoi

LEMMA HoldersAre ==
    ASSUME DocsInv, NEW r \in Callers, batch[r].doc \in Docs, Seen(r) = Old(r),
           NEW i \in ResourceIds
    PROVE  i \in Bibliography!Holders(r) <=>
            /\ Seen(r)[i] # NoResource
            /\ \/ Seen(r)[i].handle = batch[r].doc.handle
               \/ Seen(r)[i].slot = batch[r].doc.slot
               \/ Seen(r)[i].doi = batch[r].doc.doi /\ batch[r].doc.doi # "none"
<1>1. Seen(r)[i] \in Bibliography!Rows
  BY DocsTyped
<1>. QED
  BY <1>1, ClashIs DEF Bibliography!Holders, Old

LEMMA LookUpStep ==
    ASSUME DocsInv, NEW r \in Callers,
           NEW column \in {"handle", "slot", "doi"}, NEW otherwise,
           \/ column = "handle" /\ otherwise = "slot"
           \/ column = "slot" /\ otherwise = "doi"
           \/ column = "doi" /\ otherwise = "writing",
           Bibliography!LookUp(r, column, otherwise)
    PROVE  /\ DocsInv' /\ batch'[r].result = batch[r].result
           /\ \A s \in Callers \ {r} : batch'[s] = batch[s]
<1> DEFINE doc == batch[r].doc
           found == {i \in ResourceIds : /\ Seen(r)[i] # NoResource
                                         /\ Seen(r)[i][column] = doc[column]
                                         /\ doc[column] # "none"}
<1>1. /\ batch[r].at = column /\ resource' = resource
      /\ IF found = {} THEN batch' = [batch EXCEPT ![r].at = otherwise, ![r].id = NewRow]
         ELSE \E i \in found : batch' = [batch EXCEPT ![r].at = "loading", ![r].id = i]
  BY DEF Bibliography!LookUp, Seen, NoResource, NewRow, Bibliography!NoDoi
<1>2. /\ batch[r] \in BatchRecords /\ batch[r].at # "idle" /\ doc \in Docs
      /\ RequestKnows(r) /\ batch[r].result = "none" /\ batch[r].mine = batch[r].savepoint
      /\ Seen(r) = Old(r)
  BY <1>1, DocsTyped, SeesTheOld DEF DocsInv, RequestKnows
<1>3. PICK at \in {otherwise, "loading"}, id \in ResourceIds \cup {NewRow} :
        /\ batch' = [batch EXCEPT ![r].at = at, ![r].id = id]
        /\ at = otherwise => found = {} /\ id = NewRow
        /\ at = "loading" => id \in found
  <2>1. CASE found = {}
    BY <1>1, <2>1
  <2>2. CASE found # {}
    <3>1. PICK i \in found : batch' = [batch EXCEPT ![r].at = "loading", ![r].id = i]
      BY <1>1, <2>2
    <3>2. i \in ResourceIds /\ otherwise # "loading"
      OBVIOUS
    <3>. QED
      BY <3>1, <3>2
  <2>. QED
    BY <2>1, <2>2
<1> DEFINE q == [batch[r] EXCEPT !.at = at, !.id = id]
<1>4. batch' = [batch EXCEPT ![r] = q]
  BY <1>3, DocsTyped
<1>5. /\ q \in BatchRecords /\ q.at = at /\ q.id = id /\ q.doc = doc
      /\ q.quiet = batch[r].quiet /\ q.result = batch[r].result /\ q.mine = batch[r].mine
      /\ q.savepoint = batch[r].savepoint
  BY <1>2 DEF BatchRecords
<1> HIDE DEF q
<1>6. batch'[r] = q
  BY <1>4, DocsTyped
<1>7. Seen(r)' = Seen(r) /\ Bibliography!Holders(r)' = Bibliography!Holders(r)
  BY <1>1, <1>5, <1>6, SeesTheSame
<1>8. /\ Seen(r) \in [ResourceIds -> Bibliography!Rows] /\ NewRow \notin ResourceIds
      /\ \A i \in ResourceIds :
            i \in Bibliography!Holders(r) <=>
                /\ Seen(r)[i] # NoResource
                /\ \/ Seen(r)[i].handle = doc.handle
                   \/ Seen(r)[i].slot = doc.slot
                   \/ Seen(r)[i].doi = doc.doi /\ doc.doi # "none"
  BY <1>2, DocsTyped, HoldersAre
<1>9. \A i \in ResourceIds :
        i \in found <=> /\ Seen(r)[i] # NoResource
                        /\ \/ column = "handle" /\ Seen(r)[i].handle = doc.handle
                           \/ column = "slot" /\ Seen(r)[i].slot = doc.slot
                           \/ column = "doi" /\ Seen(r)[i].doi = doc.doi /\ doc.doi # "none"
  BY <1>2, ResourcesAre
<1>10. found \subseteq ResourceIds
  OBVIOUS
<1> HIDE DEF found, doc
<1>11. CASE at = "loading"
  <2>1. id \in ResourceIds /\ id \in found
    BY <1>3, <1>10, <1>11
  <2>2. Seen(r)[id] # NoResource /\ id \in Bibliography!Holders(r) /\ id # NewRow
    BY <1>8, <1>9, <2>1
  <2>3. RequestKnows(r)'
    BY <1>2, <1>5, <1>6, <1>7, <1>11, <2>2 DEF RequestKnows, doc
  <2>. QED
    BY <1>1, <1>4, <1>5, <1>6, <2>3, OneBatchSteps
<1>12. CASE at = otherwise
  <2>1. found = {} /\ id = NewRow /\ at # "loading"
    BY <1>3, <1>12
  <2>2. ASSUME batch[r].quiet, at = "slot" \/ at = "doi", NEW i \in ResourceIds
        PROVE  Seen(r)[i] = NoResource \/ Seen(r)[i].handle # doc.handle
    BY <1>1, <1>2, <1>9, <1>12, <2>1, <2>2 DEF RequestKnows, doc
  <2>3. ASSUME batch[r].quiet, at = "doi", NEW i \in ResourceIds
        PROVE  Seen(r)[i] = NoResource \/ Seen(r)[i].slot # doc.slot
    BY <1>1, <1>2, <1>9, <1>12, <2>1, <2>3 DEF RequestKnows, doc
  <2>4. ASSUME batch[r].quiet, at = "writing" PROVE Bibliography!Holders(r) = {}
    <3>1. column = "doi"
      BY <1>12, <2>4
    <3>2. \A i \in ResourceIds : i \notin Bibliography!Holders(r)
      BY <1>1, <1>2, <1>8, <1>9, <2>1, <2>4, <3>1 DEF RequestKnows, doc
    <3>. QED
      BY <3>2 DEF Bibliography!Holders
  <2>5. RequestKnows(r)'
    BY <1>1, <1>2, <1>5, <1>6, <1>7, <1>12, <2>1, <2>2, <2>3, <2>4 DEF RequestKnows, doc
  <2>. QED
    BY <1>1, <1>4, <1>5, <1>6, <2>5, OneBatchSteps
<1>. QED
  BY <1>3, <1>11, <1>12

(* A request whose result does not change says nothing of its document. *)
LEMMA NothingSaid ==
    ASSUME DocsInv, NEW r \in Callers, batch'[r].result \in {batch[r].result, "none"},
           \A s \in Callers \ {r} : batch'[s].result = batch[s].result
    PROVE  Bibliography!ReingestsUpdate
<1>1. \A s \in Callers : batch[s].at # "idle" => batch'[s].result = "none"
  BY DEF DocsInv, RequestKnows
<1>. QED
  BY <1>1 DEF Bibliography!ReingestsUpdate

LEMMA ResolveStep ==
    ASSUME DocsInv, NEW r \in Callers, Bibliography!Resolve(r)
    PROVE  DocsInv' /\ Bibliography!ReingestsUpdate
<1>1. CASE Bibliography!LookUp(r, "handle", "slot")
  BY <1>1, LookUpStep, NothingSaid
<1>2. CASE Bibliography!LookUp(r, "slot", "doi")
  BY <1>2, LookUpStep, NothingSaid
<1>3. CASE Bibliography!LookUp(r, "doi", "writing")
  BY <1>3, LookUpStep, NothingSaid
<1>. QED
  BY <1>1, <1>2, <1>3 DEF Bibliography!Resolve

LEMMA LoadStep ==
    ASSUME DocsInv, NEW r \in Callers, Bibliography!Load(r)
    PROVE  DocsInv' /\ Bibliography!ReingestsUpdate
<1> DEFINE held == Seen(r)[batch[r].id]
           q == [batch[r] EXCEPT !.at = "writing", !.loaded = held]
<1>1. /\ batch[r].at = "loading" /\ resource' = resource
      /\ batch' = [batch EXCEPT ![r].at = "writing", ![r].loaded = held]
  BY DEF Bibliography!Load, Seen
<1>2. /\ batch[r] \in BatchRecords /\ RequestKnows(r) /\ batch[r].result = "none"
      /\ batch[r].mine = batch[r].savepoint
  BY <1>1, DocsTyped DEF DocsInv, RequestKnows
<1>3. batch[r].id \in ResourceIds /\ held \in Bibliography!Rows
  <2>1. batch[r].id \in ResourceIds
    BY <1>1, <1>2 DEF RequestKnows, BatchRecords
  <2>. QED
    BY <2>1, DocsTyped
<1>4. batch' = [batch EXCEPT ![r] = q]
  BY <1>1, DocsTyped
<1>5. held = Seen(r)[batch[r].id]
  OBVIOUS
<1> HIDE DEF held
<1>6. /\ q \in BatchRecords /\ q.at = "writing" /\ q.loaded = held /\ q.id = batch[r].id
      /\ q.doc = batch[r].doc /\ q.quiet = batch[r].quiet /\ q.result = batch[r].result
      /\ q.mine = batch[r].mine /\ q.savepoint = batch[r].savepoint
  BY <1>2, <1>3 DEF BatchRecords
<1> HIDE DEF q
<1>7. batch'[r] = q
  BY <1>4, DocsTyped
<1>8. Seen(r)' = Seen(r) /\ Bibliography!Holders(r)' = Bibliography!Holders(r)
  BY <1>1, <1>6, <1>7, SeesTheSame
<1>9. RequestKnows(r)'
  BY <1>1, <1>2, <1>5, <1>6, <1>7, <1>8 DEF RequestKnows
<1>10. DocsInv' /\ \A s \in Callers \ {r} : batch'[s] = batch[s]
  BY <1>1, <1>4, <1>6, <1>9, OneBatchSteps
<1>. QED
  BY <1>6, <1>7, <1>10, NothingSaid

(* What is written of a document that no commit overtook is the document.  *)
LEMMA QuietWrites ==
    ASSUME DocsInv, NEW r \in Callers, batch[r].quiet, batch[r].at = "writing"
    PROVE  Bibliography!Written(r) = batch[r].doc
<1>1. /\ batch[r] \in BatchRecords /\ batch[r].doc \in Docs
      /\ batch[r].id # NewRow => batch[r].loaded = Seen(r)[batch[r].id]
  BY DocsTyped DEF DocsInv, RequestKnows
<1>2. CASE batch[r].id = NewRow
  BY <1>2 DEF Bibliography!Written, NewRow
<1>3. CASE batch[r].id # NewRow
  <2>1. Bibliography!Written(r) = [c \in {"handle", "slot", "doi"} |-> batch[r].doc[c]]
    BY <1>1, <1>3 DEF Bibliography!Written, Bibliography!Columns, NewRow, Seen
  <2>2. batch[r].doc \in [handle : {d.handle : d \in Docs}, slot : {d.slot : d \in Docs},
                          doi : {d.doi : d \in Docs}]
    BY <1>1, DocumentsAssumption
  <2>. QED
    BY <2>1, <2>2
<1>. QED
  BY <1>2, <1>3

(* Whatever is written has a handle, a number and a DOI, if any, that      *)
(* documents have.                                                         *)
LEMMA WrittenIsRow ==
    ASSUME DocsInv, NEW r \in Callers, batch[r].at = "writing"
    PROVE  Bibliography!Written(r) \in Bibliography!Rows /\ Bibliography!Written(r) # NoResource
<1> DEFINE handles == {d.handle : d \in Docs}
           slots == {d.slot : d \in Docs}
           dois == {d.doi : d \in Docs} \cup {"none"}
           doc == batch[r].doc
           held == Seen(r)[batch[r].id]
           written == Bibliography!Written(r)
<1>1. /\ batch[r] \in BatchRecords /\ doc \in Docs
      /\ batch[r].id # NewRow => held # NoResource
  BY DocsTyped DEF DocsInv, RequestKnows
<1>2. Bibliography!Rows = [handle : handles, slot : slots, doi : dois] \cup {NoResource}
  BY DEF Bibliography!Rows, NoResource, Bibliography!NoDoi
<1>3. /\ doc \in [handle : handles, slot : slots, doi : dois]
      /\ "" \notin handles
  BY <1>1, DocumentsAssumption
<1>4. \A x \in [handle : handles, slot : slots, doi : dois] : x # NoResource
  <2>1. NoResource.handle = ""
    BY DEF NoResource, Bibliography!Absent
  <2> HIDE DEF handles, slots, dois
  <2>. QED
    BY <1>3, <2>1
<1>5. CASE batch[r].id = NewRow
  BY <1>2, <1>3, <1>4, <1>5 DEF Bibliography!Written, NewRow
<1>6. CASE batch[r].id # NewRow
  <2>1. held \in [handle : handles, slot : slots, doi : dois]
    <3>1. batch[r].id \in ResourceIds
      BY <1>1, <1>6 DEF BatchRecords
    <3>. QED
      BY <1>1, <1>2, <1>6, <3>1, DocsTyped
  <2>2. written = [c \in {"handle", "slot", "doi"} |->
                    IF doc[c] # batch[r].loaded[c] THEN doc[c] ELSE held[c]]
    BY <1>6 DEF Bibliography!Written, Bibliography!Columns, NewRow, Seen
  <2> HIDE DEF written, held, handles, slots, dois
  <2>3. /\ written["handle"] \in handles /\ written["slot"] \in slots
        /\ written["doi"] \in dois
    BY <1>3, <2>1, <2>2
  <2>4. written = [handle |-> written["handle"], slot |-> written["slot"],
                   doi |-> written["doi"]]
    BY <2>2
  <2>5. written \in [handle : handles, slot : slots, doi : dois]
    BY <2>3, <2>4
  <2>. QED
    BY <1>2, <1>4, <2>5 DEF written
<1>. QED
  BY <1>5, <1>6

LEMMA TwoOf ==
    ASSUME NEW x, NEW y, x # y
    PROVE  Cardinality({x, y}) = 2
<1> DEFINE one == {x}
<1>1. IsFiniteSet(one) /\ Cardinality(one) = 1
  BY FS_Singleton
<1>2. y \notin one /\ {x, y} = one \cup {y}
  OBVIOUS
<1> HIDE DEF one
<1>3. Cardinality(one \cup {y}) = Cardinality(one) + 1
  BY <1>1, <1>2, FS_AddElement
<1>. QED
  BY <1>1, <1>2, <1>3

LEMMA RefusedHas ==
    ASSUME DocsInv, NEW r \in Callers, batch[r].quiet, batch[r].at = "writing",
           Bibliography!Refused(r)
    PROVE  Cardinality(Bibliography!Holders(r)) > 1
<1> DEFINE H == Bibliography!Holders(r)
<1>1. PICK i \in ResourceIds \ {batch[r].id} : i \in H
  <2>1. Seen(r) = Old(r)
    BY SeesTheOld DEF DocsInv
  <2>. QED
    BY <2>1, QuietWrites DEF Bibliography!Refused, Bibliography!Holders, Seen, Old
<1>2. batch[r].id \in H /\ batch[r].id # i
  BY <1>1, DocsTyped DEF DocsInv, RequestKnows, BatchRecords
<1>3. IsFiniteSet(H)
  <2>1. H \subseteq ResourceIds /\ IsFiniteSet(ResourceIds)
    BY DocumentsAssumption DEF Bibliography!Holders
  <2>. QED
    BY <2>1, FS_Subset
<1> HIDE DEF H
<1> DEFINE two == {i, batch[r].id}
<1>4. two \subseteq H /\ Cardinality(two) = 2
  BY <1>1, <1>2, TwoOf
<1>5. Cardinality(two) <= Cardinality(H) /\ Cardinality(H) \in Nat
  BY <1>3, <1>4, FS_Subset, FS_CardinalityType
<1>. QED
  BY <1>4, <1>5 DEF H

(* A request that is done with a document.                                 *)
DoneWith(kept, what) == [Bibliography!Idle EXCEPT !.mine = kept, !.result = what]

LEMMA ResultIs ==
    ASSUME NEW kept \in [ResourceIds -> Bibliography!Rows],
           NEW what \in {"none", "created", "updated", "failed"}
    PROVE  /\ DoneWith(kept, what) \in BatchRecords
           /\ DoneWith(kept, what).at = "idle" /\ ~DoneWith(kept, what).quiet
           /\ DoneWith(kept, what).result = what /\ DoneWith(kept, what).mine = kept
<1>1. Bibliography!Nothing \in [ResourceIds -> Bibliography!Rows]
  BY ResourcesAre DEF Bibliography!Nothing, NoResource
<1>2. /\ Bibliography!Idle \in BatchRecords /\ Bibliography!Idle.at = "idle"
      /\ Bibliography!Idle.quiet = FALSE
  BY <1>1, ResourcesAre, DocumentsAssumption DEF BatchRecords, Bibliography!Idle, NewRow, NoResource
<1>. QED
  BY <1>2 DEF BatchRecords, DoneWith

(* One request is done with its document: what is left to show is that the *)
(* result is the right one.                                                *)
LEMMA SettledStep ==
    ASSUME DocsInv, NEW r \in Callers, resource' = resource,
           NEW kept \in [ResourceIds -> Bibliography!Rows],
           NEW what \in {"created", "updated", "failed"},
           batch' = Bibliography!Settled(r, kept, what),
           batch'[r].result = what /\ batch'[r].mine = kept =>
                (/\ batch[r].quiet => Bibliography!IsUpdate(r)
                 /\ what = "failed" => Bibliography!LeavesNoTrace(r))
    PROVE  DocsInv' /\ Bibliography!ReingestsUpdate
<1> DEFINE q == DoneWith(kept, what)
<1>1. batch' = [batch EXCEPT ![r] = q]
  BY DEF Bibliography!Settled, DoneWith
<1>2. q \in BatchRecords /\ q.at = "idle" /\ ~q.quiet /\ q.result = what /\ q.mine = kept
  BY ResultIs
<1> HIDE DEF q
<1>3. batch'[r] = q
  BY <1>1, DocsTyped
<1>4. RequestKnows(r)'
  BY <1>2, <1>3 DEF RequestKnows
<1>5. DocsInv' /\ \A s \in Callers \ {r} : batch'[s] = batch[s]
  BY <1>1, <1>2, <1>4, OneBatchSteps
<1>6. \A s \in Callers \ {r} : batch[s].at # "idle" => batch'[s].result = "none"
  BY <1>5 DEF DocsInv, RequestKnows
<1>7. batch'[r].result = what /\ batch'[r].mine = kept
  BY <1>2, <1>3
<1>. QED
  BY <1>5, <1>6, <1>7 DEF Bibliography!ReingestsUpdate

(* The savepoint is what a failed document goes back to.                   *)
LEMMA FailWriteStep ==
    ASSUME DocsInv, NEW r \in Callers, Bibliography!Fail(r)
    PROVE  DocsInv' /\ Bibliography!ReingestsUpdate
<1> DEFINE before == batch[r].savepoint
<1>1. /\ resource' = resource /\ batch' = Bibliography!Settled(r, before, "failed")
      /\ Bibliography!FailsNow(r)
  BY DEF Bibliography!Fail
<1>2. before \in [ResourceIds -> Bibliography!Rows]
  BY DocsTyped DEF BatchRecords
<1>3. ASSUME batch'[r].mine = before PROVE Bibliography!LeavesNoTrace(r)
  BY <1>1, <1>3 DEF Bibliography!LeavesNoTrace, Bibliography!View, Bibliography!Before,
                    Bibliography!Under
<1>4. ASSUME batch[r].quiet, batch'[r].result = "failed" PROVE Bibliography!IsUpdate(r)
  <2>1. CASE batch[r].at = "writing" /\ Bibliography!Refused(r)
    <3>1. Bibliography!Cardinality(Bibliography!Holders(r)) > 1
      BY <1>4, <2>1, RefusedHas DEF Cardinality, Bibliography!Cardinality
    <3>. QED
      BY <1>4, <3>1 DEF Bibliography!IsUpdate
  <2>2. CASE Bibliography!Deadlocked(r)
    <3>1. Bibliography!Waits(r)
      BY <2>2 DEF Bibliography!Deadlocked, Bibliography!Waits
    <3>. QED
      BY <1>4, <3>1 DEF Bibliography!IsUpdate
  <2>3. CASE batch[r].at = "relating"
    BY <1>4, <2>3 DEF Bibliography!IsUpdate
  <2>. QED
    BY <1>1, <2>1, <2>2, <2>3 DEF Bibliography!FailsNow
<1> HIDE DEF before
<1>. QED
  BY <1>1, <1>2, <1>3, <1>4, SettledStep

(* What is written of a document shows in what the request sees.           *)
LEMMA WriteStep ==
    ASSUME DocsInv, NEW r \in Callers, Bibliography!Write(r)
    PROVE  DocsInv' /\ Bibliography!ReingestsUpdate
<1> DEFINE written == Bibliography!Written(r)
<1>1. batch[r].at = "writing" /\ resource' = resource
  BY DEF Bibliography!Write
<1>2. PICK i \in Bibliography!Targets(r) :
        batch' = [batch EXCEPT ![r].at = "relating", ![r].mine[i] = written]
  BY DEF Bibliography!Write
<1>3. /\ batch[r] \in BatchRecords /\ RequestKnows(r)
      /\ batch[r].mine \in [ResourceIds -> Bibliography!Rows]
      /\ batch[r].result = "none" /\ batch[r].doc \in Docs /\ batch[r].mine = batch[r].savepoint
  BY <1>1, DocsTyped DEF DocsInv, RequestKnows, BatchRecords
<1>4. written \in Bibliography!Rows /\ written # NoResource
  BY <1>1, WrittenIsRow
<1>5. /\ i \in ResourceIds
      /\ batch[r].id # NewRow => i = batch[r].id
      /\ batch[r].id = NewRow => resource[i] = NoResource /\ batch[r].mine[i] = NoResource
  <2>1. CASE batch[r].id = NewRow
    <3>1. i \in Bibliography!Fresh
      BY <2>1 DEF Bibliography!Targets, NewRow
    <3>. QED
      BY <2>1, <3>1 DEF Bibliography!Fresh, NoResource
  <2>2. CASE batch[r].id # NewRow
    BY <1>3, <2>2 DEF Bibliography!Targets, NewRow, BatchRecords
  <2>. QED
    BY <2>1, <2>2
<1> DEFINE mine == [batch[r].mine EXCEPT ![i] = written]
           q == [batch[r] EXCEPT !.at = "relating", !.mine = mine]
<1>6. written = Bibliography!Written(r)
  OBVIOUS
<1> HIDE DEF written
<1>7. mine \in [ResourceIds -> Bibliography!Rows] /\ mine[i] = written
  BY <1>3, <1>4, <1>5
<1>8. batch' = [batch EXCEPT ![r] = q]
  <2> DEFINE p == [batch[r] EXCEPT !.at = "relating"]
  <2>1. p \in BatchRecords /\ p.mine = batch[r].mine
    BY <1>3 DEF BatchRecords
  <2>2. [p EXCEPT !.mine = mine] = q
    BY <1>3 DEF BatchRecords
  <2>3. batch' = [[batch EXCEPT ![r] = p] EXCEPT ![r].mine[i] = written]
    BY <1>2
  <2> HIDE DEF p, q
  <2>4. batch' = [batch EXCEPT ![r] = [p EXCEPT !.mine = [p.mine EXCEPT ![i] = written]]]
    BY <2>3, DocsTyped
  <2>. QED
    BY <2>1, <2>2, <2>4
<1>9. ASSUME NEW j \in ResourceIds, j # i PROVE mine[j] = batch[r].mine[j]
  BY <1>3, <1>9
<1> HIDE DEF mine
<1>10. /\ q \in BatchRecords /\ q.at = "relating" /\ q.mine = mine /\ q.doc = batch[r].doc
       /\ q.id = batch[r].id /\ q.quiet = batch[r].quiet /\ q.savepoint = batch[r].savepoint
       /\ q.result = "none"
  BY <1>3, <1>7 DEF BatchRecords
<1> HIDE DEF q
<1>11. batch'[r] = q
  BY <1>8, DocsTyped
<1>12. Seen(r) = Old(r) /\ Old(r)' = Old(r) /\ Bibliography!Holders(r)' = Bibliography!Holders(r)
  <2>1. Seen(r) = Old(r)
    BY <1>1, <1>3, SeesTheOld
  <2>2. Bibliography!Before(r)' = Bibliography!Before(r)
    BY <1>1, <1>10, <1>11 DEF Bibliography!Before, Bibliography!Under
  <2>. QED
    BY <1>10, <1>11, <2>1, <2>2 DEF Old, Bibliography!Holders
<1>13. Seen(r)' = [Old(r) EXCEPT ![i] = written]
  <2>1. Seen(r)' = [j \in ResourceIds |-> IF mine[j] # NoResource THEN mine[j] ELSE resource[j]]
    BY <1>1, <1>10, <1>11 DEF Seen, Bibliography!View, Bibliography!Under, NoResource
  <2>2. Seen(r) = [j \in ResourceIds |->
                    IF batch[r].mine[j] # NoResource THEN batch[r].mine[j] ELSE resource[j]]
    BY DEF Seen, Bibliography!View, Bibliography!Under, NoResource
  <2>3. [Old(r) EXCEPT ![i] = written] =
            [j \in ResourceIds |-> IF j = i THEN written ELSE Seen(r)[j]]
    BY <1>12, DocsTyped
  <2>4. ASSUME NEW j \in ResourceIds
        PROVE  (IF mine[j] # NoResource THEN mine[j] ELSE resource[j])
                    = (IF j = i THEN written ELSE Seen(r)[j])
    BY <1>4, <1>7, <1>9, <2>2
  <2>. QED
    BY <2>1, <2>3, <2>4
<1>14. ASSUME batch[r].quiet PROVE StoredIt(r)'
  <2>1. written = batch[r].doc
    BY <1>1, <1>6, <1>14, QuietWrites
  <2>2. batch[r].id = NewRow => Bibliography!Holders(r) = {} /\ Old(r)[i] = NoResource
    BY <1>1, <1>3, <1>5, <1>12, <1>14
       DEF RequestKnows, Seen, Bibliography!View, Bibliography!Under, NoResource
  <2>3. batch[r].id # NewRow => i \in Bibliography!Holders(r)
    BY <1>1, <1>3, <1>5, <1>14 DEF RequestKnows
  <2>. QED
    BY <1>5, <1>10, <1>11, <1>12, <1>13, <2>1, <2>2, <2>3 DEF StoredIt
<1>15. RequestKnows(r)'
  BY <1>3, <1>10, <1>11, <1>14 DEF RequestKnows
<1>16. DocsInv' /\ \A s \in Callers \ {r} : batch'[s] = batch[s]
  BY <1>1, <1>8, <1>10, <1>15, OneBatchSteps
<1>. QED
  BY <1>10, <1>11, <1>16, NothingSaid

(* The document is stored as it was written.                               *)
LEMMA RelateStep ==
    ASSUME DocsInv, NEW r \in Callers, Bibliography!Relate(r)
    PROVE  DocsInv' /\ Bibliography!ReingestsUpdate
<1> DEFINE mine == batch[r].mine
           what == IF batch[r].id = NewRow THEN "created" ELSE "updated"
<1>1. /\ batch[r].at = "relating" /\ resource' = resource
      /\ batch' = Bibliography!Settled(r, mine, what)
  BY DEF Bibliography!Relate, NewRow
<1>2. mine \in [ResourceIds -> Bibliography!Rows] /\ RequestKnows(r)
  BY DocsTyped DEF BatchRecords, DocsInv
<1>3. /\ what \in {"created", "updated"}
      /\ batch[r].id = NewRow <=> what = "created"
  OBVIOUS
<1>4. ASSUME batch[r].quiet, batch'[r].result = what, batch'[r].mine = mine
      PROVE  Bibliography!IsUpdate(r)
  <2>1. PICK i \in ResourceIds :
            /\ Seen(r) = [Old(r) EXCEPT ![i] = batch[r].doc]
            /\ batch[r].id = NewRow => Bibliography!Holders(r) = {} /\ Old(r)[i] = NoResource
            /\ batch[r].id # NewRow => i \in Bibliography!Holders(r)
    BY <1>1, <1>2, <1>4 DEF RequestKnows, StoredIt
  <2>2. Bibliography!View(r)' = Seen(r)
    BY <1>1, <1>4 DEF Seen, Bibliography!View, Bibliography!Under
  <2>3. Bibliography!View(r)' = [Bibliography!Before(r) EXCEPT ![i] = batch[r].doc]
    BY <2>1, <2>2 DEF Old
  <2> HIDE DEF what
  <2>. QED
    BY <1>3, <1>4, <2>1, <2>3 DEF Bibliography!IsUpdate, Old, NoResource
<1>5. what \in {"created", "updated", "failed"} /\ what # "failed"
  BY <1>3
<1> HIDE DEF mine, what
<1>. QED
  BY <1>1, <1>2, <1>4, <1>5, SettledStep

LEMMA CrashStep ==
    ASSUME DocsInv, NEW r \in Callers, Bibliography!Crash(r)
    PROVE  DocsInv' /\ Bibliography!ReingestsUpdate
<1>1. batch' = [batch EXCEPT ![r] = Bibliography!Idle] /\ resource' = resource
  BY DEF Bibliography!Crash
<1>2. Bibliography!Idle \in BatchRecords
  BY ResourcesAre, DocumentsAssumption
     DEF BatchRecords, Bibliography!Idle, Bibliography!Nothing, NewRow, NoResource
<1>3. batch'[r] = Bibliography!Idle
  BY <1>1, DocsTyped
<1>4. RequestKnows(r)' /\ batch'[r].result = "none"
  BY <1>3 DEF RequestKnows, Bibliography!Idle
<1>5. DocsInv' /\ \A s \in Callers \ {r} : batch'[s] = batch[s]
  BY <1>1, <1>2, <1>4, OneBatchSteps
<1>. QED
  BY <1>4, <1>5, NothingSaid

(* A commit overtakes the other requests, unless it changes nothing.       *)
LEMMA CommitStep ==
    ASSUME DocsInv, NEW r \in Callers, Bibliography!Commit(r)
    PROVE  DocsInv' /\ Bibliography!ReingestsUpdate
<1> DEFINE empty == (batch[r].mine = Bibliography!Nothing)
           overtaken(s) == [batch[s] EXCEPT !.quiet = @ /\ empty]
<1>1. /\ resource' = Seen(r)
      /\ batch' = [s \in Callers |-> IF s = r THEN Bibliography!Idle ELSE overtaken(s)]
  BY DEF Bibliography!Commit, Seen
<1>2. ASSUME NEW s \in Callers
      PROVE  /\ overtaken(s) \in BatchRecords /\ overtaken(s).at = batch[s].at
             /\ overtaken(s).doc = batch[s].doc /\ overtaken(s).id = batch[s].id
             /\ overtaken(s).loaded = batch[s].loaded /\ overtaken(s).mine = batch[s].mine
             /\ overtaken(s).savepoint = batch[s].savepoint
             /\ overtaken(s).result = batch[s].result
             /\ overtaken(s).quiet <=> batch[s].quiet /\ empty
  <2> DEFINE quiet == batch[s].quiet /\ empty
  <2>1. batch[s] \in BatchRecords
    BY DocsTyped
  <2>2. overtaken(s) = [batch[s] EXCEPT !.quiet = quiet]
    BY <2>1 DEF BatchRecords
  <2>3. quiet \in BOOLEAN /\ (quiet <=> batch[s].quiet /\ empty)
    OBVIOUS
  <2> HIDE DEF quiet, empty
  <2>. QED
    BY <2>1, <2>2, <2>3 DEF BatchRecords
<1>3. Bibliography!Idle \in BatchRecords
  BY ResourcesAre, DocumentsAssumption
     DEF BatchRecords, Bibliography!Idle, Bibliography!Nothing, NewRow, NoResource
<1>4. /\ resource' \in [ResourceIds -> Bibliography!Rows]
      /\ \A i \in ResourceIds : resource[i] # NoResource => resource'[i] # NoResource
  BY <1>1, DocsTyped DEF Seen, Bibliography!View, Bibliography!Under, NoResource
<1>5. empty => resource' = resource
  <2>1. ASSUME empty, NEW i \in ResourceIds PROVE resource'[i] = resource[i]
    BY <1>1, <2>1 DEF Seen, Bibliography!View, Bibliography!Under, Bibliography!Nothing
  <2>. QED
    BY <1>4, <2>1, DocsTyped
<1> HIDE DEF overtaken, empty
<1>6. Bibliography!TypeOK'
  <2>1. batch' \in [Callers -> BatchRecords]
    BY <1>1, <1>2, <1>3
  <2>. QED
    BY <1>4, <2>1 DEF Bibliography!TypeOK, BatchRecords, NewRow
<1>7. ASSUME NEW s \in Callers, s # r PROVE RequestKnows(s)'
  <2>1. batch'[s] = overtaken(s) /\ batch[s] \in BatchRecords
    BY <1>1, <1>7, DocsTyped
  <2>2. \A i \in ResourceIds : Seen(s)[i] # NoResource => Seen(s)'[i] # NoResource
    BY <1>2, <1>4, <2>1 DEF Seen, Bibliography!View, Bibliography!Under, NoResource
  <2>3. ASSUME empty
        PROVE  /\ Seen(s)' = Seen(s) /\ Old(s)' = Old(s)
               /\ Bibliography!Holders(s)' = Bibliography!Holders(s)
    BY <1>2, <1>5, <2>1, <2>3, SeesTheSame
  <2>4. RequestKnows(s)
    BY DEF DocsInv
  <2>5. batch[s].at \in {"loading", "writing"} /\ batch[s].id # NewRow =>
            Seen(s)'[batch[s].id] # NoResource
    BY <2>1, <2>2, <2>4 DEF RequestKnows, BatchRecords
  <2>6. CASE empty
    BY <1>2, <2>1, <2>3, <2>4, <2>6 DEF RequestKnows, StoredIt
  <2>7. CASE ~empty
    BY <1>2, <2>1, <2>4, <2>5, <2>7 DEF RequestKnows
  <2>. QED
    BY <2>6, <2>7
<1>8. RequestKnows(r)' /\ batch'[r].result = "none"
  BY <1>1 DEF RequestKnows, Bibliography!Idle
<1>9. DocsInv'
  BY <1>6, <1>7, <1>8 DEF DocsInv
<1>10. \A s \in Callers \ {r} : batch'[s].result = batch[s].result
  BY <1>1, <1>2
<1>. QED
  BY <1>8, <1>9, <1>10, NothingSaid

LEMMA DocsNext == DocsInv /\ Bibliography!Next => DocsInv' /\ Bibliography!ReingestsUpdate
<1> SUFFICES ASSUME DocsInv, NEW r \in Callers,
                    \/ \E doc \in Docs : Bibliography!Take(r, doc)
                    \/ Bibliography!Resolve(r) \/ Bibliography!Load(r)
                    \/ Bibliography!Write(r) \/ Bibliography!Relate(r) \/ Bibliography!Fail(r)
                    \/ Bibliography!Commit(r) \/ Bibliography!Crash(r)
             PROVE  DocsInv' /\ Bibliography!ReingestsUpdate
  BY DEF Bibliography!Next
<1>. QED
  BY TakeStep, ResolveStep, LoadStep, WriteStep, RelateStep, FailWriteStep, CommitStep, CrashStep

LEMMA DocsStutter == DocsInv /\ UNCHANGED Bibliography!vars => DocsInv'
<1> SUFFICES ASSUME DocsInv, UNCHANGED <<resource, batch>> PROVE DocsInv'
  BY DEF Bibliography!vars
<1>1. Bibliography!TypeOK'
  BY DEF DocsInv, Bibliography!TypeOK
<1>2. ASSUME NEW r \in Callers PROVE RequestKnows(r)'
  <2>1. /\ Seen(r)' = Seen(r) /\ Old(r)' = Old(r)
        /\ Bibliography!Holders(r)' = Bibliography!Holders(r)
    BY SeesTheSame
  <2>. QED
    BY <2>1 DEF DocsInv, RequestKnows, StoredIt
<1>. QED
  BY <1>1, <1>2 DEF DocsInv

(* The bibliography keeps its invariant, for any documents and requests:   *)
(* a request that no commit overtook knows which row its document is to    *)
(* update, or that there is none, and has stored it there and nowhere else *)
(* when its contributors and relations follow (upsert_document).           *)
THEOREM DocsAreSound == Bibliography!Spec => []DocsInv
<1>1. DocsInv /\ [Bibliography!Next]_Bibliography!vars => DocsInv'
  BY DocsNext, DocsStutter
<1>. QED
  BY <1>1, DocsInit, PTL DEF Bibliography!Spec


-----------------------------------------------------------------------------
(* The stores side by side.                                                *)

(* A behaviour is one of its part: the part does not change, and a step of *)
(* the stores is a step of it, or leaves its variables as they are.        *)
LEMMA PartsStart ==
    ASSUME StoresInit
    PROVE  /\ Init
           /\ IsPart("fetch") => Walking!Init
           /\ IsPart("links") => Links!Init
           /\ IsPart("pages") => Paging!Init
           /\ IsPart("authors") => Crediting!Init
           /\ IsPart("keys") => Signing!Init
           /\ IsPart("index") => Indexing!Init
           /\ IsPart("documents") => Bibliography!Init
BY DEF StoresInit

LEMMA PartsStep ==
    ASSUME [StoresNext]_storesVars
    PROVE  /\ part' = part
           /\ [Next]_vars
           /\ IsPart("fetch") => [Walking!Next]_Walking!vars
           /\ IsPart("links") => [Links!Next]_Links!vars
           /\ IsPart("pages") => [Paging!Next]_Paging!vars
           /\ IsPart("authors") => [Crediting!Next]_Crediting!vars
           /\ IsPart("keys") => [Signing!Next]_Signing!vars
           /\ IsPart("index") => [Indexing!Next]_Indexing!vars
           /\ IsPart("documents") => [Bibliography!Next]_Bibliography!vars
<1>1. part' = part
  BY DEF StoresNext, storesVars
<1>2. IsPart("fetch") => [Walking!Next]_Walking!vars
  BY DEF StoresNext, storesVars, fetchVars, Walking!vars, IsPart
<1>3. IsPart("authors") => [Crediting!Next]_Crediting!vars
  BY DEF StoresNext, storesVars, authorVars, Crediting!vars, IsPart
<1>4. IsPart("keys") => [Signing!Next]_Signing!vars
  BY DEF StoresNext, storesVars, keyVars, Signing!vars, IsPart
<1>5. IsPart("index") => [Indexing!Next]_Indexing!vars
  BY DEF StoresNext, storesVars, indexVars, Indexing!vars, IsPart
<1>6. IsPart("documents") => [Bibliography!Next]_Bibliography!vars
  BY DEF StoresNext, storesVars, docVars, Bibliography!vars, IsPart
<1>7. IsPart("links") => [Links!Next]_Links!vars
  BY DEF StoresNext, storesVars, linkVars, Links!vars, IsPart
<1>8. IsPart("pages") => [Paging!Next]_Paging!vars
  BY DEF StoresNext, storesVars, pageVars, Paging!vars, IsPart
<1>9. [Next]_vars
  BY DEF StoresNext, storesVars
<1>. QED
  BY <1>1, <1>2, <1>3, <1>4, <1>5, <1>6, <1>7, <1>8, <1>9

\* Each part keeps its own invariant.
StoresInv ==
    /\ IInv /\ AgesAreKnown
    /\ IsPart("fetch") => FetchInv
    /\ IsPart("links") => LinksInv
    /\ IsPart("pages") => PagesInv
    /\ IsPart("authors") => AuthorsInv
    /\ IsPart("keys") => KeysInv
    /\ IsPart("index") => IndexInv
    /\ IsPart("documents") => DocsInv

LEMMA StoresInvInit == StoresInit => StoresInv
BY PartsStart, InitInvariant, InitKnown, FetchInit, LinksInit, PagesInit, AuthorsInit,
   KeysInit, IndexInit, DocsInit DEF StoresInv

LEMMA StoresInvNext == StoresInv /\ [StoresNext]_storesVars => StoresInv'
<1> SUFFICES ASSUME StoresInv, [StoresNext]_storesVars PROVE StoresInv'
  OBVIOUS
<1>1. (IsPart("fetch") => FetchInv)'
  BY PartsStep, FetchNext DEF StoresInv, IsPart
<1>2. (IsPart("authors") => AuthorsInv)'
  BY PartsStep, AuthorsNext, AuthorsStutter DEF StoresInv, IsPart
<1>3. (IsPart("keys") => KeysInv)'
  BY PartsStep, KeysNext DEF StoresInv, IsPart
<1>4. (IsPart("index") => IndexInv)'
  BY PartsStep, IndexNext DEF StoresInv, IsPart
<1>5. (IsPart("documents") => DocsInv)'
  BY PartsStep, DocsNext, DocsStutter DEF StoresInv, IsPart
<1>6. (IsPart("links") => LinksInv)'
  BY PartsStep, LinksNext DEF StoresInv, IsPart
<1>7. (IsPart("pages") => PagesInv)'
  BY PartsStep, PagesNext DEF StoresInv, IsPart
<1>8. IInv' /\ AgesAreKnown'
  BY PartsStep, StepKeeps, AgesStayKnown DEF StoresInv
<1>. QED
  BY <1>1, <1>2, <1>3, <1>4, <1>5, <1>6, <1>7, <1>8 DEF StoresInv

(* Whichever part a behaviour is of, the part keeps its invariant.         *)
THEOREM StoresAreSound == StoresSpec => []StoresInv
BY StoresInvInit, StoresInvNext, PTL DEF StoresSpec

(* The cache side by side with the other stores is the cache on its own:   *)
(* what InventoryCache_proofs shows of it holds here (IntersphinxCache-    *)
(* Service, which shares no table with them).                              *)
THEOREM CacheStaysItself == StoresSpec => Spec
<1>1. StoresInit => Init
  BY PartsStart
<1>2. [StoresNext]_storesVars => [Next]_vars
  BY PartsStep
<1>. QED
  BY <1>1, <1>2, PTL DEF StoresSpec, Spec

(* Every variable of the stores has its type, whichever part it is of.     *)
THEOREM StoresAreTyped == StoresSpec => []StoresTypeOK
<1>1. StoresInv => TypeOK
  BY InvariantsAreTyped DEF StoresInv
<1>2. StoresInv => /\ IsPart("fetch") => Walking!TypeOK
                   /\ IsPart("authors") => Crediting!TypeOK
                   /\ IsPart("keys") => Signing!TypeOK
                   /\ IsPart("index") => Indexing!TypeOK
                   /\ IsPart("documents") => Bibliography!TypeOK
  BY DEF StoresInv, FetchInv, AuthorsInv, KeysInv, IndexInv, DocsInv
<1>3. StoresInv => /\ IsPart("links") => Links!TypeOK
                   /\ IsPart("pages") => Paging!TypeOK
  BY LinksAreWhole, PagesAreWhole DEF StoresInv
<1>4. StoresInv => StoresTypeOK
  BY <1>1, <1>2, <1>3 DEF StoresTypeOK
<1>. QED
  BY <1>4, StoresAreSound, PTL

(* A client that follows the next cursors sees every entry that stays in   *)
(* its place exactly once, and can go back to the page it came from, over  *)
(* pages of any size of a listing that others write to; except that of a   *)
(* listing of SDM columns this is only so while no two of those it lists   *)
(* have one index (the cursors of linkstore.py, of the authors, an         *)
(* origin's links, the resources).                                         *)
THEOREM PagesStayWhole == StoresSpec => []PagesShowWhatStays
<1>1. StoresInv => PagesShowWhatStays
  BY LinksAreWhole, PagesAreWhole DEF StoresInv, PagesShowWhatStays
<1>. QED
  BY <1>1, StoresAreSound, PTL

(* No 304 vouches for other bytes: a copy that is marked as fresh is what  *)
(* the end of its chain of redirects served when it was marked, for any    *)
(* ETags, shared between pages or not; except for a copy that was fetched  *)
(* without a redirect and has been confirmed at the end of one since,      *)
(* whose ETag is of another page than the one it is asked of               *)
(* (_fetch_inventory, _revalidate).                                        *)
THEOREM StoredIsWhatWasServed == StoresSpec => []StoredIsServed
<1>1. StoresInv => StoredIsServed
  BY DEF StoresInv, StoredIsServed, FetchInv
<1>. QED
  BY <1>1, StoresAreSound, PTL

(* No socket of the guarded client is open to an address that the guard    *)
(* refused, whatever a name resolves to meanwhile (_guard_url, pinned_to). *)
THEOREM SocketsStayGuarded == StoresSpec => []SocketsAreGuarded
<1>1. StoresInv => SocketsAreGuarded
  BY DEF StoresInv, SocketsAreGuarded, FetchInv
<1>. QED
  BY <1>1, StoresAreSound, PTL

(* A rotation of the issuer's keys rejects no token whose key is published *)
(* but inside the window of an earlier refetch or when the fetch fails     *)
(* (verify, _refresh_jwks).                                                *)
THEOREM RotationStaysInvisible == StoresSpec => []RotationIsInvisible
<1>1. KeysInv => Signing!RotationIsInvisible
  BY DEF KeysInv, RequestIsSound, Signing!RotationIsInvisible
<1>2. StoresInv => RotationIsInvisible
  BY <1>1 DEF StoresInv, RotationIsInvisible
<1>. QED
  BY <1>2, StoresAreSound, PTL

(* Once the index's queue is empty, a search finds what the last ingest of *)
(* a document saved, and after a whole deletion nothing else               *)
(* (replace_records).                                                      *)
THEOREM SearchStaysLatest == StoresSpec => []SearchFindsTheLatest
<1>1. StoresInv => SearchFindsTheLatest
  BY IndexFindsLatest DEF StoresInv, SearchFindsTheLatest
<1>. QED
  BY <1>1, StoresAreSound, PTL

(* Merging authors by their aliases, or renaming one by an ingest, loses   *)
(* no name and no credit (create_author_alias, upsert_authors).            *)
THEOREM MergesKeepEverything == StoresSpec => MergesLoseNothing
<1>1. StoresInv /\ [StoresNext]_storesVars
      => [IsPart("authors") => Crediting!LosesNothing]_<<part, ingest, authorVars>>
  <2> SUFFICES ASSUME StoresInv, [StoresNext]_storesVars, IsPart("authors"),
                      ~UNCHANGED <<part, ingest, authorVars>>
               PROVE  Crediting!LosesNothing
    OBVIOUS
  <2>1. Crediting!Next
    BY PartsStep DEF Crediting!vars, authorVars
  <2>. QED
    BY <2>1, AuthorsNext DEF StoresInv
<1>. QED
  BY <1>1, StoresAreSound, PTL DEF StoresSpec, MergesLoseNothing

(* A document that no commit overtakes updates the row with which it       *)
(* shares a key, and no other, or is created if it shares none; or it      *)
(* fails, because its keys are those of two rows, because it waits for     *)
(* another request and a deadlock is broken, or because what goes with it  *)
(* is refused.  A document that fails, overtaken or not, leaves no trace:  *)
(* the row it has written is rolled back to the savepoint                  *)
(* (upsert_document, post_ingest_documents).                               *)
THEOREM ReingestStaysUpdate == StoresSpec => ReingestIsUpdate
<1>1. StoresInv /\ [StoresNext]_storesVars
      => [IsPart("documents") => Bibliography!ReingestsUpdate]_<<part, docVars>>
  <2> SUFFICES ASSUME StoresInv, [StoresNext]_storesVars, IsPart("documents"),
                      ~UNCHANGED <<part, docVars>>
               PROVE  Bibliography!ReingestsUpdate
    OBVIOUS
  <2>1. Bibliography!Next
    BY PartsStep DEF Bibliography!vars, docVars
  <2>. QED
    BY <2>1, DocsNext DEF StoresInv
<1>. QED
  BY <1>1, StoresAreSound, PTL DEF StoresSpec, ReingestIsUpdate
=============================================================================
