-------------------------- MODULE SourceIngest_proofs --------------------------
(***************************************************************************)
(* Proofs about the registry and the ingest, for any sources, sites and    *)
(* concurrent runs: no link outlives its registration, a skipped site is   *)
(* stored as its digest says, and no commit leaves the graph unconverged.  *)
(*                                                                         *)
(* The argument is that the two locks keep true what their holders have    *)
(* read: who holds a registration row writes links under the URL and the   *)
(* title it still has, and who holds the entity graph applies the very     *)
(* change it would compute from the graph at its commit.                   *)
(***************************************************************************)
EXTENDS SourceIngest, FiniteSetTheorems, TLAPS

-----------------------------------------------------------------------------
(* The inductive invariant *)

Changes ==
    [ source : Sources \cup {NoSource}, new : SUBSET Links,
      nested : SUBSET Names, orphans : SUBSET Names ]

Patches ==
    [ loaded : Rows, to : [url : Urls, title : Titles, enabled : BOOLEAN] ]

Phases == {"fetching", "failed", "lock", "refused", "graph", "writing", "patching"}

Listed == [id : Sources, url : Urls]

Tasks ==
    [ op : Ops, at : Phases, todo : Seq(Listed), replaced : BOOLEAN,
      id : Sources \cup {NoSource}, url : Urls \cup {Null}, title : Titles \cup {Null},
      bytes : Bytes \cup {Null}, same : BOOLEAN, change : Changes \cup Patches \cup {Null} ]

IsIngest(t) == t.op \in {"sweep", "trigger"}

(* What each operation works on, by where it is. *)
TaskIsSound(t) ==
    /\ t \in Tasks
    /\ t.at \in {"fetching", "failed", "lock", "refused"} =>
        IsIngest(t) /\ t.id \in Sources /\ t.url \in Urls
    /\ t.at \in {"lock", "refused"} => t.bytes \in Bytes
    /\ t.at \in {"graph", "writing"} =>
        \/ t.op = "converge" /\ t.id = NoSource
        \/ t.op = "delete" /\ t.id \in Sources
        \/ /\ IsIngest(t) /\ t.id \in Sources /\ t.url \in Urls
           /\ t.title \in Titles /\ t.bytes \in Contents
    /\ t.at = "patching" => t.op = "patch" /\ t.id \in Sources /\ t.change \in Patches

(* The row an ingest holds still has the URL and the title it read. *)
RowIsHeld(t) ==
    t.at \in {"graph", "writing"} /\ IsIngest(t) =>
        /\ Registered(t.id)
        /\ source[t.id].url = t.url
        /\ source[t.id].title = t.title

(* The change of the graph's holder is the one the graph calls for.        *)
ChangeIsCurrent(t) == t.at = "writing" => t.change = ChangeOf(t)

SweepHasConverged(t) == t.op = "sweep" /\ t.replaced => Converged

RunIsSound(t) ==
    TaskIsSound(t) /\ RowIsHeld(t) /\ ChangeIsCurrent(t) /\ SweepHasConverged(t)

IngestInv ==
    /\ TypeOK
    /\ worker \in [Workers -> Tasks \cup {Idle}]
    /\ \A w \in Workers : worker[w] = Idle \/ RunIsSound(worker[w])
    /\ NamesOf(links) \subseteq entities
    /\ DeregisteredIsGone

-----------------------------------------------------------------------------
(* The entity graph *)

(* Whoever commits the change the graph calls for leaves it converged, and *)
(* takes links of no source but its own.                                   *)
LEMMA ApplyConverges ==
    ASSUME NamesOf(links) \subseteq entities, NEW s, NEW new, Apply(Change(s, new))
    PROVE  /\ links' = {l \in links : l.source # s} \cup new
           /\ entities' = NamesOf(links')
           /\ Converged'
<1> DEFINE L == {l \in links : l.source # s} \cup new
           E == entities \cup NamesOf(new)
           change == Change(s, new)
<1>1. /\ change.source = s /\ change.new = new
      /\ change.nested = NestedBy(L, E) /\ change.orphans = Orphans(L, E)
  BY DEF Change
<1>2. /\ links' = {l \in L : l.name \notin change.orphans}
      /\ entities' = E \ change.orphans
      /\ nested' = change.nested \ change.orphans
  BY <1>1 DEF Apply
<1> HIDE DEF change
<1>3. NamesOf(L) \subseteq E
  BY DEF NamesOf
<1>4. \A l \in L : l.name \in NamesOf(L)
  BY DEF NamesOf
<1> HIDE DEF L, E
<1>5. links' = L
  BY <1>1, <1>2, <1>4 DEF Orphans
<1>6. entities' = NamesOf(L)
  BY <1>1, <1>2, <1>3 DEF Orphans
<1>7. nested' = NestedBy(L, NamesOf(L))
  BY <1>1, <1>2, <1>3 DEF Orphans, NestedBy
<1>8. NamesOf(links') = NamesOf(L) /\ NamesOf(links)' = NamesOf(L)
  BY <1>5 DEF NamesOf
<1>9. NestedBy(links, entities)' = NestedBy(L, NamesOf(L))
  BY <1>5, <1>6 DEF NestedBy, NamesOf
<1>. QED
  BY <1>5, <1>6, <1>7, <1>8, <1>9 DEF Converged, L

LEMMA ChangeType ==
    ASSUME TypeOK, NEW s \in Sources \cup {NoSource}, NEW new \in SUBSET Links
    PROVE  Change(s, new) \in Changes
<1> DEFINE L == {l \in links : l.source # s} \cup new
           E == entities \cup NamesOf(new)
<1>1. E \subseteq Names
  BY DEF TypeOK, NamesOf, Links
<1>2. NestedBy(L, E) \in SUBSET Names /\ Orphans(L, E) \in SUBSET Names
  BY <1>1 DEF NestedBy, Orphans
<1>3. Change(s, new) = [source |-> s, new |-> new, nested |-> NestedBy(L, E),
                        orphans |-> Orphans(L, E)]
  BY DEF Change
<1> HIDE DEF L, E
<1>. QED
  BY <1>2, <1>3 DEF Changes

-----------------------------------------------------------------------------
(* Tasks *)

LEMMA IdleIs == Idle.at = "idle" /\ Idle \notin Tasks /\ \A t \in Tasks : t # Idle
BY DEF Idle, Tasks, Phases

LEMMA TaskIs ==
    ASSUME NEW op \in Ops, NEW at \in Phases, NEW s \in Sources \cup {NoSource},
           NEW url \in Urls \cup {Null}
    PROVE  /\ Task(op, at, s, url) \in Tasks
           /\ Task(op, at, s, url).op = op /\ Task(op, at, s, url).at = at
           /\ Task(op, at, s, url).id = s /\ Task(op, at, s, url).url = url
           /\ Task(op, at, s, url).todo = << >> /\ ~Task(op, at, s, url).replaced
BY DEF Task, Tasks

LEMMA FirstOfMany ==
    ASSUME NEW S, NEW q \in Seq(S), q # << >>
    PROVE  Head(q) \in S /\ Tail(q) \in Seq(S)
OBVIOUS

(* A task that turns leaves no trace of the source it is done with. *)
LEMMA TurnIs ==
    ASSUME NEW t, t.op \in Ops, t.todo \in Seq(Listed), t.replaced \in BOOLEAN
    PROVE  \/ Turn(t) = Idle /\ (t.op = "sweep" => t.replaced)
           \/ /\ Turn(t) \in Tasks /\ Turn(t).op = "sweep" /\ Turn(t).at = "fetching"
              /\ Turn(t).id \in Sources /\ Turn(t).url \in Urls
              /\ Turn(t).replaced = t.replaced /\ t.op = "sweep"
           \/ /\ Turn(t) \in Tasks /\ Turn(t).op = "converge" /\ Turn(t).at = "graph"
              /\ Turn(t).id = NoSource /\ ~Turn(t).replaced
<1>1. CASE t.op # "sweep"
  BY <1>1 DEF Turn
<1>2. CASE t.op = "sweep" /\ t.todo # << >>
  <2> DEFINE first == Task("sweep", "fetching", Head(t.todo).id, Head(t.todo).url)
  <2>1. Head(t.todo) \in Listed /\ Tail(t.todo) \in Seq(Listed)
    BY <1>2, FirstOfMany
  <2>2. /\ first \in Tasks /\ first.op = "sweep" /\ first.at = "fetching"
        /\ first.id = Head(t.todo).id /\ first.url = Head(t.todo).url
    BY <2>1, TaskIs DEF Listed, Ops, Phases
  <2>3. Turn(t) = [first EXCEPT !.todo = Tail(t.todo), !.replaced = t.replaced]
    BY <1>2 DEF Turn
  <2> HIDE DEF first
  <2>. QED
    BY <1>2, <2>1, <2>2, <2>3 DEF Tasks, Listed
<1>3. CASE t.op = "sweep" /\ t.todo = << >>
  <2>1. Turn(t) = IF t.replaced THEN Idle ELSE Task("converge", "graph", NoSource, Null)
    BY <1>3 DEF Turn
  <2>. QED
    BY <1>3, <2>1, TaskIs DEF Ops, Phases
<1>. QED
  BY <1>1, <1>2, <1>3

LEMMA SetToSeqIs ==
    ASSUME NEW S, IsFiniteSet(S)
    PROVE  SetToSeq(S) \in Seq(S)
<1> DEFINE n == Cardinality(S)
<1>1. n \in Nat /\ ExistsBijection(1..n, S)
  BY FS_CardinalityType
<1>2. \E f \in [1..n -> S] : IsInjective(f)
  BY <1>1 DEF ExistsBijection, Bijection, Injection
<1>3. SetToSeq(S) \in [1..n -> S]
  BY <1>2, Zenon DEF SetToSeq
<1> HIDE DEF n
<1>. QED
  BY <1>1, <1>3

(* A sweep's list of the enabled sources. *)
LEMMA ListIs ==
    ASSUME TypeOK
    PROVE  SetToSeq({[id |-> s, url |-> source[s].url] :
                        s \in {v \in Sources : Registered(v) /\ source[v].enabled}})
                \in Seq(Listed)
<1> DEFINE S == {v \in Sources : Registered(v) /\ source[v].enabled}
           R == {[id |-> s, url |-> source[s].url] : s \in S}
           f == [s \in S |-> [id |-> s, url |-> source[s].url]]
<1>1. R \subseteq Listed
  BY DEF TypeOK, Rows, Unused, Deleted, Registered, Listed
<1>2. IsFiniteSet(R)
  <2>1. IsFiniteSet(S)
    BY IngestAssumption, FS_Subset
  <2>2. f \in Surjection(S, R)
    BY DEF Surjection
  <2> HIDE DEF S, R, f
  <2>. QED
    BY <2>1, <2>2, FS_Surjection
<1> HIDE DEF R
<1>3. SetToSeq(R) \in Seq(R)
  BY <1>2, SetToSeqIs
<1>4. SetToSeq(R) \in Seq(Listed)
  BY <1>1, <1>3
<1>. QED
  BY <1>4 DEF R

-----------------------------------------------------------------------------
(* Steps *)

SameTask(t, u) ==
    /\ u.op = t.op /\ u.at = t.at /\ u.todo = t.todo /\ u.replaced = t.replaced
    /\ u.id = t.id /\ u.url = t.url /\ u.title = t.title /\ u.bytes = t.bytes
    /\ u.change = t.change

(* A run that another one's step leaves where it was. *)
Alike(v) ==
    \/ worker[v] = Idle /\ worker'[v] = Idle
    \/ worker[v] \in Tasks /\ worker'[v] \in Tasks /\ SameTask(worker[v], worker'[v])

Sound(t) == t = Idle \/ RunIsSound(t)

LocksAreHeld ==
    /\ graph \in Workers \cup {Free}
    /\ registration \in [Sources -> Workers \cup {Free}]
    /\ \A w \in Workers : graph = w <=> At(w, "writing")
    /\ \A s \in Sources, w \in Workers :
        registration[s] = w
            <=> /\ At(w, "graph") \/ At(w, "writing")
                /\ worker[w].id = s

(* A run that holds neither lock. *)
EmptyHanded(t) ==
    t.at \notin {"graph", "writing"} \/ (t.at = "graph" /\ t.id = NoSource)

LEMMA StepMoves ==
    ASSUME IngestInv, NEW w \in Workers, NEW t \in Tasks \cup {Idle},
           Step(w, t) \/ \E s : StampStep(w, s, t)
    PROVE  /\ worker' \in [Workers -> Tasks \cup {Idle}]
           /\ worker'[w] = t
           /\ \A v \in Workers : v # w => Alike(v)
<1>1. worker \in [Workers -> Tasks \cup {Idle}]
  BY DEF IngestInv
<1>2. CASE Step(w, t)
  BY <1>1, <1>2 DEF Step, Alike, SameTask
<1>3. ASSUME NEW s, StampStep(w, s, t)
      PROVE  /\ worker' \in [Workers -> Tasks \cup {Idle}]
             /\ worker'[w] = t
             /\ \A v \in Workers : v # w => Alike(v)
  <2>1. worker' = [v \in Workers |->
            IF v = w THEN t
            ELSE IF worker[v] # Idle /\ worker[v].id = s
            THEN [worker[v] EXCEPT !.same = FALSE] ELSE worker[v]]
    BY <1>3 DEF StampStep
  <2>2. ASSUME NEW u \in Tasks
        PROVE  [u EXCEPT !.same = FALSE] \in Tasks /\ SameTask(u, [u EXCEPT !.same = FALSE])
    BY DEF Tasks, SameTask
  <2>3. ASSUME NEW v \in Workers, v # w
        PROVE  Alike(v)
    <3>1. CASE worker[v] = Idle
      BY <2>1, <2>3, <3>1 DEF Alike
    <3>2. CASE worker[v] \in Tasks
      BY <2>1, <2>2, <2>3, <3>2 DEF Alike, SameTask
    <3>. QED
      BY <1>1, <3>1, <3>2
  <2>4. worker'[w] = t /\ worker' \in [Workers -> Tasks \cup {Idle}]
    BY <1>1, <2>1, <2>2
  <2>. QED
    BY <2>3, <2>4
<1>. QED
  BY <1>2, <1>3

LEMMA AlikeHolds ==
    ASSUME NEW v \in Workers, Alike(v)
    PROVE  /\ \A p \in Phases : At(v, p)' <=> At(v, p)
           /\ \A p \in Phases : At(v, p) => worker'[v].id = worker[v].id
BY IdleIs DEF Alike, At, SameTask

LEMMA LocksRest ==
    ASSUME IngestInv, UNCHANGED locks,
           \A v \in Workers :
                Alike(v) \/ (EmptyHanded(worker[v]) /\ EmptyHanded(worker'[v]))
    PROVE  LocksAreHeld'
<1>1. LocksAreHeld /\ NoSource \notin Sources /\ UNCHANGED <<graph, registration>>
  BY IngestAssumption DEF IngestInv, TypeOK, LocksAreHeld, locks
<1>2. ASSUME NEW v \in Workers
      PROVE  /\ At(v, "writing")' <=> At(v, "writing")
             /\ \A s \in Sources :
                    (At(v, "graph") \/ At(v, "writing")) /\ worker[v].id = s
                <=> ((At(v, "graph") \/ At(v, "writing")) /\ worker[v].id = s)'
  <2>1. CASE Alike(v)
    BY <2>1, AlikeHolds DEF Phases
  <2>2. CASE EmptyHanded(worker[v]) /\ EmptyHanded(worker'[v])
    BY <1>1, <2>2 DEF EmptyHanded, At
  <2>. QED
    BY <2>1, <2>2
<1>. QED
  BY <1>1, <1>2 DEF LocksAreHeld

LEMMA LocksReleased ==
    ASSUME IngestInv, NEW w \in Workers, Release(w), EmptyHanded(worker'[w]),
           \A v \in Workers : v # w => Alike(v)
    PROVE  LocksAreHeld'
<1>1. LocksAreHeld /\ NoSource \notin Sources /\ Free \notin Workers
  BY IngestAssumption DEF IngestInv, TypeOK, LocksAreHeld
<1>2. /\ registration' = [s \in Sources |-> IF registration[s] = w THEN Free ELSE registration[s]]
      /\ graph' = IF graph = w THEN Free ELSE graph
  BY DEF Release
<1>3. ASSUME NEW v \in Workers
      PROVE  /\ graph' = v <=> At(v, "writing")'
             /\ \A s \in Sources :
                    registration'[s] = v
                <=> ((At(v, "graph") \/ At(v, "writing")) /\ worker[v].id = s)'
  <2>1. CASE v = w
    BY <1>1, <1>2, <2>1 DEF EmptyHanded, At
  <2>2. CASE v # w
    BY <1>1, <1>2, <2>2, AlikeHolds DEF LocksAreHeld, Phases
  <2>. QED
    BY <2>1, <2>2
<1>4. graph' \in Workers \cup {Free} /\ registration' \in [Sources -> Workers \cup {Free}]
  BY <1>1, <1>2 DEF LocksAreHeld
<1>. QED
  BY <1>3, <1>4 DEF LocksAreHeld

LEMMA LockTaken ==
    ASSUME IngestInv, NEW w \in Workers, NEW s \in Sources,
           registration[s] = Free, registration' = [registration EXCEPT ![s] = w],
           graph' = graph, EmptyHanded(worker[w]), worker[w].at # "graph",
           worker'[w] \in Tasks, worker'[w].at = "graph", worker'[w].id = s,
           \A v \in Workers : v # w => Alike(v)
    PROVE  LocksAreHeld'
<1>1. LocksAreHeld /\ Free \notin Workers
  BY IngestAssumption DEF IngestInv, TypeOK, LocksAreHeld
<1>2. ~At(w, "graph") /\ ~At(w, "writing") /\ At(w, "graph")' /\ ~At(w, "writing")'
  BY IdleIs DEF At, EmptyHanded
<1>3. ASSUME NEW v \in Workers
      PROVE  /\ graph' = v <=> At(v, "writing")'
             /\ \A r \in Sources :
                    registration'[r] = v
                <=> ((At(v, "graph") \/ At(v, "writing")) /\ worker[v].id = r)'
  <2>1. CASE v = w
    BY <1>1, <1>2, <2>1 DEF LocksAreHeld
  <2>2. CASE v # w
    BY <1>1, <2>2, AlikeHolds DEF LocksAreHeld, Phases
  <2>. QED
    BY <2>1, <2>2
<1>4. graph' \in Workers \cup {Free} /\ registration' \in [Sources -> Workers \cup {Free}]
  BY <1>1 DEF LocksAreHeld
<1>. QED
  BY <1>3, <1>4 DEF LocksAreHeld

LEMMA GraphTaken ==
    ASSUME IngestInv, NEW w \in Workers, GraphIsFree, graph' = w,
           registration' = registration, At(w, "graph"),
           worker'[w] \in Tasks, worker'[w].at = "writing", worker'[w].id = worker[w].id,
           \A v \in Workers : v # w => Alike(v)
    PROVE  LocksAreHeld'
<1>1. LocksAreHeld /\ Free \notin Workers /\ graph = Free
  BY IngestAssumption DEF IngestInv, TypeOK, LocksAreHeld, GraphIsFree
<1>2. At(w, "writing")' /\ ~At(w, "graph")'
  BY IdleIs DEF At
<1>3. ASSUME NEW v \in Workers
      PROVE  /\ graph' = v <=> At(v, "writing")'
             /\ \A r \in Sources :
                    registration'[r] = v
                <=> ((At(v, "graph") \/ At(v, "writing")) /\ worker[v].id = r)'
  <2>1. CASE v = w
    BY <1>1, <1>2, <2>1 DEF LocksAreHeld
  <2>2. CASE v # w
    BY <1>1, <2>2, AlikeHolds DEF LocksAreHeld, Phases
  <2>. QED
    BY <2>1, <2>2
<1>4. graph' \in Workers \cup {Free} /\ registration' \in [Sources -> Workers \cup {Free}]
  BY <1>1 DEF LocksAreHeld
<1>. QED
  BY <1>3, <1>4 DEF LocksAreHeld

-----------------------------------------------------------------------------
(* Steps that leave the entity graph alone *)

(* A row somebody holds keeps its URL and its title. *)
RowsKept ==
    /\ source' \in [Sources -> Rows]
    /\ \A s \in Sources : Registered(s) =>
        /\ source'[s].state = "registered"
        /\ registration[s] # Free =>
            source'[s].url = source[s].url /\ source'[s].title = source[s].title

LEMMA QuietStep ==
    ASSUME IngestInv, UNCHANGED <<links, entities, nested>>,
           published' \in [Urls -> Bytes], cached' \in [Urls -> Bytes \cup {Null}],
           events' \in 0..MaxEvents, RowsKept,
           worker' \in [Workers -> Tasks \cup {Idle}], LocksAreHeld',
           \A v \in Workers : Alike(v) \/ Sound(worker[v])'
    PROVE  IngestInv'
<1>1. TypeOK /\ DeregisteredIsGone /\ NamesOf(links) \subseteq entities
  BY DEF IngestInv
<1>2. NamesOf(links)' = NamesOf(links) /\ (Converged' <=> Converged)
  BY DEF NamesOf, Converged, NestedBy
<1>3. ASSUME NEW t PROVE ChangeOf(t)' = ChangeOf(t)
  BY DEF ChangeOf, Convergence, Change, NestedBy, Orphans, NamesOf, LinksOf
<1>4. ASSUME NEW v \in Workers PROVE Sound(worker[v])'
  <2>1. CASE Sound(worker[v])'
    BY <2>1
  <2>2. CASE worker[v] = Idle /\ worker'[v] = Idle
    BY <2>2 DEF Sound, Idle
  <2>3. ASSUME NEW t \in Tasks, NEW u \in Tasks, t = worker[v], u = worker'[v], SameTask(t, u)
        PROVE  RunIsSound(u)'
    <3>1. RunIsSound(t)
      BY <2>3, IdleIs DEF IngestInv
    <3>2. TaskIsSound(u)
      BY <2>3, <3>1 DEF RunIsSound, TaskIsSound, SameTask, IsIngest
    <3>3. RowIsHeld(u)'
      <4>1. SUFFICES ASSUME u.at \in {"graph", "writing"}, IsIngest(u)
                     PROVE  /\ source'[u.id].state = "registered"
                            /\ source'[u.id].url = u.url
                            /\ source'[u.id].title = u.title
        BY DEF RowIsHeld, IsIngest, Registered
      <4>2. u.id \in Sources /\ registration[u.id] = v
        BY <1>1, <2>3, <3>2, <4>1, IdleIs DEF TaskIsSound, SameTask, TypeOK, At, IsIngest
      <4>3. Registered(t.id) /\ source[t.id].url = t.url /\ source[t.id].title = t.title
        BY <2>3, <3>1, <4>1 DEF RunIsSound, RowIsHeld, SameTask, IsIngest
      <4>. QED
        BY <2>3, <4>2, <4>3, IngestAssumption DEF RowsKept, SameTask
    <3>4. ChangeIsCurrent(u)'
      <4>1. ChangeOf(u) = ChangeOf(t)
        BY <2>3 DEF SameTask, ChangeOf, LinksOf
      <4>. QED
        BY <1>3, <2>3, <3>1, <4>1 DEF RunIsSound, ChangeIsCurrent, SameTask
    <3>5. SweepHasConverged(u)'
      BY <1>2, <2>3, <3>1 DEF RunIsSound, SweepHasConverged, SameTask
    <3>6. TaskIsSound(u)'
      BY <3>2 DEF TaskIsSound, IsIngest
    <3>. QED
      BY <3>3, <3>4, <3>5, <3>6 DEF RunIsSound
  <2>4. CASE worker[v] \in Tasks /\ worker'[v] \in Tasks /\ SameTask(worker[v], worker'[v])
    <3>1. ASSUME NEW u, u = worker'[v] PROVE RunIsSound(u)'
      BY <2>3, <2>4, <3>1
    <3>2. RunIsSound(worker[v])'
      BY <3>1 DEF RunIsSound, TaskIsSound, RowIsHeld, ChangeIsCurrent, SweepHasConverged
    <3>. QED
      BY <3>2 DEF Sound
  <2>. QED
    BY <2>1, <2>2, <2>4 DEF Alike
<1>5. DeregisteredIsGone'
  BY <1>1 DEF DeregisteredIsGone, RowsKept, Registered, TypeOK, Links
<1>6. \A v \in Workers : worker'[v] = Idle \/ worker'[v].op \in Ops
  BY DEF Tasks
<1>7. TypeOK'
  BY <1>1, <1>6 DEF TypeOK, LocksAreHeld, RowsKept, Idle
<1>. QED
  BY <1>1, <1>2, <1>4, <1>5, <1>7 DEF IngestInv, Sound

(* The same, for a run that moves without touching rows or locks. *)
LEMMA RunStep ==
    ASSUME IngestInv, UNCHANGED <<published, database, locks>>,
           cached' \in [Urls -> Bytes \cup {Null}], events' \in 0..MaxEvents,
           NEW w \in Workers, NEW t \in Tasks \cup {Idle}, Step(w, t),
           EmptyHanded(worker[w]), EmptyHanded(t), Sound(t)
    PROVE  IngestInv'
<1>1. /\ worker' \in [Workers -> Tasks \cup {Idle}] /\ worker'[w] = t
      /\ \A v \in Workers : v # w => Alike(v)
  BY StepMoves
<1>2. LocksAreHeld'
  BY <1>1, LocksRest
<1>3. RowsKept /\ UNCHANGED <<links, entities, nested>> /\ published' \in [Urls -> Bytes]
  BY DEF IngestInv, TypeOK, RowsKept, database, Registered
<1>4. Sound(t)'
  BY <1>3 DEF database, Sound, Idle, RunIsSound, TaskIsSound, IsIngest, RowIsHeld, Registered,
     ChangeIsCurrent, ChangeOf, Convergence, Change, NestedBy, Orphans, NamesOf, LinksOf,
     SweepHasConverged, Converged
<1>5. Sound(worker[w])'
  BY <1>1, <1>4 DEF Sound, Idle, RunIsSound, TaskIsSound, IsIngest, RowIsHeld,
     ChangeIsCurrent, SweepHasConverged
<1>. QED
  BY <1>1, <1>2, <1>3, <1>5, QuietStep

LEMMA TurnIsSound ==
    ASSUME NEW t, t.op \in Ops, t.todo \in Seq(Listed), t.replaced \in BOOLEAN,
           SweepHasConverged(t)
    PROVE  Turn(t) \in Tasks \cup {Idle} /\ Sound(Turn(t)) /\ EmptyHanded(Turn(t))
<1>1. CASE Turn(t) = Idle
  BY <1>1, IdleIs DEF Sound, EmptyHanded
<1>2. CASE /\ Turn(t) \in Tasks /\ Turn(t).op = "sweep" /\ Turn(t).at = "fetching"
           /\ Turn(t).id \in Sources /\ Turn(t).url \in Urls
           /\ Turn(t).replaced = t.replaced /\ t.op = "sweep"
  BY <1>2 DEF Sound, RunIsSound, TaskIsSound, IsIngest, RowIsHeld, ChangeIsCurrent,
     SweepHasConverged, EmptyHanded
<1>3. CASE /\ Turn(t) \in Tasks /\ Turn(t).op = "converge" /\ Turn(t).at = "graph"
           /\ Turn(t).id = NoSource
  BY <1>3 DEF Sound, RunIsSound, TaskIsSound, IsIngest, RowIsHeld, ChangeIsCurrent,
     SweepHasConverged, EmptyHanded
<1>. QED
  BY <1>1, <1>2, <1>3, TurnIs

(* A run that holds nothing is as sound when rows change. *)
LEMMA StaysSound ==
    ASSUME UNCHANGED <<links, entities, nested>>, NEW w \in Workers, NEW u, worker'[w] = u,
           Sound(u), EmptyHanded(u)
    PROVE  Sound(worker[w])'
<1>1. CASE u = Idle
  BY <1>1 DEF Sound, Idle
<1>2. CASE RunIsSound(u)
  <2>1. TaskIsSound(u)'
    BY <1>2 DEF RunIsSound, TaskIsSound, IsIngest
  <2>2. RowIsHeld(u)'
    BY <1>2, IngestAssumption DEF RunIsSound, TaskIsSound, RowIsHeld, IsIngest, EmptyHanded
  <2>3. ChangeIsCurrent(u)' /\ SweepHasConverged(u)'
    BY <1>2 DEF RunIsSound, ChangeIsCurrent, SweepHasConverged, EmptyHanded, Converged,
       NestedBy, NamesOf
  <2>. QED
    BY <2>1, <2>2, <2>3 DEF Sound, RunIsSound, TaskIsSound, IsIngest, RowIsHeld,
       ChangeIsCurrent, SweepHasConverged
<1>. QED
  BY <1>1, <1>2 DEF Sound

(* What a worker at its place is. *)
LEMMA RunAt ==
    ASSUME IngestInv, NEW w \in Workers, NEW p, At(w, p)
    PROVE  /\ worker[w] \in Tasks /\ RunIsSound(worker[w]) /\ TaskIsSound(worker[w])
           /\ worker[w].at = p
           /\ worker[w].op \in Ops /\ worker[w].todo \in Seq(Listed)
           /\ worker[w].replaced \in BOOLEAN /\ SweepHasConverged(worker[w])
<1>1. worker[w] \in Tasks /\ RunIsSound(worker[w]) /\ worker[w].at = p
  BY DEF At, IngestInv
<1>. QED
  BY <1>1 DEF RunIsSound, Tasks

LEMMA StampIs ==
    ASSUME IngestInv, NEW s \in Sources, Registered(s),
           NEW status \in {"success", "failure"}, NEW digest \in Bytes \cup {Null}
    PROVE  /\ Stamped(s, status, digest) \in [Sources -> Rows]
           /\ \A r \in Sources \ {s} : Stamped(s, status, digest)[r] = source[r]
           /\ Stamped(s, status, digest)[s].state = "registered"
           /\ Stamped(s, status, digest)[s].url = source[s].url
           /\ Stamped(s, status, digest)[s].title = source[s].title
           /\ Stamped(s, status, digest)[s].status = status
           /\ Stamped(s, status, digest)[s].digest =
                IF status = "success" THEN digest ELSE source[s].digest
<1> DEFINE d == IF status = "success" THEN digest ELSE source[s].digest
           r == [source[s] EXCEPT !.status = status, !.digest = d]
<1>1. source \in [Sources -> Rows]
  BY DEF IngestInv, TypeOK
<1>2. source[s] \in [state : {"registered"}, url : Urls, title : Titles, enabled : BOOLEAN,
                     status : {"none", "success", "failure"}, digest : Bytes \cup {Null}]
  BY <1>1 DEF Rows, Unused, Deleted, Registered
<1>3. /\ r \in [state : {"registered"}, url : Urls, title : Titles, enabled : BOOLEAN,
                status : {"none", "success", "failure"}, digest : Bytes \cup {Null}]
      /\ r.state = "registered" /\ r.url = source[s].url /\ r.title = source[s].title
      /\ r.status = status /\ r.digest = d
  BY <1>2
<1>4. Stamped(s, status, digest) = [source EXCEPT ![s] = r]
  BY <1>1, <1>2 DEF Stamped
<1> HIDE DEF r
<1>. QED
  BY <1>1, <1>3, <1>4 DEF Rows

(* A run stamps its source's row with an outcome and turns to the next. *)
LEMMA StampedStep ==
    ASSUME IngestInv, NEW w \in Workers, NEW p \in Phases \ {"graph", "writing"}, At(w, p),
           UNCHANGED <<world, links, entities, nested, locks, events>>,
           \/ source' = source
           \/ /\ worker[w].id \in Sources /\ Registered(worker[w].id)
              /\ \E status \in {"success", "failure"}, digest \in Bytes \cup {Null} :
                    source' = Stamped(worker[w].id, status, digest),
           \/ StampStep(w, worker[w].id, Turn(worker[w]))
           \/ Step(w, Turn(worker[w]))
    PROVE  IngestInv'
<1> DEFINE t == worker[w]
           u == Turn(t)
<1>1. u \in Tasks \cup {Idle} /\ Sound(u) /\ EmptyHanded(u)
  BY RunAt, TurnIsSound
<1>2. EmptyHanded(worker[w])
  BY RunAt DEF EmptyHanded
<1> HIDE DEF u
<1>3. /\ worker' \in [Workers -> Tasks \cup {Idle}] /\ worker'[w] = u
      /\ \A v \in Workers : v # w => Alike(v)
  BY <1>1, StepMoves DEF u
<1>4. LocksAreHeld'
  BY <1>1, <1>2, <1>3, LocksRest
<1>5. Sound(worker[w])'
  BY <1>1, <1>3, StaysSound
<1>6. RowsKept
  <2>1. CASE source' = source
    BY <2>1 DEF RowsKept, IngestInv, TypeOK, Registered
  <2>2. CASE source' # source
    <3>1. worker[w].id \in Sources /\ Registered(worker[w].id)
      BY <2>2
    <3>2. PICK status \in {"success", "failure"}, digest \in Bytes \cup {Null} :
            source' = Stamped(worker[w].id, status, digest)
      BY <2>2
    <3> DEFINE s == worker[w].id
    <3>3. /\ source' \in [Sources -> Rows]
          /\ \A r \in Sources \ {s} : source'[r] = source[r]
          /\ source'[s].state = "registered"
          /\ source'[s].url = source[s].url /\ source'[s].title = source[s].title
      BY <3>1, <3>2, StampIs
    <3>. QED
      BY <3>3 DEF RowsKept, Registered
  <2>. QED
    BY <2>1, <2>2
<1>7. /\ published' \in [Urls -> Bytes] /\ cached' \in [Urls -> Bytes \cup {Null}]
      /\ events' \in 0..MaxEvents
  BY DEF IngestInv, TypeOK, world
<1>. QED
  BY <1>3, <1>4, <1>5, <1>6, <1>7, QuietStep

LEMMA StartSweepStep ==
    ASSUME IngestInv, NEW w \in Workers, StartSweep(w)
    PROVE  IngestInv'
<1> DEFINE list == SetToSeq({[id |-> s, url |-> source[s].url] :
                       s \in {v \in Sources : Registered(v) /\ source[v].enabled}})
           t == [Task("sweep", "listed", NoSource, Null) EXCEPT !.todo = list]
<1>1. TypeOK /\ worker[w] = Idle /\ Step(w, Turn(t))
  BY DEF IngestInv, StartSweep
<1>2. list \in Seq(Listed)
  BY <1>1, ListIs
<1> HIDE DEF list
<1>3. t.op \in Ops /\ t.todo \in Seq(Listed) /\ t.replaced = FALSE
  BY <1>2 DEF Task, Ops
<1>4. SweepHasConverged(t)
  BY <1>3 DEF SweepHasConverged
<1> HIDE DEF t
<1>5. Turn(t) \in Tasks \cup {Idle} /\ Sound(Turn(t)) /\ EmptyHanded(Turn(t))
  BY <1>3, <1>4, TurnIsSound
<1>6. /\ UNCHANGED <<published, database, locks>>
      /\ cached' \in [Urls -> Bytes \cup {Null}] /\ events' \in 0..MaxEvents
  BY <1>1 DEF StartSweep, TypeOK, world
<1>7. EmptyHanded(worker[w])
  BY <1>1, IdleIs DEF EmptyHanded
<1>. QED
  BY <1>1, <1>5, <1>6, <1>7, RunStep

LEMMA EventIs == TypeOK /\ Event => events' \in 0..MaxEvents
BY IngestAssumption DEF TypeOK, Event

LEMMA StartTriggerStep ==
    ASSUME IngestInv, NEW w \in Workers, NEW s \in Sources, StartTrigger(w, s)
    PROVE  IngestInv'
<1> DEFINE t == Task("trigger", "fetching", s, source[s].url)
<1>1. TypeOK /\ worker[w] = Idle /\ Step(w, t) /\ source[s].url \in Urls
  BY DEF IngestInv, StartTrigger, TypeOK, Rows, Unused, Deleted, Registered
<1>2. /\ t \in Tasks /\ t.op = "trigger" /\ t.at = "fetching" /\ t.id = s
      /\ t.url = source[s].url
  BY <1>1, TaskIs DEF Ops, Phases
<1> HIDE DEF t
<1>3. Sound(t) /\ EmptyHanded(t) /\ EmptyHanded(worker[w])
  BY <1>1, <1>2, IdleIs DEF Sound, RunIsSound, TaskIsSound, IsIngest, RowIsHeld,
     ChangeIsCurrent, SweepHasConverged, EmptyHanded
<1>4. /\ UNCHANGED <<published, database, locks>>
      /\ cached' \in [Urls -> Bytes \cup {Null}] /\ events' \in 0..MaxEvents
  BY <1>1, EventIs DEF StartTrigger, TypeOK, world
<1>. QED
  BY <1>1, <1>2, <1>3, <1>4, RunStep

LEMMA ReadCurrentStep ==
    ASSUME IngestInv, NEW w \in Workers, ReadCurrent(w)
    PROVE  IngestInv'
<1> DEFINE t == worker[w]
           u == [t EXCEPT !.at = "lock", !.bytes = published[t.url]]
<1>1. /\ TypeOK /\ t \in Tasks /\ RunIsSound(t) /\ t.at = "fetching"
      /\ IsIngest(t) /\ t.id \in Sources /\ t.url \in Urls
  BY RunAt DEF ReadCurrent, IngestInv, TaskIsSound
<1>2. published[t.url] \in Bytes
  BY <1>1 DEF TypeOK
<1>3. /\ u \in Tasks /\ u.at = "lock" /\ u.bytes = published[t.url] /\ u.op = t.op
      /\ u.id = t.id /\ u.url = t.url /\ u.replaced = t.replaced
  BY <1>1, <1>2 DEF Tasks, Phases
<1>4. /\ Step(w, u) /\ UNCHANGED <<published, database, locks>>
      /\ cached' \in [Urls -> Bytes \cup {Null}] /\ events' \in 0..MaxEvents
  BY <1>1, <1>2 DEF ReadCurrent, TypeOK
<1> HIDE DEF u
<1>5. Sound(u) /\ EmptyHanded(u) /\ EmptyHanded(worker[w])
  BY <1>1, <1>2, <1>3 DEF Sound, RunIsSound, TaskIsSound, IsIngest, RowIsHeld,
     ChangeIsCurrent, SweepHasConverged, EmptyHanded
<1>. QED
  BY <1>3, <1>4, <1>5, RunStep

LEMMA ReadStaleStep ==
    ASSUME IngestInv, NEW w \in Workers, ReadStale(w)
    PROVE  IngestInv'
<1> DEFINE t == worker[w]
           u == [t EXCEPT !.at = "lock", !.bytes = cached[t.url]]
<1>1. /\ TypeOK /\ t \in Tasks /\ RunIsSound(t) /\ t.at = "fetching"
      /\ IsIngest(t) /\ t.id \in Sources /\ t.url \in Urls
  BY RunAt DEF ReadStale, IngestInv, TaskIsSound
<1>2. cached[t.url] \in Bytes
  BY <1>1 DEF TypeOK, ReadStale
<1>3. /\ u \in Tasks /\ u.at = "lock" /\ u.bytes = cached[t.url] /\ u.op = t.op
      /\ u.id = t.id /\ u.url = t.url /\ u.replaced = t.replaced
  BY <1>1, <1>2 DEF Tasks, Phases
<1>4. /\ Step(w, u) /\ UNCHANGED <<published, database, locks>>
      /\ cached' \in [Urls -> Bytes \cup {Null}] /\ events' \in 0..MaxEvents
  BY <1>1 DEF ReadStale, TypeOK, world
<1> HIDE DEF u
<1>5. Sound(u) /\ EmptyHanded(u) /\ EmptyHanded(worker[w])
  BY <1>1, <1>2, <1>3 DEF Sound, RunIsSound, TaskIsSound, IsIngest, RowIsHeld,
     ChangeIsCurrent, SweepHasConverged, EmptyHanded
<1>. QED
  BY <1>3, <1>4, <1>5, RunStep

LEMMA ReadFailsStep ==
    ASSUME IngestInv, NEW w \in Workers, ReadFails(w)
    PROVE  IngestInv'
<1> DEFINE t == worker[w]
           u == [t EXCEPT !.at = "failed"]
<1>1. /\ TypeOK /\ t \in Tasks /\ RunIsSound(t) /\ t.at = "fetching"
      /\ IsIngest(t) /\ t.id \in Sources /\ t.url \in Urls
  BY RunAt DEF ReadFails, IngestInv, TaskIsSound
<1>2. /\ u \in Tasks /\ u.at = "failed" /\ u.op = t.op
      /\ u.id = t.id /\ u.url = t.url /\ u.replaced = t.replaced
  BY <1>1 DEF Tasks, Phases
<1>3. /\ Step(w, u) /\ UNCHANGED <<published, database, locks>>
      /\ cached' \in [Urls -> Bytes \cup {Null}] /\ events' \in 0..MaxEvents
  BY <1>1 DEF ReadFails, TypeOK, world
<1> HIDE DEF u
<1>4. Sound(u) /\ EmptyHanded(u) /\ EmptyHanded(worker[w])
  BY <1>1, <1>2 DEF Sound, RunIsSound, TaskIsSound, IsIngest, RowIsHeld,
     ChangeIsCurrent, SweepHasConverged, EmptyHanded
<1>. QED
  BY <1>2, <1>3, <1>4, RunStep

LEMMA RecordReadFailureStep ==
    ASSUME IngestInv, NEW w \in Workers, RecordReadFailure(w)
    PROVE  IngestInv'
<1>1. /\ At(w, "failed") /\ worker[w].id \in Sources
      /\ UNCHANGED <<world, links, entities, nested, locks, events>>
      /\ source' = IF Registered(worker[w].id)
                   THEN Stamped(worker[w].id, "failure", Null) ELSE source
      /\ StampStep(w, worker[w].id, Turn(worker[w]))
  BY RunAt DEF RecordReadFailure, TaskIsSound
<1>. QED
  BY <1>1, StampedStep DEF Phases

LEMMA AbandonStep ==
    ASSUME IngestInv, NEW w \in Workers, Abandon(w)
    PROVE  IngestInv'
<1>1. /\ At(w, "lock") /\ source' = source
      /\ UNCHANGED <<world, links, entities, nested, locks, events>>
      /\ Step(w, Turn(worker[w]))
  BY DEF Abandon, Locks, database
<1>. QED
  BY <1>1, StampedStep DEF Phases

LEMMA RecordUnchangedStep ==
    ASSUME IngestInv, NEW w \in Workers, RecordUnchanged(w)
    PROVE  IngestInv'
<1>1. /\ At(w, "lock") /\ worker[w].id \in Sources /\ Registered(worker[w].id)
      /\ worker[w].bytes \in Bytes
      /\ UNCHANGED <<world, links, entities, nested, locks, events>>
      /\ source' = Stamped(worker[w].id, "success", worker[w].bytes)
      /\ StampStep(w, worker[w].id, Turn(worker[w]))
  BY RunAt DEF RecordUnchanged, Locks, StillNames, TaskIsSound
<1>. QED
  BY <1>1, StampedStep DEF Phases

LEMMA RecordParseFailureStep ==
    ASSUME IngestInv, NEW w \in Workers, RecordParseFailure(w)
    PROVE  IngestInv'
<1>1. /\ At(w, "lock") /\ worker[w].id \in Sources /\ Registered(worker[w].id)
      /\ UNCHANGED <<world, links, entities, nested, locks, events>>
      /\ source' = Stamped(worker[w].id, "failure", Null)
      /\ StampStep(w, worker[w].id, Turn(worker[w]))
  BY RunAt DEF RecordParseFailure, Locks, StillNames, TaskIsSound
<1>. QED
  BY <1>1, StampedStep DEF Phases

LEMMA RecordRefusedWriteStep ==
    ASSUME IngestInv, NEW w \in Workers, RecordRefusedWrite(w)
    PROVE  IngestInv'
<1>1. /\ At(w, "refused") /\ worker[w].id \in Sources
      /\ UNCHANGED <<world, links, entities, nested, locks, events>>
  BY RunAt DEF RecordRefusedWrite, TaskIsSound
<1>2. CASE IsStillOurs(worker[w])
  <2>1. /\ Registered(worker[w].id)
        /\ source' = Stamped(worker[w].id, "failure", Null)
        /\ StampStep(w, worker[w].id, Turn(worker[w]))
    BY <1>2 DEF RecordRefusedWrite, IsStillOurs, StillNames
  <2>. QED
    BY <1>1, <2>1, StampedStep DEF Phases
<1>3. CASE ~IsStillOurs(worker[w])
  <2>1. source' = source /\ Step(w, Turn(worker[w]))
    BY <1>3 DEF RecordRefusedWrite
  <2>. QED
    BY <1>1, <2>1, StampedStep DEF Phases
<1>. QED
  BY <1>2, <1>3

(* The row is locked, and what it says is what will be written under it. *)
LEMMA LockSourceStep ==
    ASSUME IngestInv, NEW w \in Workers, LockSource(w)
    PROVE  IngestInv'
<1> DEFINE t == worker[w]
           u == [t EXCEPT !.at = "graph", !.title = source[t.id].title]
<1>1. /\ TypeOK /\ t \in Tasks /\ RunIsSound(t) /\ t.at = "lock"
      /\ IsIngest(t) /\ t.id \in Sources /\ t.url \in Urls /\ t.bytes \in Contents
      /\ Registered(t.id) /\ source[t.id].url = t.url /\ registration[t.id] = Free
  BY RunAt DEF LockSource, Locks, IngestInv, TaskIsSound, StillNames, Bytes
<1>2. source[t.id].title \in Titles
  BY <1>1 DEF TypeOK, Rows, Unused, Deleted, Registered
<1>3. /\ u \in Tasks /\ u.at = "graph" /\ u.title = source[t.id].title /\ u.op = t.op
      /\ u.id = t.id /\ u.url = t.url /\ u.replaced = t.replaced /\ u.bytes = t.bytes
  BY <1>1, <1>2 DEF Tasks, Phases
<1>4. /\ Step(w, u) /\ UNCHANGED <<published, cached, source, links, entities, nested, graph, events>>
      /\ registration' = [registration EXCEPT ![t.id] = w]
  BY DEF LockSource, world, database
<1> HIDE DEF u
<1>5. /\ worker' \in [Workers -> Tasks \cup {Idle}] /\ worker'[w] = u
      /\ \A v \in Workers : v # w => Alike(v)
  BY <1>3, <1>4, StepMoves
<1>6. LocksAreHeld'
  BY <1>1, <1>3, <1>4, <1>5, LockTaken DEF EmptyHanded
<1>7. RunIsSound(u)
  BY <1>1, <1>2, <1>3 DEF RunIsSound, TaskIsSound, IsIngest, RowIsHeld, ChangeIsCurrent,
     SweepHasConverged
<1>8. Sound(worker[w])'
  BY <1>3, <1>4, <1>5, <1>7 DEF Sound, RunIsSound, TaskIsSound, IsIngest, RowIsHeld, Registered,
     ChangeIsCurrent, SweepHasConverged, Converged, NestedBy, NamesOf
<1>9. /\ published' \in [Urls -> Bytes] /\ cached' \in [Urls -> Bytes \cup {Null}]
      /\ events' \in 0..MaxEvents /\ RowsKept
  BY <1>1, <1>4 DEF TypeOK, RowsKept, Registered
<1>. QED
  BY <1>4, <1>5, <1>6, <1>8, <1>9, QuietStep

(* The change is computed under the graph's lock. *)
LEMMA WriteStep ==
    ASSUME IngestInv, NEW w \in Workers, Write(w)
    PROVE  IngestInv'
<1> DEFINE t == worker[w]
           u == [t EXCEPT !.at = "writing", !.change = ChangeOf(t)]
<1>1. /\ TypeOK /\ t \in Tasks /\ RunIsSound(t) /\ TaskIsSound(t) /\ t.at = "graph"
      /\ At(w, "graph") /\ GraphIsFree
  BY RunAt DEF Write, IngestInv
<1>2. ChangeOf(t) \in Changes
  <2>1. CASE t.op = "converge"
    BY <1>1, <2>1, ChangeType DEF ChangeOf, Convergence
  <2>2. CASE t.op = "delete" /\ t.id \in Sources
    BY <1>1, <2>2, ChangeType DEF ChangeOf
  <2>3. CASE /\ IsIngest(t) /\ t.id \in Sources /\ t.url \in Urls
             /\ t.title \in Titles /\ t.bytes \in Contents
    <3>1. LinksOf(t.id, t.bytes, t) \in SUBSET Links
      BY <2>3, IngestAssumption DEF LinksOf, Links
    <3>2. ChangeOf(t) = Change(t.id, LinksOf(t.id, t.bytes, t))
      BY <2>3 DEF ChangeOf, IsIngest
    <3>. QED
      BY <1>1, <2>3, <3>1, <3>2, ChangeType
  <2>. QED
    BY <1>1, <2>1, <2>2, <2>3 DEF TaskIsSound
<1>3. /\ u \in Tasks /\ u.at = "writing" /\ u.title = t.title /\ u.op = t.op
      /\ u.id = t.id /\ u.url = t.url /\ u.replaced = t.replaced /\ u.bytes = t.bytes
      /\ u.change = ChangeOf(t)
  BY <1>1, <1>2 DEF Tasks, Phases
<1>4. /\ Step(w, u) /\ graph' = w
      /\ UNCHANGED <<published, cached, source, links, entities, nested, registration, events>>
  BY DEF Write, world, database
<1> HIDE DEF u
<1>5. /\ worker' \in [Workers -> Tasks \cup {Idle}] /\ worker'[w] = u
      /\ \A v \in Workers : v # w => Alike(v)
  BY <1>3, <1>4, StepMoves
<1>6. LocksAreHeld'
  BY <1>1, <1>3, <1>4, <1>5, GraphTaken
<1>7. ChangeOf(u) = ChangeOf(t)
  BY <1>3 DEF ChangeOf, LinksOf
<1>8. RunIsSound(u)
  BY <1>1, <1>3, <1>7 DEF RunIsSound, TaskIsSound, IsIngest, RowIsHeld,
     ChangeIsCurrent, SweepHasConverged
<1>9. Sound(worker[w])'
  BY <1>4, <1>5, <1>8 DEF Sound, RunIsSound, TaskIsSound, IsIngest, RowIsHeld, Registered,
     ChangeIsCurrent, ChangeOf, Convergence, Change, NestedBy, Orphans, NamesOf, LinksOf,
     SweepHasConverged, Converged
<1>10. /\ published' \in [Urls -> Bytes] /\ cached' \in [Urls -> Bytes \cup {Null}]
       /\ events' \in 0..MaxEvents /\ RowsKept
  BY <1>1, <1>4 DEF TypeOK, RowsKept, Registered
<1>. QED
  BY <1>4, <1>5, <1>6, <1>9, <1>10, QuietStep

LEMMA RefuseStep ==
    ASSUME IngestInv, NEW w \in Workers, Refuse(w)
    PROVE  IngestInv'
<1> DEFINE t == worker[w]
           u == IF t.op \in {"converge", "delete"} THEN Idle
                ELSE [t EXCEPT !.at = "refused", !.same = TRUE, !.change = Null]
<1>1. /\ TypeOK /\ t \in Tasks /\ RunIsSound(t) /\ t.at = "writing" /\ TaskIsSound(t)
  BY RunAt DEF Refuse, IngestInv
<1>2. \/ u = Idle
      \/ /\ u \in Tasks /\ u.at = "refused" /\ IsIngest(t) /\ u.op = t.op /\ u.id = t.id
         /\ u.url = t.url /\ u.replaced = t.replaced /\ u.bytes = t.bytes
  BY <1>1 DEF Tasks, Phases, TaskIsSound
<1>3. /\ Step(w, u) /\ Release(w) /\ events' \in 0..MaxEvents
      /\ UNCHANGED <<published, cached, source, links, entities, nested>>
  BY <1>1, EventIs DEF Refuse, world, database
<1> HIDE DEF u
<1>4. u \in Tasks \cup {Idle} /\ Sound(u) /\ EmptyHanded(u)
  BY <1>1, <1>2, IdleIs DEF Sound, RunIsSound, TaskIsSound, IsIngest, RowIsHeld,
     ChangeIsCurrent, SweepHasConverged, EmptyHanded, Bytes
<1>5. /\ worker' \in [Workers -> Tasks \cup {Idle}] /\ worker'[w] = u
      /\ \A v \in Workers : v # w => Alike(v)
  BY <1>3, <1>4, StepMoves
<1>6. LocksAreHeld'
  BY <1>3, <1>4, <1>5, LocksReleased
<1>7. Sound(worker[w])'
  BY <1>3, <1>4, <1>5, StaysSound
<1>8. /\ published' \in [Urls -> Bytes] /\ cached' \in [Urls -> Bytes \cup {Null}] /\ RowsKept
  BY <1>1, <1>3 DEF TypeOK, RowsKept, Registered
<1>. QED
  BY <1>3, <1>5, <1>6, <1>7, <1>8, QuietStep

LEMMA CrashStep ==
    ASSUME IngestInv, NEW w \in Workers, Crash(w)
    PROVE  IngestInv'
<1>1. TypeOK
  BY DEF IngestInv
<1>2. /\ Step(w, Idle) /\ Release(w) /\ events' \in 0..MaxEvents
      /\ UNCHANGED <<published, cached, source, links, entities, nested>>
  BY <1>1, EventIs DEF Crash, world, database
<1>3. Sound(Idle) /\ EmptyHanded(Idle)
  BY IdleIs DEF Sound, EmptyHanded
<1>4. /\ worker' \in [Workers -> Tasks \cup {Idle}] /\ worker'[w] = Idle
      /\ \A v \in Workers : v # w => Alike(v)
  BY <1>2, StepMoves
<1>5. LocksAreHeld'
  BY <1>2, <1>3, <1>4, LocksReleased
<1>6. Sound(worker[w])'
  BY <1>2, <1>3, <1>4, StaysSound
<1>7. /\ published' \in [Urls -> Bytes] /\ cached' \in [Urls -> Bytes \cup {Null}] /\ RowsKept
  BY <1>1, <1>2 DEF TypeOK, RowsKept, Registered
<1>. QED
  BY <1>2, <1>4, <1>5, <1>6, <1>7, QuietStep

(* No run moves. *)
LEMMA RestStep ==
    ASSUME IngestInv, UNCHANGED <<links, entities, nested, worker, locks>>,
           published' \in [Urls -> Bytes], cached' \in [Urls -> Bytes \cup {Null}],
           events' \in 0..MaxEvents, RowsKept
    PROVE  IngestInv'
<1>1. \A v \in Workers : Alike(v)
  BY DEF IngestInv, Alike, SameTask
<1>2. LocksAreHeld'
  BY <1>1, LocksRest
<1>. QED
  BY <1>1, <1>2, QuietStep DEF IngestInv

LEMMA RegisterStep ==
    ASSUME IngestInv, NEW s \in Sources, NEW u \in Urls, NEW title \in Titles,
           NEW enabled \in BOOLEAN, Register(s, u, title, enabled)
    PROVE  IngestInv'
<1>1. TypeOK
  BY DEF IngestInv
<1>2. /\ source[s] = Unused /\ source' = [source EXCEPT ![s] = Row(u, title, enabled)]
      /\ UNCHANGED <<published, cached, links, entities, nested, worker, locks>>
      /\ events' \in 0..MaxEvents
  BY <1>1, EventIs DEF Register, world
<1>3. Row(u, title, enabled) \in Rows
  BY DEF Row, Rows
<1>4. RowsKept
  BY <1>1, <1>2, <1>3 DEF RowsKept, Registered, Unused, TypeOK
<1>. QED
  BY <1>1, <1>2, <1>4, RestStep DEF TypeOK

LEMMA PublishStep ==
    ASSUME IngestInv, NEW u \in Urls, Publish(u)
    PROVE  IngestInv'
<1>1. TypeOK
  BY DEF IngestInv
<1>2. /\ UNCHANGED <<cached, source, links, entities, nested, worker, locks>>
      /\ events' \in 0..MaxEvents /\ published' \in [Urls -> Bytes]
  BY <1>1, EventIs DEF Publish, database, TypeOK
<1>3. RowsKept
  BY <1>1, <1>2 DEF RowsKept, Registered, TypeOK
<1>. QED
  BY <1>1, <1>2, <1>3, RestStep DEF TypeOK

LEMMA PatchReadsStep ==
    ASSUME IngestInv, NEW w \in Workers, NEW s \in Sources,
           NEW change \in [url : Urls, title : Titles, enabled : BOOLEAN],
           PatchReads(w, s, change)
    PROVE  IngestInv'
<1> DEFINE p == [loaded |-> source[s], to |-> change]
           t == [Task("patch", "patching", s, Null) EXCEPT !.change = p]
<1>1. TypeOK /\ worker[w] = Idle /\ Step(w, t)
  BY DEF IngestInv, PatchReads
<1>2. p \in Patches
  BY <1>1 DEF TypeOK, Patches
<1> HIDE DEF p
<1>3. t \in Tasks /\ t.op = "patch" /\ t.at = "patching" /\ t.id = s /\ t.change = p
  <2> DEFINE base == Task("patch", "patching", s, Null)
  <2>1. base \in Tasks /\ base.op = "patch" /\ base.at = "patching" /\ base.id = s
    BY TaskIs DEF Ops, Phases
  <2> HIDE DEF base
  <2>. QED
    BY <1>2, <2>1 DEF Tasks, base
<1>4. /\ UNCHANGED <<published, database, locks>>
      /\ cached' \in [Urls -> Bytes \cup {Null}] /\ events' \in 0..MaxEvents
  BY <1>1, EventIs DEF PatchReads, TypeOK, world
<1> HIDE DEF t
<1>5. Sound(t) /\ EmptyHanded(t) /\ EmptyHanded(worker[w])
  BY <1>1, <1>2, <1>3, IdleIs DEF Sound, RunIsSound, TaskIsSound, RowIsHeld,
     ChangeIsCurrent, SweepHasConverged, EmptyHanded
<1>. QED
  BY <1>1, <1>3, <1>4, <1>5, RunStep

(* What a PATCH leaves of a row. *)
LEMMA PatchedIs ==
    ASSUME TypeOK, NEW s \in Sources, Registered(s), NEW loaded, NEW to,
           to \in [url : Urls, title : Titles, enabled : BOOLEAN]
    PROVE  LET r == Patched(source[s], loaded, to)
           IN  /\ r \in Rows /\ r.state = "registered" /\ r.status = source[s].status
               /\ r.url = IF to.url # loaded.url THEN to.url ELSE source[s].url
               /\ r.title = IF to.title # loaded.title THEN to.title ELSE source[s].title
               /\ r.digest =
                    IF /\ Differs(loaded, to)
                       /\ (IF PatchesRace THEN loaded.digest ELSE source[s].digest) # Null
                    THEN Null ELSE source[s].digest
<1>1. source[s] \in [state : {"registered"}, url : Urls, title : Titles, enabled : BOOLEAN,
                     status : {"none", "success", "failure"}, digest : Bytes \cup {Null}]
  BY DEF TypeOK, Rows, Unused, Deleted, Registered
<1> DEFINE digest == IF PatchesRace THEN loaded.digest ELSE source[s].digest
<1>2. Patched(source[s], loaded, to) =
        [source[s] EXCEPT
            !.url = IF to.url # loaded.url THEN to.url ELSE @,
            !.title = IF to.title # loaded.title THEN to.title ELSE @,
            !.enabled = IF to.enabled # loaded.enabled THEN to.enabled ELSE @,
            !.digest = IF Differs(loaded, to) /\ digest # Null THEN Null ELSE @]
  BY DEF Patched
<1> HIDE DEF digest
<1>3. LET r == Patched(source[s], loaded, to)
      IN  /\ r \in Rows /\ r.state = "registered" /\ r.status = source[s].status
          /\ r.url = IF to.url # loaded.url THEN to.url ELSE source[s].url
          /\ r.title = IF to.title # loaded.title THEN to.title ELSE source[s].title
          /\ r.digest = IF Differs(loaded, to) /\ digest # Null THEN Null ELSE source[s].digest
  BY <1>1, <1>2 DEF Rows
<1>. QED
  BY <1>3 DEF digest

LEMMA PatchWritesStep ==
    ASSUME IngestInv, NEW w \in Workers, PatchWrites(w)
    PROVE  IngestInv'
<1> DEFINE t == worker[w]
<1>1. /\ TypeOK /\ t \in Tasks /\ t.at = "patching" /\ t.id \in Sources /\ t.change \in Patches
      /\ registration[t.id] = Free
  BY RunAt DEF PatchWrites, IngestInv, TaskIsSound
<1>2. /\ Step(w, Idle)
      /\ UNCHANGED <<published, cached, links, entities, nested, locks, events>>
  BY DEF PatchWrites, world
<1>3. Sound(Idle) /\ EmptyHanded(Idle) /\ EmptyHanded(worker[w])
  BY <1>1, IdleIs DEF Sound, EmptyHanded
<1>4. /\ worker' \in [Workers -> Tasks \cup {Idle}] /\ worker'[w] = Idle
      /\ \A v \in Workers : v # w => Alike(v)
  BY <1>2, StepMoves
<1>5. LocksAreHeld'
  BY <1>2, <1>3, <1>4, LocksRest
<1>6. Sound(worker[w])'
  BY <1>2, <1>3, <1>4, StaysSound
<1>7. RowsKept
  <2>1. CASE source' = source
    BY <1>1, <2>1 DEF RowsKept, Registered, TypeOK
  <2>2. CASE source' # source
    <3> DEFINE r == Patched(source[t.id], t.change.loaded, t.change.to)
    <3>1. Registered(t.id) /\ source' = [source EXCEPT ![t.id] = r]
      BY <2>2 DEF PatchWrites
    <3>2. t.change.to \in [url : Urls, title : Titles, enabled : BOOLEAN]
      BY <1>1 DEF Patches
    <3>3. r \in Rows /\ r.state = "registered"
      BY <1>1, <3>1, <3>2, PatchedIs
    <3> HIDE DEF r
    <3>. QED
      BY <1>1, <3>1, <3>3 DEF RowsKept, Registered, TypeOK
  <2>. QED
    BY <2>1, <2>2
<1>8. /\ published' \in [Urls -> Bytes] /\ cached' \in [Urls -> Bytes \cup {Null}]
      /\ events' \in 0..MaxEvents
  BY <1>1, <1>2 DEF TypeOK
<1>. QED
  BY <1>2, <1>4, <1>5, <1>6, <1>7, <1>8, QuietStep

LEMMA StartDeleteStep ==
    ASSUME IngestInv, NEW w \in Workers, NEW s \in Sources, StartDelete(w, s)
    PROVE  IngestInv'
<1> DEFINE t == Task("delete", "graph", s, Null)
<1>1. /\ TypeOK /\ worker[w] = Idle /\ Step(w, t) /\ registration[s] = Free
      /\ registration' = [registration EXCEPT ![s] = w] /\ graph' = graph
      /\ UNCHANGED <<published, cached, source, links, entities, nested>>
  BY DEF IngestInv, StartDelete, world, database
<1>2. t \in Tasks /\ t.op = "delete" /\ t.at = "graph" /\ t.id = s
  BY TaskIs DEF Ops, Phases
<1> HIDE DEF t
<1>3. /\ worker' \in [Workers -> Tasks \cup {Idle}] /\ worker'[w] = t
      /\ \A v \in Workers : v # w => Alike(v)
  BY <1>1, <1>2, StepMoves
<1>4. LocksAreHeld'
  BY <1>1, <1>2, <1>3, IdleIs, LockTaken DEF EmptyHanded
<1>5. RunIsSound(t)
  BY <1>2 DEF RunIsSound, TaskIsSound, IsIngest, RowIsHeld, ChangeIsCurrent, SweepHasConverged
<1>6. Sound(worker[w])'
  BY <1>2, <1>3, <1>5 DEF Sound, RunIsSound, TaskIsSound, IsIngest, RowIsHeld,
     ChangeIsCurrent, SweepHasConverged
<1>7. events' \in 0..MaxEvents
  BY <1>1, EventIs DEF StartDelete
<1>8. /\ published' \in [Urls -> Bytes] /\ cached' \in [Urls -> Bytes \cup {Null}] /\ RowsKept
  BY <1>1 DEF TypeOK, RowsKept, Registered
<1>. QED
  BY <1>1, <1>3, <1>4, <1>6, <1>7, <1>8, QuietStep


-----------------------------------------------------------------------------
(* The commit, and the invariant *)

(* What a commit does to the graph and to the rows.  The graph's lock makes  *)
(* the change that was computed under it still the one the graph calls for. *)
LEMMA CommitIs ==
    ASSUME IngestInv, NEW w \in Workers, Commit(w)
    PROVE  /\ worker[w] \in Tasks /\ worker[w].at = "writing" /\ graph = w
           /\ Converged' /\ entities' = NamesOf(links')
           /\ \/ /\ worker[w].op = "converge" /\ worker[w].id = NoSource
                 /\ source' = source /\ links' = {l \in links : l.source # NoSource}
              \/ /\ worker[w].op = "delete" /\ worker[w].id \in Sources
                 /\ source' = [source EXCEPT ![worker[w].id] = Deleted]
                 /\ links' = {l \in links : l.source # worker[w].id}
              \/ /\ IsIngest(worker[w]) /\ worker[w].id \in Sources
                 /\ worker[w].url \in Urls /\ worker[w].title \in Titles
                 /\ worker[w].bytes \in Contents
                 /\ Registered(worker[w].id) /\ source[worker[w].id].url = worker[w].url
                 /\ source[worker[w].id].title = worker[w].title
                 /\ source' = Stamped(worker[w].id, "success", worker[w].bytes)
                 /\ links' = {l \in links : l.source # worker[w].id}
                                \cup LinksOf(worker[w].id, worker[w].bytes, worker[w])
<1> DEFINE t == worker[w]
<1>1. /\ TypeOK /\ NamesOf(links) \subseteq entities
      /\ t \in Tasks /\ RunIsSound(t) /\ t.at = "writing" /\ TaskIsSound(t) /\ At(w, "writing")
  BY RunAt DEF Commit, IngestInv
<1>2. graph = w /\ t.change = ChangeOf(t) /\ Apply(t.change)
  BY <1>1 DEF TypeOK, RunIsSound, ChangeIsCurrent, Commit
<1>3. CASE t.op = "converge" /\ t.id = NoSource
  <2>1. ChangeOf(t) = Change(NoSource, {}) /\ source' = source
    BY <1>3 DEF ChangeOf, Convergence, Commit
  <2>2. Apply(Change(NoSource, {}))
    BY <1>2, <2>1
  <2>3. /\ links' = {l \in links : l.source # NoSource} \cup {}
        /\ entities' = NamesOf(links') /\ Converged'
    BY <1>1, <2>2, ApplyConverges
  <2>. QED
    BY <1>1, <1>2, <1>3, <2>1, <2>3
<1>4. CASE t.op = "delete" /\ t.id \in Sources
  <2>1. ChangeOf(t) = Change(t.id, {}) /\ source' = [source EXCEPT ![t.id] = Deleted]
    BY <1>4 DEF ChangeOf, Commit
  <2>2. Apply(Change(t.id, {}))
    BY <1>2, <2>1
  <2>3. /\ links' = {l \in links : l.source # t.id} \cup {}
        /\ entities' = NamesOf(links') /\ Converged'
    BY <1>1, <2>2, ApplyConverges
  <2>. QED
    BY <1>1, <1>2, <1>4, <2>1, <2>3
<1>5. CASE /\ IsIngest(t) /\ t.id \in Sources /\ t.url \in Urls
           /\ t.title \in Titles /\ t.bytes \in Contents
  <2>1. /\ ChangeOf(t) = Change(t.id, LinksOf(t.id, t.bytes, t))
        /\ source' = Stamped(t.id, "success", t.bytes)
    BY <1>5 DEF ChangeOf, Commit, IsIngest
  <2>2. Apply(Change(t.id, LinksOf(t.id, t.bytes, t)))
    BY <1>2, <2>1
  <2>3. /\ links' = {l \in links : l.source # t.id} \cup LinksOf(t.id, t.bytes, t)
        /\ entities' = NamesOf(links') /\ Converged'
    BY <1>1, <2>2, ApplyConverges
  <2>4. Registered(t.id) /\ source[t.id].url = t.url /\ source[t.id].title = t.title
    BY <1>1, <1>5 DEF RunIsSound, RowIsHeld
  <2>. QED
    BY <1>1, <1>2, <1>5, <2>1, <2>3, <2>4
<1>. QED
  BY <1>1, <1>3, <1>4, <1>5 DEF TaskIsSound

(* The rows a commit leaves: nobody else's row is touched. *)
LEMMA CommitRows ==
    ASSUME IngestInv, NEW w \in Workers, Commit(w)
    PROVE  /\ source' \in [Sources -> Rows]
           /\ \A s \in Sources : s # worker[w].id => source'[s] = source[s]
           /\ links' \subseteq Links /\ DeregisteredIsGone'
<1> DEFINE t == worker[w]
<1>1. TypeOK /\ DeregisteredIsGone /\ links \subseteq Links /\ source \in [Sources -> Rows]
  BY DEF IngestInv, TypeOK
<1>2. CASE /\ t.op = "converge" /\ t.id = NoSource
           /\ source' = source /\ links' = {l \in links : l.source # NoSource}
  BY <1>1, <1>2 DEF DeregisteredIsGone, Registered
<1>3. CASE /\ t.op = "delete" /\ t.id \in Sources
           /\ source' = [source EXCEPT ![t.id] = Deleted]
           /\ links' = {l \in links : l.source # t.id}
  <2>1. Deleted \in Rows
    BY DEF Rows
  <2>. QED
    BY <1>1, <1>3, <2>1 DEF DeregisteredIsGone, Registered, Links
<1>4. CASE /\ IsIngest(t) /\ t.id \in Sources /\ t.url \in Urls /\ t.title \in Titles
           /\ t.bytes \in Contents /\ Registered(t.id)
           /\ source' = Stamped(t.id, "success", t.bytes)
           /\ links' = {l \in links : l.source # t.id} \cup LinksOf(t.id, t.bytes, t)
  <2>1. t.bytes \in Bytes \cup {Null}
    BY <1>4 DEF Bytes
  <2>2. /\ source' \in [Sources -> Rows]
        /\ \A r \in Sources \ {t.id} : source'[r] = source[r]
        /\ source'[t.id].state = "registered"
    BY <1>4, <2>1, StampIs
  <2>3. LinksOf(t.id, t.bytes, t) \subseteq Links /\ \A l \in LinksOf(t.id, t.bytes, t) : l.source = t.id
    BY <1>4, IngestAssumption DEF LinksOf, Links
  <2>. QED
    BY <1>1, <1>4, <2>2, <2>3 DEF DeregisteredIsGone, Registered, Links
<1>. QED
  BY <1>2, <1>3, <1>4, CommitIs

(* Whoever else is under way while one commits holds another row and not the *)
(* graph.                                                                    *)
LEMMA OthersStaySound ==
    ASSUME IngestInv, NEW w \in Workers, Commit(w), NEW v \in Workers, v # w, Alike(v)
    PROVE  Sound(worker[v])'
<1>1. TypeOK /\ graph = w /\ Converged'
  BY CommitIs DEF IngestInv
<1>2. CASE worker[v] = Idle /\ worker'[v] = Idle
  BY <1>2 DEF Sound, Idle
<1>3. ASSUME NEW t \in Tasks, NEW u \in Tasks, t = worker[v], u = worker'[v], SameTask(t, u)
      PROVE  RunIsSound(u)'
  <2>1. RunIsSound(t)
    BY <1>3, IdleIs DEF IngestInv
  <2>2. TaskIsSound(u)
    BY <1>3, <2>1 DEF RunIsSound, TaskIsSound, SameTask, IsIngest
  <2>3. RowIsHeld(u)'
    <3>1. SUFFICES ASSUME u.at \in {"graph", "writing"}, IsIngest(u)
                   PROVE  /\ source'[u.id].state = "registered"
                          /\ source'[u.id].url = u.url
                          /\ source'[u.id].title = u.title
      BY DEF RowIsHeld, IsIngest, Registered
    <3>2. u.id \in Sources /\ registration[u.id] = v
      BY <1>1, <1>3, <2>2, <3>1, IdleIs DEF TaskIsSound, SameTask, TypeOK, At, IsIngest
    <3>3. Registered(t.id) /\ source[t.id].url = t.url /\ source[t.id].title = t.title
      BY <1>3, <2>1, <3>1 DEF RunIsSound, RowIsHeld, SameTask, IsIngest
    <3>4. worker[w].id # u.id
      <4>1. At(w, "writing")
        BY DEF Commit
      <4>. QED
        BY <1>1, <3>2, <4>1 DEF TypeOK
    <3>5. source'[u.id] = source[u.id]
      BY <3>2, <3>4, CommitRows
    <3>. QED
      BY <1>3, <3>3, <3>5 DEF Registered, SameTask
  <2>4. u.at # "writing"
    BY <1>1, <1>3, IdleIs DEF TypeOK, At, SameTask
  <2>5. ChangeIsCurrent(u)' /\ SweepHasConverged(u)' /\ TaskIsSound(u)'
    BY <1>1, <2>2, <2>4 DEF ChangeIsCurrent, SweepHasConverged, TaskIsSound, IsIngest
  <2>. QED
    BY <2>3, <2>5 DEF RunIsSound
<1>4. CASE worker[v] \in Tasks /\ worker'[v] \in Tasks /\ SameTask(worker[v], worker'[v])
  <2>1. ASSUME NEW u, u = worker'[v] PROVE RunIsSound(u)'
    BY <1>3, <1>4, <2>1
  <2>2. RunIsSound(worker[v])'
    BY <2>1 DEF RunIsSound, TaskIsSound, RowIsHeld, ChangeIsCurrent, SweepHasConverged
  <2>. QED
    BY <2>2 DEF Sound
<1>. QED
  BY <1>2, <1>4 DEF Alike

LEMMA CommitStep ==
    ASSUME IngestInv, NEW w \in Workers, Commit(w)
    PROVE  IngestInv'
<1> DEFINE t == worker[w]
           done == [t EXCEPT !.replaced = TRUE]
           u == Turn(done)
<1>1. /\ TypeOK /\ t \in Tasks /\ t.at = "writing" /\ Converged' /\ entities' = NamesOf(links')
  BY CommitIs DEF IngestInv
<1>2. /\ done.op \in Ops /\ done.todo \in Seq(Listed) /\ done.replaced = TRUE
  BY <1>1 DEF Tasks
<1>3. /\ StampStep(w, t.id, u) /\ Release(w) /\ UNCHANGED <<published, cached, events>>
  BY DEF Commit, world
<1> HIDE DEF done
<1>4. \/ u = Idle
      \/ /\ u \in Tasks /\ u.op = "sweep" /\ u.at = "fetching" /\ u.id \in Sources /\ u.url \in Urls
      \/ /\ u \in Tasks /\ u.op = "converge" /\ u.at = "graph" /\ u.id = NoSource
  BY <1>2, TurnIs
<1> HIDE DEF u
<1>5. /\ worker' \in [Workers -> Tasks \cup {Idle}] /\ worker'[w] = u
      /\ \A v \in Workers : v # w => Alike(v)
  BY <1>3, <1>4, StepMoves
<1>6. EmptyHanded(u)
  BY <1>4, IdleIs DEF EmptyHanded
<1>7. LocksAreHeld'
  BY <1>3, <1>5, <1>6, LocksReleased
<1>8. Sound(worker[w])'
  <2>1. CASE u = Idle
    BY <1>5, <2>1 DEF Sound, Idle
  <2>2. CASE u # Idle
    BY <1>1, <1>4, <1>5, <2>2 DEF Sound, RunIsSound, TaskIsSound, IsIngest, RowIsHeld,
       ChangeIsCurrent, SweepHasConverged
  <2>. QED
    BY <2>1, <2>2
<1>9. \A v \in Workers : Sound(worker[v])'
  BY <1>5, <1>8, OthersStaySound
<1>10. source' \in [Sources -> Rows] /\ links' \subseteq Links /\ DeregisteredIsGone'
  BY CommitRows
<1>11. entities' \subseteq Names /\ nested' \subseteq entities'
  BY <1>1, <1>10 DEF NamesOf, Links, Converged, NestedBy
<1>12. NamesOf(links)' \subseteq entities'
  BY <1>1 DEF NamesOf
<1>13. \A v \in Workers : worker'[v] = Idle \/ worker'[v].op \in Ops
  BY <1>5 DEF Tasks
<1>14. TypeOK'
  BY <1>1, <1>3, <1>7, <1>10, <1>11, <1>13 DEF TypeOK, LocksAreHeld, Idle
<1>. QED
  BY <1>5, <1>9, <1>10, <1>12, <1>14 DEF IngestInv, Sound

(* The rows of sites before and after their first ingest. *)
FirstRow(url, title) == Row(url, title, TRUE)
Ingested(row, bytes) == [row EXCEPT !.status = "success", !.digest = bytes]

LEMMA FirstRows ==
    ASSUME NEW url \in Urls, NEW title \in Titles, NEW bytes \in Bytes
    PROVE  /\ FirstRow(url, title) \in Rows
           /\ FirstRow(url, title).state = "registered"
           /\ FirstRow(url, title).status = "none"
           /\ FirstRow(url, title).url = url /\ FirstRow(url, title).title = title
           /\ Ingested(FirstRow(url, title), bytes) \in Rows
           /\ Ingested(FirstRow(url, title), bytes).state = "registered"
           /\ Ingested(FirstRow(url, title), bytes).digest = bytes
           /\ Ingested(FirstRow(url, title), bytes).url = url
           /\ Ingested(FirstRow(url, title), bytes).title = title
<1> DEFINE new == FirstRow(url, title)
<1>1. /\ new \in [state : {"registered"}, url : Urls, title : Titles, enabled : BOOLEAN,
                  status : {"none", "success", "failure"}, digest : Bytes \cup {Null}]
      /\ new.state = "registered" /\ new.status = "none" /\ new.url = url /\ new.title = title
  BY DEF FirstRow, Row
<1> HIDE DEF new
<1> DEFINE old == Ingested(new, bytes)
<1>2. /\ old \in [state : {"registered"}, url : Urls, title : Titles, enabled : BOOLEAN,
                  status : {"none", "success", "failure"}, digest : Bytes \cup {Null}]
      /\ old.state = "registered" /\ old.digest = bytes /\ old.url = url /\ old.title = title
  BY <1>1 DEF Ingested
<1> HIDE DEF old
<1>3. /\ new \in Rows /\ new.state = "registered" /\ new.status = "none"
      /\ new.url = url /\ new.title = title
      /\ old \in Rows /\ old.state = "registered" /\ old.digest = bytes
      /\ old.url = url /\ old.title = title
  BY <1>1, <1>2 DEF Rows
<1>. QED
  BY <1>3 DEF new, old

(* What a release finds: sites nobody ingested, or all of them ingested,     *)
(* each under the URL and the title of its row.                              *)
LEMMA InitIs ==
    ASSUME Init
    PROVE  /\ source \in [Sources -> Rows]
           /\ cached \in [Urls -> Bytes \cup {Null}] /\ published \in [Urls -> Bytes]
           /\ links \subseteq Links /\ DeregisteredIsGone /\ SkipIsSound
<1>1. PICK first \in Starts, ingested \in BOOLEAN :
        LET before(s) == published[Home[s]]
            row(s) == Row(Home[s], CHOOSE title \in Titles : TRUE, TRUE)
        IN /\ source = [s \in Sources |->
                IF s \notin first THEN Unused
                ELSE IF ingested
                THEN [row(s) EXCEPT !.status = "success", !.digest = before(s)]
                ELSE row(s)]
           /\ cached = [u \in Urls |->
                IF ingested /\ u \in {Home[s] : s \in first}
                THEN published[u] ELSE Null]
           /\ links = IF ingested
                THEN UNION {LinksOf(s, before(s), row(s)) : s \in first}
                ELSE {}
  BY Zenon DEF Init
<1> DEFINE title == CHOOSE x \in Titles : TRUE
           new(s) == FirstRow(Home[s], title)
           old(s) == Ingested(FirstRow(Home[s], title), published[Home[s]])
<1>2. title \in Titles
  BY IngestAssumption
<1>3. /\ published \in [Urls -> Contents] /\ first \subseteq Sources
      /\ Home \in [Sources -> Urls] /\ Contents \subseteq SUBSET Names
      /\ published \in [Urls -> Bytes]
  BY IngestAssumption DEF Init, Bytes
<1>4. source = [s \in Sources |->
        IF s \notin first THEN Unused ELSE IF ingested THEN old(s) ELSE new(s)]
  BY <1>1 DEF Ingested, FirstRow
<1>5. cached \in [Urls -> Bytes \cup {Null}]
  BY <1>1, <1>3
<1>6. links = IF ingested THEN UNION {LinksOf(s, published[Home[s]], new(s)) : s \in first}
              ELSE {}
  BY <1>1 DEF FirstRow
<1>7. ASSUME NEW s \in Sources
      PROVE  /\ new(s) \in Rows /\ new(s).state = "registered" /\ new(s).status = "none"
             /\ new(s).url = Home[s] /\ new(s).title = title
             /\ old(s) \in Rows /\ old(s).state = "registered"
             /\ old(s).digest = published[Home[s]]
             /\ old(s).url = Home[s] /\ old(s).title = title
  <2> HIDE DEF title
  <2>1. Home[s] \in Urls /\ published[Home[s]] \in Bytes
    BY <1>3
  <2>2. title \in Titles
    BY <1>2
  <2>. QED
    BY <2>1, <2>2, FirstRows
<1> HIDE DEF title, new, old
<1>8. source \in [Sources -> Rows] /\ \A s \in first : Registered(s)
  <2>1. Unused \in Rows
    BY DEF Rows
  <2>. QED
    BY <1>3, <1>4, <1>7, <2>1 DEF Registered
<1>9. ASSUME NEW s \in first
      PROVE  LinksOf(s, published[Home[s]], new(s))
                = [source : {s}, name : published[Home[s]], url : {Home[s]}, title : {title}]
  BY <1>3, <1>7 DEF LinksOf
<1>10. \A l \in links : \E s \in first :
            l \in [source : {s}, name : published[Home[s]], url : {Home[s]}, title : {title}]
  <2> TAKE l \in links
  <2>1. PICK s \in first : l \in LinksOf(s, published[Home[s]], new(s))
    BY <1>6
  <2>. QED
    BY <1>9, <2>1
<1>11. ASSUME NEW l \in links
       PROVE  l \in Links /\ Registered(l.source)
  <2>1. PICK s \in first :
            l \in [source : {s}, name : published[Home[s]], url : {Home[s]}, title : {title}]
    BY <1>10
  <2>2. Home[s] \in Urls /\ published[Home[s]] \subseteq Names /\ s \in Sources
    BY <1>3
  <2>. QED
    BY <1>2, <1>8, <2>1, <2>2 DEF Links
<1>12. SkipIsSound
  <2> SUFFICES ASSUME NEW s \in Sources, Registered(s), source[s].status = "success"
               PROVE  {l \in links : l.source = s} = LinksOf(s, source[s].digest, source[s])
    BY DEF SkipIsSound
  <2>1. s \in first /\ ingested /\ source[s] = old(s)
    BY <1>4, <1>7 DEF Registered, Unused
  <2>2. LinksOf(s, source[s].digest, source[s])
            = [source : {s}, name : published[Home[s]], url : {Home[s]}, title : {title}]
    BY <1>7, <2>1 DEF LinksOf
  <2>3. LinksOf(s, published[Home[s]], new(s)) \subseteq links
    BY <1>6, <2>1
  <2>. QED
    BY <1>9, <1>10, <2>1, <2>2, <2>3
<1>. QED
  BY <1>3, <1>5, <1>8, <1>11, <1>12 DEF DeregisteredIsGone

LEMMA IngestInit == Init => IngestInv
<1> SUFFICES ASSUME Init PROVE IngestInv
  OBVIOUS
<1>1. /\ source \in [Sources -> Rows] /\ cached \in [Urls -> Bytes \cup {Null}]
      /\ published \in [Urls -> Bytes] /\ links \subseteq Links /\ DeregisteredIsGone
  BY InitIs
<1>2. /\ nested = {} /\ entities = NamesOf(links) /\ worker = [w \in Workers |-> Idle]
      /\ registration = [s \in Sources |-> Free] /\ graph = Free /\ events = 0
  BY DEF Init
<1>3. entities \subseteq Names /\ nested \subseteq entities
  BY <1>1, <1>2 DEF NamesOf, Links
<1>4. LocksAreHeld
  BY <1>2, IngestAssumption DEF LocksAreHeld, At
<1>5. TypeOK
  BY <1>1, <1>2, <1>3, <1>4, IngestAssumption DEF TypeOK, LocksAreHeld
<1>. QED
  BY <1>1, <1>2, <1>5 DEF IngestInv

LEMMA IngestNext == IngestInv /\ [Next]_vars => IngestInv'
<1> SUFFICES ASSUME IngestInv, [Next]_vars PROVE IngestInv'
  OBVIOUS
<1>1. ASSUME NEW w \in Workers, Ingest(w) PROVE IngestInv'
  <2>1. CASE StartSweep(w)
    BY <2>1, StartSweepStep
  <2>2. CASE \E s \in Sources : StartTrigger(w, s)
    BY <2>2, StartTriggerStep
  <2>3. CASE ReadCurrent(w) \/ ReadStale(w) \/ ReadFails(w)
    BY <2>3, ReadCurrentStep, ReadStaleStep, ReadFailsStep
  <2>4. CASE RecordReadFailure(w) \/ RecordRefusedWrite(w)
    BY <2>4, RecordReadFailureStep, RecordRefusedWriteStep
  <2>5. CASE Abandon(w) \/ RecordUnchanged(w) \/ RecordParseFailure(w)
    BY <2>5, AbandonStep, RecordUnchangedStep, RecordParseFailureStep
  <2>6. CASE LockSource(w) \/ Write(w)
    BY <2>6, LockSourceStep, WriteStep
  <2>7. CASE Commit(w) \/ Refuse(w) \/ Crash(w)
    BY <2>7, CommitStep, RefuseStep, CrashStep
  <2>. QED
    BY <1>1, <2>1, <2>2, <2>3, <2>4, <2>5, <2>6, <2>7 DEF Ingest
<1>2. CASE \E w \in Workers : PatchWrites(w)
  BY <1>2, PatchWritesStep
<1>3. CASE Registry
  <2>1. PICK s \in Sources :
            \/ \E u \in Urls, title \in Titles, enabled \in BOOLEAN :
                \/ Register(s, u, title, enabled)
                \/ \E w \in Workers :
                    PatchReads(w, s, [url |-> u, title |-> title, enabled |-> enabled])
            \/ \E w \in Workers : StartDelete(w, s)
    BY <1>3 DEF Registry
  <2>2. ASSUME NEW u \in Urls, NEW title \in Titles, NEW enabled \in BOOLEAN, NEW w \in Workers,
               PatchReads(w, s, [url |-> u, title |-> title, enabled |-> enabled])
        PROVE  IngestInv'
    <3> DEFINE change == [url |-> u, title |-> title, enabled |-> enabled]
    <3>1. change \in [url : Urls, title : Titles, enabled : BOOLEAN] /\ PatchReads(w, s, change)
      BY <2>2
    <3> HIDE DEF change
    <3>. QED
      BY <3>1, PatchReadsStep
  <2>. QED
    BY <2>1, <2>2, RegisterStep, StartDeleteStep
<1>4. CASE \E u \in Urls : Publish(u)
  BY <1>4, PublishStep
<1>5. CASE UNCHANGED vars
  <2>1. UNCHANGED <<links, entities, nested, worker, locks>> /\ TypeOK
    BY <1>5 DEF vars, locks, IngestInv
  <2>2. RowsKept
    BY <1>5, <2>1 DEF vars, RowsKept, TypeOK, Registered
  <2>. QED
    BY <1>5, <2>1, <2>2, RestStep DEF vars, TypeOK
<1>. QED
  BY <1>1, <1>2, <1>3, <1>4, <1>5 DEF Next

(* Locks, tasks and rows stay in step: what a run read under a lock it holds *)
(* is what the database still says.                                          *)
THEOREM HoldersAreCurrent == Spec => []IngestInv
BY IngestInit, IngestNext, PTL DEF Spec

(* Every variable keeps its type, and each lock is held by whom it was        *)
(* granted to, for any number of concurrent runs and requests.                *)
THEOREM TypeCorrect == Spec => []TypeOK
<1>1. IngestInv => TypeOK
  BY DEF IngestInv
<1>. QED
  BY <1>1, HoldersAreCurrent, PTL

(* delete_source against an ingest in flight: no link is left to a source    *)
(* nobody registers, however deletions and ingests interleave.               *)
THEOREM NoneIsResurrected == Spec => []DeregisteredIsGone
<1>1. IngestInv => DeregisteredIsGone
  BY DEF IngestInv
<1>. QED
  BY <1>1, HoldersAreCurrent, PTL

-----------------------------------------------------------------------------
(* The graph converges and stays so *)

(* Only a commit writes links, entities or containment. *)
LEMMA OnlyCommits ==
    ASSUME Next, \A w \in Workers : ~Commit(w)
    PROVE  UNCHANGED <<links, entities, nested>>
<1>1. ASSUME NEW w \in Workers, Ingest(w)
      PROVE  UNCHANGED <<links, entities, nested>>
  BY <1>1 DEF Ingest, StartSweep, StartTrigger, ReadCurrent, ReadStale, ReadFails,
     RecordReadFailure, Abandon, RecordUnchanged, RecordParseFailure, LockSource, Write,
     Refuse, RecordRefusedWrite, Crash, database
<1>2. ASSUME NEW w \in Workers, PatchWrites(w)
      PROVE  UNCHANGED <<links, entities, nested>>
  BY <1>2 DEF PatchWrites
<1>3. CASE Registry
  BY <1>3 DEF Registry, Register, PatchReads, StartDelete, database
<1>4. CASE \E u \in Urls : Publish(u)
  BY <1>4 DEF Publish, database
<1>. QED
  BY <1>1, <1>2, <1>3, <1>4 DEF Next

LEMMA ConvergedRests ==
    ASSUME UNCHANGED <<links, entities, nested>>
    PROVE  Converged' <=> Converged
BY DEF Converged, NamesOf, NestedBy

(* recompute_containment and prune_orphan_entities run in the transaction    *)
(* that replaces links: once the graph is converged, no commit of anybody    *)
(* undoes that.                                                              *)
THEOREM ConvergenceLasts == Spec => StaysConverged
<1>1. IngestInv /\ [Next]_vars => [Converged => Converged']_vars
  <2> SUFFICES ASSUME IngestInv, Next, Converged PROVE Converged'
    BY DEF vars
  <2>1. CASE \E w \in Workers : Commit(w)
    BY <2>1, CommitIs
  <2>2. CASE \A w \in Workers : ~Commit(w)
    BY <2>2, OnlyCommits, ConvergedRests
  <2>. QED
    BY <2>1, <2>2
<1>. QED
  BY <1>1, HoldersAreCurrent, PTL DEF Spec, StaysConverged

(* A step of one run ends no other. *)
LEMMA OthersGoOn ==
    ASSUME IngestInv, NEW v \in Workers, NEW w \in Workers, v # w, worker[w] # Idle, NEW t,
           Step(v, t) \/ \E s : StampStep(v, s, t)
    PROVE  worker'[w] # Idle
<1>1. worker \in [Workers -> Tasks \cup {Idle}] /\ worker[w] \in Tasks
  BY DEF IngestInv
<1>2. CASE Step(v, t)
  BY <1>1, <1>2 DEF Step
<1>3. ASSUME NEW s, StampStep(v, s, t)
      PROVE  worker'[w] # Idle
  <2>1. worker'[w] = IF worker[w] # Idle /\ worker[w].id = s
                     THEN [worker[w] EXCEPT !.same = FALSE] ELSE worker[w]
    BY <1>3 DEF StampStep
  <2>2. [worker[w] EXCEPT !.same = FALSE] \in Tasks
    BY <1>1 DEF Tasks
  <2>. QED
    BY <1>1, <2>1, <2>2, IdleIs
<1>. QED
  BY <1>2, <1>3

(* A sweep ends when it has converged, or when a run of its own has. *)
LEMMA SweepEnds ==
    ASSUME IngestInv, Next, NEW w \in Workers, worker[w] # Idle,
           worker[w].op \in {"sweep", "converge"}, worker'[w] = Idle,
           ~Crash(w), ~Refuse(w), \A v \in Workers : ~Commit(v)
    PROVE  Converged
<1> DEFINE t == worker[w]
<1>1. worker \in [Workers -> Tasks \cup {Idle}] /\ t \in Tasks /\ RunIsSound(t) /\ TaskIsSound(t)
  BY DEF IngestInv, RunIsSound
<1>2. ASSUME NEW u, Step(w, u) \/ \E s : StampStep(w, s, u)
      PROVE  u = Idle
  BY <1>1, <1>2 DEF Step, StampStep
<1>3. ASSUME NEW p \in {"failed", "lock", "refused"}, At(w, p), Turn(t) = Idle
      PROVE  Converged
  <2>1. t.op = "sweep"
    BY <1>1, <1>3 DEF TaskIsSound, IsIngest, At
  <2>2. t.replaced
    BY <1>1, <1>3, <2>1, TurnIs, IdleIs DEF Tasks
  <2>. QED
    BY <1>1, <2>1, <2>2 DEF RunIsSound, SweepHasConverged
<1>4. ASSUME NEW v \in Workers, Ingest(v)
      PROVE  Converged
  <2>1. CASE v # w
    <3>1. \E u : Step(v, u) \/ \E s : StampStep(v, s, u)
      BY <1>4 DEF Ingest, StartSweep, StartTrigger, ReadCurrent, ReadStale, ReadFails,
         RecordReadFailure, Abandon, RecordUnchanged, RecordParseFailure, LockSource, Write,
         Refuse, RecordRefusedWrite, Crash
    <3>. QED
      BY <2>1, <3>1, OthersGoOn
  <2>2. CASE v = w
    <3>1. CASE ReadCurrent(w)
      <4>1. [t EXCEPT !.at = "lock", !.bytes = published[t.url]] = Idle
        BY <1>2, <3>1 DEF ReadCurrent
      <4>. QED
        BY <1>1, <4>1, IdleIs DEF Tasks
    <3>2. CASE ReadStale(w)
      <4>1. [t EXCEPT !.at = "lock", !.bytes = cached[t.url]] = Idle
        BY <1>2, <3>2 DEF ReadStale
      <4>. QED
        BY <1>1, <4>1, IdleIs DEF Tasks
    <3>3. CASE ReadFails(w)
      <4>1. [t EXCEPT !.at = "failed"] = Idle
        BY <1>2, <3>3 DEF ReadFails
      <4>. QED
        BY <1>1, <4>1, IdleIs DEF Tasks
    <3>4. CASE LockSource(w)
      <4>1. [t EXCEPT !.at = "graph", !.title = source[t.id].title] = Idle
        BY <1>2, <3>4 DEF LockSource
      <4>. QED
        BY <1>1, <4>1, IdleIs DEF Tasks
    <3>5. CASE Write(w)
      <4>1. [t EXCEPT !.at = "writing", !.change = ChangeOf(t)] = Idle
        BY <1>2, <3>5 DEF Write
      <4>. QED
        BY <1>1, <4>1, IdleIs DEF Tasks
    <3>6. CASE RecordReadFailure(w)
      BY <1>2, <1>3, <3>6 DEF RecordReadFailure
    <3>7. CASE Abandon(w) \/ RecordUnchanged(w) \/ RecordParseFailure(w)
      BY <1>2, <1>3, <3>7 DEF Abandon, RecordUnchanged, RecordParseFailure, Locks
    <3>8. CASE RecordRefusedWrite(w)
      BY <1>2, <1>3, <3>8 DEF RecordRefusedWrite
    <3>. QED
      BY <1>4, <2>2, <3>1, <3>2, <3>3, <3>4, <3>5, <3>6, <3>7, <3>8
         DEF Ingest, StartSweep, StartTrigger
  <2>. QED
    BY <2>1, <2>2
<1>5. ASSUME NEW v \in Workers, PatchWrites(v)
      PROVE  Converged
  <2>1. v # w
    BY <1>1, <1>5 DEF PatchWrites, At, TaskIsSound
  <2>2. Step(v, Idle)
    BY <1>5 DEF PatchWrites
  <2>. QED
    BY <2>1, <2>2, OthersGoOn
<1>6. CASE Registry
  <2>1. worker' = worker \/ \E v \in Workers : worker[v] = Idle /\ \E u : Step(v, u)
    BY <1>6 DEF Registry, Register, PatchReads, StartDelete
  <2>2. ASSUME NEW v \in Workers, worker[v] = Idle, NEW u, Step(v, u)
        PROVE  FALSE
    BY <2>2, OthersGoOn
  <2>. QED
    BY <2>1, <2>2
<1>7. CASE \E u \in Urls : Publish(u)
  BY <1>7 DEF Publish
<1>. QED
  BY <1>4, <1>5, <1>6, <1>7 DEF Next

(* ingest_all leaves containment and orphans as one pass over everything      *)
(* would, whether it replaced links, skipped every site or failed on some:    *)
(* a sweep that is not cut off ends on a converged graph.                     *)
THEOREM SweepsConverge == Spec => SweepConverges
<1> DEFINE Ends == \A w \in Workers :
                /\ worker[w] # Idle /\ worker[w].op \in {"sweep", "converge"}
                /\ worker'[w] = Idle /\ ~Crash(w) /\ ~Refuse(w)
                => Converged'
<1>1. IngestInv /\ [Next]_vars => [Ends]_vars
  <2> SUFFICES ASSUME IngestInv, Next PROVE Ends
    OBVIOUS
  <2>1. CASE \E v \in Workers : Commit(v)
    BY <2>1, CommitIs
  <2>2. CASE \A v \in Workers : ~Commit(v)
    BY <2>2, SweepEnds, OnlyCommits, ConvergedRests
  <2>. QED
    BY <2>1, <2>2
<1>. QED
  BY <1>1, HoldersAreCurrent, PTL DEF Spec, SweepConverges

-----------------------------------------------------------------------------
(* What a digest promises *)

(* What a row says was stored is stored. *)
SkipsSoundly(s) ==
    /\ Registered(s)
    /\ source[s].status = "success"
    /\ source[s].digest # Null
    => {l \in links : l.source = s} = LinksOf(s, source[s].digest, source[s])

LEMMA SkipIsSoundIs == SkipIsSound <=> \A s \in Sources : SkipsSoundly(s)
BY DEF SkipIsSound, SkipsSoundly

(* A row that says nothing new of links nobody wrote. *)
LEMMA SaysTheSame ==
    ASSUME links' = links, NEW s \in Sources, SkipsSoundly(s),
           \/ source'[s].state # "registered" \/ source'[s].status # "success"
           \/ source'[s].digest = Null
           \/ /\ source'[s].state = source[s].state /\ source'[s].status = source[s].status
              /\ source'[s].digest = source[s].digest
              /\ source'[s].url = source[s].url /\ source'[s].title = source[s].title
    PROVE  SkipsSoundly(s)'
BY DEF SkipsSoundly, Registered, LinksOf

(* A stamp: a failure makes no promise, and an unchanged site's success was  *)
(* promised already.                                                         *)
LEMMA StampSkips ==
    ASSUME IngestInv, SkipIsSound, links' = links, NEW r \in Sources, Registered(r),
           \/ source' = Stamped(r, "failure", Null)
           \/ /\ source[r].status = "success" /\ source[r].digest \in Bytes
              /\ source' = Stamped(r, "success", source[r].digest)
    PROVE  SkipIsSound'
<1>1. /\ \A s \in Sources \ {r} : source'[s] = source[s]
      /\ \/ source'[r].status = "failure"
         \/ /\ source'[r].state = "registered" /\ source'[r].status = "success"
            /\ source[r].status = "success" /\ source'[r].digest = source[r].digest
            /\ source'[r].url = source[r].url /\ source'[r].title = source[r].title
  BY StampIs
<1>2. ASSUME NEW s \in Sources PROVE SkipsSoundly(s)'
  <2>1. SkipsSoundly(s)
    BY SkipIsSoundIs
  <2>2. \/ source'[s].status # "success"
        \/ /\ source'[s].state = source[s].state /\ source'[s].status = source[s].status
           /\ source'[s].digest = source[s].digest
           /\ source'[s].url = source[s].url /\ source'[s].title = source[s].title
    BY <1>1 DEF Registered
  <2>. QED
    BY <2>1, <2>2, SaysTheSame
<1>. QED
  BY <1>2 DEF SkipIsSound, SkipsSoundly

(* The commit of an ingest stores what it stamps, under the row it holds. *)
LEMMA CommitSkips ==
    ASSUME IngestInv, SkipIsSound, NEW w \in Workers, Commit(w)
    PROVE  SkipIsSound'
<1> DEFINE t == worker[w]
<1>1. \A s \in Sources : s # t.id => source'[s] = source[s]
  BY CommitRows
<1>2. ASSUME NEW s \in Sources, s # t.id,
             {l \in links' : l.source = s} = {l \in links : l.source = s}
      PROVE  SkipsSoundly(s)'
  <2>1. SkipsSoundly(s) /\ source'[s] = source[s]
    BY <1>1, <1>2, SkipIsSoundIs
  <2>. QED
    BY <1>2, <2>1 DEF SkipsSoundly, Registered, LinksOf
<1>3. CASE /\ t.op = "converge" /\ t.id = NoSource
           /\ source' = source /\ links' = {l \in links : l.source # NoSource}
  <2>1. \A s \in Sources : s # t.id
    BY <1>3, IngestAssumption
  <2>2. \A s \in Sources : {l \in links' : l.source = s} = {l \in links : l.source = s}
    BY <1>3, <2>1
  <2>. QED
    BY <1>2, <2>1, <2>2 DEF SkipIsSound, SkipsSoundly
<1>4. CASE /\ t.op = "delete" /\ t.id \in Sources
           /\ source' = [source EXCEPT ![t.id] = Deleted]
           /\ links' = {l \in links : l.source # t.id}
  <2>1. \A s \in Sources : s # t.id =>
            {l \in links' : l.source = s} = {l \in links : l.source = s}
    BY <1>4
  <2>2. source'[t.id].state = "deleted"
    BY <1>4 DEF IngestInv, TypeOK, Deleted
  <2>3. ASSUME NEW i, i = t.id PROVE SkipsSoundly(i)'
    BY <2>2, <2>3 DEF SkipsSoundly, Registered
  <2>4. \A s \in Sources : SkipsSoundly(s)'
    BY <1>2, <2>1, <2>3
  <2>. QED
    BY <2>4 DEF SkipIsSound, SkipsSoundly
<1>5. CASE /\ IsIngest(t) /\ t.id \in Sources /\ t.bytes \in Contents /\ Registered(t.id)
           /\ source[t.id].url = t.url /\ source[t.id].title = t.title
           /\ source' = Stamped(t.id, "success", t.bytes)
           /\ links' = {l \in links : l.source # t.id} \cup LinksOf(t.id, t.bytes, t)
  <2>1. \A l \in LinksOf(t.id, t.bytes, t) : l.source = t.id
    BY DEF LinksOf
  <2>2. \A s \in Sources : s # t.id =>
            {l \in links' : l.source = s} = {l \in links : l.source = s}
    BY <1>5, <2>1
  <2>3. /\ source'[t.id].digest = t.bytes
        /\ source'[t.id].url = t.url /\ source'[t.id].title = t.title
    BY <1>5, StampIs DEF Bytes
  <2>4. ASSUME NEW i, i = t.id PROVE SkipsSoundly(i)'
    <3>1. {l \in links' : l.source = i} = LinksOf(i, t.bytes, t)
      BY <1>5, <2>1, <2>4
    <3>2. LinksOf(i, t.bytes, t) = LinksOf(i, source'[i].digest, source'[i])
      BY <2>3, <2>4 DEF LinksOf
    <3>. QED
      BY <3>1, <3>2 DEF SkipsSoundly, LinksOf
  <2>5. \A s \in Sources : SkipsSoundly(s)'
    BY <1>2, <2>2, <2>4
  <2>. QED
    BY <2>5 DEF SkipIsSound, SkipsSoundly
<1>. QED
  BY <1>3, <1>4, <1>5, CommitIs

(* A PATCH that compares with the digest the row has now clears what it      *)
(* makes untrue.                                                             *)
LEMMA PatchSkips ==
    ASSUME IngestInv, SkipIsSound, ~PatchesRace, NEW w \in Workers, PatchWrites(w)
    PROVE  SkipIsSound'
<1> DEFINE t == worker[w]
<1>1. /\ TypeOK /\ t.id \in Sources /\ t.change \in Patches /\ links' = links
  BY RunAt DEF PatchWrites, IngestInv, TaskIsSound
<1>2. CASE source' = source
  BY <1>1, <1>2, SkipIsSoundIs, SaysTheSame DEF SkipIsSound, SkipsSoundly
<1>3. CASE source' # source
  <2> DEFINE r == Patched(source[t.id], t.change.loaded, t.change.to)
             loaded == t.change.loaded
             to == t.change.to
  <2>1. Registered(t.id) /\ source' = [source EXCEPT ![t.id] = r]
    BY <1>3 DEF PatchWrites
  <2>2. to \in [url : Urls, title : Titles, enabled : BOOLEAN]
    BY <1>1 DEF Patches
  <2>3. /\ r.state = "registered" /\ r.status = source[t.id].status
        /\ r.url = IF to.url # loaded.url THEN to.url ELSE source[t.id].url
        /\ r.title = IF to.title # loaded.title THEN to.title ELSE source[t.id].title
        /\ r.digest = IF Differs(loaded, to) /\ source[t.id].digest # Null
                      THEN Null ELSE source[t.id].digest
    BY <1>1, <2>1, <2>2, PatchedIs
  <2> HIDE DEF r, loaded, to
  <2>4. \/ r.digest = Null
        \/ /\ r.digest = source[t.id].digest
           /\ r.url = source[t.id].url /\ r.title = source[t.id].title
    BY <2>3 DEF Differs
  <2>5. ASSUME NEW s \in Sources PROVE SkipsSoundly(s)'
    <3>1. SkipsSoundly(s)
      BY SkipIsSoundIs
    <3>2. source'[t.id] = r /\ (s # t.id => source'[s] = source[s])
      BY <1>1, <2>1 DEF TypeOK
    <3>3. \/ source'[s].digest = Null
          \/ /\ source'[s].state = source[s].state /\ source'[s].status = source[s].status
             /\ source'[s].digest = source[s].digest
             /\ source'[s].url = source[s].url /\ source'[s].title = source[s].title
      BY <2>1, <2>3, <2>4, <3>2 DEF Registered
    <3>. QED
      BY <1>1, <3>1, <3>3, SaysTheSame
  <2>. QED
    BY <2>5 DEF SkipIsSound, SkipsSoundly
<1>. QED
  BY <1>2, <1>3

LEMMA SkipRests ==
    ASSUME SkipIsSound, UNCHANGED <<source, links>>
    PROVE  SkipIsSound'
BY DEF SkipIsSound, Registered, LinksOf

LEMMA SkipNext ==
    ASSUME ~PatchesRace, IngestInv, SkipIsSound, [Next]_vars
    PROVE  SkipIsSound'
<1>1. ASSUME NEW w \in Workers, Ingest(w) PROVE SkipIsSound'
  <2>1. CASE Commit(w)
    BY <2>1, CommitSkips
  <2>2. CASE RecordReadFailure(w)
    <3>1. /\ worker[w].id \in Sources /\ links' = links
          /\ source' = IF Registered(worker[w].id)
                       THEN Stamped(worker[w].id, "failure", Null) ELSE source
      BY <2>2, RunAt DEF RecordReadFailure, TaskIsSound
    <3>. QED
      BY <3>1, StampSkips, SkipRests
  <2>3. CASE RecordRefusedWrite(w)
    <3>1. /\ worker[w].id \in Sources /\ links' = links
          /\ \/ source' = source
             \/ Registered(worker[w].id) /\ source' = Stamped(worker[w].id, "failure", Null)
      BY <2>3, RunAt DEF RecordRefusedWrite, TaskIsSound, IsStillOurs, StillNames
    <3>. QED
      BY <3>1, StampSkips, SkipRests
  <2>4. CASE RecordParseFailure(w)
    <3>1. /\ worker[w].id \in Sources /\ links' = links /\ Registered(worker[w].id)
          /\ source' = Stamped(worker[w].id, "failure", Null)
      BY <2>4, RunAt DEF RecordParseFailure, Locks, TaskIsSound, StillNames
    <3>. QED
      BY <3>1, StampSkips
  <2>5. CASE RecordUnchanged(w)
    <3>1. /\ worker[w].id \in Sources /\ links' = links /\ Registered(worker[w].id)
          /\ worker[w].bytes \in Bytes /\ source[worker[w].id].status = "success"
          /\ source[worker[w].id].digest = worker[w].bytes
          /\ source' = Stamped(worker[w].id, "success", worker[w].bytes)
      BY <2>5, RunAt DEF RecordUnchanged, Locks, TaskIsSound, StillNames, IsAlreadyIngested
    <3>. QED
      BY <3>1, StampSkips
  <2>6. CASE /\ ~Commit(w) /\ ~RecordReadFailure(w) /\ ~RecordRefusedWrite(w)
             /\ ~RecordParseFailure(w) /\ ~RecordUnchanged(w)
    <3>1. UNCHANGED <<source, links>>
      BY <1>1, <2>6 DEF Ingest, StartSweep, StartTrigger, ReadCurrent, ReadStale, ReadFails,
         Abandon, LockSource, Write, Refuse, Crash, database
    <3>. QED
      BY <3>1, SkipRests
  <2>. QED
    BY <2>1, <2>2, <2>3, <2>4, <2>5, <2>6
<1>2. CASE \E w \in Workers : PatchWrites(w)
  BY <1>2, PatchSkips
<1>3. CASE Registry
  <2>1. PICK s \in Sources :
            \/ \E u \in Urls, title \in Titles, enabled \in BOOLEAN : Register(s, u, title, enabled)
            \/ UNCHANGED <<source, links>>
    BY <1>3 DEF Registry, PatchReads, StartDelete, database
  <2>2. ASSUME NEW u \in Urls, NEW title \in Titles, NEW enabled \in BOOLEAN,
               Register(s, u, title, enabled)
        PROVE  SkipIsSound'
    <3>1. links' = links /\ source' = [source EXCEPT ![s] = Row(u, title, enabled)]
      BY <2>2 DEF Register
    <3>2. Row(u, title, enabled).digest = Null
      BY DEF Row
    <3>3. ASSUME NEW r \in Sources PROVE SkipsSoundly(r)'
      <4>1. SkipsSoundly(r)
        BY SkipIsSoundIs
      <4>2. source'[r].digest = Null \/ source'[r] = source[r]
        BY <3>1, <3>2 DEF IngestInv, TypeOK
      <4>. QED
        BY <3>1, <4>1, <4>2, SaysTheSame
    <3>. QED
      BY <3>3 DEF SkipIsSound, SkipsSoundly
  <2>. QED
    BY <2>1, <2>2, SkipRests
<1>4. CASE \E u \in Urls : Publish(u)
  BY <1>4, SkipRests DEF Publish, database
<1>5. CASE UNCHANGED vars
  BY <1>5, SkipRests DEF vars
<1>. QED
  BY <1>1, <1>2, <1>3, <1>4, <1>5 DEF Next

(* _is_already_ingested may skip a site for any interleaving of ingests,      *)
(* triggers, registrations and deletions, and of PATCHes that see the digest  *)
(* the row has when they write: what a success and its digest say was stored  *)
(* is stored, under the registration's URL and title.                         *)
THEOREM SkipsAreSound ==
    ASSUME ~PatchesRace
    PROVE  Spec => []SkipIsSound
<1>1. Init => SkipIsSound
  BY InitIs
<1>2. IngestInv /\ SkipIsSound /\ [Next]_vars => SkipIsSound'
  BY SkipNext
<1>. QED
  BY <1>1, <1>2, HoldersAreCurrent, PTL DEF Spec
=============================================================================
