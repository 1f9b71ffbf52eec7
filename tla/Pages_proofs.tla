----------------------------- MODULE Pages_proofs -----------------------------
(***************************************************************************)
(* Proofs about the paged listings of Stores, SdmLinks and Listings, for   *)
(* any rows and any page size.                                             *)
(*                                                                         *)
(* Both read the first entries of an ordered set, and hand out the entry   *)
(* beyond them as the next cursor.  What they rest on is stated about any  *)
(* finite chain: the entries that come before the one beyond a page are    *)
(* the page.                                                               *)
(***************************************************************************)
EXTENDS Stores, FiniteSetTheorems, WellFoundedInduction, TLAPS

-----------------------------------------------------------------------------
(* The first entries of a chain.                                           *)

\* S in an order: before[n] are the members that come before n.
Chain(S, before) ==
    /\ IsFiniteSet(S) /\ before \in [S -> SUBSET S]
    /\ \A n \in S : n \notin before[n] /\ \A m \in before[n] : before[m] \subseteq before[n]
    /\ \A m, n \in S : m \in before[n] \/ n \in before[m] \/ m = n

FirstOf(S, before, count) == {n \in S : Cardinality(before[n]) < count}

LEMMA ChainBefore ==
    ASSUME NEW S, NEW before, Chain(S, before), NEW n \in S
    PROVE  /\ before[n] \subseteq S /\ IsFiniteSet(before[n])
           /\ Cardinality(before[n]) \in Nat
<1>1. before[n] \subseteq S
  BY DEF Chain
<1>. QED
  BY <1>1, FS_Subset, FS_CardinalityType DEF Chain

(* Of two members, the one that comes before has fewer before it.          *)
LEMMA ChainRanks ==
    ASSUME NEW S, NEW before, Chain(S, before), NEW n \in S, NEW m \in before[n]
    PROVE  m \in S /\ Cardinality(before[m]) < Cardinality(before[n])
<1>1. m \in S /\ m \notin before[m] /\ before[m] \cup {m} \subseteq before[n]
  BY DEF Chain
<1>2. IsFiniteSet(before[n]) /\ IsFiniteSet(before[m])
  BY <1>1, ChainBefore
<1>3. /\ Cardinality(before[m] \cup {m}) = Cardinality(before[m]) + 1
      /\ Cardinality(before[m]) \in Nat /\ Cardinality(before[n]) \in Nat
  BY <1>1, <1>2, FS_AddElement, FS_CardinalityType
<1>4. Cardinality(before[m] \cup {m}) <= Cardinality(before[n])
  BY <1>1, <1>2, FS_Subset
<1>. QED
  BY <1>1, <1>3, <1>4

(* Some members have a first one, and a last one.                          *)
LEMMA ChainLeast ==
    ASSUME NEW S, NEW before, Chain(S, before), NEW T \in SUBSET S, T # {}
    PROVE  \E n \in T : \A m \in T : m \notin before[n]
<1> DEFINE sets == {before[n] : n \in T}
<1>1. sets \subseteq FiniteSubsetsOf(S) /\ sets # {}
  BY ChainBefore DEF FiniteSubsetsOf
<1>2. PICK x \in sets : \A y \in sets : <<y, x>> \notin StrictSubsetOrdering(S)
  <2> HIDE DEF sets
  <2>. QED
    BY <1>1, FS_StrictSubsetOrderingWellFounded, WFMin
<1>3. PICK n \in T : x = before[n]
  OBVIOUS
<1>4. ASSUME NEW m \in T, m \in before[n] PROVE FALSE
  <2>1. /\ before[m] \subseteq before[n] /\ before[m] # before[n]
        /\ before[m] \in SUBSET S /\ before[n] \in SUBSET S
    BY <1>4 DEF Chain
  <2>2. <<before[m], before[n]>> \in StrictSubsetOrdering(S)
    BY <2>1 DEF StrictSubsetOrdering
  <2>. QED
    BY <1>2, <1>3, <2>2
<1>. QED
  BY <1>4

LEMMA ChainGreatest ==
    ASSUME NEW S, NEW before, Chain(S, before), NEW T \in SUBSET S, T # {}
    PROVE  \E n \in T : \A m \in T : n \notin before[m]
<1> DEFINE sets == {S \ before[n] : n \in T}
<1>1. sets \subseteq FiniteSubsetsOf(S) /\ sets # {}
  <2>1. ASSUME NEW n \in T PROVE IsFiniteSet(S \ before[n])
    BY FS_Subset DEF Chain
  <2>. QED
    BY <2>1 DEF FiniteSubsetsOf
<1>2. PICK x \in sets : \A y \in sets : <<y, x>> \notin StrictSubsetOrdering(S)
  <2> HIDE DEF sets
  <2>. QED
    BY <1>1, FS_StrictSubsetOrderingWellFounded, WFMin
<1>3. PICK n \in T : x = S \ before[n]
  OBVIOUS
<1>4. ASSUME NEW m \in T, n \in before[m] PROVE FALSE
  <2>1. /\ S \ before[m] \subseteq S \ before[n] /\ S \ before[m] # S \ before[n]
        /\ S \ before[m] \in SUBSET S /\ S \ before[n] \in SUBSET S
    BY <1>4 DEF Chain
  <2>2. <<S \ before[m], S \ before[n]>> \in StrictSubsetOrdering(S)
    BY <2>1 DEF StrictSubsetOrdering
  <2>. QED
    BY <1>2, <1>3, <2>2
<1>. QED
  BY <1>4

(* Beyond the first count members there is none, or one: the first are     *)
(* those before it.                                                        *)
LEMMA BeyondTheFirst ==
    ASSUME NEW S, NEW before, Chain(S, before), NEW count \in Nat,
           NEW first, first = FirstOf(S, before, count),
           NEW beyond, beyond = FirstOf(S, before, count + 1) \ first
    PROVE  \/ beyond = {} /\ first = S
           \/ \E x \in S : /\ beyond = {x} /\ first = before[x]
                           /\ Cardinality(before[x]) = count
<1> DEFINE rank(n) == Cardinality(before[n])
<1>1. \A n \in S : rank(n) \in Nat /\ \A m \in before[n] : m \in S /\ rank(m) < rank(n)
  BY ChainBefore, ChainRanks
<1>2. \A n \in S : n \in beyond <=> rank(n) = count
  BY <1>1 DEF FirstOf
<1>3. CASE first = S
  BY <1>3 DEF FirstOf
<1>4. CASE first # S
  <2> DEFINE T == S \ first
  <2>1. T \in SUBSET S /\ T # {}
    BY <1>4 DEF FirstOf
  <2>2. PICK x \in T : \A m \in T : m \notin before[x]
    <3> HIDE DEF T
    <3>. QED
      BY <2>1, ChainLeast
  <2>3. x \in S /\ before[x] \subseteq first /\ rank(x) >= count
    BY <1>1, <2>2, ChainBefore DEF FirstOf
  <2>4. rank(x) = count
    <3>1. CASE before[x] = {}
      BY <2>3, <3>1, FS_EmptySet
    <3>2. CASE before[x] # {}
      <4>1. PICK m \in before[x] : \A n \in before[x] : m \notin before[n]
        BY <2>3, <3>2, ChainGreatest, ChainBefore
      <4>2. m \in S /\ rank(m) < count
        BY <1>1, <2>3, <4>1 DEF FirstOf
      <4>3. before[x] = before[m] \cup {m}
        BY <2>3, <4>1, <4>2 DEF Chain
      <4>4. rank(x) = rank(m) + 1
        <5>1. IsFiniteSet(before[m]) /\ m \notin before[m]
          BY <4>2, ChainBefore DEF Chain
        <5>. QED
          BY <4>3, <5>1, FS_AddElement
      <4>. QED
        BY <1>1, <2>3, <4>2, <4>4
    <3>. QED
      BY <3>1, <3>2
  <2>5. beyond = {x}
    <3>1. ASSUME NEW n \in S, rank(n) = count PROVE n = x
      BY <1>1, <2>3, <2>4, <3>1 DEF Chain
    <3>2. beyond \subseteq S
      BY DEF FirstOf
    <3>. QED
      BY <1>2, <2>3, <2>4, <3>1, <3>2
  <2>6. first = before[x]
    <3>1. ASSUME NEW n \in S, rank(n) < count PROVE n \in before[x]
      BY <1>1, <2>3, <2>4, <3>1 DEF Chain
    <3>. QED
      BY <2>3, <3>1 DEF FirstOf
  <2>. QED
    BY <2>3, <2>4, <2>5, <2>6
<1>. QED
  BY <1>3, <1>4

\* The last of some members.
After(T, before, n) == {m \in T : n \in before[m]}
LastOf(T, before, count) == {n \in T : Cardinality(After(T, before, n)) < count}

\* The members of C that come before n.
Within(C, before) == [n \in C |-> before[n] \cap C]

\* What is not in C comes before C.
Ends(C, S, before) == \A n \in S \ C, m \in C : n \in before[m]

LEMMA WithinIsChain ==
    ASSUME NEW S, NEW before, Chain(S, before), NEW C \in SUBSET S
    PROVE  Chain(C, Within(C, before))
<1>1. IsFiniteSet(C)
  BY FS_Subset DEF Chain
<1>. QED
  BY <1>1 DEF Chain, Within

\* A page from a cursor on, and what is beyond it: C is what the cursor lets
\* through, everything else comes before it.
ReadsPage(S, before, C, count, page, beyond) ==
    /\ Chain(S, before) /\ C \in SUBSET S /\ Ends(C, S, before) /\ count \in Nat
    /\ page = FirstOf(C, Within(C, before), count)
    /\ beyond = FirstOf(C, Within(C, before), count + 1) \ page

\* Everything is on the page, or what lies between the cursor and the entry
\* beyond the page, and the last entries before that are the page again.
Splits(before, C, count, page, beyond) ==
    \/ beyond = {} /\ page = C
    \/ \E x \in C :
            /\ beyond = {x} /\ page = before[x] \cap C
            /\ Cardinality(page) = count
            /\ page = LastOf(before[x], before, count)

LEMMA PageAndBeyond ==
    ASSUME NEW S, NEW before, NEW C, NEW count, NEW page, NEW beyond,
           ReadsPage(S, before, C, count, page, beyond)
    PROVE  Splits(before, C, count, page, beyond)
<1>0. /\ Chain(S, before) /\ C \in SUBSET S /\ Ends(C, S, before) /\ count \in Nat
      /\ page = FirstOf(C, Within(C, before), count)
      /\ beyond = FirstOf(C, Within(C, before), count + 1) \ page
  BY DEF ReadsPage
<1> DEFINE within == Within(C, before)
<1>1. Chain(C, within)
  BY <1>0, WithinIsChain
<1>2. ASSUME NEW x \in C, beyond = {x}, page = within[x], Cardinality(within[x]) = count
      PROVE  page = LastOf(before[x], before, count)
  <2> DEFINE after(n) == After(before[x], before, n)
  <2> HIDE DEF within
  <2>0. \A n \in S \ C, m \in C : n \in before[m]
    BY <1>0 DEF Ends
  <2>1. page = before[x] \cap C /\ IsFiniteSet(before[x]) /\ Cardinality(page) = count
    BY <1>0, <1>2, ChainBefore DEF within, Within
  <2>2. IsFiniteSet(page) /\ before[x] \subseteq S
    BY <1>0, <2>1, FS_Subset DEF Chain
  <2>3. ASSUME NEW n \in page PROVE Cardinality(after(n)) < count
    <3>1. after(n) \subseteq page \ {n}
      BY <1>0, <2>0, <2>1, <2>2 DEF Chain, After
    <3>2. Cardinality(page \ {n}) = count - 1 /\ IsFiniteSet(page \ {n})
      BY <1>0, <2>1, <2>2, <2>3, FS_RemoveElement
    <3> HIDE DEF after
    <3>3. IsFiniteSet(after(n)) /\ Cardinality(after(n)) <= Cardinality(page \ {n})
      BY <3>1, <3>2, FS_Subset
    <3>4. Cardinality(after(n)) \in Nat
      BY <3>3, FS_CardinalityType
    <3>. QED
      BY <1>0, <3>2, <3>3, <3>4
  <2>4. ASSUME NEW n \in before[x], n \notin page PROVE ~(Cardinality(after(n)) < count)
    <3>1. page \subseteq after(n)
      BY <1>0, <2>0, <2>1, <2>2, <2>4 DEF After
    <3>2. IsFiniteSet(after(n))
      BY <2>1, FS_Subset DEF After
    <3> HIDE DEF after
    <3>3. Cardinality(page) <= Cardinality(after(n)) /\ Cardinality(after(n)) \in Nat
      BY <3>1, <3>2, FS_Subset, FS_CardinalityType
    <3>. QED
      BY <1>0, <2>1, <3>3
  <2>. QED
    BY <2>1, <2>3, <2>4 DEF LastOf
<1>3. \/ beyond = {} /\ page = C
      \/ \E x \in C : beyond = {x} /\ page = within[x] /\ Cardinality(within[x]) = count
  <2>1. page = FirstOf(C, within, count) /\ beyond = FirstOf(C, within, count + 1) \ page
    BY <1>0
  <2> HIDE DEF within
  <2>. QED
    BY <1>0, <1>1, <2>1, BeyondTheFirst
<1>. QED
  <2>1. CASE beyond = {} /\ page = C
    BY <2>1 DEF Splits
  <2>2. ASSUME NEW x \in C, beyond = {x}, page = within[x], Cardinality(within[x]) = count
        PROVE  Splits(before, C, count, page, beyond)
    <3>1. page = before[x] \cap C
      BY <2>2 DEF Within
    <3>2. page = LastOf(before[x], before, count) /\ Cardinality(page) = count
      BY <1>2, <2>2
    <3>. QED
      BY <2>2, <3>1, <3>2 DEF Splits
  <2> HIDE DEF within
  <2>. QED
    BY <1>3, <2>1, <2>2

-----------------------------------------------------------------------------
(* The listings by one key.                                                *)

LEMMA KeysAreNumbers == RowKeys \subseteq Nat /\ 0 \notin RowKeys
BY PagesAssumption

ListedBefore == [k \in Paging!Listed |-> {j \in Paging!Listed : j < k}]

LEMMA ListedIsChain == Chain(Paging!Listed, ListedBefore)
<1>1. Paging!Listed \subseteq RowKeys /\ IsFiniteSet(Paging!Listed)
  BY PagesAssumption, FS_Subset DEF Paging!Listed
<1>2. Paging!Listed \subseteq Nat
  BY <1>1, KeysAreNumbers
<1> DEFINE S == Paging!Listed
           before == ListedBefore
<1>3. before = [k \in S |-> {j \in S : j < k}]
  BY DEF ListedBefore
<1> HIDE DEF S, before
<1>4. S \subseteq Nat /\ before \in [S -> SUBSET S] /\ \A n \in S : before[n] = {j \in S : j < n}
  BY <1>2, <1>3 DEF S
<1>5. \A n \in S : n \notin before[n] /\ \A m \in before[n] : before[m] \subseteq before[n]
  <2>1. ASSUME NEW n \in S PROVE n \notin before[n]
    BY <1>4
  <2>2. ASSUME NEW n \in S, NEW m \in before[n], NEW l \in before[m] PROVE l \in before[n]
    <3>1. m \in S /\ l \in S
      BY <1>4
    <3>2. l < m /\ m < n /\ {l, m, n} \subseteq Nat
      BY <1>4, <3>1
    <3>. QED
      BY <1>4, <3>1, <3>2
  <2>. QED
    BY <2>1, <2>2
<1>6. \A m, n \in S : m \in before[n] \/ n \in before[m] \/ m = n
  BY <1>4
<1>7. IsFiniteSet(S)
  BY <1>1 DEF S
<1>8. Chain(S, before)
  BY <1>4, <1>5, <1>6, <1>7 DEF Chain
<1>. QED
  BY <1>8 DEF S, before

RowsFrom(bound) == {k \in Paging!Listed : k >= bound}

LEMMA FirstRows ==
    ASSUME NEW bound \in Nat, NEW count \in Nat
    PROVE  Paging!First(RowsFrom(bound), count)
            = FirstOf(RowsFrom(bound), Within(RowsFrom(bound), ListedBefore), count)
<1> DEFINE C == RowsFrom(bound)
           within == Within(C, ListedBefore)
<1>1. ASSUME NEW k \in C PROVE within[k] = {j \in C : j < k}
  BY DEF Within, ListedBefore, RowsFrom
<1>2. ASSUME NEW k \in C PROVE Paging!Cardinality({j \in C : j < k}) = Cardinality(within[k])
  BY <1>1 DEF Cardinality, Paging!Cardinality
<1> HIDE DEF C, within
<1>3. Paging!First(C, count) = FirstOf(C, within, count)
  BY <1>2 DEF Paging!First, FirstOf
<1>. QED
  BY <1>3 DEF C, within

(* A page is every row from its cursor on, or the rows up to the next      *)
(* cursor, which leads back to them.                                       *)
LEMMA RowsOfPage ==
    ASSUME NEW bound \in Nat
    PROVE  \/ /\ Paging!Page(bound) = RowsFrom(bound)
              /\ Paging!Following(bound) = 0
           \/ \E x \in RowsFrom(bound) :
                /\ Paging!Page(bound) = {k \in RowsFrom(bound) : k < x}
                /\ Paging!Page(bound) # {}
                /\ Paging!Following(bound) = x
                /\ Paging!PageBefore(x) = Paging!Page(bound)
<1> DEFINE S == Paging!Listed
           C == RowsFrom(bound)
           before == ListedBefore
           page == FirstOf(C, Within(C, before), PageLimit)
           beyond == FirstOf(C, Within(C, before), PageLimit + 1) \ page
<1>1. PageLimit \in Nat \ {0} /\ S \subseteq Nat /\ C \in SUBSET S /\ Chain(S, before)
  BY PagesAssumption, KeysAreNumbers, ListedIsChain DEF Paging!Listed, RowsFrom
<1>2. Ends(C, S, before)
  BY <1>1 DEF ListedBefore, RowsFrom, Ends
<1>3. C = {k \in S : Paging!From(k, bound)}
  BY DEF Paging!From, RowsFrom
<1>4. Paging!Page(bound) = page
  BY <1>1, <1>3, FirstRows DEF Paging!Page
<1>5. /\ beyond = {} => Paging!Following(bound) = 0
      /\ \A x \in C : beyond = {x} => Paging!Following(bound) = x
  <2>1. Paging!First({k \in S : Paging!From(k, bound)}, PageLimit + 1) \ Paging!Page(bound) = beyond
    BY <1>1, <1>3, <1>4, FirstRows
  <2> HIDE DEF beyond
  <2>2. beyond = {} => Paging!Following(bound) = 0
    BY <2>1 DEF Paging!Following, Paging!Start
  <2>3. ASSUME NEW x \in C, beyond = {x} PROVE Paging!Following(bound) = x
    BY <2>1, <2>3 DEF Paging!Following
  <2>. QED
    BY <2>2, <2>3
<1>6. \/ beyond = {} /\ page = C
      \/ \E x \in C :
            /\ beyond = {x} /\ page = before[x] \cap C
            /\ Cardinality(page) = PageLimit
            /\ page = LastOf(before[x], before, PageLimit)
  <2>1. /\ page = FirstOf(C, Within(C, before), PageLimit)
        /\ beyond = FirstOf(C, Within(C, before), PageLimit + 1) \ page
    OBVIOUS
  <2> HIDE DEF S, C, before, page, beyond
  <2>2. ReadsPage(S, before, C, PageLimit, page, beyond)
    BY <1>1, <1>2, <2>1 DEF ReadsPage
  <2>3. Splits(before, C, PageLimit, page, beyond)
    BY <2>2, PageAndBeyond
  <2>. QED
    BY <2>3 DEF Splits
<1> HIDE DEF page, beyond
<1>7. ASSUME NEW x \in C, beyond = {x}, page = before[x] \cap C, Cardinality(page) = PageLimit,
             page = LastOf(before[x], before, PageLimit)
      PROVE  /\ page = {k \in C : k < x} /\ page # {}
             /\ Paging!PageBefore(x) = page
  <2>1. x \in S /\ before[x] = {k \in S : k < x}
    BY <1>1 DEF ListedBefore
  <2>2. page = {k \in C : k < x}
    BY <1>1, <1>7, <2>1
  <2>3. page # {}
    BY <1>1, <1>7, FS_EmptySet
  <2>4. before[x] = {k \in S : Paging!Before(k, x)}
    BY <2>1 DEF Paging!Before
  <2>5. ASSUME NEW n \in before[x]
        PROVE  Paging!Cardinality({m \in before[x] : m > n})
                = Cardinality(After(before[x], before, n))
    <3>1. {m \in before[x] : m > n} = After(before[x], before, n)
      BY <1>1, <2>1 DEF ListedBefore, After
    <3>. QED
      BY <3>1 DEF Cardinality, Paging!Cardinality
  <2>6. Paging!Last(before[x], PageLimit) = page
    BY <1>7, <2>5 DEF Paging!Last, LastOf
  <2>. QED
    BY <2>2, <2>3, <2>4, <2>6 DEF Paging!PageBefore
<1>. QED
  BY <1>4, <1>5, <1>6, <1>7

WalkRecords ==
    [at : {"away", "asking", "found", "filling", "done", "missing"},
     cursor : RowKeys \cup {0}, page : SUBSET RowKeys,
     next : RowKeys \cup {0}, seen : [RowKeys -> 0 .. 2],
     stayed : SUBSET RowKeys, shown : SUBSET RowKeys, fresh : BOOLEAN]

\* The last rows of S before a bound.
Back(bound, S) == Paging!Last({k \in S : k < bound}, PageLimit)

\* The rows that the client has not seen yet are those from a bound on.
SeenBefore(w, bound) ==
    \A k \in w.stayed : w.seen[k] = IF k >= bound THEN 0 ELSE 1

\* The page w is about to show is that from its cursor to its next one.
PageIsRead(w, S) ==
    /\ w.next = 0 \/ w.next >= w.cursor
    /\ \A k \in w.stayed :
        k \in w.page <=> k >= w.cursor /\ (w.next = 0 \/ k < w.next)
    /\ w.fresh => w.page \subseteq S
    /\ w.fresh /\ w.next # 0 => Back(w.next, S) = w.page

WalkIsAt(w, S) ==
    /\ w.stayed \subseteq S
    /\ w.at \in {"away", "missing"} => w.stayed = {}
    /\ w.at \in {"asking", "found", "filling"} => SeenBefore(w, w.cursor)
    /\ w.at \in {"asking", "found"} /\ w.fresh => Back(w.cursor, S) = w.shown
    /\ w.at = "filling" => PageIsRead(w, S)
    /\ w.at = "done" => \A k \in w.stayed : w.seen[k] = 1

(* Only children are listed of a parent; if it is gone, none are.  The     *)
(* client has seen what stays up to its cursor, and no further.            *)
PagesInv ==
    /\ collection \in Paging!Collections /\ parent \in BOOLEAN
    /\ rows \in [RowKeys -> {"absent", "other", "wanted"}]
    /\ walker \in WalkRecords
    /\ parent \/ (collection = "children" /\ Paging!Listed = {})
    /\ walker.at = "found" => collection = "children"
    /\ WalkIsAt(walker, Paging!Listed)

LEMMA WalkTyped ==
    ASSUME PagesInv
    PROVE  /\ walker.cursor \in RowKeys \cup {0} /\ walker.cursor \in Nat
           /\ Paging!Listed \subseteq RowKeys
           /\ walker.stayed \subseteq Paging!Listed /\ walker.stayed \subseteq RowKeys
           /\ walker.page \in SUBSET RowKeys /\ walker.next \in RowKeys \cup {0}
           /\ walker.seen \in [RowKeys -> 0 .. 2]
<1>1. walker \in WalkRecords /\ walker.stayed \subseteq Paging!Listed
  BY DEF PagesInv, WalkIsAt
<1>2. /\ walker.cursor \in RowKeys \cup {0} /\ walker.stayed \in SUBSET RowKeys
      /\ walker.page \in SUBSET RowKeys /\ walker.next \in RowKeys \cup {0}
      /\ walker.seen \in [RowKeys -> 0 .. 2]
  BY <1>1 DEF WalkRecords
<1>3. walker.cursor \in Nat
  BY <1>2, KeysAreNumbers
<1>. QED
  BY <1>1, <1>2, <1>3 DEF Paging!Listed

LEMMA BackLeads == \A bound : Paging!PageBefore(bound) = Back(bound, Paging!Listed)
BY DEF Paging!PageBefore, Paging!Before, Back

LEMMA AwayIs ==
    /\ Paging!Away \in WalkRecords /\ Paging!Away.at = "away" /\ Paging!Away.stayed = {}
    /\ ~Paging!Away.fresh /\ Paging!Away.cursor = 0
    /\ Paging!Away.seen = [k \in RowKeys |-> 0]
BY DEF Paging!Away, WalkRecords, Paging!Start

LEMMA PagesInit == Paging!Init => PagesInv
<1> SUFFICES ASSUME Paging!Init PROVE PagesInv
  OBVIOUS
<1>1. /\ collection \in Paging!Collections /\ parent \in BOOLEAN
      /\ rows \in [RowKeys -> {"absent", "other", "wanted"}]
      /\ walker = Paging!Away /\ Paging!Listed = {} /\ (parent \/ collection = "children")
  BY DEF Paging!Init, Paging!Listed
<1>. QED
  BY <1>1, AwayIs DEF PagesInv, WalkIsAt

LEMMA AskStep ==
    ASSUME PagesInv, Paging!Ask
    PROVE  PagesInv'
<1> DEFINE staying == IF parent THEN Paging!Listed ELSE {}
           w == [Paging!Away EXCEPT !.at = "asking", !.stayed = staying]
<1>1. walker' = w /\ UNCHANGED <<collection, rows, parent>>
  BY DEF Paging!Ask
<1>2. staying \subseteq Paging!Listed /\ staying \in SUBSET RowKeys
  BY DEF Paging!Listed
<1> HIDE DEF staying
<1>3. /\ w \in WalkRecords /\ w.at = "asking" /\ w.stayed = staying /\ ~w.fresh
      /\ w.cursor = 0 /\ w.seen = [k \in RowKeys |-> 0]
  BY <1>2, AwayIs DEF WalkRecords
<1> HIDE DEF w
<1>4. SeenBefore(w, w.cursor)
  <2>1. ASSUME NEW k \in w.stayed PROVE w.seen[k] = 0 /\ k >= 0
    <3>1. k \in RowKeys
      BY <1>2, <1>3
    <3>2. k \in Nat
      BY <3>1, KeysAreNumbers
    <3>. QED
      BY <1>3, <3>1, <3>2
  <2>. QED
    BY <1>3, <2>1 DEF SeenBefore
<1>5. WalkIsAt(w, Paging!Listed)
  BY <1>2, <1>3, <1>4 DEF WalkIsAt
<1>6. Paging!Listed' = Paging!Listed
  BY <1>1 DEF Paging!Listed
<1>. QED
  BY <1>1, <1>3, <1>5, <1>6 DEF PagesInv

LEMMA LookUpParentStep ==
    ASSUME PagesInv, Paging!LookUpParent
    PROVE  PagesInv'
<1> DEFINE at == IF parent THEN "found" ELSE "missing"
           w == [walker EXCEPT !.at = at]
<1>1. /\ walker.at = "asking" /\ collection = "children"
      /\ walker' = w /\ UNCHANGED <<collection, rows, parent>>
  BY DEF Paging!LookUpParent
<1>2. at \in {"found", "missing"} /\ (at = "missing" => Paging!Listed = {})
  BY DEF PagesInv
<1> HIDE DEF at
<1>3. /\ w \in WalkRecords /\ w.at = at /\ w.stayed = walker.stayed /\ w.fresh = walker.fresh
      /\ w.cursor = walker.cursor /\ w.seen = walker.seen /\ w.shown = walker.shown
  BY <1>2 DEF WalkRecords, PagesInv
<1> HIDE DEF w
<1>4. WalkIsAt(w, Paging!Listed)
  BY <1>1, <1>2, <1>3 DEF PagesInv, WalkIsAt, SeenBefore
<1>5. Paging!Listed' = Paging!Listed
  BY <1>1 DEF Paging!Listed
<1>. QED
  BY <1>1, <1>3, <1>4, <1>5 DEF PagesInv

LEMMA LeaveListing ==
    ASSUME PagesInv, Paging!Leave
    PROVE  PagesInv'
<1>1. walker' = Paging!Away /\ UNCHANGED <<collection, rows, parent>>
  BY DEF Paging!Leave
<1>2. Paging!Listed' = Paging!Listed
  BY <1>1 DEF Paging!Listed
<1>. QED
  BY <1>1, <1>2, AwayIs DEF PagesInv, WalkIsAt

(* What the client holds once it is answered.                              *)
LEMMA AnsweredIs ==
    ASSUME PagesInv, NEW page \in SUBSET RowKeys, NEW next \in RowKeys \cup {0},
           NEW a, a = Paging!Answered(page, next)
    PROVE  /\ a \in WalkRecords /\ a.stayed = walker.stayed
           /\ a.at = (IF next = 0 THEN "done" ELSE "asking")
           /\ next # 0 => a.cursor = next
           /\ \A k \in RowKeys :
                a.seen[k] = IF k \in page \cap walker.stayed /\ walker.seen[k] < 2
                            THEN walker.seen[k] + 1 ELSE walker.seen[k]
           /\ a.fresh => a.shown = page /\ (walker.at = "filling" => walker.fresh)
<1> DEFINE seen == [k \in RowKeys |-> IF k \in page \cap walker.stayed /\ walker.seen[k] < 2
                                      THEN walker.seen[k] + 1 ELSE walker.seen[k]]
           shown == IF walker.at = "filling" /\ ~walker.fresh THEN {} ELSE page
           fresh == walker.at # "filling" \/ walker.fresh
           cursor == IF next = 0 THEN walker.cursor ELSE next
           at == IF next = 0 THEN "done" ELSE "asking"
<1>1. a = [walker EXCEPT !.seen = seen, !.page = {}, !.next = 0, !.shown = shown,
                         !.fresh = fresh, !.cursor = cursor, !.at = at]
  BY DEF Paging!Answered, Paging!Start
<1>2. walker \in WalkRecords
  BY DEF PagesInv
<1>3. seen \in [RowKeys -> 0 .. 2]
  BY <1>2 DEF WalkRecords
<1>4. /\ shown \in SUBSET RowKeys /\ fresh \in BOOLEAN /\ cursor \in RowKeys \cup {0}
      /\ at \in {"done", "asking"} /\ (fresh => shown = page)
      /\ fresh => (walker.at = "filling" => walker.fresh)
  BY <1>2 DEF WalkRecords
<1> HIDE DEF seen, shown, fresh, cursor, at
<1>5. /\ a \in WalkRecords /\ a.stayed = walker.stayed /\ a.at = at /\ a.cursor = cursor
      /\ a.seen = seen /\ (a.fresh => fresh) /\ a.shown = shown
  BY <1>1, <1>2, <1>3, <1>4 DEF WalkRecords
<1>. QED
  BY <1>4, <1>5 DEF seen, cursor, at

(* Showing a page moves the client on to the page's end.                   *)
LEMMA AnsweringSees ==
    ASSUME PagesInv, NEW page \in SUBSET RowKeys, NEW next \in RowKeys \cup {0},
           NEW a, a = Paging!Answered(page, next),
           SeenBefore(walker, walker.cursor), walker.at \in {"asking", "found", "filling"},
           next = 0 \/ next >= walker.cursor,
           \A k \in walker.stayed :
                k \in page <=> k >= walker.cursor /\ (next = 0 \/ k < next),
           next # 0 /\ a.fresh => Back(next, Paging!Listed) = page
    PROVE  a \in WalkRecords /\ a.at # "found" /\ WalkIsAt(a, Paging!Listed)
<1>1. /\ a \in WalkRecords /\ a.stayed = walker.stayed
      /\ a.at = (IF next = 0 THEN "done" ELSE "asking")
      /\ next # 0 => a.cursor = next
      /\ a.fresh => a.shown = page
  BY AnsweredIs
<1>2. /\ walker.stayed \subseteq Paging!Listed /\ walker.stayed \subseteq RowKeys
      /\ walker.cursor \in Nat /\ next \in Nat
  BY WalkTyped, KeysAreNumbers
<1>3. ASSUME NEW k \in walker.stayed
      PROVE  a.seen[k] = IF next # 0 /\ k >= next THEN 0 ELSE 1
  <2>1. k \in RowKeys /\ k \in Nat
    BY <1>2, KeysAreNumbers
  <2>2. walker.seen[k] = IF k >= walker.cursor THEN 0 ELSE 1
    BY DEF SeenBefore
  <2>3. a.seen[k] = IF k \in page THEN walker.seen[k] + 1 ELSE walker.seen[k]
    BY <2>1, <2>2, AnsweredIs
  <2>4. k \in page <=> k >= walker.cursor /\ (next = 0 \/ k < next)
    OBVIOUS
  <2>. QED
    BY <1>2, <2>1, <2>2, <2>3, <2>4
<1>4. a.at = "asking" => SeenBefore(a, a.cursor)
  BY <1>1, <1>3 DEF SeenBefore
<1>5. a.at = "done" => \A k \in a.stayed : a.seen[k] = 1
  BY <1>1, <1>3
<1>. QED
  BY <1>1, <1>2, <1>4, <1>5 DEF WalkIsAt

LEMMA PageFromCursor ==
    ASSUME PagesInv, NEW page, page = Paging!Page(walker.cursor),
           NEW next, next = Paging!Following(walker.cursor)
    PROVE  /\ page \in SUBSET RowKeys /\ page \subseteq Paging!Listed
           /\ next \in RowKeys \cup {0} /\ (page = {} => next = 0)
           /\ next = 0 \/ next >= walker.cursor
           /\ \A k \in walker.stayed :
                k \in page <=> k >= walker.cursor /\ (next = 0 \/ k < next)
           /\ next # 0 => Back(next, Paging!Listed) = page
<1> DEFINE S == Paging!Listed
<1>1. /\ S \subseteq RowKeys /\ walker.stayed \subseteq S /\ walker.cursor \in Nat
  BY WalkTyped
<1>2. RowsFrom(walker.cursor) = {k \in S : k >= walker.cursor}
  BY DEF RowsFrom
<1>3. CASE page = RowsFrom(walker.cursor) /\ next = 0
  BY <1>1, <1>2, <1>3
<1>4. ASSUME NEW x \in RowsFrom(walker.cursor), page = {k \in RowsFrom(walker.cursor) : k < x},
             page # {}, next = x, Paging!PageBefore(x) = page
      PROVE  /\ page \in SUBSET RowKeys /\ page \subseteq Paging!Listed
             /\ next \in RowKeys \cup {0} /\ (page = {} => next = 0)
             /\ next = 0 \/ next >= walker.cursor
             /\ \A k \in walker.stayed :
                    k \in page <=> k >= walker.cursor /\ (next = 0 \/ k < next)
             /\ next # 0 => Back(next, Paging!Listed) = page
  <2>1. x \in RowKeys /\ x # 0 /\ x >= walker.cursor
    BY <1>1, <1>2, KeysAreNumbers
  <2>2. Back(x, S) = page
    BY <1>4, BackLeads
  <2>. QED
    BY <1>1, <1>2, <1>4, <2>1, <2>2
<1>. QED
  BY <1>1, <1>3, <1>4, RowsOfPage

LEMMA ReadPageStep ==
    ASSUME PagesInv, Paging!ReadPage
    PROVE  PagesInv'
<1> DEFINE page == Paging!Page(walker.cursor)
           next == Paging!Following(walker.cursor)
<1>1. /\ page \in SUBSET RowKeys /\ page \subseteq Paging!Listed
      /\ next \in RowKeys \cup {0} /\ (page = {} => next = 0)
      /\ next = 0 \/ next >= walker.cursor
      /\ \A k \in walker.stayed :
           k \in page <=> k >= walker.cursor /\ (next = 0 \/ k < next)
      /\ next # 0 => Back(next, Paging!Listed) = page
  <2> HIDE DEF page, next
  <2>. QED
    BY PageFromCursor DEF page, next
<1>2. ~parent => page = {}
  BY <1>1 DEF PagesInv
<1>3. /\ walker.at \in {"asking", "found"} /\ (walker.at = "found" => collection = "children")
      /\ UNCHANGED <<collection, rows, parent>>
      /\ walker' = IF collection \in Paging!InTwo /\ page # {}
                   THEN [walker EXCEPT !.at = "filling", !.page = page,
                                       !.next = next, !.fresh = TRUE]
                   ELSE Paging!Answered(page, next)
  <2>1. /\ walker.at = IF collection = "children" THEN "found" ELSE "asking"
        /\ UNCHANGED <<collection, rows, parent>>
    BY DEF Paging!ReadPage
  <2>2. /\ page = IF collection = "children" /\ ~parent THEN {} ELSE Paging!Page(walker.cursor)
        /\ next = IF page = {} THEN Paging!Start ELSE Paging!Following(walker.cursor)
    BY <1>1, <1>2 DEF Paging!Start
  <2>. QED
    BY <2>1, <2>2 DEF Paging!ReadPage
<1>4. Paging!Listed' = Paging!Listed
  BY <1>3 DEF Paging!Listed
<1> HIDE DEF page, next
<1>5. /\ walker \in WalkRecords /\ walker.stayed \subseteq Paging!Listed
      /\ SeenBefore(walker, walker.cursor)
  BY <1>3 DEF PagesInv, WalkIsAt
<1>6. walker' \in WalkRecords /\ walker'.at # "found" /\ WalkIsAt(walker', Paging!Listed)
  <2>1. CASE collection \in Paging!InTwo /\ page # {}
    <3> DEFINE w == [walker EXCEPT !.at = "filling", !.page = page,
                                   !.next = next, !.fresh = TRUE]
    <3>1. walker' = w
      BY <1>3, <2>1
    <3>2. /\ w \in WalkRecords /\ w.at = "filling" /\ w.page = page /\ w.next = next
          /\ w.stayed = walker.stayed /\ w.seen = walker.seen /\ w.cursor = walker.cursor
      BY <1>1, <1>5 DEF WalkRecords
    <3> HIDE DEF w
    <3>3. SeenBefore(w, w.cursor) /\ PageIsRead(w, Paging!Listed)
      BY <1>1, <1>5, <3>2 DEF SeenBefore, PageIsRead
    <3>. QED
      BY <1>5, <3>1, <3>2, <3>3 DEF WalkIsAt
  <2>2. CASE ~(collection \in Paging!InTwo /\ page # {})
    <3>1. walker' = Paging!Answered(page, next)
      BY <1>3, <2>2
    <3>. QED
      BY <1>1, <1>3, <1>5, <3>1, AnsweringSees
  <2>. QED
    BY <2>1, <2>2
<1>. QED
  BY <1>3, <1>4, <1>6 DEF PagesInv

LEMMA FillPageStep ==
    ASSUME PagesInv, Paging!FillPage
    PROVE  PagesInv'
<1> DEFINE page == {k \in walker.page : rows[k] # "absent"}
           next == walker.next
<1>1. /\ walker.at = "filling" /\ UNCHANGED <<collection, rows, parent>>
      /\ walker' = Paging!Answered(page, next)
  BY DEF Paging!FillPage
<1>2. SeenBefore(walker, walker.cursor) /\ PageIsRead(walker, Paging!Listed)
  BY <1>1 DEF PagesInv, WalkIsAt
<1>3. page \in SUBSET RowKeys /\ next \in RowKeys \cup {0}
  BY WalkTyped
<1>4. \A k \in walker.stayed : k \in page <=> k \in walker.page
  BY WalkTyped DEF Paging!Listed
<1>5. walker.page \subseteq Paging!Listed => page = walker.page
  BY DEF Paging!Listed
<1> HIDE DEF page
<1>6. walker'.fresh => walker.fresh
  BY <1>1, <1>3, AnsweredIs
<1>7. next # 0 /\ walker'.fresh => Back(next, Paging!Listed) = page
  BY <1>2, <1>5, <1>6 DEF PageIsRead
<1>8. walker' \in WalkRecords /\ walker'.at # "found" /\ WalkIsAt(walker', Paging!Listed)
  <2>1. /\ next = 0 \/ next >= walker.cursor
        /\ \A k \in walker.stayed : k \in page <=> k >= walker.cursor /\ (next = 0 \/ k < next)
    BY <1>2, <1>4 DEF PageIsRead
  <2> HIDE DEF next
  <2>. QED
    BY <1>1, <1>2, <1>3, <1>7, <2>1, AnsweringSees
<1>9. Paging!Listed' = Paging!Listed
  BY <1>1 DEF Paging!Listed
<1>. QED
  BY <1>1, <1>8, <1>9 DEF PagesInv

(* Rows that go, or come, leave the client where it was.                   *)
LEMMA ForgetKeeps ==
    ASSUME PagesInv, NEW gone \in SUBSET RowKeys, Paging!Forget(gone),
           NEW S, walker.stayed \ gone \subseteq S
    PROVE  walker' \in WalkRecords /\ walker'.at = walker.at /\ WalkIsAt(walker', S)
<1> DEFINE staying == walker.stayed \ gone
           seen == [k \in RowKeys |-> IF k \in gone THEN 0 ELSE walker.seen[k]]
           w == [walker EXCEPT !.stayed = staying, !.seen = seen, !.shown = {}, !.fresh = FALSE]
<1>1. walker' = w
  BY DEF Paging!Forget
<1>2. /\ staying \in SUBSET RowKeys /\ seen \in [RowKeys -> 0 .. 2]
      /\ staying \subseteq walker.stayed /\ \A k \in staying : seen[k] = walker.seen[k]
  BY WalkTyped
<1> HIDE DEF staying, seen
<1>3. /\ w \in WalkRecords /\ w.at = walker.at /\ w.stayed = staying /\ w.seen = seen
      /\ ~w.fresh /\ w.cursor = walker.cursor /\ w.next = walker.next /\ w.page = walker.page
  BY <1>2 DEF WalkRecords, PagesInv
<1> HIDE DEF w
<1>4. staying \subseteq S
  BY DEF staying
<1>5. WalkIsAt(w, S)
  BY <1>2, <1>3, <1>4 DEF PagesInv, WalkIsAt, SeenBefore, PageIsRead
<1>. QED
  BY <1>1, <1>3, <1>5

LEMMA ChangeRowStep ==
    ASSUME PagesInv, NEW k \in RowKeys, NEW to \in {"absent", "other", "wanted"},
           Paging!ChangeRow(k, to)
    PROVE  PagesInv'
<1> DEFINE gone == IF to = "wanted" THEN {} ELSE {k}
<1>1. /\ to = "wanted" /\ collection = "children" => parent
      /\ rows' = [rows EXCEPT ![k] = to] /\ Paging!Forget(gone)
      /\ UNCHANGED <<collection, parent>>
  BY DEF Paging!ChangeRow
<1>2. rows \in [RowKeys -> {"absent", "other", "wanted"}]
  BY DEF PagesInv
<1>3. \A j \in RowKeys : rows'[j] = IF j = k THEN to ELSE rows[j]
  BY <1>1, <1>2
<1>4. rows' \in [RowKeys -> {"absent", "other", "wanted"}]
  BY <1>1, <1>2
<1>5. walker.stayed \ gone \subseteq Paging!Listed' /\ gone \in SUBSET RowKeys
  BY <1>3, WalkTyped DEF Paging!Listed
<1>6. parent' \/ (collection' = "children" /\ Paging!Listed' = {})
  BY <1>1, <1>3 DEF PagesInv, Paging!Listed
<1> HIDE DEF gone
<1>7. walker' \in WalkRecords /\ walker'.at = walker.at /\ WalkIsAt(walker', Paging!Listed')
  BY <1>1, <1>5, ForgetKeeps
<1>. QED
  BY <1>1, <1>4, <1>6, <1>7 DEF PagesInv

LEMMA ChangeParentStep ==
    ASSUME PagesInv, Paging!ChangeParent
    PROVE  PagesInv'
<1>1. /\ collection = "children" /\ collection' = collection /\ parent' = ~parent
      /\ rows' = [k \in RowKeys |-> IF rows[k] = "wanted" THEN "other" ELSE rows[k]]
      /\ Paging!Forget(RowKeys)
  BY DEF Paging!ChangeParent
<1>2. rows' \in [RowKeys -> {"absent", "other", "wanted"}] /\ Paging!Listed' = {}
  BY <1>1 DEF PagesInv, Paging!Listed
<1>3. walker' \in WalkRecords /\ walker'.at = walker.at /\ WalkIsAt(walker', Paging!Listed')
  BY <1>1, WalkTyped, ForgetKeeps
<1>. QED
  BY <1>1, <1>2, <1>3 DEF PagesInv

LEMMA PagesNext == PagesInv /\ [Paging!Next]_Paging!vars => PagesInv'
<1> SUFFICES ASSUME PagesInv, [Paging!Next]_Paging!vars PROVE PagesInv'
  OBVIOUS
<1>1. CASE Paging!Ask \/ Paging!LookUpParent \/ Paging!Leave
  BY <1>1, AskStep, LookUpParentStep, LeaveListing
<1>2. CASE Paging!ReadPage \/ Paging!FillPage
  BY <1>2, ReadPageStep, FillPageStep
<1>3. CASE \E k \in RowKeys, to \in {"absent", "other", "wanted"} : Paging!ChangeRow(k, to)
  BY <1>3, ChangeRowStep
<1>4. CASE Paging!ChangeParent
  BY <1>4, ChangeParentStep
<1>5. CASE UNCHANGED Paging!vars
  <2>1. /\ collection' = collection /\ rows' = rows /\ parent' = parent /\ walker' = walker
    BY <1>5 DEF Paging!vars
  <2>2. Paging!Listed' = Paging!Listed
    BY <2>1 DEF Paging!Listed
  <2>. QED
    BY <2>1, <2>2 DEF PagesInv
<1>. QED
  BY <1>1, <1>2, <1>3, <1>4, <1>5 DEF Paging!Next

LEMMA PagesAreWhole == PagesInv => Paging!TypeOK /\ Paging!PagesShowWhatStays
<1> SUFFICES ASSUME PagesInv PROVE Paging!TypeOK /\ Paging!PagesShowWhatStays
  OBVIOUS
<1>1. Paging!TypeOK
  BY DEF PagesInv, Paging!TypeOK, WalkRecords, Paging!Start
<1>2. ASSUME NEW k \in walker.stayed
      PROVE  /\ walker.seen[k] <= 1
             /\ walker.at \in {"done", "missing"} => walker.seen[k] = 1
  <2>1. walker.at \in {"asking", "found", "filling", "done"}
    BY DEF PagesInv, WalkIsAt, WalkRecords
  <2>2. walker.seen[k] \in {0, 1} /\ (walker.at = "done" => walker.seen[k] = 1)
    BY <2>1 DEF PagesInv, WalkIsAt, SeenBefore
  <2>. QED
    BY <2>1, <2>2
<1>3. walker.at \in {"asking", "found"} /\ walker.fresh =>
        Paging!PageBefore(walker.cursor) = walker.shown
  BY BackLeads DEF PagesInv, WalkIsAt
<1>. QED
  BY <1>1, <1>2, <1>3 DEF Paging!PagesShowWhatStays

(* A client of a listing by one key sees what stays exactly once, and can  *)
(* go back, for any rows, and any page of one at least.                    *)
THEOREM ListingsAreWhole == Paging!Spec => []Paging!PagesShowWhatStays
BY PagesInit, PagesNext, PagesAreWhole, PTL DEF Paging!Spec

-----------------------------------------------------------------------------
(* The listings of the links of SDM columns, tables and entities.          *)

\* What SdmLinks says of its listing and rows, said of any.
KeyIn(stock, n) == [name |-> n, index |-> stock[n].index]
ListedIn(stock) == {n \in SdmNames : stock[n].kept /\ stock[n].linked}

Goes(list, a, b) ==
    IF list = "entities" THEN a.name < b.name ELSE Links!SortsBefore(a, b)

From(list, k, c) ==
    \/ c = Links!Start
    \/ list = "columns" /\ Links!FromColumn(k, c)
    \/ list = "tables" /\ Links!FromTable(k, c)
    \/ list = "entities" /\ Links!FromEntity(k, c)

Prior(list, k, c) ==
    IF list = "entities" THEN k.name < c.name ELSE Links!BeforeIndex(k, c)

EntriesFrom(list, stock, c) == {n \in ListedIn(stock) : From(list, KeyIn(stock, n), c)}

OrderOf(list, stock) ==
    [n \in ListedIn(stock) |->
        {m \in ListedIn(stock) : Goes(list, KeyIn(stock, m), KeyIn(stock, n))}]

Stock == [SdmNames -> Links!Records]
Bounds == Links!Keys \cup {Links!Start}

\* No two columns that are listed have one index.
Distinct(list, stock) ==
    list = "columns" =>
        \A m, n \in ListedIn(stock) :
            stock[m].index = stock[n].index /\ stock[m].index # Links!Null => m = n

LEMMA LinksAre ==
    /\ \A k, c : Links!AtOrAfter(k, c) <=> From(listing, k, c)
    /\ \A a, b : Links!Precedes(a, b) <=> Goes(listing, a, b)
    /\ \A k, c : Links!Before(k, c) <=> Prior(listing, k, c)
    /\ \A n : Links!Key(n) = KeyIn(stored, n)
    /\ Links!Listed = ListedIn(stored)
    /\ \A table : ~Links!Ties(table) => Distinct(listing, table)
BY DEF Links!AtOrAfter, From, Links!Precedes, Goes, Links!Before, Prior, Links!Key, KeyIn,
       Links!Listed, ListedIn, Links!Ties, Distinct

LEMMA LinkKeysTyped ==
    ASSUME NEW stock \in Stock, NEW n \in SdmNames
    PROVE  /\ KeyIn(stock, n).name = n /\ KeyIn(stock, n).index = stock[n].index
           /\ KeyIn(stock, n) \in Links!Keys /\ n \in Nat /\ n # 0
           /\ stock[n].index \in Nat /\ KeyIn(stock, n) # Links!Start
<1>1. n \in Nat /\ n # 0 /\ MaxIndex \in Nat
  BY PagesAssumption
<1>2. stock[n].index \in 0 .. MaxIndex
  BY DEF Stock, Links!Records, Links!Indexes
<1>3. /\ KeyIn(stock, n).name = n /\ KeyIn(stock, n).index = stock[n].index
      /\ KeyIn(stock, n) \in Links!Keys
  BY <1>2 DEF KeyIn, Links!Keys, Links!Indexes
<1>. QED
  BY <1>1, <1>2, <1>3 DEF Links!Start

LEMMA BoundsTyped ==
    ASSUME NEW c \in Bounds
    PROVE  c.name \in Nat /\ c.index \in Nat
<1>1. CASE c \in Links!Keys
  BY <1>1, PagesAssumption DEF Links!Keys, Links!Indexes
<1>2. CASE c = Links!Start
  BY <1>2 DEF Links!Start, Links!Null
<1>. QED
  BY <1>1, <1>2 DEF Bounds

LEMMA GoesInOrder ==
    ASSUME NEW list, NEW stock \in Stock, NEW l \in SdmNames, NEW m \in SdmNames, NEW n \in SdmNames
    PROVE  /\ ~Goes(list, KeyIn(stock, n), KeyIn(stock, n))
           /\ Goes(list, KeyIn(stock, l), KeyIn(stock, m)) /\ Goes(list, KeyIn(stock, m), KeyIn(stock, n))
              => Goes(list, KeyIn(stock, l), KeyIn(stock, n))
           /\ Goes(list, KeyIn(stock, m), KeyIn(stock, n)) \/ Goes(list, KeyIn(stock, n), KeyIn(stock, m))
              \/ m = n
<1> DEFINE a == KeyIn(stock, l)
           b == KeyIn(stock, m)
           d == KeyIn(stock, n)
<1>1. /\ a.name = l /\ b.name = m /\ d.name = n /\ {l, m, n} \subseteq Nat
      /\ {a.index, b.index, d.index} \subseteq Nat
  BY LinkKeysTyped
<1> HIDE DEF a, b, d
<1>2. ~Goes(list, d, d)
  BY <1>1 DEF Goes, Links!SortsBefore, Links!Null
<1>3. Goes(list, a, b) /\ Goes(list, b, d) => Goes(list, a, d)
  BY <1>1 DEF Goes, Links!SortsBefore, Links!Null
<1>4. Goes(list, b, d) \/ Goes(list, d, b) \/ m = n
  BY <1>1 DEF Goes, Links!SortsBefore, Links!Null
<1>. QED
  BY <1>2, <1>3, <1>4 DEF a, b, d

LEMMA LinksAreChain ==
    ASSUME NEW list, NEW stock \in Stock
    PROVE  Chain(ListedIn(stock), OrderOf(list, stock))
<1> DEFINE S == ListedIn(stock)
           before == OrderOf(list, stock)
           goes(m, n) == Goes(list, KeyIn(stock, m), KeyIn(stock, n))
<1>1. S \subseteq SdmNames /\ IsFiniteSet(S)
  BY PagesAssumption, FS_Subset DEF ListedIn
<1>2. before = [n \in S |-> {m \in S : goes(m, n)}]
  BY DEF OrderOf
<1>3. \A l, m, n \in S : /\ ~goes(n, n) /\ (goes(l, m) /\ goes(m, n) => goes(l, n))
                         /\ goes(m, n) \/ goes(n, m) \/ m = n
  BY <1>1, GoesInOrder
<1> HIDE DEF S, before, goes
<1>4. before \in [S -> SUBSET S] /\ \A n \in S : before[n] = {m \in S : goes(m, n)}
  BY <1>2
<1>5. \A n \in S : n \notin before[n] /\ \A m \in before[n] : before[m] \subseteq before[n]
  <2>1. ASSUME NEW n \in S PROVE n \notin before[n]
    BY <1>3, <1>4
  <2>2. ASSUME NEW n \in S, NEW m \in before[n], NEW l \in before[m] PROVE l \in before[n]
    BY <1>3, <1>4
  <2>. QED
    BY <2>1, <2>2
<1>6. \A m, n \in S : m \in before[n] \/ n \in before[m] \/ m = n
  BY <1>3, <1>4
<1>7. Chain(S, before)
  BY <1>1, <1>4, <1>5, <1>6 DEF Chain
<1>. QED
  BY <1>7 DEF S, before

(* A cursor cuts the listing in two: what it leaves out goes before.       *)
LEMMA CursorCuts ==
    ASSUME NEW list \in Links!Listings, NEW stock \in Stock, NEW c \in Bounds,
           NEW m \in SdmNames, NEW n \in SdmNames,
           From(list, KeyIn(stock, m), c), ~From(list, KeyIn(stock, n), c)
    PROVE  Goes(list, KeyIn(stock, n), KeyIn(stock, m))
<1> DEFINE a == KeyIn(stock, m)
           b == KeyIn(stock, n)
<1>1. /\ a.name = m /\ b.name = n /\ {m, n, c.name, c.index} \subseteq Nat
      /\ {a.index, b.index} \subseteq Nat
  BY LinkKeysTyped, BoundsTyped
<1> HIDE DEF a, b
<1>2. From(list, a, c) /\ ~From(list, b, c)
  BY DEF a, b
<1>3. c # Links!Start
  BY <1>2 DEF From
<1>4. Goes(list, b, a)
  <2>1. CASE list = "entities"
    BY <1>1, <1>2, <1>3, <2>1 DEF From, Goes, Links!FromEntity
  <2>2. CASE list = "columns"
    BY <1>1, <1>2, <1>3, <2>2 DEF From, Goes, Links!FromColumn, Links!SortsBefore, Links!Null
  <2>3. CASE list = "tables"
    BY <1>1, <1>2, <1>3, <2>3 DEF From, Goes, Links!FromTable, Links!SortsBefore, Links!Null
  <2>. QED
    BY <2>1, <2>2, <2>3 DEF Links!Listings
<1>. QED
  BY <1>4 DEF a, b

(* The cursor of an entry lets through what does not go before the entry,  *)
(* and its inverse what does.                                              *)
LEMMA CursorOfEntry ==
    ASSUME NEW list \in Links!Listings, NEW stock \in Stock, Distinct(list, stock),
           NEW x \in ListedIn(stock), NEW n \in ListedIn(stock)
    PROVE  /\ From(list, KeyIn(stock, n), KeyIn(stock, x))
                <=> ~Goes(list, KeyIn(stock, n), KeyIn(stock, x))
           /\ Prior(list, KeyIn(stock, n), KeyIn(stock, x))
                <=> Goes(list, KeyIn(stock, n), KeyIn(stock, x))
<1> DEFINE a == KeyIn(stock, n)
           c == KeyIn(stock, x)
<1>1. /\ a.name = n /\ c.name = x /\ {n, x} \subseteq Nat
      /\ {a.index, c.index} \subseteq Nat /\ c # Links!Start
      /\ a.index = stock[n].index /\ c.index = stock[x].index
  BY LinkKeysTyped DEF ListedIn
<1>2. list = "columns" /\ a.index = c.index => a.index = 0 \/ n = x
  BY <1>1 DEF Distinct, Links!Null
<1> HIDE DEF a, c
<1>3. (From(list, a, c) <=> ~Goes(list, a, c)) /\ (Prior(list, a, c) <=> Goes(list, a, c))
  <2>1. CASE list = "entities"
    BY <1>1, <2>1 DEF From, Goes, Prior, Links!FromEntity
  <2>2. CASE list = "columns"
    BY <1>1, <1>2, <2>2
       DEF From, Goes, Prior, Links!FromColumn, Links!BeforeIndex, Links!SortsBefore, Links!Null
  <2>3. CASE list = "tables"
    BY <1>1, <2>3
       DEF From, Goes, Prior, Links!FromTable, Links!BeforeIndex, Links!SortsBefore, Links!Null
  <2>. QED
    BY <2>1, <2>2, <2>3 DEF Links!Listings
<1>. QED
  BY <1>3 DEF a, c

BackIn(list, stock, c) ==
    LastOf({n \in ListedIn(stock) : Prior(list, KeyIn(stock, n), c)},
           OrderOf(list, stock), ColumnsLimit)

LEMMA BackLeadsThere ==
    ASSUME stored \in Stock, NEW c
    PROVE  Links!PageBefore(c) = BackIn(listing, stored, c)
<1> DEFINE T == {n \in ListedIn(stored) : Prior(listing, KeyIn(stored, n), c)}
           before == OrderOf(listing, stored)
<1>1. T = {n \in Links!Listed : Links!Before(Links!Key(n), c)}
  BY LinksAre
<1>2. ASSUME NEW n \in T
      PROVE  Links!Cardinality({m \in T : Links!Precedes(Links!Key(n), Links!Key(m))})
              = Cardinality(After(T, before, n))
  <2>1. \A m \in T : n \in before[m] <=> Goes(listing, KeyIn(stored, n), KeyIn(stored, m))
    BY DEF OrderOf
  <2>2. {m \in T : Links!Precedes(Links!Key(n), Links!Key(m))} = After(T, before, n)
    BY <2>1, LinksAre DEF After
  <2>. QED
    BY <2>2 DEF Cardinality, Links!Cardinality
<1>3. Links!PageBefore(c) = Links!Last(T, ColumnsLimit)
  BY <1>1 DEF Links!PageBefore
<1> HIDE DEF T, before
<1>4. Links!Last(T, ColumnsLimit) = LastOf(T, before, ColumnsLimit)
  BY <1>2 DEF Links!Last, LastOf
<1>. QED
  BY <1>3, <1>4 DEF BackIn, T, before

LEMMA FirstEntries ==
    ASSUME NEW c, NEW count \in Nat, NEW C, C = EntriesFrom(listing, stored, c)
    PROVE  Links!First(C, count) = FirstOf(C, Within(C, OrderOf(listing, stored)), count)
<1> DEFINE within == Within(C, OrderOf(listing, stored))
<1>1. C \subseteq ListedIn(stored)
  BY DEF EntriesFrom
<1>2. ASSUME NEW n \in C
      PROVE  Links!Cardinality({m \in C : Links!Precedes(Links!Key(m), Links!Key(n))})
              = Cardinality(within[n])
  <2>1. within[n] = {m \in C : Goes(listing, KeyIn(stored, m), KeyIn(stored, n))}
    BY <1>1 DEF Within, OrderOf
  <2>2. {m \in C : Links!Precedes(Links!Key(m), Links!Key(n))} = within[n]
    BY <2>1, LinksAre
  <2>. QED
    BY <2>2 DEF Cardinality, Links!Cardinality
<1> HIDE DEF within
<1>3. Links!First(C, count) = FirstOf(C, within, count)
  BY <1>2 DEF Links!First, FirstOf
<1>. QED
  BY <1>3 DEF within

(* A page is every entry from its cursor on, or those up to the one beyond *)
(* it, whose cursor leads back to them.                                    *)
LEMMA EntriesOfPage ==
    ASSUME listing \in Links!Listings, stored \in Stock, NEW c \in Bounds,
           NEW C, C = EntriesFrom(listing, stored, c)
    PROVE  \/ Links!Page(c) = C /\ Links!Beyond(c) = {}
           \/ \E x \in C :
                /\ Links!Beyond(c) = {x}
                /\ Links!Page(c)
                    = {n \in C : Goes(listing, KeyIn(stored, n), KeyIn(stored, x))}
                /\ Distinct(listing, stored)
                    => BackIn(listing, stored, KeyIn(stored, x)) = Links!Page(c)
<1> DEFINE S == ListedIn(stored)
           before == OrderOf(listing, stored)
           count == ColumnsLimit
           page == FirstOf(C, Within(C, before), count)
           beyond == FirstOf(C, Within(C, before), count + 1) \ page
<1>1. /\ count \in Nat /\ count + 1 \in Nat /\ S \subseteq SdmNames
      /\ C \in SUBSET S /\ Chain(S, before)
  BY PagesAssumption, LinksAreChain DEF ListedIn, EntriesFrom
<1>2. Ends(C, S, before)
  <2>1. ASSUME NEW n \in S \ C, NEW m \in C PROVE n \in before[m]
    <3>1. /\ From(listing, KeyIn(stored, m), c) /\ ~From(listing, KeyIn(stored, n), c)
          /\ m \in S /\ m \in SdmNames /\ n \in SdmNames
      BY <1>1 DEF EntriesFrom
    <3>2. Goes(listing, KeyIn(stored, n), KeyIn(stored, m))
      BY <3>1, CursorCuts
    <3>. QED
      BY <3>1, <3>2 DEF OrderOf
  <2>. QED
    BY <2>1 DEF Ends
<1>3. C = {n \in Links!Listed : Links!AtOrAfter(Links!Key(n), c)}
  BY LinksAre DEF EntriesFrom
<1>4. Links!Page(c) = page /\ Links!Beyond(c) = beyond
  BY <1>1, <1>3, FirstEntries DEF Links!Page, Links!Beyond
<1>5. page = FirstOf(C, Within(C, before), count)
      /\ beyond = FirstOf(C, Within(C, before), count + 1) \ page
  OBVIOUS
<1> HIDE DEF page, beyond, S, before, count
<1>6. \/ beyond = {} /\ page = C
      \/ \E x \in C :
            /\ beyond = {x} /\ page = before[x] \cap C
            /\ Cardinality(page) = count
            /\ page = LastOf(before[x], before, count)
  <2>1. ReadsPage(S, before, C, count, page, beyond)
    BY <1>1, <1>2, <1>5 DEF ReadsPage
  <2>2. Splits(before, C, count, page, beyond)
    BY <2>1, PageAndBeyond
  <2>. QED
    BY <2>2 DEF Splits
<1>7. ASSUME NEW x \in C, page = before[x] \cap C, page = LastOf(before[x], before, count)
      PROVE  /\ page = {n \in C : Goes(listing, KeyIn(stored, n), KeyIn(stored, x))}
             /\ Distinct(listing, stored) => BackIn(listing, stored, KeyIn(stored, x)) = page
  <2>1. /\ x \in S
        /\ before[x] = {n \in S : Goes(listing, KeyIn(stored, n), KeyIn(stored, x))}
    BY <1>1 DEF OrderOf, before, S
  <2>2. page = {n \in C : Goes(listing, KeyIn(stored, n), KeyIn(stored, x))}
    BY <1>1, <1>7, <2>1
  <2>3. ASSUME Distinct(listing, stored) PROVE BackIn(listing, stored, KeyIn(stored, x)) = page
    <3>1. \A n \in S : Prior(listing, KeyIn(stored, n), KeyIn(stored, x))
                        <=> Goes(listing, KeyIn(stored, n), KeyIn(stored, x))
      BY <2>1, <2>3, CursorOfEntry DEF S
    <3>2. before[x] = {n \in S : Prior(listing, KeyIn(stored, n), KeyIn(stored, x))}
      BY <2>1, <3>1
    <3>. QED
      BY <1>7, <3>2 DEF BackIn, S, before, count
  <2>. QED
    BY <2>2, <2>3
<1>. QED
  BY <1>4, <1>6, <1>7

ClientRecords ==
    [at : {"away", "walking", "done"}, cursor : Bounds, seen : [SdmNames -> 0 .. 2],
     stayed : SUBSET SdmNames, shown : SUBSET SdmNames, fresh : BOOLEAN, tied : BOOLEAN]

ClientIsAt(c, list, stock) ==
    /\ c.at = "away" => c.stayed = {}
    /\ c.at = "walking" =>
        \A n \in c.stayed :
            c.seen[n] = IF From(list, KeyIn(stock, n), c.cursor) THEN 0 ELSE 1
    /\ c.at = "walking" /\ c.fresh => BackIn(list, stock, c.cursor) = c.shown
    /\ c.at = "done" => \A n \in c.stayed : c.seen[n] = 1

(* The client has seen what stays up to its cursor, and no further, unless *)
(* columns have shared an index while it walks.                            *)
LinksInv ==
    /\ listing \in Links!Listings /\ stored \in Stock /\ client \in ClientRecords
    /\ client.stayed \subseteq ListedIn(stored)
    /\ client.at = "walking" => client.tied \/ Distinct(listing, stored)
    /\ client.tied \/ ClientIsAt(client, listing, stored)

LEMMA AwayClient ==
    /\ Links!Away \in ClientRecords /\ Links!Away.at = "away" /\ Links!Away.stayed = {}
    /\ ~Links!Away.fresh /\ Links!Away.cursor = Links!Start
    /\ Links!Away.seen = [n \in SdmNames |-> 0]
BY DEF Links!Away, ClientRecords, Bounds

LEMMA AbsentIs ==
    Links!Absent \in Links!Records /\ ~Links!Absent.kept /\ Links!Absent.index = 0
BY PagesAssumption DEF Links!Absent, Links!Records, Links!Indexes, Links!Null

LEMMA LinksInit == Links!Init => LinksInv
<1> SUFFICES ASSUME Links!Init PROVE LinksInv
  OBVIOUS
<1>1. /\ listing \in Links!Listings /\ stored = [n \in SdmNames |-> Links!Absent]
      /\ client = Links!Away
  BY DEF Links!Init
<1>2. stored \in Stock
  BY <1>1, AbsentIs DEF Stock
<1>. QED
  BY <1>1, <1>2, AwayClient DEF LinksInv, ClientIsAt

LEMMA BeginLinks ==
    ASSUME LinksInv, Links!Begin
    PROVE  LinksInv'
<1> DEFINE staying == ListedIn(stored)
           tied == Links!Ties(stored)
           c == [Links!Away EXCEPT !.at = "walking", !.stayed = staying, !.tied = tied]
<1>1. client' = c /\ UNCHANGED <<listing, stored>>
  BY LinksAre DEF Links!Begin
<1>2. /\ staying \in SUBSET SdmNames /\ tied \in BOOLEAN
      /\ tied \/ Distinct(listing, stored)
  BY LinksAre DEF ListedIn, Links!Ties
<1> HIDE DEF staying, tied
<1>3. /\ c \in ClientRecords /\ c.at = "walking" /\ c.stayed = staying /\ ~c.fresh
      /\ c.tied = tied /\ c.cursor = Links!Start /\ c.seen = [n \in SdmNames |-> 0]
  BY <1>2, AwayClient DEF ClientRecords
<1> HIDE DEF c
<1>4. ClientIsAt(c, listing, stored)
  BY <1>2, <1>3 DEF ClientIsAt, From, staying
<1>. QED
  BY <1>1, <1>2, <1>3, <1>4 DEF LinksInv, staying

LEMMA LeaveLinks ==
    ASSUME LinksInv, Links!Leave
    PROVE  LinksInv'
BY AwayClient DEF Links!Leave, LinksInv, ClientIsAt

LEMMA TurnLinks ==
    ASSUME LinksInv, Links!Turn
    PROVE  LinksInv'
<1> DEFINE C == EntriesFrom(listing, stored, client.cursor)
           page == Links!Page(client.cursor)
           beyond == Links!Beyond(client.cursor)
           next == CHOOSE n \in beyond : TRUE
           seen == [n \in SdmNames |->
                        IF n \in page \cap client.stayed /\ client.seen[n] < 2
                        THEN client.seen[n] + 1 ELSE client.seen[n]]
           at == IF beyond = {} THEN "done" ELSE client.at
           cursor == IF beyond = {} THEN client.cursor ELSE KeyIn(stored, next)
           c == [client EXCEPT !.seen = seen, !.shown = page, !.fresh = TRUE,
                               !.at = at, !.cursor = cursor]
<1>1. client.at = "walking" /\ client' = c /\ UNCHANGED <<listing, stored>>
  BY LinksAre DEF Links!Turn
<1>2. /\ client \in ClientRecords /\ client.cursor \in Bounds
      /\ client.stayed \subseteq ListedIn(stored) /\ ListedIn(stored) \subseteq SdmNames
      /\ client.seen \in [SdmNames -> 0 .. 2]
      /\ listing \in Links!Listings /\ stored \in Stock
      /\ client.tied \/ Distinct(listing, stored)
      /\ client.tied \/ \A n \in client.stayed :
            client.seen[n] = IF From(listing, KeyIn(stored, n), client.cursor) THEN 0 ELSE 1
  BY <1>1 DEF LinksInv, ClientIsAt, ClientRecords, ListedIn
<1>3. \/ page = C /\ beyond = {}
      \/ /\ next \in C /\ beyond # {}
         /\ page = {n \in C : Goes(listing, KeyIn(stored, n), KeyIn(stored, next))}
         /\ Distinct(listing, stored) => BackIn(listing, stored, KeyIn(stored, next)) = page
  <2>1. \/ page = C /\ beyond = {}
        \/ \E x \in C :
            /\ beyond = {x}
            /\ page = {n \in C : Goes(listing, KeyIn(stored, n), KeyIn(stored, x))}
            /\ Distinct(listing, stored) => BackIn(listing, stored, KeyIn(stored, x)) = page
    <3> HIDE DEF next
    <3>. QED
      BY <1>2, EntriesOfPage
  <2>2. \A x \in C : beyond = {x} => next = x
    OBVIOUS
  <2> HIDE DEF C, page, beyond, next
  <2>. QED
    BY <1>2, <2>1, <2>2
<1>4. /\ C \subseteq ListedIn(stored) /\ page \in SUBSET SdmNames /\ page \subseteq C
      /\ \A n \in ListedIn(stored) : n \in C <=> From(listing, KeyIn(stored, n), client.cursor)
  <2>1. /\ C \subseteq ListedIn(stored)
        /\ \A n \in ListedIn(stored) : n \in C <=> From(listing, KeyIn(stored, n), client.cursor)
    BY DEF EntriesFrom
  <2> HIDE DEF C, page, beyond, next
  <2>. QED
    BY <1>2, <1>3, <2>1
<1>5. seen \in [SdmNames -> 0 .. 2] /\ at \in {"walking", "done"}
  BY <1>1, <1>2
<1> HIDE DEF C, page, beyond, next
<1>6. client.tied \/ \A n \in client.stayed :
        seen[n] = IF n \in page \/ n \notin C THEN 1 ELSE 0
  <2>1. ASSUME ~client.tied, NEW n \in client.stayed
        PROVE  seen[n] = IF n \in page \/ n \notin C THEN 1 ELSE 0
    <3>1. n \in SdmNames /\ client.seen[n] = IF n \in C THEN 0 ELSE 1
      BY <1>2, <1>4, <2>1
    <3>. QED
      BY <1>4, <3>1
  <2>. QED
    BY <2>1
<1>7. cursor \in Bounds
  <2>1. beyond # {} => KeyIn(stored, next) \in Links!Keys
    BY <1>2, <1>3, <1>4, LinkKeysTyped
  <2>. QED
    BY <1>2, <2>1 DEF Bounds
<1> HIDE DEF seen
<1>8. at = "walking" => client.tied \/
        \A n \in client.stayed : seen[n] = IF From(listing, KeyIn(stored, n), cursor) THEN 0 ELSE 1
  <2>1. ASSUME ~client.tied, NEW n \in client.stayed, beyond # {}
        PROVE  seen[n] = IF From(listing, KeyIn(stored, n), KeyIn(stored, next)) THEN 0 ELSE 1
    <3>1. n \in SdmNames /\ next \in SdmNames /\ n \in ListedIn(stored) /\ next \in ListedIn(stored)
      BY <1>2, <1>3, <1>4, <2>1
    <3>2. From(listing, KeyIn(stored, n), KeyIn(stored, next))
            <=> ~Goes(listing, KeyIn(stored, n), KeyIn(stored, next))
      BY <1>2, <2>1, <3>1, CursorOfEntry
    <3>3. n \notin C => Goes(listing, KeyIn(stored, n), KeyIn(stored, next))
      BY <1>2, <1>3, <1>4, <2>1, <3>1, CursorCuts
    <3>4. n \in page \/ n \notin C <=> Goes(listing, KeyIn(stored, n), KeyIn(stored, next))
      BY <1>3, <1>4, <2>1, <3>3
    <3>. QED
      BY <1>6, <2>1, <3>2, <3>4
  <2>. QED
    BY <2>1
<1>9. at = "done" => client.tied \/ \A n \in client.stayed : seen[n] = 1
  <2>1. ASSUME at = "done" PROVE beyond = {} /\ page = C
    BY <1>1, <1>3, <2>1
  <2>. QED
    BY <1>6, <2>1
<1>10. at = "walking" => client.tied \/ BackIn(listing, stored, cursor) = page
  BY <1>1, <1>2, <1>3
<1> HIDE DEF at, cursor
<1>11. /\ c \in ClientRecords /\ c.at = at /\ c.stayed = client.stayed /\ c.seen = seen
       /\ c.cursor = cursor /\ c.shown = page /\ c.tied = client.tied
  BY <1>2, <1>4, <1>5, <1>7 DEF ClientRecords
<1> HIDE DEF c
<1>12. c.tied \/ ClientIsAt(c, listing, stored)
  BY <1>2, <1>5, <1>8, <1>9, <1>10, <1>11 DEF ClientIsAt
<1>. QED
  BY <1>1, <1>2, <1>11, <1>12 DEF LinksInv

(* A release moves or removes no entry of those that stay where they are.  *)
LEMMA UpdatedRows ==
    ASSUME LinksInv, NEW release \in Links!Releases, NEW browsed \in BOOLEAN,
           NEW stock, stock = Links!Updated(release, browsed)
    PROVE  /\ stock \in Stock
           /\ (\A n \in Links!Dropped(release) : ~stored[n].linked) =>
                \A n \in ListedIn(stored) : stock[n].kept => stock[n].linked
<1>1. stored \in Stock
  BY DEF LinksInv
<1>2. /\ DOMAIN release \subseteq SdmNames
      /\ \A n \in DOMAIN release : release[n] \in Links!Indexes
  <2>1. PICK S \in (SUBSET SdmNames) \ {{}} :
            release \in [S -> {Links!Null}] \/ release \in [S -> Links!Indexes]
    BY DEF Links!Releases, Links!NamesOnly, Links!Indexed
  <2>2. Links!Null \in Links!Indexes
    BY PagesAssumption DEF Links!Null, Links!Indexes
  <2>. QED
    BY <2>1, <2>2
<1>3. ASSUME NEW n \in SdmNames
      PROVE  /\ stock[n] \in Links!Records
             /\ n \notin Links!Dropped(release) /\ stored[n].linked /\ stock[n].kept
                    => stock[n].linked
  <2>1. stored[n] \in Links!Records
    BY <1>1 DEF Stock
  <2>2. CASE n \in DOMAIN release
    <3> DEFINE linked == browsed \/ stored[n].linked
    <3>1. stock[n] = [kept |-> TRUE, index |-> release[n], old |-> FALSE, linked |-> linked]
      BY <2>2 DEF Links!Updated
    <3>2. linked \in BOOLEAN /\ (stored[n].linked => linked)
      BY <2>1 DEF Links!Records
    <3> HIDE DEF linked
    <3>. QED
      BY <1>2, <2>2, <3>1, <3>2 DEF Links!Records
  <2>3. CASE n \notin DOMAIN release /\ (n \in Links!Dropped(release) \/ ~stored[n].kept)
    <3>1. stock[n] = Links!Absent
      BY <2>3 DEF Links!Updated, Links!Dropped
    <3>. QED
      BY <3>1, AbsentIs
  <2>4. CASE n \notin DOMAIN release /\ n \notin Links!Dropped(release) /\ stored[n].kept
    <3> DEFINE linked == stored[n].linked \/ browsed
    <3>1. stock[n] = [stored[n] EXCEPT !.linked = linked]
      BY <2>4 DEF Links!Updated, Links!Dropped
    <3>2. linked \in BOOLEAN /\ (stored[n].linked => linked)
      BY <2>1 DEF Links!Records
    <3> HIDE DEF linked
    <3>. QED
      BY <2>1, <3>1, <3>2 DEF Links!Records
  <2>. QED
    BY <2>2, <2>3, <2>4
<1>4. stock \in Stock
  <2>1. stock = [n \in SdmNames |-> stock[n]]
    BY DEF Links!Updated
  <2>. QED
    BY <1>3, <2>1 DEF Stock
<1>. QED
  BY <1>3, <1>4 DEF ListedIn

LEMMA IngestLinks ==
    ASSUME LinksInv, NEW release \in Links!Releases, NEW browsed \in BOOLEAN,
           Links!Ingest(release, browsed)
    PROVE  LinksInv'
<1> DEFINE stock == Links!Updated(release, browsed)
           staying == {n \in client.stayed :
                        stock[n].kept /\ stock[n].index = stored[n].index}
           seen == [n \in SdmNames |-> IF n \in staying THEN client.seen[n] ELSE 0]
           tied == client.tied \/ (client.at # "away" /\ Links!Ties(stock))
           c == [client EXCEPT !.fresh = FALSE, !.shown = {}, !.stayed = staying,
                               !.tied = tied, !.seen = seen]
<1>1. /\ \A n \in Links!Dropped(release) : ~stored[n].linked
      /\ stored' = stock /\ client' = c /\ listing' = listing
  BY DEF Links!Ingest, Links!Ties
<1>2. stock \in Stock /\ \A n \in ListedIn(stored) : stock[n].kept => stock[n].linked
  <2> HIDE DEF stock
  <2>. QED
    BY <1>1, UpdatedRows DEF stock
<1> HIDE DEF stock
<1>3. /\ client \in ClientRecords /\ client.seen \in [SdmNames -> 0 .. 2]
      /\ client.stayed \subseteq ListedIn(stored) /\ ListedIn(stored) \subseteq SdmNames
  BY DEF LinksInv, ClientIsAt, ClientRecords, ListedIn
<1>4. /\ staying \in SUBSET SdmNames /\ staying \subseteq client.stayed
      /\ staying \subseteq ListedIn(stock) /\ seen \in [SdmNames -> 0 .. 2]
      /\ \A n \in staying : /\ seen[n] = client.seen[n]
                            /\ KeyIn(stock, n) = KeyIn(stored, n)
  BY <1>2, <1>3 DEF ListedIn, KeyIn
<1>5. /\ tied \in BOOLEAN /\ (client.tied => tied)
      /\ client.at = "walking" => tied \/ Distinct(listing, stock)
  BY <1>3, LinksAre DEF Links!Ties, ClientRecords
<1> HIDE DEF staying, seen, tied
<1>6. /\ c \in ClientRecords /\ c.at = client.at /\ c.stayed = staying /\ c.seen = seen
      /\ c.cursor = client.cursor /\ ~c.fresh /\ c.tied = tied
  BY <1>3, <1>4, <1>5 DEF ClientRecords
<1> HIDE DEF c
<1>7. c.tied \/ ClientIsAt(c, listing, stock)
  BY <1>4, <1>6, <1>5 DEF LinksInv, ClientIsAt
<1>. QED
  BY <1>1, <1>2, <1>4, <1>6, <1>7, <1>5 DEF LinksInv

LEMMA WaitLinks ==
    ASSUME LinksInv, Links!Wait
    PROVE  LinksInv'
<1>1. /\ stored' = [n \in SdmNames |-> [stored[n] EXCEPT !.old = stored[n].kept]]
      /\ listing' = listing /\ client' = client
  BY DEF Links!Wait
<1>2. ASSUME NEW n \in SdmNames
      PROVE  /\ stored'[n] \in Links!Records /\ stored'[n].kept = stored[n].kept
             /\ stored'[n].linked = stored[n].linked /\ stored'[n].index = stored[n].index
  <2> DEFINE kept == stored[n].kept
  <2>1. stored[n] \in Links!Records /\ stored'[n] = [stored[n] EXCEPT !.old = kept]
    BY <1>1 DEF LinksInv, Stock
  <2>2. kept \in BOOLEAN
    BY <2>1 DEF Links!Records
  <2>3. stored'[n].kept = kept
    BY <2>1 DEF Links!Records
  <2> HIDE DEF kept
  <2>4. stored'[n] \in Links!Records /\ stored'[n].linked = stored[n].linked
        /\ stored'[n].index = stored[n].index
    BY <2>1, <2>2 DEF Links!Records
  <2>. QED
    BY <2>3, <2>4 DEF kept
<1>3. stored' \in Stock
  BY <1>1, <1>2 DEF Stock
<1>4. /\ ListedIn(stored') = ListedIn(stored)
      /\ \A n \in SdmNames : KeyIn(stored', n) = KeyIn(stored, n)
      /\ Distinct(listing, stored) => Distinct(listing, stored')
  BY <1>2 DEF LinksInv, ListedIn, KeyIn, Distinct
<1>5. BackIn(listing, stored', client.cursor) = BackIn(listing, stored, client.cursor)
  <2>1. OrderOf(listing, stored') = OrderOf(listing, stored)
    BY <1>4 DEF OrderOf, ListedIn
  <2>2. {n \in ListedIn(stored') : Prior(listing, KeyIn(stored', n), client.cursor)}
        = {n \in ListedIn(stored) : Prior(listing, KeyIn(stored, n), client.cursor)}
    BY <1>4 DEF ListedIn
  <2>. QED
    BY <2>1, <2>2 DEF BackIn
<1>6. client.tied \/ ClientIsAt(client, listing, stored')
  <2>1. \A n \in client.stayed : KeyIn(stored', n) = KeyIn(stored, n)
    BY <1>4 DEF LinksInv, ClientRecords
  <2>. QED
    BY <1>4, <1>5, <2>1 DEF LinksInv, ClientIsAt
<1>. QED
  BY <1>1, <1>3, <1>4, <1>6 DEF LinksInv

LEMMA LinksNext == LinksInv /\ [Links!Next]_Links!vars => LinksInv'
<1> SUFFICES ASSUME LinksInv, [Links!Next]_Links!vars PROVE LinksInv'
  OBVIOUS
<1>1. CASE Links!Begin \/ Links!Turn \/ Links!Leave
  BY <1>1, BeginLinks, TurnLinks, LeaveLinks
<1>2. CASE \E release \in Links!Releases, browsed \in BOOLEAN : Links!Ingest(release, browsed)
  BY <1>2, IngestLinks
<1>3. CASE Links!Wait
  BY <1>3, WaitLinks
<1>4. CASE UNCHANGED Links!vars
  BY <1>4 DEF Links!vars, LinksInv
<1>. QED
  BY <1>1, <1>2, <1>3, <1>4 DEF Links!Next

LEMMA LinksAreWhole == LinksInv => Links!TypeOK /\ Links!PagesShowWhatStays
<1> SUFFICES ASSUME LinksInv PROVE Links!TypeOK /\ Links!PagesShowWhatStays
  OBVIOUS
<1>1. Links!TypeOK
  BY DEF LinksInv, Links!TypeOK, ClientRecords, Stock, Bounds
<1>2. ASSUME ~client.tied, NEW n \in client.stayed
      PROVE  client.seen[n] <= 1 /\ (client.at = "done" => client.seen[n] = 1)
  <2>1. client.at \in {"walking", "done"}
    BY <1>2 DEF LinksInv, ClientIsAt, ClientRecords
  <2>2. client.seen[n] \in {0, 1} /\ (client.at = "done" => client.seen[n] = 1)
    BY <1>2, <2>1 DEF LinksInv, ClientIsAt
  <2>. QED
    BY <2>2
<1>3. ~client.tied /\ client.at = "walking" /\ client.fresh =>
        Links!PageBefore(client.cursor) = client.shown
  BY BackLeadsThere DEF LinksInv, ClientIsAt
<1>. QED
  BY <1>1, <1>2, <1>3 DEF Links!PagesShowWhatStays, Links!ShowsWhatStays

(* A client of the listing of the links of columns, tables or entities     *)
(* sees what stays where it is exactly once, and can go back, whatever is  *)
(* ingested between two pages, unless its listing is of columns and two of *)
(* those it lists share an index at some time while it walks.              *)
THEOREM LinkListingsAreWhole == Links!Spec => []Links!PagesShowWhatStays
BY LinksInit, LinksNext, LinksAreWhole, PTL DEF Links!Spec
=============================================================================
