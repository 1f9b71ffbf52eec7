------------------------ MODULE InventoryCache_proofs ------------------------
(***************************************************************************)
(* Proofs about InventoryCache, for any URLs, clients, jobs and times.     *)
(*                                                                         *)
(* The inductive invariant says of every process in flight what the        *)
(* content it holds, and the content it was answered, still have to do     *)
(* with the row and with the origin: a flag `same' that is up means that   *)
(* the row's content is still the one that was read, and what is about to  *)
(* be written under an age was served by the origin at that age.           *)
(***************************************************************************)
EXTENDS InventoryCache, FiniteSetTheorems, SequenceTheorems, TLAPS

AgesOrNone == Ages \cup {None}
Bodies == Versions \cup {None}
Dates == 0 .. ReplacedCap

RowTypes ==
    [cached : BOOLEAN, content : Bodies, age : AgesOrNone, asked : Ages,
     status : {"success", "failure"}, backoff : AgesOrNone]

Reads == [url : Urls, held : Bodies, same : BOOLEAN, age : AgesOrNone]

Flights ==
    [at : {"asking", "reading", "failed", "writing", "superseded", "served"},
     cold : BOOLEAN, url : Urls, held : Bodies, same : BOOLEAN, body : Bodies,
     spent : 0 .. Budget, age : AgesOrNone]

\* Content is as old as its age says (TrueAtItsAge), where it has one.
Dated(o, r, u, content, age) ==
    content # None =>
        /\ age \in Ages
        /\ age = AgeCap \/ content = o[u] \/ r[u][content] <= age + Budget

\* What a fetch came back with: the copy it held, after a 304.
Got(f) == IF f.body = None THEN f.held ELSE f.body

Unforced == "always" \notin IngestModes

RowInv(u, o, r, w) ==
    /\ w[u].content <= o[u]
    /\ Dated(o, r, u, w[u].content, w[u].age)
    /\ Unforced /\ w[u].content # None /\ w[u].backoff # None =>
        w[u].age > TTL /\ w[u].status = "failure"

ReadInv(d, o, r, w) ==
    /\ d \in Reads
    /\ d.held <= o[d.url]
    /\ d.same => d.held = w[d.url].content /\ w[d.url].age > TTL
    /\ Dated(o, r, d.url, d.held, d.age)

Flying(f, o, r, w) ==
    /\ f \in Flights
    /\ f.held <= o[f.url]
    /\ f.body <= o[f.url]
    /\ f.at = "asking" => f.body = None
    /\ f.cold => f.held = None
    /\ f.at \in {"asking", "reading", "failed", "writing"} /\ ~f.cold /\ f.same =>
        /\ f.held = w[f.url].content
        /\ Unforced => w[f.url].age > TTL
    /\ f.at \in {"reading", "writing"} => Got(f) # None /\ f.held <= Got(f)
    /\ f.at \in {"asking", "reading", "failed"} =>
        Dated(o, r, f.url, f.held, f.age)
    /\ f.at = "reading" =>
        Got(f) = o[f.url] \/ r[f.url][Got(f)] <= f.spent
    /\ f.at = "writing" =>
        /\ f.age \in Ages /\ f.age <= TTL
        /\ Got(f) = o[f.url] \/ r[f.url][Got(f)] <= f.age + Budget
    /\ f.at = "served" => Dated(o, r, f.url, f.body, f.age)

FlightInv(f, o, r, w) == f = Grounded \/ Flying(f, o, r, w)

Shape ==
    /\ origin \in [Urls -> Versions]
    /\ replaced \in [Urls -> [Versions -> Dates]]
    /\ row \in [Urls -> RowTypes]
    /\ flight \in [Procs -> {Grounded} \cup Flights]
    /\ due \in [Jobs -> Seq(Reads)]

CurrentIsNew ==
    \A u \in Urls, v \in Versions : v >= origin[u] => replaced[u][v] = 0

RowsOK == \A u \in Urls : RowInv(u, origin, replaced, row)
FlightsOK == \A p \in Procs : FlightInv(flight[p], origin, replaced, row)
DueOK ==
    \A j \in Jobs : \A i \in 1 .. Len(due[j]) :
        ReadInv(due[j][i], origin, replaced, row)

IInv == Shape /\ CurrentIsNew /\ RowsOK /\ FlightsOK /\ DueOK

-----------------------------------------------------------------------------
(* The constants.                                                          *)

LEMMA Times ==
    /\ TTL \in Nat /\ NegativeTTL \in Nat /\ ActiveWindow \in Nat /\ Budget \in Nat
    /\ MaxVersion \in Nat \ {0}
    /\ AgeCap \in Nat /\ AgeCap > TTL
    /\ ReplacedCap \in Nat /\ ReplacedCap > AgeCap + Budget
BY CacheAssumption DEF CacheAssumption, AgeCap, ReplacedCap, Larger

LEMMA Nones ==
    /\ None \in Int /\ None = -1
    /\ Versions \subseteq Nat \ {0} /\ None \notin Versions
    /\ Ages \subseteq Nat /\ None \notin Ages
    /\ \A v \in Versions : v \in Int /\ None <= v
    /\ None \in Bodies /\ 0 \in Ages /\ 0 \in AgesOrNone /\ None \in AgesOrNone
BY Times DEF None, Versions, Ages, Bodies, AgesOrNone

\* A process in flight is not grounded, and conversely.
LEMMA FlightsFly ==
    /\ Grounded \notin Flights
    /\ \A f \in Flights : f # Grounded
BY DEF Flights, Grounded

-----------------------------------------------------------------------------
(* The invariant holds at first.                                           *)

LEMMA InitInvariant == Init => IInv
<1> SUFFICES ASSUME Init PROVE IInv
    OBVIOUS
<1> USE Times, Nones DEF Init
<1>1. NoRow \in RowTypes /\ 1 \in Versions /\ 0 \in Dates
    BY DEF NoRow, RowTypes, Versions, Ages, AgesOrNone, Bodies, Dates
<1>2. <<>> \in Seq(Reads) /\ Len(<<>>) = 0
    OBVIOUS
<1>3. Shape
    BY <1>1, <1>2 DEF Shape
<1>4. CurrentIsNew
    BY DEF CurrentIsNew
<1>5. RowsOK
    BY DEF RowsOK, RowInv, Dated, NoRow
<1>6. FlightsOK
    BY DEF FlightsOK, FlightInv
<1>7. DueOK
    BY <1>2 DEF DueOK
<1> QED
    BY <1>3, <1>4, <1>5, <1>6, <1>7 DEF IInv

-----------------------------------------------------------------------------
(* Steps that write no date: one process goes on.                          *)

LEMMA ContinueKeeps ==
    ASSUME IInv, NEW p \in Procs, NEW f,
           FlightInv(f, origin, replaced, row),
           Continue(p, f), UNCHANGED <<origin, replaced, row>>
    PROVE  IInv'
<1>1. f \in {Grounded} \cup Flights
    BY DEF FlightInv, Flying
<1>2. Shape'
    BY <1>1 DEF Continue, IInv, Shape
<1>3. FlightsOK'
    BY DEF Continue, IInv, Shape, FlightsOK
<1>4. CurrentIsNew' /\ RowsOK' /\ DueOK'
    BY DEF Continue, IInv, CurrentIsNew, RowsOK, DueOK
<1> QED
    BY <1>2, <1>3, <1>4 DEF IInv

-----------------------------------------------------------------------------
(* Steps that write date_fetched of one row: whoever read it is told.      *)

LEMMA ForgottenReads ==
    ASSUME NEW o, NEW r, NEW w, NEW u \in Urls, NEW n, w \in [Urls -> RowTypes],
           NEW d, ReadInv(d, o, r, w)
    PROVE  ReadInv(Forget(u, d), o, r, [w EXCEPT ![u] = n])
<1>1. d \in Reads
    BY DEF ReadInv
<1>2. CASE d.url = u
    BY <1>1, <1>2 DEF Forget, ReadInv, Reads
<1>3. CASE d.url # u
    BY <1>1, <1>3 DEF Forget, ReadInv, Reads
<1> QED
    BY <1>2, <1>3

LEMMA ForgottenFlights ==
    ASSUME NEW o, NEW r, NEW w, NEW u \in Urls, NEW n, w \in [Urls -> RowTypes],
           NEW f, Flying(f, o, r, w)
    PROVE  Flying(Forget(u, f), o, r, [w EXCEPT ![u] = n])
<1>1. f \in Flights
    BY DEF Flying
<1>2. CASE f.url = u
    <2> DEFINE g == [f EXCEPT !.same = FALSE]
    <2>1. g \in Flights /\ ~g.same /\ Forget(u, f) = g
        BY <1>1, <1>2 DEF Flights, Forget
    <2>2. /\ g.at = f.at /\ g.cold = f.cold /\ g.url = f.url /\ g.held = f.held
          /\ g.body = f.body /\ g.spent = f.spent /\ g.age = f.age
        BY <1>1 DEF Flights
    <2> QED
        BY <2>1, <2>2 DEF Flying, Got
<1>3. CASE f.url # u
    BY <1>1, <1>3 DEF Forget, Flying, Flights
<1> QED
    BY <1>2, <1>3

LEMMA DateWrittenKeeps ==
    ASSUME IInv, NEW p \in Procs, NEW f, NEW u \in Urls, NEW n \in RowTypes,
           row' = [row EXCEPT ![u] = n],
           RowInv(u, origin, replaced, row'),
           FlightInv(f, origin, replaced, row'),
           DateWritten(u, p, f), UNCHANGED <<origin, replaced>>
    PROVE  IInv'
<1>1. f \in {Grounded} \cup Flights
    BY DEF FlightInv, Flying
<1>2. ASSUME NEW q \in Procs
      PROVE  FlightInv(flight'[q], origin, replaced, row')
    <2>1. CASE q = p
        BY <2>1 DEF DateWritten
    <2>2. CASE q # p /\ flight[q] = Grounded
        BY <2>2 DEF DateWritten, FlightInv
    <2>3. CASE q # p /\ flight[q] # Grounded
        <3>1. Flying(flight[q], origin, replaced, row)
            BY <2>3 DEF IInv, FlightsOK, FlightInv
        <3>2. flight'[q] = Forget(u, flight[q])
            BY <2>3 DEF DateWritten
        <3>3. row \in [Urls -> RowTypes]
            BY DEF IInv, Shape
        <3>4. Flying(Forget(u, flight[q]), origin, replaced, [row EXCEPT ![u] = n])
            BY <3>1, <3>3, ForgottenFlights
        <3> QED
            BY <3>2, <3>4 DEF FlightInv
    <2> QED
        BY <2>1, <2>2, <2>3
<1>3. ASSUME NEW j \in Jobs
      PROVE  /\ due'[j] \in Seq(Reads)
             /\ \A i \in 1 .. Len(due'[j]) :
                    ReadInv(due'[j][i], origin, replaced, row')
    <2>1. due[j] \in Seq(Reads) /\ DOMAIN due[j] = 1 .. Len(due[j])
        BY DEF IInv, Shape
    <2>2. due'[j] = [i \in 1 .. Len(due[j]) |-> Forget(u, due[j][i])]
        BY <2>1 DEF DateWritten
    <2>3. \A i \in 1 .. Len(due[j]) :
            ReadInv(Forget(u, due[j][i]), origin, replaced, row')
        BY ForgottenReads DEF IInv, DueOK, Shape
    <2>4. \A i \in 1 .. Len(due[j]) : Forget(u, due[j][i]) \in Reads
        BY <2>3 DEF ReadInv
    <2>5. due'[j] \in [1 .. Len(due[j]) -> Reads] /\ Len(due[j]) \in Nat
        BY <2>1, <2>2, <2>4
    <2>6. due'[j] \in Seq(Reads)
        BY <2>5, SeqDef
    <2>7. Len(due'[j]) = Len(due[j])
        BY <2>5, <2>6, LenProperties
    <2> QED
        BY <2>2, <2>3, <2>6, <2>7
<1>4. Shape'
    <2>1. row' \in [Urls -> RowTypes]
        BY DEF IInv, Shape
    <2>2. flight' \in [Procs -> {Grounded} \cup Flights]
        BY <1>2 DEF DateWritten, FlightInv, Flying
    <2>3. due' \in [Jobs -> Seq(Reads)]
        BY <1>3 DEF DateWritten
    <2> QED
        BY <2>1, <2>2, <2>3 DEF IInv, Shape
<1>5. RowsOK'
    BY DEF IInv, Shape, RowsOK, RowInv
<1>6. FlightsOK' /\ DueOK' /\ CurrentIsNew'
    BY <1>2, <1>3 DEF FlightsOK, DueOK, CurrentIsNew, IInv
<1> QED
    BY <1>4, <1>5, <1>6 DEF IInv

-----------------------------------------------------------------------------
(* The steps of processes.                                                 *)

\* What is served is as old as it says.
LEMMA ServedIsDated ==
    ASSUME NEW o \in [Urls -> Versions], NEW r, NEW w, NEW p, NEW u \in Urls,
           NEW content \in Bodies, NEW age \in AgesOrNone,
           content <= o[u], Dated(o, r, u, content, age)
    PROVE  FlightInv(Served(p, u, content, age), o, r, w)
<1>1. CASE p \in Jobs
    BY <1>1 DEF Served, FlightInv
<1>2. CASE p \notin Jobs
    <2> DEFINE f == Served(p, u, content, age)
    <2>1. f = [at |-> "served", cold |-> FALSE, url |-> u, held |-> None, same |-> FALSE,
               body |-> content, spent |-> 0, age |-> age]
        BY <1>2 DEF Served
    <2>2. f \in Flights
        BY <2>1, Times DEF Flights, Bodies
    <2>3. None <= o[u]
        BY Nones
    <2>4. Flying(f, o, r, w)
        BY <2>1, <2>2, <2>3, Nones DEF Flying
    <2> QED
        BY <2>4 DEF FlightInv
<1> QED
    BY <1>1, <1>2

\* A fetch that asks with a copy.
LEMMA FetchIsFlying ==
    ASSUME NEW o \in [Urls -> Versions], NEW r, NEW w, NEW u \in Urls,
           NEW held \in Bodies, NEW cold \in BOOLEAN, NEW same \in BOOLEAN,
           NEW age \in AgesOrNone,
           held <= o[u], cold => held = None, Dated(o, r, u, held, age),
           ~cold /\ same => held = w[u].content /\ (Unforced => w[u].age > TTL)
    PROVE  FlightInv(Fetch(u, held, cold, same, age), o, r, w)
<1> DEFINE f == Fetch(u, held, cold, same, age)
<1>1. f = [at |-> "asking", cold |-> cold, url |-> u, held |-> held, same |-> same,
           body |-> None, spent |-> 0, age |-> age]
    BY DEF Fetch
<1>2. f \in Flights
    BY <1>1, Times, Nones DEF Flights, Bodies
<1>3. Flying(f, o, r, w)
    <2>1. None <= o[u]
        BY Nones
    <2> QED
        BY <1>1, <1>2, <2>1 DEF Flying
<1> QED
    BY <1>3 DEF FlightInv

\* Who is in flight flies.
LEMMA WhoFlies ==
    ASSUME IInv, NEW p \in Procs, flight[p] # Grounded
    PROVE  Flying(flight[p], origin, replaced, row) /\ flight[p].url \in Urls
BY DEF IInv, FlightsOK, FlightInv, Flying, Flights

\* What a row is known to be.
LEMMA RowsAre ==
    ASSUME IInv, NEW u \in Urls
    PROVE  row[u] \in RowTypes /\ RowInv(u, origin, replaced, row)
BY DEF IInv, Shape, RowsOK

\* Flights and reads depend on a row by its content and its age alone.
LEMMA SameColumns ==
    ASSUME NEW o, NEW r, NEW w, NEW x,
           \A u \in Urls : x[u].content = w[u].content /\ x[u].age = w[u].age
    PROVE  /\ \A f : FlightInv(f, o, r, w) => FlightInv(f, o, r, x)
           /\ \A d : ReadInv(d, o, r, w) => ReadInv(d, o, r, x)
<1>1. ASSUME NEW f, Flying(f, o, r, w)
      PROVE  Flying(f, o, r, x)
    <2>1. f.url \in Urls
        BY <1>1 DEF Flying, Flights
    <2> QED
        BY <1>1, <2>1 DEF Flying
<1>2. ASSUME NEW d, ReadInv(d, o, r, w)
      PROVE  ReadInv(d, o, r, x)
    <2>1. d.url \in Urls
        BY <1>2 DEF ReadInv, Reads
    <2> QED
        BY <1>2, <2>1 DEF ReadInv
<1> QED
    BY <1>1, <1>2 DEF FlightInv

\* A step that writes other columns of one row, and no date.
LEMMA ColumnsKeep ==
    ASSUME IInv, NEW p \in Procs, NEW f, NEW u \in Urls, NEW n \in RowTypes,
           row' = [row EXCEPT ![u] = n],
           n.content = row[u].content, n.age = row[u].age,
           RowInv(u, origin, replaced, row'),
           FlightInv(f, origin, replaced, row),
           Continue(p, f), UNCHANGED <<origin, replaced>>
    PROVE  IInv'
<1>1. f \in {Grounded} \cup Flights
    BY DEF FlightInv, Flying
<1>2. \A v \in Urls : row'[v].content = row[v].content /\ row'[v].age = row[v].age
    BY DEF IInv, Shape
<1>3. Shape'
    BY <1>1 DEF Continue, IInv, Shape
<1>4. FlightsOK'
    <2>1. \A q \in Procs : FlightInv(flight'[q], origin, replaced, row)
        BY DEF Continue, IInv, Shape, FlightsOK
    <2> QED
        BY <2>1, <1>2, SameColumns DEF FlightsOK
<1>5. DueOK'
    BY <1>2, SameColumns DEF Continue, IInv, DueOK
<1>6. RowsOK' /\ CurrentIsNew'
    BY DEF IInv, Shape, RowsOK, RowInv, CurrentIsNew
<1> QED
    BY <1>3, <1>4, <1>5, <1>6 DEF IInv

-----------------------------------------------------------------------------
(* get_inventory.                                                          *)

\* date_requested is bumped.
LEMMA BumpKeeps ==
    ASSUME IInv, NEW c \in Procs, NEW f, NEW u \in Urls,
           row' = [row EXCEPT ![u].asked = 0],
           FlightInv(f, origin, replaced, row),
           Continue(c, f), UNCHANGED <<origin, replaced>>
    PROVE  IInv'
<1> DEFINE n == [row[u] EXCEPT !.asked = 0]
<1>1. row[u] \in RowTypes /\ RowInv(u, origin, replaced, row)
    BY RowsAre
<1>2. /\ n \in RowTypes
      /\ n.content = row[u].content /\ n.age = row[u].age
      /\ n.backoff = row[u].backoff /\ n.status = row[u].status
    BY <1>1, Times DEF RowTypes, Ages
<1>3. row' = [row EXCEPT ![u] = n]
    OBVIOUS
<1> HIDE DEF n
<1>4. row'[u] = n
    BY <1>3 DEF IInv, Shape
<1>5. RowInv(u, origin, replaced, row')
    BY <1>1, <1>2, <1>4 DEF RowInv
<1> QED
    BY <1>2, <1>3, <1>5, ColumnsKeep

LEMMA ServeCachedKeeps ==
    ASSUME IInv, NEW c \in Clients, NEW u \in Urls, NEW mode,
           ServeCached(c, u, mode)
    PROVE  IInv'
<1>1. row[u] \in RowTypes /\ RowInv(u, origin, replaced, row)
    BY RowsAre
<1>2. FlightInv(Served(c, u, row[u].content, row[u].age), origin, replaced, row)
    BY <1>1, ServedIsDated DEF RowTypes, RowInv, IInv, Shape
<1> QED
    BY <1>2, BumpKeeps DEF ServeCached, Procs

LEMMA RevalidateKeeps ==
    ASSUME IInv, NEW c \in Clients, NEW u \in Urls, NEW mode \in Modes(c),
           Revalidate(c, u, mode)
    PROVE  IInv'
<1>1. row[u] \in RowTypes /\ RowInv(u, origin, replaced, row)
    BY RowsAre
<1>2. Unforced => row[u].age > TTL
    BY CacheAssumption
    DEF CacheAssumption, Revalidate, IsRevalidationDue, IsStale, Modes, Unforced
<1>3. FlightInv(Fetch(u, row[u].content, FALSE, TRUE, row[u].age), origin, replaced, row)
    BY <1>1, <1>2, FetchIsFlying DEF RowTypes, RowInv, IInv, Shape
<1> QED
    BY <1>3, BumpKeeps DEF Revalidate, Procs

LEMMA ColdMissKeeps ==
    ASSUME IInv, NEW c \in Clients, NEW u \in Urls, ColdMiss(c, u)
    PROVE  IInv'
<1>1. None <= origin[u] /\ None \in Bodies /\ 0 \in AgesOrNone
    BY Nones DEF IInv, Shape
<1>2. Dated(origin, replaced, u, None, 0)
    BY DEF Dated
<1>3. FlightInv(Fetch(u, None, TRUE, FALSE, 0), origin, replaced, row)
    BY <1>1, <1>2, FetchIsFlying DEF IInv, Shape
<1> QED
    BY <1>3, ContinueKeeps DEF ColdMiss, Procs

-----------------------------------------------------------------------------
(* The fetch.                                                              *)

LEMMA AnswerKeeps ==
    ASSUME IInv, NEW p \in Procs, Answer(p)
    PROVE  IInv'
<1> DEFINE f == flight[p]
<1>1. Flying(f, origin, replaced, row) /\ f.url \in Urls /\ f \in Flights
    BY WhoFlies DEF Answer, Flying
<1>2. /\ origin[f.url] \in Versions /\ replaced[f.url][origin[f.url]] = 0
      /\ f.spent \in 0 .. Budget /\ f.held \in Bodies
    BY <1>1 DEF IInv, Shape, CurrentIsNew, Flights, Versions
<1>3. CASE Continue(p, [f EXCEPT !.at = "reading", !.body = origin[f.url]])
    <2> DEFINE g == [f EXCEPT !.at = "reading", !.body = origin[f.url]]
    <2>1. /\ g \in Flights /\ g.at = "reading" /\ g.body = origin[f.url]
          /\ g.cold = f.cold /\ g.url = f.url /\ g.held = f.held
          /\ g.same = f.same /\ g.spent = f.spent /\ g.age = f.age
        BY <1>1, <1>2 DEF Flights, Bodies
    <2> HIDE DEF g
    <2>2. Got(g) = origin[f.url] /\ Got(g) # None
        BY <1>2, <2>1, Nones DEF Got
    <2>3. Flying(g, origin, replaced, row)
        BY <1>1, <1>2, <2>1, <2>2, Nones DEF Flying, Answer
    <2> QED
        BY <1>3, <2>3, ContinueKeeps DEF FlightInv, Answer, g
<1>4. CASE f.held = origin[f.url] /\ Continue(p, [f EXCEPT !.at = "reading"])
    <2> DEFINE g == [f EXCEPT !.at = "reading"]
    <2>1. /\ g \in Flights /\ g.at = "reading" /\ g.body = f.body
          /\ g.cold = f.cold /\ g.url = f.url /\ g.held = f.held
          /\ g.same = f.same /\ g.spent = f.spent /\ g.age = f.age
        BY <1>1, <1>2 DEF Flights, Bodies
    <2> HIDE DEF g
    <2>2. f.body = None
        BY <1>1 DEF Flying, Answer
    <2>3. Got(g) = origin[f.url] /\ Got(g) # None
        BY <1>2, <1>4, <2>1, <2>2, Nones DEF Got
    <2>4. Flying(g, origin, replaced, row)
        BY <1>1, <1>2, <2>1, <2>2, <2>3, Nones DEF Flying, Answer
    <2> QED
        BY <1>4, <2>4, ContinueKeeps DEF FlightInv, Answer, g
<1> QED
    BY <1>3, <1>4 DEF Answer

\* The records in which a fetch ends.
LEMMA Ended ==
    ASSUME NEW f \in Flights, NEW g,
           g = [f EXCEPT !.at = "writing", !.age = 0, !.spent = 0]
    PROVE  g = [at |-> "writing", cold |-> f.cold, url |-> f.url, held |-> f.held,
                same |-> f.same, body |-> f.body, spent |-> 0, age |-> 0]
BY DEF Flights

LEMMA Failed ==
    ASSUME NEW f \in Flights, NEW g,
           g = [f EXCEPT !.at = "failed", !.body = None, !.spent = 0]
    PROVE  g = [at |-> "failed", cold |-> f.cold, url |-> f.url, held |-> f.held,
                same |-> f.same, body |-> None, spent |-> 0, age |-> f.age]
BY DEF Flights

\* The rows that writes leave.
LEMMA Blamed ==
    ASSUME NEW w \in RowTypes, NEW n,
           n = [w EXCEPT !.status = "failure", !.backoff = 0]
    PROVE  n = [cached |-> w.cached, content |-> w.content, age |-> w.age,
                asked |-> w.asked, status |-> "failure", backoff |-> 0]
BY DEF RowTypes

LEMMA Negative ==
    ASSUME NEW n,
           n = [NoRow EXCEPT !.cached = TRUE, !.age = 0, !.status = "failure"]
    PROVE  n = [cached |-> TRUE, content |-> None, age |-> 0, asked |-> 0,
                status |-> "failure", backoff |-> None]
BY DEF NoRow

LEMMA FetchEndsKeeps ==
    ASSUME IInv, NEW p \in Procs, FetchEnds(p)
    PROVE  IInv'
<1> DEFINE f == flight[p]
           g == [f EXCEPT !.at = "writing", !.age = 0, !.spent = 0]
<1>1. Flying(f, origin, replaced, row) /\ f.url \in Urls /\ f \in Flights
    BY WhoFlies DEF FetchEnds, Flying
<1>0. g = [at |-> "writing", cold |-> f.cold, url |-> f.url, held |-> f.held,
         same |-> f.same, body |-> f.body, spent |-> 0, age |-> 0]
    BY <1>1, Ended
<1> HIDE DEF g
<1>2. /\ g \in Flights /\ g.at = "writing" /\ g.body = f.body /\ g.cold = f.cold
      /\ g.url = f.url /\ g.held = f.held /\ g.same = f.same
      /\ g.spent = 0 /\ g.age = 0
    BY <1>1, <1>0, Times, Nones DEF Flights
<1>3. f.spent \in 0 .. Budget /\ Got(g) = Got(f) /\ Got(f) \in Bodies
    BY <1>1, <1>2 DEF Flights, Got
<1>4. replaced[f.url] \in [Versions -> Dates]
    BY <1>1 DEF IInv, Shape
<1>5. 0 \in Ages /\ 0 <= TTL
    BY Times DEF Ages
<1>6. Got(g) = origin[f.url] \/ replaced[f.url][Got(g)] <= 0 + Budget
    BY <1>1, <1>3, <1>4, Times DEF Flying, FetchEnds, Bodies, Dates
<1>7. Flying(g, origin, replaced, row)
    BY <1>1, <1>2, <1>3, <1>5, <1>6 DEF Flying, FetchEnds
<1> QED
    BY <1>7, ContinueKeeps DEF FlightInv, FetchEnds, g

LEMMA FetchFailsKeeps ==
    ASSUME IInv, NEW p \in Procs, FetchFails(p)
    PROVE  IInv'
<1> DEFINE f == flight[p]
           g == [f EXCEPT !.at = "failed", !.body = None, !.spent = 0]
<1>1. Flying(f, origin, replaced, row) /\ f.url \in Urls /\ f \in Flights
    BY WhoFlies DEF FetchFails, Flying
<1>0. g = [at |-> "failed", cold |-> f.cold, url |-> f.url, held |-> f.held,
         same |-> f.same, body |-> None, spent |-> 0, age |-> f.age]
    BY <1>1, Failed
<1> HIDE DEF g
<1>2. /\ g \in Flights /\ g.at = "failed" /\ g.body = None /\ g.cold = f.cold
      /\ g.url = f.url /\ g.held = f.held /\ g.same = f.same /\ g.age = f.age
    BY <1>1, <1>0, Times, Nones DEF Flights
<1>3. None <= origin[f.url]
    BY <1>1, Nones DEF IInv, Shape
<1>4. Flying(g, origin, replaced, row)
    BY <1>1, <1>2, <1>3 DEF Flying, FetchFails
<1> QED
    BY <1>4, ContinueKeeps DEF FlightInv, FetchFails, g

\* A process gives up: it is refused, crashes or has answered.
LEMMA GroundedKeeps ==
    ASSUME IInv, NEW p \in Procs, Continue(p, Grounded),
           UNCHANGED <<origin, replaced, row>>
    PROVE  IInv'
BY ContinueKeeps DEF FlightInv

-----------------------------------------------------------------------------
(* The writes.                                                             *)

LEMMA StoreFetchedKeeps ==
    ASSUME IInv, NEW c \in Clients, StoreFetched(c)
    PROVE  IInv'
<1> DEFINE f == flight[c]
           n == [cached |-> TRUE, content |-> f.body, age |-> f.age, asked |-> f.age,
                 status |-> "success", backoff |-> None]
           g == Served(c, f.url, f.body, f.age)
<1>1. c \in Procs /\ f # Grounded /\ f.at = "writing" /\ f.cold
    BY DEF StoreFetched, Procs
<1>2. Flying(f, origin, replaced, row) /\ f.url \in Urls /\ f \in Flights
    BY <1>1, WhoFlies DEF Flying
<1>3. /\ f.body \in Bodies /\ f.body # None /\ f.body <= origin[f.url]
      /\ f.age \in Ages /\ f.age \in AgesOrNone
    BY <1>1, <1>2 DEF Flying, Flights, Got, AgesOrNone
<1>4. Dated(origin, replaced, f.url, f.body, f.age)
    BY <1>1, <1>2, <1>3 DEF Flying, Got, Dated
<1>5. n \in RowTypes
    BY <1>3, Nones DEF RowTypes
<1>6. row' = [row EXCEPT ![f.url] = n] /\ DateWritten(f.url, c, g)
      /\ UNCHANGED <<origin, replaced>>
    BY DEF StoreFetched
<1>7. row'[f.url] = n
    BY <1>2, <1>6 DEF IInv, Shape
<1>8. RowInv(f.url, origin, replaced, row')
    BY <1>3, <1>4, <1>7 DEF RowInv
<1>9. FlightInv(g, origin, replaced, row')
    BY <1>2, <1>3, <1>4, ServedIsDated DEF IInv, Shape
<1> HIDE DEF f, n, g
<1> QED
    BY <1>1, <1>2, <1>5, <1>6, <1>8, <1>9, DateWrittenKeeps

LEMMA StoreFailureKeeps ==
    ASSUME IInv, NEW c \in Clients, StoreFailure(c)
    PROVE  IInv'
<1> DEFINE f == flight[c]
           n == [NoRow EXCEPT !.cached = TRUE, !.age = 0, !.status = "failure"]
<1>1. c \in Procs /\ f # Grounded /\ UNCHANGED <<origin, replaced>>
    BY DEF StoreFailure, Procs
<1>2. f.url \in Urls
    BY <1>1, WhoFlies
<1>3. CASE UNCHANGED row /\ Continue(c, Grounded)
    BY <1>1, <1>3, GroundedKeeps
<1>4. CASE row' = [row EXCEPT ![f.url] = n] /\ DateWritten(f.url, c, Grounded)
    <2>1. n = [cached |-> TRUE, content |-> None, age |-> 0, asked |-> 0,
               status |-> "failure", backoff |-> None]
        BY Negative
    <2> HIDE DEF n
    <2>2. n \in RowTypes
        BY <2>1, Nones DEF RowTypes
    <2>3. row'[f.url] = n
        BY <1>2, <1>4 DEF IInv, Shape
    <2>4. None <= origin[f.url]
        BY <1>2, Nones DEF IInv, Shape
    <2>5. RowInv(f.url, origin, replaced, row')
        BY <2>1, <2>3, <2>4 DEF RowInv, Dated
    <2>6. FlightInv(Grounded, origin, replaced, row')
        BY DEF FlightInv
    <2> QED
        BY <1>1, <1>2, <1>4, <2>2, <2>5, <2>6, DateWrittenKeeps
<1> QED
    BY <1>3, <1>4 DEF StoreFailure

\* What WriteRefresh writes, and serves.
LEMMA RefreshedRow ==
    ASSUME IInv, NEW p \in Procs,
           flight[p] # Grounded, flight[p].at = "writing", ~flight[p].cold,
           flight[p].same
    PROVE  /\ row[flight[p].url].content = flight[p].held
           /\ flight[p].age \in Ages /\ flight[p].age <= TTL
           /\ LET n == OutcomeColumns(flight[p].url, flight[p]) IN
              /\ n \in RowTypes
              /\ n.content = Got(flight[p]) /\ n.age = flight[p].age
              /\ n.backoff = None
<1> DEFINE f == flight[p]
           w == row[f.url]
           n == OutcomeColumns(f.url, f)
           content == IF f.body = None THEN w.content ELSE f.body
<1>1. Flying(f, origin, replaced, row) /\ f.url \in Urls /\ f \in Flights
    BY WhoFlies DEF Flying
<1>2. f.held = w.content /\ f.age \in Ages /\ f.age <= TTL /\ f.body \in Bodies
    BY <1>1 DEF Flying, Flights
<1>3. w \in RowTypes
    BY <1>1, RowsAre
<1>4. content = Got(f) /\ content \in Bodies
    BY <1>2, <1>3 DEF Got, RowTypes
<1>5. n = [w EXCEPT !.age = f.age, !.status = "success", !.backoff = None,
                    !.content = content]
    BY DEF OutcomeColumns
<1>6. n = [cached |-> w.cached, content |-> content, age |-> f.age,
           asked |-> w.asked, status |-> "success", backoff |-> None]
    <2> HIDE DEF n, w, content, f
    <2> QED
        BY <1>3, <1>5 DEF RowTypes
<1>7. /\ n \in RowTypes
      /\ n.content = Got(f) /\ n.age = f.age /\ n.backoff = None
    <2> HIDE DEF n, w, content
    <2> QED
        BY <1>2, <1>3, <1>4, <1>6, Nones DEF RowTypes, AgesOrNone
<1> QED
    BY <1>2, <1>7

\* ... and does to every row.
LEMMA RefreshWrites ==
    ASSUME IInv, NEW p \in Procs, WriteRefresh(p), MayWrite(flight[p])
    PROVE  /\ flight[p].url \in Urls /\ row'[flight[p].url].age <= TTL
           /\ row'[flight[p].url].age \in Ages
           /\ row'[flight[p].url].backoff = None
           /\ \A u \in Urls :
                /\ row'[u].content >= row[u].content
                /\ row[u].content # None => row'[u].content # None
<1> DEFINE f == flight[p]
           n == OutcomeColumns(f.url, f)
<1>1. /\ f # Grounded /\ f.at = "writing" /\ ~f.cold /\ f.same
      /\ row' = [row EXCEPT ![f.url] = n]
    BY DEF WriteRefresh, MayWrite
<1>2. Flying(f, origin, replaced, row) /\ f.url \in Urls /\ f \in Flights
    BY <1>1, WhoFlies DEF Flying
<1>3. /\ row[f.url].content = f.held /\ f.age \in Ages /\ f.age <= TTL
      /\ n.content = Got(f) /\ n.age = f.age /\ n.backoff = None
    BY <1>1, RefreshedRow
<1>4. Got(f) # None /\ f.held <= Got(f)
    BY <1>1, <1>2 DEF Flying
<1>5. row \in [Urls -> RowTypes] /\ \A u \in Urls : row[u].content \in Int
    BY Nones DEF IInv, Shape, RowTypes, Bodies
<1> HIDE DEF f, n
<1>6. row'[f.url] = n /\ \A u \in Urls : u # f.url => row'[u] = row[u]
    BY <1>1, <1>2, <1>5
<1>7. ASSUME NEW u \in Urls
      PROVE  /\ row'[u].content >= row[u].content
             /\ row[u].content # None => row'[u].content # None
    <2>1. CASE u = f.url
        BY <1>3, <1>4, <1>6, <2>1
    <2>2. CASE u # f.url
        BY <1>5, <1>6, <2>2
    <2> QED
        BY <2>1, <2>2
<1> QED
    BY <1>2, <1>3, <1>6, <1>7 DEF f

LEMMA WriteRefreshKeeps ==
    ASSUME IInv, NEW p \in Procs, WriteRefresh(p)
    PROVE  IInv'
<1> DEFINE f == flight[p]
           n == OutcomeColumns(f.url, f)
           g == Served(p, f.url, Got(f), f.age)
<1>1. /\ f # Grounded /\ f.at = "writing" /\ ~f.cold
      /\ UNCHANGED <<origin, replaced>>
    BY DEF WriteRefresh
<1>2. Flying(f, origin, replaced, row) /\ f.url \in Urls /\ f \in Flights
    BY <1>1, WhoFlies DEF Flying
<1>3. CASE f.same
    <2>1. /\ row' = [row EXCEPT ![f.url] = n] /\ DateWritten(f.url, p, g)
        BY <1>3 DEF WriteRefresh, MayWrite, Got
    <2>2. /\ n \in RowTypes /\ n.content = Got(f) /\ n.age = f.age
          /\ n.backoff = None /\ f.age \in Ages
        BY <1>1, <1>3, RefreshedRow
    <2>3. /\ Got(f) \in Bodies /\ Got(f) # None /\ Got(f) <= origin[f.url]
          /\ f.age \in AgesOrNone
        BY <1>1, <1>2 DEF Flying, Flights, Got
    <2>4. Dated(origin, replaced, f.url, Got(f), f.age)
        BY <1>1, <1>2, <2>2 DEF Flying, Dated
    <2> HIDE DEF n
    <2>5. row'[f.url] = n
        BY <1>2, <2>1 DEF IInv, Shape
    <2>6. RowInv(f.url, origin, replaced, row')
        BY <2>2, <2>3, <2>4, <2>5 DEF RowInv
    <2>7. FlightInv(g, origin, replaced, row')
        BY <1>2, <2>3, <2>4, ServedIsDated DEF IInv, Shape
    <2> HIDE DEF f, g
    <2> QED
        BY <1>1, <1>2, <2>1, <2>2, <2>6, <2>7, DateWrittenKeeps
<1>4. CASE ~f.same /\ p \in Jobs
    BY <1>1, <1>4, GroundedKeeps DEF WriteRefresh, MayWrite
<1>5. CASE ~f.same /\ p \notin Jobs
    <2> DEFINE h == [f EXCEPT !.at = "superseded"]
    <2>1. Continue(p, h) /\ UNCHANGED row
        BY <1>5 DEF WriteRefresh, MayWrite
    <2>2. /\ h \in Flights /\ h.at = "superseded" /\ h.body = f.body
          /\ h.cold = f.cold /\ h.url = f.url /\ h.held = f.held
        BY <1>2 DEF Flights
    <2> HIDE DEF h
    <2>3. Flying(h, origin, replaced, row)
        BY <1>1, <1>2, <2>2 DEF Flying
    <2> QED
        BY <1>1, <2>1, <2>3, ContinueKeeps DEF FlightInv
<1> QED
    BY <1>3, <1>4, <1>5

LEMMA ServeCurrentRowKeeps ==
    ASSUME IInv, NEW c \in Clients, ServeCurrentRow(c)
    PROVE  IInv'
<1> DEFINE u == flight[c].url
<1>1. c \in Procs /\ u \in Urls
    BY WhoFlies DEF ServeCurrentRow, Procs
<1>2. row[u] \in RowTypes /\ RowInv(u, origin, replaced, row)
    BY <1>1, RowsAre
<1>3. FlightInv(Served(c, u, row[u].content, row[u].age), origin, replaced, row)
    BY <1>1, <1>2, ServedIsDated DEF RowTypes, RowInv, IInv, Shape
<1> QED
    BY <1>1, <1>3, ContinueKeeps DEF ServeCurrentRow

\* A refresh that fails serves the copy it was to replace.
LEMMA HeldIsServed ==
    ASSUME IInv, NEW p \in Procs, flight[p] # Grounded, flight[p].at = "failed"
    PROVE  FlightInv(Served(p, flight[p].url, flight[p].held, flight[p].age),
                     origin, replaced, row)
<1>1. Flying(flight[p], origin, replaced, row) /\ flight[p].url \in Urls
    BY WhoFlies
<1> QED
    BY <1>1, ServedIsDated DEF Flying, Flights, IInv, Shape

LEMMA FailureUnrecordedKeeps ==
    ASSUME IInv, NEW p \in Procs, FailureUnrecorded(p)
    PROVE  IInv'
BY HeldIsServed, ContinueKeeps DEF FailureUnrecorded

LEMMA RecordFailureKeeps ==
    ASSUME IInv, NEW p \in Procs, RecordFailure(p)
    PROVE  IInv'
<1> DEFINE f == flight[p]
           w == row[f.url]
           n == FailureColumns(f.url)
           g == Served(p, f.url, f.held, f.age)
<1>1. /\ f # Grounded /\ f.at = "failed" /\ ~f.cold
      /\ Continue(p, g) /\ UNCHANGED <<origin, replaced>>
    BY DEF RecordFailure
<1>2. Flying(f, origin, replaced, row) /\ f.url \in Urls
    BY <1>1, WhoFlies
<1>3. FlightInv(g, origin, replaced, row)
    BY <1>1, HeldIsServed
<1>4. CASE ~f.same
    BY <1>1, <1>3, <1>4, ContinueKeeps DEF RecordFailure, MayRecordFailure
<1>5. CASE f.same
    <2>1. w \in RowTypes /\ RowInv(f.url, origin, replaced, row)
        BY <1>2, RowsAre
    <2>2. Unforced => w.age > TTL
        BY <1>1, <1>2, <1>5 DEF Flying
    <2>4. row' = [row EXCEPT ![f.url] = n]
        BY <1>5 DEF RecordFailure, MayRecordFailure
    <2>8. n = [w EXCEPT !.status = "failure", !.backoff = 0]
        BY DEF FailureColumns
    <2> HIDE DEF n, w
    <2>3. n = [cached |-> w.cached, content |-> w.content, age |-> w.age,
               asked |-> w.asked, status |-> "failure", backoff |-> 0]
        BY <2>1, <2>8, Blamed
    <2>5. n \in RowTypes /\ n.content = w.content /\ n.age = w.age
        BY <2>1, <2>3, Nones DEF RowTypes
    <2>6. row'[f.url] = n
        BY <1>2, <2>4 DEF IInv, Shape
    <2>7. RowInv(f.url, origin, replaced, row')
        BY <2>1, <2>2, <2>3, <2>6 DEF RowInv, w
    <2> HIDE DEF f, g
    <2> QED
        BY <1>1, <1>2, <1>3, <2>4, <2>5, <2>7, ColumnsKeep DEF w
<1> QED
    BY <1>4, <1>5

-----------------------------------------------------------------------------
(* The job's list.                                                         *)

LEMMA DueKeeps ==
    ASSUME IInv, NEW j \in Jobs, NEW list \in Seq(Reads),
           \A i \in 1 .. Len(list) : ReadInv(list[i], origin, replaced, row),
           due' = [due EXCEPT ![j] = list],
           NEW p \in Procs, NEW f, FlightInv(f, origin, replaced, row),
           flight' = [flight EXCEPT ![p] = f],
           UNCHANGED <<origin, replaced, row>>
    PROVE  IInv'
<1>1. f \in {Grounded} \cup Flights
    BY DEF FlightInv, Flying
<1>2. Shape'
    BY <1>1 DEF IInv, Shape
<1>3. FlightsOK'
    BY DEF IInv, Shape, FlightsOK
<1>4. DueOK'
    BY DEF IInv, Shape, DueOK
<1>5. CurrentIsNew' /\ RowsOK'
    BY DEF IInv, CurrentIsNew, RowsOK
<1> QED
    BY <1>2, <1>3, <1>4, <1>5 DEF IInv

LEMMA StartJobKeeps ==
    ASSUME IInv, NEW j \in Jobs, StartJob(j)
    PROVE  IInv'
<1> DEFINE D == {u \in Urls : IsDue(u)}
           Read(u) == [url |-> u, held |-> row[u].content, same |-> TRUE, age |-> row[u].age]
<1>1. PICK list \in [1 .. Cardinality(D) -> {Read(u) : u \in D}] :
        due' = [due EXCEPT ![j] = list]
    BY DEF StartJob
<1>2. Cardinality(D) \in Nat
    <2>1. IsFiniteSet(Urls)
        BY CacheAssumption DEF CacheAssumption
    <2>2. D \in SUBSET Urls
        OBVIOUS
    <2>3. IsFiniteSet(D)
        BY <2>1, <2>2, FS_Subset
    <2> QED
        BY <2>3, FS_CardinalityType
<1>3. ASSUME NEW u \in D
      PROVE  Read(u) \in Reads /\ ReadInv(Read(u), origin, replaced, row)
    <2>1. row[u] \in RowTypes /\ RowInv(u, origin, replaced, row)
        BY RowsAre
    <2>2. row[u].age > TTL
        BY DEF IsDue, IsStale
    <2>3. Read(u) \in Reads
        BY <2>1 DEF Reads, RowTypes
    <2> QED
        BY <2>1, <2>2, <2>3 DEF ReadInv, RowInv
<1>4. \A i \in 1 .. Cardinality(D) :
        list[i] \in Reads /\ ReadInv(list[i], origin, replaced, row)
    BY <1>1, <1>3
<1> HIDE DEF D, Read
<1>5. list \in [1 .. Cardinality(D) -> Reads]
    BY <1>1, <1>4
<1>6. list \in Seq(Reads)
    BY <1>2, <1>5, SeqDef
<1>7. Len(list) = Cardinality(D)
    BY <1>2, <1>5, <1>6, LenProperties
<1>8. flight[j] = Grounded /\ j \in Procs /\ flight' = [flight EXCEPT ![j] = Grounded]
    BY DEF StartJob, Procs, IInv, Shape
<1>9. FlightInv(Grounded, origin, replaced, row)
    BY DEF FlightInv
<1> QED
    BY <1>1, <1>4, <1>6, <1>7, <1>8, <1>9, DueKeeps DEF StartJob

LEMMA NextDueKeeps ==
    ASSUME IInv, NEW j \in Jobs, NextDue(j)
    PROVE  IInv'
<1> DEFINE read == Head(due[j])
           list == Tail(due[j])
<1>1. due[j] \in Seq(Reads) /\ due[j] # <<>>
    BY DEF NextDue, IInv, Shape
<1>2. /\ list \in Seq(Reads) /\ Len(list) = Len(due[j]) - 1
      /\ \A i \in 1 .. Len(list) : list[i] = due[j][i + 1]
    BY <1>1, HeadTailProperties
<1>3. Len(due[j]) \in Nat \ {0} /\ read = due[j][1]
    BY <1>1, EmptySeq
<1>4. \A i \in 1 .. Len(due[j]) : ReadInv(due[j][i], origin, replaced, row)
    BY DEF IInv, DueOK
<1>5. ReadInv(read, origin, replaced, row)
    BY <1>3, <1>4
<1>6. \A i \in 1 .. Len(list) : ReadInv(list[i], origin, replaced, row)
    BY <1>2, <1>3, <1>4
<1> HIDE DEF read, list
<1>7. FlightInv(Fetch(read.url, read.held, FALSE, read.same, read.age),
                origin, replaced, row)
    <2>1. /\ read.url \in Urls /\ read.held \in Bodies /\ read.same \in BOOLEAN
          /\ read.age \in AgesOrNone
        BY <1>5 DEF ReadInv, Reads
    <2> QED
        BY <1>5, <2>1, FetchIsFlying DEF ReadInv, IInv, Shape
<1>8. /\ due' = [due EXCEPT ![j] = list]
      /\ flight' = [flight EXCEPT ![j] =
            Fetch(read.url, read.held, FALSE, read.same, read.age)]
      /\ UNCHANGED <<origin, replaced, row>>
    BY DEF NextDue, read, list
<1> QED
    BY <1>2, <1>6, <1>7, <1>8, DueKeeps DEF Procs

LEMMA CrashKeeps ==
    ASSUME IInv, NEW p \in Procs, Crash(p)
    PROVE  IInv'
<1>1. FlightInv(Grounded, origin, replaced, row)
    BY DEF FlightInv
<1>2. CASE p \in Jobs
    <2>1. <<>> \in Seq(Reads) /\ Len(<<>>) = 0
        BY EmptySeq
    <2>2. \A i \in 1 .. Len(<<>>) : ReadInv(<<>>[i], origin, replaced, row)
        BY <2>1
    <2>3. due' = [due EXCEPT ![p] = <<>>] /\ flight' = [flight EXCEPT ![p] = Grounded]
          /\ UNCHANGED <<origin, replaced, row>>
        BY <1>2 DEF Crash
    <2> QED
        BY <1>1, <1>2, <2>1, <2>2, <2>3, DueKeeps
<1>3. CASE p \notin Jobs
    BY <1>3, GroundedKeeps DEF Crash, Continue
<1> QED
    BY <1>2, <1>3

-----------------------------------------------------------------------------
(* The world.                                                              *)

LEMMA PublishKeeps ==
    ASSUME IInv, NEW u \in Urls, Publish(u)
    PROVE  IInv'
<1>1. \A v \in Urls :
        /\ origin[v] \in Versions /\ origin'[v] \in Versions
        /\ origin[v] <= origin'[v] /\ replaced[v][origin[v]] = 0
    BY Times DEF Publish, IInv, Shape, CurrentIsNew, Versions
<1>2. Shape'
    BY <1>1 DEF Publish, IInv, Shape
<1>3. CurrentIsNew'
    BY <1>1 DEF Publish, IInv, CurrentIsNew, Versions
<1>4. ASSUME NEW v \in Urls, NEW content \in Bodies, NEW age,
             Dated(origin, replaced, v, content, age)
      PROVE  Dated(origin', replaced', v, content, age)
    BY <1>1, <1>4, Times DEF Dated, Publish, Ages
<1>5. RowsOK'
    <2> SUFFICES ASSUME NEW v \in Urls
                 PROVE  RowInv(v, origin', replaced', row')
        BY DEF RowsOK
    <2>1. row[v] \in RowTypes /\ RowInv(v, origin, replaced, row)
        BY RowsAre
    <2>2. row[v].content \in Bodies /\ row' = row
        BY <2>1 DEF RowTypes, Publish
    <2>3. row[v].content <= origin'[v]
        BY <1>1, <2>1, <2>2, Nones DEF RowInv, Bodies, Versions
    <2> QED
        BY <1>4, <2>1, <2>2, <2>3 DEF RowInv
<1>6. ASSUME NEW f, Flying(f, origin, replaced, row)
      PROVE  Flying(f, origin', replaced', row')
    <2>1. f \in Flights /\ f.url \in Urls /\ f.held \in Bodies /\ f.body \in Bodies
        BY <1>6 DEF Flying, Flights
    <2>2. f.held <= origin'[f.url] /\ f.body <= origin'[f.url]
        BY <1>1, <1>6, <2>1, Nones DEF Flying, Bodies, Versions
    <2>3. f.spent \in Nat /\ 0 <= f.spent
        BY <2>1, Times DEF Flights
    <2>4. f.at = "reading" =>
            Got(f) = origin'[f.url] \/ replaced'[f.url][Got(f)] <= f.spent
        BY <1>1, <1>6, <2>1, <2>3 DEF Flying, Publish
    <2>5. f.at = "writing" =>
            Got(f) = origin'[f.url] \/ replaced'[f.url][Got(f)] <= f.age + Budget
        BY <1>1, <1>6, <2>1, Times DEF Flying, Publish, Ages
    <2>6. /\ f.at \in {"asking", "reading", "failed"} =>
                Dated(origin', replaced', f.url, f.held, f.age)
          /\ f.at = "served" => Dated(origin', replaced', f.url, f.body, f.age)
        BY <1>4, <1>6, <2>1 DEF Flying
    <2>7. row' = row
        BY DEF Publish
    <2> QED
        BY <1>6, <2>1, <2>2, <2>4, <2>5, <2>6, <2>7 DEF Flying
<1>7. FlightsOK'
    BY <1>6 DEF Publish, FlightsOK, FlightInv, IInv
<1>8. ASSUME NEW d, ReadInv(d, origin, replaced, row)
      PROVE  ReadInv(d, origin', replaced', row')
    <2>1. d \in Reads /\ d.url \in Urls /\ d.held \in Bodies
        BY <1>8 DEF ReadInv, Reads
    <2>2. d.held <= origin'[d.url]
        BY <1>1, <1>8, <2>1, Nones DEF ReadInv, Bodies, Versions
    <2> QED
        BY <1>4, <1>8, <2>1, <2>2 DEF ReadInv, Publish
<1>9. DueOK'
    BY <1>8 DEF Publish, DueOK, IInv
<1> QED
    BY <1>2, <1>3, <1>5, <1>7, <1>9 DEF IInv

LEMMA Aging ==
    ASSUME NEW age \in AgesOrNone
    PROVE  /\ Older(age, AgeCap) \in AgesOrNone
           /\ age = None => Older(age, AgeCap) = None
           /\ age \in Ages =>
                /\ Older(age, AgeCap) \in Ages
                /\ age < AgeCap => Older(age, AgeCap) = age + 1
                /\ age = AgeCap => Older(age, AgeCap) = AgeCap
                /\ age > TTL => Older(age, AgeCap) > TTL
BY Times, Nones DEF Older, AgesOrNone, Ages

LEMMA AgedRow ==
    ASSUME NEW w \in RowTypes, NEW n,
           n = [w EXCEPT !.age = Older(@, AgeCap), !.backoff = Older(@, AgeCap),
                         !.asked = IF w.cached THEN Older(@, AgeCap) ELSE @]
    PROVE  /\ n \in RowTypes /\ n.content = w.content /\ n.status = w.status
           /\ n.age = Older(w.age, AgeCap) /\ n.backoff = Older(w.backoff, AgeCap)
<1> DEFINE asked == IF w.cached THEN Older(w.asked, AgeCap) ELSE w.asked
<1>1. n = [w EXCEPT !.age = Older(w.age, AgeCap), !.backoff = Older(w.backoff, AgeCap),
                    !.asked = asked]
    BY DEF RowTypes
<1>2. asked \in Ages /\ Older(w.age, AgeCap) \in AgesOrNone
      /\ Older(w.backoff, AgeCap) \in AgesOrNone
    BY Aging DEF RowTypes, AgesOrNone
<1> HIDE DEF asked
<1>3. n = [cached |-> w.cached, content |-> w.content, age |-> Older(w.age, AgeCap),
           asked |-> asked, status |-> w.status, backoff |-> Older(w.backoff, AgeCap)]
    BY <1>1 DEF RowTypes
<1> QED
    BY <1>2, <1>3 DEF RowTypes

LEMMA AgedFlight ==
    ASSUME NEW f \in Flights, Fetching(f) => f.spent < Budget
    PROVE  /\ Aged(f) \in Flights
           /\ Aged(f).at = f.at /\ Aged(f).cold = f.cold /\ Aged(f).url = f.url
           /\ Aged(f).held = f.held /\ Aged(f).same = f.same /\ Aged(f).body = f.body
           /\ Aged(f).age = Older(f.age, AgeCap)
           /\ f.at \in {"asking", "reading"} => Aged(f).spent = f.spent + 1
<1> DEFINE spent == IF Fetching(f) THEN f.spent + 1 ELSE f.spent
           g == Aged(f)
<1>1. g = [f EXCEPT !.age = Older(f.age, AgeCap), !.spent = spent]
    BY FlightsFly DEF Aged
<1>2. spent \in 0 .. Budget /\ Older(f.age, AgeCap) \in AgesOrNone
    BY Aging, Times DEF Flights
<1>3. f.at \in {"asking", "reading"} => spent = f.spent + 1
    BY FlightsFly DEF Fetching
<1> HIDE DEF spent, g
<1>4. g = [at |-> f.at, cold |-> f.cold, url |-> f.url, held |-> f.held,
           same |-> f.same, body |-> f.body, spent |-> spent,
           age |-> Older(f.age, AgeCap)]
    BY <1>1 DEF Flights
<1>5. g \in Flights
    BY <1>2, <1>4 DEF Flights
<1> QED
    BY <1>3, <1>4, <1>5 DEF g

LEMMA AgedRead ==
    ASSUME NEW d \in Reads, NEW e, e = [d EXCEPT !.age = Older(@, AgeCap)]
    PROVE  /\ e \in Reads /\ e.url = d.url /\ e.held = d.held /\ e.same = d.same
           /\ e.age = Older(d.age, AgeCap)
BY Aging DEF Reads

LEMMA TickKeeps ==
    ASSUME IInv, Tick
    PROVE  IInv'
<1>1. origin' = origin
    BY DEF Tick
<1>2. ASSUME NEW u \in Urls, NEW v \in Versions
      PROVE  /\ replaced[u][v] \in Dates /\ replaced'[u][v] \in Dates
             /\ replaced'[u][v] <= replaced[u][v] + 1
             /\ v >= origin[u] => replaced'[u][v] = 0
    <2>1. replaced[u] \in [Versions -> Dates] /\ origin[u] \in Versions
        BY DEF IInv, Shape
    <2>3. replaced[u][v] \in Dates /\ v \in Nat /\ origin[u] \in Nat
        BY <2>1, Nones
    <2>2. replaced'[u][v] =
            IF v < origin[u] THEN Older(replaced[u][v], ReplacedCap) ELSE 0
        BY DEF Tick
    <2> QED
        BY <2>2, <2>3, Times, Nones DEF Older, Dates
<1>3. ASSUME NEW u \in Urls, NEW content \in Bodies, NEW age \in AgesOrNone,
             Dated(origin, replaced, u, content, age)
      PROVE  Dated(origin', replaced', u, content, Older(age, AgeCap))
    <2> SUFFICES ASSUME content # None
                 PROVE  /\ Older(age, AgeCap) \in Ages
                        /\ \/ Older(age, AgeCap) = AgeCap
                           \/ content = origin'[u]
                           \/ replaced'[u][content] <= Older(age, AgeCap) + Budget
        BY DEF Dated
    <2>1. content \in Versions /\ age \in Ages
        BY <1>3 DEF Dated, Bodies
    <2>2. /\ replaced[u][content] \in Int /\ replaced'[u][content] \in Int
          /\ replaced'[u][content] <= replaced[u][content] + 1
        BY <1>2, <2>1 DEF Dates
    <2>3. CASE age = AgeCap
        BY <2>1, <2>3, Aging
    <2>4. CASE age < AgeCap
        BY <1>1, <1>3, <2>1, <2>2, <2>4, Aging, Times DEF Dated, Ages
    <2> QED
        BY <2>1, <2>3, <2>4, Times DEF Ages
<1>4. ASSUME NEW u \in Urls
      PROVE  /\ row'[u] \in RowTypes /\ row'[u].content = row[u].content
             /\ row'[u].status = row[u].status
             /\ row'[u].age = Older(row[u].age, AgeCap)
             /\ row'[u].backoff = Older(row[u].backoff, AgeCap)
    <2>1. row[u] \in RowTypes
        BY RowsAre
    <2>2. row'[u] = [row[u] EXCEPT !.age = Older(@, AgeCap), !.backoff = Older(@, AgeCap),
                        !.asked = IF row[u].cached THEN Older(@, AgeCap) ELSE @]
        BY DEF Tick
    <2> QED
        BY <2>1, <2>2, AgedRow
<1>5. RowsOK'
    <2> SUFFICES ASSUME NEW u \in Urls
                 PROVE  RowInv(u, origin', replaced', row')
        BY DEF RowsOK
    <2>1. row[u] \in RowTypes /\ RowInv(u, origin, replaced, row)
        BY RowsAre
    <2>2. /\ row[u].content \in Bodies /\ row[u].age \in AgesOrNone
          /\ row[u].backoff \in AgesOrNone
        BY <2>1 DEF RowTypes
    <2>3. row'[u].content <= origin'[u]
        BY <1>1, <1>4, <2>1 DEF RowInv
    <2>4. Dated(origin', replaced', u, row'[u].content, row'[u].age)
        BY <1>3, <1>4, <2>1, <2>2 DEF RowInv
    <2>5. ASSUME Unforced, row'[u].content # None, row'[u].backoff # None
          PROVE  row'[u].age > TTL /\ row'[u].status = "failure"
        <3>1. row[u].content # None /\ row[u].backoff # None
            BY <1>4, <2>2, <2>5, Aging
        <3>2. row[u].age > TTL /\ row[u].status = "failure"
            BY <2>1, <2>5, <3>1 DEF RowInv
        <3>3. row[u].age \in Ages
            BY <2>1, <3>1 DEF RowInv, Dated
        <3> QED
            BY <1>4, <2>2, <3>2, <3>3, Aging
    <2> QED
        BY <2>3, <2>4, <2>5 DEF RowInv
<1>6. ASSUME NEW u \in Urls, row[u].age > TTL
      PROVE  row'[u].age > TTL
    <2>1. row[u].age \in AgesOrNone
        BY RowsAre DEF RowTypes
    <2>2. row[u].age \in Ages
        BY <1>6, <2>1, Times, Nones DEF AgesOrNone
    <2> QED
        BY <1>4, <1>6, <2>1, <2>2, Aging
<1>7. ASSUME NEW p \in Procs, flight[p] # Grounded
      PROVE  Flying(Aged(flight[p]), origin', replaced', row')
    <2> DEFINE f == flight[p]
               g == Aged(f)
    <2>1. Flying(f, origin, replaced, row) /\ f.url \in Urls /\ f \in Flights
        BY <1>7, WhoFlies DEF Flying
    <2>2. /\ f.at # "served"
          /\ Fetching(f) => f.spent < Budget
          /\ f.at = "writing" => f.age < TTL
        BY <1>7 DEF Tick
    <2>3. /\ g \in Flights
          /\ g.at = f.at /\ g.cold = f.cold /\ g.url = f.url
          /\ g.held = f.held /\ g.same = f.same /\ g.body = f.body
          /\ g.age = Older(f.age, AgeCap)
          /\ f.at \in {"asking", "reading"} => g.spent = f.spent + 1
        BY <2>1, <2>2, AgedFlight
    <2>4. /\ f.held \in Bodies /\ f.age \in AgesOrNone /\ f.spent \in Nat
          /\ Got(f) \in Bodies
        BY <2>1, Times DEF Flights, Got
    <2> HIDE DEF g
    <2>5. Got(g) = Got(f)
        BY <2>3 DEF Got
    <2>6. f.at \in {"asking", "reading", "failed"} =>
            Dated(origin', replaced', f.url, f.held, g.age)
        BY <1>3, <2>1, <2>3, <2>4 DEF Flying
    <2>7. f.at \in {"reading", "writing"} =>
            /\ replaced[f.url][Got(f)] \in Int /\ replaced'[f.url][Got(f)] \in Int
            /\ replaced'[f.url][Got(f)] <= replaced[f.url][Got(f)] + 1
        BY <1>2, <2>1, <2>4 DEF Flying, Bodies, Dates
    <2>8. f.at = "reading" =>
            Got(f) = origin'[f.url] \/ replaced'[f.url][Got(f)] <= g.spent
        BY <1>1, <2>1, <2>3, <2>4, <2>7 DEF Flying
    <2>9. ASSUME f.at = "writing"
          PROVE  /\ g.age \in Ages /\ g.age <= TTL
                 /\ \/ Got(f) = origin'[f.url]
                    \/ replaced'[f.url][Got(f)] <= g.age + Budget
        <3>1. f.age \in Ages /\ f.age < TTL /\ f.age < AgeCap
            BY <2>1, <2>2, <2>9, Times DEF Flying, Ages
        <3>2. g.age = f.age + 1 /\ g.age \in Ages
            BY <2>3, <2>4, <3>1, Aging
        <3> QED
            BY <1>1, <2>1, <2>7, <2>9, <3>1, <3>2, Times DEF Flying, Ages
    <2>10. ASSUME f.at \in {"asking", "reading", "failed", "writing"}, ~f.cold, f.same
           PROVE  f.held = row'[f.url].content /\ (Unforced => row'[f.url].age > TTL)
        BY <1>4, <1>6, <2>1, <2>10 DEF Flying
    <2> HIDE DEF f
    <2>11. Flying(g, origin', replaced', row')
        BY <1>1, <2>1, <2>2, <2>3, <2>5, <2>6, <2>8, <2>9, <2>10 DEF Flying
    <2> QED
        BY <2>11 DEF f, g
<1>8. ASSUME NEW p \in Procs
      PROVE  FlightInv(flight'[p], origin', replaced', row')
    <2>1. flight'[p] = Aged(flight[p])
        BY DEF Tick
    <2>2. CASE flight[p] = Grounded
        BY <2>1, <2>2 DEF Aged, FlightInv
    <2>3. CASE flight[p] # Grounded
        BY <1>7, <2>1, <2>3 DEF FlightInv
    <2> QED
        BY <2>2, <2>3
<1>9. ASSUME NEW d, NEW e, ReadInv(d, origin, replaced, row),
             e = [d EXCEPT !.age = Older(@, AgeCap)]
      PROVE  e \in Reads /\ ReadInv(e, origin', replaced', row')
    <2>1. d \in Reads /\ d.url \in Urls /\ d.held \in Bodies /\ d.age \in AgesOrNone
        BY <1>9 DEF ReadInv, Reads
    <2>2. /\ e \in Reads /\ e.url = d.url /\ e.held = d.held /\ e.same = d.same
          /\ e.age = Older(d.age, AgeCap)
        BY <1>9, <2>1, AgedRead
    <2>3. Dated(origin', replaced', d.url, d.held, e.age)
        BY <1>3, <1>9, <2>1, <2>2 DEF ReadInv
    <2> QED
        BY <1>1, <1>4, <1>6, <1>9, <2>1, <2>2, <2>3 DEF ReadInv
<1>10. ASSUME NEW j \in Jobs
       PROVE  /\ due'[j] \in Seq(Reads)
              /\ \A i \in 1 .. Len(due'[j]) :
                    ReadInv(due'[j][i], origin', replaced', row')
    <2>1. due[j] \in Seq(Reads)
        BY DEF IInv, Shape
    <2>2. Len(due[j]) \in Nat /\ DOMAIN due[j] = 1 .. Len(due[j])
        BY <2>1, LenProperties
    <2>3. due'[j] = [i \in 1 .. Len(due[j]) |->
                        [due[j][i] EXCEPT !.age = Older(@, AgeCap)]]
        BY <2>2 DEF Tick
    <2>4. \A i \in 1 .. Len(due[j]) :
            /\ due'[j][i] \in Reads
            /\ ReadInv(due'[j][i], origin', replaced', row')
        <3> SUFFICES ASSUME NEW i \in 1 .. Len(due[j])
                     PROVE  /\ due'[j][i] \in Reads
                            /\ ReadInv(due'[j][i], origin', replaced', row')
            OBVIOUS
        <3>1. ReadInv(due[j][i], origin, replaced, row)
            BY DEF IInv, DueOK
        <3>2. due'[j][i] = [due[j][i] EXCEPT !.age = Older(@, AgeCap)]
            BY <2>3
        <3> QED
            BY <1>9, <3>1, <3>2
    <2>5. due'[j] \in [1 .. Len(due[j]) -> Reads]
        BY <2>3, <2>4
    <2>6. due'[j] \in Seq(Reads)
        BY <2>2, <2>5, SeqDef
    <2>7. Len(due'[j]) = Len(due[j])
        BY <2>2, <2>5, <2>6, LenProperties
    <2> QED
        BY <2>4, <2>6, <2>7
<1>11. Shape'
    <2>1. replaced' \in [Urls -> [Versions -> Dates]]
        BY <1>2 DEF Tick
    <2>2. row' \in [Urls -> RowTypes]
        BY <1>4 DEF Tick
    <2>3. flight' \in [Procs -> {Grounded} \cup Flights]
        BY <1>8 DEF Tick, FlightInv, Flying
    <2>4. due' \in [Jobs -> Seq(Reads)]
        BY <1>10 DEF Tick
    <2> QED
        BY <1>1, <2>1, <2>2, <2>3, <2>4 DEF IInv, Shape
<1>12. CurrentIsNew'
    BY <1>1, <1>2 DEF CurrentIsNew
<1> QED
    BY <1>5, <1>8, <1>10, <1>11, <1>12 DEF IInv, FlightsOK, DueOK

-----------------------------------------------------------------------------
(* Every step.                                                             *)

LEMMA StepKeeps ==
    ASSUME IInv, [Next]_vars
    PROVE  IInv'
<1>1. ASSUME NEW c \in Clients, Client(c)
      PROVE  IInv'
    <2>1. ASSUME NEW u \in Urls, ColdMiss(c, u)
          PROVE  IInv'
        BY <2>1, ColdMissKeeps
    <2>2. ASSUME NEW u \in Urls, NEW mode \in Modes(c), ServeCached(c, u, mode)
          PROVE  IInv'
        BY <2>2, ServeCachedKeeps
    <2>3. ASSUME NEW u \in Urls, NEW mode \in Modes(c), Revalidate(c, u, mode)
          PROVE  IInv'
        BY <2>3, RevalidateKeeps
    <2>4. CASE Refuse(c) \/ Done(c)
        BY <2>4, GroundedKeeps DEF Refuse, Done, Procs
    <2>5. CASE StoreFetched(c)
        BY <2>5, StoreFetchedKeeps
    <2>6. CASE StoreFailure(c)
        BY <2>6, StoreFailureKeeps
    <2>7. CASE ServeCurrentRow(c)
        BY <2>7, ServeCurrentRowKeeps
    <2> QED
        BY <1>1, <2>1, <2>2, <2>3, <2>4, <2>5, <2>6, <2>7 DEF Client
<1>2. ASSUME NEW j \in Jobs, StartJob(j) \/ NextDue(j)
      PROVE  IInv'
    BY <1>2, StartJobKeeps, NextDueKeeps
<1>3. ASSUME NEW p \in Procs, Refresh(p) \/ Crash(p)
      PROVE  IInv'
    BY <1>3, AnswerKeeps, FetchEndsKeeps, FetchFailsKeeps, WriteRefreshKeeps,
       RecordFailureKeeps, FailureUnrecordedKeeps, CrashKeeps DEF Refresh
<1>4. ASSUME NEW u \in Urls, Publish(u)
      PROVE  IInv'
    BY <1>4, PublishKeeps
<1>5. CASE Tick
    BY <1>5, TickKeeps
<1>6. CASE UNCHANGED vars
    BY <1>6 DEF vars, IInv, Shape, CurrentIsNew, RowsOK, FlightsOK, DueOK
<1> QED
    BY <1>1, <1>2, <1>3, <1>4, <1>5, <1>6 DEF Next

\* The inductive invariant.
THEOREM CacheIsSound == Spec => []IInv
<1>1. Init => IInv
    BY InitInvariant
<1>2. IInv /\ [Next]_vars => IInv'
    BY StepKeeps
<1> QED
    BY <1>1, <1>2, PTL DEF Spec

-----------------------------------------------------------------------------
(* What the runs check, from the invariant.                                *)

LEMMA DatedIsTrue ==
    ASSUME NEW u, NEW content, NEW age, Dated(origin, replaced, u, content, age)
    PROVE  TrueAtItsAge(u, content, age)
BY DEF Dated, TrueAtItsAge

(* Of any number of URLs, clients and jobs, with any times: content is as  *)
(* old as its date says, to within a fetch budget.                         *)
THEOREM AgesAreHonest == Spec => []AgeIsHonest
<1>1. IInv => AgeIsHonest
    <2> SUFFICES ASSUME IInv PROVE AgeIsHonest
        OBVIOUS
    <2>1. ASSUME NEW u \in Urls
          PROVE  TrueAtItsAge(u, row[u].content, row[u].age)
        BY RowsAre, DatedIsTrue DEF RowInv
    <2>2. ASSUME NEW c \in Clients, flight[c] # Grounded, flight[c].at = "served"
          PROVE  TrueAtItsAge(flight[c].url, flight[c].body, flight[c].age)
        <3>1. Flying(flight[c], origin, replaced, row)
            BY <2>2, WhoFlies DEF Procs
        <3> QED
            BY <2>2, <3>1, DatedIsTrue DEF Flying
    <2> QED
        BY <2>1, <2>2 DEF AgeIsHonest
<1> QED
    BY <1>1, CacheIsSound, PTL

(* A failure is only ever recorded on a stale copy.                        *)
THEOREM FreshIsSpared == Spec => []FreshIsNotBlamed
<1>1. IInv => FreshIsNotBlamed
    BY DEF IInv, RowsOK, RowInv, FreshIsNotBlamed, Unforced
<1> QED
    BY <1>1, CacheIsSound, PTL

\* What each step does to the content of a row.
LEMMA ContentStays ==
    ASSUME IInv, [Next]_vars, NEW u \in Urls, row[u].content # None
    PROVE  row'[u].content # None
<1>0. row \in [Urls -> RowTypes]
    BY DEF IInv, Shape
<1>1. CASE UNCHANGED row
    BY <1>1
<1>2. ASSUME NEW v \in Urls, row' = [row EXCEPT ![v].asked = 0]
      PROVE  row'[u].content = row[u].content
    BY <1>0, <1>2 DEF RowTypes
<1>3. ASSUME NEW c \in Clients, Client(c)
      PROVE  row'[u].content # None
    <2>1. CASE StoreFetched(c)
        <3> DEFINE f == flight[c]
        <3>1. Flying(f, origin, replaced, row) /\ f.url \in Urls
            BY <2>1, WhoFlies DEF StoreFetched, Procs
        <3>2. f.body # None
            BY <2>1, <3>1 DEF StoreFetched, Flying, Got
        <3>3. row' = [row EXCEPT ![f.url] =
                [cached |-> TRUE, content |-> f.body, age |-> f.age, asked |-> f.age,
                 status |-> "success", backoff |-> None]]
            BY <2>1 DEF StoreFetched
        <3> HIDE DEF f
        <3> QED
            BY <1>0, <3>1, <3>2, <3>3
    <2>2. CASE StoreFailure(c)
        <3>1. \/ row' = row
              \/ /\ row[flight[c].url].content = None
                 /\ \E n : row' = [row EXCEPT ![flight[c].url] = n]
            BY <2>2 DEF StoreFailure, MayCacheFailure
        <3> QED
            BY <1>0, <3>1
    <2>3. ASSUME NEW v \in Urls, NEW mode \in Modes(c),
                 ServeCached(c, v, mode) \/ Revalidate(c, v, mode)
          PROVE  row'[u].content # None
        BY <1>2, <2>3 DEF ServeCached, Revalidate
    <2> QED
        BY <1>1, <1>3, <2>1, <2>2, <2>3
        DEF Client, ColdMiss, Refuse, ServeCurrentRow, Done
<1>4. ASSUME NEW p \in Procs, Refresh(p) \/ Crash(p)
      PROVE  row'[u].content # None
    <2>1. CASE WriteRefresh(p)
        <3>1. CASE UNCHANGED row
            BY <3>1
        <3>2. CASE MayWrite(flight[p])
            BY <2>1, <3>2, RefreshWrites
        <3> QED
            BY <2>1, <3>1, <3>2 DEF WriteRefresh
    <2>2. CASE RecordFailure(p)
        <3>1. flight[p].url \in Urls
            BY <2>2, WhoFlies DEF RecordFailure
        <3>2. \/ row' = row
              \/ row' = [row EXCEPT ![flight[p].url] = FailureColumns(flight[p].url)]
            BY <2>2 DEF RecordFailure
        <3>3. FailureColumns(flight[p].url).content = row[flight[p].url].content
            BY <1>0, <3>1 DEF FailureColumns, RowTypes
        <3> QED
            BY <1>0, <3>1, <3>2, <3>3
    <2> QED
        BY <1>1, <1>4, <2>1, <2>2
        DEF Refresh, Answer, FetchEnds, FetchFails, FailureUnrecorded, Crash
<1>5. CASE Tick
    <2>1. row[u] \in RowTypes
        BY <1>0
    <2>2. row'[u] = [row[u] EXCEPT !.age = Older(@, AgeCap), !.backoff = Older(@, AgeCap),
                        !.asked = IF row[u].cached THEN Older(@, AgeCap) ELSE @]
        BY <1>5 DEF Tick
    <2> QED
        BY <2>1, <2>2, AgedRow
<1> QED
    BY <1>1, <1>3, <1>4, <1>5 DEF Next, StartJob, NextDue, Publish, vars

(* Whatever races, a URL that has content keeps some.                      *)
THEOREM ContentIsKept == Spec => ContentSurvives
<1>1. IInv /\ [Next]_vars =>
        [\A u \in Urls : row[u].content # None => row'[u].content # None]_vars
    BY ContentStays
<1> QED
    BY <1>1, CacheIsSound, PTL DEF Spec, ContentSurvives

(* A refresh never takes a row back to older content.                      *)
THEOREM RefreshesMoveForward == Spec => RefreshNeverReverts
<1>1. ASSUME IInv, [Next]_vars, NEW p \in Procs, WriteRefresh(p), NEW u \in Urls
      PROVE  row'[u].content >= row[u].content
    <2>1. CASE MayWrite(flight[p])
        BY <1>1, <2>1, RefreshWrites
    <2>2. CASE ~MayWrite(flight[p])
        <3>1. row' = row /\ row[u].content \in Int
            BY <1>1, <2>2, RowsAre, Nones DEF WriteRefresh, RowTypes, Bodies
        <3> QED
            BY <3>1
    <2> QED
        BY <2>1, <2>2
<1>2. IInv /\ [Next]_vars =>
        [\A p \in Procs : WriteRefresh(p) =>
            \A u \in Urls : row'[u].content >= row[u].content]_vars
    BY <1>1
<1> QED
    BY <1>2, CacheIsSound, PTL DEF Spec, RefreshNeverReverts

(* The job settles the rows that it alone has written.                     *)
THEOREM JobsSettle == Spec => DueIsSettled
<1>1. ASSUME IInv, NEW j \in Jobs, NEW u \in Urls,
             WriteRefresh(j) \/ RecordFailure(j), flight[j].url = u, flight[j].same
      PROVE  ~IsDue(u)'
    <2>1. j \in Procs
        BY DEF Procs
    <2>2. CASE WriteRefresh(j)
        <3>1. row'[u].age \in Ages /\ row'[u].age <= TTL
            BY <1>1, <2>1, <2>2, RefreshWrites DEF MayWrite
        <3>2. IsDue(u)' => row'[u].age > TTL
            BY DEF IsDue, IsStale
        <3>3. ~(row'[u].age > TTL)
            BY <3>1, Times DEF Ages
        <3> QED
            BY <3>2, <3>3
    <2>3. CASE RecordFailure(j)
        <3>1. row[u] \in RowTypes
            BY <1>1, RowsAre
        <3>2. row' = [row EXCEPT ![u] = FailureColumns(u)]
            BY <1>1, <2>3 DEF RecordFailure, MayRecordFailure
        <3>3. FailureColumns(u).backoff = 0
            BY <3>1 DEF FailureColumns, RowTypes
        <3>4. row'[u].backoff = 0
            BY <1>1, <3>2, <3>3 DEF IInv, Shape
        <3>5. IsDue(u)' => ~(row'[u].backoff # None /\ row'[u].backoff <= TTL)
            BY DEF IsDue, BackingOff
        <3> QED
            BY <3>4, <3>5, Times, Nones
    <2> QED
        BY <1>1, <2>2, <2>3
<1>2. IInv /\ [Next]_vars =>
        [\A j \in Jobs, u \in Urls :
            /\ WriteRefresh(j) \/ RecordFailure(j)
            /\ flight[j].url = u /\ flight[j].same
            => ~IsDue(u)']_vars
    BY <1>1
<1> QED
    BY <1>2, CacheIsSound, PTL DEF Spec, DueIsSettled

-----------------------------------------------------------------------------
(* Types.  IInv lets a row or a copy have no age; that every row that was  *)
(* ever written has one, and with it every copy in flight, rests on a row  *)
(* that is there never going away.                                         *)

KnownRow(n) == IF n.cached THEN n.age \in Ages ELSE n = NoRow

KnownFlight(f, w) ==
    f # Grounded =>
        /\ f.age \in Ages
        /\ f.cold \/ w[f.url].cached
        /\ f.at = "superseded" => ~f.cold

KnownRead(d, w) == d.age \in Ages /\ w[d.url].cached

AgesAreKnown ==
    /\ \A u \in Urls : KnownRow(row[u])
    /\ \A p \in Procs : KnownFlight(flight[p], row)
    /\ \A j \in Jobs : \A i \in 1 .. Len(due[j]) : KnownRead(due[j][i], row)

RowsStay == \A u \in Urls : row[u].cached => row'[u].cached

LEMMA InitKnown == Init => AgesAreKnown
<1> SUFFICES ASSUME Init PROVE AgesAreKnown
    OBVIOUS
<1>1. \A u \in Urls : KnownRow(row[u])
    BY DEF Init, KnownRow, NoRow
<1>2. \A p \in Procs : KnownFlight(flight[p], row)
    BY DEF Init, KnownFlight
<1>3. \A j \in Jobs : \A i \in 1 .. Len(due[j]) : KnownRead(due[j][i], row)
    <2>1. Len(<<>>) = 0
        OBVIOUS
    <2> QED
        BY <2>1 DEF Init
<1> QED
    BY <1>1, <1>2, <1>3 DEF AgesAreKnown

\* Forgetting leaves the copy, its age and its row as they were.
LEMMA ForgetKnown ==
    ASSUME NEW u, NEW f, f \in Flights \cup Reads
    PROVE  /\ Forget(u, f).url = f.url /\ Forget(u, f).age = f.age
           /\ f \in Flights => Forget(u, f).cold = f.cold /\ Forget(u, f).at = f.at
<1>1. CASE f \in Flights
    BY <1>1 DEF Flights, Forget
<1>2. CASE f \in Reads /\ f \notin Flights
    BY <1>2 DEF Reads, Forget
<1> QED
    BY <1>1, <1>2

\* A process goes on as f, and the others' rows are still there.
LEMMA ContinueKnown ==
    ASSUME IInv, AgesAreKnown, NEW p \in Procs, NEW f, Continue(p, f),
           KnownFlight(f, row'), RowsStay, \A u \in Urls : KnownRow(row'[u])
    PROVE  AgesAreKnown'
<1>1. /\ flight' = [flight EXCEPT ![p] = f] /\ due' = due
      /\ flight \in [Procs -> {Grounded} \cup Flights] /\ due \in [Jobs -> Seq(Reads)]
    BY DEF Continue, IInv, Shape
<1>2. ASSUME NEW q \in Procs PROVE KnownFlight(flight'[q], row')
    <2>1. CASE q = p
        BY <1>1, <2>1
    <2>2. CASE q # p
        <3>1. flight'[q] = flight[q] /\ KnownFlight(flight[q], row)
            BY <1>1, <2>2 DEF AgesAreKnown
        <3>2. flight[q] # Grounded => flight[q].url \in Urls
            BY <1>1 DEF Flights
        <3> QED
            BY <3>1, <3>2 DEF KnownFlight, RowsStay
    <2> QED
        BY <2>1, <2>2
<1>3. ASSUME NEW j \in Jobs, NEW i \in 1 .. Len(due'[j]) PROVE KnownRead(due'[j][i], row')
    <2>1. due'[j][i] = due[j][i] /\ KnownRead(due[j][i], row)
        BY <1>1 DEF AgesAreKnown
    <2>2. due[j] \in Seq(Reads) /\ i \in 1 .. Len(due[j])
        BY <1>1
    <2>3. due[j][i] \in Reads
        BY <2>2
    <2>4. due[j][i].url \in Urls
        BY <2>3 DEF Reads
    <2> QED
        BY <2>1, <2>4 DEF KnownRead, RowsStay
<1> QED
    BY <1>2, <1>3 DEF AgesAreKnown

LEMMA DateWrittenKnown ==
    ASSUME IInv, AgesAreKnown, NEW p \in Procs, NEW f, NEW u \in Urls, DateWritten(u, p, f),
           KnownFlight(f, row'), RowsStay, \A v \in Urls : KnownRow(row'[v])
    PROVE  AgesAreKnown'
<1>1. flight \in [Procs -> {Grounded} \cup Flights] /\ due \in [Jobs -> Seq(Reads)]
    BY DEF IInv, Shape
<1>2. /\ flight' = [q \in Procs |->
            IF q = p THEN f
            ELSE IF flight[q] = Grounded THEN Grounded ELSE Forget(u, flight[q])]
      /\ due' = [j \in Jobs |-> [i \in DOMAIN due[j] |-> Forget(u, due[j][i])]]
    BY DEF DateWritten
<1>3. ASSUME NEW q \in Procs PROVE KnownFlight(flight'[q], row')
    <2>1. CASE q = p \/ flight[q] = Grounded
        BY <1>2, <2>1 DEF KnownFlight
    <2>2. CASE q # p /\ flight[q] # Grounded
        <3>1. flight'[q] = Forget(u, flight[q]) /\ flight[q] \in Flights
            BY <1>1, <1>2, <2>2
        <3>2. /\ flight'[q].url = flight[q].url /\ flight'[q].age = flight[q].age
              /\ flight'[q].cold = flight[q].cold /\ flight'[q].at = flight[q].at
            BY <3>1, ForgetKnown
        <3>3. flight[q].url \in Urls /\ KnownFlight(flight[q], row)
            BY <3>1 DEF Flights, AgesAreKnown
        <3> QED
            BY <2>2, <3>2, <3>3 DEF KnownFlight, RowsStay
    <2> QED
        BY <2>1, <2>2
<1>4. ASSUME NEW j \in Jobs, NEW i \in 1 .. Len(due'[j]) PROVE KnownRead(due'[j][i], row')
    <2>1. due[j] \in Seq(Reads) /\ due'[j] = [k \in DOMAIN due[j] |-> Forget(u, due[j][k])]
        BY <1>1, <1>2
    <2>2. Len(due'[j]) = Len(due[j]) /\ i \in 1 .. Len(due[j]) /\ DOMAIN due[j] = 1 .. Len(due[j])
        BY <2>1
    <2>3. due'[j][i] = Forget(u, due[j][i]) /\ due[j][i] \in Reads
        BY <2>1, <2>2
    <2>4. due'[j][i].url = due[j][i].url /\ due'[j][i].age = due[j][i].age
        BY <2>3, ForgetKnown
    <2>5. KnownRead(due[j][i], row) /\ due[j][i].url \in Urls
        BY <2>2, <2>3 DEF AgesAreKnown, Reads
    <2> QED
        BY <2>4, <2>5 DEF KnownRead, RowsStay
<1> QED
    BY <1>3, <1>4 DEF AgesAreKnown

\* What is handed out has the age of a row that is there.
LEMMA ServedKnown ==
    ASSUME NEW p, NEW u, NEW content, NEW age \in Ages, NEW w, w[u].cached
    PROVE  KnownFlight(Served(p, u, content, age), w)
BY DEF KnownFlight, Served

\* What is known of a row, and of who is in flight.
LEMMA KnownAre ==
    ASSUME IInv, AgesAreKnown
    PROVE  /\ row \in [Urls -> RowTypes]
           /\ \A u \in Urls : /\ KnownRow(row[u])
                              /\ row[u].content # None => row[u].cached
                              /\ row[u].cached => row[u].age \in Ages
           /\ \A p \in Procs : flight[p] # Grounded =>
                /\ flight[p] \in Flights /\ flight[p].url \in Urls /\ flight[p].age \in Ages
                /\ flight[p].cold \/ row[flight[p].url].cached
                /\ flight[p].at = "superseded" => ~flight[p].cold
<1>1. row \in [Urls -> RowTypes] /\ flight \in [Procs -> {Grounded} \cup Flights]
    BY DEF IInv, Shape
<1>2. ASSUME NEW u \in Urls
      PROVE  /\ KnownRow(row[u]) /\ (row[u].content # None => row[u].cached)
             /\ row[u].cached => row[u].age \in Ages
    <2>1. KnownRow(row[u])
        BY DEF AgesAreKnown
    <2> QED
        BY <2>1 DEF KnownRow, NoRow
<1>3. ASSUME NEW p \in Procs, flight[p] # Grounded
      PROVE  /\ flight[p] \in Flights /\ flight[p].url \in Urls /\ flight[p].age \in Ages
             /\ flight[p].cold \/ row[flight[p].url].cached
             /\ flight[p].at = "superseded" => ~flight[p].cold
    <2>1. flight[p] \in Flights /\ KnownFlight(flight[p], row)
        BY <1>1, <1>3 DEF AgesAreKnown
    <2> QED
        BY <1>3, <2>1 DEF Flights, KnownFlight
<1> QED
    BY <1>1, <1>2, <1>3

\* Nothing is written, or one row, which then has an age.
LEMMA RowKept ==
    ASSUME IInv, AgesAreKnown, row' = row
    PROVE  RowsStay /\ \A u \in Urls : KnownRow(row'[u])
BY DEF RowsStay, AgesAreKnown

LEMMA RowPut ==
    ASSUME IInv, AgesAreKnown, NEW u \in Urls, NEW n, n.cached, n.age \in Ages,
           row' = [row EXCEPT ![u] = n]
    PROVE  RowsStay /\ row'[u].cached /\ \A v \in Urls : KnownRow(row'[v])
<1>1. row'[u] = n /\ \A v \in Urls : v # u => row'[v] = row[v]
    BY KnownAre
<1>2. \A v \in Urls : KnownRow(row[v])
    BY KnownAre
<1> QED
    BY <1>1, <1>2 DEF RowsStay, KnownRow

\* A row's bump leaves it its age.
LEMMA BumpKnown ==
    ASSUME IInv, AgesAreKnown, NEW u \in Urls, row[u].content # None,
           row' = [row EXCEPT ![u].asked = 0]
    PROVE  /\ RowsStay /\ row'[u].cached /\ \A v \in Urls : KnownRow(row'[v])
           /\ row[u].age \in Ages
<1> DEFINE n == [row[u] EXCEPT !.asked = 0]
<1>1. row[u] \in RowTypes /\ row[u].cached /\ row[u].age \in Ages
    BY KnownAre
<1>2. n.cached = row[u].cached /\ n.age = row[u].age
    BY <1>1 DEF RowTypes
<1>3. row' = [row EXCEPT ![u] = n]
    OBVIOUS
<1> HIDE DEF n
<1> QED
    BY <1>1, <1>2, <1>3, RowPut

LEMMA ServeCachedKnown ==
    ASSUME IInv, AgesAreKnown, NEW c \in Clients, NEW u \in Urls, NEW mode,
           ServeCached(c, u, mode)
    PROVE  AgesAreKnown'
<1>1. /\ RowsStay /\ row'[u].cached /\ \A v \in Urls : KnownRow(row'[v])
      /\ row[u].age \in Ages
    BY BumpKnown DEF ServeCached
<1> DEFINE f == Served(c, u, row[u].content, row[u].age)
<1>2. KnownFlight(f, row')
    BY <1>1, ServedKnown
<1>3. c \in Procs /\ Continue(c, f)
    BY DEF ServeCached, Procs
<1> HIDE DEF f
<1> QED
    BY <1>1, <1>2, <1>3, ContinueKnown

LEMMA RevalidateKnown ==
    ASSUME IInv, AgesAreKnown, NEW c \in Clients, NEW u \in Urls, NEW mode,
           Revalidate(c, u, mode)
    PROVE  AgesAreKnown'
<1>1. /\ RowsStay /\ row'[u].cached /\ \A v \in Urls : KnownRow(row'[v])
      /\ row[u].age \in Ages
    BY BumpKnown DEF Revalidate
<1> DEFINE f == Fetch(u, row[u].content, FALSE, TRUE, row[u].age)
<1>2. KnownFlight(f, row')
    BY <1>1 DEF KnownFlight, Fetch
<1>3. c \in Procs /\ Continue(c, f)
    BY DEF Revalidate, Procs
<1> HIDE DEF f
<1> QED
    BY <1>1, <1>2, <1>3, ContinueKnown

LEMMA ColdMissKnown ==
    ASSUME IInv, AgesAreKnown, NEW c \in Clients, NEW u \in Urls, ColdMiss(c, u)
    PROVE  AgesAreKnown'
<1> DEFINE f == Fetch(u, None, TRUE, FALSE, 0)
<1>1. RowsStay /\ \A v \in Urls : KnownRow(row'[v])
    BY RowKept DEF ColdMiss
<1>2. KnownFlight(f, row')
    BY Nones DEF KnownFlight, Fetch
<1>3. c \in Procs /\ Continue(c, f)
    BY DEF ColdMiss, Procs
<1> HIDE DEF f
<1> QED
    BY <1>1, <1>2, <1>3, ContinueKnown

\* A fetch goes on: its copy keeps the age it has, or is dated now.
LEMMA GoesOnKnown ==
    ASSUME IInv, AgesAreKnown, NEW p \in Procs, flight[p] # Grounded, NEW g,
           Continue(p, g), g.url = flight[p].url, g.cold = flight[p].cold,
           g.age = flight[p].age \/ g.age = 0, row' = row,
           g.at = "superseded" => ~g.cold
    PROVE  AgesAreKnown'
<1>1. RowsStay /\ \A v \in Urls : KnownRow(row'[v])
    BY RowKept
<1>2. flight[p].age \in Ages /\ (flight[p].cold \/ row[flight[p].url].cached)
    BY KnownAre
<1>3. KnownFlight(g, row')
    BY <1>2, Nones DEF KnownFlight
<1> QED
    BY <1>1, <1>3, ContinueKnown

LEMMA FetchingKnown ==
    ASSUME IInv, AgesAreKnown, NEW p \in Procs, Answer(p) \/ FetchEnds(p) \/ FetchFails(p)
    PROVE  AgesAreKnown'
<1>1. flight[p] \in Flights
    BY KnownAre DEF Answer, FetchEnds, FetchFails
<1>2. CASE Answer(p)
    <2> DEFINE f == flight[p]
    <2>1. PICK g : /\ Continue(p, g)
                   /\ \/ g = [f EXCEPT !.at = "reading", !.body = origin[f.url]]
                      \/ g = [f EXCEPT !.at = "reading"]
        BY <1>2 DEF Answer
    <2>2. g.url = f.url /\ g.cold = f.cold /\ g.age = f.age /\ g.at = "reading"
        BY <1>1, <2>1 DEF Flights
    <2>3. f # Grounded /\ row' = row
        BY <1>2 DEF Answer
    <2> QED
        BY <2>1, <2>2, <2>3, GoesOnKnown
<1>3. CASE FetchEnds(p)
    <2>1. PICK g : /\ Continue(p, g)
                   /\ g = [flight[p] EXCEPT !.at = "writing", !.age = 0, !.spent = 0]
        BY <1>3 DEF FetchEnds
    <2>0. g = [at |-> "writing", cold |-> flight[p].cold, url |-> flight[p].url,
               held |-> flight[p].held, same |-> flight[p].same, body |-> flight[p].body,
               spent |-> 0, age |-> 0]
        BY <1>1, <2>1, Ended
    <2>2. /\ g.url = flight[p].url /\ g.cold = flight[p].cold /\ g.age = 0
          /\ g.at = "writing"
        BY <2>0
    <2>3. flight[p] # Grounded /\ row' = row
        BY <1>3 DEF FetchEnds
    <2> QED
        BY <2>1, <2>2, <2>3, GoesOnKnown
<1>4. CASE FetchFails(p)
    <2>1. PICK g : /\ Continue(p, g)
                   /\ g = [flight[p] EXCEPT !.at = "failed", !.body = None, !.spent = 0]
        BY <1>4 DEF FetchFails
    <2>0. g = [at |-> "failed", cold |-> flight[p].cold, url |-> flight[p].url,
               held |-> flight[p].held, same |-> flight[p].same, body |-> None,
               spent |-> 0, age |-> flight[p].age]
        BY <1>1, <2>1, Failed
    <2>2. /\ g.url = flight[p].url /\ g.cold = flight[p].cold /\ g.age = flight[p].age
          /\ g.at = "failed"
        BY <2>0
    <2>3. flight[p] # Grounded /\ row' = row
        BY <1>4 DEF FetchFails
    <2> QED
        BY <2>1, <2>2, <2>3, GoesOnKnown
<1> QED
    BY <1>2, <1>3, <1>4

LEMMA GroundedKnown ==
    ASSUME IInv, AgesAreKnown, NEW p \in Procs, Continue(p, Grounded), row' = row
    PROVE  AgesAreKnown'
BY RowKept, ContinueKnown DEF KnownFlight

LEMMA StoreFetchedKnown ==
    ASSUME IInv, AgesAreKnown, NEW c \in Clients, StoreFetched(c)
    PROVE  AgesAreKnown'
<1> DEFINE f == flight[c]
           n == [cached |-> TRUE, content |-> f.body, age |-> f.age, asked |-> f.age,
                 status |-> "success", backoff |-> None]
           g == Served(c, f.url, f.body, f.age)
<1>1. c \in Procs /\ f # Grounded
    BY DEF Procs, StoreFetched
<1>2. f.url \in Urls /\ f.age \in Ages
    BY <1>1, KnownAre
<1>3. n.cached /\ n.age = f.age
    OBVIOUS
<1>4. row' = [row EXCEPT ![f.url] = n] /\ DateWritten(f.url, c, g)
    BY DEF StoreFetched
<1> HIDE DEF n
<1>5. RowsStay /\ row'[f.url].cached /\ \A v \in Urls : KnownRow(row'[v])
    BY <1>2, <1>3, <1>4, RowPut
<1>6. KnownFlight(g, row')
    BY <1>2, <1>5, ServedKnown
<1> HIDE DEF g, f
<1> QED
    BY <1>1, <1>2, <1>4, <1>5, <1>6, DateWrittenKnown

LEMMA StoreFailureKnown ==
    ASSUME IInv, AgesAreKnown, NEW c \in Clients, StoreFailure(c)
    PROVE  AgesAreKnown'
<1> DEFINE f == flight[c]
           n == [NoRow EXCEPT !.cached = TRUE, !.age = 0, !.status = "failure"]
<1>1. c \in Procs /\ f # Grounded
    BY DEF Procs, StoreFailure
<1>2. CASE MayCacheFailure(f.url)
    <2>1. f.url \in Urls
        BY <1>1, KnownAre
    <2>2. n.cached /\ n.age \in Ages
        BY Negative, Nones
    <2>3. row' = [row EXCEPT ![f.url] = n] /\ DateWritten(f.url, c, Grounded)
        BY <1>2 DEF StoreFailure
    <2> HIDE DEF n
    <2>4. RowsStay /\ \A v \in Urls : KnownRow(row'[v])
        BY <2>1, <2>2, <2>3, RowPut
    <2>5. KnownFlight(Grounded, row')
        BY DEF KnownFlight
    <2> HIDE DEF f
    <2> QED
        BY <1>1, <2>1, <2>3, <2>4, <2>5, DateWrittenKnown
<1>3. CASE ~MayCacheFailure(f.url)
    BY <1>1, <1>3, GroundedKnown DEF StoreFailure
<1> QED
    BY <1>2, <1>3

LEMMA WriteRefreshKnown ==
    ASSUME IInv, AgesAreKnown, NEW p \in Procs, WriteRefresh(p)
    PROVE  AgesAreKnown'
<1> DEFINE f == flight[p]
           content == IF f.body = None THEN f.held ELSE f.body
           n == OutcomeColumns(f.url, f)
           g == Served(p, f.url, content, f.age)
<1>1. f # Grounded /\ f.at = "writing" /\ ~f.cold
    BY DEF WriteRefresh
<1>2. f \in Flights /\ f.url \in Urls /\ f.age \in Ages /\ row[f.url].cached
    BY <1>1, KnownAre
<1>3. CASE f.same
    <2>1. n.age = f.age
        BY <1>1, <1>3, RefreshedRow
    <2>2. row[f.url] \in RowTypes
        BY <1>2, KnownAre
    <2>3. n.cached = row[f.url].cached
        BY <2>2 DEF OutcomeColumns, RowTypes
    <2>4. row' = [row EXCEPT ![f.url] = n] /\ DateWritten(f.url, p, g)
        BY <1>3 DEF WriteRefresh, MayWrite
    <2> HIDE DEF n, content
    <2>5. RowsStay /\ row'[f.url].cached /\ \A v \in Urls : KnownRow(row'[v])
        BY <1>2, <2>1, <2>3, <2>4, RowPut
    <2>6. KnownFlight(g, row')
        BY <1>2, <2>5, ServedKnown
    <2> HIDE DEF g, f
    <2> QED
        BY <1>2, <2>4, <2>5, <2>6, DateWrittenKnown
<1>4. CASE ~f.same
    <2>1. row' = row
        BY <1>4 DEF WriteRefresh, MayWrite
    <2>2. CASE p \in Jobs
        BY <1>4, <2>1, <2>2, GroundedKnown DEF WriteRefresh, MayWrite
    <2>3. CASE p \notin Jobs
        <3>1. PICK h : Continue(p, h) /\ h = [f EXCEPT !.at = "superseded"]
            BY <1>4, <2>3 DEF WriteRefresh, MayWrite
        <3>2. h.url = f.url /\ h.cold = f.cold /\ h.age = f.age
            BY <1>2, <3>1 DEF Flights
        <3>3. h.at = "superseded" => ~h.cold
            BY <1>1, <3>2
        <3> QED
            BY <1>1, <2>1, <3>1, <3>2, <3>3, GoesOnKnown
    <2> QED
        BY <2>2, <2>3
<1> QED
    BY <1>3, <1>4

\* A row that supersedes an outcome is there, whatever wrote it.
LEMMA ServeCurrentRowKnown ==
    ASSUME IInv, AgesAreKnown, NEW c \in Clients, ServeCurrentRow(c)
    PROVE  AgesAreKnown'
<1> DEFINE f == flight[c]
           g == Served(c, f.url, row[f.url].content, row[f.url].age)
<1>1. c \in Procs /\ f # Grounded /\ Continue(c, g) /\ row' = row
    BY DEF Procs, ServeCurrentRow
<1>2. f.url \in Urls /\ row[f.url].cached /\ row[f.url].age \in Ages
    BY <1>1, KnownAre DEF ServeCurrentRow
<1>3. KnownFlight(g, row')
    BY <1>1, <1>2, ServedKnown
<1>4. RowsStay /\ \A v \in Urls : KnownRow(row'[v])
    BY <1>1, RowKept
<1> HIDE DEF g
<1> QED
    BY <1>1, <1>3, <1>4, ContinueKnown

LEMMA FailureKnown ==
    ASSUME IInv, AgesAreKnown, NEW p \in Procs, RecordFailure(p) \/ FailureUnrecorded(p)
    PROVE  AgesAreKnown'
<1> DEFINE f == flight[p]
           n == FailureColumns(f.url)
           g == Served(p, f.url, f.held, f.age)
<1>1. f # Grounded /\ ~f.cold /\ Continue(p, g)
    BY DEF RecordFailure, FailureUnrecorded
<1>2. f.url \in Urls /\ f.age \in Ages /\ row[f.url].cached /\ row[f.url].age \in Ages
      /\ row[f.url] \in RowTypes
    BY <1>1, KnownAre
<1>3. RowsStay /\ row'[f.url].cached /\ \A v \in Urls : KnownRow(row'[v])
    <2>1. CASE row' = row
        BY <1>2, <2>1, RowKept
    <2>2. CASE row' = [row EXCEPT ![f.url] = n]
        <3>0. n = [cached |-> row[f.url].cached, content |-> row[f.url].content,
                   age |-> row[f.url].age, asked |-> row[f.url].asked,
                   status |-> "failure", backoff |-> 0]
            BY <1>2, Blamed DEF FailureColumns
        <3>1. n.cached = row[f.url].cached /\ n.age = row[f.url].age
            BY <3>0
        <3> HIDE DEF n
        <3> QED
            BY <1>2, <2>2, <3>1, RowPut
    <2> QED
        BY <2>1, <2>2 DEF RecordFailure, FailureUnrecorded
<1>4. KnownFlight(g, row')
    BY <1>2, <1>3, ServedKnown
<1> HIDE DEF g, f
<1> QED
    BY <1>1, <1>3, <1>4, ContinueKnown

\* Who read a due row, or follows one, has its row still there.
LEMMA StartJobKnown ==
    ASSUME IInv, AgesAreKnown, NEW j \in Jobs, StartJob(j)
    PROVE  AgesAreKnown'
<1> DEFINE read(u) == [url |-> u, held |-> row[u].content, same |-> TRUE, age |-> row[u].age]
           some == {read(u) : u \in {v \in Urls : IsDue(v)}}
           count == Cardinality({u \in Urls : IsDue(u)})
<1>1. PICK list \in [1 .. count -> some] : due' = [due EXCEPT ![j] = list]
    BY DEF StartJob
<1>2. row' = row /\ flight' = flight
    BY DEF StartJob
<1>3. due \in [Jobs -> Seq(Reads)]
    BY DEF IInv, Shape
<1>4. count \in Nat
    BY CacheAssumption, FS_CardinalityType, FS_Subset DEF CacheAssumption
<1> HIDE DEF count
<1>5. Len(list) = count /\ DOMAIN list = 1 .. count
    <2> HIDE DEF some
    <2>1. list \in Seq(some)
        BY <1>1, <1>4, SeqDef
    <2> QED
        BY <1>1, <1>4, <2>1, LenProperties
<1>6. ASSUME NEW i \in 1 .. Len(list) PROVE KnownRead(list[i], row)
    <2>0. list[i] \in some
        <3> HIDE DEF some
        <3> QED
            BY <1>1, <1>5
    <2>1. PICK u \in Urls : IsDue(u) /\ list[i] = read(u)
        BY <2>0
    <2>2. row[u].cached /\ row[u].age \in Ages
        BY <2>1, KnownAre DEF IsDue
    <2> QED
        BY <2>1, <2>2 DEF KnownRead
<1>7. ASSUME NEW k \in Jobs, NEW i \in 1 .. Len(due'[k]) PROVE KnownRead(due'[k][i], row')
    <2>1. CASE k = j
        BY <1>1, <1>2, <1>3, <1>6, <2>1
    <2>2. CASE k # j
        BY <1>1, <1>2, <1>3, <2>2 DEF AgesAreKnown
    <2> QED
        BY <2>1, <2>2
<1> QED
    BY <1>2, <1>7 DEF AgesAreKnown

LEMMA NextDueKnown ==
    ASSUME IInv, AgesAreKnown, NEW j \in Jobs, NextDue(j)
    PROVE  AgesAreKnown'
<1> DEFINE read == Head(due[j])
           f == Fetch(read.url, read.held, FALSE, read.same, read.age)
<1>1. /\ due[j] \in Seq(Reads) /\ due[j] # <<>> /\ due \in [Jobs -> Seq(Reads)]
      /\ flight \in [Procs -> {Grounded} \cup Flights]
    BY DEF NextDue, IInv, Shape
<1>2. /\ flight' = [flight EXCEPT ![j] = f] /\ row' = row
      /\ due' = [due EXCEPT ![j] = Tail(due[j])]
    BY DEF NextDue
<1>3. 1 \in 1 .. Len(due[j]) /\ read = due[j][1]
    BY <1>1
<1>4. KnownRead(read, row)
    BY <1>3 DEF AgesAreKnown
<1>5. f.url = read.url /\ f.age = read.age /\ f.at = "asking"
    BY DEF Fetch
<1>6. KnownFlight(f, row)
    BY <1>4, <1>5 DEF KnownRead, KnownFlight
<1> HIDE DEF f
<1>7. ASSUME NEW p \in Procs PROVE KnownFlight(flight'[p], row')
    BY <1>1, <1>2, <1>6 DEF AgesAreKnown
<1>8. ASSUME NEW k \in Jobs, NEW i \in 1 .. Len(due'[k]) PROVE KnownRead(due'[k][i], row')
    <2>1. CASE k = j
        <3>1. due'[k] = Tail(due[j])
            BY <1>1, <1>2, <2>1
        <3>2. i + 1 \in 1 .. Len(due[j]) /\ due'[k][i] = due[j][i + 1]
            BY <1>1, <3>1
        <3> QED
            BY <1>2, <3>2 DEF AgesAreKnown
    <2>2. CASE k # j
        BY <1>1, <1>2, <2>2 DEF AgesAreKnown
    <2> QED
        BY <2>1, <2>2
<1> QED
    BY <1>2, <1>7, <1>8 DEF AgesAreKnown

LEMMA CrashKnown ==
    ASSUME IInv, AgesAreKnown, NEW p \in Procs, Crash(p)
    PROVE  AgesAreKnown'
<1>1. /\ due \in [Jobs -> Seq(Reads)] /\ flight \in [Procs -> {Grounded} \cup Flights]
      /\ row' = row /\ flight' = [flight EXCEPT ![p] = Grounded]
      /\ due' = IF p \in Jobs THEN [due EXCEPT ![p] = <<>>] ELSE due
    BY DEF Crash, IInv, Shape
<1>2. ASSUME NEW q \in Procs PROVE KnownFlight(flight'[q], row')
    <2>1. flight'[q] = Grounded \/ flight'[q] = flight[q]
        BY <1>1
    <2> QED
        BY <1>1, <2>1 DEF AgesAreKnown, KnownFlight
<1>3. ASSUME NEW k \in Jobs, NEW i \in 1 .. Len(due'[k]) PROVE KnownRead(due'[k][i], row')
    <2>1. due'[k] = <<>> \/ due'[k] = due[k]
        BY <1>1
    <2>2. Len(<<>>) = 0
        OBVIOUS
    <2> QED
        BY <1>1, <2>1, <2>2 DEF AgesAreKnown
<1> QED
    BY <1>1, <1>2, <1>3 DEF AgesAreKnown

LEMMA AgedNothing ==
    ASSUME NEW w, NEW n, w = NoRow,
           n = [w EXCEPT !.age = Older(@, AgeCap), !.backoff = Older(@, AgeCap),
                         !.asked = IF w.cached THEN Older(@, AgeCap) ELSE @]
    PROVE  n = NoRow
<1>1. /\ Older(w.age, AgeCap) = None /\ Older(w.backoff, AgeCap) = None
      /\ w.cached = FALSE /\ w.asked = 0
    BY DEF NoRow, Older
<1>2. n = [w EXCEPT !.age = None, !.backoff = None, !.asked = 0]
    BY <1>1
<1> QED
    BY <1>2 DEF NoRow

\* Time passes: an age stays one, and a row never written stays so.
LEMMA TickKnown ==
    ASSUME IInv, AgesAreKnown, Tick
    PROVE  AgesAreKnown'
<1>1. ASSUME NEW a \in Ages PROVE Older(a, AgeCap) \in Ages
    BY Times, Nones DEF Older, Ages
<1>2. ASSUME NEW u \in Urls PROVE KnownRow(row'[u]) /\ row'[u].cached = row[u].cached
    <2> DEFINE w == row[u]
               n == row'[u]
    <2>1. n = [w EXCEPT !.age = Older(@, AgeCap), !.backoff = Older(@, AgeCap),
                        !.asked = IF w.cached THEN Older(@, AgeCap) ELSE @]
        BY DEF Tick
    <2> HIDE DEF n, w
    <2>2. CASE ~w.cached
        <3>1. w = NoRow
            BY <2>2, KnownAre DEF KnownRow, w
        <3>2. n = NoRow
            BY <2>1, <3>1, AgedNothing
        <3> QED
            BY <3>1, <3>2 DEF KnownRow, NoRow, n, w
    <2>3. CASE w.cached
        <3>1. w \in RowTypes /\ w.age \in Ages
            BY <2>3, KnownAre DEF w
        <3>2. n.age = Older(w.age, AgeCap)
            BY <2>1, <3>1, AgedRow
        <3>3. n.cached = w.cached
            BY <2>1, <3>1 DEF RowTypes
        <3> QED
            BY <1>1, <2>3, <3>1, <3>2, <3>3 DEF KnownRow, n, w
    <2> QED
        BY <2>2, <2>3
<1>3. ASSUME NEW p \in Procs PROVE KnownFlight(flight'[p], row')
    <2>1. flight'[p] = Aged(flight[p]) /\ (Fetching(flight[p]) => flight[p].spent < Budget)
        BY DEF Tick
    <2>2. CASE flight[p] = Grounded
        BY <2>1, <2>2 DEF Aged, KnownFlight
    <2>3. CASE flight[p] # Grounded
        <3>1. /\ flight[p] \in Flights /\ flight[p].url \in Urls /\ flight[p].age \in Ages
              /\ flight[p].cold \/ row[flight[p].url].cached
              /\ flight[p].at = "superseded" => ~flight[p].cold
            BY <2>3, KnownAre
        <3>2. /\ flight'[p].url = flight[p].url /\ flight'[p].at = flight[p].at
              /\ flight'[p].cold = flight[p].cold
              /\ flight'[p].age = Older(flight[p].age, AgeCap)
            BY <2>1, <3>1, AgedFlight
        <3> QED
            BY <1>1, <1>2, <3>1, <3>2 DEF KnownFlight
    <2> QED
        BY <2>2, <2>3
<1>4. ASSUME NEW j \in Jobs, NEW i \in 1 .. Len(due'[j]) PROVE KnownRead(due'[j][i], row')
    <2>1. due[j] \in Seq(Reads)
        BY DEF IInv, Shape
    <2> DEFINE aged(d) == [d EXCEPT !.age = Older(@, AgeCap)]
    <2>2. due'[j] = [k \in DOMAIN due[j] |-> aged(due[j][k])]
        BY DEF Tick
    <2>3. i \in 1 .. Len(due[j]) /\ DOMAIN due[j] = 1 .. Len(due[j])
        BY <2>1, <2>2
    <2>4. due'[j][i] = aged(due[j][i]) /\ due[j][i] \in Reads
        BY <2>1, <2>2, <2>3
    <2>5. due'[j][i].url = due[j][i].url /\ due'[j][i].age = Older(due[j][i].age, AgeCap)
        BY <2>4, AgedRead
    <2>6. KnownRead(due[j][i], row) /\ due[j][i].url \in Urls
        BY <2>3, <2>4 DEF AgesAreKnown, Reads
    <2> QED
        BY <1>1, <1>2, <2>5, <2>6 DEF KnownRead
<1> QED
    BY <1>2, <1>3, <1>4 DEF AgesAreKnown

LEMMA AgesStayKnown ==
    ASSUME IInv, AgesAreKnown, [Next]_vars
    PROVE  AgesAreKnown'
<1>1. ASSUME NEW c \in Clients, Client(c)
      PROVE  AgesAreKnown'
    <2>1. ASSUME NEW u \in Urls, ColdMiss(c, u)
          PROVE  AgesAreKnown'
        BY <2>1, ColdMissKnown
    <2>2. ASSUME NEW u \in Urls, NEW mode \in Modes(c), ServeCached(c, u, mode)
          PROVE  AgesAreKnown'
        BY <2>2, ServeCachedKnown
    <2>3. ASSUME NEW u \in Urls, NEW mode \in Modes(c), Revalidate(c, u, mode)
          PROVE  AgesAreKnown'
        BY <2>3, RevalidateKnown
    <2>4. CASE Refuse(c) \/ Done(c)
        BY <2>4, GroundedKnown DEF Refuse, Done, Procs
    <2>5. CASE StoreFetched(c) \/ StoreFailure(c) \/ ServeCurrentRow(c)
        BY <2>5, StoreFetchedKnown, StoreFailureKnown, ServeCurrentRowKnown
    <2> QED
        BY <1>1, <2>1, <2>2, <2>3, <2>4, <2>5 DEF Client
<1>2. ASSUME NEW j \in Jobs, StartJob(j) \/ NextDue(j)
      PROVE  AgesAreKnown'
    BY <1>2, StartJobKnown, NextDueKnown
<1>3. ASSUME NEW p \in Procs, Refresh(p) \/ Crash(p)
      PROVE  AgesAreKnown'
    BY <1>3, FetchingKnown, WriteRefreshKnown, FailureKnown, CrashKnown DEF Refresh
<1>4. ASSUME NEW u \in Urls, Publish(u)
      PROVE  AgesAreKnown'
    BY <1>4 DEF Publish, AgesAreKnown
<1>5. CASE Tick
    BY <1>5, TickKnown
<1>6. CASE UNCHANGED vars
    BY <1>6 DEF vars, AgesAreKnown
<1> QED
    BY <1>1, <1>2, <1>3, <1>4, <1>5, <1>6 DEF Next

\* A row with an age, or no row, has the type the model declares.
LEMMA KnownIsTyped ==
    ASSUME NEW w \in RowTypes, KnownRow(w)
    PROVE  w \in Rows
<1>1. CASE ~w.cached
    BY <1>1 DEF KnownRow, Rows
<1>2. CASE w.cached
    <2>1. /\ w.age \in Ages /\ w.cached \in {TRUE}
          /\ w = [cached |-> w.cached, content |-> w.content, age |-> w.age,
                  asked |-> w.asked, status |-> w.status, backoff |-> w.backoff]
        BY <1>2 DEF KnownRow, RowTypes
    <2>2. /\ w.content \in Versions \cup {None} /\ w.asked \in Ages
          /\ w.status \in {"success", "failure"} /\ w.backoff \in Ages \cup {None}
        BY DEF RowTypes, Bodies, AgesOrNone
    <2> QED
        BY <2>1, <2>2 DEF Rows
<1> QED
    BY <1>1, <1>2

LEMMA InvariantsAreTyped ==
    ASSUME IInv, AgesAreKnown
    PROVE  TypeOK
<1>1. origin \in [Urls -> Versions] /\ replaced \in [Urls -> [Versions -> 0 .. ReplacedCap]]
    BY DEF IInv, Shape, Dates
<1>2. row \in [Urls -> Rows]
    <2>1. row \in [Urls -> RowTypes] /\ \A u \in Urls : KnownRow(row[u])
        BY KnownAre
    <2>2. \A u \in Urls : row[u] \in Rows
        BY <2>1, KnownIsTyped
    <2> QED
        BY <2>1, <2>2
<1>3. ASSUME NEW p \in Procs
      PROVE  \/ flight[p] = Grounded
             \/ flight[p] \in
                [at : {"asking", "reading", "failed", "writing", "superseded", "served"},
                 cold : BOOLEAN, url : Urls, held : Versions \cup {None},
                 same : BOOLEAN, body : Versions \cup {None}, spent : 0 .. Budget,
                 age : Ages]
    <2>1. CASE flight[p] # Grounded
        BY <2>1, KnownAre DEF Flights, Bodies
    <2> QED
        BY <2>1
<1>4. ASSUME NEW j \in Jobs, NEW i \in DOMAIN due[j]
      PROVE  due[j][i] \in [url : Urls, held : Versions \cup {None},
                            same : BOOLEAN, age : Ages]
    <2>1. due[j] \in Seq(Reads)
        BY DEF IInv, Shape
    <2>2. i \in 1 .. Len(due[j]) /\ due[j][i] \in Reads
        BY <2>1
    <2>3. due[j][i].age \in Ages
        BY <2>2 DEF AgesAreKnown, KnownRead
    <2> QED
        BY <2>2, <2>3 DEF Reads, Bodies
<1> QED
    BY <1>1, <1>2, <1>3, <1>4 DEF TypeOK

\* Every row, flight and due entry is what the tables and the clients say it
\* is; a row that is there has a date_fetched, though its column may be NULL
\* (intersphinxinventories: whatever inserts a row dates it).
THEOREM CacheIsTyped == Spec => []TypeOK
<1>1. Init => IInv /\ AgesAreKnown
    BY InitInvariant, InitKnown
<1>2. IInv /\ AgesAreKnown /\ [Next]_vars => (IInv /\ AgesAreKnown)'
    BY StepKeeps, AgesStayKnown
<1>3. IInv /\ AgesAreKnown => TypeOK
    BY InvariantsAreTyped
<1> QED
    BY <1>1, <1>2, <1>3, PTL DEF Spec
=============================================================================
