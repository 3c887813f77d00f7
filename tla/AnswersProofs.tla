---------------------------- MODULE AnswersProofs ----------------------------
(***************************************************************************)
(* What a query may answer while the registry changes the slice under it,  *)
(* for any servers, configurations, queries and numbers of changes; and    *)
(* which server the routers choose of the pool that a query has collected, *)
(* for any pools, weights, regions and latencies.                          *)
(***************************************************************************)
EXTENDS DomainAnswers, Routing, FiniteSetTheorems, WellFoundedInduction, TLAPS

-----------------------------------------------------------------------------
(* The inductive invariant *)

Cell == Server \cup {NoServer}
Kind == {"append", "remove", "cell", "length"}

\* The entries of a domain that the registry has.
Entries == [cells : Seq(Cell), len : Nat, algorithm : Algorithms, counter : Nat]

Writes == {NoWrite} \cup [what : {"cell"}, at : Nat, server : Server]
                    \cup [what : {"length"}, len : Nat]

\* A query in progress.
Working ==
    [phase : {"found", "scan", "check"}, type : Type, orphan : Entries \cup {NoEntry},
     outgrown : Seq(Cell), n : Nat, i : Nat, server : Cell, pool : Seq(Server),
     present : SUBSET Server, well : SUBSET Server, steady : SUBSET Server,
     overlap : SUBSET Kind]

Types ==
    /\ entry \in Entries \cup {NoEntry} /\ entry.len <= Len(entry.cells)
    /\ writing \in Writes
    /\ healthy \subseteq Server /\ registered \subseteq Server
    /\ DOMAIN query = Query
    /\ \A q \in Query : query[q] = Idle \/ query[q] \in Working \/ query[q].phase = "done"

\* The operation that holds the lock appends `Appended'.
Appending == writing.what = "cell" \/ (writing.what = "length" /\ writing.len > entry.len)
Appended  == IF writing.what = "cell" THEN writing.server ELSE entry.cells[writing.len]

\* The slice once the operation that holds the lock has made its second write.
LenAfter     == IF writing.what = "length" THEN writing.len ELSE entry.len
CellAfter(j) == IF writing.what = "cell" /\ j = writing.at THEN writing.server ELSE entry.cells[j]

\* Then it lists the registered servers, each of them once.
SliceIsRegistered ==
    /\ writing.what = "cell" => entry.len >= 1 /\ writing.at = entry.len
    /\ writing.what = "length" => /\ writing.len \in {entry.len + 1, entry.len - 1}
                                  /\ writing.len <= Len(entry.cells)
    /\ entry = NoEntry => Unlocked
    /\ \A j \in 1 .. LenAfter : CellAfter(j) \in registered
    /\ \A s \in registered : \E j \in 1 .. LenAfter : CellAfter(j) = s
    /\ \A j, k \in 1 .. LenAfter : CellAfter(j) = CellAfter(k) => j = k

Own(q)     == query[q].orphan = NoEntry
InPlace(q) == Own(q) /\ query[q].outgrown = <<>>

\* A query reads within the array it has.
Fits(q) ==
    /\ Own(q) => entry # NoEntry
    /\ ~Own(q) => query[q].orphan.len <= Len(query[q].orphan.cells)
    /\ query[q].phase = "found" => /\ query[q].outgrown = <<>> /\ query[q].pool = <<>>
                                   /\ query[q].overlap \subseteq {"append", "remove"}
    /\ query[q].phase # "found" => /\ query[q].n <= Len(CellsOf(q))
                                   /\ query[q].i \in 1 .. query[q].n + 1
    /\ query[q].phase = "check" => query[q].i <= query[q].n

\* What is remembered of a query covers what is so now, and the operation that
\* holds the lock, which began after the query did.
Remembers(q) ==
    /\ registered \subseteq query[q].present
    /\ healthy \subseteq query[q].well
    /\ query[q].steady \subseteq registered \cap healthy
    /\ Appending => "append" \in query[q].overlap /\ Appended \notin query[q].steady
    /\ ~Unlocked /\ ~Appending => "remove" \in query[q].overlap

\* The cells that are still to be read hold servers that were registered.
Serving(q) ==
    /\ ToSet(query[q].pool) \subseteq query[q].well
    /\ "cell" \notin query[q].overlap =>
          /\ ToSet(query[q].pool) \subseteq query[q].present
          /\ query[q].phase = "check" => query[q].server \in query[q].present
          /\ query[q].phase = "found" =>
                \A j \in 1 .. EntryOf(q).len :
                    \/ EntryOf(q).cells[j] \in query[q].present
                    \/ Own(q) /\ writing.what = "cell" /\ j = writing.at
          /\ query[q].phase # "found" =>
                \A j \in query[q].i .. query[q].n : CellsOf(q)[j] \in query[q].present

\* The cells that no append writes.
Kept == IF writing.what = "cell" THEN entry.len - 1 ELSE entry.len

ToRead(q) == IF query[q].phase = "check" THEN query[q].i + 1 ELSE query[q].i

\* A server that was there all the time is in the pool, or in a cell still to be
\* read, one that appends leave alone if they are what overlaps the query.
Ahead(q) ==
    ~({"remove", "append"} \subseteq query[q].overlap) =>
        \A t \in query[q].steady : Wanted(q, t) =>
            \/ t \in ToSet(query[q].pool)
            \/ query[q].phase = "check" /\ query[q].server = t
            \/ query[q].phase = "found" /\ Own(q)
            \/ /\ query[q].phase = "found"
               /\ \E j \in 1 .. query[q].orphan.len : query[q].orphan.cells[j] = t
            \/ /\ query[q].phase # "found"
               /\ \E j \in ToRead(q) .. query[q].n :
                     /\ CellsOf(q)[j] = t
                     /\ InPlace(q) /\ "remove" \notin query[q].overlap => j <= Kept

\* Without a change in place no server is read twice.
Even(q) ==
    query[q].overlap = {} =>
        /\ IsInjective(query[q].pool)
        /\ query[q].phase = "found" /\ ~Own(q) =>
              \A j, k \in 1 .. query[q].orphan.len :
                  query[q].orphan.cells[j] = query[q].orphan.cells[k] => j = k
        /\ query[q].phase # "found" =>
              /\ \A j, k \in 1 .. query[q].n : CellsOf(q)[j] = CellsOf(q)[k] => j = k
              /\ \A x \in ToSet(query[q].pool) :
                    \E j \in 1 .. query[q].i - 1 : CellsOf(q)[j] = x
        /\ query[q].phase = "check" => query[q].server = CellsOf(q)[query[q].i]

Justified(q) ==
    /\ Done(q, "NOERROR") =>
          /\ query[q].server \in query[q].well
          /\ query[q].server \in query[q].present \/ "cell" \in query[q].overlap
          /\ query[q].overlap = {} => /\ IsInjective(query[q].pool)
                                      /\ query[q].steady \subseteq ToSet(query[q].pool)
    /\ Done(q, "SERVFAIL") =>
          query[q].steady = {} \/ {"remove", "append"} \subseteq query[q].overlap

Good(q) ==
    /\ InProgress(q) => Fits(q) /\ Remembers(q) /\ Serving(q) /\ Ahead(q) /\ Even(q)
    /\ Justified(q)

IInv == Types /\ SliceIsRegistered /\ \A q \in Query : Good(q)

-----------------------------------------------------------------------------
(* Sequences *)

LEMMA ToSetAppend ==
  ASSUME NEW S, NEW s \in Seq(S), NEW x \in S
  PROVE  ToSet(Append(s, x)) = ToSet(s) \cup {x}
  <1>1. Append(s, x) \in Seq(S) /\ Len(Append(s, x)) = Len(s) + 1
        /\ Append(s, x)[Len(s) + 1] = x
        /\ \A i \in 1 .. Len(s) : Append(s, x)[i] = s[i]
    OBVIOUS
  <1>2. ToSet(Append(s, x)) \subseteq ToSet(s) \cup {x}
    BY <1>1 DEF ToSet
  <1>3. ToSet(s) \cup {x} \subseteq ToSet(Append(s, x))
    BY <1>1 DEF ToSet
  <1> QED BY <1>2, <1>3

LEMMA InjectiveAppend ==
  ASSUME NEW S, NEW s \in Seq(S), NEW x \in S, IsInjective(s), x \notin ToSet(s)
  PROVE  IsInjective(Append(s, x))
  BY DEF ToSet, IsInjective

LEMMA EmptyToSet == ToSet(<<>>) = {} /\ IsInjective(<<>>)
  BY DEF ToSet, IsInjective

LEMMA ToSetPrefix ==
  ASSUME NEW S, NEW s \in Seq(S), NEW k \in Nat, k <= Len(s)
  PROVE  \A x : x \in ToSet(SubSeq(s, 1, k)) <=> \E j \in 1 .. k : s[j] = x
  <1>1. Len(SubSeq(s, 1, k)) = k /\ SubSeq(s, 1, k) \in Seq(S)
        /\ \A j \in 1 .. k : SubSeq(s, 1, k)[j] = s[j]
    OBVIOUS
  <1> DEFINE p == SubSeq(s, 1, k)
  <1>2. DOMAIN p = 1 .. k
    BY <1>1
  <1> QED BY <1>1, <1>2 DEF ToSet

LEMMA SmallestNat ==
  ASSUME NEW I, I \subseteq Nat, I # {}
  PROVE  \E x \in I : \A y \in I : x <= y
  <1>1. PICK x \in I : \A y \in I : ~(<<y, x>> \in OpToRel(<, Nat))
    BY NatLessThanWellFounded, WFMin
  <1>2. \A y \in I : x <= y
    <2> SUFFICES ASSUME NEW y \in I, y < x PROVE FALSE
      OBVIOUS
    <2>1. <<y, x>> \in Nat \X Nat /\ <<y, x>>[1] < <<y, x>>[2]
      OBVIOUS
    <2>2. <<y, x>> \in OpToRel(<, Nat)
      BY <2>1 DEF OpToRel
    <2> QED BY <1>1, <2>2
  <1> QED BY <1>2

LEMMA HasMin ==
  ASSUME NEW I, I \subseteq Nat, I # {}
  PROVE  Min(I) \in I /\ \A y \in I : Min(I) <= y
  <1>1. PICK x \in I : \A y \in I : x <= y
    BY SmallestNat
  <1> QED BY <1>1 DEF Min

\* append to a full array.
LEMMA GrownCells ==
  ASSUME NEW s \in Seq(Cell)
  PROVE  /\ Grown(s) \in Seq(Cell) /\ Len(Grown(s)) > Len(s)
         /\ \A j \in 1 .. Len(s) : Grown(s)[j] = s[j]
  <1> DEFINE m == IF Len(s) = 0 THEN 1 ELSE Len(s)
  <1> DEFINE more == [j \in 1 .. m |-> NoServer]
  <1>1. m \in Nat \ {0}
    OBVIOUS
  <1>2. more \in Seq(Cell) /\ Len(more) = m
    BY <1>1 DEF Cell
  <1>3. Grown(s) = s \o more
    BY DEF Grown
  <1> HIDE DEF more, m
  <1> QED BY <1>1, <1>2, <1>3

LEMMA SetCell ==
  ASSUME NEW S, NEW s \in Seq(S), NEW k \in 1 .. Len(s), NEW v \in S
  PROVE  /\ [s EXCEPT ![k] = v] \in Seq(S) /\ Len([s EXCEPT ![k] = v]) = Len(s)
         /\ \A j \in 1 .. Len(s) : [s EXCEPT ![k] = v][j] = IF j = k THEN v ELSE s[j]
  OBVIOUS

\* The counter has a range, and points at a server of the pool.
LEMMA NextTurnType ==
  ASSUME NEW c \in Nat
  PROVE  NextTurn(c) \in Nat /\ NextTurn(c) \in 0 .. CounterLimit - 1
  BY PoolAssumption DEF NextTurn

LEMMA TurnInPool ==
  ASSUME NEW S, NEW pool \in Seq(S), pool # <<>>, NEW c \in Nat
  PROVE  /\ Len(pool) \in Nat \ {0} /\ (c % Len(pool)) + 1 \in 1 .. Len(pool)
         /\ RoundRobin(c, pool) \in ToSet(pool)
  <1>1. Len(pool) \in Nat \ {0}
    OBVIOUS
  <1>2. c % Len(pool) \in 0 .. Len(pool) - 1
    BY <1>1
  <1>3. (c % Len(pool)) + 1 \in 1 .. Len(pool)
    BY <1>1, <1>2
  <1> QED BY <1>1, <1>3 DEF RoundRobin, ToSet

\* A router returns a server of the pool.
LEMMA SelectableInPool ==
  ASSUME NEW e \in Entries, NEW pool \in Seq(Server), pool # <<>>,
         NEW s \in Selectable(e, pool)
  PROVE  s \in ToSet(pool)
  <1>1. Len(pool) \in Nat \ {0} /\ e.counter \in Nat
    BY DEF Entries
  <1>3. e.algorithm \in {"round_robin", "failover", "weighted"}
    BY AnswersAssumption DEF Entries
  <1>4. CASE e.algorithm = "round_robin"
    BY <1>1, <1>4, TurnInPool DEF Selectable
  <1>5. CASE e.algorithm = "failover"
    BY <1>1, <1>5 DEF Selectable, ToSet
  <1>6. CASE e.algorithm = "weighted"
    BY <1>6 DEF Selectable
  <1> QED BY <1>3, <1>4, <1>5, <1>6

-----------------------------------------------------------------------------
(* Entries and queries *)

LEMMA EntryTypes ==
  ASSUME Types
  PROVE  /\ entry.cells \in Seq(Cell) /\ entry.len \in Nat /\ Len(entry.cells) \in Nat
         /\ entry.len <= Len(entry.cells)
         /\ entry # NoEntry => entry \in Entries
  <1>1. <<>> \in Seq(Cell) /\ Len(<<>>) = 0
    OBVIOUS
  <1>2. CASE entry = NoEntry
    BY <1>1, <1>2 DEF Types, NoEntry
  <1>3. CASE entry \in Entries
    BY <1>3 DEF Types, Entries
  <1> QED BY <1>2, <1>3 DEF Types

LEMMA NoneIsNoEntry == NoEntry \notin Entries
  BY AnswersAssumption DEF NoEntry, Entries

LEMMA WriteTypes ==
  ASSUME Types
  PROVE  /\ writing.what \in {"none", "cell", "length"}
         /\ Unlocked <=> writing.what = "none"
         /\ writing.what = "cell" => writing.at \in Nat /\ writing.server \in Server
         /\ writing.what = "length" => writing.len \in Nat
  BY DEF Types, Writes, NoWrite, Unlocked

\* A query is idle, in progress or done.
LEMMA Phases ==
  ASSUME Types, NEW q \in Query
  PROVE  /\ InProgress(q) <=> query[q] \in Working
         /\ ~InProgress(q) => query[q] = Idle \/ query[q].phase = "done"
  BY DEF Types, InProgress, Working, Idle

LEMMA WorkingTypes ==
  ASSUME NEW r \in Working
  PROVE  /\ r.phase \in {"found", "scan", "check"} /\ r.type \in Type
         /\ r.orphan \in Entries \cup {NoEntry} /\ r.outgrown \in Seq(Cell)
         /\ r.n \in Nat /\ r.i \in Nat /\ r.server \in Cell /\ r.pool \in Seq(Server)
         /\ r.present \subseteq Server /\ r.well \subseteq Server /\ r.steady \subseteq Server
         /\ r.overlap \subseteq Kind
  BY DEF Working

LEMMA ArrayTypes ==
  ASSUME Types, NEW q \in Query, InProgress(q)
  PROVE  /\ EntryOf(q).cells \in Seq(Cell) /\ EntryOf(q).len \in Nat
         /\ CellsOf(q) \in Seq(Cell) /\ Len(CellsOf(q)) \in Nat
  BY Phases, WorkingTypes, EntryTypes DEF EntryOf, CellsOf, Entries, NoEntry

LEMMA InitIInv == AnswersInit => IInv
  <1> SUFFICES ASSUME AnswersInit PROVE IInv
    OBVIOUS
  <1>1. PICK c \in Configuration, a \in Algorithms :
           entry = NewEntry(c, a) /\ registered = ToSet(c)
    BY DEF AnswersInit
  <1>2. c \in Seq(Server) /\ IsInjective(c) /\ c \in Seq(Cell)
    BY AnswersAssumption DEF Cell
  <1>3. entry = [cells |-> c, len |-> Len(c), algorithm |-> a, counter |-> 0]
    BY <1>1 DEF NewEntry
  <1>4. /\ writing = NoWrite /\ writing.what = "none" /\ Unlocked
        /\ healthy \subseteq Server
        /\ \A q \in Query : query[q] = Idle
        /\ DOMAIN query = Query
    BY DEF AnswersInit, NoWrite, Unlocked
  <1>5. Types
    BY <1>1, <1>2, <1>3, <1>4 DEF Types, Entries, Writes, ToSet
  <1>6. SliceIsRegistered
    <2>1. \A j : CellAfter(j) = c[j]
      BY <1>3, <1>4 DEF CellAfter
    <2>2. LenAfter = Len(c) /\ DOMAIN c = 1 .. Len(c)
      BY <1>2, <1>3, <1>4 DEF LenAfter
    <2> QED BY <1>1, <1>2, <1>4, <2>1, <2>2 DEF SliceIsRegistered, IsInjective, ToSet
  <1>7. \A q \in Query : Good(q)
    BY <1>4 DEF Good, InProgress, Justified, Done, Idle
  <1> QED BY <1>5, <1>6, <1>7 DEF IInv

-----------------------------------------------------------------------------
(* Steps of one query *)

\* Nothing is said of the counter and of the algorithm of the entry.
SameSlice ==
    /\ UNCHANGED <<writing, healthy, registered>>
    /\ entry'.cells = entry.cells /\ entry'.len = entry.len
    /\ (entry' = NoEntry) <=> (entry = NoEntry)

LEMMA SliceKept == ASSUME SliceIsRegistered, SameSlice PROVE SliceIsRegistered'
  BY DEF SliceIsRegistered, SameSlice, LenAfter, CellAfter, Unlocked

LEMMA QueryKept ==
  ASSUME NEW q \in Query, Good(q), SameSlice, query'[q] = query[q]
  PROVE  Good(q)'
  <1>1. /\ EntryOf(q)'.cells = EntryOf(q).cells /\ EntryOf(q)'.len = EntryOf(q).len
        /\ CellsOf(q)' = CellsOf(q)
        /\ Own(q)' = Own(q) /\ InPlace(q)' = InPlace(q) /\ InProgress(q)' = InProgress(q)
        /\ ToRead(q)' = ToRead(q) /\ Kept' = Kept
    BY DEF EntryOf, CellsOf, Own, InPlace, InProgress, ToRead, Kept, SameSlice
  <1>2. /\ Appending' = Appending /\ Appended' = Appended /\ Unlocked' = Unlocked
        /\ \A t : Wanted(q, t)' = Wanted(q, t)
    BY DEF Appending, Appended, Unlocked, Wanted, SameSlice
  <1>3. Justified(q)'
    BY DEF Good, Justified, Done
  <1>4. SUFFICES ASSUME InProgress(q) PROVE (Fits(q) /\ Remembers(q) /\ Serving(q) /\ Ahead(q) /\ Even(q))'
    BY <1>1, <1>3 DEF Good
  <1>5. Fits(q)' /\ Remembers(q)'
    BY <1>1, <1>2, <1>4 DEF Good, Fits, Remembers, SameSlice
  <1>6. Serving(q)'
    BY <1>1, <1>4 DEF Good, Serving, SameSlice
  <1>7. Ahead(q)'
    BY <1>1, <1>2, <1>4 DEF Good, Ahead
  <1>8. Even(q)'
    BY <1>1, <1>4 DEF Good, Even
  <1> QED BY <1>5, <1>6, <1>7, <1>8

\* A step of a query does not concern the others.
LEMMA OneQuery ==
  ASSUME IInv, NEW q \in Query, SameSlice,
         entry' \in Entries \cup {NoEntry},
         DOMAIN query' = Query,
         \A p \in Query : p # q => query'[p] = query[p],
         query'[q] = Idle \/ query'[q] \in Working \/ query'[q].phase = "done",
         Good(q)'
  PROVE  IInv'
  <1>1. Types'
    BY DEF IInv, Types, SameSlice
  <1>2. ASSUME NEW p \in Query PROVE Good(p)'
    BY QueryKept DEF IInv
  <1> QED BY <1>1, <1>2, SliceKept DEF IInv

LEMMA WrittenStep == ASSUME IInv, NEW q \in Query, Written(q) PROVE IInv'
  <1>1. query' = [query EXCEPT ![q] = Idle] /\ UNCHANGED <<entry, writing, healthy, registered>>
    BY DEF Written
  <1>2. query'[q] = Idle /\ DOMAIN query' = Query
        /\ \A p \in Query : p # q => query'[p] = query[p]
    BY <1>1 DEF IInv, Types
  <1>3. Good(q)'
    BY <1>2 DEF Good, InProgress, Justified, Done, Idle
  <1>4. SameSlice /\ entry' \in Entries \cup {NoEntry}
    BY <1>1 DEF SameSlice, IInv, Types
  <1> QED BY <1>2, <1>3, <1>4, OneQuery

LEMMA LookupStep ==
  ASSUME IInv, NEW q \in Query, NEW type \in Type, Lookup(q, type)
  PROVE  IInv'
  <1> DEFINE r == [phase |-> "found", type |-> type, orphan |-> NoEntry, outgrown |-> <<>>,
                   n |-> 0, i |-> 0, server |-> NoServer, pool |-> <<>>,
                   present |-> registered, well |-> healthy,
                   steady |-> registered \cap healthy, overlap |-> {}]
  <1>1. /\ Unlocked /\ UNCHANGED <<entry, writing, healthy, registered>>
        /\ query' = [query EXCEPT ![q] = IF entry = NoEntry
                                         THEN [phase |-> "done", rcode |-> "NXDOMAIN"] ELSE r]
    BY DEF Lookup
  <1>2. Types /\ SliceIsRegistered
    BY DEF IInv
  <1>3. DOMAIN query' = Query /\ \A p \in Query : p # q => query'[p] = query[p]
    BY <1>1, <1>2 DEF Types
  <1>4. SameSlice /\ entry' \in Entries \cup {NoEntry}
    BY <1>1, <1>2 DEF SameSlice, Types
  <1>5. CASE entry = NoEntry
    <2>1. query'[q] = [phase |-> "done", rcode |-> "NXDOMAIN"]
      BY <1>1, <1>2, <1>5 DEF Types
    <2>2. Good(q)'
      BY <2>1 DEF Good, InProgress, Justified, Done
    <2> QED BY <2>1, <2>2, <1>3, <1>4, OneQuery
  <1>6. CASE entry # NoEntry
    <2>1. query'[q] = r
      BY <1>1, <1>2, <1>6 DEF Types
    <2>2. r \in Working
      BY <1>2 DEF Types, Working, Cell
    <2>3. /\ r.phase = "found" /\ r.orphan = NoEntry /\ r.outgrown = <<>> /\ r.pool = <<>>
          /\ r.present = registered /\ r.well = healthy /\ r.overlap = {}
          /\ r.steady = registered \cap healthy
      OBVIOUS
    <2> HIDE DEF r
    <2>4. writing.what = "none"
      BY <1>1, <1>2, WriteTypes
    <2>5. EntryOf(q)' = entry /\ Own(q)'
      BY <1>1, <2>1, <2>3 DEF EntryOf, Own
    <2>6. \A j \in 1 .. entry.len : entry.cells[j] \in registered
      BY <1>2, <2>4 DEF SliceIsRegistered, LenAfter, CellAfter
    <2>7. Fits(q)'
      BY <1>1, <1>6, <2>1, <2>3, <2>5 DEF Fits
    <2>8. Remembers(q)'
      BY <1>1, <2>1, <2>3, <2>4 DEF Remembers, Appending, Unlocked
    <2>9. Serving(q)' /\ Ahead(q)' /\ Even(q)'
      BY <1>1, <2>1, <2>3, <2>5, <2>6, EmptyToSet DEF Serving, Ahead, Even
    <2>10. Good(q)'
      BY <2>1, <2>3, <2>7, <2>8, <2>9 DEF Good, Justified, Done
    <2> QED BY <2>1, <2>2, <2>10, <1>3, <1>4, OneQuery
  <1> QED BY <1>5, <1>6

LEMMA ReadSliceStep ==
  ASSUME IInv, NEW q \in Query, ReadSlice(q)
  PROVE  IInv'
  <1> DEFINE mid == IF writing.what # "none" /\ query[q].orphan = NoEntry
                    THEN {writing.what} ELSE {}
  <1> DEFINE r == [query[q] EXCEPT !.phase = "scan", !.n = EntryOf(q).len, !.i = 1,
                                   !.overlap = @ \cup mid]
  <1>1. /\ query[q].phase = "found" /\ UNCHANGED <<entry, writing, healthy, registered>>
        /\ query' = [query EXCEPT ![q] = r]
    BY DEF ReadSlice, IInv, Types
  <1>2. Types /\ SliceIsRegistered /\ InProgress(q) /\ Good(q) /\ query[q] \in Working
    BY <1>1, Phases DEF IInv, InProgress
  <1>3. query'[q] = r /\ DOMAIN query' = Query /\ \A p \in Query : p # q => query'[p] = query[p]
    BY <1>1, <1>2 DEF Types
  <1>4. SameSlice /\ entry' \in Entries \cup {NoEntry}
    BY <1>1, <1>2 DEF SameSlice, Types
  <1>5. /\ r \in Working
        /\ r.phase = "scan" /\ r.n = EntryOf(q).len /\ r.i = 1
        /\ r.overlap = query[q].overlap \cup mid
        /\ \A f \in {"type", "orphan", "outgrown", "pool", "present", "well", "steady"} :
              r[f] = query[q][f]
    BY <1>2, ArrayTypes, WriteTypes DEF Working, Kind
  <1> HIDE DEF r
  <1> USE DEF Good
  <1>6. /\ query[q].outgrown = <<>> /\ query[q].pool = <<>>
        /\ query[q].overlap \subseteq {"append", "remove"}
    BY <1>1, <1>2 DEF Fits
  <1>7. EntryOf(q)' = EntryOf(q) /\ Own(q)' = Own(q) /\ CellsOf(q)' = EntryOf(q).cells
        /\ InPlace(q)' = Own(q) /\ EntryOf(q).len \in Nat /\ EntryOf(q).len <= Len(EntryOf(q).cells)
    BY <1>1, <1>2, <1>3, <1>5, <1>6, EntryTypes, ArrayTypes DEF EntryOf, Own, CellsOf, InPlace, Fits
  <1>8. Fits(q)'
    BY <1>1, <1>2, <1>3, <1>5, <1>7 DEF Fits, Own
  <1>9. Remembers(q)'
    BY <1>1, <1>2, <1>3, <1>5 DEF Remembers, Appending, Appended, Unlocked
  <1>10. Serving(q)'
    <2>1. ToSet(r.pool) = {}
      BY <1>5, <1>6, EmptyToSet
    <2>2. ASSUME "cell" \notin r.overlap, NEW j \in 1 .. r.n PROVE CellsOf(q)'[j] \in r.present
      <3>1. "cell" \notin query[q].overlap /\ ~(Own(q) /\ writing.what = "cell")
        BY <1>5, <2>2 DEF Own
      <3> QED BY <1>1, <1>2, <1>5, <1>7, <3>1 DEF Serving
    <2> QED BY <1>3, <1>5, <2>1, <2>2 DEF Serving
  <1>11. Ahead(q)'
    <2> SUFFICES ASSUME ~({"remove", "append"} \subseteq r.overlap),
                        NEW t \in query[q].steady, Wanted(q, t)
                 PROVE  \E j \in 1 .. EntryOf(q).len :
                           /\ EntryOf(q).cells[j] = t
                           /\ Own(q) /\ "remove" \notin r.overlap => j <= Kept
      BY <1>1, <1>3, <1>5, <1>7 DEF Ahead, ToRead, Wanted, Kept
    <2>1. ~({"remove", "append"} \subseteq query[q].overlap) /\ t \notin ToSet(query[q].pool)
      BY <1>5, <1>6, EmptyToSet
    <2>2. CASE ~Own(q)
      <3>1. \E j \in 1 .. query[q].orphan.len : query[q].orphan.cells[j] = t
        BY <1>1, <1>2, <2>1, <2>2 DEF Ahead
      <3> QED BY <2>2, <3>1 DEF EntryOf, Own
    <2>3. CASE Own(q)
      <3>1. EntryOf(q) = entry
        BY <2>3 DEF EntryOf, Own
      <3>2. t \in registered /\ (Appending => t # Appended)
        BY <1>2 DEF Remembers
      <3>3. PICK j \in 1 .. LenAfter : CellAfter(j) = t
        BY <1>2, <3>2 DEF SliceIsRegistered
      <3>4. CASE writing.what = "none"
        BY <3>1, <3>3, <3>4, <1>2, EntryTypes DEF LenAfter, CellAfter, Kept
      <3>5. CASE writing.what = "cell"
        <4>1. j # writing.at /\ entry.cells[j] = t /\ writing.at = entry.len
          BY <1>2, <3>2, <3>3, <3>5 DEF CellAfter, Appending, Appended, SliceIsRegistered
        <4> QED BY <1>2, <3>1, <3>3, <3>5, <4>1, EntryTypes DEF LenAfter, Kept
      <3>6. CASE writing.what = "length"
        <4>1. entry.cells[j] = t /\ j \in 1 .. writing.len /\ writing.len \in {entry.len + 1, entry.len - 1}
          BY <1>2, <3>3, <3>6 DEF CellAfter, LenAfter, SliceIsRegistered
        <4>2. j <= entry.len
          BY <1>2, <3>2, <3>6, <4>1, EntryTypes DEF Appending, Appended
        <4> QED BY <3>1, <3>6, <4>1, <4>2, <1>2, EntryTypes DEF Kept
      <3> QED BY <1>2, <3>4, <3>5, <3>6, WriteTypes
    <2> QED BY <2>2, <2>3
  <1>12. Even(q)'
    <2>4. ToSet(r.pool) = {} /\ IsInjective(r.pool)
      BY <1>5, <1>6, EmptyToSet
    <2> SUFFICES ASSUME r.overlap = {}
                 PROVE  \A j, k \in 1 .. r.n : CellsOf(q)'[j] = CellsOf(q)'[k] => j = k
      BY <1>3, <1>5, <2>4 DEF Even
    <2> SUFFICES \A j, k \in 1 .. EntryOf(q).len :
                    EntryOf(q).cells[j] = EntryOf(q).cells[k] => j = k
      BY <1>5, <1>7
    <2>1. query[q].overlap = {}
      BY <1>5
    <2>2. CASE ~Own(q)
      BY <1>1, <1>2, <2>1, <2>2 DEF Even, EntryOf, Own
    <2>3. CASE Own(q)
      <3>1. writing.what = "none"
        BY <1>2, <2>1, WriteTypes DEF Remembers
      <3> QED BY <1>2, <2>3, <3>1 DEF SliceIsRegistered, LenAfter, CellAfter, EntryOf, Own
    <2> QED BY <2>2, <2>3
  <1>13. Good(q)'
    BY <1>3, <1>5, <1>8, <1>9, <1>10, <1>11, <1>12 DEF Justified, Done
  <1> QED BY <1>3, <1>4, <1>5, <1>13, OneQuery

LEMMA ReadServerStep ==
  ASSUME IInv, NEW q \in Query, ReadServer(q)
  PROVE  IInv'
  <1> DEFINE s == CellsOf(q)[query[q].i]
  <1> DEFINE r == IF Wanted(q, s) THEN [query[q] EXCEPT !.phase = "check", !.server = s]
                  ELSE [query[q] EXCEPT !.i = query[q].i + 1]
  <1>1. /\ query[q].phase = "scan" /\ query[q].i <= query[q].n
        /\ UNCHANGED <<entry, writing, healthy, registered>>
        /\ query' = [query EXCEPT ![q] = r]
    BY DEF ReadServer
  <1>2. Types /\ SliceIsRegistered /\ InProgress(q) /\ Good(q) /\ query[q] \in Working
    BY <1>1, Phases DEF IInv, InProgress
  <1>3. query'[q] = r /\ DOMAIN query' = Query /\ \A p \in Query : p # q => query'[p] = query[p]
    BY <1>1, <1>2 DEF Types
  <1>4. SameSlice /\ entry' \in Entries \cup {NoEntry}
    BY <1>1, <1>2 DEF SameSlice, Types
  <1>5. query[q].i \in 1 .. query[q].n /\ query[q].n \in Nat /\ query[q].n <= Len(CellsOf(q))
    BY <1>1, <1>2, WorkingTypes DEF Good, Fits
  <1>6. s \in Cell
    BY <1>2, <1>5, ArrayTypes
  <1>7. /\ r \in Working
        /\ \A f \in {"type", "orphan", "outgrown", "pool", "present", "well", "steady", "n", "overlap"} :
              r[f] = query[q][f]
        /\ Wanted(q, s) => r.phase = "check" /\ r.server = s /\ r.i = query[q].i
        /\ ~Wanted(q, s) => r.phase = "scan" /\ r.i = query[q].i + 1
    <2>1. CASE Wanted(q, s)
      BY <1>1, <1>2, <1>6, <2>1 DEF Working
    <2>2. CASE ~Wanted(q, s)
      <3>1. query[q].i + 1 \in Nat
        BY <1>5
      <3> QED BY <1>1, <1>2, <2>2, <3>1 DEF Working
    <2> QED BY <2>1, <2>2
  <1> HIDE DEF r
  <1> USE DEF Good
  <1>8. /\ EntryOf(q)' = EntryOf(q) /\ Own(q)' = Own(q) /\ CellsOf(q)' = CellsOf(q)
        /\ InPlace(q)' = InPlace(q) /\ Kept' = Kept /\ \A t : Wanted(q, t)' = Wanted(q, t)
    BY <1>1, <1>3, <1>7 DEF EntryOf, Own, CellsOf, InPlace, Kept, Wanted
  <1>9. Fits(q)'
    BY <1>1, <1>2, <1>3, <1>5, <1>7, <1>8 DEF Fits
  <1>10. Remembers(q)'
    BY <1>1, <1>2, <1>3, <1>7 DEF Remembers, Appending, Appended, Unlocked
  <1>11. Serving(q)'
    BY <1>1, <1>2, <1>3, <1>5, <1>7, <1>8 DEF Serving
  <1>12. Ahead(q)'
    <2> SUFFICES ASSUME ~({"remove", "append"} \subseteq query[q].overlap),
                        NEW t \in query[q].steady, Wanted(q, t), t \notin ToSet(query[q].pool),
                        ~(r.phase = "check" /\ r.server = t)
                 PROVE  \E j \in ToRead(q)' .. query[q].n :
                           /\ CellsOf(q)[j] = t
                           /\ InPlace(q) /\ "remove" \notin query[q].overlap => j <= Kept
      BY <1>3, <1>7, <1>8 DEF Ahead
    <2>1. PICK j \in query[q].i .. query[q].n :
             /\ CellsOf(q)[j] = t
             /\ InPlace(q) /\ "remove" \notin query[q].overlap => j <= Kept
      BY <1>1, <1>2 DEF Ahead, ToRead
    <2>2. ToRead(q)' = query[q].i + 1
      BY <1>3, <1>7 DEF ToRead
    <2>3. j # query[q].i
      BY <1>7, <2>1
    <2> QED BY <1>5, <2>1, <2>2, <2>3
  <1>13. Even(q)'
    <2> SUFFICES ASSUME query[q].overlap = {} PROVE Even(q)'
      BY <1>3, <1>7 DEF Even
    <2>1. \A j, k \in 1 .. query[q].n : CellsOf(q)[j] = CellsOf(q)[k] => j = k
      BY <1>1, <1>2 DEF Even
    <2>2. IsInjective(query[q].pool)
          /\ \A x \in ToSet(query[q].pool) : \E j \in 1 .. query[q].i - 1 : CellsOf(q)[j] = x
      BY <1>1, <1>2 DEF Even
    <2>3. \A x \in ToSet(r.pool) : \E j \in 1 .. r.i - 1 : CellsOf(q)[j] = x
      BY <1>5, <1>7, <2>2
    <2> QED BY <1>3, <1>7, <1>8, <2>1, <2>2, <2>3 DEF Even
  <1>14. Good(q)'
    BY <1>3, <1>7, <1>9, <1>10, <1>11, <1>12, <1>13 DEF Justified, Done
  <1> QED BY <1>3, <1>4, <1>7, <1>14, OneQuery

LEMMA CheckHealthStep ==
  ASSUME IInv, NEW q \in Query, CheckHealth(q)
  PROVE  IInv'
  <1> DEFINE s == query[q].server
  <1> DEFINE pool == IF s \in healthy THEN Append(query[q].pool, s) ELSE query[q].pool
  <1> DEFINE r == [query[q] EXCEPT !.phase = "scan", !.i = query[q].i + 1,
                                   !.server = NoServer, !.pool = pool]
  <1>1. /\ query[q].phase = "check" /\ UNCHANGED <<entry, writing, healthy, registered>>
        /\ query' = [query EXCEPT ![q] = r]
    BY DEF CheckHealth, IInv, Types
  <1>2. Types /\ SliceIsRegistered /\ InProgress(q) /\ Good(q) /\ query[q] \in Working
    BY <1>1, Phases DEF IInv, InProgress
  <1>3. query'[q] = r /\ DOMAIN query' = Query /\ \A p \in Query : p # q => query'[p] = query[p]
    BY <1>1, <1>2 DEF Types
  <1>4. SameSlice /\ entry' \in Entries \cup {NoEntry}
    BY <1>1, <1>2 DEF SameSlice, Types
  <1>5. query[q].i \in 1 .. query[q].n /\ query[q].n \in Nat
    BY <1>1, <1>2, WorkingTypes DEF Good, Fits
  <1>6. /\ query[q].pool \in Seq(Server) /\ pool \in Seq(Server)
        /\ ToSet(pool) = ToSet(query[q].pool) \cup ({s} \cap healthy)
    <2>1. query[q].pool \in Seq(Server) /\ healthy \subseteq Server
      BY <1>2, WorkingTypes DEF Types
    <2>2. CASE s \in healthy
      <3>1. s \in Server /\ pool = Append(query[q].pool, s)
        BY <2>1, <2>2
      <3>2. ToSet(pool) = ToSet(query[q].pool) \cup {s} /\ pool \in Seq(Server)
        BY <2>1, <3>1, ToSetAppend
      <3> QED BY <2>1, <2>2, <3>2
    <2>3. CASE s \notin healthy
      BY <2>1, <2>3
    <2> QED BY <2>2, <2>3
  <1> HIDE DEF pool
  <1>7. /\ r \in Working /\ r.phase = "scan" /\ r.i = query[q].i + 1 /\ r.pool = pool
        /\ \A f \in {"type", "orphan", "outgrown", "present", "well", "steady", "n", "overlap"} :
              r[f] = query[q][f]
    <2>1. query[q].i + 1 \in Nat /\ NoServer \in Cell
      BY <1>5 DEF Cell
    <2> QED BY <1>1, <1>2, <1>6, <2>1 DEF Working
  <1> HIDE DEF r
  <1> USE DEF Good
  <1>8. /\ EntryOf(q)' = EntryOf(q) /\ Own(q)' = Own(q) /\ CellsOf(q)' = CellsOf(q)
        /\ InPlace(q)' = InPlace(q) /\ Kept' = Kept /\ \A t : Wanted(q, t)' = Wanted(q, t)
    BY <1>1, <1>3, <1>7 DEF EntryOf, Own, CellsOf, InPlace, Kept, Wanted
  <1>9. Fits(q)'
    BY <1>1, <1>2, <1>3, <1>5, <1>7, <1>8 DEF Fits
  <1>10. Remembers(q)'
    BY <1>1, <1>2, <1>3, <1>7 DEF Remembers, Appending, Appended, Unlocked
  <1>11. Serving(q)'
    <2>1. ToSet(r.pool) \subseteq r.well
      BY <1>2, <1>6, <1>7 DEF Serving, Remembers
    <2>2. ASSUME "cell" \notin r.overlap
          PROVE  ToSet(r.pool) \subseteq r.present
                 /\ \A j \in r.i .. r.n : CellsOf(q)[j] \in r.present
      BY <1>1, <1>2, <1>5, <1>6, <1>7, <2>2 DEF Serving
    <2> QED BY <1>3, <1>7, <1>8, <2>1, <2>2 DEF Serving
  <1>12. Ahead(q)'
    <2> SUFFICES ASSUME ~({"remove", "append"} \subseteq query[q].overlap),
                        NEW t \in query[q].steady, Wanted(q, t), t \notin ToSet(pool)
                 PROVE  \E j \in query[q].i + 1 .. query[q].n :
                           /\ CellsOf(q)[j] = t
                           /\ InPlace(q) /\ "remove" \notin query[q].overlap => j <= Kept
      BY <1>3, <1>7, <1>8 DEF Ahead, ToRead
    <2>1. t # s /\ t \notin ToSet(query[q].pool)
      BY <1>2, <1>6 DEF Remembers
    <2> QED BY <1>1, <1>2, <2>1 DEF Ahead, ToRead
  <1>13. Even(q)'
    <2> SUFFICES ASSUME query[q].overlap = {} PROVE Even(q)'
      BY <1>3, <1>7 DEF Even
    <2>1. /\ \A j, k \in 1 .. query[q].n : CellsOf(q)[j] = CellsOf(q)[k] => j = k
          /\ s = CellsOf(q)[query[q].i] /\ IsInjective(query[q].pool)
          /\ \A x \in ToSet(query[q].pool) : \E j \in 1 .. query[q].i - 1 : CellsOf(q)[j] = x
      BY <1>1, <1>2 DEF Even
    <2>2. s \notin ToSet(query[q].pool)
      BY <1>5, <2>1
    <2>3. IsInjective(pool)
      <3>1. CASE s \in healthy
        <4>1. s \in Server
          BY <1>2, <3>1 DEF Types
        <4> QED BY <1>6, <2>1, <2>2, <3>1, <4>1, InjectiveAppend DEF pool
      <3>2. CASE s \notin healthy
        BY <2>1, <3>2 DEF pool
      <3> QED BY <3>1, <3>2
    <2>4. \A x \in ToSet(pool) : \E j \in 1 .. query[q].i : CellsOf(q)[j] = x
      BY <1>5, <1>6, <2>1
    <2>5. r.i - 1 = query[q].i
      BY <1>5, <1>7
    <2> QED BY <1>3, <1>7, <1>8, <2>1, <2>3, <2>4, <2>5 DEF Even
  <1>14. Good(q)'
    BY <1>3, <1>7, <1>9, <1>10, <1>11, <1>12, <1>13 DEF Justified, Done
  <1> QED BY <1>3, <1>4, <1>7, <1>14, OneQuery

LEMMA AnswerStep == ASSUME IInv, NEW q \in Query, Answer(q) PROVE IInv'
  <1>1. /\ query[q].phase = "scan" /\ query[q].i > query[q].n
        /\ UNCHANGED <<writing, healthy, registered>>
    BY DEF Answer
  <1>2. Types /\ SliceIsRegistered /\ InProgress(q) /\ Good(q) /\ query[q] \in Working
    BY <1>1, Phases DEF IInv, InProgress
  <1>3. PICK rcode, s :
           /\ Respond(q, rcode, s)
           /\ \/ rcode = "SERVFAIL" /\ query[q].pool = <<>>
              \/ rcode = "NOERROR" /\ query[q].pool # <<>> /\ s \in Selectable(EntryOf(q), query[q].pool)
    BY Zenon DEF Answer
  <1>4. \/ entry' = entry
        \/ entry # NoEntry /\ entry' = [entry EXCEPT !.counter = NextTurn(entry.counter)]
    <2>1. query[q].orphan = NoEntry => entry # NoEntry
      BY <1>2 DEF Good, Fits, Own
    <2> QED BY <2>1 DEF Answer
  <1>5. SameSlice /\ entry' \in Entries \cup {NoEntry}
    <2>1. CASE entry' = entry
      BY <1>1, <1>2, <2>1 DEF SameSlice, Types
    <2>2. CASE entry # NoEntry /\ entry' = [entry EXCEPT !.counter = NextTurn(entry.counter)]
      <3>1. entry \in Entries /\ NextTurn(entry.counter) \in Nat
        BY <1>2, <2>2, EntryTypes, NextTurnType DEF Entries
      <3>2. entry' \in Entries /\ entry'.cells = entry.cells /\ entry'.len = entry.len
        BY <2>2, <3>1 DEF Entries
      <3> QED BY <1>1, <2>2, <3>2, NoneIsNoEntry DEF SameSlice
    <2> QED BY <1>4, <2>1, <2>2
  <1>6. /\ DOMAIN query' = Query /\ \A p \in Query : p # q => query'[p] = query[p]
        /\ query'[q].phase = "done" /\ query'[q].rcode = rcode /\ query'[q].server = s
        /\ query'[q].pool = query[q].pool
        /\ query'[q].present = query[q].present /\ query'[q].well = query[q].well
        /\ query'[q].steady = {t \in query[q].steady : Wanted(q, t)}
        /\ query'[q].overlap = query[q].overlap
    BY <1>2, <1>3 DEF Types, Respond
  <1>7. \/ {"remove", "append"} \subseteq query[q].overlap
        \/ \A t \in query[q].steady : Wanted(q, t) => t \in ToSet(query[q].pool)
    BY <1>1, <1>2, WorkingTypes DEF Good, Ahead, ToRead
  <1>8. Justified(q)'
    <2>1. CASE rcode = "SERVFAIL" /\ query[q].pool = <<>>
      BY <1>6, <1>7, <2>1, EmptyToSet DEF Justified, Done
    <2>2. CASE rcode = "NOERROR" /\ query[q].pool # <<>> /\ s \in Selectable(EntryOf(q), query[q].pool)
      <3>1. EntryOf(q) \in Entries /\ query[q].pool \in Seq(Server)
        BY <1>2, EntryTypes, WorkingTypes DEF EntryOf, Good, Fits, Own
      <3>2. s \in ToSet(query[q].pool)
        BY <2>2, <3>1, SelectableInPool
      <3>3. s \in query[q].well /\ (s \in query[q].present \/ "cell" \in query[q].overlap)
        BY <1>2, <3>2 DEF Good, Serving
      <3>4. query[q].overlap = {} => IsInjective(query[q].pool)
        BY <1>2 DEF Good, Even
      <3> QED BY <1>6, <1>7, <2>2, <3>3, <3>4 DEF Justified, Done
    <2> QED BY <1>3, <2>1, <2>2
  <1>9. Good(q)'
    BY <1>6, <1>8 DEF Good, InProgress
  <1> QED BY <1>5, <1>6, <1>9, OneQuery

-----------------------------------------------------------------------------
(* Steps that the queries in progress witness *)

LEMMA WitnessOf ==
  ASSUME NEW qs, NEW now, NEW well, NEW kind, now \subseteq Server, well \subseteq Server,
         kind \subseteq Kind, NEW q \in Query, qs[q] \in Working,
         query' = Witness(qs, now, well, kind)
  PROVE  /\ query'[q] \in Working
         /\ \A f \in {"phase", "type", "orphan", "outgrown", "n", "i", "server", "pool"} :
               query'[q][f] = qs[q][f]
         /\ query'[q].present = qs[q].present \cup now
         /\ query'[q].well = qs[q].well \cup well
         /\ query'[q].steady = qs[q].steady \cap (now \cap well)
         /\ query'[q].overlap = qs[q].overlap \cup kind
         /\ kind = {} => query'[q].overlap = qs[q].overlap
  <1>1. query'[q] = [qs[q] EXCEPT !.present = qs[q].present \cup now,
                                  !.well    = qs[q].well \cup well,
                                  !.steady  = qs[q].steady \cap (now \cap well),
                                  !.overlap = qs[q].overlap \cup kind]
    BY WorkingTypes DEF Witness
  <1>2. /\ qs[q].present \cup now \in SUBSET Server
        /\ qs[q].well \cup well \in SUBSET Server
        /\ qs[q].steady \cap (now \cap well) \in SUBSET Server
        /\ qs[q].overlap \cup kind \in SUBSET Kind
    BY WorkingTypes
  <1>3. kind = {} => qs[q].overlap \cup kind = qs[q].overlap
    OBVIOUS
  <1> QED BY <1>1, <1>2, <1>3 DEF Working

LEMMA WitnessDomain ==
  ASSUME NEW qs, NEW now, NEW well, NEW kind
  PROVE  DOMAIN Witness(qs, now, well, kind) = Query
  BY DEF Witness

LEMMA WitnessRest ==
  ASSUME NEW qs, NEW now, NEW well, NEW kind, NEW q \in Query,
         qs[q].phase \notin {"found", "scan", "check"}
  PROVE  Witness(qs, now, well, kind)[q] = qs[q]
  BY DEF Witness

\* What is not in progress stays as it is.
LEMMA RestKept ==
  ASSUME NEW q \in Query, Good(q), ~InProgress(q), query'[q] = query[q]
  PROVE  Good(q)'
  BY DEF Good, InProgress, Justified, Done

LEMMA OrphanedOf ==
  ASSUME Types, NEW q \in Query
  PROVE  /\ ~InProgress(q) => Orphaned[q] = query[q]
         /\ InProgress(q) =>
               /\ Orphaned[q] \in Working
               /\ \A f \in {"phase", "type", "outgrown", "n", "i", "server", "pool",
                            "present", "well", "steady", "overlap"} : Orphaned[q][f] = query[q][f]
               /\ Orphaned[q].orphan = EntryOf(q)
  <1>1. ~InProgress(q) => Orphaned[q] = query[q]
    BY DEF Orphaned
  <1>2. ASSUME InProgress(q), query[q].orphan # NoEntry PROVE Orphaned[q] = query[q]
    BY <1>2 DEF Orphaned
  <1>3. ASSUME InProgress(q), query[q].orphan = NoEntry
        PROVE  Orphaned[q] = [query[q] EXCEPT !.orphan = entry]
    BY <1>3 DEF Orphaned
  <1>4. InProgress(q) => query[q] \in Working
    BY Phases
  <1>5. entry \in Entries \cup {NoEntry}
    BY DEF Types
  <1>6. ASSUME InProgress(q), query[q].orphan = NoEntry
        PROVE  /\ Orphaned[q] \in Working
               /\ \A f \in {"phase", "type", "outgrown", "n", "i", "server", "pool",
                            "present", "well", "steady", "overlap"} : Orphaned[q][f] = query[q][f]
               /\ Orphaned[q].orphan = entry
    BY <1>3, <1>4, <1>5, <1>6 DEF Working
  <1> QED BY <1>1, <1>2, <1>4, <1>6 DEF EntryOf

\* The slice that the query reads is the same as before, also when the registry
\* drops the entry.
LEMMA Witnessed ==
  ASSUME IInv, NEW q \in Query, InProgress(q), query'[q] \in Working,
         \A f \in {"phase", "type", "outgrown", "n", "i", "server", "pool", "overlap"} :
            query'[q][f] = query[q][f],
         query'[q].present = query[q].present \cup registered',
         query'[q].well = query[q].well \cup healthy',
         query'[q].steady = query[q].steady \cap (registered' \cap healthy'),
         writing' = writing,
         \/ /\ entry' = entry /\ query'[q].orphan = query[q].orphan
            /\ registered' = registered
         \/ Unlocked /\ query'[q].orphan = EntryOf(q)
  PROVE  Good(q)'
  <1> USE DEF Good
  <1>1. Types /\ SliceIsRegistered /\ Good(q) /\ query[q] \in Working
    BY Phases DEF IInv
  <1>2. EntryOf(q) # NoEntry
    BY <1>1 DEF EntryOf, Fits, Own
  <1>3. EntryOf(q)' = EntryOf(q) /\ CellsOf(q)' = CellsOf(q)
    BY <1>2 DEF EntryOf, CellsOf
  <1>4. \A t : Wanted(q, t)' = Wanted(q, t)
    BY DEF Wanted
  <1>5. Unlocked' = Unlocked /\ (Unlocked => ~Appending /\ ~Appending')
    BY <1>1, WriteTypes DEF Unlocked, Appending
  <1>6. \/ Own(q)' /\ Own(q) /\ entry' = entry /\ registered' = registered
        \/ ~Own(q)' /\ ~Own(q) /\ query'[q].orphan = query[q].orphan
        \/ ~Own(q)' /\ Own(q) /\ Unlocked /\ query'[q].orphan = entry
    BY <1>2 DEF Own, EntryOf
  <1>7. ASSUME Unlocked
        PROVE  /\ \A s \in registered : \E j \in 1 .. entry.len : entry.cells[j] = s
               /\ \A j, k \in 1 .. entry.len : entry.cells[j] = entry.cells[k] => j = k
    BY <1>1, <1>7, WriteTypes DEF SliceIsRegistered, LenAfter, CellAfter
  <1>8. Fits(q)'
    BY <1>1, <1>3, <1>6, EntryTypes DEF Fits
  <1>9. Remembers(q)'
    BY <1>1, <1>5 DEF Remembers, Appending, Appended
  <1>10. Serving(q)'
    <2>1. ASSUME "cell" \notin query[q].overlap, query[q].phase = "found",
                 NEW j \in 1 .. EntryOf(q).len
          PROVE  \/ EntryOf(q).cells[j] \in query'[q].present
                 \/ Own(q)' /\ writing.what = "cell" /\ j = writing.at
      <3>1. \/ EntryOf(q).cells[j] \in query[q].present
            \/ Own(q) /\ writing.what = "cell" /\ j = writing.at
        BY <1>1, <2>1 DEF Serving
      <3> QED BY <1>1, <1>6, <3>1, WriteTypes
    <2> QED BY <1>1, <1>3, <2>1 DEF Serving
  <1>11. Ahead(q)'
    <2> SUFFICES ASSUME ~({"remove", "append"} \subseteq query[q].overlap), NEW t \in query[q].steady, t \in registered, Wanted(q, t)
                 PROVE  \/ t \in ToSet(query[q].pool)
                        \/ query[q].phase = "check" /\ query[q].server = t
                        \/ query[q].phase = "found" /\ Own(q)'
                        \/ /\ query[q].phase = "found"
                           /\ \E j \in 1 .. query'[q].orphan.len : query'[q].orphan.cells[j] = t
                        \/ /\ query[q].phase # "found"
                           /\ \E j \in ToRead(q) .. query[q].n :
                                 /\ CellsOf(q)[j] = t
                                 /\ InPlace(q)' /\ "remove" \notin query[q].overlap => j <= Kept'
      BY <1>1, <1>3, <1>4 DEF Ahead, ToRead, Remembers
    <2>1. CASE query[q].phase = "found"
      BY <1>1, <1>6, <1>7, <2>1 DEF Ahead
    <2>2. CASE query[q].phase # "found"
      <3>1. InPlace(q)' => InPlace(q) /\ Kept' = Kept
        BY <1>6 DEF InPlace, Kept, Own
      <3> QED BY <1>1, <2>2, <3>1 DEF Ahead
    <2> QED BY <2>1, <2>2
  <1>12. Even(q)'
    <2>1. ASSUME query[q].overlap = {}, query[q].phase = "found", ~Own(q)'
          PROVE  \A j, k \in 1 .. query'[q].orphan.len :
                    query'[q].orphan.cells[j] = query'[q].orphan.cells[k] => j = k
      BY <1>1, <1>6, <1>7, <2>1 DEF Even
    <2> QED BY <1>1, <1>3, <2>1 DEF Even
  <1> QED BY <1>8, <1>9, <1>10, <1>11, <1>12, WorkingTypes DEF Justified, Done

LEMMA HealthStep == ASSUME IInv, NEW s \in Server, HealthChanges(s) PROVE IInv'
  <1>1. UNCHANGED <<entry, writing, registered>>
    BY DEF HealthChanges
  <1>6. query' = Witness(query, registered, healthy', {})
    BY DEF HealthChanges
  <1>2. Types /\ SliceIsRegistered /\ registered \subseteq Server /\ healthy' \subseteq Server
    BY DEF IInv, Types, HealthChanges
  <1>3. ASSUME NEW q \in Query
        PROVE  Good(q)' /\ (query'[q] = Idle \/ query'[q] \in Working \/ query'[q].phase = "done")
    <2>1. CASE InProgress(q)
      <3>1. query[q] \in Working
        BY <1>2, <2>1, Phases
      <3>2. /\ query'[q] \in Working
            /\ \A f \in {"phase", "type", "orphan", "outgrown", "n", "i", "server", "pool"} :
                  query'[q][f] = query[q][f]
            /\ query'[q].present = query[q].present \cup registered
            /\ query'[q].well = query[q].well \cup healthy'
            /\ query'[q].steady = query[q].steady \cap (registered \cap healthy')
            /\ query'[q].overlap = query[q].overlap
        BY <1>2, <1>6, <3>1, WitnessOf
      <3> QED BY <1>1, <2>1, <3>2, Witnessed
    <2>2. CASE ~InProgress(q)
      <3>1. query'[q] = query[q]
        BY <1>6, <2>2, WitnessRest DEF InProgress
      <3> QED BY <1>2, <2>2, <3>1, RestKept, Phases DEF IInv
    <2> QED BY <2>1, <2>2
  <1>4. Types'
    BY <1>1, <1>2, <1>3, <1>6, WitnessDomain DEF Types
  <1>5. SliceIsRegistered'
    BY <1>1, <1>2 DEF SliceIsRegistered, LenAfter, CellAfter, Unlocked
  <1> QED BY <1>3, <1>4, <1>5 DEF IInv

\* ReplaceAll, RegisterDomain and Remove leave the queries with the entry they had.
LEMMA DropStep ==
  ASSUME IInv, Unlocked, UNCHANGED <<writing, healthy>>,
         entry' \in Entries \cup {NoEntry}, entry'.len <= Len(entry'.cells),
         registered' \subseteq Server,
         \A j \in 1 .. entry'.len : entry'.cells[j] \in registered',
         \A s \in registered' : \E j \in 1 .. entry'.len : entry'.cells[j] = s,
         \A j, k \in 1 .. entry'.len : entry'.cells[j] = entry'.cells[k] => j = k,
         query' = Witness(Orphaned, registered', healthy, {})
  PROVE  IInv'
  <1>1. /\ Types /\ registered' \subseteq Server
        /\ healthy \subseteq Server /\ healthy' \subseteq Server
    BY DEF IInv, Types
  <1>2. ASSUME NEW q \in Query
        PROVE  Good(q)' /\ (query'[q] = Idle \/ query'[q] \in Working \/ query'[q].phase = "done")
    <2>1. CASE InProgress(q)
      <3>1. /\ Orphaned[q] \in Working
            /\ \A f \in {"phase", "type", "outgrown", "n", "i", "server", "pool",
                         "present", "well", "steady", "overlap"} : Orphaned[q][f] = query[q][f]
            /\ Orphaned[q].orphan = EntryOf(q)
        BY <1>1, <2>1, OrphanedOf
      <3>2. /\ query'[q] \in Working
            /\ \A f \in {"phase", "type", "orphan", "outgrown", "n", "i", "server", "pool"} :
                  query'[q][f] = Orphaned[q][f]
            /\ query'[q].present = Orphaned[q].present \cup registered'
            /\ query'[q].well = Orphaned[q].well \cup healthy
            /\ query'[q].steady = Orphaned[q].steady \cap (registered' \cap healthy)
            /\ query'[q].overlap = Orphaned[q].overlap
        BY <1>1, <3>1, WitnessOf
      <3>3. \A f \in {"phase", "type", "outgrown", "n", "i", "server", "pool", "overlap"} :
               query'[q][f] = query[q][f]
        BY <3>1, <3>2
      <3>4. /\ query'[q].present = query[q].present \cup registered'
            /\ query'[q].well = query[q].well \cup healthy'
            /\ query'[q].steady = query[q].steady \cap (registered' \cap healthy')
            /\ query'[q].orphan = EntryOf(q)
        BY <3>1, <3>2
      <3> QED BY <2>1, <3>2, <3>3, <3>4, Witnessed
    <2>2. CASE ~InProgress(q)
      <3>1. Orphaned[q] = query[q]
        BY <1>1, <2>2, OrphanedOf
      <3>2. query'[q] = query[q]
        BY <2>2, <3>1, WitnessRest DEF InProgress
      <3> QED BY <1>1, <2>2, <3>2, RestKept, Phases DEF IInv
    <2> QED BY <2>1, <2>2
  <1>3. Types'
    BY <1>1, <1>2, WitnessDomain DEF Types
  <1>4. SliceIsRegistered'
    <2>1. writing'.what = "none" /\ Unlocked'
      BY <1>1, WriteTypes DEF Unlocked
    <2> QED BY <2>1 DEF SliceIsRegistered, LenAfter, CellAfter
  <1> QED BY <1>2, <1>3, <1>4 DEF IInv

LEMMA ReplaceStep ==
  ASSUME IInv, NEW c \in Configuration \cup {<<>>}, NEW a \in Algorithms, ReplaceAllEntries(c, a)
  PROVE  IInv'
  <1>1. c \in Seq(Server) /\ IsInjective(c) /\ c \in Seq(Cell) /\ DOMAIN c = 1 .. Len(c)
    <2>1. c \in Seq(Server) /\ IsInjective(c)
      <3>1. CASE c \in Configuration
        BY <3>1, AnswersAssumption
      <3>2. CASE c = <<>>
        BY <3>2, EmptyToSet
      <3> QED BY <3>1, <3>2
    <2> QED BY <2>1 DEF Cell
  <1>2. entry' = [cells |-> c, len |-> Len(c), algorithm |-> a, counter |-> 0]
    BY DEF ReplaceAllEntries, NewEntry
  <1>3. entry' \in Entries /\ entry'.len = Len(c) /\ entry'.cells = c
    BY <1>1, <1>2 DEF Entries
  <1>4. /\ Unlocked /\ UNCHANGED <<writing, healthy>> /\ registered' = ToSet(c)
        /\ query' = Witness(Orphaned, registered', healthy, {})
    BY DEF ReplaceAllEntries
  <1>5. /\ registered' \subseteq Server
        /\ \A j \in 1 .. Len(c) : c[j] \in registered'
        /\ \A s \in registered' : \E j \in 1 .. Len(c) : c[j] = s
        /\ \A j, k \in 1 .. Len(c) : c[j] = c[k] => j = k
    BY <1>1, <1>4 DEF ToSet, IsInjective
  <1> QED BY <1>1, <1>3, <1>4, <1>5, DropStep

LEMMA RemoveStep == ASSUME IInv, RemoveDomain PROVE IInv'
  <1>1. /\ entry' = NoEntry /\ registered' = {} /\ Unlocked /\ UNCHANGED <<writing, healthy>>
        /\ query' = Witness(Orphaned, registered', healthy, {})
    BY DEF RemoveDomain
  <1>2. entry'.len = 0 /\ entry'.cells = <<>> /\ Len(<<>>) = 0
    BY <1>1 DEF NoEntry
  <1> QED BY <1>1, <1>2, DropStep

LEMMA SettingsStep ==
  ASSUME IInv, NEW a \in Algorithms, UpdateDomainSettings(a)
  PROVE  IInv'
  <1>1. /\ entry # NoEntry /\ entry' = [entry EXCEPT !.algorithm = a, !.counter = 0]
        /\ UNCHANGED <<writing, healthy, query, registered>>
    BY DEF UpdateDomainSettings
  <1>2. entry \in Entries /\ Types
    BY <1>1, EntryTypes DEF IInv
  <1>3. entry' \in Entries /\ entry'.cells = entry.cells /\ entry'.len = entry.len
    BY <1>1, <1>2 DEF Entries
  <1>4. SameSlice
    BY <1>1, <1>3, NoneIsNoEntry DEF SameSlice
  <1>5. Types'
    BY <1>1, <1>2, <1>3 DEF Types
  <1> QED BY <1>1, <1>4, <1>5, QueryKept, SliceKept DEF IInv

-----------------------------------------------------------------------------
(* Changes of the slice in place *)

LEMMA UnlockedSlice ==
  ASSUME Types, SliceIsRegistered, Unlocked
  PROVE  /\ \A j \in 1 .. entry.len : entry.cells[j] \in registered
         /\ \A s \in registered : \E j \in 1 .. entry.len : entry.cells[j] = s
         /\ \A j, k \in 1 .. entry.len : entry.cells[j] = entry.cells[k] => j = k
         /\ \A s : s \in ToSet(Servers(entry)) <=> s \in registered
  <1>1. /\ \A j \in 1 .. entry.len : entry.cells[j] \in registered
        /\ \A s \in registered : \E j \in 1 .. entry.len : entry.cells[j] = s
        /\ \A j, k \in 1 .. entry.len : entry.cells[j] = entry.cells[k] => j = k
    BY WriteTypes DEF SliceIsRegistered, LenAfter, CellAfter
  <1>2. \A s : s \in ToSet(Servers(entry)) <=> \E j \in 1 .. entry.len : entry.cells[j] = s
    BY EntryTypes, ToSetPrefix DEF Servers
  <1> QED BY <1>1, <1>2

LEMMA FinishStep == ASSUME IInv, FinishWrite PROVE IInv'
  <1>1. Types /\ SliceIsRegistered /\ ~Unlocked
    BY DEF IInv, FinishWrite
  <1>2. /\ writing' = NoWrite /\ UNCHANGED <<healthy, query, registered>>
        /\ entry' = IF writing.what = "cell"
                    THEN [entry EXCEPT !.cells[writing.at] = writing.server]
                    ELSE [entry EXCEPT !.len = writing.len]
    BY DEF FinishWrite
  <1>3. writing.what \in {"cell", "length"} /\ entry \in Entries /\ entry # NoEntry
    BY <1>1, WriteTypes, EntryTypes DEF SliceIsRegistered
  <1>4. /\ entry' \in Entries /\ entry'.len = LenAfter /\ Len(entry'.cells) = Len(entry.cells)
        /\ LenAfter \in Nat /\ LenAfter <= Len(entry.cells)
        /\ \A j \in 1 .. Len(entry.cells) : entry'.cells[j] = CellAfter(j)
    <2>1. CASE writing.what = "cell"
      <3>1. writing.at \in 1 .. Len(entry.cells) /\ writing.server \in Cell
        BY <1>1, <2>1, WriteTypes, EntryTypes DEF SliceIsRegistered, Cell
      <3> DEFINE new == [entry.cells EXCEPT ![writing.at] = writing.server]
      <3>2. /\ new \in Seq(Cell) /\ Len(new) = Len(entry.cells)
            /\ \A j \in 1 .. Len(entry.cells) :
                  new[j] = IF j = writing.at THEN writing.server ELSE entry.cells[j]
        BY <1>1, <3>1, EntryTypes, SetCell
      <3>3. entry' = [entry EXCEPT !.cells = new]
        BY <1>2, <2>1
      <3> HIDE DEF new
      <3>4. entry' \in Entries /\ entry'.cells = new /\ entry'.len = entry.len
        BY <1>3, <3>2, <3>3 DEF Entries
      <3> QED BY <1>1, <2>1, <3>2, <3>4, EntryTypes DEF LenAfter, CellAfter
    <2>2. CASE writing.what = "length"
      <3>1. writing.len \in Nat /\ writing.len <= Len(entry.cells)
        BY <1>1, <2>2, WriteTypes DEF SliceIsRegistered
      <3>2. entry' \in Entries /\ entry'.len = writing.len /\ entry'.cells = entry.cells
        BY <1>2, <1>3, <2>2, <3>1 DEF Entries
      <3> QED BY <2>2, <3>1, <3>2 DEF LenAfter, CellAfter
    <2> QED BY <1>3, <2>1, <2>2
  <1>5. writing'.what = "none" /\ Unlocked' /\ ~Appending' /\ Kept' = LenAfter
    BY <1>2, <1>4 DEF NoWrite, Unlocked, Appending, Kept
  <1>6. Types'
    BY <1>1, <1>2, <1>4 DEF Types, Writes
  <1>7. SliceIsRegistered'
    <2>1. LenAfter' = LenAfter /\ \A j \in 1 .. LenAfter : CellAfter(j)' = CellAfter(j)
      BY <1>4, <1>5, EntryTypes, <1>1 DEF LenAfter, CellAfter
    <2> QED BY <1>1, <1>2, <1>5, <2>1 DEF SliceIsRegistered
  <1>8. ASSUME NEW q \in Query, InProgress(q) PROVE Good(q)'
    <2> USE DEF Good
    <2>1. Good(q) /\ query[q] \in Working /\ query'[q] = query[q]
      BY <1>1, <1>2, <1>8, Phases DEF IInv
    <2>2. Own(q)' = Own(q) /\ InPlace(q)' = InPlace(q) /\ ToRead(q)' = ToRead(q)
          /\ \A t : Wanted(q, t)' = Wanted(q, t)
      BY <2>1 DEF Own, InPlace, ToRead, Wanted
    <2>3. /\ EntryOf(q)' = IF Own(q) THEN entry' ELSE EntryOf(q)
          /\ Own(q) => EntryOf(q) = entry
      BY <2>1 DEF EntryOf, Own
    <2>4. /\ Len(CellsOf(q)') = Len(CellsOf(q)) /\ Len(CellsOf(q)) \in Nat
          /\ InPlace(q) => /\ CellsOf(q) = entry.cells
                           /\ \A j \in 1 .. Len(CellsOf(q)) : CellsOf(q)'[j] = CellAfter(j)
          /\ ~InPlace(q) => CellsOf(q)' = CellsOf(q)
      BY <1>1, <1>4, <1>8, <2>1, <2>3, ArrayTypes DEF CellsOf, InPlace
    <2>5. Fits(q)'
      BY <1>3, <1>4, <1>8, <2>1, <2>2, <2>4, NoneIsNoEntry DEF Fits
    <2>6. Remembers(q)'
      BY <1>2, <1>5, <1>8, <2>1 DEF Remembers
    <2>7. registered \subseteq query[q].present
      BY <1>8, <2>1 DEF Remembers
    <2>8. Serving(q)'
      <3>1. ASSUME "cell" \notin query[q].overlap, query[q].phase = "found",
                   NEW j \in 1 .. EntryOf(q)'.len
            PROVE  EntryOf(q)'.cells[j] \in query[q].present
        <4>1. CASE Own(q)
          BY <1>1, <1>4, <2>3, <2>7, <4>1 DEF SliceIsRegistered
        <4>2. CASE ~Own(q)
          BY <1>8, <2>1, <2>3, <3>1, <4>2 DEF Serving
        <4> QED BY <4>1, <4>2
      <3>2. ASSUME "cell" \notin query[q].overlap, query[q].phase # "found",
                   NEW j \in query[q].i .. query[q].n
            PROVE  CellsOf(q)'[j] \in query[q].present
        <4>1. CellsOf(q)[j] \in query[q].present /\ j \in 1 .. Len(CellsOf(q))
          BY <1>8, <2>1, <2>4, <3>2, WorkingTypes DEF Serving, Fits
        <4>2. CASE InPlace(q) /\ writing.what = "cell" /\ j = writing.at
          <5>1. CellAfter(j) \in registered
            BY <1>1, <4>1, <4>2, EntryTypes DEF SliceIsRegistered, LenAfter
          <5> QED BY <2>4, <2>7, <4>1, <4>2, <5>1
        <4>3. CASE ~(InPlace(q) /\ writing.what = "cell" /\ j = writing.at)
          BY <2>4, <4>1, <4>3 DEF CellAfter
        <4> QED BY <4>2, <4>3
      <3> QED BY <1>8, <2>1, <3>1, <3>2 DEF Serving
    <2>9. Ahead(q)'
      <3> SUFFICES ASSUME ~({"remove", "append"} \subseteq query[q].overlap),
                          NEW t \in query[q].steady, Wanted(q, t), query[q].phase # "found",
                          t \notin ToSet(query[q].pool),
                          ~(query[q].phase = "check" /\ query[q].server = t)
                   PROVE  \E j \in ToRead(q) .. query[q].n :
                             /\ CellsOf(q)'[j] = t
                             /\ InPlace(q) /\ "remove" \notin query[q].overlap => j <= Kept'
        BY <1>8, <2>1, <2>2 DEF Ahead
      <3>1. PICK j \in ToRead(q) .. query[q].n :
               /\ CellsOf(q)[j] = t
               /\ InPlace(q) /\ "remove" \notin query[q].overlap => j <= Kept
        BY <1>8, <2>1 DEF Ahead
      <3>2. j \in 1 .. Len(CellsOf(q))
        BY <1>8, <2>1, <2>4, WorkingTypes DEF Fits, ToRead
      <3>3. CASE ~InPlace(q)
        BY <2>4, <3>1, <3>3
      <3>4. CASE InPlace(q) /\ writing.what = "cell"
        <4>1. "remove" \notin query[q].overlap
          BY <1>8, <2>1, <3>4 DEF Remembers, Appending
        <4>2. j <= entry.len - 1 /\ writing.at = entry.len /\ LenAfter = entry.len /\ entry.len \in Nat
          BY <1>1, <3>1, <3>4, <4>1, EntryTypes DEF Kept, SliceIsRegistered, LenAfter
        <4>3. CellsOf(q)'[j] = t /\ j <= Kept'
          BY <1>5, <2>4, <3>1, <3>2, <3>4, <4>2 DEF CellAfter
        <4> QED BY <3>1, <4>3
      <3>5. CASE InPlace(q) /\ writing.what = "length"
        <4>1. CellsOf(q)'[j] = t
          BY <2>4, <3>1, <3>2, <3>5 DEF CellAfter
        <4>2. "remove" \notin query[q].overlap => Appending
          BY <1>1, <1>8, <2>1 DEF Remembers
        <4>3. "remove" \notin query[q].overlap => j <= Kept'
          BY <1>1, <1>4, <1>5, <3>1, <3>2, <3>5, <4>2, EntryTypes DEF Kept, LenAfter, Appending
        <4> QED BY <3>1, <4>1, <4>3
      <3> QED BY <1>3, <3>3, <3>4, <3>5
    <2>10. query[q].overlap # {}
      BY <1>1, <1>8, <2>1 DEF Remembers
    <2>11. Even(q)'
      BY <2>1, <2>10 DEF Even
    <2> QED BY <2>1, <2>5, <2>6, <2>8, <2>9, <2>11, WorkingTypes DEF Justified, Done
  <1>9. ASSUME NEW q \in Query PROVE Good(q)'
    BY <1>2, <1>8, RestKept DEF IInv
  <1> QED BY <1>6, <1>7, <1>9 DEF IInv

LEMMA OutgrownOf ==
  ASSUME Types, NEW q \in Query
  PROVE  /\ ~InProgress(q) => Outgrown[q] = query[q]
         /\ InProgress(q) =>
               /\ Outgrown[q] \in Working
               /\ \A f \in {"phase", "type", "orphan", "n", "i", "server", "pool",
                            "present", "well", "steady", "overlap"} : Outgrown[q][f] = query[q][f]
               /\ Outgrown[q].outgrown = IF query[q].phase # "found" /\ InPlace(q)
                                         THEN entry.cells ELSE query[q].outgrown
  <1>1. ~InProgress(q) => Outgrown[q] = query[q]
    BY DEF Outgrown, InProgress
  <1>2. InProgress(q) => query[q] \in Working /\ query[q].phase \in {"found", "scan", "check"}
    BY Phases DEF InProgress
  <1>3. ASSUME InProgress(q), ~(query[q].phase # "found" /\ InPlace(q)) PROVE Outgrown[q] = query[q]
    BY <1>2, <1>3 DEF Outgrown, InPlace, Own
  <1>4. ASSUME InProgress(q), query[q].phase # "found" /\ InPlace(q)
        PROVE  Outgrown[q] = [query[q] EXCEPT !.outgrown = entry.cells]
    BY <1>2, <1>4 DEF Outgrown, InPlace, Own
  <1>5. entry.cells \in Seq(Cell)
    BY EntryTypes
  <1>6. ASSUME InProgress(q), query[q].phase # "found" /\ InPlace(q)
        PROVE  /\ Outgrown[q] \in Working
               /\ \A f \in {"phase", "type", "orphan", "n", "i", "server", "pool",
                            "present", "well", "steady", "overlap"} : Outgrown[q][f] = query[q][f]
               /\ Outgrown[q].outgrown = entry.cells
    BY <1>2, <1>4, <1>5, <1>6 DEF Working
  <1> QED BY <1>1, <1>2, <1>3, <1>6

LEMMA RegisterStep == ASSUME IInv, NEW s \in Server, RegisterServer(s) PROVE IInv'
  <1> DEFINE full == entry.len = Len(entry.cells)
  <1> DEFINE C == IF full THEN Grown(entry.cells) ELSE entry.cells
  <1> DEFINE k == entry.len + 1
  <1> DEFINE qs == IF full THEN Outgrown ELSE query
  <1>1. /\ Types /\ SliceIsRegistered /\ Unlocked /\ entry # NoEntry
        /\ s \notin ToSet(Servers(entry))
        /\ registered' = registered \cup {s} /\ healthy' = healthy
    BY DEF IInv, RegisterServer
  <1>2. query' = Witness(qs, registered', healthy, {"append"})
    BY DEF RegisterServer
  <1>3. \/ /\ entry' = [entry EXCEPT !.cells = C, !.len = k]
           /\ writing' = [what |-> "cell", at |-> k, server |-> s]
        \/ /\ entry' = [entry EXCEPT !.cells = [C EXCEPT ![k] = s]]
           /\ writing' = [what |-> "length", len |-> k]
    BY DEF RegisterServer
  <1>4. /\ entry \in Entries /\ entry.cells \in Seq(Cell) /\ entry.len \in Nat
        /\ Len(entry.cells) \in Nat /\ entry.len <= Len(entry.cells)
    BY <1>1, EntryTypes
  <1>5. /\ C \in Seq(Cell) /\ Len(C) \in Nat /\ k \in 1 .. Len(C)
        /\ Len(entry.cells) <= Len(C)
        /\ \A j \in 1 .. Len(entry.cells) : C[j] = entry.cells[j]
    BY <1>4, GrownCells
  <1> HIDE DEF C
  <1>6. /\ [C EXCEPT ![k] = s] \in Seq(Cell) /\ Len([C EXCEPT ![k] = s]) = Len(C)
        /\ \A j \in 1 .. Len(C) : [C EXCEPT ![k] = s][j] = IF j = k THEN s ELSE C[j]
    BY <1>5, SetCell DEF Cell
  <1>7. /\ entry' \in Entries /\ Len(entry'.cells) = Len(C)
        /\ \/ /\ entry'.len = k /\ entry'.cells = C /\ writing'.what = "cell"
              /\ writing'.at = k /\ writing'.server = s
           \/ /\ entry'.len = entry.len /\ entry'.cells = [C EXCEPT ![k] = s]
              /\ writing'.what = "length" /\ writing'.len = k
        /\ writing' \in Writes
    <2>1. CASE /\ entry' = [entry EXCEPT !.cells = C, !.len = k]
               /\ writing' = [what |-> "cell", at |-> k, server |-> s]
      <3>1. entry' \in Entries /\ entry'.cells = C /\ entry'.len = k
        <4>1. k \in Nat /\ C \in Seq(Cell)
          BY <1>4, <1>5
        <4>2. entry' = [entry EXCEPT !.cells = C, !.len = k]
          BY <2>1
        <4> HIDE DEF k
        <4> QED BY <1>4, <4>1, <4>2 DEF Entries
      <3>2. writing'.what = "cell" /\ writing'.at = k /\ writing'.server = s /\ writing' \in Writes
        BY <1>4, <2>1 DEF Writes
      <3> QED BY <3>1, <3>2
    <2>2. CASE /\ entry' = [entry EXCEPT !.cells = [C EXCEPT ![k] = s]]
               /\ writing' = [what |-> "length", len |-> k]
      <3> DEFINE new == [C EXCEPT ![k] = s]
      <3>1. new \in Seq(Cell) /\ Len(new) = Len(C) /\ entry' = [entry EXCEPT !.cells = new]
        BY <1>6, <2>2
      <3> HIDE DEF new
      <3>2. entry' \in Entries /\ entry'.cells = new /\ entry'.len = entry.len
        BY <1>4, <3>1 DEF Entries
      <3>3. writing'.what = "length" /\ writing'.len = k /\ writing' \in Writes
        BY <1>4, <2>2 DEF Writes
      <3> QED BY <3>1, <3>2, <3>3 DEF new
    <2> QED BY <1>3, <2>1, <2>2
  <1>8. /\ \A j \in 1 .. Len(entry.cells) : j # k => entry'.cells[j] = entry.cells[j]
        /\ writing'.what = "length" => entry'.cells[k] = s
        /\ writing'.what = "cell" => \A j \in 1 .. Len(entry.cells) : entry'.cells[j] = entry.cells[j]
    BY <1>4, <1>5, <1>6, <1>7
  <1> DEFINE after(j) == IF j = k THEN s ELSE entry.cells[j]
  <1>9. /\ LenAfter' = k
        /\ \A j \in 1 .. k : CellAfter(j)' = after(j)
        /\ Appending' /\ Appended' = s /\ ~Unlocked' /\ Kept' = entry.len
    <2>1. \A j \in 1 .. k : j # k => j \in 1 .. Len(entry.cells)
      BY <1>4
    <2>2. CASE writing'.what = "cell"
      BY <1>4, <1>7, <1>8, <2>1, <2>2 DEF LenAfter, CellAfter, Appending, Appended, Unlocked, Kept, NoWrite
    <2>3. CASE writing'.what = "length"
      <3>1. k > entry.len
        BY <1>4
      <3> QED BY <1>7, <1>8, <2>1, <2>3, <3>1
              DEF LenAfter, CellAfter, Appending, Appended, Unlocked, Kept, NoWrite
    <2> QED BY <1>7, <2>2, <2>3
  <1>10. s \notin registered
    BY <1>1, UnlockedSlice
  <1>11. SliceIsRegistered'
    <2>1. writing'.what = "cell" => entry'.len >= 1 /\ writing'.at = entry'.len
      BY <1>4, <1>7
    <2>2. writing'.what = "length" => /\ writing'.len \in {entry'.len + 1, entry'.len - 1}
                                      /\ writing'.len <= Len(entry'.cells)
      BY <1>4, <1>5, <1>7
    <2>3. entry' # NoEntry
      BY <1>7, NoneIsNoEntry
    <2>4. \A j \in 1 .. k : after(j) \in registered'
      BY <1>1, <1>4, <1>9, UnlockedSlice
    <2>5. \A t \in registered' : \E j \in 1 .. k : after(j) = t
      <3>1. ASSUME NEW t \in registered PROVE \E j \in 1 .. k : after(j) = t
        <4>1. PICK j \in 1 .. entry.len : entry.cells[j] = t
          BY <1>1, <3>1, UnlockedSlice
        <4>2. j \in 1 .. k /\ j # k
          BY <1>4
        <4> QED BY <1>9, <4>1, <4>2
      <3>2. k \in 1 .. k /\ after(k) = s
        BY <1>4, <1>9
      <3> QED BY <1>1, <3>1, <3>2
    <2>6. \A i, j \in 1 .. k : after(i) = after(j) => i = j
      <3>1. \A j \in 1 .. k : j # k => j \in 1 .. entry.len
        BY <1>4
      <3> QED BY <1>1, <1>9, <1>10, <3>1, UnlockedSlice
    <2> HIDE DEF after
    <2> QED BY <1>9, <2>1, <2>2, <2>3, <2>4, <2>5, <2>6 DEF SliceIsRegistered
  <1>12. ASSUME NEW q \in Query, InProgress(q) PROVE query'[q] \in Working /\ Good(q)'
    <2> USE DEF Good
    <2> DEFINE r == query[q]
    <2>1. Good(q) /\ r \in Working
      BY <1>1, <1>12, Phases DEF IInv
    <2>2. /\ qs[q] \in Working
          /\ \A f \in {"phase", "type", "orphan", "n", "i", "server", "pool",
                       "present", "well", "steady", "overlap"} : qs[q][f] = r[f]
          /\ qs[q].outgrown = IF full /\ r.phase # "found" /\ InPlace(q)
                              THEN entry.cells ELSE r.outgrown
      BY <1>1, <1>12, <2>1, OutgrownOf
    <2>3. {"append"} \subseteq Kind /\ registered' \subseteq Server /\ healthy \subseteq Server
      BY <1>1 DEF Kind, Types
    <2> HIDE DEF qs
    <2>4. /\ query'[q] \in Working
          /\ \A f \in {"phase", "type", "orphan", "outgrown", "n", "i", "server", "pool"} :
                query'[q][f] = qs[q][f]
          /\ query'[q].present = qs[q].present \cup registered'
          /\ query'[q].well = qs[q].well \cup healthy
          /\ query'[q].steady = qs[q].steady \cap (registered' \cap healthy)
          /\ query'[q].overlap = qs[q].overlap \cup {"append"}
      BY <1>2, <2>2, <2>3, WitnessOf
    <2>5. /\ query'[q].phase = r.phase /\ query'[q].type = r.type /\ query'[q].orphan = r.orphan
          /\ query'[q].n = r.n /\ query'[q].i = r.i /\ query'[q].server = r.server
          /\ query'[q].pool = r.pool
          /\ query'[q].outgrown = IF full /\ r.phase # "found" /\ InPlace(q)
                                  THEN entry.cells ELSE r.outgrown
          /\ query'[q].present = r.present \cup registered'
          /\ query'[q].well = r.well \cup healthy
          /\ query'[q].steady = r.steady \cap (registered' \cap healthy)
          /\ query'[q].overlap = r.overlap \cup {"append"}
      BY <2>2, <2>4
    <2>6. /\ Own(q)' = Own(q) /\ ToRead(q)' = ToRead(q) /\ \A t : Wanted(q, t)' = Wanted(q, t)
          /\ InPlace(q)' => InPlace(q)
          /\ EntryOf(q)' = IF Own(q) THEN entry' ELSE EntryOf(q)
          /\ Own(q) => EntryOf(q) = entry
      BY <2>5 DEF Own, ToRead, Wanted, InPlace, EntryOf
    <2>7. ASSUME r.phase # "found"
          PROVE  /\ r.n <= Len(CellsOf(q)')
                 /\ \A j \in 1 .. r.n :
                       \/ CellsOf(q)'[j] = CellsOf(q)[j]
                       \/ InPlace(q) /\ j = k /\ CellsOf(q)'[j] = s
      <3>1. r.n <= Len(CellsOf(q)) /\ r.n \in Nat
        BY <1>12, <2>1, <2>7, WorkingTypes DEF Fits
      <3>2. CASE ~InPlace(q)
        BY <2>5, <2>6, <3>1, <3>2 DEF CellsOf, InPlace
      <3>3. CASE InPlace(q)
        <4>1. CellsOf(q) = entry.cells
          BY <2>6, <3>3 DEF CellsOf, InPlace
        <4>2. CASE full /\ entry.cells # <<>>
          BY <2>5, <2>7, <3>1, <3>3, <4>1, <4>2 DEF CellsOf
        <4>3. CASE full /\ entry.cells = <<>>
          <5>1. r.n = 0 /\ CellsOf(q)' = entry'.cells
            BY <2>5, <2>6, <2>7, <3>1, <3>3, <4>1, <4>3 DEF CellsOf, InPlace
          <5> QED BY <1>5, <1>7, <5>1
        <4>4. CASE ~full
          <5>1. CellsOf(q)' = entry'.cells
            BY <2>5, <2>6, <3>3, <4>4 DEF CellsOf, InPlace
          <5>2. r.n <= Len(CellsOf(q)')
            BY <1>4, <1>5, <1>7, <3>1, <4>1, <5>1
          <5>3. ASSUME NEW j \in 1 .. r.n
                PROVE  \/ CellsOf(q)'[j] = CellsOf(q)[j]
                       \/ InPlace(q) /\ j = k /\ CellsOf(q)'[j] = s
            <6>1. j \in 1 .. Len(entry.cells)
              BY <1>4, <3>1, <4>1
            <6> QED BY <1>7, <1>8, <3>3, <4>1, <5>1, <6>1
          <5> QED BY <5>2, <5>3
        <4> QED BY <4>2, <4>3, <4>4
      <3> QED BY <3>2, <3>3
    <2>8. Fits(q)'
      BY <1>7, <1>12, <2>1, <2>5, <2>6, <2>7, NoneIsNoEntry DEF Fits
    <2>9. Remembers(q)'
      BY <1>1, <1>9, <1>10, <1>12, <2>1, <2>5 DEF Remembers
    <2>10. Serving(q)'
      <3>1. ToSet(r.pool) \subseteq query'[q].well
        BY <1>12, <2>1, <2>5 DEF Serving
      <3>2. ASSUME "cell" \notin r.overlap, r.phase = "found", NEW j \in 1 .. EntryOf(q)'.len
            PROVE  \/ EntryOf(q)'.cells[j] \in query'[q].present
                   \/ Own(q)' /\ writing'.what = "cell" /\ j = writing'.at
        <4>1. CASE Own(q)
          <5>1. j = k \/ j \in 1 .. entry.len
            BY <1>4, <1>7, <2>6, <4>1
          <5>2. CASE j = k
            BY <1>4, <1>7, <2>6, <4>1, <5>2
          <5>3. CASE j \in 1 .. entry.len
            <6>1. entry.cells[j] \in r.present
              BY <1>1, <1>12, <2>1, <5>3, UnlockedSlice DEF Remembers
            <6> QED BY <1>4, <1>8, <2>5, <2>6, <4>1, <5>3, <6>1
          <5> QED BY <5>1, <5>2, <5>3
        <4>2. CASE ~Own(q)
          BY <1>12, <2>1, <2>5, <2>6, <3>2, <4>2 DEF Serving
        <4> QED BY <4>1, <4>2
      <3>3. ASSUME "cell" \notin r.overlap, r.phase # "found", NEW j \in r.i .. r.n
            PROVE  CellsOf(q)'[j] \in query'[q].present
        <4>1. j \in 1 .. r.n /\ CellsOf(q)[j] \in r.present
          BY <1>12, <2>1, <3>3, WorkingTypes DEF Fits, Serving
        <4> QED BY <1>1, <2>5, <2>7, <3>3, <4>1
      <3>4. "cell" \notin r.overlap => /\ ToSet(r.pool) \subseteq query'[q].present
                                       /\ r.phase = "check" => r.server \in query'[q].present
        BY <1>12, <2>1, <2>5 DEF Serving
      <3> QED BY <2>5, <3>1, <3>2, <3>3, <3>4 DEF Serving
    <2>11. Ahead(q)'
      <3> SUFFICES ASSUME "remove" \notin r.overlap, NEW t \in r.steady, Wanted(q, t),
                          r.phase # "found", t \notin ToSet(r.pool),
                          ~(r.phase = "check" /\ r.server = t)
                   PROVE  \E j \in ToRead(q) .. r.n :
                             CellsOf(q)'[j] = t /\ (InPlace(q)' => j <= Kept')
        BY <1>12, <2>1, <2>5, <2>6 DEF Ahead
      <3>1. PICK j \in ToRead(q) .. r.n : CellsOf(q)[j] = t /\ (InPlace(q) => j <= Kept)
        BY <1>12, <2>1 DEF Ahead
      <3>2. j \in 1 .. r.n
        BY <1>12, <2>1, WorkingTypes DEF Fits, ToRead
      <3>3. InPlace(q) => j <= entry.len
        BY <1>1, <3>1, WriteTypes DEF Kept
      <3>4. CellsOf(q)'[j] = t
        BY <1>4, <2>7, <3>1, <3>2, <3>3
      <3> QED BY <1>9, <2>6, <3>1, <3>3, <3>4
    <2>12. Even(q)'
      BY <2>5 DEF Even
    <2> QED BY <2>4, <2>5, <2>8, <2>9, <2>10, <2>11, <2>12, WorkingTypes DEF Justified, Done
  <1>13. ASSUME NEW q \in Query, ~InProgress(q) PROVE query'[q] = query[q] /\ Good(q)'
    <2>1. qs[q] = query[q]
      BY <1>1, <1>13, OutgrownOf
    <2> HIDE DEF qs
    <2>2. query'[q] = query[q]
      BY <1>2, <1>13, <2>1, WitnessRest DEF InProgress
    <2> QED BY <1>13, <2>2, RestKept DEF IInv
  <1>14. DOMAIN query' = Query
    BY <1>2, WitnessDomain
  <1>15. Types'
    <2>1. entry'.len <= Len(entry'.cells)
      BY <1>4, <1>5, <1>7
    <2> QED BY <1>1, <1>7, <1>12, <1>13, <1>14, <2>1 DEF Types
  <1> QED BY <1>11, <1>12, <1>13, <1>15 DEF IInv

LEMMA DeregisterStep == ASSUME IInv, NEW s \in Server, DeregisterServer(s) PROVE IInv'
  <1> DEFINE last == entry.cells[entry.len]
  <1>1. /\ Types /\ SliceIsRegistered /\ Unlocked /\ entry # NoEntry
        /\ s \in ToSet(Servers(entry))
        /\ registered' = registered \ {s} /\ healthy' = healthy
    BY DEF IInv, DeregisterServer
  <1>2. query' = Witness(query, registered', healthy, {"remove"})
    BY DEF DeregisterServer
  <1>3. /\ entry \in Entries /\ entry.cells \in Seq(Cell) /\ entry.len \in Nat
        /\ Len(entry.cells) \in Nat /\ entry.len <= Len(entry.cells)
    BY <1>1, EntryTypes
  <1>4. PICK k \in 1 .. entry.len : entry.cells[k] = s /\ entry' = [entry EXCEPT !.cells[k] = last]
    <2> DEFINE i == SelectInSeq(Servers(entry), LAMBDA t : t = s)
    <2> DEFINE I == {j \in 1 .. Len(Servers(entry)) : Servers(entry)[j] = s}
    <2>3. Len(Servers(entry)) = entry.len
          /\ \A j \in 1 .. entry.len : Servers(entry)[j] = entry.cells[j]
      BY <1>3 DEF Servers
    <2>4. I \subseteq Nat /\ I # {}
      BY <1>1, <2>3, UnlockedSlice
    <2>5. Min(I) \in I
      BY <2>4, HasMin
    <2>6. i = Min(I)
      BY <2>4 DEF SelectInSeq
    <2>1. i \in 1 .. entry.len /\ entry.cells[i] = s
      BY <2>3, <2>5, <2>6
    <2>2. entry' = [entry EXCEPT !.cells[i] = last]
      BY DEF DeregisterServer
    <2> HIDE DEF i
    <2> QED BY <2>1, <2>2
  <1>5. /\ entry.len - 1 \in Nat /\ k \in 1 .. Len(entry.cells) /\ last \in Cell
        /\ writing' = [what |-> "length", len |-> entry.len - 1]
    BY <1>3 DEF DeregisterServer
  <1>6. writing'.what = "length" /\ writing'.len = entry.len - 1 /\ writing' \in Writes
    BY <1>5 DEF Writes
  <1>7. /\ entry' \in Entries /\ entry'.len = entry.len /\ Len(entry'.cells) = Len(entry.cells)
        /\ \A j \in 1 .. Len(entry.cells) : entry'.cells[j] = IF j = k THEN last ELSE entry.cells[j]
    <2> DEFINE new == [entry.cells EXCEPT ![k] = last]
    <2>1. /\ new \in Seq(Cell) /\ Len(new) = Len(entry.cells)
          /\ \A j \in 1 .. Len(entry.cells) : new[j] = IF j = k THEN last ELSE entry.cells[j]
      BY <1>3, <1>5, SetCell
    <2>2. entry' = [entry EXCEPT !.cells = new]
      BY <1>4
    <2> HIDE DEF new
    <2>3. entry' \in Entries /\ entry'.cells = new /\ entry'.len = entry.len
      BY <1>3, <2>1, <2>2 DEF Entries
    <2> QED BY <2>1, <2>3
  <1> DEFINE after(j) == IF j = k THEN last ELSE entry.cells[j]
  <1>8. /\ LenAfter' = entry.len - 1
        /\ \A j \in 1 .. entry.len - 1 : CellAfter(j)' = after(j)
        /\ ~Appending' /\ ~Unlocked'
    BY <1>3, <1>6, <1>7 DEF LenAfter, CellAfter, Appending, Unlocked, NoWrite
  <1>9. s \in registered /\ last \in registered
    BY <1>1, <1>3, <1>5, UnlockedSlice
  <1>10. SliceIsRegistered'
    <2>1. writing'.len \in {entry'.len + 1, entry'.len - 1} /\ writing'.len <= Len(entry'.cells)
      BY <1>3, <1>6, <1>7
    <2>2. entry' # NoEntry
      BY <1>7, NoneIsNoEntry
    <2>3. \A i, j \in 1 .. entry.len : entry.cells[i] = entry.cells[j] => i = j
      BY <1>1, UnlockedSlice
    <2>4. \A j \in 1 .. entry.len : entry.cells[j] \in registered
      BY <1>1, UnlockedSlice
    <2>5. \A j \in 1 .. entry.len - 1 :
             /\ j \in 1 .. entry.len /\ j # entry.len /\ entry.len \in 1 .. entry.len
             /\ j = k => k # entry.len
      BY <1>3
    <2>6. \A j \in 1 .. entry.len - 1 : after(j) \in registered'
      BY <1>1, <1>4, <2>3, <2>4, <2>5
    <2>7. \A t \in registered' : \E j \in 1 .. entry.len - 1 : after(j) = t
      <3> SUFFICES ASSUME NEW t \in registered, t # s
                   PROVE  \E j \in 1 .. entry.len - 1 : after(j) = t
        BY <1>1
      <3>1. PICK j \in 1 .. entry.len : entry.cells[j] = t
        BY <1>1, UnlockedSlice
      <3>2. j # k
        BY <1>4, <3>1
      <3>3. CASE j = entry.len
        <4>1. k \in 1 .. entry.len - 1 /\ after(k) = t
          BY <1>3, <3>1, <3>2, <3>3
        <4> QED BY <4>1
      <3>4. CASE j # entry.len
        <4>1. j \in 1 .. entry.len - 1 /\ after(j) = t
          BY <1>3, <3>1, <3>2, <3>4
        <4> QED BY <4>1
      <3> QED BY <3>3, <3>4
    <2>8. \A i, j \in 1 .. entry.len - 1 : after(i) = after(j) => i = j
      BY <2>3, <2>5
    <2> HIDE DEF after
    <2> QED BY <1>6, <1>8, <2>1, <2>2, <2>6, <2>7, <2>8 DEF SliceIsRegistered
  <1>11. ASSUME NEW q \in Query, InProgress(q) PROVE query'[q] \in Working /\ Good(q)'
    <2> USE DEF Good
    <2> DEFINE r == query[q]
    <2>1. Good(q) /\ r \in Working
      BY <1>1, <1>11, Phases DEF IInv
    <2>2. {"remove"} \subseteq Kind /\ registered' \subseteq Server /\ healthy \subseteq Server
      BY <1>1 DEF Kind, Types
    <2>3. /\ query'[q] \in Working
          /\ \A f \in {"phase", "type", "orphan", "outgrown", "n", "i", "server", "pool"} :
                query'[q][f] = r[f]
          /\ query'[q].present = r.present \cup registered'
          /\ query'[q].well = r.well \cup healthy
          /\ query'[q].steady = r.steady \cap (registered' \cap healthy)
          /\ query'[q].overlap = r.overlap \cup {"remove"}
      BY <1>2, <2>1, <2>2, WitnessOf
    <2>4. /\ Own(q)' = Own(q) /\ ToRead(q)' = ToRead(q) /\ \A t : Wanted(q, t)' = Wanted(q, t)
          /\ InPlace(q)' = InPlace(q)
          /\ EntryOf(q)' = IF Own(q) THEN entry' ELSE EntryOf(q)
          /\ Own(q) => EntryOf(q) = entry
      BY <2>3 DEF Own, ToRead, Wanted, InPlace, EntryOf
    <2>5. /\ Len(CellsOf(q)') = Len(CellsOf(q)) /\ Len(CellsOf(q)) \in Nat
          /\ InPlace(q) => /\ CellsOf(q) = entry.cells
                           /\ \A j \in 1 .. Len(CellsOf(q)) :
                                 CellsOf(q)'[j] = IF j = k THEN last ELSE CellsOf(q)[j]
          /\ ~InPlace(q) => CellsOf(q)' = CellsOf(q)
      BY <1>1, <1>7, <1>11, <2>3, <2>4, ArrayTypes DEF CellsOf, InPlace
    <2>6. Fits(q)'
      BY <1>7, <1>11, <2>1, <2>3, <2>4, <2>5, NoneIsNoEntry DEF Fits
    <2>7. Remembers(q)'
      BY <1>1, <1>8, <1>11, <2>1, <2>3 DEF Remembers
    <2>8. registered \subseteq r.present
      BY <1>11, <2>1 DEF Remembers
    <2>9. Serving(q)'
      <3>1. ASSUME "cell" \notin r.overlap, r.phase = "found", NEW j \in 1 .. EntryOf(q)'.len
            PROVE  EntryOf(q)'.cells[j] \in r.present
        <4>1. CASE Own(q)
          <5>1. j \in 1 .. entry.len /\ j \in 1 .. Len(entry.cells) /\ entry.cells[j] \in registered
            BY <1>1, <1>3, <1>7, <2>4, <4>1, UnlockedSlice
          <5> QED BY <1>7, <1>9, <2>4, <2>8, <4>1, <5>1
        <4>2. CASE ~Own(q)
          BY <1>11, <2>1, <2>4, <3>1, <4>2 DEF Serving
        <4> QED BY <4>1, <4>2
      <3>2. ASSUME "cell" \notin r.overlap, r.phase # "found", NEW j \in r.i .. r.n
            PROVE  CellsOf(q)'[j] \in r.present
        <4>1. CellsOf(q)[j] \in r.present /\ j \in 1 .. Len(CellsOf(q))
          BY <1>11, <2>1, <2>5, <3>2, WorkingTypes DEF Serving, Fits
        <4> QED BY <1>9, <2>5, <2>8, <4>1
      <3>3. /\ ToSet(r.pool) \subseteq query'[q].well
            /\ "cell" \notin r.overlap => /\ ToSet(r.pool) \subseteq query'[q].present
                                          /\ r.phase = "check" => r.server \in query'[q].present
        BY <1>11, <2>1, <2>3 DEF Serving
      <3> QED BY <2>3, <3>1, <3>2, <3>3 DEF Serving
    <2>10. Ahead(q)'
      <3> SUFFICES ASSUME "append" \notin r.overlap, NEW t \in r.steady, t # s, Wanted(q, t),
                          r.phase # "found", t \notin ToSet(r.pool),
                          ~(r.phase = "check" /\ r.server = t)
                   PROVE  \E j \in ToRead(q) .. r.n : CellsOf(q)'[j] = t
        BY <1>1, <1>11, <2>1, <2>3, <2>4 DEF Ahead
      <3>1. PICK j \in ToRead(q) .. r.n : CellsOf(q)[j] = t
        BY <1>11, <2>1 DEF Ahead
      <3>2. j \in 1 .. Len(CellsOf(q))
        BY <1>11, <2>1, <2>5, WorkingTypes DEF Fits, ToRead
      <3>3. CellsOf(q)'[j] = t
        BY <1>4, <2>5, <3>1, <3>2
      <3> QED BY <3>1, <3>3
    <2>11. Even(q)'
      BY <2>3 DEF Even
    <2> QED BY <2>3, <2>6, <2>7, <2>9, <2>10, <2>11, WorkingTypes DEF Justified, Done
  <1>12. ASSUME NEW q \in Query, ~InProgress(q) PROVE query'[q] = query[q] /\ Good(q)'
    <2>1. query'[q] = query[q]
      BY <1>2, <1>12, WitnessRest DEF InProgress
    <2> QED BY <1>12, <2>1, RestKept DEF IInv
  <1>13. DOMAIN query' = Query
    BY <1>2, WitnessDomain
  <1>14. Types'
    <2>1. entry'.len <= Len(entry'.cells)
      BY <1>3, <1>7
    <2> QED BY <1>1, <1>6, <1>7, <1>11, <1>12, <1>13, <2>1 DEF Types
  <1> QED BY <1>10, <1>11, <1>12, <1>14 DEF IInv

-----------------------------------------------------------------------------
(* The theorems *)

LEMMA StepIInv == IInv /\ [AnswersNext]_answerVars => IInv'
  <1> SUFFICES ASSUME IInv, [AnswersNext]_answerVars PROVE IInv'
    OBVIOUS
  <1>1. CASE UNCHANGED answerVars
    <2>1. UNCHANGED <<entry, writing, healthy, query, registered>>
      BY <1>1 DEF answerVars
    <2>2. SameSlice /\ Types'
      BY <2>1 DEF SameSlice, IInv, Types
    <2> QED BY <2>1, <2>2, QueryKept, SliceKept DEF IInv
  <1>2. CASE \E s \in Server : RegisterServer(s) \/ DeregisterServer(s) \/ HealthChanges(s)
    BY <1>2, RegisterStep, DeregisterStep, HealthStep
  <1>3. CASE FinishWrite
    BY <1>3, FinishStep
  <1>4. CASE \E c \in Configuration, a \in Algorithms : ReplaceAllEntries(c, a)
    BY <1>4, ReplaceStep
  <1>5. CASE \E a \in Algorithms : RegisterDomain(a) \/ UpdateDomainSettings(a)
    BY <1>5, ReplaceStep, SettingsStep DEF RegisterDomain
  <1>6. CASE RemoveDomain
    BY <1>6, RemoveStep
  <1>7. CASE \E q \in Query, type \in Type : Lookup(q, type)
    BY <1>7, LookupStep
  <1>8. CASE \E q \in Query : \/ ReadSlice(q) \/ ReadServer(q) \/ CheckHealth(q)
                              \/ Answer(q) \/ Written(q)
    BY <1>8, ReadSliceStep, ReadServerStep, CheckHealthStep, AnswerStep, WrittenStep
  <1> QED BY <1>1, <1>2, <1>3, <1>4, <1>5, <1>6, <1>7, <1>8 DEF AnswersNext

\* In every reachable state the slice, once the operation that holds the lock is over,
\* lists the registered servers once each, and what a query has still to read is
\* what Good says.
THEOREM SliceAndQueries == AnswersSpec => []IInv
  BY InitIInv, StepIInv, PTL DEF AnswersSpec

\* handleAQuery and handleAAAAQuery, which read entry.Servers without the registry's
\* lock, answer only with servers that were registered and healthy meanwhile, except
\* for a slice read in the middle of an append.
THEOREM AnswersServe == AnswersSpec => []AnswerWasServing
  <1>1. IInv => AnswerWasServing
    BY DEF IInv, Good, Justified, AnswerWasServing
  <1> QED BY <1>1, SliceAndQueries, PTL

\* They fail only when no server was there throughout, or a removal and an append
\* both moved servers in the slice meanwhile.
THEOREM FailuresJustified == AnswersSpec => []FailureJustified
  <1>1. IInv => FailureJustified
    BY DEF IInv, Good, Justified, FailureJustified
  <1> QED BY <1>1, SliceAndQueries, PTL

\* The pool that they give to the router has every server that was there throughout,
\* once, when nothing changed the slice in place.
THEOREM PoolsFair == AnswersSpec => []PoolFair
  <1>1. IInv => PoolFair
    BY DEF IInv, Good, Justified, PoolFair
  <1> QED BY <1>1, SliceAndQueries, PTL

-----------------------------------------------------------------------------
(* Loops of the routers *)

\* f has the values of a loop that starts with c and has body h.
IsLoop(f, m, n, V, c, h) ==
    /\ f \in [m .. n -> V] /\ f[m] = c
    /\ \A i \in m + 1 .. n : f[i] = h[<<i, f[i - 1]>>]

\* A loop over a finite range ends: the recursive functions of the routers exist.
LEMMA LoopExists ==
  ASSUME NEW m \in Nat, NEW n \in Nat, m <= n, NEW V, NEW c \in V,
         NEW h \in [(m + 1 .. n) \X V -> V]
  PROVE  \E f : IsLoop(f, m, n, V, c, h)
  <1> DEFINE B == {k \in m .. n : ~\E f : IsLoop(f, m, k, V, c, h)}
  <1> SUFFICES ASSUME B # {} PROVE FALSE
    <2>1. n \in m .. n
      OBVIOUS
    <2> QED BY <2>1
  <1>1. B \subseteq Nat
    OBVIOUS
  <1>2. PICK k \in B : \A j \in B : k <= j
    <2> HIDE DEF B
    <2> QED BY <1>1, SmallestNat
  <1>3. k \in m .. n /\ ~\E f : IsLoop(f, m, k, V, c, h)
    OBVIOUS
  <1>4. CASE k = m
    <2> DEFINE f == [i \in m .. m |-> c]
    <2>1. f \in [m .. m -> V] /\ f[m] = c /\ m + 1 .. m = {}
      OBVIOUS
    <2>2. IsLoop(f, m, m, V, c, h)
      BY <2>1 DEF IsLoop
    <2> QED BY <1>3, <1>4, <2>2
  <1>5. CASE k # m
    <2>1. k - 1 \in m .. n /\ k - 1 < k
      BY <1>3, <1>5
    <2>2. k - 1 \notin B
      <3>1. k \in Nat
        BY <1>3
      <3> HIDE DEF B
      <3> QED BY <1>2, <2>1, <3>1
    <2>3. PICK g : IsLoop(g, m, k - 1, V, c, h)
      BY <2>1, <2>2
    <2> DEFINE f == [i \in m .. k |-> IF i = k THEN h[<<k, g[k - 1]>>] ELSE g[i]]
    <2>4. g \in [m .. k - 1 -> V] /\ g[m] = c
      BY <2>3 DEF IsLoop
    <2>5. g[k - 1] \in V
      BY <1>3, <1>5, <2>4
    <2>6. h[<<k, g[k - 1]>>] \in V
      <3>1. k \in m + 1 .. n
        BY <1>3, <1>5
      <3> QED BY <2>5, <3>1
    <2>7. f \in [m .. k -> V] /\ f[m] = c
      <3>1. \A i \in m .. k : i # k => i \in m .. k - 1
        BY <1>3
      <3>2. \A i \in m .. k : f[i] \in V
        BY <2>4, <2>6, <3>1
      <3>3. m \in m .. k
        BY <1>3
      <3> QED BY <1>5, <2>4, <3>2, <3>3
    <2>8. ASSUME NEW i \in m + 1 .. k PROVE f[i] = h[<<i, f[i - 1]>>]
      <3>1. i \in m .. k /\ i - 1 \in m .. k /\ i - 1 # k
        BY <1>3
      <3>2. f[i - 1] = g[i - 1]
        BY <3>1
      <3>3. CASE i = k
        BY <3>1, <3>2, <3>3
      <3>4. CASE i # k
        <4>1. i \in m + 1 .. k - 1
          BY <1>3, <3>4
        <4>2. g[i] = h[<<i, g[i - 1]>>]
          BY <2>3, <4>1 DEF IsLoop
        <4> QED BY <3>1, <3>2, <3>4, <4>2
      <3> QED BY <3>3, <3>4
    <2> HIDE DEF f
    <2>9. IsLoop(f, m, k, V, c, h)
      BY <2>7, <2>8 DEF IsLoop
    <2> QED BY <1>3, <2>9
  <1> QED BY <1>4, <1>5

\* What holds at first and is kept by every round holds at the end.
LEMMA LoopInduction ==
  ASSUME NEW m \in Nat, NEW n \in Nat, NEW S, m \in S,
         \A i \in m + 1 .. n : i - 1 \in S => i \in S
  PROVE  \A i \in m .. n : i \in S
  <1> DEFINE B == {i \in m .. n : i \notin S}
  <1> SUFFICES ASSUME B # {} PROVE FALSE
    OBVIOUS
  <1>1. B \subseteq Nat
    OBVIOUS
  <1>2. PICK k \in B : \A j \in B : k <= j
    <2> HIDE DEF B
    <2> QED BY <1>1, SmallestNat
  <1>3. k \in m + 1 .. n /\ k \notin S /\ k \in Nat
    OBVIOUS
  <1>4. k - 1 \in m .. n /\ k - 1 < k
    BY <1>3
  <1>5. k - 1 \in S
    <2>1. k - 1 \notin B
      <3> HIDE DEF B
      <3> QED BY <1>2, <1>3, <1>4
    <2> QED BY <1>4, <2>1
  <1> QED BY <1>3, <1>5

-----------------------------------------------------------------------------
(* What the routers compute *)

IsKept(f, pool, S) ==
    f = [i \in 0 .. Len(pool) |->
            IF i = 0 THEN NoPool
            ELSE IF pool[i] \in S THEN Append(f[i - 1], pool[i]) ELSE f[i - 1]]

KeepLoop(f, pool, S) ==
    /\ f \in [0 .. Len(pool) -> Seq(Server)] /\ f[0] = NoPool
    /\ \A i \in 1 .. Len(pool) :
          f[i] = IF pool[i] \in S THEN Append(f[i - 1], pool[i]) ELSE f[i - 1]

LEMMA KeptLoop ==
  ASSUME NEW pool \in Seq(Server), NEW S, NEW f, IsKept(f, pool, S),
         f \in [0 .. Len(pool) -> Seq(Server)]
  PROVE  KeepLoop(f, pool, S)
  <1>1. Len(pool) \in Nat
    OBVIOUS
  <1>2. 0 \in 0 .. Len(pool) /\ \A i \in 1 .. Len(pool) : i \in 0 .. Len(pool) /\ i # 0
    BY <1>1
  <1> QED BY <1>2 DEF IsKept, KeepLoop

LEMMA KeepIsLoop ==
  ASSUME NEW pool \in Seq(Server), NEW S
  PROVE  \E f : KeepLoop(f, pool, S) /\ Keep(pool, S) = f[Len(pool)]
  <1> DEFINE n == Len(pool)
  <1> DEFINE f == CHOOSE g : IsKept(g, pool, S)
  <1> DEFINE h == [x \in (0 + 1 .. n) \X Seq(Server) |->
                      IF pool[x[1]] \in S THEN Append(x[2], pool[x[1]]) ELSE x[2]]
  <1>1. Keep(pool, S) = f[n]
    BY DEF Keep, IsKept
  <1>2. n \in Nat /\ 0 <= n /\ NoPool \in Seq(Server)
    BY DEF NoPool
  <1>3. h \in [(0 + 1 .. n) \X Seq(Server) -> Seq(Server)]
    <2>1. ASSUME NEW x \in (0 + 1 .. n) \X Seq(Server)
          PROVE  (IF pool[x[1]] \in S THEN Append(x[2], pool[x[1]]) ELSE x[2]) \in Seq(Server)
      <3>1. x[1] \in 1 .. n /\ x[2] \in Seq(Server)
        OBVIOUS
      <3>2. pool[x[1]] \in Server
        BY <3>1
      <3> QED BY <3>1, <3>2
    <2> QED BY <2>1
  <1>4. PICK g : IsLoop(g, 0, n, Seq(Server), NoPool, h)
    <2> HIDE DEF n, h
    <2> QED BY <1>2, <1>3, LoopExists
  <1>5. g \in [0 .. n -> Seq(Server)] /\ g[0] = NoPool
    BY <1>4 DEF IsLoop
  <1>6. ASSUME NEW i \in 1 .. n
        PROVE  g[i] = IF pool[i] \in S THEN Append(g[i - 1], pool[i]) ELSE g[i - 1]
    <2>1. i \in 0 + 1 .. n /\ i - 1 \in 0 .. n
      BY <1>2
    <2>2. g[i] = h[<<i, g[i - 1]>>]
      BY <1>4, <2>1 DEF IsLoop
    <2>3. <<i, g[i - 1]>> \in (0 + 1 .. n) \X Seq(Server)
      BY <1>5, <2>1
    <2> QED BY <2>2, <2>3
  <1>7. IsKept(g, pool, S)
    <2>1. \A i \in 0 .. n : g[i] = IF i = 0 THEN NoPool
                                   ELSE IF pool[i] \in S THEN Append(g[i - 1], pool[i]) ELSE g[i - 1]
      <3>1. \A i \in 0 .. n : i = 0 \/ i \in 1 .. n
        BY <1>2
      <3> HIDE DEF n
      <3> QED BY <1>5, <1>6, <3>1
    <2> QED BY <1>5, <2>1 DEF IsKept
  <1>8. IsKept(f, pool, S)
    BY <1>7
  <1> HIDE DEF f
  <1>9. \A i \in 0 .. n : f[i] = g[i]
    <2> DEFINE E == {i \in 0 .. n : f[i] = g[i]}
    <2>1. 0 \in E
      BY <1>2, <1>5, <1>8 DEF IsKept
    <2>2. ASSUME NEW i \in 0 + 1 .. n, i - 1 \in E PROVE i \in E
      <3>1. i \in 0 .. n /\ i # 0 /\ i \in 1 .. n
        BY <1>2
      <3>2. f[i] = IF pool[i] \in S THEN Append(f[i - 1], pool[i]) ELSE f[i - 1]
        BY <1>8, <3>1 DEF IsKept
      <3>3. f[i - 1] = g[i - 1]
        BY <2>2
      <3> QED BY <1>6, <3>1, <3>2, <3>3
    <2>3. \A i \in 0 .. n : i \in E
      <3> HIDE DEF E, n
      <3> QED BY <1>2, <2>1, <2>2, LoopInduction
    <2> QED BY <2>3
  <1>10. f \in [0 .. n -> Seq(Server)]
    <2>1. f = [i \in 0 .. n |-> f[i]]
      BY <1>8 DEF IsKept
    <2>2. \A i \in 0 .. n : f[i] \in Seq(Server)
      BY <1>5, <1>9
    <2> HIDE DEF n
    <2> QED BY <2>1, <2>2
  <1>11. KeepLoop(f, pool, S)
    BY <1>8, <1>10, KeptLoop
  <1> QED BY <1>1, <1>11

\* A filter keeps just the servers in S, and does not repeat any.
LEMMA KeepFacts ==
  ASSUME NEW pool \in Seq(Server), NEW S
  PROVE  /\ Keep(pool, S) \in Seq(Server)
         /\ ToSet(Keep(pool, S)) = ToSet(pool) \cap S
         /\ IsInjective(pool) => IsInjective(Keep(pool, S))
  <1> DEFINE n == Len(pool)
  <1>1. PICK f : KeepLoop(f, pool, S) /\ Keep(pool, S) = f[n]
    BY KeepIsLoop
  <1>2. n \in Nat /\ 0 \in 0 .. n /\ n \in 0 .. n
    OBVIOUS
  <1>3. f \in [0 .. n -> Seq(Server)] /\ f[0] = <<>>
    BY <1>1 DEF KeepLoop, NoPool
  <1> DEFINE Part(i) == {pool[j] : j \in 1 .. i}
  <1> DEFINE E == {i \in 0 .. n : /\ ToSet(f[i]) = Part(i) \cap S
                                  /\ IsInjective(pool) => IsInjective(f[i])}
  <1>4. 0 \in E
    <2>1. 1 .. 0 = {}
      OBVIOUS
    <2>2. Part(0) = {}
      BY <2>1
    <2> QED BY <1>2, <1>3, <2>2, EmptyToSet
  <1>5. ASSUME NEW i \in 0 + 1 .. n, i - 1 \in E PROVE i \in E
    <2>1. i \in 1 .. n /\ i \in 0 .. n /\ i - 1 \in 0 .. n
      BY <1>2
    <2>2. f[i] = IF pool[i] \in S THEN Append(f[i - 1], pool[i]) ELSE f[i - 1]
      BY <1>1, <2>1 DEF KeepLoop
    <2>3. Part(i) = Part(i - 1) \cup {pool[i]}
      <3>1. 1 .. i = (1 .. i - 1) \cup {i}
        BY <2>1
      <3> QED BY <3>1
    <2>4. f[i - 1] \in Seq(Server) /\ pool[i] \in Server
      BY <1>3, <2>1
    <2>5. ToSet(f[i - 1]) = Part(i - 1) \cap S /\ (IsInjective(pool) => IsInjective(f[i - 1]))
      BY <1>5
    <2>6. IsInjective(pool) => pool[i] \notin Part(i - 1)
      <3>1. \A j \in 1 .. i - 1 : j \in 1 .. n /\ j # i
        BY <1>2, <2>1
      <3> QED BY <2>1, <3>1 DEF IsInjective
    <2> HIDE DEF Part
    <2>7. CASE pool[i] \in S
      <3>1. ToSet(f[i]) = ToSet(f[i - 1]) \cup {pool[i]}
        BY <2>2, <2>4, <2>7, ToSetAppend
      <3>2. IsInjective(pool) => IsInjective(f[i])
        BY <2>2, <2>4, <2>5, <2>6, <2>7, InjectiveAppend
      <3> QED BY <2>1, <2>3, <2>5, <2>7, <3>1, <3>2
    <2>8. CASE pool[i] \notin S
      BY <2>1, <2>2, <2>3, <2>5, <2>8
    <2> QED BY <2>7, <2>8
  <1>6. \A i \in 0 .. n : i \in E
    <2> HIDE DEF E, n
    <2> QED BY <1>2, <1>4, <1>5, LoopInduction
  <1>7. n \in E
    BY <1>2, <1>6
  <1>8. Part(n) = ToSet(pool)
    BY DEF ToSet
  <1> QED BY <1>1, <1>2, <1>3, <1>7, <1>8

IsSum(f, pool) ==
    f = [i \in 0 .. Len(pool) |-> IF i = 0 THEN 0 ELSE f[i - 1] + EffectiveWeight(pool[i])]

LEMMA WeightType ==
  ASSUME NEW s \in Server
  PROVE  EffectiveWeight(s) \in Nat \ {0} /\ EffectiveWeight(s) = IF WeightOf[s] > 0 THEN WeightOf[s] ELSE 1
  <1>1. WeightOf[s] \in Int
    BY RoutingAssumption
  <1> QED BY <1>1 DEF EffectiveWeight

\* The sums of the weights, from the left.
LEMMA CumulativeFacts ==
  ASSUME NEW pool \in Seq(Server)
  PROVE  /\ Cumulative(pool) \in [0 .. Len(pool) -> Nat] /\ Cumulative(pool)[0] = 0
         /\ \A i \in 1 .. Len(pool) :
               Cumulative(pool)[i] = Cumulative(pool)[i - 1] + EffectiveWeight(pool[i])
  <1> DEFINE n == Len(pool)
  <1> DEFINE f == CHOOSE g : IsSum(g, pool)
  <1> DEFINE h == [x \in (0 + 1 .. n) \X Nat |-> x[2] + EffectiveWeight(pool[x[1]])]
  <1>1. Cumulative(pool) = f
    BY DEF Cumulative, IsSum
  <1>2. n \in Nat /\ 0 <= n /\ 0 \in Nat
    OBVIOUS
  <1>3. h \in [(0 + 1 .. n) \X Nat -> Nat]
    <2>1. ASSUME NEW x \in (0 + 1 .. n) \X Nat PROVE x[2] + EffectiveWeight(pool[x[1]]) \in Nat
      <3>1. x[1] \in 1 .. n /\ x[2] \in Nat
        OBVIOUS
      <3>2. pool[x[1]] \in Server
        BY <3>1
      <3>3. EffectiveWeight(pool[x[1]]) \in Nat
        BY <3>2, WeightType
      <3> QED BY <3>1, <3>3
    <2> QED BY <2>1
  <1>4. PICK g : IsLoop(g, 0, n, Nat, 0, h)
    <2> HIDE DEF n, h
    <2> QED BY <1>2, <1>3, LoopExists
  <1>5. g \in [0 .. n -> Nat] /\ g[0] = 0
    BY <1>4 DEF IsLoop
  <1>6. ASSUME NEW i \in 1 .. n PROVE g[i] = g[i - 1] + EffectiveWeight(pool[i])
    <2>1. i \in 0 + 1 .. n /\ i - 1 \in 0 .. n
      BY <1>2
    <2>2. g[i] = h[<<i, g[i - 1]>>]
      BY <1>4, <2>1 DEF IsLoop
    <2>3. <<i, g[i - 1]>> \in (0 + 1 .. n) \X Nat
      BY <1>5, <2>1
    <2> QED BY <2>2, <2>3
  <1>7. IsSum(g, pool)
    <2>1. \A i \in 0 .. n : g[i] = IF i = 0 THEN 0 ELSE g[i - 1] + EffectiveWeight(pool[i])
      <3>1. \A i \in 0 .. n : i = 0 \/ i \in 1 .. n
        BY <1>2
      <3> HIDE DEF n
      <3> QED BY <1>5, <1>6, <3>1
    <2> QED BY <1>5, <2>1 DEF IsSum
  <1>8. IsSum(f, pool)
    BY <1>7
  <1> HIDE DEF f
  <1>9. f[0] = 0 /\ \A i \in 1 .. n : f[i] = f[i - 1] + EffectiveWeight(pool[i])
    <2>1. 0 \in 0 .. n /\ \A i \in 1 .. n : i \in 0 .. n /\ i # 0
      BY <1>2
    <2> QED BY <1>8, <2>1 DEF IsSum
  <1>10. \A i \in 0 .. n : f[i] \in Nat
    <2> DEFINE E == {i \in 0 .. n : f[i] \in Nat}
    <2>1. 0 \in E
      BY <1>2, <1>9
    <2>2. ASSUME NEW i \in 0 + 1 .. n, i - 1 \in E PROVE i \in E
      <3>1. i \in 1 .. n /\ i \in 0 .. n
        BY <1>2
      <3>2. EffectiveWeight(pool[i]) \in Nat
        BY <3>1, WeightType
      <3>3. f[i - 1] \in Nat
        BY <2>2
      <3> QED BY <1>9, <3>1, <3>2, <3>3
    <2>3. \A i \in 0 .. n : i \in E
      <3> HIDE DEF E, n
      <3> QED BY <1>2, <2>1, <2>2, LoopInduction
    <2> QED BY <2>3
  <1>11. f \in [0 .. n -> Nat]
    <2>1. f = [i \in 0 .. n |-> f[i]]
      BY <1>8 DEF IsSum
    <2> HIDE DEF n
    <2> QED BY <1>10, <2>1
  <1> QED BY <1>1, <1>9, <1>11

LEMMA CumulativeGrows ==
  ASSUME NEW pool \in Seq(Server)
  PROVE  \A i, j \in 0 .. Len(pool) : i <= j => Cumulative(pool)[i] <= Cumulative(pool)[j]
  <1> DEFINE n == Len(pool)
  <1> DEFINE f == Cumulative(pool)
  <1>1. n \in Nat /\ f \in [0 .. n -> Nat]
    BY CumulativeFacts
  <1>2. \A i \in 1 .. n : f[i] = f[i - 1] + EffectiveWeight(pool[i])
    BY CumulativeFacts
  <1> DEFINE E == {j \in 0 .. n : \A i \in 0 .. j : f[i] <= f[j]}
  <1>3. 0 \in E
    <2>1. 0 \in 0 .. n /\ f[0] \in Nat /\ \A i \in 0 .. 0 : i = 0
      BY <1>1
    <2>2. f[0] <= f[0]
      BY <2>1
    <2> HIDE DEF f, n
    <2> QED BY <2>1, <2>2
  <1>4. ASSUME NEW j \in 0 + 1 .. n, j - 1 \in E PROVE j \in E
    <2>1. j \in 1 .. n /\ j \in 0 .. n /\ j - 1 \in 0 .. n
      BY <1>1
    <2>2. EffectiveWeight(pool[j]) \in Nat
      BY <2>1, WeightType
    <2>3. f[j - 1] \in Nat /\ f[j] \in Nat /\ f[j - 1] <= f[j]
      <3> HIDE DEF f, n
      <3> QED BY <1>1, <1>2, <2>1, <2>2
    <2>4. ASSUME NEW i \in 0 .. j PROVE f[i] <= f[j]
      <3>1. CASE i = j
        <4> HIDE DEF f, n
        <4> QED BY <2>3, <3>1
      <3>2. CASE i # j
        <4>1. i \in 0 .. j - 1 /\ i \in 0 .. n
          BY <1>1, <2>1, <3>2
        <4>2. f[i] <= f[j - 1] /\ f[i] \in Nat
          BY <1>1, <1>4, <4>1
        <4> HIDE DEF f, n
        <4> QED BY <2>3, <4>2
      <3> QED BY <3>1, <3>2
    <2> HIDE DEF f, n
    <2> QED BY <2>1, <2>4
  <1>5. \A j \in 0 .. n : j \in E
    <2> HIDE DEF E, n
    <2> QED BY <1>1, <1>3, <1>4, LoopInduction
  <1>6. ASSUME NEW i \in 0 .. n, NEW j \in 0 .. n, i <= j PROVE f[i] <= f[j]
    <2>1. i \in 0 .. j /\ j \in E
      BY <1>1, <1>5, <1>6
    <2> QED BY <2>1
  <1> QED BY <1>6

\* Every point falls to a server.
LEMMA PointIsCovered ==
  ASSUME NEW pool \in Seq(Server), NEW p \in 0 .. TotalWeight(pool) - 1
  PROVE  \E i \in 1 .. Len(pool) : p < Cumulative(pool)[i] /\ Cumulative(pool)[i - 1] <= p
  <1> DEFINE n == Len(pool)
  <1> DEFINE f == Cumulative(pool)
  <1>1. /\ n \in Nat /\ f \in [0 .. n -> Nat] /\ f[0] = 0 /\ TotalWeight(pool) = f[n]
        /\ n \in 0 .. n /\ 0 \in 0 .. n
    BY CumulativeFacts DEF TotalWeight
  <1> DEFINE I == {i \in 0 .. n : p < f[i]}
  <1>2. n \in I /\ 0 \notin I /\ I \subseteq Nat /\ p \in Nat
    BY <1>1
  <1>3. PICK i \in I : \A j \in I : i <= j
    <2> HIDE DEF I
    <2> QED BY <1>2, SmallestNat
  <1>4. i \in 1 .. n /\ p < f[i]
    BY <1>1, <1>2
  <1>5. i - 1 \notin I
    <2> HIDE DEF I
    <2> QED BY <1>3, <1>4
  <1>6. i - 1 \in 0 .. n
    BY <1>1, <1>4
  <1>7. f[i - 1] <= p
    BY <1>1, <1>2, <1>5, <1>6
  <1> QED BY <1>4, <1>7

LEMMA WeightedInPool ==
  ASSUME NEW pool \in Seq(Server), NEW p \in 0 .. TotalWeight(pool) - 1
  PROVE  WeightedAt(pool, p) \in ToSet(pool)
  <1> DEFINE At(i) == p < Cumulative(pool)[i] /\ Cumulative(pool)[i - 1] <= p
  <1> DEFINE c == CHOOSE i \in 1 .. Len(pool) : At(i)
  <1>0. DOMAIN pool = 1 .. Len(pool)
    OBVIOUS
  <1>1. WeightedAt(pool, p) = pool[c]
    BY <1>0 DEF WeightedAt
  <1>2. \E i \in 1 .. Len(pool) : At(i)
    BY PointIsCovered
  <1>3. c \in 1 .. Len(pool)
    <2> HIDE DEF At
    <2> QED BY <1>2
  <1> HIDE DEF c
  <1> QED BY <1>0, <1>1, <1>3 DEF ToSet

\* The points of a server of a pool are an interval as long as its weight.
LEMMA PointsOf ==
  ASSUME NEW pool \in Seq(Server), IsInjective(pool), NEW k \in 1 .. Len(pool)
  PROVE  {p \in 0 .. TotalWeight(pool) - 1 : WeightedAt(pool, p) = pool[k]}
         = Cumulative(pool)[k - 1] .. Cumulative(pool)[k] - 1
  <1> DEFINE n == Len(pool)
  <1> DEFINE f == Cumulative(pool)
  <1> DEFINE At(p, i) == p < f[i] /\ f[i - 1] <= p
  <1>1. /\ n \in Nat /\ f \in [0 .. n -> Nat] /\ f[0] = 0 /\ TotalWeight(pool) = f[n]
        /\ \A i, j \in 0 .. n : i <= j => f[i] <= f[j]
    BY CumulativeFacts, CumulativeGrows DEF TotalWeight
  <1>2. /\ DOMAIN pool = 1 .. n
        /\ \A i \in 1 .. n : i \in 0 .. n /\ i - 1 \in 0 .. n
        /\ n \in 0 .. n /\ 0 \in 0 .. n
    BY <1>1
  <1>3. ASSUME NEW p \in Nat, NEW i \in 1 .. n, NEW j \in 1 .. n, At(p, i), At(p, j) PROVE i = j
    <2>1. ~(i < j)
      <3> SUFFICES ASSUME i < j PROVE FALSE
        OBVIOUS
      <3>1. i <= j - 1
        OBVIOUS
      <3>2. f[i] <= f[j - 1] /\ f[i] \in Nat /\ f[j - 1] \in Nat
        BY <1>1, <1>2, <3>1
      <3> HIDE DEF f
      <3> QED BY <1>3, <3>2
    <2>2. ~(j < i)
      <3> SUFFICES ASSUME j < i PROVE FALSE
        OBVIOUS
      <3>1. j <= i - 1
        OBVIOUS
      <3>2. f[j] <= f[i - 1] /\ f[j] \in Nat /\ f[i - 1] \in Nat
        BY <1>1, <1>2, <3>1
      <3> HIDE DEF f
      <3> QED BY <1>3, <3>2
    <2> QED BY <2>1, <2>2
  <1>4. ASSUME NEW p \in 0 .. f[n] - 1 PROVE \E i \in 1 .. n : At(p, i)
    <2>1. p \in 0 .. TotalWeight(pool) - 1
      BY <1>1
    <2> HIDE DEF f, n
    <2>2. \E i \in 1 .. Len(pool) : p < Cumulative(pool)[i] /\ Cumulative(pool)[i - 1] <= p
      BY <2>1, PointIsCovered
    <2> QED BY <2>2 DEF f, n
  <1>5. ASSUME NEW p \in 0 .. f[n] - 1
        PROVE  WeightedAt(pool, p) = pool[k] <=> At(p, k)
    <2> DEFINE c == CHOOSE i \in 1 .. n : At(p, i)
    <2>1. WeightedAt(pool, p) = pool[c]
      BY <1>2 DEF WeightedAt
    <2>2. c \in 1 .. n /\ At(p, c)
      <3> HIDE DEF At
      <3> QED BY <1>4
    <2>3. p \in Nat
      BY <1>1
    <2>4. pool[c] = pool[k] <=> c = k
      BY <1>2, <2>2 DEF IsInjective
    <2> HIDE DEF At, c
    <2> QED BY <1>3, <2>1, <2>2, <2>3, <2>4
  <1>6. f[k - 1] \in Nat /\ f[k] \in Nat /\ f[k] <= f[n] /\ f[n] \in Nat
    BY <1>1, <1>2
  <1>7. \A p : p \in f[k - 1] .. f[k] - 1 <=> p \in 0 .. f[n] - 1 /\ At(p, k)
    <2> HIDE DEF f
    <2> QED BY <1>6
  <1> QED BY <1>1, <1>5, <1>7

\* As many points as its weight says.
LEMMA ShareOf ==
  ASSUME NEW pool \in Seq(Server), IsInjective(pool), NEW s \in ToSet(pool)
  PROVE  Cardinality({p \in 0 .. TotalWeight(pool) - 1 : WeightedAt(pool, p) = s})
         = IF WeightOf[s] > 0 THEN WeightOf[s] ELSE 1
  <1>1. PICK k \in 1 .. Len(pool) : pool[k] = s
    BY DEF ToSet
  <1> DEFINE a == Cumulative(pool)[k - 1]
  <1> DEFINE b == Cumulative(pool)[k]
  <1>2. s \in Server
    BY <1>1
  <1>3. k - 1 \in 0 .. Len(pool) /\ k \in 0 .. Len(pool)
    OBVIOUS
  <1>4. a \in Nat /\ b \in Nat /\ b = a + EffectiveWeight(s)
    BY <1>1, <1>3, CumulativeFacts
  <1>5. Cardinality({p \in 0 .. TotalWeight(pool) - 1 : WeightedAt(pool, p) = s})
        = Cardinality(a .. b - 1)
    BY <1>1, PointsOf
  <1> HIDE DEF a, b
  <1> DEFINE d == b - 1
  <1>6. Cardinality(a .. b - 1) = IF a > b - 1 THEN 0 ELSE (b - 1) - a + 1
    <2>1. a \in Int /\ d \in Int
      BY <1>4
    <2> HIDE DEF d
    <2>2. Cardinality(a .. d) = IF a > d THEN 0 ELSE d - a + 1
      BY <2>1, FS_Interval
    <2> QED BY <2>2 DEF d
  <1>7. EffectiveWeight(s) \in Nat \ {0} /\ EffectiveWeight(s) = IF WeightOf[s] > 0 THEN WeightOf[s] ELSE 1
    BY <1>2, WeightType
  <1>8. Cardinality(a .. b - 1) = EffectiveWeight(s)
    BY <1>4, <1>6, <1>7
  <1> QED BY <1>5, <1>7, <1>8

IsLowest(f, servers, data) ==
    f = [i \in 1 .. Len(servers) |->
            IF i = 1 THEN servers[1]
            ELSE LET low == f[i - 1]
                 IN  IF data[servers[i]].latency < data[low].latency THEN servers[i] ELSE low]

\* A data structure that has a latency for every server of a sequence.
HasLatencies(servers, data) == \A s \in ToSet(servers) : data[s].latency \in Nat

\* The choice of selectLowestLatency.
LEMMA LowestFacts ==
  ASSUME NEW servers \in Seq(Server), servers # <<>>, NEW data, HasLatencies(servers, data)
  PROVE  /\ SelectLowestLatency(servers, data) \in ToSet(servers)
         /\ \A s \in ToSet(servers) :
               data[SelectLowestLatency(servers, data)].latency <= data[s].latency
  <1> DEFINE n == Len(servers)
  <1> DEFINE V == ToSet(servers)
  <1> DEFINE f == CHOOSE g : IsLowest(g, servers, data)
  <1> DEFINE h == [x \in (1 + 1 .. n) \X V |->
                      IF data[servers[x[1]]].latency < data[x[2]].latency THEN servers[x[1]] ELSE x[2]]
  <1>1. SelectLowestLatency(servers, data) = f[n]
    BY DEF SelectLowestLatency, IsLowest
  <1>2. /\ 1 \in Nat /\ n \in Nat /\ 1 <= n /\ V \subseteq Server
        /\ \A i \in 1 .. n : servers[i] \in V
    BY DEF ToSet
  <1>3. h \in [(1 + 1 .. n) \X V -> V]
    <2>1. ASSUME NEW x \in (1 + 1 .. n) \X V
          PROVE  (IF data[servers[x[1]]].latency < data[x[2]].latency THEN servers[x[1]] ELSE x[2]) \in V
      <3>1. x[1] \in 1 .. n /\ x[2] \in V
        BY <1>2
      <3> HIDE DEF V, n
      <3> QED BY <1>2, <3>1
    <2> HIDE DEF V, n
    <2> QED BY <2>1
  <1>4. PICK g : IsLoop(g, 1, n, V, servers[1], h)
    <2>1. servers[1] \in V
      BY <1>2
    <2> HIDE DEF n, h, V
    <2> QED BY <1>2, <1>3, <2>1, LoopExists
  <1>5. g \in [1 .. n -> V] /\ g[1] = servers[1]
    BY <1>4 DEF IsLoop
  <1>6. ASSUME NEW i \in 2 .. n
        PROVE  g[i] = IF data[servers[i]].latency < data[g[i - 1]].latency THEN servers[i] ELSE g[i - 1]
    <2>1. i \in 1 + 1 .. n /\ i - 1 \in 1 .. n
      BY <1>2
    <2>2. g[i] = h[<<i, g[i - 1]>>]
      BY <1>4, <2>1 DEF IsLoop
    <2>3. <<i, g[i - 1]>> \in (1 + 1 .. n) \X V
      BY <1>5, <2>1
    <2> HIDE DEF V
    <2> QED BY <2>2, <2>3
  <1>7. IsLowest(g, servers, data)
    <2>1. \A i \in 1 .. n : i # 1 => i \in 2 .. n
      BY <1>2
    <2>2. \A i \in 1 .. n :
             g[i] = IF i = 1 THEN servers[1]
                    ELSE LET low == g[i - 1]
                         IN  IF data[servers[i]].latency < data[low].latency THEN servers[i] ELSE low
      <3> HIDE DEF n, V
      <3> QED BY <1>5, <1>6, <2>1
    <2> QED BY <1>5, <2>2 DEF IsLowest
  <1>8. IsLowest(f, servers, data)
    BY <1>7
  <1> HIDE DEF f
  <1>9. /\ f[1] = servers[1]
        /\ \A i \in 2 .. n :
              f[i] = IF data[servers[i]].latency < data[f[i - 1]].latency THEN servers[i] ELSE f[i - 1]
    <2>1. 1 \in 1 .. n /\ \A i \in 2 .. n : i \in 1 .. n /\ i # 1
      BY <1>2
    <2> QED BY <1>8, <2>1 DEF IsLowest
  <1> DEFINE E == {i \in 1 .. n : /\ f[i] \in V
                                  /\ \A j \in 1 .. i : data[f[i]].latency <= data[servers[j]].latency}
  <1>10. 1 \in E
    <2>1. 1 \in 1 .. n /\ servers[1] \in V /\ \A j \in 1 .. 1 : j = 1
      BY <1>2
    <2>2. data[servers[1]].latency \in Nat
      BY <2>1 DEF HasLatencies
    <2>3. data[servers[1]].latency <= data[servers[1]].latency
      BY <2>2
    <2> HIDE DEF V, n
    <2> QED BY <1>9, <2>1, <2>3
  <1>11. ASSUME NEW i \in 1 + 1 .. n, i - 1 \in E PROVE i \in E
    <2>1. i \in 1 .. n /\ i \in 2 .. n /\ \A j \in 1 .. i : j \in 1 .. n /\ (j = i \/ j \in 1 .. i - 1)
      BY <1>2
    <2>2. /\ f[i - 1] \in V
          /\ \A j \in 1 .. i - 1 : data[f[i - 1]].latency <= data[servers[j]].latency
      BY <1>11
    <2>3. /\ data[f[i - 1]].latency \in Nat
          /\ \A j \in 1 .. i : data[servers[j]].latency \in Nat
      BY <1>2, <2>1, <2>2 DEF HasLatencies
    <2>4. f[i] = IF data[servers[i]].latency < data[f[i - 1]].latency THEN servers[i] ELSE f[i - 1]
      BY <1>9, <2>1
    <2>5. f[i] \in V
      <3> HIDE DEF V, n
      <3> QED BY <1>2, <2>1, <2>2, <2>4
    <2>6. i \in 1 .. i
      BY <1>2, <2>1
    <2>7. ASSUME NEW j \in 1 .. i PROVE data[f[i]].latency <= data[servers[j]].latency
      <3> DEFINE l == data[f[i - 1]].latency
      <3> DEFINE p == data[servers[i]].latency
      <3> DEFINE q == data[servers[j]].latency
      <3> DEFINE w == data[f[i]].latency
      <3>1. l \in Nat /\ p \in Nat /\ q \in Nat
        BY <2>3, <2>6
      <3>2. w = IF p < l THEN p ELSE l
        BY <2>4
      <3>3. q = p \/ l <= q
        BY <2>1, <2>2
      <3> HIDE DEF l, p, q, w
      <3>4. w <= q
        BY <3>1, <3>2, <3>3
      <3> QED BY <3>4 DEF w, q
    <2> HIDE DEF V, n
    <2> QED BY <2>1, <2>5, <2>7
  <1>12. \A i \in 1 .. n : i \in E
    <2> HIDE DEF E, n
    <2> QED BY <1>2, <1>10, <1>11, LoopInduction
  <1>13. n \in E
    BY <1>2, <1>12
  <1>14. \A s \in V : \E j \in 1 .. n : servers[j] = s
    BY DEF ToSet
  <1> QED BY <1>1, <1>13, <1>14

-----------------------------------------------------------------------------
(* Turns *)

\* How often s is in a sequence.
Times(chosen, s) == Cardinality({i \in DOMAIN chosen : chosen[i] = s})

\* Of the counter's values below c, how many point at place i of n.
TurnsBelow(c, i, n) == (c \div n) + (IF i - 1 < c % n THEN 1 ELSE 0)

\* The turns are those of the counter's values from start to c, and those before the
\* counter last overflowed, in which the servers differ by one for each overflow.
CountedFrom(start, before, pool, chosen, wraps, c) ==
    /\ start <= c
    /\ \A s, t \in ToSet(pool) : before[s] <= before[t] + wraps
    /\ \A i \in 1 .. Len(pool) :
          Times(chosen, pool[i]) = before[pool[i]] + TurnsBelow(c, i, Len(pool))
                                                   - TurnsBelow(start, i, Len(pool))

Counted(pool, chosen, wraps, c) ==
    \E start \in Nat : \E before \in [ToSet(pool) -> Nat] :
        CountedFrom(start, before, pool, chosen, wraps, c)

LEMMA TimesAppend ==
  ASSUME NEW S, NEW chosen \in Seq(S), NEW x \in S, NEW s
  PROVE  /\ Times(chosen, s) \in Nat
         /\ Times(Append(chosen, x), s) = Times(chosen, s) + (IF x = s THEN 1 ELSE 0)
  <1> DEFINE n == Len(chosen)
  <1> DEFINE A == {i \in DOMAIN chosen : chosen[i] = s}
  <1> DEFINE B == {i \in DOMAIN Append(chosen, x) : Append(chosen, x)[i] = s}
  <1>1. /\ n \in Nat /\ DOMAIN chosen = 1 .. n /\ DOMAIN Append(chosen, x) = 1 .. n + 1
        /\ Append(chosen, x)[n + 1] = x
        /\ \A i \in 1 .. n : Append(chosen, x)[i] = chosen[i]
    OBVIOUS
  <1>2. 1 .. n + 1 = (1 .. n) \cup {n + 1} /\ n + 1 \notin 1 .. n
    BY <1>1
  <1>3. B = IF x = s THEN A \cup {n + 1} ELSE A
    <2> HIDE DEF n
    <2> QED BY <1>1, <1>2
  <1>4. n + 1 \notin A
    BY <1>1, <1>2
  <1>5. IsFiniteSet(A)
    <2>1. IsFiniteSet(1 .. n)
      BY <1>1, FS_Interval
    <2>2. A \subseteq 1 .. n
      BY <1>1
    <2> HIDE DEF A, n
    <2> QED BY <2>1, <2>2, FS_Subset
  <1>6. Times(chosen, s) = Cardinality(A) /\ Times(Append(chosen, x), s) = Cardinality(B)
    BY DEF Times
  <1> HIDE DEF A, B, n
  <1>7. Cardinality(A) \in Nat
    BY <1>5, FS_CardinalityType
  <1>8. CASE x = s
    BY <1>3, <1>4, <1>5, <1>6, <1>7, <1>8, FS_AddElement
  <1>9. CASE x # s
    BY <1>3, <1>6, <1>7, <1>9
  <1> QED BY <1>6, <1>7, <1>8, <1>9

LEMMA TimesEmpty == \A s : Times(<<>>, s) = 0
  <1>1. \A s : {i \in DOMAIN <<>> : <<>>[i] = s} = {}
    OBVIOUS
  <1> QED BY <1>1, FS_EmptySet DEF Times

LEMMA DivMod ==
  ASSUME NEW c \in Nat, NEW n \in Nat \ {0}
  PROVE  c \div n \in Nat /\ c % n \in 0 .. n - 1 /\ c = n * (c \div n) + (c % n)
  <1> DEFINE q == c \div n
  <1>1. q \in Int /\ n * q <= c /\ c < n * (q + 1)
    OBVIOUS
  <1>2. c % n \in 0 .. n - 1
    OBVIOUS
  <1>3. c % n = c - n * q
    OBVIOUS
  <1> HIDE DEF q
  <1>4. q \in Nat
    <2> SUFFICES ASSUME q <= -1 PROVE FALSE
      BY <1>1
    <2>1. -1 - q \in Nat
      BY <1>1
    <2>2. n * (-1 - q) \in Nat
      BY <2>1
    <2>3. n * (-1 - q) = -(n * (q + 1))
      BY <1>1
    <2>4. n * (q + 1) \in Int
      BY <1>1
    <2> QED BY <1>1, <2>2, <2>3, <2>4
  <1>5. n * q \in Int
    BY <1>4
  <1>6. c = n * q + (c % n)
    BY <1>2, <1>3, <1>5
  <1> QED BY <1>2, <1>4, <1>6 DEF q

\* Quotient and remainder are determined by what they are.
LEMMA DivModUnique ==
  ASSUME NEW n \in Nat \ {0}, NEW q \in Nat, NEW r \in 0 .. n - 1, NEW p \in Nat, NEW t \in 0 .. n - 1,
         n * q + r = n * p + t
  PROVE  q = p /\ r = t
  <1>1. ASSUME NEW x \in Nat, NEW y \in Nat, NEW u \in 0 .. n - 1, NEW v \in 0 .. n - 1,
               n * x + u = n * y + v, x < y
        PROVE  FALSE
    <2>1. y - x - 1 \in Nat
      BY <1>1
    <2>2. n * (y - x - 1) \in Nat
      BY <2>1
    <2>3. n * (y - x - 1) = n * y - n * x - n
      OBVIOUS
    <2>4. n * x \in Int /\ n * y \in Int
      OBVIOUS
    <2> QED BY <1>1, <2>2, <2>3, <2>4
  <1>2. q = p
    <2>1. ~(q < p)
      BY <1>1
    <2>2. ~(p < q)
      BY <1>1
    <2> QED BY <2>1, <2>2
  <1>3. n * q \in Int
    OBVIOUS
  <1> QED BY <1>2, <1>3

\* The next value of the counter gives one turn to the place it points at.
LEMMA TurnsNext ==
  ASSUME NEW c \in Nat, NEW n \in Nat \ {0}, NEW i \in 1 .. n
  PROVE  /\ TurnsBelow(c, i, n) \in Nat
         /\ TurnsBelow(c + 1, i, n) = TurnsBelow(c, i, n) + (IF i = (c % n) + 1 THEN 1 ELSE 0)
  <1> DEFINE q == c \div n
  <1> DEFINE r == c % n
  <1> DEFINE p == (c + 1) \div n
  <1> DEFINE t == (c + 1) % n
  <1>1. q \in Nat /\ r \in 0 .. n - 1 /\ c = n * q + r
    BY DivMod
  <1>2. c + 1 \in Nat
    OBVIOUS
  <1>3. p \in Nat /\ t \in 0 .. n - 1 /\ c + 1 = n * p + t
    BY <1>2, DivMod
  <1>4. /\ TurnsBelow(c, i, n) = q + (IF i - 1 < r THEN 1 ELSE 0)
        /\ TurnsBelow(c + 1, i, n) = p + (IF i - 1 < t THEN 1 ELSE 0)
    BY DEF TurnsBelow
  <1> HIDE DEF q, r, p, t
  <1>5. n * q \in Int /\ n * p \in Int
    BY <1>1, <1>3
  <1>6. CASE r + 1 < n
    <2> DEFINE u == r + 1
    <2>1. u \in 0 .. n - 1 /\ n * q + u = n * p + t
      BY <1>1, <1>3, <1>5, <1>6
    <2> HIDE DEF u
    <2>2. q = p /\ u = t
      BY <1>1, <1>3, <2>1, DivModUnique
    <2>3. t = r + 1
      BY <2>2 DEF u
    <2> QED BY <1>1, <1>3, <1>4, <2>2, <2>3 DEF r
  <1>7. CASE r + 1 >= n
    <2> DEFINE v == q + 1
    <2>1. v \in Nat /\ n * v = n * q + n /\ r = n - 1
      BY <1>1, <1>7
    <2>2. 0 \in 0 .. n - 1 /\ n * v + 0 = n * p + t
      BY <1>1, <1>3, <1>5, <2>1
    <2> HIDE DEF v
    <2>3. v = p /\ 0 = t
      BY <1>3, <2>1, <2>2, DivModUnique
    <2>4. p = q + 1
      BY <2>3 DEF v
    <2> QED BY <1>1, <1>3, <1>4, <2>1, <2>3, <2>4 DEF r
  <1> QED BY <1>1, <1>6, <1>7

\* Consecutive values of the counter give no place more than one turn more than another.
LEMMA TurnsDiffer ==
  ASSUME NEW a \in Nat, NEW c \in Nat, NEW n \in Nat \ {0}, NEW i \in 1 .. n, NEW j \in 1 .. n
  PROVE  TurnsBelow(c, i, n) - TurnsBelow(a, i, n) <= TurnsBelow(c, j, n) - TurnsBelow(a, j, n) + 1
  <1> DEFINE q == c \div n
  <1> DEFINE r == c % n
  <1> DEFINE p == a \div n
  <1> DEFINE t == a % n
  <1>1. q \in Nat /\ r \in Int /\ p \in Nat /\ t \in Int
    BY DivMod
  <1>2. /\ TurnsBelow(c, i, n) = q + (IF i - 1 < r THEN 1 ELSE 0)
        /\ TurnsBelow(a, i, n) = p + (IF i - 1 < t THEN 1 ELSE 0)
        /\ TurnsBelow(c, j, n) = q + (IF j - 1 < r THEN 1 ELSE 0)
        /\ TurnsBelow(a, j, n) = p + (IF j - 1 < t THEN 1 ELSE 0)
    BY DEF TurnsBelow
  <1> HIDE DEF q, r, p, t
  <1> QED BY <1>1, <1>2

\* Counted turns are even up to one, and one for each overflow.
LEMMA CountedEven ==
  ASSUME NEW pool \in Seq(Server), NEW chosen \in Seq(Server), NEW wraps \in Nat, NEW c \in Nat,
         Counted(pool, chosen, wraps, c)
  PROVE  \A s, t \in ToSet(pool) :
            /\ Times(chosen, s) \in Nat
            /\ Times(chosen, s) <= Times(chosen, t) + 1 + wraps
  <1> SUFFICES ASSUME NEW s \in ToSet(pool), NEW t \in ToSet(pool)
               PROVE  /\ Times(chosen, s) \in Nat
                      /\ Times(chosen, s) <= Times(chosen, t) + 1 + wraps
    OBVIOUS
  <1> DEFINE n == Len(pool)
  <1>1. PICK i \in 1 .. n : pool[i] = s
    BY DEF ToSet
  <1>2. PICK j \in 1 .. n : pool[j] = t
    BY DEF ToSet
  <1>3. n \in Nat \ {0}
    BY <1>1
  <1>4. PICK start \in Nat, before \in [ToSet(pool) -> Nat] :
           /\ \A x, y \in ToSet(pool) : before[x] <= before[y] + wraps
           /\ \A k \in 1 .. n :
                 Times(chosen, pool[k]) = before[pool[k]] + TurnsBelow(c, k, n) - TurnsBelow(start, k, n)
    BY DEF Counted, CountedFrom
  <1>5. Times(chosen, s) \in Nat /\ Times(chosen, t) \in Nat
    <2>1. s \in Server
      BY <1>1
    <2> QED BY <2>1, TimesAppend
  <1>6. /\ Times(chosen, s) = before[s] + TurnsBelow(c, i, n) - TurnsBelow(start, i, n)
        /\ Times(chosen, t) = before[t] + TurnsBelow(c, j, n) - TurnsBelow(start, j, n)
    BY <1>1, <1>2, <1>4
  <1>7. before[s] \in Nat /\ before[t] \in Nat /\ before[s] <= before[t] + wraps
    BY <1>4
  <1>8. /\ TurnsBelow(c, i, n) \in Nat /\ TurnsBelow(c, j, n) \in Nat
        /\ TurnsBelow(start, i, n) \in Nat /\ TurnsBelow(start, j, n) \in Nat
    BY <1>3, TurnsNext
  <1>9. TurnsBelow(c, i, n) - TurnsBelow(start, i, n) <= TurnsBelow(c, j, n) - TurnsBelow(start, j, n) + 1
    BY <1>3, TurnsDiffer
  <1> DEFINE ts == Times(chosen, s)
  <1> DEFINE tt == Times(chosen, t)
  <1> DEFINE bs == before[s]
  <1> DEFINE bt == before[t]
  <1> DEFINE ci == TurnsBelow(c, i, n)
  <1> DEFINE cj == TurnsBelow(c, j, n)
  <1> DEFINE si == TurnsBelow(start, i, n)
  <1> DEFINE sj == TurnsBelow(start, j, n)
  <1>10. /\ ts \in Nat /\ tt \in Nat /\ bs \in Nat /\ bt \in Nat
         /\ ci \in Nat /\ cj \in Nat /\ si \in Nat /\ sj \in Nat
    BY <1>5, <1>7, <1>8
  <1>11. ts = bs + ci - si /\ tt = bt + cj - sj /\ bs <= bt + wraps /\ ci - si <= cj - sj + 1
    BY <1>6, <1>7, <1>9
  <1> HIDE DEF ts, tt, bs, bt, ci, cj, si, sj
  <1>12. ts <= tt + 1 + wraps
    BY <1>10, <1>11
  <1> QED BY <1>10, <1>12 DEF ts, tt

LEMMA CountedNone ==
  ASSUME NEW pool \in Seq(Server), NEW c \in Nat
  PROVE  Counted(pool, <<>>, 0, c)
  <1> DEFINE before == [s \in ToSet(pool) |-> 0]
  <1>1. before \in [ToSet(pool) -> Nat] /\ \A s, t \in ToSet(pool) : before[s] <= before[t] + 0
    OBVIOUS
  <1>2. ASSUME NEW i \in 1 .. Len(pool)
        PROVE  Times(<<>>, pool[i])
               = before[pool[i]] + TurnsBelow(c, i, Len(pool)) - TurnsBelow(c, i, Len(pool))
    <2>1. before[pool[i]] = 0
      BY DEF ToSet
    <2>2. TurnsBelow(c, i, Len(pool)) \in Nat
      <3>1. Len(pool) \in Nat \ {0}
        OBVIOUS
      <3> QED BY <3>1, TurnsNext
    <2> HIDE DEF before
    <2> QED BY <2>1, <2>2, TimesEmpty
  <1>3. c <= c
    OBVIOUS
  <1> HIDE DEF before
  <1>4. CountedFrom(c, before, pool, <<>>, 0, c)
    BY <1>1, <1>2, <1>3 DEF CountedFrom
  <1> QED BY <1>1, <1>4 DEF Counted

\* A turn.
LEMMA CountedTurn ==
  ASSUME NEW pool \in Seq(Server), pool # <<>>, IsInjective(pool), NEW chosen \in Seq(Server),
         NEW wraps \in Nat, NEW c \in Nat, Counted(pool, chosen, wraps, c)
  PROVE  Counted(pool, Append(chosen, RoundRobin(c, pool)), wraps, c + 1)
  <1> DEFINE n == Len(pool)
  <1> DEFINE x == RoundRobin(c, pool)
  <1> DEFINE k == (c % n) + 1
  <1>1. n \in Nat \ {0} /\ k \in 1 .. n /\ x = pool[k]
    BY TurnInPool DEF RoundRobin
  <1>2. PICK start \in Nat, before \in [ToSet(pool) -> Nat] :
           /\ start <= c
           /\ \A s, t \in ToSet(pool) : before[s] <= before[t] + wraps
           /\ \A i \in 1 .. n :
                 Times(chosen, pool[i]) = before[pool[i]] + TurnsBelow(c, i, n) - TurnsBelow(start, i, n)
    BY DEF Counted, CountedFrom
  <1>3. ASSUME NEW i \in 1 .. n
        PROVE  Times(Append(chosen, x), pool[i])
               = before[pool[i]] + TurnsBelow(c + 1, i, n) - TurnsBelow(start, i, n)
    <2>1. x \in Server /\ pool[i] \in Server /\ pool[i] \in ToSet(pool)
      BY <1>1 DEF ToSet
    <2>2. x = pool[i] <=> i = k
      BY <1>1 DEF IsInjective
    <2>3. /\ Times(chosen, pool[i]) \in Nat
          /\ Times(Append(chosen, x), pool[i])
             = Times(chosen, pool[i]) + (IF x = pool[i] THEN 1 ELSE 0)
      <3> HIDE DEF x
      <3> QED BY <2>1, TimesAppend
    <2>4. /\ TurnsBelow(c, i, n) \in Nat /\ TurnsBelow(start, i, n) \in Nat
          /\ TurnsBelow(c + 1, i, n) = TurnsBelow(c, i, n) + (IF i = k THEN 1 ELSE 0)
      BY <1>1, TurnsNext
    <2>5. before[pool[i]] \in Nat
      BY <2>1
    <2>6. Times(chosen, pool[i]) = before[pool[i]] + TurnsBelow(c, i, n) - TurnsBelow(start, i, n)
      BY <1>2
    <2> DEFINE d == IF i = k THEN 1 ELSE 0
    <2> DEFINE after == Times(Append(chosen, x), pool[i])
    <2> DEFINE so == Times(chosen, pool[i])
    <2> DEFINE b == before[pool[i]]
    <2> DEFINE below == TurnsBelow(c, i, n)
    <2> DEFINE above == TurnsBelow(c + 1, i, n)
    <2> DEFINE first == TurnsBelow(start, i, n)
    <2>7. d \in Nat /\ so \in Nat /\ b \in Nat /\ below \in Nat /\ first \in Nat
      BY <2>3, <2>4, <2>5
    <2>8. after = so + d
      <3> HIDE DEF x, k
      <3> QED BY <2>2, <2>3
    <2>9. above = below + d /\ so = b + below - first
      BY <2>4, <2>6
    <2> HIDE DEF d, after, so, b, below, above, first
    <2>10. after = b + above - first
      BY <2>7, <2>8, <2>9
    <2> QED BY <2>10 DEF after, b, above, first
  <1>4. start <= c + 1
    BY <1>2
  <1> HIDE DEF x, k
  <1>5. Counted(pool, Append(chosen, x), wraps, c + 1)
    BY <1>2, <1>3, <1>4 DEF Counted, CountedFrom
  <1> QED BY <1>5 DEF x

\* An overflow of the counter.
LEMMA CountedWrap ==
  ASSUME NEW pool \in Seq(Server), NEW chosen \in Seq(Server), NEW wraps \in Nat, NEW c \in Nat,
         Counted(pool, chosen, wraps, c)
  PROVE  Counted(pool, chosen, wraps + 1, 0)
  <1> DEFINE before == [s \in ToSet(pool) |-> Times(chosen, s)]
  <1>1. \A s, t \in ToSet(pool) : /\ Times(chosen, s) \in Nat
                                  /\ Times(chosen, s) <= Times(chosen, t) + 1 + wraps
    BY CountedEven
  <1>2. before \in [ToSet(pool) -> Nat]
    BY <1>1
  <1>3. ASSUME NEW s \in ToSet(pool), NEW t \in ToSet(pool)
        PROVE  before[s] <= before[t] + (wraps + 1)
    <2>1. before[s] = Times(chosen, s) /\ before[t] = Times(chosen, t)
      OBVIOUS
    <2> HIDE DEF before
    <2> QED BY <1>1, <2>1
  <1>4. ASSUME NEW i \in 1 .. Len(pool)
        PROVE  Times(chosen, pool[i])
               = before[pool[i]] + TurnsBelow(0, i, Len(pool)) - TurnsBelow(0, i, Len(pool))
    <2>1. before[pool[i]] = Times(chosen, pool[i]) /\ before[pool[i]] \in Nat
      BY <1>2 DEF ToSet
    <2>2. TurnsBelow(0, i, Len(pool)) \in Nat
      <3>1. Len(pool) \in Nat \ {0} /\ 0 \in Nat
        OBVIOUS
      <3> QED BY <3>1, TurnsNext
    <2> HIDE DEF before
    <2> QED BY <2>1, <2>2
  <1>5. 0 \in Nat /\ 0 <= 0
    OBVIOUS
  <1> HIDE DEF before
  <1>6. CountedFrom(0, before, pool, chosen, wraps + 1, 0)
    BY <1>3, <1>4, <1>5 DEF CountedFrom
  <1> QED BY <1>2, <1>5, <1>6 DEF Counted

-----------------------------------------------------------------------------
(* The calls of Route *)

Latencies(pool) == [ToSet(pool) -> [samples : Nat, latency : Nat, stale : BOOLEAN]]

RoutingTypes ==
    /\ RoutingTypeOK
    /\ turns \in [pool : Seq(Server), chosen : Seq(Server), wraps : Nat]

LEMMA PoolTypes ==
  ASSUME NEW pool \in Pools
  PROVE  pool \in Seq(Server) /\ pool # <<>> /\ NoData(pool) \in Latencies(pool)
  BY RoutingAssumption DEF NoPool, NoData, NoDatum, Latencies

LEMMA ClientTypes == NoClient \in Client /\ [NoClient EXCEPT !.known = TRUE] \in Client
  BY RoutingAssumption DEF NoClient, Client

\* A decision has the inputs and the server of its call.
LEMMA Decided ==
  ASSUME RoutingTypes, NEW pool \in Pools, NEW client \in Client, NEW data \in Latencies(pool),
         NEW s \in ToSet(pool), Decide(pool, client, data, s)
  PROVE  /\ decision' # NoDecision
         /\ decision'.pool = pool /\ decision'.client = client
         /\ decision'.data = data /\ decision'.server = s
  <1>1. decision' = [pool |-> pool, client |-> client, data |-> data, server |-> s]
    BY DEF Decide
  <1>2. /\ decision'.pool = pool /\ decision'.client = client
        /\ decision'.data = data /\ decision'.server = s
    BY <1>1
  <1>3. pool # NoPool
    BY PoolTypes DEF NoPool
  <1>4. NoDecision.pool = NoPool
    BY DEF NoDecision
  <1> QED BY <1>2, <1>3, <1>4

LEMMA DecidedTypes ==
  ASSUME RoutingTypes, NEW pool \in Pools, NEW client \in Client, NEW data \in Latencies(pool),
         NEW s \in ToSet(pool), Decide(pool, client, data, s),
         router' \in [algorithm : Algorithm, counter : 0 .. CounterLimit - 1,
                      resolver : BOOLEAN, learned : BOOLEAN],
         turns' \in [pool : Seq(Server), chosen : Seq(Server), wraps : Nat]
  PROVE  RoutingTypes'
  <1>1. /\ decision'.pool = pool /\ decision'.client = client
        /\ decision'.data = data /\ decision'.server = s
    BY Decided
  <1> QED BY <1>1 DEF RoutingTypes, RoutingTypeOK, Latencies

\* A turn is a server of the candidates.
LEMMA TurnFacts ==
  ASSUME RoutingTypes, NEW pool \in Pools, NEW candidates \in Seq(Server), candidates # <<>>,
         ToSet(candidates) \subseteq ToSet(pool), NEW client \in Client, NEW data \in Latencies(pool),
         TakeTurn(pool, candidates, client, data)
  PROVE  /\ RoutingTypes'
         /\ router'.algorithm = router.algorithm /\ router'.resolver = router.resolver
         /\ router'.learned = router.learned
         /\ decision' # NoDecision /\ decision'.pool = pool /\ decision'.client = client
         /\ decision'.data = data /\ decision'.server \in ToSet(candidates)
  <1> DEFINE s == RoundRobin(router.counter, candidates)
  <1> DEFINE w == IF router.counter + 1 = CounterLimit THEN 1 ELSE 0
  <1>1. /\ router \in [algorithm : Algorithm, counter : 0 .. CounterLimit - 1,
                       resolver : BOOLEAN, learned : BOOLEAN]
        /\ turns \in [pool : Seq(Server), chosen : Seq(Server), wraps : Nat]
    BY DEF RoutingTypes, RoutingTypeOK
  <1>2. router.counter \in Nat /\ w \in Nat
    BY <1>1, PoolAssumption
  <1>3. s \in ToSet(candidates) /\ s \in ToSet(pool)
    BY <1>2, TurnInPool
  <1>4. s \in Server
    BY <1>3 DEF ToSet
  <1>5. /\ router' = [router EXCEPT !.counter = NextTurn(@)]
        /\ turns' = IF turns.pool = candidates /\ Len(turns.chosen) < MaxTurns
                    THEN [turns EXCEPT !.chosen = Append(@, s), !.wraps = @ + w]
                    ELSE [pool |-> candidates, chosen |-> <<s>>, wraps |-> w]
        /\ Decide(pool, client, data, s)
    BY DEF TakeTurn
  <1> HIDE DEF s, w
  <1>6. NextTurn(router.counter) \in 0 .. CounterLimit - 1
    BY <1>2, NextTurnType
  <1>7. /\ router' \in [algorithm : Algorithm, counter : 0 .. CounterLimit - 1,
                        resolver : BOOLEAN, learned : BOOLEAN]
        /\ router'.algorithm = router.algorithm /\ router'.resolver = router.resolver
        /\ router'.learned = router.learned
    BY <1>1, <1>5, <1>6
  <1>8. turns' \in [pool : Seq(Server), chosen : Seq(Server), wraps : Nat]
    <2>1. Append(turns.chosen, s) \in Seq(Server) /\ turns.wraps + w \in Nat /\ <<s>> \in Seq(Server)
      BY <1>1, <1>2, <1>4
    <2> QED BY <1>1, <1>2, <1>5, <2>1
  <1>9. RoutingTypes'
    BY <1>3, <1>5, <1>7, <1>8, DecidedTypes
  <1> QED BY <1>3, <1>5, <1>7, <1>9, Decided

\* The region that the resolver answers with, and the servers geolocation prefers.
LEMMA GeoFacts ==
  ASSUME NEW pool \in Pools, NEW client \in Client
  PROVE  /\ GeoPool(pool, client) \in Seq(Server) /\ GeoPool(pool, client) # <<>>
         /\ ToSet(GeoPool(pool, client)) \subseteq ToSet(pool)
         /\ IsInjective(pool) => IsInjective(GeoPool(pool, client))
         /\ (\E s \in ToSet(pool) : RegionOf[s] = Resolve(client)) =>
               \A s \in ToSet(GeoPool(pool, client)) : RegionOf[s] = Resolve(client)
         /\ (\E s \in ToSet(pool) : RegionOf[s] = NoRegion) =>
               \A s \in ToSet(GeoPool(pool, client)) : RegionOf[s] \in {Resolve(client), NoRegion}
  <1> DEFINE At(r) == {s \in Server : RegionOf[s] = r}
  <1> DEFINE near == Keep(pool, At(Resolve(client)))
  <1> DEFINE default == Keep(pool, At(NoRegion))
  <1>1. pool \in Seq(Server) /\ pool # <<>> /\ ToSet(pool) \subseteq Server
    BY PoolTypes DEF ToSet
  <1>2. GeoPool(pool, client) = IF near # <<>> THEN near
                                ELSE IF Resolve(client) # NoRegion /\ default # <<>> THEN default
                                ELSE pool
    BY DEF GeoPool, FilterByRegion, RouterDefaultRegion, NoPool
  <1>3. /\ near \in Seq(Server) /\ ToSet(near) = ToSet(pool) \cap At(Resolve(client))
        /\ IsInjective(pool) => IsInjective(near)
    BY <1>1, KeepFacts
  <1>4. /\ default \in Seq(Server) /\ ToSet(default) = ToSet(pool) \cap At(NoRegion)
        /\ IsInjective(pool) => IsInjective(default)
    BY <1>1, KeepFacts
  <1>5. \A q \in Seq(Server) : q = <<>> => ToSet(q) = {}
    BY EmptyToSet
  <1> HIDE DEF near, default
  <1>6. near = <<>> => ~\E s \in ToSet(pool) : RegionOf[s] = Resolve(client)
    BY <1>1, <1>3, <1>5
  <1>7. default = <<>> => ~\E s \in ToSet(pool) : RegionOf[s] = NoRegion
    BY <1>1, <1>4, <1>5
  <1>8. CASE near # <<>>
    BY <1>2, <1>3, <1>8
  <1>9. CASE near = <<>> /\ Resolve(client) # NoRegion /\ default # <<>>
    BY <1>2, <1>4, <1>6, <1>9
  <1>10. CASE near = <<>> /\ ~(Resolve(client) # NoRegion /\ default # <<>>)
    BY <1>1, <1>2, <1>6, <1>7, <1>10
  <1> QED BY <1>8, <1>9, <1>10

\* The order of the resolver's sources.
LEMMA HomeIsResolved ==
  ASSUME NEW c \in Client, NEW sources, NEW known,
         sources = <<c.custom, c.country, c.continent, DefaultRegion>>,
         known = {i \in 1 .. 4 : sources[i] # NoRegion}
  PROVE  Resolve(c) = IF known = {} THEN NoRegion ELSE sources[Min(known)]
  <1>1. known \subseteq Nat /\ known \subseteq {1, 2, 3, 4}
    OBVIOUS
  <1>2. /\ sources[1] = c.custom /\ sources[2] = c.country
        /\ sources[3] = c.continent /\ sources[4] = DefaultRegion
    OBVIOUS
  <1>3. /\ 1 \in known <=> c.custom # NoRegion
        /\ 2 \in known <=> c.country # NoRegion
        /\ 3 \in known <=> c.continent # NoRegion
        /\ 4 \in known <=> DefaultRegion # NoRegion
    BY <1>2
  <1>4. known # {} => Min(known) \in known /\ \A i \in known : Min(known) <= i
    BY <1>1, HasMin
  <1> DEFINE first == Min(known)
  <1>5. known # {} => first \in {1, 2, 3, 4} /\ first \in known /\ \A i \in known : first <= i
    BY <1>1, <1>4
  <1> HIDE DEF first
  <1>6. CASE c.custom # NoRegion
    <2>1. first = 1
      BY <1>3, <1>5, <1>6
    <2> QED BY <1>2, <1>3, <1>6, <2>1 DEF Resolve, first
  <1>7. CASE c.custom = NoRegion /\ c.country # NoRegion
    <2>1. first = 2
      BY <1>3, <1>5, <1>7
    <2> QED BY <1>2, <1>3, <1>7, <2>1 DEF Resolve, first
  <1>8. CASE c.custom = NoRegion /\ c.country = NoRegion /\ c.continent # NoRegion
    <2>1. first = 3
      BY <1>3, <1>5, <1>8
    <2> QED BY <1>2, <1>3, <1>8, <2>1 DEF Resolve, first
  <1>9. CASE c.custom = NoRegion /\ c.country = NoRegion /\ c.continent = NoRegion
    <2>1. Resolve(c) = DefaultRegion
      BY <1>9 DEF Resolve
    <2>2. CASE DefaultRegion = NoRegion
      <3>1. known = {}
        BY <1>1, <1>3, <1>9, <2>2
      <3> QED BY <2>1, <2>2, <3>1
    <2>3. CASE DefaultRegion # NoRegion
      <3>1. first = 4
        BY <1>3, <1>5, <1>9, <2>3
      <3> QED BY <1>2, <1>3, <2>1, <2>3, <3>1 DEF first
    <2> QED BY <2>2, <2>3
  <1> QED BY <1>6, <1>7, <1>8, <1>9

\* The threshold drops no server that is faster than one it keeps.
LEMMA ThresholdFacts ==
  ASSUME NEW usable \in Seq(Server), usable # <<>>, NEW data, HasLatencies(usable, data)
  PROVE  /\ SelectLowestLatency(WithinThreshold(usable, data), data) \in ToSet(usable)
         /\ \A s \in ToSet(usable) :
               data[SelectLowestLatency(WithinThreshold(usable, data), data)].latency <= data[s].latency
  <1> DEFINE low == {s \in ToSet(usable) : data[s].latency <= MaxLatency}
  <1> DEFINE within == Keep(usable, low)
  <1> DEFINE w == WithinThreshold(usable, data)
  <1>1. w = IF MaxLatency > 0 /\ within # <<>> THEN within ELSE usable
    BY DEF WithinThreshold, NoPool
  <1>2. within \in Seq(Server) /\ ToSet(within) = low
    <2>1. low \subseteq ToSet(usable)
      OBVIOUS
    <2> HIDE DEF low
    <2> QED BY <2>1, KeepFacts
  <1> HIDE DEF within, w
  <1>3. w \in Seq(Server) /\ w # <<>> /\ ToSet(w) \subseteq ToSet(usable)
    BY <1>1, <1>2
  <1>4. HasLatencies(w, data)
    BY <1>3 DEF HasLatencies
  <1> DEFINE x == SelectLowestLatency(w, data)
  <1>5. x \in ToSet(w) /\ \A s \in ToSet(w) : data[x].latency <= data[s].latency
    BY <1>3, <1>4, LowestFacts
  <1>6. x \in ToSet(usable)
    BY <1>3, <1>5
  <1> HIDE DEF x
  <1>7. ASSUME NEW s \in ToSet(usable), s \notin ToSet(w) PROVE data[x].latency <= data[s].latency
    <2>1. w = within
      BY <1>1, <1>7
    <2>2. data[x].latency <= MaxLatency /\ ~(data[s].latency <= MaxLatency)
      BY <1>2, <1>5, <1>7, <2>1
    <2>3. data[x].latency \in Nat /\ data[s].latency \in Nat /\ MaxLatency \in Nat
      BY <1>6, RoutingAssumption DEF HasLatencies
    <2> QED BY <2>2, <2>3
  <1> QED BY <1>5, <1>6, <1>7 DEF x, w

\* A call of one of the two latency routers.
LEMMA LowestStep ==
  ASSUME RoutingTypes, NEW pool \in Pools, NEW client \in Client, NEW data \in Latencies(pool),
         NEW U, NEW usable, usable = <<>> \/ usable = Keep(pool, U),
         RouteLowest(pool, usable, client, data)
  PROVE  /\ RoutingTypes'
         /\ router'.algorithm = router.algorithm /\ router'.resolver = router.resolver
         /\ router'.learned = router.learned
         /\ decision' # NoDecision /\ decision'.pool = pool /\ decision'.client = client
         /\ decision'.data = data
         /\ ToSet(usable) # {} => decision'.server \in ToSet(usable)
         /\ \A s \in ToSet(usable) : data[decision'.server].latency <= data[s].latency
  <1>1. pool \in Seq(Server) /\ pool # <<>>
    BY PoolTypes
  <1>2. usable \in Seq(Server) /\ ToSet(usable) \subseteq ToSet(pool)
    <2>1. CASE usable = <<>>
      <3>1. ToSet(usable) = {}
        BY <2>1, EmptyToSet
      <3> QED BY <2>1, <3>1
    <2>2. CASE usable = Keep(pool, U)
      <3>1. Keep(pool, U) \in Seq(Server) /\ ToSet(Keep(pool, U)) = ToSet(pool) \cap U
        BY <1>1, KeepFacts
      <3> QED BY <2>2, <3>1
    <2> QED BY <2>1, <2>2
  <1>3. CASE usable = NoPool /\ TakeTurn(pool, pool, client, data)
    <2>1. ToSet(usable) = {}
      BY <1>3, EmptyToSet DEF NoPool
    <2> QED BY <1>1, <1>3, <2>1, TurnFacts
  <1>4. CASE /\ usable # NoPool
             /\ Decide(pool, client, data, SelectLowestLatency(WithinThreshold(usable, data), data))
             /\ UNCHANGED <<router, turns>>
    <2> DEFINE x == SelectLowestLatency(WithinThreshold(usable, data), data)
    <2>1. HasLatencies(usable, data)
      BY <1>2 DEF HasLatencies, Latencies
    <2>2. x \in ToSet(usable) /\ \A s \in ToSet(usable) : data[x].latency <= data[s].latency
      BY <1>2, <1>4, <2>1, ThresholdFacts DEF NoPool
    <2>3. x \in ToSet(pool)
      BY <1>2, <2>2
    <2> HIDE DEF x
    <2>4. Decide(pool, client, data, x)
      BY <1>4 DEF x
    <2>5. /\ decision' # NoDecision /\ decision'.pool = pool /\ decision'.client = client
          /\ decision'.data = data /\ decision'.server = x
      BY <2>3, <2>4, Decided
    <2>6. /\ router' \in [algorithm : Algorithm, counter : 0 .. CounterLimit - 1,
                          resolver : BOOLEAN, learned : BOOLEAN]
          /\ turns' \in [pool : Seq(Server), chosen : Seq(Server), wraps : Nat]
          /\ router' = router
      BY <1>4 DEF RoutingTypes, RoutingTypeOK
    <2>7. RoutingTypes'
      BY <2>3, <2>4, <2>6, DecidedTypes
    <2> QED BY <2>2, <2>5, <2>6, <2>7
  <1> QED BY <1>3, <1>4 DEF RouteLowest

\* The fastest of the usable servers, whether it is within the threshold or not.
FastestOfUsable ==
    (/\ decision # NoDecision
     /\ router.algorithm \in {"latency", "learned_latency"}
     /\ \E s \in ToSet(decision.pool) : Usable(s)) =>
    /\ Usable(decision.server)
    /\ \A s \in ToSet(decision.pool) : Usable(s) =>
          decision.data[decision.server].latency <= decision.data[s].latency

\* What the routers decide, in every state.
RoutingIInv == RoutingTypes /\ NearestRegion /\ FastestOfUsable

\* Between two calls, and for the other algorithms, two invariants say nothing.
LEMMA NothingDecided ==
  ASSUME RoutingTypes',
         decision' = NoDecision \/ router'.algorithm \notin {"geolocation", "latency", "learned_latency"}
  PROVE  RoutingIInv'
  <1>1. NearestRegion'
    BY DEF NearestRegion
  <1>2. FastestOfUsable'
    BY DEF FastestOfUsable, Usable
  <1> QED BY <1>1, <1>2 DEF RoutingIInv

LEMMA RoutingInitIInv == RoutingInit => RoutingIInv
  <1> SUFFICES ASSUME RoutingInit PROVE RoutingIInv
    OBVIOUS
  <1>1. PICK a \in Algorithm, b \in BOOLEAN, c \in BOOLEAN : router = NewRouter(a, b, c)
    BY DEF RoutingInit
  <1>2. router \in [algorithm : Algorithm, counter : 0 .. CounterLimit - 1,
                    resolver : BOOLEAN, learned : BOOLEAN]
    BY <1>1, PoolAssumption DEF NewRouter
  <1>3. decision = NoDecision /\ turns = NoTurns
    BY DEF RoutingInit
  <1>4. RoutingTypes
    BY <1>2, <1>3 DEF RoutingTypes, RoutingTypeOK, NoTurns, NoPool
  <1>5. NearestRegion
    BY <1>3 DEF NearestRegion
  <1>6. FastestOfUsable
    BY <1>3 DEF FastestOfUsable, Usable
  <1> QED BY <1>4, <1>5, <1>6 DEF RoutingIInv

\* The algorithms that look at neither the client nor the latencies.
LEMMA PlainStep ==
  ASSUME RoutingIInv, NEW pool \in Pools,
         RouteRoundRobin(pool) \/ RouteWeighted(pool) \/ RouteFailover(pool)
  PROVE  RoutingIInv'
  <1>1. RoutingTypes
    BY DEF RoutingIInv
  <1>2. pool \in Seq(Server) /\ pool # <<>> /\ NoData(pool) \in Latencies(pool) /\ NoClient \in Client
    BY PoolTypes, ClientTypes
  <1>3. CASE RouteRoundRobin(pool)
    <2>1. TakeTurn(pool, pool, NoClient, NoData(pool)) /\ router.algorithm = "round_robin"
      BY <1>3 DEF RouteRoundRobin, Called
    <2>2. RoutingTypes' /\ router'.algorithm = "round_robin"
      BY <1>1, <1>2, <2>1, TurnFacts
    <2> QED BY <2>2, NothingDecided
  <1>4. ASSUME NEW s \in ToSet(pool), Decide(pool, NoClient, NoData(pool), s),
               UNCHANGED <<router, turns>>, router.algorithm \in {"weighted", "failover"}
        PROVE  RoutingIInv'
    <2>1. /\ router' \in [algorithm : Algorithm, counter : 0 .. CounterLimit - 1,
                          resolver : BOOLEAN, learned : BOOLEAN]
          /\ turns' \in [pool : Seq(Server), chosen : Seq(Server), wraps : Nat]
          /\ router'.algorithm \in {"weighted", "failover"}
      BY <1>1, <1>4 DEF RoutingTypes, RoutingTypeOK
    <2>2. RoutingTypes'
      BY <1>1, <1>2, <1>4, <2>1, DecidedTypes
    <2> QED BY <2>1, <2>2, NothingDecided
  <1>5. CASE RouteWeighted(pool)
    <2>1. PICK p \in 0 .. TotalWeight(pool) - 1 :
             Decide(pool, NoClient, NoData(pool), WeightedAt(pool, p))
      BY <1>5 DEF RouteWeighted
    <2>2. WeightedAt(pool, p) \in ToSet(pool)
      BY <1>2, WeightedInPool
    <2>3. UNCHANGED <<router, turns>> /\ router.algorithm = "weighted"
      BY <1>5 DEF RouteWeighted, Called
    <2> QED BY <1>4, <2>1, <2>2, <2>3
  <1>6. CASE RouteFailover(pool)
    <2>1. Failover(pool) \in ToSet(pool)
      BY <1>2 DEF Failover, ToSet
    <2>2. /\ Decide(pool, NoClient, NoData(pool), Failover(pool))
          /\ UNCHANGED <<router, turns>> /\ router.algorithm = "failover"
      BY <1>6 DEF RouteFailover, Called
    <2> QED BY <1>4, <2>1, <2>2
  <1> QED BY <1>3, <1>5, <1>6

LEMMA GeoStep == ASSUME RoutingIInv, NEW pool \in Pools, RouteGeo(pool) PROVE RoutingIInv'
  <1>1. RoutingTypes
    BY DEF RoutingIInv
  <1>2. pool \in Seq(Server) /\ pool # <<>> /\ NoData(pool) \in Latencies(pool)
    BY PoolTypes
  <1>3. router.algorithm = "geolocation"
    BY DEF RouteGeo, Called
  <1>4. PICK client \in {c \in Client : c.known} \cup {NoClient} :
           TakeTurn(pool, IF client.known /\ router.resolver THEN GeoPool(pool, client) ELSE pool,
                    client, NoData(pool))
    BY DEF RouteGeo
  <1>5. client \in Client
    BY ClientTypes
  <1> DEFINE pref == IF client.known /\ router.resolver THEN GeoPool(pool, client) ELSE pool
  <1>6. pref \in Seq(Server) /\ pref # <<>> /\ ToSet(pref) \subseteq ToSet(pool)
    BY <1>2, <1>5, GeoFacts
  <1>7. TakeTurn(pool, pref, client, NoData(pool))
    BY <1>4
  <1>8. pref = IF client.known /\ router.resolver THEN GeoPool(pool, client) ELSE pool
    OBVIOUS
  <1> HIDE DEF pref
  <1>9. /\ RoutingTypes'
        /\ router'.algorithm = router.algorithm /\ router'.resolver = router.resolver
        /\ decision' # NoDecision /\ decision'.pool = pool /\ decision'.client = client
        /\ decision'.server \in ToSet(pref)
    BY <1>1, <1>2, <1>5, <1>6, <1>7, TurnFacts
  <1>10. NearestRegion'
    <2> DEFINE sources == <<client.custom, client.country, client.continent, DefaultRegion>>
    <2> DEFINE known == {i \in 1 .. 4 : sources[i] # NoRegion}
    <2> DEFINE home == IF known = {} THEN NoRegion ELSE sources[Min(known)]
    <2> DEFINE Distance(s) == CASE RegionOf[s] = home -> 0
                                [] RegionOf[s] # home /\ RegionOf[s] = NoRegion -> 1
                                [] OTHER -> 2
    <2>1. home = Resolve(client)
      <3>1. sources = <<client.custom, client.country, client.continent, DefaultRegion>>
        OBVIOUS
      <3>2. known = {i \in 1 .. 4 : sources[i] # NoRegion}
        OBVIOUS
      <3> HIDE DEF sources, known
      <3> QED BY <1>5, <3>1, <3>2, HomeIsResolved
    <2> SUFFICES ASSUME router.resolver, client.known
                 PROVE  \A s \in ToSet(pool) : Distance(decision'.server) <= Distance(s)
      BY <1>9 DEF NearestRegion
    <2> HIDE DEF home
    <2> TAKE s \in ToSet(pool)
    <2> DEFINE d == decision'.server
    <2>2. /\ RegionOf[s] = Resolve(client) => RegionOf[d] = Resolve(client)
          /\ RegionOf[s] = NoRegion => RegionOf[d] \in {Resolve(client), NoRegion}
      BY <1>5, <1>8, <1>9, GeoFacts
    <2> HIDE DEF d
    <2>3. Distance(d) <= Distance(s)
      BY <2>1, <2>2
    <2> QED BY <2>3 DEF d
  <1>11. FastestOfUsable'
    BY <1>3, <1>9 DEF FastestOfUsable, Usable
  <1> QED BY <1>9, <1>10, <1>11 DEF RoutingIInv

LEMMA LatencyStep == ASSUME RoutingIInv, NEW pool \in Pools, RouteLatency(pool) PROVE RoutingIInv'
  <1>1. RoutingTypes /\ router.algorithm = "latency"
    BY DEF RoutingIInv, RouteLatency, Called
  <1>2. PICK data \in [ToSet(pool) -> Datum] : RouteLowest(pool, WithLatency(pool, data), NoClient, data)
    BY DEF RouteLatency
  <1>3. data \in Latencies(pool) /\ NoClient \in Client
    BY RoutingAssumption, ClientTypes DEF Latencies
  <1> DEFINE U == {s \in ToSet(pool) : data[s].samples >= MinSamples}
  <1> DEFINE usable == Keep(pool, U)
  <1>4. RouteLowest(pool, usable, NoClient, data)
    BY <1>2 DEF WithLatency
  <1>5. ToSet(usable) = U
    <2>1. pool \in Seq(Server) /\ U \subseteq ToSet(pool)
      BY PoolTypes
    <2> HIDE DEF U
    <2> QED BY <2>1, KeepFacts
  <1>6. usable = <<>> \/ usable = Keep(pool, U)
    OBVIOUS
  <1> HIDE DEF U, usable
  <1>7. /\ RoutingTypes' /\ router'.algorithm = "latency"
        /\ decision' # NoDecision /\ decision'.pool = pool /\ decision'.data = data
        /\ ToSet(usable) # {} => decision'.server \in ToSet(usable)
        /\ \A s \in ToSet(usable) : data[decision'.server].latency <= data[s].latency
    BY <1>1, <1>3, <1>4, <1>6, LowestStep
  <1>8. FastestOfUsable'
    BY <1>5, <1>7 DEF FastestOfUsable, Usable, U
  <1>9. NearestRegion'
    BY <1>7 DEF NearestRegion
  <1> QED BY <1>7, <1>8, <1>9 DEF RoutingIInv

LEMMA LearnedStep ==
  ASSUME RoutingIInv, NEW pool \in Pools, RouteLearnedLatency(pool) PROVE RoutingIInv'
  <1>1. RoutingTypes /\ router.algorithm = "learned_latency"
    BY DEF RoutingIInv, RouteLearnedLatency, Called
  <1>2. PICK client \in {NoClient, [NoClient EXCEPT !.known = TRUE]}, learned \in [Region -> Datum] :
           RouteLowest(pool, IF client.known /\ router.learned
                             THEN WithLearnedLatency(pool, LearnedData(pool, learned)) ELSE NoPool,
                       client, LearnedData(pool, learned))
    BY DEF RouteLearnedLatency
  <1>3. client \in Client
    BY ClientTypes
  <1>4. LearnedData(pool, learned) \in Latencies(pool)
    <2>1. ASSUME NEW s \in ToSet(pool)
          PROVE  (IF RegionOf[s] = NoRegion THEN NoDatum ELSE learned[RegionOf[s]])
                 \in [samples : Nat, latency : Nat, stale : BOOLEAN]
      <3>1. s \in Server
        BY PoolTypes DEF ToSet
      <3>2. NoDatum \in [samples : Nat, latency : Nat, stale : BOOLEAN]
        BY DEF NoDatum
      <3>3. RegionOf[s] \in Region \cup {NoRegion}
        BY <3>1, RoutingAssumption
      <3>4. RegionOf[s] # NoRegion => learned[RegionOf[s]] \in [samples : Nat, latency : Nat, stale : BOOLEAN]
        BY <3>3, RoutingAssumption
      <3> QED BY <3>2, <3>4
    <2> QED BY <2>1 DEF LearnedData, Latencies
  <1> DEFINE data == LearnedData(pool, learned)
  <1> DEFINE U == {s \in ToSet(pool) : /\ RegionOf[s] # NoRegion
                                       /\ data[s].samples >= MinSamples
                                       /\ ~data[s].stale}
  <1> DEFINE usable == IF client.known /\ router.learned THEN Keep(pool, U) ELSE <<>>
  <1>5. RouteLowest(pool, usable, client, data)
    BY <1>2 DEF WithLearnedLatency, NoPool
  <1>6. \A s : s \in ToSet(usable) <=> s \in U /\ client.known /\ router.learned
    <2>1. pool \in Seq(Server) /\ U \subseteq ToSet(pool)
      BY PoolTypes
    <2> HIDE DEF U
    <2>2. ToSet(Keep(pool, U)) = U
      BY <2>1, KeepFacts
    <2> QED BY <2>2, EmptyToSet
  <1>7. usable = <<>> \/ usable = Keep(pool, U)
    OBVIOUS
  <1>8. data \in Latencies(pool)
    BY <1>4
  <1> HIDE DEF U, usable, data
  <1>9. /\ RoutingTypes' /\ router'.algorithm = "learned_latency" /\ router'.learned = router.learned
        /\ decision' # NoDecision /\ decision'.pool = pool /\ decision'.data = data
        /\ decision'.client = client
        /\ ToSet(usable) # {} => decision'.server \in ToSet(usable)
        /\ \A s \in ToSet(usable) : data[decision'.server].latency <= data[s].latency
    BY <1>1, <1>3, <1>5, <1>7, <1>8, LowestStep
  <1>10. \A s : s \in ToSet(usable) <=>
             /\ s \in ToSet(pool)
             /\ data[s].samples >= MinSamples
             /\ router.learned /\ client.known
             /\ RegionOf[s] # NoRegion /\ ~data[s].stale
    BY <1>6 DEF U
  <1>11. FastestOfUsable'
    BY <1>9, <1>10 DEF FastestOfUsable, Usable
  <1>12. NearestRegion'
    BY <1>9 DEF NearestRegion
  <1> QED BY <1>9, <1>11, <1>12 DEF RoutingIInv

LEMMA RoutingStepIInv == RoutingIInv /\ [RoutingNext]_routingVars => RoutingIInv'
  <1> SUFFICES ASSUME RoutingIInv, [RoutingNext]_routingVars PROVE RoutingIInv'
    OBVIOUS
  <1>1. CASE UNCHANGED routingVars
    <2>1. RoutingTypes'
      BY <1>1 DEF routingVars, RoutingIInv, RoutingTypes, RoutingTypeOK
    <2>2. NearestRegion'
      BY <1>1 DEF routingVars, RoutingIInv, NearestRegion
    <2>3. FastestOfUsable'
      BY <1>1 DEF routingVars, RoutingIInv, FastestOfUsable, Usable
    <2> QED BY <2>1, <2>2, <2>3 DEF RoutingIInv
  <1>2. CASE \E pool \in Pools : RouteRoundRobin(pool) \/ RouteWeighted(pool) \/ RouteFailover(pool)
    BY <1>2, PlainStep
  <1>3. CASE \E pool \in Pools : RouteGeo(pool)
    BY <1>3, GeoStep
  <1>4. CASE \E pool \in Pools : RouteLatency(pool)
    BY <1>4, LatencyStep
  <1>5. CASE \E pool \in Pools : RouteLearnedLatency(pool)
    BY <1>5, LearnedStep
  <1>6. CASE Return
    <2>1. RoutingTypes' /\ decision' = NoDecision
      BY <1>6 DEF RoutingIInv, Return, RoutingTypes, RoutingTypeOK
    <2> QED BY <2>1, NothingDecided
  <1>7. CASE \E a \in Algorithm : ReplaceRouter(a)
    <2>1. PICK a \in Algorithm : ReplaceRouter(a)
      BY <1>7
    <2>2. router.resolver \in BOOLEAN
      BY DEF RoutingIInv, RoutingTypes, RoutingTypeOK
    <2>3. router' \in [algorithm : Algorithm, counter : 0 .. CounterLimit - 1,
                       resolver : BOOLEAN, learned : BOOLEAN]
      BY <2>1, <2>2, PoolAssumption DEF ReplaceRouter, NewRouter
    <2>4. decision' = NoDecision /\ turns' = NoTurns
      BY <2>1 DEF ReplaceRouter
    <2>5. RoutingTypes'
      BY <2>3, <2>4 DEF RoutingTypes, RoutingTypeOK, NoTurns, NoPool
    <2> QED BY <2>4, <2>5, NothingDecided
  <1> QED BY <1>1, <1>2, <1>3, <1>4, <1>5, <1>6, <1>7 DEF RoutingNext

\* Router, decision and turns are well typed; in particular every router returns a
\* server of the pool it was given, for any pools, weights, regions and latencies.
THEOREM RoutingTyped == RoutingSpec => []RoutingTypeOK
  <1>1. RoutingIInv => RoutingTypeOK
    BY DEF RoutingIInv, RoutingTypes
  <1> QED BY <1>1, RoutingInitIInv, RoutingStepIInv, PTL DEF RoutingSpec

\* GeoRouter.Route returns a server of the most specific region that the resolver's
\* sources know, and falls back on one without a region before any other.
THEOREM NearestWins == RoutingSpec => []NearestRegion
  <1>1. RoutingIInv => NearestRegion
    BY DEF RoutingIInv
  <1> QED BY <1>1, RoutingInitIInv, RoutingStepIInv, PTL DEF RoutingSpec

\* LatencyRouter.Route and LearnedLatencyRouter.Route return, if there is one, a server
\* with enough data of the right age that is within the threshold, and none such is
\* faster, whatever the order of the pool.
THEOREM FastestWins == RoutingSpec => []LowestLatency
  <1>1. RoutingIInv => LowestLatency
    <2> SUFFICES ASSUME RoutingIInv, decision # NoDecision,
                        router.algorithm \in {"latency", "learned_latency"},
                        NEW t \in ToSet(decision.pool), Eligible(t)
                 PROVE  /\ Eligible(decision.server)
                        /\ \A s \in ToSet(decision.pool) : Eligible(s) =>
                              decision.data[decision.server].latency <= decision.data[s].latency
      BY DEF LowestLatency
    <2>1. /\ Usable(decision.server)
          /\ \A s \in ToSet(decision.pool) : Usable(s) =>
                decision.data[decision.server].latency <= decision.data[s].latency
      BY DEF RoutingIInv, FastestOfUsable, Eligible
    <2>2. decision.server \in ToSet(decision.pool)
          /\ \A s \in ToSet(decision.pool) : decision.data[s].latency \in Nat
      BY DEF RoutingIInv, RoutingTypes, RoutingTypeOK
    <2>3. decision.data[decision.server].latency <= decision.data[t].latency
      BY <2>1 DEF Eligible
    <2> QED BY <2>1, <2>2, <2>3, RoutingAssumption DEF Eligible
  <1> QED BY <1>1, RoutingInitIInv, RoutingStepIInv, PTL DEF RoutingSpec

-----------------------------------------------------------------------------
(* Pools without repetitions, which a query gives to its router by PoolsFair *)

DistinctPools == \A pool \in Pools : IsInjective(pool)

\* The remembered turns are those that the counter took.
TurnsCounted ==
    /\ IsInjective(turns.pool)
    /\ Counted(turns.pool, turns.chosen, turns.wraps, router.counter)

LEMMA NoTurnsCounted ==
  ASSUME NEW c \in Nat
  PROVE  IsInjective(NoTurns.pool) /\ Counted(NoTurns.pool, NoTurns.chosen, NoTurns.wraps, c)
  <1>1. NoTurns.pool = <<>> /\ NoTurns.chosen = <<>> /\ NoTurns.wraps = 0 /\ <<>> \in Seq(Server)
    BY DEF NoTurns, NoPool
  <1>2. Counted(<<>>, <<>>, 0, c)
    BY <1>1, CountedNone
  <1> QED BY <1>1, <1>2, EmptyToSet

\* A turn, with or without an overflow.
LEMMA CountedNext ==
  ASSUME NEW pool \in Seq(Server), pool # <<>>, IsInjective(pool), NEW chosen \in Seq(Server),
         NEW wraps \in Nat, NEW c \in 0 .. CounterLimit - 1, Counted(pool, chosen, wraps, c)
  PROVE  Counted(pool, Append(chosen, RoundRobin(c, pool)),
                 wraps + (IF c + 1 = CounterLimit THEN 1 ELSE 0), NextTurn(c))
  <1> DEFINE x == RoundRobin(c, pool)
  <1>1. CounterLimit \in Nat \ {0} /\ c \in Nat
    BY PoolAssumption
  <1>2. x \in Server
    BY <1>1, TurnInPool DEF ToSet
  <1>3. Counted(pool, Append(chosen, x), wraps, c + 1)
    BY <1>1, CountedTurn
  <1> HIDE DEF x
  <1>4. CASE c + 1 = CounterLimit
    <2>1. NextTurn(c) = 0
      BY <1>1, <1>4 DEF NextTurn
    <2>2. Append(chosen, x) \in Seq(Server) /\ c + 1 \in Nat
      BY <1>1, <1>2
    <2>3. Counted(pool, Append(chosen, x), wraps + 1, 0)
      BY <1>3, <2>2, CountedWrap
    <2> QED BY <1>4, <2>1, <2>3 DEF x
  <1>5. CASE c + 1 # CounterLimit
    <2>1. NextTurn(c) = c + 1
      BY <1>1, <1>5 DEF NextTurn
    <2>2. wraps + 0 = wraps
      OBVIOUS
    <2> QED BY <1>3, <1>5, <2>1, <2>2 DEF x
  <1> QED BY <1>4, <1>5

LEMMA TurnCounted ==
  ASSUME RoutingTypes, TurnsCounted, NEW pool, NEW candidates \in Seq(Server), candidates # <<>>,
         IsInjective(candidates), NEW client, NEW data, TakeTurn(pool, candidates, client, data)
  PROVE  TurnsCounted'
  <1> DEFINE c == router.counter
  <1> DEFINE s == RoundRobin(c, candidates)
  <1> DEFINE w == IF c + 1 = CounterLimit THEN 1 ELSE 0
  <1>1. /\ c \in 0 .. CounterLimit - 1 /\ c \in Nat /\ w \in Nat
        /\ turns \in [pool : Seq(Server), chosen : Seq(Server), wraps : Nat]
        /\ router \in [algorithm : Algorithm, counter : 0 .. CounterLimit - 1,
                       resolver : BOOLEAN, learned : BOOLEAN]
    BY PoolAssumption DEF RoutingTypes, RoutingTypeOK
  <1>2. /\ router' = [router EXCEPT !.counter = NextTurn(@)]
        /\ turns' = IF turns.pool = candidates /\ Len(turns.chosen) < MaxTurns
                    THEN [turns EXCEPT !.chosen = Append(@, s), !.wraps = @ + w]
                    ELSE [pool |-> candidates, chosen |-> <<s>>, wraps |-> w]
    BY DEF TakeTurn
  <1>3. router'.counter = NextTurn(c)
    BY <1>1, <1>2
  <1>4. CASE turns.pool = candidates /\ Len(turns.chosen) < MaxTurns
    <2>1. Counted(candidates, turns.chosen, turns.wraps, c) /\ turns.chosen \in Seq(Server) /\ turns.wraps \in Nat
      BY <1>1, <1>4 DEF TurnsCounted
    <2>2. Counted(candidates, Append(turns.chosen, s), turns.wraps + w, NextTurn(c))
      BY <1>1, <2>1, CountedNext
    <2> HIDE DEF s, w, c
    <2>3. /\ turns'.pool = candidates /\ turns'.chosen = Append(turns.chosen, s)
          /\ turns'.wraps = turns.wraps + w
      BY <1>1, <1>2, <1>4
    <2> QED BY <1>3, <2>2, <2>3 DEF TurnsCounted
  <1>5. CASE ~(turns.pool = candidates /\ Len(turns.chosen) < MaxTurns)
    <2>1. Counted(candidates, <<>>, 0, c) /\ <<>> \in Seq(Server) /\ 0 \in Nat
      BY <1>1, CountedNone
    <2>2. Counted(candidates, Append(<<>>, s), 0 + w, NextTurn(c))
      BY <1>1, <2>1, CountedNext
    <2>3. Append(<<>>, s) = <<s>> /\ 0 + w = w
      BY <1>1
    <2> HIDE DEF s, w, c
    <2>4. turns'.pool = candidates /\ turns'.chosen = <<s>> /\ turns'.wraps = w
      BY <1>2, <1>5
    <2> QED BY <1>3, <2>2, <2>3, <2>4 DEF TurnsCounted
  <1> QED BY <1>4, <1>5

EvenIInv == RoutingIInv /\ TurnsCounted

LEMMA EvenInit == RoutingInit => EvenIInv
  <1> SUFFICES ASSUME RoutingInit PROVE EvenIInv
    OBVIOUS
  <1>1. RoutingIInv /\ turns = NoTurns /\ router.counter = 0
    BY RoutingInitIInv DEF RoutingInit, NewRouter
  <1> QED BY <1>1, NoTurnsCounted DEF EvenIInv, TurnsCounted

LEMMA EvenStep == ASSUME DistinctPools PROVE EvenIInv /\ [RoutingNext]_routingVars => EvenIInv'
  <1> SUFFICES ASSUME EvenIInv, [RoutingNext]_routingVars PROVE TurnsCounted'
    BY RoutingStepIInv DEF EvenIInv
  <1>1. RoutingTypes /\ TurnsCounted
    BY DEF EvenIInv, RoutingIInv
  <1>2. ASSUME router' = router, turns' = turns PROVE TurnsCounted'
    BY <1>1, <1>2 DEF TurnsCounted
  <1>3. ASSUME NEW pool \in Pools, NEW client, NEW data, TakeTurn(pool, pool, client, data)
        PROVE  TurnsCounted'
    <2>1. pool \in Seq(Server) /\ pool # <<>> /\ IsInjective(pool)
      BY PoolTypes DEF DistinctPools
    <2> QED BY <1>1, <1>3, <2>1, TurnCounted
  <1>4. ASSUME NEW pool \in Pools, NEW usable, NEW client, NEW data,
               RouteLowest(pool, usable, client, data)
        PROVE  TurnsCounted'
    BY <1>2, <1>3, <1>4 DEF RouteLowest
  <1>5. CASE UNCHANGED routingVars
    BY <1>2, <1>5 DEF routingVars
  <1>6. CASE \E pool \in Pools : RouteRoundRobin(pool)
    BY <1>3, <1>6 DEF RouteRoundRobin
  <1>7. CASE \E pool \in Pools : RouteWeighted(pool) \/ RouteFailover(pool)
    BY <1>2, <1>7 DEF RouteWeighted, RouteFailover
  <1>8. CASE \E pool \in Pools : RouteGeo(pool)
    <2>1. PICK pool \in Pools : RouteGeo(pool)
      BY <1>8
    <2>2. PICK client \in {c \in Client : c.known} \cup {NoClient} :
             TakeTurn(pool, IF client.known /\ router.resolver THEN GeoPool(pool, client) ELSE pool,
                      client, NoData(pool))
      BY <2>1 DEF RouteGeo
    <2>3. CASE client.known /\ router.resolver
      <3>1. client \in Client
        BY ClientTypes
      <3>2. /\ GeoPool(pool, client) \in Seq(Server) /\ GeoPool(pool, client) # <<>>
            /\ IsInjective(GeoPool(pool, client))
        BY <3>1, GeoFacts DEF DistinctPools
      <3>3. TakeTurn(pool, GeoPool(pool, client), client, NoData(pool))
        BY <2>2, <2>3
      <3> QED BY <1>1, <3>2, <3>3, TurnCounted
    <2>4. CASE ~(client.known /\ router.resolver)
      <3>1. TakeTurn(pool, pool, client, NoData(pool))
        BY <2>2, <2>4
      <3> QED BY <1>3, <3>1
    <2> QED BY <2>3, <2>4
  <1>9. CASE \E pool \in Pools : RouteLatency(pool)
    BY <1>4, <1>9 DEF RouteLatency
  <1>10. CASE \E pool \in Pools : RouteLearnedLatency(pool)
    BY <1>4, <1>10 DEF RouteLearnedLatency
  <1>11. CASE Return
    BY <1>2, <1>11 DEF Return
  <1>12. CASE \E a \in Algorithm : ReplaceRouter(a)
    <2>1. turns' = NoTurns /\ router'.counter = 0
      BY <1>12 DEF ReplaceRouter, NewRouter
    <2> QED BY <2>1, NoTurnsCounted DEF TurnsCounted
  <1> QED BY <1>5, <1>6, <1>7, <1>8, <1>9, <1>10, <1>11, <1>12 DEF RoutingNext

\* RoundRobinRouter.Route, on its own and as the fallback of the other routers: over a
\* pool that stays the same the turns are even up to one, and one for every overflow of
\* the counter, for pools of any size and a counter of any range, if no pool lists
\* a server twice.
THEOREM TurnsEven == ASSUME DistinctPools PROVE RoutingSpec => []EvenTurns
  <1>1. EvenIInv => EvenTurns
    <2> SUFFICES ASSUME EvenIInv PROVE EvenTurns
      OBVIOUS
    <2>1. /\ turns.pool \in Seq(Server) /\ turns.chosen \in Seq(Server) /\ turns.wraps \in Nat
          /\ router.counter \in Nat
      BY PoolAssumption DEF EvenIInv, RoutingIInv, RoutingTypes, RoutingTypeOK
    <2>2. Counted(turns.pool, turns.chosen, turns.wraps, router.counter)
      BY DEF EvenIInv, TurnsCounted
    <2>3. \A s, t \in ToSet(turns.pool) :
             Times(turns.chosen, s) <= Times(turns.chosen, t) + 1 + turns.wraps
      BY <2>1, <2>2, CountedEven
    <2> QED BY <2>3 DEF EvenTurns, Chosen, Times
  <1>2. EvenIInv /\ [RoutingNext]_routingVars => EvenIInv'
    BY EvenStep
  <1> QED BY <1>1, <1>2, EvenInit, PTL DEF RoutingSpec

\* WeightedRouter.Route: the points that rand.Intn may return are divided among the
\* servers of a pool of positive weights as the weights say, if no pool lists a server
\* twice.
THEOREM SharesFollowWeights == ASSUME DistinctPools PROVE RoutingSpec => []WeightedShare
  <1>1. RoutingIInv => WeightedShare
    <2> SUFFICES ASSUME RoutingIInv, decision # NoDecision, NEW s \in ToSet(decision.pool),
                        WeightOf[s] > 0
                 PROVE  Cardinality({point \in 0 .. TotalWeight(decision.pool) - 1 :
                                        WeightedAt(decision.pool, point) = s}) = WeightOf[s]
      BY DEF WeightedShare
    <2>1. decision.pool \in Pools
      BY DEF RoutingIInv, RoutingTypes, RoutingTypeOK
    <2>2. decision.pool \in Seq(Server) /\ IsInjective(decision.pool)
      BY <2>1, PoolTypes DEF DistinctPools
    <2> QED BY <2>2, ShareOf
  <1> QED BY <1>1, RoutingInitIInv, RoutingStepIInv, PTL DEF RoutingSpec

==============================================================================
