-------------------------- MODULE PublicReadProofs --------------------------
(***************************************************************************)
(* The two protocols by which a client keeps up with the registry without  *)
(* reading all of it: a 304 is right for any number of writers and clients *)
(* and any behaviour of the database clock, and a page of the audit log is *)
(* in order and has no hole whatever commits while it is read.             *)
(***************************************************************************)
EXTENDS RegistryVersion, AuditCursor, FiniteSetTheorems, SequenceTheorems, TLAPS

-----------------------------------------------------------------------------
(* Conditional reads.                                                      *)

\* The row lock admits one writer to its bump, which is past what is committed.
OneBump ==
  /\ \A v, w \in Writers : writer[v].at = "bumped" /\ writer[w].at = "bumped" => v = w
  /\ \A w \in Writers : writer[w].at = "bumped" => writer[w].version > version

\* No date given out is past the version, and the version itself was given
\* out only with what is committed now.
DatesBehind ==
  /\ \A c \in Clients : reply[c].asked => reply[c].date <= version
  /\ \A c \in Clients : cache[c].held =>
       /\ cache[c].date <= version
       /\ cache[c].date = version => cache[c].body = content

VersionInv == TypeOK /\ OneBump /\ DatesBehind /\ KeptIsCurrent

-----------------------------------------------------------------------------

USE ClockAssumption DEF Seconds

LEMMA InitInv == Init => VersionInv
  <1> SUFFICES ASSUME Init PROVE VersionInv
    OBVIOUS
  <1>1. TypeOK
    BY DEF Init, TypeOK, NoReply, NoBody
  <1>2. OneBump /\ DatesBehind /\ KeptIsCurrent
    BY DEF Init, OneBump, DatesBehind, KeptIsCurrent, NoReply, NoBody
  <1>3. QED
    BY <1>1, <1>2 DEF VersionInv

\* The date a handler sends is of the clock and not past the version.
LEMMA DateSent ==
  ASSUME TypeOK
  PROVE  LastModified \in 0..MaxClock /\ LastModified <= version
  BY DEF LastModified, TooRecent, TypeOK

LEMMA BumpType ==
  ASSUME TypeOK
  PROVE  Bumped \in Nat /\ Bumped > version
  BY DEF Bumped, Greatest, TypeOK

LEMMA TypeStep == TypeOK /\ [Next]_vars => TypeOK'
  <1> SUFFICES ASSUME TypeOK, [Next]_vars PROVE TypeOK'
    OBVIOUS
  <1>1. ASSUME NEW w \in Writers, Write(w) PROVE TypeOK'
    BY <1>1 DEF Write, TypeOK
  <1>2. ASSUME NEW w \in Writers, Bump(w) PROVE TypeOK'
    BY <1>2, BumpType DEF Bump, TypeOK
  <1>3. ASSUME NEW w \in Writers, Finish(w) \/ Abort(w) PROVE TypeOK'
    <2>1. CASE Finish(w)
      BY <2>1 DEF Finish, TypeOK
    <2>2. CASE Abort(w)
      BY <2>2 DEF Abort, TypeOK
    <2>3. QED
      BY <1>3, <2>1, <2>2
  <1>4. ASSUME NEW c \in Clients, NotModified(c) \/ StartBody(c) PROVE TypeOK'
    <2>1. CASE NotModified(c)
      BY <2>1, DateSent DEF NotModified, TypeOK
    <2>2. CASE StartBody(c)
      <3>1. [asked |-> TRUE, date |-> LastModified] \in [asked : BOOLEAN, date : 0..MaxClock]
        BY DateSent
      <3>2. QED
        BY <2>2, <3>1 DEF StartBody, TypeOK
    <2>3. QED
      BY <1>4, <2>1, <2>2
  <1>5. ASSUME NEW c \in Clients, SendBody(c) PROVE TypeOK'
    BY <1>5 DEF SendBody, NoReply, TypeOK
  <1>6. CASE ClockMoves
    BY <1>6 DEF ClockMoves, TypeOK
  <1>7. CASE UNCHANGED vars
    BY <1>7 DEF vars, TypeOK
  <1>8. QED
    BY <1>1, <1>2, <1>3, <1>4, <1>5, <1>6, <1>7 DEF Next

LEMMA InvStep == VersionInv /\ [Next]_vars => VersionInv'
  <1> DEFINE Parts == OneBump /\ DatesBehind /\ KeptIsCurrent
  <1> SUFFICES ASSUME VersionInv, [Next]_vars PROVE Parts'
    BY TypeStep DEF VersionInv
  <1> USE DEF VersionInv
  <1>1. ASSUME NEW w \in Writers, Write(w) \/ Abort(w) PROVE Parts'
    BY <1>1 DEF Write, Abort, OneBump, DatesBehind, KeptIsCurrent, TypeOK
  <1>2. ASSUME NEW w \in Writers, Bump(w) PROVE Parts'
    BY <1>2, BumpType DEF Bump, OneBump, DatesBehind, KeptIsCurrent, TypeOK
  <1>3. ASSUME NEW w \in Writers, Finish(w) PROVE Parts'
    <2>1. /\ version' = writer[w].version /\ version' > version
          /\ \A v \in Writers : writer'[v].at # "bumped"
      BY <1>3 DEF Finish, OneBump, TypeOK
    <2>2. OneBump' /\ KeptIsCurrent'
      BY <1>3, <2>1 DEF Finish, OneBump, KeptIsCurrent
    <2>3. DatesBehind'
      BY <1>3, <2>1 DEF Finish, DatesBehind, TypeOK
    <2>4. QED
      BY <2>2, <2>3
  <1>4. ASSUME NEW c \in Clients, NotModified(c) PROVE Parts'
    <2>1. /\ LastModified = version /\ cache[c].date = version
          /\ cache[c].body = content
      <3>1. cache[c].held /\ ~TooRecent /\ version <= cache[c].date
        BY <1>4 DEF NotModified, Keeps, Unchanged
      <3>2. version \in Nat /\ cache[c].date \in 0..MaxClock
        BY DEF TypeOK
      <3>3. cache[c].date = version
        BY <3>1, <3>2 DEF DatesBehind
      <3>4. QED
        BY <3>1, <3>3 DEF LastModified, DatesBehind
    <2>2. /\ cache'[c].date = version /\ cache'[c].body = content
          /\ \A d \in Clients \ {c} : cache'[d] = cache[d]
      BY <1>4, <2>1 DEF NotModified, TypeOK
    <2>3. OneBump' /\ KeptIsCurrent'
      BY <1>4, <2>2 DEF NotModified, OneBump, KeptIsCurrent
    <2>4. DatesBehind'
      BY <1>4, <2>2 DEF NotModified, DatesBehind, TypeOK
    <2>5. QED
      BY <2>3, <2>4
  <1>5. ASSUME NEW c \in Clients, StartBody(c) PROVE Parts'
    BY <1>5, DateSent DEF StartBody, OneBump, DatesBehind, KeptIsCurrent, TypeOK
  <1>6. ASSUME NEW c \in Clients, SendBody(c) PROVE Parts'
    BY <1>6 DEF SendBody, NoReply, OneBump, DatesBehind, KeptIsCurrent, TypeOK
  <1>7. CASE ClockMoves
    BY <1>7 DEF ClockMoves, OneBump, DatesBehind, KeptIsCurrent
  <1>8. CASE UNCHANGED vars
    BY <1>8 DEF vars, OneBump, DatesBehind, KeptIsCurrent
  <1>9. QED
    BY <1>1, <1>2, <1>3, <1>4, <1>5, <1>6, <1>7, <1>8 DEF Next

\* A client is told 304 only when the body it holds is what is committed, with
\* writers in flight, changes in the same second and a clock that is set back.
THEOREM NotModifiedIsTrue == Spec => []KeptIsCurrent
  <1>1. VersionInv => KeptIsCurrent
    BY DEF VersionInv
  <1>2. QED
    BY <1>1, InitInv, InvStep, PTL DEF Spec
-----------------------------------------------------------------------------
(* The order of audit ids: a row's rank in a set is how many come before   *)
(* it, and the ranks of a finite set without two rows of one id are 0, 1,  *)
(* 2, ... up to its size.                                                  *)

Numbered(rows) ==
  /\ IsFiniteSet(rows)
  /\ \A row \in rows : row.id \in Nat \ {0}
  /\ \A r, s \in rows : r.id = s.id => r = s

LEMMA NumberedSubset ==
  ASSUME NEW rows, Numbered(rows), NEW part \in SUBSET rows
  PROVE  Numbered(part)
  BY FS_Subset DEF Numbered

\* A rank is a number.
LEMMA RankType ==
  ASSUME NEW rows, IsFiniteSet(rows), NEW row, NEW order
  PROVE  Rank(rows, row, order) \in Nat
  <1> DEFINE earlier == {r \in rows : Before(r, row, order)}
  <1>1. IsFiniteSet(earlier)
    BY FS_Subset
  <1>2. QED
    BY <1>1, FS_CardinalityType DEF Rank

\* A set of rows that all come before a row bounds its rank from below.
LEMMA RankAtLeast ==
  ASSUME NEW rows, IsFiniteSet(rows), NEW row, NEW order,
         NEW part \in SUBSET rows, \A r \in part : Before(r, row, order)
  PROVE  Cardinality(part) <= Rank(rows, row, order)
  <1> DEFINE earlier == {r \in rows : Before(r, row, order)}
  <1>1. IsFiniteSet(earlier) /\ part \in SUBSET earlier
    BY FS_Subset
  <1>2. QED
    BY <1>1, FS_Subset DEF Rank

\* What comes before has the smaller rank.
LEMMA RankGrows ==
  ASSUME NEW rows, IsFiniteSet(rows), NEW a \in rows, NEW b, NEW order,
         \A r \in rows : r.id \in Nat, b.id \in Nat, Before(a, b, order)
  PROVE  Rank(rows, a, order) < Rank(rows, b, order)
  <1> DEFINE earlier(x) == {r \in rows : Before(r, x, order)}
  <1>1. IsFiniteSet(earlier(a)) /\ a \notin earlier(a)
    BY FS_Subset DEF Before
  <1>2. earlier(a) \cup {a} \in SUBSET earlier(b)
    BY DEF Before
  <1>3. IsFiniteSet(earlier(b))
    BY FS_Subset
  <1>4. Cardinality(earlier(a) \cup {a}) = Cardinality(earlier(a)) + 1
    BY <1>1, FS_AddElement
  <1>5. /\ Cardinality(earlier(a)) \in Nat /\ Cardinality(earlier(b)) \in Nat
        /\ Cardinality(earlier(a) \cup {a}) <= Cardinality(earlier(b))
    BY <1>1, <1>2, <1>3, FS_Subset, FS_CardinalityType
  <1>6. Rank(rows, a, order) = Cardinality(earlier(a))
        /\ Rank(rows, b, order) = Cardinality(earlier(b))
    BY DEF Rank
  <1> HIDE DEF earlier
  <1>7. QED
    BY <1>4, <1>5, <1>6

\* Of two rows with different ids, the one of no greater rank comes before.
LEMMA SmallerIsBefore ==
  ASSUME NEW rows, IsFiniteSet(rows), NEW a, NEW b \in rows, NEW order,
         \A r \in rows : r.id \in Nat, a.id \in Nat, a.id # b.id,
         Rank(rows, a, order) <= Rank(rows, b, order)
  PROVE  Before(a, b, order)
  <1>1. Rank(rows, a, order) \in Nat /\ Rank(rows, b, order) \in Nat
    BY RankType
  <1>2. ASSUME Before(b, a, order) PROVE Rank(rows, b, order) < Rank(rows, a, order)
    BY <1>2, RankGrows
  <1>3. ~Before(b, a, order)
    BY <1>1, <1>2
  <1>4. QED
    BY <1>3 DEF Before

RankOf(rows, order) == [row \in rows |-> Rank(rows, row, order)]

\* The ranks of a set are one to one with the numbers below its size.
LEMMA RankBijection ==
  ASSUME NEW rows, Numbered(rows), NEW order
  PROVE  /\ Cardinality(rows) \in Nat
         /\ RankOf(rows, order) \in Bijection(rows, 0..Cardinality(rows) - 1)
  <1> DEFINE n == Cardinality(rows)
             f == RankOf(rows, order)
  <1>1. IsFiniteSet(rows) /\ n \in Nat
    BY FS_CardinalityType DEF Numbered
  <1>2. ASSUME NEW row \in rows PROVE f[row] \in 0..n - 1
    <2> DEFINE earlier == {r \in rows : Before(r, row, order)}
    <2>1. row \notin earlier /\ earlier \in SUBSET rows
      BY DEF Before, Numbered
    <2>2. IsFiniteSet(earlier) /\ Cardinality(earlier) <= n /\ Cardinality(earlier) # n
      BY <1>1, <2>1, FS_Subset
    <2>3. f[row] = Cardinality(earlier) /\ f[row] \in Nat
      BY <1>1, RankType DEF RankOf, Rank
    <2> HIDE DEF f, n, earlier
    <2>4. QED
      BY <1>1, <2>2, <2>3
  <1>3. ASSUME NEW a \in rows, NEW b \in rows, f[a] = f[b] PROVE a = b
    <2>1. \A r \in rows : r.id \in Nat
      BY DEF Numbered
    <2>2. SUFFICES ASSUME a.id # b.id PROVE FALSE
      BY DEF Numbered
    <2>3. f[a] \in Nat /\ f[a] = Rank(rows, a, order) /\ f[b] = Rank(rows, b, order)
      BY <1>1, RankType DEF RankOf
    <2>4. Before(a, b, order) /\ Before(b, a, order)
      <3>0. /\ Rank(rows, a, order) = Rank(rows, b, order)
            /\ Rank(rows, a, order) \in Nat /\ Rank(rows, b, order) \in Nat
        BY <1>3, <2>3
      <3>1. /\ Rank(rows, a, order) <= Rank(rows, b, order)
            /\ Rank(rows, b, order) <= Rank(rows, a, order)
        BY <3>0
      <3>2. QED
        BY <1>1, <2>1, <2>2, <3>1, SmallerIsBefore
    <2>5. QED
      BY <2>1, <2>4 DEF Before
  <1>4. f \in Injection(rows, 0..n - 1)
    BY <1>2, <1>3 DEF RankOf, Injection, IsInjective
  <1>5. IsFiniteSet(0..n - 1) /\ Cardinality(0..n - 1) = n
    BY <1>1, FS_Interval
  <1>6. f \in Surjection(rows, 0..n - 1)
    BY <1>1, <1>4, <1>5, FS_Injection
  <1>7. QED
    BY <1>1, <1>4, <1>6 DEF Bijection

\* Ranks 0 to n - 1 belong to n rows: the first n are n rows, or all there are.
LEMMA FirstSize ==
  ASSUME NEW rows, Numbered(rows), NEW order, NEW n \in Nat
  PROVE  /\ Numbered(First(rows, order, n))
         /\ n <= Cardinality(rows) => Cardinality(First(rows, order, n)) = n
  <1> DEFINE S == First(rows, order, n)
             f == RankOf(rows, order)
             g == [row \in S |-> f[row]]
  <1>1. S \in SUBSET rows
    BY DEF First
  <1>2. Numbered(S)
    BY <1>1, NumberedSubset
  <1>3. SUFFICES ASSUME n <= Cardinality(rows) PROVE Cardinality(S) = n
    BY <1>2
  <1>4. /\ Cardinality(rows) \in Nat
        /\ f \in Bijection(rows, 0..Cardinality(rows) - 1)
    BY RankBijection
  <1>5. \A row \in rows : /\ f[row] = Rank(rows, row, order)
                          /\ f[row] \in 0..Cardinality(rows) - 1
    BY <1>4 DEF RankOf, Bijection, Injection
  <1>6. g \in Injection(S, 0..n - 1)
    <2>1. \A row \in S : g[row] \in 0..n - 1
      <3> SUFFICES ASSUME NEW row \in S PROVE f[row] \in 0..n - 1
        OBVIOUS
      <3>1. f[row] < n /\ f[row] \in 0..Cardinality(rows) - 1
        BY <1>5 DEF First
      <3> HIDE DEF f, S
      <3>2. QED
        BY <3>1, <1>4
    <2>2. \A a, b \in S : f[a] = f[b] => a = b
      BY <1>1, <1>4 DEF Bijection, Injection, IsInjective
    <2>3. QED
      BY <2>1, <2>2 DEF Injection, IsInjective
  <1>7. \A k \in 0..n - 1 : \E row \in S : g[row] = k
    <2> SUFFICES ASSUME NEW k \in 0..n - 1 PROVE \E row \in S : g[row] = k
      OBVIOUS
    <2>1. k \in 0..Cardinality(rows) - 1 /\ k < n
      BY <1>3, <1>4
    <2>2. PICK row \in rows : f[row] = k
      BY <1>4, <2>1 DEF Bijection, Surjection
    <2>3. row \in S
      BY <1>5, <2>1, <2>2 DEF First
    <2>4. QED
      BY <2>2, <2>3
  <1>8. g \in Surjection(S, 0..n - 1)
    BY <1>6, <1>7 DEF Injection, Surjection
  <1>9. IsFiniteSet(0..n - 1) /\ Cardinality(0..n - 1) = n
    BY FS_Interval
  <1>10. QED
    BY <1>6, <1>8, <1>9, FS_Injection

\* A row that n rows of a set precede is not among the first n, and they are n
\* rows that all precede it.
LEMMA PastFirst ==
  ASSUME NEW rows, Numbered(rows), NEW row, row.id \in Nat, NEW order,
         NEW n \in Nat, Rank(rows, row, order) >= n
  PROVE  /\ row \notin First(rows, order, n)
         /\ Cardinality(First(rows, order, n)) = n
         /\ \A r \in First(rows, order, n) : Before(r, row, order)
  <1>1. IsFiniteSet(rows) /\ \A r \in rows : r.id \in Nat
    BY DEF Numbered
  <1>2. Rank(rows, row, order) \in Nat
    BY <1>1, RankType
  <1>3. ASSUME NEW r \in First(rows, order, n)
        PROVE  Rank(rows, r, order) < Rank(rows, row, order)
    <2>1. Rank(rows, r, order) \in Nat /\ Rank(rows, r, order) < n
      BY <1>1, RankType DEF First
    <2>2. QED
      BY <1>2, <2>1
  <1>4. row \notin First(rows, order, n)
    BY <1>2, <1>3
  <1>5. ASSUME NEW r \in First(rows, order, n) PROVE Before(r, row, order)
    <2> DEFINE earlier(x) == {q \in rows : Before(q, x, order)}
    <2>1. r \in rows /\ r.id \in Nat
      BY <1>1 DEF First
    <2>2. CASE r.id = row.id
      <3>1. Rank(rows, r, order) = Rank(rows, row, order)
        BY <2>2 DEF Rank, Before
      <3>2. QED
        BY <1>2, <1>3, <3>1
    <2>3. CASE Before(row, r, order)
      <3>1. earlier(row) \in SUBSET rows /\ \A q \in earlier(row) : Before(q, r, order)
        BY <1>1, <2>1, <2>3 DEF Before
      <3>2. Cardinality(earlier(row)) <= Rank(rows, r, order)
        BY <1>1, <3>1, RankAtLeast
      <3>3. Rank(rows, row, order) <= Rank(rows, r, order)
        BY <3>2 DEF Rank
      <3>4. Rank(rows, r, order) < Rank(rows, row, order) /\ Rank(rows, r, order) \in Nat
        BY <1>1, <1>3, RankType
      <3>5. QED
        BY <1>2, <3>3, <3>4
    <2>4. QED
      BY <2>1, <2>2, <2>3 DEF Before
  <1>6. n <= Cardinality(rows)
    <2>1. {q \in rows : Before(q, row, order)} \in SUBSET rows
      OBVIOUS
    <2>2. Rank(rows, row, order) <= Cardinality(rows) /\ Cardinality(rows) \in Nat
      BY <1>1, <2>1, FS_Subset, FS_CardinalityType DEF Rank
    <2>3. QED
      BY <1>2, <2>2
  <1>7. QED
    BY <1>4, <1>5, <1>6, FirstSize

\* Sorted lists a set in its order.
LEMMA SortedIs ==
  ASSUME NEW rows, Numbered(rows), NEW order
  PROVE  /\ Sorted(rows, order) \in Seq(rows)
         /\ Len(Sorted(rows, order)) = Cardinality(rows)
         /\ ToSet(Sorted(rows, order)) = rows
         /\ \A i, j \in DOMAIN Sorted(rows, order) :
              i < j => Before(Sorted(rows, order)[i], Sorted(rows, order)[j], order)
  <1> DEFINE n == Cardinality(rows)
             f == RankOf(rows, order)
             s == Sorted(rows, order)
  <1>1. n \in Nat /\ f \in Bijection(rows, 0..n - 1)
    BY RankBijection
  <1>2. \A row \in rows : /\ f[row] = Rank(rows, row, order)
                          /\ f[row] \in 0..n - 1
    BY <1>1 DEF RankOf, Bijection, Injection
  <1>3. \A a, b \in rows : f[a] = f[b] => a = b
    BY <1>1 DEF Bijection, Injection, IsInjective
  <1>4. ASSUME NEW i \in 1..n
        PROVE  s[i] \in rows /\ Rank(rows, s[i], order) = i - 1
    <2>1. i - 1 \in 0..n - 1
      BY <1>1
    <2>2. \E row \in rows : f[row] = i - 1
      BY <1>1, <2>1 DEF Bijection, Surjection
    <2>3. \E row \in rows : Rank(rows, row, order) = i - 1
      BY <1>2, <2>2
    <2>4. QED
      BY <2>3 DEF Sorted
  <1>5. s \in Seq(rows) /\ Len(s) = n /\ DOMAIN s = 1..n
    <2>1. s \in [1..n -> rows]
      BY <1>4 DEF Sorted
    <2> HIDE DEF s, n
    <2>2. QED
      BY <1>1, <2>1
  <1>6. ASSUME NEW row \in rows PROVE row \in ToSet(s)
    <2>1. PICK i \in 1..n : Rank(rows, row, order) = i - 1
      <3>1. Rank(rows, row, order) \in 0..n - 1
        BY <1>2
      <3>2. Rank(rows, row, order) + 1 \in 1..n
        BY <1>1, <3>1
      <3>3. QED
        BY <3>1, <3>2
    <2>2. s[i] = row
      BY <1>2, <1>3, <1>4, <2>1
    <2>3. QED
      BY <1>5, <2>2 DEF ToSet
  <1>7. ToSet(s) = rows
    BY <1>4, <1>5, <1>6 DEF ToSet
  <1>8. ASSUME NEW i \in DOMAIN s, NEW j \in DOMAIN s, i < j
        PROVE  Before(s[i], s[j], order)
    <2>1. IsFiniteSet(rows) /\ \A r \in rows : r.id \in Nat
      BY DEF Numbered
    <2>2. s[i] \in rows /\ s[j] \in rows
      BY <1>4, <1>5
    <2>3. Rank(rows, s[i], order) = i - 1 /\ Rank(rows, s[j], order) = j - 1
      BY <1>4, <1>5
    <2>4. /\ Rank(rows, s[i], order) <= Rank(rows, s[j], order)
          /\ Rank(rows, s[i], order) # Rank(rows, s[j], order)
      BY <1>5, <1>8, <2>3
    <2> HIDE DEF s
    <2>5. s[i].id # s[j].id
      BY <2>2, <2>4 DEF Numbered
    <2>6. QED
      BY <2>1, <2>2, <2>4, <2>5, SmallerIsBefore
  <1>9. QED
    BY <1>5, <1>7, <1>8

-----------------------------------------------------------------------------
(* The pages of the audit log.                                             *)

AuditRows == [id : Nat \ {0}, kind : Kinds]

AuditTypes ==
  /\ nextId \in Nat \ {0}
  /\ tx \in [Workers -> AuditRows \cup {NoRow}]
  /\ committed \in SUBSET AuditRows
  /\ filter \in Filters
  /\ cursor \in Nat
  /\ received \in Seq(AuditRows)
  /\ page \in [at : {"none", "second", "read"}, order : {"asc", "desc"},
               limit : Nat, since : Nat, before : SUBSET AuditRows,
               first : SUBSET AuditRows, items : Seq(AuditRows)]

\* An id is drawn once, by one transaction, and committed at most once.
IdsOnce ==
  /\ Numbered(committed)
  /\ \A row \in committed : row.id < nextId
  /\ \A w \in Workers : tx[w] # NoRow =>
       tx[w].id < nextId /\ \A row \in committed : row.id # tx[w].id
  /\ \A v, w \in Workers :
       tx[v] # NoRow /\ tx[w] # NoRow /\ tx[v].id = tx[w].id => v = w

\* Between its statements a page holds the first rows of actions, of what was
\* committed when it began; a follower has not been answered meanwhile.
FirstRead ==
  page.at = "second" =>
    /\ page.limit \in Nat \ {0}
    /\ page.before \subseteq committed
    /\ page.first = First(Selected("actions", filter, page.since, page.before),
                          page.order, page.limit)
    /\ page.order = "asc" => page.since = cursor

\* The cursor is past every entry the follower was given.
Passed == \A i \in DOMAIN received : received[i].id <= cursor

AuditInv ==
  /\ AuditTypes /\ IdsOnce /\ FirstRead /\ Passed
  /\ FollowedInOrder /\ PageHasNoHole

LEMMA AuditBegins == AuditInit => AuditInv
  <1> SUFFICES ASSUME AuditInit PROVE AuditInv
    OBVIOUS
  <1>1. AuditTypes
    <2>1. {} \in SUBSET AuditRows /\ <<>> \in Seq(AuditRows)
      OBVIOUS
    <2>2. page \in [at : {"none", "second", "read"}, order : {"asc", "desc"},
                    limit : Nat, since : Nat, before : SUBSET AuditRows,
                    first : SUBSET AuditRows, items : Seq(AuditRows)]
      BY <2>1 DEF AuditInit
    <2>3. QED
      BY <2>1, <2>2 DEF AuditInit, AuditTypes
  <1>2. IdsOnce
    <2>1. Numbered({})
      BY FS_EmptySet DEF Numbered
    <2>2. QED
      BY <2>1 DEF AuditInit, IdsOnce
  <1>3. FirstRead /\ Passed /\ FollowedInOrder /\ PageHasNoHole
    BY DEF AuditInit, FirstRead, Passed, FollowedInOrder, PageHasNoHole
  <1>4. QED
    BY <1>1, <1>2, <1>3 DEF AuditInv

\* The rows a statement selects, and those it returns, are committed rows.
LEMMA SelectedIs ==
  ASSUME NEW rows, Numbered(rows), NEW table, NEW f, NEW since
  PROVE  /\ Selected(table, f, since, rows) \in SUBSET rows
         /\ Numbered(Selected(table, f, since, rows))
         /\ \A order, n : First(Selected(table, f, since, rows), order, n)
                            \in SUBSET Selected(table, f, since, rows)
  <1>1. Selected(table, f, since, rows) \in SUBSET rows
    BY DEF Selected
  <1>2. QED
    BY <1>1, NumberedSubset DEF First

-----------------------------------------------------------------------------
(* Writers.                                                                *)

LEMMA InsertKeeps ==
  ASSUME AuditInv, NEW w \in Workers, NEW kind \in Kinds, Insert(w, kind)
  PROVE  AuditInv'
  <1> DEFINE row == [id |-> nextId, kind |-> kind]
  <1>1. /\ nextId \in Nat \ {0} /\ row \in AuditRows /\ row # NoRow /\ row.id = nextId
        /\ tx \in [Workers -> AuditRows \cup {NoRow}]
    BY DEF AuditInv, AuditTypes, AuditRows, NoRow
  <1>2. /\ tx' = [tx EXCEPT ![w] = row] /\ nextId' = nextId + 1
        /\ UNCHANGED <<committed, filter, cursor, received, page>>
    BY DEF Insert
  <1> HIDE DEF row
  <1>3. AuditTypes'
    BY <1>1, <1>2 DEF AuditInv, AuditTypes
  <1>4. IdsOnce'
    <2>1. tx'[w] = row /\ \A v \in Workers \ {w} : tx'[v] = tx[v]
      BY <1>1, <1>2
    <2>2. Numbered(committed)'
      BY <1>2 DEF AuditInv, IdsOnce, Numbered
    <2>3. \A r \in committed : r.id \in Nat /\ r.id < nextId
      BY DEF AuditInv, IdsOnce, Numbered
    <2>4. \A v \in Workers : tx[v] # NoRow => tx[v].id \in Nat /\ tx[v].id < nextId
      BY <1>1 DEF AuditInv, IdsOnce, AuditRows
    <2>5. \A r \in committed' : r.id < nextId'
      BY <1>1, <1>2, <2>3
    <2>6. \A v \in Workers : tx'[v] # NoRow =>
            tx'[v].id < nextId' /\ \A r \in committed' : r.id # tx'[v].id
      <3> SUFFICES ASSUME NEW v \in Workers, tx'[v] # NoRow
                   PROVE  tx'[v].id < nextId' /\ \A r \in committed : r.id # tx'[v].id
        BY <1>2
      <3>1. CASE v = w
        BY <1>1, <1>2, <2>1, <2>3, <3>1
      <3>2. CASE v # w
        <4>1. tx'[v] = tx[v] /\ tx[v].id < nextId /\ tx[v].id \in Nat
          BY <2>1, <2>4, <3>2
        <4>2. \A r \in committed : r.id # tx[v].id
          BY <4>1 DEF AuditInv, IdsOnce
        <4>3. QED
          BY <1>1, <1>2, <4>1, <4>2
      <3>3. QED
        BY <3>1, <3>2
    <2>7. \A v, u \in Workers :
            tx'[v] # NoRow /\ tx'[u] # NoRow /\ tx'[v].id = tx'[u].id => v = u
      <3> SUFFICES ASSUME NEW v \in Workers, NEW u \in Workers, tx'[v] # NoRow,
                          tx'[u] # NoRow, tx'[v].id = tx'[u].id, v # u
                   PROVE  FALSE
        OBVIOUS
      <3>1. CASE v = w
        BY <1>1, <2>1, <2>4, <3>1
      <3>2. CASE u = w
        BY <1>1, <2>1, <2>4, <3>2
      <3>3. CASE v # w /\ u # w
        BY <2>1, <3>3 DEF AuditInv, IdsOnce
      <3>4. QED
        BY <3>1, <3>2, <3>3
    <2>8. QED
      BY <2>2, <2>5, <2>6, <2>7 DEF IdsOnce
  <1>5. FirstRead' /\ Passed' /\ FollowedInOrder' /\ PageHasNoHole'
    BY <1>2 DEF AuditInv, FirstRead, Passed, FollowedInOrder, PageHasNoHole
  <1>6. QED
    BY <1>3, <1>4, <1>5 DEF AuditInv

LEMMA CommitKeeps ==
  ASSUME AuditInv, NEW w \in Workers, CommitRow(w)
  PROVE  AuditInv'
  <1>1. /\ tx \in [Workers -> AuditRows \cup {NoRow}] /\ tx[w] \in AuditRows
        /\ tx[w].id \in Nat \ {0}
    BY DEF AuditInv, AuditTypes, CommitRow, AuditRows
  <1>2. /\ tx[w] # NoRow /\ committed' = committed \cup {tx[w]}
        /\ tx' = [tx EXCEPT ![w] = NoRow]
        /\ UNCHANGED <<nextId, filter, cursor, received, page>>
    BY DEF CommitRow
  <1>3. AuditTypes'
    BY <1>1, <1>2 DEF AuditInv, AuditTypes
  <1>4. IdsOnce'
    <2>1. tx'[w] = NoRow /\ \A v \in Workers \ {w} : tx'[v] = tx[v]
      BY <1>1, <1>2
    <2>2. Numbered(committed)'
      <3>1. IsFiniteSet(committed')
        BY <1>2, FS_AddElement DEF AuditInv, IdsOnce, Numbered
      <3>2. \A r \in committed : r.id # tx[w].id
        BY <1>2 DEF AuditInv, IdsOnce
      <3>3. QED
        BY <1>1, <1>2, <3>1, <3>2 DEF AuditInv, IdsOnce, Numbered
    <2>3. \A r \in committed' : r.id < nextId'
      BY <1>2 DEF AuditInv, IdsOnce
    <2>4. \A v \in Workers : tx'[v] # NoRow =>
            tx'[v].id < nextId' /\ \A r \in committed' : r.id # tx'[v].id
      BY <1>2, <2>1 DEF AuditInv, IdsOnce
    <2>5. \A v, u \in Workers :
            tx'[v] # NoRow /\ tx'[u] # NoRow /\ tx'[v].id = tx'[u].id => v = u
      BY <2>1 DEF AuditInv, IdsOnce
    <2>6. QED
      BY <2>2, <2>3, <2>4, <2>5 DEF IdsOnce
  <1>5. FirstRead' /\ Passed' /\ FollowedInOrder' /\ PageHasNoHole'
    BY <1>2 DEF AuditInv, FirstRead, Passed, FollowedInOrder, PageHasNoHole
  <1>6. QED
    BY <1>3, <1>4, <1>5 DEF AuditInv

LEMMA RollbackKeeps ==
  ASSUME AuditInv, NEW w \in Workers, RollbackRow(w)
  PROVE  AuditInv'
  <1>1. /\ tx' = [tx EXCEPT ![w] = NoRow]
        /\ UNCHANGED <<nextId, committed, filter, cursor, received, page>>
    BY DEF RollbackRow
  <1>2. AuditTypes'
    BY <1>1 DEF AuditInv, AuditTypes
  <1>3. tx'[w] = NoRow /\ \A v \in Workers \ {w} : tx'[v] = tx[v]
    BY <1>1 DEF AuditInv, AuditTypes
  <1>4. Numbered(committed)'
    BY <1>1 DEF AuditInv, IdsOnce, Numbered
  <1>5. IdsOnce'
    BY <1>1, <1>3, <1>4 DEF AuditInv, IdsOnce
  <1>6. FirstRead' /\ Passed' /\ FollowedInOrder' /\ PageHasNoHole'
    BY <1>1 DEF AuditInv, FirstRead, Passed, FollowedInOrder, PageHasNoHole
  <1>7. QED
    BY <1>2, <1>5, <1>6 DEF AuditInv

-----------------------------------------------------------------------------
(* Readers.                                                                *)

LEMMA AskKeeps ==
  ASSUME AuditInv, NEW order \in {"asc", "desc"}, NEW limit \in Nat \ {0},
         Ask(order, limit)
  PROVE  AuditInv'
  <1> DEFINE since == IF order = "asc" THEN cursor ELSE 0
             first == First(Selected("actions", filter, since, committed), order, limit)
  <1>1. /\ page' = [at |-> "second", order |-> order, limit |-> limit, since |-> since,
                    before |-> committed, first |-> first, items |-> <<>>]
        /\ UNCHANGED <<nextId, tx, committed, filter, cursor, received>>
    BY DEF Ask, Statement
  <1>2. first \in SUBSET committed
    BY SelectedIs DEF AuditInv, IdsOnce
  <1>3. committed \in SUBSET AuditRows /\ cursor \in Nat /\ since \in Nat
    BY DEF AuditInv, AuditTypes
  <1>4. /\ page'.at = "second" /\ page'.order = order /\ page'.limit = limit
        /\ page'.since = since /\ page'.before = committed /\ page'.first = first
    BY <1>1
  <1>5. AuditTypes'
    <2>1. page' \in [at : {"none", "second", "read"}, order : {"asc", "desc"},
                     limit : Nat, since : Nat, before : SUBSET AuditRows,
                     first : SUBSET AuditRows, items : Seq(AuditRows)]
      <3> HIDE DEF since, first
      <3>1. QED
        BY <1>1, <1>2, <1>3
    <2>2. QED
      BY <1>1, <2>1 DEF AuditInv, AuditTypes
  <1>6. Numbered(committed)'
    BY <1>1 DEF AuditInv, IdsOnce, Numbered
  <1>7. IdsOnce'
    BY <1>1, <1>6 DEF AuditInv, IdsOnce
  <1>8. FirstRead'
    BY <1>1, <1>4 DEF FirstRead
  <1>9. Passed' /\ FollowedInOrder' /\ PageHasNoHole'
    BY <1>1, <1>4 DEF AuditInv, Passed, FollowedInOrder, PageHasNoHole
  <1>10. QED
    BY <1>5, <1>7, <1>8, <1>9 DEF AuditInv

\* What the two statements of the page being read return.
Fetched ==
  page.first \cup IF "admin_actions" \in Searched(filter)
                  THEN Statement("admin_actions", page) ELSE {}

LEMMA FetchedIs ==
  ASSUME AuditInv, page.at = "second"
  PROVE  /\ Fetched \in SUBSET committed /\ Numbered(Fetched)
         /\ \A row \in Fetched : row.id > page.since
  <1>1. Numbered(committed) /\ Numbered(page.before) /\ page.before \in SUBSET committed
    BY NumberedSubset DEF AuditInv, IdsOnce, FirstRead
  <1> DEFINE A == Selected("actions", filter, page.since, page.before)
             B == Selected("admin_actions", filter, page.since, committed)
  <1>2. page.first \in SUBSET A /\ A \in SUBSET committed
    BY <1>1, SelectedIs DEF AuditInv, FirstRead
  <1>3. Statement("admin_actions", page) \in SUBSET B /\ B \in SUBSET committed
    BY <1>1, SelectedIs DEF Statement
  <1>4. \A row \in A \cup B : row.id > page.since
    BY DEF Selected, Since
  <1>5. Fetched \in SUBSET (A \cup B)
    BY <1>2, <1>3 DEF Fetched
  <1> HIDE DEF A, B
  <1>6. Fetched \in SUBSET committed
    BY <1>2, <1>3, <1>5
  <1>7. QED
    BY <1>1, <1>4, <1>5, <1>6, NumberedSubset

\* A row the page was to have, and the merge of both results leaves out, comes
\* after a full page: its own statement returned it or a full page before it.
LEMMA NoneLeftOut ==
  ASSUME AuditInv, page.at = "second", NEW row \in page.before,
         Matches(row, filter), row.id > page.since,
         row \notin First(Fetched, page.order, page.limit)
  PROVE  /\ Cardinality(First(Fetched, page.order, page.limit)) = page.limit
         /\ \A r \in First(Fetched, page.order, page.limit) :
              Before(r, row, page.order)
  <1> DEFINE order == page.order
             limit == page.limit
  <1>1. /\ limit \in Nat \ {0} /\ page.before \in SUBSET committed
        /\ Numbered(committed) /\ Numbered(page.before) /\ Numbered(Fetched)
        /\ row.id \in Nat
    BY FetchedIs, NumberedSubset DEF AuditInv, IdsOnce, FirstRead, Numbered
  <1>2. SUFFICES ASSUME ~(Rank(Fetched, row, order) >= limit) PROVE FALSE
    BY <1>1, PastFirst
  <1>3. IsFiniteSet(Fetched) /\ Rank(Fetched, row, order) \in Nat
    BY <1>1, RankType DEF Numbered
  \* If a statement selects the row, it returns the row or a full page before it.
  <1>4. ASSUME NEW S, Numbered(S), row \in S,
               First(S, order, limit) \in SUBSET Fetched
        PROVE  FALSE
    <2>1. row \notin First(S, order, limit)
      <3>1. row \notin Fetched
        BY <1>1, <1>2, <1>3, <1>4 DEF First
      <3>2. QED
        BY <1>4, <3>1
    <2>2. IsFiniteSet(S) /\ Rank(S, row, order) \in Nat
      BY <1>4, RankType DEF Numbered
    <2>3. Rank(S, row, order) >= limit
      BY <1>1, <1>4, <2>1, <2>2 DEF First
    <2>4. /\ Cardinality(First(S, order, limit)) = limit
          /\ \A r \in First(S, order, limit) : Before(r, row, order)
      BY <1>1, <1>4, <2>3, PastFirst
    <2>5. limit <= Rank(Fetched, row, order)
      BY <1>3, <1>4, <2>4, RankAtLeast
    <2>6. QED
      BY <1>2, <2>5, <1>1, <1>3
  <1>5. row.kind.table \in Searched(filter) /\ row.kind.table \in {"actions", "admin_actions"}
    BY DEF Matches, Searched, Tables
  <1>6. CASE row.kind.table = "actions"
    <2> DEFINE A == Selected("actions", filter, page.since, page.before)
    <2>0. Numbered(A)
      BY <1>1, SelectedIs
    <2>1. row \in A
      BY <1>1, <1>6 DEF Selected, Since
    <2>2. First(A, order, limit) \in SUBSET Fetched
      BY DEF AuditInv, FirstRead, Fetched
    <2> HIDE DEF A
    <2>3. QED
      BY <1>4, <2>0, <2>1, <2>2
  <1>7. CASE row.kind.table = "admin_actions"
    <2> DEFINE B == Selected("admin_actions", filter, page.since, committed)
    <2>0. Numbered(B)
      BY <1>1, SelectedIs
    <2>1. row \in B
      BY <1>1, <1>7 DEF Selected, Since
    <2>2. First(B, order, limit) \in SUBSET Fetched
      BY <1>5, <1>7 DEF Statement, Fetched
    <2> HIDE DEF B
    <2>3. QED
      BY <1>4, <2>0, <2>1, <2>2
  <1>8. QED
    BY <1>5, <1>6, <1>7

\* A finite set of rows that is not empty has a greatest id.
LEMMA GreatestId ==
  ASSUME NEW rows, Numbered(rows), rows # {}
  PROVE  /\ Max({row.id : row \in rows}) \in Nat
         /\ \E row \in rows : row.id = Max({r.id : r \in rows})
         /\ \A row \in rows : row.id <= Max({r.id : r \in rows})
  <1> DEFINE s == Sorted(rows, "asc")
             n == Cardinality(rows)
             ids == {row.id : row \in rows}
  <1>1. n \in Nat \ {0}
    BY FS_EmptySet, FS_CardinalityType DEF Numbered
  <1>2. /\ s \in Seq(rows) /\ Len(s) = n /\ ToSet(s) = rows
        /\ \A i, j \in DOMAIN s : i < j => Before(s[i], s[j], "asc")
    BY SortedIs
  <1>3. DOMAIN s = 1..n /\ n \in DOMAIN s /\ s[n] \in rows
    <2> HIDE DEF s, n
    <2>1. QED
      BY <1>1, <1>2
  <1>4. \A row \in rows : row.id \in Nat
    BY DEF Numbered
  <1>5. ASSUME NEW row \in rows PROVE row.id <= s[n].id
    <2> HIDE DEF s, n
    <2>1. PICK i \in DOMAIN s : row = s[i]
      BY <1>2 DEF ToSet
    <2>2. CASE i = n
      BY <1>4, <2>1, <2>2
    <2>3. CASE i # n
      <3>1. i < n
        BY <1>1, <1>3, <2>1, <2>3
      <3>2. Before(row, s[n], "asc")
        BY <1>2, <1>3, <2>1, <3>1
      <3>3. QED
        BY <1>3, <1>4, <3>2 DEF Before
    <2>4. QED
      BY <2>2, <2>3
  <1>6. s[n].id \in ids /\ \A k \in ids : s[n].id >= k
    BY <1>3, <1>4, <1>5
  <1>7. Max(ids) \in ids /\ \A k \in ids : Max(ids) >= k
    <2> HIDE DEF ids, s, n
    <2>1. \E m \in ids : \A k \in ids : m >= k
      BY <1>6
    <2>2. QED
      BY <2>1 DEF Max
  <1>8. Max(ids) \in Nat
    BY <1>4, <1>7
  <1>9. QED
    BY <1>4, <1>7, <1>8

LEMMA AnswerKeeps ==
  ASSUME AuditInv, Answer
  PROVE  AuditInv'
  <1> DEFINE top == First(Fetched, page.order, page.limit)
             list == Sorted(top, page.order)
  <1>1. page.at = "second" /\ page.limit \in Nat \ {0}
    BY DEF Answer, AuditInv, FirstRead
  <1>2. /\ page' = [page EXCEPT !.at = "read", !.items = list, !.first = {}]
        /\ page.order = "asc" =>
             cursor' = NextSince(page, Fetched) /\ received' = received \o list
        /\ page.order # "asc" => cursor' = cursor /\ received' = received
        /\ UNCHANGED <<nextId, tx, committed, filter>>
    BY DEF Answer, Merged, Fetched
  <1>3. /\ Fetched \in SUBSET committed /\ Numbered(Fetched)
        /\ \A row \in Fetched : row.id > page.since
    BY <1>1, FetchedIs
  <1>4. Numbered(top) /\ top \in SUBSET Fetched
    <2>1. top \in SUBSET Fetched
      BY DEF First
    <2>2. Numbered(top)
      BY <1>3, <2>1, NumberedSubset
    <2>3. QED
      BY <2>1, <2>2
  <1>5. committed \in SUBSET AuditRows /\ cursor \in Nat /\ received \in Seq(AuditRows)
        /\ page \in [at : {"none", "second", "read"}, order : {"asc", "desc"},
                     limit : Nat, since : Nat, before : SUBSET AuditRows,
                     first : SUBSET AuditRows, items : Seq(AuditRows)]
    BY DEF AuditInv, AuditTypes
  <1>6. /\ list \in Seq(top) /\ Len(list) = Cardinality(top) /\ ToSet(list) = top
        /\ \A i, j \in DOMAIN list : i < j => Before(list[i], list[j], page.order)
    BY <1>4, SortedIs
  <1> HIDE DEF list, top
  <1>7. list \in Seq(AuditRows)
    BY <1>3, <1>4, <1>5, <1>6
  <1>8. /\ page'.at = "read" /\ page'.items = list /\ page'.order = page.order
        /\ page'.limit = page.limit /\ page'.since = page.since
        /\ page'.before = page.before
        /\ page' \in [at : {"none", "second", "read"}, order : {"asc", "desc"},
                      limit : Nat, since : Nat, before : SUBSET AuditRows,
                      first : SUBSET AuditRows, items : Seq(AuditRows)]
    BY <1>2, <1>5, <1>7
  \* What a follower is given lies between the old cursor and the new one.
  <1>9. ASSUME page.order = "asc"
        PROVE  /\ cursor' \in Nat /\ cursor <= cursor'
               /\ \A i \in DOMAIN list :
                    list[i] \in AuditRows /\ cursor < list[i].id /\ list[i].id <= cursor'
    <2>1. page.since = cursor
      BY <1>1, <1>9 DEF AuditInv, FirstRead
    <2>2. CASE Fetched = {}
      <3>1. cursor' = cursor
        BY <1>2, <1>9, <2>2 DEF NextSince
      <3>2. DOMAIN list = {}
        BY <1>4, <1>6, <2>2 DEF ToSet
      <3>3. QED
        BY <1>5, <3>1, <3>2
    <2>3. CASE Fetched # {}
      <3>1. top # {}
        <4>1. Cardinality(Fetched) \in Nat /\ Cardinality(Fetched) # 0
          BY <1>3, <2>3, FS_EmptySet, FS_CardinalityType DEF Numbered
        <4>2. 1 <= Cardinality(Fetched)
          BY <4>1
        <4>3. Cardinality(First(Fetched, page.order, 1)) = 1
          BY <1>3, <4>2, FirstSize
        <4>4. PICK row : row \in First(Fetched, page.order, 1)
          BY <4>3, FS_EmptySet
        <4>5. Rank(Fetched, row, page.order) \in Nat /\ row \in Fetched
              /\ Rank(Fetched, row, page.order) < 1
          BY <1>3, <4>4, RankType DEF First, Numbered
        <4>6. Rank(Fetched, row, page.order) < page.limit
          BY <1>1, <4>5
        <4>7. QED
          BY <4>5, <4>6 DEF First, top
      <3>2. cursor' = Max({row.id : row \in top})
        BY <1>2, <1>9, <2>3 DEF NextSince, top
      <3>3. cursor' \in Nat /\ \A row \in top : row.id <= cursor'
        BY <1>4, <3>1, <3>2, GreatestId
      <3>4. \A i \in DOMAIN list : list[i] \in top
        BY <1>6 DEF ToSet
      <3>5. \A row \in top : row \in AuditRows /\ cursor < row.id /\ row.id \in Nat
        BY <1>3, <1>4, <1>5, <2>1 DEF AuditRows
      <3>6. cursor <= cursor'
        <4>1. PICK row : row \in top
          BY <3>1
        <4>2. QED
          BY <1>5, <3>3, <3>5, <4>1
      <3>7. QED
        BY <3>3, <3>4, <3>5, <3>6
    <2>4. QED
      BY <2>2, <2>3
  <1>10. AuditTypes'
    <2>1. cursor' \in Nat /\ received' \in Seq(AuditRows)
      <3>1. CASE page.order = "asc"
        <4>1. cursor' \in Nat
          BY <1>9, <3>1
        <4>2. received' = received \o list
          BY <1>2, <3>1
        <4>3. QED
          BY <1>5, <1>7, <4>1, <4>2, ConcatProperties
      <3>2. CASE page.order # "asc"
        BY <1>2, <1>5, <3>2
      <3>3. QED
        BY <3>1, <3>2
    <2>2. QED
      BY <1>2, <1>8, <2>1 DEF AuditInv, AuditTypes
  <1>11. IdsOnce'
    <2>1. Numbered(committed)'
      BY <1>2 DEF AuditInv, IdsOnce, Numbered
    <2>2. QED
      BY <1>2, <2>1 DEF AuditInv, IdsOnce
  <1>12. FirstRead'
    BY <1>8 DEF FirstRead
  <1>13. Passed' /\ FollowedInOrder'
    <2>1. CASE page.order = "asc"
      <3> DEFINE m == Len(received)
      <3>1. /\ received' = received \o list /\ m \in Nat /\ Len(list) \in Nat
            /\ Len(received') = m + Len(list)
            /\ \A i \in 1..m : received'[i] = received[i]
            /\ \A i \in 1..Len(list) : received'[m + i] = list[i]
        <4>1. received' = received \o list
          BY <1>2, <2>1
        <4>2. Len(received) \in Nat /\ Len(list) \in Nat
          BY <1>5, <1>7
        <4>3. /\ Len(received \o list) = Len(received) + Len(list)
              /\ \A i \in 1..Len(received) + Len(list) :
                   (received \o list)[i] = IF i <= Len(received) THEN received[i]
                                           ELSE list[i - Len(received)]
          BY <1>5, <1>7, ConcatProperties
        <4>4. \A i \in 1..Len(received) : (received \o list)[i] = received[i]
          BY <4>2, <4>3
        <4>5. \A i \in 1..Len(list) : (received \o list)[Len(received) + i] = list[i]
          <5> HIDE DEF m
          <5> SUFFICES ASSUME NEW i \in 1..Len(list)
                       PROVE  (received \o list)[Len(received) + i] = list[i]
            OBVIOUS
          <5>1. /\ Len(received) + i \in 1..Len(received) + Len(list)
                /\ ~(Len(received) + i <= Len(received))
                /\ (Len(received) + i) - Len(received) = i
            BY <4>2
          <5>2. QED
            BY <4>3, <5>1
        <4>6. QED
          BY <4>1, <4>2, <4>3, <4>4, <4>5
      <3>2. /\ DOMAIN received' = 1..(m + Len(list)) /\ DOMAIN received = 1..m
            /\ DOMAIN list = 1..Len(list)
        BY <1>2, <1>5, <1>7, <2>1, <3>1
      <3> HIDE DEF m
      \* An index is one of what was received or one of the page.
      <3>3. \A k \in DOMAIN received' :
              k \notin 1..m => k - m \in DOMAIN list /\ received'[k] = list[k - m]
        <4> SUFFICES ASSUME NEW k \in DOMAIN received', k \notin 1..m
                     PROVE  k - m \in DOMAIN list /\ received'[k] = list[k - m]
          OBVIOUS
        <4>1. k \in Int /\ m < k /\ k <= m + Len(list)
          BY <3>1, <3>2
        <4>2. k - m \in 1..Len(list) /\ m + (k - m) = k
          BY <3>1, <4>1
        <4>3. QED
          BY <3>1, <3>2, <4>2
      <3>4. \A i \in 1..m : received[i].id \in Nat /\ received[i].id <= cursor
        <4>1. \A i \in 1..m : received[i] \in AuditRows
          <5>1. \A i \in 1..Len(received) : received[i] \in AuditRows
            BY <1>5, ElementOfSeq
          <5>2. QED
            BY <5>1 DEF m
        <4>2. \A i \in 1..m : received[i].id <= cursor
          BY <3>2 DEF AuditInv, Passed
        <4>3. QED
          BY <4>1, <4>2 DEF AuditRows
      <3>5. \A i \in DOMAIN list : list[i].id \in Nat
        BY <1>9, <2>1 DEF AuditRows
      <3>6. Passed'
        <4> SUFFICES ASSUME NEW k \in DOMAIN received' PROVE received'[k].id <= cursor'
          BY DEF Passed
        <4>1. CASE k \in 1..m
          <5>1. received'[k].id \in Nat /\ received'[k].id <= cursor
            BY <3>1, <3>4, <4>1
          <5>2. QED
            BY <1>5, <1>9, <2>1, <5>1
        <4>2. CASE k \notin 1..m
          BY <1>9, <2>1, <3>3, <4>2
        <4>3. QED
          BY <4>1, <4>2
      <3>7. FollowedInOrder'
        <4> SUFFICES ASSUME NEW i \in DOMAIN received', NEW j \in DOMAIN received', i < j
                     PROVE  received'[i].id < received'[j].id
          BY DEF FollowedInOrder
        <4>1. CASE i \in 1..m /\ j \in 1..m
          BY <3>1, <3>2, <4>1 DEF AuditInv, FollowedInOrder
        <4>2. CASE i \in 1..m /\ j \notin 1..m
          <5>1. received'[i].id \in Nat /\ received'[i].id <= cursor
            BY <3>1, <3>4, <4>2
          <5>2. cursor < received'[j].id /\ received'[j].id \in Nat
            BY <1>9, <2>1, <3>3, <3>5, <4>2
          <5>3. QED
            BY <1>5, <5>1, <5>2
        <4>3. CASE i \notin 1..m /\ j \notin 1..m
          <5>1. i - m < j - m
            BY <3>1, <3>2
          <5>2. Before(list[i - m], list[j - m], page.order)
            BY <1>6, <3>3, <4>3, <5>1
          <5>3. QED
            BY <2>1, <3>3, <4>3, <5>2 DEF Before
        <4>4. i \notin 1..m => j \notin 1..m
          BY <3>1, <3>2
        <4>5. QED
          BY <4>1, <4>2, <4>3, <4>4
      <3>8. QED
        BY <3>6, <3>7
    <2>2. CASE page.order # "asc"
      BY <1>2, <2>2 DEF AuditInv, Passed, FollowedInOrder
    <2>3. QED
      BY <2>1, <2>2
  <1>14. PageHasNoHole'
    <2> SUFFICES ASSUME NEW row \in page.before, row \notin ToSet(list),
                        Matches(row, filter), ~(row.id <= page.since)
                 PROVE  /\ Len(list) = page.limit
                        /\ \A i \in DOMAIN list :
                             IF page.order = "asc" THEN list[i].id < row.id
                                                   ELSE list[i].id > row.id
      <3>1. \A row : Matches(row, filter)' = Matches(row, filter)
        BY <1>2 DEF Matches, Searched
      <3>2. QED
        BY <1>8, <3>1 DEF PageHasNoHole
    <2>1. row \notin top /\ row.id > page.since
      <3>1. row.id \in Nat /\ page.since \in Nat
        BY <1>5 DEF AuditRows
      <3>2. QED
        BY <1>6, <3>1
    <2>2. /\ Cardinality(top) = page.limit
          /\ \A r \in top : Before(r, row, page.order)
      BY <1>1, <2>1, NoneLeftOut DEF top
    <2>3. \A i \in DOMAIN list : list[i] \in top
      BY <1>6 DEF ToSet
    <2>4. QED
      BY <1>6, <2>2, <2>3 DEF Before
  <1>15. QED
    BY <1>10, <1>11, <1>12, <1>13, <1>14 DEF AuditInv

-----------------------------------------------------------------------------

\* What a page leaves out, of the rows committed before it was asked for, its
\* reader's cursor does not pass.
NothingPassed ==
  [][\A row \in page.before :
       Matches(row, filter) /\ cursor < row.id /\ row.id <= cursor'
         => row \in ToSet(received')]_auditVars

LEMMA AnswerPassesNothing ==
  ASSUME AuditInv, Answer, NEW row \in page.before, Matches(row, filter),
         cursor < row.id, row.id <= cursor'
  PROVE  row \in ToSet(received')
  <1> DEFINE top == First(Fetched, page.order, page.limit)
             list == Sorted(top, page.order)
  <1>1. page.at = "second"
    BY DEF Answer
  <1>2. /\ page.order = "asc" =>
             cursor' = NextSince(page, Fetched) /\ received' = received \o list
        /\ page.order # "asc" => cursor' = cursor
    BY DEF Answer, Merged, Fetched
  <1>3. /\ page.before \in SUBSET AuditRows /\ cursor \in Nat
        /\ committed \in SUBSET AuditRows /\ received \in Seq(AuditRows)
    BY DEF AuditInv, AuditTypes
  <1>4. row.id \in Nat
    BY <1>3 DEF AuditRows
  <1>5. page.order = "asc"
    BY <1>2, <1>3, <1>4
  <1>6. page.since = cursor
    BY <1>1, <1>5 DEF AuditInv, FirstRead
  <1>7. Fetched \in SUBSET committed /\ Numbered(Fetched)
    BY <1>1, FetchedIs
  <1>8. top \in SUBSET Fetched /\ Numbered(top)
    <2>1. top \in SUBSET Fetched
      BY DEF First
    <2>2. QED
      BY <1>7, <2>1, NumberedSubset
  \* Otherwise a full page comes before the row, and the cursor with it.
  <1>9. ASSUME row \notin top PROVE FALSE
    <2>1. \A r \in top : r.id < row.id
      BY <1>1, <1>4, <1>5, <1>6, <1>9, NoneLeftOut DEF Before
    <2>2. top # {}
      <3>1. Cardinality(top) = page.limit /\ page.limit # 0
        BY <1>1, <1>6, <1>9, NoneLeftOut DEF AuditInv, FirstRead
      <3>2. QED
        BY <3>1, FS_EmptySet
    <2>3. Fetched # {}
      BY <1>8, <2>2
    <2>4. cursor' = Max({r.id : r \in top})
      BY <1>2, <1>5, <2>3 DEF NextSince
    <2> HIDE DEF top
    <2>5. PICK last \in top : last.id = cursor'
      BY <1>8, <2>2, <2>4, GreatestId
    <2>6. last.id \in Nat /\ last.id < row.id
      BY <1>8, <2>1, <2>5 DEF Numbered
    <2>7. QED
      BY <1>4, <2>5, <2>6
  <1>10. list \in Seq(top) /\ ToSet(list) = top
    BY <1>8, SortedIs
  <1> HIDE DEF list, top
  <1>11. PICK i \in 1..Len(list) : list[i] = row
    BY <1>9, <1>10 DEF ToSet
  <1>12. list \in Seq(AuditRows)
    BY <1>3, <1>7, <1>8, <1>10
  <1>13. /\ Len(received) \in Nat /\ Len(list) \in Nat
         /\ received \o list \in Seq(AuditRows)
         /\ Len(received \o list) = Len(received) + Len(list)
         /\ \A k \in 1..Len(received) + Len(list) :
              (received \o list)[k] = IF k <= Len(received) THEN received[k]
                                      ELSE list[k - Len(received)]
    BY <1>3, <1>12, ConcatProperties
  <1>14. /\ Len(received) + i \in 1..Len(received) + Len(list)
         /\ ~(Len(received) + i <= Len(received))
         /\ (Len(received) + i) - Len(received) = i
    BY <1>11, <1>13
  <1>15. (received \o list)[Len(received) + i] = row
    BY <1>11, <1>13, <1>14
  <1>16. Len(received) + i \in DOMAIN (received \o list)
    BY <1>13, <1>14
  <1>17. QED
    BY <1>2, <1>5, <1>15, <1>16 DEF ToSet

LEMMA AuditStep == AuditInv /\ [AuditNext]_auditVars => AuditInv'
  <1> SUFFICES ASSUME AuditInv, [AuditNext]_auditVars PROVE AuditInv'
    OBVIOUS
  <1>1. ASSUME NEW w \in Workers, CommitRow(w) \/ RollbackRow(w) PROVE AuditInv'
    BY <1>1, CommitKeeps, RollbackKeeps
  <1>2. ASSUME NEW w \in Workers, NEW kind \in Kinds, Insert(w, kind) PROVE AuditInv'
    BY <1>2, InsertKeeps
  <1>3. ASSUME NEW order \in {"asc", "desc"}, NEW limit \in 1..MaxLimit,
               Ask(order, limit)
        PROVE  AuditInv'
    <2>1. limit \in Nat \ {0}
      BY AuditAssumption
    <2>2. QED
      BY <1>3, <2>1, AskKeeps
  <1>4. CASE Answer
    BY <1>4, AnswerKeeps
  <1>5. CASE UNCHANGED auditVars
    <2>1. UNCHANGED <<nextId, tx, committed, filter, cursor, received, page>>
      BY <1>5 DEF auditVars
    <2>2. AuditTypes'
      BY <2>1 DEF AuditInv, AuditTypes
    <2>3. Numbered(committed)'
      BY <2>1 DEF AuditInv, IdsOnce, Numbered
    <2>4. IdsOnce'
      BY <2>1, <2>3 DEF AuditInv, IdsOnce
    <2>5. FirstRead' /\ Passed' /\ FollowedInOrder' /\ PageHasNoHole'
      BY <2>1 DEF AuditInv, FirstRead, Passed, FollowedInOrder, PageHasNoHole
    <2>6. QED
      BY <2>2, <2>4, <2>5 DEF AuditInv
  <1>6. QED
    BY <1>1, <1>2, <1>3, <1>4, <1>5 DEF AuditNext

\* A follower is given entries in the order of their ids and none twice, for
\* any number of writers, whatever commits between and during its pages, of
\* whatever sizes, and whoever else reads.
THEOREM FollowerNeverGoesBack == AuditSpec => []FollowedInOrder
  <1>1. AuditInv => FollowedInOrder
    BY DEF AuditInv
  <1>2. QED
    BY <1>1, AuditBegins, AuditStep, PTL DEF AuditSpec

\* The merge of the two statements loses nothing that was committed before the
\* first of them, in either order and for every filter and limit.
THEOREM MergedPageIsWhole == AuditSpec => []PageHasNoHole
  <1>1. AuditInv => PageHasNoHole
    BY DEF AuditInv
  <1>2. QED
    BY <1>1, AuditBegins, AuditStep, PTL DEF AuditSpec

\* A follower's cursor passes no entry that was committed before the page was
\* asked for and that the filter admits, unless the entry is handed over: ids
\* that commit out of order are missed only when they commit during a page or
\* after their successors were read.
THEOREM FollowerPassesNothing == AuditSpec => NothingPassed
  <1> DEFINE A == \A row \in page.before :
                    Matches(row, filter) /\ cursor < row.id /\ row.id <= cursor'
                      => row \in ToSet(received')
  <1>1. AuditInv /\ [AuditNext]_auditVars => [A]_auditVars
    <2> SUFFICES ASSUME AuditInv, AuditNext PROVE A
      OBVIOUS
    <2> SUFFICES ASSUME NEW row \in page.before, Matches(row, filter),
                        cursor < row.id, row.id <= cursor'
                 PROVE  row \in ToSet(received')
      OBVIOUS
    <2>1. CASE Answer
      BY <2>1, AnswerPassesNothing
    <2>2. CASE cursor' = cursor
      <3>1. row.id \in Nat /\ cursor \in Nat
        BY DEF AuditInv, AuditTypes, AuditRows
      <3>2. QED
        BY <2>2, <3>1
    <2>3. Answer \/ cursor' = cursor
      BY DEF AuditNext, CommitRow, RollbackRow, Insert, Ask
    <2>4. QED
      BY <2>1, <2>2, <2>3
  <1>2. AuditSpec => [][A]_auditVars
    BY <1>1, AuditBegins, AuditStep, PTL DEF AuditSpec
  <1>3. QED
    BY <1>2 DEF NothingPassed
=============================================================================
