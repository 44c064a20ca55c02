--------------------------- MODULE ProofFetchProofs ---------------------------
(***************************************************************************)
(* For any number of fetches, hosts and resets: the policy's counters are  *)
(* the fetches under way, a permit is released once, and the threads of    *)
(* stalled fetches stay within the limit.                                  *)
(***************************************************************************)
EXTENDS ProofFetchPolicy, FiniteSetTheorems, TLAPS

HoldersOf(d) == {c \in Holders : permit[c].domain = d}

\* Where a request and its daemon can be together, and who holds the permit.
Places(c) ==
  /\ permit[c].generation <= generation
  /\ handed[c] => caller[c] = "idle" /\ worker[c] \in {"running", "releasing"}
  /\ worker[c] = "releasing" => handed[c]
  /\ caller[c] = "idle" /\ worker[c] # "none" => handed[c]
  /\ caller[c] = "starting" => worker[c] = "none"
  /\ caller[c] \in {"mark", "release"} => worker[c] \in {"none", "done"}
  /\ caller[c] \in {"waiting", "mark_late", "callback"}
       => worker[c] \in {"running", "done"}

Shape == \A c \in Fetches : Places(c)

WithinLimit ==
  generation = 0 /\ Limit > 0 => limit = Limit /\ active <= Limit

PermitInv == TypeOK /\ Shape /\ PermitsCounted /\ WithinLimit /\ ReleasedOnce

-----------------------------------------------------------------------------
(* Types.                                                                  *)

USE SetsAssumption, LimitsAssumption

LEMMA NoPermitType == NoPermit \in Permits
  <1>1. (CHOOSE d \in Domains : TRUE) \in Domains
    OBVIOUS
  <1>2. QED
    BY <1>1 DEF NoPermit, Permits

LEMMA CurrentType ==
  ASSUME TypeOK, NEW d \in Domains
  PROVE  /\ Current(d) \in Records
         /\ Current(d).active = IF d \in Kept(d) THEN record[d].active ELSE 0
  <1>1. record[d] \in Records
    BY DEF TypeOK
  <1>2. now \in Nat
    BY DEF TypeOK
  <1>3. NewRecord(now) \in Records /\ NewRecord(now).active = 0
    BY <1>2 DEF NewRecord, Records
  <1>4. QED
    BY <1>1, <1>2, <1>3 DEF Current, Records

\* Pruning takes only records without a fetch.
LEMMA KeptBusy ==
  ASSUME TypeOK, NEW d \in Domains
  PROVE  /\ Kept(d) \subseteq tracked
         /\ \A x \in tracked \ Kept(d) : record[x].active = 0
  BY DEF Kept, Pruned, Stale, TypeOK

LEMMA CountedIn ==
  ASSUME NEW r \in Records
  PROVE  [r EXCEPT !.count = @ + 1, !.active = @ + 1] \in Records
  <1>1. [r EXCEPT !.count = @ + 1] \in Records
    BY DEF Records
  <1>2. ASSUME NEW s \in Records
        PROVE  [s EXCEPT !.active = @ + 1] \in Records
    BY DEF Records
  <1>3. [r EXCEPT !.count = @ + 1, !.active = @ + 1]
          = [[r EXCEPT !.count = @ + 1] EXCEPT !.active = @ + 1]
    OBVIOUS
  <1>4. QED
    BY <1>1, <1>2, <1>3

LEMMA AdmitType ==
  ASSUME TypeOK, NEW c \in Fetches, NEW d \in Domains, Admit(c, d)
  PROVE  TypeOK'
  <1>1. Current(d) \in Records
    BY CurrentType
  <1>2. [Current(d) EXCEPT !.count = @ + 1, !.active = @ + 1] \in Records
    BY <1>1, CountedIn
  <1>3. record' \in [Domains -> Records]
    BY <1>2 DEF Admit, TypeOK
  <1>4. tracked' \subseteq Domains /\ lastPruned' \in Nat
    BY KeptBusy DEF Admit, PruneFor, TypeOK
  <1>5. permit' \in [Fetches -> Permits]
    BY DEF Admit, TypeOK, Permits
  <1>6. QED
    BY <1>3, <1>4, <1>5 DEF Admit, TypeOK

LEMMA TurnAwayType ==
  ASSUME TypeOK, NEW d \in Domains, TurnAway(d)
  PROVE  TypeOK'
  <1>1. record' \in [Domains -> Records]
    BY CurrentType DEF TurnAway, TypeOK
  <1>2. tracked' \subseteq Domains /\ lastPruned' \in Nat
    BY KeptBusy DEF TurnAway, PruneFor, TypeOK
  <1>3. QED
    BY <1>1, <1>2 DEF TurnAway, TypeOK, threads

LEMMA MarkType ==
  ASSUME TypeOK, NEW c \in Fetches, Mark(c)
  PROVE  TypeOK'
  <1> DEFINE d == permit[c].domain
  <1>1. d \in Domains /\ record[d] \in Records /\ now \in Nat
    BY DEF TypeOK, Permits
  <1>2. Failed(d) \in Records
    BY <1>1 DEF Failed, Records
  <1>3. record' \in [Domains -> Records]
    BY <1>1, <1>2 DEF Mark, MarkFailed, TypeOK, policy
  <1>4. /\ tracked' \subseteq Domains /\ lastPruned' \in Nat
        /\ limit' = limit /\ active' = active /\ generation' = generation
    BY DEF Mark, MarkFailed, TypeOK, policy
  <1>5. caller' \in [Fetches -> {"idle", "starting", "waiting", "mark", "mark_late",
                                 "callback", "release"}]
    BY DEF Mark, Moves, TypeOK
  <1>6. QED
    BY <1>3, <1>4, <1>5 DEF Mark, TypeOK

LEMMA ReleaseType ==
  ASSUME TypeOK, NEW c \in Fetches, Release(c)
  PROVE  /\ tracked' = tracked /\ limit' = limit /\ lastPruned' = lastPruned
         /\ generation' = generation /\ active' \in Nat
         /\ record' \in [Domains -> Records] /\ broken' \in BOOLEAN
  <1> DEFINE d == permit[c].domain
  <1>1. d \in Domains /\ record[d] \in Records /\ active \in Nat
    BY DEF TypeOK, Permits
  <1>2. CASE Returned(c) /\ broken' = broken /\ active > 0 /\ record[d].active > 0
    <2>1. [record[d] EXCEPT !.active = @ - 1] \in Records
      BY <1>1, <1>2 DEF Records
    <2>2. record' \in [Domains -> Records]
      BY <1>1, <1>2, <2>1 DEF Returned, TypeOK
    <2>3. QED
      BY <1>1, <1>2, <2>2 DEF Returned, TypeOK
  <1>3. CASE UNCHANGED policy /\ broken' \in BOOLEAN
    BY <1>3 DEF policy, TypeOK
  <1>4. QED
    <2>1. record[d].active \in Nat /\ broken \in BOOLEAN
      BY <1>1 DEF Records, TypeOK
    <2>2. CASE permit[c].generation # generation
      BY <1>3, <2>1, <2>2 DEF Release
    <2>3. CASE permit[c].generation = generation /\ (active <= 0 \/ d \notin tracked \/ record[d].active <= 0)
      BY <1>3, <2>3 DEF Release
    <2>4. CASE permit[c].generation = generation /\ ~(active <= 0 \/ d \notin tracked \/ record[d].active <= 0)
      <3>1. active > 0 /\ record[d].active > 0
        BY <1>1, <2>1, <2>4
      <3>2. Returned(c) /\ broken' = broken
        BY <2>4 DEF Release
      <3>3. QED
        BY <1>2, <3>1, <3>2
    <2>5. QED
      BY <2>2, <2>3, <2>4

LEMMA TypeStep == TypeOK /\ [Next]_vars => TypeOK'
  <1> SUFFICES ASSUME TypeOK, [Next]_vars PROVE TypeOK'
    OBVIOUS
  <1>1. ASSUME NEW c \in Fetches, NEW d \in Domains, Admit(c, d) PROVE TypeOK'
    BY <1>1, AdmitType
  <1>2. ASSUME NEW d \in Domains, TurnAway(d) PROVE TypeOK'
    BY <1>2, TurnAwayType
  <1>3. ASSUME NEW c \in Fetches, Start(c) PROVE TypeOK'
    BY <1>3 DEF Start, Moves, TypeOK, policy
  <1>4. ASSUME NEW c \in Fetches, Result(c) PROVE TypeOK'
    BY <1>4 DEF Result, Moves, TypeOK, policy
  <1>5. ASSUME NEW c \in Fetches, Timeout(c) PROVE TypeOK'
    BY <1>5 DEF Timeout, Moves, TypeOK, policy
  <1>6. ASSUME NEW c \in Fetches, Mark(c) PROVE TypeOK'
    BY <1>6, MarkType
  <1>7. ASSUME NEW c \in Fetches, AddCallback(c) PROVE TypeOK'
    BY <1>7 DEF AddCallback, Moves, TypeOK, policy
  <1>8. ASSUME NEW c \in Fetches, CallerReleases(c) PROVE TypeOK'
    <2>1. Release(c)
      BY <1>8 DEF CallerReleases
    <2>2. QED
      BY <1>8, <2>1, ReleaseType, NoPermitType DEF CallerReleases, Moves, TypeOK
  <1>9. ASSUME NEW c \in Fetches, WorkerEnds(c) PROVE TypeOK'
    BY <1>9 DEF WorkerEnds, TypeOK, policy
  <1>10. ASSUME NEW c \in Fetches, WorkerReleases(c) PROVE TypeOK'
    <2>1. Release(c)
      BY <1>10 DEF WorkerReleases
    <2>2. QED
      BY <1>10, <2>1, ReleaseType, NoPermitType DEF WorkerReleases, TypeOK
  <1>11. CASE Configure
    BY <1>11 DEF Configure, TypeOK, threads
  <1>12. CASE Reset
    <2>1. NoRecords \in [Domains -> Records]
      BY DEF NoRecords, NewRecord, Records
    <2>2. QED
      BY <1>12, <2>1 DEF Reset, TypeOK, threads
  <1>13. CASE Tick
    BY <1>13 DEF Tick, TypeOK, policy, threads
  <1>14. CASE UNCHANGED vars
    BY <1>14 DEF vars, policy, threads, TypeOK
  <1>15. QED
    BY <1>1, <1>2, <1>3, <1>4, <1>5, <1>6, <1>7, <1>8, <1>9, <1>10, <1>11,
       <1>12, <1>13, <1>14 DEF Next, Caller

-----------------------------------------------------------------------------
(* Places.                                                                 *)

LEMMA ShapeStep == TypeOK /\ Shape /\ [Next]_vars => Shape'
  <1> SUFFICES ASSUME TypeOK, Shape, [Next]_vars PROVE Shape'
    OBVIOUS
  <1> USE DEF Shape, Places, TypeOK
  <1>1. ASSUME NEW c \in Fetches, NEW d \in Domains, Admit(c, d) PROVE Shape'
    BY <1>1 DEF Admit, Free, PruneFor
  <1>2. ASSUME NEW d \in Domains, TurnAway(d) PROVE Shape'
    BY <1>2 DEF TurnAway, threads
  <1>3. ASSUME NEW c \in Fetches, Start(c) PROVE Shape'
    BY <1>3 DEF Start, Moves, policy
  <1>4. ASSUME NEW c \in Fetches, Result(c) PROVE Shape'
    BY <1>4 DEF Result, Moves, policy
  <1>5. ASSUME NEW c \in Fetches, Timeout(c) PROVE Shape'
    BY <1>5 DEF Timeout, Moves, policy
  <1>6. ASSUME NEW c \in Fetches, Mark(c) PROVE Shape'
    <2>1. generation' = generation
      BY <1>6 DEF Mark, MarkFailed, policy
    <2>2. QED
      BY <1>6, <2>1 DEF Mark, Moves
  <1>7. ASSUME NEW c \in Fetches, AddCallback(c) PROVE Shape'
    BY <1>7 DEF AddCallback, Moves, policy
  <1>8. ASSUME NEW c \in Fetches, CallerReleases(c) PROVE Shape'
    <2>1. generation' = generation
      BY <1>8, ReleaseType DEF CallerReleases
    <2>2. QED
      BY <1>8, <2>1 DEF CallerReleases, Moves, NoPermit
  <1>9. ASSUME NEW c \in Fetches, WorkerEnds(c) PROVE Shape'
    BY <1>9 DEF WorkerEnds, policy
  <1>10. ASSUME NEW c \in Fetches, WorkerReleases(c) PROVE Shape'
    <2>1. generation' = generation
      BY <1>10, ReleaseType DEF WorkerReleases
    <2>2. QED
      BY <1>10, <2>1 DEF WorkerReleases, NoPermit
  <1>11. CASE Configure
    BY <1>11 DEF Configure, threads
  <1>12. CASE Reset
    <2>1. \A c \in Fetches : permit[c].generation \in Nat
      BY DEF Permits
    <2>2. QED
      BY <1>12, <2>1 DEF Reset, threads
  <1>13. CASE Tick
    BY <1>13 DEF Tick, policy, threads
  <1>14. CASE UNCHANGED vars
    BY <1>14 DEF vars, policy, threads
  <1>15. QED
    BY <1>1, <1>2, <1>3, <1>4, <1>5, <1>6, <1>7, <1>8, <1>9, <1>10, <1>11,
       <1>12, <1>13, <1>14 DEF Next, Caller

-----------------------------------------------------------------------------
(* Counts.                                                                 *)

LEMMA HoldersFinite ==
  /\ IsFiniteSet(Holders) /\ Cardinality(Holders) \in Nat
  /\ \A d : IsFiniteSet(HoldersOf(d)) /\ Cardinality(HoldersOf(d)) \in Nat
  <1>1. Holders \in SUBSET Fetches /\ \A d : HoldersOf(d) \in SUBSET Fetches
    BY DEF Holders, HoldersOf
  <1>2. IsFiniteSet(Holders) /\ \A d : IsFiniteSet(HoldersOf(d))
    BY <1>1, FS_Subset
  <1>3. QED
    BY <1>2, FS_CardinalityType

\* A record without a fetch has no holder.
LEMMA NoFetchNoHolder ==
  ASSUME PermitsCounted, NEW d
  PROVE  /\ d \notin tracked => HoldersOf(d) = {}
         /\ d \in tracked /\ record[d].active = 0 => HoldersOf(d) = {}
  <1>1. d \notin tracked => HoldersOf(d) = {}
    BY DEF HoldersOf, PermitsCounted
  <1>2. ASSUME d \in tracked, record[d].active = 0 PROVE HoldersOf(d) = {}
    BY <1>2, HoldersFinite, FS_EmptySet DEF HoldersOf, PermitsCounted
  <1>3. QED
    BY <1>1, <1>2

\* Records come and go without fetches, and the rest keep their counts.
LEMMA CountsKept ==
  ASSUME PermitsCounted,
         active' = active, Holders' = Holders,
         \A c \in Holders : permit'[c] = permit[c],
         \A x \in tracked \ tracked' : record[x].active = 0,
         \A x \in tracked' : record'[x].active
                               = IF x \in tracked THEN record[x].active ELSE 0
  PROVE  PermitsCounted'
  <1>1. \A d : HoldersOf(d)' = HoldersOf(d)
    BY DEF HoldersOf
  <1>2. \A c \in Holders' : permit'[c].domain \in tracked'
    <2> SUFFICES ASSUME NEW c \in Holders, permit[c].domain \notin tracked'
                 PROVE  FALSE
      OBVIOUS
    <2>1. permit[c].domain \in tracked
      BY DEF PermitsCounted
    <2>2. HoldersOf(permit[c].domain) = {}
      BY <2>1, NoFetchNoHolder
    <2>3. QED
      BY <2>2 DEF HoldersOf
  <1>3. ASSUME NEW d \in tracked' PROVE record'[d].active = Cardinality(HoldersOf(d)')
    <2>1. CASE d \in tracked
      BY <1>1, <2>1 DEF PermitsCounted, HoldersOf
    <2>2. CASE d \notin tracked
      BY <1>1, <2>2, NoFetchNoHolder, FS_EmptySet
    <2>3. QED
      BY <2>1, <2>2
  <1>4. active' = Cardinality(Holders')
    BY DEF PermitsCounted
  <1>5. QED
    BY <1>2, <1>3, <1>4 DEF PermitsCounted, HoldersOf

\* A fetch that takes no part keeps its place among the holders.
LEMMA SameHolders ==
  ASSUME generation' = generation,
         \A c \in Fetches : Free(c)' <=> Free(c),
         \A c \in Fetches : ~Free(c) => permit'[c] = permit[c]
  PROVE  Holders' = Holders
  BY DEF Holders

LEMMA AdmitCounts ==
  ASSUME TypeOK, PermitsCounted, NEW c \in Fetches, NEW d \in Domains, Admit(c, d)
  PROVE  PermitsCounted'
  <1> DEFINE before(x) == IF x \in tracked THEN record[x].active ELSE 0
  <1>1. /\ c \notin Holders
        /\ Holders' = Holders \cup {c}
        /\ permit'[c].domain = d
        /\ \A h \in Holders : permit'[h] = permit[h]
    BY DEF Admit, Holders, Free, TypeOK
  <1>2. /\ d \in tracked'
        /\ tracked' \ {d} \subseteq tracked
        /\ \A x \in tracked \ tracked' : record[x].active = 0
    BY KeptBusy DEF Admit, PruneFor
  <1>3. Current(d).active = before(d)
    BY CurrentType, KeptBusy
  <1>4. record'[d].active = before(d) + 1
    <2>1. record'[d].active = Current(d).active + 1
      BY CurrentType DEF Admit, TypeOK, Records
    <2>2. QED
      BY <1>3, <2>1
  <1>5. \A x \in tracked' \ {d} : record'[x].active = record[x].active
    BY <1>2 DEF Admit, TypeOK
  <1>6. active' = Cardinality(Holders')
    BY <1>1, HoldersFinite, FS_AddElement DEF Admit, PermitsCounted
  <1>7. \A h \in Holders' : permit'[h].domain \in tracked'
    <2> SUFFICES ASSUME NEW h \in Holders, permit[h].domain \notin tracked'
                 PROVE  FALSE
      BY <1>1, <1>2
    <2>1. permit[h].domain \in tracked
      BY DEF PermitsCounted
    <2>2. HoldersOf(permit[h].domain) = {}
      BY <1>2, <2>1, NoFetchNoHolder
    <2>3. QED
      BY <2>2 DEF HoldersOf
  <1>8. HoldersOf(d)' = HoldersOf(d) \cup {c} /\ c \notin HoldersOf(d)
    BY <1>1 DEF HoldersOf
  <1>9. before(d) = Cardinality(HoldersOf(d))
    BY NoFetchNoHolder, FS_EmptySet DEF PermitsCounted, HoldersOf
  <1>10. record'[d].active = Cardinality(HoldersOf(d)')
    <2>1. IsFiniteSet(HoldersOf(d))
      BY HoldersFinite
    <2>2. Cardinality(HoldersOf(d) \cup {c}) = Cardinality(HoldersOf(d)) + 1
      BY <1>8, <2>1, FS_AddElement
    <2>3. QED
      BY <1>4, <1>8, <1>9, <2>2
  <1>11. \A x \in tracked' \ {d} : record'[x].active = Cardinality(HoldersOf(x)')
    <2> SUFFICES ASSUME NEW x \in tracked' \ {d}
                 PROVE  record'[x].active = Cardinality(HoldersOf(x)')
      OBVIOUS
    <2>1. HoldersOf(x)' = HoldersOf(x)
      BY <1>1 DEF HoldersOf
    <2>2. record[x].active = Cardinality(HoldersOf(x))
      BY <1>2 DEF PermitsCounted, HoldersOf
    <2>3. QED
      BY <1>5, <2>1, <2>2
  <1>12. QED
    BY <1>6, <1>7, <1>10, <1>11 DEF PermitsCounted, HoldersOf

\* A release never finds its permit gone, and takes one holder away.
LEMMA ReleaseCounts ==
  ASSUME TypeOK, Shape, PermitsCounted, NEW c \in Fetches, Release(c), ~Free(c),
         NEW d, d = permit[c].domain, Free(c)', \A h \in Fetches \ {c} : Free(h)' <=> Free(h),
         \A h \in Fetches \ {c} : permit'[h] = permit[h]
  PROVE  PermitsCounted' /\ broken' = broken /\ active' <= active
  <1>1. tracked' = tracked /\ generation' = generation
    BY ReleaseType
  <1>2. Holders' = Holders \ {c}
    BY <1>1 DEF Holders
  <1>3. CASE permit[c].generation # generation
    <2>1. UNCHANGED policy /\ broken' = broken
      BY <1>3 DEF Release
    <2>2. Holders' = Holders /\ c \notin Holders
      BY <1>2, <1>3 DEF Holders
    <2>3. \A h \in Holders : permit'[h] = permit[h]
      BY <2>2 DEF Holders
    <2>4. \A x \in tracked' : record'[x].active = IF x \in tracked THEN record[x].active ELSE 0
      BY <2>1 DEF policy
    <2>5. active' = active /\ active \in Nat
      BY <2>1 DEF policy, TypeOK
    <2>6. PermitsCounted'
      BY <1>1, <2>2, <2>3, <2>4, <2>5, CountsKept
    <2>7. QED
      BY <2>1, <2>5, <2>6
  <1>4. CASE permit[c].generation = generation
    <2>1. c \in Holders
      BY <1>4 DEF Holders
    <2>2. d \in tracked
      BY <2>1 DEF PermitsCounted
    <2>3. record[d].active = Cardinality(HoldersOf(d)) /\ c \in HoldersOf(d)
      BY <2>1, <2>2 DEF PermitsCounted, HoldersOf
    <2>4. active = Cardinality(Holders)
      BY DEF PermitsCounted
    <2>5. active > 0 /\ record[d].active > 0
      BY <2>1, <2>3, <2>4, HoldersFinite, FS_EmptySet
    <2>0. ~(active <= 0 \/ d \notin tracked \/ record[d].active <= 0)
      BY <2>2, <2>3, <2>4, <2>5, HoldersFinite
    <2>6. Returned(c) /\ broken' = broken
      BY <1>4, <2>0 DEF Release
    <2>7. active' = active - 1
      BY <2>6 DEF Returned
    <2>8. active' = Cardinality(Holders')
      BY <1>2, <2>1, <2>4, <2>7, HoldersFinite, FS_RemoveElement
    <2>9. \A h \in Holders' : permit'[h].domain \in tracked'
      BY <1>1, <1>2 DEF PermitsCounted, Holders
    <2>10. d \in Domains /\ record[d] \in Records
      BY DEF TypeOK, Permits
    <2>11. record'[d].active = record[d].active - 1
      BY <2>6, <2>10 DEF Returned, TypeOK
    <2>12. HoldersOf(d)' = HoldersOf(d) \ {c}
      BY <1>2 DEF HoldersOf, Holders
    <2>13. record'[d].active = Cardinality(HoldersOf(d)')
      <3>1. IsFiniteSet(HoldersOf(d))
        BY HoldersFinite
      <3>2. Cardinality(HoldersOf(d) \ {c}) = Cardinality(HoldersOf(d)) - 1
        BY <2>3, <3>1, FS_RemoveElement
      <3>3. QED
        BY <2>3, <2>11, <2>12, <3>2
    <2>14. ASSUME NEW x \in tracked' \ {d}
           PROVE  record'[x].active = Cardinality(HoldersOf(x)')
      <3>1. HoldersOf(x)' = HoldersOf(x)
        BY <1>2 DEF HoldersOf, Holders
      <3>2. record'[x] = record[x]
        BY <1>1, <2>6 DEF Returned, TypeOK
      <3>3. record[x].active = Cardinality(HoldersOf(x))
        BY <1>1 DEF PermitsCounted, HoldersOf
      <3>4. QED
        BY <3>1, <3>2, <3>3
    <2>15. PermitsCounted'
      BY <2>8, <2>9, <2>13, <2>14 DEF PermitsCounted, HoldersOf
    <2>16. active \in Nat
      BY DEF TypeOK
    <2>17. QED
      BY <2>6, <2>7, <2>15, <2>16
  <1>5. QED
    BY <1>3, <1>4

\* A step that leaves the policy and every permit alone.
LEMMA CountsUnmoved ==
  ASSUME TypeOK, PermitsCounted, UNCHANGED <<tracked, record, active, generation, permit>>,
         \A c \in Fetches : Free(c)' <=> Free(c)
  PROVE  PermitsCounted'
  <1>1. Holders' = Holders
    BY SameHolders
  <1>2. \A x \in tracked' : record'[x].active
                              = IF x \in tracked THEN record[x].active ELSE 0
    OBVIOUS
  <1>3. QED
    BY <1>1, <1>2, CountsKept

LEMMA TurnAwayCounts ==
  ASSUME TypeOK, PermitsCounted, NEW d \in Domains, TurnAway(d)
  PROVE  PermitsCounted'
  <1>1. Holders' = Holders
    BY SameHolders DEF TurnAway, threads, Free
  <1>2. \A x \in tracked \ tracked' : record[x].active = 0
    BY KeptBusy DEF TurnAway, PruneFor
  <1>3. \A x \in tracked' : record'[x].active
                              = IF x \in tracked THEN record[x].active ELSE 0
    <2>1. CASE NoRoom(d)
      BY <2>1, KeptBusy DEF TurnAway, PruneFor
    <2>2. CASE ~NoRoom(d)
      <3>1. Current(d).active = IF d \in tracked THEN record[d].active ELSE 0
        BY CurrentType, KeptBusy
      <3>2. record' = [record EXCEPT ![d] = Current(d)]
        BY <2>2 DEF TurnAway
      <3>3. tracked' = Kept(d) \cup {d}
        BY <2>2 DEF TurnAway, PruneFor
      <3>4. QED
        BY <3>1, <3>2, <3>3, KeptBusy DEF TypeOK
    <2>3. QED
      BY <2>1, <2>2
  <1>4. QED
    BY <1>1, <1>2, <1>3, CountsKept DEF TurnAway, threads

LEMMA MarkCounts ==
  ASSUME TypeOK, PermitsCounted, NEW c \in Fetches, Mark(c)
  PROVE  PermitsCounted' /\ active' = active /\ limit' = limit
         /\ generation' = generation
  <1>1. active' = active /\ limit' = limit /\ generation' = generation
    BY DEF Mark, MarkFailed, policy
  <1>2. Holders' = Holders
    BY <1>1, SameHolders DEF Mark, Moves, Free, TypeOK
  <1>3. CASE UNCHANGED policy
    BY <1>2, <1>3, CountsKept DEF Mark, policy
  <1>4. CASE permit[c].generation = generation /\ permit[c].domain \in tracked
    <2>1. PICK d \in Domains : d = permit[c].domain
      BY DEF TypeOK, Permits
    <2>2. /\ record' = [record EXCEPT ![d] = Failed(d)]
          /\ tracked' = IF PruneDue THEN tracked \ (Stale \ {d}) ELSE tracked
      BY <1>4, <2>1 DEF Mark, MarkFailed
    <2>3. Failed(d).active = record[d].active
      BY DEF Failed, TypeOK, Records
    <2>4. \A x \in tracked \ tracked' : record[x].active = 0
      BY <2>2 DEF Stale
    <2>5. \A x \in tracked' : record'[x].active
                                = IF x \in tracked THEN record[x].active ELSE 0
      BY <2>2, <2>3 DEF TypeOK
    <2>6. QED
      BY <1>1, <1>2, <2>4, <2>5, CountsKept DEF Mark
  <1>5. QED
    BY <1>1, <1>3, <1>4 DEF Mark, MarkFailed

\* In the first generation the counter stays within the limit.
LEMMA LimitStep ==
  ASSUME TypeOK, WithinLimit,
         \/ limit' = limit /\ generation' = generation /\ active' <= active
         \/ /\ limit' = limit /\ generation' = generation
            /\ HasCapacity /\ active' = active + 1
         \/ limit' = Limit /\ generation' = generation /\ active' = active
         \/ generation' = generation + 1,
         active' \in Nat
  PROVE  WithinLimit'
  BY DEF WithinLimit, HasCapacity, TypeOK

-----------------------------------------------------------------------------

LEMMA InitPermitInv == Init => PermitInv
  <1> SUFFICES ASSUME Init PROVE PermitInv
    OBVIOUS
  <1>1. TypeOK
    BY NoPermitType DEF Init, TypeOK, NoRecords, NewRecord, Records
  <1>2. Shape
    BY DEF Init, Shape, Places, NoPermit
  <1>3. Holders = {}
    BY DEF Init, Holders, Free
  <1>4. PermitsCounted
    BY <1>3, FS_EmptySet DEF Init, PermitsCounted
  <1>5. QED
    BY <1>1, <1>2, <1>4 DEF PermitInv, WithinLimit, ReleasedOnce, Init

LEMMA PermitStep == PermitInv /\ [Next]_vars => PermitInv'
  <1> SUFFICES ASSUME PermitInv, [Next]_vars PROVE PermitInv'
    OBVIOUS
  <1> DEFINE Goal == PermitsCounted' /\ WithinLimit' /\ broken' = broken
  <1>0. /\ TypeOK /\ Shape /\ PermitsCounted /\ WithinLimit /\ ~broken
        /\ TypeOK' /\ Shape' /\ active' \in Nat /\ active \in Nat
    BY TypeStep, ShapeStep DEF PermitInv, ReleasedOnce, TypeOK
  <1>1. ASSUME NEW c \in Fetches, NEW d \in Domains, Admit(c, d) PROVE Goal
    BY <1>0, <1>1, AdmitCounts, LimitStep DEF Admit
  <1>2. ASSUME NEW d \in Domains, TurnAway(d) PROVE Goal
    BY <1>0, <1>2, TurnAwayCounts, LimitStep DEF TurnAway
  <1>3. ASSUME NEW c \in Fetches, Start(c) \/ Result(c) \/ Timeout(c)
                                  \/ AddCallback(c) \/ WorkerEnds(c)
        PROVE  Goal
    <2>1. UNCHANGED <<policy, permit, broken>>
      BY <1>3 DEF Start, Result, Timeout, AddCallback, WorkerEnds
    <2>2. \A h \in Fetches : Free(h)' <=> Free(h)
      BY <1>0, <1>3
      DEF Start, Result, Timeout, AddCallback, WorkerEnds, Moves, Free, TypeOK,
          Shape, Places
    <2>3. PermitsCounted'
      BY <1>0, <2>1, <2>2, CountsUnmoved DEF policy
    <2>4. WithinLimit'
      BY <1>0, <2>1, LimitStep DEF policy
    <2>5. QED
      BY <1>0, <2>1, <2>3, <2>4
  <1>4. ASSUME NEW c \in Fetches, Mark(c) PROVE Goal
    BY <1>0, <1>4, MarkCounts, LimitStep DEF Mark
  <1>5. ASSUME NEW c \in Fetches, CallerReleases(c) \/ WorkerReleases(c) PROVE Goal
    <2>1. Release(c) /\ ~Free(c)
      BY <1>5 DEF CallerReleases, WorkerReleases, Free
    <2>2. /\ Free(c)'
          /\ \A h \in Fetches \ {c} : Free(h)' <=> Free(h)
          /\ \A h \in Fetches \ {c} : permit'[h] = permit[h]
      BY <1>0, <1>5
      DEF CallerReleases, WorkerReleases, Moves, Free, TypeOK, Shape, Places
    <2>3. PermitsCounted' /\ broken' = broken /\ active' <= active
      BY <1>0, <2>1, <2>2, ReleaseCounts
    <2>4. limit' = limit /\ generation' = generation
      BY <1>0, <2>1, ReleaseType
    <2>5. WithinLimit'
      BY <1>0, <2>3, <2>4, LimitStep
    <2>6. QED
      BY <1>0, <2>3, <2>5
  <1>6. ASSUME Configure PROVE Goal
    <2>1. PermitsCounted'
      BY <1>0, <1>6, CountsUnmoved DEF Configure, threads, Free
    <2>2. WithinLimit'
      BY <1>0, <1>6, LimitStep DEF Configure
    <2>3. QED
      BY <1>0, <1>6, <2>1, <2>2 DEF Configure
  <1>7. ASSUME Reset PROVE Goal
    <2>1. \A c \in Fetches : permit[c].generation \in Nat /\ permit[c].generation <= generation
      BY <1>0 DEF TypeOK, Permits, Shape, Places
    <2>2. Holders' = {}
      BY <1>0, <1>7, <2>1 DEF Reset, threads, Holders, TypeOK
    <2>3. PermitsCounted'
      BY <1>7, <2>2, FS_EmptySet DEF Reset, PermitsCounted
    <2>4. WithinLimit'
      BY <1>0, <1>7, LimitStep DEF Reset
    <2>5. QED
      BY <1>0, <1>7, <2>3, <2>4 DEF Reset
  <1>8. ASSUME Tick \/ UNCHANGED vars PROVE Goal
    <2>1. UNCHANGED <<policy, threads, broken>>
      BY <1>8 DEF Tick, vars
    <2>2. PermitsCounted'
      BY <1>0, <2>1, CountsUnmoved DEF policy, threads, Free
    <2>3. WithinLimit'
      BY <1>0, <2>1, LimitStep DEF policy
    <2>4. QED
      BY <1>0, <2>1, <2>2, <2>3
  <1>9. Goal
    BY <1>1, <1>2, <1>3, <1>4, <1>5, <1>6, <1>7, <1>8 DEF Next, Caller
  <1>10. ReleasedOnce'
    BY <1>0, <1>9 DEF ReleasedOnce
  <1>11. QED
    BY <1>0, <1>9, <1>10 DEF PermitInv

\* Running daemons hold permits that the counter counts.
LEMMA LimitedWorkers == PermitInv => WorkersBounded
  <1> SUFFICES ASSUME PermitInv, generation = 0, Limit > 0
               PROVE  Cardinality({c \in Fetches : worker[c] = "running"}) <= Limit
    BY DEF WorkersBounded
  <1> DEFINE running == {c \in Fetches : worker[c] = "running"}
  <1>1. \A c \in Fetches : permit[c].generation = 0
    BY DEF PermitInv, Shape, Places, TypeOK, Permits
  <1>2. running \in SUBSET Holders
    BY <1>1 DEF Holders, Free
  <1>3. Cardinality(running) <= Cardinality(Holders) /\ IsFiniteSet(running)
    BY <1>2, HoldersFinite, FS_Subset
  <1>4. Cardinality(Holders) <= Limit
    BY DEF PermitInv, PermitsCounted, WithinLimit
  <1>5. Cardinality(running) \in Nat
    BY <1>3, FS_CardinalityType
  <1>6. QED
    BY <1>3, <1>4, <1>5, HoldersFinite

\* admit, finish and the callback of a late fetch keep the counters equal to
\* the fetches that have not ended, with a record for each of their hosts.
THEOREM PermitsAreCounted == Spec => []PermitsCounted
  <1>1. PermitInv => PermitsCounted
    BY DEF PermitInv
  <1>2. QED
    BY <1>1, InitPermitInv, PermitStep, PTL DEF Spec

\* The RuntimeErrors of release are unreachable.
THEOREM PermitReleasedOnce == Spec => []ReleasedOnce
  <1>1. PermitInv => ReleasedOnce
    BY DEF PermitInv
  <1>2. QED
    BY <1>1, InitPermitInv, PermitStep, PTL DEF Spec

\* However many requests time out, the threads they leave stay within
\* max_concurrent_fetches.
THEOREM StalledWorkersBounded == Spec => []WorkersBounded
  <1>1. QED
    BY LimitedWorkers, InitPermitInv, PermitStep, PTL DEF Spec
-----------------------------------------------------------------------------
(* The cooldown, across pruning: a failure is still noted in its domain's  *)
(* record, or is older than records are kept.                              *)

LogType ==
  /\ IsFiniteSet(log)
  /\ \A e \in log : /\ e.what \in {"admit", "fail"} /\ e.domain \in Domains
                    /\ e.time \in Nat /\ e.time <= now

Noted(f) ==
  \/ f.domain \in tracked /\ record[f.domain].failed >= f.time
  \/ now - f.time > Retention

FailuresNoted == \A f \in log : f.what = "fail" => Noted(f)

CooldownInv == TypeOK /\ LogType /\ FailuresNoted

LEMMA RetentionCovers ==
  Retention \in Nat /\ Retention >= QuotaWindow /\ Retention >= Cooldown
  BY DEF Retention, Greatest

\* A record is dropped only when it is older than the retention.
LEMMA DroppedIsStale ==
  ASSUME TypeOK, NEW d \in Domains, NEW x \in tracked \ Kept(d)
  PROVE  x \in Stale
  BY DEF Kept, Pruned

LEMMA StaleIsOld ==
  ASSUME TypeOK, NEW x \in Stale
  PROVE  now - record[x].failed > Retention /\ now - record[x].start > Retention
  <1>1. record[x] \in Records /\ now \in Nat
    BY DEF Stale, TypeOK
  <1>2. now - Greatest(record[x].failed, record[x].start) > Retention
    BY DEF Stale
  <1>3. record[x].failed \in Int /\ record[x].start \in Int
    BY <1>1 DEF Records, Never
  <1>4. QED
    BY <1>1, <1>2, <1>3, RetentionCovers DEF Greatest

LEMMA Logged ==
  ASSUME TypeOK, LogType, NEW what \in {"admit", "fail"}, NEW d \in Domains,
         Happened(what, d), now' = now
  PROVE  /\ LogType'
         /\ \E e : /\ log' = log \cup {e} /\ e.what = what /\ e.domain = d
                   /\ e.time = now
  <1> DEFINE same == {e \in log : e.what = what /\ e.domain = d /\ e.time = now}
             new  == [what |-> what, domain |-> d, time |-> now,
                      nth |-> Cardinality(same)]
  <1>1. log' = log \cup {new}
    BY DEF Happened
  <1>2. IsFiniteSet(log')
    BY <1>1, FS_AddElement DEF LogType
  <1>3. LogType'
    BY <1>1, <1>2 DEF LogType, TypeOK
  <1>4. new.what = what /\ new.domain = d /\ new.time = now
    OBVIOUS
  <1> HIDE DEF new
  <1>5. QED
    BY <1>1, <1>3, <1>4

\* What a step of admit or mark_failed does to the failures noted so far.
LEMMA NotedKept ==
  ASSUME TypeOK, NEW f \in log, Noted(f), f.domain \in Domains, f.time \in Nat,
         now' = now,
         f.domain \in tracked =>
           \/ f.domain \in tracked' /\ record'[f.domain].failed >= record[f.domain].failed
           \/ f.domain \in Stale,
         f.domain \in Domains => record'[f.domain].failed \in Int
  PROVE  Noted(f)'
  <1>1. now \in Nat /\ record[f.domain].failed \in Int
    BY DEF TypeOK, Records, Never
  <1>2. CASE f.domain \in Stale /\ record[f.domain].failed >= f.time
    <2>1. now - record[f.domain].failed > Retention
      BY <1>2, StaleIsOld
    <2>2. now - f.time > Retention
      BY <1>1, <1>2, <2>1, RetentionCovers
    <2>3. Retention' = Retention
      BY DEF Retention
    <2>4. QED
      BY <2>2, <2>3 DEF Noted
  <1>3. CASE now - f.time > Retention
    BY <1>3 DEF Noted, Retention
  <1>4. CASE /\ f.domain \in tracked' /\ record[f.domain].failed >= f.time
             /\ record'[f.domain].failed >= record[f.domain].failed
    BY <1>1, <1>4 DEF Noted
  <1>5. QED
    BY <1>2, <1>3, <1>4 DEF Noted

LEMMA FailedInt ==
  ASSUME TypeOK, NEW d \in Domains
  PROVE  record[d].failed \in Int /\ record[d] \in Records
  BY DEF TypeOK, Records, Never

\* The time of the last failure outlives the window it happened in.
LEMMA CurrentFailed ==
  ASSUME TypeOK, NEW d \in Domains, d \in Kept(d)
  PROVE  Current(d).failed = record[d].failed
  BY DEF Current, TypeOK, Records

LEMMA AdmitNoted ==
  ASSUME CooldownInv, NEW c \in Fetches, NEW d \in Domains, Admit(c, d)
  PROVE  LogType' /\ FailuresNoted'
  <1>1. TypeOK /\ TypeOK' /\ LogType /\ now' = now
    BY AdmitType DEF CooldownInv, Admit
  <1>2. /\ LogType'
        /\ \E e : log' = log \cup {e} /\ e.what = "admit"
    BY <1>1, Logged DEF Admit
  <1>3. ASSUME NEW f \in log, f.what = "fail" PROVE Noted(f)'
    <2>1. Noted(f) /\ f.domain \in Domains /\ f.time \in Nat
      BY <1>1, <1>3 DEF CooldownInv, FailuresNoted, LogType
    <2>2. record'[f.domain].failed \in Int
      BY <1>1, <2>1 DEF TypeOK, Records, Never
    <2>3. ASSUME f.domain \in tracked, f.domain \in Kept(d)
          PROVE  /\ f.domain \in tracked'
                 /\ record'[f.domain].failed = record[f.domain].failed
      <3>1. f.domain \in tracked'
        BY <2>3 DEF Admit, PruneFor
      <3>2. CASE f.domain # d
        BY <1>1, <2>1, <3>1, <3>2 DEF Admit, TypeOK
      <3>3. CASE f.domain = d
        <4>1. record'[d] = [Current(d) EXCEPT !.count = @ + 1, !.active = @ + 1]
          BY <1>1 DEF Admit, TypeOK
        <4>2. record'[d].failed = Current(d).failed
          BY <1>1, <4>1, CurrentType DEF Records
        <4>3. QED
          BY <1>1, <2>3, <3>1, <3>3, <4>2, CurrentFailed
      <3>4. QED
        BY <3>2, <3>3
    <2>4. f.domain \in tracked /\ f.domain \notin Kept(d) => f.domain \in Stale
      BY <1>1, DroppedIsStale
    <2>5. QED
      BY <1>1, <2>1, <2>2, <2>3, <2>4, FailedInt, NotedKept
  <1>4. QED
    BY <1>2, <1>3 DEF FailuresNoted

LEMMA TurnAwayNoted ==
  ASSUME CooldownInv, NEW d \in Domains, TurnAway(d)
  PROVE  LogType' /\ FailuresNoted'
  <1>1. TypeOK /\ TypeOK' /\ LogType /\ now' = now /\ log' = log
    BY TurnAwayType DEF CooldownInv, TurnAway
  <1>2. LogType'
    BY <1>1 DEF LogType
  <1>3. ASSUME NEW f \in log, f.what = "fail" PROVE Noted(f)'
    <2>1. Noted(f) /\ f.domain \in Domains /\ f.time \in Nat
      BY <1>1, <1>3 DEF CooldownInv, FailuresNoted, LogType
    <2>2. record'[f.domain].failed \in Int
      BY <1>1, <2>1 DEF TypeOK, Records, Never
    <2>3. ASSUME f.domain \in tracked, f.domain \in Kept(d)
          PROVE  /\ f.domain \in tracked'
                 /\ record'[f.domain].failed = record[f.domain].failed
      <3>1. f.domain \in tracked'
        BY <2>3 DEF TurnAway, PruneFor
      <3>2. CASE f.domain # d
        BY <1>1, <2>1, <3>1, <3>2 DEF TurnAway, TypeOK
      <3>3. CASE f.domain = d
        <4>1. record'[d] = record[d] \/ record'[d] = Current(d)
          BY <1>1 DEF TurnAway, TypeOK
        <4>2. QED
          BY <1>1, <2>3, <3>1, <3>3, <4>1, CurrentFailed
      <3>4. QED
        BY <3>2, <3>3
    <2>4. f.domain \in tracked /\ f.domain \notin Kept(d) => f.domain \in Stale
      BY <1>1, DroppedIsStale
    <2>5. QED
      BY <1>1, <2>1, <2>2, <2>3, <2>4, FailedInt, NotedKept
  <1>4. QED
    BY <1>1, <1>2, <1>3 DEF FailuresNoted

LEMMA MarkNoted ==
  ASSUME CooldownInv, NEW c \in Fetches, Mark(c)
  PROVE  LogType' /\ FailuresNoted'
  <1>1. TypeOK /\ TypeOK' /\ LogType /\ FailuresNoted /\ now' = now /\ now \in Nat
    BY MarkType DEF CooldownInv, Mark, TypeOK
  <1>2. CASE UNCHANGED <<policy, log>>
    BY <1>1, <1>2 DEF LogType, FailuresNoted, Noted, Retention, policy
  <1>3. CASE permit[c].generation = generation /\ permit[c].domain \in tracked
    <2>1. PICK d \in Domains : d = permit[c].domain
      BY <1>1 DEF TypeOK, Permits
    <2>2. /\ record' = [record EXCEPT ![d] = Failed(d)]
          /\ tracked' = IF PruneDue THEN tracked \ (Stale \ {d}) ELSE tracked
          /\ d \in tracked
          /\ Happened("fail", d)
      BY <1>3, <2>1 DEF Mark, MarkFailed
    <2>3. LogType'
      BY <1>1, <2>2, Logged
    <2>4. PICK e : log' = log \cup {e} /\ e.domain = d /\ e.time = now
      BY <1>1, <2>2, Logged
    <2>5. record'[d].failed = now /\ d \in tracked'
      <3>1. Failed(d).failed = now
        BY <1>1 DEF Failed, TypeOK, Records
      <3>2. QED
        BY <1>1, <2>2, <3>1 DEF TypeOK
    <2>6. Noted(e)'
      BY <1>1, <2>4, <2>5 DEF Noted
    <2>7. ASSUME NEW f \in log, f.what = "fail" PROVE Noted(f)'
      <3>1. Noted(f) /\ f.domain \in Domains /\ f.time \in Nat /\ f.time <= now
        BY <1>1, <2>7 DEF FailuresNoted, LogType
      <3>2. CASE f.domain = d
        BY <1>1, <2>5, <3>1, <3>2 DEF Noted
      <3>3. CASE f.domain # d
        <4>1. record'[f.domain] = record[f.domain]
          BY <1>1, <2>2, <3>1, <3>3 DEF TypeOK
        <4>2. f.domain \in tracked => f.domain \in tracked' \/ f.domain \in Stale
          BY <2>2
        <4>3. record[f.domain].failed \in Int
          BY <1>1, <3>1, FailedInt
        <4>4. QED
          BY <1>1, <3>1, <4>1, <4>2, <4>3, NotedKept
      <3>4. QED
        BY <3>2, <3>3
    <2>8. QED
      BY <2>3, <2>4, <2>6, <2>7 DEF FailuresNoted
  <1>4. QED
    BY <1>2, <1>3 DEF Mark, MarkFailed

LEMMA InitCooldown == Init => CooldownInv
  <1> SUFFICES ASSUME Init PROVE CooldownInv
    OBVIOUS
  <1>1. TypeOK
    BY InitPermitInv DEF PermitInv
  <1>2. QED
    BY <1>1, FS_EmptySet DEF Init, CooldownInv, LogType, FailuresNoted

\* The steps between the locked sections change neither records nor the log.
LEMMA QuietSteps ==
  ASSUME TypeOK, NEW c \in Fetches,
         Start(c) \/ Result(c) \/ Timeout(c) \/ AddCallback(c) \/ WorkerEnds(c)
  PROVE  UNCHANGED <<tracked, record, now, log>>
  BY DEF Start, Result, Timeout, AddCallback, WorkerEnds, policy

LEMMA ReleaseKeepsTimes ==
  ASSUME TypeOK, NEW c \in Fetches, CallerReleases(c) \/ WorkerReleases(c)
  PROVE  /\ UNCHANGED <<tracked, now, log>>
         /\ \A d \in Domains : /\ record'[d].failed = record[d].failed
                               /\ record'[d].start = record[d].start
                               /\ record'[d].count = record[d].count
  <1>1. Release(c) /\ UNCHANGED <<now, log>>
    BY DEF CallerReleases, WorkerReleases
  <1>2. tracked' = tracked
    BY <1>1, ReleaseType
  <1>3. record' = record \/ Returned(c)
    BY <1>1 DEF Release, policy
  <1>4. permit[c].domain \in Domains /\ record \in [Domains -> Records]
    BY DEF TypeOK, Permits
  <1>5. QED
    BY <1>1, <1>2, <1>3, <1>4 DEF Returned, Records

LEMMA CooldownStep == CooldownInv /\ [Next]_vars => CooldownInv'
  <1> SUFFICES ASSUME CooldownInv, [Next]_vars PROVE LogType' /\ FailuresNoted'
    BY TypeStep DEF CooldownInv
  <1>0. TypeOK /\ TypeOK' /\ LogType /\ FailuresNoted /\ now \in Nat
    BY TypeStep DEF CooldownInv, TypeOK
  <1>1. ASSUME NEW c \in Fetches, NEW d \in Domains, Admit(c, d)
        PROVE  LogType' /\ FailuresNoted'
    BY <1>1, AdmitNoted
  <1>2. ASSUME NEW d \in Domains, TurnAway(d) PROVE LogType' /\ FailuresNoted'
    BY <1>2, TurnAwayNoted
  <1>3. ASSUME NEW c \in Fetches, Mark(c) PROVE LogType' /\ FailuresNoted'
    BY <1>3, MarkNoted
  <1>4. ASSUME UNCHANGED <<tracked, now, log>>,
               \A d \in Domains : record'[d].failed = record[d].failed
        PROVE  LogType' /\ FailuresNoted'
    BY <1>0, <1>4 DEF LogType, FailuresNoted, Noted, Retention
  <1>5. CASE \E c \in Fetches : \/ Start(c) \/ Result(c) \/ Timeout(c)
                                \/ AddCallback(c) \/ WorkerEnds(c)
    BY <1>0, <1>4, <1>5, QuietSteps
  <1>6. CASE \E c \in Fetches : CallerReleases(c) \/ WorkerReleases(c)
    BY <1>0, <1>4, <1>6, ReleaseKeepsTimes
  <1>7. CASE Configure \/ UNCHANGED vars
    <2>1. UNCHANGED <<tracked, record, now, log>>
      BY <1>7 DEF Configure, vars, policy
    <2>2. QED
      BY <1>4, <2>1
  <1>8. CASE Reset
    BY <1>8, FS_EmptySet DEF Reset, LogType, FailuresNoted
  <1>9. CASE Tick
    <2>1. now' = now + 1 /\ log' = log /\ tracked' = tracked /\ record' = record
      BY <1>9 DEF Tick, policy
    <2>2. LogType'
      BY <1>0, <2>1 DEF LogType
    <2>3. FailuresNoted'
      <3>1. Retention' = Retention /\ Retention \in Nat
        BY RetentionCovers DEF Retention
      <3>2. QED
        BY <1>0, <2>1, <3>1 DEF FailuresNoted, Noted, LogType
    <2>4. QED
      BY <2>2, <2>3
  <1>10. QED
    BY <1>1, <1>2, <1>3, <1>5, <1>6, <1>7, <1>8, <1>9 DEF Next, Caller

\* An admission finds every failure of its domain cooled down.
LEMMA AdmittedIsCool ==
  ASSUME CooldownInv, NEW c \in Fetches, NEW d \in Domains, Admit(c, d),
         NEW f \in log, f.what = "fail", f.domain = d
  PROVE  now - f.time >= Cooldown
  <1>1. TypeOK /\ Noted(f) /\ f.time \in Nat /\ f.time <= now /\ now \in Nat
    BY DEF CooldownInv, FailuresNoted, LogType, TypeOK
  <1>2. CASE now - f.time > Retention
    BY <1>1, <1>2, RetentionCovers
  <1>3. CASE d \in tracked /\ record[d].failed >= f.time
    <2>1. record[d].failed \in Int
      BY <1>1, FailedInt
    <2>2. CASE d \in Kept(d)
      <3>1. Current(d).failed = record[d].failed
        BY <1>1, <2>2, CurrentFailed
      <3>2. Current(d).failed # Never
        BY <1>1, <1>3, <2>1, <3>1 DEF Never
      <3>3. Cooldown = 0 \/ now - record[d].failed >= Cooldown
        BY <1>1, <2>1, <3>1, <3>2 DEF Admit, Cooling
      <3>4. QED
        BY <1>1, <1>3, <2>1, <3>3
    <2>3. CASE d \notin Kept(d)
      <3>1. now - record[d].failed > Retention
        BY <1>1, <1>3, <2>3, DroppedIsStale, StaleIsOld
      <3>2. QED
        BY <1>1, <1>3, <2>1, <3>1, RetentionCovers
    <2>4. QED
      BY <2>2, <2>3
  <1>4. QED
    BY <1>1, <1>2, <1>3 DEF Noted

\* Only admit adds an admission to the log.
LEMMA OnlyAdmitAdmits ==
  ASSUME TypeOK, LogType, [Next]_vars, NEW e \in log' \ log, e.what = "admit"
  PROVE  \E c \in Fetches, d \in Domains :
           Admit(c, d) /\ e.domain = d /\ e.time = now
  <1>1. ASSUME NEW c \in Fetches, NEW d \in Domains, Admit(c, d)
        PROVE  e.domain = d /\ e.time = now
    <2>1. Happened("admit", d) /\ now' = now
      BY <1>1 DEF Admit
    <2>2. QED
      BY <2>1, Logged
  <1>2. ASSUME NEW c \in Fetches, Mark(c) PROVE FALSE
    <2>1. permit[c].domain \in Domains /\ now' = now
      BY <1>2 DEF TypeOK, Permits, Mark
    <2>2. log' = log \/ Happened("fail", permit[c].domain)
      BY <1>2 DEF Mark, MarkFailed
    <2>3. QED
      BY <2>1, <2>2, Logged
  <1>3. ASSUME \/ \E d \in Domains : TurnAway(d)
               \/ \E c \in Fetches : \/ Start(c) \/ Result(c) \/ Timeout(c)
                                     \/ AddCallback(c) \/ WorkerEnds(c)
                                     \/ CallerReleases(c) \/ WorkerReleases(c)
               \/ Configure \/ Reset \/ Tick \/ UNCHANGED vars
        PROVE  FALSE
    BY <1>3, QuietSteps, ReleaseKeepsTimes DEF TurnAway, Configure, Reset, Tick, vars
  <1>4. QED
    BY <1>1, <1>2, <1>3 DEF Next, Caller

LEMMA CoolStep ==
  ASSUME CooldownInv, [Next]_vars
  PROVE  \A e \in log' \ log, f \in log :
           e.what = "admit" /\ f.what = "fail" /\ e.domain = f.domain
             => e.time - f.time >= Cooldown
  <1> SUFFICES ASSUME NEW e \in log' \ log, NEW f \in log, e.what = "admit",
                      f.what = "fail", e.domain = f.domain
               PROVE  e.time - f.time >= Cooldown
    OBVIOUS
  <1>1. PICK c \in Fetches, d \in Domains : Admit(c, d) /\ e.domain = d /\ e.time = now
    BY OnlyAdmitAdmits DEF CooldownInv
  <1>2. QED
    BY <1>1, AdmittedIsCool

\* No deadline, pruning or eviction lets a domain be fetched while it cools
\* down from a failure.
THEOREM FailuresCoolDown == Spec => CooldownHeld
  <1>1. CooldownInv /\ [Next]_vars
          => [\A e \in log' \ log, f \in log :
                /\ e.what = "admit" /\ f.what = "fail" /\ e.domain = f.domain
                => e.time - f.time >= Cooldown]_vars
    BY CoolStep
  <1>2. QED
    BY <1>1, InitCooldown, CooldownStep, PTL DEF Spec, CooldownHeld

-----------------------------------------------------------------------------
(* The quota: what a record's window tells of the admissions of its domain *)
(* and what is left of it once the record is gone.                         *)

Admissions(d) == {e \in log : e.what = "admit" /\ e.domain = d}
From(A, t) == {e \in A : e.time >= t}
Between(A, t, u) == {e \in A : e.time >= t /\ e.time < u}
Timed(A) == IsFiniteSet(A) /\ \A e \in A : e.time \in Nat

\* Since start at most count, and before it at most the quota in a window.
Windowed(A, start, count) ==
  /\ \A e \in A : e.time < start + QuotaWindow
  /\ Cardinality(From(A, start)) <= count
  /\ \A t \in Nat : t + QuotaWindow > start
                      => Cardinality(Between(A, t, start)) <= Quota

\* A window that begins now holds none, and one that contains now the quota.
Lapsed(A, time) ==
  /\ \A e \in A : e.time < time
  /\ \A t \in Nat : t + QuotaWindow > time => Cardinality(From(A, t)) <= Quota

InWindow(A) ==
  \A t \in Nat : Cardinality(Between(A, t, t + QuotaWindow)) <= 2 * Quota

Counting(d) ==
  /\ InWindow(Admissions(d))
  /\ d \in tracked => /\ record[d].start <= now /\ record[d].count <= Quota
                      /\ Windowed(Admissions(d), record[d].start, record[d].count)
  /\ d \notin tracked => Lapsed(Admissions(d), now)

QuotaInv == CooldownInv /\ \A d \in Domains : Counting(d)

LEMMA PartsFinite ==
  ASSUME NEW A, Timed(A), NEW t, NEW u
  PROVE  /\ IsFiniteSet(From(A, t)) /\ Cardinality(From(A, t)) \in Nat
         /\ IsFiniteSet(Between(A, t, u)) /\ Cardinality(Between(A, t, u)) \in Nat
  <1>1. From(A, t) \in SUBSET A /\ Between(A, t, u) \in SUBSET A
    BY DEF From, Between
  <1>2. IsFiniteSet(From(A, t)) /\ IsFiniteSet(Between(A, t, u))
    BY <1>1, FS_Subset DEF Timed
  <1>3. QED
    BY <1>2, FS_CardinalityType

LEMMA Fewer ==
  ASSUME NEW S, NEW T, IsFiniteSet(T), S \subseteq T, NEW n \in Nat,
         Cardinality(T) <= n
  PROVE  IsFiniteSet(S) /\ Cardinality(S) <= n
  <1>1. IsFiniteSet(S) /\ Cardinality(S) <= Cardinality(T)
    BY FS_Subset
  <1>2. Cardinality(S) \in Nat /\ Cardinality(T) \in Nat
    BY <1>1, FS_CardinalityType
  <1>3. QED
    BY <1>1, <1>2

LEMMA Together ==
  ASSUME NEW R, NEW S, NEW T, IsFiniteSet(S), IsFiniteSet(T), R \subseteq S \cup T,
         NEW m \in Nat, NEW n \in Nat, Cardinality(S) <= m, Cardinality(T) <= n
  PROVE  Cardinality(R) <= m + n
  <1>1. /\ IsFiniteSet(S \cup T)
        /\ Cardinality(S \cup T)
             = Cardinality(S) + Cardinality(T) - Cardinality(S \cap T)
    BY FS_Union
  <1>2. IsFiniteSet(S \cap T)
    BY FS_Intersection
  <1>3. /\ Cardinality(S) \in Nat /\ Cardinality(T) \in Nat
        /\ Cardinality(S \cap T) \in Nat
    BY <1>2, FS_CardinalityType
  <1>4. Cardinality(S \cup T) <= m + n
    BY <1>1, <1>3
  <1>5. m + n \in Nat
    OBVIOUS
  <1>6. QED
    BY <1>1, <1>4, <1>5, Fewer

\* A window that is over has lapsed, whether the record is pruned or renewed.
LEMMA WindowLapses ==
  ASSUME NEW A, Timed(A), NEW start \in Nat, NEW count \in Nat, count <= Quota,
         Windowed(A, start, count), NEW time \in Nat, start + QuotaWindow <= time
  PROVE  Lapsed(A, time)
  <1>1. \A e \in A : e.time < time
    BY DEF Windowed, Timed
  <1>2. ASSUME NEW t \in Nat, t + QuotaWindow > time
        PROVE  Cardinality(From(A, t)) <= Quota
    <2>1. From(A, t) \subseteq From(A, start)
      BY <1>2 DEF From, Timed
    <2>2. IsFiniteSet(From(A, start)) /\ Cardinality(From(A, start)) \in Nat
      BY PartsFinite
    <2>3. Cardinality(From(A, start)) <= Quota
      BY <2>2 DEF Windowed
    <2>4. QED
      BY <2>1, <2>2, <2>3, Fewer
  <1>3. QED
    BY <1>1, <1>2 DEF Lapsed

\* A new window may then be opened.
LEMMA LapsedOpens ==
  ASSUME NEW A, Timed(A), NEW time \in Nat, Lapsed(A, time)
  PROVE  Windowed(A, time, 0)
  <1>1. \A e \in A : e.time < time + QuotaWindow
    BY DEF Lapsed, Timed
  <1>2. From(A, time) = {}
    BY DEF From, Lapsed, Timed
  <1>3. Cardinality(From(A, time)) <= 0
    BY <1>2, FS_EmptySet
  <1>4. ASSUME NEW t \in Nat, t + QuotaWindow > time
        PROVE  Cardinality(Between(A, t, time)) <= Quota
    <2>1. Between(A, t, time) \subseteq From(A, t)
      BY DEF Between, From
    <2>2. IsFiniteSet(From(A, t)) /\ Cardinality(From(A, t)) <= Quota
      BY <1>4, PartsFinite DEF Lapsed
    <2>3. QED
      BY <2>1, <2>2, Fewer
  <1>5. QED
    BY <1>1, <1>3, <1>4 DEF Windowed

LEMMA LapsedStays ==
  ASSUME NEW A, Timed(A), NEW time \in Nat, Lapsed(A, time)
  PROVE  Lapsed(A, time + 1)
  <1>1. \A e \in A : e.time < time + 1
    BY DEF Lapsed, Timed
  <1>2. \A t \in Nat : t + QuotaWindow > time + 1 => t + QuotaWindow > time
    OBVIOUS
  <1>3. QED
    BY <1>1, <1>2 DEF Lapsed

\* One more admission in the window of a record that has room for it.
LEMMA WindowTakes ==
  ASSUME NEW A, Timed(A), NEW start \in Nat, NEW count \in Nat, count < Quota,
         Windowed(A, start, count), InWindow(A),
         NEW e, e.time \in Nat, start <= e.time, e.time < start + QuotaWindow
  PROVE  /\ Windowed(A \cup {e}, start, count + 1)
         /\ InWindow(A \cup {e})
  <1> DEFINE B == A \cup {e}
  <1>1. Timed(B) /\ IsFiniteSet({e}) /\ Cardinality({e}) = 1
    <2>1. IsFiniteSet(B)
      BY FS_AddElement DEF Timed
    <2>2. IsFiniteSet({e}) /\ Cardinality({e}) = 1
      BY FS_Singleton
    <2>3. QED
      BY <2>1, <2>2 DEF Timed
  <1>2. Cardinality(From(B, start)) <= count + 1
    <2>1. From(B, start) \subseteq From(A, start) \cup {e}
      BY DEF From
    <2>2. IsFiniteSet(From(A, start)) /\ Cardinality(From(A, start)) <= count
      BY PartsFinite DEF Windowed
    <2>3. Cardinality({e}) <= 1
      BY <1>1
    <2>4. QED
      BY <1>1, <2>1, <2>2, <2>3, Together
  <1>3. \A t \in Nat : Between(B, t, start) = Between(A, t, start)
    BY DEF Between
  <1>4. Windowed(B, start, count + 1)
    <2>1. \A x \in B : x.time < start + QuotaWindow
      BY DEF Windowed
    <2>2. QED
      BY <1>2, <1>3, <2>1 DEF Windowed
  <1>5. ASSUME NEW t \in Nat
        PROVE  Cardinality(Between(B, t, t + QuotaWindow)) <= 2 * Quota
    <2>1. CASE ~(t <= e.time /\ e.time < t + QuotaWindow)
      <3>1. Between(B, t, t + QuotaWindow) = Between(A, t, t + QuotaWindow)
        BY <2>1 DEF Between
      <3>2. QED
        BY <3>1 DEF InWindow
    <2>2. CASE t <= e.time /\ t + QuotaWindow > start
      <3>1. Between(B, t, t + QuotaWindow)
              \subseteq Between(A, t, start) \cup From(B, start)
        BY <1>1, <2>2 DEF Between, From, Timed
      <3>2. IsFiniteSet(Between(A, t, start)) /\ Cardinality(Between(A, t, start)) <= Quota
        BY <2>2, PartsFinite DEF Windowed
      <3>3. IsFiniteSet(From(B, start)) /\ Cardinality(From(B, start)) \in Nat
        BY <1>1, PartsFinite
      <3>4. Cardinality(From(B, start)) <= Quota
        BY <1>2, <3>3
      <3>5. Cardinality(Between(B, t, t + QuotaWindow)) <= Quota + Quota
        BY <3>1, <3>2, <3>3, <3>4, Together
      <3>6. QED
        BY <3>5
    <2>3. QED
      BY <2>1, <2>2
  <1>6. QED
    BY <1>4, <1>5 DEF InWindow

-----------------------------------------------------------------------------

LEMMA AdmissionsTimed ==
  ASSUME LogType, NEW d
  PROVE  Timed(Admissions(d))
  <1>1. Admissions(d) \in SUBSET log
    BY DEF Admissions
  <1>2. QED
    BY <1>1, FS_Subset DEF Timed, LogType, Admissions

LEMMA RecordNumbers ==
  ASSUME TypeOK, NEW d \in Domains
  PROVE  record[d].start \in Nat /\ record[d].count \in Nat /\ now \in Nat
  BY DEF TypeOK, Records

\* What admit goes by: the current record's window, new or not.
LEMMA CurrentWindow ==
  ASSUME QuotaInv, NEW d \in Domains, QuotaWindow > 0
  PROVE  /\ Current(d).start \in Nat /\ Current(d).count \in Nat
         /\ Current(d).start <= now /\ now < Current(d).start + QuotaWindow
         /\ Current(d).count <= Quota
         /\ Windowed(Admissions(d), Current(d).start, Current(d).count)
  <1> DEFINE A == Admissions(d)
  <1>1. TypeOK /\ LogType /\ Counting(d) /\ Timed(A)
    BY AdmissionsTimed DEF QuotaInv, CooldownInv
  <1>2. record[d].start \in Nat /\ record[d].count \in Nat /\ now \in Nat
    BY <1>1, RecordNumbers
  <1>3. CASE d \in Kept(d) /\ ~(now - record[d].start >= QuotaWindow)
    <2>1. Current(d) = record[d] /\ d \in tracked
      BY <1>1, <1>3, KeptBusy DEF Current
    <2>2. QED
      BY <1>1, <1>2, <1>3, <2>1 DEF Counting
  <1>4. CASE d \notin Kept(d) \/ now - record[d].start >= QuotaWindow
    <2>1. Current(d).start = now /\ Current(d).count = 0
      <3>1. CASE d \notin Kept(d)
        BY <3>1 DEF Current, NewRecord
      <3>2. CASE d \in Kept(d)
        BY <1>1, <1>4, <3>2 DEF Current, TypeOK, Records
      <3>3. QED
        BY <3>1, <3>2
    <2>2. Lapsed(A, now)
      <3>1. CASE d \notin tracked
        BY <1>1, <3>1 DEF Counting
      <3>2. CASE d \in tracked
        <4>1. record[d].start + QuotaWindow <= now
          <5>1. CASE d \in Kept(d)
            BY <1>2, <1>4, <5>1
          <5>2. CASE d \notin Kept(d)
            <6>1. now - record[d].start > Retention
              BY <1>1, <3>2, <5>2, DroppedIsStale, StaleIsOld
            <6>2. QED
              BY <1>2, <6>1, RetentionCovers
          <5>3. QED
            BY <5>1, <5>2
        <4>2. QED
          BY <1>1, <1>2, <3>2, <4>1, WindowLapses DEF Counting
      <3>3. QED
        BY <3>1, <3>2
    <2>3. Windowed(A, now, 0)
      BY <1>1, <1>2, <2>2, LapsedOpens
    <2>4. QED
      BY <1>2, <2>1, <2>3
  <1>5. QED
    BY <1>3, <1>4

\* A domain whose record is left alone or pruned.
LEMMA CountingKept ==
  ASSUME QuotaInv, NEW d \in Domains, now' = now, Admissions(d)' = Admissions(d),
         d \in tracked' => /\ d \in tracked /\ record'[d].start = record[d].start
                           /\ record'[d].count = record[d].count,
         d \in tracked /\ d \notin tracked' => d \in Stale
  PROVE  Counting(d)'
  <1> DEFINE A == Admissions(d)
  <1>1. TypeOK /\ LogType /\ Counting(d) /\ Timed(A)
    BY AdmissionsTimed DEF QuotaInv, CooldownInv
  <1>2. record[d].start \in Nat /\ record[d].count \in Nat /\ now \in Nat
    BY <1>1, RecordNumbers
  <1>3. InWindow(A)' /\ (Lapsed(A, now) => Lapsed(A, now)')
    BY <1>1 DEF InWindow, Lapsed, Counting
  <1>4. CASE d \in tracked'
    BY <1>1, <1>3, <1>4 DEF Counting, Windowed
  <1>5. CASE d \notin tracked'
    <2>1. CASE d \in tracked
      <3>1. now - record[d].start > Retention
        BY <1>1, <1>5, <2>1, StaleIsOld
      <3>2. record[d].start + QuotaWindow <= now
        BY <1>2, <3>1, RetentionCovers
      <3>3. Lapsed(A, now)
        BY <1>1, <1>2, <2>1, <3>2, WindowLapses DEF Counting
      <3>4. QED
        BY <1>3, <1>5, <3>3 DEF Counting
    <2>2. CASE d \notin tracked
      BY <1>1, <1>3, <1>5, <2>2 DEF Counting
    <2>3. QED
      BY <2>1, <2>2
  <1>6. QED
    BY <1>4, <1>5

LEMMA OthersCount ==
  ASSUME QuotaInv, NEW d \in Domains, NEW x \in Domains, x # d, PruneFor(d),
         now' = now, Admissions(x)' = Admissions(x), record'[x] = record[x]
  PROVE  Counting(x)'
  <1>1. TypeOK
    BY DEF QuotaInv, CooldownInv
  <1>2. x \in tracked' => x \in tracked
    BY <1>1, KeptBusy DEF PruneFor
  <1>3. x \in tracked /\ x \notin tracked' => x \in Stale
    BY <1>1, DroppedIsStale DEF PruneFor
  <1>4. QED
    BY <1>2, <1>3, CountingKept

LEMMA AdmitCounting ==
  ASSUME QuotaInv, Quota > 0, QuotaWindow > 0,
         NEW c \in Fetches, NEW d \in Domains, Admit(c, d)
  PROVE  \A x \in Domains : Counting(x)'
  <1> DEFINE A == Admissions(d)
  <1>1. TypeOK /\ LogType /\ now' = now /\ Timed(A) /\ InWindow(A) /\ now \in Nat
    BY AdmissionsTimed DEF QuotaInv, CooldownInv, Counting, Admit, TypeOK
  <1>2. PICK e : /\ log' = log \cup {e} /\ e.what = "admit" /\ e.domain = d
                 /\ e.time = now
    BY <1>1, Logged DEF Admit
  <1>3. Admissions(d)' = A \cup {e}
    BY <1>2 DEF Admissions
  <1>4. /\ Current(d).start \in Nat /\ Current(d).count \in Nat
        /\ Current(d).start <= now /\ now < Current(d).start + QuotaWindow
        /\ Windowed(A, Current(d).start, Current(d).count)
    BY CurrentWindow
  <1>5. Current(d).count < Quota
    BY <1>4 DEF Admit, OverQuota
  <1>6. /\ Windowed(A \cup {e}, Current(d).start, Current(d).count + 1)
        /\ InWindow(A \cup {e})
    BY <1>1, <1>2, <1>4, <1>5, WindowTakes
  <1>7. /\ record'[d].start = Current(d).start
        /\ record'[d].count = Current(d).count + 1
    <2>1. record'[d] = [Current(d) EXCEPT !.count = @ + 1, !.active = @ + 1]
      BY <1>1 DEF Admit, TypeOK
    <2>2. QED
      BY <1>1, <2>1, CurrentType DEF Records
  <1>8. d \in tracked'
    BY DEF Admit, PruneFor
  <1>9. Counting(d)'
    <2>1. Windowed(A \cup {e}, Current(d).start, Current(d).count + 1)
            <=> Windowed(Admissions(d)', record'[d].start, record'[d].count)
      BY <1>3, <1>7
    <2>2. record'[d].start <= now' /\ record'[d].count <= Quota
      BY <1>1, <1>4, <1>5, <1>7
    <2>3. QED
      BY <1>3, <1>6, <1>8, <2>1, <2>2 DEF Counting, Windowed, InWindow
  <1>10. ASSUME NEW x \in Domains, x # d PROVE Counting(x)'
    <2>1. Admissions(x)' = Admissions(x)
      BY <1>2, <1>10 DEF Admissions
    <2>2. record'[x] = record[x] /\ PruneFor(d)
      BY <1>1, <1>10 DEF Admit, TypeOK
    <2>3. QED
      BY <1>1, <1>10, <2>1, <2>2, OthersCount
  <1>11. QED
    BY <1>9, <1>10

LEMMA TurnAwayCounting ==
  ASSUME QuotaInv, QuotaWindow > 0, NEW d \in Domains, TurnAway(d)
  PROVE  \A x \in Domains : Counting(x)'
  <1>1. /\ TypeOK /\ now' = now /\ now \in Nat /\ PruneFor(d)
        /\ \A x : Admissions(x)' = Admissions(x)
    BY DEF QuotaInv, CooldownInv, TurnAway, TypeOK, Admissions
  <1>2. ASSUME NEW x \in Domains, x # d PROVE Counting(x)'
    <2>1. record'[x] = record[x]
      BY <1>1, <1>2 DEF TurnAway, TypeOK
    <2>2. QED
      BY <1>1, <1>2, <2>1, OthersCount
  <1>3. CASE NoRoom(d)
    <2>1. record' = record /\ tracked' = Kept(d) /\ d \notin Kept(d)
      BY <1>3 DEF TurnAway, PruneFor, NoRoom
    <2>2. d \in tracked => d \in Stale
      BY <1>1, <2>1, DroppedIsStale
    <2>3. Counting(d)'
      BY <1>1, <2>1, <2>2, CountingKept
    <2>4. QED
      BY <1>2, <2>3
  <1>4. CASE ~NoRoom(d)
    <2>1. record'[d] = Current(d) /\ d \in tracked'
      BY <1>1, <1>4 DEF TurnAway, PruneFor, TypeOK
    <2>2. InWindow(Admissions(d))
      BY DEF QuotaInv, Counting
    <2>3. Counting(d)'
      BY <1>1, <2>1, <2>2, CurrentWindow DEF Counting, Windowed, InWindow
    <2>4. QED
      BY <1>2, <2>3
  <1>5. QED
    BY <1>3, <1>4

LEMMA MarkCounting ==
  ASSUME QuotaInv, NEW c \in Fetches, Mark(c)
  PROVE  \A x \in Domains : Counting(x)'
  <1>1. TypeOK /\ LogType /\ now' = now /\ now \in Nat
    BY DEF QuotaInv, CooldownInv, Mark, TypeOK
  <1>2. SUFFICES ASSUME NEW x \in Domains PROVE Counting(x)'
    OBVIOUS
  <1>3. CASE UNCHANGED <<policy, log>>
    BY <1>1, <1>3, CountingKept DEF policy, Admissions
  <1>4. CASE permit[c].generation = generation /\ permit[c].domain \in tracked
    <2>1. PICK d \in Domains : d = permit[c].domain
      BY <1>1 DEF TypeOK, Permits
    <2>2. /\ record' = [record EXCEPT ![d] = Failed(d)]
          /\ tracked' = IF PruneDue THEN tracked \ (Stale \ {d}) ELSE tracked
          /\ Happened("fail", d)
      BY <1>4, <2>1 DEF Mark, MarkFailed
    <2>3. PICK e : log' = log \cup {e} /\ e.what = "fail"
      BY <1>1, <2>2, Logged
    <2>4. Admissions(x)' = Admissions(x)
      BY <2>3 DEF Admissions
    <2>5. /\ record'[x].start = record[x].start
          /\ record'[x].count = record[x].count
      <3>1. Failed(d).start = record[d].start /\ Failed(d).count = record[d].count
        BY <1>1 DEF Failed, TypeOK, Records
      <3>2. QED
        BY <1>1, <2>2, <3>1 DEF TypeOK
    <2>6. QED
      BY <1>1, <2>2, <2>4, <2>5, CountingKept
  <1>5. QED
    BY <1>3, <1>4 DEF Mark, MarkFailed

LEMMA NoneAdmitted ==
  ASSUME NEW A, A = {}, NEW time
  PROVE  InWindow(A) /\ Lapsed(A, time)
  <1>1. \A t, u : From(A, t) = {} /\ Between(A, t, u) = {}
    BY DEF From, Between
  <1>2. QED
    BY <1>1, FS_EmptySet DEF InWindow, Lapsed

LEMMA InitQuota == Init => QuotaInv
  <1> SUFFICES ASSUME Init, NEW d \in Domains PROVE Counting(d)
    BY InitCooldown DEF QuotaInv
  <1>1. Admissions(d) = {} /\ d \notin tracked
    BY DEF Init, Admissions
  <1>2. QED
    BY <1>1, NoneAdmitted DEF Counting

LEMMA QuotaStep ==
  ASSUME Quota > 0, QuotaWindow > 0, QuotaInv, [Next]_vars
  PROVE  QuotaInv'
  <1> SUFFICES \A d \in Domains : Counting(d)'
    BY CooldownStep DEF QuotaInv
  <1>0. TypeOK /\ LogType /\ now \in Nat
    BY DEF QuotaInv, CooldownInv, TypeOK
  <1>1. CASE \E c \in Fetches, d \in Domains : Admit(c, d)
    BY <1>1, AdmitCounting
  <1>2. CASE \E d \in Domains : TurnAway(d)
    BY <1>2, TurnAwayCounting
  <1>3. CASE \E c \in Fetches : Mark(c)
    BY <1>3, MarkCounting
  <1>4. ASSUME UNCHANGED <<tracked, now, log>>,
               \A d \in Domains : /\ record'[d].start = record[d].start
                                  /\ record'[d].count = record[d].count
        PROVE  \A d \in Domains : Counting(d)'
    BY <1>4, CountingKept DEF Admissions
  <1>5. CASE \E c \in Fetches : \/ Start(c) \/ Result(c) \/ Timeout(c)
                                \/ AddCallback(c) \/ WorkerEnds(c)
    BY <1>0, <1>4, <1>5, QuietSteps
  <1>6. CASE \E c \in Fetches : CallerReleases(c) \/ WorkerReleases(c)
    BY <1>0, <1>4, <1>6, ReleaseKeepsTimes
  <1>7. CASE Configure \/ UNCHANGED vars
    <2>1. UNCHANGED <<tracked, record, now, log>>
      BY <1>7 DEF Configure, vars, policy
    <2>2. QED
      BY <1>4, <2>1
  <1>8. CASE Reset
    <2>1. \A d : Admissions(d)' = {} /\ d \notin tracked'
      BY <1>8 DEF Reset, Admissions
    <2>2. QED
      BY <2>1, NoneAdmitted DEF Counting
  <1>9. CASE Tick
    <2>1. now' = now + 1 /\ tracked' = tracked /\ record' = record /\ log' = log
      BY <1>9 DEF Tick, policy
    <2>2. ASSUME NEW d \in Domains PROVE Counting(d)'
      <3>1. Admissions(d)' = Admissions(d) /\ Timed(Admissions(d))
        BY <1>0, <2>1, AdmissionsTimed DEF Admissions
      <3>2. Counting(d) /\ record[d].start \in Nat
        BY <1>0, RecordNumbers DEF QuotaInv
      <3>3. Lapsed(Admissions(d), now) => Lapsed(Admissions(d), now + 1)
        BY <1>0, <3>1, LapsedStays
      <3>4. QED
        BY <1>0, <2>1, <3>1, <3>2, <3>3 DEF Counting, Windowed, Lapsed, InWindow
    <2>3. QED
      BY <2>2
  <1>10. QED
    BY <1>1, <1>2, <1>3, <1>5, <1>6, <1>7, <1>8, <1>9 DEF Next, Caller

LEMMA CountedIsSliding ==
  ASSUME QuotaInv
  PROVE  SlidingQuota
  <1>1. \A d \in Domains, t \in Nat :
          {e \in log : /\ e.what = "admit" /\ e.domain = d
                       /\ e.time >= t /\ e.time < t + QuotaWindow}
            = Between(Admissions(d), t, t + QuotaWindow)
    BY DEF Between, Admissions
  <1>2. \A t \in 0..now : t \in Nat
    OBVIOUS
  <1>3. QED
    BY <1>1, <1>2 DEF SlidingQuota, QuotaInv, Counting, InWindow

\* A window of no length holds nothing.
LEMMA NoWindow ==
  ASSUME LogType, QuotaWindow = 0
  PROVE  SlidingQuota
  <1> SUFFICES ASSUME NEW d \in Domains, NEW t \in 0..now
               PROVE  Cardinality({e \in log : /\ e.what = "admit" /\ e.domain = d
                                               /\ e.time >= t /\ e.time < t + QuotaWindow})
                        <= 2 * Quota
    BY DEF SlidingQuota
  <1>1. {e \in log : /\ e.what = "admit" /\ e.domain = d
                     /\ e.time >= t /\ e.time < t + QuotaWindow} = {}
    BY DEF LogType
  <1>2. QED
    BY <1>1, FS_EmptySet

\* However records are pruned and evicted, no window holds more than twice a
\* domain's quota of its fetches.
THEOREM QuotaSlides == Spec => []SlidingQuota
  <1>1. CASE Quota > 0 /\ QuotaWindow > 0
    <2>1. QuotaInv /\ [Next]_vars => QuotaInv'
      BY <1>1, QuotaStep
    <2>2. QuotaInv => SlidingQuota
      BY CountedIsSliding
    <2>3. QED
      BY <2>1, <2>2, InitQuota, PTL DEF Spec
  <1>2. CASE ~(Quota > 0 /\ QuotaWindow > 0)
    <2>1. CooldownInv => SlidingQuota
      BY <1>2, NoWindow DEF CooldownInv, SlidingQuota
    <2>2. QED
      BY <2>1, InitCooldown, CooldownStep, PTL DEF Spec
  <1>3. QED
    BY <1>1, <1>2
=============================================================================
