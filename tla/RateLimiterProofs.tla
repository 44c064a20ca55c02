-------------------------- MODULE RateLimiterProofs --------------------------
(***************************************************************************)
(* The rate limiter for any addresses, limit, window and table: what it    *)
(* keeps of a client is the end of the client's admissions, and all that   *)
(* it dropped is older than the window.                                    *)
(***************************************************************************)
EXTENDS RateLimiter, FiniteSetTheorems, SequenceTheorems, WellFoundedInduction, TLAPS

\* The sequence s is the end of the admissions a, and what is missing is old.
EndOf(s, a) ==
  /\ Len(s) <= Len(a)
  /\ \A i \in 1..Len(s) : s[i] = a[Len(a) - Len(s) + i]
  /\ \A i \in 1..(Len(a) - Len(s)) : Old(a[i])

Held(table, k) == IF k \in DOMAIN table THEN table[k] ELSE <<>>

\* A table of sequences that is true to the admissions and within its bound.
Faithful(table, adm) ==
  /\ table \in [DOMAIN table -> Seq(Nat)] /\ DOMAIN table \subseteq Ips
  /\ Cardinality(DOMAIN table) <= MaxTracked
  /\ \A k \in Ips : EndOf(Held(table, k), adm[k])

Inv == /\ TypeOK /\ Faithful(events, admitted)
       /\ SlidingLimit /\ RefusedForCause

-----------------------------------------------------------------------------
(* The leading old entries of a sequence.                                  *)

LEMMA Least ==
  ASSUME NEW T \in SUBSET Nat, T # {}
  PROVE  \E m \in T : \A n \in T : m <= n
  <1>1. PICK m \in T : \A n \in T : ~(<<n, m>> \in OpToRel(<, Nat))
    BY NatLessThanWellFounded, WFMin
  <1>2. \A n \in T : ~(n < m)
    BY <1>1 DEF OpToRel
  <1>. QED  BY <1>2

LEMMA LeadingExists ==
  ASSUME now \in Nat, NEW s \in Seq(Nat)
  PROVE  /\ Leading(s) \in 0..Len(s)
         /\ \A i \in 1..Leading(s) : Old(s[i])
         /\ Leading(s) < Len(s) => ~Old(s[Leading(s) + 1])
  <1>. DEFINE Fresh == {i \in 1..Len(s) : ~Old(s[i])}
  <1>. SUFFICES \E n \in 0..Len(s) : /\ \A i \in 1..n : Old(s[i])
                                     /\ n < Len(s) => ~Old(s[n + 1])
    BY DEF Leading
  <1>1. CASE Fresh = {}
    BY <1>1
  <1>2. CASE Fresh # {}
    <2>0. Fresh \in SUBSET Nat
      OBVIOUS
    <2>. HIDE DEF Fresh
    <2>1. PICK m \in Fresh : \A n \in Fresh : m <= n
      BY <1>2, <2>0, Least
    <2>. USE DEF Fresh
    <2>2. m - 1 \in 0..Len(s) /\ \A i \in 1..(m - 1) : Old(s[i])
      BY <2>1
    <2>. QED  BY <2>1, <2>2
  <1>. QED  BY <1>1, <1>2

LEMMA KeptFacts ==
  ASSUME now \in Nat, NEW s \in Seq(Nat)
  PROVE  /\ Kept(s) \in Seq(Nat) /\ Len(Kept(s)) = Len(s) - Leading(s)
         /\ \A i \in 1..Len(Kept(s)) : Kept(s)[i] = s[Leading(s) + i]
         /\ Kept(s) # <<>> => ~Old(Kept(s)[1])
  <1>1. Leading(s) \in 0..Len(s) /\ Leading(s) \in Nat
    BY LeadingExists
  <1>2. /\ Kept(s) \in Seq(Nat) /\ Len(Kept(s)) = Len(s) - Leading(s)
        /\ \A i \in 1..Len(Kept(s)) : Kept(s)[i] = s[Leading(s) + i]
    <2>. DEFINE n == Leading(s)
                len == Len(s)
                sub == SubSeq(s, n + 1, len)
    <2>1. /\ n \in Nat /\ len \in Nat /\ n <= len /\ n + 1 \in Int /\ len \in Int
          /\ \A i \in (n + 1)..len : s[i] \in Nat
      BY <1>1
    <2>. HIDE DEF n, len
    <2>2. /\ sub \in Seq(Nat)
          /\ Len(sub) = IF n + 1 <= len THEN len - (n + 1) + 1 ELSE 0
          /\ \A i \in 1..(len - (n + 1) + 1) : sub[i] = s[n + 1 + i - 1]
      BY <2>1, SubSeqProperties
    <2>3. Kept(s) = sub
      BY DEF Kept, n, len
    <2>. HIDE DEF sub
    <2>4. /\ Len(sub) = len - n
          /\ \A i \in 1..(len - n) : sub[i] = s[n + i]
      BY <2>1, <2>2
    <2>. QED  BY <2>2, <2>3, <2>4 DEF n, len
  <1>3. ASSUME Kept(s) # <<>>
        PROVE  ~Old(Kept(s)[1])
    <2>1. Len(Kept(s)) \in Nat /\ Len(Kept(s)) # 0 /\ Len(s) \in Nat
      BY <1>2, <1>3
    <2>2. 1 \in 1..Len(Kept(s)) /\ Leading(s) < Len(s)
      BY <1>1, <1>2, <2>1
    <2>3. Kept(s)[1] = s[Leading(s) + 1]
      BY <1>2, <2>2
    <2>4. ~Old(s[Leading(s) + 1])
      BY <2>2, LeadingExists
    <2>. QED  BY <2>3, <2>4
  <1>. QED  BY <1>2, <1>3

LEMMA Shift ==
  \A la, ls, n, i \in Nat : i >= 1 /\ i <= ls - n =>
    n + i \in 1..ls /\ (la - ls) + (n + i) = la - (ls - n) + i
  OBVIOUS

LEMMA KeptIsEnd ==
  ASSUME now \in Nat, NEW s \in Seq(Nat), NEW a \in Seq(Nat), EndOf(s, a)
  PROVE  EndOf(Kept(s), a)
  <1>. DEFINE d == Len(a) - Len(s)
              n == Leading(s)
  <1>0. /\ n \in 0..Len(s) /\ Len(Kept(s)) = Len(s) - n
        /\ \A j \in 1..Len(Kept(s)) : Kept(s)[j] = s[n + j]
    BY LeadingExists, KeptFacts
  <1>1. /\ n \in 0..Len(s) /\ d \in Nat /\ Len(Kept(s)) = Len(s) - n
        /\ Len(s) \in Nat /\ Len(a) \in Nat
    BY <1>0 DEF EndOf
  <1>2. ASSUME NEW i \in 1..Len(Kept(s))
        PROVE  Kept(s)[i] = a[Len(a) - Len(Kept(s)) + i]
    <2>1. Kept(s)[i] = s[n + i]
      BY <1>0
    <2>2. /\ n + i \in 1..Len(s)
          /\ d + (n + i) = Len(a) - Len(Kept(s)) + i
      <3>1. /\ n \in Nat /\ i \in Nat /\ i >= 1 /\ i <= Len(s) - n
            /\ Len(s) \in Nat /\ Len(a) \in Nat
        BY <1>1
      <3>. HIDE DEF n
      <3>2. /\ n + i \in 1..Len(s)
            /\ (Len(a) - Len(s)) + (n + i) = Len(a) - (Len(s) - n) + i
        BY <3>1, Shift
      <3>3. Len(Kept(s)) = Len(s) - n
        BY <1>1
      <3>. QED  BY <3>2, <3>3
    <2>3. s[n + i] = a[d + (n + i)]
      BY <2>2 DEF EndOf
    <2>. QED  BY <2>1, <2>2, <2>3
  <1>3. ASSUME NEW i \in 1..(Len(a) - Len(Kept(s)))
        PROVE  Old(a[i])
    <2>1. CASE i <= d
      BY <2>1 DEF EndOf
    <2>2. CASE i > d
      <3>1. i - d \in 1..n /\ i - d \in 1..Len(s)
        BY <1>1, <2>2
      <3>2. Old(s[i - d]) /\ s[i - d] = a[d + (i - d)]
        BY <3>1, LeadingExists DEF EndOf
      <3>. QED  BY <1>1, <3>2
    <2>. QED  BY <1>1, <2>1, <2>2
  <1>. QED  BY <1>1, <1>2, <1>3 DEF EndOf

LEMMA EndAppend ==
  ASSUME now \in Nat, NEW s \in Seq(Nat), NEW a \in Seq(Nat), EndOf(s, a)
  PROVE  EndOf(Append(s, now), Append(a, now))
  <1>. DEFINE longer == Append(s, now)
              all == Append(a, now)
  <1>1. /\ Len(longer) = Len(s) + 1 /\ Len(all) = Len(a) + 1
        /\ Len(s) \in Nat /\ Len(a) \in Nat /\ Len(s) <= Len(a)
    BY DEF EndOf
  <1>2. ASSUME NEW i \in 1..Len(longer)
        PROVE  longer[i] = all[Len(a) - Len(s) + i]
    <2>1. CASE i = Len(s) + 1
      BY <1>1, <2>1
    <2>2. CASE i \in 1..Len(s)
      BY <1>1, <2>2 DEF EndOf
    <2>3. i = Len(s) + 1 \/ i \in 1..Len(s)
      BY <1>1
    <2>. QED  BY <2>1, <2>2, <2>3
  <1>3. ASSUME NEW i \in 1..(Len(a) - Len(s))
        PROVE  Old(all[i])
    BY <1>1 DEF EndOf
  <1>4. Len(all) - Len(longer) = Len(a) - Len(s)
    BY <1>1
  <1>. HIDE DEF longer, all
  <1>5. Len(longer) <= Len(all)
    BY <1>1
  <1>6. \A i \in 1..Len(longer) : longer[i] = all[Len(all) - Len(longer) + i]
    BY <1>2, <1>4
  <1>7. \A i \in 1..(Len(all) - Len(longer)) : Old(all[i])
    BY <1>3, <1>4
  <1>8. EndOf(longer, all)
    BY <1>5, <1>6, <1>7 DEF EndOf
  <1>. QED  BY <1>8 DEF longer, all

-----------------------------------------------------------------------------
(* Tables.                                                                 *)

LEMMA HeldType ==
  ASSUME NEW table, NEW adm, Faithful(table, adm), NEW k
  PROVE  Held(table, k) \in Seq(Nat)
  BY DEF Faithful, Held

LEMMA FiniteDomain ==
  ASSUME NEW table, NEW adm, Faithful(table, adm)
  PROVE  IsFiniteSet(DOMAIN table) /\ Cardinality(DOMAIN table) \in Nat
  BY LimiterAssumption, FS_Subset, FS_CardinalityType DEF Faithful

LEMMA PrunedFaithful ==
  ASSUME now \in Nat, NEW table, NEW adm \in [Ips -> Seq(Nat)], Faithful(table, adm)
  PROVE  /\ Faithful(Pruned(table), adm)
         /\ \A k \in DOMAIN Pruned(table) :
              Pruned(table)[k] # <<>> /\ ~Old(Pruned(table)[k][1])
  <1>1. /\ \A k \in DOMAIN table : table[k] \in Seq(Nat)
        /\ DOMAIN Pruned(table) \subseteq DOMAIN table
        /\ \A k \in DOMAIN Pruned(table) : Pruned(table)[k] = Kept(table[k])
        /\ \A k \in DOMAIN table \ DOMAIN Pruned(table) : Kept(table[k]) = <<>>
        /\ \A k \in DOMAIN Pruned(table) : Kept(table[k]) # <<>>
    BY DEF Faithful, Pruned, Emptied
  <1>2. Pruned(table) \in [DOMAIN Pruned(table) -> Seq(Nat)]
    BY <1>1, KeptFacts DEF Pruned
  <1>3. Cardinality(DOMAIN Pruned(table)) <= MaxTracked
    <2>1. IsFiniteSet(DOMAIN table) /\ Cardinality(DOMAIN table) \in Nat
      BY FiniteDomain
    <2>2. /\ Cardinality(DOMAIN Pruned(table)) <= Cardinality(DOMAIN table)
          /\ Cardinality(DOMAIN Pruned(table)) \in Nat
      BY <1>1, <2>1, FS_Subset, FS_CardinalityType
    <2>. QED  BY <2>1, <2>2, LimiterAssumption DEF Faithful
  <1>4. ASSUME NEW k \in Ips
        PROVE  EndOf(Held(Pruned(table), k), adm[k])
    <2>1. EndOf(Held(table, k), adm[k]) /\ adm[k] \in Seq(Nat)
      BY DEF Faithful
    <2>2. CASE k \in DOMAIN table
      <3>1. EndOf(Kept(table[k]), adm[k])
        BY <1>1, <2>1, <2>2, KeptIsEnd DEF Held
      <3>2. Held(Pruned(table), k) = Kept(table[k])
        BY <1>1, <2>2 DEF Held
      <3>. QED  BY <3>1, <3>2
    <2>3. CASE k \notin DOMAIN table
      BY <1>1, <2>1, <2>3 DEF Held
    <2>. QED  BY <2>2, <2>3
  <1>5. Faithful(Pruned(table), adm)
    BY <1>1, <1>2, <1>3, <1>4 DEF Faithful
  <1>. QED  BY <1>1, <1>5, KeptFacts

LEMMA AddFaithful ==
  ASSUME NEW table, NEW adm \in [Ips -> Seq(Nat)], Faithful(table, adm),
         NEW k \in Ips, NEW s \in Seq(Nat), NEW a \in Seq(Nat), EndOf(s, a),
         k \in DOMAIN table \/ ~Full(table)
  PROVE  Faithful(Tracked(table, k, s), [adm EXCEPT ![k] = a])
  <1>1. /\ DOMAIN Tracked(table, k, s) = DOMAIN table \cup {k}
        /\ Tracked(table, k, s)[k] = s
        /\ \A j \in DOMAIN table : j # k => Tracked(table, k, s)[j] = table[j]
    BY DEF Tracked
  <1>2. Cardinality(DOMAIN table \cup {k}) <= MaxTracked
    <2>1. IsFiniteSet(DOMAIN table) /\ Cardinality(DOMAIN table) \in Nat
      BY FiniteDomain
    <2>2. Cardinality(DOMAIN table \cup {k}) =
            IF k \in DOMAIN table THEN Cardinality(DOMAIN table)
                                  ELSE Cardinality(DOMAIN table) + 1
      BY <2>1, FS_AddElement
    <2>3. MaxTracked \in Nat /\ Cardinality(DOMAIN table) <= MaxTracked
      BY LimiterAssumption DEF Faithful
    <2>. QED  BY <2>1, <2>2, <2>3 DEF Full
  <1>3. Tracked(table, k, s) \in [DOMAIN table \cup {k} -> Seq(Nat)]
    BY DEF Tracked, Faithful
  <1>4. ASSUME NEW j \in Ips
        PROVE  EndOf(Held(Tracked(table, k, s), j), [adm EXCEPT ![k] = a][j])
    <2>1. CASE j = k
      BY <1>1, <2>1 DEF Held
    <2>2. CASE j # k
      <3>1. Held(Tracked(table, k, s), j) = Held(table, j)
        BY <1>1, <2>2 DEF Held
      <3>. QED  BY <2>2, <3>1 DEF Faithful
    <2>. QED  BY <2>1, <2>2
  <1>. QED  BY <1>1, <1>2, <1>3, <1>4 DEF Faithful

-----------------------------------------------------------------------------
(* What one request does.                                                  *)

\* With fewer than Limit counted admissions, the admission that lies Limit
\* before a new one is old.
LEMMA AdmitKeepsLimit ==
  ASSUME Inv, NEW k \in Ips, Limit > 0, NEW s \in Seq(Nat), EndOf(s, admitted[k]),
         Len(s) < Limit, UNCHANGED now, Admit(k)
  PROVE  /\ admitted' \in [Ips -> Seq(Nat)]
         /\ \A j \in Ips : \A i \in DOMAIN admitted'[j] :
              /\ admitted'[j][i] <= now'
              /\ \A h \in 1..i : admitted'[j][h] <= admitted'[j][i]
         /\ SlidingLimit' /\ refused' = NoIp
  <1>1. /\ admitted' = [admitted EXCEPT ![k] = Append(@, now)] /\ refused' = NoIp
        /\ admitted \in [Ips -> Seq(Nat)] /\ now \in Nat /\ now' = now
        /\ Limit \in Nat /\ Window \in Nat
    BY LimiterAssumption DEF Admit, Inv, TypeOK
  <1>2. ASSUME NEW j \in Ips, j # k
        PROVE  admitted'[j] = admitted[j]
    BY <1>1, <1>2
  <1>. DEFINE a == admitted[k]
  <1>3. /\ a \in Seq(Nat) /\ admitted'[k] = Append(a, now)
        /\ Len(a) \in Nat /\ Len(s) \in Nat
        /\ DOMAIN a = 1..Len(a) /\ DOMAIN admitted'[k] = 1..(Len(a) + 1)
        /\ \A i \in 1..Len(a) : admitted'[k][i] = a[i] /\ a[i] \in Nat
        /\ admitted'[k][Len(a) + 1] = now
    BY <1>1
  <1>4. /\ \A i \in 1..Len(a) : a[i] <= now /\ \A h \in 1..i : a[h] <= a[i]
        /\ \A i \in 1..Len(a) : i + Limit \in 1..Len(a) => a[i + Limit] >= a[i] + Window
    BY <1>3 DEF Inv, TypeOK, SlidingLimit
  <1>5. \A i \in 1..(Len(a) + 1) :
          /\ admitted'[k][i] <= now
          /\ \A h \in 1..i : admitted'[k][h] <= admitted'[k][i]
    <2>1. ASSUME NEW i \in 1..Len(a)
          PROVE  /\ admitted'[k][i] <= now
                 /\ \A h \in 1..i : admitted'[k][h] <= admitted'[k][i]
      <3>1. \A h \in 1..i : h \in 1..Len(a)
        BY <1>3
      <3>. QED  BY <1>3, <1>4, <3>1
    <2>2. \A h \in 1..(Len(a) + 1) : admitted'[k][h] <= now
      <3>1. \A h \in 1..(Len(a) + 1) : h \in 1..Len(a) \/ h = Len(a) + 1
        BY <1>3
      <3>. QED  BY <1>1, <1>3, <1>4, <3>1
    <2>3. \A i \in 1..(Len(a) + 1) : i \in 1..Len(a) \/ i = Len(a) + 1
      BY <1>3
    <2>. QED  BY <1>3, <2>1, <2>2, <2>3
  <1>6. ASSUME NEW i \in 1..(Len(a) + 1), i + Limit \in 1..(Len(a) + 1)
        PROVE  admitted'[k][i + Limit] >= admitted'[k][i] + Window
    <2>1. i \in 1..Len(a) /\ admitted'[k][i] = a[i]
      BY <1>1, <1>3, <1>6
    <2>2. CASE i + Limit \in 1..Len(a)
      BY <1>3, <1>4, <2>1, <2>2
    <2>3. CASE i + Limit = Len(a) + 1
      <3>1. i \in 1..(Len(a) - Len(s))
        BY <1>1, <1>3, <1>6, <2>3
      <3>2. Old(a[i])
        BY <3>1 DEF EndOf
      <3>. QED  BY <1>3, <2>1, <2>3, <3>2 DEF Old
    <2>. QED  BY <1>3, <1>6, <2>2, <2>3
  <1>8. SlidingLimit'
    <2>1. ASSUME NEW j \in Ips, NEW i \in DOMAIN admitted'[j], i + Limit \in DOMAIN admitted'[j]
          PROVE  admitted'[j][i + Limit] >= admitted'[j][i] + Window
      <3>1. CASE j = k
        BY <1>3, <1>6, <2>1, <3>1
      <3>2. CASE j # k
        BY <1>2, <2>1, <3>2 DEF Inv, SlidingLimit
      <3>. QED  BY <3>1, <3>2
    <2>. QED  BY <2>1 DEF SlidingLimit
  <1>9. \A j \in Ips : \A i \in DOMAIN admitted'[j] :
          /\ admitted'[j][i] <= now'
          /\ \A h \in 1..i : admitted'[j][h] <= admitted'[j][i]
    <2>1. ASSUME NEW j \in Ips, j # k, NEW i \in DOMAIN admitted'[j]
          PROVE  /\ admitted'[j][i] <= now'
                 /\ \A h \in 1..i : admitted'[j][h] <= admitted'[j][i]
      BY <1>1, <1>2, <2>1 DEF Inv, TypeOK
    <2>. QED  BY <1>1, <1>3, <1>5, <2>1
  <1>. QED  BY <1>1, <1>8, <1>9

\* The faithfulness of the next table, in which times are compared with the
\* same clock.
LEMMA FaithfulNext ==
  ASSUME UNCHANGED now, Faithful(events', admitted')
  PROVE  Faithful(events, admitted)'
  BY DEF Faithful, EndOf, Held, Old

LEMMA AllowNewInv ==
  ASSUME Inv, NEW k \in Ips, Limit > 0, AllowNew(k), UNCHANGED now
  PROVE  Inv'
  <1>1. /\ now \in Nat /\ admitted \in [Ips -> Seq(Nat)] /\ admitted[k] \in Seq(Nat)
        /\ lastPruned \in 0..now /\ k \notin DOMAIN events
        /\ lastPruned' \in 0..now'
    BY DEF Inv, TypeOK, AllowNew
  <1>2. Faithful(AfterDue, admitted) /\ Faithful(MakeRoom, admitted)
    BY <1>1, PrunedFaithful DEF Inv, AfterDue, MakeRoom
  <1>3. /\ k \notin DOMAIN AfterDue /\ k \notin DOMAIN MakeRoom
    BY <1>1 DEF AfterDue, MakeRoom, Pruned
  <1>4. EndOf(<<>>, admitted[k]) /\ <<>> \in Seq(Nat)
    BY <1>2, <1>3 DEF Faithful, Held
  <1>5. CASE ~Full(MakeRoom)
    <2>1. events' = Tracked(MakeRoom, k, <<now>>) /\ Admit(k)
      BY <1>5 DEF AllowNew
    <2>2. EndOf(<<now>>, Append(admitted[k], now)) /\ <<now>> \in Seq(Nat)
      <3>1. Append(<<>>, now) = <<now>> /\ <<now>> \in Seq(Nat)
        BY <1>1
      <3>2. EndOf(Append(<<>>, now), Append(admitted[k], now))
        BY <1>1, <1>4, EndAppend
      <3>. QED  BY <3>1, <3>2, Zenon
    <2>3. Faithful(Tracked(MakeRoom, k, <<now>>),
                   [admitted EXCEPT ![k] = Append(admitted[k], now)])
      <3>1. Append(admitted[k], now) \in Seq(Nat)
        BY <1>1
      <3>. QED  BY <1>1, <1>2, <1>5, <2>2, <3>1, AddFaithful
    <2>4. Faithful(events', admitted')
      BY <2>1, <2>3 DEF Admit
    <2>5. /\ admitted' \in [Ips -> Seq(Nat)]
          /\ \A j \in Ips : \A i \in DOMAIN admitted'[j] :
               /\ admitted'[j][i] <= now'
               /\ \A h \in 1..i : admitted'[j][h] <= admitted'[j][i]
          /\ SlidingLimit' /\ refused' = NoIp
      <3>1. Len(<<>>) < Limit
        OBVIOUS
      <3>. QED  BY <1>4, <2>1, <3>1, AdmitKeepsLimit
    <2>6. Faithful(events, admitted)'
      BY <2>4, FaithfulNext
    <2>7. TypeOK'
      BY <1>1, <2>4, <2>5 DEF TypeOK, Faithful
    <2>8. RefusedForCause'
      BY <2>5 DEF RefusedForCause
    <2>. QED  BY <2>5, <2>6, <2>7, <2>8 DEF Inv
  <1>6. CASE Full(MakeRoom)
    <2>1. /\ events' = MakeRoom /\ refused' = k /\ UNCHANGED admitted
      BY <1>6 DEF AllowNew, Refuse
    <2>2. Faithful(events', admitted')
      BY <1>2, <2>1
    <2>3. MakeRoom = Pruned(AfterDue)
      BY <1>6 DEF MakeRoom
    <2>4. ASSUME NEW j \in DOMAIN MakeRoom
          PROVE  j \in Ips /\ Recent(j) # {}
      <3>. DEFINE held == MakeRoom[j]
                  a == admitted[j]
                  first == Len(a) - Len(held) + 1
      <3>1. /\ j \in Ips /\ held \in Seq(Nat) /\ a \in Seq(Nat)
            /\ EndOf(held, a) /\ held # <<>> /\ ~Old(held[1])
        <4>1. j \in Ips /\ EndOf(held, a) /\ held \in Seq(Nat)
          BY <1>2 DEF Faithful, Held
        <4>2. held # <<>> /\ ~Old(held[1])
          BY <1>1, <1>2, <2>3, PrunedFaithful
        <4>. QED  BY <1>1, <4>1, <4>2
      <3>2. /\ Len(held) \in Nat /\ Len(a) \in Nat /\ Len(held) >= 1
            /\ Len(held) <= Len(a) /\ DOMAIN a = 1..Len(a)
        BY <3>1 DEF EndOf
      <3>3. first \in DOMAIN a /\ 1 \in 1..Len(held)
        BY <3>2
      <3>4. held[1] = a[first]
        BY <3>1, <3>3 DEF EndOf
      <3>5. first \in Recent(j)
        BY <3>1, <3>3, <3>4 DEF Recent
      <3>. QED  BY <3>1, <3>5
    <2>5. Cardinality({j \in Ips : Recent(j) # {}}) >= MaxTracked
      <3>. DEFINE R == {j \in Ips : Recent(j) # {}}
      <3>1. DOMAIN MakeRoom \in SUBSET R /\ R \in SUBSET Ips
        BY <2>4
      <3>2. IsFiniteSet(R) /\ Cardinality(R) \in Nat
        BY <3>1, LimiterAssumption, FS_Subset, FS_CardinalityType
      <3>3. Cardinality(DOMAIN MakeRoom) <= Cardinality(R)
        BY <3>1, <3>2, FS_Subset
      <3>4. Cardinality(DOMAIN MakeRoom) >= MaxTracked /\ Cardinality(DOMAIN MakeRoom) \in Nat
        BY <1>2, <1>6, FiniteDomain DEF Full
      <3>. QED  BY <3>2, <3>3, <3>4, LimiterAssumption
    <2>6. \A j \in Ips : Recent(j)' = Recent(j)
      BY <2>1 DEF Recent, Old
    <2>7. RefusedForCause'
      <3>1. {j \in Ips : Recent(j)' # {}} = {j \in Ips : Recent(j) # {}}
        BY <2>6
      <3>. QED  BY <2>5, <3>1 DEF RefusedForCause
    <2>8. Faithful(events, admitted)'
      BY <2>2, FaithfulNext
    <2>9. TypeOK' /\ SlidingLimit'
      BY <1>1, <2>1, <2>2 DEF Inv, TypeOK, SlidingLimit, Faithful
    <2>. QED  BY <2>7, <2>8, <2>9 DEF Inv
  <1>. QED  BY <1>5, <1>6

\* The kept end of the admissions is in order, so when its first still counts
\* all of it does.
LEMMA FreshCount ==
  ASSUME now \in Nat, NEW a \in Seq(Nat), NEW h \in Seq(Nat),
         \A i \in 1..Len(a) : \A j \in 1..i : a[j] <= a[i],
         EndOf(h, a), h # <<>>, ~Old(h[1])
  PROVE  LET fresh == {i \in DOMAIN a : ~Old(a[i])}
         IN  Cardinality(fresh) \in Nat /\ Cardinality(fresh) >= Len(h)
  <1>. DEFINE fresh == {i \in DOMAIN a : ~Old(a[i])}
              first == Len(a) - Len(h) + 1
  <1>1. /\ Len(h) \in Nat /\ Len(a) \in Nat /\ Len(h) >= 1 /\ Len(h) <= Len(a)
    BY DEF EndOf
  <1>2. /\ first \in Int /\ first >= 1 /\ first <= Len(a)
        /\ Len(a) - first + 1 = Len(h) /\ Len(a) \in Int /\ 1 \in 1..Len(h)
    <2>1. \A x, y \in Nat : y >= 1 /\ y <= x =>
            /\ x - y + 1 \in Int /\ x - y + 1 >= 1 /\ x - y + 1 <= x
            /\ x - (x - y + 1) + 1 = y /\ x \in Int /\ 1 \in 1..y
      OBVIOUS
    <2>. QED  BY <1>1, <2>1
  <1>3. h[1] = a[first]
    BY <1>1, <1>2 DEF EndOf
  <1>. HIDE DEF first
  <1>4. ASSUME NEW i \in first..Len(a)
        PROVE  i \in DOMAIN a /\ ~Old(a[i])
    <2>1. i \in 1..Len(a) /\ first \in 1..i /\ first \in 1..Len(a)
      BY <1>1, <1>2
    <2>2. a[first] <= a[i] /\ a[first] \in Nat /\ a[i] \in Nat
      BY <2>1
    <2>3. i \in DOMAIN a
      BY <1>1, <2>1
    <2>. QED  BY <1>3, <2>2, <2>3, LimiterAssumption DEF Old
  <1>5. first..Len(a) \in SUBSET fresh /\ fresh \in SUBSET (1..Len(a))
    BY <1>1, <1>4
  <1>. HIDE DEF fresh
  <1>6. IsFiniteSet(1..Len(a))
    BY <1>2, FS_Interval
  <1>7. IsFiniteSet(fresh) /\ Cardinality(fresh) \in Nat
    BY <1>5, <1>6, FS_Subset, FS_CardinalityType
  <1>8. Cardinality(first..Len(a)) = Len(h)
    <2>1. \A x, y \in Int : x <= y => Cardinality(x..y) = y - x + 1
      BY FS_Interval
    <2>2. Cardinality(first..Len(a)) = Len(a) - first + 1
      BY <1>2, <2>1
    <2>. QED  BY <1>2, <2>2
  <1>9. Cardinality(first..Len(a)) <= Cardinality(fresh)
    BY <1>5, <1>7, FS_Subset
  <1>10. Cardinality(fresh) \in Nat /\ Cardinality(fresh) >= Len(h)
    BY <1>1, <1>7, <1>8, <1>9
  <1>. QED  BY <1>10 DEF fresh

LEMMA AllowKnownInv ==
  ASSUME Inv, NEW k \in Ips, Limit > 0, AllowKnown(k), UNCHANGED now
  PROVE  Inv'
  <1>. DEFINE s == events[k]
              a == admitted[k]
              kept == Kept(s)
  <1>1. /\ now \in Nat /\ admitted \in [Ips -> Seq(Nat)] /\ a \in Seq(Nat)
        /\ lastPruned \in 0..now /\ lastPruned' \in 0..now'
        /\ k \in DOMAIN events /\ s \in Seq(Nat)
    BY DEF Inv, TypeOK, AllowKnown
  <1>2. EndOf(s, a)
    BY <1>1 DEF Inv, Faithful, Held
  <1>3. /\ EndOf(kept, a) /\ kept \in Seq(Nat) /\ Len(kept) \in Nat
        /\ kept # <<>> => ~Old(kept[1])
    BY <1>1, <1>2, KeptIsEnd, KeptFacts
  <1>4. CASE ~(Len(kept) >= Limit)
    <2>1. /\ events' = IF Due THEN Pruned(Added(k)) ELSE Added(k)
          /\ Admit(k)
      BY <1>4 DEF AllowKnown
    <2>2. EndOf(Append(kept, now), Append(a, now)) /\ Append(kept, now) \in Seq(Nat)
          /\ Append(a, now) \in Seq(Nat)
      BY <1>1, <1>3, EndAppend
    <2>3. Faithful(Added(k), [admitted EXCEPT ![k] = Append(a, now)])
      BY <1>1, <2>2, AddFaithful DEF Inv, Added
    <2>4. [admitted EXCEPT ![k] = Append(a, now)] \in [Ips -> Seq(Nat)]
      BY <1>1, <2>2
    <2>5. Faithful(events', admitted')
      <3>1. admitted' = [admitted EXCEPT ![k] = Append(a, now)]
        BY <2>1 DEF Admit
      <3>. QED  BY <1>1, <2>1, <2>3, <2>4, <3>1, PrunedFaithful
    <2>6. Len(kept) < Limit
      BY <1>3, <1>4, LimiterAssumption
    <2>7. /\ admitted' \in [Ips -> Seq(Nat)]
          /\ \A j \in Ips : \A i \in DOMAIN admitted'[j] :
               /\ admitted'[j][i] <= now'
               /\ \A h \in 1..i : admitted'[j][h] <= admitted'[j][i]
          /\ SlidingLimit' /\ refused' = NoIp
      BY <1>3, <2>1, <2>6, AdmitKeepsLimit
    <2>8. Faithful(events, admitted)'
      BY <2>5, FaithfulNext
    <2>9. TypeOK' /\ RefusedForCause'
      BY <1>1, <2>5, <2>7 DEF TypeOK, Faithful, RefusedForCause
    <2>. QED  BY <2>7, <2>8, <2>9 DEF Inv
  <1>5. CASE Len(kept) >= Limit
    <2>1. /\ events' = Tracked(events, k, kept) /\ refused' = k /\ UNCHANGED admitted
      BY <1>5 DEF AllowKnown, Refuse
    <2>2. Faithful(events', admitted')
      <3>1. [admitted EXCEPT ![k] = a] = admitted
        BY <1>1
      <3>2. Faithful(Tracked(events, k, kept), [admitted EXCEPT ![k] = a])
        BY <1>1, <1>3, AddFaithful DEF Inv
      <3>. QED  BY <2>1, <3>1, <3>2
    <2>3. Cardinality(Recent(k)) >= Limit
      <3>1. Limit \in Nat /\ kept # <<>>
        BY <1>3, <1>5, LimiterAssumption
      <3>2. \A i \in 1..Len(a) : \A j \in 1..i : a[j] <= a[i]
        BY <1>1 DEF Inv, TypeOK
      <3>3. /\ Cardinality({i \in DOMAIN a : ~Old(a[i])}) \in Nat
            /\ Cardinality({i \in DOMAIN a : ~Old(a[i])}) >= Len(kept)
        <4>. HIDE DEF kept, a, s
        <4>. QED  BY <1>1, <1>3, <3>1, <3>2, FreshCount
      <3>4. Recent(k) = {i \in DOMAIN a : ~Old(a[i])}
        BY DEF Recent
      <3>. HIDE DEF kept, a, s
      <3>. QED  BY <1>3, <1>5, <3>1, <3>3, <3>4
    <2>4. Recent(k)' = Recent(k)
      BY <2>1 DEF Recent, Old
    <2>5. RefusedForCause'
      BY <2>1, <2>3, <2>4 DEF RefusedForCause
    <2>6. Faithful(events, admitted)'
      BY <2>2, FaithfulNext
    <2>7. TypeOK' /\ SlidingLimit'
      BY <1>1, <2>1, <2>2 DEF Inv, TypeOK, SlidingLimit, Faithful
    <2>. QED  BY <2>5, <2>6, <2>7 DEF Inv
  <1>. QED  BY <1>4, <1>5

\* A request that is not limited, or whose route is not, changes nothing.
LEMMA RequestInv ==
  ASSUME Inv, NEW address \in Addresses, NEW endpoint \in Endpoints,
         Request(address, endpoint)
  PROVE  Inv'
  <1>1. ClientIp(address) \in Ips /\ UNCHANGED now
    BY DEF Addresses, ClientIp, Request
  <1>2. CASE Limited(endpoint)
    <2>1. Limit > 0 /\ (AllowNew(ClientIp(address)) \/ AllowKnown(ClientIp(address)))
      BY <1>2 DEF Request, Limited
    <2>. QED  BY <1>1, <2>1, AllowNewInv, AllowKnownInv
  <1>3. CASE ~Limited(endpoint)
    <2>1. refused' = NoIp /\ UNCHANGED <<events, lastPruned, admitted>>
      BY <1>3 DEF Request
    <2>2. Faithful(events', admitted')
      BY <2>1 DEF Inv
    <2>3. Faithful(events, admitted)'
      BY <1>1, <2>2, FaithfulNext
    <2>4. TypeOK' /\ SlidingLimit' /\ RefusedForCause'
      BY <1>1, <2>1 DEF Inv, TypeOK, SlidingLimit, RefusedForCause
    <2>. QED  BY <2>3, <2>4 DEF Inv
  <1>. QED  BY <1>2, <1>3

\* What is old stays old.
LEMMA TickInv ==
  ASSUME Inv, Tick
  PROVE  Inv'
  <1>1. /\ now \in Nat /\ now' = now + 1 /\ refused' = NoIp
        /\ UNCHANGED <<events, lastPruned, admitted>>
        /\ admitted \in [Ips -> Seq(Nat)] /\ lastPruned \in 0..now /\ Window \in Nat
    BY LimiterAssumption DEF Inv, TypeOK, Tick
  <1>2. \A t \in Nat : Old(t) => Old(t)'
    BY <1>1 DEF Old
  <1>3. Faithful(events, admitted)'
    <2>1. ASSUME NEW k \in Ips
          PROVE  EndOf(Held(events, k), admitted[k])'
      <3>. DEFINE s == Held(events, k)
                  a == admitted[k]
      <3>1. EndOf(s, a) /\ a \in Seq(Nat) /\ Len(a) \in Nat /\ Len(s) \in Nat
        BY <1>1, HeldType DEF Inv, Faithful
      <3>2. s' = s /\ a' = a
        BY <1>1 DEF Held
      <3>3. \A i \in 1..(Len(a) - Len(s)) : Old(a[i])'
        <4>1. \A i \in 1..(Len(a) - Len(s)) : i \in 1..Len(a)
          BY <3>1
        <4>2. \A i \in 1..Len(a) : a[i] \in Nat
          BY <3>1
        <4>3. \A i \in 1..(Len(a) - Len(s)) : Old(a[i])
          BY <3>1 DEF EndOf
        <4>. HIDE DEF s, a
        <4>4. \A i \in 1..Len(a) : Old(a[i]) => a[i] + Window <= now'
          BY <1>1, <4>2 DEF Old
        <4>5. \A i \in 1..(Len(a) - Len(s)) : a[i] + Window <= now'
          BY <4>1, <4>3, <4>4
        <4>. USE DEF s, a
        <4>. QED  BY <1>1, <4>5 DEF Old
      <3>. QED  BY <3>1, <3>2, <3>3 DEF EndOf
    <2>. QED  BY <1>1, <2>1 DEF Inv, Faithful
  <1>4. TypeOK'
    <2>1. /\ now' \in Nat /\ lastPruned' \in 0..now'
      BY <1>1
    <2>2. \A k \in Ips : \A i \in DOMAIN admitted'[k] :
            /\ admitted'[k][i] <= now'
            /\ \A j \in 1..i : admitted'[k][j] <= admitted'[k][i]
      BY <1>1 DEF Inv, TypeOK
    <2>. QED  BY <1>1, <2>1, <2>2 DEF Inv, TypeOK
  <1>5. SlidingLimit' /\ RefusedForCause'
    BY <1>1 DEF Inv, SlidingLimit, RefusedForCause
  <1>. QED  BY <1>3, <1>4, <1>5 DEF Inv

-----------------------------------------------------------------------------

LEMMA InitInv == Init => Inv
  <1>. SUFFICES ASSUME Init PROVE Inv
    OBVIOUS
  <1>1. /\ now = 0 /\ lastPruned = 0 /\ refused = NoIp
        /\ DOMAIN events = {} /\ events \in [{} -> Seq(Nat)]
        /\ admitted \in [Ips -> Seq(Nat)] /\ \A k \in Ips : admitted[k] = <<>>
    BY DEF Init
  <1>2. Cardinality(DOMAIN events) <= MaxTracked
    BY <1>1, FS_EmptySet, LimiterAssumption
  <1>3. \A k \in Ips : EndOf(Held(events, k), admitted[k])
    BY <1>1 DEF EndOf, Held
  <1>4. Faithful(events, admitted)
    BY <1>1, <1>2, <1>3 DEF Faithful
  <1>5. TypeOK
    BY <1>1 DEF TypeOK
  <1>6. SlidingLimit /\ RefusedForCause
    BY <1>1 DEF SlidingLimit, RefusedForCause
  <1>. QED  BY <1>4, <1>5, <1>6 DEF Inv

LEMMA StepInv == Inv /\ [Next]_vars => Inv'
  <1>. SUFFICES ASSUME Inv, [Next]_vars PROVE Inv'
    OBVIOUS
  <1>1. CASE Tick
    BY <1>1, TickInv
  <1>2. ASSUME NEW a \in Addresses, NEW e \in Endpoints, Request(a, e)
        PROVE  Inv'
    BY <1>2, RequestInv
  <1>3. CASE UNCHANGED vars
    <2>1. /\ UNCHANGED now /\ Faithful(events', admitted')
      BY <1>3 DEF vars, Inv
    <2>2. Faithful(events, admitted)'
      BY <2>1, FaithfulNext
    <2>3. \A k \in Ips : Recent(k)' = Recent(k)
      BY <1>3 DEF vars, Recent, Old
    <2>4. {k \in Ips : Recent(k)' # {}} = {k \in Ips : Recent(k) # {}}
      BY <2>3
    <2>5. refused' = refused /\ refused \in Ips \cup {NoIp}
      BY <1>3 DEF vars, Inv, TypeOK
    <2>6. RefusedForCause'
      BY <2>3, <2>4, <2>5 DEF Inv, RefusedForCause
    <2>7. TypeOK' /\ SlidingLimit'
      BY <1>3 DEF vars, Inv, TypeOK, SlidingLimit
    <2>. QED  BY <2>2, <2>6, <2>7 DEF Inv
  <1>. QED  BY <1>1, <1>2, <1>3 DEF Next

\* Types, and what the table keeps of each client.
LEMMA Invariance == Spec => []Inv
  <1>. QED  BY InitInv, StepInv, PTL DEF Spec

\* The admissions of a client in any window of time are at most the limit, for
\* any number of clients, and although the table forgets clients to make room.
THEOREM WindowHoldsLimit == Spec => []SlidingLimit
  <1>1. Inv => SlidingLimit
    BY DEF Inv
  <1>. QED  BY Invariance, <1>1, PTL

\* The table of clients never holds more than _MAX_TRACKED_CLIENTS.
THEOREM TableStaysBounded == Spec => []TableBounded
  <1>1. Inv => TableBounded
    BY DEF Inv, Faithful, TableBounded
  <1>. QED  BY Invariance, <1>1, PTL

\* A refusal is owed to the client's own admissions or to as many active
\* clients as the table holds.
THEOREM RefusalHasCause == Spec => []RefusedForCause
  <1>1. Inv => RefusedForCause
    BY DEF Inv
  <1>. QED  BY Invariance, <1>1, PTL
=============================================================================
