-------------------------- MODULE DomainProofProofs --------------------------
(***************************************************************************)
(* What one verification of a domain can end in, for any domains, budgets, *)
(* requests and proofs, however the domain changes while it runs.          *)
(***************************************************************************)
EXTENDS DomainProof, FiniteSetTheorems, TLAPS

\* Nothing is connected before an address is tried, and only checked addresses
\* are left to try.
Checked ==
  /\ fetch.at = "resolve" => fetch.tried = 0
  /\ fetch.at \in {"resolve", "connect"} => fetch.peer = Absent
  /\ fetch.at = "connect" =>
       /\ Listed(fetch.addresses) \subseteq fetch.checked
       /\ fetch.checked \subseteq Public

\* While a verification runs, what the domain shows is remembered, the records
\* at hand are among it, and nothing is accepted.
Current ==
  fetch.at # "idle" =>
    /\ ShownFor(fetch.req, site, txt) \subseteq shown
    /\ Listed(fetch.records) \subseteq shown
    /\ ~accepted

Inv ==
  /\ TypeOK /\ Checked /\ Current
  /\ PeerWasChecked /\ AcceptedIsProved /\ BoundNotBypassed
  /\ SlowAddressesLeaveTime

-----------------------------------------------------------------------------
(* Sequences, requests and responses.                                      *)

LEMMA ListedTail ==
  ASSUME NEW S, NEW s \in Seq(S), s # <<>>
  PROVE  /\ Head(s) \in Listed(s) /\ Listed(Tail(s)) \subseteq Listed(s)
         /\ Tail(s) \in Seq(S) /\ Head(s) \in S
  BY DEF Listed

LEMMA TargetsChecked ==
  ASSUME TypeOK
  PROVE  /\ Targets \in Seq(Addresses) /\ Listed(Targets) \subseteq Listed(zone)
         /\ Listed(zone) \subseteq Addresses
  <1>1. zone \in Seq(Addresses)
    BY DomainAssumption DEF TypeOK
  <1>2. DOMAIN zone = 1..Len(zone) /\ Len(zone) \in Nat
    BY <1>1
  <1>3. Lesser(MaxAddresses, Len(zone)) \in 0..Len(zone)
    BY <1>2, DomainAssumption DEF Lesser
  <1>4. /\ Targets \in Seq(Addresses)
        /\ \A i \in DOMAIN Targets : i \in DOMAIN zone /\ Targets[i] = zone[i]
    BY <1>1, <1>2, <1>3 DEF Targets
  <1>. QED  BY <1>1, <1>4 DEF Listed

\* What a verification reads is what the domain shows for its asset.
LEMMA ResponseShown ==
  ASSUME TypeOK, NEW response \in Responses
  PROVE  /\ response \in Seq(Contents)
         /\ Listed(response) \subseteq ShownFor(fetch.req, site, txt)
  <1>1. /\ Request.asset \in Assets /\ Request = Body[fetch.req]
        /\ site \in [Assets -> Contents]
        /\ IsFiniteSet(txt) /\ txt \subseteq Contents
    BY DomainAssumption DEF TypeOK, Fetches, Request
  <1>2. CASE Request.method = "http"
    <2>1. response = <<site[Request.asset]>> /\ site[Request.asset] \in Contents
      BY <1>1, <1>2 DEF Responses
    <2>. QED  BY <2>1, <1>1, <1>2 DEF Listed, ShownFor
  <1>3. CASE Request.method # "http"
    <2>1. response \in [1..Cardinality(txt) -> txt] /\ Listed(response) = txt
      BY <1>3 DEF Responses, Orders
    <2>2. Cardinality(txt) \in Nat
      BY <1>1, FS_CardinalityType
    <2>3. response \in Seq(Contents)
      BY <1>1, <2>1, <2>2
    <2>. QED  BY <2>1, <2>3, <1>1, <1>3 DEF ShownFor
  <1>. QED  BY <1>2, <1>3

LEMMA Numbers == Budget \in Nat /\ AttemptTimeout \in Nat
  BY DomainAssumption

LEMMA TimeType ==
  ASSUME TypeOK, NEW time \in After(fetch.spent)
  PROVE  time \in Nat
  <1>1. fetch.spent \in Nat
    BY DEF TypeOK, Fetches
  <1>. QED  BY <1>1, Numbers DEF After

\* Another attempt adds one limit to the sum of the limits.
LEMMA OneMore == \A n, t \in Nat : n * t \in Nat /\ (n + 1) * t = n * t + t
  OBVIOUS

\* The end of a verification that accepts nothing.
LEMMA RefusePreserves ==
  ASSUME Inv, fetch.at # "idle", Refuse, UNCHANGED Domain
  PROVE  Inv'
  <1>1. fetch \in Fetches /\ ~accepted /\ accepted' = accepted
    BY DEF Inv, TypeOK, Current, Refuse
  <1>2. /\ fetch' \in Fetches /\ fetch'.at = "idle"
        /\ fetch'.peer = fetch.peer /\ fetch'.checked = fetch.checked
    BY <1>1 DEF Refuse, Fetches, Stages
  <1>3. TypeOK'
    BY <1>1, <1>2 DEF Inv, TypeOK, Domain
  <1>4. Checked'
    BY <1>1, <1>2 DEF Inv, Checked
  <1>5. Current'
    BY <1>1, <1>2 DEF Inv, Current, Domain
  <1>6. PeerWasChecked'
    BY <1>1, <1>2 DEF Inv, PeerWasChecked
  <1>7. AcceptedIsProved' /\ BoundNotBypassed'
    BY <1>1, <1>2 DEF Inv, AcceptedIsProved, BoundNotBypassed
  <1>8. SlowAddressesLeaveTime'
    BY <1>1, <1>2 DEF Inv, SlowAddressesLeaveTime
  <1>. QED  BY <1>3, <1>4, <1>5, <1>6, <1>7, <1>8 DEF Inv

-----------------------------------------------------------------------------

LEMMA InitInv == Init => Inv
  <1>. SUFFICES ASSUME Init PROVE Inv
    OBVIOUS
  <1>1. PICK r \in Requests :
          fetch = [at |-> "idle", req |-> r, spent |-> 0, begun |-> 0, tried |-> 0,
                   addresses |-> <<>>, checked |-> {}, peer |-> Absent,
                   records |-> <<>>]
    BY DEF Init
  <1>2. fetch \in Fetches
    BY <1>1 DEF Fetches, Stages
  <1>. QED
    BY <1>1, <1>2 DEF Init, Inv, TypeOK, Checked, Current, PeerWasChecked,
                      AcceptedIsProved, BoundNotBypassed, SlowAddressesLeaveTime

LEMMA BeginInv ==
  ASSUME Inv, NEW r \in Requests, Begin(r)
  PROVE  Inv'
  <1>1. /\ fetch' \in Fetches /\ fetch'.at \in {"resolve", "head"} /\ fetch'.req = r
        /\ fetch'.peer = Absent /\ fetch'.records = <<>> /\ fetch'.tried = 0
    BY DEF Begin, Fetches, Stages
  <1>2. shown' = ShownFor(r, site', txt') /\ shown' \subseteq Contents
    BY DomainAssumption DEF Begin, ShownFor, Inv, TypeOK
  <1>3. Listed(fetch'.records) = {}
    BY <1>1 DEF Listed
  <1>4. accepted' = FALSE /\ UNCHANGED <<zone, site, txt>>
    BY DEF Begin
  <1>5. TypeOK'
    BY <1>1, <1>2, <1>4 DEF Inv, TypeOK
  <1>6. Checked' /\ PeerWasChecked' /\ SlowAddressesLeaveTime'
    BY <1>1 DEF Checked, PeerWasChecked, SlowAddressesLeaveTime
  <1>7. Current'
    BY <1>1, <1>2, <1>3, <1>4 DEF Current
  <1>8. AcceptedIsProved' /\ BoundNotBypassed'
    BY <1>4 DEF AcceptedIsProved, BoundNotBypassed
  <1>. QED  BY <1>5, <1>6, <1>7, <1>8 DEF Inv

LEMMA ResolveInv ==
  ASSUME Inv, Resolve
  PROVE  Inv'
  <1>1. CASE Refuse
    BY <1>1, RefusePreserves DEF Resolve
  <1>2. ASSUME NEW time \in After(fetch.spent), Listed(zone) \subseteq Public,
               fetch' = [fetch EXCEPT !.at = "connect", !.spent = time, !.begun = time,
                           !.addresses = Targets, !.checked = Listed(zone)],
               UNCHANGED accepted
        PROVE  Inv'
    <2>1. fetch \in Fetches /\ fetch.at = "resolve" /\ UNCHANGED Domain /\ time \in Nat
      BY TimeType DEF Resolve, Inv, TypeOK
    <2>2. /\ fetch' \in Fetches /\ fetch'.at = "connect" /\ fetch'.tried = 0
          /\ fetch'.peer = Absent /\ fetch'.addresses = Targets
          /\ fetch'.checked = Listed(zone) /\ fetch'.req = fetch.req
          /\ fetch'.records = fetch.records /\ fetch'.spent = time /\ fetch'.begun = time
      BY <1>2, <2>1, TargetsChecked DEF Fetches, Stages, Inv, Checked
    <2>3. SlowAddressesLeaveTime'
      BY <2>1, <2>2, OneMore, DomainAssumption DEF SlowAddressesLeaveTime
    <2>. QED
      BY <1>2, <2>1, <2>2, <2>3, TargetsChecked
         DEF Inv, TypeOK, Checked, Current, PeerWasChecked, AcceptedIsProved,
             BoundNotBypassed, Domain
  <1>. QED  BY <1>1, <1>2 DEF Resolve

LEMMA AttemptType ==
  ASSUME fetch \in Fetches, NEW left \in Seq(Addresses), NEW n \in Nat, NEW time \in Nat
  PROVE  [fetch EXCEPT !.addresses = left, !.tried = n, !.spent = time] \in Fetches
  BY DEF Fetches

LEMMA ConnectInv ==
  ASSUME Inv, Connect
  PROVE  Inv'
  <1>1. /\ fetch \in Fetches /\ fetch.at = "connect" /\ UNCHANGED <<Domain, accepted>>
        /\ fetch.addresses \in Seq(Addresses) /\ fetch.addresses # <<>> /\ ~Late
    BY DEF Connect, Inv, TypeOK, Fetches, ToTry
  <1>2. /\ Head(fetch.addresses) \in fetch.checked \cap Public
        /\ Head(fetch.addresses) \in Addresses
        /\ Tail(fetch.addresses) \in Seq(Addresses)
        /\ Listed(Tail(fetch.addresses)) \subseteq fetch.checked
    BY <1>1, ListedTail DEF Inv, Checked
  <1>3. Allowed \in Nat /\ Allowed <= AttemptTimeout /\ fetch.spent \in Nat
    BY <1>1, Numbers DEF Allowed, Lesser, Late, Fetches
  <1>4. ASSUME NEW time \in fetch.spent..(fetch.spent + Allowed),
               fetch' = [fetch EXCEPT !.at = "head", !.spent = time, !.peer = Head(ToTry)]
        PROVE  Inv'
    <2>0. time \in Nat
      BY <1>3
    <2>1. /\ fetch' \in Fetches /\ fetch'.at = "head" /\ fetch'.req = fetch.req
          /\ fetch'.peer = Head(fetch.addresses) /\ fetch'.checked = fetch.checked
          /\ fetch'.records = fetch.records
      BY <1>1, <1>2, <2>0, <1>4 DEF Fetches, Stages, ToTry
    <2>. QED
      BY <1>1, <1>2, <2>1
         DEF Inv, TypeOK, Checked, Current, PeerWasChecked, AcceptedIsProved,
             BoundNotBypassed, SlowAddressesLeaveTime, Domain
  <1>5. ASSUME NEW time \in fetch.spent..(fetch.spent + Allowed),
               fetch' = [fetch EXCEPT !.addresses = Tail(ToTry), !.tried = @ + 1,
                                      !.spent = time]
        PROVE  Inv'
    <2>0. time \in Nat /\ fetch.tried \in Nat
      BY <1>1, <1>3 DEF Fetches
    <2>1. /\ fetch'.at = "connect" /\ fetch'.req = fetch.req
          /\ fetch'.peer = fetch.peer /\ fetch'.checked = fetch.checked
          /\ fetch'.records = fetch.records /\ fetch'.begun = fetch.begun
          /\ fetch'.addresses = Tail(fetch.addresses)
          /\ fetch'.tried = fetch.tried + 1 /\ fetch'.spent = time
      BY <1>1, <1>5 DEF Fetches, ToTry
    <2>2. fetch' \in Fetches
      <3>1. Tail(ToTry) \in Seq(Addresses) /\ fetch.tried + 1 \in Nat
        BY <1>2, <2>0 DEF ToTry
      <3>. QED  BY <1>1, <1>5, <2>0, <3>1, AttemptType
    <2>3. /\ fetch.spent <= fetch.begun + fetch.tried * AttemptTimeout
          /\ fetch.tried \in Nat /\ fetch.begun \in Nat /\ AttemptTimeout \in Nat
      BY <1>1, Numbers DEF Inv, SlowAddressesLeaveTime, Fetches
    <2>4. /\ fetch.tried * AttemptTimeout \in Nat
          /\ fetch'.tried * AttemptTimeout = fetch.tried * AttemptTimeout + AttemptTimeout
      BY <2>1, <2>3, OneMore
    <2>5. SlowAddressesLeaveTime'
      BY <1>3, <1>5, <2>1, <2>3, <2>4 DEF SlowAddressesLeaveTime
    <2>. QED
      BY <1>1, <1>2, <2>1, <2>2, <2>5
         DEF Inv, TypeOK, Checked, Current, PeerWasChecked, AcceptedIsProved,
             BoundNotBypassed, Domain
  <1>. QED  BY <1>4, <1>5 DEF Connect

LEMMA ReadHeadInv ==
  ASSUME Inv, ReadHead
  PROVE  Inv'
  <1>1. CASE Refuse
    BY <1>1, RefusePreserves DEF ReadHead
  <1>2. ASSUME NEW time \in After(fetch.spent), NEW response \in Responses,
               fetch' = [fetch EXCEPT !.at = "body", !.spent = time, !.records = response],
               UNCHANGED accepted
        PROVE  Inv'
    <2>1. fetch \in Fetches /\ fetch.at = "head" /\ UNCHANGED Domain /\ time \in Nat
      BY TimeType DEF ReadHead, Inv, TypeOK
    <2>2. /\ response \in Seq(Contents) /\ Listed(response) \subseteq shown /\ ~accepted
      BY <2>1, ResponseShown DEF Inv, Current
    <2>3. /\ fetch' \in Fetches /\ fetch'.at = "body" /\ fetch'.req = fetch.req
          /\ fetch'.peer = fetch.peer /\ fetch'.checked = fetch.checked
          /\ fetch'.records = response
      BY <1>2, <2>1, <2>2 DEF Fetches, Stages
    <2>. QED
      BY <1>2, <2>1, <2>2, <2>3
         DEF Inv, TypeOK, Checked, Current, PeerWasChecked, AcceptedIsProved,
             BoundNotBypassed, SlowAddressesLeaveTime, Domain
  <1>. QED  BY <1>1, <1>2 DEF ReadHead

LEMMA ReadBodyInv ==
  ASSUME Inv, ReadBody
  PROVE  Inv'
  <1>1. CASE Refuse
    BY <1>1, RefusePreserves DEF ReadBody
  <1>2. ASSUME NEW time \in After(fetch.spent),
               fetch' = [fetch EXCEPT !.at = "verify", !.spent = time], UNCHANGED accepted
        PROVE  Inv'
    <2>1. fetch \in Fetches /\ fetch.at = "body" /\ UNCHANGED Domain /\ time \in Nat
      BY TimeType DEF ReadBody, Inv, TypeOK
    <2>2. /\ fetch' \in Fetches /\ fetch'.at = "verify" /\ fetch'.req = fetch.req
          /\ fetch'.peer = fetch.peer /\ fetch'.checked = fetch.checked
          /\ fetch'.records = fetch.records
      BY <1>2, <2>1 DEF Fetches, Stages
    <2>. QED
      BY <1>2, <2>1, <2>2
         DEF Inv, TypeOK, Checked, Current, PeerWasChecked, AcceptedIsProved,
             BoundNotBypassed, SlowAddressesLeaveTime, Domain
  <1>. QED  BY <1>1, <1>2 DEF ReadBody

\* The comparison accepts only what the records prove, and a pubkey-bound one
\* among them only for the key that signed.
LEMMA AcceptsProved ==
  ASSUME NEW request, NEW records, Accepts(request, records)
  PROVE  /\ \/ request.asset \in Listed(records)
            \/ /\ request.endpoint = "v2" /\ request.key \in Listed(records)
               /\ request.signer = request.key
         /\ request.endpoint = "v2" /\ BoundIn(records) # {} =>
              request.key \in Listed(records) /\ request.signer = request.key
  <1>1. CASE request.endpoint = "v2" /\ BoundIn(records) # {}
    <2>1. PICK i \in BoundIn(records) : BindsTo(request, records[i])
      BY <1>1 DEF Accepts, Decides
    <2>2. request.key = records[i] /\ request.signer = request.key /\ i \in DOMAIN records
      BY <2>1 DEF BindsTo, Signed, BoundIn
    <2>. QED  BY <1>1, <2>2 DEF Listed
  <1>2. CASE ~(request.endpoint = "v2" /\ BoundIn(records) # {})
    BY <1>2 DEF Accepts, HasPlain
  <1>. QED  BY <1>1, <1>2

LEMMA AcceptsBoolean ==
  ASSUME NEW request, NEW records
  PROVE  Accepts(request, records) \in BOOLEAN
  <1>1. CASE request.endpoint = "v2" /\ BoundIn(records) # {}
    BY <1>1 DEF Accepts, Decides
  <1>2. CASE ~(request.endpoint = "v2" /\ BoundIn(records) # {})
    <2>1. (request.asset \in Listed(records)) \in BOOLEAN
      OBVIOUS
    <2>. QED  BY <1>2, <2>1 DEF Accepts, HasPlain
  <1>. QED  BY <1>1, <1>2

LEMMA VerifyInv ==
  ASSUME Inv, Verify
  PROVE  Inv'
  <1>1. /\ fetch \in Fetches /\ fetch.at = "verify" /\ UNCHANGED Domain
        /\ accepted' = Accepts(Request, fetch.records)
        /\ Listed(fetch.records) \subseteq shown
    BY DEF Verify, Inv, TypeOK, Current
  <1>2. /\ fetch' \in Fetches /\ fetch'.at = "idle" /\ fetch'.req = fetch.req
        /\ fetch'.peer = fetch.peer /\ fetch'.checked = fetch.checked
        /\ fetch'.records = fetch.records
    BY <1>1 DEF Verify, Fetches, Stages
  <1>3. Request' = Request
    BY <1>2 DEF Request
  <1>4. AcceptedIsProved' /\ BoundNotBypassed'
    BY <1>1, <1>2, <1>3, AcceptsProved
       DEF AcceptedIsProved, BoundNotBypassed, Domain, BoundIn, Listed, LooksBound
  <1>5. accepted' \in BOOLEAN
    BY <1>1, AcceptsBoolean
  <1>. QED
    BY <1>1, <1>2, <1>4, <1>5
       DEF Inv, TypeOK, Checked, Current, PeerWasChecked, SlowAddressesLeaveTime, Domain

LEMMA PublishInv ==
  ASSUME Inv, Publish
  PROVE  Inv'
  <1>1. zone' \in Zones /\ site' \in Sites /\ txt' \in TxtSets /\ UNCHANGED <<fetch, accepted>>
    BY DEF Publish, Inv, TypeOK
  <1>2. ShownFor(fetch.req, site', txt') \subseteq Contents
    BY <1>1, DomainAssumption DEF ShownFor, Inv, TypeOK, Fetches
  <1>3. CASE fetch.at = "idle"
    <2>1. shown' = shown
      BY <1>3 DEF Publish
    <2>. QED
      BY <1>1, <1>3, <2>1
         DEF Inv, TypeOK, Checked, Current, PeerWasChecked, AcceptedIsProved, Request,
             BoundNotBypassed, SlowAddressesLeaveTime
  <1>4. CASE fetch.at # "idle"
    <2>1. shown' = shown \cup ShownFor(fetch.req, site', txt')
      BY <1>4 DEF Publish
    <2>. QED
      BY <1>1, <1>2, <1>4, <2>1
         DEF Inv, TypeOK, Checked, Current, PeerWasChecked, AcceptedIsProved, Request,
             BoundNotBypassed, SlowAddressesLeaveTime
  <1>. QED  BY <1>3, <1>4

LEMMA StepInv == Inv /\ [Next]_vars => Inv'
  <1>. SUFFICES ASSUME Inv, [Next]_vars PROVE Inv'
    OBVIOUS
  <1>1. CASE UNCHANGED vars
    BY <1>1 DEF vars, Inv, TypeOK, Checked, Current, PeerWasChecked, AcceptedIsProved,
                BoundNotBypassed, SlowAddressesLeaveTime, Request
  <1>2. CASE NoConnection
    BY <1>2, RefusePreserves DEF NoConnection
  <1>. QED
    BY <1>1, <1>2, BeginInv, ResolveInv, ConnectInv, ReadHeadInv, ReadBodyInv, VerifyInv,
       PublishInv DEF Next

LEMMA Invariance == Spec => []Inv
  BY InitInv, StepInv, PTL DEF Spec

-----------------------------------------------------------------------------
\* However the name changes between its resolution and an attempt, every fetch
\* is connected only to an address it resolved and found public.
THEOREM PeerIsChecked == Spec => []PeerWasChecked
  <1>1. Inv => PeerWasChecked
    BY DEF Inv
  <1>. QED  BY <1>1, Invariance, PTL

\* Whatever the domain changes meanwhile, a claim is accepted only if the domain
\* showed a proof of it while it was verified.
THEOREM AcceptedWasShown == Spec => []AcceptedIsProved
  <1>1. Inv => AcceptedIsProved
    BY DEF Inv
  <1>. QED  BY <1>1, Invariance, PTL

\* In whatever order records come, a pubkey-bound proof decides over a plain one.
THEOREM BoundProofDecides == Spec => []BoundNotBypassed
  <1>1. Inv => BoundNotBypassed
    BY DEF Inv
  <1>. QED  BY <1>1, Invariance, PTL

\* For any budget and limit, attempts use no more than their own limits.
THEOREM AttemptsLeaveTime == Spec => []SlowAddressesLeaveTime
  <1>1. Inv => SlowAddressesLeaveTime
    BY DEF Inv
  <1>. QED  BY <1>1, Invariance, PTL
=============================================================================
