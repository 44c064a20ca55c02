----------------------------- MODULE DomainProof -----------------------------
(***************************************************************************)
(* How one registration's claim to a domain is verified: the proof is      *)
(* fetched from the domain's web server, at addresses that are resolved    *)
(* once, or from its TXT records by DNS over HTTPS, and is compared with   *)
(* the registration.  The domain changes what it publishes, and where it   *)
(* is served, while the fetch runs.  The client enforces public addresses, *)
(* as it does by default.  What fetches share is in ProofFetchPolicy.      *)
(***************************************************************************)
EXTENDS Naturals, Sequences, FiniteSets

CONSTANTS
  Assets, Keys,
  Malformed,     \* content that has a context and is no valid proof
  Unrelated,     \* any other content
  Absent,        \* no signature, no address
  Requests,
  Body,          \* endpoint, method, asset, initial key and signer of a request
  Zones,         \* the distinct addresses its name may resolve to, in order
  Public,        \* addresses that are globally routable
  Silent, Closed,  \* addresses that do not answer, or refuse
  Sites, TxtSets,  \* what the web server and the TXT records may show
  Budget,          \* http_timeout_seconds
  AttemptTimeout,  \* _CONNECT_PER_ATTEMPT_TIMEOUT
  MaxAddresses     \* MAX_PUBLIC_HTTP_TARGET_ADDRESSES

\* A proof for one asset is its asset, a pubkey-bound proof its key.
Contents == Assets \cup Keys \cup {Malformed, Unrelated}
Addresses == UNION {{zone[i] : i \in DOMAIN zone} : zone \in Zones}

ASSUME DomainAssumption ==
  /\ Body \in [Requests -> [endpoint : {"v2", "legacy"}, method : {"http", "dns"},
                            asset : Assets, key : Keys, signer : Keys \cup {Absent}]]
  /\ \A zone \in Zones :
       /\ zone \in Seq(Addresses) /\ zone # <<>>
       /\ \A i, j \in DOMAIN zone : zone[i] = zone[j] => i = j
  /\ Public \subseteq Addresses /\ Absent \notin Addresses \cup Keys
  /\ Sites \subseteq [Assets -> Contents]
  /\ \A records \in TxtSets : IsFiniteSet(records) /\ records \subseteq Contents
  /\ Malformed \notin Assets \cup Keys /\ Unrelated \notin Assets \cup Keys
  /\ Assets \cap Keys = {} /\ Malformed # Unrelated
  /\ Budget \in Nat /\ AttemptTimeout \in Nat /\ MaxAddresses \in Nat \ {0}

VARIABLES
  zone, site, txt,  \* the domain: its addresses, its proof pages, its TXT records
  fetch,            \* the verification that is under way
  shown,            \* what the domain showed for its asset since it began
  accepted          \* the verdict, until the next one begins

vars == <<zone, site, txt, fetch, shown, accepted>>

\* addresses are those left to try, checked all that were resolved; begun is
\* the time spent when the first attempt began, tried the attempts since.
Stages == {"idle", "resolve", "connect", "head", "body", "verify"}
Fetches == [at : Stages, req : Requests, spent : Nat, begun : Nat, tried : Nat,
            addresses : Seq(Addresses), checked : SUBSET Addresses,
            peer : Addresses \cup {Absent}, records : Seq(Contents)]

Request == Body[fetch.req]
Listed(s) == {s[i] : i \in DOMAIN s}
Lesser(a, b) == IF a <= b THEN a ELSE b

\* Whatever the network takes beyond the budget is the same.
Late == fetch.spent >= Budget
After(time) == time..Budget

Refuse == fetch' = [fetch EXCEPT !.at = "idle"] /\ UNCHANGED accepted
Domain == <<zone, site, txt, shown>>

-----------------------------------------------------------------------------

\* The proof's address names the asset; a TXT record is the domain's.
ShownFor(r, pages, records) ==
  IF Body[r].method = "http" THEN {pages[Body[r].asset]} ELSE records

Begin(r) ==
  /\ fetch.at = "idle"
  /\ fetch' = [at |-> IF Body[r].method = "http" THEN "resolve" ELSE "head",
               req |-> r, spent |-> 0, begun |-> 0, tried |-> 0, addresses |-> <<>>,
               checked |-> {}, peer |-> Absent, records |-> <<>>]
  /\ shown' = ShownFor(r, site, txt)
  /\ accepted' = FALSE
  /\ UNCHANGED <<zone, site, txt>>

\* All addresses are checked, and the first few kept.
Targets == SubSeq(zone, 1, Lesser(MaxAddresses, Len(zone)))

Resolve ==
  /\ fetch.at = "resolve"
  /\ \/ Refuse  \* the name does not resolve
     \/ \E time \in After(fetch.spent) :
          IF Listed(zone) \subseteq Public /\ time < Budget
          THEN fetch' = [fetch EXCEPT !.at = "connect", !.spent = time, !.begun = time,
                           !.addresses = Targets, !.checked = Listed(zone)]
               /\ UNCHANGED accepted
          ELSE Refuse
  /\ UNCHANGED Domain

-----------------------------------------------------------------------------
(* The connection: each address in turn, within what is left of the budget. *)

ResolvedAgain == Targets  \* mutant: the name is resolved at each attempt
ToTry == fetch.addresses

WholeBudget == Budget - fetch.spent  \* mutant: an attempt has no limit of its own
Allowed == Lesser(Budget - fetch.spent, AttemptTimeout)

Connect ==
  /\ fetch.at = "connect"
  /\ ToTry # <<>> /\ ~Late
  /\ \/ /\ Head(ToTry) \notin Silent \cup Closed
        /\ \E time \in fetch.spent..(fetch.spent + Allowed) :
             fetch' = [fetch EXCEPT !.at = "head", !.spent = time, !.peer = Head(ToTry)]
     \/ /\ Head(ToTry) \in Silent \cup Closed
        /\ \E time \in fetch.spent..(fetch.spent + Allowed) :
             /\ Head(ToTry) \in Silent => time = fetch.spent + Allowed
             /\ fetch' = [fetch EXCEPT !.addresses = Tail(ToTry), !.tried = @ + 1,
                            !.spent = time]
  /\ UNCHANGED <<Domain, accepted>>

NoConnection ==
  /\ fetch.at = "connect"
  /\ ToTry = <<>> \/ Late
  /\ Refuse
  /\ UNCHANGED Domain

-----------------------------------------------------------------------------
(* The response.  It is read in chunks, each within the budget; one that   *)
(* is not a success, compressed, too long or not JSON is refused.          *)

\* A resolver returns the records of a name in any order.
Orders(S) == {s \in [1..Cardinality(S) -> S] : Listed(s) = S}
Responses == IF Request.method = "http" THEN {<<site[Request.asset]>>} ELSE Orders(txt)

ReadHead ==
  /\ fetch.at = "head"
  /\ \/ Refuse
     \/ \E time \in After(fetch.spent), response \in Responses :
          /\ time < Budget
          /\ fetch' = [fetch EXCEPT !.at = "body", !.spent = time, !.records = response]
          /\ UNCHANGED accepted
  /\ UNCHANGED Domain

ReadBody ==
  /\ fetch.at = "body"
  /\ \/ Refuse
     \/ \E time \in After(fetch.spent) :
          /\ time < Budget
          /\ fetch' = [fetch EXCEPT !.at = "verify", !.spent = time]
          /\ UNCHANGED accepted
  /\ UNCHANGED Domain

-----------------------------------------------------------------------------
(* The comparison.                                                         *)

LooksBound(c) == c \in Keys \cup {Malformed}
BoundIn(records) == {i \in DOMAIN records : LooksBound(records[i])}

HasPlain(request, records) == request.asset \in Listed(records)

\* The signature covers the normalized contract.
OnlySigned(request, key) == request.signer = key  \* mutant: any issuer's proof
Signed(request, key) == request.signer = key
BindsTo(request, key) == key = request.key /\ Signed(request, key)

\* The first record that looks pubkey-bound decides.
Decides(request, records) ==
  \E i \in BoundIn(records) :
    /\ \A j \in BoundIn(records) : i <= j
    /\ BindsTo(request, records[i])

PlainFirst(request, records) ==  \* mutant: a proof for the asset is looked for first
  HasPlain(request, records) \/ Decides(request, records)
Accepts(request, records) ==
  IF request.endpoint = "v2" /\ BoundIn(records) # {}
  THEN Decides(request, records) ELSE HasPlain(request, records)

Verify ==
  /\ fetch.at = "verify"
  /\ accepted' = Accepts(Request, fetch.records)
  /\ fetch' = [fetch EXCEPT !.at = "idle"]
  /\ UNCHANGED Domain

-----------------------------------------------------------------------------
\* The domain changes what it publishes or where it is served.
Publish ==
  /\ \/ zone' \in Zones /\ UNCHANGED <<site, txt>>
     \/ site' \in Sites /\ UNCHANGED <<zone, txt>>
     \/ txt' \in TxtSets /\ UNCHANGED <<zone, site>>
  /\ shown' = IF fetch.at = "idle" THEN shown ELSE shown \cup ShownFor(fetch.req, site', txt')
  /\ UNCHANGED <<fetch, accepted>>

Init ==
  /\ zone \in Zones /\ site \in Sites /\ txt \in TxtSets
  /\ fetch \in {[at |-> "idle", req |-> r, spent |-> 0, begun |-> 0, tried |-> 0,
                 addresses |-> <<>>, checked |-> {}, peer |-> Absent,
                 records |-> <<>>] : r \in Requests}
  /\ shown = {}
  /\ accepted = FALSE

Next == Publish \/ (\E r \in Requests : Begin(r)) \/ Resolve \/ Connect \/ NoConnection
        \/ ReadHead \/ ReadBody \/ Verify

Spec == Init /\ [][Next]_vars
-----------------------------------------------------------------------------

\* Types.
TypeOK ==
  /\ zone \in Zones /\ site \in Sites /\ txt \in TxtSets
  /\ fetch \in Fetches
  /\ shown \subseteq Contents
  /\ accepted \in BOOLEAN

\* However the domain's name is changed between its resolution and an attempt,
\* the fetch connects only to an address that was resolved and found public.
PeerWasChecked ==
  fetch.peer # Absent => fetch.peer \in fetch.checked \cap Public

\* A registration is accepted only if, while it was verified, the domain showed
\* a proof for its asset, or, to v2, one for its initial key that also signed.
AcceptedIsProved ==
  accepted =>
    \/ Request.asset \in shown
    \/ /\ Request.endpoint = "v2"
       /\ Request.key \in shown /\ Request.signer = Request.key

\* With v2 a proof for the asset is no way around a pubkey-bound one that the
\* same response carries, in whatever order a resolver returns its records.
BoundNotBypassed ==
  accepted /\ Request.endpoint = "v2" /\ BoundIn(fetch.records) # {}
    => Request.key \in Listed(fetch.records) /\ Request.signer = Request.key

\* An address that does not answer cannot consume the whole budget: attempts
\* take no more than their own limit each, whichever addresses are silent.
SlowAddressesLeaveTime ==
  fetch.at = "connect" => fetch.spent <= fetch.begun + fetch.tried * AttemptTimeout
=============================================================================
