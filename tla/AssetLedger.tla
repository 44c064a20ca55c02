----------------------------- MODULE AssetLedger -----------------------------
(***************************************************************************)
(* What the registry promises an issuer about one registration: requests   *)
(* take effect one at a time and completely, each judged by the state the  *)
(* ones before it left.                                                    *)
(***************************************************************************)
EXTENDS Sequences, Naturals

CONSTANTS Requests, Body, InitialKey, InitialSource, Genesis, Migration

VARIABLES
  ledger,     \* accepted requests, in audit order
  status,     \* of the registration
  pubkey,     \* the key that signs the next issuer action
  head,       \* the hash the next issuer action must name
  attributes  \* the issuer-controlled metadata, as <<name, value>> pairs

vars == <<ledger, status, pubkey, head, attributes>>

Init ==
  /\ ledger = <<>>
  /\ status = "active"
  /\ pubkey = InitialKey
  /\ head = Genesis
  /\ attributes = {}

Done == {ledger[i] : i \in DOMAIN ledger}
ByIssuer(r) == Body[r].op \in {"edit", "rotate", "deregister"}
Migrated == \E r \in Done : Body[r].op = "migrate"

Acceptable(r) ==
  /\ status = "active"
  /\ InitialSource = "contract" \/ Migrated
  /\ Body[r].prev = head
  /\ Body[r].signer = pubkey
  /\ \A d \in Done : ByIssuer(d) => /\ Body[d].nonce # Body[r].nonce
                                    /\ Body[d].time <= Body[r].time

Edit(r) ==
  /\ Body[r].op = "edit"
  /\ LET kept == {p \in attributes : p[1] \notin Body[r].clears}
     IN attributes' = kept \cup Body[r].puts
  /\ attributes' # attributes
  /\ UNCHANGED <<status, pubkey>>

Rotate(r) ==
  /\ Body[r].op = "rotate"
  /\ pubkey' = Body[r].newKey
  /\ pubkey' # pubkey
  /\ UNCHANGED <<status, attributes>>

Deregister(r) ==
  /\ Body[r].op = "deregister"
  /\ status' = "deregistered"
  /\ UNCHANGED <<pubkey, attributes>>

Accept(r) ==
  /\ Acceptable(r)
  /\ Edit(r) \/ Rotate(r) \/ Deregister(r)
  /\ ledger' = Append(ledger, r)
  /\ head' = r

Migrate(r) ==
  /\ Body[r].op = "migrate" /\ status = "active" /\ ~Migrated
  /\ ledger' = Append(ledger, r)
  /\ head' = Migration
  /\ UNCHANGED <<status, pubkey, attributes>>

Withdraw(r) ==
  /\ Body[r].op = "legacy_deregister" /\ status = "active"
  /\ Body[r].signer = pubkey
  /\ ledger' = Append(ledger, r)
  /\ status' = "deregistered"
  /\ UNCHANGED <<pubkey, head, attributes>>

Next == \E r \in Requests : Accept(r) \/ Migrate(r) \/ Withdraw(r)

Spec == Init /\ [][Next]_vars
=============================================================================
