--------------------------- MODULE AssetRefinement ---------------------------
(***************************************************************************)
(* The committed rows of a registration as the ledger of AssetLedger.     *)
(***************************************************************************)
EXTENDS AssetActions, Sequences

\* A set of action rows, none of equal sequence, in audit order.
Place(S, i) == {a \in S : Cardinality({b \in S : b.seq <= a.seq}) = i}
InAuditOrder(S) ==
  [i \in 1..Cardinality(S) |-> CHOOSE a \in Place(S, i) : TRUE]

\* Every row but the registration: the requests that took effect.
Taken == {a \in actions : OpOf(a) # "register"}

LedgerOf == [i \in 1..Cardinality(Taken) |-> InAuditOrder(Taken)[i].req]

Heads    == {a \in actions : IsHead(a)}
HeadHash == IF Heads = {} THEN Genesis
            ELSE ActionHash(CHOOSE a \in Heads : TRUE)

Abstract == INSTANCE AssetLedger WITH
  ledger <- LedgerOf,
  status <- asset.status,
  pubkey <- asset.pubkey,
  head <- HeadHash,
  attributes <- {<<c.name, c.value>> : c \in children}

\* While the requests for an asset are handled one at a time, crashes and
\* repeated deliveries included, the handlers implement the ledger.
ImplementsLedger == Abstract!Spec

\* One request for the asset is at work at a time.
OneAtATime == \A v, w \in Busy : v = w
=============================================================================
