---------------------------- MODULE MCDomainProof ----------------------------
(***************************************************************************)
(* One domain and two of its assets, with what it may show and where, and  *)
(* registrations by the key it binds, by another, signed and not.          *)
(***************************************************************************)
EXTENDS DomainProof

CONSTANTS asset, another, mine, theirs, web, mirror, silent, dark, closed, inside

Register(endpoint, method, key, signer) ==
  [endpoint |-> endpoint, method |-> method, asset |-> asset, key |-> key,
   signer |-> signer]

MCRequests == 1..6
MCBody == <<Register("v2", "http", mine, mine), Register("v2", "http", theirs, mine),
            Register("v2", "dns", mine, mine), Register("v2", "dns", mine, Absent),
            Register("legacy", "http", mine, Absent),
            Register("legacy", "dns", mine, Absent)>>

MCZones == {<<silent, closed, web>>, <<silent, dark, mirror>>, <<web, inside>>, <<inside>>}
MCPublic == {web, mirror, silent, dark, closed}

Pages == {asset, mine, theirs, Malformed, Unrelated}
MCSites == {[a \in {asset, another} |-> IF a = asset THEN c ELSE another] : c \in Pages}
MCTxtSets == {{}, {asset, mine}, {asset, mine, theirs}, {another, Malformed, asset}}
=============================================================================
