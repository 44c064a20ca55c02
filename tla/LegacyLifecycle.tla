--------------------------- MODULE LegacyLifecycle ---------------------------
(***************************************************************************)
(* The two endpoints that change a registration outside the issuer chain's *)
(* rules: migrate_legacy_asset_to_v2 and deregister_legacy_asset.          *)
(***************************************************************************)
EXTENDS AssetStore

\* migrate_legacy_asset_to_v2 of an asset with a ticker, authorised already.
ReadForMigration(w, r) ==
  /\ At(w, "idle") /\ SequenceLeft
  /\ Body[r].op = "migrate"
  /\ IF asset.status = "active"
     THEN BeginAt(w, r, "migrated") /\ NoAnswer
     ELSE AnswerAtOnce(r, "not_found")
  /\ UNCHANGED <<rows, sequence, now>>

CheckMigrated(w) ==
  /\ At(w, "migrated")
  /\ IF \E a \in actions : OpOf(a) = "migrate"
     THEN End(w, {"idempotent_retry"})
     ELSE Goto(w, "insert") /\ NoAnswer
  /\ UNCHANGED <<rows, sequence, now>>

\* deregister_legacy_asset: the signature is verified with the key read here.
ReadForLegacyDelete(w, r) ==
  /\ At(w, "idle") /\ SequenceLeft
  /\ Body[r].op = "legacy_deregister"
  /\ CASE asset.status # "active" -> AnswerAtOnce(r, "not_found")
       [] asset.status = "active" /\ Body[r].signer # asset.pubkey ->
            AnswerAtOnce(r, "rejected")
       [] OTHER -> BeginAt(w, r, "delete_fragment") /\ NoAnswer
  /\ UNCHANGED <<rows, sequence, now>>

\* The fragment goes first, before the handler has the asset row.
DeleteFragment(w) ==
  /\ At(w, "delete_fragment")
  /\ ~FragmentLocked(w)
  /\ DropFragment(w, "insert")
  /\ NoAnswer /\ UNCHANGED <<rows, sequence, now>>

LegacyStep(w) == CheckMigrated(w) \/ DeleteFragment(w)
=============================================================================
