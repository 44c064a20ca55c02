--------------------------- MODULE MCRegistration ---------------------------
(***************************************************************************)
(* Requests for Registration: two assets want one namespace; the first is  *)
(* registered, imported and deleted, and rows of earlier versions lack     *)
(* references, or the contract to verify them with.                        *)
(***************************************************************************)
EXTENDS Registration, TLC

CONSTANTS first, second, gold, contract, other, mint, remint, forge, outpoint,
          output, registerV2, registerLegacy, import, delete, backfill

Ask(r, op, asset, c, refs) ==
  r :> [op |-> op, asset |-> asset, name |-> gold, contract |-> c, refs |-> refs]
Listed == [txin |-> Absent, prevout |-> outpoint]

MCBody ==
  Ask(registerV2, "v2", second, other, NoRefs)
  @@ Ask(registerLegacy, "legacy", first, contract, NoRefs)
  @@ Ask(import, "import", first, contract, [Listed EXCEPT !.txin = mint])
  @@ Ask(delete, "delete", first, contract, NoRefs)
  @@ Ask(backfill, "backfill", first, contract, NoRefs)
MCRequests == DOMAIN MCBody

Issue(t, asset, c, prevout) ==
  t :> [asset |-> asset, contract |-> c, prevout |-> prevout]
MCIssues == Issue(mint, first, contract, outpoint) @@ Issue(remint, first, contract, outpoint)
            @@ Issue(forge, second, other, output)

Old(u, c, refs) == u :> [asset |-> first, name |-> gold, contract |-> c,
                         active |-> TRUE, refs |-> refs]
Ended(u, c) == u :> [Old(u, c, NoRefs)[u] EXCEPT !.active = FALSE]
MCInitialRows == {Ended(1, contract) @@ Old(2, contract, Listed),
                  Old(1, Absent, NoRefs), <<>>}
=============================================================================
