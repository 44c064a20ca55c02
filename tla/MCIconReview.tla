---------------------------- MODULE MCIconReview ----------------------------
(***************************************************************************)
(* Requests for IconReview: two proposals, one of them with an icon that   *)
(* is reviewed twice and set by an admin, an import, a delisting, and both *)
(* ways to end the registration.                                           *)
(***************************************************************************)
EXTENDS IconReview, TLC

CONSTANTS red, blue, proposeRed, proposeBlue, approveRed, rejectRed, setRed,
          setBlue, import, delist, deregister, withdraw

Signed(r, op, hash) == r :> [op |-> op, nonce |-> r, hash |-> hash]

MCBody ==
  Signed(proposeRed, "propose", red) @@ Signed(proposeBlue, "propose", blue)
  @@ Signed(approveRed, "approve", red) @@ Signed(rejectRed, "reject", red)
  @@ Signed(setRed, "set", red) @@ Signed(setBlue, "set", blue)
  @@ Signed(import, "import", red) @@ Signed(delist, "delist", red)
  @@ Signed(deregister, "deregister", red)
  @@ Signed(withdraw, "legacy_deregister", red)
MCRequests == DOMAIN MCBody
=============================================================================
