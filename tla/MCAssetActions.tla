--------------------------- MODULE MCAssetActions ---------------------------
(***************************************************************************)
(* Instances of AssetActions for TLC: small sets of signed requests, each  *)
(* delivered any number of times to any handler.                           *)
(***************************************************************************)
EXTENDS AssetRefinement, TLC

CONSTANTS n1, n2, v1, v2, k1, k2, k3,
          editA, editB, editC, rotateA, rotateB, deregister, reused,
          migrate, withdraw

MCNames  == {n1, n2}
MCValues == {v1, v2}
MCKeys   == {k1, k2, k3}

Plain == [op |-> "edit", nonce |-> editA, prev |-> Genesis, signer |-> k1,
          time |-> 0, clears |-> {}, puts |-> {}, newKey |-> k1]

\* A request with a nonce of its own.
Signed(r, op, prev, signer) ==
  r :> [Plain EXCEPT !.op = op, !.nonce = r, !.prev = prev, !.signer = signer]

Replace(r, prev, signer, pairs) ==
  r :> [Plain EXCEPT !.nonce = r, !.prev = prev, !.signer = signer,
                     !.clears = MCNames, !.puts = pairs]

Put(r, prev, signer, pair) ==
  r :> [Plain EXCEPT !.nonce = r, !.prev = prev, !.signer = signer,
                     !.clears = {pair[1]}, !.puts = {pair}]

RotateTo(r, prev, signer, key) ==
  r :> [Plain EXCEPT !.op = "rotate", !.nonce = r, !.prev = prev,
                     !.signer = signer, !.newKey = key]

\* Everything against everything on a v0 asset: its migration, an edit of the
\* first and of the rotated key, two rotations, a nonce reused for other content,
\* both deregistrations.
RaceBody ==
  Signed(migrate, "migrate", Genesis, k1)
  @@ Put(editA, Migration, k1, <<n1, v1>>)
  @@ RotateTo(rotateA, Migration, k1, k2)
  @@ RotateTo(rotateB, Migration, k1, k3)
  @@ (reused :> [Plain EXCEPT !.nonce = rotateA, !.clears = {n1},
                              !.puts = {<<n1, v2>>}])
  @@ Replace(editC, rotateA, k2, {<<n1, v2>>, <<n2, v2>>})
  @@ Signed(deregister, "deregister", editA, k1)
  @@ Signed(withdraw, "legacy_deregister", Genesis, k1)
RaceRequests == DOMAIN RaceBody

\* Edits of the same names, with the same and with other values.
EditBody ==
  Replace(editA, Genesis, k1, {<<n1, v1>>})
  @@ Replace(editB, Genesis, k1, {<<n2, v2>>})
  @@ Replace(editC, Genesis, k1, {<<n1, v2>>, <<n2, v2>>})
EditRequests == DOMAIN EditBody

\* One handler at a time: every operation, chained and mischained, an old
\* timestamp and a reused nonce.
SerialBody ==
  Replace(editA, Genesis, k1, {<<n1, v1>>, <<n2, v2>>})
  @@ Replace(editB, Genesis, k1, {<<n1, v1>>})
  @@ (rotateA :> [Plain EXCEPT !.op = "rotate", !.nonce = rotateA,
                    !.prev = editA, !.time = 1, !.newKey = k2])
  @@ Put(editC, rotateA, k2, <<n2, v1>>)
  @@ (reused :> [Plain EXCEPT !.nonce = editA, !.prev = rotateA,
                   !.signer = k2, !.time = 1, !.clears = MCNames])
  @@ (rotateB :> [Plain EXCEPT !.nonce = rotateB, !.prev = rotateA,
                     !.signer = k2, !.time = 1, !.clears = {n2}])
  @@ Signed(deregister, "deregister", editB, k1)
  @@ Signed(migrate, "migrate", Genesis, k1)
  @@ Signed(withdraw, "legacy_deregister", Genesis, k2)
SerialRequests == DOMAIN SerialBody

=============================================================================
