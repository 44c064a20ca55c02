------------------------- MODULE MCAdminGovernance -------------------------
(***************************************************************************)
(* Requests for AdminGovernance.  The genesis key adds a second root and a *)
(* manager; roots demote or remove each other and leave; the manager tries *)
(* to rise; a removed key comes back; a nonce is used twice.               *)
(***************************************************************************)
EXTENDS AdminGovernance

CONSTANTS genesis, ada, bob, addRoot, addManager, leave, dropGenesis, dropRoot,
          rise, restore, reused

MCKeys == {genesis, ada, bob}

Says(actor, op, nonce, time, target, perms) ==
  [actor |-> actor, op |-> op, nonce |-> nonce, time |-> time,
   target |-> target, permissions |-> perms]

MCBody == [r \in Requests |->
  CASE r = addRoot     -> Says(genesis, "add", r, 0, ada, {"root"})
    [] r = addManager  -> Says(genesis, "add", r, 1, bob, {"manage_admins"})
    [] r = leave       -> Says(genesis, "permissions", r, 1, genesis,
                               {"review_icons"})
    [] r = dropGenesis -> Says(ada, "remove", r, 1, genesis, {})
    [] r = dropRoot    -> Says(genesis, "remove", r, 1, ada, {})
    [] r = rise        -> Says(bob, "permissions", r, 0, bob, {"root"})
    [] r = restore     -> Says(bob, "add", r, 1, ada, {"review_icons"})
    [] r = reused      -> Says(genesis, "rename", addManager, 1, ada, {})]
=============================================================================
