--------------------------- MODULE AdminGovernance ---------------------------
(***************************************************************************)
(* Admin keys, their permissions and the signed lifecycle actions that     *)
(* change them.  Every request is one READ COMMITTED transaction: a        *)
(* statement sees the rows committed when it starts, unique indexes decide *)
(* at the INSERT, and what a handler changes reaches the committed rows in *)
(* Commit.  Friendly names, answers and audit numbers are left out.        *)
(***************************************************************************)
EXTENDS Naturals, Sequences

CONSTANTS
  Workers,   \* handlers that can run at the same time
  Requests,  \* signed lifecycle actions; one may be delivered often
  Body,      \* what each request says, see RequestBody
  Keys,      \* admin public keys
  Genesis,   \* the configured genesis key
  MaxTime,   \* bound on signed timestamps
  MaxLog     \* bound on accepted actions

\* Every permission other than these two behaves like review_icons.
Permissions == {"root", "manage_admins", "review_icons"}
Ops == {"add", "permissions", "rename", "remove"}

\* A request's nonce is named by a request.
RequestBody == [actor : Keys, op : Ops, nonce : Requests, time : 0..MaxTime,
                target : Keys, permissions : SUBSET Permissions]

ASSUME RequestsAssumption == Requests # {} /\ Body \in [Requests -> RequestBody]
ASSUME GenesisAssumption  == Genesis \in Keys /\ Genesis \notin Requests
ASSUME BoundsAssumption   == MaxTime \in Nat /\ MaxLog \in Nat

VARIABLES
  admin,       \* admin_keys: the status of each key
  permissions, \* admin_permissions, with the action that granted each row
  log,         \* admin_actions, in the order they were committed
  tx           \* each worker's transaction

vars == <<admin, permissions, log, tx>>

Rows == [key : Keys, permission : Permissions, by : Requests \cup {Genesis}]
Labels == {"idle", "seed", "actor", "nonce", "no_op", "insert", "target",
           "permit", "roots", "delete", "deleting", "commit"}
\* The row of admin_actions is inserted, so its nonce is held.
Inserted == {"target", "permit", "roots", "delete", "deleting", "commit"}

\* own, seen: permissions of the actor and of the target, as read; status: the
\* target's; doomed: rows the DELETE found; raced (history): another handler
\* has committed since this one began.
Tx == [pc : Labels, request : Requests, own : SUBSET Permissions,
       seen : SUBSET Permissions, status : {"absent", "active", "removed"},
       doomed : SUBSET Rows, raced : BOOLEAN]
Begin(pc, r) == [pc |-> pc, request |-> r, own |-> {}, seen |-> {},
                 status |-> "absent", doomed |-> {}, raced |-> FALSE]
NoTx == Begin("idle", CHOOSE r \in Requests : TRUE)

Request(w) == Body[tx[w].request]
RowsOf(k) == {p \in permissions : p.key = k}
Held(k) == {p.permission : p \in RowsOf(k)}
Granted(r) == {[key |-> Body[r].target, permission |-> p, by |-> r]
                : p \in Body[r].permissions}
SameNonce(r, s) == /\ Body[r].actor = Body[s].actor
                   /\ Body[r].nonce = Body[s].nonce
\* The actor's row stays in the session, as active as it was first read.
StatusOf(w, k) == IF k = Request(w).actor THEN "active" ELSE admin[k]

Init ==
  /\ admin = [k \in Keys |-> "absent"]
  /\ permissions = {}
  /\ log = <<>>
  /\ tx = [w \in Workers |-> NoTx]

-----------------------------------------------------------------------------
(* A handler's statements, in order.                                       *)

Goto(w, pc) == tx' = [tx EXCEPT ![w].pc = pc]
End(w) == tx' = [tx EXCEPT ![w] = NoTx]
Rejected(w) == End(w) /\ UNCHANGED <<admin, permissions, log>>

\* Every admin endpoint first bootstraps the genesis admin, if no key exists.
Receive(w, r) ==
  /\ tx[w].pc = "idle"
  /\ tx' = [tx EXCEPT ![w] =
       Begin(IF \A k \in Keys : admin[k] = "absent" THEN "seed" ELSE "actor", r)]
  /\ UNCHANGED <<admin, permissions, log>>

Seed(w) ==
  /\ tx[w].pc = "seed"
  /\ admin[Genesis] = "absent"
  /\ admin' = [admin EXCEPT ![Genesis] = "active"]
  /\ permissions' = permissions \cup
       {[key |-> Genesis, permission |-> "root", by |-> Genesis]}
  /\ Goto(w, "actor") /\ UNCHANGED log

SeededMeanwhile(w) ==
  /\ tx[w].pc = "seed" /\ admin[Genesis] # "absent"
  /\ Rejected(w)

\* Freshness only gets stricter as actions commit, so it is checked with the
\* actor.  The five minutes around the server's clock may refuse any request,
\* as may the actor's actions on assets: Abandon stands for it.
Fresh(r) == \A i \in DOMAIN log : Body[log[i]].actor = Body[r].actor
                                    => Body[log[i]].time <= Body[r].time
Existing(r) == \E i \in DOMAIN log : SameNonce(log[i], r)

ReadActor(w) ==
  /\ tx[w].pc = "actor"
  /\ admin[Request(w).actor] = "active"
  /\ Existing(tx[w].request) \/ Fresh(tx[w].request)
  /\ Goto(w, "nonce") /\ UNCHANGED <<admin, permissions, log>>

RejectActor(w) ==
  /\ tx[w].pc = "actor"
  /\ \/ admin[Request(w).actor] # "active"
     \/ ~Existing(tx[w].request) /\ ~Fresh(tx[w].request)
  /\ Rejected(w)

\* An idempotent retry or a nonce conflict changes nothing.
CheckNonce(w) ==
  /\ tx[w].pc = "nonce"
  /\ IF Existing(tx[w].request) THEN End(w) ELSE Goto(w, "no_op")
  /\ UNCHANGED <<admin, permissions, log>>

NoOp(w) ==
  LET b == Request(w)
      status == StatusOf(w, b.target)
  IN CASE b.op = "add"         -> status = "active"
       [] b.op = "permissions" -> \/ status = "absent"
                                  \/ /\ status = "active"
                                     /\ Held(b.target) = b.permissions
       [] b.op = "rename"      -> status = "absent"
       [] b.op = "remove"      -> status # "active"

\* A change of one's own permissions leaves them loaded in the session.
AlreadyLoaded(w) ==
  Request(w).op = "permissions" /\ Request(w).target = Request(w).actor

CheckNoOp(w) ==
  /\ tx[w].pc = "no_op"
  /\ IF NoOp(w) THEN End(w)
     ELSE tx' = [tx EXCEPT ![w].pc = "insert",
            ![w].own = IF AlreadyLoaded(w) THEN Held(Request(w).actor) ELSE {}]
  /\ UNCHANGED <<admin, permissions, log>>

\* The unique index makes an INSERT wait for an uncommitted row with its nonce.
NoNonceIndex(w) == FALSE  \* mutant: (actor, nonce) is not unique
NonceHeld(w) == \E v \in Workers \ {w} :
  tx[v].pc \in Inserted /\ SameNonce(tx[v].request, tx[w].request)
NonceTaken(w) == Existing(tx[w].request)

Insert(w) ==
  /\ tx[w].pc = "insert" /\ ~NonceHeld(w)
  /\ ~NonceTaken(w) /\ Len(log) < MaxLog
  /\ Goto(w, IF Request(w).op \in {"add", "rename"} THEN "permit" ELSE "target")
  /\ UNCHANGED <<admin, permissions, log>>

RejectInsert(w) ==
  /\ tx[w].pc = "insert" /\ ~NonceHeld(w) /\ NonceTaken(w)
  /\ Rejected(w)

OwnPermissions(w) ==
  IF AlreadyLoaded(w) THEN tx[w].own ELSE Held(Request(w).actor)

\* The target and its permissions are read again; add reads them last.
ReadTarget(w) ==
  LET b == Request(w) IN
  /\ tx[w].pc = "target"
  /\ IF b.op = "add" /\ StatusOf(w, b.target) = "active" THEN End(w)
     ELSE tx' = [tx EXCEPT
            ![w].status = StatusOf(w, b.target),
            ![w].seen = IF AlreadyLoaded(w) THEN tx[w].own ELSE Held(b.target),
            ![w].pc = IF b.op = "add" THEN "delete" ELSE "permit"]
  /\ UNCHANGED <<admin, permissions, log>>

\* Only root grants or revokes root; other changes need manage_admins.
OnlyCurrent(w) == IF Request(w).op = "add" THEN Request(w).permissions
                  ELSE tx[w].seen  \* mutant: new permissions go unchecked
Affected(w) == CASE Request(w).op = "add"         -> Request(w).permissions
                 [] Request(w).op = "permissions" ->
                      tx[w].seen \cup Request(w).permissions
                 [] Request(w).op = "remove"      -> tx[w].seen
                 [] Request(w).op = "rename"      -> {}
Permitted(w) == \/ "root" \in OwnPermissions(w)
                \/ /\ "root" \notin Affected(w)
                   /\ "manage_admins" \in OwnPermissions(w)
TakesRoot(w) == "root" \in tx[w].seen /\ "root" \notin
  (IF Request(w).op = "permissions" THEN Request(w).permissions ELSE {})
AfterPermit(w) == CASE Request(w).op = "add" -> "target"
                    [] TakesRoot(w) -> "roots"
                    [] Request(w).op = "permissions" /\ ~TakesRoot(w) -> "delete"
                    [] OTHER -> "commit"

CheckPermission(w) ==
  /\ tx[w].pc = "permit"
  /\ IF Permitted(w) THEN Goto(w, AfterPermit(w)) ELSE End(w)
  /\ UNCHANGED <<admin, permissions, log>>

AnyOtherRoot(w) == \E p \in permissions :  \* mutant: removed roots count
  p.key # Request(w).target /\ p.permission = "root"
AnotherActiveRoot(w) == \E p \in permissions :
  p.key # Request(w).target /\ p.permission = "root" /\ admin[p.key] = "active"

EnsureAnotherRoot(w) ==
  /\ tx[w].pc = "roots"
  /\ IF AnotherActiveRoot(w)
     THEN Goto(w, IF Request(w).op = "remove" THEN "commit" ELSE "delete")
     ELSE End(w)
  /\ UNCHANGED <<admin, permissions, log>>

\* The DELETE finds the committed rows as it starts, then waits for those that
\* another transaction is deleting.
Delete(w) ==
  /\ tx[w].pc = "delete"
  /\ tx' = [tx EXCEPT ![w].pc = "deleting", ![w].doomed = RowsOf(Request(w).target)]
  /\ UNCHANGED <<admin, permissions, log>>

FinishDelete(w) ==
  /\ tx[w].pc = "deleting"
  /\ \A v \in Workers \ {w} :
       tx[v].pc = "commit" => tx[v].doomed \cap tx[w].doomed = {}
  /\ tx' = [tx EXCEPT ![w].pc = "commit", ![w].doomed = @ \cap permissions]
  /\ UNCHANGED <<admin, permissions, log>>

\* What the flush writes.  A status read as removed already is not written.
Replaces(w) == Request(w).op \in {"add", "permissions"}
NewStatus(w) ==
  CASE Request(w).op = "add" -> "active"
    [] Request(w).op = "remove" /\ tx[w].status = "active" -> "removed"
    [] OTHER -> admin[Request(w).target]
NewRows(w) == IF Replaces(w) THEN Granted(tx[w].request) ELSE {}
Collides(w) ==
  \/ /\ Request(w).op = "add" /\ tx[w].status = "absent"
     /\ admin[Request(w).target] # "absent"
  \/ \E p \in permissions \ tx[w].doomed, q \in NewRows(w) :
       p.key = q.key /\ p.permission = q.permission

Commit(w) ==
  /\ tx[w].pc = "commit" /\ ~Collides(w)
  /\ admin' = [admin EXCEPT ![Request(w).target] = NewStatus(w)]
  /\ permissions' = (permissions \ tx[w].doomed) \cup NewRows(w)
  /\ log' = Append(log, tx[w].request)
  /\ tx' = [v \in Workers |->
              CASE v = w -> NoTx
                [] v # w /\ tx[v].pc # "idle" -> [tx[v] EXCEPT !.raced = TRUE]
                [] OTHER -> tx[v]]

\* Unique keys and permissions: the later of two INSERTs is a 409.
RejectCommit(w) == tx[w].pc = "commit" /\ Collides(w) /\ Rejected(w)

\* A crash, a lock timeout, a deadlock victim or a stale timestamp.
Abandon(w) == tx[w].pc # "idle" /\ Rejected(w)

Next ==
  \E w \in Workers :
    \/ \E r \in Requests : Receive(w, r)
    \/ Seed(w) \/ SeededMeanwhile(w) \/ ReadActor(w) \/ RejectActor(w)
    \/ CheckNonce(w) \/ CheckNoOp(w) \/ Insert(w) \/ RejectInsert(w)
    \/ ReadTarget(w) \/ CheckPermission(w) \/ EnsureAnotherRoot(w)
    \/ Delete(w) \/ FinishDelete(w) \/ Commit(w) \/ RejectCommit(w) \/ Abandon(w)

Spec == Init /\ [][Next]_vars

-----------------------------------------------------------------------------
\* The rows have their types, and a permission belongs to a key that exists
\* (admin_permissions.admin_uuid) and is granted once.
TypeOK ==
  /\ admin \in [Keys -> {"absent", "active", "removed"}]
  /\ permissions \subseteq Rows
  /\ log \in Seq(Requests)
  /\ tx \in [Workers -> Tx]
  /\ \A p \in permissions : admin[p.key] # "absent"
  /\ \A p, q \in permissions :
       p.key = q.key /\ p.permission = q.permission => p = q

\* Deliveries may repeat and overlap: an admin's nonce has one accepted action.
AdminNonceOnce ==
  \A i, j \in DOMAIN log : SameNonce(log[i], log[j]) => i = j

\* Request r gives k root.
GrantsRoot(r, k) == /\ Body[r].op \in {"add", "permissions"}
                    /\ Body[r].target = k /\ "root" \in Body[r].permissions

\* Root comes from the genesis admin alone: whoever signed an accepted grant of
\* root is the genesis key, or was given root by an action committed earlier.
RootFromGenesis ==
  \A i \in DOMAIN log : (\E k \in Keys : GrantsRoot(log[i], k)) =>
    \/ Body[log[i]].actor = Genesis
    \/ \E j \in 1..(i - 1) : GrantsRoot(log[j], Body[log[i]].actor)

Rooted == \E k \in Keys : admin[k] = "active" /\ "root" \in Held(k)

\* The last active root survives every action that no other overtakes: removal
\* of others, removal of oneself, demotion, and re-adding with less.
LastRootKept ==
  [][\A w \in Workers : Rooted /\ Commit(w) /\ ~tx[w].raced => Rooted']_vars

\* Once there is a genesis admin there is always an active root admin
\* (plans/2026-04-30-signed-admin-governance-audit-sequencing.md).
ActiveRootRemains == admin[Genesis] # "absent" => Rooted
=============================================================================
