------------------------ MODULE AdminGovernanceProofs ------------------------
(***************************************************************************)
(* For any admins, requests and handlers: the rows keep their types and    *)
(* constraints, a nonce is accepted once, and root comes from genesis.     *)
(***************************************************************************)
EXTENDS AdminGovernance, TLAPS

\* k is the genesis key, or a committed action gave it root.
Earned(k) == k = Genesis \/ \E j \in DOMAIN log : GrantsRoot(log[j], k)

\* The handler has passed the permission check.
Passed(w) == \/ tx[w].pc \in {"roots", "delete", "deleting", "commit"}
             \/ tx[w].pc = "target" /\ Request(w).op = "add"

GivesRoot(w) == /\ Request(w).op \in {"add", "permissions"}
                /\ "root" \in Request(w).permissions

Sound(w) ==
  /\ tx[w].pc \notin {"idle", "seed", "actor"} => admin[Request(w).actor] # "absent"
  /\ tx[w].pc \in Inserted \cup {"insert"} /\ Request(w).op = "permissions"
       => admin[Request(w).target] # "absent"
  /\ tx[w].pc \in Inserted => ~NonceTaken(w)
  /\ "root" \in tx[w].own => Earned(Request(w).actor)
  /\ Passed(w) /\ GivesRoot(w) => Earned(Request(w).actor)

AllSound == \A w \in Workers : Sound(w)
Alone == \A v, w \in Workers :
  /\ v # w /\ tx[v].pc \in Inserted /\ tx[w].pc \in Inserted
  => ~SameNonce(tx[v].request, tx[w].request)
RootRows == \A p \in permissions : p.permission = "root" => Earned(p.key)

GovernanceInv == /\ TypeOK /\ AllSound /\ Alone /\ RootRows
                 /\ AdminNonceOnce /\ RootFromGenesis

USE RequestsAssumption, GenesisAssumption, BoundsAssumption

\* The steps that change a transaction and no row.
Quiet(w) ==
  \/ \E r \in Requests : Receive(w, r)
  \/ SeededMeanwhile(w) \/ ReadActor(w) \/ RejectActor(w)
  \/ CheckNonce(w) \/ CheckNoOp(w) \/ Insert(w) \/ RejectInsert(w)
  \/ ReadTarget(w) \/ CheckPermission(w) \/ EnsureAnotherRoot(w)
  \/ Delete(w) \/ FinishDelete(w) \/ RejectCommit(w) \/ Abandon(w)

LEMMA NoTxType == NoTx \in Tx /\ NoTx.pc = "idle" /\ NoTx.own = {}
  <1>1. (CHOOSE r \in Requests : TRUE) \in Requests
    OBVIOUS
  <1>2. QED
    BY <1>1 DEF NoTx, Begin, Tx, Labels

LEMMA BodyType ==
  ASSUME TypeOK, NEW w \in Workers
  PROVE  /\ tx[w] \in Tx /\ tx[w].request \in Requests
         /\ Request(w) \in RequestBody
         /\ Request(w).actor \in Keys /\ Request(w).target \in Keys
         /\ Request(w).permissions \subseteq Permissions
         /\ Request(w).op \in Ops
  BY DEF TypeOK, Tx, Request, RequestBody

LEMMA HeldType ==
  ASSUME TypeOK, NEW k
  PROVE  Held(k) \subseteq Permissions /\ RowsOf(k) \subseteq Rows
  BY DEF TypeOK, Held, RowsOf, Rows

LEMMA QuietStep ==
  ASSUME TypeOK, NEW w \in Workers, Quiet(w)
  PROVE  /\ UNCHANGED <<admin, permissions, log>>
         /\ \E t \in Tx : tx' = [tx EXCEPT ![w] = t]
  <1> USE BodyType, NoTxType
  <1>1. ASSUME NEW r \in Requests, Receive(w, r)
        PROVE  \E t \in Tx : tx' = [tx EXCEPT ![w] = t]
    BY <1>1 DEF Receive, Begin, Tx, Labels
  <1>2. ASSUME End(w) PROVE \E t \in Tx : tx' = [tx EXCEPT ![w] = t]
    BY <1>2 DEF End
  <1>3. ASSUME NEW pc \in Labels, Goto(w, pc)
        PROVE  \E t \in Tx : tx' = [tx EXCEPT ![w] = t]
    <2>1. [tx[w] EXCEPT !.pc = pc] \in Tx
      BY DEF Tx
    <2>2. tx' = [tx EXCEPT ![w] = [tx[w] EXCEPT !.pc = pc]]
      BY <1>3 DEF Goto, TypeOK
    <2>3. QED
      BY <2>1, <2>2
  <1>4. ASSUME CheckNoOp(w)
        PROVE  \E t \in Tx : tx' = [tx EXCEPT ![w] = t]
    <2>1. CASE End(w)
      BY <2>1, <1>2
    <2>2. CASE ~NoOp(w)
      <3> DEFINE own == IF AlreadyLoaded(w) THEN Held(Request(w).actor) ELSE {}
                 t == [tx[w] EXCEPT !.pc = "insert", !.own = own]
      <3>1. own \subseteq Permissions
        BY HeldType
      <3>2. t \in Tx
        BY <3>1 DEF Tx, Labels
      <3>3. tx' = [tx EXCEPT ![w] = t]
        BY <2>2, <1>4 DEF CheckNoOp, TypeOK
      <3>4. QED
        BY <3>2, <3>3
    <2>3. QED
      BY <2>1, <2>2, <1>4 DEF CheckNoOp
  <1>5. ASSUME ReadTarget(w)
        PROVE  \E t \in Tx : tx' = [tx EXCEPT ![w] = t]
    <2>1. CASE End(w)
      BY <2>1, <1>2
    <2>2. CASE ~(Request(w).op = "add" /\ StatusOf(w, Request(w).target) = "active")
      <3> DEFINE seen == IF AlreadyLoaded(w) THEN tx[w].own ELSE Held(Request(w).target)
                 pc == IF Request(w).op = "add" THEN "delete" ELSE "permit"
                 status == StatusOf(w, Request(w).target)
                 t == [tx[w] EXCEPT !.status = status, !.seen = seen, !.pc = pc]
      <3>1. seen \subseteq Permissions
        BY HeldType DEF Tx
      <3>2. status \in {"absent", "active", "removed"}
        BY DEF StatusOf, TypeOK
      <3>3. t \in Tx
        BY <3>1, <3>2 DEF Tx, Labels
      <3>4. tx' = [tx EXCEPT ![w] = t]
        BY <2>2, <1>5 DEF ReadTarget, TypeOK
      <3>5. QED
        BY <3>3, <3>4
    <2>3. QED
      BY <2>1, <2>2, <1>5 DEF ReadTarget
  <1>6. ASSUME Delete(w)
        PROVE  \E t \in Tx : tx' = [tx EXCEPT ![w] = t]
    <2> DEFINE t == [tx[w] EXCEPT !.pc = "deleting", !.doomed = RowsOf(Request(w).target)]
    <2>1. t \in Tx
      BY HeldType DEF Tx, Labels
    <2>2. tx' = [tx EXCEPT ![w] = t]
      BY <1>6 DEF Delete, TypeOK
    <2>3. QED
      BY <2>1, <2>2
  <1>7. ASSUME FinishDelete(w)
        PROVE  \E t \in Tx : tx' = [tx EXCEPT ![w] = t]
    <2> DEFINE t == [tx[w] EXCEPT !.pc = "commit", !.doomed = tx[w].doomed \cap permissions]
    <2>1. t \in Tx
      BY DEF Tx, Labels
    <2>2. tx' = [tx EXCEPT ![w] = t]
      BY <1>7 DEF FinishDelete, TypeOK
    <2>3. QED
      BY <2>1, <2>2
  <1>8. AfterPermit(w) \in Labels
    BY DEF AfterPermit, Labels
  <1>9. \E t \in Tx : tx' = [tx EXCEPT ![w] = t]
    BY <1>1, <1>2, <1>3, <1>4, <1>5, <1>6, <1>7, <1>8
       DEF Quiet, SeededMeanwhile, ReadActor, RejectActor, CheckNonce, Insert,
           RejectInsert, CheckPermission, EnsureAnotherRoot, RejectCommit,
           Abandon, Rejected, Labels
  <1>10. UNCHANGED <<admin, permissions, log>>
    BY DEF Quiet, Receive, SeededMeanwhile, ReadActor, RejectActor, CheckNonce,
           CheckNoOp, Insert, RejectInsert, ReadTarget, CheckPermission,
           EnsureAnotherRoot, Delete, FinishDelete, RejectCommit, Abandon, Rejected
  <1>11. QED
    BY <1>9, <1>10

-----------------------------------------------------------------------------
(* Steps that change no row.                                               *)

LEMMA QuietType ==
  ASSUME TypeOK, NEW w \in Workers, Quiet(w)
  PROVE  TypeOK'
  BY QuietStep DEF TypeOK

\* What a handler has established stays established while no row changes.
LEMMA SoundKept ==
  ASSUME NEW v \in Workers, Sound(v), UNCHANGED <<admin, permissions, log>>,
         tx'[v] = tx[v]
  PROVE  Sound(v)'
  BY DEF Sound, Earned, Passed, GivesRoot, Request, NonceTaken, Existing

\* Root permissions, when read, were earned.
LEMMA OwnEarned ==
  ASSUME TypeOK, RootRows, NEW w \in Workers, Sound(w), "root" \in OwnPermissions(w)
  PROVE  Earned(Request(w).actor)
  BY DEF OwnPermissions, Held, RowsOf, RootRows, Sound

LEMMA QuietSound ==
  ASSUME GovernanceInv, NEW w \in Workers, Quiet(w)
  PROVE  Sound(w)'
  <1> USE BodyType, NoTxType DEF GovernanceInv
  <1>1. /\ UNCHANGED <<admin, permissions, log>>
        /\ \A k : Earned(k)' <=> Earned(k)
        /\ \A r \in Requests : Existing(r)' <=> Existing(r)
    BY QuietStep DEF Earned, Existing
  <1>2. Sound(w)
    BY DEF AllSound
  <1>3. ASSUME tx'[w].pc \in {"idle", "seed", "actor"}, tx'[w].own = {}
        PROVE  Sound(w)'
    BY <1>3 DEF Sound, Inserted, Passed
  <1>4. ASSUME End(w) PROVE Sound(w)'
    <2>1. tx'[w] = NoTx
      BY <1>4 DEF End, TypeOK
    <2>2. QED
      BY <2>1, <1>3
  <1>5. ASSUME NEW r \in Requests, Receive(w, r) PROVE Sound(w)'
    <2>1. tx'[w].pc \in {"seed", "actor"} /\ tx'[w].own = {}
      BY <1>5 DEF Receive, Begin, TypeOK
    <2>2. QED
      BY <2>1, <1>3
  <1>6. ASSUME NEW pc \in Labels, Goto(w, pc)
        PROVE  tx'[w] = [tx[w] EXCEPT !.pc = pc]
    BY <1>6 DEF Goto, TypeOK
  <1>7. ASSUME ReadActor(w) PROVE Sound(w)'
    <2>1. tx'[w] = [tx[w] EXCEPT !.pc = "nonce"]
      BY <1>6, <1>7 DEF ReadActor, Labels
    <2>2. QED
      BY <1>1, <1>2, <1>7, <2>1 DEF ReadActor, Sound, Request, Inserted, Passed, Tx
  <1>8. ASSUME CheckNonce(w), Goto(w, "no_op") PROVE Sound(w)'
    <2>1. tx'[w] = [tx[w] EXCEPT !.pc = "no_op"]
      BY <1>6, <1>8 DEF Labels
    <2>2. QED
      BY <1>1, <1>2, <1>8, <2>1 DEF CheckNonce, Sound, Request, Inserted, Passed, Tx
  <1>9. ASSUME CheckNoOp(w), ~NoOp(w) PROVE Sound(w)'
    <2> DEFINE own == IF AlreadyLoaded(w) THEN Held(Request(w).actor) ELSE {}
    <2> DEFINE t == [tx[w] EXCEPT !.pc = "insert", !.own = own]
    <2>0. tx' = [tx EXCEPT ![w] = t]
      BY <1>9 DEF CheckNoOp, TypeOK
    <2>1. /\ tx'[w].pc = "insert" /\ tx'[w].own = own
          /\ tx'[w].request = tx[w].request
      BY <2>0 DEF TypeOK, Tx
    <2>2. "root" \in own => Earned(Request(w).actor)
      BY DEF Held, RowsOf, RootRows
    <2>3. Request(w).op = "permissions" => admin[Request(w).target] # "absent"
      BY <1>2, <1>9 DEF CheckNoOp, NoOp, StatusOf, Sound
    <2>4. QED
      BY <1>1, <1>2, <1>9, <2>1, <2>2, <2>3
         DEF CheckNoOp, Sound, Request, Inserted, Passed
  <1>10. ASSUME Insert(w) PROVE Sound(w)'
    <2> DEFINE pc == IF Request(w).op \in {"add", "rename"} THEN "permit" ELSE "target"
    <2>1. tx'[w] = [tx[w] EXCEPT !.pc = pc]
      BY <1>6, <1>10 DEF Insert, Labels
    <2>2. QED
      BY <1>1, <1>2, <1>10, <2>1
         DEF Insert, Sound, Request, NonceTaken, Inserted, Passed, Tx
  <1>11. ASSUME ReadTarget(w), ~End(w) PROVE Sound(w)'
    <2> DEFINE pc == IF Request(w).op = "add" THEN "delete" ELSE "permit"
    <2>1. /\ tx'[w].pc = pc /\ tx'[w].own = tx[w].own
          /\ tx'[w].request = tx[w].request
      BY <1>11 DEF ReadTarget, TypeOK, Tx
    <2>2. QED
      BY <1>1, <1>2, <1>11, <2>1
         DEF ReadTarget, Sound, Request, NonceTaken, Inserted, Passed, GivesRoot
  <1>12. ASSUME CheckPermission(w), Permitted(w) PROVE Sound(w)'
    <2>1. tx'[w] = [tx[w] EXCEPT !.pc = AfterPermit(w)]
      BY <1>6, <1>12 DEF CheckPermission, AfterPermit, Labels
    <2>2. GivesRoot(w) => Earned(Request(w).actor)
      BY <1>2, <1>12, OwnEarned DEF Permitted, Affected, GivesRoot
    <2>3. AfterPermit(w) \in Inserted
      BY DEF AfterPermit, Inserted
    <2>4. QED
      BY <1>1, <1>2, <1>12, <2>1, <2>2, <2>3
         DEF CheckPermission, Sound, Request, NonceTaken, GivesRoot, Inserted, Tx
  <1>13. ASSUME EnsureAnotherRoot(w), ~End(w) PROVE Sound(w)'
    <2> DEFINE pc == IF Request(w).op = "remove" THEN "commit" ELSE "delete"
    <2>1. tx'[w] = [tx[w] EXCEPT !.pc = pc]
      BY <1>6, <1>13 DEF EnsureAnotherRoot, Labels
    <2>2. QED
      BY <1>1, <1>2, <1>13, <2>1
         DEF EnsureAnotherRoot, Sound, Request, NonceTaken, GivesRoot, Inserted,
             Passed, Tx
  <1>14. ASSUME Delete(w) \/ FinishDelete(w) PROVE Sound(w)'
    <2>1. /\ tx'[w].pc \in {"deleting", "commit"} /\ tx'[w].own = tx[w].own
          /\ tx'[w].request = tx[w].request
      BY <1>14 DEF Delete, FinishDelete, TypeOK, Tx
    <2>2. QED
      BY <1>1, <1>2, <1>14, <2>1
         DEF Delete, FinishDelete, Sound, Request, NonceTaken, GivesRoot,
             Inserted, Passed
  <1>15. QED
    BY <1>4, <1>5, <1>7, <1>8, <1>9, <1>10, <1>11, <1>12, <1>13, <1>14
       DEF Quiet, SeededMeanwhile, RejectActor, CheckNonce, CheckNoOp,
           RejectInsert, CheckPermission, EnsureAnotherRoot, RejectCommit,
           Abandon, Rejected

\* A handler enters Inserted only by an INSERT that waited for its nonce.
LEMMA QuietPlace ==
  ASSUME TypeOK, NEW w \in Workers, Quiet(w)
  PROVE  \/ tx'[w].pc \notin Inserted
         \/ tx[w].pc \in Inserted /\ tx'[w].request = tx[w].request
         \/ tx'[w].request = tx[w].request /\ ~NonceHeld(w)
  <1> DEFINE Goal == \/ tx'[w].pc \notin Inserted
                     \/ tx[w].pc \in Inserted /\ tx'[w].request = tx[w].request
                     \/ tx'[w].request = tx[w].request /\ ~NonceHeld(w)
  <1>1. ASSUME End(w) PROVE Goal
    BY <1>1, NoTxType DEF End, TypeOK, Inserted
  <1>2. ASSUME NEW r \in Requests, Receive(w, r) PROVE Goal
    BY <1>2 DEF Receive, Begin, TypeOK, Inserted
  <1>3. ASSUME NEW pc \in Labels, Goto(w, pc), pc \in Inserted => tx[w].pc \in Inserted
        PROVE  Goal
    <2>1. tx'[w] = [tx[w] EXCEPT !.pc = pc]
      BY <1>3 DEF Goto, TypeOK
    <2>2. QED
      BY <1>3, <2>1, BodyType DEF Tx
  <1>4. ASSUME ReadActor(w) \/ (CheckNonce(w) /\ Goto(w, "no_op")) PROVE Goal
    BY <1>3, <1>4 DEF ReadActor, Labels, Inserted
  <1>5. ASSUME CheckNoOp(w) PROVE Goal
    <2>1. CASE End(w)
      BY <2>1, <1>1
    <2>2. CASE ~End(w)
      BY <1>5, <2>2 DEF CheckNoOp, TypeOK, Tx, Inserted
    <2>3. QED
      BY <2>1, <2>2
  <1>6. ASSUME Insert(w) PROVE Goal
    <2> DEFINE pc == IF Request(w).op \in {"add", "rename"} THEN "permit" ELSE "target"
    <2>1. tx'[w] = [tx[w] EXCEPT !.pc = pc]
      BY <1>6 DEF Insert, Goto, TypeOK
    <2>2. QED
      BY <1>6, <2>1, BodyType DEF Insert, Tx
  <1>7. ASSUME ReadTarget(w) PROVE Goal
    <2>1. CASE End(w)
      BY <2>1, <1>1
    <2>2. CASE ~End(w)
      BY <1>7, <2>2 DEF ReadTarget, TypeOK, Tx, Inserted
    <2>3. QED
      BY <2>1, <2>2
  <1>8. ASSUME CheckPermission(w), ~End(w) PROVE Goal
    BY <1>3, <1>8 DEF CheckPermission, AfterPermit, Labels, Inserted
  <1>9. ASSUME EnsureAnotherRoot(w), ~End(w) PROVE Goal
    BY <1>3, <1>9 DEF EnsureAnotherRoot, Labels, Inserted
  <1>10. ASSUME Delete(w) \/ FinishDelete(w) PROVE Goal
    <2>1. /\ tx'[w].request = tx[w].request
          /\ tx[w].pc \in {"delete", "deleting"}
      BY <1>10 DEF Delete, FinishDelete, TypeOK, Tx
    <2>2. QED
      BY <2>1 DEF Inserted
  <1>11. QED
    BY <1>1, <1>2, <1>4, <1>5, <1>6, <1>7, <1>8, <1>9, <1>10
       DEF Quiet, SeededMeanwhile, RejectActor, CheckNonce, RejectInsert,
           CheckPermission, EnsureAnotherRoot, RejectCommit, Abandon, Rejected

LEMMA QuietInv ==
  ASSUME GovernanceInv, NEW w \in Workers, Quiet(w)
  PROVE  GovernanceInv'
  <1> USE DEF GovernanceInv
  <1>1. TypeOK' /\ UNCHANGED <<admin, permissions, log>>
    BY QuietType, QuietStep
  <1>2. \A v \in Workers : v # w => tx'[v] = tx[v]
    BY QuietStep DEF TypeOK
  <1>3. AllSound'
    <2>1. ASSUME NEW v \in Workers, v # w PROVE Sound(v)'
      BY <1>1, <1>2, <2>1, SoundKept DEF AllSound
    <2>2. QED
      BY <2>1, QuietSound DEF AllSound
  <1>4. \/ tx'[w].pc \notin Inserted
        \/ tx[w].pc \in Inserted /\ tx'[w].request = tx[w].request
        \/ tx'[w].request = tx[w].request /\ ~NonceHeld(w)
    BY QuietPlace
  <1>5. Alone'
    <2>1. \A r, s : SameNonce(r, s) <=> SameNonce(s, r)
      BY DEF SameNonce
    <2>2. QED
      BY <1>2, <1>4, <2>1 DEF Alone, NonceHeld
  <1>6. RootRows' /\ AdminNonceOnce' /\ RootFromGenesis'
    BY <1>1 DEF RootRows, AdminNonceOnce, RootFromGenesis, Earned
  <1>7. QED
    BY <1>1, <1>3, <1>5, <1>6

-----------------------------------------------------------------------------
(* Steps that change rows.                                                 *)

LEMMA EarnedGrows ==
  ASSUME TypeOK, NEW r \in Requests, log' = log \/ log' = Append(log, r),
         NEW k, Earned(k)
  PROVE  Earned(k)'
  BY DEF Earned, TypeOK

LEMMA SeedInv ==
  ASSUME GovernanceInv, NEW w \in Workers, Seed(w)
  PROVE  GovernanceInv'
  <1> USE DEF GovernanceInv
  <1> DEFINE root == [key |-> Genesis, permission |-> "root", by |-> Genesis]
  <1>1. tx' = [tx EXCEPT ![w] = [tx[w] EXCEPT !.pc = "actor"]]
    BY DEF Seed, Goto, TypeOK
  <1>2. [tx[w] EXCEPT !.pc = "actor"] \in Tx
    BY BodyType DEF Tx, Labels
  <1>3. permissions' = permissions \cup {root} /\ root \in Rows /\ log' = log
    BY DEF Seed, Rows, Permissions
  <1>4. /\ admin' \in [Keys -> {"absent", "active", "removed"}]
        /\ \A k \in Keys : admin[k] # "absent" => admin'[k] # "absent"
        /\ admin'[Genesis] = "active"
    BY DEF Seed, TypeOK
  <1>5. \A p \in permissions : p.key \in Keys /\ p.key # Genesis
    BY DEF Seed, TypeOK, Rows
  <1>6. TypeOK'
    <2>1. \A p \in permissions' : admin'[p.key] # "absent"
      BY <1>3, <1>4, <1>5 DEF TypeOK
    <2>2. \A p, q \in permissions' :
            p.key = q.key /\ p.permission = q.permission => p = q
      BY <1>3, <1>5 DEF TypeOK
    <2>3. QED
      BY <1>1, <1>2, <1>3, <1>4, <2>1, <2>2 DEF TypeOK
  <1>7. \A k : Earned(k)' <=> Earned(k)
    BY <1>3 DEF Earned
  <1>8. AllSound'
    <2>1. ASSUME NEW v \in Workers PROVE Sound(v)'
      <3>1. CASE v = w
        <4>1. /\ tx'[w].pc = "actor" /\ tx'[w].own = tx[w].own
              /\ tx'[w].request = tx[w].request
          BY <1>1, BodyType DEF Tx, TypeOK
        <4>2. Sound(w)
          BY DEF AllSound
        <4>3. QED
          BY <1>7, <3>1, <4>1, <4>2 DEF Sound, Request, Passed, Inserted
      <3>2. CASE v # w
        <4>1. tx'[v] = tx[v] /\ Sound(v)
          BY <1>1, <3>2 DEF TypeOK, AllSound
        <4>2. QED
          BY <1>3, <1>4, <1>7, <4>1, BodyType
             DEF Sound, Request, Passed, GivesRoot, NonceTaken, Existing
      <3>3. QED
        BY <3>1, <3>2
    <2>2. QED
      BY <2>1 DEF AllSound
  <1>9. Alone'
    BY <1>1, BodyType DEF Alone, Tx, TypeOK, Inserted
  <1>10. RootRows' /\ AdminNonceOnce' /\ RootFromGenesis'
    BY <1>3, <1>7 DEF RootRows, Earned, AdminNonceOnce, RootFromGenesis
  <1>11. QED
    BY <1>6, <1>8, <1>9, <1>10

\* Another handler only learns that it was overtaken.
LEMMA CommitOthers ==
  ASSUME TypeOK, NEW w \in Workers, Commit(w)
  PROVE  /\ tx' \in [Workers -> Tx] /\ tx'[w] = NoTx
         /\ \A v \in Workers : v # w =>
              /\ tx'[v].pc = tx[v].pc /\ tx'[v].request = tx[v].request
              /\ tx'[v].own = tx[v].own
  <1>1. \A v \in Workers : [tx[v] EXCEPT !.raced = TRUE] \in Tx
    BY BodyType DEF Tx
  <1>2. ASSUME NEW v \in Workers, v # w
        PROVE  tx'[v] = tx[v] \/ tx'[v] = [tx[v] EXCEPT !.raced = TRUE]
    BY <1>2 DEF Commit
  <1>3. tx'[w] = NoTx
    BY DEF Commit
  <1>4. ASSUME NEW v \in Workers, v # w
        PROVE  /\ tx'[v] \in Tx
               /\ tx'[v].pc = tx[v].pc /\ tx'[v].request = tx[v].request
               /\ tx'[v].own = tx[v].own
    BY <1>1, <1>2, <1>4, BodyType DEF Tx
  <1>5. tx' = [v \in Workers |-> tx'[v]]
    BY DEF Commit
  <1>6. QED
    BY <1>3, <1>4, <1>5, NoTxType

LEMMA CommitRows ==
  ASSUME GovernanceInv, NEW w \in Workers, Commit(w)
  PROVE  /\ admin' \in [Keys -> {"absent", "active", "removed"}]
         /\ \A k \in Keys : admin[k] # "absent" => admin'[k] # "absent"
         /\ permissions' \subseteq Rows
         /\ \A p \in permissions' : admin'[p.key] # "absent"
         /\ \A p, q \in permissions' :
              p.key = q.key /\ p.permission = q.permission => p = q
  <1> USE BodyType DEF GovernanceInv
  <1> DEFINE target == Request(w).target
  <1>1. /\ NewStatus(w) \in {"absent", "active", "removed"}
        /\ admin[target] # "absent" => NewStatus(w) # "absent"
        /\ Request(w).op = "add" => NewStatus(w) # "absent"
    BY DEF NewStatus, TypeOK
  <1>2. admin' = [admin EXCEPT ![target] = NewStatus(w)]
    BY DEF Commit
  <1>3. \A k \in Keys : admin[k] # "absent" => admin'[k] # "absent"
    BY <1>1, <1>2 DEF TypeOK
  <1>4. permissions' = (permissions \ tx[w].doomed) \cup NewRows(w)
    BY DEF Commit
  <1>5. \A q \in NewRows(w) : q \in Rows /\ q.key = target
                             /\ q.by = tx[w].request
    BY DEF NewRows, Granted, Request, Rows
  <1>6. NewRows(w) # {} => admin'[target] # "absent"
    <2>1. CASE Request(w).op = "add"
      BY <1>1, <1>2, <2>1 DEF TypeOK
    <2>2. CASE Request(w).op = "permissions"
      <3>1. tx[w].pc \in Inserted
        BY DEF Commit, Inserted
      <3>2. admin[target] # "absent"
        BY <2>2, <3>1 DEF AllSound, Sound
      <3>3. QED
        BY <1>3, <3>2
    <2>3. QED
      BY <2>1, <2>2 DEF NewRows, Replaces
  <1>7. \A p \in permissions' : p \in Rows /\ admin'[p.key] # "absent"
    BY <1>3, <1>4, <1>5, <1>6 DEF TypeOK, Rows
  <1>8. \A p, q \in NewRows(w) : p.permission = q.permission => p = q
    BY DEF NewRows, Granted
  <1>9. \A p \in permissions \ tx[w].doomed, q \in NewRows(w) :
          ~(p.key = q.key /\ p.permission = q.permission)
    BY DEF Commit, Collides
  <1>10. \A p, q \in permissions' :
           p.key = q.key /\ p.permission = q.permission => p = q
    BY <1>4, <1>8, <1>9 DEF TypeOK
  <1>11. QED
    BY <1>1, <1>2, <1>3, <1>7, <1>10 DEF TypeOK

LEMMA CommitInv ==
  ASSUME GovernanceInv, NEW w \in Workers, Commit(w)
  PROVE  GovernanceInv'
  <1> USE BodyType, CommitOthers DEF GovernanceInv
  <1> DEFINE r == tx[w].request
             n == Len(log)
  <1>1. /\ log' = Append(log, r) /\ r \in Requests /\ n \in Nat
        /\ DOMAIN log = 1..n /\ DOMAIN log' = 1..(n + 1)
        /\ \A i \in 1..n : log'[i] = log[i] /\ log[i] \in Requests
        /\ log'[n + 1] = r
    BY DEF Commit, TypeOK
  <1>2. TypeOK'
    BY <1>1, CommitRows DEF TypeOK
  <1>3. \A k : Earned(k) => Earned(k)'
    BY <1>1, EarnedGrows
  <1>4. tx[w].pc \in Inserted
    BY DEF Commit, Inserted
  <1>5. Sound(w) /\ ~Existing(r)
    BY <1>4 DEF AllSound, Sound, NonceTaken
  <1>6. AllSound'
    <2>1. ASSUME NEW v \in Workers, v # w PROVE Sound(v)'
      <3>1. /\ tx'[v].pc = tx[v].pc /\ tx'[v].request = tx[v].request
            /\ tx'[v].own = tx[v].own /\ Request(v)' = Request(v)
        BY <2>1 DEF Request
      <3>2. Sound(v)
        BY DEF AllSound
      <3>3. tx[v].pc \in Inserted => ~SameNonce(r, tx[v].request)
        BY <1>4, <2>1 DEF Alone
      <3>4. tx[v].pc \in Inserted => ~NonceTaken(v)'
        BY <1>1, <3>1, <3>2, <3>3 DEF Sound, NonceTaken, Existing
      <3>5. \A k \in Keys : admin[k] # "absent" => admin'[k] # "absent"
        BY CommitRows
      <3>6. (Passed(v) <=> Passed(v)') /\ (GivesRoot(v) <=> GivesRoot(v)')
        BY <3>1 DEF Passed, GivesRoot
      <3>7. Request(v).actor \in Keys /\ Request(v).target \in Keys
        OBVIOUS
      <3>8. Earned(Request(v).actor) => Earned(Request(v).actor)'
        BY <1>3, <3>1
      <3>9. QED
        BY <3>1, <3>2, <3>4, <3>5, <3>6, <3>7, <3>8 DEF Sound
    <2>2. Sound(w)'
      BY NoTxType DEF Sound, Passed, Inserted
    <2>3. QED
      BY <2>1, <2>2 DEF AllSound
  <1>7. Alone'
    BY NoTxType DEF Alone, Inserted
  <1>8. RootRows'
    <2>1. ASSUME NEW q \in NewRows(w), q.permission = "root" PROVE Earned(q.key)'
      <3>1. GrantsRoot(r, q.key)
        BY <2>1 DEF NewRows, Replaces, Granted, GrantsRoot, Request
      <3>2. QED
        BY <1>1, <3>1 DEF Earned
    <2>2. \A p \in permissions' : p \in permissions \/ p \in NewRows(w)
      BY DEF Commit
    <2>3. QED
      BY <1>3, <2>1, <2>2 DEF RootRows
  <1>9. AdminNonceOnce'
    <2>1. \A i \in 1..n : ~SameNonce(log[i], r)
      BY <1>1, <1>5 DEF Existing
    <2>2. \A i \in 1..n : ~SameNonce(r, log[i])
      BY <2>1 DEF SameNonce
    <2>3. QED
      BY <1>1, <2>1, <2>2 DEF AdminNonceOnce
  <1>10. RootFromGenesis'
    <2>1. ASSUME NEW k \in Keys, GrantsRoot(r, k) PROVE Earned(Body[r].actor)
      <3>1. Passed(w) /\ GivesRoot(w)
        BY <2>1 DEF Commit, Passed, GivesRoot, GrantsRoot, Request
      <3>2. QED
        BY <1>5, <3>1 DEF Sound, Request
    <2>2. ASSUME NEW i \in 1..n, NEW k \in Keys, GrantsRoot(log'[i], k)
          PROVE  \/ Body[log'[i]].actor = Genesis
                 \/ \E j \in 1..(i - 1) : GrantsRoot(log'[j], Body[log'[i]].actor)
      BY <1>1, <2>2 DEF RootFromGenesis
    <2>3. ASSUME NEW k \in Keys, GrantsRoot(r, k)
          PROVE  \/ Body[r].actor = Genesis
                 \/ \E j \in 1..n : GrantsRoot(log'[j], Body[r].actor)
      BY <1>1, <2>1, <2>3 DEF Earned
    <2>4. QED
      BY <1>1, <2>2, <2>3 DEF RootFromGenesis
  <1>11. QED
    BY <1>2, <1>6, <1>7, <1>8, <1>9, <1>10

-----------------------------------------------------------------------------
(* Theorems.                                                               *)

LEMMA InitInv == Init => GovernanceInv
  BY NoTxType
     DEF Init, GovernanceInv, TypeOK, AllSound, Sound, Alone, RootRows,
         AdminNonceOnce, RootFromGenesis, Passed, Inserted

LEMMA StepInv == GovernanceInv /\ [Next]_vars => GovernanceInv'
  <1> SUFFICES ASSUME GovernanceInv, [Next]_vars PROVE GovernanceInv'
    OBVIOUS
  <1>1. CASE UNCHANGED vars
    BY <1>1 DEF vars, GovernanceInv, TypeOK, AllSound, Sound, Alone, RootRows,
         AdminNonceOnce, RootFromGenesis, Passed, GivesRoot, Earned, Request,
         NonceTaken, Existing
  <1>2. ASSUME NEW w \in Workers, Quiet(w) PROVE GovernanceInv'
    BY <1>2, QuietInv
  <1>3. ASSUME NEW w \in Workers, Seed(w) PROVE GovernanceInv'
    BY <1>3, SeedInv
  <1>4. ASSUME NEW w \in Workers, Commit(w) PROVE GovernanceInv'
    BY <1>4, CommitInv
  <1>5. QED
    BY <1>1, <1>2, <1>3, <1>4 DEF Next, Quiet

LEMMA AlwaysGoverned == Spec => []GovernanceInv
  BY InitInv, StepInv, PTL DEF Spec

\* The rows keep their types; a permission belongs to a key that exists and is
\* granted once, whatever handlers delete, insert and roll back meanwhile.
THEOREM GovernanceTypes == Spec => []TypeOK
  <1>1. GovernanceInv => TypeOK
    BY DEF GovernanceInv
  <1>2. QED
    BY <1>1, AlwaysGoverned, PTL

\* An admin's nonce has one accepted action, for any deliveries at once.
THEOREM NonceAcceptedOnce == Spec => []AdminNonceOnce
  <1>1. GovernanceInv => AdminNonceOnce
    BY DEF GovernanceInv
  <1>2. QED
    BY <1>1, AlwaysGoverned, PTL

\* Root comes from the genesis key alone, whatever is delegated and revoked.
THEOREM RootIsInherited == Spec => []RootFromGenesis
  <1>1. GovernanceInv => RootFromGenesis
    BY DEF GovernanceInv
  <1>2. QED
    BY <1>1, AlwaysGoverned, PTL

-----------------------------------------------------------------------------
(* The last root: what a handler has read still holds, until another one   *)
(* commits.                                                                *)

Changes(w) == Request(w).op \in {"permissions", "remove"}
Writing == {"delete", "deleting", "commit"}

\* What holds of a handler's reads whoever commits.
Tidy(w) ==
  /\ \A p \in tx[w].doomed : p.key = Request(w).target
  /\ Request(w).op = "rename"
       => /\ tx[w].doomed = {} /\ tx[w].seen = {}
          /\ tx[w].pc \notin {"target", "roots", "delete", "deleting"}
  /\ Request(w).op = "add"
       => tx[w].pc # "roots" /\ (tx[w].pc \notin Writing => tx[w].seen = {})

\* What holds of them while nobody has.
UpToDate(w) ==
  /\ AlreadyLoaded(w) /\ tx[w].pc \in Inserted \cup {"insert"}
       => tx[w].own = Held(Request(w).target)
  /\ Request(w).op = "add" /\ tx[w].pc \in Writing
       => admin[Request(w).target] # "active"
  /\ Changes(w) /\ tx[w].pc \in {"permit", "roots"} \cup Writing
       => tx[w].seen = Held(Request(w).target)
  /\ Changes(w) /\ tx[w].pc \in Writing /\ TakesRoot(w) => AnotherActiveRoot(w)

Reading(w) == Tidy(w) /\ (~tx[w].raced => UpToDate(w))

GenesisFirst == admin[Genesis] = "absent" => \A k \in Keys : admin[k] = "absent"

RootInv == GovernanceInv /\ GenesisFirst /\ \A w \in Workers : Reading(w)

\* Another handler's reads, while the rows and its transaction are as they were.
LEMMA ReadingKept ==
  ASSUME NEW v \in Workers, Reading(v), UNCHANGED <<admin, permissions>>,
         tx'[v] = tx[v]
  PROVE  Reading(v)'
  BY DEF Reading, Tidy, UpToDate, Changes, AlreadyLoaded, Request, Held, RowsOf,
         TakesRoot, AnotherActiveRoot

\* A transaction that has read nothing.
LEMMA NothingRead ==
  ASSUME NEW v \in Workers,
         tx'[v].doomed = {}, tx'[v].seen = {},
         tx'[v].pc \in {"idle", "seed", "actor", "nonce", "no_op"}
  PROVE  Reading(v)'
  BY DEF Reading, Tidy, UpToDate, Inserted, Writing

\* The fields that Reading speaks of, when only the place changes.
Same(w) == /\ tx'[w].request = tx[w].request /\ tx'[w].own = tx[w].own
           /\ tx'[w].seen = tx[w].seen /\ tx'[w].doomed = tx[w].doomed
           /\ tx'[w].raced = tx[w].raced

LEMMA GotoSame ==
  ASSUME TypeOK, NEW w \in Workers, NEW pc \in Labels, Goto(w, pc)
  PROVE  tx'[w].pc = pc /\ Same(w)
  <1>1. tx'[w] = [tx[w] EXCEPT !.pc = pc]
    BY DEF Goto, TypeOK
  <1>2. QED
    BY <1>1, BodyType DEF Tx, Same

LEMMA ReceiveReading ==
  ASSUME TypeOK, NEW w \in Workers, NEW r \in Requests, Receive(w, r)
  PROVE  Reading(w)'
  <1>1. /\ tx'[w].pc \in {"seed", "actor"}
        /\ tx'[w].doomed = {} /\ tx'[w].seen = {}
    BY DEF Receive, Begin, TypeOK
  <1>2. QED
    BY <1>1, NothingRead

LEMMA EndReading ==
  ASSUME TypeOK, NEW w \in Workers, End(w)
  PROVE  Reading(w)'
  <1>1. tx'[w] = NoTx
    BY DEF End, TypeOK
  <1>2. NoTx.pc = "idle" /\ NoTx.doomed = {} /\ NoTx.seen = {}
    BY DEF NoTx, Begin
  <1>3. QED
    BY <1>1, <1>2, NothingRead

\* A step to another place keeps what Reading says of both.
LEMMA MoveReading ==
  ASSUME NEW w \in Workers, Reading(w), UNCHANGED <<admin, permissions>>,
         Same(w),
         AlreadyLoaded(w) /\ tx'[w].pc \in Inserted \cup {"insert"}
           => tx[w].pc \in Inserted \cup {"insert"},
         Request(w).op = "add" => /\ tx'[w].pc \in Writing <=> tx[w].pc \in Writing
                                  /\ tx'[w].pc # "roots",
         Changes(w) /\ tx'[w].pc \in {"permit", "roots"} \cup Writing
           => tx[w].pc \in {"permit", "roots"} \cup Writing,
         Changes(w) /\ tx'[w].pc \in Writing /\ TakesRoot(w)
           => tx[w].pc \in Writing \/ AnotherActiveRoot(w),
         Request(w).op = "rename"
           => tx'[w].pc \notin {"target", "roots", "delete", "deleting"}
  PROVE  Reading(w)'
  <1>1. /\ Request(w)' = Request(w)
        /\ \A k : Held(k)' = Held(k)
        /\ (TakesRoot(w)' <=> TakesRoot(w))
        /\ (Changes(w)' <=> Changes(w))
        /\ (AlreadyLoaded(w)' <=> AlreadyLoaded(w))
        /\ (AnotherActiveRoot(w)' <=> AnotherActiveRoot(w))
    BY DEF Same, Request, Held, RowsOf, TakesRoot, Changes, AlreadyLoaded,
           AnotherActiveRoot
  <1>2. Tidy(w)'
    BY <1>1 DEF Reading, Tidy, Same
  <1>3. ASSUME ~tx'[w].raced PROVE UpToDate(w)'
    BY <1>1, <1>3 DEF Reading, UpToDate, Same
  <1>4. QED
    BY <1>2, <1>3 DEF Reading

LEMMA QuietReading ==
  ASSUME RootInv, NEW w \in Workers, Quiet(w)
  PROVE  Reading(w)'
  <1> USE BodyType DEF RootInv, GovernanceInv
  <1>1. UNCHANGED <<admin, permissions>> /\ Reading(w) /\ TypeOK
    BY QuietStep
  <1>2. ASSUME End(w) PROVE Reading(w)'
    BY <1>2, EndReading
  <1>3. ASSUME NEW r \in Requests, Receive(w, r) PROVE Reading(w)'
    BY <1>3, ReceiveReading
  <1>4. ASSUME ReadActor(w) \/ (CheckNonce(w) /\ Goto(w, "no_op")) PROVE Reading(w)'
    <2>1. /\ tx[w].pc \in {"actor", "nonce"} /\ tx'[w].pc \in {"nonce", "no_op"}
          /\ Same(w)
      BY <1>4, GotoSame DEF ReadActor, CheckNonce, Labels
    <2>2. QED
      BY <1>1, <2>1, MoveReading DEF Inserted, Writing
  <1>5. ASSUME CheckNoOp(w), ~NoOp(w) PROVE Reading(w)'
    <2> DEFINE own == IF AlreadyLoaded(w) THEN Held(Request(w).actor) ELSE {}
    <2> DEFINE t == [tx[w] EXCEPT !.pc = "insert", !.own = own]
    <2>0. tx' = [tx EXCEPT ![w] = t]
      BY <1>5 DEF CheckNoOp, TypeOK
    <2>1. /\ tx'[w].pc = "insert" /\ tx'[w].own = own
          /\ tx'[w].request = tx[w].request /\ tx'[w].seen = tx[w].seen
          /\ tx'[w].doomed = tx[w].doomed
      BY <2>0 DEF TypeOK, Tx
    <2>2. Request(w)' = Request(w) /\ \A k : Held(k)' = Held(k)
      BY <1>1, <2>1 DEF Request, Held, RowsOf
    <2>3. Tidy(w)'
      <3>1. tx[w].pc = "no_op"
        BY <1>5 DEF CheckNoOp
      <3>2. QED
        BY <1>1, <2>1, <2>2, <3>1 DEF Reading, Tidy, Writing
    <2>4. AlreadyLoaded(w) => own = Held(Request(w).target)
      BY DEF AlreadyLoaded
    <2>5. (AlreadyLoaded(w)' <=> AlreadyLoaded(w)) /\ "insert" \notin Writing
      BY <2>2 DEF AlreadyLoaded, Writing
    <2>6. UpToDate(w)'
      BY <2>1, <2>2, <2>4, <2>5 DEF UpToDate
    <2>7. QED
      BY <2>3, <2>6 DEF Reading
  <1>6. ASSUME Insert(w) PROVE Reading(w)'
    <2> DEFINE pc == IF Request(w).op \in {"add", "rename"} THEN "permit" ELSE "target"
    <2>1. tx'[w].pc = pc /\ Same(w) /\ tx[w].pc = "insert"
      BY <1>6, GotoSame DEF Insert, Labels
    <2>2. QED
      BY <1>1, <2>1, MoveReading DEF Inserted, Writing, Changes
  <1>7. ASSUME ReadTarget(w), ~End(w) PROVE Reading(w)'
    <2> DEFINE seen == IF AlreadyLoaded(w) THEN tx[w].own ELSE Held(Request(w).target)
               pc == IF Request(w).op = "add" THEN "delete" ELSE "permit"
    <2>1. /\ tx'[w].pc = pc /\ tx'[w].seen = seen
          /\ tx'[w].request = tx[w].request /\ tx'[w].own = tx[w].own
          /\ tx'[w].doomed = tx[w].doomed /\ tx'[w].raced = tx[w].raced
          /\ tx[w].pc = "target"
          /\ ~(Request(w).op = "add" /\ StatusOf(w, Request(w).target) = "active")
      BY <1>7 DEF ReadTarget, TypeOK, Tx
    <2>2. Request(w)' = Request(w) /\ \A k : Held(k)' = Held(k)
      BY <1>1, <2>1 DEF Request, Held, RowsOf
    <2>3. Tidy(w)'
      BY <1>1, <2>1, <2>2 DEF Reading, Tidy, Writing
    <2>4. (AlreadyLoaded(w)' <=> AlreadyLoaded(w)) /\ (Changes(w)' <=> Changes(w))
      BY <2>2 DEF AlreadyLoaded, Changes
    <2>5. ASSUME ~tx[w].raced PROVE UpToDate(w)'
      <3>1. AlreadyLoaded(w) => tx[w].own = Held(Request(w).target)
        BY <1>1, <2>1, <2>5 DEF Reading, UpToDate, Inserted
      <3>2. seen = Held(Request(w).target)
        BY <3>1
      <3>3. Request(w).op = "add" => admin[Request(w).target] # "active"
        BY <2>1 DEF StatusOf
      <3>4. Changes(w) => tx'[w].pc = "permit" /\ "permit" \notin Writing
        BY <2>1 DEF Changes, Writing
      <3>5. QED
        BY <1>1, <2>1, <2>2, <2>4, <3>1, <3>2, <3>3, <3>4 DEF UpToDate
    <2>6. QED
      BY <2>1, <2>3, <2>5 DEF Reading
  <1>8. ASSUME CheckPermission(w), ~End(w) PROVE Reading(w)'
    <2>1. AfterPermit(w) \in {"target", "roots", "delete", "commit"}
      BY DEF AfterPermit
    <2>2. tx'[w].pc = AfterPermit(w) /\ Same(w) /\ tx[w].pc = "permit"
      BY <1>8, <2>1, GotoSame DEF CheckPermission, Labels
    <2>3. Request(w).op = "add" => AfterPermit(w) = "target"
      BY <1>1, <2>2 DEF AfterPermit, TakesRoot, Reading, Tidy, Writing
    <2>4. Changes(w) /\ TakesRoot(w) => AfterPermit(w) = "roots"
      BY DEF AfterPermit, Changes
    <2>5. Request(w).op = "rename" => AfterPermit(w) = "commit"
      BY <1>1 DEF AfterPermit, TakesRoot, Reading, Tidy
    <2>6. QED
      BY <1>1, <2>1, <2>2, <2>3, <2>4, <2>5, MoveReading DEF Inserted, Writing, Changes
  <1>9. ASSUME EnsureAnotherRoot(w), ~End(w) PROVE Reading(w)'
    <2> DEFINE pc == IF Request(w).op = "remove" THEN "commit" ELSE "delete"
    <2>1. tx'[w].pc = pc /\ Same(w) /\ tx[w].pc = "roots" /\ AnotherActiveRoot(w)
      BY <1>9, GotoSame DEF EnsureAnotherRoot, Labels
    <2>2. Request(w).op # "rename"
      BY <1>1, <2>1 DEF Reading, Tidy
    <2>3. Request(w).op # "add"
      BY <1>1, <2>1 DEF Reading, Tidy
    <2>4. QED
      BY <1>1, <2>1, <2>2, <2>3, MoveReading DEF Inserted, Writing, Changes
  <1>10. ASSUME Delete(w) \/ FinishDelete(w) PROVE Reading(w)'
    <2>1. /\ tx[w].pc \in {"delete", "deleting"}
          /\ tx'[w].pc \in {"deleting", "commit"} /\ tx'[w].own = tx[w].own
          /\ tx'[w].request = tx[w].request /\ tx'[w].seen = tx[w].seen
          /\ tx'[w].raced = tx[w].raced
          /\ \/ tx'[w].doomed = RowsOf(Request(w).target)
             \/ tx'[w].doomed = tx[w].doomed \cap permissions
      BY <1>10 DEF Delete, FinishDelete, TypeOK, Tx
    <2>2. /\ Request(w)' = Request(w) /\ \A k : Held(k)' = Held(k)
          /\ (TakesRoot(w)' <=> TakesRoot(w)) /\ (Changes(w)' <=> Changes(w))
          /\ (AlreadyLoaded(w)' <=> AlreadyLoaded(w))
          /\ (AnotherActiveRoot(w)' <=> AnotherActiveRoot(w))
      BY <1>1, <2>1 DEF Request, Held, RowsOf, TakesRoot, Changes, AlreadyLoaded,
                        AnotherActiveRoot
    <2>3. Tidy(w)'
      BY <1>1, <2>1, <2>2 DEF Reading, Tidy, RowsOf, Writing
    <2>4. /\ tx[w].pc \in Writing /\ tx[w].pc \in Inserted
          /\ tx'[w].pc \in Writing /\ tx'[w].pc \in Inserted
      BY <2>1 DEF Writing, Inserted
    <2>5. ~tx[w].raced => UpToDate(w)'
      BY <1>1, <2>1, <2>2, <2>4 DEF Reading, UpToDate
    <2>6. QED
      BY <2>1, <2>3, <2>5 DEF Reading
  <1>11. QED
    BY <1>2, <1>3, <1>4, <1>5, <1>6, <1>7, <1>8, <1>9, <1>10
       DEF Quiet, SeededMeanwhile, RejectActor, CheckNonce, CheckNoOp,
           RejectInsert, CheckPermission, EnsureAnotherRoot, RejectCommit,
           Abandon, Rejected

\* The first admin appears before anyone has read past the actor.
LEMMA SeedReading ==
  ASSUME RootInv, NEW w \in Workers, Seed(w)
  PROVE  GenesisFirst' /\ \A v \in Workers : Reading(v)'
  <1> USE BodyType DEF RootInv, GovernanceInv
  <1>1. GenesisFirst'
    BY DEF Seed, GenesisFirst, TypeOK
  <1>2. tx'[w].pc = "actor" /\ Same(w) /\ tx[w].pc = "seed"
    BY GotoSame DEF Seed, Labels
  <1>3. \A k \in Keys : admin[k] = "absent"
    BY DEF Seed, GenesisFirst
  <1>4. ASSUME NEW v \in Workers PROVE Reading(v)'
    <2>1. /\ tx[v].pc \in {"idle", "seed", "actor"}
          /\ tx'[v].pc \in {"idle", "seed", "actor"} /\ Same(v)
      <3>1. tx[v].pc \in {"idle", "seed", "actor"}
        BY <1>3 DEF AllSound, Sound
      <3>2. v # w => tx'[v] = tx[v]
        BY DEF Seed, Goto, TypeOK
      <3>3. QED
        BY <1>2, <3>1, <3>2 DEF Same
    <2>2. Request(v)' = Request(v) /\ Tidy(v)
      BY <2>1 DEF Same, Request, Reading
    <2>3. Tidy(v)'
      BY <2>1, <2>2 DEF Tidy, Same, Writing
    <2>4. UpToDate(v)'
      BY <2>1 DEF UpToDate, Inserted, Writing
    <2>5. QED
      BY <2>3, <2>4 DEF Reading
  <1>5. QED
    BY <1>1, <1>4

\* A commit overtakes whoever is under way.
LEMMA CommitReading ==
  ASSUME RootInv, NEW w \in Workers, Commit(w)
  PROVE  GenesisFirst' /\ \A v \in Workers : Reading(v)'
  <1> USE BodyType DEF RootInv, GovernanceInv
  <1>1. GenesisFirst'
    <2>1. admin[Request(w).actor] # "absent"
      BY DEF Commit, AllSound, Sound
    <2>2. admin[Genesis] # "absent"
      BY <2>1 DEF GenesisFirst
    <2>3. admin'[Genesis] # "absent"
      BY <2>2, CommitRows
    <2>4. QED
      BY <2>3 DEF GenesisFirst
  <1>2. Reading(w)'
    <2>1. tx'[w] = NoTx
      BY CommitOthers
    <2>2. NoTx.pc = "idle" /\ NoTx.doomed = {} /\ NoTx.seen = {}
      BY DEF NoTx, Begin
    <2>3. QED
      BY <2>1, <2>2, NothingRead
  <1>3. ASSUME NEW v \in Workers, v # w PROVE Reading(v)'
    <2>1. CASE tx[v].pc = "idle"
      <3>1. tx'[v] = tx[v]
        BY <1>3, <2>1 DEF Commit
      <3>2. Tidy(v)'
        BY <3>1 DEF Reading, Tidy, Request
      <3>3. UpToDate(v)'
        BY <2>1, <3>1 DEF UpToDate, Inserted, Writing
      <3>4. QED
        BY <3>2, <3>3 DEF Reading
    <2>2. CASE tx[v].pc # "idle"
      <3>1. tx'[v] = [tx[v] EXCEPT !.raced = TRUE]
        BY <1>3, <2>2 DEF Commit
      <3>2. /\ tx'[v].raced /\ tx'[v].pc = tx[v].pc /\ tx'[v].seen = tx[v].seen
            /\ tx'[v].doomed = tx[v].doomed /\ tx'[v].request = tx[v].request
        BY <3>1 DEF Tx
      <3>3. Tidy(v)'
        BY <3>2 DEF Reading, Tidy, Request
      <3>4. QED
        BY <3>2, <3>3 DEF Reading
    <2>3. QED
      BY <2>1, <2>2
  <1>4. QED
    BY <1>1, <1>2, <1>3

LEMMA InitRoot == Init => RootInv
  <1> SUFFICES ASSUME Init PROVE GenesisFirst /\ \A w \in Workers : Reading(w)
    BY InitInv DEF RootInv
  <1>1. NoTx.pc = "idle" /\ NoTx.doomed = {} /\ NoTx.seen = {}
    BY DEF NoTx, Begin
  <1>2. QED
    BY <1>1 DEF Init, GenesisFirst, Reading, Tidy, UpToDate, Inserted, Writing

LEMMA RootStep == RootInv /\ [Next]_vars => RootInv'
  <1> SUFFICES ASSUME RootInv, [Next]_vars
               PROVE  GenesisFirst' /\ \A w \in Workers : Reading(w)'
    BY StepInv DEF RootInv
  <1>1. CASE UNCHANGED vars
    BY <1>1, ReadingKept DEF vars, RootInv, GenesisFirst
  <1>2. ASSUME NEW w \in Workers, Quiet(w)
        PROVE  GenesisFirst' /\ \A v \in Workers : Reading(v)'
    <2>1. /\ UNCHANGED <<admin, permissions>>
          /\ \A v \in Workers \ {w} : tx'[v] = tx[v]
      BY <1>2, QuietStep DEF RootInv, GovernanceInv, TypeOK
    <2>2. GenesisFirst'
      BY <2>1 DEF RootInv, GenesisFirst
    <2>3. QED
      BY <1>2, <2>1, <2>2, QuietReading, ReadingKept DEF RootInv
  <1>3. ASSUME NEW w \in Workers, Seed(w)
        PROVE  GenesisFirst' /\ \A v \in Workers : Reading(v)'
    BY <1>3, SeedReading
  <1>4. ASSUME NEW w \in Workers, Commit(w)
        PROVE  GenesisFirst' /\ \A v \in Workers : Reading(v)'
    BY <1>4, CommitReading
  <1>5. QED
    BY <1>1, <1>2, <1>3, <1>4 DEF Next, Quiet

\* A handler that was not overtaken leaves a root behind if it found one.
LEMMA CommitKeepsRoot ==
  ASSUME RootInv, NEW w \in Workers, Rooted, Commit(w), ~tx[w].raced
  PROVE  Rooted'
  <1> USE BodyType DEF RootInv, GovernanceInv
  <1> DEFINE t == Request(w).target
  <1>1. /\ Tidy(w) /\ UpToDate(w) /\ tx[w].pc = "commit" /\ t \in Keys
        /\ tx[w].pc \in Writing /\ Request(w).op \in Ops
    BY DEF Reading, Commit, Writing
  <1>2. /\ admin' = [admin EXCEPT ![t] = NewStatus(w)]
        /\ permissions' = (permissions \ tx[w].doomed) \cup NewRows(w)
    BY DEF Commit
  <1>3. PICK k \in Keys, p \in permissions :
          admin[k] = "active" /\ p.key = k /\ p.permission = "root"
    BY DEF Rooted, Held, RowsOf
  <1>4. ASSUME NEW q \in permissions, q.key \in Keys, q.key # t,
               q.permission = "root", admin[q.key] = "active"
        PROVE  Rooted'
    <2>1. q \in permissions'
      BY <1>1, <1>2, <1>4 DEF Tidy
    <2>2. admin'[q.key] = "active"
      BY <1>2, <1>4 DEF TypeOK
    <2>3. QED
      BY <1>4, <2>1, <2>2 DEF Rooted, Held, RowsOf
  <1>5. CASE k # t
    BY <1>3, <1>4, <1>5
  <1>6. CASE k = t /\ Request(w).op = "add"
    BY <1>1, <1>3, <1>6 DEF UpToDate
  <1>7. CASE k = t /\ Request(w).op = "rename"
    <2>1. p \in permissions' /\ admin' [k] = "active"
      BY <1>1, <1>2, <1>3, <1>7 DEF Tidy, NewStatus, TypeOK
    <2>2. QED
      BY <1>3, <2>1 DEF Rooted, Held, RowsOf
  <1>8. CASE k = t /\ Changes(w)
    <2>1. "root" \in tx[w].seen
      BY <1>1, <1>3, <1>8 DEF UpToDate, Held, RowsOf
    <2>2. CASE TakesRoot(w)
      <3>1. PICK q \in permissions :
              q.key # t /\ q.permission = "root" /\ admin[q.key] = "active"
        BY <1>1, <1>8, <2>2 DEF UpToDate, AnotherActiveRoot
      <3>2. q.key \in Keys
        BY DEF TypeOK, Rows
      <3>3. QED
        BY <1>4, <3>1, <3>2
    <2>3. CASE ~TakesRoot(w)
      <3>1. Request(w).op = "permissions" /\ "root" \in Request(w).permissions
        BY <1>8, <2>1, <2>3 DEF TakesRoot, Changes
      <3>2. PICK q \in NewRows(w) : q.key = t /\ q.permission = "root"
        <4> DEFINE q == [key |-> t, permission |-> "root", by |-> tx[w].request]
        <4>1. q \in NewRows(w)
          BY <3>1 DEF NewRows, Replaces, Granted, Request
        <4>2. QED
          BY <4>1
      <3>3. admin'[t] = "active"
        BY <1>1, <1>2, <1>3, <1>8, <3>1 DEF NewStatus, TypeOK
      <3>4. q \in permissions'
        BY <1>2, <3>2
      <3>5. QED
        BY <1>1, <3>2, <3>3, <3>4 DEF Rooted, Held, RowsOf
    <2>4. QED
      BY <2>2, <2>3
  <1>9. QED
    BY <1>1, <1>5, <1>6, <1>7, <1>8 DEF Ops, Changes

\* Removal of others and of oneself, demotion, and adding again with less: none
\* takes the last active root, unless another action commits meanwhile.
THEOREM LastRootStays == Spec => LastRootKept
  <1>1. RootInv /\ [Next]_vars
          => [\A w \in Workers : Rooted /\ Commit(w) /\ ~tx[w].raced => Rooted']_vars
    BY CommitKeepsRoot
  <1>2. QED
    BY <1>1, InitRoot, RootStep, PTL DEF Spec, LastRootKept
=============================================================================
