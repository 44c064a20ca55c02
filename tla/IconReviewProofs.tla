-------------------------- MODULE IconReviewProofs --------------------------
(***************************************************************************)
(* The moderation of icons for any handlers, requests and hashes: what the *)
(* row locks and the index on pending proposals give each transaction that *)
(* is about to commit, and from that the safety of reviews.                *)
(***************************************************************************)
EXTENDS IconReview, WellFoundedInduction, TLAPS

Types ==
  /\ asset \in [active : BOOLEAN, pointer : Nat, delisted : BOOLEAN]
  /\ proposals \in Seq(Proposal)
  /\ log \in Seq([req : Requests, proposal : Nat])
  /\ tx \in [Workers -> Txs]

\* What holds of handler w's transaction t.  The asset's row and those of
\* proposals are its own once locked; a proposal about to be inserted meets no
\* pending one; a decision keeps its proposal pending until it commits.
Sound(w, t) ==
  /\ t.at \in {"insert", "update", "commit"} => t.holds
  /\ t.at \in {"rows", "lock_rows"} /\ Body[t.req].op = "legacy_deregister" => t.holds
  /\ t.at = "update" => t.found # NoIcon
  /\ t.stale => t.found # NoIcon
  /\ t.holds => AssetFree(w)
  /\ RowsFree(w, t.rows)
  /\ t.at = "commit" /\ Body[t.req].op = "propose" => Pending = {} /\ ~Used(t.req)
  /\ t.at \in {"asset", "commit"} /\ Body[t.req].op \in Decisions
       => t.found \in Pending /\ t.rows = {t.found}

\* A decided proposal never awaits review again, a rejected one has no bytes.
Settled ==
  \A i \in DOMAIN log : Decides(i) =>
    LET p == log[i].proposal IN
      /\ p \in DOMAIN proposals /\ proposals[p].status # "pending"
      /\ Body[log[i].req].op = "reject" => ~proposals[p].bytes

Inv == /\ Types /\ \A w \in Workers : Sound(w, tx[w])
       /\ Settled /\ OnePending /\ DecidedOnce /\ ListedIconCurrent

-----------------------------------------------------------------------------
(* Steps that only move one handler.                                       *)

LEMMA IdleSound ==
  ASSUME NEW w \in Workers
  PROVE  Idle \in Txs /\ Sound(w, Idle)
  <1>1. Idle \in Txs
    BY IconAssumption DEF Idle, Txs, Stages
  <1>2. Sound(w, Idle)
    BY DEF Idle, Sound, RowsFree
  <1>. QED  BY <1>1, <1>2

LEMMA Quiet ==
  ASSUME Inv, NEW w \in Workers, NEW t \in Txs, Sound(w, t),
         tx' = [tx EXCEPT ![w] = t], Rows
  PROVE  Inv'
  <1>1. /\ tx \in [Workers -> Txs] /\ tx' \in [Workers -> Txs] /\ tx'[w] = t
        /\ \A v \in Workers \ {w} : tx'[v] = tx[v]
        /\ UNCHANGED <<asset, proposals, log, fragment>>
    BY DEF Inv, Types, Rows
  <1>2. Pending' = Pending /\ Live' = Live /\ \A r : Used(r)' <=> Used(r)
    BY <1>1 DEF Pending, Live, Used
  <1>3. ASSUME NEW v \in Workers
        PROVE  Sound(v, tx[v])'
    <2>0. Sound(v, tx[v])
      BY DEF Inv
    <2>1. AssetFree(w)' <=> AssetFree(w)
      BY <1>1 DEF AssetFree
    <2>2. RowsFree(w, t.rows)' <=> RowsFree(w, t.rows)
      BY <1>1 DEF RowsFree
    <2>3. CASE v = w
      BY <1>1, <1>2, <2>1, <2>2, <2>3 DEF Sound, AssetFree, RowsFree
    <2>4. CASE v # w
      <3>1. tx[v].holds => AssetFree(v)'
        BY <1>1, <2>0, <2>4 DEF Sound, AssetFree
      <3>2. RowsFree(v, tx[v].rows)'
        BY <1>1, <2>0, <2>4 DEF Sound, RowsFree
      <3>. QED  BY <1>1, <1>2, <2>0, <2>4, <3>1, <3>2 DEF Sound
    <2>. QED  BY <2>3, <2>4
  <1>4. Types'
    BY <1>1 DEF Inv, Types
  <1>5. Settled' /\ DecidedOnce'
    BY <1>1 DEF Inv, Settled, DecidedOnce, Decides
  <1>6. OnePending'
    BY <1>1, <1>2 DEF Inv, OnePending
  <1>7. ListedIconCurrent'
    BY <1>1, <1>2 DEF Inv, ListedIconCurrent, Published, Current, Approved, Live
  <1>. QED  BY <1>3, <1>4, <1>5, <1>6, <1>7 DEF Inv

\* A handler that ends, or goes on without a lock, disturbs nothing.
LEMMA EndInv ==
  ASSUME Inv, NEW w \in Workers, End(w), Rows
  PROVE  Inv'
  BY IdleSound, Quiet DEF End

LEMMA GotoInv ==
  ASSUME Inv, NEW w \in Workers, NEW stage \in Stages, Goto(w, stage), Rows,
         stage \in {"insert", "rows", "lock_rows", "commit"} => tx[w].holds,
         stage \in {"asset", "commit"} => Op(w) \notin Decisions,
         stage # "update",
         stage = "commit" => Op(w) # "propose" \/ (Pending = {} /\ ~Used(tx[w].req))
  PROVE  Inv'
  <1>. DEFINE t == [tx[w] EXCEPT !.at = stage]
  <1>1. tx[w] \in Txs /\ Sound(w, tx[w])
    BY DEF Inv, Types
  <1>2. t \in Txs /\ t.at = stage /\ t.req = tx[w].req /\ t.holds = tx[w].holds
        /\ t.rows = tx[w].rows /\ t.stale = tx[w].stale /\ t.found = tx[w].found
    BY <1>1 DEF Txs
  <1>3. tx' = [tx EXCEPT ![w] = t]
    BY DEF Goto
  <1>. HIDE DEF t
  <1>4. Sound(w, t)
    BY <1>1, <1>2 DEF Sound, Op
  <1>. QED  BY <1>2, <1>3, <1>4, Quiet

LEMMA LoadsInv ==
  ASSUME Inv, NEW w \in Workers, NEW r \in Requests, NEW retry \in BOOLEAN,
         Loads(w, r, retry), Rows
  PROVE  Inv'
  <1>. DEFINE t == [Idle EXCEPT !.at = First(Body[r].op), !.req = r,
                      !.pointer = asset.pointer, !.retry = retry]
  <1>1. /\ Idle \in Txs /\ asset.pointer \in Nat /\ Body[r].op \in Ops
    BY IdleSound, IconAssumption DEF Inv, Types
  <1>2. /\ First(Body[r].op) \in Stages \ {"insert", "update", "lock_rows", "commit"}
        /\ Body[r].op \in Decisions => First(Body[r].op) = "find"
        /\ First(Body[r].op) = "rows" => Body[r].op = "deregister"
    BY <1>1 DEF First, Ops, IssuerOps, AdminOps, SystemOps, Decisions, Stages
  <1>3. /\ t \in Txs /\ t.at = First(Body[r].op) /\ t.req = r
        /\ t.holds = FALSE /\ t.rows = {} /\ t.stale = FALSE
    BY <1>1, <1>2 DEF Idle, Txs, Ids, NoIcon
  <1>4. tx' = [tx EXCEPT ![w] = t]
    BY DEF Loads
  <1>. HIDE DEF t
  <1>5. Sound(w, t)
    BY <1>2, <1>3 DEF Sound, RowsFree
  <1>. QED  BY <1>3, <1>4, <1>5, Quiet

-----------------------------------------------------------------------------
(* The steps of a handler before its commit.                               *)

LEMMA ReadInv ==
  ASSUME Inv, NEW w \in Workers, NEW r \in Requests,
         ReadAsset(w, r) \/ ReadDecided(w, r)
  PROVE  Inv'
  BY LoadsInv DEF ReadAsset, ReadDecided

LEMMA RequireSlotInv ==
  ASSUME Inv, NEW w \in Workers, RequireSlot(w)
  PROVE  Inv'
  <1>1. Op(w) = "propose" /\ "asset" \in Stages /\ Op(w) \notin Decisions
    BY DEF RequireSlot, Is, Stages, Decisions
  <1>. QED  BY <1>1, EndInv, GotoInv DEF RequireSlot

LEMMA InsertProposalInv ==
  ASSUME Inv, NEW w \in Workers, InsertProposal(w)
  PROVE  Inv'
  <1>1. /\ tx[w].at = "insert" /\ Op(w) = "propose" /\ "commit" \in Stages
        /\ Op(w) \notin Decisions /\ Rows
        /\ End(w) \/ (Pending = {} /\ ~Used(tx[w].req) /\ Goto(w, "commit"))
    BY DEF InsertProposal, Is, Stages, Decisions, PendingTaken
  <1>2. tx[w].holds
    BY <1>1 DEF Inv, Sound
  <1>. QED  BY <1>1, <1>2, EndInv, GotoInv

LEMMA NewestExists ==
  ASSUME Types, NEW ids \in SUBSET DOMAIN proposals, ids # {}
  PROVE  Newest(ids) \in ids
  <1>. DEFINE n == Len(proposals)
              Rest == {n - i : i \in ids}
  <1>1. n \in Nat /\ \A i \in ids : i \in Nat /\ i <= n
    BY DEF Types
  <1>2. Rest \in SUBSET Nat /\ Rest # {}
    <2>. HIDE DEF n
    <2>. QED  BY <1>1
  <1>3. PICK m \in Rest : \A k \in Rest : ~(<<k, m>> \in OpToRel(<, Nat))
    <2>. HIDE DEF Rest
    <2>. QED  BY <1>2, NatLessThanWellFounded, WFMin
  <1>4. PICK i \in ids : m = n - i
    BY <1>3
  <1>5. ASSUME NEW j \in ids
        PROVE  i >= j
    <2>1. n - j \in Rest
      OBVIOUS
    <2>2. ~(n - j < m) /\ m \in Nat /\ n - j \in Nat
      <3>. HIDE DEF Rest
      <3>. QED  BY <1>2, <1>3, <2>1 DEF OpToRel
    <2>. HIDE DEF n, Rest
    <2>. QED  BY <1>1, <1>4, <2>2
  <1>. QED  BY <1>5 DEF Newest

LEMMA FindPendingInv ==
  ASSUME Inv, NEW w \in Workers, FindPending(w)
  PROVE  Inv'
  <1>. DEFINE found == Pending \cap Having(Hash(w))
              t == [tx[w] EXCEPT !.at = "lock", !.found = Newest(found)]
  <1>1. CASE found = {}
    BY <1>1, EndInv DEF FindPending
  <1>2. CASE found # {}
    <2>1. /\ tx' = [tx EXCEPT ![w].at = "lock", ![w].found = Newest(found)]
          /\ Rows /\ tx[w].at = "find"
      BY <1>2 DEF FindPending, Is
    <2>2. /\ tx[w] \in Txs /\ Sound(w, tx[w]) /\ tx \in [Workers -> Txs]
      BY DEF Inv, Types
    <2>3. Newest(found) \in DOMAIN proposals /\ proposals \in Seq(Proposal)
      <3>1. found \in SUBSET DOMAIN proposals /\ Types
        BY DEF Pending, Live, Inv
      <3>. QED  BY <1>2, <3>1, NewestExists DEF Types
    <2>4. /\ t \in Txs /\ t.at = "lock" /\ t.req = tx[w].req
          /\ t.holds = tx[w].holds /\ t.rows = tx[w].rows /\ t.found # NoIcon
      <3>1. Newest(found) \in Ids /\ Newest(found) # NoIcon
        BY <2>3 DEF Ids, NoIcon
      <3>. HIDE DEF found
      <3>. QED  BY <2>2, <3>1 DEF Txs, Stages
    <2>5. tx' = [tx EXCEPT ![w] = t]
      BY <2>1, <2>2
    <2>. HIDE DEF t
    <2>6. Sound(w, t)
      BY <2>2, <2>4 DEF Sound
    <2>. QED  BY <2>1, <2>4, <2>5, <2>6, Quiet
  <1>. QED  BY <1>1, <1>2

\* The row is locked and found pending in one step: the decision is sound.
LEMMA LockPendingInv ==
  ASSUME Inv, NEW w \in Workers, LockPending(w)
  PROVE  Inv'
  <1>. DEFINE t == [tx[w] EXCEPT !.at = "asset", !.rows = {tx[w].found}]
  <1>1. CASE ~(StillPending(tx[w].found) /\ ~tx[w].retry)
    BY <1>1, EndInv DEF LockPending
  <1>2. CASE StillPending(tx[w].found) /\ ~tx[w].retry
    <2>1. /\ tx' = [tx EXCEPT ![w].at = "asset", ![w].rows = {tx[w].found}]
          /\ Rows /\ RowsFree(w, {tx[w].found}) /\ tx[w].found \in Pending
      BY <1>2 DEF LockPending, StillPending
    <2>2. /\ tx[w] \in Txs /\ Sound(w, tx[w]) /\ tx \in [Workers -> Txs]
      BY DEF Inv, Types
    <2>3. tx[w].found \in Ids
      BY <2>1 DEF Pending, Live, Inv, Types, Ids, NoIcon
    <2>4. /\ t \in Txs /\ t.at = "asset" /\ t.req = tx[w].req /\ t.found = tx[w].found
          /\ t.holds = tx[w].holds /\ t.rows = {tx[w].found} /\ t.stale = tx[w].stale
      BY <2>2, <2>3 DEF Txs, Stages
    <2>5. tx' = [tx EXCEPT ![w] = t]
      BY <2>1, <2>2
    <2>. HIDE DEF t
    <2>6. Sound(w, t)
      BY <2>1, <2>2, <2>4 DEF Sound
    <2>. QED  BY <2>1, <2>4, <2>5, <2>6, Quiet
  <1>. QED  BY <1>1, <1>2

LEMMA PreferredIn ==
  ASSUME Types, NEW ids \in SUBSET DOMAIN proposals, ids # {}
  PROVE  Preferred(ids) \in ids
  <1>1. ids \cap Pending \in SUBSET DOMAIN proposals
    OBVIOUS
  <1>. QED  BY <1>1, NewestExists DEF Preferred

LEMMA FindReusableInv ==
  ASSUME Inv, NEW w \in Workers, FindReusable(w)
  PROVE  Inv'
  <1>. DEFINE ids == Reusable(Hash(w))
              f == IF ids = {} THEN NoIcon ELSE Preferred(ids)
              st == ids # {} /\ Preferred(ids) \in Pending
              t == [tx[w] EXCEPT !.at = "asset", !.found = f, !.stale = st]
  <1>1. CASE End(w)
    BY <1>1, EndInv DEF FindReusable
  <1>2. CASE ~End(w)
    <2>1. /\ tx' = [tx EXCEPT ![w].at = "asset", ![w].found = f, ![w].stale = st]
          /\ Rows /\ Op(w) = "set"
      BY <1>2 DEF FindReusable, Is
    <2>2. /\ tx[w] \in Txs /\ Sound(w, tx[w]) /\ tx \in [Workers -> Txs]
      BY DEF Inv, Types
    <2>3. /\ f \in Ids \cup {NoIcon}
          /\ st \in BOOLEAN
          /\ st => f # NoIcon
      <3>1. ids \in SUBSET DOMAIN proposals /\ Types
        BY DEF Reusable, Live, Inv
      <3>2. ids # {} => Preferred(ids) \in DOMAIN proposals
        BY <3>1, PreferredIn
      <3>3. DOMAIN proposals \subseteq Ids /\ NoIcon \notin Ids
        BY <3>1 DEF Types, Ids, NoIcon
      <3>. HIDE DEF ids
      <3>4. st \in BOOLEAN
        OBVIOUS
      <3>5. f \in Ids \cup {NoIcon}
        BY <3>2, <3>3
      <3>6. st => f # NoIcon
        BY <3>2, <3>3
      <3>. QED  BY <3>4, <3>5, <3>6
    <2>. HIDE DEF f, st
    <2>4. /\ t \in Txs /\ t.at = "asset" /\ t.req = tx[w].req
          /\ t.holds = tx[w].holds /\ t.rows = tx[w].rows /\ t.found = f /\ t.stale = st
      BY <2>2, <2>3 DEF Txs, Stages
    <2>5. tx' = [tx EXCEPT ![w] = t]
      BY <2>1, <2>2
    <2>. HIDE DEF t
    <2>6. Sound(w, t)
      BY <2>1, <2>2, <2>3, <2>4 DEF Sound, Op, Decisions
    <2>. QED  BY <2>1, <2>4, <2>5, <2>6, Quiet
  <1>. QED  BY <1>1, <1>2

LEMMA ReadCurrentInv ==
  ASSUME Inv, NEW w \in Workers, ReadCurrent(w)
  PROVE  Inv'
  <1>1. Op(w) = "import" /\ "asset" \in Stages /\ Op(w) \notin Decisions
    BY DEF ReadCurrent, Is, Stages, Decisions
  <1>. QED  BY <1>1, EndInv, GotoInv DEF ReadCurrent

LEMMA SnapshotRowsInv ==
  ASSUME Inv, NEW w \in Workers, SnapshotRows(w)
  PROVE  Inv'
  <1>. DEFINE t == [tx[w] EXCEPT !.at = "lock_rows", !.snapshot = Live]
  <1>1. /\ tx' = [tx EXCEPT ![w].at = "lock_rows", ![w].snapshot = Live] /\ Rows
        /\ tx[w].at = "rows" /\ Op(w) \in {"deregister", "legacy_deregister"}
        /\ tx[w] \in Txs /\ Sound(w, tx[w]) /\ tx \in [Workers -> Txs]
    BY DEF SnapshotRows, Is, Inv, Types
  <1>2. Live \in SUBSET Ids
    BY DEF Live, Ids, NoIcon, Inv, Types
  <1>3. /\ t \in Txs /\ t.at = "lock_rows" /\ t.req = tx[w].req
        /\ t.holds = tx[w].holds /\ t.rows = tx[w].rows
        /\ t.found = tx[w].found /\ t.stale = tx[w].stale
    BY <1>1, <1>2 DEF Txs, Stages
  <1>4. tx' = [tx EXCEPT ![w] = t]
    BY <1>1
  <1>. HIDE DEF t
  <1>5. Sound(w, t)
    BY <1>1, <1>3 DEF Sound, Op, Decisions
  <1>. QED  BY <1>1, <1>3, <1>4, <1>5, Quiet

\* The legacy deletion comes here with the asset locked.
LEMMA ObsoleteRowsInv ==
  ASSUME Inv, NEW w \in Workers, ObsoleteRows(w)
  PROVE  Inv'
  <1>. DEFINE stage == IF Op(w) = "deregister" THEN "asset" ELSE "commit"
              ended == tx[w].snapshot \cap Live
              t == [tx[w] EXCEPT !.at = stage, !.rows = ended]
  <1>1. /\ tx' = [tx EXCEPT ![w].at = stage, ![w].rows = ended] /\ Rows
        /\ tx[w] \in Txs /\ Sound(w, tx[w]) /\ tx \in [Workers -> Txs]
        /\ Op(w) \in {"deregister", "legacy_deregister"}
        /\ RowsFree(w, tx[w].snapshot) /\ tx[w].at = "lock_rows"
    BY DEF ObsoleteRows, Is, Inv, Types
  <1>2. /\ ended \in SUBSET Ids /\ RowsFree(w, ended)
        /\ \/ stage = "asset" /\ Op(w) = "deregister"
           \/ stage = "commit" /\ Op(w) = "legacy_deregister" /\ tx[w].holds
    <2>1. tx[w].snapshot \in SUBSET Ids
      BY <1>1 DEF Txs
    <2>2. Op(w) = "legacy_deregister" => tx[w].holds
      BY <1>1 DEF Sound, Op
    <2>3. \/ stage = "asset" /\ Op(w) = "deregister"
          \/ stage = "commit" /\ Op(w) = "legacy_deregister" /\ tx[w].holds
      BY <1>1, <2>2
    <2>4. ended \subseteq tx[w].snapshot
      OBVIOUS
    <2>. HIDE DEF ended, stage
    <2>5. RowsFree(w, ended)
      BY <1>1, <2>4 DEF RowsFree
    <2>. QED  BY <2>1, <2>3, <2>4, <2>5
  <1>. HIDE DEF stage, ended
  <1>3. /\ t \in Txs /\ t.at = stage /\ t.req = tx[w].req
        /\ t.holds = tx[w].holds /\ t.rows = ended
        /\ t.found = tx[w].found /\ t.stale = tx[w].stale
    BY <1>1, <1>2 DEF Txs, Stages
  <1>4. tx' = [tx EXCEPT ![w] = t]
    BY <1>1
  <1>. HIDE DEF t
  <1>5. Sound(w, t)
    <2>1. Op(w) \notin Decisions /\ Op(w) # "propose"
      BY <1>1 DEF Decisions
    <2>. QED  BY <1>1, <1>2, <1>3, <2>1 DEF Sound, Op
  <1>. QED  BY <1>1, <1>3, <1>4, <1>5, Quiet

LEMMA UpdateReusedInv ==
  ASSUME Inv, NEW w \in Workers, UpdateReused(w)
  PROVE  Inv'
  <1>. DEFINE t == [tx[w] EXCEPT !.at = "commit", !.rows = {tx[w].found}]
  <1>1. /\ tx[w] \in Txs /\ Sound(w, tx[w]) /\ tx \in [Workers -> Txs]
        /\ tx[w].at = "update" /\ Op(w) = "set" /\ RowsFree(w, {tx[w].found})
        /\ Rows
    BY DEF UpdateReused, Is, Inv, Types
  <1>2. tx[w].holds /\ tx[w].found # NoIcon
    BY <1>1 DEF Sound
  <1>3. tx[w].found \in Ids
    BY <1>1, <1>2 DEF Txs
  <1>4. /\ t \in Txs /\ t.at = "commit" /\ t.req = tx[w].req
        /\ t.holds = tx[w].holds /\ t.rows = {tx[w].found}
        /\ t.found = tx[w].found /\ t.stale = tx[w].stale
    BY <1>1, <1>3 DEF Txs, Stages
  <1>5. tx' = [tx EXCEPT ![w] = t]
    BY <1>1 DEF UpdateReused
  <1>. HIDE DEF t
  <1>6. Sound(w, t)
    BY <1>1, <1>2, <1>4 DEF Sound, Op, Decisions
  <1>. QED  BY <1>1, <1>4, <1>5, <1>6, Quiet

LEMMA UpdateAssetInv ==
  ASSUME Inv, NEW w \in Workers, UpdateAsset(w)
  PROVE  Inv'
  <1>. DEFINE stage == CASE Op(w) = "propose" -> "insert"
                         [] Op(w) = "set" /\ tx[w].stale -> "update"
                         [] Op(w) = "legacy_deregister" -> "rows"
                         [] OTHER -> "commit"
              t == [tx[w] EXCEPT !.holds = TRUE, !.at = stage]
  <1>1. /\ tx[w] \in Txs /\ Sound(w, tx[w]) /\ tx \in [Workers -> Txs]
        /\ tx[w].at = "asset" /\ AssetFree(w) /\ Rows
        /\ End(w) \/ tx' = [tx EXCEPT ![w].holds = TRUE, ![w].at = stage]
    BY DEF UpdateAsset, Inv, Types
  <1>2. CASE End(w)
    BY <1>1, <1>2, EndInv
  <1>3. CASE tx' = [tx EXCEPT ![w].holds = TRUE, ![w].at = stage]
    <2>1. /\ stage \in {"insert", "update", "rows", "commit"}
          /\ stage = "update" => tx[w].stale
          /\ stage = "commit" => Op(w) # "propose"
          /\ Op(w) \in Decisions => stage = "commit"
      BY DEF Decisions
    <2>2. tx' = [tx EXCEPT ![w] = t]
      BY <1>1, <1>3
    <2>. HIDE DEF stage
    <2>3. /\ t \in Txs /\ t.at = stage /\ t.req = tx[w].req
          /\ t.holds = TRUE /\ t.rows = tx[w].rows
          /\ t.found = tx[w].found /\ t.stale = tx[w].stale
      BY <1>1, <2>1 DEF Txs, Stages
    <2>. HIDE DEF t
    <2>4. Sound(w, t)
      BY <1>1, <2>1, <2>3 DEF Sound, Op
    <2>. QED  BY <1>1, <2>2, <2>3, <2>4, Quiet
  <1>. QED  BY <1>1, <1>2, <1>3

-----------------------------------------------------------------------------
(* The commit.                                                             *)

\* Nothing that a transaction writes brings bytes back or makes a row pending,
\* and only a rejection takes bytes.
LEMMA UpdatedFacts ==
  ASSUME NEW w, NEW row \in Proposal
  PROVE  /\ Updated(w, row) \in Proposal
         /\ Updated(w, row).hash = row.hash
         /\ Updated(w, row).bytes => row.bytes
         /\ Updated(w, row).status = "pending" => row.status = "pending"
         /\ row.obsolete => Updated(w, row).obsolete
         /\ Op(w) # "reject" /\ row.bytes => Updated(w, row).bytes
         /\ Op(w) # "reject" /\ row.status = "approved" => Updated(w, row).status = "approved"
         /\ Op(w) = "reject" => ~Updated(w, row).bytes
         /\ Op(w) \in Decisions => Updated(w, row).status # "pending"
  <1>1. CASE Op(w) \in {"approve", "set"}
    BY <1>1 DEF Updated, Proposal, Decisions
  <1>2. CASE Op(w) = "reject"
    BY <1>2 DEF Updated, Proposal, Decisions
  <1>3. CASE Op(w) \notin {"approve", "set", "reject"}
    BY <1>3 DEF Updated, Proposal, Decisions
  <1>. QED  BY <1>1, <1>2, <1>3

LEMMA CommitRows ==
  ASSUME Inv, NEW w \in Workers, Commit(w)
  PROVE  /\ proposals' \in Seq(Proposal)
         /\ Len(proposals') = IF Inserts(w) THEN Len(proposals) + 1 ELSE Len(proposals)
         /\ \A i \in DOMAIN proposals :
              /\ i \in DOMAIN proposals'
              /\ proposals'[i] = IF i \in tx[w].rows THEN Updated(w, proposals[i])
                                                     ELSE proposals[i]
         /\ \A i \in DOMAIN proposals' \ DOMAIN proposals :
              Inserts(w) /\ proposals'[i] = NewRow(w)
  <1>. DEFINE kept == [i \in DOMAIN proposals |->
                         IF i \in tx[w].rows THEN Updated(w, proposals[i])
                                             ELSE proposals[i]]
  <1>1. proposals \in Seq(Proposal) /\ tx[w] \in Txs
    BY DEF Inv, Types
  <1>2. NewRow(w) \in Proposal
    BY <1>1, IconAssumption DEF NewRow, Proposal, Hash, Txs
  <1>3. /\ kept \in Seq(Proposal) /\ Len(kept) = Len(proposals)
        /\ DOMAIN kept = DOMAIN proposals
    <2>1. ASSUME NEW i \in DOMAIN proposals
          PROVE  kept[i] \in Proposal
      <3>1. proposals[i] \in Proposal
        BY <1>1
      <3>2. Updated(w, proposals[i]) \in Proposal
        BY <3>1, UpdatedFacts
      <3>. QED  BY <3>1, <3>2
    <2>2. kept \in [1..Len(proposals) -> Proposal] /\ Len(proposals) \in Nat
      BY <1>1, <2>1
    <2>. QED  BY <1>1, <2>2
  <1>4. proposals' = IF Inserts(w) THEN Append(kept, NewRow(w)) ELSE kept
    BY DEF Commit, NewProposals
  <1>5. \A i \in DOMAIN proposals :
          kept[i] = IF i \in tx[w].rows THEN Updated(w, proposals[i]) ELSE proposals[i]
    OBVIOUS
  <1>. HIDE DEF kept
  <1>. QED  BY <1>1, <1>2, <1>3, <1>4, <1>5

\* What commits leaves the transaction of another handler as it was: its
\* proposal is locked, and it does not hold the asset.
LEMMA OthersSound ==
  ASSUME Inv, NEW w \in Workers, Commit(w), NEW v \in Workers
  PROVE  Sound(v, tx[v])'
  <1>1. /\ tx \in [Workers -> Txs] /\ tx' = [tx EXCEPT ![w] = Idle]
        /\ Sound(w, tx[w]) /\ tx[w].at = "commit" /\ Sound(v, tx[v])
    BY DEF Inv, Types, Commit, End
  <1>2. CASE v = w
    BY <1>1, <1>2 DEF Sound, Idle, RowsFree
  <1>3. CASE v # w
    <2>1. tx'[v] = tx[v] /\ tx[w].holds /\ ~tx[v].holds
      BY <1>1, <1>3 DEF Sound, AssetFree
    <2>2. RowsFree(v, tx[v].rows)'
      BY <1>1, <1>3, <2>1 DEF Sound, RowsFree, Idle
    <2>3. ASSUME tx[v].at \in {"asset", "commit"}, Body[tx[v].req].op \in Decisions
          PROVE  tx[v].found \in Pending' /\ tx[v].rows = {tx[v].found}
      <3>1. tx[v].found \in Pending /\ tx[v].rows = {tx[v].found}
        BY <1>1, <2>3 DEF Sound
      <3>2. tx[v].found \notin tx[w].rows
        BY <1>1, <1>3, <3>1 DEF Sound, RowsFree
      <3>3. tx[v].found \in DOMAIN proposals
        BY <3>1 DEF Pending, Live
      <3>4. tx[v].found \in DOMAIN proposals' /\ proposals'[tx[v].found] = proposals[tx[v].found]
        BY <3>2, <3>3, CommitRows
      <3>. QED  BY <3>1, <3>4 DEF Pending, Live
    <2>. QED  BY <1>1, <2>1, <2>2, <2>3 DEF Sound
  <1>. QED  BY <1>2, <1>3

LEMMA CommitLog ==
  ASSUME Inv, NEW w \in Workers, Commit(w)
  PROVE  /\ log' \in Seq([req : Requests, proposal : Nat])
         /\ DOMAIN log' = DOMAIN log \cup {Len(log) + 1} /\ Len(log) + 1 \notin DOMAIN log
         /\ \A i \in DOMAIN log : log'[i] = log[i]
         /\ log'[Len(log) + 1].req = tx[w].req
         /\ log'[Len(log) + 1].proposal = Target(w)
  <1>. DEFINE entry == [req |-> tx[w].req, proposal |-> Target(w)]
  <1>1. log \in Seq([req : Requests, proposal : Nat]) /\ Len(log) \in Nat
    BY DEF Inv, Types
  <1>2. entry \in [req : Requests, proposal : Nat]
    <2>1. tx[w] \in Txs /\ Len(proposals) \in Nat
      BY DEF Inv, Types
    <2>. QED  BY <2>1 DEF Txs, Target, Ids, NoIcon
  <1>3. log' = Append(log, entry)
    BY DEF Commit
  <1>4. entry.req = tx[w].req /\ entry.proposal = Target(w)
    OBVIOUS
  <1>. HIDE DEF entry
  <1>. QED  BY <1>1, <1>2, <1>3, <1>4

LEMMA CommitInv ==
  ASSUME Inv, NEW w \in Workers, Commit(w)
  PROVE  Inv'
  <1>. DEFINE new == Len(log) + 1
  <1>1. /\ tx[w].at = "commit" /\ Sound(w, tx[w]) /\ tx[w] \in Txs /\ Types
        /\ Body[tx[w].req].op = Op(w) /\ Op(w) \in Ops
    BY IconAssumption DEF Inv, Types, Commit, Txs, Op
  <1>2. Types'
    <2>1. asset' \in [active : BOOLEAN, pointer : Nat, delisted : BOOLEAN]
      <3>1. Target(w) \in Nat /\ asset' = NewAsset(w) /\ NoIcon \in Nat
        BY <1>1 DEF Commit, Target, Types, Txs, Ids, NoIcon
      <3>2. asset \in [active : BOOLEAN, pointer : Nat, delisted : BOOLEAN]
        BY <1>1 DEF Types
      <3>3. NewAsset(w) \in [active : BOOLEAN, pointer : Nat, delisted : BOOLEAN]
        <4>1. CASE Op(w) \in {"approve", "set", "import"}
          BY <3>1, <3>2, <4>1 DEF NewAsset
        <4>2. CASE Op(w) \in {"deregister", "legacy_deregister"}
          BY <3>1, <3>2, <4>2 DEF NewAsset
        <4>3. CASE Op(w) \in {"delist", "relist"}
          BY <3>1, <3>2, <4>3 DEF NewAsset
        <4>4. CASE Op(w) \in {"propose", "reject"}
          BY <3>1, <3>2, <4>4 DEF NewAsset
        <4>. QED  BY <1>1, <4>1, <4>2, <4>3, <4>4
             DEF Ops, IssuerOps, AdminOps, SystemOps, Decisions
      <3>. QED  BY <3>1, <3>3
    <2>2. tx' \in [Workers -> Txs]
      BY <1>1, IdleSound DEF Types, Commit, End
    <2>. QED  BY <2>1, <2>2, CommitRows, CommitLog DEF Types
  <1>3. \A v \in Workers : Sound(v, tx[v])'
    BY OthersSound
  <1>4. Op(w) \in Decisions =>
          /\ Target(w) = tx[w].found /\ tx[w].found \in Pending
          /\ tx[w].found \in tx[w].rows /\ tx[w].found \in DOMAIN proposals
    BY <1>1 DEF Sound, Target, Inserts, Pending, Live, Decisions
  <1>5. Settled'
    <2>1. ASSUME NEW i \in DOMAIN log', Decides(i)'
          PROVE  LET p == log'[i].proposal IN
                   /\ p \in DOMAIN proposals' /\ proposals'[p].status # "pending"
                   /\ Body[log'[i].req].op = "reject" => ~proposals'[p].bytes
      <3>1. CASE i \in DOMAIN log
        <4>. DEFINE p == log[i].proposal
        <4>1. log'[i] = log[i] /\ Decides(i)
          BY <2>1, <3>1, CommitLog DEF Decides
        <4>2. /\ p \in DOMAIN proposals /\ proposals[p].status # "pending"
              /\ Body[log[i].req].op = "reject" => ~proposals[p].bytes
          BY <3>1, <4>1 DEF Inv, Settled
        <4>3. proposals[p] \in Proposal
          BY <1>1, <4>2 DEF Types
        <4>. HIDE DEF p
        <4>4. /\ p \in DOMAIN proposals' /\ proposals'[p].status # "pending"
              /\ proposals'[p].bytes => proposals[p].bytes
          <5>1. /\ Updated(w, proposals[p]).bytes => proposals[p].bytes
                /\ Updated(w, proposals[p]).status = "pending"
                   => proposals[p].status = "pending"
            BY <4>3, UpdatedFacts
          <5>2. p \in DOMAIN proposals' /\ (\/ proposals'[p] = Updated(w, proposals[p])
                                           \/ proposals'[p] = proposals[p])
            BY <4>2, CommitRows
          <5>. QED  BY <4>2, <5>1, <5>2, Zenon
        <4>5. /\ p \in DOMAIN proposals' /\ proposals'[p].status # "pending"
              /\ Body[log'[i].req].op = "reject" => ~proposals'[p].bytes
          BY <4>1, <4>2, <4>4
        <4>. QED  BY <4>1, <4>5 DEF p
      <3>2. CASE i = new
        <4>1. log'[i].req = tx[w].req /\ log'[i].proposal = Target(w)
          BY <3>2, CommitLog
        <4>2. Op(w) \in Decisions
          BY <1>1, <2>1, <4>1 DEF Decides
        <4>. DEFINE p == tx[w].found
        <4>3. p \in DOMAIN proposals /\ proposals[p] \in Proposal
          BY <1>1, <1>4, <4>2 DEF Types
        <4>4. p \in DOMAIN proposals' /\ proposals'[p] = Updated(w, proposals[p])
          BY <1>4, <4>2, <4>3, CommitRows
        <4>5. /\ p \in DOMAIN proposals' /\ proposals'[p].status # "pending"
              /\ Op(w) = "reject" => ~proposals'[p].bytes
          <5>1. /\ Updated(w, proposals[p]).status # "pending"
                /\ Op(w) = "reject" => ~Updated(w, proposals[p]).bytes
            BY <4>2, <4>3, UpdatedFacts
          <5>. QED  BY <4>4, <5>1, Zenon
        <4>. QED  BY <1>1, <1>4, <4>1, <4>2, <4>5
      <3>. QED  BY <2>1, <3>1, <3>2, CommitLog
    <2>. QED  BY <2>1 DEF Settled
  <1>6. DecidedOnce'
    <2>1. ASSUME NEW i \in DOMAIN log, Decides(i), Op(w) \in Decisions
          PROVE  log[i].proposal # Target(w)
      <3>1. proposals[log[i].proposal].status # "pending"
        BY <2>1 DEF Inv, Settled
      <3>2. proposals[Target(w)].status = "pending"
        BY <1>4, <2>1 DEF Pending
      <3>. QED  BY <3>1, <3>2
    <2>2. \A i \in DOMAIN log : Decides(i)' <=> Decides(i)
      BY CommitLog DEF Decides
    <2>3. ASSUME NEW i \in DOMAIN log', NEW j \in DOMAIN log', Decides(i)', Decides(j)',
                 log'[i].proposal = log'[j].proposal
          PROVE  i = j
      <3>1. CASE i \in DOMAIN log /\ j \in DOMAIN log
        BY <2>2, <2>3, <3>1, CommitLog DEF Inv, DecidedOnce
      <3>2. CASE i = new /\ j \in DOMAIN log
        <4>1. Op(w) \in Decisions /\ Decides(j) /\ log[j].proposal = Target(w)
          BY <1>1, <2>2, <2>3, <3>2, CommitLog DEF Decides
        <4>. QED  BY <2>1, <3>2, <4>1
      <3>3. CASE j = new /\ i \in DOMAIN log
        <4>1. Op(w) \in Decisions /\ Decides(i) /\ log[i].proposal = Target(w)
          BY <1>1, <2>2, <2>3, <3>3, CommitLog DEF Decides
        <4>. QED  BY <2>1, <3>3, <4>1
      <3>4. CASE i = new /\ j = new
        BY <3>4
      <3>. QED  BY <2>3, <3>1, <3>2, <3>3, <3>4, CommitLog
    <2>. QED  BY <2>3 DEF DecidedOnce
  <1>7. OnePending'
    <2>1. ASSUME NEW i \in Pending', i \in DOMAIN proposals
          PROVE  i \in Pending
      <3>1. proposals[i] \in Proposal /\ proposals'[i].status = "pending"
            /\ ~proposals'[i].obsolete /\ i \in DOMAIN proposals'
        BY <1>1, <2>1 DEF Types, Pending, Live
      <3>2. CASE i \in tx[w].rows
        <4>1. proposals'[i] = Updated(w, proposals[i])
          BY <2>1, <3>2, CommitRows
        <4>2. /\ Updated(w, proposals[i]).status = "pending"
                 => proposals[i].status = "pending"
              /\ proposals[i].obsolete => Updated(w, proposals[i]).obsolete
          BY <3>1, UpdatedFacts
        <4>3. proposals[i].status = "pending" /\ ~proposals[i].obsolete
          BY <3>1, <4>1, <4>2, Zenon
        <4>. QED  BY <2>1, <4>3 DEF Pending, Live
      <3>3. CASE i \notin tx[w].rows
        BY <2>1, <3>1, <3>3, CommitRows DEF Pending, Live
      <3>. QED  BY <3>2, <3>3
    <2>2. ASSUME NEW i \in Pending', i \notin DOMAIN proposals
          PROVE  i = Len(proposals) + 1 /\ Pending = {}
      <3>1. i \in DOMAIN proposals' /\ proposals'[i].status = "pending"
        BY <2>2 DEF Pending, Live
      <3>2. Inserts(w) /\ proposals'[i] = NewRow(w)
        BY <2>2, <3>1, CommitRows
      <3>3. Op(w) = "propose"
        BY <3>1, <3>2 DEF NewRow
      <3>4. Pending = {}
        BY <1>1, <3>3 DEF Sound
      <3>5. /\ Len(proposals') = Len(proposals) + 1 /\ Len(proposals) \in Nat
            /\ DOMAIN proposals = 1..Len(proposals) /\ DOMAIN proposals' = 1..Len(proposals')
        BY <1>1, <3>2, CommitRows DEF Types
      <3>. QED  BY <2>2, <3>1, <3>4, <3>5
    <2>3. \A i, j \in Pending' : i = j
      <3>1. \A i, j \in Pending : i = j
        BY DEF Inv, OnePending
      <3>. QED  BY <2>1, <2>2, <3>1
    <2>4. ASSUME NEW i \in DOMAIN log', NEW j \in DOMAIN log',
                 Body[log'[i].req].op = "propose", log'[i].req = log'[j].req
          PROVE  i = j
      <3>1. CASE i \in DOMAIN log /\ j \in DOMAIN log
        BY <2>4, <3>1, CommitLog DEF Inv, OnePending
      <3>2. ASSUME NEW k \in DOMAIN log, log[k].req = tx[w].req, Op(w) = "propose"
            PROVE  FALSE
        BY <1>1, <3>2 DEF Sound, Used
      <3>3. CASE i = new \/ j = new
        <4>1. log'[i].req = tx[w].req /\ Op(w) = "propose" /\ log'[j].req = tx[w].req
          BY <1>1, <2>4, <3>3, CommitLog
        <4>. QED  BY <2>4, <3>2, <4>1, CommitLog
      <3>. QED  BY <2>4, <3>1, <3>3, CommitLog
    <2>. QED  BY <2>3, <2>4 DEF OnePending
  <1>8. ListedIconCurrent'
    <2>1. CASE Op(w) \in {"deregister", "legacy_deregister"}
      <3>1. asset'.active = FALSE
        BY <1>1, <2>1 DEF Commit, NewAsset, Types
      <3>. QED  BY <3>1 DEF ListedIconCurrent
    <2>2. CASE Op(w) \notin {"deregister", "legacy_deregister"}
      <3>1. fragment' = [icon |-> Current', delisted |-> asset'.delisted]
        BY <2>2 DEF Commit, Render
      <3>. QED  BY <3>1 DEF ListedIconCurrent, Published
    <2>. QED  BY <2>1, <2>2
  <1>. QED  BY <1>2, <1>3, <1>5, <1>6, <1>7, <1>8 DEF Inv

-----------------------------------------------------------------------------

LEMMA InitInv == Init => Inv
  <1>. SUFFICES ASSUME Init PROVE Inv
    OBVIOUS
  <1>1. /\ asset = [active |-> TRUE, pointer |-> NoIcon, delisted |-> FALSE]
        /\ proposals = <<>> /\ log = <<>>
        /\ fragment = [icon |-> NoHash, delisted |-> FALSE]
        /\ tx = [w \in Workers |-> Idle]
    BY DEF Init
  <1>2. Types
    <2>1. \A w \in Workers : Idle \in Txs
      BY IdleSound
    <2>. QED  BY <1>1, <2>1 DEF Types, NoIcon
  <1>3. \A w \in Workers : Sound(w, tx[w])
    BY <1>1, IdleSound
  <1>4. DOMAIN proposals = {} /\ DOMAIN log = {} /\ Pending = {}
    BY <1>1 DEF Pending, Live
  <1>5. Settled /\ OnePending /\ DecidedOnce
    BY <1>4 DEF Settled, OnePending, DecidedOnce
  <1>6. ListedIconCurrent
    <2>1. Current = NoHash
      BY <1>1, <1>4 DEF Current, Live
    <2>. QED  BY <1>1, <2>1 DEF ListedIconCurrent, Published
  <1>. QED  BY <1>2, <1>3, <1>5, <1>6 DEF Inv

LEMMA StepInv == Inv /\ [Next]_vars => Inv'
  <1>. SUFFICES ASSUME Inv, [Next]_vars PROVE Inv'
    OBVIOUS
  <1>1. ASSUME NEW w \in Workers, NEW r \in Requests,
               ReadAsset(w, r) \/ ReadDecided(w, r)
        PROVE  Inv'
    BY <1>1, ReadInv
  <1>2. ASSUME NEW w \in Workers, Step(w)
        PROVE  Inv'
    BY <1>2, RequireSlotInv, InsertProposalInv, FindPendingInv, LockPendingInv,
       FindReusableInv, UpdateReusedInv, ReadCurrentInv, SnapshotRowsInv,
       ObsoleteRowsInv, UpdateAssetInv, CommitInv DEF Step
  <1>3. ASSUME NEW w \in Workers, LockTimeout(w) \/ Abandon(w)
        PROVE  Inv'
    BY <1>3, EndInv DEF LockTimeout, Abandon
  <1>4. CASE UNCHANGED vars
    <2>1. UNCHANGED <<asset, proposals, log, fragment, tx>>
      BY <1>4 DEF vars
    <2>2. Pending' = Pending /\ Live' = Live /\ \A r : Used(r)' <=> Used(r)
      BY <2>1 DEF Pending, Live, Used
    <2>3. \A w \in Workers : Sound(w, tx[w])'
      BY <2>1, <2>2 DEF Inv, Sound, AssetFree, RowsFree
    <2>4. Types' /\ Settled' /\ DecidedOnce'
      BY <2>1 DEF Inv, Types, Settled, DecidedOnce, Decides
    <2>5. OnePending' /\ ListedIconCurrent'
      BY <2>1, <2>2 DEF Inv, OnePending, ListedIconCurrent, Published, Current, Approved
    <2>. QED  BY <2>3, <2>4, <2>5 DEF Inv
  <1>. QED  BY <1>1, <1>2, <1>3, <1>4 DEF Next

LEMMA Invariance == Spec => []Inv
  <1>. QED  BY InitInv, StepInv, PTL DEF Spec

\* However proposals race for the slot, one awaits review and a signed proposal
\* is accepted once: the asset's lock is held from the index's check to the
\* commit.
THEOREM OneProposalPends == Spec => []OnePending
  <1>1. Inv => OnePending
    BY DEF Inv
  <1>. QED  BY Invariance, <1>1, PTL

\* A proposal is decided by one reviewer, for any number of them.
THEOREM OneReviewerDecides == Spec => []DecidedOnce
  <1>1. Inv => DecidedOnce
    BY DEF Inv
  <1>. QED  BY Invariance, <1>1, PTL

\* What a reviewer rejected is never served: no later write brings its bytes
\* back.
THEOREM RejectedStaysUnserved == Spec => []RejectedNotServed
  <1>1. Inv => RejectedNotServed
    <2>. SUFFICES ASSUME Inv, NEW i \in DOMAIN log, Body[log[i].req].op = "reject"
                  PROVE  log[i].proposal \notin Approved
      BY DEF RejectedNotServed
    <2>1. Decides(i)
      BY DEF Decides, Decisions
    <2>2. ~proposals[log[i].proposal].bytes
      BY <2>1 DEF Inv, Settled
    <2>. QED  BY <2>2 DEF Approved
  <1>. QED  BY Invariance, <1>1, PTL

\* The listing shows the published icon: the fragment is rendered from the rows
\* that commit with it, under the asset's lock.
THEOREM ListingIsCurrent == Spec => []ListedIconCurrent
  <1>1. Inv => ListedIconCurrent
    BY DEF Inv
  <1>. QED  BY Invariance, <1>1, PTL

\* Bytes once published are never cleared: a rejection holds a proposal that is
\* still pending.
THEOREM BytesStayPublished == Spec => PublishedStays
  <1>1. Inv /\ [Next]_vars => [ServedByHash \subseteq ServedByHash']_vars
    <2>. SUFFICES ASSUME Inv, Next PROVE ServedByHash \subseteq ServedByHash'
      BY DEF vars
    <2>1. CASE UNCHANGED proposals
      BY <2>1 DEF ServedByHash, Approved
    <2>2. ASSUME NEW w \in Workers, Commit(w)
          PROVE  ServedByHash \subseteq ServedByHash'
      <3>1. ASSUME NEW i \in Approved
            PROVE  i \in Approved' /\ proposals'[i].hash = proposals[i].hash
        <4>1. /\ i \in DOMAIN proposals /\ proposals[i] \in Proposal
              /\ proposals[i].status = "approved" /\ proposals[i].bytes
          BY <3>1 DEF Approved, Inv, Types
        <4>2. i \in DOMAIN proposals'
          BY <2>2, <4>1, CommitRows
        <4>3. CASE i \in tx[w].rows
          <5>1. Op(w) # "reject"
            <6>1. Op(w) = "reject" => tx[w].found \in Pending /\ tx[w].rows = {tx[w].found}
              BY <2>2 DEF Inv, Sound, Commit, Op, Decisions
            <6>. QED  BY <4>1, <4>3, <6>1 DEF Pending
          <5>2. proposals'[i] = Updated(w, proposals[i])
            BY <2>2, <4>1, <4>3, CommitRows
          <5>3. /\ Updated(w, proposals[i]).status = "approved"
                /\ Updated(w, proposals[i]).bytes
                /\ Updated(w, proposals[i]).hash = proposals[i].hash
            BY <4>1, <5>1, UpdatedFacts
          <5>4. proposals'[i].status = "approved" /\ proposals'[i].bytes
                /\ proposals'[i].hash = proposals[i].hash
            BY <5>2, <5>3, Zenon
          <5>. QED  BY <4>2, <5>4 DEF Approved
        <4>4. CASE i \notin tx[w].rows
          BY <2>2, <4>1, <4>2, <4>4, CommitRows DEF Approved
        <4>. QED  BY <4>3, <4>4
      <3>. QED  BY <3>1 DEF ServedByHash
    <2>3. ASSUME NEW w \in Workers, Step(w), ~Commit(w)
          PROVE  UNCHANGED proposals
      BY <2>3 DEF Step, RequireSlot, InsertProposal, FindPending, LockPending,
         FindReusable, UpdateReused, ReadCurrent, SnapshotRows, ObsoleteRows,
         UpdateAsset, Rows
    <2>. QED  BY <2>1, <2>2, <2>3
         DEF Next, ReadAsset, ReadDecided, LockTimeout, Abandon, Rows
  <1>. QED  BY Invariance, <1>1, PTL DEF Spec, PublishedStays
=============================================================================
