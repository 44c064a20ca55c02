------------------------------ MODULE IconReview ------------------------------
(***************************************************************************)
(* Icons and moderation of one asset registration: issuers propose icons,  *)
(* admins approve, reject or set them, annotate or delist the asset, the   *)
(* legacy icons are imported, and the registration may end meanwhile.      *)
(* Several handlers run at once, each statement against what has           *)
(* committed; row locks last to the end of a transaction.                  *)
(***************************************************************************)
EXTENDS Naturals, Sequences

CONSTANTS
  Workers,   \* handlers that run at the same time
  Requests,  \* signed requests; each may be delivered many times
  Body,      \* what each request says: its operation, nonce and icon hash
  Hashes,    \* SHA-256 hashes of icons; a hash stands for its bytes
  NoHash,    \* no icon
  MaxLog     \* bound on accepted actions when a request begins

IssuerOps == {"propose", "deregister", "legacy_deregister"}
Decisions == {"approve", "reject"}
AdminOps  == Decisions \cup {"set", "delist", "relist"}
SystemOps == {"import"}
Ops == IssuerOps \cup AdminOps \cup SystemOps

ASSUME IconAssumption ==
  /\ Body \in [Requests -> [op : Ops, nonce : Requests, hash : Hashes]]
  /\ Requests # {} /\ NoHash \notin Hashes
  /\ MaxLog \in Nat

VARIABLES
  asset,      \* its status, active_icon_proposal_uuid and delisted
  proposals,  \* rows of asset_icon_proposals, in the order they committed
  log,        \* accepted actions, in the order they committed
  fragment,   \* what the serialized fragment shows, or NoFragment
  tx          \* each handler's transaction

vars == <<asset, proposals, log, fragment, tx>>

NoIcon == 0
Proposal == [hash : Hashes, bytes : BOOLEAN, obsolete : BOOLEAN,
             status : {"pending", "rejected", "approved"}]
Fragments == [icon : Hashes \cup {NoHash}, delisted : BOOLEAN]
NoFragment == [icon |-> NoHash]

Ids == Nat \ {NoIcon}
Stages == {"idle", "slot", "find", "lock", "reuse", "current",
           "rows", "lock_rows", "asset", "insert", "update", "commit"}

\* found is the proposal a handler acts on and pointer the active icon it
\* loaded; stale says that it read the proposal as pending.
Txs == [at : Stages, req : Requests, pointer : Ids \cup {NoIcon}, retry : BOOLEAN,
        found : Ids \cup {NoIcon}, stale : BOOLEAN, snapshot : SUBSET Ids,
        rows : SUBSET Ids, holds : BOOLEAN]
Idle == [at |-> "idle", req |-> CHOOSE r \in Requests : TRUE, pointer |-> NoIcon,
         retry |-> FALSE, found |-> NoIcon, stale |-> FALSE, snapshot |-> {},
         rows |-> {}, holds |-> FALSE]

Op(w) == Body[tx[w].req].op
Hash(w) == Body[tx[w].req].hash
Is(w, stage, ops) == tx[w].at = stage /\ Op(w) \in ops
Goto(w, stage) == tx' = [tx EXCEPT ![w].at = stage]
End(w) == tx' = [tx EXCEPT ![w] = Idle]
Rows == UNCHANGED <<asset, proposals, log, fragment>>

\* The row of the asset, or of a proposal, is free for a handler to lock.
AssetFree(w) == \A v \in Workers \ {w} : ~tx[v].holds
RowsFree(w, ids) == \A v \in Workers \ {w} : tx[v].rows \cap ids = {}

-----------------------------------------------------------------------------
(* What the queries find among the committed rows.                         *)

Having(hash) == {i \in DOMAIN proposals : proposals[i].hash = hash}
Live == {i \in DOMAIN proposals : ~proposals[i].obsolete}
Pending == {i \in Live : proposals[i].status = "pending"}
Approved == {i \in DOMAIN proposals :
               proposals[i].status = "approved" /\ proposals[i].bytes}

Newest(ids) == CHOOSE i \in ids : \A j \in ids : i >= j

\* The current icon, and the icons that can be fetched by their hash.
Current == IF asset.pointer \in Approved \cap Live
           THEN proposals[asset.pointer].hash ELSE NoHash
Published == IF asset.active THEN Current ELSE NoHash
ServedByHash == {proposals[i].hash : i \in Approved}

-----------------------------------------------------------------------------
(* The start of a request.                                                 *)

Used(r) == \E i \in DOMAIN log : Body[log[i].req].nonce = Body[r].nonce
Repeated(r) == \E i \in DOMAIN log : log[i].req = r
Nonced(r) == Body[r].op \notin {"import", "legacy_deregister"}

First(op) == CASE op = "propose" -> "slot"
               [] op \in Decisions -> "find"
               [] op = "set" -> "reuse"
               [] op = "import" -> "current"
               [] op = "deregister" -> "rows"
               [] OTHER -> "asset"

Loads(w, r, retry) ==
  tx' = [tx EXCEPT ![w] = [Idle EXCEPT !.at = First(Body[r].op), !.req = r,
                             !.pointer = asset.pointer, !.retry = retry]]

\* The active asset and the nonce are read one after the other; whatever
\* commits between them is as if it had committed before or after both.
ReadAsset(w, r) ==
  /\ tx[w].at = "idle" /\ Len(log) < MaxLog
  /\ asset.active
  /\ ~(Nonced(r) /\ Used(r))
  /\ Body[r].op \in {"delist", "relist"}
       => asset.delisted # (Body[r].op = "delist")
  /\ Loads(w, r, FALSE)
  /\ Rows

\* A decision that was accepted before looks for its proposal first; any other
\* accepted nonce is answered at once.
ReadDecided(w, r) ==
  /\ tx[w].at = "idle" /\ Len(log) < MaxLog
  /\ asset.active
  /\ Body[r].op \in Decisions /\ Repeated(r)
  /\ Loads(w, r, TRUE)
  /\ Rows

-----------------------------------------------------------------------------
(* submit_icon_proposal                                                    *)

RequireSlot(w) ==
  /\ Is(w, "slot", {"propose"})
  /\ IF Pending # {} \/ Current = Hash(w) THEN End(w) ELSE Goto(w, "asset")
  /\ Rows

\* A row that another transaction is deciding stays in the index until it
\* commits.
NoPendingIndex == FALSE  \* mutant: the index is not unique
PendingTaken == Pending # {}

InsertProposal(w) ==
  /\ Is(w, "insert", {"propose"})
  /\ RowsFree(w, Pending)
  /\ IF PendingTaken \/ Used(tx[w].req) THEN End(w) ELSE Goto(w, "commit")
  /\ Rows

-----------------------------------------------------------------------------
(* decide_icon_proposal                                                    *)

FindPending(w) ==
  /\ Is(w, "find", Decisions)
  /\ LET found == Pending \cap Having(Hash(w))
     IN  IF found = {} THEN End(w)
         ELSE tx' = [tx EXCEPT ![w].at = "lock", ![w].found = Newest(found)]
  /\ Rows

\* SELECT ... FOR UPDATE waits for the row, then asks again whether it is
\* pending.  A decision that was accepted before is refused now.
NotAskedAgain(i) == TRUE  \* mutant: the row is taken as it was found
StillPending(i) == i \in Pending

LockPending(w) ==
  /\ Is(w, "lock", Decisions)
  /\ RowsFree(w, {tx[w].found})
  /\ IF StillPending(tx[w].found) /\ ~tx[w].retry
     THEN tx' = [tx EXCEPT ![w].at = "asset", ![w].rows = {tx[w].found}]
     ELSE End(w)
  /\ Rows

-----------------------------------------------------------------------------
(* set_admin_asset_icon, and the import of legacy icons.                   *)

Reusable(hash) == {i \in Live \cap Having(hash) :
                     proposals[i].bytes /\ proposals[i].status # "rejected"}
Preferred(ids) == IF ids \cap Pending # {} THEN Newest(ids \cap Pending)
                                           ELSE Newest(ids)

FindReusable(w) ==
  /\ Is(w, "reuse", {"set"})
  /\ LET ids == Reusable(Hash(w)) IN
     IF tx[w].pointer # NoIcon /\ proposals[tx[w].pointer].hash = Hash(w)
     THEN End(w)
     ELSE tx' = [tx EXCEPT
            ![w].at = "asset",
            ![w].found = IF ids = {} THEN NoIcon ELSE Preferred(ids),
            ![w].stale = ids # {} /\ Preferred(ids) \in Pending]
  /\ Rows

\* The reused proposal is approved whatever became of it since it was read.
UpdateReused(w) ==
  /\ Is(w, "update", {"set"})
  /\ RowsFree(w, {tx[w].found})
  /\ tx' = [tx EXCEPT ![w].at = "commit", ![w].rows = {tx[w].found}]
  /\ Rows

\* The import leaves an asset that has an icon alone.
ReadCurrent(w) ==
  /\ Is(w, "current", {"import"})
  /\ IF asset.pointer \in Approved THEN End(w) ELSE Goto(w, "asset")
  /\ Rows

-----------------------------------------------------------------------------
(* Deregistration: the issuer's action obsoletes proposals before it locks *)
(* the asset, the legacy deletion after.                                   *)

\* A bulk UPDATE has a snapshot, waits for the rows others hold, and skips
\* those that no longer match; rows inserted meanwhile are not in it.
SnapshotRows(w) ==
  /\ Is(w, "rows", {"deregister", "legacy_deregister"})
  /\ tx' = [tx EXCEPT ![w].at = "lock_rows", ![w].snapshot = Live]
  /\ Rows

ObsoleteRows(w) ==
  /\ Is(w, "lock_rows", {"deregister", "legacy_deregister"})
  /\ RowsFree(w, tx[w].snapshot)
  /\ tx' = [tx EXCEPT
       ![w].at = IF Op(w) = "deregister" THEN "asset" ELSE "commit",
       ![w].rows = tx[w].snapshot \cap Live]
  /\ Rows

-----------------------------------------------------------------------------
(* The flush that locks the asset, and the commit.                         *)

\* Every writer updates the asset row, and what follows under its lock.  The
\* nonce index refuses a second action of an issuer.
UpdateAsset(w) ==
  /\ tx[w].at = "asset"
  /\ AssetFree(w)
  /\ IF Op(w) = "deregister" /\ Used(tx[w].req) THEN End(w)
     ELSE tx' = [tx EXCEPT
            ![w].holds = TRUE,
            ![w].at = CASE Op(w) = "propose" -> "insert"
                        [] Op(w) = "set" /\ tx[w].stale -> "update"
                        [] Op(w) = "legacy_deregister" -> "rows"
                        [] OTHER -> "commit"]
  /\ Rows

NewRow(w) == [hash |-> Hash(w), bytes |-> TRUE, obsolete |-> FALSE,
              status |-> IF Op(w) = "propose" THEN "pending" ELSE "approved"]
Inserts(w) == Op(w) \in {"propose", "import"} \/ (Op(w) = "set" /\ tx[w].found = NoIcon)

KeepsBytes(w, row) ==  \* mutant: a rejection leaves the bytes
  CASE Op(w) \in {"approve", "set"} -> [row EXCEPT !.status = "approved"]
    [] Op(w) = "reject" -> [row EXCEPT !.status = "rejected"]
    [] OTHER -> [row EXCEPT !.obsolete = TRUE]
DropsBytes(w, row) ==  \* mutant: the end of the registration clears the bytes
  CASE Op(w) \in {"approve", "set"} -> [row EXCEPT !.status = "approved"]
    [] Op(w) = "reject" -> [row EXCEPT !.status = "rejected", !.bytes = FALSE]
    [] OTHER -> [row EXCEPT !.obsolete = TRUE, !.bytes = FALSE]
Updated(w, row) ==
  CASE Op(w) \in {"approve", "set"} -> [row EXCEPT !.status = "approved"]
    [] Op(w) = "reject" -> [row EXCEPT !.status = "rejected", !.bytes = FALSE]
    [] OTHER -> [row EXCEPT !.obsolete = TRUE]

NewProposals(w) ==
  LET kept == [i \in DOMAIN proposals |->
                 IF i \in tx[w].rows THEN Updated(w, proposals[i])
                                     ELSE proposals[i]]
  IN  IF Inserts(w) THEN Append(kept, NewRow(w)) ELSE kept

Target(w) == IF Inserts(w) THEN Len(proposals) + 1 ELSE tx[w].found

\* A deregistration that loaded no active icon does not write the pointer.
NewAsset(w) ==
  CASE Op(w) \in {"approve", "set", "import"} ->
         [asset EXCEPT !.pointer = Target(w)]
    [] Op(w) \in {"deregister", "legacy_deregister"} ->
         [asset EXCEPT !.active = FALSE,
            !.pointer = IF tx[w].pointer = NoIcon THEN @ ELSE NoIcon]
    [] Op(w) \in {"delist", "relist"} ->
         [asset EXCEPT !.delisted = (Op(w) = "delist")]
    [] OTHER -> asset

\* The fragment is rendered from rows read again after the flush.
RenderLoaded(w) ==  \* mutant: the icon is the one the session loaded
  [icon |-> IF tx[w].pointer \in Approved \cap Live
            THEN proposals[tx[w].pointer].hash ELSE NoHash,
   delisted |-> NewAsset(w).delisted]
Render(w) == [icon |-> Current', delisted |-> asset'.delisted]

Commit(w) ==
  /\ tx[w].at = "commit"
  /\ proposals' = NewProposals(w)
  /\ asset' = NewAsset(w)
  /\ log' = Append(log, [req |-> tx[w].req, proposal |-> Target(w)])
  /\ fragment' = IF Op(w) \in {"deregister", "legacy_deregister"}
                 THEN NoFragment ELSE Render(w)
  /\ End(w)

\* A statement that waits too long is cancelled; a request may be refused by
\* the checks that are left out, lose a deadlock, or die with its process.
Waits(w) ==
  \/ tx[w].at = "asset" /\ ~AssetFree(w)
  \/ tx[w].at = "insert" /\ ~RowsFree(w, Pending)
  \/ tx[w].at \in {"lock", "update"} /\ ~RowsFree(w, {tx[w].found})
  \/ tx[w].at = "lock_rows" /\ ~RowsFree(w, tx[w].snapshot)

WaitForever(w) == FALSE  \* mutant: no lock_timeout
LockTimeout(w) == Waits(w) /\ End(w) /\ Rows
Abandon(w) == tx[w].at # "idle" /\ End(w) /\ Rows

-----------------------------------------------------------------------------

Init ==
  /\ asset = [active |-> TRUE, pointer |-> NoIcon, delisted |-> FALSE]
  /\ proposals = <<>> /\ log = <<>>
  /\ fragment = [icon |-> NoHash, delisted |-> FALSE]
  /\ tx = [w \in Workers |-> Idle]

Step(w) ==
  \/ RequireSlot(w) \/ InsertProposal(w)
  \/ FindPending(w) \/ LockPending(w)
  \/ FindReusable(w) \/ UpdateReused(w) \/ ReadCurrent(w)
  \/ SnapshotRows(w) \/ ObsoleteRows(w) \/ UpdateAsset(w) \/ Commit(w)

Next == \E w \in Workers :
  \/ \E r \in Requests : ReadAsset(w, r) \/ ReadDecided(w, r)
  \/ Step(w) \/ LockTimeout(w) \/ Abandon(w)

\* Waiters are queued, and a statement that keeps waiting is cancelled.
Fairness == \A w \in Workers : SF_vars(Step(w)) /\ WF_vars(LockTimeout(w))

Spec == Init /\ [][Next]_vars /\ Fairness
-----------------------------------------------------------------------------

\* However proposals race for the slot, at most one awaits review, and none is
\* accepted twice.
OnePending ==
  /\ \A i, j \in Pending : i = j
  /\ \A i, j \in DOMAIN log :
       Body[log[i].req].op = "propose" /\ log[i].req = log[j].req => i = j

\* Reviewers who decide the same proposal at once do not both succeed.
Decides(i) == Body[log[i].req].op \in Decisions
DecidedOnce ==
  \A i, j \in DOMAIN log :
    Decides(i) /\ Decides(j) /\ log[i].proposal = log[j].proposal => i = j

\* A proposal that a reviewer rejected is never served, not even when an admin
\* who had read it as pending sets it as the icon.
RejectedNotServed ==
  \A i \in DOMAIN log :
    Body[log[i].req].op = "reject" => log[i].proposal \notin Approved

\* Bytes once published stay available at their hash, through replacements,
\* later reviews, and the end of the registration.
PublishedStays == [][ServedByHash \subseteq ServedByHash']_vars

\* The fragment shows the icon that is published now, and the delisting.
ListedIconCurrent ==
  asset.active => fragment = [icon |-> Published, delisted |-> asset.delisted]

\* Every handler ends, although reviews lock a proposal before the asset and an
\* assignment or a legacy deletion the asset before the proposal.
ReviewsEnd == \A w \in Workers : tx[w].at # "idle" ~> tx[w].at = "idle"
=============================================================================
