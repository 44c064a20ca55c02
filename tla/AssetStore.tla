----------------------------- MODULE AssetStore -----------------------------
(***************************************************************************)
(* The rows PostgreSQL keeps for one registration of an asset, and the     *)
(* transactions the request handlers run over them.  Every handler is one  *)
(* READ COMMITTED transaction: each statement sees the rows committed when *)
(* it starts, row locks are held until commit, and unique indexes decide   *)
(* at the INSERT.  A worker is one request being handled; its uncommitted  *)
(* changes are in tx[w] and reach the committed rows in Commit.            *)
(***************************************************************************)
EXTENDS Naturals, FiniteSets

CONSTANTS
  Workers,       \* handlers that can run at the same time
  Requests,      \* signed requests clients send; one may be delivered often
  Body,          \* what each request says, see RequestBody
  Names, Values, \* names and values of the issuer-editable child rows
  Keys,          \* issuer public keys
  InitialKey,    \* the key the registration row opened the history with
  InitialSource, \* initial_issuer_pubkey_source of the registered row
  Genesis,       \* the registration row, and its action hash
  Migration,     \* the action hash of a migration row
  Window,        \* freshness window, in ticks of the clock
  MaxTime,       \* bound on the clock
  MaxSequence    \* bound on the audit sequence

EditOps   == {"edit"}
ChainOps  == {"edit", "rotate", "deregister"}
Ops       == ChainOps \cup {"migrate", "legacy_deregister"}
Sources   == {"contract", "registry_registration", "migrated_legacy_record"}
Answers   == {"applied", "idempotent_retry", "nonce_conflict", "rejected",
              "not_found", "unavailable"}
Labels    == {"idle", "nonce", "chain", "fresh", "no_op", "migrated",
              "delete_fragment", "insert", "delete", "deleting", "open",
              "flush", "fragment", "commit"}

\* A request's nonce is named by a request: two requests with the same nonce
\* differ in content.  clears and puts say which child rows an edit deletes
\* and inserts: replace_* clears every name, set_custom_field its own,
\* delete_custom_field its own and puts nothing.
RequestBody ==
  [op : Ops, nonce : Requests, prev : Requests \cup {Genesis, Migration},
   signer : Keys, time : 0..MaxTime, clears : SUBSET Names,
   puts : SUBSET (Names \X Values), newKey : Keys]

ASSUME RequestsAssumption == Body \in [Requests -> RequestBody]
\* An edit inserts one value per name, under names it has cleared.
ASSUME EditsAssumption ==
  \A r \in Requests : \A p, q \in Body[r].puts :
    p[1] \in Body[r].clears /\ (p[1] = q[1] => p = q)
ASSUME HashAssumption == /\ Genesis \notin Requests
                         /\ Migration \notin Requests
                         /\ Genesis # Migration
ASSUME InitialAssumption == /\ InitialKey \in Keys
                            /\ InitialSource \in Sources \ {"migrated_legacy_record"}
ASSUME BoundsAssumption == /\ Window \in Nat
                           /\ MaxTime \in Nat
                           /\ MaxSequence \in Nat \ {0}

VARIABLES
  asset,     \* the assets row
  actions,   \* committed actions rows of the asset
  history,   \* committed issuer_pubkey_history rows
  children,  \* committed tag, venue and custom attribute rows
  fragment,  \* committed asset_serialized_fragments rows: none or one
  sequence,  \* last value taken from the global audit sequence
  now,       \* the clock of the registry
  tx,        \* the transaction of each worker
  answer     \* the answer the last step gave, if it gave one

vars == <<asset, actions, history, children, fragment, sequence, now, tx,
          answer>>
rows == <<asset, actions, history, children, fragment>>

Audit    == Nat \ {0}
Open     == 0              \* valid_until_action_uuid IS NULL
Assets   == [status : {"active", "deregistered"}, pubkey : Keys,
             source : Sources]
Actions  == [seq : Audit, req : Requests \cup {Genesis}, key : Keys]
History  == [key : Keys, from : Audit, until : Audit \cup {Open}]
Children == [name : Names, value : Values, by : Audit]
Rendered == [asset : Assets, history : SUBSET History,
             children : SUBSET Children]
Txs      == [pc : Labels, req : Requests \cup {Genesis}, key : Keys,
             seq : Nat, doomed : SUBSET Children, open : Nat,
             wrote : BOOLEAN, fragment : SUBSET Rendered]

-----------------------------------------------------------------------------
(* What a stored action row says. *)

OpOf(a) == IF a.req = Genesis THEN "register" ELSE Body[a.req].op

\* action_hash: one per content; registration of a v0 asset and the legacy
\* deregistration carry none.
InChain(a) ==
  \/ OpOf(a) = "register" /\ InitialSource = "contract"
  \/ OpOf(a) \in ChainOps \cup {"migrate"}

ActionHash(a) == IF OpOf(a) = "migrate" THEN Migration ELSE a.req

\* Rows of the partial unique index on (asset_uuid, nonce).
HasNonce(a) == OpOf(a) \in ChainOps

Accepted(r) == \E a \in actions : a.req = r

-----------------------------------------------------------------------------
(* Transactions. *)

NoTx == [pc |-> "idle", req |-> Genesis, key |-> InitialKey, seq |-> 0,
         doomed |-> {}, open |-> 0, wrote |-> FALSE, fragment |-> {}]

Req(w)  == tx[w].req
Op(w)   == Body[Req(w)].op
At(w, label) == tx[w].pc = label
Busy    == {w \in Workers : ~At(w, "idle")}
Others(w) == Workers \ {w}

NoAnswer == answer' = {}

Goto(w, label) == tx' = [tx EXCEPT ![w].pc = label]

\* Uncommitted action rows, row locks on the asset, the fragment and the
\* child rows.
Inserted(w)      == tx[w].seq # 0
HoldsAsset(w)    == tx[w].pc \in {"fragment", "commit"}
HoldsFragment(w) == tx[w].wrote
DeletedBy(w)     == IF tx[w].pc \in {"flush", "fragment", "commit"}
                    THEN tx[w].doomed ELSE {}

NoncePending(w) ==
  /\ Op(w) \in ChainOps
  /\ \E v \in Others(w) : /\ Inserted(v)
                          /\ Op(v) \in ChainOps
                          /\ Body[Req(v)].nonce = Body[Req(w)].nonce

AssetLocked(w)    == \E v \in Others(w) : HoldsAsset(v)

\* An uncommitted INSERT of the fragment is not there for others to wait on.
FragmentLocked(w) == /\ fragment # {}
                     /\ \E v \in Others(w) : HoldsFragment(v)
ChildLocked(w)    == \E v \in Others(w) : tx[w].doomed \cap DeletedBy(v) # {}

\* The statement worker w is at waits for a lock of another transaction.
Blocked(w) ==
  \/ At(w, "insert") /\ NoncePending(w)
  \/ At(w, "deleting") /\ ChildLocked(w)
  \/ At(w, "flush") /\ AssetLocked(w)
  \/ tx[w].pc \in {"fragment", "delete_fragment"} /\ FragmentLocked(w)

\* db.rollback(), or the session closing on the way out of the handler: the
\* uncommitted rows and the locks go, the audit sequence value stays used.
End(w, answers) ==
  /\ tx' = [tx EXCEPT ![w] = NoTx]
  /\ answer' = {<<Req(w), a>> : a \in answers}

Rollback(w, given) ==
  /\ End(w, {given})
  /\ UNCHANGED <<rows, sequence, now>>

-----------------------------------------------------------------------------
(* The rows as the transaction of w will leave them. *)

\* Mutant: the action row is used before the flush gave it a sequence.
UnflushedAction(w) == [seq |-> 0, req |-> Req(w), key |-> tx[w].key]

NewAction(w) == [seq |-> tx[w].seq, req |-> Req(w), key |-> tx[w].key]

NewAsset(w) ==
  [asset EXCEPT
    !.status = IF Op(w) \in {"deregister", "legacy_deregister"}
               THEN "deregistered" ELSE @,
    !.pubkey = IF Op(w) = "rotate" THEN Body[Req(w)].newKey ELSE @,
    !.source = IF Op(w) = "migrate" THEN "migrated_legacy_record" ELSE @]

NewHistory(w) ==
  IF Op(w) = "rotate"
  THEN {IF h.from = tx[w].open THEN [h EXCEPT !.until = tx[w].seq] ELSE h
          : h \in history}
         \cup {[key |-> Body[Req(w)].newKey, from |-> tx[w].seq, until |-> Open]}
  ELSE history

NewChildren(w) ==
  IF Op(w) \in EditOps
  THEN (children \ tx[w].doomed)
         \cup {[name |-> p[1], value |-> p[2], by |-> tx[w].seq]
                 : p \in Body[Req(w)].puts}
  ELSE children

\* legacy_json and v2_json, as the asset rows they are rendered from.
Render(a, h, c) == [asset |-> a, history |-> h, children |-> c]

-----------------------------------------------------------------------------
(* The statements the handlers share. *)

\* The bound on deliveries: the sequence must last for every worker at work.
SequenceLeft ==
  sequence + Cardinality({v \in Busy : ~Inserted(v)}) < MaxSequence

\* The handler of r starts and reads an active asset row.
BeginAt(w, r, label) ==
  tx' = [tx EXCEPT ![w] = [NoTx EXCEPT !.pc = label, !.req = r,
                                       !.key = asset.pubkey]]

\* The handler of r starts and answers without a write.
AnswerAtOnce(r, given) ==
  /\ answer' = {<<r, given>>}
  /\ UNCHANGED tx

\* INSERT INTO actions: nextval, then the unique index on the nonce, which
\* waits for an uncommitted row of the same nonce and refuses a committed one.
NoNonceIndex(w) == FALSE  \* mutant: the index is not unique
NonceTaken(w) ==
  /\ Op(w) \in ChainOps
  /\ \E a \in actions : /\ HasNonce(a)
                        /\ Body[a.req].nonce = Body[Req(w)].nonce

AfterInsert(op) == CASE op \in EditOps -> "delete"
                     [] op = "rotate"  -> "open"
                     [] OTHER          -> "flush"

InsertAction(w) ==
  /\ At(w, "insert")
  /\ ~NoncePending(w)
  /\ sequence' = sequence + 1
  /\ IF NonceTaken(w)
     THEN End(w, {"nonce_conflict"})
     ELSE /\ tx' = [tx EXCEPT ![w].seq = sequence + 1,
                              ![w].pc = AfterInsert(Op(w))]
          /\ NoAnswer
  /\ UNCHANGED <<rows, now>>

\* UPDATE assets, the INSERTs of the child rows and of the history row: the
\* update waits for the asset row, the unique indexes refuse what collides.
NameTaken(w) == \E c \in children \ tx[w].doomed :
                  \E p \in Body[Req(w)].puts : p[1] = c.name

NoOpenKeyIndex(w) == FALSE  \* mutant: the index is not unique
OtherKeyOpen(w) == \E h \in history : h.until = Open /\ h.from # tx[w].open

Flush(w) ==
  /\ At(w, "flush")
  /\ ~AssetLocked(w)
  /\ IF \/ Op(w) \in EditOps /\ NameTaken(w)
        \/ Op(w) = "rotate" /\ OtherKeyOpen(w)
     THEN End(w, {"nonce_conflict"})
     ELSE /\ Goto(w, IF Op(w) = "legacy_deregister" THEN "commit" ELSE "fragment")
          /\ NoAnswer
  /\ UNCHANGED <<rows, sequence, now>>

\* delete_asset_serialized_fragments and refresh_asset_serialized_fragments.
DropFragment(w, label) ==
  tx' = [tx EXCEPT ![w].pc = label, ![w].wrote = (fragment # {})]

\* Mutant: the fragment is rendered before the changes are flushed.
RefreshUnflushed(w) ==
  tx' = [tx EXCEPT ![w].pc = "commit", ![w].wrote = TRUE,
                   ![w].fragment = {Render(asset, history, children)}]

RefreshFragment(w) ==
  tx' = [tx EXCEPT ![w].pc = "commit", ![w].wrote = TRUE,
                   ![w].fragment = {Render(NewAsset(w), NewHistory(w),
                                           NewChildren(w))}]

WriteFragment(w) ==
  /\ At(w, "fragment")
  /\ ~FragmentLocked(w)
  /\ IF Op(w) = "deregister" THEN DropFragment(w, "commit")
                             ELSE RefreshFragment(w)
  /\ NoAnswer /\ UNCHANGED <<rows, sequence, now>>

\* db.commit().  The answer is lost when the handler fails after it.
Commit(w) ==
  /\ At(w, "commit")
  /\ asset' = NewAsset(w)
  /\ actions' = actions \cup {NewAction(w)}
  /\ history' = NewHistory(w)
  /\ children' = NewChildren(w)
  /\ fragment' = IF tx[w].wrote THEN tx[w].fragment ELSE fragment
  /\ \E answers \in {{"applied"}, {}} : End(w, answers)
  /\ UNCHANGED <<sequence, now>>

\* A statement that has waited for lock_timeout: rolled back and answered 503,
\* the client may try again.
WaitForever(w) == FALSE  \* mutant: lock_timeout is not set
LockTimeout(w) == Blocked(w) /\ Rollback(w, "unavailable")

\* The process dies, loses its connection or is the victim PostgreSQL picks to
\* break a deadlock (a 500): the client learns nothing of its request.
Crash(w) ==
  /\ ~At(w, "idle")
  /\ End(w, {})
  /\ UNCHANGED <<rows, sequence, now>>

Tick ==
  /\ now < MaxTime
  /\ now' = now + 1
  /\ NoAnswer /\ UNCHANGED <<rows, sequence, tx>>

\* An asset whose registration has committed.
Registered == [status |-> "active", pubkey |-> InitialKey,
               source |-> InitialSource]

Init ==
  /\ asset = Registered
  /\ actions = {[seq |-> 1, req |-> Genesis, key |-> InitialKey]}
  /\ history = {[key |-> InitialKey, from |-> 1, until |-> Open]}
  /\ children = {}
  /\ fragment = {Render(asset, history, children)}
  /\ sequence = 1
  /\ now = 0
  /\ tx = [w \in Workers |-> NoTx]
  /\ answer = {}
=============================================================================
