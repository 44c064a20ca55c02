---------------------------- MODULE IssuerActions ----------------------------
(***************************************************************************)
(* submit_issuer_action: the checks, each a statement of its own that sees *)
(* whatever has committed by then, and the operation-specific statements.  *)
(* No statement locks the asset row before Flush, so every check can be    *)
(* stale when the action commits.                                          *)
(***************************************************************************)
EXTENDS AssetStore

\* A v0 asset takes v2 issuer actions only once it has been migrated.
TakesIssuerActions(a) ==
  /\ a.status = "active"
  /\ a.source # "registry_registration"

ReadAsset(w, r) ==
  /\ At(w, "idle") /\ SequenceLeft
  /\ Body[r].op \in ChainOps
  /\ IF TakesIssuerActions(asset)
     THEN BeginAt(w, r, "nonce") /\ NoAnswer
     ELSE AnswerAtOnce(r, "not_found")
  /\ UNCHANGED <<rows, sequence, now>>

\* Existing row with the request's nonce: the same action is a retry.
CheckNonce(w) ==
  /\ At(w, "nonce")
  /\ LET existing == {a \in actions : /\ HasNonce(a)
                                      /\ Body[a.req].nonce = Body[Req(w)].nonce}
     IN IF existing = {}
        THEN Goto(w, "chain") /\ NoAnswer
        ELSE End(w, {IF \E a \in existing : a.req = Req(w)
                     THEN "idempotent_retry" ELSE "nonce_conflict"})
  /\ UNCHANGED <<rows, sequence, now>>

\* A check that passes goes on to label, one that fails ends the request.
Check(w, passes, label) ==
  /\ IF passes THEN Goto(w, label) /\ NoAnswer
               ELSE End(w, {"rejected"})
  /\ UNCHANGED <<rows, sequence, now>>

\* _latest_chain_action: the chain row with the largest audit sequence.
IsHead(a) ==
  /\ a \in actions /\ InChain(a)
  /\ \A b \in actions : InChain(b) => b.seq <= a.seq

AnyPrev(w) == TRUE  \* mutant: prev_action_hash is not compared
PrevMatches(w) ==
  \E a \in actions : IsHead(a) /\ ActionHash(a) = Body[Req(w)].prev

CheckChain(w) == At(w, "chain") /\ Check(w, PrevMatches(w), "fresh")

\* _check_freshness.  A legacy deregistration has no timestamp, and NULL is
\* what ORDER BY issuer_timestamp DESC LIMIT 1 then returns.
InWindow(time) == time <= now + Window /\ now <= time + Window

NotOlder(time) ==
  \/ \E a \in actions : OpOf(a) = "legacy_deregister"
  \/ \A a \in actions : OpOf(a) \in ChainOps => Body[a.req].time <= time

\* The signature is verified with the key read at the start.
CheckFresh(w) ==
  /\ At(w, "fresh")
  /\ LET body == Body[Req(w)]
     IN Check(w, /\ InWindow(body.time)
                 /\ NotOlder(body.time)
                 /\ body.signer = tx[w].key, "no_op")

\* _reject_no_op_action.
IsNoOp(w) ==
  LET body    == Body[Req(w)]
      covered == {<<c.name, c.value>> :
                    c \in {d \in children : d.name \in body.clears}}
  IN \/ body.op \in EditOps /\ covered = body.puts
     \/ body.op = "rotate" /\ body.newKey = tx[w].key

CheckNoOp(w) == At(w, "no_op") /\ Check(w, ~IsNoOp(w), "insert")

\* The DELETE of an edit in two steps: the rows its snapshot sees, then, once
\* no other transaction has them locked, those that still exist.
DeleteChildren(w) ==
  /\ At(w, "delete")
  /\ tx' = [tx EXCEPT ![w].pc = "deleting",
              ![w].doomed = {c \in children : c.name \in Body[Req(w)].clears}]
  /\ NoAnswer /\ UNCHANGED <<rows, sequence, now>>

LockChildren(w) ==
  /\ At(w, "deleting")
  /\ ~ChildLocked(w)
  /\ tx' = [tx EXCEPT ![w].pc = "flush", ![w].doomed = @ \cap children]
  /\ NoAnswer /\ UNCHANGED <<rows, sequence, now>>

\* _apply_rotation reads the history row to close.
ReadOpenKey(w) ==
  /\ At(w, "open")
  /\ LET opened == {h.from : h \in {g \in history : g.until = Open}}
     IN \E from \in IF opened = {} THEN {0} ELSE opened :
          tx' = [tx EXCEPT ![w].pc = "flush", ![w].open = from]
  /\ NoAnswer /\ UNCHANGED <<rows, sequence, now>>

IssuerStep(w) ==
  \/ CheckNonce(w) \/ CheckChain(w) \/ CheckFresh(w) \/ CheckNoOp(w)
  \/ DeleteChildren(w) \/ LockChildren(w) \/ ReadOpenKey(w)
=============================================================================
