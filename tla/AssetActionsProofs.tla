------------------------- MODULE AssetActionsProofs -------------------------
(***************************************************************************)
(* The invariants of the concurrent handlers, for every set of workers and *)
(* of signed requests.                                                     *)
(***************************************************************************)
EXTENDS AssetRefinement, FiniteSetTheorems, SequenceTheorems, TLAPS

InsertedLabels == {"delete", "deleting", "open", "flush", "fragment", "commit"}

\* What the label of a transaction says of the rest of it.
LabelOK(t) ==
  /\ t.pc = "idle" => t = NoTx
  /\ t.pc # "idle" => t.req \in Requests
  /\ t.seq # 0 <=> t.pc \in InsertedLabels
  /\ t.pc \in {"nonce", "chain", "fresh", "no_op"} => Body[t.req].op \in ChainOps
  /\ t.pc \in {"delete", "deleting"} => Body[t.req].op = "edit"
  /\ t.pc = "open" => Body[t.req].op = "rotate"
  /\ t.pc = "migrated" => Body[t.req].op = "migrate"
  /\ t.pc = "delete_fragment" => Body[t.req].op = "legacy_deregister"
  /\ t.pc = "fragment" => Body[t.req].op # "legacy_deregister"

TxsOK == \A w \in Workers : LabelOK(tx[w])

\* One transaction at a time has the asset row.
OneHolder == \A v, w \in Workers : HoldsAsset(v) /\ HoldsAsset(w) => v = w

\* The index of nonces, over committed and uncommitted rows.
NoncesDiffer ==
  /\ \A w \in Workers : Inserted(w) /\ Op(w) \in ChainOps =>
       \A a \in actions : HasNonce(a) => Body[a.req].nonce # Body[Req(w)].nonce
  /\ \A v, w \in Workers :
       /\ Inserted(v) /\ Op(v) \in ChainOps
       /\ Inserted(w) /\ Op(w) \in ChainOps
       /\ Body[Req(v)].nonce = Body[Req(w)].nonce
       => v = w

\* A rotation that has passed Flush is about to close the open history row.
RotationsClose ==
  \A w \in Workers : HoldsAsset(w) /\ Op(w) = "rotate" =>
    \A h \in history : h.until = Open => h.from = tx[w].open

TypeInv     == TypeOK /\ TxsOK
NonceInv    == TypeInv /\ NoncesDiffer /\ AcceptedOnce
KeyInv      == TypeInv /\ OneHolder /\ RotationsClose /\ OneOpenKey

-----------------------------------------------------------------------------
(* Types.                                                                  *)

LEMMA NoTxType == NoTx \in Txs /\ LabelOK(NoTx)
  BY InitialAssumption DEF NoTx, Txs, Labels, LabelOK, InsertedLabels

LEMMA TypeInit == Init => TypeInv
  <1> SUFFICES ASSUME Init PROVE TypeInv
    OBVIOUS
  <1> USE DEF Init
  <1>1. asset \in Assets
    BY InitialAssumption DEF Registered, Assets, Sources
  <1>2. 1 \in Audit
    BY DEF Audit
  <1>3. actions \subseteq Actions
    BY <1>2, InitialAssumption DEF Actions
  <1>4. history \subseteq History
    BY <1>2, InitialAssumption DEF History, Open
  <1>5. fragment \subseteq Rendered
    BY <1>1, <1>4 DEF Rendered, Render
  <1>6. tx \in [Workers -> Txs] /\ TxsOK
    BY NoTxType DEF TxsOK
  <1>7. now \in 0..MaxTime
    BY BoundsAssumption
  <1>8. QED
    BY <1>1, <1>2, <1>3, <1>4, <1>5, <1>6, <1>7 DEF TypeOK, TypeInv

\* A worker at work handles a request.
LEMMA BusyType ==
  ASSUME TypeInv, NEW w \in Workers, ~At(w, "idle")
  PROVE  /\ Req(w) \in Requests
         /\ Body[Req(w)] \in RequestBody
         /\ tx[w] \in Txs
         /\ LabelOK(tx[w])
  BY RequestsAssumption DEF TypeInv, TypeOK, TxsOK, LabelOK, Txs, At, Req

\* The rows a transaction would commit have their types.
LEMMA NewRowsType ==
  ASSUME TypeInv, NEW w \in Workers, ~At(w, "idle"), Inserted(w)
  PROVE  /\ NewAsset(w) \in Assets
         /\ NewAction(w) \in Actions
         /\ NewHistory(w) \subseteq History
         /\ NewChildren(w) \subseteq Children
  <1>1. Req(w) \in Requests /\ Body[Req(w)] \in RequestBody /\ tx[w] \in Txs
    BY BusyType
  <1>2. tx[w].seq \in Audit
    BY <1>1 DEF Inserted, Audit, Txs
  <1>3. NewAsset(w) \in Assets
    BY <1>1 DEF NewAsset, Assets, Sources, TypeInv, TypeOK, RequestBody
  <1>4. NewAction(w) \in Actions
    BY <1>1, <1>2 DEF NewAction, Actions, Txs
  <1>5. NewHistory(w) \subseteq History
    <2> SUFFICES ASSUME NEW h \in NewHistory(w) PROVE h \in History
      OBVIOUS
    <2>1. Body[Req(w)].newKey \in Keys
      BY <1>1 DEF RequestBody
    <2>2. history \subseteq History
      BY DEF TypeInv, TypeOK
    <2>3. [key |-> Body[Req(w)].newKey, from |-> tx[w].seq, until |-> Open] \in History
      BY <2>1, <1>2 DEF History
    <2>4. \A g \in history : [g EXCEPT !.until = tx[w].seq] \in History
      BY <2>2, <1>2 DEF History
    <2>5. QED
      BY <2>2, <2>3, <2>4 DEF NewHistory
  <1>6. NewChildren(w) \subseteq Children
    <2> SUFFICES ASSUME NEW c \in NewChildren(w) PROVE c \in Children
      OBVIOUS
    <2>1. children \subseteq Children
      BY DEF TypeInv, TypeOK
    <2>2. \A p \in Body[Req(w)].puts :
            [name |-> p[1], value |-> p[2], by |-> tx[w].seq] \in Children
      BY <1>1, <1>2 DEF Children, RequestBody
    <2>3. QED
      BY <2>1, <2>2 DEF NewChildren
  <1>7. QED
    BY <1>3, <1>4, <1>5, <1>6

\* A transaction that moves to a well-typed state keeps all of them so.
LEMMA Moves ==
  ASSUME TypeInv, NEW w \in Workers, NEW t \in Txs, LabelOK(t),
         tx' = [tx EXCEPT ![w] = t]
  PROVE  tx' \in [Workers -> Txs] /\ TxsOK'
  BY DEF TypeInv, TypeOK, TxsOK

LEMMA EndMoves ==
  ASSUME TypeInv, NEW w \in Workers, ~At(w, "idle"),
         NEW answers \in SUBSET Answers, End(w, answers)
  PROVE  /\ tx' \in [Workers -> Txs]
         /\ TxsOK'
         /\ answer' \subseteq Requests \X Answers
  <1>1. tx' \in [Workers -> Txs] /\ TxsOK'
    BY NoTxType, Moves DEF End
  <1>2. Req(w) \in Requests
    BY BusyType
  <1>3. answer' \subseteq Requests \X Answers
    BY <1>2 DEF End
  <1>4. QED
    BY <1>1, <1>3

LEMMA GotoMoves ==
  ASSUME TypeInv, NEW w \in Workers, ~At(w, "idle"), NEW label \in Labels,
         LabelOK([tx[w] EXCEPT !.pc = label]), Goto(w, label), NoAnswer
  PROVE  /\ tx' \in [Workers -> Txs]
         /\ TxsOK'
         /\ answer' \subseteq Requests \X Answers
  <1>1. [tx[w] EXCEPT !.pc = label] \in Txs
    BY BusyType DEF Txs
  <1>2. tx' = [tx EXCEPT ![w] = [tx[w] EXCEPT !.pc = label]]
    BY DEF Goto
  <1>3. QED
    BY <1>1, <1>2, Moves DEF NoAnswer

LEMMA BeginMoves ==
  ASSUME TypeInv, NEW w \in Workers, NEW r \in Requests,
         NEW label \in Labels,
         \/ label = "nonce" /\ Body[r].op \in ChainOps
         \/ label = "migrated" /\ Body[r].op = "migrate"
         \/ label = "delete_fragment" /\ Body[r].op = "legacy_deregister",
         BeginAt(w, r, label)
  PROVE  tx' \in [Workers -> Txs] /\ TxsOK'
  <1> DEFINE t == [NoTx EXCEPT !.pc = label, !.req = r, !.key = asset.pubkey]
  <1>1. asset.pubkey \in Keys
    BY DEF TypeInv, TypeOK, Assets
  <1>2. t \in Txs
    BY <1>1, NoTxType DEF Txs
  <1>3. LabelOK(t)
    BY DEF LabelOK, NoTx, InsertedLabels
  <1>4. QED
    BY <1>2, <1>3, Moves DEF BeginAt

LEMMA RowsStayTyped ==
  ASSUME TypeInv, UNCHANGED rows, sequence' \in Audit, now' \in 0..MaxTime,
         tx' \in [Workers -> Txs], TxsOK', answer' \subseteq Requests \X Answers
  PROVE  TypeInv'
  BY DEF TypeInv, TypeOK, rows

\* The operations and labels, spelled out once.
LEMMA TypeReceive ==
  ASSUME TypeInv, NEW w \in Workers, NEW r \in Requests, Receive(w, r)
  PROVE  TypeInv'
  <1>1. UNCHANGED <<rows, sequence, now>>
    BY DEF Receive, ReadAsset, ReadForMigration, ReadForLegacyDelete
  <1>2. \/ NoAnswer /\ Body[r].op \in ChainOps /\ BeginAt(w, r, "nonce")
        \/ NoAnswer /\ Body[r].op = "migrate" /\ BeginAt(w, r, "migrated")
        \/ /\ NoAnswer /\ Body[r].op = "legacy_deregister"
           /\ BeginAt(w, r, "delete_fragment")
        \/ \E given \in Answers : AnswerAtOnce(r, given)
    BY DEF Receive, ReadAsset, ReadForMigration, ReadForLegacyDelete, Answers
  <1>3. tx' \in [Workers -> Txs] /\ TxsOK'
    <2>1. CASE \E given \in Answers : AnswerAtOnce(r, given)
      BY <2>1 DEF AnswerAtOnce, TypeInv, TypeOK, TxsOK
    <2>2. CASE Body[r].op \in ChainOps /\ BeginAt(w, r, "nonce")
      BY <2>2, BeginMoves DEF Labels
    <2>3. CASE Body[r].op = "migrate" /\ BeginAt(w, r, "migrated")
      BY <2>3, BeginMoves DEF Labels
    <2>4. CASE Body[r].op = "legacy_deregister" /\ BeginAt(w, r, "delete_fragment")
      BY <2>4, BeginMoves DEF Labels
    <2>5. QED
      BY <1>2, <2>1, <2>2, <2>3, <2>4
  <1>4. answer' \subseteq Requests \X Answers
    BY <1>2 DEF NoAnswer, AnswerAtOnce
  <1>5. QED
    BY <1>1, <1>3, <1>4, RowsStayTyped DEF TypeInv, TypeOK

LEMMA TypeIssuerStep ==
  ASSUME TypeInv, NEW w \in Workers, IssuerStep(w)
  PROVE  TypeInv'
  <1> DEFINE Typed == /\ tx' \in [Workers -> Txs]
                      /\ TxsOK'
                      /\ answer' \subseteq Requests \X Answers
  <1>1. UNCHANGED <<rows, sequence, now>>
    BY DEF IssuerStep, CheckNonce, CheckChain, CheckFresh, CheckNoOp, Check,
           DeleteChildren, LockChildren, ReadOpenKey
  <1>2. ~At(w, "idle")
    BY DEF IssuerStep, CheckNonce, CheckChain, CheckFresh, CheckNoOp,
           DeleteChildren, LockChildren, ReadOpenKey, At
  <1>3. tx[w] \in Txs /\ LabelOK(tx[w])
    BY <1>2, BusyType
  <1>4. ASSUME NEW answers \in SUBSET Answers, End(w, answers)
        PROVE  Typed
    BY <1>2, <1>4, EndMoves
  <1>5. ASSUME CheckNonce(w) PROVE Typed
    <2>1. CASE Goto(w, "chain") /\ NoAnswer
      <3>1. LabelOK([tx[w] EXCEPT !.pc = "chain"])
        BY <1>3, <1>5 DEF CheckNonce, At, LabelOK, InsertedLabels, Txs
      <3>2. QED
        BY <1>2, <2>1, <3>1, GotoMoves DEF Labels
    <2>2. CASE End(w, {"idempotent_retry"})
      BY <1>4, <2>2 DEF Answers
    <2>3. CASE End(w, {"nonce_conflict"})
      BY <1>4, <2>3 DEF Answers
    <2>4. QED
      BY <1>5, <2>1, <2>2, <2>3 DEF CheckNonce
  <1>6. ASSUME NEW label \in {"fresh", "no_op", "insert"}, Goto(w, label), NoAnswer,
               tx[w].pc \in {"chain", "fresh", "no_op"}
        PROVE  Typed
    <2>1. LabelOK([tx[w] EXCEPT !.pc = label])
      BY <1>3, <1>6 DEF LabelOK, InsertedLabels, Txs
    <2>2. QED
      BY <1>2, <1>6, <2>1, GotoMoves DEF Labels
  <1>7. ASSUME CheckChain(w) \/ CheckFresh(w) \/ CheckNoOp(w) PROVE Typed
    <2>1. /\ tx[w].pc \in {"chain", "fresh", "no_op"}
          /\ \/ End(w, {"rejected"})
             \/ /\ NoAnswer
                /\ \E label \in {"fresh", "no_op", "insert"} : Goto(w, label)
      BY <1>7 DEF CheckChain, CheckFresh, CheckNoOp, Check, At
    <2>2. QED
      BY <1>4, <1>6, <2>1 DEF Answers
  <1>8. ASSUME DeleteChildren(w) PROVE Typed
    <2> DEFINE t == [tx[w] EXCEPT !.pc = "deleting",
                       !.doomed = {c \in children : c.name \in Body[Req(w)].clears}]
    <2>1. t \in Txs
      BY <1>3 DEF Txs, Labels, TypeInv, TypeOK
    <2>2. LabelOK(t)
      BY <1>3, <1>8 DEF DeleteChildren, At, LabelOK, InsertedLabels, Txs
    <2>3. tx' = [tx EXCEPT ![w] = t]
      BY <1>8 DEF DeleteChildren
    <2>4. QED
      BY <1>8, <2>1, <2>2, <2>3, Moves DEF DeleteChildren, NoAnswer
  <1>9. ASSUME LockChildren(w) PROVE Typed
    <2> DEFINE t == [tx[w] EXCEPT !.pc = "flush", !.doomed = @ \cap children]
    <2>1. t \in Txs
      BY <1>3 DEF Txs, Labels
    <2>2. LabelOK(t)
      BY <1>3, <1>9 DEF LockChildren, At, LabelOK, InsertedLabels, Txs
    <2>3. tx' = [tx EXCEPT ![w] = t]
      BY <1>9 DEF LockChildren
    <2>4. QED
      BY <1>9, <2>1, <2>2, <2>3, Moves DEF LockChildren, NoAnswer
  <1>10. ASSUME ReadOpenKey(w) PROVE Typed
    <2>1. PICK from \in Nat : tx' = [tx EXCEPT ![w].pc = "flush", ![w].open = from]
      BY <1>10 DEF ReadOpenKey, TypeInv, TypeOK, History, Audit
    <2> DEFINE t == [tx[w] EXCEPT !.pc = "flush", !.open = from]
    <2>2. t \in Txs
      BY <1>3 DEF Txs, Labels
    <2>3. LabelOK(t)
      BY <1>3, <1>10 DEF ReadOpenKey, At, LabelOK, InsertedLabels, Txs
    <2>4. tx' = [tx EXCEPT ![w] = t]
      BY <2>1
    <2>5. QED
      BY <1>10, <2>2, <2>3, <2>4, Moves DEF ReadOpenKey, NoAnswer
  <1>11. Typed
    BY <1>5, <1>7, <1>8, <1>9, <1>10 DEF IssuerStep
  <1>12. sequence' \in Audit /\ now' \in 0..MaxTime
    BY <1>1 DEF TypeInv, TypeOK
  <1>13. QED
    BY <1>1, <1>11, <1>12, RowsStayTyped

LEMMA TypeLegacyStep ==
  ASSUME TypeInv, NEW w \in Workers, LegacyStep(w)
  PROVE  TypeInv'
  <1> DEFINE Typed == /\ tx' \in [Workers -> Txs]
                      /\ TxsOK'
                      /\ answer' \subseteq Requests \X Answers
  <1>1. UNCHANGED <<rows, sequence, now>> /\ ~At(w, "idle")
    BY DEF LegacyStep, CheckMigrated, DeleteFragment, At
  <1>2. tx[w] \in Txs /\ LabelOK(tx[w])
    BY <1>1, BusyType
  <1>3. ASSUME CheckMigrated(w) PROVE Typed
    <2>1. LabelOK([tx[w] EXCEPT !.pc = "insert"])
      BY <1>2, <1>3 DEF CheckMigrated, At, LabelOK, InsertedLabels, Txs
    <2>2. CASE Goto(w, "insert") /\ NoAnswer
      BY <1>1, <2>1, <2>2, GotoMoves DEF Labels
    <2>3. CASE End(w, {"idempotent_retry"})
      BY <1>1, <2>3, EndMoves DEF Answers
    <2>4. QED
      BY <1>3, <2>2, <2>3 DEF CheckMigrated
  <1>4. ASSUME DeleteFragment(w) PROVE Typed
    <2> DEFINE t == [tx[w] EXCEPT !.pc = "insert", !.wrote = (fragment # {})]
    <2>1. t \in Txs
      BY <1>2 DEF Txs, Labels
    <2>2. LabelOK(t)
      BY <1>2, <1>4 DEF DeleteFragment, At, LabelOK, InsertedLabels, Txs
    <2>3. tx' = [tx EXCEPT ![w] = t]
      BY <1>4 DEF DeleteFragment, DropFragment
    <2>4. QED
      BY <1>4, <2>1, <2>2, <2>3, Moves DEF DeleteFragment, NoAnswer
  <1>5. Typed
    BY <1>3, <1>4 DEF LegacyStep
  <1>6. sequence' \in Audit /\ now' \in 0..MaxTime
    BY <1>1 DEF TypeInv, TypeOK
  <1>7. QED
    BY <1>1, <1>5, <1>6, RowsStayTyped

LEMMA TypeInsert ==
  ASSUME TypeInv, NEW w \in Workers, InsertAction(w)
  PROVE  TypeInv'
  <1>1. /\ UNCHANGED rows /\ now' \in 0..MaxTime
        /\ sequence' = sequence + 1 /\ sequence + 1 \in Audit
        /\ At(w, "insert") /\ ~At(w, "idle")
    BY DEF InsertAction, At, TypeInv, TypeOK, Audit
  <1>2. tx[w] \in Txs /\ LabelOK(tx[w]) /\ Op(w) \in Ops
    BY <1>1, BusyType DEF RequestBody, Op
  <1>3. CASE NonceTaken(w)
    <2>1. End(w, {"nonce_conflict"})
      BY <1>3 DEF InsertAction
    <2>2. QED
      BY <1>1, <2>1, EndMoves, RowsStayTyped DEF Answers
  <1>4. CASE ~NonceTaken(w)
    <2> DEFINE t == [tx[w] EXCEPT !.seq = sequence + 1, !.pc = AfterInsert(Op(w))]
    <2>1. /\ Op(w) = "edit" => AfterInsert(Op(w)) = "delete"
          /\ Op(w) = "rotate" => AfterInsert(Op(w)) = "open"
          /\ Op(w) \notin {"edit", "rotate"} => AfterInsert(Op(w)) = "flush"
      BY <1>2 DEF AfterInsert, EditOps, Ops, ChainOps
    <2>2. t \in Txs
      BY <1>1, <1>2, <2>1 DEF Txs, Labels, Audit
    <2>3. LabelOK(t)
      BY <1>1, <1>2, <2>1 DEF LabelOK, InsertedLabels, Txs, Audit, At, Op, Req
    <2>4. tx' = [tx EXCEPT ![w] = t] /\ NoAnswer
      BY <1>4 DEF InsertAction
    <2>5. tx' \in [Workers -> Txs] /\ TxsOK'
      BY <2>2, <2>3, <2>4, Moves
    <2>6. answer' \subseteq Requests \X Answers
      BY <2>4 DEF NoAnswer
    <2>7. QED
      BY <1>1, <2>5, <2>6, RowsStayTyped
  <1>5. QED
    BY <1>3, <1>4

LEMMA TypeFlush ==
  ASSUME TypeInv, NEW w \in Workers, Flush(w)
  PROVE  TypeInv'
  <1>1. UNCHANGED <<rows, sequence, now>> /\ At(w, "flush") /\ ~At(w, "idle")
    BY DEF Flush, At
  <1>2. tx[w] \in Txs /\ LabelOK(tx[w])
    BY <1>1, BusyType
  <1> DEFINE label == IF Op(w) = "legacy_deregister" THEN "commit" ELSE "fragment"
  <1>3. LabelOK([tx[w] EXCEPT !.pc = label])
    BY <1>1, <1>2 DEF LabelOK, InsertedLabels, Txs, At, Op, Req
  <1>4. CASE End(w, {"nonce_conflict"})
    BY <1>1, <1>4, EndMoves, RowsStayTyped DEF Answers, TypeInv, TypeOK
  <1>5. CASE Goto(w, label) /\ NoAnswer
    <2>1. label \in Labels
      BY DEF Labels
    <2>2. QED
      BY <1>1, <1>3, <1>5, <2>1, GotoMoves, RowsStayTyped DEF TypeInv, TypeOK
  <1>6. QED
    BY <1>4, <1>5 DEF Flush

LEMMA TypeWriteFragment ==
  ASSUME TypeInv, NEW w \in Workers, WriteFragment(w)
  PROVE  TypeInv'
  <1>1. /\ UNCHANGED <<rows, sequence, now>> /\ NoAnswer
        /\ At(w, "fragment") /\ ~At(w, "idle")
    BY DEF WriteFragment, At
  <1>2. tx[w] \in Txs /\ LabelOK(tx[w]) /\ Inserted(w)
    BY <1>1, BusyType DEF LabelOK, InsertedLabels, Inserted, At
  <1>3. PICK wrote \in BOOLEAN, f \in SUBSET Rendered :
          tx' = [tx EXCEPT ![w] = [tx[w] EXCEPT !.pc = "commit", !.wrote = wrote,
                                                !.fragment = f]]
    <2>1. CASE DropFragment(w, "commit")
      <3>1. tx' = [tx EXCEPT ![w] = [tx[w] EXCEPT !.pc = "commit",
                     !.wrote = (fragment # {}), !.fragment = tx[w].fragment]]
        BY <1>2, <2>1 DEF DropFragment, Txs
      <3>2. QED
        BY <1>2, <3>1 DEF Txs
    <2>2. CASE RefreshFragment(w)
      <3>1. {Render(NewAsset(w), NewHistory(w), NewChildren(w))} \subseteq Rendered
        BY <1>1, <1>2, NewRowsType DEF Render, Rendered
      <3>2. QED
        BY <2>2, <3>1 DEF RefreshFragment
    <2>3. QED
      BY <2>1, <2>2 DEF WriteFragment
  <1> DEFINE t == [tx[w] EXCEPT !.pc = "commit", !.wrote = wrote, !.fragment = f]
  <1>4. t \in Txs
    BY <1>2 DEF Txs, Labels
  <1>5. LabelOK(t)
    BY <1>1, <1>2 DEF LabelOK, InsertedLabels, Txs, At
  <1>6. tx' \in [Workers -> Txs] /\ TxsOK'
    BY <1>3, <1>4, <1>5, Moves
  <1>7. QED
    BY <1>1, <1>6, RowsStayTyped DEF TypeInv, TypeOK, NoAnswer

LEMMA TypeCommit ==
  ASSUME TypeInv, NEW w \in Workers, Commit(w)
  PROVE  TypeInv'
  <1>1. At(w, "commit") /\ ~At(w, "idle")
    BY DEF Commit, At
  <1>2. tx[w] \in Txs /\ Inserted(w)
    BY <1>1, BusyType DEF LabelOK, InsertedLabels, Inserted, At
  <1>3. /\ asset' \in Assets
        /\ actions' \subseteq Actions
        /\ history' \subseteq History
        /\ children' \subseteq Children
    BY <1>1, <1>2, NewRowsType DEF Commit, TypeInv, TypeOK
  <1>4. fragment' \subseteq Rendered
    BY <1>2 DEF Commit, TypeInv, TypeOK, Txs
  <1>5. \E answers \in SUBSET Answers : End(w, answers)
    BY DEF Commit, Answers
  <1>6. /\ tx' \in [Workers -> Txs]
        /\ TxsOK'
        /\ answer' \subseteq Requests \X Answers
    BY <1>1, <1>5, EndMoves
  <1>7. QED
    BY <1>3, <1>4, <1>6 DEF Commit, TypeInv, TypeOK

LEMMA TypeStep == TypeInv /\ [Next]_vars => TypeInv'
  <1> SUFFICES ASSUME TypeInv, [Next]_vars PROVE TypeInv'
    OBVIOUS
  <1>1. ASSUME NEW w \in Workers, Step(w) PROVE TypeInv'
    BY <1>1, TypeIssuerStep, TypeLegacyStep, TypeInsert, TypeFlush,
       TypeWriteFragment, TypeCommit DEF Step
  <1>2. ASSUME NEW w \in Workers, LockTimeout(w) \/ Crash(w) PROVE TypeInv'
    <2>1. /\ UNCHANGED <<rows, sequence, now>>
          /\ ~At(w, "idle")
          /\ \E answers \in SUBSET Answers : End(w, answers)
      BY <1>2 DEF LockTimeout, Blocked, Rollback, Crash, At, Answers
    <2>2. QED
      BY <2>1, EndMoves, RowsStayTyped DEF TypeInv, TypeOK
  <1>3. CASE Tick
    <2>1. now' \in 0..MaxTime
      BY <1>3, BoundsAssumption DEF Tick, TypeInv, TypeOK
    <2>2. QED
      BY <1>3, <2>1 DEF Tick, NoAnswer, TypeInv, TypeOK, TxsOK, rows
  <1>4. CASE UNCHANGED vars
    BY <1>4 DEF vars, TypeInv, TypeOK, TxsOK
  <1>5. QED
    BY <1>1, <1>2, <1>3, <1>4, TypeReceive DEF Next

\* In every reachable state the rows and the transactions have their columns,
\* and an action is committed with the audit sequence its INSERT took.
THEOREM TypeCorrect == Spec => []TypeOK
  <1>1. TypeInv => TypeOK
    BY DEF TypeInv
  <1>2. QED
    BY <1>1, TypeInit, TypeStep, PTL DEF Spec

-----------------------------------------------------------------------------
(* The steps that neither commit nor take a lock or a sequence value.      *)

Early == {"nonce", "chain", "fresh", "no_op", "migrated", "insert", "delete",
          "deleting", "open", "flush"}

Began(t) ==
  /\ t.pc \in {"nonce", "migrated", "delete_fragment"}
  /\ t.pc = "delete_fragment" <=> Body[t.req].op = "legacy_deregister"
  /\ t.seq = 0 /\ ~t.wrote /\ t.fragment = {}

WentOn(t, u) ==
  /\ t.pc \in Early /\ u.pc \in Early
  /\ u.req = t.req /\ u.seq = t.seq /\ u.wrote = t.wrote /\ u.fragment = t.fragment

Quiet(w) ==
  /\ \A v \in Workers \ {w} : tx'[v] = tx[v]
  /\ tx'[w] = NoTx \/ Began(tx'[w]) \/ WentOn(tx[w], tx'[w])

Idling == UNCHANGED <<rows, tx>>

\* What InsertAction and Flush do when no index refuses.
Inserts(w) ==
  /\ At(w, "insert") /\ ~NoncePending(w) /\ ~NonceTaken(w)
  /\ tx' = [tx EXCEPT ![w].seq = sequence + 1, ![w].pc = AfterInsert(Op(w))]
  /\ UNCHANGED rows

TakesAsset(w) ==
  /\ At(w, "flush") /\ ~AssetLocked(w)
  /\ Op(w) = "rotate" => ~OtherKeyOpen(w)
  /\ Goto(w, IF Op(w) = "legacy_deregister" THEN "commit" ELSE "fragment")
  /\ UNCHANGED rows

LEMMA QuietEnd ==
  ASSUME TypeInv, NEW w \in Workers, NEW answers, End(w, answers)
  PROVE  Quiet(w)
  BY DEF End, Quiet, TypeInv, TypeOK

LEMMA QuietGoto ==
  ASSUME TypeInv, NEW w \in Workers, NEW label \in Early, tx[w].pc \in Early,
         Goto(w, label)
  PROVE  Quiet(w)
  BY DEF Goto, Quiet, WentOn, TypeInv, TypeOK, Txs

LEMMA QuietBegin ==
  ASSUME TypeInv, NEW w \in Workers, NEW r \in Requests, Receive(w, r)
  PROVE  (Quiet(w) /\ UNCHANGED rows) \/ Idling
  <1>1. UNCHANGED rows
    BY DEF Receive, ReadAsset, ReadForMigration, ReadForLegacyDelete
  <1>2. \/ Body[r].op \in ChainOps /\ BeginAt(w, r, "nonce")
        \/ Body[r].op = "migrate" /\ BeginAt(w, r, "migrated")
        \/ Body[r].op = "legacy_deregister" /\ BeginAt(w, r, "delete_fragment")
        \/ UNCHANGED tx
    BY DEF Receive, ReadAsset, ReadForMigration, ReadForLegacyDelete, AnswerAtOnce
  <1>3. ASSUME NEW label \in {"nonce", "migrated", "delete_fragment"},
               label = "delete_fragment" <=> Body[r].op = "legacy_deregister",
               BeginAt(w, r, label)
        PROVE  Quiet(w)
    <2>1. Began(tx'[w])
      BY <1>3 DEF BeginAt, Began, NoTx, TypeInv, TypeOK
    <2>2. QED
      BY <1>3, <2>1 DEF BeginAt, Quiet, TypeInv, TypeOK
  <1>4. Quiet(w) \/ UNCHANGED tx
    BY <1>2, <1>3 DEF ChainOps
  <1>5. QED
    BY <1>1, <1>4 DEF Idling

LEMMA QuietIssuerStep ==
  ASSUME TypeInv, NEW w \in Workers, IssuerStep(w)
  PROVE  Quiet(w) /\ UNCHANGED rows
  <1>1. UNCHANGED rows
    BY DEF IssuerStep, CheckNonce, CheckChain, CheckFresh, CheckNoOp, Check,
           DeleteChildren, LockChildren, ReadOpenKey
  <1>2. CASE \E answers : End(w, answers)
    BY <1>1, <1>2, QuietEnd
  <1>3. CASE tx[w].pc \in Early /\ \E label \in Early : Goto(w, label)
    BY <1>1, <1>3, QuietGoto
  <1>4. CASE DeleteChildren(w)
    BY <1>1, <1>4 DEF DeleteChildren, Quiet, WentOn, Early, At, TypeInv, TypeOK, Txs
  <1>5. CASE LockChildren(w)
    BY <1>1, <1>5 DEF LockChildren, Quiet, WentOn, Early, At, TypeInv, TypeOK, Txs
  <1>6. CASE ReadOpenKey(w)
    BY <1>1, <1>6 DEF ReadOpenKey, Quiet, WentOn, Early, At, TypeInv, TypeOK, Txs
  <1>7. CASE CheckNonce(w)
    BY <1>2, <1>3, <1>7 DEF CheckNonce, At, Early
  <1>8. CASE CheckChain(w) \/ CheckFresh(w) \/ CheckNoOp(w)
    BY <1>2, <1>3, <1>8 DEF CheckChain, CheckFresh, CheckNoOp, Check, At, Early
  <1>9. QED
    BY <1>4, <1>5, <1>6, <1>7, <1>8 DEF IssuerStep

\* A step is quiet or one of the five that take or give up a lock.
LEMMA StepKinds ==
  ASSUME TypeInv, [Next]_vars
  PROVE  \/ Idling
         \/ \E w \in Workers :
              \/ Quiet(w) /\ UNCHANGED rows
              \/ DeleteFragment(w) \/ Inserts(w) \/ TakesAsset(w)
              \/ WriteFragment(w) \/ Commit(w)
  <1>1. ASSUME NEW w \in Workers, InsertAction(w)
        PROVE  (Quiet(w) /\ UNCHANGED rows) \/ Inserts(w)
    BY <1>1, QuietEnd DEF InsertAction, Inserts
  <1>2. ASSUME NEW w \in Workers, Flush(w)
        PROVE  (Quiet(w) /\ UNCHANGED rows) \/ TakesAsset(w)
    BY <1>2, QuietEnd DEF Flush, TakesAsset
  <1>3. ASSUME NEW w \in Workers, CheckMigrated(w)
        PROVE  Quiet(w) /\ UNCHANGED rows
    BY <1>3, QuietEnd, QuietGoto DEF CheckMigrated, At, Early
  <1>4. ASSUME NEW w \in Workers, LockTimeout(w) \/ Crash(w)
        PROVE  Quiet(w) /\ UNCHANGED rows
    BY <1>4, QuietEnd DEF LockTimeout, Rollback, Crash
  <1>5. Tick \/ UNCHANGED vars => Idling
    BY DEF Tick, vars, Idling, rows
  <1>6. QED
    BY <1>1, <1>2, <1>3, <1>4, <1>5, QuietBegin, QuietIssuerStep
       DEF Next, Step, LegacyStep

-----------------------------------------------------------------------------
(* One accepted action per nonce.                                          *)

\* The action a transaction inserts carries its request.
LEMMA NewActionSays ==
  ASSUME TypeInv, NEW w \in Workers, ~At(w, "idle")
  PROVE  /\ NewAction(w).req = Req(w)
         /\ OpOf(NewAction(w)) = Op(w)
         /\ HasNonce(NewAction(w)) <=> Op(w) \in ChainOps
  BY BusyType, HashAssumption DEF NewAction, OpOf, Op, HasNonce

\* Transactions that are no further than before keep the index of nonces.
LEMMA NonceFrame ==
  ASSUME NonceInv, actions' = actions,
         \A v \in Workers : Inserted(v)' => Inserted(v) /\ Req(v)' = Req(v)
  PROVE  NoncesDiffer' /\ AcceptedOnce'
  BY DEF NonceInv, NoncesDiffer, AcceptedOnce, Op

LEMMA NonceStep == NonceInv /\ [Next]_vars => NonceInv'
  <1> SUFFICES ASSUME NonceInv, [Next]_vars PROVE NonceInv'
    OBVIOUS
  <1>1. TypeInv /\ TypeInv'
    BY TypeStep DEF NonceInv
  <1> SUFFICES NoncesDiffer' /\ AcceptedOnce'
    BY <1>1 DEF NonceInv
  <1>2. CASE Idling
    BY <1>2, NonceFrame DEF Idling, rows, Inserted, Req
  <1>3. ASSUME NEW w \in Workers, Quiet(w), UNCHANGED rows
        PROVE  NoncesDiffer' /\ AcceptedOnce'
    BY <1>3, NonceFrame DEF Quiet, Began, WentOn, NoTx, rows, Inserted, Req
  <1>4. ASSUME NEW w \in Workers, DeleteFragment(w) \/ TakesAsset(w) \/ WriteFragment(w)
        PROVE  NoncesDiffer' /\ AcceptedOnce'
    BY <1>1, <1>4, NonceFrame
       DEF DeleteFragment, TakesAsset, WriteFragment, Goto, DropFragment,
           RefreshFragment, TypeInv, TypeOK, Txs, rows, Inserted, Req
  <1>5. ASSUME NEW w \in Workers, Inserts(w)
        PROVE  NoncesDiffer' /\ AcceptedOnce'
    <2>1. /\ actions' = actions
          /\ \A v \in Workers : Req(v)' = Req(v) /\ Op(v)' = Op(v)
          /\ \A v \in Others(w) : Inserted(v)' => Inserted(v)
      BY <1>1, <1>5 DEF Inserts, rows, Req, Op, Inserted, Others, TypeInv, TypeOK, Txs
    <2>2. Op(w) \in ChainOps =>
            /\ \A v \in Others(w) : Inserted(v) /\ Op(v) \in ChainOps
                 => Body[Req(v)].nonce # Body[Req(w)].nonce
            /\ \A a \in actions : HasNonce(a) => Body[a.req].nonce # Body[Req(w)].nonce
      BY <1>5 DEF Inserts, NoncePending, NonceTaken
    <2>3. QED
      BY <2>1, <2>2 DEF NonceInv, NoncesDiffer, AcceptedOnce, Others
  <1>6. ASSUME NEW w \in Workers, Commit(w)
        PROVE  NoncesDiffer' /\ AcceptedOnce'
    <2>1. ~At(w, "idle") /\ Inserted(w)
      BY <1>1, <1>6 DEF Commit, At, TypeInv, TxsOK, LabelOK, InsertedLabels, Inserted
    <2>2. actions' = actions \cup {NewAction(w)}
      BY <1>6 DEF Commit
    <2>3. /\ ~Inserted(w)'
          /\ \A v \in Others(w) : Req(v)' = Req(v) /\ Op(v)' = Op(v)
                                  /\ Inserted(v)' = Inserted(v)
      BY <1>1, <1>6 DEF Commit, End, NoTx, Req, Op, Inserted, Others, TypeInv, TypeOK
    <2>4. /\ HasNonce(NewAction(w)) <=> Op(w) \in ChainOps
          /\ NewAction(w).req = Req(w)
      BY <1>1, <2>1, NewActionSays
    <2>5. AcceptedOnce'
      BY <2>1, <2>2, <2>4 DEF NonceInv, NoncesDiffer, AcceptedOnce
    <2>6. NoncesDiffer'
      BY <2>1, <2>2, <2>3, <2>4 DEF NonceInv, NoncesDiffer, Others
    <2>7. QED
      BY <2>5, <2>6
  <1>7. QED
    BY <1>1, <1>2, <1>3, <1>4, <1>5, <1>6, StepKinds

\* However often and to however many handlers a signed request is delivered,
\* one accepted issuer action uses its nonce: the unlocked look-up and the
\* unique index together let no second one in.
THEOREM NonceUsedOnce == Spec => []AcceptedOnce
  <1>1. Init => NonceInv
    <2> SUFFICES ASSUME Init PROVE NonceInv
      OBVIOUS
    <2>1. TypeInv
      BY TypeInit
    <2>2. \A w \in Workers : ~Inserted(w)
      BY DEF Init, Inserted, NoTx
    <2>3. QED
      BY <2>1, <2>2 DEF Init, NonceInv, NoncesDiffer, AcceptedOnce
  <1>2. NonceInv => AcceptedOnce
    BY DEF NonceInv
  <1>3. QED
    BY <1>1, <1>2, NonceStep, PTL DEF Spec

-----------------------------------------------------------------------------
(* One transaction at a time has the asset row, and it alone commits.      *)

LockInv == TypeInv /\ OneHolder

LEMMA HolderFrame ==
  ASSUME LockInv, \A v \in Workers : HoldsAsset(v)' => HoldsAsset(v)
  PROVE  OneHolder'
  BY DEF LockInv, OneHolder

LEMMA QuietHolds ==
  ASSUME TypeInv, NEW w \in Workers, Quiet(w)
  PROVE  /\ ~HoldsAsset(w)'
         /\ \A v \in Workers \ {w} : tx'[v] = tx[v] /\ HoldsAsset(v)' = HoldsAsset(v)
  BY DEF Quiet, Began, WentOn, NoTx, Early, HoldsAsset

LEMMA TakesAssetHolds ==
  ASSUME TypeInv, NEW w \in Workers, TakesAsset(w)
  PROVE  /\ tx'[w] = [tx[w] EXCEPT !.pc = tx'[w].pc]
         /\ tx'[w].pc = IF Op(w) = "legacy_deregister" THEN "commit" ELSE "fragment"
         /\ \A v \in Workers \ {w} : tx'[v] = tx[v] /\ HoldsAsset(v)' = HoldsAsset(v)
         /\ \A v \in Workers \ {w} : ~HoldsAsset(v)
  BY DEF TakesAsset, Goto, AssetLocked, Others, HoldsAsset, TypeInv, TypeOK, Txs

\* WriteFragment keeps the asset row and what the transaction will write.
LEMMA WriteFragmentHolds ==
  ASSUME TypeInv, NEW w \in Workers, WriteFragment(w)
  PROVE  /\ HoldsAsset(w) /\ UNCHANGED rows
         /\ tx'[w].pc = "commit" /\ tx'[w].req = tx[w].req /\ tx'[w].seq = tx[w].seq
         /\ tx'[w].open = tx[w].open /\ tx'[w].doomed = tx[w].doomed
         /\ tx'[w].key = tx[w].key
         /\ \A v \in Workers \ {w} : tx'[v] = tx[v] /\ HoldsAsset(v)' = HoldsAsset(v)
  BY DEF WriteFragment, DropFragment, RefreshFragment, HoldsAsset, At,
         TypeInv, TypeOK, Txs

LEMMA CommitHolds ==
  ASSUME TypeInv, NEW w \in Workers, Commit(w)
  PROVE  /\ HoldsAsset(w) /\ Inserted(w) /\ ~At(w, "idle")
         /\ tx'[w] = NoTx
         /\ \A v \in Workers \ {w} : tx'[v] = tx[v] /\ HoldsAsset(v)' = HoldsAsset(v)
  BY DEF Commit, End, HoldsAsset, Inserted, At, TypeInv, TypeOK, TxsOK, LabelOK,
         InsertedLabels

LEMMA DeleteFragmentHolds ==
  ASSUME TypeInv, NEW w \in Workers, DeleteFragment(w)
  PROVE  /\ ~HoldsAsset(w) /\ ~HoldsAsset(w)' /\ UNCHANGED rows
         /\ tx'[w] = [tx[w] EXCEPT !.pc = "insert", !.wrote = (fragment # {})]
         /\ \A v \in Workers \ {w} : tx'[v] = tx[v] /\ HoldsAsset(v)' = HoldsAsset(v)
  BY DEF DeleteFragment, DropFragment, HoldsAsset, At, TypeInv, TypeOK, Txs

LEMMA InsertsHolds ==
  ASSUME TypeInv, NEW w \in Workers, Inserts(w)
  PROVE  /\ ~HoldsAsset(w) /\ ~HoldsAsset(w)' /\ UNCHANGED rows
         /\ tx'[w] = [tx[w] EXCEPT !.seq = sequence + 1, !.pc = tx'[w].pc]
         /\ tx'[w].pc \in {"delete", "open", "flush"}
         /\ \A v \in Workers \ {w} : tx'[v] = tx[v] /\ HoldsAsset(v)' = HoldsAsset(v)
  <1>1. At(w, "insert") /\ ~At(w, "idle")
    BY DEF Inserts, At
  <1>2. AfterInsert(Op(w)) \in {"delete", "open", "flush"}
    BY <1>1, BusyType DEF AfterInsert, RequestBody, Ops, ChainOps, EditOps, Op
  <1>3. QED
    BY <1>1, <1>2 DEF Inserts, HoldsAsset, At, TypeInv, TypeOK, Txs

LEMMA LockStep == LockInv /\ [Next]_vars => LockInv'
  <1> SUFFICES ASSUME LockInv, [Next]_vars PROVE OneHolder'
    BY TypeStep DEF LockInv
  <1>1. TypeInv
    BY DEF LockInv
  <1>2. CASE Idling
    BY <1>2, HolderFrame DEF Idling, HoldsAsset
  <1>3. ASSUME NEW w \in Workers, Quiet(w)
        PROVE  OneHolder'
    BY <1>1, <1>3, QuietHolds, HolderFrame
  <1>4. ASSUME NEW w \in Workers, TakesAsset(w)
        PROVE  OneHolder'
    BY <1>1, <1>4, TakesAssetHolds DEF OneHolder
  <1>5. ASSUME NEW w \in Workers, WriteFragment(w)
        PROVE  OneHolder'
    BY <1>1, <1>5, WriteFragmentHolds, HolderFrame
  <1>6. ASSUME NEW w \in Workers, Commit(w)
        PROVE  OneHolder'
    BY <1>1, <1>6, CommitHolds, HolderFrame
  <1>7. ASSUME NEW w \in Workers, DeleteFragment(w) \/ Inserts(w)
        PROVE  OneHolder'
    BY <1>1, <1>7, DeleteFragmentHolds, InsertsHolds, HolderFrame
  <1>8. QED
    BY <1>1, <1>2, <1>3, <1>4, <1>5, <1>6, <1>7, StepKinds

-----------------------------------------------------------------------------
(* One open interval in the key history.                                   *)

LEMMA KeyFrame ==
  ASSUME KeyInv, UNCHANGED <<asset, history>>,
         \A v \in Workers : HoldsAsset(v)' =>
           HoldsAsset(v) /\ tx'[v].req = tx[v].req /\ tx'[v].open = tx[v].open
  PROVE  RotationsClose' /\ OneOpenKey'
  BY DEF KeyInv, RotationsClose, OneOpenKey, Op, Req

LEMMA KeyStep == KeyInv /\ [Next]_vars => KeyInv'
  <1> SUFFICES ASSUME KeyInv, [Next]_vars PROVE RotationsClose' /\ OneOpenKey'
    BY TypeStep, LockStep DEF KeyInv, LockInv
  <1>1. TypeInv /\ OneHolder
    BY DEF KeyInv
  <1>2. CASE Idling
    BY <1>2, KeyFrame DEF Idling, rows, HoldsAsset
  <1>3. ASSUME NEW w \in Workers, Quiet(w), UNCHANGED rows
        PROVE  RotationsClose' /\ OneOpenKey'
    BY <1>1, <1>3, QuietHolds, KeyFrame DEF rows
  <1>4. ASSUME NEW w \in Workers, TakesAsset(w)
        PROVE  RotationsClose' /\ OneOpenKey'
    <2>1. /\ tx'[w] = [tx[w] EXCEPT !.pc = tx'[w].pc] /\ tx[w] \in Txs
          /\ \A v \in Workers \ {w} : ~HoldsAsset(v)'
      BY <1>1, <1>4, TakesAssetHolds DEF TypeInv, TypeOK
    <2>2. tx'[w].req = tx[w].req /\ tx'[w].open = tx[w].open
      BY <2>1 DEF Txs
    <2>3. UNCHANGED <<asset, history>>
      BY <1>4 DEF TakesAsset, rows
    <2>4. Op(w) = "rotate" => \A h \in history : h.until = Open => h.from = tx[w].open
      BY <1>4 DEF TakesAsset, OtherKeyOpen
    <2>5. QED
      BY <2>1, <2>2, <2>3, <2>4 DEF KeyInv, RotationsClose, OneOpenKey, Op, Req
  <1>5. ASSUME NEW w \in Workers, WriteFragment(w)
        PROVE  RotationsClose' /\ OneOpenKey'
    BY <1>1, <1>5, WriteFragmentHolds, KeyFrame DEF rows
  <1>6. ASSUME NEW w \in Workers, DeleteFragment(w) \/ Inserts(w)
        PROVE  RotationsClose' /\ OneOpenKey'
    BY <1>1, <1>6, DeleteFragmentHolds, InsertsHolds, KeyFrame DEF rows
  <1>7. ASSUME NEW w \in Workers, Commit(w)
        PROVE  RotationsClose' /\ OneOpenKey'
    <2>1. /\ HoldsAsset(w) /\ Inserted(w) /\ ~At(w, "idle")
          /\ \A v \in Workers : ~HoldsAsset(v)'
      BY <1>1, <1>7, CommitHolds DEF OneHolder, HoldsAsset, NoTx
    <2>2. asset' = NewAsset(w) /\ history' = NewHistory(w)
      BY <1>7 DEF Commit
    <2>3. CASE Op(w) # "rotate"
      <3>1. NewHistory(w) = history /\ NewAsset(w).pubkey = asset.pubkey
        BY <1>1, <2>3 DEF NewHistory, NewAsset, TypeInv, TypeOK, Assets
      <3>2. QED
        BY <2>1, <2>2, <3>1 DEF KeyInv, RotationsClose, OneOpenKey
    <2>4. CASE Op(w) = "rotate"
      <3> DEFINE new == [key |-> Body[Req(w)].newKey, from |-> tx[w].seq, until |-> Open]
      <3>1. NewAsset(w).pubkey = new.key
        BY <1>1, <2>4 DEF NewAsset, TypeInv, TypeOK, Assets
      <3>2. new \in NewHistory(w)
        BY <2>4 DEF NewHistory
      <3>3. \A h \in history : h.until = Open => h.from = tx[w].open
        BY <2>1, <2>4 DEF KeyInv, RotationsClose
      <3>4. \A h \in history : [h EXCEPT !.until = tx[w].seq].until # Open
        BY <1>1, <2>1 DEF Inserted, Open, TypeInv, TypeOK, History
      <3>5. \A g \in NewHistory(w) : g.until = Open => g = new
        BY <2>4, <3>3, <3>4 DEF NewHistory
      <3>6. QED
        BY <2>1, <2>2, <3>1, <3>2, <3>5 DEF RotationsClose, OneOpenKey
    <2>5. QED
      BY <2>3, <2>4
  <1>8. QED
    BY <1>1, <1>2, <1>3, <1>4, <1>5, <1>6, <1>7, StepKinds

LEMMA KeyInit == Init => KeyInv
  <1> SUFFICES ASSUME Init PROVE KeyInv
    OBVIOUS
  <1>1. TypeInv
    BY TypeInit
  <1>2. \A w \in Workers : ~HoldsAsset(w)
    BY DEF Init, HoldsAsset, NoTx
  <1>3. OneOpenKey
    BY DEF Init, Registered, OneOpenKey
  <1>4. QED
    BY <1>1, <1>2, <1>3 DEF KeyInv, OneHolder, RotationsClose

\* Whatever rotations race, the published history has one open interval, and
\* it is that of the asset's current key: the index on the open row refuses
\* the rotation that did not see the one before it.
THEOREM KeyHistoryHasOneOpen == Spec => []OneOpenKey
  <1>1. KeyInv => OneOpenKey
    BY DEF KeyInv
  <1>2. QED
    BY <1>1, KeyInit, KeyStep, PTL DEF Spec

-----------------------------------------------------------------------------
(* The pre-serialised fragment is what the committed rows render to.       *)

\* What a transaction about to commit does to the fragment.
FragmentPending(w) ==
  /\ At(w, "commit") /\ Op(w) \in {"edit", "rotate", "migrate"} =>
       /\ tx[w].wrote
       /\ tx[w].fragment = {Render(NewAsset(w), NewHistory(w), NewChildren(w))}
  /\ Op(w) = "deregister" =>
       /\ tx[w].fragment = {}
       /\ At(w, "commit") /\ ~tx[w].wrote => fragment = {}
  /\ Op(w) = "legacy_deregister" =>
       /\ tx[w].fragment = {}
       /\ ~tx[w].wrote /\ ~At(w, "delete_fragment") =>
            asset.status = "deregistered"

FragmentsPending ==
  \A w \in Workers : ~At(w, "idle") => FragmentPending(w)

FragmentInv == TypeInv /\ OneHolder /\ FragmentsPending /\ FragmentCurrent

-----------------------------------------------------------------------------

\* Steps that leave the rows alone concern the transaction that takes them.
LEMMA PendingFrame ==
  ASSUME FragmentInv, UNCHANGED rows, NEW w \in Workers,
         \A v \in Workers \ {w} : tx'[v] = tx[v],
         ~At(w, "idle")' => FragmentPending(w)'
  PROVE  FragmentsPending' /\ FragmentCurrent'
  <1>1. UNCHANGED <<asset, history, children, fragment>>
    BY DEF rows
  <1>2. FragmentCurrent'
    BY <1>1 DEF FragmentInv, FragmentCurrent, Render
  <1>3. ASSUME NEW v \in Workers \ {w}, ~At(v, "idle")'
        PROVE  FragmentPending(v)'
    <2>1. ~At(v, "idle") /\ tx'[v] = tx[v]
      BY <1>3 DEF At
    <2>2. FragmentPending(v)
      BY <2>1 DEF FragmentInv, FragmentsPending
    <2>3. QED
      BY <1>1, <2>1, <2>2 DEF FragmentPending, At, Op, Req, NewAsset, NewHistory,
         NewChildren, Render
  <1>4. QED
    BY <1>2, <1>3 DEF FragmentsPending

LEMMA PendingQuiet ==
  ASSUME FragmentInv, NEW w \in Workers, Quiet(w), UNCHANGED rows
  PROVE  FragmentsPending' /\ FragmentCurrent'
  <1>1. ASSUME ~At(w, "idle")' PROVE FragmentPending(w)'
    <2>1. CASE tx'[w] = NoTx
      BY <1>1, <2>1 DEF At, NoTx
    <2>2. CASE Began(tx'[w])
      BY <2>2 DEF Began, FragmentPending, At, Op, Req
    <2>3. CASE WentOn(tx[w], tx'[w])
      <3>1. /\ ~At(w, "idle") /\ ~At(w, "commit")' /\ ~At(w, "delete_fragment")
            /\ Op(w)' = Op(w) /\ UNCHANGED asset
        BY <2>3 DEF WentOn, Early, At, Op, Req, rows
      <3>2. FragmentPending(w)
        BY <3>1 DEF FragmentInv, FragmentsPending
      <3>3. QED
        BY <2>3, <3>1, <3>2 DEF FragmentPending, WentOn
    <2>4. QED
      BY <2>1, <2>2, <2>3 DEF Quiet
  <1>2. QED
    BY <1>1, PendingFrame DEF Quiet

\* The legacy deregistration finds no fragment only once the asset is gone.
LEMMA PendingDelete ==
  ASSUME FragmentInv, NEW w \in Workers, DeleteFragment(w)
  PROVE  FragmentsPending' /\ FragmentCurrent'
  <1>1. TypeInv /\ At(w, "delete_fragment") /\ ~At(w, "idle")
    BY DEF FragmentInv, DeleteFragment, At
  <1>2. tx[w] \in Txs /\ Op(w) = "legacy_deregister"
    BY <1>1, BusyType DEF LabelOK, At, Op, Req
  <1>3. /\ tx'[w].fragment = tx[w].fragment /\ tx'[w].wrote = (fragment # {})
        /\ Op(w)' = Op(w) /\ UNCHANGED rows
        /\ \A v \in Workers \ {w} : tx'[v] = tx[v]
    <2>1. /\ tx'[w] = [tx[w] EXCEPT !.pc = "insert", !.wrote = (fragment # {})]
          /\ UNCHANGED rows /\ \A v \in Workers \ {w} : tx'[v] = tx[v]
      BY <1>1, DeleteFragmentHolds
    <2>2. /\ tx'[w].fragment = tx[w].fragment /\ tx'[w].wrote = (fragment # {})
          /\ tx'[w].req = tx[w].req
      BY <1>2, <2>1 DEF Txs
    <2>3. QED
      BY <2>1, <2>2 DEF Op, Req
  <1>4. tx[w].fragment = {}
    BY <1>1, <1>2 DEF FragmentInv, FragmentsPending, FragmentPending
  <1>5. fragment = {} => asset'.status = "deregistered"
    BY <1>1, <1>3 DEF FragmentInv, FragmentCurrent, TypeInv, TypeOK, Assets, rows
  <1>6. FragmentPending(w)'
    BY <1>2, <1>3, <1>4, <1>5 DEF FragmentPending
  <1>7. QED
    BY <1>3, <1>6, PendingFrame

LEMMA PendingInserts ==
  ASSUME FragmentInv, NEW w \in Workers, Inserts(w)
  PROVE  FragmentsPending' /\ FragmentCurrent'
  <1>1. TypeInv /\ At(w, "insert") /\ ~At(w, "idle")
    BY DEF FragmentInv, Inserts, At
  <1>2. tx[w] \in Txs /\ FragmentPending(w)
    BY <1>1, BusyType DEF FragmentInv, FragmentsPending
  <1>3. /\ tx'[w].fragment = tx[w].fragment /\ tx'[w].wrote = tx[w].wrote
        /\ Op(w)' = Op(w) /\ UNCHANGED rows /\ ~At(w, "commit")'
        /\ \A v \in Workers \ {w} : tx'[v] = tx[v]
    <2>1. /\ tx'[w] = [tx[w] EXCEPT !.seq = sequence + 1, !.pc = tx'[w].pc]
          /\ tx'[w].pc \in {"delete", "open", "flush"}
          /\ UNCHANGED rows /\ \A v \in Workers \ {w} : tx'[v] = tx[v]
      BY <1>1, InsertsHolds
    <2>2. /\ tx'[w].fragment = tx[w].fragment /\ tx'[w].wrote = tx[w].wrote
          /\ tx'[w].req = tx[w].req
      BY <1>2, <2>1 DEF Txs
    <2>3. QED
      BY <2>1, <2>2 DEF Op, Req, At
  <1>4. UNCHANGED asset /\ ~At(w, "delete_fragment")
    BY <1>1, <1>3 DEF rows, At
  <1>5. FragmentPending(w)'
    BY <1>2, <1>3, <1>4 DEF FragmentPending
  <1>6. QED
    BY <1>3, <1>5, PendingFrame

LEMMA PendingTakesAsset ==
  ASSUME FragmentInv, NEW w \in Workers, TakesAsset(w)
  PROVE  FragmentsPending' /\ FragmentCurrent'
  <1>1. TypeInv /\ At(w, "flush") /\ ~At(w, "idle") /\ UNCHANGED rows
    BY DEF FragmentInv, TakesAsset, At
  <1>2. tx[w] \in Txs /\ FragmentPending(w)
    BY <1>1, BusyType DEF FragmentInv, FragmentsPending
  <1>3. /\ tx'[w].fragment = tx[w].fragment /\ tx'[w].wrote = tx[w].wrote
        /\ Op(w)' = Op(w)
        /\ At(w, "commit")' => Op(w) = "legacy_deregister"
        /\ \A v \in Workers \ {w} : tx'[v] = tx[v]
    <2>1. /\ tx'[w] = [tx[w] EXCEPT !.pc = tx'[w].pc]
          /\ tx'[w].pc = IF Op(w) = "legacy_deregister" THEN "commit" ELSE "fragment"
          /\ \A v \in Workers \ {w} : tx'[v] = tx[v]
      BY <1>1, TakesAssetHolds
    <2>2. /\ tx'[w].fragment = tx[w].fragment /\ tx'[w].wrote = tx[w].wrote
          /\ tx'[w].req = tx[w].req
      BY <1>2, <2>1 DEF Txs
    <2>3. QED
      BY <2>1, <2>2 DEF Op, Req, At
  <1>4. UNCHANGED asset /\ ~At(w, "delete_fragment")
    BY <1>1 DEF rows, At
  <1>5. FragmentPending(w)'
    BY <1>2, <1>3, <1>4 DEF FragmentPending
  <1>6. QED
    BY <1>1, <1>3, <1>5, PendingFrame

\* The fragment is rendered from rows that no one else can change before the
\* transaction commits.
LEMMA PendingWrite ==
  ASSUME FragmentInv, NEW w \in Workers, WriteFragment(w)
  PROVE  FragmentsPending' /\ FragmentCurrent'
  <1>1. TypeInv /\ At(w, "fragment") /\ ~At(w, "idle")
    BY DEF FragmentInv, WriteFragment, At
  <1>2. tx[w] \in Txs /\ FragmentPending(w) /\ Op(w) # "legacy_deregister"
    BY <1>1, BusyType DEF FragmentInv, FragmentsPending, LabelOK, At, Op, Req
  <1>3. /\ UNCHANGED rows /\ At(w, "commit")'
        /\ tx'[w].req = tx[w].req /\ tx'[w].seq = tx[w].seq
        /\ tx'[w].open = tx[w].open /\ tx'[w].doomed = tx[w].doomed
        /\ \A v \in Workers \ {w} : tx'[v] = tx[v]
    BY <1>1, WriteFragmentHolds DEF At
  <1>4. /\ Op(w)' = Op(w) /\ UNCHANGED <<asset, history, children, fragment>>
        /\ NewAsset(w)' = NewAsset(w) /\ NewHistory(w)' = NewHistory(w)
        /\ NewChildren(w)' = NewChildren(w)
    BY <1>3 DEF rows, Op, Req, NewAsset, NewHistory, NewChildren
  <1>5. CASE Op(w) = "deregister"
    <2>1. tx'[w].fragment = tx[w].fragment /\ tx'[w].wrote = (fragment # {})
      BY <1>1, <1>2, <1>5 DEF WriteFragment, DropFragment, TypeInv, TypeOK, Txs
    <2>2. FragmentPending(w)'
      BY <1>2, <1>4, <1>5, <2>1 DEF FragmentPending
    <2>3. QED
      BY <1>3, <2>2, PendingFrame
  <1>6. CASE Op(w) # "deregister"
    <2>1. /\ tx'[w].wrote
          /\ tx'[w].fragment = {Render(NewAsset(w), NewHistory(w), NewChildren(w))}
      BY <1>1, <1>2, <1>6 DEF WriteFragment, RefreshFragment, TypeInv, TypeOK, Txs
    <2>2. FragmentPending(w)'
      BY <1>2, <1>4, <1>6, <2>1 DEF FragmentPending, Render
    <2>3. QED
      BY <1>3, <2>2, PendingFrame
  <1>7. QED
    BY <1>5, <1>6

LEMMA PendingCommit ==
  ASSUME FragmentInv, NEW w \in Workers, Commit(w)
  PROVE  FragmentsPending' /\ FragmentCurrent'
  <1>1. /\ TypeInv /\ OneHolder /\ At(w, "commit") /\ ~At(w, "idle")
        /\ HoldsAsset(w) /\ tx'[w] = NoTx
        /\ \A v \in Workers \ {w} : tx'[v] = tx[v]
    BY CommitHolds DEF FragmentInv, Commit
  <1>2. FragmentPending(w) /\ Op(w) \in Ops /\ ~At(w, "delete_fragment")
    BY <1>1, BusyType DEF FragmentInv, FragmentsPending, RequestBody, Op, At
  <1>3. /\ asset' = NewAsset(w) /\ history' = NewHistory(w)
        /\ children' = NewChildren(w)
        /\ fragment' = IF tx[w].wrote THEN tx[w].fragment ELSE fragment
    BY DEF Commit
  <1>4. FragmentCurrent
    BY DEF FragmentInv
  <1>5. FragmentCurrent'
    <2>1. CASE Op(w) \in {"edit", "rotate", "migrate"}
      BY <1>1, <1>2, <1>3, <2>1 DEF FragmentPending, FragmentCurrent, Render
    <2>2. CASE Op(w) = "deregister"
      <3>1. fragment' = {} /\ asset'.status = "deregistered"
        BY <1>1, <1>2, <1>3, <2>2 DEF FragmentPending, NewAsset, TypeInv, TypeOK, Assets
      <3>2. QED
        BY <3>1 DEF FragmentCurrent
    <2>3. CASE Op(w) = "legacy_deregister"
      <3>1. asset'.status = "deregistered"
        BY <1>1, <1>3, <2>3 DEF NewAsset, TypeInv, TypeOK, Assets
      <3>2. CASE tx[w].wrote
        BY <1>2, <1>3, <2>3, <3>1, <3>2 DEF FragmentPending, FragmentCurrent
      <3>3. CASE ~tx[w].wrote
        <4>1. asset.status = "deregistered"
          BY <1>2, <2>3, <3>3 DEF FragmentPending
        <4>2. asset' = asset /\ history' = history /\ children' = children
          BY <1>1, <1>3, <2>3, <4>1
             DEF NewAsset, NewHistory, NewChildren, EditOps, TypeInv, TypeOK, Assets
        <4>3. QED
          BY <1>3, <1>4, <3>1, <3>3, <4>2 DEF FragmentCurrent
      <3>4. QED
        BY <3>2, <3>3
    <2>4. QED
      BY <1>2, <2>1, <2>2, <2>3 DEF Ops, ChainOps
  <1>6. ASSUME NEW v \in Workers, ~At(v, "idle")'
        PROVE  FragmentPending(v)'
    <2>1. v # w /\ tx'[v] = tx[v]
      BY <1>1, <1>6 DEF At, NoTx
    <2>2. FragmentPending(v) /\ ~At(v, "commit")
      BY <1>1, <1>6, <2>1 DEF FragmentInv, FragmentsPending, OneHolder, HoldsAsset, At
    <2>3. asset.status = "deregistered" => asset'.status = "deregistered"
      BY <1>1, <1>3 DEF NewAsset, TypeInv, TypeOK, Assets
    <2>4. QED
      BY <2>1, <2>2, <2>3 DEF FragmentPending, At, Op, Req
  <1>7. QED
    BY <1>5, <1>6 DEF FragmentsPending

LEMMA FragmentStep == FragmentInv /\ [Next]_vars => FragmentInv'
  <1> SUFFICES ASSUME FragmentInv, [Next]_vars
               PROVE  FragmentsPending' /\ FragmentCurrent'
    BY TypeStep, LockStep DEF FragmentInv, LockInv
  <1>1. CASE Idling
    <2>1. UNCHANGED <<asset, history, children, fragment, tx>>
      BY <1>1 DEF Idling, rows
    <2>2. FragmentCurrent'
      BY <2>1 DEF FragmentInv, FragmentCurrent, Render
    <2>3. ASSUME NEW v \in Workers, ~At(v, "idle")'
          PROVE  FragmentPending(v)'
      <3>1. FragmentPending(v)
        BY <2>1, <2>3 DEF FragmentInv, FragmentsPending, At
      <3>2. QED
        BY <2>1, <3>1 DEF FragmentPending, Render, At, Op, Req, NewAsset,
           NewHistory, NewChildren
    <2>4. QED
      BY <2>2, <2>3 DEF FragmentsPending
  <1>2. TypeInv
    BY DEF FragmentInv
  <1>3. QED
    BY <1>1, <1>2, StepKinds, PendingQuiet, PendingDelete, PendingInserts,
       PendingTakesAsset, PendingWrite, PendingCommit

\* No interleaving of edits, rotations, migrations and deregistrations, failed
\* ones included, leaves a listing that differs from the committed asset.
THEOREM FragmentNeverStale == Spec => []FragmentCurrent
  <1>1. Init => FragmentInv
    <2> SUFFICES ASSUME Init PROVE FragmentInv
      OBVIOUS
    <2>1. TypeInv
      BY TypeInit
    <2>2. \A w \in Workers : At(w, "idle")
      BY DEF Init, At, NoTx
    <2>3. FragmentCurrent
      BY DEF Init, FragmentCurrent
    <2>4. QED
      BY <2>1, <2>2, <2>3 DEF FragmentInv, FragmentsPending, OneHolder, HoldsAsset, At
  <1>2. FragmentInv => FragmentCurrent
    BY DEF FragmentInv
  <1>3. QED
    BY <1>1, <1>2, FragmentStep, PTL DEF Spec

-----------------------------------------------------------------------------
(* One request at a time: what a handler has checked stays so until it     *)
(* commits, and the handlers implement the ledger.                         *)

\* Of an issuer action, after each of its statements.
IssuerJudged(w) ==
  /\ asset.source # "registry_registration"
  /\ ~At(w, "nonce") =>
       \A a \in actions : HasNonce(a) => Body[a.req].nonce # Body[Req(w)].nonce
  /\ tx[w].pc \notin {"nonce", "chain"} => PrevMatches(w)
  /\ tx[w].pc \notin {"nonce", "chain", "fresh"} =>
       NotOlder(Body[Req(w)].time) /\ Body[Req(w)].signer = tx[w].key
  /\ tx[w].pc \notin {"nonce", "chain", "fresh", "no_op"} => ~IsNoOp(w)
  /\ Op(w) = "edit" /\ tx[w].pc \in {"deleting", "flush", "fragment", "commit"} =>
       tx[w].doomed = {c \in children : c.name \in Body[Req(w)].clears}

Judged(w) ==
  /\ asset.status = "active"
  /\ tx[w].key = asset.pubkey
  /\ Op(w) \in ChainOps => IssuerJudged(w)
  /\ Op(w) = "migrate" /\ ~At(w, "migrated") =>
       \A a \in actions : OpOf(a) # "migrate"
  /\ Op(w) = "legacy_deregister" => Body[Req(w)].signer = asset.pubkey
  /\ Inserted(w) => /\ tx[w].seq <= sequence
                    /\ \A a \in actions : a.seq < tx[w].seq

AllJudged == \A w \in Busy : Judged(w)

\* The committed rows: in the order of their sequence, closed by a
\* deregistration, of a migrated source only after a migration.
RowsOrdered ==
  /\ IsFiniteSet(actions)
  /\ \A a \in actions : a.seq <= sequence
  /\ \A a, b \in actions : a.seq = b.seq => a = b

RowsTell ==
  /\ \A a \in actions : OpOf(a) \in {"deregister", "legacy_deregister"} =>
       asset.status = "deregistered"
  /\ \/ asset.source = InitialSource
     \/ /\ asset.source = "migrated_legacy_record"
        /\ \E a \in actions : OpOf(a) = "migrate"

\* The ledger holds what the rows hold.
LedgerHolds ==
  {LedgerOf[i] : i \in 1..Cardinality(Taken)} = {a.req : a \in Taken}

\* The hashes that were a head, and the one that no action has followed yet.
Known == {Genesis} \cup {ActionHash(a) : a \in {b \in actions : InChain(b)}}
HeadUnfollowed ==
  \A a \in actions : HasNonce(a) => Body[a.req].prev \in Known \ {HeadHash}

SerialInv == TypeInv /\ AllJudged /\ RowsOrdered /\ RowsTell /\ LedgerHolds

ChainInv == SerialInv /\ HeadUnfollowed /\ ChainIsLinear

-----------------------------------------------------------------------------

\* A row of a larger sequence than the others comes last.
LEMMA OrderAppends ==
  ASSUME NEW S, IsFiniteSet(S), NEW n, n.seq \in Nat,
         \A b \in S : b.seq \in Nat /\ b.seq < n.seq
  PROVE  /\ Cardinality(S \cup {n}) = Cardinality(S) + 1
         /\ Cardinality(S) \in Nat
         /\ \A i \in 1..Cardinality(S) :
              InAuditOrder(S \cup {n})[i] = InAuditOrder(S)[i]
         /\ InAuditOrder(S \cup {n})[Cardinality(S) + 1] = n
  <1> DEFINE T == S \cup {n}
             UpTo(R, a) == {b \in R : b.seq <= a.seq}
  <1>1. n \notin S
    OBVIOUS
  <1>2. /\ Cardinality(S) \in Nat
        /\ IsFiniteSet(T) /\ Cardinality(T) = Cardinality(S) + 1
    BY <1>1, FS_AddElement, FS_CardinalityType
  <1>3. \A a \in S : UpTo(T, a) = UpTo(S, a) /\ Cardinality(UpTo(S, a)) <= Cardinality(S)
    <2> SUFFICES ASSUME NEW a \in S
                 PROVE  UpTo(T, a) = UpTo(S, a) /\ Cardinality(UpTo(S, a)) <= Cardinality(S)
      OBVIOUS
    <2>1. UpTo(T, a) = UpTo(S, a)
      OBVIOUS
    <2>2. UpTo(S, a) \in SUBSET S
      OBVIOUS
    <2> HIDE DEF UpTo
    <2>3. Cardinality(UpTo(S, a)) <= Cardinality(S)
      BY <2>2, FS_Subset
    <2>4. QED
      BY <2>1, <2>3
  <1>4. UpTo(T, n) = T
    OBVIOUS
  <1>5. \A i \in 1..Cardinality(S) : Place(T, i) = Place(S, i)
    <2> SUFFICES ASSUME NEW i \in 1..Cardinality(S)
                 PROVE  Place(T, i) = Place(S, i)
      OBVIOUS
    <2>1. Place(T, i) = {a \in T : Cardinality(UpTo(T, a)) = i}
      BY DEF Place
    <2>2. Place(S, i) = {a \in S : Cardinality(UpTo(S, a)) = i}
      BY DEF Place
    <2> HIDE DEF UpTo
    <2>3. Cardinality(UpTo(T, n)) # i
      BY <1>2, <1>4
    <2>4. QED
      BY <1>3, <2>1, <2>2, <2>3
  <1>6. Place(T, Cardinality(S) + 1) = {n}
    <2>1. Place(T, Cardinality(S) + 1) =
            {a \in T : Cardinality(UpTo(T, a)) = Cardinality(S) + 1}
      BY DEF Place
    <2> HIDE DEF UpTo
    <2>2. \A a \in S : Cardinality(UpTo(T, a)) # Cardinality(S) + 1
      BY <1>2, <1>3
    <2>3. Cardinality(UpTo(T, n)) = Cardinality(S) + 1
      BY <1>2, <1>4
    <2>4. QED
      BY <2>1, <2>2, <2>3
  <1>7. \A i \in 1..Cardinality(S) : InAuditOrder(T)[i] = InAuditOrder(S)[i]
    <2> SUFFICES ASSUME NEW i \in 1..Cardinality(S)
                 PROVE  InAuditOrder(T)[i] = InAuditOrder(S)[i]
      OBVIOUS
    <2>1. InAuditOrder(T)[i] = CHOOSE a \in Place(T, i) : TRUE
      <3>1. i \in 1..Cardinality(T)
        BY <1>2
      <3>2. QED
        BY <3>1 DEF InAuditOrder
    <2>2. InAuditOrder(S)[i] = CHOOSE a \in Place(S, i) : TRUE
      BY DEF InAuditOrder
    <2>3. Place(T, i) = Place(S, i)
      BY <1>5
    <2>4. QED
      BY <2>1, <2>2, <2>3, Zenon
  <1>8. InAuditOrder(T)[Cardinality(S) + 1] = n
    <2>1. Cardinality(S) + 1 \in 1..Cardinality(T)
      BY <1>2
    <2>2. InAuditOrder(T)[Cardinality(S) + 1] =
            CHOOSE a \in Place(T, Cardinality(S) + 1) : TRUE
      BY <2>1 DEF InAuditOrder
    <2>3. QED
      BY <1>6, <2>2
  <1>9. QED
    BY <1>2, <1>7, <1>8

\* Steps that leave the rows alone.
LEMMA SerialFrame ==
  ASSUME SerialInv, TypeInv', UNCHANGED rows, sequence <= sequence'
  PROVE  RowsOrdered' /\ RowsTell' /\ LedgerHolds'
  <1>1. UNCHANGED <<asset, actions>> /\ sequence \in Nat /\ sequence' \in Nat
    BY DEF rows, SerialInv, TypeInv, TypeOK, Audit
  <1>2. \A a \in actions : a.seq \in Nat
    BY DEF SerialInv, TypeInv, TypeOK, Actions, Audit
  <1>3. RowsOrdered'
    BY <1>1, <1>2 DEF SerialInv, RowsOrdered
  <1>4. RowsTell'
    BY <1>1 DEF SerialInv, RowsTell
  <1>5. LedgerHolds'
    BY <1>1 DEF SerialInv, LedgerHolds, LedgerOf, Taken
  <1>6. QED
    BY <1>3, <1>4, <1>5

\* They also leave what other handlers have checked.
LEMMA JudgedFrame ==
  ASSUME SerialInv, TypeInv', UNCHANGED rows, sequence <= sequence', NEW w \in Workers,
         \A v \in Workers \ {w} : tx'[v] = tx[v],
         ~At(w, "idle")' => Judged(w)'
  PROVE  SerialInv'
  <1>1. UNCHANGED <<asset, actions, children>> /\ sequence \in Nat /\ sequence' \in Nat
    BY DEF rows, SerialInv, TypeInv, TypeOK, Audit
  <1>2. ASSUME NEW v \in Workers \ {w}, ~At(v, "idle")'
        PROVE  Judged(v)'
    <2>1. tx'[v] = tx[v] /\ ~At(v, "idle")
      BY <1>2 DEF At
    <2>2. Judged(v)
      BY <2>1 DEF SerialInv, AllJudged, Busy
    <2>3. Req(v)' = Req(v) /\ Op(v)' = Op(v)
      BY <2>1 DEF Req, Op
    <2>4. tx[v] \in Txs
      BY DEF SerialInv, TypeInv, TypeOK
    <2>5. Inserted(v)' => /\ tx'[v].seq <= sequence'
                          /\ \A a \in actions' : a.seq < tx'[v].seq
      BY <1>1, <2>1, <2>2, <2>4 DEF Judged, Inserted, Txs
    <2>6. Op(v) \in ChainOps => IssuerJudged(v)'
      <3>1. PrevMatches(v)' = PrevMatches(v) /\ IsNoOp(v)' = IsNoOp(v)
        BY <1>1, <2>1 DEF PrevMatches, IsHead, IsNoOp, Req
      <3>2. \A time : NotOlder(time)' = NotOlder(time)
        BY <1>1 DEF NotOlder
      <3>3. QED
        BY <1>1, <2>1, <2>2, <2>3, <3>1, <3>2 DEF Judged, IssuerJudged, At
    <2>7. QED
      BY <1>1, <2>1, <2>2, <2>3, <2>5, <2>6 DEF Judged, At
  <1>3. AllJudged'
    BY <1>2 DEF AllJudged, Busy
  <1>4. QED
    BY <1>3, SerialFrame DEF SerialInv

LEMMA JudgedBegins ==
  ASSUME SerialInv, NEW w \in Workers, NEW r \in Requests, Receive(w, r),
         ~At(w, "idle")'
  PROVE  Judged(w)'
  <1>1. UNCHANGED <<asset, actions, children, sequence>> /\ At(w, "idle")
    BY DEF Receive, ReadAsset, ReadForMigration, ReadForLegacyDelete, rows
  <1>2. \/ /\ BeginAt(w, r, "nonce") /\ Body[r].op \in ChainOps
           /\ TakesIssuerActions(asset)
        \/ /\ BeginAt(w, r, "migrated") /\ Body[r].op = "migrate"
           /\ asset.status = "active"
        \/ /\ BeginAt(w, r, "delete_fragment") /\ Body[r].op = "legacy_deregister"
           /\ asset.status = "active" /\ Body[r].signer = asset.pubkey
    <2>1. ~UNCHANGED tx
      BY <1>1 DEF At
    <2>2. \A given : ~AnswerAtOnce(r, given)
      BY <2>1 DEF AnswerAtOnce
    <2>3. QED
      BY <2>2 DEF Receive, ReadAsset, ReadForMigration, ReadForLegacyDelete
  <1>3. PICK label \in {"nonce", "migrated", "delete_fragment"} :
          /\ BeginAt(w, r, label)
          /\ asset.status = "active"
          /\ label = "nonce" => /\ Body[r].op \in ChainOps
                                /\ asset.source # "registry_registration"
          /\ label = "migrated" => Body[r].op = "migrate"
          /\ label = "delete_fragment" => /\ Body[r].op = "legacy_deregister"
                                          /\ Body[r].signer = asset.pubkey
    BY <1>2 DEF TakesIssuerActions
  <1>4. /\ tx'[w].pc = label /\ tx'[w].req = r /\ tx'[w].key = asset.pubkey
        /\ tx'[w].seq = 0
    BY <1>3 DEF BeginAt, NoTx, SerialInv, TypeInv, TypeOK
  <1>5. ~Inserted(w)' /\ Op(w)' = Body[r].op /\ Req(w)' = r
    BY <1>4 DEF Inserted, Op, Req
  <1>6. Op(w)' \in ChainOps => IssuerJudged(w)'
    BY <1>1, <1>3, <1>4, <1>5 DEF IssuerJudged, At, ChainOps
  <1>7. QED
    BY <1>1, <1>3, <1>4, <1>5, <1>6 DEF Judged, At, ChainOps

\* A statement that is the last to look at what it looked at.
LEMMA JudgedGoes ==
  ASSUME SerialInv, NEW w \in Workers, ~At(w, "idle"), UNCHANGED rows,
         sequence' = sequence, ~At(w, "migrated")',
         tx'[w].req = tx[w].req, tx'[w].key = tx[w].key, tx'[w].seq = tx[w].seq,
         At(w, "migrated") => \A a \in actions : OpOf(a) # "migrate",
         Op(w) \in ChainOps => IssuerJudged(w)'
  PROVE  Judged(w)'
  <1>1. Judged(w)
    BY DEF SerialInv, AllJudged, Busy
  <1>2. Req(w)' = Req(w) /\ Op(w)' = Op(w) /\ Inserted(w)' = Inserted(w)
    BY DEF Req, Op, Inserted
  <1>3. UNCHANGED <<asset, actions>>
    BY DEF rows
  <1>4. QED
    BY <1>1, <1>2, <1>3 DEF Judged

LEMMA GotoKeeps ==
  ASSUME TypeInv, NEW w \in Workers, NEW label, Goto(w, label)
  PROVE  /\ tx'[w].pc = label
         /\ tx'[w].req = tx[w].req /\ tx'[w].key = tx[w].key
         /\ tx'[w].seq = tx[w].seq /\ tx'[w].doomed = tx[w].doomed
         /\ \A v \in Workers \ {w} : tx'[v] = tx[v]
  BY DEF Goto, TypeInv, TypeOK, Txs

\* Over rows that stay, the judgement is of the request and the key alone.
LEMMA SameJudgement ==
  ASSUME NEW w \in Workers, UNCHANGED rows,
         tx'[w].req = tx[w].req, tx'[w].key = tx[w].key
  PROVE  /\ PrevMatches(w)' = PrevMatches(w) /\ IsNoOp(w)' = IsNoOp(w)
         /\ NotOlder(Body[Req(w)].time)' = NotOlder(Body[Req(w)].time)
         /\ Req(w)' = Req(w) /\ Op(w)' = Op(w)
         /\ UNCHANGED <<asset, actions, children>>
  BY DEF rows, PrevMatches, IsHead, IsNoOp, NotOlder, Req, Op

LEMMA JudgedChecks ==
  ASSUME SerialInv, NEW w \in Workers,
         CheckNonce(w) \/ CheckChain(w) \/ CheckFresh(w) \/ CheckNoOp(w),
         ~At(w, "idle")'
  PROVE  Judged(w)'
  <1>1. /\ ~At(w, "idle") /\ UNCHANGED rows /\ sequence' = sequence
        /\ tx[w].pc \in {"nonce", "chain", "fresh", "no_op"}
    BY DEF CheckNonce, CheckChain, CheckFresh, CheckNoOp, Check, At
  <1>2. TypeInv /\ tx[w] \in Txs /\ LabelOK(tx[w]) /\ Op(w) \in ChainOps
    BY <1>1, BusyType DEF SerialInv, LabelOK, Op, Req
  <1>3. \A answers : ~End(w, answers)
    BY <1>2 DEF End, NoTx, At, TypeInv, TypeOK
  <1>4. \/ /\ At(w, "nonce") /\ Goto(w, "chain")
           /\ \A a \in actions : HasNonce(a) => Body[a.req].nonce # Body[Req(w)].nonce
        \/ At(w, "chain") /\ Goto(w, "fresh") /\ PrevMatches(w)
        \/ /\ At(w, "fresh") /\ Goto(w, "no_op")
           /\ NotOlder(Body[Req(w)].time) /\ Body[Req(w)].signer = tx[w].key
        \/ At(w, "no_op") /\ Goto(w, "insert") /\ ~IsNoOp(w)
    BY <1>3 DEF CheckNonce, CheckChain, CheckFresh, CheckNoOp, Check
  <1>5. /\ tx'[w].req = tx[w].req /\ tx'[w].key = tx[w].key
        /\ tx'[w].seq = tx[w].seq /\ tx'[w].doomed = tx[w].doomed
        /\ tx'[w].pc \in {"chain", "fresh", "no_op", "insert"}
    BY <1>2, <1>4, GotoKeeps
  <1>6. Judged(w) /\ IssuerJudged(w)
    BY <1>1, <1>2 DEF SerialInv, AllJudged, Busy, Judged
  <1>7. /\ PrevMatches(w)' = PrevMatches(w) /\ IsNoOp(w)' = IsNoOp(w)
        /\ NotOlder(Body[Req(w)].time)' = NotOlder(Body[Req(w)].time)
        /\ Req(w)' = Req(w) /\ Op(w)' = Op(w)
        /\ UNCHANGED <<asset, actions, children>>
    BY <1>1, <1>5, SameJudgement
  <1>8. \/ At(w, "nonce") /\ tx'[w].pc = "chain"
        \/ At(w, "chain") /\ tx'[w].pc = "fresh"
        \/ At(w, "fresh") /\ tx'[w].pc = "no_op"
        \/ At(w, "no_op") /\ tx'[w].pc = "insert"
    BY <1>2, <1>4, GotoKeeps
  <1>9. IssuerJudged(w)'
    BY <1>4, <1>5, <1>6, <1>7, <1>8 DEF IssuerJudged, At
  <1>10. QED
    BY <1>1, <1>5, <1>8, <1>9, JudgedGoes DEF At

\* The DELETE of an edit takes every row of the names it replaces.
LEMMA JudgedDeletes ==
  ASSUME SerialInv, NEW w \in Workers,
         DeleteChildren(w) \/ LockChildren(w) \/ ReadOpenKey(w)
  PROVE  Judged(w)'
  <1>1. /\ ~At(w, "idle") /\ UNCHANGED rows /\ sequence' = sequence
        /\ tx[w].pc \in {"delete", "deleting", "open"}
    BY DEF DeleteChildren, LockChildren, ReadOpenKey, At
  <1>2. /\ TypeInv /\ tx[w] \in Txs /\ Op(w) \in ChainOps
        /\ Op(w) = "edit" <=> tx[w].pc \in {"delete", "deleting"}
    BY <1>1, BusyType DEF SerialInv, LabelOK, Op, Req, ChainOps
  <1>3. /\ tx'[w].req = tx[w].req /\ tx'[w].key = tx[w].key
        /\ tx'[w].seq = tx[w].seq /\ tx'[w].pc \in {"deleting", "flush"}
        /\ DeleteChildren(w) =>
             tx'[w].doomed = {c \in children : c.name \in Body[Req(w)].clears}
        /\ LockChildren(w) => tx'[w].doomed = tx[w].doomed \cap children
    BY <1>2 DEF DeleteChildren, LockChildren, ReadOpenKey, TypeInv, TypeOK, Txs
  <1>4. Judged(w) /\ IssuerJudged(w)
    BY <1>1, <1>2 DEF SerialInv, AllJudged, Busy, Judged
  <1>5. /\ PrevMatches(w)' = PrevMatches(w) /\ IsNoOp(w)' = IsNoOp(w)
        /\ NotOlder(Body[Req(w)].time)' = NotOlder(Body[Req(w)].time)
        /\ Req(w)' = Req(w) /\ Op(w)' = Op(w)
        /\ UNCHANGED <<asset, actions, children>>
    BY <1>1, <1>3, SameJudgement
  <1>6. Op(w) = "edit" =>
          tx'[w].doomed = {c \in children : c.name \in Body[Req(w)].clears}
    <2>1. CASE DeleteChildren(w)
      BY <1>3, <2>1
    <2>2. CASE LockChildren(w)
      <3>1. At(w, "deleting")
        BY <2>2 DEF LockChildren
      <3>2. QED
        BY <1>3, <1>4, <2>2, <3>1 DEF IssuerJudged, At
    <2>3. CASE ReadOpenKey(w)
      BY <1>2, <2>3 DEF ReadOpenKey, At
    <2>4. QED
      BY <2>1, <2>2, <2>3
  <1>7. IssuerJudged(w)'
    BY <1>1, <1>3, <1>4, <1>5, <1>6 DEF IssuerJudged, At
  <1>8. QED
    BY <1>1, <1>3, <1>7, JudgedGoes DEF At

\* An issuer action that has passed its checks keeps their judgement.
LEMMA JudgedOnward ==
  ASSUME SerialInv, NEW w \in Workers, ~At(w, "idle"), UNCHANGED rows,
         tx'[w].req = tx[w].req, tx'[w].key = tx[w].key,
         tx'[w].doomed = tx[w].doomed,
         tx[w].pc \in {"insert", "flush", "fragment"},
         tx'[w].pc \in {"delete", "open", "flush", "fragment", "commit"},
         Op(w) = "edit" /\ At(w, "insert") => At(w, "delete")',
         Op(w) \in ChainOps
  PROVE  IssuerJudged(w)'
  <1>1. Judged(w) /\ IssuerJudged(w)
    BY DEF SerialInv, AllJudged, Busy, Judged
  <1>2. /\ PrevMatches(w)' = PrevMatches(w) /\ IsNoOp(w)' = IsNoOp(w)
        /\ NotOlder(Body[Req(w)].time)' = NotOlder(Body[Req(w)].time)
        /\ Req(w)' = Req(w) /\ Op(w)' = Op(w)
        /\ UNCHANGED <<asset, actions, children>>
    BY SameJudgement
  <1>3. tx[w].pc \notin {"nonce", "chain", "fresh", "no_op"}
    OBVIOUS
  <1>4. Op(w) = "edit" /\ tx'[w].pc \in {"deleting", "flush", "fragment", "commit"} =>
          tx'[w].doomed = {c \in children : c.name \in Body[Req(w)].clears}
    BY <1>1 DEF IssuerJudged, At
  <1>5. QED
    BY <1>1, <1>2, <1>3, <1>4 DEF IssuerJudged, At

LEMMA JudgedWrites ==
  ASSUME SerialInv, NEW w \in Workers, TakesAsset(w) \/ WriteFragment(w),
         sequence' = sequence
  PROVE  Judged(w)'
  <1>1. /\ TypeInv /\ ~At(w, "idle") /\ ~At(w, "migrated")
        /\ tx[w].pc \in {"flush", "fragment"}
    BY DEF SerialInv, TakesAsset, WriteFragment, At
  <1>2. /\ UNCHANGED rows
        /\ tx'[w].req = tx[w].req /\ tx'[w].key = tx[w].key
        /\ tx'[w].seq = tx[w].seq /\ tx'[w].doomed = tx[w].doomed
        /\ tx'[w].pc \in {"fragment", "commit"}
    <2>1. CASE TakesAsset(w)
      BY <1>1, <2>1, GotoKeeps DEF TakesAsset
    <2>2. CASE WriteFragment(w)
      BY <1>1, <2>2, WriteFragmentHolds
    <2>3. QED
      BY <2>1, <2>2
  <1>3. Op(w) \in ChainOps => IssuerJudged(w)'
    BY <1>1, <1>2, JudgedOnward DEF At
  <1>4. QED
    BY <1>1, <1>2, <1>3, JudgedGoes DEF At

LEMMA JudgedInserts ==
  ASSUME SerialInv, NEW w \in Workers, Inserts(w), sequence' = sequence + 1
  PROVE  Judged(w)'
  <1>1. TypeInv /\ At(w, "insert") /\ ~At(w, "idle") /\ ~At(w, "migrated")
    BY DEF SerialInv, Inserts, At
  <1>2. tx[w] \in Txs /\ Op(w) \in Ops
    BY <1>1, BusyType DEF RequestBody, Op
  <1>3. /\ UNCHANGED rows
        /\ tx'[w].req = tx[w].req /\ tx'[w].key = tx[w].key
        /\ tx'[w].doomed = tx[w].doomed /\ tx'[w].seq = sequence + 1
        /\ tx'[w].pc = AfterInsert(Op(w))
    BY <1>1, <1>2 DEF Inserts, TypeInv, TypeOK, Txs
  <1>4. /\ AfterInsert(Op(w)) \in {"delete", "open", "flush"}
        /\ Op(w) = "edit" => AfterInsert(Op(w)) = "delete"
    BY <1>2 DEF AfterInsert, EditOps, Ops, ChainOps
  <1>5. Op(w) \in ChainOps => IssuerJudged(w)'
    BY <1>1, <1>3, <1>4, JudgedOnward DEF At
  <1>6. /\ tx'[w].seq <= sequence'
        /\ \A a \in actions' : a.seq < tx'[w].seq
    <2>1. sequence \in Nat /\ \A a \in actions : a.seq \in Nat /\ a.seq <= sequence
      BY DEF SerialInv, RowsOrdered, TypeInv, TypeOK, Audit, Actions
    <2>2. actions' = actions
      BY <1>3 DEF rows
    <2>3. QED
      BY <1>3, <2>1, <2>2
  <1>7. Judged(w)
    BY <1>1 DEF SerialInv, AllJudged, Busy
  <1>8. Req(w)' = Req(w) /\ Op(w)' = Op(w) /\ UNCHANGED <<asset, actions>>
    BY <1>3 DEF Req, Op, rows
  <1>9. QED
    BY <1>1, <1>3, <1>5, <1>6, <1>7, <1>8 DEF Judged

LEMMA JudgedLegacy ==
  ASSUME SerialInv, NEW w \in Workers, LegacyStep(w), ~At(w, "idle")'
  PROVE  Judged(w)'
  <1>1. /\ TypeInv /\ ~At(w, "idle") /\ UNCHANGED rows /\ sequence' = sequence
        /\ tx[w].pc \in {"migrated", "delete_fragment"}
    BY DEF SerialInv, LegacyStep, CheckMigrated, DeleteFragment, At
  <1>2. Op(w) \notin ChainOps
    BY <1>1, BusyType DEF LabelOK, Op, Req, ChainOps
  <1>3. CASE CheckMigrated(w)
    <2>1. Goto(w, "insert") /\ At(w, "migrated") /\ \A a \in actions : OpOf(a) # "migrate"
      BY <1>1, <1>3 DEF CheckMigrated, End, NoTx, At, TypeInv, TypeOK
    <2>2. /\ tx'[w].req = tx[w].req /\ tx'[w].key = tx[w].key
          /\ tx'[w].seq = tx[w].seq /\ tx'[w].pc = "insert"
      BY <1>1, <2>1, GotoKeeps
    <2>3. QED
      BY <1>1, <1>2, <2>1, <2>2, JudgedGoes DEF At
  <1>4. CASE DeleteFragment(w)
    <2>1. /\ tx'[w].req = tx[w].req /\ tx'[w].key = tx[w].key
          /\ tx'[w].seq = tx[w].seq /\ tx'[w].pc = "insert"
      BY <1>1, <1>4 DEF DeleteFragment, DropFragment, TypeInv, TypeOK, Txs
    <2>2. ~At(w, "migrated")
      BY <1>4 DEF DeleteFragment, At
    <2>3. QED
      BY <1>1, <1>2, <2>1, <2>2, JudgedGoes DEF At
  <1>5. QED
    BY <1>3, <1>4 DEF LegacyStep

\* Every step but a commit.
LEMMA SerialWork ==
  ASSUME SerialInv, [Next]_vars, \A w \in Workers : ~Commit(w)
  PROVE  SerialInv' /\ UNCHANGED rows
  <1>1. TypeInv /\ TypeInv'
    BY TypeStep DEF SerialInv
  <1>2. sequence \in Nat
    BY <1>1 DEF TypeInv, TypeOK, Audit
  <1> DEFINE Alone(w) == \A v \in Workers \ {w} : tx'[v] = tx[v]
  <1>3. ASSUME NEW w \in Workers, NEW r \in Requests, Receive(w, r)
        PROVE  SerialInv' /\ UNCHANGED rows
    <2>1. UNCHANGED rows /\ sequence' = sequence /\ Alone(w)
      BY <1>1, <1>3 DEF Receive, ReadAsset, ReadForMigration, ReadForLegacyDelete,
         AnswerAtOnce, BeginAt, TypeInv, TypeOK
    <2>2. QED
      BY <1>1, <1>2, <1>3, <2>1, JudgedBegins, JudgedFrame
  <1>4. ASSUME NEW w \in Workers, UNCHANGED rows, sequence <= sequence',
               \E answers : End(w, answers)
        PROVE  SerialInv'
    <2>1. Alone(w) /\ tx'[w] = NoTx
      BY <1>1, <1>4 DEF End, TypeInv, TypeOK
    <2>2. At(w, "idle")'
      BY <2>1 DEF At, NoTx
    <2>3. QED
      BY <1>1, <1>4, <2>1, <2>2, JudgedFrame
  <1>5. ASSUME NEW w \in Workers, IssuerStep(w)
        PROVE  SerialInv' /\ UNCHANGED rows
    <2>1. UNCHANGED rows /\ sequence' = sequence /\ Alone(w)
      BY <1>1, <1>5, QuietIssuerStep DEF Quiet, IssuerStep, CheckNonce, CheckChain,
         CheckFresh, CheckNoOp, Check, DeleteChildren, LockChildren, ReadOpenKey
    <2>2. ~At(w, "idle")' => Judged(w)'
      BY <1>5, JudgedChecks, JudgedDeletes DEF IssuerStep
    <2>3. QED
      BY <1>1, <1>2, <2>1, <2>2, JudgedFrame
  <1>6. ASSUME NEW w \in Workers, LegacyStep(w)
        PROVE  SerialInv' /\ UNCHANGED rows
    <2>1. UNCHANGED rows /\ sequence' = sequence /\ Alone(w)
      BY <1>1, <1>6 DEF LegacyStep, CheckMigrated, DeleteFragment, DropFragment,
         Goto, End, TypeInv, TypeOK
    <2>2. QED
      BY <1>1, <1>2, <1>6, <2>1, JudgedLegacy, JudgedFrame
  <1>7. ASSUME NEW w \in Workers, InsertAction(w)
        PROVE  SerialInv' /\ UNCHANGED rows
    <2>1. UNCHANGED rows /\ sequence' = sequence + 1
      BY <1>7 DEF InsertAction
    <2>2. CASE Inserts(w)
      <3>1. Alone(w)
        BY <1>1, <2>2, InsertsHolds
      <3>2. Judged(w)'
        BY <2>1, <2>2, JudgedInserts
      <3>3. sequence <= sequence'
        BY <1>2, <2>1
      <3>4. QED
        BY <1>1, <2>1, <3>1, <3>2, <3>3, JudgedFrame
    <2>3. CASE \E answers : End(w, answers)
      BY <1>2, <1>4, <2>1, <2>3
    <2>4. QED
      BY <1>7, <2>1, <2>2, <2>3 DEF InsertAction, Inserts
  <1>8. ASSUME NEW w \in Workers, Flush(w)
        PROVE  SerialInv' /\ UNCHANGED rows
    <2>1. UNCHANGED rows /\ sequence' = sequence
      BY <1>8 DEF Flush
    <2>2. CASE TakesAsset(w)
      <3>1. Alone(w)
        BY <1>1, <2>2, TakesAssetHolds
      <3>2. Judged(w)'
        BY <2>1, <2>2, JudgedWrites
      <3>3. sequence <= sequence'
        BY <1>2, <2>1
      <3>4. QED
        BY <1>1, <2>1, <3>1, <3>2, <3>3, JudgedFrame
    <2>3. CASE \E answers : End(w, answers)
      BY <1>2, <1>4, <2>1, <2>3
    <2>4. QED
      BY <1>8, <2>1, <2>2, <2>3 DEF Flush, TakesAsset
  <1>9. ASSUME NEW w \in Workers, WriteFragment(w)
        PROVE  SerialInv' /\ UNCHANGED rows
    <2>1. UNCHANGED rows /\ sequence' = sequence
      BY <1>9 DEF WriteFragment
    <2>2. QED
      BY <1>1, <1>2, <1>9, <2>1, WriteFragmentHolds, JudgedWrites, JudgedFrame
  <1>10. ASSUME NEW w \in Workers, LockTimeout(w) \/ Crash(w)
         PROVE  SerialInv' /\ UNCHANGED rows
    BY <1>2, <1>4, <1>10 DEF LockTimeout, Rollback, Crash
  <1>11. CASE Tick \/ UNCHANGED vars
    <2>1. UNCHANGED <<rows, sequence, tx>>
      BY <1>11 DEF Tick, vars, rows
    <2>2. CASE Workers = {}
      BY <1>1, <1>2, <2>1, <2>2, SerialFrame DEF SerialInv, AllJudged, Busy
    <2>3. CASE Workers # {}
      <3>1. PICK w \in Workers : TRUE
        BY <2>3
      <3>2. ~At(w, "idle")' => Judged(w)'
        <4>1. ASSUME ~At(w, "idle") PROVE Judged(w)'
          <5>1. Judged(w)
            BY <4>1 DEF SerialInv, AllJudged, Busy
          <5>2. UNCHANGED <<asset, actions, children, tx, sequence>>
            BY <2>1 DEF rows
          <5>3. QED
            BY <5>1, <5>2 DEF Judged, IssuerJudged, At, Req, Op, Inserted, PrevMatches,
               IsHead, NotOlder, IsNoOp
        <4>2. QED
          BY <2>1, <4>1 DEF At
      <3>3. QED
        BY <1>1, <1>2, <2>1, <3>2, JudgedFrame
    <2>4. QED
      BY <2>1, <2>2, <2>3
  <1>12. QED
    BY <1>3, <1>5, <1>6, <1>7, <1>8, <1>9, <1>10, <1>11 DEF Next, Step

-----------------------------------------------------------------------------
(* A commit takes effect on the ledger.                                    *)

\* The rows a commit leaves: one more, of the largest sequence.
LEMMA CommitAdds ==
  ASSUME SerialInv, NEW w \in Workers, Commit(w)
  PROVE  /\ At(w, "commit") /\ Req(w) \in Requests /\ Op(w) \in Ops /\ Judged(w)
         /\ NewAction(w).req = Req(w) /\ OpOf(NewAction(w)) = Op(w)
         /\ NewAction(w).seq \in Nat /\ NewAction(w).seq <= sequence
         /\ \A a \in actions : a.seq \in Nat /\ a.seq < NewAction(w).seq
         /\ actions' = actions \cup {NewAction(w)}
         /\ Taken' = Taken \cup {NewAction(w)}
         /\ sequence' = sequence /\ sequence \in Nat
  <1>1. TypeInv /\ At(w, "commit") /\ ~At(w, "idle") /\ Inserted(w)
    BY CommitHolds DEF SerialInv, Commit
  <1>2. Req(w) \in Requests /\ Op(w) \in Ops /\ tx[w] \in Txs /\ Judged(w)
    BY <1>1, BusyType DEF RequestBody, Op, SerialInv, AllJudged, Busy
  <1>3. NewAction(w).req = Req(w) /\ OpOf(NewAction(w)) = Op(w)
    BY <1>1, NewActionSays
  <1>4. sequence' = sequence /\ sequence \in Nat /\ actions' = actions \cup {NewAction(w)}
    BY <1>1 DEF Commit, TypeInv, TypeOK, Audit
  <1>5. NewAction(w).seq = tx[w].seq /\ tx[w].seq \in Nat
    BY <1>2 DEF NewAction, Txs
  <1>6. /\ NewAction(w).seq <= sequence
        /\ \A a \in actions : a.seq \in Nat /\ a.seq < NewAction(w).seq
    BY <1>1, <1>2, <1>5 DEF Judged, TypeInv, TypeOK, Actions, Audit
  <1>7. Taken' = Taken \cup {NewAction(w)}
    <2>1. OpOf(NewAction(w)) # "register"
      BY <1>2, <1>3 DEF Ops, ChainOps
    <2>2. QED
      BY <1>4, <2>1 DEF Taken
  <1>8. QED
    BY <1>1, <1>2, <1>3, <1>4, <1>5, <1>6, <1>7

LEMMA LedgerType ==
  ASSUME SerialInv
  PROVE  /\ Cardinality(Taken) \in Nat /\ IsFiniteSet(Taken)
         /\ LedgerOf \in [1..Cardinality(Taken) -> Requests]
         /\ \A r : (\E i \in 1..Cardinality(Taken) : LedgerOf[i] = r)
                     <=> (\E a \in Taken : a.req = r)
  <1>1. Cardinality(Taken) \in Nat /\ IsFiniteSet(Taken)
    <2>1. IsFiniteSet(actions) /\ Taken \in SUBSET actions
      BY DEF SerialInv, RowsOrdered, Taken
    <2>2. IsFiniteSet(Taken)
      BY <2>1, FS_Subset
    <2>3. QED
      BY <2>2, FS_CardinalityType
  <1>2. \A r : (\E i \in 1..Cardinality(Taken) : LedgerOf[i] = r)
                 <=> (\E a \in Taken : a.req = r)
    BY DEF SerialInv, LedgerHolds
  <1>3. \A a \in Taken : a.req \in Requests
    BY DEF Taken, OpOf, SerialInv, TypeInv, TypeOK, Actions
  <1>4. LedgerOf \in [1..Cardinality(Taken) -> Requests]
    <2>1. \A i \in 1..Cardinality(Taken) : LedgerOf[i] \in Requests
      BY <1>2, <1>3
    <2>2. QED
      BY <2>1 DEF LedgerOf
  <1>5. QED
    BY <1>1, <1>2, <1>4

LEMMA CommitAppends ==
  ASSUME SerialInv, NEW w \in Workers, Commit(w)
  PROVE  /\ LedgerOf' = Append(LedgerOf, Req(w))
         /\ LedgerHolds' /\ RowsOrdered'
  <1> DEFINE n == NewAction(w)
             k == Cardinality(Taken)
  <1>1. /\ n.req = Req(w) /\ n.seq \in Nat /\ n.seq <= sequence /\ Req(w) \in Requests
        /\ \A a \in actions : a.seq \in Nat /\ a.seq < n.seq
        /\ actions' = actions \cup {n} /\ Taken' = Taken \cup {n}
        /\ sequence' = sequence /\ sequence \in Nat
    BY CommitAdds
  <1>2. /\ k \in Nat /\ IsFiniteSet(Taken)
        /\ LedgerOf \in [1..k -> Requests]
        /\ \A r : (\E i \in 1..k : LedgerOf[i] = r) <=> (\E a \in Taken : a.req = r)
    BY LedgerType
  <1> HIDE DEF n
  <1>3. /\ Cardinality(Taken \cup {n}) = k + 1
        /\ \A i \in 1..k : InAuditOrder(Taken \cup {n})[i] = InAuditOrder(Taken)[i]
        /\ InAuditOrder(Taken \cup {n})[k + 1] = n
    <2>1. \A a \in Taken : a.seq \in Nat /\ a.seq < n.seq
      BY <1>1 DEF Taken
    <2>2. IsFiniteSet(Taken) /\ n.seq \in Nat
      BY <1>1, <1>2
    <2>3. /\ Cardinality(Taken \cup {n}) = Cardinality(Taken) + 1
          /\ Cardinality(Taken) \in Nat
          /\ \A i \in 1..Cardinality(Taken) :
               InAuditOrder(Taken \cup {n})[i] = InAuditOrder(Taken)[i]
          /\ InAuditOrder(Taken \cup {n})[Cardinality(Taken) + 1] = n
      BY <2>1, <2>2, OrderAppends, Zenon
    <2>4. QED
      BY <2>3
  <1>4. LedgerOf' = [i \in 1..(k + 1) |-> IF i = k + 1 THEN Req(w) ELSE LedgerOf[i]]
    <2>1. LedgerOf' = [i \in 1..(k + 1) |-> InAuditOrder(Taken \cup {n})[i].req]
      BY <1>1, <1>3 DEF LedgerOf
    <2>2. ASSUME NEW i \in 1..(k + 1)
          PROVE  InAuditOrder(Taken \cup {n})[i].req
                   = IF i = k + 1 THEN Req(w) ELSE LedgerOf[i]
      <3>1. CASE i = k + 1
        BY <1>1, <1>3, <3>1
      <3>2. CASE i # k + 1
        <4>1. i \in 1..k
          BY <1>2, <3>2
        <4>2. LedgerOf[i] = InAuditOrder(Taken)[i].req
          BY <4>1 DEF LedgerOf
        <4>3. QED
          BY <1>3, <3>2, <4>1, <4>2
      <3>3. QED
        BY <3>1, <3>2
    <2>3. QED
      BY <2>1, <2>2
  <1>5. LedgerOf' = Append(LedgerOf, Req(w))
    <2> HIDE DEF k
    <2>1. LedgerOf \in Seq(Requests) /\ Len(LedgerOf) = k
      BY <1>2
    <2>2. /\ Append(LedgerOf, Req(w)) \in Seq(Requests)
          /\ Len(Append(LedgerOf, Req(w))) = k + 1
          /\ \A i \in 1..k : Append(LedgerOf, Req(w))[i] = LedgerOf[i]
          /\ Append(LedgerOf, Req(w))[k + 1] = Req(w)
      BY <1>1, <1>2, <2>1, AppendProperties
    <2>3. LedgerOf' \in Seq(Requests) /\ Len(LedgerOf') = k + 1
      BY <1>1, <1>2, <1>4
    <2>4. \A i \in 1..(k + 1) : LedgerOf'[i] = Append(LedgerOf, Req(w))[i]
      BY <1>2, <1>4, <2>2
    <2>5. QED
      BY <2>2, <2>3, <2>4, SeqEqual
  <1>6. LedgerHolds'
    <2>1. Cardinality(Taken)' = k + 1
      BY <1>1, <1>3
    <2>2. \A r : (\E i \in 1..(k + 1) : LedgerOf'[i] = r)
                   <=> (\E a \in Taken \cup {n} : a.req = r)
      <3> SUFFICES ASSUME NEW r
                   PROVE  (\E i \in 1..(k + 1) : LedgerOf'[i] = r)
                            <=> (\E a \in Taken \cup {n} : a.req = r)
        OBVIOUS
      <3>1. (\E i \in 1..(k + 1) : LedgerOf'[i] = r)
              <=> (r = Req(w) \/ \E i \in 1..k : LedgerOf[i] = r)
        <4> HIDE DEF k
        <4>1. k + 1 \in 1..(k + 1) /\ \A i \in 1..k : i \in 1..(k + 1) /\ i # k + 1
          BY <1>2
        <4>2. \A i \in 1..(k + 1) : i = k + 1 \/ i \in 1..k
          BY <1>2
        <4>3. QED
          BY <1>4, <4>1, <4>2
      <3>2. QED
        BY <1>1, <1>2, <3>1
    <2>3. Taken' = Taken \cup {n}
      BY <1>1
    <2>4. QED
      BY <2>1, <2>2, <2>3 DEF LedgerHolds
  <1>7. RowsOrdered'
    <2>1. IsFiniteSet(actions')
      BY <1>1, FS_AddElement DEF SerialInv, RowsOrdered
    <2>2. \A a, b \in actions' : a.seq = b.seq => a = b
      BY <1>1 DEF SerialInv, RowsOrdered
    <2>3. QED
      BY <1>1, <2>1, <2>2 DEF SerialInv, RowsOrdered
  <1>8. QED
    BY <1>5, <1>6, <1>7

\* The head is one row, and its hash the one the next action must name.
LEMMA HeadIs ==
  ASSUME SerialInv, NEW a \in actions, IsHead(a)
  PROVE  HeadHash = ActionHash(a)
  <1>1. \A b \in Heads : b = a
    BY DEF Heads, IsHead, SerialInv, RowsOrdered, TypeInv, TypeOK, Actions, Audit
  <1>2. Heads = {a}
    BY <1>1 DEF Heads
  <1>3. QED
    BY <1>2 DEF HeadHash

LEMMA CommitHead ==
  ASSUME SerialInv, NEW w \in Workers, Commit(w)
  PROVE  /\ Op(w) \in ChainOps => HeadHash' = Req(w)
         /\ Op(w) = "migrate" => HeadHash' = Migration
         /\ Op(w) = "legacy_deregister" => HeadHash' = HeadHash
  <1> DEFINE n == NewAction(w)
  <1>1. /\ n.req = Req(w) /\ OpOf(n) = Op(w) /\ Op(w) \in Ops /\ n.seq \in Nat
        /\ \A a \in actions : a.seq \in Nat /\ a.seq < n.seq
        /\ actions' = actions \cup {n}
    BY CommitAdds
  <1> HIDE DEF n
  <1>2. Heads' = {a \in actions' : InChain(a) /\ \A b \in actions' : InChain(b) => b.seq <= a.seq}
    BY DEF Heads, IsHead
  <1>3. CASE Op(w) \in ChainOps \cup {"migrate"}
    <2>1. InChain(n)
      BY <1>1, <1>3 DEF InChain
    <2>2. Heads' = {n}
      BY <1>1, <1>2, <2>1
    <2>3. HeadHash' = ActionHash(n)
      BY <2>2 DEF HeadHash, ActionHash
    <2>4. ActionHash(n) = IF Op(w) = "migrate" THEN Migration ELSE Req(w)
      BY <1>1 DEF ActionHash
    <2>5. QED
      BY <1>3, <2>3, <2>4 DEF ChainOps
  <1>4. CASE Op(w) = "legacy_deregister"
    <2>1. ~InChain(n)
      BY <1>1, <1>4 DEF InChain, ChainOps
    <2>2. Heads' = Heads
      BY <1>1, <1>2, <2>1 DEF Heads, IsHead
    <2>3. QED
      BY <1>4, <2>2 DEF HeadHash, ActionHash, ChainOps
  <1>5. QED
    BY <1>1, <1>3, <1>4 DEF Ops

LEMMA SerialCommit ==
  ASSUME SerialInv, OneAtATime, NEW w \in Workers, Commit(w)
  PROVE  SerialInv'
  <1>1. /\ TypeInv' /\ TypeInv
        /\ ~At(w, "idle") /\ tx'[w] = NoTx /\ \A v \in Workers \ {w} : tx'[v] = tx[v]
    BY CommitHolds, TypeCommit DEF SerialInv
  <1>2. AllJudged'
    BY <1>1 DEF AllJudged, Busy, OneAtATime, At, NoTx
  <1>3. /\ OpOf(NewAction(w)) = Op(w) /\ Op(w) \in Ops
        /\ actions' = actions \cup {NewAction(w)} /\ asset' = NewAsset(w)
    BY CommitAdds DEF Commit
  <1>4. RowsTell'
    <2>1. asset \in Assets
      BY <1>1 DEF TypeInv, TypeOK
    <2>2. /\ asset'.status = IF Op(w) \in {"deregister", "legacy_deregister"}
                             THEN "deregistered" ELSE asset.status
          /\ asset'.source = IF Op(w) = "migrate"
                             THEN "migrated_legacy_record" ELSE asset.source
      BY <1>3, <2>1 DEF NewAsset, Assets
    <2>3. QED
      BY <1>3, <2>2 DEF SerialInv, RowsTell
  <1>5. QED
    BY <1>1, <1>2, <1>4, CommitAppends DEF SerialInv

-----------------------------------------------------------------------------
(* The refinement.                                                         *)

\* The abstract ledger's requests are those of the committed rows.
LEMMA DoneIs ==
  ASSUME SerialInv
  PROVE  /\ \A q : q \in Abstract!Done <=> \E a \in Taken : a.req = q
         /\ \A a \in Taken : OpOf(a) = Body[a.req].op
         /\ \A a \in actions : OpOf(a) = "register" \/ a \in Taken
  <1>1. /\ LedgerOf \in [1..Cardinality(Taken) -> Requests]
        /\ \A r : (\E i \in 1..Cardinality(Taken) : LedgerOf[i] = r)
                    <=> (\E a \in Taken : a.req = r)
    BY LedgerType
  <1>2. \A q : q \in Abstract!Done <=> \E i \in 1..Cardinality(Taken) : LedgerOf[i] = q
    BY <1>1 DEF Abstract!Done
  <1>3. \A a \in Taken : OpOf(a) = Body[a.req].op
    BY DEF Taken, OpOf
  <1>4. \A a \in actions : OpOf(a) = "register" \/ a \in Taken
    BY DEF Taken
  <1>5. QED
    BY <1>1, <1>2, <1>3, <1>4

LEMMA MigratedIs ==
  ASSUME SerialInv
  PROVE  Abstract!Migrated <=> \E a \in actions : OpOf(a) = "migrate"
  <1>1. \A a \in actions : OpOf(a) = "migrate" => a \in Taken
    BY DEF Taken
  <1>2. Taken \subseteq actions
    BY DEF Taken
  <1>3. QED
    BY <1>1, <1>2, DoneIs DEF Abstract!Migrated

\* What the handler checked is what the ledger asks for.
LEMMA CommitAcceptable ==
  ASSUME SerialInv, NEW w \in Workers, Commit(w), Op(w) \in ChainOps
  PROVE  Abstract!Acceptable(Req(w))
  <1>1. Judged(w) /\ At(w, "commit") /\ IssuerJudged(w)
    BY CommitAdds DEF Judged
  <1>2. asset.status = "active" /\ Body[Req(w)].signer = asset.pubkey
    BY <1>1 DEF Judged, IssuerJudged, At
  <1>3. InitialSource = "contract" \/ Abstract!Migrated
    BY <1>1, MigratedIs, InitialAssumption
       DEF IssuerJudged, SerialInv, RowsTell, Sources
  <1>4. Body[Req(w)].prev = HeadHash
    <2>1. PICK a \in actions : IsHead(a) /\ ActionHash(a) = Body[Req(w)].prev
      BY <1>1 DEF IssuerJudged, At, PrevMatches
    <2>2. QED
      BY <2>1, HeadIs
  <1>5. ASSUME NEW d \in Abstract!Done, Abstract!ByIssuer(d)
        PROVE  Body[d].nonce # Body[Req(w)].nonce /\ Body[d].time <= Body[Req(w)].time
    <2>1. PICK a \in Taken : a.req = d
      BY DoneIs
    <2>2. a \in actions /\ OpOf(a) \in ChainOps
      BY <1>5, <2>1, DoneIs DEF Abstract!ByIssuer, ChainOps, Taken
    <2>3. Body[d].nonce # Body[Req(w)].nonce
      BY <1>1, <2>1, <2>2 DEF IssuerJudged, HasNonce, At
    <2>4. NotOlder(Body[Req(w)].time)
      BY <1>1 DEF IssuerJudged, At
    <2>5. ~ \E b \in actions : OpOf(b) = "legacy_deregister"
      BY <1>2 DEF SerialInv, RowsTell
    <2>6. QED
      BY <2>1, <2>2, <2>3, <2>4, <2>5 DEF NotOlder
  <1>6. QED
    BY <1>2, <1>3, <1>4, <1>5 DEF Abstract!Acceptable

Pairs(C) == {<<c.name, c.value>> : c \in C}

\* An edit replaces the names it clears, and changes something.
LEMMA CommitEdits ==
  ASSUME SerialInv, NEW w \in Workers, Commit(w), Op(w) = "edit"
  PROVE  /\ Pairs(children') =
              {p \in Pairs(children) : p[1] \notin Body[Req(w)].clears}
                \cup Body[Req(w)].puts
         /\ Pairs(children') # Pairs(children)
  <1> DEFINE body   == Body[Req(w)]
             kept   == {c \in children : c.name \notin body.clears}
             put(p) == [name |-> p[1], value |-> p[2], by |-> tx[w].seq]
             after  == {p \in Pairs(children) : p[1] \notin body.clears} \cup body.puts
  <1>1. Judged(w) /\ At(w, "commit") /\ Req(w) \in Requests
    BY CommitAdds
  <1>2. tx[w].doomed = {c \in children : c.name \in body.clears} /\ ~IsNoOp(w)
    BY <1>1 DEF Judged, IssuerJudged, At, ChainOps
  <1>3. children' = kept \cup {put(p) : p \in body.puts}
    BY <1>2 DEF Commit, NewChildren, EditOps
  <1>4. /\ \A p \in body.puts : p = <<p[1], p[2]>> /\ p[1] \in body.clears
    BY <1>1, RequestsAssumption, EditsAssumption DEF RequestBody
  <1>5. Pairs(children') = after
    <2>1. ASSUME NEW q \in Pairs(children')
          PROVE  q \in after
      <3>1. PICK c \in children' : q = <<c.name, c.value>>
        BY <2>1 DEF Pairs
      <3>2. CASE c \in kept
        BY <3>1, <3>2 DEF Pairs
      <3>3. CASE c \in {put(p) : p \in body.puts}
        BY <1>4, <3>1, <3>3
      <3>4. QED
        BY <1>3, <3>1, <3>2, <3>3
    <2>2. ASSUME NEW q \in after
          PROVE  q \in Pairs(children')
      <3>1. CASE q \in body.puts
        <4>1. put(q) \in children' /\ q = <<put(q).name, put(q).value>>
          BY <1>3, <1>4, <3>1
        <4>2. QED
          BY <4>1 DEF Pairs
      <3>2. CASE q \in Pairs(children) /\ q[1] \notin body.clears
        <4>1. PICK c \in children : q = <<c.name, c.value>>
          BY <3>2 DEF Pairs
        <4>2. c \in kept
          BY <3>2, <4>1
        <4>3. QED
          BY <1>3, <4>1, <4>2 DEF Pairs
      <3>3. QED
        BY <3>1, <3>2
    <2>3. QED
      BY <2>1, <2>2
  <1>6. Pairs(children) # after
    <2>1. SUFFICES ASSUME Pairs(children) = after PROVE FALSE
      OBVIOUS
    <2> DEFINE covered == {<<c.name, c.value>> : c \in {d \in children : d.name \in body.clears}}
    <2>2. covered # body.puts
      BY <1>2 DEF IsNoOp, EditOps, Op
    <2>3. \A q : q \in covered <=> q \in Pairs(children) /\ q[1] \in body.clears
      BY DEF Pairs
    <2>4. \A q : q \in after /\ q[1] \in body.clears <=> q \in body.puts
      BY <1>4
    <2> HIDE DEF covered, after
    <2>5. \A q : q \in covered <=> q \in body.puts
      BY <2>1, <2>3, <2>4
    <2>6. covered = body.puts
      BY <2>5
    <2>7. QED
      BY <2>2, <2>6
  <1>7. QED
    BY <1>5, <1>6

\* Each commit is a step of the ledger.
LEMMA CommitRefines ==
  ASSUME SerialInv, NEW w \in Workers, Commit(w)
  PROVE  Abstract!Next
  <1>0. PICK r \in Requests : r = Req(w)
    BY CommitAdds
  <1>1. /\ Op(w) = Body[r].op /\ Op(w) \in Ops /\ Judged(w) /\ At(w, "commit")
        /\ LedgerOf' = Append(LedgerOf, r)
    BY <1>0, CommitAdds, CommitAppends DEF Op
  <1>2. asset' = NewAsset(w) /\ children' = NewChildren(w) /\ asset \in Assets
    BY DEF Commit, SerialInv, TypeInv, TypeOK
  <1>3. /\ asset'.status = IF Op(w) \in {"deregister", "legacy_deregister"}
                           THEN "deregistered" ELSE asset.status
        /\ asset'.pubkey = IF Op(w) = "rotate" THEN Body[r].newKey ELSE asset.pubkey
        /\ Op(w) # "edit" => children' = children
    BY <1>0, <1>2 DEF NewAsset, NewChildren, EditOps, Assets
  <1>4. /\ Op(w) \in ChainOps => HeadHash' = r
        /\ Op(w) = "migrate" => HeadHash' = Migration
        /\ Op(w) = "legacy_deregister" => HeadHash' = HeadHash
    BY <1>0, CommitHead
  <1>5. CASE Op(w) \in ChainOps
    <2>1. Abstract!Acceptable(r) /\ HeadHash' = r
      BY <1>0, <1>4, <1>5, CommitAcceptable
    <2>2. Op(w) = "edit" => Abstract!Edit(r)
      BY <1>0, <1>1, <1>3, CommitEdits DEF Abstract!Edit, Pairs
    <2>3. Op(w) = "rotate" => Abstract!Rotate(r)
      <3>1. ASSUME Op(w) = "rotate" PROVE Body[r].newKey # asset.pubkey
        BY <1>0, <1>1, <3>1 DEF Judged, IssuerJudged, At, IsNoOp, ChainOps
      <3>2. QED
        BY <1>1, <1>3, <3>1 DEF Abstract!Rotate
    <2>4. Op(w) = "deregister" => Abstract!Deregister(r)
      BY <1>1, <1>3 DEF Abstract!Deregister
    <2>5. Abstract!Accept(r)
      BY <1>1, <1>5, <2>1, <2>2, <2>3, <2>4 DEF Abstract!Accept, ChainOps
    <2>6. QED
      BY <2>5 DEF Abstract!Next
  <1>6. CASE Op(w) = "migrate"
    <2>1. asset.status = "active" /\ ~Abstract!Migrated
      BY <1>1, <1>6, MigratedIs DEF Judged, At
    <2>2. HeadHash' = Migration
      BY <1>4, <1>6
    <2>3. Abstract!Migrate(r)
      BY <1>1, <1>3, <1>6, <2>1, <2>2 DEF Abstract!Migrate
    <2>4. QED
      BY <2>3 DEF Abstract!Next
  <1>7. CASE Op(w) = "legacy_deregister"
    <2>1. asset.status = "active" /\ Body[r].signer = asset.pubkey
      BY <1>0, <1>1, <1>7 DEF Judged
    <2>2. HeadHash' = HeadHash
      BY <1>4, <1>7
    <2>3. Abstract!Withdraw(r)
      BY <1>1, <1>3, <1>7, <2>1, <2>2 DEF Abstract!Withdraw
    <2>4. QED
      BY <2>3 DEF Abstract!Next
  <1>8. QED
    BY <1>1, <1>5, <1>6, <1>7 DEF Ops

LEMMA SerialInit == Init => SerialInv /\ Abstract!Init
  <1> SUFFICES ASSUME Init PROVE SerialInv /\ Abstract!Init
    OBVIOUS
  <1> DEFINE first == [seq |-> 1, req |-> Genesis, key |-> InitialKey]
  <1>1. TypeInv
    BY TypeInit
  <1>2. AllJudged
    BY DEF Init, AllJudged, Busy, At, NoTx
  <1>3. actions = {first} /\ sequence = 1 /\ OpOf(first) = "register"
    BY DEF Init, OpOf
  <1>4. RowsOrdered
    <2>1. IsFiniteSet(actions)
      BY <1>3, FS_Singleton
    <2>2. \A a \in actions : a = first /\ a.seq = 1
      BY <1>3
    <2>3. QED
      BY <1>3, <2>1, <2>2 DEF RowsOrdered
  <1>5. RowsTell
    BY <1>3 DEF Init, Registered, RowsTell
  <1>6. Taken = {} /\ Cardinality(Taken) = 0
    BY <1>3, FS_EmptySet DEF Taken
  <1>7. LedgerOf = <<>> /\ LedgerHolds
    BY <1>6 DEF LedgerOf, LedgerHolds
  <1>8. HeadHash = Genesis
    <2>1. \A a \in actions : ActionHash(a) = Genesis
      BY <1>3 DEF ActionHash
    <2>2. Heads \subseteq actions
      BY DEF Heads
    <2>3. QED
      BY <2>1, <2>2 DEF HeadHash
  <1>9. Abstract!Init
    BY <1>7, <1>8 DEF Abstract!Init, Init, Registered
  <1>10. QED
    BY <1>1, <1>2, <1>4, <1>5, <1>7, <1>9 DEF SerialInv

LEMMA SerialStep ==
  SerialInv /\ OneAtATime /\ [Next]_vars => SerialInv' /\ [Abstract!Next]_(Abstract!vars)
  <1> SUFFICES ASSUME SerialInv, OneAtATime, [Next]_vars
               PROVE  SerialInv' /\ [Abstract!Next]_(Abstract!vars)
    OBVIOUS
  <1>1. CASE \E w \in Workers : Commit(w)
    BY <1>1, SerialCommit, CommitRefines
  <1>2. CASE \A w \in Workers : ~Commit(w)
    <2>1. SerialInv' /\ UNCHANGED rows
      BY <1>2, SerialWork
    <2>2. UNCHANGED <<asset, actions, children>>
      BY <2>1 DEF rows
    <2>3. UNCHANGED <<LedgerOf, HeadHash>>
      BY <2>2 DEF LedgerOf, Taken, HeadHash, Heads, IsHead
    <2>4. UNCHANGED Abstract!vars
      BY <2>2, <2>3 DEF Abstract!vars
    <2>5. QED
      BY <2>1, <2>4
  <1>3. QED
    BY <1>1, <1>2

\* While the requests for a registration are handled one at a time, whatever
\* crashes, lock timeouts and repeated deliveries there are, every commit is a
\* step of the ledger and nothing else changes it: the checks, each of its own
\* snapshot, add up to one atomic judgement.
THEOREM SerialImplementsLedger == Spec /\ []OneAtATime => ImplementsLedger
  <1>1. Init => SerialInv /\ Abstract!Init
    BY SerialInit
  <1>2. SerialInv /\ OneAtATime /\ [Next]_vars =>
          SerialInv' /\ [Abstract!Next]_(Abstract!vars)
    BY SerialStep
  <1>3. QED
    BY <1>1, <1>2, PTL DEF Spec, ImplementsLedger, Abstract!Spec

\* The run with one handler is the case of a single worker.
COROLLARY OneHandlerImplementsLedger ==
  ASSUME NEW h, Workers = {h}
  PROVE  Spec => ImplementsLedger
  <1>1. OneAtATime
    BY DEF OneAtATime, Busy
  <1>2. QED
    BY <1>1, SerialImplementsLedger, PTL

-----------------------------------------------------------------------------
(* The chain, while requests are handled one at a time.                    *)

\* The hash an accepted action adds is new: a request is accepted once, and a
\* migration is.
LEMMA CommitHashNew ==
  ASSUME SerialInv, NEW w \in Workers, Commit(w)
  PROVE  /\ Op(w) \in ChainOps => Req(w) \notin Known
         /\ Op(w) = "migrate" => Migration \notin Known
  <1>1. Judged(w) /\ At(w, "commit") /\ Req(w) \in Requests
    BY CommitAdds
  <1>2. ASSUME NEW a \in actions, InChain(a)
        PROVE  \/ OpOf(a) = "register" /\ ActionHash(a) = Genesis
               \/ OpOf(a) = "migrate" /\ ActionHash(a) = Migration
               \/ HasNonce(a) /\ ActionHash(a) = a.req /\ a.req \in Requests
    <2>1. OpOf(a) = "register" => a.req = Genesis
      <3>1. a.req \in Requests \cup {Genesis}
        BY DEF SerialInv, TypeInv, TypeOK, Actions
      <3>2. \A r \in Requests : Body[r].op # "register"
        BY RequestsAssumption DEF RequestBody, Ops, ChainOps
      <3>3. QED
        BY <3>1, <3>2 DEF OpOf
    <2>2. OpOf(a) # "register" => a.req \in Requests
      BY DEF OpOf, SerialInv, TypeInv, TypeOK, Actions
    <2>3. QED
      BY <1>2, <2>1, <2>2 DEF InChain, ActionHash, HasNonce, ChainOps
  <1>3. ASSUME Op(w) \in ChainOps PROVE Req(w) \notin Known
    <2>1. \A a \in actions : HasNonce(a) => a.req # Req(w)
      BY <1>1, <1>3 DEF Judged, IssuerJudged, At
    <2>2. QED
      BY <1>1, <1>2, <2>1, HashAssumption DEF Known
  <1>4. ASSUME Op(w) = "migrate" PROVE Migration \notin Known
    <2>1. \A a \in actions : OpOf(a) # "migrate"
      BY <1>1, <1>4 DEF Judged, At
    <2>2. QED
      BY <1>2, <2>1, HashAssumption DEF Known
  <1>5. QED
    BY <1>3, <1>4

LEMMA ChainCommit ==
  ASSUME ChainInv, NEW w \in Workers, Commit(w)
  PROVE  HeadUnfollowed' /\ ChainIsLinear'
  <1> DEFINE n == NewAction(w)
  <1>1. /\ SerialInv
        /\ n.req = Req(w) /\ OpOf(n) = Op(w) /\ Op(w) \in Ops
        /\ actions' = actions \cup {n} /\ Judged(w) /\ At(w, "commit")
    BY CommitAdds DEF ChainInv
  <1>2. /\ Op(w) \in ChainOps => HeadHash' = Req(w) /\ Req(w) \notin Known
        /\ Op(w) = "migrate" => HeadHash' = Migration /\ Migration \notin Known
        /\ Op(w) = "legacy_deregister" => HeadHash' = HeadHash
    BY <1>1, CommitHead, CommitHashNew
  <1> HIDE DEF n
  <1>3. /\ InChain(n) <=> Op(w) \in ChainOps \cup {"migrate"}
        /\ HasNonce(n) <=> Op(w) \in ChainOps
        /\ InChain(n) => ActionHash(n) = HeadHash'
    BY <1>1, <1>2 DEF InChain, HasNonce, ActionHash, Ops, ChainOps
  <1>4. Known' = Known \cup {ActionHash(a) : a \in {b \in {n} : InChain(b)}}
    BY <1>1 DEF Known, ActionHash
  <1>5. \A a \in actions : HasNonce(a) => /\ Body[a.req].prev \in Known'
                                         /\ Body[a.req].prev # HeadHash
                                         /\ Body[a.req].prev # HeadHash'
    BY <1>1, <1>2, <1>4 DEF ChainInv, HeadUnfollowed, Ops
  <1>6. HasNonce(n) => /\ Body[n.req].prev = HeadHash
                       /\ Body[n.req].prev \in Known'
                       /\ Body[n.req].prev # HeadHash'
    <2> SUFFICES ASSUME HasNonce(n)
                 PROVE  /\ Body[n.req].prev = HeadHash /\ HeadHash \in Known'
                        /\ HeadHash # HeadHash'
      OBVIOUS
    <2>1. PICK a \in actions : IsHead(a) /\ ActionHash(a) = Body[n.req].prev
      BY <1>1, <1>3 DEF Judged, IssuerJudged, At, PrevMatches
    <2>2. HeadHash = ActionHash(a)
      BY <1>1, <2>1, HeadIs
    <2>3. HeadHash \in Known
      BY <2>1, <2>2 DEF IsHead, Known
    <2>4. QED
      BY <1>2, <1>3, <1>4, <2>1, <2>2, <2>3
  <1>7. HeadUnfollowed'
    BY <1>1, <1>5, <1>6 DEF HeadUnfollowed, HasNonce, OpOf
  <1>8. ChainIsLinear'
    BY <1>1, <1>5, <1>6 DEF ChainInv, ChainIsLinear, HasNonce, OpOf
  <1>9. QED
    BY <1>7, <1>8

LEMMA ChainStep == ChainInv /\ OneAtATime /\ [Next]_vars => ChainInv'
  <1> SUFFICES ASSUME ChainInv, OneAtATime, [Next]_vars
               PROVE  HeadUnfollowed' /\ ChainIsLinear'
    BY SerialStep DEF ChainInv
  <1>1. CASE \E w \in Workers : Commit(w)
    BY <1>1, ChainCommit
  <1>2. CASE \A w \in Workers : ~Commit(w)
    <2>1. actions' = actions
      BY <1>2, SerialWork DEF rows, ChainInv
    <2>2. QED
      BY <2>1 DEF ChainInv, HeadUnfollowed, ChainIsLinear, Known, HeadHash, Heads, IsHead
  <1>3. QED
    BY <1>1, <1>2

\* "prev_action_hash must match the latest accepted issuer-chain action hash":
\* what concurrent handlers break (the AssetFork run) holds for requests handled
\* one at a time, so that no two accepted actions follow the same one.
THEOREM SerialChainIsLinear == Spec /\ []OneAtATime => []ChainIsLinear
  <1>1. Init => ChainInv
    <2> SUFFICES ASSUME Init PROVE ChainInv
      OBVIOUS
    <2>1. SerialInv
      BY SerialInit
    <2>2. \A a \in actions : ~HasNonce(a)
      BY DEF Init, HasNonce, OpOf, ChainOps
    <2>3. QED
      BY <2>1, <2>2 DEF ChainInv, HeadUnfollowed, ChainIsLinear
  <1>2. ChainInv => ChainIsLinear
    BY DEF ChainInv
  <1>3. QED
    BY <1>1, <1>2, ChainStep, PTL DEF Spec

-----------------------------------------------------------------------------
(* What remains of the chain when handlers overlap.                        *)

\* What a handler goes on from, with smaller audit ids than it draws: an interval
\* of the key it read, the row it found at the head, a signature by that key.
Traced(w) ==
  /\ Inserted(w) => tx[w].seq <= sequence
  /\ \E h \in history : h.key = tx[w].key /\ (Inserted(w) => h.from < tx[w].seq)
  /\ Op(w) \in ChainOps /\ tx[w].pc \notin {"nonce", "chain"} =>
       \E b \in actions : /\ InChain(b) /\ ActionHash(b) = Body[Req(w)].prev
                          /\ Inserted(w) => b.seq < tx[w].seq
  /\ Op(w) \in ChainOps /\ tx[w].pc \notin {"nonce", "chain", "fresh"} =>
       Body[Req(w)].signer = tx[w].key

AllTraced == \A w \in Busy : Traced(w)

\* No committed row has an audit id that was not drawn.
Drawn ==
  /\ \A a \in actions : a.seq <= sequence
  /\ \A h \in history : h.from <= sequence

TreeInv == KeyInv /\ AllTraced /\ Drawn /\ ChainIsATree /\ SignedByPublishedKey

\* The history loses no interval, whatever is closed in it.
HistoryStays ==
  \A h \in history : \E g \in history' : g.key = h.key /\ g.from = h.from

LEMMA TracedStays ==
  ASSUME TypeInv, TypeInv', NEW v \in Workers, Traced(v), tx'[v] = tx[v],
         sequence <= sequence', HistoryStays, actions \subseteq actions'
  PROVE  Traced(v)'
  <1>1. /\ Req(v)' = Req(v) /\ Op(v)' = Op(v) /\ Inserted(v)' = Inserted(v)
        /\ sequence \in Nat /\ sequence' \in Nat /\ tx[v].seq \in Nat
    BY DEF Req, Op, Inserted, TypeInv, TypeOK, Audit, Txs
  <1>2. Inserted(v)' => tx'[v].seq <= sequence'
    BY <1>1 DEF Traced
  <1>3. \E g \in history' : g.key = tx'[v].key /\ (Inserted(v)' => g.from < tx'[v].seq)
    <2>1. PICK h \in history : h.key = tx[v].key /\ (Inserted(v) => h.from < tx[v].seq)
      BY DEF Traced
    <2>2. PICK g \in history' : g.key = h.key /\ g.from = h.from
      BY DEF HistoryStays
    <2>3. QED
      BY <1>1, <2>1, <2>2
  <1>4. QED
    BY <1>1, <1>2, <1>3 DEF Traced

\* A step over rows that stay keeps what every other handler goes on from.
LEMMA TreeFrame ==
  ASSUME TreeInv, TypeInv', UNCHANGED rows, sequence <= sequence',
         NEW w \in Workers, \A v \in Workers \ {w} : tx'[v] = tx[v],
         ~At(w, "idle")' => Traced(w)'
  PROVE  AllTraced' /\ Drawn' /\ ChainIsATree' /\ SignedByPublishedKey'
  <1>1. /\ TypeInv /\ UNCHANGED <<actions, history>> /\ HistoryStays
        /\ sequence \in Nat /\ sequence' \in Nat
    BY DEF TreeInv, KeyInv, rows, HistoryStays, TypeInv, TypeOK, Audit
  <1>2. \A v \in Workers \ {w} : ~At(v, "idle")' => Traced(v)'
    <2> SUFFICES ASSUME NEW v \in Workers \ {w}, ~At(v, "idle")' PROVE Traced(v)'
      OBVIOUS
    <2>1. Traced(v)
      BY DEF TreeInv, AllTraced, Busy, At
    <2>2. QED
      BY <1>1, <2>1, TracedStays
  <1>3. AllTraced'
    BY <1>2 DEF AllTraced, Busy
  <1>4. \A a \in actions : a.seq \in Nat
    BY <1>1 DEF TypeInv, TypeOK, Actions, Audit
  <1>5. \A h \in history : h.from \in Nat
    BY <1>1 DEF TypeInv, TypeOK, History, Audit
  <1>6. Drawn'
    BY <1>1, <1>4, <1>5 DEF TreeInv, Drawn
  <1>7. ChainIsATree' /\ SignedByPublishedKey'
    BY <1>1 DEF TreeInv, ChainIsATree, SignedByPublishedKey
  <1>8. QED
    BY <1>3, <1>6, <1>7

\* A handler that goes on with the same request and key, and adds what the check
\* it passed has shown.
LEMMA TracedGoes ==
  ASSUME TreeInv, TypeInv', NEW w \in Workers, ~At(w, "idle"), UNCHANGED rows,
         sequence <= sequence', tx'[w].req = tx[w].req, tx'[w].key = tx[w].key,
         \/ tx'[w].seq = tx[w].seq
         \/ tx'[w].seq = sequence + 1 /\ sequence' = sequence + 1,
         \/ At(w, "nonce") /\ At(w, "chain")'
         \/ At(w, "chain") /\ At(w, "fresh")' /\ PrevMatches(w)
         \/ At(w, "fresh") /\ Body[Req(w)].signer = tx[w].key
         \/ tx[w].pc \notin {"nonce", "chain", "fresh"}
  PROVE  Traced(w)'
  <1>1. /\ TypeInv /\ UNCHANGED <<actions, history>>
        /\ sequence \in Nat /\ sequence' \in Nat /\ tx[w].seq \in Nat
        /\ Req(w)' = Req(w) /\ Op(w)' = Op(w)
    BY DEF TreeInv, KeyInv, rows, TypeInv, TypeOK, Audit, Txs, Req, Op
  <1>2. Traced(w)
    BY DEF TreeInv, AllTraced, Busy
  <1>3. /\ \A a \in actions : a.seq \in Nat /\ a.seq <= sequence
        /\ \A h \in history : h.from \in Nat /\ h.from <= sequence
    BY <1>1 DEF TreeInv, Drawn, TypeInv, TypeOK, Actions, History, Audit
  \* What the handler knew of smaller ids stays true of the one it has now.
  <1>4. ASSUME NEW k \in Nat, k <= sequence, Inserted(w) => k < tx[w].seq
        PROVE  Inserted(w)' => k < tx'[w].seq
    <2>1. CASE tx'[w].seq = tx[w].seq
      BY <1>4, <2>1 DEF Inserted
    <2>2. CASE tx'[w].seq = sequence + 1
      BY <1>1, <1>4, <2>2
    <2>3. QED
      BY <2>1, <2>2
  <1>5. Inserted(w)' => tx'[w].seq <= sequence'
    <2>1. CASE tx'[w].seq = tx[w].seq
      BY <1>1, <1>2, <2>1 DEF Traced, Inserted
    <2>2. CASE tx'[w].seq = sequence + 1 /\ sequence' = sequence + 1
      BY <1>1, <2>2
    <2>3. QED
      BY <2>1, <2>2
  <1>6. \E h \in history' : h.key = tx'[w].key /\ (Inserted(w)' => h.from < tx'[w].seq)
    <2>1. PICK h \in history : h.key = tx[w].key /\ (Inserted(w) => h.from < tx[w].seq)
      BY <1>2 DEF Traced
    <2>2. Inserted(w)' => h.from < tx'[w].seq
      BY <1>3, <1>4, <2>1
    <2>3. QED
      BY <1>1, <2>1, <2>2
  <1>7. ASSUME Op(w) \in ChainOps, tx'[w].pc \notin {"nonce", "chain"}
        PROVE  \E b \in actions' : /\ InChain(b) /\ ActionHash(b) = Body[Req(w)].prev
                                   /\ Inserted(w)' => b.seq < tx'[w].seq
    <2>1. \E b \in actions : /\ InChain(b) /\ ActionHash(b) = Body[Req(w)].prev
                             /\ Inserted(w) => b.seq < tx[w].seq
      <3>1. CASE At(w, "chain")
        <4>1. ~Inserted(w)
          BY <1>1, <3>1 DEF At, Inserted, TypeInv, TxsOK, LabelOK, InsertedLabels
        <4>2. PrevMatches(w)
          BY <3>1 DEF At
        <4>3. QED
          BY <4>1, <4>2 DEF PrevMatches, IsHead
      <3>2. CASE tx[w].pc \notin {"nonce", "chain"}
        BY <1>2, <1>7, <3>2 DEF Traced
      <3>3. QED
        BY <1>7, <3>1, <3>2 DEF At
    <2>2. PICK b \in actions : /\ InChain(b) /\ ActionHash(b) = Body[Req(w)].prev
                               /\ Inserted(w) => b.seq < tx[w].seq
      BY <2>1
    <2>3. Inserted(w)' => b.seq < tx'[w].seq
      BY <1>3, <1>4, <2>2
    <2>4. QED
      BY <1>1, <2>2, <2>3
  <1>8. ASSUME Op(w) \in ChainOps, tx'[w].pc \notin {"nonce", "chain", "fresh"}
        PROVE  Body[Req(w)].signer = tx'[w].key
    BY <1>2, <1>8 DEF Traced, At
  <1>9. QED
    BY <1>1, <1>5, <1>6, <1>7, <1>8 DEF Traced

LEMMA TreeReceives ==
  ASSUME TreeInv, TypeInv', NEW w \in Workers, NEW r \in Requests, Receive(w, r)
  PROVE  AllTraced' /\ Drawn' /\ ChainIsATree' /\ SignedByPublishedKey'
  <1>1. /\ UNCHANGED rows /\ sequence' = sequence /\ sequence \in Nat
        /\ TypeInv /\ OneOpenKey
    BY DEF Receive, ReadAsset, ReadForMigration, ReadForLegacyDelete,
           TreeInv, KeyInv, TypeInv, TypeOK, Audit
  <1>2. \/ UNCHANGED tx
        \/ \E label \in {"nonce", "migrated", "delete_fragment"} :
             /\ BeginAt(w, r, label)
             /\ label # "nonce" => Body[r].op \notin ChainOps
    BY DEF Receive, ReadAsset, ReadForMigration, ReadForLegacyDelete, AnswerAtOnce,
           ChainOps
  <1>3. CASE UNCHANGED tx
    <2>1. ~At(w, "idle")' => Traced(w)'
      BY <1>1, <1>3 DEF TreeInv, AllTraced, Busy, Traced, At, Op, Req, Inserted, rows
    <2>2. QED
      BY <1>1, <1>3, <2>1, TreeFrame
  <1>4. ASSUME NEW label \in {"nonce", "migrated", "delete_fragment"},
               BeginAt(w, r, label), label # "nonce" => Body[r].op \notin ChainOps
        PROVE  AllTraced' /\ Drawn' /\ ChainIsATree' /\ SignedByPublishedKey'
    <2>1. /\ tx'[w].pc = label /\ tx'[w].req = r /\ tx'[w].key = asset.pubkey
          /\ tx'[w].seq = 0 /\ \A v \in Workers \ {w} : tx'[v] = tx[v]
      BY <1>1, <1>4 DEF BeginAt, NoTx, TypeInv, TypeOK
    <2>2. ~Inserted(w)' /\ Op(w)' = Body[r].op
      BY <2>1 DEF Inserted, Op, Req
    <2>3. \E h \in history' : h.key = tx'[w].key
      BY <1>1, <2>1 DEF OneOpenKey, rows
    <2>4. Traced(w)'
      BY <1>4, <2>1, <2>2, <2>3 DEF Traced
    <2>5. QED
      BY <1>1, <2>1, <2>4, TreeFrame
  <1>5. QED
    BY <1>2, <1>3, <1>4

LEMMA TreeEnds ==
  ASSUME TreeInv, TypeInv', NEW w \in Workers, NEW answers, End(w, answers),
         UNCHANGED rows, sequence <= sequence'
  PROVE  AllTraced' /\ Drawn' /\ ChainIsATree' /\ SignedByPublishedKey'
  <1>1. tx'[w] = NoTx /\ \A v \in Workers \ {w} : tx'[v] = tx[v]
    BY DEF End, TreeInv, KeyInv, TypeInv, TypeOK
  <1>2. At(w, "idle")'
    BY <1>1 DEF At, NoTx
  <1>3. QED
    BY <1>1, <1>2, TreeFrame

LEMMA TreeWorks ==
  ASSUME TreeInv, TypeInv', NEW w \in Workers, Step(w), ~Commit(w)
  PROVE  AllTraced' /\ Drawn' /\ ChainIsATree' /\ SignedByPublishedKey'
  <1> DEFINE Kept == AllTraced' /\ Drawn' /\ ChainIsATree' /\ SignedByPublishedKey'
  <1>1. /\ TypeInv /\ UNCHANGED rows /\ sequence \in Nat /\ tx[w] \in Txs
        /\ sequence' \in {sequence, sequence + 1} /\ sequence <= sequence'
        /\ ~At(w, "idle")
    <2>1. TypeInv /\ sequence \in Nat /\ tx[w] \in Txs
      BY DEF TreeInv, KeyInv, TypeInv, TypeOK, Audit
    <2>2. UNCHANGED rows /\ sequence' \in {sequence, sequence + 1} /\ ~At(w, "idle")
      BY DEF Step, IssuerStep, CheckNonce, CheckChain, CheckFresh, CheckNoOp, Check,
             DeleteChildren, LockChildren, ReadOpenKey, LegacyStep, CheckMigrated,
             DeleteFragment, InsertAction, Flush, WriteFragment, At, rows
    <2>3. QED
      BY <2>1, <2>2
  <1>2. CASE \E answers : End(w, answers)
    BY <1>1, <1>2, TreeEnds
  <1>3. ASSUME tx'[w].req = tx[w].req, tx'[w].key = tx[w].key,
               \/ tx'[w].seq = tx[w].seq
               \/ tx'[w].seq = sequence + 1 /\ sequence' = sequence + 1,
               \/ At(w, "nonce") /\ At(w, "chain")'
               \/ At(w, "chain") /\ At(w, "fresh")' /\ PrevMatches(w)
               \/ At(w, "fresh") /\ Body[Req(w)].signer = tx[w].key
               \/ tx[w].pc \notin {"nonce", "chain", "fresh"},
               \A v \in Workers \ {w} : tx'[v] = tx[v]
        PROVE  Kept
    <2>1. Traced(w)'
      BY <1>1, <1>3, TracedGoes
    <2>2. QED
      BY <1>1, <1>3, <2>1, TreeFrame
  <1>4. ASSUME NEW label, Goto(w, label),
               \/ At(w, "nonce") /\ label = "chain"
               \/ At(w, "chain") /\ label = "fresh" /\ PrevMatches(w)
               \/ At(w, "fresh") /\ Body[Req(w)].signer = tx[w].key
               \/ tx[w].pc \notin {"nonce", "chain", "fresh"}
        PROVE  Kept
    <2>1. /\ tx'[w].pc = label /\ tx'[w].seq = tx[w].seq
          /\ tx'[w].req = tx[w].req /\ tx'[w].key = tx[w].key
          /\ \A v \in Workers \ {w} : tx'[v] = tx[v]
      BY <1>1, <1>4, GotoKeeps
    <2>2. QED
      BY <1>3, <1>4, <2>1 DEF At
  <1>5. CASE CheckNonce(w)
    BY <1>2, <1>4, <1>5 DEF CheckNonce
  <1>6. CASE CheckChain(w) \/ CheckFresh(w) \/ CheckNoOp(w)
    BY <1>2, <1>4, <1>6 DEF CheckChain, CheckFresh, CheckNoOp, Check, At
  <1>7. CASE CheckMigrated(w) \/ Flush(w)
    BY <1>2, <1>4, <1>7 DEF CheckMigrated, Flush, At
  <1>8. CASE DeleteChildren(w) \/ LockChildren(w) \/ ReadOpenKey(w)
    <2>1. /\ tx[w].pc \in {"delete", "deleting", "open"}
          /\ tx'[w].req = tx[w].req /\ tx'[w].key = tx[w].key
          /\ tx'[w].seq = tx[w].seq /\ \A v \in Workers \ {w} : tx'[v] = tx[v]
      BY <1>1, <1>8 DEF DeleteChildren, LockChildren, ReadOpenKey, At, TypeInv, TypeOK, Txs
    <2>2. QED
      BY <1>3, <2>1
  <1>9. CASE DeleteFragment(w) \/ WriteFragment(w)
    <2>1. /\ tx[w].pc \in {"delete_fragment", "fragment"}
          /\ tx'[w].req = tx[w].req /\ tx'[w].key = tx[w].key
          /\ tx'[w].seq = tx[w].seq /\ \A v \in Workers \ {w} : tx'[v] = tx[v]
      BY <1>1, <1>9 DEF DeleteFragment, WriteFragment, DropFragment, RefreshFragment,
         At, TypeInv, TypeOK, Txs
    <2>2. QED
      BY <1>3, <2>1
  <1>10. CASE InsertAction(w)
    <2>1. CASE NonceTaken(w)
      BY <1>2, <1>10, <2>1 DEF InsertAction
    <2>2. CASE ~NonceTaken(w)
      <3>1. /\ At(w, "insert") /\ sequence' = sequence + 1
            /\ tx'[w].req = tx[w].req /\ tx'[w].key = tx[w].key
            /\ tx'[w].seq = sequence + 1 /\ \A v \in Workers \ {w} : tx'[v] = tx[v]
        BY <1>1, <1>10, <2>2 DEF InsertAction, TypeInv, TypeOK, Txs
      <3>2. QED
        BY <1>3, <3>1 DEF At
    <2>3. QED
      BY <2>1, <2>2
  <1>11. QED
    BY <1>5, <1>6, <1>7, <1>8, <1>9, <1>10 DEF Step, IssuerStep, LegacyStep

LEMMA TreeCommits ==
  ASSUME TreeInv, TypeInv', NEW w \in Workers, Commit(w)
  PROVE  AllTraced' /\ Drawn' /\ ChainIsATree' /\ SignedByPublishedKey'
  <1> DEFINE n == NewAction(w)
  <1>1. /\ TypeInv /\ Inserted(w) /\ At(w, "commit") /\ ~At(w, "idle")
        /\ tx'[w] = NoTx /\ \A v \in Workers \ {w} : tx'[v] = tx[v]
    BY CommitHolds DEF TreeInv, KeyInv, Commit
  <1>2. /\ actions' = actions \cup {n} /\ history' = NewHistory(w)
        /\ sequence' = sequence /\ sequence \in Nat
    BY <1>1 DEF Commit, TypeInv, TypeOK, Audit
  <1>3. /\ n.seq = tx[w].seq /\ n.req = Req(w) /\ n.key = tx[w].key
        /\ HasNonce(n) <=> Op(w) \in ChainOps
    BY <1>1, NewActionSays DEF NewAction
  <1> HIDE DEF n
  <1>4. Traced(w)
    BY <1>1 DEF TreeInv, AllTraced, Busy
  <1>5. HistoryStays
    <2> SUFFICES ASSUME NEW h \in history
                 PROVE  \E g \in NewHistory(w) : g.key = h.key /\ g.from = h.from
      BY <1>2 DEF HistoryStays
    <2>1. CASE Op(w) # "rotate"
      BY <2>1 DEF NewHistory
    <2>2. CASE Op(w) = "rotate"
      <3> DEFINE g == IF h.from = tx[w].open THEN [h EXCEPT !.until = tx[w].seq] ELSE h
      <3>1. g \in NewHistory(w)
        BY <2>2 DEF NewHistory
      <3>2. h \in History
        BY <1>1 DEF TypeInv, TypeOK
      <3>3. g.key = h.key /\ g.from = h.from
        BY <3>2 DEF History
      <3> HIDE DEF g
      <3>4. QED
        BY <3>1, <3>3
    <2>3. QED
      BY <2>1, <2>2
  <1>6. AllTraced'
    <2> SUFFICES ASSUME NEW v \in Workers, ~At(v, "idle")' PROVE Traced(v)'
      BY DEF AllTraced, Busy
    <2>1. v # w
      BY <1>1 DEF At, NoTx
    <2>2. tx'[v] = tx[v] /\ Traced(v)
      BY <1>1, <2>1 DEF TreeInv, AllTraced, Busy, At
    <2>3. QED
      BY <1>1, <1>2, <1>5, <2>2, TracedStays
  <1>7. Drawn'
    <2>1. \A a \in actions' : a.seq <= sequence'
      BY <1>1, <1>2, <1>3, <1>4 DEF TreeInv, Drawn, Traced
    <2>2. \A h \in history' : h.from <= sequence'
      <3> SUFFICES ASSUME NEW h \in NewHistory(w) PROVE h.from <= sequence
        BY <1>2
      <3>1. \A g \in history : [g EXCEPT !.until = tx[w].seq].from = g.from
        BY <1>1 DEF TypeInv, TypeOK, History
      <3>2. h.from = tx[w].seq \/ \E g \in history : h.from = g.from
        <4>1. CASE h \in history
          BY <4>1
        <4>2. CASE \E g \in history : h = [g EXCEPT !.until = tx[w].seq]
          BY <3>1, <4>2
        <4>3. CASE h = [key |-> Body[Req(w)].newKey, from |-> tx[w].seq, until |-> Open]
          BY <4>3
        <4>4. QED
          BY <4>1, <4>2, <4>3 DEF NewHistory
      <3>3. QED
        BY <1>1, <1>4, <3>2 DEF TreeInv, Drawn, Traced
    <2>3. QED
      BY <2>1, <2>2 DEF Drawn
  <1>8. ChainIsATree'
    <2>1. HasNonce(n) => \E b \in actions : /\ InChain(b) /\ ActionHash(b) = Body[n.req].prev
                                            /\ b.seq < n.seq
      BY <1>1, <1>3, <1>4 DEF Traced, At
    <2>2. QED
      BY <1>2, <2>1 DEF TreeInv, ChainIsATree
  <1>9. SignedByPublishedKey'
    <2>1. HasNonce(n) => n.key = Body[n.req].signer
      BY <1>1, <1>3, <1>4 DEF Traced, At
    <2>2. \E h \in history : h.key = n.key /\ h.from < n.seq
      BY <1>1, <1>3, <1>4 DEF Traced
    <2>3. \A a \in actions' : HasNonce(a) =>
            /\ a.key = Body[a.req].signer
            /\ \E h \in history : h.key = a.key /\ h.from < a.seq
      BY <1>2, <2>1, <2>2 DEF TreeInv, SignedByPublishedKey
    <2>4. QED
      BY <1>5, <2>3 DEF SignedByPublishedKey, HistoryStays
  <1>10. QED
    BY <1>6, <1>7, <1>8, <1>9

LEMMA TreeBegins == Init => TreeInv
  <1> SUFFICES ASSUME Init PROVE TreeInv
    OBVIOUS
  <1>1. KeyInv
    BY KeyInit
  <1>2. AllTraced
    BY DEF Init, AllTraced, Busy, At, NoTx
  <1>3. Drawn
    BY DEF Init, Drawn
  <1>4. \A a \in actions : ~HasNonce(a)
    BY DEF Init, HasNonce, OpOf, ChainOps
  <1>5. QED
    BY <1>1, <1>2, <1>3, <1>4 DEF TreeInv, ChainIsATree, SignedByPublishedKey

LEMMA TreeStep == TreeInv /\ [Next]_vars => TreeInv'
  <1> SUFFICES ASSUME TreeInv, [Next]_vars
               PROVE  AllTraced' /\ Drawn' /\ ChainIsATree' /\ SignedByPublishedKey'
    BY KeyStep DEF TreeInv
  <1>1. TypeInv /\ TypeInv' /\ sequence \in Nat
    BY TypeStep DEF TreeInv, KeyInv, TypeInv, TypeOK, Audit
  <1>2. ASSUME NEW w \in Workers, NEW r \in Requests, Receive(w, r)
        PROVE  AllTraced' /\ Drawn' /\ ChainIsATree' /\ SignedByPublishedKey'
    BY <1>1, <1>2, TreeReceives
  <1>3. ASSUME NEW w \in Workers, Step(w)
        PROVE  AllTraced' /\ Drawn' /\ ChainIsATree' /\ SignedByPublishedKey'
    BY <1>1, <1>3, TreeWorks, TreeCommits
  <1>4. ASSUME NEW w \in Workers, LockTimeout(w) \/ Crash(w)
        PROVE  AllTraced' /\ Drawn' /\ ChainIsATree' /\ SignedByPublishedKey'
    <2>1. /\ \E answers : End(w, answers)
          /\ UNCHANGED rows /\ sequence' = sequence
      BY <1>4 DEF LockTimeout, Rollback, Crash
    <2>2. QED
      BY <1>1, <2>1, TreeEnds
  <1>5. CASE Tick \/ UNCHANGED vars
    <2>1. UNCHANGED <<actions, history, sequence, tx>>
      BY <1>5 DEF Tick, vars, rows
    <2>2. QED
      BY <2>1 DEF TreeInv, AllTraced, Drawn, ChainIsATree, SignedByPublishedKey,
                  Busy, Traced, At, Op, Req, Inserted
  <1>6. QED
    BY <1>2, <1>3, <1>4, <1>5 DEF Next

\* However handlers overlap, every accepted issuer action follows a committed row
\* of the chain and is signed by a key of the published history, both of smaller
\* audit ids: a fork, or a rotation that commits between the read of the key and
\* the insert of an action, leaves nothing that cannot be verified.
THEOREM ActionsStayVerifiable == Spec => []ActionsVerifiable
  <1>1. TreeInv => ActionsVerifiable
    BY DEF TreeInv, ActionsVerifiable
  <1>2. QED
    BY <1>1, TreeBegins, TreeStep, PTL DEF Spec
=============================================================================
