---------------------------- MODULE AssetActions -----------------------------
(***************************************************************************)
(* Every handler that writes one registration of an asset, any number of   *)
(* them at once, and the properties of the committed rows.                 *)
(***************************************************************************)
EXTENDS IssuerActions, LegacyLifecycle

Receive(w, r) ==
  \/ ReadAsset(w, r) \/ ReadForMigration(w, r) \/ ReadForLegacyDelete(w, r)

Step(w) ==
  \/ IssuerStep(w) \/ LegacyStep(w)
  \/ InsertAction(w) \/ Flush(w) \/ WriteFragment(w) \/ Commit(w)

Next ==
  \/ \E w \in Workers, r \in Requests : Receive(w, r)
  \/ \E w \in Workers : Step(w) \/ LockTimeout(w) \/ Crash(w)
  \/ Tick

\* A handler runs on; PostgreSQL grants a row lock in the order the waiters
\* queued for it (so a step that is enabled again and again is taken), and
\* enforces lock_timeout on a statement that keeps waiting.  Nothing makes a
\* client send, a process crash or the clock of the model move.
Fairness == \A w \in Workers : SF_vars(Step(w)) /\ WF_vars(LockTimeout(w))

Spec == Init /\ [][Next]_vars /\ Fairness
-----------------------------------------------------------------------------

\* The rows and transactions have their columns; a committed action has the
\* audit sequence its flush took.
TypeOK ==
  /\ asset \in Assets
  /\ actions \subseteq Actions
  /\ history \subseteq History
  /\ children \subseteq Children
  /\ fragment \subseteq Rendered
  /\ sequence \in Audit
  /\ now \in 0..MaxTime
  /\ tx \in [Workers -> Txs]
  /\ answer \subseteq Requests \X Answers

\* However often a signed request is delivered, and to however many handlers
\* at once, its nonce is used by one accepted issuer action.
AcceptedOnce ==
  \A a, b \in actions :
    HasNonce(a) /\ HasNonce(b) /\ Body[a.req].nonce = Body[b.req].nonce => a = b

\* Racing rotations leave one open interval in the published key history, and
\* it is that of the key the asset's next action is verified with.
OneOpenKey ==
  \E h \in history :
    /\ h.until = Open
    /\ h.key = asset.pubkey
    /\ \A g \in history : g.until = Open => g = h

\* The pre-serialised fragment the listings stream is what the committed rows
\* render to, and an active asset has one: no interleaving of writers leaves
\* a listing behind the asset.
FragmentCurrent ==
  /\ fragment \subseteq {Render(asset, history, children)}
  /\ asset.status = "active" => fragment # {}

\* Handlers that overlap fork the chain and no worse: an accepted issuer action
\* follows a row of the chain that took its audit id before it, whoever else
\* follows the same one, so that prev_action_hash leads from any action back to
\* a registration or a migration.
ChainIsATree ==
  \A a \in actions : HasNonce(a) =>
    \E b \in actions : /\ InChain(b) /\ ActionHash(b) = Body[a.req].prev
                       /\ b.seq < a.seq

\* A rotation may commit between the read of the key and the insert of an action
\* verified with it.  The action is signed all the same by the key it records,
\* and by one of the published history, of an interval that opened before it.
SignedByPublishedKey ==
  \A a \in actions : HasNonce(a) =>
    /\ a.key = Body[a.req].signer
    /\ \E h \in history : h.key = a.key /\ h.from < a.seq

\* Whoever reads the published log and key history can verify every accepted
\* issuer action from rows that came before it.
ActionsVerifiable == ChainIsATree /\ SignedByPublishedKey

\* A handler ends, whatever locks it meets: the legacy deregistration takes
\* the fragment before the asset row and every other writer the asset row
\* first, so two of them can wait for each other until one is cancelled.
HandlersEnd == \A w \in Workers : ~At(w, "idle") ~> At(w, "idle")

-----------------------------------------------------------------------------
(* What the documentation promises of the issuer chain.  It holds while    *)
(* the requests for an asset are handled one at a time.                    *)

\* prev_action_hash "must match the latest accepted issuer-chain action hash":
\* no two accepted actions follow the same one.
ChainIsLinear ==
  \A a, b \in actions :
    /\ HasNonce(a) /\ HasNonce(b) /\ Body[a.req].prev = Body[b.req].prev
    => a = b
=============================================================================
