----------------------------- MODULE Registration -----------------------------
(***************************************************************************)
(* How an asset comes to be registered, and with which issuance: the v2    *)
(* and the legacy endpoint with their chain and domain checks, the import  *)
(* of the legacy listing, the legacy deletion, the writes that are         *)
(* forwarded to the original registry, and the backfill of issuance        *)
(* references.  Handlers run at once and the chain moves under them; no    *)
(* transaction is open while one waits for the network.                    *)
(***************************************************************************)
EXTENDS Naturals, FiniteSets

CONSTANTS
  Workers,       \* handlers, importers and backfills that run at the same time
  Requests,      \* what is asked for; each may be asked many times
  Body,          \* its operation, asset, namespace, contract and listed issuance
  Assets, Names, Contracts,
  ChainTxs,      \* transactions that issue, or once issued, an asset
  Issues,        \* the asset, contract and outpoint a transaction's input proves
  Outpoints,
  Absent,        \* a null column, or a contract that was not preserved
  InitialRows,   \* row sets that earlier versions left
  EnforceChain, ShadowWrite,  \* settings
  Batch,         \* batch_size of a backfill
  MaxRows        \* bound on the rows of assets

Registrations == {"v2", "legacy", "import"}
Ops == Registrations \cup {"delete", "backfill"}
Forwarded == {"legacy", "delete"}

Uuids == 1..MaxRows
Refs == [txin : ChainTxs \cup {Absent}, prevout : Outpoints \cup {Absent}]
NoRefs == [txin |-> Absent, prevout |-> Absent]
Row == [asset : Assets, name : Names \cup {Absent}, contract : Contracts \cup {Absent},
        active : BOOLEAN, refs : Refs]

\* An asset id commits to the outpoint and the contract it was issued with.
ASSUME RegistrationAssumption ==
  /\ Requests # {}
  /\ Body \in [Requests -> [op : Ops, asset : Assets, name : Names \cup {Absent},
                            contract : Contracts, refs : Refs]]
  /\ Issues \in [ChainTxs -> [asset : Assets, contract : Contracts, prevout : Outpoints]]
  /\ \A s, t \in ChainTxs : Issues[s].asset = Issues[t].asset => Issues[s] = Issues[t]
  /\ Absent \notin Assets \cup Names \cup Contracts \cup ChainTxs \cup Outpoints
  /\ \A old \in InitialRows : old \in [DOMAIN old -> Row] /\ DOMAIN old \subseteq Uuids
  /\ EnforceChain \in BOOLEAN /\ ShadowWrite \in BOOLEAN
  /\ Batch \in Nat \ {0} /\ MaxRows \in Nat

SameName(a, b) == a = b /\ a # Absent

\* What the partial unique indexes keep out.
Conflicting(a, b) == /\ a.active /\ b.active
                     /\ a.asset = b.asset \/ SameName(a.name, b.name)

\* The indexes are older than any row.
ASSUME InitialRowsAssumption ==
  \A old \in InitialRows : \A u, v \in DOMAIN old : u # v => ~Conflicting(old[u], old[v])

VARIABLES
  rows,       \* assets, by their random asset_uuid
  fragment,   \* the issuance each row's serialized fragment shows
  mined,      \* transactions that are confirmed
  answer,     \* what the last step answered, if it ended a request
  tx          \* each handler's progress

vars == <<rows, fragment, mined, answer, tx>>

Stages == {"idle", "namespace", "exists", "esplora", "status", "domain", "insert",
           "find", "lock", "commit", "shadow", "page", "contract"}

\* listed is the transaction Esplora named, refs what was verified or imported,
\* row the row inserted or locked; page, after and failed are the
\* backfill's, and due the rows that lacked a reference when it began,
\* until one fails.
Handlers == [at : Stages, req : Requests, listed : ChainTxs \cup {Absent}, refs : Refs,
         row : Uuids \cup {0}, local_error : BOOLEAN, page : SUBSET Uuids,
         after : Uuids \cup {0}, failed : BOOLEAN, due : SUBSET Uuids]
Idle == [at |-> "idle", req |-> CHOOSE r \in Requests : TRUE, listed |-> Absent,
         refs |-> NoRefs, row |-> 0, local_error |-> FALSE, page |-> {},
         after |-> 0, failed |-> FALSE, due |-> {}]

\* A success, and whether this registry or the original one did what was asked.
NoAnswer == [success |-> FALSE, here |-> FALSE, there |-> FALSE]
Answers == [success : BOOLEAN, here : BOOLEAN, there : BOOLEAN]

Of(w) == Body[tx[w].req]
Is(w, stage, ops) == tx[w].at = stage /\ Of(w).op \in ops
Becomes(w, t) == tx' = [tx EXCEPT ![w] = t]
Goto(w, stage) == Becomes(w, [tx[w] EXCEPT !.at = stage])
End(w) == Becomes(w, Idle)

Silent == answer' = NoAnswer
Reads == Silent /\ UNCHANGED <<rows, fragment, mined>>

-----------------------------------------------------------------------------
(* A request begins.                                                       *)

Missing == {u \in DOMAIN rows :
              rows[u].refs.txin = Absent \/ rows[u].refs.prevout = Absent}

First(op) == CASE op \in {"v2", "legacy"} -> IF EnforceChain THEN "esplora" ELSE "domain"
               [] op = "import" -> "namespace"
               [] op = "delete" -> "find"
               [] op = "backfill" -> "page"

Registering == {v \in Workers : tx[v].at # "idle" /\ Of(v).op \in Registrations}

Begin(w, r) ==
  /\ tx[w].at = "idle"
  /\ Body[r].op \in Registrations
       => Cardinality(DOMAIN rows) + Cardinality(Registering) < MaxRows
  /\ Becomes(w, [Idle EXCEPT !.at = First(Body[r].op), !.req = r,
                   !.refs = IF Body[r].op = "import" THEN Body[r].refs ELSE NoRefs,
                   !.due = IF Body[r].op = "backfill" THEN Missing ELSE {}])
  /\ Reads

-----------------------------------------------------------------------------
(* import_legacy_assets: a listed asset is skipped if any row, active or   *)
(* not, has its asset id, or if an active one has its namespace.           *)

ActiveNamed(name) == \E u \in DOMAIN rows : rows[u].active /\ SameName(rows[u].name, name)

ReadNamespace(w) ==
  /\ Is(w, "namespace", {"import"})
  /\ Becomes(w, [tx[w] EXCEPT !.at = "exists", !.local_error = ActiveNamed(Of(w).name)])
  /\ Reads

ReadExists(w) ==
  /\ Is(w, "exists", {"import"})
  /\ IF tx[w].local_error \/ \E u \in DOMAIN rows : rows[u].asset = Of(w).asset
     THEN End(w) ELSE Goto(w, "insert")
  /\ Reads

-----------------------------------------------------------------------------
(* verify_issuance_commitment, for a registration or a row of a backfill.  *)

\* A page is worked through in the order of the cursor.
Least(S) == CHOOSE u \in S : \A v \in S : u <= v
Doing(w) == Least(tx[w].page)
Commitment(w) == IF Of(w).op = "backfill" THEN rows[Doing(w)] ELSE Of(w)

\* The backfill counts a failure and goes on; a registration is refused.
NextRow(w, failed) ==
  LET rest == tx[w].page \ {Doing(w)}
  IN  Becomes(w, [tx[w] EXCEPT !.at = IF rest = {} THEN "page" ELSE "contract",
                    !.page = rest,
                    !.after = IF rest = {} THEN Doing(w) ELSE tx[w].after,
                    !.failed = tx[w].failed \/ failed,
                    !.due = IF tx[w].failed \/ failed THEN {} ELSE tx[w].due,
                    !.listed = Absent, !.refs = NoRefs, !.row = 0])
Fails(w) == IF Of(w).op = "backfill" THEN NextRow(w, TRUE) ELSE End(w)

\* The input of the transaction must spend the outpoint with the contract's
\* hash as entropy, and derive the asset id.
Proves(t, asset, contract) ==
  Issues[t].asset = asset /\ Issues[t].contract = contract

\* /asset/{id} names a transaction and /tx/{txid}/hex shows its input.
AskEsplora(w) ==
  /\ tx[w].at = "esplora"
  /\ \E t \in ChainTxs :
       IF Proves(t, Commitment(w).asset, Commitment(w).contract)
       THEN Becomes(w, [tx[w] EXCEPT !.at = "status", !.listed = t]) ELSE Fails(w)
  /\ Reads

\* /tx/{txid}/status
AskStatus(w) ==
  /\ tx[w].at = "status"
  /\ IF tx[w].listed \in mined
     THEN Becomes(w, [tx[w] EXCEPT !.at = IF Of(w).op = "backfill" THEN "lock" ELSE "domain",
                        !.listed = Absent,
                        !.refs = [txin |-> tx[w].listed,
                                  prevout |-> Issues[tx[w].listed].prevout]])
     ELSE Fails(w)
  /\ Reads

EsploraFails(w) ==
  /\ tx[w].at \in {"esplora", "status"}
  /\ Fails(w)
  /\ Reads

VerifyDomain(w) ==
  /\ tx[w].at = "domain"
  /\ Goto(w, "insert") \/ End(w)
  /\ Reads

-----------------------------------------------------------------------------
(* The insertion: partial unique indexes over the active rows.             *)

Inserted(w) == [asset |-> Of(w).asset, name |-> Of(w).name, contract |-> Of(w).contract,
                active |-> TRUE, refs |-> tx[w].refs]
Collides(w, u) == Conflicting(rows[u], Inserted(w))

\* PostgreSQL waits for another insertion of the key, or a deletion of its row.
Undecided(w) ==
  \E v \in Workers \ {w} :
    /\ tx[v].at = "commit"
    /\ \/ Of(v).op \in Registrations /\ Conflicting(Inserted(v), Inserted(w))
       \/ Of(v).op = "delete" /\ Collides(w, tx[v].row)

NotWaiting(w) ==  \* mutant: only committed rows are compared
  \A u \in DOMAIN rows : ~Collides(w, u)
Unique(w) == ~Undecided(w) /\ \A u \in DOMAIN rows : ~Collides(w, u)

Insert(w) ==
  /\ tx[w].at = "insert"
  /\ Unique(w)
  /\ \E u \in Uuids \ (DOMAIN rows \cup {tx[v].row : v \in Registering}) :
       Becomes(w, [tx[w] EXCEPT !.at = "commit", !.row = u])
  /\ Reads

Forwards(w) == Becomes(w, [tx[w] EXCEPT !.at = "shadow", !.local_error = TRUE])

\* The conflict is answered, unless the legacy endpoint forwards the request.
Conflict(w) ==
  /\ tx[w].at = "insert"
  /\ ~Undecided(w) /\ ~Unique(w)
  /\ IF Of(w).op = "legacy" /\ ShadowWrite
     THEN Forwards(w) ELSE End(w)
  /\ Reads

-----------------------------------------------------------------------------
(* deregister_legacy_asset, and the row lock it shares with the backfill.  *)

FindActive(w) ==
  /\ Is(w, "find", {"delete"})
  /\ \/ \E u \in DOMAIN rows :
          /\ rows[u].active /\ rows[u].asset = Of(w).asset
          /\ Becomes(w, [tx[w] EXCEPT !.at = "lock", !.row = u])
     \/ IF ShadowWrite THEN Forwards(w)
                       ELSE End(w)   \* not found, or its signature is wrong
  /\ Reads

Free(w, u) == \A v \in Workers \ {w} : ~(tx[v].at = "commit" /\ tx[v].row = u)

LockRow(w) ==
  /\ Is(w, "lock", {"delete"})
  /\ Free(w, tx[w].row)
  /\ Goto(w, "commit")
  /\ Reads

-----------------------------------------------------------------------------
(* backfill_issuance_references                                            *)

FromStart(w) == Missing  \* mutant: the cursor stays
Remaining(w) == {u \in Missing : u > tx[w].after}

Unordered(w) ==  \* mutant: the page is not in the order of the cursor
  {u \in Remaining(w) : Cardinality({v \in Remaining(w) : v > u}) < Batch}
Page(w) ==
  {u \in Remaining(w) : Cardinality({v \in Remaining(w) : v < u}) < Batch}

ReadPage(w) ==
  /\ Is(w, "page", {"backfill"})
  /\ IF Page(w) = {} THEN End(w)
     ELSE Becomes(w, [tx[w] EXCEPT !.at = "contract", !.page = Page(w)])
  /\ Reads

\* The read transaction ends here, before the chain is asked.
ReadContract(w) ==
  /\ Is(w, "contract", {"backfill"})
  /\ IF Commitment(w).contract = Absent THEN Fails(w) ELSE Goto(w, "esplora")
  /\ Reads

Agrees(stored, found) == stored = Absent \/ stored = found
Overwrites(w, u) == TRUE  \* mutant: the row is not compared again
Consistent(w, u) == /\ Agrees(rows[u].refs.txin, tx[w].refs.txin)
                    /\ Agrees(rows[u].refs.prevout, tx[w].refs.prevout)

Recheck(w) ==
  /\ Is(w, "lock", {"backfill"})
  /\ Free(w, Doing(w))
  /\ IF Consistent(w, Doing(w))
     THEN Becomes(w, [tx[w] EXCEPT !.at = "commit", !.row = Doing(w)]) ELSE Fails(w)
  /\ Reads

-----------------------------------------------------------------------------
(* What a transaction writes.                                              *)

With(f, u, x) == [v \in DOMAIN f \cup {u} |-> IF v = u THEN x ELSE f[v]]

NewRow(w) ==
  CASE Of(w).op \in Registrations -> Inserted(w)
    [] Of(w).op = "delete" -> [rows[tx[w].row] EXCEPT !.active = FALSE]
    [] Of(w).op = "backfill" -> [rows[tx[w].row] EXCEPT !.refs = tx[w].refs]

NotExpired(w) ==  \* mutant: the fragment is rendered from the row as loaded
  CASE Of(w).op = "delete" -> Absent
    [] Of(w).op = "backfill" -> rows[tx[w].row].refs
    [] OTHER -> tx[w].refs
NewFragment(w) == IF Of(w).op = "delete" THEN Absent ELSE tx[w].refs

Commit(w) ==
  /\ tx[w].at = "commit"
  /\ rows' = With(rows, tx[w].row, NewRow(w))
  /\ fragment' = With(fragment, tx[w].row, NewFragment(w))
  /\ CASE Of(w).op = "backfill" -> NextRow(w, FALSE) /\ Silent
       [] Of(w).op \in Forwarded /\ ShadowWrite -> Goto(w, "shadow") /\ Silent
       [] OTHER -> End(w) /\ answer' = [success |-> TRUE, here |-> TRUE, there |-> FALSE]
  /\ UNCHANGED mined

-----------------------------------------------------------------------------
(* The write that is forwarded to the original registry.  A request that   *)
(* fails or gets no answer may still have been carried out.                *)

\* status is the original registry's answer, or "none" when there was none.
Swallowed(w, status) == status # "error"  \* mutant: the local error is lost
Succeeds(w, status) == status = "ok" \/ (status = "none" /\ ~tx[w].local_error)

Forward(w, status) ==
  /\ tx[w].at = "shadow"
  /\ \E done \in {TRUE, status = "ok"} :
       answer' = [success |-> Succeeds(w, status),
                  here |-> ~tx[w].local_error, there |-> done]
  /\ End(w)
  /\ UNCHANGED <<rows, fragment, mined>>

\* A process may die, or a statement wait too long for a lock.
Dies(w) == tx[w].at # "idle" /\ End(w) /\ Reads
LockTimeout(w) ==
  /\ \/ tx[w].at = "insert" /\ Undecided(w)
     \/ Is(w, "lock", {"delete"}) /\ ~Free(w, tx[w].row)
     \/ Is(w, "lock", {"backfill"}) /\ ~Free(w, Doing(w))
  /\ Fails(w)
  /\ Reads

\* The chain reorganises: another transaction issues the asset.
Reorganise ==
  /\ \E s \in mined, t \in ChainTxs \ mined :
       Issues[s] = Issues[t] /\ mined' = (mined \ {s}) \cup {t}
  /\ Silent /\ UNCHANGED <<rows, fragment, tx>>

-----------------------------------------------------------------------------

Init ==
  /\ rows \in InitialRows
  /\ fragment = [u \in DOMAIN rows |-> rows[u].refs]
  /\ mined \in {m \in SUBSET ChainTxs : \A s \in ChainTxs :
                 Cardinality({t \in m : Issues[t] = Issues[s]}) = 1}
  /\ answer = NoAnswer
  /\ tx = [w \in Workers |-> Idle]

Step(w) ==
  \/ ReadNamespace(w) \/ ReadExists(w)
  \/ AskEsplora(w) \/ AskStatus(w) \/ EsploraFails(w) \/ VerifyDomain(w)
  \/ Insert(w) \/ Conflict(w) \/ FindActive(w) \/ LockRow(w)
  \/ ReadPage(w) \/ ReadContract(w) \/ Recheck(w)
  \/ Commit(w) \/ \E status \in {"none", "ok", "error"} : Forward(w, status)

Next == Reorganise \/ \E w \in Workers :
  (\E r \in Requests : Begin(w, r)) \/ Step(w) \/ Dies(w) \/ LockTimeout(w)

\* Calls to the network time out; waiters for a lock are queued, and time out too.
Fairness == \A w \in Workers : SF_vars(Step(w)) /\ WF_vars(LockTimeout(w))

Spec == Init /\ [][Next]_vars /\ Fairness
-----------------------------------------------------------------------------

\* However registrations, imports and deletions race, an asset and a namespace
\* have one active row.
OneActive ==
  \A u, v \in DOMAIN rows : u # v => ~Conflicting(rows[u], rows[v])

\* A success is never answered for what neither registry did: whichever of the
\* local transaction and the forwarded write failed, or lost its answer.
AcceptedIsDone == answer.success => answer.here \/ answer.there

\* Stored issuance references never change, even when two backfills ask a chain
\* that reorganises between them.
ReferencesKept ==
  [][\A u \in DOMAIN rows :
       /\ Agrees(rows[u].refs.txin, rows'[u].refs.txin)
       /\ Agrees(rows[u].refs.prevout, rows'[u].refs.prevout)]_vars

\* A backfill that reaches its end with no failure has completed every row that
\* lacked a reference when it began, although rows come with random uuids.
BackfillCovers ==
  \A w \in Workers :
    Is(w, "page", {"backfill"}) /\ Page(w) = {} /\ ~tx[w].failed
      => tx[w].due \cap Missing = {}

\* Both listings show the references that are stored.
ListedReferences ==
  \A u \in DOMAIN rows :
    rows[u].active \/ fragment[u] # Absent => fragment[u] = rows[u].refs

\* Every request is answered and every backfill ends, also over rows it can
\* never complete.
RequestsEnd == \A w \in Workers : tx[w].at # "idle" ~> tx[w].at = "idle"
=============================================================================
