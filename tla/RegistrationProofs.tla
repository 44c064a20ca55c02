-------------------------- MODULE RegistrationProofs --------------------------
(***************************************************************************)
(* Registration for any handlers, requests, chains and batches: active     *)
(* rows stay unique, listings show the stored references, references never *)
(* change, and a clean backfill leaves none of its rows without one.       *)
(***************************************************************************)
EXTENDS Registration, FiniteSetTheorems, WellFoundedInduction, TLAPS

OpOf(t) == Body[t.req].op
Insertion(t) ==
  [asset |-> Body[t.req].asset, name |-> Body[t.req].name,
   contract |-> Body[t.req].contract, active |-> TRUE, refs |-> t.refs]

Types ==
  /\ DOMAIN rows \subseteq Uuids /\ rows \in [DOMAIN rows -> Row]
  /\ DOMAIN fragment = DOMAIN rows
  /\ mined \subseteq ChainTxs
  /\ tx \in [Workers -> Handlers]

\* A backfill has its page before it, and whatever it still owes after that.
Covering(t) ==
  /\ t.due \subseteq DOMAIN rows
  /\ t.at = "page" => \A u \in t.due \cap Missing : u > t.after
  /\ t.at \in {"contract", "esplora", "status", "lock", "commit"} =>
       /\ t.page # {} /\ t.page \subseteq DOMAIN rows
       /\ \A u \in (t.due \cap Missing) \ t.page, p \in t.page : u > p
  /\ t.at \in {"lock", "commit"} => t.refs.txin # Absent /\ t.refs.prevout # Absent
  /\ t.at = "commit" =>
       /\ t.row = Least(t.page)
       /\ Agrees(rows[t.row].refs.txin, t.refs.txin)
       /\ Agrees(rows[t.row].refs.prevout, t.refs.prevout)

\* What holds of a handler's transaction t, whatever the others do.
Sound(t) ==
  /\ t.at \in {"esplora", "status"} => OpOf(t) \in Registrations \cup {"backfill"}
  /\ t.at \in {"domain", "insert"} => OpOf(t) \in Registrations
  /\ t.at \in {"lock", "commit"} /\ OpOf(t) = "delete" => t.row \in DOMAIN rows
  /\ t.at = "commit" /\ OpOf(t) \in Registrations =>
       /\ t.row \in Uuids \ DOMAIN rows
       /\ \A u \in DOMAIN rows : ~Conflicting(rows[u], Insertion(t))
  /\ OpOf(t) = "backfill" => Covering(t)

\* Two transactions about to commit write rows of their own, and two
\* insertions do not meet in an index.
Meets(w, t) ==
  t.at = "commit" => \A v \in Workers \ {w} : tx[v].at = "commit" =>
    /\ tx[v].row # t.row
    /\ OpOf(t) \in Registrations /\ OpOf(tx[v]) \in Registrations
         => ~Conflicting(Insertion(tx[v]), Insertion(t))

Inv == /\ Types /\ \A w \in Workers : Sound(tx[w]) /\ Meets(w, tx[w])
       /\ OneActive /\ ListedReferences

USE RegistrationAssumption DEF Registrations

LEMMA OneConflict ==
  ASSUME NEW a, NEW b, Conflicting(a, b)
  PROVE  Conflicting(b, a)
  BY DEF Conflicting, SameName

LEMMA LeastExists ==
  ASSUME NEW S \in SUBSET Nat, S # {}
  PROVE  \E u \in S : \A v \in S : u <= v
  <1>1. PICK u \in S : \A v \in S : ~(<<v, u>> \in OpToRel(<, Nat))
    BY NatLessThanWellFounded, WFMin
  <1>2. \A v \in S : ~(v < u)
    BY <1>1 DEF OpToRel
  <1>3. QED
    BY <1>2

LEMMA LeastIsIn ==
  ASSUME NEW S \in SUBSET Uuids, S # {}
  PROVE  Least(S) \in S /\ \A v \in S : Least(S) <= v
  <1>1. \E u \in S : \A v \in S : u <= v
    BY LeastExists DEF Uuids
  <1>2. QED
    BY <1>1 DEF Least

LEMMA BodyType ==
  ASSUME NEW t \in Handlers
  PROVE  /\ t.req \in Requests /\ OpOf(t) \in Ops
         /\ Insertion(t) \in Row
         /\ t.at \in Stages /\ t.row \in Uuids \cup {0} /\ t.refs \in Refs
         /\ t.page \in SUBSET Uuids /\ t.due \in SUBSET Uuids
  BY DEF Handlers, OpOf, Insertion, Row

LEMMA HandlerType ==
  ASSUME Inv, NEW w \in Workers
  PROVE  /\ tx[w] \in Handlers /\ Sound(tx[w]) /\ Meets(w, tx[w])
         /\ OpOf(tx[w]) = Of(w).op /\ Insertion(tx[w]) = Inserted(w)
  BY DEF Inv, Types, OpOf, Of, Insertion, Inserted

LEMMA MissingRows ==
  ASSUME Types
  PROVE  Missing \subseteq DOMAIN rows /\ Missing \subseteq Uuids
  BY DEF Missing, Types

-----------------------------------------------------------------------------
(* Steps that only move one handler.                                       *)

LEMMA Quiet ==
  ASSUME Inv, NEW w \in Workers, NEW t \in Handlers, Sound(t), Meets(w, t),
         Becomes(w, t), UNCHANGED <<rows, fragment>>, mined' \subseteq ChainTxs
  PROVE  Inv'
  <1>1. /\ tx' \in [Workers -> Handlers] /\ tx'[w] = t
        /\ \A v \in Workers \ {w} : tx'[v] = tx[v]
    BY DEF Becomes, Inv, Types
  <1>2. Types'
    BY <1>1 DEF Inv, Types
  <1>3. \A s : Sound(s)' <=> Sound(s)
    BY DEF Sound, Covering, Missing
  <1>4. \A v \in Workers : Sound(tx[v])'
    BY <1>1, <1>3 DEF Inv
  <1>5. ASSUME NEW v \in Workers PROVE Meets(v, tx[v])'
    <2>1. CASE v = w
      BY <1>1, <2>1 DEF Meets
    <2>2. CASE v # w
      <3>1. Meets(v, tx[v])
        BY DEF Inv
      <3>2. ASSUME NEW x \in Workers \ {v}, tx'[v].at = "commit", tx'[x].at = "commit"
            PROVE  /\ tx'[x].row # tx'[v].row
                   /\ OpOf(tx'[v]) \in Registrations /\ OpOf(tx'[x]) \in Registrations
                        => ~Conflicting(Insertion(tx'[x]), Insertion(tx'[v]))
        <4>1. CASE x = w
          BY <1>1, <2>2, <3>2, <4>1, OneConflict DEF Meets
        <4>2. CASE x # w
          BY <1>1, <2>2, <3>1, <3>2, <4>2 DEF Meets
        <4>3. QED
          BY <4>1, <4>2
      <3>3. QED
        BY <3>2 DEF Meets, OpOf, Insertion
    <2>3. QED
      BY <2>1, <2>2
  <1>6. OneActive' /\ ListedReferences'
    BY DEF Inv, OneActive, ListedReferences
  <1>7. QED
    BY <1>2, <1>4, <1>5, <1>6 DEF Inv

LEMMA IdleType ==
  Idle \in Handlers /\ Idle.at = "idle" /\ Idle.due = {} /\ Sound(Idle)
  <1>1. (CHOOSE r \in Requests : TRUE) \in Requests
    OBVIOUS
  <1>2. Idle \in Handlers /\ Idle.at = "idle" /\ Idle.due = {}
    BY <1>1 DEF Idle, Handlers, Stages, NoRefs, Refs
  <1>3. QED
    BY <1>2 DEF Sound, Covering

LEMMA EndInv ==
  ASSUME Inv, NEW w \in Workers, End(w), UNCHANGED <<rows, fragment, mined>>
  PROVE  Inv'
  <1>1. Meets(w, Idle)
    BY IdleType DEF Meets
  <1>2. QED
    BY <1>1, IdleType, Quiet DEF End, Inv, Types

\* A handler that goes on to no lock, insertion or row.
LEMMA GotoInv ==
  ASSUME Inv, NEW w \in Workers, NEW t \in Handlers, Becomes(w, t),
         UNCHANGED <<rows, fragment, mined>>,
         OpOf(t) # "backfill", t.at \notin {"lock", "commit", "esplora", "status"},
         t.at \in {"domain", "insert"} => OpOf(t) \in Registrations
  PROVE  Inv'
  <1>1. Sound(t) /\ Meets(w, t)
    BY DEF Sound, Meets
  <1>2. QED
    BY <1>1, Quiet DEF Inv, Types

\* The stages of a backfill's page before a row is locked.
LEMMA InPageInv ==
  ASSUME Inv, NEW w \in Workers, NEW t \in Handlers, Becomes(w, t),
         UNCHANGED <<rows, fragment, mined>>,
         t.req = tx[w].req, t.page = tx[w].page, t.due = tx[w].due,
         tx[w].at \in {"contract", "esplora", "status", "lock"},
         t.at \in {"esplora", "status"},
         OpOf(t) \in Registrations \cup {"backfill"}
  PROVE  Inv'
  <1>1. Sound(tx[w]) /\ OpOf(t) = OpOf(tx[w])
    BY HandlerType DEF OpOf
  <1>2. Sound(t) /\ Meets(w, t)
    BY <1>1 DEF Sound, Covering, Meets
  <1>3. QED
    BY <1>2, Quiet DEF Inv, Types

\* What NextRow makes of a handler.
Onward(w, failed) ==
  LET rest == tx[w].page \ {Doing(w)}
  IN  [tx[w] EXCEPT !.at = IF rest = {} THEN "page" ELSE "contract",
         !.page = rest,
         !.after = IF rest = {} THEN Doing(w) ELSE tx[w].after,
         !.failed = tx[w].failed \/ failed,
         !.due = IF tx[w].failed \/ failed THEN {} ELSE tx[w].due,
         !.listed = Absent, !.refs = NoRefs, !.row = 0]

LEMMA NextRowIsOnward ==
  ASSUME NEW w, NEW failed \in BOOLEAN, NextRow(w, failed)
  PROVE  Becomes(w, Onward(w, failed))
  BY DEF NextRow, Onward

LEMMA NextRowType ==
  ASSUME Inv, NEW w \in Workers, OpOf(tx[w]) = "backfill", NEW failed \in BOOLEAN,
         tx[w].at \in {"contract", "esplora", "status", "lock", "commit"}
  PROVE  LET rest == tx[w].page \ {Doing(w)}
             t == Onward(w, failed)
         IN  /\ t \in Handlers /\ OpOf(t) = "backfill"
             /\ t.at = IF rest = {} THEN "page" ELSE "contract"
             /\ t.page = rest
             /\ rest = {} => t.after = Doing(w)
             /\ t.due \subseteq tx[w].due /\ (failed => t.due = {})
             /\ Doing(w) \in tx[w].page /\ tx[w].page \subseteq DOMAIN rows
  <1>. DEFINE rest == tx[w].page \ {Doing(w)}
              stage == IF rest = {} THEN "page" ELSE "contract"
              after == IF rest = {} THEN Doing(w) ELSE tx[w].after
              lost == tx[w].failed \/ failed
              due == IF lost THEN {} ELSE tx[w].due
  <1>1. /\ tx[w] \in Handlers /\ tx[w].page # {} /\ tx[w].page \subseteq Uuids
        /\ tx[w].page \subseteq DOMAIN rows
        /\ tx[w].after \in Uuids \cup {0} /\ tx[w].due \in SUBSET Uuids
    <2>1. tx[w] \in Handlers /\ Sound(tx[w])
      BY HandlerType
    <2>2. tx[w].page # {} /\ tx[w].page \subseteq DOMAIN rows
      BY <2>1 DEF Sound, Covering
    <2>3. QED
      BY <2>1, <2>2 DEF Handlers
  <1>2. Doing(w) \in tx[w].page /\ Doing(w) \in Uuids
    BY <1>1, LeastIsIn DEF Doing
  <1>3. /\ stage \in Stages /\ rest \in SUBSET Uuids /\ after \in Uuids \cup {0}
        /\ due \in SUBSET Uuids /\ due \subseteq tx[w].due /\ (failed => due = {})
    <2>1. stage \in Stages
      BY DEF Stages
    <2>2. rest \in SUBSET Uuids /\ after \in Uuids \cup {0}
      BY <1>1, <1>2
    <2>3. due \in SUBSET Uuids /\ due \subseteq tx[w].due /\ (failed => due = {})
      BY <1>1
    <2>4. QED
      BY <2>1, <2>2, <2>3
  <1>4. lost \in BOOLEAN
    OBVIOUS
  <1>5. Onward(w, failed) =
          [tx[w] EXCEPT !.at = stage, !.page = rest, !.after = after, !.failed = lost,
             !.due = due, !.listed = Absent, !.refs = NoRefs, !.row = 0]
    BY DEF Onward
  <1>. DEFINE t == Onward(w, failed)
  <1>6. /\ t \in Handlers /\ OpOf(t) = OpOf(tx[w]) /\ t.at = stage
        /\ t.page = rest /\ t.after = after /\ t.due = due
    <2>1. t = [tx[w] EXCEPT !.at = stage, !.page = rest, !.after = after,
                 !.failed = lost, !.due = due,
                 !.listed = Absent, !.refs = NoRefs, !.row = 0]
      BY <1>5
    <2>. HIDE DEF stage, rest, after, lost, due, t
    <2>2. QED
      <3>1. NoRefs \in Refs
        BY DEF NoRefs, Refs
      <3>2. t \in Handlers
        BY <1>1, <1>3, <1>4, <2>1, <3>1 DEF Handlers
      <3>3. /\ OpOf(t) = OpOf(tx[w]) /\ t.at = stage
            /\ t.page = rest /\ t.after = after /\ t.due = due
        BY <1>1, <2>1 DEF Handlers, OpOf
      <3>4. QED
        BY <3>2, <3>3
  <1>7. QED
    BY <1>1, <1>2, <1>3, <1>6

LEMMA FailsInv ==
  ASSUME Inv, NEW w \in Workers, Fails(w), UNCHANGED <<rows, fragment, mined>>,
         Of(w).op = "backfill" =>
           tx[w].at \in {"contract", "esplora", "status", "lock", "commit"}
  PROVE  Inv'
  <1>1. CASE Of(w).op # "backfill"
    BY <1>1, EndInv DEF Fails
  <1>2. CASE Of(w).op = "backfill"
    <2>. DEFINE t == Onward(w, TRUE)
    <2>1. Becomes(w, t)
      BY <1>2 DEF Fails, NextRow, Onward
    <2>2. OpOf(tx[w]) = "backfill"
      BY <1>2, HandlerType
    <2>3. /\ t \in Handlers /\ OpOf(t) = "backfill"
          /\ t.at \in {"page", "contract"} /\ t.due = {}
          /\ t.at = "contract" => t.page # {} /\ t.page \subseteq DOMAIN rows
      <3>. HIDE DEF t
      <3>1. LET rest == tx[w].page \ {Doing(w)}
            IN  /\ t \in Handlers /\ OpOf(t) = "backfill"
                /\ t.at = IF rest = {} THEN "page" ELSE "contract"
                /\ t.page = rest /\ t.due = {} /\ tx[w].page \subseteq DOMAIN rows
        BY <1>2, <2>2, NextRowType DEF t
      <3>. QED  BY <3>1
    <2>4. Sound(t) /\ Meets(w, t)
      <3>. HIDE DEF t
      <3>. QED  BY <2>3 DEF Sound, Covering, Meets
    <2>. HIDE DEF t
    <2>5. QED
      BY <2>1, <2>3, <2>4, Quiet DEF Inv, Types
  <1>3. QED
    BY <1>1, <1>2

LEMMA BeginInv ==
  ASSUME Inv, NEW w \in Workers, NEW r \in Requests, Begin(w, r)
  PROVE  Inv'
  <1>. DEFINE t == [Idle EXCEPT !.at = First(Body[r].op), !.req = r,
                      !.refs = IF Body[r].op = "import" THEN Body[r].refs ELSE NoRefs,
                      !.due = IF Body[r].op = "backfill" THEN Missing ELSE {}]
  <1>1. Becomes(w, t) /\ UNCHANGED <<rows, fragment, mined>>
    BY DEF Begin, Reads
  <1>2. Body[r].op \in Ops /\ Body[r].refs \in Refs
    OBVIOUS
  <1>3. /\ First(Body[r].op) \in {"esplora", "domain", "namespace", "find", "page"}
        /\ First(Body[r].op) \in {"esplora", "domain"} => Body[r].op \in Registrations
        /\ Body[r].op = "backfill" => First(Body[r].op) = "page"
    BY <1>2 DEF First, Ops
  <1>. DEFINE stage == First(Body[r].op)
              found == IF Body[r].op = "import" THEN Body[r].refs ELSE NoRefs
              due == IF Body[r].op = "backfill" THEN Missing ELSE {}
  <1>4. /\ t \in Handlers /\ OpOf(t) = Body[r].op /\ t.at = First(Body[r].op)
        /\ t.after = 0 /\ t.due = IF Body[r].op = "backfill" THEN Missing ELSE {}
    <2>1. Missing \subseteq Uuids
      BY MissingRows DEF Inv
    <2>2. NoRefs \in Refs
      BY DEF NoRefs, Refs
    <2>3. /\ Idle \in Handlers /\ Idle.after = 0
      BY IdleType DEF Idle
    <2>4. found \in Refs /\ stage \in Stages /\ due \in SUBSET Uuids
      BY <1>2, <1>3, <2>1, <2>2 DEF Stages
    <2>5. t = [Idle EXCEPT !.at = stage, !.req = r, !.refs = found, !.due = due]
      OBVIOUS
    <2>6. t \in Handlers /\ t.req = r /\ t.at = stage /\ t.after = 0 /\ t.due = due
      <3>. HIDE DEF stage, found, due, t
      <3>. QED  BY <2>3, <2>4, <2>5 DEF Handlers
    <2>7. QED
      BY <2>6 DEF OpOf
  <1>. HIDE DEF t
  <1>5. Meets(w, t)
    BY <1>3, <1>4 DEF Meets
  <1>6. Missing \subseteq DOMAIN rows /\ \A u \in Missing : u > 0
    BY MissingRows DEF Inv, Uuids
  <1>7. Sound(t)
    BY <1>3, <1>4, <1>6 DEF Sound, Covering
  <1>8. QED
    BY <1>1, <1>4, <1>5, <1>7, Quiet DEF Inv, Types

LEMMA ImportInv ==
  ASSUME Inv, NEW w \in Workers, ReadNamespace(w) \/ ReadExists(w)
  PROVE  Inv'
  <1>1. CASE ReadNamespace(w)
    <2>. DEFINE e == ActiveNamed(Of(w).name)
                t == [tx[w] EXCEPT !.at = "exists", !.local_error = e]
    <2>1. Becomes(w, t) /\ UNCHANGED <<rows, fragment, mined>>
      BY <1>1, Zenon DEF ReadNamespace, Reads
    <2>2. e \in BOOLEAN
      BY DEF ActiveNamed
    <2>3. tx[w] \in Handlers /\ OpOf(tx[w]) = "import"
      BY <1>1, HandlerType DEF ReadNamespace, Is
    <2>4. t \in Handlers /\ t.at = "exists" /\ OpOf(t) = "import"
      <3>. HIDE DEF e
      <3>. QED  BY <2>2, <2>3 DEF Handlers, Stages, OpOf
    <2>. HIDE DEF t
    <2>5. QED
      BY <2>1, <2>4, GotoInv
  <1>2. CASE ReadExists(w)
    <2>1. UNCHANGED <<rows, fragment, mined>> /\ (End(w) \/ Goto(w, "insert"))
      BY <1>2 DEF ReadExists, Reads
    <2>. DEFINE t == [tx[w] EXCEPT !.at = "insert"]
    <2>2. tx[w] \in Handlers /\ OpOf(tx[w]) = "import"
      BY <1>2, HandlerType DEF ReadExists, Is
    <2>3. t \in Handlers /\ t.at = "insert" /\ OpOf(t) = "import"
      BY <2>2 DEF Handlers, Stages, OpOf
    <2>4. Goto(w, "insert") => Becomes(w, t)
      BY DEF Goto
    <2>. HIDE DEF t
    <2>5. CASE Goto(w, "insert")
      BY <2>1, <2>3, <2>4, <2>5, GotoInv
    <2>6. QED
      BY <2>1, <2>5, EndInv
  <1>3. QED
    BY <1>1, <1>2

LEMMA EsploraInv ==
  ASSUME Inv, NEW w \in Workers, AskEsplora(w) \/ EsploraFails(w)
  PROVE  Inv'
  <1>1. tx[w].at \in {"esplora", "status"} /\ UNCHANGED <<rows, fragment, mined>>
    BY DEF AskEsplora, EsploraFails, Reads
  <1>2. CASE Fails(w)
    BY <1>1, <1>2, FailsInv
  <1>3. ASSUME AskEsplora(w), NEW c \in ChainTxs,
               Becomes(w, [tx[w] EXCEPT !.at = "status", !.listed = c])
        PROVE  Inv'
    <2>. DEFINE t == [tx[w] EXCEPT !.at = "status", !.listed = c]
    <2>1. tx[w] \in Handlers /\ Sound(tx[w]) /\ tx[w].at = "esplora"
      BY <1>3, HandlerType DEF AskEsplora
    <2>2. t \in Handlers
      BY <2>1 DEF Handlers, Stages
    <2>3. /\ t.req = tx[w].req /\ t.page = tx[w].page /\ t.due = tx[w].due
          /\ t.at = "status"
      BY <2>1 DEF Handlers
    <2>. HIDE DEF t
    <2>4. OpOf(t) \in Registrations \cup {"backfill"}
      BY <2>1, <2>3 DEF Sound, OpOf
    <2>5. QED
      BY <1>1, <1>3, <2>1, <2>2, <2>3, <2>4, InPageInv DEF t
  <1>4. QED
    BY <1>2, <1>3 DEF AskEsplora, EsploraFails

LEMMA AskStatusInv ==
  ASSUME Inv, NEW w \in Workers, AskStatus(w)
  PROVE  Inv'
  <1>1. tx[w].at = "status" /\ UNCHANGED <<rows, fragment, mined>>
    BY DEF AskStatus, Reads
  <1>2. CASE tx[w].listed \notin mined
    BY <1>1, <1>2, FailsInv DEF AskStatus
  <1>3. CASE tx[w].listed \in mined
    <2>. DEFINE found == [txin |-> tx[w].listed, prevout |-> Issues[tx[w].listed].prevout]
                stage == IF Of(w).op = "backfill" THEN "lock" ELSE "domain"
                t == [tx[w] EXCEPT !.at = stage, !.listed = Absent, !.refs = found]
    <2>1. Becomes(w, t)
      BY <1>3 DEF AskStatus
    <2>2. /\ tx[w] \in Handlers /\ Sound(tx[w]) /\ OpOf(tx[w]) = Of(w).op
          /\ tx[w].listed \in ChainTxs
      BY <1>3, HandlerType DEF Inv, Types
    <2>3. found \in Refs /\ found.txin # Absent /\ found.prevout # Absent
      BY <2>2 DEF Refs
    <2>4. stage \in Stages
      BY DEF Stages
    <2>5. t \in Handlers
      <3>. HIDE DEF found, stage
      <3>. QED  BY <2>2, <2>3, <2>4 DEF Handlers
    <2>6. /\ t.req = tx[w].req /\ t.page = tx[w].page /\ t.due = tx[w].due
          /\ t.at = stage /\ t.refs = found
      <3>. HIDE DEF found, stage
      <3>. QED  BY <2>2 DEF Handlers
    <2>7. OpOf(t) = Of(w).op /\ OpOf(tx[w]) \in Registrations \cup {"backfill"}
      BY <1>1, <2>2, <2>6 DEF Sound, OpOf
    <2>. HIDE DEF t, found
    <2>8. Sound(t) /\ Meets(w, t)
      BY <1>1, <2>2, <2>3, <2>6, <2>7 DEF Sound, Covering, Meets
    <2>9. QED
      BY <1>1, <2>1, <2>5, <2>8, Quiet DEF Inv, Types
  <1>4. QED
    BY <1>2, <1>3

LEMMA GotoType ==
  ASSUME Inv, NEW w \in Workers, NEW stage \in Stages,
         NEW t, t = [tx[w] EXCEPT !.at = stage]
  PROVE  /\ t \in Handlers /\ OpOf(t) = OpOf(tx[w]) /\ t.at = stage
         /\ t.row = tx[w].row /\ t.req = tx[w].req /\ t.refs = tx[w].refs
         /\ t.page = tx[w].page /\ t.due = tx[w].due
  <1>1. tx[w] \in Handlers
    BY HandlerType
  <1>2. QED
    BY <1>1 DEF Handlers, OpOf

LEMMA VerifyDomainInv ==
  ASSUME Inv, NEW w \in Workers, VerifyDomain(w)
  PROVE  Inv'
  <1>. DEFINE t == [tx[w] EXCEPT !.at = "insert"]
  <1>1. UNCHANGED <<rows, fragment, mined>> /\ (Becomes(w, t) \/ End(w))
    BY DEF VerifyDomain, Reads, Goto
  <1>2. OpOf(tx[w]) \in Registrations
    BY HandlerType DEF VerifyDomain, Sound
  <1>3. t \in Handlers /\ OpOf(t) = OpOf(tx[w]) /\ t.at = "insert"
    BY GotoType DEF Stages
  <1>. HIDE DEF t
  <1>4. CASE Becomes(w, t)
    BY <1>1, <1>2, <1>3, <1>4, GotoInv
  <1>5. QED
    BY <1>1, <1>4, EndInv

LEMMA ForwardsInv ==
  ASSUME Inv, NEW w \in Workers, Forwards(w), Of(w).op # "backfill",
         UNCHANGED <<rows, fragment, mined>>
  PROVE  Inv'
  <1>. DEFINE t == [tx[w] EXCEPT !.at = "shadow", !.local_error = TRUE]
  <1>1. Becomes(w, t)
    BY Zenon DEF Forwards
  <1>2. tx[w] \in Handlers /\ OpOf(tx[w]) # "backfill"
    BY HandlerType
  <1>3. t \in Handlers /\ OpOf(t) # "backfill" /\ t.at = "shadow"
    BY <1>2 DEF Handlers, Stages, OpOf
  <1>. HIDE DEF t
  <1>4. QED
    BY <1>1, <1>3, GotoInv

LEMMA ConflictInv ==
  ASSUME Inv, NEW w \in Workers, Conflict(w)
  PROVE  Inv'
  <1>1. Of(w).op # "backfill"
    BY HandlerType DEF Conflict, Sound
  <1>2. UNCHANGED <<rows, fragment, mined>> /\ (Forwards(w) \/ End(w))
    BY DEF Conflict, Reads
  <1>3. QED
    BY <1>1, <1>2, ForwardsInv, EndInv

LEMMA FindActiveInv ==
  ASSUME Inv, NEW w \in Workers, FindActive(w)
  PROVE  Inv'
  <1>1. UNCHANGED <<rows, fragment, mined>> /\ Of(w).op = "delete"
    BY DEF FindActive, Reads, Is
  <1>2. ASSUME NEW u \in DOMAIN rows,
               Becomes(w, [tx[w] EXCEPT !.at = "lock", !.row = u])
        PROVE  Inv'
    <2>. DEFINE t == [tx[w] EXCEPT !.at = "lock", !.row = u]
    <2>1. tx[w] \in Handlers /\ OpOf(tx[w]) = "delete" /\ u \in Uuids
      BY <1>1, HandlerType DEF Inv, Types
    <2>2. t \in Handlers /\ OpOf(t) = "delete" /\ t.at = "lock" /\ t.row = u
      BY <2>1 DEF Handlers, Stages, OpOf
    <2>. HIDE DEF t
    <2>3. Sound(t) /\ Meets(w, t)
      BY <2>2 DEF Sound, Meets
    <2>4. Becomes(w, t)
      BY <1>2 DEF t
    <2>5. QED
      BY <1>1, <2>2, <2>3, <2>4, Quiet DEF Inv, Types
  <1>3. QED
    BY <1>1, <1>2, ForwardsInv, EndInv DEF FindActive

\* The row of a transaction about to commit, and whether it exists already.
LEMMA CommitterRow ==
  ASSUME Inv, NEW w \in Workers, tx[w].at = "commit"
  PROVE  /\ tx[w].row \in Uuids
         /\ OpOf(tx[w]) \in Registrations => tx[w].row \notin DOMAIN rows
         /\ OpOf(tx[w]) \notin Registrations => tx[w].row \in DOMAIN rows
         /\ OpOf(tx[w]) \in Ops
  <1>1. tx[w] \in Handlers /\ Sound(tx[w]) /\ OpOf(tx[w]) \in Ops
    BY HandlerType, BodyType
  <1>2. CASE OpOf(tx[w]) \in Registrations
    BY <1>1, <1>2 DEF Sound
  <1>3. CASE OpOf(tx[w]) = "delete"
    BY <1>1, <1>3 DEF Sound, Inv, Types
  <1>4. CASE OpOf(tx[w]) = "backfill"
    <2>1. /\ tx[w].page # {} /\ tx[w].page \subseteq DOMAIN rows
          /\ tx[w].row = Least(tx[w].page) /\ tx[w].page \subseteq Uuids
      BY <1>1, <1>4 DEF Sound, Covering, Inv, Types
    <2>2. tx[w].row \in tx[w].page
      BY <2>1, LeastIsIn
    <2>3. tx[w].row \in Uuids /\ tx[w].row \in DOMAIN rows
      BY <2>1, <2>2
    <2>4. OpOf(tx[w]) \notin Registrations /\ OpOf(tx[w]) \in Ops
      BY <1>4 DEF Ops
    <2>5. QED
      BY <2>3, <2>4
  <1>5. QED
    BY <1>1, <1>2, <1>3, <1>4 DEF Ops

LEMMA InsertInv ==
  ASSUME Inv, NEW w \in Workers, Insert(w)
  PROVE  Inv'
  <1>1. PICK u \in Uuids \ (DOMAIN rows \cup {tx[v].row : v \in Registering}) :
          Becomes(w, [tx[w] EXCEPT !.at = "commit", !.row = u])
    BY DEF Insert
  <1>. DEFINE t == [tx[w] EXCEPT !.at = "commit", !.row = u]
  <1>2. /\ tx[w] \in Handlers /\ OpOf(tx[w]) \in Registrations
        /\ Insertion(tx[w]) = Inserted(w)
    BY HandlerType DEF Insert, Sound
  <1>3. /\ t \in Handlers /\ OpOf(t) = OpOf(tx[w]) /\ t.at = "commit" /\ t.row = u
        /\ Insertion(t) = Inserted(w)
    BY <1>2 DEF Handlers, Stages, OpOf, Insertion
  <1>4. Becomes(w, t) /\ UNCHANGED <<rows, fragment, mined>>
    BY <1>1 DEF Insert, Reads
  <1>. HIDE DEF t
  <1>5. \A v \in DOMAIN rows : ~Conflicting(rows[v], Insertion(t))
    BY <1>3 DEF Insert, Unique, Collides
  <1>6. Sound(t)
    BY <1>2, <1>3, <1>5 DEF Sound
  <1>7. ASSUME NEW v \in Workers \ {w}, tx[v].at = "commit"
        PROVE  /\ tx[v].row # t.row
               /\ OpOf(tx[v]) \in Registrations => ~Conflicting(Insertion(tx[v]), Insertion(t))
    <2>1. OpOf(tx[v]) = Of(v).op /\ Insertion(tx[v]) = Inserted(v)
      BY HandlerType
    <2>2. OpOf(tx[v]) \in Registrations => v \in Registering
      BY <1>7, <2>1 DEF Registering
    <2>3. tx[v].row # u
      BY <1>7, <2>2, CommitterRow
    <2>4. OpOf(tx[v]) \in Registrations => ~Conflicting(Inserted(v), Inserted(w))
      BY <1>7, <2>1 DEF Insert, Unique, Undecided
    <2>5. QED
      BY <1>3, <2>1, <2>3, <2>4
  <1>8. Meets(w, t)
    BY <1>7 DEF Meets
  <1>9. QED
    BY <1>3, <1>4, <1>6, <1>8, Quiet DEF Inv, Types

LEMMA LockRowInv ==
  ASSUME Inv, NEW w \in Workers, LockRow(w)
  PROVE  Inv'
  <1>. DEFINE t == [tx[w] EXCEPT !.at = "commit"]
  <1>1. Becomes(w, t) /\ UNCHANGED <<rows, fragment, mined>>
    BY DEF LockRow, Goto, Reads
  <1>2. OpOf(tx[w]) = "delete" /\ tx[w].row \in DOMAIN rows
    BY HandlerType DEF LockRow, Is, Sound
  <1>3. t \in Handlers /\ OpOf(t) = "delete" /\ t.at = "commit" /\ t.row = tx[w].row
    BY <1>2, GotoType DEF Stages
  <1>. HIDE DEF t
  <1>4. Sound(t)
    BY <1>2, <1>3 DEF Sound
  <1>5. Meets(w, t)
    BY <1>3 DEF Meets, LockRow, Free
  <1>6. QED
    BY <1>1, <1>3, <1>4, <1>5, Quiet DEF Inv, Types

-----------------------------------------------------------------------------
(* The backfill.                                                           *)

LEMMA PageLemma ==
  ASSUME Types, NEW w \in Workers
  PROVE  /\ Page(w) \subseteq Remaining(w) /\ Remaining(w) \subseteq Missing
         /\ \A u \in Remaining(w) \ Page(w), p \in Page(w) : u > p
         /\ Page(w) = {} => Remaining(w) = {}
  <1>. DEFINE R == Remaining(w)
              Below(u) == {v \in R : v < u}
  <1>1. /\ R \subseteq Missing /\ R \subseteq Nat /\ IsFiniteSet(R)
    <2>1. R \subseteq Missing /\ R \subseteq Uuids
      BY MissingRows DEF Remaining
    <2>2. IsFiniteSet(Uuids)
      BY FS_Interval DEF Uuids
    <2>3. IsFiniteSet(R)
      <3>. HIDE DEF R
      <3>. QED  BY <2>1, <2>2, FS_Subset
    <2>4. QED
      BY <2>1, <2>3 DEF Uuids
  <1>2. Page(w) = {u \in R : Cardinality(Below(u)) < Batch}
    BY DEF Page
  <1>. HIDE DEF R
  <1>3. \A u \in R : IsFiniteSet(Below(u)) /\ Cardinality(Below(u)) \in Nat
    <2>1. \A u \in R : Below(u) \subseteq R
      OBVIOUS
    <2>. HIDE DEF Below
    <2>2. QED
      BY <1>1, <2>1, FS_Subset, FS_CardinalityType
  <1>4. ASSUME NEW u \in R, NEW p \in Page(w), u \notin Page(w)
        PROVE  u > p
    <2>1. SUFFICES ASSUME u < p PROVE FALSE
      BY <1>1, <1>2, <1>4
    <2>2. Below(u) \subseteq Below(p)
      BY <1>1, <1>2, <2>1
    <2>. HIDE DEF Below
    <2>3. p \in R /\ Cardinality(Below(p)) < Batch /\ ~(Cardinality(Below(u)) < Batch)
      BY <1>2, <1>4
    <2>4. Cardinality(Below(u)) <= Cardinality(Below(p))
      BY <1>3, <2>2, <2>3, FS_Subset
    <2>5. Cardinality(Below(u)) \in Nat /\ Cardinality(Below(p)) \in Nat /\ Batch \in Nat
      BY <1>3, <2>3
    <2>6. QED
      BY <2>3, <2>4, <2>5
  <1>5. ASSUME R # {} PROVE Page(w) # {}
    <2>1. PICK m \in R : \A v \in R : m <= v
      BY <1>1, <1>5, LeastExists
    <2>2. Below(m) = {}
      BY <1>1, <2>1
    <2>3. Cardinality(Below(m)) = 0
      BY <2>2, FS_EmptySet
    <2>4. QED
      BY <1>2, <2>3
  <1>6. QED
    BY <1>1, <1>2, <1>4, <1>5 DEF R

LEMMA ReadPageInv ==
  ASSUME Inv, NEW w \in Workers, ReadPage(w)
  PROVE  Inv'
  <1>1. UNCHANGED <<rows, fragment, mined>> /\ tx[w].at = "page"
    BY DEF ReadPage, Reads, Is
  <1>2. CASE Page(w) = {}
    BY <1>1, <1>2, EndInv DEF ReadPage
  <1>3. CASE Page(w) # {}
    <2>. DEFINE t == [tx[w] EXCEPT !.at = "contract", !.page = Page(w)]
    <2>1. Becomes(w, t)
      BY <1>3 DEF ReadPage
    <2>2. tx[w] \in Handlers /\ Sound(tx[w]) /\ OpOf(tx[w]) = "backfill"
      BY HandlerType DEF ReadPage, Is
    <2>3. /\ Page(w) \subseteq Remaining(w) /\ Remaining(w) \subseteq Missing
          /\ \A u \in Remaining(w) \ Page(w), p \in Page(w) : u > p
          /\ Missing \subseteq DOMAIN rows /\ Missing \subseteq Uuids
      BY PageLemma, MissingRows DEF Inv
    <2>4. /\ t \in Handlers /\ OpOf(t) = "backfill" /\ t.at = "contract"
          /\ t.page = Page(w) /\ t.due = tx[w].due
      BY <2>2, <2>3 DEF Handlers, Stages, OpOf
    <2>. HIDE DEF t
    <2>5. /\ t.due \subseteq DOMAIN rows
          /\ \A u \in t.due \cap Missing : u \in Remaining(w)
      BY <1>1, <2>2, <2>4 DEF Sound, Covering, Remaining
    <2>6. Covering(t)
      BY <1>3, <2>3, <2>4, <2>5 DEF Covering
    <2>7. Sound(t) /\ Meets(w, t)
      BY <2>4, <2>6 DEF Sound, Meets
    <2>8. QED
      BY <1>1, <2>1, <2>4, <2>7, Quiet DEF Inv, Types
  <1>4. QED
    BY <1>2, <1>3

LEMMA ReadContractInv ==
  ASSUME Inv, NEW w \in Workers, ReadContract(w)
  PROVE  Inv'
  <1>1. /\ UNCHANGED <<rows, fragment, mined>> /\ tx[w].at = "contract"
        /\ Of(w).op = "backfill" /\ OpOf(tx[w]) = "backfill"
    BY HandlerType DEF ReadContract, Reads, Is
  <1>2. CASE Commitment(w).contract = Absent
    BY <1>1, <1>2, FailsInv DEF ReadContract
  <1>3. CASE Commitment(w).contract # Absent
    <2>. DEFINE t == [tx[w] EXCEPT !.at = "esplora"]
    <2>1. Becomes(w, t)
      BY <1>3 DEF ReadContract, Goto
    <2>2. /\ t \in Handlers /\ OpOf(t) = "backfill" /\ t.at = "esplora"
          /\ t.req = tx[w].req /\ t.page = tx[w].page /\ t.due = tx[w].due
      BY <1>1, GotoType DEF Stages
    <2>. HIDE DEF t
    <2>3. QED
      BY <1>1, <2>1, <2>2, InPageInv
  <1>4. QED
    BY <1>2, <1>3

LEMMA RecheckInv ==
  ASSUME Inv, NEW w \in Workers, Recheck(w)
  PROVE  Inv'
  <1>1. /\ UNCHANGED <<rows, fragment, mined>> /\ tx[w].at = "lock"
        /\ Of(w).op = "backfill" /\ Free(w, Doing(w))
    BY DEF Recheck, Reads, Is
  <1>2. CASE ~Consistent(w, Doing(w))
    BY <1>1, <1>2, FailsInv DEF Recheck
  <1>3. CASE Consistent(w, Doing(w))
    <2>. DEFINE t == [tx[w] EXCEPT !.at = "commit", !.row = Doing(w)]
    <2>1. Becomes(w, t)
      BY <1>3 DEF Recheck
    <2>2. tx[w] \in Handlers /\ Sound(tx[w]) /\ OpOf(tx[w]) = "backfill"
      BY <1>1, HandlerType
    <2>3. Covering(tx[w]) /\ tx[w].page # {} /\ tx[w].page \subseteq Uuids
      BY <1>1, <2>2 DEF Sound, Covering, Inv, Types
    <2>4. Doing(w) \in Uuids
      BY <2>3, LeastIsIn DEF Doing
    <2>5. /\ t \in Handlers /\ OpOf(t) = "backfill" /\ t.at = "commit" /\ t.row = Doing(w)
          /\ t.page = tx[w].page /\ t.due = tx[w].due /\ t.refs = tx[w].refs
      BY <2>2, <2>4 DEF Handlers, Stages, OpOf
    <2>. HIDE DEF t
    <2>6. Covering(t)
      BY <1>1, <1>3, <2>3, <2>5 DEF Covering, Consistent, Doing
    <2>7. Sound(t)
      BY <2>5, <2>6 DEF Sound
    <2>8. Meets(w, t)
      BY <1>1, <2>5 DEF Meets, Free
    <2>9. QED
      BY <1>1, <2>1, <2>5, <2>7, <2>8, Quiet DEF Inv, Types
  <1>4. QED
    BY <1>2, <1>3

LEMMA LockTimeoutInv ==
  ASSUME Inv, NEW w \in Workers, LockTimeout(w)
  PROVE  Inv'
  <1>1. Of(w).op = "backfill" => tx[w].at = "lock"
    BY HandlerType DEF LockTimeout, Is, Sound
  <1>2. QED
    BY <1>1, FailsInv DEF LockTimeout, Reads

LEMMA ReorganiseInv ==
  ASSUME Inv, Reorganise
  PROVE  Inv'
  <1>1. mined' \subseteq ChainTxs /\ UNCHANGED <<rows, fragment, tx>>
    BY DEF Reorganise, Inv, Types
  <1>2. Types'
    BY <1>1 DEF Inv, Types
  <1>3. \A w \in Workers : Sound(tx[w])' /\ Meets(w, tx[w])'
    BY <1>1 DEF Inv, Sound, Covering, Missing, Meets
  <1>4. OneActive' /\ ListedReferences'
    BY <1>1 DEF Inv, OneActive, ListedReferences
  <1>5. QED
    BY <1>2, <1>3, <1>4 DEF Inv

-----------------------------------------------------------------------------
(* Commit: what it does to a row, to the other handlers and to its own.    *)

\* A row changes only in what it lacked, or stops being active.
Continues(old, new) ==
  /\ new.asset = old.asset /\ new.name = old.name
  /\ new.active => old.active
  /\ Agrees(old.refs.txin, new.refs.txin) /\ Agrees(old.refs.prevout, new.refs.prevout)

LEMMA NewRowLemma ==
  ASSUME Inv, NEW w \in Workers, tx[w].at = "commit"
  PROVE  /\ NewRow(w) \in Row
         /\ NewRow(w).active \/ NewFragment(w) # Absent => NewFragment(w) = NewRow(w).refs
         /\ \A v \in DOMAIN rows \ {tx[w].row} : ~Conflicting(rows[v], NewRow(w))
         /\ OpOf(tx[w]) \in Registrations => NewRow(w) = Insertion(tx[w])
         /\ OpOf(tx[w]) \notin Registrations => Continues(rows[tx[w].row], NewRow(w))
         /\ OpOf(tx[w]) = "backfill" => NewRow(w).refs = tx[w].refs
  <1>. DEFINE u == tx[w].row
  <1>1. /\ tx[w] \in Handlers /\ Sound(tx[w]) /\ OpOf(tx[w]) = Of(w).op
        /\ Insertion(tx[w]) = Inserted(w) /\ OpOf(tx[w]) \in Ops
        /\ tx[w].refs \in Refs /\ Insertion(tx[w]) \in Row
    BY HandlerType, BodyType
  <1>2. rows \in [DOMAIN rows -> Row] /\ OneActive
    BY DEF Inv, Types
  <1>3. CASE Of(w).op \in Registrations
    <2>1. NewRow(w) = Insertion(tx[w]) /\ NewFragment(w) = tx[w].refs
      BY <1>1, <1>3 DEF NewRow, NewFragment
    <2>2. \A v \in DOMAIN rows : ~Conflicting(rows[v], Insertion(tx[w]))
      BY <1>1, <1>3 DEF Sound
    <2>3. Insertion(tx[w]).refs = tx[w].refs
      BY DEF Insertion
    <2>4. QED
      BY <1>1, <1>3, <2>1, <2>2, <2>3
  <1>4. CASE Of(w).op = "delete"
    <2>1. u \in DOMAIN rows /\ rows[u] \in Row
      BY <1>1, <1>2, <1>4, CommitterRow
    <2>2. NewRow(w) = [rows[u] EXCEPT !.active = FALSE] /\ NewFragment(w) = Absent
      BY <1>4 DEF NewRow, NewFragment
    <2>. HIDE DEF u
    <2>3. /\ NewRow(w) \in Row /\ ~NewRow(w).active
          /\ NewRow(w).asset = rows[u].asset /\ NewRow(w).name = rows[u].name
          /\ NewRow(w).refs = rows[u].refs
      BY <2>1, <2>2 DEF Row
    <2>4. \A v \in DOMAIN rows \ {u} : ~Conflicting(rows[v], NewRow(w))
      BY <2>3 DEF Conflicting
    <2>5. Continues(rows[u], NewRow(w))
      BY <2>3 DEF Continues, Agrees
    <2>6. QED
      BY <1>1, <1>4, <2>2, <2>3, <2>4, <2>5 DEF u
  <1>5. CASE Of(w).op = "backfill"
    <2>1. u \in DOMAIN rows /\ rows[u] \in Row
      BY <1>1, <1>2, <1>5, CommitterRow
    <2>2. /\ NewRow(w) = [rows[u] EXCEPT !.refs = tx[w].refs]
          /\ NewFragment(w) = tx[w].refs
      BY <1>5 DEF NewRow, NewFragment
    <2>3. Agrees(rows[u].refs.txin, tx[w].refs.txin) /\ Agrees(rows[u].refs.prevout, tx[w].refs.prevout)
      BY <1>1, <1>5 DEF Sound, Covering
    <2>. HIDE DEF u
    <2>4. /\ NewRow(w) \in Row /\ NewRow(w).active = rows[u].active
          /\ NewRow(w).asset = rows[u].asset /\ NewRow(w).name = rows[u].name
          /\ NewRow(w).refs = tx[w].refs
      BY <1>1, <2>1, <2>2 DEF Row
    <2>5. \A v \in DOMAIN rows \ {u} : ~Conflicting(rows[v], NewRow(w))
      <3>1. \A v \in DOMAIN rows \ {u} : ~Conflicting(rows[v], rows[u])
        BY <1>2, <2>1 DEF OneActive
      <3>2. QED
        BY <2>4, <3>1 DEF Conflicting
    <2>6. Continues(rows[u], NewRow(w))
      BY <2>3, <2>4 DEF Continues
    <2>7. QED
      BY <1>1, <1>5, <2>2, <2>4, <2>5, <2>6 DEF u
  <1>6. QED
    BY <1>1, <1>3, <1>4, <1>5 DEF Ops

LEMMA CommitNextRow ==
  ASSUME NEW w \in Workers, Commit(w), Of(w).op = "backfill"
  PROVE  NextRow(w, FALSE) /\ Silent
  <1>. DEFINE forwarded == Of(w).op \in Forwarded /\ ShadowWrite
  <1>1. ~forwarded
    BY DEF Forwarded
  <1>2. (CASE Of(w).op = "backfill" -> NextRow(w, FALSE) /\ Silent
           [] forwarded -> Goto(w, "shadow") /\ Silent
           [] OTHER -> End(w) /\ answer' = [success |-> TRUE, here |-> TRUE, there |-> FALSE])
    BY DEF Commit
  <1>. HIDE DEF forwarded
  <1>3. QED
    BY <1>1, <1>2, Zenon

LEMMA CommitEnds ==
  ASSUME NEW w \in Workers, Commit(w), Of(w).op # "backfill"
  PROVE  \/ Goto(w, "shadow") /\ answer' = NoAnswer
         \/ End(w) /\ answer' = [success |-> TRUE, here |-> TRUE, there |-> FALSE]
  <1>. DEFINE forwarded == Of(w).op \in Forwarded /\ ShadowWrite
              local == [success |-> TRUE, here |-> TRUE, there |-> FALSE]
  <1>1. (CASE Of(w).op = "backfill" -> NextRow(w, FALSE) /\ Silent
           [] forwarded -> Goto(w, "shadow") /\ Silent
           [] OTHER -> End(w) /\ answer' = local)
    BY DEF Commit
  <1>. HIDE DEF forwarded, local
  <1>2. \/ Goto(w, "shadow") /\ Silent
        \/ End(w) /\ answer' = local
    BY <1>1, Zenon
  <1>3. QED
    BY <1>2 DEF Silent, local

LEMMA CommitWrites ==
  ASSUME Inv, NEW w \in Workers, Commit(w)
  PROVE  LET u == tx[w].row
         IN  /\ DOMAIN rows' = DOMAIN rows \cup {u} /\ DOMAIN fragment' = DOMAIN rows'
             /\ rows' \in [DOMAIN rows' -> Row]
             /\ rows'[u] = NewRow(w) /\ fragment'[u] = NewFragment(w)
             /\ \A v \in DOMAIN rows \ {u} : rows'[v] = rows[v] /\ fragment'[v] = fragment[v]
             /\ OpOf(tx[w]) \notin Registrations =>
                  u \in DOMAIN rows /\ Continues(rows[u], rows'[u])
             /\ OpOf(tx[w]) \in Registrations => u \notin DOMAIN rows
  <1>. DEFINE u == tx[w].row
  <1>1. /\ rows' = With(rows, u, NewRow(w)) /\ fragment' = With(fragment, u, NewFragment(w))
        /\ tx[w].at = "commit"
    BY DEF Commit
  <1>2. DOMAIN fragment = DOMAIN rows /\ rows \in [DOMAIN rows -> Row]
    BY DEF Inv, Types
  <1>3. /\ NewRow(w) \in Row
        /\ OpOf(tx[w]) \notin Registrations => u \in DOMAIN rows /\ Continues(rows[u], NewRow(w))
        /\ OpOf(tx[w]) \in Registrations => u \notin DOMAIN rows
    BY <1>1, NewRowLemma, CommitterRow
  <1>. HIDE DEF u
  <1>4. QED
    BY <1>1, <1>2, <1>3 DEF With, u

LEMMA CommitKeepsRows ==
  ASSUME Inv, NEW w \in Workers, Commit(w)
  PROVE  Types' /\ OneActive' /\ ListedReferences' /\ Missing' \cap DOMAIN rows \subseteq Missing
  <1>. DEFINE u == tx[w].row
  <1>1. /\ DOMAIN rows' = DOMAIN rows \cup {u} /\ DOMAIN fragment' = DOMAIN rows'
        /\ rows' \in [DOMAIN rows' -> Row]
        /\ rows'[u] = NewRow(w) /\ fragment'[u] = NewFragment(w)
        /\ \A v \in DOMAIN rows \ {u} : rows'[v] = rows[v] /\ fragment'[v] = fragment[v]
        /\ OpOf(tx[w]) \notin Registrations => Continues(rows[u], rows'[u])
        /\ OpOf(tx[w]) \in Registrations => u \notin DOMAIN rows
        /\ u \in Uuids
    BY CommitWrites, CommitterRow DEF Commit
  <1>2. /\ NewRow(w).active \/ NewFragment(w) # Absent => NewFragment(w) = NewRow(w).refs
        /\ \A v \in DOMAIN rows \ {u} : ~Conflicting(rows[v], NewRow(w))
    BY NewRowLemma DEF Commit
  <1>3. tx' \in [Workers -> Handlers] /\ mined' = mined
    <2>1. mined' = mined
      BY DEF Commit
    <2>2. ASSUME NEW t \in Handlers, Becomes(w, t) PROVE tx' \in [Workers -> Handlers]
      BY <2>2 DEF Becomes, Inv, Types
    <2>3. CASE End(w)
      BY <2>1, <2>2, <2>3, IdleType DEF End
    <2>4. CASE Goto(w, "shadow")
      <3>1. [tx[w] EXCEPT !.at = "shadow"] \in Handlers
        BY GotoType DEF Stages
      <3>2. QED
        BY <2>1, <2>2, <2>4, <3>1 DEF Goto
    <2>5. CASE Of(w).op = "backfill"
      <3>1. Onward(w, FALSE) \in Handlers
        BY <2>5, HandlerType, NextRowType DEF Commit
      <3>2. NextRow(w, FALSE)
        BY <2>5, CommitNextRow
      <3>3. Becomes(w, Onward(w, FALSE))
        BY <3>2, NextRowIsOnward
      <3>4. QED
        BY <2>1, <2>2, <3>1, <3>3
    <2>6. QED
      BY <2>1, <2>3, <2>4, <2>5 DEF Commit
  <1>. HIDE DEF u
  <1>4. Types'
    <2>1. DOMAIN rows \subseteq Uuids /\ mined \subseteq ChainTxs
      BY DEF Inv, Types
    <2>2. QED
      BY <1>1, <1>3, <2>1 DEF Types
  <1>5. ASSUME NEW a \in DOMAIN rows', NEW b \in DOMAIN rows', a # b
        PROVE  ~Conflicting(rows'[a], rows'[b])
    <2>1. CASE a # u /\ b # u
      BY <1>1, <1>5, <2>1 DEF Inv, OneActive
    <2>2. CASE b = u
      BY <1>1, <1>2, <1>5, <2>2
    <2>3. CASE a = u
      BY <1>1, <1>2, <1>5, <2>3, OneConflict
    <2>4. QED
      BY <2>1, <2>2, <2>3
  <1>6. ListedReferences'
    BY <1>1, <1>2 DEF Inv, ListedReferences
  <1>7. ASSUME NEW v \in Missing', v \in DOMAIN rows PROVE v \in Missing
    <2>1. rows'[v].refs.txin = Absent \/ rows'[v].refs.prevout = Absent
      BY DEF Missing
    <2>2. CASE v # u
      BY <1>1, <1>7, <2>1, <2>2 DEF Missing
    <2>3. CASE v = u
      BY <1>1, <1>7, <2>1, <2>3 DEF Missing, Continues, Agrees
    <2>4. QED
      BY <2>2, <2>3
  <1>8. QED
    BY <1>4, <1>5, <1>6, <1>7 DEF OneActive

LEMMA CommitKeepsOthers ==
  ASSUME Inv, NEW w \in Workers, Commit(w), NEW v \in Workers \ {w}
  PROVE  Sound(tx[v])'
  <1>. DEFINE u == tx[w].row
              t == tx[v]
  <1>1. /\ DOMAIN rows' = DOMAIN rows \cup {u} /\ rows'[u] = NewRow(w)
        /\ \A x \in DOMAIN rows \ {u} : rows'[x] = rows[x]
        /\ OpOf(tx[w]) \notin Registrations => u \in DOMAIN rows /\ Continues(rows[u], rows'[u])
        /\ OpOf(tx[w]) \in Registrations => rows'[u] = Insertion(tx[w])
        /\ tx[w].at = "commit"
    BY CommitWrites, NewRowLemma DEF Commit
  <1>2. t' = t /\ t \in Handlers /\ Sound(t) /\ Meets(w, tx[w])
    BY HandlerType DEF Commit, NextRow, Goto, End, Becomes, Inv, Types
  <1>3. t.at = "commit" =>
          /\ t.row # u
          /\ OpOf(tx[w]) \in Registrations /\ OpOf(t) \in Registrations
               => ~Conflicting(Insertion(tx[w]), Insertion(t))
    BY <1>1, <1>2, OneConflict DEF Meets
  <1>4. Missing' \cap DOMAIN rows \subseteq Missing
    BY CommitKeepsRows
  <1>. HIDE DEF u, t
  <1>5. ASSUME t.at = "commit", OpOf(t) \in Registrations
        PROVE  /\ t.row \in Uuids \ DOMAIN rows'
               /\ \A x \in DOMAIN rows' : ~Conflicting(rows'[x], Insertion(t))
    <2>1. t.row \in Uuids \ DOMAIN rows /\ \A x \in DOMAIN rows : ~Conflicting(rows[x], Insertion(t))
      BY <1>2, <1>5 DEF Sound
    <2>2. ~Conflicting(rows'[u], Insertion(t))
      <3>1. CASE OpOf(tx[w]) \in Registrations
        BY <1>1, <1>3, <1>5, <3>1
      <3>2. CASE OpOf(tx[w]) \notin Registrations
        BY <1>1, <2>1, <3>2 DEF Continues, Conflicting, SameName
      <3>3. QED
        BY <3>1, <3>2
    <2>3. QED
      BY <1>1, <1>3, <1>5, <2>1, <2>2
  <1>6. ASSUME OpOf(t) = "backfill" PROVE Covering(t)'
    <2>1. Covering(t)
      BY <1>2, <1>6 DEF Sound
    <2>2. t.due \subseteq DOMAIN rows /\ t.due \cap Missing' \subseteq t.due \cap Missing
      BY <1>4, <2>1 DEF Covering
    <2>3. t.at = "commit" => rows'[t.row] = rows[t.row]
      <3>1. t.at = "commit" => t.row \in DOMAIN rows
        BY <1>6, CommitterRow DEF t
      <3>2. QED
        BY <1>1, <1>3, <3>1
    <2>4. QED
      BY <1>1, <1>2, <2>1, <2>2, <2>3 DEF Covering
  <1>7. t.at \in {"lock", "commit"} /\ OpOf(t) = "delete" => t.row \in DOMAIN rows'
    BY <1>1, <1>2 DEF Sound
  <1>8. QED
    BY <1>2, <1>5, <1>6, <1>7 DEF Sound, t, OpOf, Insertion

\* The committed row was the least of the page, and lacks nothing any more.
LEMMA CommitKeepsCovering ==
  ASSUME Inv, NEW w \in Workers, Commit(w), OpOf(tx[w]) = "backfill"
  PROVE  \E t \in Handlers : /\ Becomes(w, t) /\ OpOf(t) = "backfill"
                             /\ t.at \in {"page", "contract"} /\ Covering(t)'
  <1>. DEFINE u == tx[w].row
              t == Onward(w, FALSE)
              rest == tx[w].page \ {u}
  <1>1. NextRow(w, FALSE) /\ tx[w].at = "commit" /\ Of(w).op = "backfill"
    BY HandlerType, CommitNextRow DEF Commit
  <1>2. Becomes(w, t)
    BY <1>1, NextRowIsOnward
  <1>3. /\ tx[w].page # {} /\ tx[w].page \subseteq DOMAIN rows /\ tx[w].page \subseteq Uuids
        /\ tx[w].due \subseteq DOMAIN rows
        /\ \A v \in (tx[w].due \cap Missing) \ tx[w].page, p \in tx[w].page : v > p
        /\ u = Doing(w) /\ tx[w].refs.txin # Absent /\ tx[w].refs.prevout # Absent
    BY <1>1, HandlerType DEF Sound, Covering, Doing, Inv, Types
  <1>4. /\ t \in Handlers /\ OpOf(t) = "backfill" /\ t.at = IF rest = {} THEN "page" ELSE "contract"
        /\ t.page = rest /\ t.due \subseteq tx[w].due
        /\ rest = {} => t.after = u
    BY <1>1, <1>3, NextRowType
  <1>5. /\ DOMAIN rows' = DOMAIN rows \cup {u} /\ u \in tx[w].page
        /\ rows'[u].refs = tx[w].refs
    <2>1. DOMAIN rows' = DOMAIN rows \cup {u} /\ rows'[u] = NewRow(w)
      BY CommitWrites
    <2>2. NewRow(w).refs = tx[w].refs
      BY <1>1, NewRowLemma
    <2>3. u \in tx[w].page
      BY <1>3, LeastIsIn DEF Doing
    <2>. HIDE DEF u
    <2>4. QED
      BY <2>1, <2>2, <2>3
  <1>6. u \notin Missing'
    BY <1>3, <1>5 DEF Missing
  <1>7. PICK h \in Handlers : h = t
    BY <1>4
  <1>. HIDE DEF u, t
  <1>8. \A v \in h.due \cap Missing' : v \in (tx[w].due \cap Missing) \ {u}
    BY <1>3, <1>4, <1>6, <1>7, CommitKeepsRows
  <1>9. Covering(h)'
    BY <1>3, <1>4, <1>5, <1>7, <1>8 DEF Covering
  <1>10. QED
    BY <1>2, <1>4, <1>7, <1>9

LEMMA CommitMoves ==
  ASSUME Inv, NEW w \in Workers, Commit(w)
  PROVE  \E t \in Handlers : Becomes(w, t) /\ t.at # "commit" /\ Sound(t)'
  <1>1. CASE Of(w).op = "backfill"
    <2>1. PICK t \in Handlers : /\ Becomes(w, t) /\ OpOf(t) = "backfill"
                                /\ t.at \in {"page", "contract"} /\ Covering(t)'
      BY <1>1, HandlerType, CommitKeepsCovering
    <2>2. Sound(t)'
      BY <2>1 DEF Sound, OpOf
    <2>3. QED
      BY <2>1, <2>2
  <1>2. CASE Of(w).op # "backfill"
    <2>1. End(w) \/ Goto(w, "shadow")
      BY <1>2, CommitEnds
    <2>2. CASE End(w)
      <3>1. PICK t \in Handlers : t = Idle
        BY IdleType
      <3>2. t.at = "idle" /\ t.due = {}
        BY <3>1, IdleType
      <3>3. Covering(t)'
        BY <3>2 DEF Covering
      <3>4. Sound(t)'
        BY <3>2, <3>3 DEF Sound
      <3>5. QED
        BY <2>2, <3>1, <3>2, <3>4 DEF End
    <2>3. CASE Goto(w, "shadow")
      <3>1. PICK t \in Handlers :
              /\ t = [tx[w] EXCEPT !.at = "shadow"] /\ t.at = "shadow"
              /\ OpOf(t) = OpOf(tx[w])
        <4>. DEFINE h == [tx[w] EXCEPT !.at = "shadow"]
        <4>1. h \in Handlers /\ h.at = "shadow" /\ OpOf(h) = OpOf(tx[w])
          BY GotoType DEF Stages
        <4>. HIDE DEF h
        <4>2. \E t \in Handlers : t = h /\ t.at = "shadow" /\ OpOf(t) = OpOf(tx[w])
          BY <4>1
        <4>3. QED
          BY <4>2 DEF h
      <3>2. OpOf(t) # "backfill"
        BY <1>2, <3>1, HandlerType
      <3>3. Sound(t)'
        BY <3>1, <3>2 DEF Sound, OpOf
      <3>4. QED
        BY <2>3, <3>1, <3>3 DEF Goto
    <2>4. QED
      BY <2>1, <2>2, <2>3
  <1>3. QED
    BY <1>1, <1>2

LEMMA CommitInv ==
  ASSUME Inv, NEW w \in Workers, Commit(w)
  PROVE  Inv'
  <1>1. Types' /\ OneActive' /\ ListedReferences'
    BY CommitKeepsRows
  <1>2. PICK t \in Handlers : Becomes(w, t) /\ t.at # "commit" /\ Sound(t)'
    BY CommitMoves
  <1>3. tx'[w] = t /\ \A v \in Workers \ {w} : tx'[v] = tx[v]
    BY <1>2 DEF Becomes, Inv, Types
  <1>4. Sound(tx[w])'
    BY <1>2, <1>3 DEF Sound, Covering, OpOf, Insertion
  <1>5. \A v \in Workers : Sound(tx[v])'
    BY <1>4, CommitKeepsOthers
  <1>6. ASSUME NEW v \in Workers PROVE Meets(v, tx[v])'
    <2>1. Meets(v, tx[v])
      BY DEF Inv
    <2>2. QED
      BY <1>2, <1>3, <2>1 DEF Meets, OpOf, Insertion
  <1>7. QED
    BY <1>1, <1>5, <1>6 DEF Inv

-----------------------------------------------------------------------------
(* The specification.                                                      *)

LEMMA InitInv == Init => Inv
  <1>. SUFFICES ASSUME Init PROVE Inv
    OBVIOUS
  <1>1. tx \in [Workers -> Handlers] /\ \A w \in Workers : tx[w] = Idle
    BY IdleType DEF Init
  <1>2. Types
    BY <1>1 DEF Init, Types
  <1>3. \A w \in Workers : Sound(tx[w]) /\ Meets(w, tx[w])
    BY <1>1, IdleType DEF Meets
  <1>4. OneActive
    BY InitialRowsAssumption DEF Init, OneActive
  <1>5. ListedReferences
    BY DEF Init, ListedReferences
  <1>6. QED
    BY <1>2, <1>3, <1>4, <1>5 DEF Inv

LEMMA StepInv ==
  ASSUME Inv, [Next]_vars
  PROVE  Inv'
  <1>1. CASE UNCHANGED vars
    <2>1. UNCHANGED <<rows, fragment, mined, tx>>
      BY <1>1 DEF vars
    <2>2. Types' /\ OneActive' /\ ListedReferences'
      BY <2>1 DEF Inv, Types, OneActive, ListedReferences
    <2>3. \A w \in Workers : Sound(tx[w])' /\ Meets(w, tx[w])'
      BY <2>1 DEF Inv, Sound, Covering, Missing, Meets
    <2>4. QED
      BY <2>2, <2>3 DEF Inv
  <1>2. CASE Reorganise
    BY <1>2, ReorganiseInv
  <1>3. ASSUME NEW w \in Workers, NEW r \in Requests, Begin(w, r) PROVE Inv'
    BY <1>3, BeginInv
  <1>4. ASSUME NEW w \in Workers, Step(w) PROVE Inv'
    <2>1. CASE ReadNamespace(w) \/ ReadExists(w)
      BY <2>1, ImportInv
    <2>2. CASE AskEsplora(w) \/ EsploraFails(w)
      BY <2>2, EsploraInv
    <2>3. CASE AskStatus(w)
      BY <2>3, AskStatusInv
    <2>4. CASE VerifyDomain(w)
      BY <2>4, VerifyDomainInv
    <2>5. CASE Insert(w)
      BY <2>5, InsertInv
    <2>6. CASE Conflict(w)
      BY <2>6, ConflictInv
    <2>7. CASE FindActive(w)
      BY <2>7, FindActiveInv
    <2>8. CASE LockRow(w)
      BY <2>8, LockRowInv
    <2>9. CASE ReadPage(w)
      BY <2>9, ReadPageInv
    <2>10. CASE ReadContract(w)
      BY <2>10, ReadContractInv
    <2>11. CASE Recheck(w)
      BY <2>11, RecheckInv
    <2>12. CASE Commit(w)
      BY <2>12, CommitInv
    <2>13. ASSUME NEW status, Forward(w, status) PROVE Inv'
      BY <2>13, EndInv DEF Forward
    <2>14. QED
      BY <1>4, <2>1, <2>2, <2>3, <2>4, <2>5, <2>6, <2>7, <2>8, <2>9, <2>10, <2>11,
         <2>12, <2>13 DEF Step
  <1>5. ASSUME NEW w \in Workers, Dies(w) PROVE Inv'
    BY <1>5, EndInv DEF Dies, Reads
  <1>6. ASSUME NEW w \in Workers, LockTimeout(w) PROVE Inv'
    BY <1>6, LockTimeoutInv
  <1>7. QED
    BY <1>1, <1>2, <1>3, <1>4, <1>5, <1>6 DEF Next

LEMMA Invariance == Spec => []Inv
  <1>1. Inv /\ [Next]_vars => Inv'
    BY StepInv
  <1>2. QED
    BY <1>1, InitInv, PTL DEF Spec

\* However registrations, imports and deletions race, an asset id and a
\* namespace have one active row: the insertion waits for undecided ones.
THEOREM OneActiveRow == Spec => []OneActive
  <1>1. Inv => OneActive
    BY DEF Inv
  <1>2. QED
    BY <1>1, Invariance, PTL

\* Both listings show the issuance that is stored, whoever wrote it.
THEOREM ListingsShowReferences == Spec => []ListedReferences
  <1>1. Inv => ListedReferences
    BY DEF Inv
  <1>2. QED
    BY <1>1, Invariance, PTL

\* A backfill without a failure leaves none of the rows it began with behind,
\* for any page size and any uuids.
THEOREM BackfillCoversRows == Spec => []BackfillCovers
  <1>1. Inv => BackfillCovers
    <2>. SUFFICES ASSUME Inv, NEW w \in Workers, Is(w, "page", {"backfill"}), Page(w) = {}
                  PROVE  tx[w].due \cap Missing = {}
      BY DEF BackfillCovers
    <2>1. Covering(tx[w]) /\ tx[w].at = "page"
      BY HandlerType DEF Is, Sound
    <2>2. Remaining(w) = {}
      BY PageLemma DEF Inv
    <2>3. QED
      BY <2>1, <2>2 DEF Covering, Remaining
  <1>2. QED
    BY <1>1, Invariance, PTL

\* No step of any handler changes a reference that is stored, of any row.
THEOREM ReferencesStay == Spec => ReferencesKept
  <1>1. ASSUME Inv, [Next]_vars
        PROVE  [\A u \in DOMAIN rows :
                  /\ Agrees(rows[u].refs.txin, rows'[u].refs.txin)
                  /\ Agrees(rows[u].refs.prevout, rows'[u].refs.prevout)]_vars
    <2>1. CASE UNCHANGED rows
      BY <2>1 DEF Agrees
    <2>2. ASSUME NEW w \in Workers, Commit(w), NEW u \in DOMAIN rows
          PROVE  /\ Agrees(rows[u].refs.txin, rows'[u].refs.txin)
                 /\ Agrees(rows[u].refs.prevout, rows'[u].refs.prevout)
      <3>1. CASE u # tx[w].row
        <4>1. rows'[u] = rows[u]
          BY <1>1, <2>2, <3>1, CommitWrites
        <4>2. QED
          BY <4>1 DEF Agrees
      <3>2. CASE u = tx[w].row
        <4>1. Continues(rows[u], rows'[u])
          BY <1>1, <2>2, <3>2, CommitWrites, CommitterRow DEF Commit
        <4>2. QED
          BY <4>1 DEF Continues
      <3>3. QED
        BY <3>1, <3>2
    <2>3. UNCHANGED rows \/ \E w \in Workers : Commit(w)
      <3>1. ASSUME NEW w \in Workers, Step(w) PROVE UNCHANGED rows \/ Commit(w)
        BY <3>1, Zenon
           DEF Step, Reads, ReadNamespace, ReadExists, AskEsplora, AskStatus, EsploraFails,
               VerifyDomain, Insert, Conflict, FindActive, LockRow, ReadPage, ReadContract,
               Recheck, Forward
      <3>2. ASSUME NEW w \in Workers,
                   (\E r \in Requests : Begin(w, r)) \/ Dies(w) \/ LockTimeout(w)
            PROVE  UNCHANGED rows
        BY <3>2, Zenon DEF Begin, Dies, LockTimeout, Reads
      <3>3. Reorganise => UNCHANGED rows
        BY DEF Reorganise
      <3>4. UNCHANGED vars => UNCHANGED rows
        BY DEF vars
      <3>5. QED
        BY <1>1, <3>1, <3>2, <3>3, <3>4 DEF Next
    <2>4. QED
      BY <2>1, <2>2, <2>3
  <1>2. QED
    BY <1>1, Invariance, PTL DEF Spec, ReferencesKept

\* What is answered as done was done here or at the original registry,
\* whichever of the two writes failed or was not answered.
THEOREM AcceptedMeansDone == Spec => []AcceptedIsDone
  <1>1. Init => AcceptedIsDone
    BY DEF Init, NoAnswer, AcceptedIsDone
  <1>2. ASSUME AcceptedIsDone, [Next]_vars PROVE AcceptedIsDone'
    <2>1. CASE answer' = NoAnswer
      BY <2>1 DEF NoAnswer, AcceptedIsDone
    <2>2. CASE UNCHANGED answer
      BY <1>2, <2>2 DEF AcceptedIsDone
    <2>3. ASSUME NEW w \in Workers, Commit(w) PROVE AcceptedIsDone'
      <3>1. CASE Of(w).op = "backfill"
        <4>1. answer' = NoAnswer
          <5>1. NextRow(w, FALSE) /\ Silent
            BY <2>3, <3>1, CommitNextRow
          <5>2. QED
            BY <5>1 DEF Silent
        <4>2. QED
          BY <2>1, <4>1
      <3>2. CASE Of(w).op # "backfill"
        <4>1. \/ answer' = NoAnswer
              \/ answer' = [success |-> TRUE, here |-> TRUE, there |-> FALSE]
          BY <2>3, <3>2, CommitEnds
        <4>2. QED
          BY <2>1, <4>1 DEF AcceptedIsDone
      <3>3. QED
        BY <3>1, <3>2
    <2>4. ASSUME NEW w \in Workers, NEW status \in {"none", "ok", "error"}, Forward(w, status)
          PROVE  AcceptedIsDone'
      <3>. DEFINE here == ~tx[w].local_error
      <3>1. PICK done \in {TRUE, status = "ok"} :
              answer' = [success |-> Succeeds(w, status), here |-> here, there |-> done]
        BY <2>4 DEF Forward
      <3>2. Succeeds(w, status) => here \/ done
        BY Zenon DEF Succeeds
      <3>3. /\ answer'.success = Succeeds(w, status)
            /\ answer'.here = here /\ answer'.there = done
        <4>. HIDE DEF here
        <4>. QED  BY <3>1
      <3>. HIDE DEF here
      <3>4. QED
        BY <3>2, <3>3, Zenon DEF AcceptedIsDone
    <2>5. \/ UNCHANGED answer \/ answer' = NoAnswer
          \/ \E w \in Workers : \/ Commit(w)
                                \/ \E status \in {"none", "ok", "error"} : Forward(w, status)
      <3>1. ASSUME NEW w \in Workers, Step(w)
            PROVE  \/ Silent \/ Commit(w)
                   \/ \E status \in {"none", "ok", "error"} : Forward(w, status)
        BY <3>1, Zenon
           DEF Step, Reads, ReadNamespace, ReadExists, AskEsplora, AskStatus, EsploraFails,
               VerifyDomain, Insert, Conflict, FindActive, LockRow, ReadPage, ReadContract,
               Recheck
      <3>2. ASSUME NEW w \in Workers,
                   (\E r \in Requests : Begin(w, r)) \/ Dies(w) \/ LockTimeout(w)
            PROVE  Silent
        BY <3>2, Zenon DEF Begin, Dies, LockTimeout, Reads
      <3>3. Reorganise => Silent
        BY DEF Reorganise
      <3>4. UNCHANGED vars => UNCHANGED answer
        BY DEF vars
      <3>5. Silent => answer' = NoAnswer
        BY DEF Silent
      <3>. HIDE DEF Silent
      <3>6. QED
        BY <1>2, <3>1, <3>2, <3>3, <3>4, <3>5, Zenon DEF Next
    <2>6. QED
      BY <2>1, <2>2, <2>3, <2>4, <2>5
  <1>3. QED
    BY <1>1, <1>2, PTL DEF Spec
=============================================================================
