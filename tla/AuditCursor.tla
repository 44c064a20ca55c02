----------------------------- MODULE AuditCursor -----------------------------
(***************************************************************************)
(* The audit log as its readers see it.  Writers draw an audit id when     *)
(* they insert a row of actions or admin_actions and commit it later, or   *)
(* never.  A page is two statements, one for each table, merged and cut to *)
(* a limit; its next_since_audit_id is where a follower resumes.           *)
(***************************************************************************)
EXTENDS Integers, Sequences, FiniteSets, FiniteSetsExt, SequencesExt

CONSTANTS
  Workers,  \* transactions that write audited rows
  Assets,   \* the assets that actions are about
  All,      \* no filter
  MaxLimit, \* bound on a page's limit
  MaxId     \* bound on audit ids

ASSUME AuditAssumption ==
  /\ All \notin Assets \cup {"issuer", "admin"}
  /\ MaxLimit \in Nat /\ MaxId \in Nat

VARIABLES
  nextId,     \* audit_sequence_global
  tx,         \* each worker's uncommitted row, or NoRow
  committed,  \* the rows of both tables
  filter,     \* what the follower asks for
  cursor,     \* the last next_since_audit_id it was given
  received,   \* history: the entries of its pages, in order
  page        \* the page being read, or read last

auditVars == <<nextId, tx, committed, filter, cursor, received, page>>

Tables == {"actions", "admin_actions"}

\* Issuers and admins act on assets; the registry itself too, which is filtered
\* like an issuer.  The lifecycle of admins has a table of its own.
Kinds == [table : {"actions"}, actor : {"issuer", "admin"}, asset : Assets]
         \cup [table : {"admin_actions"}, actor : {"admin"}, asset : {All}]
NoRow == [id |-> 0, kind |-> [table |-> All, actor |-> All, asset |-> All]]

Filters == [actor : {All, "issuer", "admin"}, asset : Assets \cup {All}]

-----------------------------------------------------------------------------
(* Writers.                                                                *)

Insert(w, kind) ==
  /\ tx[w] = NoRow /\ nextId <= MaxId
  /\ tx' = [tx EXCEPT ![w] = [id |-> nextId, kind |-> kind]]
  /\ nextId' = nextId + 1
  /\ UNCHANGED <<committed, filter, cursor, received, page>>

CommitRow(w) ==
  /\ tx[w] # NoRow
  /\ committed' = committed \cup {tx[w]}
  /\ tx' = [tx EXCEPT ![w] = NoRow]
  /\ UNCHANGED <<nextId, filter, cursor, received, page>>

\* A rollback leaves a gap.
RollbackRow(w) ==
  /\ tx[w] # NoRow
  /\ tx' = [tx EXCEPT ![w] = NoRow]
  /\ UNCHANGED <<nextId, committed, filter, cursor, received, page>>

-----------------------------------------------------------------------------
(* search_audit_log                                                        *)

\* The lifecycle of admins is left out of a log of one asset or of issuers.
Searched(f) == IF f.asset # All \/ f.actor = "issuer"
               THEN {"actions"} ELSE Tables

Matches(row, f) ==
  /\ row.kind.table \in Searched(f)
  /\ f.asset # All => row.kind.asset = f.asset
  /\ f.actor # All => row.kind.actor = f.actor

SinceIncluded(row, since) == row.id >= since  \* mutant: >= for >
Since(row, since) == row.id > since

\* ORDER BY the audit id, and the first rows of a set in that order, as a set
\* and as a list.
Before(a, b, order) == IF order = "asc" THEN a.id < b.id ELSE a.id > b.id

Rank(rows, row, order) == Cardinality({r \in rows : Before(r, row, order)})

First(rows, order, limit) == {row \in rows : Rank(rows, row, order) < limit}

Sorted(rows, order) ==
  [i \in 1..Cardinality(rows) |->
     CHOOSE row \in rows : Rank(rows, row, order) = i - 1]

\* One statement: the first rows of a table, in the order asked for.
Selected(table, f, since, rows) ==
  {row \in rows : row.kind.table = table /\ Matches(row, f) /\ Since(row, since)}
Statement(table, p) ==
  First(Selected(table, filter, p.since, committed), p.order, p.limit)

\* The page of two results, and next_since_audit_id, which stays absent when
\* the page is empty.
FirstThenSecond(p, rows) ==  \* mutant: the two results are not merged
  LET both == Sorted(p.first, p.order) \o Sorted(rows \ p.first, p.order)
  IN  SubSeq(both, 1, IF Len(both) < p.limit THEN Len(both) ELSE p.limit)
Merged(p, rows) == Sorted(First(rows, p.order, p.limit), p.order)
LastFetched(p, rows) == IF rows = {} THEN cursor
                        ELSE Max({row.id : row \in rows})  \* mutant: uncut
NextSince(p, rows) ==
  IF rows = {} THEN cursor
  ELSE Max({row.id : row \in First(rows, p.order, p.limit)})

\* A follower resumes, oldest first, where its last page ended; anyone may ask
\* for the newest entries.
Ask(order, limit) ==
  /\ page.at # "second"
  /\ LET p == [at |-> "second", order |-> order, limit |-> limit,
               since |-> IF order = "asc" THEN cursor ELSE 0,
               before |-> committed, first |-> {}, items |-> <<>>]
     IN  page' = [p EXCEPT !.first = Statement("actions", p)]
  /\ UNCHANGED <<nextId, tx, committed, filter, cursor, received>>

Answer ==
  /\ page.at = "second"
  /\ LET rows  == page.first \cup IF "admin_actions" \in Searched(filter)
                                  THEN Statement("admin_actions", page) ELSE {}
         items == Merged(page, rows)
     IN  /\ page' = [page EXCEPT !.at = "read", !.items = items, !.first = {}]
         /\ IF page.order = "asc"
            THEN cursor' = NextSince(page, rows) /\ received' = received \o items
            ELSE UNCHANGED <<cursor, received>>
  /\ UNCHANGED <<nextId, tx, committed, filter>>

-----------------------------------------------------------------------------

AuditInit ==
  /\ nextId = 1 /\ committed = {} /\ tx = [w \in Workers |-> NoRow]
  /\ filter \in Filters
  /\ cursor = 0 /\ received = <<>>
  /\ page = [at |-> "none", order |-> "asc", limit |-> 0, since |-> 0,
             before |-> {}, first |-> {}, items |-> <<>>]

AuditNext ==
  \/ \E w \in Workers : CommitRow(w) \/ RollbackRow(w)
  \/ \E w \in Workers, kind \in Kinds : Insert(w, kind)
  \/ \E order \in {"asc", "desc"}, limit \in 1..MaxLimit : Ask(order, limit)
  \/ Answer

\* A follower goes on asking, and its requests are answered; others may ask
\* between its pages.
Follow == \E limit \in 1..MaxLimit : Ask("asc", limit)
AuditFairness == SF_auditVars(Follow) /\ WF_auditVars(Answer)

AuditSpec == AuditInit /\ [][AuditNext]_auditVars /\ AuditFairness
-----------------------------------------------------------------------------

\* A follower is given entries in the order of their ids and never one twice,
\* over all of its pages.
FollowedInOrder ==
  \A i, j \in DOMAIN received : i < j => received[i].id < received[j].id

\* A page has no hole: an entry that was committed before the page was read and
\* lies between two of its entries, or between its start and an entry, is in it,
\* although the two tables are read one after the other; and a page that is not
\* full holds all there was.
PageHasNoHole ==
  page.at = "read" =>
    \A row \in page.before :
      \/ row \in ToSet(page.items)
      \/ ~Matches(row, filter) \/ row.id <= page.since
      \/ /\ Len(page.items) = page.limit
         /\ \A i \in DOMAIN page.items :
              IF page.order = "asc" THEN page.items[i].id < row.id
                                    ELSE page.items[i].id > row.id

\* An entry that is committed, and not yet passed, when a follower asks for its
\* next page reaches it, however small its pages are.
CommittedIsDelivered ==
  \A k \in 1..MaxId :
    (/\ page.at # "second" /\ cursor < k
     /\ \E row \in committed : row.id = k /\ Matches(row, filter))
      ~> (\E i \in DOMAIN received : received[i].id = k)
=============================================================================
