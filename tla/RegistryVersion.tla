--------------------------- MODULE RegistryVersion ---------------------------
(***************************************************************************)
(* Conditional reads: the registry-wide modification time that a deferred  *)
(* trigger advances when a writer commits, the Last-Modified a handler     *)
(* sends with a body, and the 304 it gives a client that sends it back.    *)
(* Times are whole seconds of the database clock.                          *)
(***************************************************************************)
EXTENDS Naturals

CONSTANTS
  Writers,    \* transactions that change asset tables
  Clients,    \* clients that keep the last response and revalidate it
  MaxClock,   \* bound on the database clock
  MaxChanges  \* bound on committed changes

ASSUME ClockAssumption == MaxClock \in Nat /\ MaxChanges \in Nat

VARIABLES
  clock,    \* seconds of the database clock; it may be set back
  version,  \* asset_registry_version.modified_at, as committed
  content,  \* number of changes committed to the asset tables
  writer,   \* each writer: what it is doing, and its uncommitted version
  reply,    \* each client's request: the date its handler will send, or none
  cache,    \* each client's cached response: date and body, or none
  kept      \* the clients that the last step told to keep their body

vars == <<clock, version, content, writer, reply, cache, kept>>

Seconds == 1..MaxClock
NoReply == [asked |-> FALSE, date |-> 0]
NoBody  == [held |-> FALSE, date |-> 0, body |-> 0]

Init ==
  /\ clock \in Seconds
  /\ version \in 0..clock
  /\ content = 0
  /\ writer = [w \in Writers |-> [at |-> "idle", version |-> 0]]
  /\ reply = [c \in Clients |-> NoReply]
  /\ cache = [c \in Clients |-> NoBody]
  /\ kept = {}

-----------------------------------------------------------------------------
(* Writers.                                                                *)

Write(w) ==
  /\ writer[w].at = "idle"
  /\ content < MaxChanges
  /\ writer' = [writer EXCEPT ![w].at = "writing"]
  /\ kept' = {} /\ UNCHANGED <<clock, version, content, reply, cache>>

\* The deferred triggers of a transaction bump the version once, after all its
\* other work, and hold the row until it ends.
Greatest(a, b) == IF a >= b THEN a ELSE b
BumpToClock == Greatest(clock, version)  \* mutant: a second is not added
Bumped == Greatest(clock, version + 1)

Bump(w) ==
  /\ writer[w].at = "writing"
  /\ \A v \in Writers : writer[v].at # "bumped"
  /\ writer' = [writer EXCEPT ![w] = [at |-> "bumped", version |-> Bumped]]
  /\ kept' = {} /\ UNCHANGED <<clock, version, content, reply, cache>>

Finish(w) ==
  /\ writer[w].at = "bumped"
  /\ version' = writer[w].version
  /\ content' = content + 1
  /\ writer' = [writer EXCEPT ![w] = [at |-> "idle", version |-> 0]]
  /\ kept' = {} /\ UNCHANGED <<clock, reply, cache>>

\* A rollback or a crash, before the triggers have run or after.
Abort(w) ==
  /\ writer[w].at # "idle"
  /\ writer' = [writer EXCEPT ![w] = [at |-> "idle", version |-> 0]]
  /\ kept' = {} /\ UNCHANGED <<clock, version, content, reply, cache>>

-----------------------------------------------------------------------------
(* Reads: prepare_asset_read, then the statements that build the body.     *)

TooRecent == version >= clock

LastModified == IF TooRecent THEN clock - 1 ELSE version

\* A client sends the date of the body it holds, if it holds one.
NewerOnly(since) == version < since /\ since < clock  \* mutant: < for <=
Unchanged(since) == version <= since /\ since < clock

Keeps(c) == cache[c].held /\ ~TooRecent /\ Unchanged(cache[c].date)

NotModified(c) ==
  /\ ~reply[c].asked /\ Keeps(c)
  /\ cache' = [cache EXCEPT ![c].date = LastModified]
  /\ kept' = {c}
  /\ UNCHANGED <<clock, version, content, writer, reply>>

StartBody(c) ==
  /\ ~reply[c].asked /\ ~Keeps(c)
  /\ reply' = [reply EXCEPT ![c] = [asked |-> TRUE, date |-> LastModified]]
  /\ kept' = {} /\ UNCHANGED <<clock, version, content, writer, cache>>

\* The statements of the body see what has committed since.
SendBody(c) ==
  /\ reply[c].asked
  /\ cache' = [cache EXCEPT ![c] =
                 [held |-> TRUE, date |-> reply[c].date, body |-> content]]
  /\ reply' = [reply EXCEPT ![c] = NoReply]
  /\ kept' = {} /\ UNCHANGED <<clock, version, content, writer>>

\* The database clock goes on, or is set back.
ClockMoves ==
  /\ clock' \in Seconds \ {clock}
  /\ kept' = {} /\ UNCHANGED <<version, content, writer, reply, cache>>

Next ==
  \/ \E w \in Writers : Write(w) \/ Bump(w) \/ Finish(w) \/ Abort(w)
  \/ \E c \in Clients : NotModified(c) \/ StartBody(c) \/ SendBody(c)
  \/ ClockMoves

\* A client that revalidates does so again and again, and is answered.
Fairness ==
  \A c \in Clients : WF_vars(NotModified(c) \/ StartBody(c) \/ SendBody(c))

Spec == Init /\ [][Next]_vars /\ Fairness
-----------------------------------------------------------------------------

\* Types; a date given to a client is one the database clock has had.
TypeOK ==
  /\ clock \in Seconds
  /\ version \in Nat
  /\ content \in Nat
  /\ writer \in [Writers -> [at : {"idle", "writing", "bumped"}, version : Nat]]
  /\ reply \in [Clients -> [asked : BOOLEAN, date : 0..MaxClock]]
  /\ cache \in [Clients -> [held : BOOLEAN, date : 0..MaxClock, body : Nat]]
  /\ kept \subseteq Clients

\* A client told 304 keeps what the registry has: no commit in flight while it
\* was read, in the same second, or across a clock set back, is hidden by the
\* date it was given.
KeptIsCurrent == \A c \in kept : cache[c].body = content

\* When writes stop and the clock passes the last of them, clients that
\* revalidate are told 304 again.
NotModifiedResumes ==
  \A c \in Clients :
    <>[](version < clock /\ \A w \in Writers : writer[w].at = "idle")
      => []<>(c \in kept)
=============================================================================
