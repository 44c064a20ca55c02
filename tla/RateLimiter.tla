----------------------------- MODULE RateLimiter -----------------------------
(***************************************************************************)
(* The registration rate limiter: a sliding window of admissions for each  *)
(* client address in a table of bounded size, asked by the middleware      *)
(* before a registration or migration is read.  The middleware runs on the *)
(* event loop, so a call of allow is one step.  Times are whole units of   *)
(* the monotonic clock.                                                    *)
(***************************************************************************)
EXTENDS Naturals, Sequences, FiniteSets

CONSTANTS
  Ips,            \* client addresses, as they are once normalized
  NoIp,           \* no client
  Limit,          \* rate_limit_registrations; 0 turns the limiter off
  Window,         \* seconds that an admission counts
  PruneInterval,  \* seconds between two periodic prunes
  MaxTracked,     \* _MAX_TRACKED_CLIENTS
  MaxTime         \* bound on the clock

ASSUME LimiterAssumption ==
  /\ NoIp \notin Ips /\ IsFiniteSet(Ips)
  /\ Limit \in Nat /\ Window \in Nat \ {0}
  /\ PruneInterval \in Nat /\ MaxTracked \in Nat /\ MaxTime \in Nat

VARIABLES
  now,         \* the monotonic clock
  events,      \* for each tracked client, its admissions that still count
  lastPruned,  \* when all clients were last pruned
  admitted,    \* history: the times each client was let through
  refused      \* the client that the last step refused, or NoIp

vars == <<now, events, lastPruned, admitted, refused>>

\* A peer's address as the server gives it: an IPv4 address may come mapped
\* into IPv6, or with a port.
Addresses == [ip : Ips, form : {"plain", "decorated"}]

ClientIp(address) == address.ip

\* The requests that are limited: POST to the two registration routes and to
\* an asset's migration.  Everything else goes through uncounted.
Endpoints == {"register", "migrate", "other"}
Limited(endpoint) == Limit > 0 /\ endpoint # "other"

Init ==
  /\ now = 0
  /\ events = [k \in {} |-> <<>>]
  /\ lastPruned = 0
  /\ admitted = [k \in Ips |-> <<>>]
  /\ refused = NoIp

-----------------------------------------------------------------------------
(* The table.                                                              *)

Old(time) == time + Window <= now

\* Leading entries are popped up to the first that still counts.
Leading(s) == CHOOSE n \in 0..Len(s) :
                /\ \A i \in 1..n : Old(s[i])
                /\ n < Len(s) => ~Old(s[n + 1])
Kept(s) == SubSeq(s, Leading(s) + 1, Len(s))

StartsOld(table) == {k \in DOMAIN table : Old(table[k][1])}  \* mutant: a client is dropped whole
Emptied(table) == {k \in DOMAIN table : Kept(table[k]) = <<>>}
Pruned(table) == [k \in DOMAIN table \ Emptied(table) |-> Kept(table[k])]

Due == now >= lastPruned + PruneInterval

OverFull(table) == Cardinality(DOMAIN table) > MaxTracked  \* mutant: > for >=
Full(table) == Cardinality(DOMAIN table) >= MaxTracked

Tracked(table, k, s) == [j \in DOMAIN table \cup {k} |->
                           IF j = k THEN s ELSE table[j]]

-----------------------------------------------------------------------------
(* allow                                                                   *)

Admit(k) == /\ admitted' = [admitted EXCEPT ![k] = Append(@, now)]
            /\ refused' = NoIp

Refuse(k) == refused' = k /\ UNCHANGED admitted

\* The table that a client not in it finds: pruned if that is due, and pruned
\* anyway if it is full.
AfterDue == IF Due THEN Pruned(events) ELSE events
NoForce == AfterDue  \* mutant: a full table is not pruned out of turn
MakeRoom == IF Full(AfterDue) THEN Pruned(AfterDue) ELSE AfterDue

AllowNew(k) ==
  /\ k \notin DOMAIN events
  /\ lastPruned' = IF Due \/ Full(AfterDue) THEN now ELSE lastPruned
  /\ IF Full(MakeRoom)
     THEN events' = MakeRoom /\ Refuse(k)
     ELSE events' = Tracked(MakeRoom, k, <<now>>) /\ Admit(k)

\* A known client's old entries are popped; the periodic prune follows only an
\* admission.
Added(k) == Tracked(events, k, Append(Kept(events[k]), now))

AllowKnown(k) ==
  /\ k \in DOMAIN events
  /\ IF Len(Kept(events[k])) >= Limit
     THEN /\ events' = Tracked(events, k, Kept(events[k]))
          /\ Refuse(k) /\ UNCHANGED lastPruned
     ELSE /\ events' = IF Due THEN Pruned(Added(k)) ELSE Added(k)
          /\ lastPruned' = IF Due THEN now ELSE lastPruned
          /\ Admit(k)

\* The middleware.
Request(address, endpoint) ==
  /\ IF Limited(endpoint)
     THEN AllowNew(ClientIp(address)) \/ AllowKnown(ClientIp(address))
     ELSE refused' = NoIp /\ UNCHANGED <<events, lastPruned, admitted>>
  /\ UNCHANGED now

Tick ==
  /\ now < MaxTime
  /\ now' = now + 1 /\ refused' = NoIp
  /\ UNCHANGED <<events, lastPruned, admitted>>

Next == Tick \/ \E a \in Addresses, e \in Endpoints : Request(a, e)

Spec == Init /\ [][Next]_vars
-----------------------------------------------------------------------------

\* Types.  A client's admissions are in the order of time.
TypeOK ==
  /\ now \in Nat /\ lastPruned \in 0..now
  /\ events \in [DOMAIN events -> Seq(Nat)] /\ DOMAIN events \subseteq Ips
  /\ admitted \in [Ips -> Seq(Nat)]
  /\ \A k \in Ips : \A i \in DOMAIN admitted[k] :
       /\ admitted[k][i] <= now
       /\ \A j \in 1..i : admitted[k][j] <= admitted[k][i]
  /\ refused \in Ips \cup {NoIp}

\* No window of time, wherever it begins, holds more than Limit admissions of
\* one client, whatever is pruned or evicted meanwhile.
SlidingLimit ==
  \A k \in Ips : \A i \in DOMAIN admitted[k] :
    i + Limit \in DOMAIN admitted[k]
      => admitted[k][i + Limit] >= admitted[k][i] + Window

\* The table never outgrows its bound.
TableBounded == Cardinality(DOMAIN events) <= MaxTracked

\* A client is refused only when it has used its limit, or when as many others
\* as the table holds were admitted within the window: no client that has been
\* silent for a window takes the place of one that asks.
Recent(k) == {i \in DOMAIN admitted[k] : ~Old(admitted[k][i])}
RefusedForCause ==
  refused # NoIp =>
    \/ Cardinality(Recent(refused)) >= Limit
    \/ Cardinality({k \in Ips : Recent(k) # {}}) >= MaxTracked
=============================================================================
