--------------------------- MODULE ProofFetchPolicy ---------------------------
(***************************************************************************)
(* The limits on outbound domain-proof fetches that all requests of one    *)
(* process share.  A fetch runs in a daemon thread behind a permit; its    *)
(* request waits for it until a deadline, and a fetch that is still        *)
(* running then keeps the permit until it really ends.  Each section of    *)
(* code that holds the policy's lock is one step.                          *)
(***************************************************************************)
EXTENDS Integers, FiniteSets

CONSTANTS
  Fetches,        \* fetches that can be under way at the same time
  Domains,        \* hosts that registrants choose
  Limit,          \* max_concurrent_fetches, 0 for none
  Quota,          \* fetches of a domain in a window, 0 for none
  QuotaWindow, Cooldown, \* in ticks of the monotonic clock
  Minute,         \* the pruning interval and the least retention
  MaxDomains,     \* _MAX_TRACKED_PROOF_DOMAINS
  MaxTime,        \* bound on the clock
  MaxGeneration   \* bound on resets

ASSUME SetsAssumption == IsFiniteSet(Fetches) /\ Domains # {}
ASSUME LimitsAssumption ==
  /\ Limit \in Nat /\ Quota \in Nat /\ QuotaWindow \in Nat /\ Cooldown \in Nat
  /\ Minute \in Nat /\ MaxDomains \in Nat
  /\ MaxTime \in Nat /\ MaxGeneration \in Nat

VARIABLES
  tracked, record,    \* _records: the domains it has, and their records
  limit,              \* _max_concurrent_fetches
  active,             \* _active_fetches
  lastPruned,
  generation,
  now,                \* time.monotonic()
  caller, worker,     \* of each fetch: the request's thread, and the daemon
  permit,             \* of each fetch: the permit its request was given
  handed,             \* the daemon is to release the permit when it ends
  broken,             \* release has raised RuntimeError
  log                 \* admissions and failures since the last reset

policy == <<tracked, record, limit, active, lastPruned, generation>>
threads == <<caller, worker, permit, handed>>
vars == <<policy, now, threads, broken, log>>

Never   == -1
Records == [failed : Nat \cup {Never}, start : Nat, count : Nat, active : Nat]
NewRecord(time) == [failed |-> Never, start |-> time, count |-> 0, active |-> 0]
NoRecords == [d \in Domains |-> NewRecord(0)]
Permits == [domain : Domains, generation : Nat]
NoPermit == [domain |-> CHOOSE d \in Domains : TRUE, generation |-> 0]

Free(c) == caller[c] = "idle" /\ worker[c] = "none"
Holders == {c \in Fetches : ~Free(c) /\ permit[c].generation = generation}

Init ==
  /\ tracked = {}
  /\ record = NoRecords
  /\ limit = Limit /\ active = 0 /\ lastPruned = 0 /\ generation = 0
  /\ now = 0
  /\ caller = [c \in Fetches |-> "idle"]
  /\ worker = [c \in Fetches |-> "none"]
  /\ permit = [c \in Fetches |-> NoPermit]
  /\ handed = [c \in Fetches |-> FALSE]
  /\ broken = FALSE
  /\ log = {}

Happened(what, d) ==
  LET same == {e \in log : e.what = what /\ e.domain = d /\ e.time = now}
  IN log' = log \cup {[what |-> what, domain |-> d, time |-> now,
                       nth |-> Cardinality(same)]}

-----------------------------------------------------------------------------
(* Records: pruning and making room.                                       *)

Greatest(a, b) == IF a >= b THEN a ELSE b

Retention == Greatest(Minute, Greatest(QuotaWindow, Cooldown))

StaleBusy ==  \* mutant: records of running fetches are pruned
  {d \in tracked : now - Greatest(record[d].failed, record[d].start) > Retention}
Stale ==
  {d \in tracked : /\ record[d].active = 0
                   /\ now - Greatest(record[d].failed, record[d].start) > Retention}

PruneDue == now - lastPruned >= Minute
Pruned == IF PruneDue THEN tracked \ Stale ELSE tracked

Crowded(d) == d \notin Pruned /\ Cardinality(Pruned) >= MaxDomains
Kept(d)    == IF Crowded(d) THEN tracked \ Stale ELSE Pruned
NoRoom(d)  == d \notin Kept(d) /\ Cardinality(Kept(d)) >= MaxDomains

\* The record of d in the window that contains now.
Current(d) ==
  IF d \notin Kept(d) THEN NewRecord(now)
  ELSE IF now - record[d].start >= QuotaWindow
       THEN [record[d] EXCEPT !.start = now, !.count = 0]
       ELSE record[d]

Cooling(d) == /\ Cooldown > 0
              /\ Current(d).failed # Never
              /\ now - Current(d).failed < Cooldown

WithinQuota(d) == FALSE  \* mutant: admissions are not counted against the quota
OverQuota(d) == Quota > 0 /\ Current(d).count >= Quota

HasCapacity == limit = 0 \/ active < limit

-----------------------------------------------------------------------------
(* admit.                                                                  *)

PruneFor(d) ==
  /\ lastPruned' = IF PruneDue \/ Crowded(d) THEN now ELSE lastPruned
  /\ tracked' = IF NoRoom(d) THEN Kept(d) ELSE Kept(d) \cup {d}

Admit(c, d) ==
  /\ Free(c) /\ HasCapacity
  /\ ~NoRoom(d) /\ ~Cooling(d) /\ ~OverQuota(d)
  /\ PruneFor(d)
  /\ record' = [record EXCEPT ![d] =
                  [Current(d) EXCEPT !.count = @ + 1, !.active = @ + 1]]
  /\ active' = active + 1
  /\ permit' = [permit EXCEPT ![c] = [domain |-> d, generation |-> generation]]
  /\ caller' = [caller EXCEPT ![c] = "starting"]
  /\ Happened("admit", d)
  /\ UNCHANGED <<limit, generation, now, worker, handed, broken>>

\* A request that is told to retry later has pruned and touched the record.
TurnAway(d) ==
  /\ HasCapacity
  /\ NoRoom(d) \/ Cooling(d) \/ OverQuota(d)
  /\ PruneFor(d)
  /\ record' = IF NoRoom(d) THEN record ELSE [record EXCEPT ![d] = Current(d)]
  /\ UNCHANGED <<limit, active, generation, now, threads, broken, log>>

-----------------------------------------------------------------------------
(* mark_failed and release.                                                *)

FirstFailureOnly(d) ==  \* mutant: a later failure is not noted
  [record[d] EXCEPT !.failed = IF @ = Never THEN now ELSE @]
Failed(d) == [record[d] EXCEPT !.failed = now]

MarkFailed(c) ==
  LET d == permit[c].domain
  IN IF permit[c].generation = generation /\ d \in tracked
     THEN /\ record' = [record EXCEPT ![d] = Failed(d)]
          /\ tracked' = IF PruneDue THEN tracked \ (Stale \ {d}) ELSE tracked
          /\ lastPruned' = IF PruneDue THEN now ELSE lastPruned
          /\ Happened("fail", d)
          /\ UNCHANGED <<limit, active, generation>>
     ELSE UNCHANGED <<policy, log>>

Returned(c) ==
  /\ record' = [record EXCEPT ![permit[c].domain].active = @ - 1]
  /\ active' = active - 1
  /\ UNCHANGED <<tracked, limit, lastPruned, generation>>

Release(c) ==
  LET d == permit[c].domain
  IN IF permit[c].generation # generation
     THEN UNCHANGED <<policy, broken>>
     ELSE IF active <= 0 \/ d \notin tracked \/ record[d].active <= 0
     THEN broken' = TRUE /\ UNCHANGED policy
     ELSE Returned(c) /\ UNCHANGED broken

-----------------------------------------------------------------------------
(* _run_bounded and the daemon thread.                                     *)

Moves(c, label) == caller' = [caller EXCEPT ![c] = label]

Start(c) ==
  /\ caller[c] = "starting"
  /\ \/ Moves(c, "waiting") /\ worker' = [worker EXCEPT ![c] = "running"]
     \/ Moves(c, "mark") /\ UNCHANGED worker
  /\ UNCHANGED <<policy, now, permit, handed, broken, log>>

\* The operation returns or raises; a callback that was added runs then.
WorkerEnds(c) ==
  /\ worker[c] = "running"
  /\ worker' = [worker EXCEPT ![c] = IF handed[c] THEN "releasing" ELSE "done"]
  /\ UNCHANGED <<policy, now, caller, permit, handed, broken, log>>

\* A TimeoutError the operation itself raised is taken for the deadline.
Result(c) ==
  /\ caller[c] = "waiting" /\ worker[c] = "done"
  /\ \E label \in {"release", "mark", "mark_late"} : Moves(c, label)
  /\ UNCHANGED <<policy, now, worker, permit, handed, broken, log>>

NoDeadline(c) == FALSE /\ UNCHANGED vars  \* mutant: the wait has no deadline
Timeout(c) ==
  /\ caller[c] = "waiting" /\ worker[c] = "running"
  /\ Moves(c, "mark_late")
  /\ UNCHANGED <<policy, now, worker, permit, handed, broken, log>>

Mark(c) ==
  /\ caller[c] \in {"mark", "mark_late"}
  /\ MarkFailed(c)
  /\ Moves(c, IF caller[c] = "mark" THEN "release" ELSE "callback")
  /\ UNCHANGED <<now, worker, permit, handed, broken>>

\* Mutant: a late fetch's permit goes with its request.
ReleaseAtReturn(c) ==
  /\ caller[c] = "callback"
  /\ Moves(c, "release")
  /\ UNCHANGED <<policy, now, worker, permit, handed, broken, log>>

\* Mutant: the callback is lost when the fetch ended just before.
LoseCallback(c) ==
  /\ caller[c] = "callback"
  /\ Moves(c, "idle") /\ handed' = [handed EXCEPT ![c] = worker[c] # "done"]
  /\ UNCHANGED <<policy, now, worker, permit, broken, log>>

\* add_done_callback: a future that is done runs it at once.
AddCallback(c) ==
  /\ caller[c] = "callback"
  /\ IF worker[c] = "done"
     THEN Moves(c, "release") /\ UNCHANGED handed
     ELSE Moves(c, "idle") /\ handed' = [handed EXCEPT ![c] = TRUE]
  /\ UNCHANGED <<policy, now, worker, permit, broken, log>>

CallerReleases(c) ==
  /\ caller[c] = "release"
  /\ Release(c)
  /\ Moves(c, "idle")
  /\ worker' = [worker EXCEPT ![c] = IF @ = "done" THEN "none" ELSE @]
  /\ permit' = [permit EXCEPT ![c] = NoPermit]
  /\ UNCHANGED <<now, handed, log>>

WorkerReleases(c) ==
  /\ worker[c] = "releasing"
  /\ Release(c)
  /\ worker' = [worker EXCEPT ![c] = "none"]
  /\ permit' = [permit EXCEPT ![c] = NoPermit]
  /\ handed' = [handed EXCEPT ![c] = FALSE]
  /\ UNCHANGED <<now, caller, log>>

-----------------------------------------------------------------------------
(* configure, at every request, and reset, which tests call.               *)

Configure ==
  /\ limit' = Limit
  /\ UNCHANGED <<tracked, record, active, lastPruned, generation, now, threads,
                 broken, log>>

Reset ==
  /\ generation < MaxGeneration
  /\ tracked' = {} /\ limit' = 0 /\ active' = 0 /\ lastPruned' = 0
  /\ generation' = generation + 1
  /\ record' = NoRecords /\ log' = {}
  /\ UNCHANGED <<now, threads, broken>>

Tick ==
  /\ now < MaxTime
  /\ now' = now + 1
  /\ UNCHANGED <<policy, threads, broken, log>>

Caller(c) ==
  \/ Start(c) \/ Result(c) \/ Timeout(c) \/ Mark(c) \/ AddCallback(c)
  \/ CallerReleases(c)

Next ==
  \/ \E c \in Fetches, d \in Domains : Admit(c, d)
  \/ \E d \in Domains : TurnAway(d)
  \/ \E c \in Fetches : Caller(c) \/ WorkerEnds(c) \/ WorkerReleases(c)
  \/ Configure \/ Reset \/ Tick

\* Threads that can run do, and a deadline passes.  Nothing makes an operation
\* end: resolvers and transports may ignore their timeout.
Fairness == \A c \in Fetches : WF_vars(Caller(c)) /\ WF_vars(WorkerReleases(c))

Spec == Init /\ [][Next]_vars /\ Fairness
-----------------------------------------------------------------------------

\* Types; the counters do not go below zero.
TypeOK ==
  /\ tracked \subseteq Domains
  /\ record \in [Domains -> Records]
  /\ limit \in {0, Limit}
  /\ active \in Nat /\ lastPruned \in Nat /\ generation \in Nat /\ now \in Nat
  /\ caller \in [Fetches -> {"idle", "starting", "waiting", "mark", "mark_late",
                             "callback", "release"}]
  /\ worker \in [Fetches -> {"none", "running", "done", "releasing"}]
  /\ permit \in [Fetches -> Permits]
  /\ handed \in [Fetches -> BOOLEAN]
  /\ broken \in BOOLEAN

\* A fetch that has not ended holds its permit and keeps its domain's record:
\* the counters are the numbers of fetches under way, across timeouts, late
\* ends, pruning and resets.
PermitsCounted ==
  /\ active = Cardinality(Holders)
  /\ \A c \in Holders : permit[c].domain \in tracked
  /\ \A d \in tracked :
       record[d].active = Cardinality({c \in Holders : permit[c].domain = d})

\* "domain proof fetch permit released more than once" is never raised, by the
\* request or by the daemon thread it handed the permit to.
ReleasedOnce == ~broken

\* Stalled fetches are not replaced by ever more threads: those of requests
\* that have returned count against the limit until they end.  (A reset takes
\* the limit away until the next request configures it.)
WorkersBounded ==
  generation = 0 /\ Limit > 0
    => Cardinality({c \in Fetches : worker[c] = "running"}) <= Limit

\* No pruning or eviction of records lets a domain be fetched more than twice
\* its quota in any window, the most that windows counted from a fixed start
\* allow.
SlidingQuota ==
  Quota > 0 =>
    \A d \in Domains, t \in 0..now :
      Cardinality({e \in log : /\ e.what = "admit" /\ e.domain = d
                               /\ e.time >= t /\ e.time < t + QuotaWindow})
        <= 2 * Quota

\* A domain is not fetched again while it cools down from any failure, one
\* noticed at a deadline included, even if its record was pruned since.
CooldownHeld ==
  [][\A e \in log' \ log, f \in log :
       /\ e.what = "admit" /\ f.what = "fail" /\ e.domain = f.domain
       => e.time - f.time >= Cooldown]_vars

\* A request returns, whatever its fetch does.
RequestReturns == \A c \in Fetches : caller[c] # "idle" ~> caller[c] = "idle"

\* The permit of a fetch that has ended comes back, also when it ended just as
\* the deadline passed.
PermitReturns == \A c \in Fetches : worker[c] \in {"done", "releasing"} ~> Free(c)
=============================================================================
