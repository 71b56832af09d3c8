--------------------------- MODULE SourceCollection ---------------------------
(***************************************************************************)
(* Collection of one job source: the database lease, the scheduler, the    *)
(* manual trigger, the worker that crawls and publishes, its heartbeat     *)
(* thread and the administrator who changes the schedule                   *)
(* (backend/app/ingestion: locks.py, service.py, scheduler.py).            *)
(*                                                                         *)
(* One invocation of run_source is an attempt.  An attempt draws one fresh *)
(* owner token and inserts at most one crawl_runs row, so the attempt also *)
(* names its token and its run.  The database is PostgreSQL at READ        *)
(* COMMITTED: a step is one statement or one commit; a row lock is held    *)
(* from the statement that takes it to the commit or rollback; an UPDATE   *)
(* whose WHERE clause the committed row does not satisfy affects no row    *)
(* and does not wait; otherwise it waits for the row lock and evaluates    *)
(* the WHERE clause again.                                                 *)
(*                                                                         *)
(* Time is the database clock.  A statement that reads the clock and the   *)
(* statement that uses the value are one step here: the value is any       *)
(* reading between the attempt's previous step and this one.               *)
(***************************************************************************)
EXTENDS Integers, FiniteSets

CONSTANTS Attempts,      \* invocations of run_source
          NoAttempt,     \* NULL owner_token or run_id, a row lock nobody holds
          LeaseTTL,      \* LEASE_SECONDS
          Periods,       \* lengths of the automatic schedules
          MaxTime,       \* bound: the last clock value
          MayCrash,      \* attempts whose process may die
          MayInterrupt   \* attempts an escaping exception may stop

ASSUME AttemptAssumption == NoAttempt \notin Attempts
ASSUME TimeAssumption ==
    /\ LeaseTTL \in Nat \ {0}
    /\ Periods \subseteq Nat \ {0}
    /\ MaxTime \in Nat
ASSUME FaultAssumption == MayCrash \subseteq Attempts /\ MayInterrupt \subseteq Attempts

NoTime == -1    \* a NULL timestamp: not later than any clock value
Manual == 0     \* a schedule that is not an automatic interval
Schedules == Periods \union {Manual}

Outcome == {"succeeded", "partial", "failed"}
RunStatus == {"none", "running"} \union Outcome
Trigger == {"manual", "scheduled"}

VARIABLES
    clock,       \* the database clock
    lease,       \* committed source_crawl_leases row: owner, expires, run
    leaseLock,   \* attempt whose transaction holds the lease row lock
    pending,     \* expires_at that transaction will commit
    source,      \* committed job_sources row: enabled, schedule, nextRun, status
    sourceLock,  \* attempt whose transaction holds the source row lock
    status,      \* crawl_runs.status, one row per attempt that started
    pc,          \* where each attempt is
    trigger,     \* manual or scheduled
    prev,        \* previous_run_id; after the check, the run to write off
    at,          \* clock when the attempt last acted (or read the clock)
    view,        \* enabled and schedule as loaded with the source row lock
    hb,          \* is the heartbeat thread alive
    hbAt         \* clock when it last acted

leaseVars == <<lease, leaseLock, pending>>
sourceVars == <<source, sourceLock>>
attemptVars == <<pc, trigger, prev, at, view>>
hbVars == <<hb, hbAt>>
vars == <<clock, leaseVars, sourceVars, status, attemptVars, hbVars>>

\* The program counters at which a transaction of the attempt holds the rows.
HoldsSource == {"checked", "fenced", "saving", "marking"}
HoldsLease == {"fenced", "publishing", "saving", "recording", "marking"}
WaitsForSource == {"leased", "publishing", "recording"}
\* Inside the try block of run_source, its run not inserted yet or inserted.
Preparing == {"leased", "checked", "fenced"}
Crawling == {"collecting", "publishing", "saving",
             "failing", "recording", "marking"}
Ended == {"idle", "done"}
Location == Ended \union {"requested", "claiming", "releasing"}
                  \union Preparing \union Crawling

Policy == [enabled : BOOLEAN, schedule : Schedules]
NoPolicy == [enabled |-> FALSE, schedule |-> Manual]
PolicyOf(s) == [enabled |-> s.enabled, schedule |-> s.schedule]
Automatic(p) == p.enabled /\ p.schedule # Manual

NextAttempt(p, after) == IF Automatic(p) THEN after + p.schedule ELSE NoTime

SourceStatus == {"healthy", "running", "degraded", "failed"}
\* Mutant: the run's own status is written to the source.
StatusForUnmapped(outcome) == outcome

StatusFor(outcome) == CASE outcome = "succeeded" -> "healthy"
                        [] outcome = "partial" -> "degraded"
                        [] outcome = "failed" -> "failed"

Time == {NoTime} \union Nat

TypeOK ==
    /\ clock \in Nat
    /\ lease \in [owner : Attempts \union {NoAttempt}, expires : Time,
                  run : Attempts \union {NoAttempt}]
    /\ leaseLock \in Attempts \union {NoAttempt}
    /\ pending \in Time
    /\ source \in [enabled : BOOLEAN, schedule : Schedules,
                   nextRun : Time, status : SourceStatus]
    /\ sourceLock \in Attempts \union {NoAttempt}
    /\ status \in [Attempts -> RunStatus]
    /\ pc \in [Attempts -> Location]
    /\ trigger \in [Attempts -> Trigger]
    /\ prev \in [Attempts -> Attempts \union {NoAttempt}]
    /\ at \in [Attempts -> Nat]
    /\ view \in [Attempts -> Policy]
    /\ hb \in [Attempts -> BOOLEAN]
    /\ hbAt \in [Attempts -> Nat]

\* create_source: a healthy source, due at once when its schedule is automatic.
\* An absent lease row behaves as a row without owner.
Init ==
    /\ clock = 0
    /\ lease = [owner |-> NoAttempt, expires |-> NoTime, run |-> NoAttempt]
    /\ leaseLock = NoAttempt
    /\ pending = NoTime
    /\ \E p \in Policy :
          source = [enabled |-> p.enabled, schedule |-> p.schedule,
                    nextRun |-> IF Automatic(p) THEN 0 ELSE NoTime,
                    status |-> "healthy"]
    /\ sourceLock = NoAttempt
    /\ status = [a \in Attempts |-> "none"]
    /\ pc = [a \in Attempts |-> "idle"]
    /\ trigger = [a \in Attempts |-> "manual"]
    /\ prev = [a \in Attempts |-> NoAttempt]
    /\ at = [a \in Attempts |-> 0]
    /\ view = [a \in Attempts |-> NoPolicy]
    /\ hb = [a \in Attempts |-> FALSE]
    /\ hbAt = [a \in Attempts |-> 0]
-------------------------------------------------------------------------------
(* Steps shared by several places of the code *)

Goto(a, to) == pc' = [pc EXCEPT ![a] = to]

\* The session forgets what it loaded; values no later step reads are reset.
Forget(a, time) ==
    /\ prev' = [prev EXCEPT ![a] = NoAttempt]
    /\ view' = [view EXCEPT ![a] = NoPolicy]
    /\ at' = [at EXCEPT ![a] = time]

\* Mutant: the rollback of the session is forgotten, the source row stays locked.
UnlockLeaseOnly(a) ==
    /\ leaseLock' = IF leaseLock = a THEN NoAttempt ELSE leaseLock
    /\ pending' = IF leaseLock = a THEN NoTime ELSE pending
    /\ UNCHANGED sourceLock

\* The attempt's transaction ends and its row locks are free.
Unlock(a) ==
    /\ leaseLock' = IF leaseLock = a THEN NoAttempt ELSE leaseLock
    /\ pending' = IF leaseLock = a THEN NoTime ELSE pending
    /\ sourceLock' = IF sourceLock = a THEN NoAttempt ELSE sourceLock

\* db.rollback(): nothing is written and control moves to `to'.
Rollback(a, to, time) ==
    /\ Goto(a, to)
    /\ Forget(a, time)
    /\ Unlock(a)
    /\ UNCHANGED <<clock, lease, source, status, trigger>>

\* Mutant: fence() does not compare the owner token.
OwnsLeaseOfAnyone(a, now) == lease.expires > now

\* The WHERE clause of fence(), on the committed row.
OwnsLease(a, now) == lease.owner = a /\ lease.expires > now

\* fence() succeeds: the attempt holds the lease row until it commits.
Fence(a, from, to) ==
    /\ pc[a] = from
    /\ leaseLock = NoAttempt
    /\ \E now \in at[a]..clock :
          /\ OwnsLease(a, now)
          /\ pending' = now + LeaseTTL
    /\ leaseLock' = a
    /\ Goto(a, to)
    /\ UNCHANGED <<clock, lease, sourceVars, status, trigger, prev, at, view, hbVars>>

\* fence() matches no row: SourceLeaseLostError.
FenceFails(a, from, to) ==
    /\ pc[a] = from
    /\ \E now \in at[a]..clock : ~OwnsLease(a, now)
    /\ Rollback(a, to, IF to = "failing" THEN clock ELSE 0)
    /\ UNCHANGED hbVars

\* Mutant: the source is refreshed without FOR UPDATE.
LockSourceByReading(a, from, to) ==
    /\ pc[a] = from
    /\ view' = [view EXCEPT ![a] = PolicyOf(source)]
    /\ at' = [at EXCEPT ![a] = clock]
    /\ Goto(a, to)
    /\ UNCHANGED <<clock, leaseVars, sourceVars, status, trigger, prev, hbVars>>

\* db.refresh(source, with_for_update=True) before the result is written.
LockSource(a, from, to) ==
    /\ pc[a] = from
    /\ sourceLock = NoAttempt
    /\ sourceLock' = a
    /\ view' = [view EXCEPT ![a] = PolicyOf(source)]
    /\ at' = [at EXCEPT ![a] = clock]
    /\ Goto(a, to)
    /\ UNCHANGED <<clock, leaseVars, source, status, trigger, prev, hbVars>>

\* The commit that ends a run: its status, the source's status and next slot,
\* from the policy loaded under the lock, together with the renewed lease.
Conclude(a, from, outcome) ==
    /\ pc[a] = from
    /\ \E finished \in at[a]..clock :
          source' = [source EXCEPT !.status = StatusFor(outcome),
                                   !.nextRun = NextAttempt(view[a], finished)]
    /\ status' = [status EXCEPT ![a] = outcome]
    /\ lease' = [lease EXCEPT !.expires = pending]
    /\ Goto(a, "releasing")
    /\ Forget(a, 0)
    /\ Unlock(a)
    /\ UNCHANGED <<clock, trigger, hbVars>>
-------------------------------------------------------------------------------
(* Beginning an attempt *)

\* POST /sources/{id}/run, up to the claim.
RequestRun(a) ==
    /\ pc[a] = "idle"
    /\ source.enabled
    /\ Goto(a, "requested")
    /\ trigger' = [trigger EXCEPT ![a] = "manual"]
    /\ at' = [at EXCEPT ![a] = clock]
    /\ UNCHANGED <<clock, leaseVars, sourceVars, status, prev, view, hbVars>>

\* run_due_sources selects a source whose slot has come or whose worker is dead.
SelectDue(a) ==
    /\ pc[a] = "idle"
    /\ Automatic(source)
    /\ \/ source.nextRun <= clock
       \/ /\ source.status = "running"
          /\ lease.owner # NoAttempt
          /\ lease.expires <= clock
    /\ Goto(a, "requested")
    /\ trigger' = [trigger EXCEPT ![a] = "scheduled"]
    /\ at' = [at EXCEPT ![a] = clock]
    /\ UNCHANGED <<clock, leaseVars, sourceVars, status, prev, view, hbVars>>

\* SourceLease.claim reads the clock, then the lease row (not locked).
ReadLease(a) ==
    /\ pc[a] = "requested"
    /\ \E now \in at[a]..clock : at' = [at EXCEPT ![a] = now]
    /\ prev' = [prev EXCEPT ![a] = lease.run]
    /\ Goto(a, "claiming")
    /\ UNCHANGED <<clock, leaseVars, sourceVars, status, trigger, view, hbVars>>

\* Mutant: a lease that is about to expire may be claimed.
ClaimableEarly(now) == lease.owner = NoAttempt \/ lease.expires <= now + 1

Claimable(now) == lease.owner = NoAttempt \/ lease.expires <= now

\* The conditional UPDATE of claim, and its commit.
ClaimLease(a) ==
    /\ pc[a] = "claiming"
    /\ Claimable(at[a])
    /\ leaseLock = NoAttempt
    /\ lease' = [lease EXCEPT !.owner = a, !.expires = at[a] + LeaseTTL]
    /\ at' = [at EXCEPT ![a] = clock]
    /\ Goto(a, "leased")
    /\ UNCHANGED <<clock, leaseLock, pending, sourceVars, status, trigger,
                   prev, view, hbVars>>

\* The UPDATE matched no row: SourceBusyError.
ClaimBusy(a) ==
    /\ pc[a] = "claiming"
    /\ ~Claimable(at[a])
    /\ Rollback(a, "done", 0)
    /\ UNCHANGED hbVars

\* Mutant: the previous run is written off whatever its status.
InterruptedUnread(a) == prev[a]

\* The previous run, if it is still RUNNING when it is read again.
Interrupted(a) ==
    IF prev[a] # NoAttempt /\ status[prev[a]] = "running" THEN prev[a] ELSE NoAttempt

\* Mutant: the slot is not compared again under the lock.
MayStartSelected(a) ==
    /\ source.enabled
    /\ trigger[a] = "scheduled" => source.schedule # Manual

MayStart(a) ==
    /\ source.enabled
    /\ trigger[a] = "scheduled" =>
          /\ source.schedule # Manual
          /\ Interrupted(a) # NoAttempt \/ source.nextRun <= clock

\* The source row is locked and every condition holds again under the lock.
CheckSource(a) ==
    /\ pc[a] = "leased"
    /\ sourceLock = NoAttempt
    /\ MayStart(a)
    /\ sourceLock' = a
    /\ prev' = [prev EXCEPT ![a] = Interrupted(a)]
    /\ view' = [view EXCEPT ![a] = PolicyOf(source)]
    /\ at' = [at EXCEPT ![a] = clock]
    /\ Goto(a, "checked")
    /\ UNCHANGED <<clock, leaseVars, source, status, trigger, hbVars>>

\* Disabled, or no longer due: SourceRunError, SourceNotDueError.
RefuseSource(a) ==
    /\ pc[a] = "leased"
    /\ sourceLock = NoAttempt
    /\ ~MayStart(a)
    /\ Rollback(a, "releasing", 0)
    /\ UNCHANGED hbVars

\* A manual run builds its adapter now; an unsupported source is refused.
RejectAdapter(a) ==
    /\ pc[a] = "checked"
    /\ trigger[a] = "manual"
    /\ Rollback(a, "releasing", 0)
    /\ UNCHANGED hbVars

\* The second fence and the commit that starts the run: the interrupted run is
\* written off, the new one inserted, the lease points to it, the slot is used.
StartRun(a) ==
    /\ pc[a] = "fenced"
    /\ \E now \in (pending - LeaseTTL)..clock :
          /\ pending > now
          /\ lease' = [lease EXCEPT !.expires = now + LeaseTTL, !.run = a]
    /\ status' = [r \in Attempts |-> IF r = a THEN "running"
                                     ELSE IF r = prev[a] THEN "failed"
                                     ELSE status[r]]
    /\ source' = [source EXCEPT !.status = "running",
                                !.nextRun = NextAttempt(view[a], at[a])]
    /\ hb' = [hb EXCEPT ![a] = TRUE]
    /\ hbAt' = [hbAt EXCEPT ![a] = clock]
    /\ Goto(a, "collecting")
    /\ Forget(a, clock)
    /\ Unlock(a)
    /\ UNCHANGED <<clock, trigger>>

\* The second fence finds that the lease ran out inside the transaction.
StartLost(a) ==
    /\ pc[a] = "fenced"
    /\ \E now \in (pending - LeaseTTL)..clock : pending <= now
    /\ Rollback(a, "releasing", 0)
    /\ UNCHANGED hbVars
-------------------------------------------------------------------------------
(* Collecting and publishing *)

\* build_source_adapter or adapter.collect raises.
CollectRaises(a) ==
    /\ pc[a] = "collecting"
    /\ Rollback(a, "failing", clock)
    /\ UNCHANGED hbVars

\* A statement of the publication, or its commit, raises: nothing is published.
PublishRaises(a) ==
    /\ pc[a] \in {"publishing", "saving"}
    /\ Rollback(a, "failing", clock)
    /\ UNCHANGED hbVars

\* lease.release: the heartbeat is stopped and the row cleared if still owned.
Release(a) ==
    /\ pc[a] = "releasing"
    /\ lease.owner = a => leaseLock = NoAttempt
    /\ lease' = IF lease.owner = a
                THEN [lease EXCEPT !.owner = NoAttempt, !.expires = NoTime]
                ELSE lease
    /\ hb' = [hb EXCEPT ![a] = FALSE]
    /\ hbAt' = [hbAt EXCEPT ![a] = 0]
    /\ Goto(a, "done")
    /\ UNCHANGED <<clock, leaseLock, pending, sourceVars, status, trigger, prev, at, view>>

\* An exception no handler catches (KeyboardInterrupt in the runner, a database
\* error while a failure is recorded): only the finally clause runs.
Interrupt(a) ==
    /\ a \in MayInterrupt
    /\ pc[a] \in Preparing \union Crawling
    /\ Rollback(a, "releasing", 0)
    /\ UNCHANGED hbVars

\* The process dies: its connections roll back, nothing is released.
Crash(a) ==
    /\ a \in MayCrash
    /\ pc[a] \notin Ended
    /\ Rollback(a, "done", 0)
    /\ hb' = [hb EXCEPT ![a] = FALSE]
    /\ hbAt' = [hbAt EXCEPT ![a] = 0]

\* The heartbeat thread renews the lease in a transaction of its own.
Heartbeat(a) ==
    /\ hb[a]
    /\ leaseLock = NoAttempt
    /\ \E now \in hbAt[a]..clock :
          /\ OwnsLease(a, now)
          /\ lease' = [lease EXCEPT !.expires = now + LeaseTTL]
    /\ hbAt' = [hbAt EXCEPT ![a] = clock]
    /\ UNCHANGED <<clock, leaseLock, pending, sourceVars, status, attemptVars, hb>>

\* The thread finds the lease lost and returns.
HeartbeatEnds(a) ==
    /\ hb[a]
    /\ \E now \in hbAt[a]..clock : ~OwnsLease(a, now)
    /\ hb' = [hb EXCEPT ![a] = FALSE]
    /\ hbAt' = [hbAt EXCEPT ![a] = 0]
    /\ UNCHANGED <<clock, leaseVars, sourceVars, status, attemptVars>>
-------------------------------------------------------------------------------
\* PATCH /sources/{id}: update_source_schedule, under the source row lock.
Configure(p) ==
    /\ sourceLock = NoAttempt
    /\ source' = [source EXCEPT
          !.enabled = p.enabled,
          !.schedule = p.schedule,
          !.nextRun = IF ~Automatic(p) THEN NoTime
                      ELSE IF p.schedule # source.schedule \/ ~source.enabled
                                \/ source.nextRun = NoTime THEN clock
                      ELSE source.nextRun]
    /\ UNCHANGED <<clock, leaseVars, sourceLock, status, attemptVars, hbVars>>

Tick ==
    /\ clock < MaxTime
    /\ clock' = clock + 1
    /\ UNCHANGED <<leaseVars, sourceVars, status, attemptVars, hbVars>>

\* The steps of run_source and the statements it waits for.
Work(a) ==
    \/ ReadLease(a) \/ ClaimLease(a) \/ ClaimBusy(a)
    \/ CheckSource(a) \/ RefuseSource(a) \/ RejectAdapter(a)
    \/ Fence(a, "checked", "fenced") \/ FenceFails(a, "checked", "releasing")
    \/ StartRun(a) \/ StartLost(a)
    \/ CollectRaises(a)
    \/ Fence(a, "collecting", "publishing") \/ FenceFails(a, "collecting", "failing")
    \/ LockSource(a, "publishing", "saving") \/ PublishRaises(a)
    \/ \E outcome \in Outcome : Conclude(a, "saving", outcome)
    \/ Fence(a, "failing", "recording") \/ FenceFails(a, "failing", "releasing")
    \/ LockSource(a, "recording", "marking")
    \/ Conclude(a, "marking", "failed")
    \/ Release(a)

Next ==
    \/ \E a \in Attempts :
          \/ RequestRun(a) \/ SelectDue(a)
          \/ Work(a)
          \/ Interrupt(a) \/ Crash(a)
          \/ Heartbeat(a) \/ HeartbeatEnds(a)
    \/ \E p \in Policy : Configure(p)
    \/ Tick

Spec == Init /\ [][Next]_vars

\* Requests have network timeouts and row locks are granted in turn, so a
\* worker that can go on does.
FairSpec == Spec /\ \A a \in Attempts : WF_vars(Work(a))
-------------------------------------------------------------------------------
(* Properties *)

\* The status shown for the source tells how its last run ended, or that it is
\* still running: no interleaving of publication, failure, recovery and
\* configuration leaves the two rows apart (service.py:310-313, 338-361, 380-399).
SourceStatusMatchesRun ==
    source.status = IF lease.run = NoAttempt THEN "healthy"
                    ELSE IF status[lease.run] = "running" THEN "running"
                    ELSE StatusFor(status[lease.run])

\* A source has a next slot exactly when it is enabled with an automatic
\* schedule: a worker that finishes while an administrator pauses the source
\* cannot put the slot back (service.py:320-321), nor leave it without one.
NextRunMatchesPolicy == source.nextRun # NoTime <=> Automatic(source)

\* A starting worker locks source, then lease; a publishing one locks lease,
\* then source.  The two never wait for each other, because a worker that lost
\* the lease matches no row and does not wait for it (locks.py:94-105).
NoLockCycle ==
    \A a, b \in Attempts :
        sourceLock = a /\ leaseLock = b /\ a # b /\ pc[b] \in WaitsForSource
            => lease.owner # a

\* A worker takes the lease from another one only when that lease had run out,
\* whatever clock value the claim compared (locks.py:65-86).
LeaseTakenOnlyWhenExpired ==
    [][lease.owner # NoAttempt /\ lease'.owner \notin {lease.owner, NoAttempt}
          => lease.expires <= clock]_vars

\* A scheduled run begins only if its slot has come or it takes over a run that
\* was left running, also when another worker used the slot since it was
\* selected (service.py:275-283).
ScheduledRunsStartWhenDue ==
    [][\A a \in Attempts :
          status[a] = "none" /\ status'[a] = "running" /\ trigger[a] = "scheduled"
             => \/ source.nextRun <= clock
                \/ \E r \in Attempts : status[r] = "running" /\ status'[r] = "failed"]_vars

\* The runs of the source form a ledger: only the newest run publishes, a late
\* worker never overwrites newer results, an outcome is final (locks.py:22-23).
Ledger == INSTANCE CrawlLedger WITH Runs <- Attempts, NoRun <- NoAttempt,
                                    latest <- lease.run
LedgerSpec == Ledger!Spec

\* Every attempt ends: no lock or lease makes a worker wait for ever.
AttemptsEnd == \A a \in Attempts : pc[a] = "requested" ~> pc[a] = "done"

\* "The new owner recovers the abandoned run" (service.py:376): once a newer run
\* has started, no older run of the source is still RUNNING.
AbandonedRunIsRecovered ==
    \A a \in Attempts : status[a] = "running" => lease.run = a
===============================================================================
