------------------------ MODULE SourceCollectionProofs ------------------------
(***************************************************************************)
(* Proofs about SourceCollection, for any number of attempts, any lease    *)
(* length, any set of intervals and any clock bound.                       *)
(***************************************************************************)
EXTENDS SourceCollection, TLAPS

(***************************************************************************)
(* The inductive invariant.  The row locks are where the program counters  *)
(* say (LockInv), a worker that holds the lease row is its committed owner *)
(* (OwnerInv), an owner that crawls is the newest run and still running    *)
(* (RunInv), and what a transaction read under the source lock is still    *)
(* true when it commits (PrevInv, ViewInv, SlotInv).                       *)
(***************************************************************************)
Claiming == {"idle", "requested", "claiming"}

LockInv ==
    \A a \in Attempts :
        /\ sourceLock = a <=> pc[a] \in HoldsSource
        /\ leaseLock = a <=> pc[a] \in HoldsLease

OwnerInv == leaseLock # NoAttempt => lease.owner = leaseLock

TimeInv ==
    /\ leaseLock # NoAttempt => pending - LeaseTTL \in Nat
    /\ \A a \in Attempts : at[a] <= clock

RunInv ==
    \A a \in Attempts :
        /\ pc[a] \in Claiming => lease.owner # a
        /\ pc[a] \in Claiming \union Preparing => status[a] = "none"
        /\ lease.owner = a /\ pc[a] \in Crawling => lease.run = a /\ status[a] = "running"

PrevInv ==
    \A a \in Attempts :
        pc[a] \in {"checked", "fenced"} /\ lease.owner = a /\ prev[a] # NoAttempt
            => status[prev[a]] = "running"

ViewInv == \A a \in Attempts : pc[a] \in HoldsSource => view[a] = PolicyOf(source)

SlotInv ==
    \A a \in Attempts :
        /\ pc[a] \in {"checked", "fenced"}
        /\ trigger[a] = "scheduled"
        /\ prev[a] = NoAttempt
        => source.nextRun <= clock

IInv ==
    /\ TypeOK
    /\ LockInv
    /\ OwnerInv
    /\ TimeInv
    /\ RunInv
    /\ PrevInv
    /\ ViewInv
    /\ SlotInv
-------------------------------------------------------------------------------
(* Every step preserves the invariant: a lemma for each group of actions. *)

USE DEF HoldsSource, HoldsLease, WaitsForSource, Preparing, Crawling, Claiming, Ended

\* The state in which an attempt is created satisfies the invariant.
LEMMA InitInv == Init => IInv
<1> SUFFICES ASSUME Init PROVE IInv
  OBVIOUS
<1> USE AttemptAssumption, TimeAssumption DEF Init
<1>1. TypeOK
  BY DEF TypeOK, Policy, NoPolicy, Schedules, Manual, NoTime, Time, SourceStatus,
         RunStatus, Trigger, Location
<1>2. LockInv /\ OwnerInv /\ TimeInv /\ RunInv /\ PrevInv /\ ViewInv /\ SlotInv
  BY DEF LockInv, OwnerInv, TimeInv, RunInv, PrevInv, ViewInv, SlotInv
<1>3. QED
  BY <1>1, <1>2 DEF IInv

\* Losing everything the transaction held keeps the invariant, wherever the
\* attempt was: this covers every refusal, lost fence, exception and crash.
LEMMA RollbackInv ==
    ASSUME IInv, NEW a \in Attempts, NEW to \in {"failing", "releasing", "done"},
           NEW time \in Nat, time <= clock, Rollback(a, to, time),
           to = "failing" => pc[a] \in Crawling,
           hb' \in [Attempts -> BOOLEAN], hbAt' \in [Attempts -> Nat]
    PROVE  IInv'
<1> USE AttemptAssumption, TimeAssumption DEF IInv, Rollback, Goto, Forget, Unlock
<1>1. TypeOK'
  BY DEF TypeOK, Location, Time, NoTime, NoPolicy, Policy, Schedules, Manual
<1>2. LockInv'
  BY DEF TypeOK, LockInv
<1>3. OwnerInv' /\ TimeInv'
  BY DEF TypeOK, OwnerInv, TimeInv
<1>4. RunInv'
  BY DEF TypeOK, RunInv
<1>5. PrevInv' /\ SlotInv'
  BY DEF TypeOK, PrevInv, SlotInv
<1>6. ViewInv'
  BY DEF TypeOK, ViewInv, PolicyOf
<1>7. QED
  BY <1>1, <1>2, <1>3, <1>4, <1>5, <1>6

\* Taking the lease row lock, in the three places where the code fences.
LEMMA FenceInv ==
    ASSUME IInv, NEW a \in Attempts, NEW from, NEW to, Fence(a, from, to),
           \/ from = "checked" /\ to = "fenced"
           \/ from = "collecting" /\ to = "publishing"
           \/ from = "failing" /\ to = "recording"
    PROVE  IInv'
<1> USE AttemptAssumption, TimeAssumption DEF IInv, Fence, Goto, OwnsLease,
      leaseVars, sourceVars, hbVars
<1>1. TypeOK'
  BY DEF TypeOK, Location, Time, NoTime
<1>2. LockInv'
  BY DEF TypeOK, LockInv
<1>3. OwnerInv' /\ TimeInv'
  BY DEF TypeOK, OwnerInv, TimeInv
<1>4. RunInv'
  BY DEF TypeOK, RunInv
<1>5. PrevInv' /\ SlotInv'
  BY DEF TypeOK, PrevInv, SlotInv
<1>6. ViewInv'
  BY DEF TypeOK, ViewInv, LockInv, PolicyOf
<1>7. QED
  BY <1>1, <1>2, <1>3, <1>4, <1>5, <1>6

\* Taking the source row lock before a result is written.
LEMMA LockSourceInv ==
    ASSUME IInv, NEW a \in Attempts, NEW from, NEW to, LockSource(a, from, to),
           \/ from = "publishing" /\ to = "saving"
           \/ from = "recording" /\ to = "marking"
    PROVE  IInv'
<1> USE AttemptAssumption, TimeAssumption DEF IInv, LockSource, Goto, leaseVars, hbVars
<1>1. TypeOK'
  BY DEF TypeOK, Location, PolicyOf, Policy
<1>2. LockInv'
  BY DEF TypeOK, LockInv
<1>3. OwnerInv' /\ TimeInv'
  BY DEF TypeOK, OwnerInv, TimeInv
<1>4. RunInv'
  BY DEF TypeOK, RunInv
<1>5. PrevInv' /\ SlotInv'
  BY DEF TypeOK, PrevInv, SlotInv
<1>6. ViewInv'
  BY DEF TypeOK, ViewInv, PolicyOf
<1>7. QED
  BY <1>1, <1>2, <1>3, <1>4, <1>5, <1>6

\* The commit of a result.  Its run is the newest one, because the worker holds
\* the lease row and so is the owner; no other attempt holds the source row.
LEMMA ConcludeInv ==
    ASSUME IInv, NEW a \in Attempts, NEW from \in {"saving", "marking"},
           NEW outcome \in Outcome, Conclude(a, from, outcome)
    PROVE  IInv'
<1> USE AttemptAssumption, TimeAssumption DEF IInv, Conclude, Goto, Forget, Unlock, hbVars
<1>0. PICK finished \in at[a]..clock :
          source' = [source EXCEPT !.status = StatusFor(outcome),
                                   !.nextRun = NextAttempt(view[a], finished)]
  BY DEF TypeOK
<1>1. TypeOK'
  <2>1. StatusFor(outcome) \in SourceStatus
    BY DEF Outcome, StatusFor, SourceStatus
  <2>2. NextAttempt(view[a], finished) \in Time
    BY DEF TypeOK, NextAttempt, Automatic, Policy, Schedules, Manual, Time, NoTime
  <2>3. source' \in [enabled : BOOLEAN, schedule : Schedules,
                     nextRun : Time, status : SourceStatus]
    BY <1>0, <2>1, <2>2 DEF TypeOK
  <2>4. QED
    BY <2>3 DEF TypeOK, Location, NoPolicy, Policy, Schedules, Manual, RunStatus,
                Time, NoTime
<1>2. LockInv'
  BY DEF TypeOK, LockInv
<1>3. OwnerInv' /\ TimeInv'
  BY DEF TypeOK, OwnerInv, TimeInv
<1>4. lease.owner = a
  BY DEF LockInv, OwnerInv
<1>5. RunInv'
  BY <1>4 DEF TypeOK, RunInv
<1>6. PrevInv'
  BY <1>4 DEF TypeOK, PrevInv
<1>7. ViewInv' /\ SlotInv'
  BY <1>0 DEF TypeOK, LockInv, ViewInv, SlotInv, PolicyOf
<1>8. QED
  BY <1>1, <1>2, <1>3, <1>5, <1>6, <1>7

\* Becoming the owner: the attempt has no run yet.
LEMMA ClaimInv ==
    ASSUME IInv, NEW a \in Attempts, ClaimLease(a)
    PROVE  IInv'
<1> USE AttemptAssumption, TimeAssumption DEF IInv, ClaimLease, Goto, sourceVars, hbVars
<1>1. TypeOK'
  <2>1. at[a] + LeaseTTL \in Time
    BY DEF TypeOK, Time
  <2>2. lease' \in [owner : Attempts \union {NoAttempt}, expires : Time,
                    run : Attempts \union {NoAttempt}]
    BY <2>1 DEF TypeOK
  <2>3. QED
    BY <2>2 DEF TypeOK, Location
<1>2. LockInv'
  BY DEF TypeOK, LockInv
<1>3. OwnerInv' /\ TimeInv'
  BY DEF TypeOK, OwnerInv, TimeInv
<1>4. RunInv'
  BY DEF TypeOK, RunInv
<1>5. PrevInv' /\ SlotInv'
  BY DEF TypeOK, PrevInv, SlotInv
<1>6. ViewInv'
  BY DEF TypeOK, ViewInv, PolicyOf
<1>7. QED
  BY <1>1, <1>2, <1>3, <1>4, <1>5, <1>6

\* Reading under the source lock what the start of the run will rely on.
LEMMA CheckInv ==
    ASSUME IInv, NEW a \in Attempts, CheckSource(a)
    PROVE  IInv'
<1> USE AttemptAssumption, TimeAssumption DEF IInv, CheckSource, Goto, leaseVars, hbVars
<1>1. TypeOK'
  BY DEF TypeOK, Location, PolicyOf, Policy, Interrupted
<1>2. LockInv'
  BY DEF TypeOK, LockInv
<1>3. OwnerInv' /\ TimeInv'
  BY DEF TypeOK, OwnerInv, TimeInv
<1>4. RunInv'
  BY DEF TypeOK, RunInv
<1>5. PrevInv'
  BY DEF TypeOK, PrevInv, Interrupted
<1>6. SlotInv'
  BY DEF TypeOK, SlotInv, MayStart, Interrupted
<1>7. ViewInv'
  BY DEF TypeOK, ViewInv, PolicyOf
<1>8. QED
  BY <1>1, <1>2, <1>3, <1>4, <1>5, <1>6, <1>7

\* The commit that starts a run.
LEMMA StartInv ==
    ASSUME IInv, NEW a \in Attempts, StartRun(a)
    PROVE  IInv'
<1> USE AttemptAssumption, TimeAssumption DEF IInv, StartRun, Goto, Forget, Unlock
<1>0. PICK now \in (pending - LeaseTTL)..clock :
          lease' = [lease EXCEPT !.expires = now + LeaseTTL, !.run = a]
  BY DEF TypeOK
<1>1. lease.owner = a /\ pending - LeaseTTL \in Nat
  BY DEF LockInv, OwnerInv, TimeInv
<1>2. TypeOK'
  <2>1. NextAttempt(view[a], at[a]) \in Time
    BY DEF TypeOK, NextAttempt, Automatic, Policy, Schedules, Manual, Time, NoTime
  <2>2. source' \in [enabled : BOOLEAN, schedule : Schedules,
                     nextRun : Time, status : SourceStatus]
    BY <2>1 DEF TypeOK, SourceStatus
  <2>3. lease' \in [owner : Attempts \union {NoAttempt}, expires : Time,
                    run : Attempts \union {NoAttempt}]
    <3>1. now + LeaseTTL \in Time
      BY <1>0, <1>1 DEF TypeOK, Time
    <3>2. QED
      BY <1>0, <3>1 DEF TypeOK
  <2>4. status' \in [Attempts -> RunStatus]
    BY DEF TypeOK, RunStatus, Outcome
  <2>5. pending' \in Time
    BY DEF TypeOK, Time
  <2>6. QED
    BY <2>2, <2>3, <2>4, <2>5 DEF TypeOK, Location, NoPolicy, Policy, Schedules, Manual
<1>3. LockInv'
  BY DEF TypeOK, LockInv
<1>4. OwnerInv' /\ TimeInv'
  BY <1>0 DEF TypeOK, OwnerInv, TimeInv
<1>5. RunInv'
  BY <1>0, <1>1 DEF TypeOK, RunInv, PrevInv
<1>6. PrevInv'
  BY <1>0, <1>1 DEF TypeOK, PrevInv
<1>7. ViewInv' /\ SlotInv'
  BY DEF TypeOK, LockInv, ViewInv, SlotInv, PolicyOf
<1>8. QED
  BY <1>2, <1>3, <1>4, <1>5, <1>6, <1>7

\* Giving the lease back at the end of the attempt.
LEMMA ReleaseInv ==
    ASSUME IInv, NEW a \in Attempts, Release(a)
    PROVE  IInv'
<1> USE AttemptAssumption, TimeAssumption DEF IInv, Release, Goto, sourceVars
<1>1. TypeOK'
  BY DEF TypeOK, Location, Time, NoTime
<1>2. LockInv'
  BY DEF TypeOK, LockInv
<1>3. OwnerInv' /\ TimeInv'
  BY DEF TypeOK, OwnerInv, TimeInv
<1>4. RunInv'
  BY DEF TypeOK, RunInv
<1>5. PrevInv' /\ SlotInv'
  BY DEF TypeOK, PrevInv, SlotInv
<1>6. ViewInv'
  BY DEF TypeOK, ViewInv, PolicyOf
<1>7. QED
  BY <1>1, <1>2, <1>3, <1>4, <1>5, <1>6

\* The heartbeat thread moves the expiry only, or ends.
LEMMA HeartbeatInv ==
    ASSUME IInv, NEW a \in Attempts, Heartbeat(a) \/ HeartbeatEnds(a)
    PROVE  IInv'
<1> USE AttemptAssumption, TimeAssumption DEF IInv, Heartbeat, HeartbeatEnds, leaseVars,
      sourceVars, attemptVars
<1>1. CASE Heartbeat(a)
  <2> USE <1>1
  <2>1. PICK now \in hbAt[a]..clock : lease' = [lease EXCEPT !.expires = now + LeaseTTL]
    OBVIOUS
  <2>2. now + LeaseTTL \in Time
    BY DEF TypeOK, Time
  <2>3. TypeOK'
    BY <2>1, <2>2 DEF TypeOK
  <2>4. lease'.owner = lease.owner /\ lease'.run = lease.run
    BY <2>1 DEF TypeOK
  <2>5. QED
    BY <2>3, <2>4 DEF LockInv, OwnerInv, TimeInv, RunInv, PrevInv, ViewInv, SlotInv, PolicyOf
<1>2. CASE HeartbeatEnds(a)
  BY <1>2 DEF TypeOK, LockInv, OwnerInv, TimeInv, RunInv, PrevInv, ViewInv, SlotInv, PolicyOf
<1>3. QED
  BY <1>1, <1>2

\* The steps before the claim.
LEMMA RequestInv ==
    ASSUME IInv, NEW a \in Attempts,
           RequestRun(a) \/ SelectDue(a) \/ ReadLease(a)
    PROVE  IInv'
<1> USE AttemptAssumption, TimeAssumption DEF IInv, RequestRun, SelectDue, ReadLease,
      Goto, leaseVars, sourceVars, hbVars
<1>1. TypeOK'
  BY DEF TypeOK, Location, Trigger
<1>2. LockInv'
  BY DEF TypeOK, LockInv
<1>3. OwnerInv' /\ TimeInv'
  BY DEF TypeOK, OwnerInv, TimeInv
<1>4. RunInv'
  BY DEF TypeOK, RunInv
<1>5. PrevInv' /\ SlotInv'
  BY DEF TypeOK, PrevInv, SlotInv
<1>6. ViewInv'
  BY DEF TypeOK, ViewInv, PolicyOf
<1>7. QED
  BY <1>1, <1>2, <1>3, <1>4, <1>5, <1>6

\* The administrator's change, which needs the source row, and the clock.
LEMMA EnvironmentInv ==
    ASSUME IInv, Tick \/ \E p \in Policy : Configure(p)
    PROVE  IInv'
<1> USE AttemptAssumption, TimeAssumption DEF IInv, Tick, leaseVars, sourceVars,
      attemptVars, hbVars
<1>1. CASE Tick
  BY <1>1 DEF TypeOK, LockInv, OwnerInv, TimeInv, RunInv, PrevInv, ViewInv, SlotInv,
              PolicyOf, Time, NoTime
<1>2. ASSUME NEW p \in Policy, Configure(p)
      PROVE  IInv'
  <2> USE <1>2 DEF Configure
  <2>1. TypeOK'
    BY DEF TypeOK, Policy, Time, NoTime, Automatic
  <2>2. \A a \in Attempts : pc[a] \notin HoldsSource
    BY DEF LockInv
  <2>3. LockInv' /\ OwnerInv' /\ TimeInv' /\ RunInv' /\ PrevInv'
    BY DEF LockInv, OwnerInv, TimeInv, RunInv, PrevInv
  <2>4. ViewInv' /\ SlotInv'
    BY <2>2 DEF ViewInv, SlotInv
  <2>5. QED
    BY <2>1, <2>3, <2>4
<1>3. QED
  BY <1>1, <1>2
-------------------------------------------------------------------------------
\* Everything an attempt does by itself keeps the invariant.
LEMMA WorkInv ==
    ASSUME IInv, NEW a \in Attempts, Work(a)
    PROVE  IInv'
<1> USE DEF Work
<1>0. hb \in [Attempts -> BOOLEAN] /\ hbAt \in [Attempts -> Nat] /\ clock \in Nat
  BY DEF IInv, TypeOK
<1>1. CASE ReadLease(a)
  BY <1>1, RequestInv
<1>2. CASE ClaimLease(a)
  BY <1>2, ClaimInv
<1>3. CASE CheckSource(a)
  BY <1>3, CheckInv
<1>4. CASE ClaimBusy(a) \/ RefuseSource(a) \/ RejectAdapter(a) \/ StartLost(a)
           \/ CollectRaises(a) \/ PublishRaises(a)
  <2>1. PICK to \in {"failing", "releasing", "done"}, time \in Nat :
            /\ Rollback(a, to, time)
            /\ time <= clock
            /\ to = "failing" => pc[a] \in Crawling
            /\ UNCHANGED hbVars
    BY <1>0, <1>4 DEF ClaimBusy, RefuseSource, RejectAdapter, StartLost, CollectRaises,
                      PublishRaises
  <2>2. QED
    BY <1>0, <2>1, RollbackInv DEF hbVars
<1>5. CASE FenceFails(a, "checked", "releasing") \/ FenceFails(a, "collecting", "failing")
           \/ FenceFails(a, "failing", "releasing")
  <2>1. PICK to \in {"failing", "releasing", "done"}, time \in Nat :
            /\ Rollback(a, to, time)
            /\ time <= clock
            /\ to = "failing" => pc[a] \in Crawling
            /\ UNCHANGED hbVars
    BY <1>0, <1>5 DEF FenceFails
  <2>2. QED
    BY <1>0, <2>1, RollbackInv DEF hbVars
<1>6. CASE Fence(a, "checked", "fenced") \/ Fence(a, "collecting", "publishing")
           \/ Fence(a, "failing", "recording")
  BY <1>6, FenceInv
<1>7. CASE StartRun(a)
  BY <1>7, StartInv
<1>8. CASE LockSource(a, "publishing", "saving") \/ LockSource(a, "recording", "marking")
  BY <1>8, LockSourceInv
<1>9. CASE \/ \E outcome \in Outcome : Conclude(a, "saving", outcome)
           \/ Conclude(a, "marking", "failed")
  BY <1>9, ConcludeInv DEF Outcome
<1>10. CASE Release(a)
  BY <1>10, ReleaseInv
<1>11. QED
  BY <1>1, <1>2, <1>3, <1>4, <1>5, <1>6, <1>7, <1>8, <1>9, <1>10

\* Every step keeps the invariant.
LEMMA NextInv == IInv /\ [Next]_vars => IInv'
<1> SUFFICES ASSUME IInv, [Next]_vars PROVE IInv'
  OBVIOUS
<1>0. hb \in [Attempts -> BOOLEAN] /\ hbAt \in [Attempts -> Nat] /\ clock \in Nat
  BY DEF IInv, TypeOK
<1>1. ASSUME NEW a \in Attempts, RequestRun(a) \/ SelectDue(a)
      PROVE  IInv'
  BY <1>1, RequestInv
<1>2. ASSUME NEW a \in Attempts, Work(a)
      PROVE  IInv'
  BY <1>2, WorkInv
<1>3. ASSUME NEW a \in Attempts, Interrupt(a)
      PROVE  IInv'
  <2>1. Rollback(a, "releasing", 0) /\ UNCHANGED hbVars
    BY <1>3 DEF Interrupt
  <2>2. QED
    BY <1>0, <2>1, RollbackInv DEF hbVars
<1>4. ASSUME NEW a \in Attempts, Crash(a)
      PROVE  IInv'
  <2>1. /\ Rollback(a, "done", 0)
        /\ hb' \in [Attempts -> BOOLEAN] /\ hbAt' \in [Attempts -> Nat]
    BY <1>0, <1>4 DEF Crash
  <2>2. QED
    BY <1>0, <2>1, RollbackInv
<1>5. ASSUME NEW a \in Attempts, Heartbeat(a) \/ HeartbeatEnds(a)
      PROVE  IInv'
  BY <1>5, HeartbeatInv
<1>6. CASE Tick \/ \E p \in Policy : Configure(p)
  BY <1>6, EnvironmentInv
<1>7. CASE UNCHANGED vars
  BY <1>7 DEF vars, leaseVars, sourceVars, attemptVars, hbVars, IInv, TypeOK, LockInv,
              OwnerInv, TimeInv, RunInv, PrevInv, ViewInv, SlotInv, PolicyOf
<1>8. QED
  BY <1>1, <1>2, <1>3, <1>4, <1>5, <1>6, <1>7 DEF Next

\* The invariant every other result rests on.
THEOREM Invariance == Spec => []IInv
<1>1. QED
  BY InitInv, NextInv, PTL DEF Spec
-------------------------------------------------------------------------------
(* The results *)

\* Every variable keeps its type.
THEOREM TypeCorrect == Spec => []TypeOK
<1>1. IInv => TypeOK
  BY DEF IInv
<1>2. QED
  BY <1>1, Invariance, PTL

\* A starting and a publishing worker never wait for each other's row lock
\* (locks.py:88-105, service.py:265-313, 319-361).
THEOREM LockOrder == Spec => []NoLockCycle
<1>1. IInv => NoLockCycle
  BY AttemptAssumption DEF IInv, OwnerInv, NoLockCycle
<1>2. QED
  BY <1>1, Invariance, PTL

\* Only two commits touch the runs; every other step leaves the status of the
\* runs, the run the lease names and the source's status alone.
LEMMA OnlyCommitsWriteRuns ==
    ASSUME [Next]_vars,
           \A a \in Attempts :
              /\ ~StartRun(a)
              /\ \A outcome \in Outcome : ~Conclude(a, "saving", outcome)
                                      /\ ~Conclude(a, "marking", outcome),
           TypeOK
    PROVE  UNCHANGED <<status, lease.run, source.status>>
<1> USE DEF TypeOK, Rollback, leaseVars, sourceVars
<1>1. ASSUME NEW a \in Attempts, Work(a)
      PROVE  UNCHANGED <<status, lease.run, source.status>>
  <2>1. "failed" \in Outcome
    BY DEF Outcome
  <2>2. QED
    BY <1>1, <2>1
       DEF Work, ReadLease, ClaimLease, ClaimBusy, CheckSource, RefuseSource, RejectAdapter,
           Fence, FenceFails, StartLost, CollectRaises, LockSource, PublishRaises, Release
<1>2. ASSUME NEW p \in Policy, Configure(p)
      PROVE  UNCHANGED <<status, lease.run, source.status>>
  BY <1>2 DEF Configure
<1>3. ASSUME NEW a \in Attempts,
             \/ RequestRun(a) \/ SelectDue(a) \/ Interrupt(a) \/ Crash(a)
             \/ Heartbeat(a) \/ HeartbeatEnds(a)
      PROVE  UNCHANGED <<status, lease.run, source.status>>
  BY <1>3 DEF RequestRun, SelectDue, Interrupt, Crash, Heartbeat, HeartbeatEnds
<1>4. CASE Tick \/ UNCHANGED vars
  BY <1>4 DEF Tick, vars
<1>5. QED
  BY <1>1, <1>2, <1>3, <1>4 DEF Next

\* The worker that commits a result is the owner, its run is the newest and
\* still running.
LEMMA ConcluderIsNewest ==
    ASSUME IInv, NEW a \in Attempts, NEW from \in {"saving", "marking"},
           NEW outcome \in Outcome, Conclude(a, from, outcome)
    PROVE  /\ lease.run = a /\ status[a] = "running"
           /\ lease'.run = a /\ status' = [status EXCEPT ![a] = outcome]
           /\ source'.status = StatusFor(outcome)
<1>1. lease.owner = a /\ pc[a] = from
  BY AttemptAssumption DEF IInv, LockInv, OwnerInv, Conclude
<1>2. lease.run = a /\ status[a] = "running"
  BY <1>1 DEF IInv, RunInv
<1>3. QED
  BY <1>2 DEF Conclude, IInv, TypeOK

\* The run that starts is new, and the run it writes off is still running.
LEMMA StarterIsNew ==
    ASSUME IInv, NEW a \in Attempts, StartRun(a)
    PROVE  /\ status[a] = "none"
           /\ prev[a] # NoAttempt => prev[a] \in Attempts /\ status[prev[a]] = "running"
           /\ lease'.run = a /\ source'.status = "running"
<1>1. lease.owner = a
  BY AttemptAssumption DEF IInv, LockInv, OwnerInv, StartRun
<1>2. QED
  BY <1>1 DEF IInv, TypeOK, RunInv, PrevInv, StartRun

\* The source's status always tells how its newest run stands.
THEOREM SourceStatusCorrect == Spec => []SourceStatusMatchesRun
<1>1. Init => SourceStatusMatchesRun
  BY DEF Init, SourceStatusMatchesRun
<1>2. IInv /\ SourceStatusMatchesRun /\ [Next]_vars => SourceStatusMatchesRun'
  <2> SUFFICES ASSUME IInv, SourceStatusMatchesRun, [Next]_vars
               PROVE  SourceStatusMatchesRun'
    OBVIOUS
  <2>0. TypeOK
    BY DEF IInv
  <2>1. ASSUME NEW a \in Attempts, StartRun(a)
        PROVE  SourceStatusMatchesRun'
    <3>1. status'[a] = "running"
      BY <2>1 DEF StartRun
    <3>2. QED
      BY <2>1, <3>1, StarterIsNew, AttemptAssumption DEF SourceStatusMatchesRun
  <2>2. ASSUME NEW a \in Attempts, NEW from \in {"saving", "marking"},
               NEW outcome \in Outcome, Conclude(a, from, outcome)
        PROVE  SourceStatusMatchesRun'
    <3>1. status'[a] = outcome /\ outcome # "running"
      BY <2>0, <2>2, ConcluderIsNewest DEF TypeOK, Outcome
    <3>2. QED
      BY <2>2, <3>1, ConcluderIsNewest, AttemptAssumption DEF SourceStatusMatchesRun
  <2>3. CASE UNCHANGED <<status, lease.run, source.status>>
    BY <2>3 DEF SourceStatusMatchesRun
  <2>4. QED
    BY <2>0, <2>1, <2>2, <2>3, OnlyCommitsWriteRuns
<1>3. QED
  BY <1>1, <1>2, Invariance, PTL DEF Spec

\* A source has a next slot exactly when its policy is automatic: the policy a
\* worker loaded under the source lock is still the source's when it commits.
THEOREM NextRunCorrect == Spec => []NextRunMatchesPolicy
<1>1. Init => NextRunMatchesPolicy
  BY DEF Init, NextRunMatchesPolicy, Automatic, NoTime
<1>2. ASSUME NEW p \in Policy, NEW after \in Nat
      PROVE  NextAttempt(p, after) # NoTime <=> Automatic(p)
  <2>0. p.schedule \in Schedules
    BY DEF Policy
  <2>1. p.schedule \in Nat
    <3>1. \A q \in Periods : q \in Nat
      BY TimeAssumption
    <3>2. p.schedule \in Periods \/ p.schedule = 0
      BY <2>0 DEF Schedules, Manual
    <3>3. QED
      BY <3>1, <3>2
  <2>2. after + p.schedule # NoTime
    BY <2>1 DEF NoTime
  <2>3. QED
    BY <2>2 DEF NextAttempt
<1>3. IInv /\ NextRunMatchesPolicy /\ [Next]_vars => NextRunMatchesPolicy'
  <2> SUFFICES ASSUME IInv, NextRunMatchesPolicy, [Next]_vars
               PROVE  NextRunMatchesPolicy'
    OBVIOUS
  <2>0. TypeOK /\ LockInv /\ ViewInv
    BY DEF IInv
  <2>1. ASSUME NEW a \in Attempts, StartRun(a)
        PROVE  NextRunMatchesPolicy'
    <3>1. view[a] = PolicyOf(source) /\ view[a] \in Policy /\ at[a] \in Nat
      BY <2>0, <2>1 DEF StartRun, TypeOK, ViewInv, HoldsSource
    <3>2. /\ source'.nextRun = NextAttempt(view[a], at[a])
          /\ source'.enabled = source.enabled /\ source'.schedule = source.schedule
      BY <2>0, <2>1 DEF StartRun, TypeOK
    <3>3. Automatic(source') <=> Automatic(view[a])
      BY <3>1, <3>2 DEF Automatic, PolicyOf
    <3>4. QED
      BY <1>2, <3>1, <3>2, <3>3 DEF NextRunMatchesPolicy
  <2>2. ASSUME NEW a \in Attempts, NEW from \in {"saving", "marking"},
               NEW outcome \in Outcome, Conclude(a, from, outcome)
        PROVE  NextRunMatchesPolicy'
    <3>1. view[a] = PolicyOf(source) /\ view[a] \in Policy
      BY <2>0, <2>2 DEF Conclude, TypeOK, ViewInv, HoldsSource
    <3>2. PICK finished \in at[a]..clock :
             source' = [source EXCEPT !.status = StatusFor(outcome),
                                      !.nextRun = NextAttempt(view[a], finished)]
      BY <2>2 DEF Conclude
    <3>3. finished \in Nat
      BY <2>0 DEF TypeOK
    <3>4. /\ source'.nextRun = NextAttempt(view[a], finished)
          /\ source'.enabled = source.enabled /\ source'.schedule = source.schedule
      BY <2>0, <3>2 DEF TypeOK
    <3>5. Automatic(source') <=> Automatic(view[a])
      BY <3>1, <3>4 DEF Automatic, PolicyOf
    <3>6. QED
      BY <1>2, <3>1, <3>3, <3>4, <3>5 DEF NextRunMatchesPolicy
  <2>3. ASSUME NEW p \in Policy, Configure(p)
        PROVE  NextRunMatchesPolicy'
    BY <2>0, <2>3 DEF Configure, TypeOK, NextRunMatchesPolicy, Automatic, NoTime, Policy
  <2>4. CASE UNCHANGED source
    BY <2>4 DEF NextRunMatchesPolicy, Automatic
  <2>5. QED
    BY <2>1, <2>2, <2>3, <2>4
       DEF Next, Work, RequestRun, SelectDue, ReadLease, ClaimLease, ClaimBusy, CheckSource,
           RefuseSource, RejectAdapter, Fence, FenceFails, StartLost, CollectRaises,
           LockSource, PublishRaises, Release, Interrupt, Crash, Heartbeat, HeartbeatEnds,
           Tick, Rollback, sourceVars, vars, Outcome
<1>4. QED
  BY <1>1, <1>3, Invariance, PTL DEF Spec

\* A lease changes hands only after it ran out: the clock value a claim compares
\* was read earlier, so it is no later than the clock.
THEOREM LeaseSafe == Spec => LeaseTakenOnlyWhenExpired
<1>1. IInv /\ [Next]_vars =>
         [lease.owner # NoAttempt /\ lease'.owner \notin {lease.owner, NoAttempt}
             => lease.expires <= clock]_vars
  <2> SUFFICES ASSUME IInv, [Next]_vars, lease.owner # NoAttempt,
                      lease'.owner \notin {lease.owner, NoAttempt}
               PROVE  lease.expires <= clock
    OBVIOUS
  <2>0. TypeOK /\ TimeInv
    BY DEF IInv
  <2>1. ASSUME NEW a \in Attempts, ClaimLease(a)
        PROVE  lease.expires <= clock
    BY <2>0, <2>1 DEF ClaimLease, Claimable, TypeOK, TimeInv, Time, NoTime
  <2>2. ASSUME NEW a \in Attempts, StartRun(a)
        PROVE  lease'.owner = lease.owner
    BY <2>0, <2>2 DEF StartRun, TypeOK
  <2>3. ASSUME NEW a \in Attempts, NEW from, NEW outcome, Conclude(a, from, outcome)
        PROVE  lease'.owner = lease.owner
    BY <2>0, <2>3 DEF Conclude, TypeOK
  <2>4. ASSUME NEW a \in Attempts, Release(a)
        PROVE  lease'.owner \in {lease.owner, NoAttempt}
    BY <2>0, <2>4 DEF Release, TypeOK
  <2>5. ASSUME NEW a \in Attempts, Heartbeat(a)
        PROVE  lease'.owner = lease.owner
    BY <2>0, <2>5 DEF Heartbeat, TypeOK
  <2>6. QED
    BY <2>1, <2>2, <2>3, <2>4, <2>5
       DEF Next, Work, RequestRun, SelectDue, ReadLease, ClaimBusy, CheckSource,
           RefuseSource, RejectAdapter, Fence, FenceFails, StartLost, CollectRaises,
           LockSource, PublishRaises, Interrupt, Crash, HeartbeatEnds, Configure,
           Tick, Rollback, leaseVars, vars
<1>2. QED
  BY <1>1, Invariance, PTL DEF Spec, LeaseTakenOnlyWhenExpired

\* A scheduled run starts when its slot has come or it takes over a run.
THEOREM ScheduleRespected == Spec => ScheduledRunsStartWhenDue
<1>1. IInv /\ [Next]_vars =>
         [\A a \in Attempts :
            status[a] = "none" /\ status'[a] = "running" /\ trigger[a] = "scheduled"
               => \/ source.nextRun <= clock
                  \/ \E r \in Attempts : status[r] = "running" /\ status'[r] = "failed"]_vars
  <2> SUFFICES ASSUME IInv, [Next]_vars, NEW a \in Attempts,
                      status[a] = "none", status'[a] = "running", trigger[a] = "scheduled"
               PROVE  \/ source.nextRun <= clock
                      \/ \E r \in Attempts : status[r] = "running" /\ status'[r] = "failed"
    OBVIOUS
  <2>0. TypeOK
    BY DEF IInv
  <2>1. CASE StartRun(a)
    <3>1. CASE prev[a] = NoAttempt
      BY <2>1, <3>1 DEF IInv, SlotInv, StartRun
    <3>2. CASE prev[a] # NoAttempt
      <4>1. prev[a] \in Attempts /\ status[prev[a]] = "running"
        BY <2>1, <3>2, StarterIsNew
      <4>2. status'[prev[a]] = "failed"
        BY <2>1, <4>1 DEF StartRun
      <4>3. QED
        BY <4>1, <4>2
    <3>3. QED
      BY <3>1, <3>2
  <2>2. ASSUME NEW b \in Attempts, StartRun(b), b # a
        PROVE  FALSE
    BY <2>2 DEF StartRun
  <2>3. ASSUME NEW b \in Attempts, NEW from \in {"saving", "marking"},
               NEW outcome \in Outcome, Conclude(b, from, outcome)
        PROVE  FALSE
    BY <2>0, <2>3, ConcluderIsNewest DEF TypeOK, Outcome
  <2>4. QED
    BY <2>0, <2>1, <2>2, <2>3, OnlyCommitsWriteRuns
<1>2. QED
  BY <1>1, Invariance, PTL DEF Spec, ScheduledRunsStartWhenDue

\* Source collection implements the ledger: no stale worker publishes, and an
\* outcome is final.
THEOREM LedgerImplemented == Spec => LedgerSpec
<1>1. Init => Ledger!Init
  BY DEF Init, Ledger!Init
<1>2. IInv /\ [Next]_vars => [Ledger!Next]_(Ledger!vars)
  <2> SUFFICES ASSUME IInv, [Next]_vars PROVE [Ledger!Next]_(Ledger!vars)
    OBVIOUS
  <2>0. TypeOK
    BY DEF IInv
  <2>1. ASSUME NEW a \in Attempts, StartRun(a)
        PROVE  Ledger!Begin(a)
    <3> DEFINE abandoned == {prev[a]} \intersect Attempts
    <3>1. abandoned \in SUBSET {q \in Attempts : status[q] = "running"}
      BY <2>1, StarterIsNew, AttemptAssumption
    <3>2. status' = [q \in Attempts |-> IF q = a THEN "running"
                                       ELSE IF q \in abandoned THEN "failed"
                                       ELSE status[q]]
      BY <2>1 DEF StartRun
    <3>3. QED
      BY <2>1, <3>1, <3>2, StarterIsNew DEF Ledger!Begin
  <2>2. ASSUME NEW a \in Attempts, NEW from \in {"saving", "marking"},
               NEW outcome \in Outcome, Conclude(a, from, outcome)
        PROVE  Ledger!Conclude(a, outcome)
    BY <2>2, ConcluderIsNewest DEF Ledger!Conclude
  <2>3. QED
    BY <2>0, <2>1, <2>2, OnlyCommitsWriteRuns
       DEF Ledger!Next, Ledger!vars, Ledger!Outcome, Outcome
<1>3. QED
  BY <1>1, <1>2, Invariance, PTL DEF Spec, LedgerSpec, Ledger!Spec
=============================================================================
