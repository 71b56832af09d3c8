---------------------------- MODULE ExtractionRuns ----------------------------
(***************************************************************************)
(* The extraction runs of one job posting: administrators and the batch    *)
(* command who request an extraction, the bounded calls to the model       *)
(* provider, the recovery of an expired run, and the collection that       *)
(* rewrites the posting meanwhile                                          *)
(* (backend/app/job_extraction/persistence.py and service.py,              *)
(* backend/app/extract_saved_jobs.py).                                     *)
(*                                                                         *)
(* A request inserts at most one job_extraction_runs row, so the request   *)
(* names the row.  The unique active_key is the lease of the posting: an   *)
(* insert waits for an uncommitted one and fails when a committed row      *)
(* holds the key.  A recovery is one step: it reads a row that only        *)
(* becomes more expired, and its UPDATE asks again whether it is running.  *)
(***************************************************************************)
EXTENDS Integers

CONSTANTS Requests,    \* executions of execute()
          Inputs,      \* valid contents of the posting
          Invalid,     \* contents job_input refuses
          Pipelines,   \* runtime configurations
          Live,        \* those that call a paid provider
          None,        \* no request or pipeline
          CallTimeout, \* provider_call_timeout_seconds
          Retries,     \* max_validation_retries
          Margin,      \* the 60 seconds of the lease beyond the calls
          MaxTime,     \* bound: the last clock value
          MayCrash     \* bound: requests whose process may die

ASSUME NameAssumption ==
    Invalid \notin Inputs /\ None \notin Requests \union Pipelines /\ Live \subseteq Pipelines
ASSUME TimeAssumption ==
    /\ CallTimeout \in Nat \ {0}
    /\ Margin \in Nat \ {0}
    /\ {Retries, MaxTime} \subseteq Nat

VARIABLES
    clock,
    job,       \* what job_input makes of the posting now
    keyHolder, \* request whose uncommitted row holds the active key
    status,    \* status of each request's row, "none" before its commit
    row,       \* what the row says: input, pipeline, started, expires
    result,    \* input that the stored result was extracted from
    pc,        \* where each request is
    forced,    \* does the request skip the cache
    item,      \* the input the request extracts
    attempt,   \* number of the current provider call
    spent,     \* how long that call has taken
    slack      \* how long the request spent outside provider calls

runVars == <<status, row, result>>
requestVars == <<pc, forced, item, attempt, spent, slack>>
vars == <<clock, job, keyHolder, runVars, requestVars>>

Contents == Inputs \union {Invalid}

\* Mutant: the lease forgets the first call.
LeaseWithoutFirstCall == CallTimeout * Retries + Margin

Lease == CallTimeout * (Retries + 1) + Margin

Final == {"needs_review", "failed"}
Committed(r) == status[r] # "none"

\* From the creation of the row object to its last statement.
Active == {"inserting", "inserted", "refreshed", "opening", "calling", "succeeded", "failing"}
Location == Active \union {"idle", "done", "dead"}

NoRow == [input |-> Invalid, pipeline |-> None, started |-> 0, expires |-> 0]

TypeOK ==
    /\ clock \in Nat
    /\ job \in Contents
    /\ keyHolder \in Requests \union {None}
    /\ status \in [Requests -> Final \union {"none", "running"}]
    /\ row \in [Requests -> [input : Contents, pipeline : Pipelines \union {None},
                             started : Nat, expires : Nat]]
    /\ result \in [Requests -> Contents]
    /\ pc \in [Requests -> Location]
    /\ forced \in [Requests -> BOOLEAN]
    /\ item \in [Requests -> Contents]
    /\ attempt \in [Requests -> 0..(Retries + 1)]
    /\ spent \in [Requests -> 0..CallTimeout]
    /\ slack \in [Requests -> 0..Margin]

Init ==
    /\ clock = 0
    /\ job \in Contents
    /\ keyHolder = None
    /\ status = [r \in Requests |-> "none"]
    /\ row = [r \in Requests |-> NoRow]
    /\ result = [r \in Requests |-> Invalid]
    /\ pc = [r \in Requests |-> "idle"]
    /\ forced = [r \in Requests |-> FALSE]
    /\ item = [r \in Requests |-> Invalid]
    /\ attempt = [r \in Requests |-> 0]
    /\ spent = [r \in Requests |-> 0]
    /\ slack = [r \in Requests |-> 0]

Goto(r, to) == pc' = [pc EXCEPT ![r] = to]

\* The request ends; what only its process knew is forgotten.
Leave(r, to) ==
    /\ Goto(r, to)
    /\ item' = [item EXCEPT ![r] = Invalid]
    /\ attempt' = [attempt EXCEPT ![r] = 0]
    /\ spent' = [spent EXCEPT ![r] = 0]
    /\ slack' = [slack EXCEPT ![r] = 0]

\* A rollback: the row and the active key are gone, unless committed before.
Abandon(r, to) ==
    /\ Leave(r, to)
    /\ keyHolder' = IF keyHolder = r THEN None ELSE keyHolder
    /\ row' = IF Committed(r) THEN row ELSE [row EXCEPT ![r] = NoRow]
    /\ forced' = IF Committed(r) THEN forced ELSE [forced EXCEPT ![r] = FALSE]
    /\ UNCHANGED <<clock, job, status, result>>
-------------------------------------------------------------------------------
(* Beginning *)

\* The latest runs by started_at; rows that started together are in any order.
Latest == {r \in Requests : Committed(r) /\ \A q \in Requests :
              Committed(q) => row[q].started <= row[r].started}

Current(r) == status[r] = "needs_review" /\ row[r].pipeline \in Live /\ row[r].input = job

\* pending_jobs selects a posting whose latest run is not a current live result.
Pending == Latest = {} \/ \E r \in Latest : ~Current(r)

\* execute builds the row: an administrator's request, with or without force,
\* or the batch command, live and for a pending posting.
Request(r, force, pipeline) ==
    /\ pc[r] = "idle"
    /\ job # Invalid
    /\ row' = [row EXCEPT ![r] = [input |-> job, pipeline |-> pipeline,
                                  started |-> clock, expires |-> clock + Lease]]
    /\ item' = [item EXCEPT ![r] = job]
    /\ forced' = [forced EXCEPT ![r] = force]
    /\ Goto(r, "inserting")
    /\ UNCHANGED <<clock, job, keyHolder, status, result, attempt, spent, slack>>

AdminRequest(r) == \E force \in BOOLEAN, p \in Pipelines : Request(r, force, p)

BatchRequest(r) == Pending /\ \E p \in Live : Request(r, FALSE, p)

\* db.flush: the active key is taken, or the posting is being extracted.
Insert(r) ==
    /\ pc[r] = "inserting"
    /\ keyHolder = None
    /\ IF \E q \in Requests : status[q] = "running"
       THEN Abandon(r, "done")
       ELSE /\ keyHolder' = r
            /\ Goto(r, "inserted")
            /\ UNCHANGED <<clock, job, runVars, forced, item, attempt, spent, slack>>

\* Mutant: the row keeps the input it was built with.
RefreshItemOnly(r) ==
    /\ pc[r] = "inserted"
    /\ IF job = Invalid
       THEN Abandon(r, "done")
       ELSE /\ item' = [item EXCEPT ![r] = job]
            /\ Goto(r, "refreshed")
            /\ UNCHANGED <<clock, job, keyHolder, runVars, forced, attempt, spent, slack>>

\* db.refresh(job): the posting may have changed while the insert waited.
Refresh(r) ==
    /\ pc[r] = "inserted"
    /\ IF job = Invalid
       THEN Abandon(r, "done")
       ELSE /\ item' = [item EXCEPT ![r] = job]
            /\ row' = [row EXCEPT ![r].input = job]
            /\ Goto(r, "refreshed")
            /\ UNCHANGED <<clock, job, keyHolder, status, result, forced, attempt,
                           spent, slack>>

\* Mutant: the cache is not consulted.
CachedNever(r) == {}

Cached(r) ==
    {q \in Requests : /\ status[q] = "needs_review"
                      /\ row[q].input = item[r]
                      /\ row[q].pipeline = row[r].pipeline}

\* A successful run of the same input and pipeline is the answer.
Reuse(r) ==
    /\ pc[r] = "refreshed"
    /\ ~forced[r]
    /\ Cached(r) # {}
    /\ Abandon(r, "done")

\* The commit that makes the run, and with it the lease, visible.
Start(r) ==
    /\ pc[r] = "refreshed"
    /\ forced[r] \/ Cached(r) = {}
    /\ keyHolder' = None
    /\ status' = [status EXCEPT ![r] = "running"]
    /\ Goto(r, "opening")
    /\ UNCHANGED <<clock, job, row, result, forced, item, attempt, spent, slack>>
-------------------------------------------------------------------------------
(* Calling the provider *)

\* The provider is opened and the first call begins.
Open(r) ==
    /\ pc[r] = "opening"
    /\ attempt' = [attempt EXCEPT ![r] = 1]
    /\ Goto(r, "calling")
    /\ UNCHANGED <<clock, job, keyHolder, runVars, forced, item, spent, slack>>

\* The provider cannot be built, or is not the one of the runtime.
OpenFails(r) ==
    /\ pc[r] = "opening"
    /\ Goto(r, "failing")
    /\ UNCHANGED <<clock, job, keyHolder, runVars, forced, item, attempt, spent, slack>>

\* Mutant: one repair too many.
MayRepairAgain(r) == attempt[r] <= Retries + 1

MayRepair(r) == attempt[r] <= Retries

\* The call ends: a valid payload; a provider error, a timeout, a cancelled request
\* or a provider that cannot be closed; or an unusable payload, which another call
\* repairs if any is left.
CallEnds(r, outcome) ==
    /\ pc[r] = "calling"
    /\ spent' = [spent EXCEPT ![r] = 0]
    /\ IF outcome = "repairable" /\ MayRepair(r)
       THEN attempt' = [attempt EXCEPT ![r] = @ + 1] /\ UNCHANGED pc
       ELSE /\ Goto(r, IF outcome = "valid" THEN "succeeded" ELSE "failing")
            /\ UNCHANGED attempt
    /\ UNCHANGED <<clock, job, keyHolder, runVars, forced, item, slack>>

\* Mutant: the UPDATE does not ask whether the run is still running.
FinishAnyStatus(r, final) ==
    /\ status' = [status EXCEPT ![r] = final]
    /\ result' = [result EXCEPT ![r] = IF final = "needs_review" THEN item[r] ELSE Invalid]

\* Mutant: a run is finished in memory only when its request failed.
FinishSuccessOnly(r, final) ==
    IF status[r] = "running" /\ final = "needs_review"
    THEN /\ status' = [status EXCEPT ![r] = final]
         /\ result' = [result EXCEPT ![r] = item[r]]
    ELSE UNCHANGED <<status, result>>

\* finish: the conditional UPDATE; a run that is not running stays as it is.
Finish(r, final) ==
    IF status[r] = "running"
    THEN /\ status' = [status EXCEPT ![r] = final]
         /\ result' = [result EXCEPT ![r] = IF final = "needs_review" THEN item[r]
                                            ELSE Invalid]
    ELSE UNCHANGED <<status, result>>

Conclude(r) ==
    /\ \/ pc[r] = "succeeded" /\ Finish(r, "needs_review")
       \/ pc[r] = "failing" /\ Finish(r, "failed")
    /\ Leave(r, "done")
    /\ UNCHANGED <<clock, job, keyHolder, row, forced>>

\* recover_expired, requested by an administrator.
Recover(r) ==
    /\ status[r] = "running"
    /\ row[r].expires <= clock
    /\ Finish(r, "failed")
    /\ UNCHANGED <<clock, job, keyHolder, row, requestVars>>

Crash(r) ==
    /\ r \in MayCrash
    /\ pc[r] \in Active
    /\ Abandon(r, "dead")
-------------------------------------------------------------------------------
\* A collection rewrites the posting.
Rewrite(contents) ==
    /\ contents # job
    /\ job' = contents
    /\ UNCHANGED <<clock, keyHolder, runVars, requestVars>>

AtMost(n, bound) == IF n > bound THEN bound ELSE n

\* Time passes for everyone; asyncio.wait_for ends a call at its timeout.
Tick ==
    /\ clock < MaxTime
    /\ \A r \in Requests : spent[r] < CallTimeout
    /\ clock' = clock + 1
    /\ spent' = [r \in Requests |-> IF pc[r] = "calling" THEN spent[r] + 1 ELSE spent[r]]
    /\ slack' = [r \in Requests |-> IF pc[r] \in Active \ {"calling"}
                                    THEN AtMost(slack[r] + 1, Margin) ELSE slack[r]]
    /\ UNCHANGED <<job, keyHolder, runVars, pc, forced, item, attempt>>

Work(r) ==
    \/ Insert(r) \/ Refresh(r) \/ Reuse(r) \/ Start(r)
    \/ Open(r) \/ OpenFails(r)
    \/ \E outcome \in {"valid", "repairable", "error"} : CallEnds(r, outcome)
    \/ Conclude(r)

Next ==
    \/ \E r \in Requests : AdminRequest(r) \/ BatchRequest(r) \/ Work(r)
                           \/ Recover(r) \/ Crash(r)
    \/ \E contents \in Contents : Rewrite(contents)
    \/ Tick

Spec == Init /\ [][Next]_vars

\* A request that can go on does: the lock waits and the provider calls end.
FairSpec == Spec /\ \A r \in Requests : WF_vars(Work(r))
-------------------------------------------------------------------------------
(* Properties *)

\* A posting is not extracted twice for nothing: two requests that may use the
\* cache never both produce a result for one input and pipeline, however they and
\* the batch command overlap (persistence.py:174-204).
NoDuplicateExtraction ==
    \A q, r \in Requests :
        /\ q # r /\ ~forced[q] /\ ~forced[r]
        /\ status[q] = "needs_review" /\ status[r] = "needs_review"
        => row[q].input # row[r].input \/ row[q].pipeline # row[r].pipeline

\* The input a run records is the one its result was extracted from, although the
\* posting may change while the insert waits and during the calls
\* (persistence.py:179-186).
ResultOfRecordedInput ==
    \A r \in Requests : status[r] = "needs_review" => result[r] = row[r].input

\* The history is append-only: a late worker does not overwrite the record of
\* the recovery, nor anybody else's result (persistence.py:114-133, 233).
HistoryIsFinal ==
    [][\A r \in Requests : status[r] \in Final =>
          UNCHANGED <<status[r], row[r], result[r]>>]_vars

\* "The lease outlives all bounded extraction attempts, including provider cleanup
\* margin" (persistence.py:153): a worker that spent less than the margin outside
\* its calls cannot be recovered under its hands.
LeaseOutlivesAttempts ==
    \A r \in Requests :
        pc[r] \in {"opening", "calling", "succeeded", "failing"} /\ slack[r] < Margin
            => status[r] = "running"

\* Every request ends, and a run whose worker lives is concluded, whatever its
\* provider answers (persistence.py:207-222).
RunsConclude ==
    \A r \in Requests : status[r] = "running" /\ pc[r] \in Active
                            ~> status[r] \in Final \/ pc[r] = "dead"
===============================================================================
