--------------------------- MODULE RecommendationRuns ---------------------------
(***************************************************************************)
(* The paid comparisons of a user's profile with a shortlist of jobs       *)
(* (backend/app/ai_recommendations/service.py: execute, expire_run,        *)
(* read_run, _run_is_current and job_assessment).                          *)
(*                                                                         *)
(* A run is a row of ai_recommendation_runs.  The row is unique for the    *)
(* user and the hash of what is compared, it is inserted before the model  *)
(* is called and never deleted: the row is both the cache and the lease of *)
(* the call.  A request inserts at most one row, so requests are numbered  *)
(* and the number is also the id of the row.  The model is for one user    *)
(* and one pipeline; texts are values, compared whole as the code does.    *)
(***************************************************************************)
EXTENDS Integers, Sequences, FiniteSets

CONSTANTS Requests,   \* executions of execute(); naturals, which order the ids
          Jobs,       \* postings
          Profiles,   \* contents of the saved profile
          Unready,    \* a profile without education, experience and skills
          Postings,   \* what the store may have of each job: a text and its revision, or
          Closed,     \*   a posting that is not active, public, enabled and in time
          Timeout,    \* runtime.timeout_seconds
          LeaseFloor, \* LEASE_SECONDS
          Margin,     \* the 60 seconds a lease lasts beyond the timeout
          History,    \* how many runs job_assessment scans (100)
          Shortlist,  \* bound: jobs in one request (5 in the code)
          MaxTime     \* bound: the last clock value

ASSUME RunNames ==
    /\ Requests \subseteq Nat /\ IsFiniteSet(Requests) /\ History \in Nat
    /\ Unready \notin Profiles
    /\ Closed \notin [text : Nat, revision : Nat]
    /\ Postings \in [Jobs -> SUBSET ([text : Nat, revision : Nat] \union {Closed})]
ASSUME RunTimes ==
    /\ {Timeout, LeaseFloor, Margin} \subseteq Nat \ {0}
    /\ MaxTime \in Nat

VARIABLES
    now,      \* the clock of the database
    profile,  \* the saved profile
    posting,  \* what the store has of each job
    run,      \* the row of each request
    at,       \* where each request is
    draft,    \* what the request compares, and when it began
    called,   \* when its call to the model started
    outcome,  \* what the call returned, and when that was noted
    charged   \* ghost: requests whose call reached the provider

recommendationVars == <<now, profile, posting, run, at, draft, called, outcome, charged>>

\* What is hashed: the profile, the jobs compared and their revisions.
NoIdentity == [profile |-> Unready, jobs |-> <<>>]

NoRow == [status |-> "none", identity |-> NoIdentity, owned |-> FALSE,
          started |-> 0, expires |-> 0]

NoOutcome == [ok |-> FALSE, noted |-> 0]

Committed(r) == run[r].status # "none"
Rows == {r \in Requests : Committed(r)}

RunLease == IF LeaseFloor > Timeout + Margin THEN LeaseFloor ELSE Timeout + Margin

Working == {"inserting", "calling", "writing"}

RecommendationInit ==
    /\ now = 0
    /\ profile \in Profiles \union {Unready}
    /\ posting \in {f \in [Jobs -> UNION {Postings[j] : j \in Jobs}] :
                       \A j \in Jobs : f[j] \in Postings[j]}
    /\ run = [r \in Requests |-> NoRow]
    /\ at = [r \in Requests |-> "idle"]
    /\ draft = [r \in Requests |-> [identity |-> NoIdentity, started |-> 0]]
    /\ called = [r \in Requests |-> 0]
    /\ outcome = [r \in Requests |-> NoOutcome]
    /\ charged = {}
-------------------------------------------------------------------------------
(* Beginning a run *)

Open == {j \in Jobs : posting[j] # Closed}

\* The saved profile and postings, as the request reads them.
Identity(S) == [profile |-> profile, jobs |-> [j \in S |-> posting[j]]]

SameIdentity(id) == {q \in Rows : run[q].identity = id}

\* expire_run: the UPDATE asks again for what the read saw.
Expire(rows, q) ==
    IF rows[q].status = "running" /\ rows[q].expires <= now
    THEN [rows EXCEPT ![q].status = "failed", ![q].owned = FALSE]
    ELSE rows

At(r, to) == at' = [at EXCEPT ![r] = to]

\* The request ends; what only its process knew is forgotten.
Quit(r, to) ==
    /\ At(r, to)
    /\ called' = [called EXCEPT ![r] = 0]
    /\ outcome' = [outcome EXCEPT ![r] = NoOutcome]

\* A row for the same comparison exists: it is returned, expired if it is time.
Reuse(r, id) ==
    /\ \E q \in SameIdentity(id) : run' = Expire(run, q)
    /\ At(r, "done")

\* execute up to the insert, for jobs the user chose or the ranking selected.
\* A profile without facts, or no open job, is refused and leaves no trace.
Request(r, S) ==
    /\ at[r] = "idle"
    /\ profile # Unready
    /\ S # {} /\ S \subseteq Open /\ Cardinality(S) <= Shortlist
    /\ IF SameIdentity(Identity(S)) # {}
       THEN Reuse(r, Identity(S)) /\ UNCHANGED draft
       ELSE /\ draft' = [draft EXCEPT ![r] = [identity |-> Identity(S), started |-> now]]
            /\ At(r, "inserting")
            /\ UNCHANGED run
    /\ UNCHANGED <<now, profile, posting, called, outcome, charged>>

\* The commit of the new row, which the unique constraint may refuse; the call
\* to the model starts at once.
Insert(r) ==
    /\ at[r] = "inserting"
    /\ IF SameIdentity(draft[r].identity) # {}
       THEN Reuse(r, draft[r].identity) /\ UNCHANGED <<called, charged>>
       ELSE /\ run' = [run EXCEPT ![r] =
                          [status |-> "running", identity |-> draft[r].identity, owned |-> TRUE,
                           started |-> draft[r].started,
                           expires |-> draft[r].started + RunLease]]
            /\ At(r, "calling")
            /\ called' = [called EXCEPT ![r] = now]
            /\ charged' = charged \union {r}
    /\ UNCHANGED <<now, profile, posting, draft, outcome>>
-------------------------------------------------------------------------------
(* Finishing a run *)

\* The call ends: valid evidence, or any of the errors, its timeout included.
CallEnds(r, ok) ==
    /\ at[r] = "calling"
    /\ outcome' = [outcome EXCEPT ![r] = [ok |-> ok, noted |-> now]]
    /\ At(r, "writing")
    /\ UNCHANGED <<now, profile, posting, run, draft, called, charged>>

Result(r) == IF outcome[r].ok THEN "succeeded" ELSE "failed"

\* Mutant: the result is stored whatever became of the row.
FinishBlindly(r) ==
    /\ at[r] = "writing"
    /\ run' = [run EXCEPT ![r].status = Result(r), ![r].owned = FALSE]
    /\ Quit(r, "done")
    /\ UNCHANGED <<now, profile, posting, draft, charged>>

\* Mutant: a late result is dropped and the row left as it is.
FinishInTimeOnly(r) ==
    /\ at[r] = "writing"
    /\ run' = IF run[r].owned /\ run[r].expires > outcome[r].noted
              THEN [run EXCEPT ![r].status = Result(r), ![r].owned = FALSE]
              ELSE run
    /\ Quit(r, "done")
    /\ UNCHANGED <<now, profile, posting, draft, charged>>

\* The conditional UPDATE; when it changes nothing the row is expired instead.
Finish(r) ==
    /\ at[r] = "writing"
    /\ run' = IF run[r].owned /\ run[r].status = "running" /\ run[r].expires > outcome[r].noted
              THEN [run EXCEPT ![r].status = Result(r), ![r].owned = FALSE]
              ELSE Expire(run, r)
    /\ Quit(r, "done")
    /\ UNCHANGED <<now, profile, posting, draft, charged>>

\* The process dies between two steps of a request.
Die(r) ==
    /\ at[r] \in Working
    /\ Quit(r, "dead")
    /\ UNCHANGED <<now, profile, posting, run, draft, charged>>

\* read_run: a page that polls a run expires it when it is time.
ReadRun(q) ==
    /\ Committed(q)
    /\ run' = Expire(run, q)
    /\ run' # run
    /\ UNCHANGED <<now, profile, posting, at, draft, called, outcome, charged>>
-------------------------------------------------------------------------------
(* The rest of the system *)

\* The user saves the profile.
EditProfile(p) ==
    /\ profile # p
    /\ profile' = p
    /\ UNCHANGED <<now, posting, run, at, draft, called, outcome, charged>>

\* A collection rewrites, closes or reopens a posting.
CollectPosting(j, p) ==
    /\ posting[j] # p
    /\ posting' = [posting EXCEPT ![j] = p]
    /\ UNCHANGED <<now, profile, run, at, draft, called, outcome, charged>>

\* asyncio.wait_for ends every call within its timeout.
AdvanceClock ==
    /\ now < MaxTime
    /\ \A r \in Requests : at[r] = "calling" => now < called[r] + Timeout
    /\ now' = now + 1
    /\ UNCHANGED <<profile, posting, run, at, draft, called, outcome, charged>>

RequestStep(r) ==
    \/ Insert(r)
    \/ \E ok \in BOOLEAN : CallEnds(r, ok)
    \/ Finish(r)

RecommendationNext ==
    \/ \E r \in Requests : \/ \E S \in SUBSET Jobs : Request(r, S)
                           \/ RequestStep(r)
                           \/ Die(r)
                           \/ ReadRun(r)
    \/ \E p \in Profiles \union {Unready} : EditProfile(p)
    \/ \E j \in Jobs : \E p \in Postings[j] : CollectPosting(j, p)
    \/ AdvanceClock

\* A process that lives carries its request to the end.
RecommendationFairness == \A r \in Requests : WF_recommendationVars(RequestStep(r))

RecommendationSpec ==
    RecommendationInit /\ [][RecommendationNext]_recommendationVars /\ RecommendationFairness
-------------------------------------------------------------------------------
(* What a page is told about a saved run *)

\* The model sees texts, not revisions.
Texts(jobs) == [j \in DOMAIN jobs |-> jobs[j].text]

SavedAsNow(r, j) ==
    /\ j \in DOMAIN run[r].identity.jobs
    /\ posting[j] # Closed
    /\ run[r].identity.jobs[j].text = posting[j].text

\* _run_is_current: the profile and every job of the batch are as they were sent.
RunIsCurrent(r) ==
    /\ run[r].identity.profile = profile
    /\ \A j \in DOMAIN run[r].identity.jobs : SavedAsNow(r, j)

\* The runs job_assessment reads, latest first.
LaterFirst(q, r) ==
    \/ run[q].started > run[r].started
    \/ run[q].started = run[r].started /\ q > r
Scanned ==
    LET all == CHOOSE q \in [1..Cardinality(Rows) -> Rows] :
                   \A i, k \in DOMAIN q : i < k => LaterFirst(q[i], q[k])
    IN  SubSeq(all, 1, IF Cardinality(Rows) < History THEN Cardinality(Rows) ELSE History)

\* What the loop keeps while no finished run of the current input is found.
Fallback(r) == IF run[r].status = "running" /\ run[r].expires > now THEN "running" ELSE "failed"

\* Mutant: the first run that mentions the job decides.
VisitFirstOnly(j, report, r) ==
    IF report.status # "not_analyzed" \/ j \notin DOMAIN run[r].identity.jobs
    THEN report
    ELSE IF ~SavedAsNow(r, j) \/ run[r].identity.profile # profile
         THEN [status |-> "outdated", source |-> 0]
         ELSE [status |-> IF run[r].status = "succeeded" THEN "available" ELSE Fallback(r),
               source |-> r]

\* One turn of the loop: a finished run of the current input ends it, a running
\* or failed one is kept, and one of another input matters only before those.
Visit(j, report, r) ==
    IF report.status = "available" \/ j \notin DOMAIN run[r].identity.jobs THEN report
    ELSE IF ~SavedAsNow(r, j) \/ run[r].identity.profile # profile
         THEN IF report.status = "not_analyzed" THEN [status |-> "outdated", source |-> 0] ELSE report
    ELSE IF run[r].status = "succeeded" THEN [status |-> "available", source |-> r]
    ELSE IF report.status \in {"not_analyzed", "outdated"}
         THEN [status |-> Fallback(r), source |-> r]
    ELSE report

Assessment(j) ==
    IF posting[j] = Closed \/ profile = Unready
    THEN [status |-> "unavailable", source |-> 0]
    ELSE LET scanned == Scanned
             report[n \in 0..Len(scanned)] ==
                 IF n = 0 THEN [status |-> "not_analyzed", source |-> 0]
                 ELSE Visit(j, report[n - 1], scanned[n])
         IN  report[Len(scanned)]
-------------------------------------------------------------------------------
(* Properties *)

\* Every variable has its type; a row is owned exactly while it is running.
RecommendationTypes ==
    /\ now \in Nat
    /\ profile \in Profiles \union {Unready}
    /\ DOMAIN posting = Jobs /\ \A j \in Jobs : posting[j] \in Postings[j]
    /\ \A r \in Requests :
          /\ run[r].status \in {"none", "running", "succeeded", "failed"}
          /\ run[r].owned = (run[r].status = "running")
          /\ run[r].identity = NoIdentity \/ run[r].identity.jobs # <<>>
          /\ run[r].expires \in {0, run[r].started + RunLease}
          /\ at[r] \in Working \union {"idle", "done", "dead"}
    /\ charged \subseteq Requests

\* The same comparison is paid for at most once, whatever overlaps, fails, runs
\* out of its lease or dies (execute, and the cache of models.py): the provider
\* is reached only by the request that holds the one row of that comparison.
PaidOnce ==
    \A q, r \in charged : draft[q].identity = draft[r].identity => q = r

\* A call ends within its lease unless the process itself is slow: at the end of
\* a call that began when its row was made, the lease still holds.
LeaseOutlivesCall ==
    \A r \in Requests :
       at[r] = "calling" /\ called[r] = draft[r].started => now < run[r].expires

\* A finished run is history: no late answer, poll or repeated request changes
\* it, and the row never disappears.
FinishedRunsStay ==
    [][\A r \in Requests :
          /\ Committed(r) => run'[r].identity = run[r].identity /\ run'[r].status # "none"
          /\ run[r].status \in {"succeeded", "failed"} => run'[r] = run[r]]_recommendationVars

\* The assessment of a job and the batch it comes from tell one story: a success
\* for the current input is found behind newer failures and outdated runs, what
\* is reported running is leased and not yet paid for otherwise, and a batch that
\* is displayed as current is the source of each of its jobs' assessments or an
\* older success is (job_assessment, _run_is_current).
AssessmentsAgree ==
    \A j \in Jobs :
       LET scanned == {Scanned[i] : i \in 1..Len(Scanned)}
           good == {r \in scanned : /\ run[r].status = "succeeded" /\ SavedAsNow(r, j)
                                    /\ run[r].identity.profile = profile}
           a == Assessment(j)
       IN  /\ posting[j] # Closed /\ profile # Unready =>
                 (a.status = "available" <=> good # {})
           /\ a.status = "available" => a.source \in good
           /\ a.status = "running" => run[a.source].owned /\ now < run[a.source].expires
           /\ \A r \in scanned :
                 /\ RunIsCurrent(r) /\ run[r].status = "succeeded"
                 /\ j \in DOMAIN run[r].identity.jobs
                 => a.status = "available"

\* A run whose process lives; the row of a dead one waits for somebody who reads it.
RunUnderWay == \E r \in Requests : run[r].status = "running" /\ at[r] # "dead"

\* A run does not stay running: the request stores what the call returned, or marks
\* as failed the run whose lease it missed.
RunsEnd == RunUnderWay ~> ~RunUnderWay
===============================================================================
