----------------------------- MODULE CrawlLedger -----------------------------
(***************************************************************************)
(* What source collection promises about the crawl runs of one source: a   *)
(* run begins once, only the run that began last may be concluded by its   *)
(* own worker, and a conclusion is final.  A run that is superseded while  *)
(* it is still running can only be written off as failed by a successor.   *)
(* SourceCollection implements this module.                                *)
(***************************************************************************)
CONSTANTS Runs,    \* the crawl_runs rows of the source
          NoRun    \* "no run yet"

VARIABLES status,  \* status of every run
          latest   \* the run that began last

vars == <<status, latest>>

Outcome == {"succeeded", "partial", "failed"}
RunStatus == {"none", "running"} \union Outcome

TypeOK ==
    /\ status \in [Runs -> RunStatus]
    /\ latest \in Runs \union {NoRun}

Init ==
    /\ status = [r \in Runs |-> "none"]
    /\ latest = NoRun

\* Run r begins; runs that were left behind may be written off with it.
Begin(r) ==
    /\ status[r] = "none"
    /\ \E abandoned \in SUBSET {q \in Runs : status[q] = "running"} :
          status' = [q \in Runs |-> IF q = r THEN "running"
                                    ELSE IF q \in abandoned THEN "failed"
                                    ELSE status[q]]
    /\ latest' = r

\* The worker of the latest run concludes it.
Conclude(r, outcome) ==
    /\ latest = r
    /\ status[r] = "running"
    /\ status' = [status EXCEPT ![r] = outcome]
    /\ UNCHANGED latest

Next == \E r \in Runs : Begin(r) \/ \E outcome \in Outcome : Conclude(r, outcome)

Spec == Init /\ [][Next]_vars
=============================================================================
