---------------------------- MODULE ApplicationAdvice ----------------------------
(***************************************************************************)
(* The advice and the order that a stored batch is displayed with          *)
(* (backend/app/ai_recommendations: advice.py, the verdict of career.py,   *)
(* and the ranks of evidence_rules.py prioritize_assessment).              *)
(*                                                                         *)
(* A job carries its requirements, related project activities and the      *)
(* model's career judgement.  What patterns find in the wording of a       *)
(* requirement is data: whether it is optional, mandatory, an entry route  *)
(* of zero years, or asks for an activity that a list of tools was cited   *)
(* for; basis stands for the profile field and passage cited.              *)
(***************************************************************************)
EXTENDS Integers, Sequences, FiniteSets

CONSTANT Batches \* sequences of jobs as described below

VARIABLES
    batch,  \* the jobs, with the ranks the model gave them
    shown   \* <<>>, or the display order: indices of the batch

adviceVars == <<batch, shown>>

Qualification == {"education", "work_constraint"}
Core == {"skill", "experience"}

(* A requirement: [category, outcome, optional \in {"no", "nearby", "yes"}, *)
(* mandatory, zero, tool, part, basis], where optional "nearby" is a word   *)
(* of a neighbouring clause and part says that one of its conditions is     *)
(* supported.  A job: [rows, activities, direction, proposed, timing, rank] *)
(* where activities are the rows that related projects were cited for and   *)
(* direction "none" is a record without a career judgement.                 *)

StatusOrder == [priority_apply |-> 0, consider |-> 1, check_first |-> 2, not_priority |-> 3]
VerdictOrder == [priority_apply |-> 0, consider |-> 1, not_priority |-> 2,
                 insufficient_information |-> 3]

Levels == {"supported", "gap", "unknown"}
AdviceRow(row) ==
    /\ row = [category |-> row.category, outcome |-> row.outcome, optional |-> row.optional,
              mandatory |-> row.mandatory, zero |-> row.zero, tool |-> row.tool,
              part |-> row.part, basis |-> row.basis]
    /\ row.outcome \in Levels /\ row.optional \in {"no", "nearby", "yes"}
    /\ {row.mandatory, row.zero, row.tool, row.part} \subseteq BOOLEAN
AdviceJob(job) ==
    /\ job = [rows |-> job.rows, activities |-> job.activities, direction |-> job.direction,
              proposed |-> job.proposed, timing |-> job.timing, rank |-> job.rank]
    /\ job.rows \in Seq({job.rows[i] : i \in DOMAIN job.rows})
    /\ \A i \in DOMAIN job.rows : AdviceRow(job.rows[i])
    /\ job.activities \subseteq DOMAIN job.rows
    /\ job.direction \in {"none", "direct", "adjacent", "low", "undetermined"}
    /\ job.proposed \in DOMAIN VerdictOrder
    /\ job.timing \in BOOLEAN /\ job.rank \in Nat

\* The model ranks the jobs of a batch 1..n (validate_assessment).
ASSUME AdviceBatches ==
    \A jobs \in Batches :
        /\ jobs \in Seq({jobs[k] : k \in DOMAIN jobs})
        /\ \A k \in DOMAIN jobs : AdviceJob(jobs[k])
        /\ {jobs[k].rank : k \in DOMAIN jobs} = DOMAIN jobs

AdviceInit == batch \in Batches /\ shown = <<>>

\* prioritize_assessment: an explicit conflict, or undergraduate dates that differ.
HardGap(row) == row.outcome = "gap" /\ row.category \in Qualification /\ row.optional = "no"
Concerned(job) == job.timing \/ \E i \in DOMAIN job.rows : HardGap(job.rows[i])

\* The indices of a batch, sorted by a relation between them.
SortedBy(jobs, earlier) ==
    CHOOSE p \in [DOMAIN jobs -> DOMAIN jobs] :
        \A k, l \in DOMAIN jobs : k < l => <<p[k], p[l]>> \in earlier

\* Jobs without a concern come first, each group in the model's order.
Foremost(a, b) ==
    \/ ~Concerned(a) /\ Concerned(b)
    \/ Concerned(a) = Concerned(b) /\ a.rank < b.rank
ByConcern(jobs) ==
    LET I == DOMAIN jobs
        p == SortedBy(jobs, {m \in I \X I : Foremost(jobs[m[1]], jobs[m[2]])})
    IN  [k \in I |-> jobs[p[k]]]

Ranked(jobs) ==
    LET sorted == ByConcern(jobs) IN [k \in DOMAIN jobs |-> [sorted[k] EXCEPT !.rank = k]]

\* _activity_scope_missing and _project: a list of tools does not establish an
\* activity, whatever the stored outcome.
ToolOnly(row) == row.category \in Core /\ row.outcome = "supported" /\ row.tool
Projected(row) == IF ToolOnly(row) THEN "unknown" ELSE row.outcome

Preferred(row) == row.optional = "yes"

Critical(row) ==
    /\ row.category \in Qualification \union Core
    /\ ~Preferred(row)
    /\ ~(row.category = "experience" /\ row.zero)

CriticalRows(job, outcome, categories) ==
    {i \in DOMAIN job.rows : LET row == job.rows[i]
                             IN  /\ Critical(row) /\ row.category \in categories
                                 /\ Projected(row) = outcome}

Gaps(job) == CriticalRows(job, "gap", Qualification \union Core)
Unconfirmed(job) == CriticalRows(job, "unknown", Qualification)
CoreUnknown(job) == CriticalRows(job, "unknown", Core)
MandatoryUnknown(job) == {i \in CoreUnknown(job) : job.rows[i].mandatory}

\* _core_supported: distinct passages, not requirements.
CoreSupported(job) ==
    Cardinality({job.rows[i].basis : i \in {i \in DOMAIN job.rows :
        LET row == job.rows[i]
        IN  /\ row.category \in Core /\ row.outcome = "supported"
            /\ ~Preferred(row) /\ ~ToolOnly(row) /\ ~row.zero}})

\* related_evidence: supported conditions of requirements that are not.
PartialRows(job) ==
    {i \in DOMAIN job.rows : LET row == job.rows[i]
                             IN  /\ Projected(row) # "supported" /\ row.part
                                 /\ row.category \in Core \union Qualification}

Relevant(job) ==
    \/ \E i \in PartialRows(job) \union job.activities : job.rows[i].category \in Core
    \/ \E i \in job.activities : job.rows[i].category = "responsibility"

\* derive_advice: the first condition that holds decides.
Status(job) ==
    CASE Gaps(job) # {} -> "not_priority"
      [] Gaps(job) = {} /\ Unconfirmed(job) \union MandatoryUnknown(job) # {} -> "check_first"
      [] OTHER -> IF CoreSupported(job) = 0 /\ ~Relevant(job) THEN "not_priority"
                  ELSE IF CoreSupported(job) >= 2 /\ CoreUnknown(job) = {} THEN "priority_apply"
                  ELSE "consider"

Related(job) ==
    \/ CoreSupported(job) > 0
    \/ job.activities # {}
    \/ \E i \in PartialRows(job) : job.rows[i].category \in Core

\* application_recommendation: the model's proposal, capped by the evidence.
Verdict(job) ==
    CASE job.direction = "none" -> "none"
      [] job.direction # "none" /\ (Gaps(job) # {} \/ job.direction = "low") -> "not_priority"
      [] OTHER ->
            IF job.direction = "undetermined" \/ ~Related(job) THEN "insufficient_information"
            ELSE IF /\ job.direction = "direct" /\ job.proposed = "priority_apply"
                    /\ CoreSupported(job) >= 2
                    /\ Unconfirmed(job) \union MandatoryUnknown(job) = {}
                 THEN "priority_apply"
                 ELSE "consider"

Strengths(job) ==
    {i \in DOMAIN job.rows : /\ Projected(job.rows[i]) = "supported"
                             /\ job.rows[i].category \in Core \union Qualification}
Blockers(job) == Gaps(job) \union Unconfirmed(job) \union CoreUnknown(job)

\* The sort key of advice_for_batch, compared from left to right.
DisplayKey(job) ==
    <<IF Verdict(job) = "none" THEN StatusOrder[Status(job)] ELSE VerdictOrder[Verdict(job)],
      IF job.timing THEN 1 ELSE 0, -CoreSupported(job), -Cardinality(Strengths(job)), job.rank>>

Before(k, l) == \E n \in DOMAIN k : k[n] < l[n] /\ \A m \in 1..(n - 1) : k[m] = l[m]

\* The batch is stored with its new ranks.
StoreRanks ==
    /\ \E k \in DOMAIN batch : batch[k] # Ranked(batch)[k]
    /\ shown = <<>>
    /\ batch' = Ranked(batch)
    /\ UNCHANGED shown

\* A page reads it; the advice is derived again on every read.
Display ==
    /\ batch = Ranked(batch)
    /\ shown = <<>>
    /\ shown' = SortedBy(batch, {m \in (DOMAIN batch) \X (DOMAIN batch) :
                                    Before(DisplayKey(batch[m[1]]), DisplayKey(batch[m[2]]))})
    /\ UNCHANGED batch

AdviceNext == StoreRanks \/ Display

AdviceSpec == AdviceInit /\ [][AdviceNext]_adviceVars
-------------------------------------------------------------------------------
(* Properties *)

BatchJobs == {batch[k] : k \in DOMAIN batch}

Worth == [priority_apply |-> 3, consider |-> 2, check_first |-> 1, not_priority |-> 0]

\* A job is worth prioritising only with two passages for its core and nothing
\* eligible applicants must still confirm; the advice and the verdict shown with
\* it never disagree about that, nor about a conflict.
PriorityIsEarned ==
    \A job \in BatchJobs :
       /\ "priority_apply" \in {Status(job), Verdict(job)} =>
             /\ Cardinality({job.rows[i].basis : i \in Strengths(job)}) >= 2
             /\ Status(job) \in {"priority_apply", "consider"}
             /\ \A i \in Blockers(job) : /\ job.rows[i].category \in Core
                                         /\ ~job.rows[i].mandatory
       /\ Gaps(job) # {} => Status(job) = "not_priority" /\ Verdict(job) \in {"not_priority", "none"}

\* An optional requirement never makes a job less worth an application, and
\* better evidence for a core requirement that counts never does.
EvidenceNeverHurts ==
    \A job \in BatchJobs : \A i \in DOMAIN job.rows :
       LET without == [job EXCEPT !.rows = [job.rows EXCEPT ![i].category = "other"]]
           better == [job EXCEPT !.rows = [job.rows EXCEPT ![i].outcome = "supported"]]
           row == job.rows[i]
       IN  /\ Preferred(row) /\ ~row.part /\ i \notin job.activities =>
                 Worth[Status(job)] >= Worth[Status(without)]
           /\ Critical(row) /\ row.category \in Core /\ ~row.zero /\ ~row.tool =>
                 Worth[Status(better)] >= Worth[Status(job)]

\* The display shows every job once, the ranks of a stored batch are 1..n with
\* the jobs of concern last, and no job is displayed before one that is worth
\* more by the verdict.
OrderRespectsAdvice ==
    /\ shown # <<>> =>
          /\ {shown[k] : k \in DOMAIN shown} = DOMAIN batch
          /\ \A k \in DOMAIN batch : batch[k].rank = k
          /\ \A k, l \in DOMAIN batch : k < l => ~(Concerned(batch[k]) /\ ~Concerned(batch[l]))
          /\ \A k, l \in DOMAIN shown :
                LET a == batch[shown[k]]  b == batch[shown[l]]
                IN  k < l /\ {a.direction, b.direction} \intersect {"none"} = {} =>
                       VerdictOrder[Verdict(a)] <= VerdictOrder[Verdict(b)]
===============================================================================
