------------------------------- MODULE ProfileProofs -------------------------------
(***************************************************************************)
(* Proofs about every part of ProfileMC: runs and assessments of the       *)
(* recommendations, review of an answer, advice and its order, matching by *)
(* rules, the store of postings, the extraction of facts from resumes and  *)
(* what forms are filled with of them, the mapping of forms, the answers   *)
(* to their questions and the drafts of a warm-up; and of what their       *)
(* composition promises.  They hold for any files, bytes, extractions,     *)
(* jobs, requests, profiles, sources, forms, plans and times.              *)
(***************************************************************************)
EXTENDS ProfileMC, FiniteSetTheorems, SequenceTheorems, TLAPS

(* Orders and loops *)

\* A finite set can be put in the order of a strict total relation on it.
LEMMA SortFact ==
    ASSUME NEW S, IsFiniteSet(S), NEW T,
           \A a \in S : <<a, a>> \notin T,
           \A a, b, c \in S : <<a, b>> \in T /\ <<b, c>> \in T => <<a, c>> \in T,
           \A a, b \in S : a = b \/ <<a, b>> \in T \/ <<b, a>> \in T
    PROVE  \E q \in [1..Cardinality(S) -> S] :
               \A i, k \in 1..Cardinality(S) : i < k => <<q[i], q[k]>> \in T
<1> DEFINE n == Cardinality(S)
           below(e) == {d \in S : d = e \/ <<d, e>> \in T}
           rank == [e \in S |-> Cardinality(below(e))]
           q == [k \in 1..n |-> CHOOSE e \in S : rank[e] = k]
<1>1. n \in Nat
  BY FS_CardinalityType
<1>2. ASSUME NEW e \in S PROVE IsFiniteSet(below(e)) /\ rank[e] \in 1..n
  <2>1. below(e) \in SUBSET S /\ e \in below(e)
    OBVIOUS
  <2> HIDE DEF below
  <2>2. IsFiniteSet(below(e)) /\ Cardinality(below(e)) <= n
    BY <2>1, FS_Subset
  <2>3. Cardinality(below(e)) \in Nat /\ Cardinality(below(e)) # 0
    BY <2>1, <2>2, FS_CardinalityType, FS_EmptySet
  <2>4. QED
    BY <1>1, <2>2, <2>3
<1>3. ASSUME NEW d \in S, NEW e \in S, <<d, e>> \in T
      PROVE  rank[d] < rank[e]
  <2>1. below(d) \in SUBSET below(e) /\ e \in below(e) /\ e \notin below(d)
    BY <1>3
  <2>2. IsFiniteSet(below(e)) /\ rank[d] \in Nat /\ rank[e] \in Nat
    BY <1>2
  <2>3. rank[d] = Cardinality(below(d)) /\ rank[e] = Cardinality(below(e))
    OBVIOUS
  <2> HIDE DEF below, rank
  <2>4. Cardinality(below(d)) <= Cardinality(below(e))
        /\ (Cardinality(below(e)) = Cardinality(below(d)) => below(e) = below(d))
    BY <2>1, <2>2, FS_Subset
  <2>5. QED
    BY <2>1, <2>2, <2>3, <2>4
<1>4. rank \in [S -> 1..n]
  BY <1>2
<1>5. \A d, e \in S : rank[d] = rank[e] => d = e
  <2> SUFFICES ASSUME NEW d \in S, NEW e \in S, d # e
               PROVE  rank[d] # rank[e]
    OBVIOUS
  <2>1. rank[d] \in Nat /\ rank[e] \in Nat
    BY <1>2
  <2>2. <<d, e>> \in T \/ <<e, d>> \in T
    OBVIOUS
  <2>3. rank[d] < rank[e] \/ rank[e] < rank[d]
    BY <1>3, <2>2
  <2> HIDE DEF rank
  <2>4. QED
    BY <2>1, <2>3
<1>6. IsFiniteSet(1..n) /\ Cardinality(1..n) = n
  BY <1>1, FS_Interval
<1> HIDE DEF rank, n, below
<1>7. rank \in Injection(S, 1..n)
  BY <1>4, <1>5 DEF Injection, IsInjective
<1>8. rank \in Surjection(S, 1..n)
  BY <1>6, <1>7, FS_Injection DEF n
<1>9. \A k \in 1..n : \E e \in S : rank[e] = k
  BY <1>8 DEF Surjection
<1>10. q \in [1..n -> S] /\ \A k \in 1..n : rank[q[k]] = k
  BY <1>9
<1> HIDE DEF q
<1>11. ASSUME NEW i \in 1..n, NEW k \in 1..n, i < k
       PROVE  <<q[i], q[k]>> \in T
  <2>1. q[i] \in S /\ q[k] \in S /\ rank[q[i]] = i /\ rank[q[k]] = k
    BY <1>10
  <2>2. i \in Nat /\ k \in Nat
    BY <1>1
  <2>3. q[i] # q[k] /\ ~(rank[q[k]] < rank[q[i]])
    BY <1>11, <2>1, <2>2
  <2>4. <<q[k], q[i]>> \notin T
    BY <1>3, <2>1, <2>3
  <2>5. QED
    BY <2>1, <2>3, <2>4
<1>12. q \in [1..n -> S] /\ \A i, k \in 1..n : i < k => <<q[i], q[k]>> \in T
  BY <1>10, <1>11
<1>13. QED
  BY <1>12 DEF n

\* Induction over the turns of a loop.
LEMMA Induct ==
    ASSUME NEW S \in SUBSET Nat, 0 \in S, \A n \in S : n + 1 \in S
    PROVE  S = Nat
<1> SUFFICES ASSUME NEW n \in Nat, n \notin S
             PROVE  FALSE
  OBVIOUS
<1> DEFINE f == [k \in 0..n |-> IF k \in S THEN k + 1 ELSE k]
<1>1. f \in [0..n -> 1..n]
  OBVIOUS
<1>2. \A x, y \in 0..n : f[x] = f[y] => x = y
  OBVIOUS
<1>3. IsFiniteSet(0..n) /\ Cardinality(0..n) = n + 1
  BY FS_Interval
<1>4. IsFiniteSet(1..n) /\ Cardinality(1..n) = n
  BY FS_Interval
<1> HIDE DEF f
<1>5. Cardinality(1..n) < Cardinality(0..n)
  BY <1>3, <1>4
<1>6. \E x, y \in 0..n : x # y /\ f[x] = f[y]
  BY <1>1, <1>3, <1>4, <1>5, FS_PigeonHole
<1>7. QED
  BY <1>2, <1>6
-------------------------------------------------------------------------------
(* The recommendations *)

(***************************************************************************)
(* The inductive invariant.  The fields of rows and requests (RunTyping);  *)
(* a request without a row is not charged, the row of a request compares   *)
(* what it drafted, and no two rows compare the same (RowInv); a call has  *)
(* run for no longer than its timeout (CallInv).                           *)
(***************************************************************************)
Texted == [text : Nat, revision : Nat]
ComparedJobs == UNION {[S -> Texted \union {Closed}] : S \in (SUBSET Jobs) \ {{}}}
Identities == {NoIdentity} \union [profile : Profiles \union {Unready}, jobs : ComparedJobs]
RunRows == [status : {"none", "running", "succeeded", "failed"}, identity : Identities,
            owned : BOOLEAN, started : Nat, expires : Nat]

RunTyping ==
    /\ now \in Nat
    /\ profile \in Profiles \union {Unready}
    /\ posting \in [Jobs -> Texted \union {Closed}]
    /\ \A j \in Jobs : posting[j] \in Postings[j]
    /\ run \in [Requests -> RunRows]
    /\ \A r \in Requests : /\ run[r].owned = (run[r].status = "running")
                           /\ run[r].expires \in {0, run[r].started + RunLease}
    /\ at \in [Requests -> Working \union {"idle", "done", "dead"}]
    /\ draft \in [Requests -> [identity : Identities, started : Nat]]
    /\ called \in [Requests -> Nat]
    /\ outcome \in [Requests -> [ok : BOOLEAN, noted : Nat]]
    /\ charged \subseteq Requests

OwnRow(r) ==
    /\ at[r] \in {"idle", "inserting"} => ~Committed(r)
    /\ at[r] \in {"calling", "writing"} => Committed(r)
    /\ r \in charged <=> Committed(r)
    /\ Committed(r) => /\ run[r].identity = draft[r].identity
                       /\ run[r].expires = draft[r].started + RunLease
                       /\ run[r].identity.profile # Unready
    /\ at[r] = "inserting" => draft[r].identity.profile # Unready

RowInv ==
    /\ \A r \in Requests : OwnRow(r)
    /\ \A q, r \in Rows : run[q].identity = run[r].identity => q = r

CallInv == \A r \in Requests : at[r] = "calling" => now <= called[r] + Timeout

RunInv == RunTyping /\ RowInv /\ CallInv
-------------------------------------------------------------------------------
(* Facts about the constants and the operators *)

\* A lease is longer than the longest call.
LEMMA LeaseFact == RunLease \in Nat /\ RunLease > Timeout
  BY RunTimes DEF RunLease

\* The jobs of a comparison are not the empty function.
LEMMA IdentityFact ==
    ASSUME NEW id \in Identities
    PROVE  id = NoIdentity \/ id.jobs # <<>>
<1>1. CASE id = NoIdentity
  BY <1>1
<1>2. CASE id # NoIdentity
  <2>1. PICK S \in (SUBSET Jobs) \ {{}} : id.jobs \in [S -> Texted \union {Closed}]
    BY <1>2 DEF Identities, ComparedJobs
  <2>2. DOMAIN id.jobs = S
    BY <2>1
  <2>3. DOMAIN <<>> = {}
    OBVIOUS
  <2>4. QED
    BY <2>1, <2>2, <2>3
<1>3. QED
  BY <1>1, <1>2

\* What a request compares is an identity, when it compares some open jobs.
LEMMA IdentityType ==
    ASSUME RunTyping, NEW S \in SUBSET Jobs, S # {}
    PROVE  Identity(S) \in Identities
<1>1. [j \in S |-> posting[j]] \in [S -> Texted \union {Closed}]
  BY DEF RunTyping
<1>2. S \in (SUBSET Jobs) \ {{}}
  OBVIOUS
<1>3. [j \in S |-> posting[j]] \in ComparedJobs
  BY <1>1, <1>2 DEF ComparedJobs
<1>4. QED
  BY <1>3 DEF Identity, Identities, RunTyping

\* Expiring a row ends a running one and touches nothing else.
LEMMA ExpireFact ==
    ASSUME RunTyping, NEW q \in Requests
    PROVE  /\ Expire(run, q) \in [Requests -> RunRows]
           /\ \A r \in Requests :
                 /\ Expire(run, q)[r].identity = run[r].identity
                 /\ Expire(run, q)[r].started = run[r].started
                 /\ Expire(run, q)[r].expires = run[r].expires
                 /\ (Expire(run, q)[r].status = "none") <=> (run[r].status = "none")
                 /\ Expire(run, q)[r].owned = (Expire(run, q)[r].status = "running")
                 /\ run[r].status \in {"succeeded", "failed"} => Expire(run, q)[r] = run[r]
<1> DEFINE ended == [run EXCEPT ![q].status = "failed", ![q].owned = FALSE]
<1>1. run \in [Requests -> RunRows]
  BY DEF RunTyping
<1>2. /\ ended \in [Requests -> RunRows]
      /\ \A r \in Requests \ {q} : ended[r] = run[r]
      /\ ended[q] = [run[q] EXCEPT !.status = "failed", !.owned = FALSE]
  BY <1>1 DEF RunRows
<1>3. CASE Expire(run, q) = run
  BY <1>3, <1>1 DEF RunTyping
<1>4. CASE Expire(run, q) = ended /\ run[q].status = "running"
  <2> HIDE DEF ended
  <2>1. /\ ended[q].status = "failed" /\ ended[q].owned = FALSE
        /\ ended[q].identity = run[q].identity /\ ended[q].started = run[q].started
        /\ ended[q].expires = run[q].expires
    BY <1>1, <1>2 DEF RunRows
  <2>2. run[q].status = "running" /\ \A r \in Requests : run[r].owned = (run[r].status = "running")
    BY <1>4 DEF RunTyping
  <2>3. \A r \in Requests :
           /\ ended[r].identity = run[r].identity
           /\ ended[r].started = run[r].started
           /\ ended[r].expires = run[r].expires
           /\ (ended[r].status = "none") <=> (run[r].status = "none")
           /\ ended[r].owned = (ended[r].status = "running")
           /\ run[r].status \in {"succeeded", "failed"} => ended[r] = run[r]
    BY <1>2, <2>1, <2>2
  <2>4. QED
    BY <1>2, <1>4, <2>3
<1>5. QED
  BY <1>3, <1>4 DEF Expire

\* An expired row keeps the types of its fields.
LEMMA ExpiredTyping ==
    ASSUME RunTyping, NEW q \in Requests, run' = Expire(run, q)
    PROVE  /\ run' \in [Requests -> RunRows]
           /\ \A r \in Requests : /\ run'[r].owned = (run'[r].status = "running")
                                  /\ run'[r].expires \in {0, run'[r].started + RunLease}
<1>1. \A r \in Requests : /\ run[r].owned = (run[r].status = "running")
                          /\ run[r].expires \in {0, run[r].started + RunLease}
  BY DEF RunTyping
<1>2. QED
  BY <1>1, ExpireFact

\* Rows that compare and expire as before keep their part of the invariant.
LEMMA SameRowsInv ==
    ASSUME RunInv, UNCHANGED <<draft, charged>>,
           \A r \in Requests :
              /\ run'[r].identity = run[r].identity /\ run'[r].expires = run[r].expires
              /\ (run'[r].status = "none") <=> (run[r].status = "none")
              /\ at'[r] # at[r] => at'[r] \in {"done", "dead"}
    PROVE  RowInv'
<1>1. \A r \in Requests : Committed(r)' <=> Committed(r)
  BY DEF Committed
<1>2. Rows' = Rows
  BY <1>1 DEF Rows
<1>3. \A r \in Requests : OwnRow(r)'
  BY <1>1 DEF RunInv, RowInv, OwnRow
<1>4. QED
  BY <1>2, <1>3 DEF RunInv, RowInv, Rows

-------------------------------------------------------------------------------
(* Every step preserves the invariant *)

\* The postings a board may have are texts, or closed.
LEMMA PostingFact == \A j \in Jobs : Postings[j] \subseteq Texted \union {Closed}
  BY RunNames DEF Texted

\* Before any request nothing is stored or charged.
LEMMA RunInitInv == RecommendationInit => RunInv
<1> SUFFICES ASSUME RecommendationInit PROVE RunInv
  OBVIOUS
<1> USE DEF RecommendationInit
<1>1. posting \in [Jobs -> Texted \union {Closed}] /\ \A j \in Jobs : posting[j] \in Postings[j]
  BY PostingFact
<1>2. NoIdentity \in Identities
  BY DEF Identities
<1>3. RunTyping
  BY <1>1, <1>2, LeaseFact DEF RunTyping, NoRow, NoOutcome, RunRows, Working
<1>4. RowInv /\ CallInv
  BY DEF RowInv, OwnRow, CallInv, NoRow, Committed, Rows
<1>5. QED
  BY <1>3, <1>4 DEF RunInv

\* A request reads, and reuses a row or goes on to insert one.
LEMMA RequestInv ==
    ASSUME RunInv, NEW r \in Requests, NEW S \in SUBSET Jobs, Request(r, S)
    PROVE  RunInv'
<1> USE DEF RunInv
<1>1. CASE SameIdentity(Identity(S)) # {}
  <2>1. PICK q \in SameIdentity(Identity(S)) : run' = Expire(run, q)
    BY <1>1 DEF Request, Reuse
  <2>2. q \in Requests
    BY <2>1 DEF SameIdentity, Rows
  <2>3. /\ at' = [at EXCEPT ![r] = "done"] /\ at[r] = "idle"
        /\ UNCHANGED <<now, profile, posting, called, outcome, charged, draft>>
    BY <1>1 DEF Request, Reuse, At
  <2>4. RunTyping'
    BY <2>1, <2>2, <2>3, ExpiredTyping DEF RunTyping, Working
  <2>5. RowInv'
    BY <2>1, <2>2, <2>3, ExpireFact, SameRowsInv DEF RunTyping
  <2>6. CallInv'
    BY <2>3 DEF CallInv, RunTyping
  <2>7. QED
    BY <2>4, <2>5, <2>6
<1>2. CASE SameIdentity(Identity(S)) = {}
  <2>1. /\ draft' = [draft EXCEPT ![r] = [identity |-> Identity(S), started |-> now]]
        /\ at' = [at EXCEPT ![r] = "inserting"] /\ at[r] = "idle"
        /\ UNCHANGED <<now, profile, posting, run, called, outcome, charged>>
    BY <1>2 DEF Request, At
  <2>2. Identity(S) \in Identities /\ Identity(S).profile # Unready
    BY IdentityType DEF Request, Identity
  <2>3. RunTyping'
    BY <2>1, <2>2 DEF RunTyping, Working
  <2>4. RowInv'
    BY <2>1, <2>2 DEF RowInv, OwnRow, RunTyping, Rows, Committed
  <2>5. CallInv'
    BY <2>1 DEF CallInv, RunTyping
  <2>6. QED
    BY <2>3, <2>4, <2>5
<1>3. QED
  BY <1>1, <1>2

\* The unique constraint lets in one row for one comparison, and the call begins.
LEMMA InsertInv ==
    ASSUME RunInv, NEW r \in Requests, Insert(r)
    PROVE  RunInv'
<1> USE DEF RunInv
<1>1. CASE SameIdentity(draft[r].identity) # {}
  <2>1. PICK q \in SameIdentity(draft[r].identity) : run' = Expire(run, q)
    BY <1>1 DEF Insert, Reuse
  <2>2. q \in Requests
    BY <2>1 DEF SameIdentity, Rows
  <2>3. /\ at' = [at EXCEPT ![r] = "done"] /\ at[r] = "inserting"
        /\ UNCHANGED <<now, profile, posting, called, outcome, charged, draft>>
    BY <1>1 DEF Insert, Reuse, At
  <2>4. RunTyping'
    BY <2>1, <2>2, <2>3, ExpiredTyping DEF RunTyping, Working
  <2>5. RowInv'
    BY <2>1, <2>2, <2>3, ExpireFact, SameRowsInv DEF RunTyping
  <2>6. CallInv'
    BY <2>3 DEF CallInv, RunTyping
  <2>7. QED
    BY <2>4, <2>5, <2>6
<1>2. CASE SameIdentity(draft[r].identity) = {}
  <2> DEFINE row == [status |-> "running", identity |-> draft[r].identity, owned |-> TRUE,
                     started |-> draft[r].started, expires |-> draft[r].started + RunLease]
  <2>1. /\ run' = [run EXCEPT ![r] = row]
        /\ at' = [at EXCEPT ![r] = "calling"] /\ at[r] = "inserting"
        /\ called' = [called EXCEPT ![r] = now]
        /\ charged' = charged \union {r}
        /\ UNCHANGED <<now, profile, posting, draft, outcome>>
    BY <1>2 DEF Insert, At
  <2>2. row \in RunRows
    BY LeaseFact DEF RunTyping, RunRows
  <2>3. RunTyping'
    BY <2>1, <2>2, LeaseFact DEF RunTyping, Working
  <2>4. \A q \in Rows : run[q].identity # draft[r].identity
    BY <1>2 DEF SameIdentity
  <2>5. RowInv'
    BY <2>1, <2>4 DEF RowInv, OwnRow, RunTyping, Rows, Committed
  <2>6. CallInv'
    BY <2>1, RunTimes DEF CallInv, RunTyping
  <2>7. QED
    BY <2>3, <2>5, <2>6
<1>3. QED
  BY <1>1, <1>2

\* A call ends, and its request goes on to store what it returned.
LEMMA CallEndsInv ==
    ASSUME RunInv, NEW r \in Requests, NEW ok \in BOOLEAN, CallEnds(r, ok)
    PROVE  RunInv'
<1> USE DEF RunInv, CallEnds, At
<1>1. RunTyping'
  BY DEF RunTyping, Working
<1>2. RowInv'
  BY DEF RowInv, OwnRow, RunTyping, Rows, Committed
<1>3. CallInv'
  BY DEF CallInv, RunTyping
<1>4. QED
  BY <1>1, <1>2, <1>3

\* The conditional UPDATE ends a running row or leaves it to be expired.
LEMMA FinishInv ==
    ASSUME RunInv, NEW r \in Requests, Finish(r)
    PROVE  RunInv'
<1> USE DEF RunInv
<1>1. /\ at' = [at EXCEPT ![r] = "done"] /\ at[r] = "writing"
      /\ called' = [called EXCEPT ![r] = 0]
      /\ outcome' = [outcome EXCEPT ![r] = NoOutcome]
      /\ UNCHANGED <<now, profile, posting, draft, charged>>
  BY DEF Finish, Quit, At
<1>2. /\ run' \in [Requests -> RunRows]
      /\ \A q \in Requests :
            /\ run'[q].identity = run[q].identity /\ run'[q].started = run[q].started
            /\ run'[q].expires = run[q].expires
            /\ (run'[q].status = "none") <=> (run[q].status = "none")
            /\ run'[q].owned = (run'[q].status = "running")
  <2>1. CASE run' = [run EXCEPT ![r].status = Result(r), ![r].owned = FALSE] /\ run[r].owned
    BY <2>1 DEF RunTyping, RunRows, Result
  <2>2. CASE run' = Expire(run, r)
    BY <2>2, ExpireFact
  <2>3. QED
    BY <2>1, <2>2 DEF Finish
<1>3. RunTyping'
  BY <1>1, <1>2 DEF RunTyping, Working, NoOutcome
<1>4. RowInv'
  BY <1>1, <1>2, SameRowsInv DEF RunTyping
<1>5. CallInv'
  BY <1>1 DEF CallInv, RunTyping
<1>6. QED
  BY <1>3, <1>4, <1>5

\* Deaths, polls, other users' changes and time.
LEMMA OtherInv ==
    ASSUME RunInv,
           \/ \E r \in Requests : Die(r) \/ ReadRun(r)
           \/ \E p \in Profiles \union {Unready} : EditProfile(p)
           \/ \E j \in Jobs : \E p \in Postings[j] : CollectPosting(j, p)
           \/ AdvanceClock
    PROVE  RunInv'
<1> USE DEF RunInv
<1>1. ASSUME NEW r \in Requests, Die(r) PROVE RunInv'
  BY <1>1 DEF Die, Quit, At, RunTyping, RowInv, OwnRow, CallInv, Rows, Committed, Working, NoOutcome
<1>2. ASSUME NEW q \in Requests, ReadRun(q) PROVE RunInv'
  <2>1. run' = Expire(run, q) /\ UNCHANGED <<now, profile, posting, at, draft, called, outcome, charged>>
    BY <1>2 DEF ReadRun
  <2>2. RunTyping' /\ CallInv'
    BY <2>1, ExpiredTyping DEF RunTyping, CallInv
  <2>3. RowInv'
    BY <2>1, ExpireFact, SameRowsInv DEF RunTyping
  <2>4. QED
    BY <2>2, <2>3
<1>3. ASSUME NEW p \in Profiles \union {Unready}, EditProfile(p) PROVE RunInv'
  BY <1>3 DEF EditProfile, RunTyping, RowInv, OwnRow, CallInv, Rows, Committed
<1>4. ASSUME NEW j \in Jobs, NEW p \in Postings[j], CollectPosting(j, p) PROVE RunInv'
  BY <1>4, PostingFact DEF CollectPosting, RunTyping, RowInv, OwnRow, CallInv, Rows, Committed
<1>5. ASSUME AdvanceClock PROVE RunInv'
  <2>1. RunTyping' /\ RowInv'
    BY <1>5 DEF AdvanceClock, RunTyping, RowInv, OwnRow, Rows, Committed
  <2>2. CallInv'
    BY <1>5, RunTimes DEF AdvanceClock, RunTyping, CallInv
  <2>3. QED
    BY <2>1, <2>2
<1>6. QED
  BY <1>1, <1>2, <1>3, <1>4, <1>5

\* Every step keeps the invariant.
LEMMA RunStepInv == RunInv /\ [RecommendationNext]_recommendationVars => RunInv'
<1> SUFFICES ASSUME RunInv, [RecommendationNext]_recommendationVars PROVE RunInv'
  OBVIOUS
<1>1. CASE UNCHANGED recommendationVars
  BY <1>1 DEF recommendationVars, RunInv, RunTyping, RowInv, OwnRow, CallInv, Rows, Committed
<1>2. ASSUME NEW r \in Requests, NEW S \in SUBSET Jobs, Request(r, S) PROVE RunInv'
  BY <1>2, RequestInv
<1>3. ASSUME NEW r \in Requests, RequestStep(r) PROVE RunInv'
  BY <1>3, InsertInv, CallEndsInv, FinishInv DEF RequestStep
<1>4. QED
  BY <1>1, <1>2, <1>3, OtherInv DEF RecommendationNext
-------------------------------------------------------------------------------
(* What follows from the invariant *)

\* The properties of states.
LEMMA RunInvImplies == RunInv => RecommendationTypes /\ PaidOnce /\ LeaseOutlivesCall
<1> SUFFICES ASSUME RunInv PROVE RecommendationTypes /\ PaidOnce /\ LeaseOutlivesCall
  OBVIOUS
<1> USE DEF RunInv
<1>1. RecommendationTypes
  BY IdentityFact DEF RecommendationTypes, RunTyping, RunRows
<1>2. PaidOnce
  BY DEF PaidOnce, RowInv, OwnRow, RunTyping, Rows
<1>3. LeaseOutlivesCall
  BY LeaseFact, RunTimes DEF LeaseOutlivesCall, RowInv, OwnRow, CallInv, RunTyping
<1>4. QED
  BY <1>1, <1>2, <1>3

\* What a step may not do to a finished run.
RunsStay ==
    \A r \in Requests :
        /\ Committed(r) => run'[r].identity = run[r].identity /\ run'[r].status # "none"
        /\ run[r].status \in {"succeeded", "failed"} => run'[r] = run[r]

\* A finished run is changed by no step: late answers, polls and repeated requests
\* end only what is running, and a row is inserted only where there was none.
LEMMA RunsStayStep == RunInv /\ RecommendationNext => RunsStay
<1> SUFFICES ASSUME RunInv, RecommendationNext PROVE RunsStay
  OBVIOUS
<1> USE DEF RunInv, RunsStay
<1>1. ASSUME NEW q \in Requests, run' = Expire(run, q) PROVE RunsStay
  BY <1>1, ExpireFact DEF RunTyping, Committed
<1>2. CASE UNCHANGED run
  BY <1>2 DEF Committed
<1>3. ASSUME NEW r \in Requests, NEW S \in SUBSET Jobs, Request(r, S) PROVE RunsStay
  BY <1>1, <1>2, <1>3 DEF Request, Reuse, SameIdentity, Rows
<1>4. ASSUME NEW r \in Requests, Insert(r) PROVE RunsStay
  <2>1. CASE SameIdentity(draft[r].identity) # {}
    BY <1>1, <1>4, <2>1 DEF Insert, Reuse, SameIdentity, Rows
  <2>2. CASE SameIdentity(draft[r].identity) = {}
    <3>1. ~Committed(r) /\ \A q \in Requests \ {r} : run'[q] = run[q]
      BY <1>4, <2>2 DEF Insert, RowInv, OwnRow, RunTyping
    <3>2. QED
      BY <3>1 DEF Committed
  <2>3. QED
    BY <2>1, <2>2
<1>5. ASSUME NEW r \in Requests, Finish(r) PROVE RunsStay
  <2>1. CASE run' = [run EXCEPT ![r].status = Result(r), ![r].owned = FALSE] /\ run[r].status = "running"
    BY <2>1 DEF RunTyping, RunRows, Result, Committed
  <2>2. CASE run' = Expire(run, r)
    BY <1>1, <2>2
  <2>3. QED
    BY <1>5, <2>1, <2>2 DEF Finish
<1>6. ASSUME NEW r \in Requests, ReadRun(r) PROVE RunsStay
  BY <1>1, <1>6 DEF ReadRun
<1>7. QED
  BY <1>2, <1>3, <1>4, <1>5, <1>6
     DEF RecommendationNext, RequestStep, CallEnds, Die, EditProfile, CollectPosting, AdvanceClock

\* A comparison is paid for once, within its lease, and the columns keep their
\* types, for any number of requests and any times.
THEOREM ComparisonsPaidOnce ==
    RecommendationSpec => [](RecommendationTypes /\ PaidOnce /\ LeaseOutlivesCall)
<1>1. RecommendationSpec => []RunInv
  BY RunInitInv, RunStepInv, PTL DEF RecommendationSpec
<1>2. QED
  BY <1>1, RunInvImplies, PTL

\* What was finished stays, whatever is late.
THEOREM FinishedRunsStayHolds == RecommendationSpec => FinishedRunsStay
<1>1. RunInv /\ [RecommendationNext]_recommendationVars => [RunsStay]_recommendationVars
  BY RunsStayStep
<1>2. RecommendationSpec => [][RunsStay]_recommendationVars
  BY <1>1, RunInitInv, RunStepInv, PTL DEF RecommendationSpec
<1>3. QED
  BY <1>2 DEF FinishedRunsStay, RunsStay
-------------------------------------------------------------------------------
(* What job_assessment says *)

\* The runs that are read are rows.
LEMMA ScannedFact == RunInv => Scanned \in Seq(Rows)
<1> SUFFICES ASSUME RunInv PROVE Scanned \in Seq(Rows)
  OBVIOUS
<1> DEFINE T == {m \in Rows \X Rows : LaterFirst(m[1], m[2])}
           n == Cardinality(Rows)
           all == CHOOSE q \in [1..n -> Rows] : \A i, k \in DOMAIN q : i < k => LaterFirst(q[i], q[k])
           most == IF n < History THEN n ELSE History
<1>1. \A r \in Rows : r \in Nat /\ run[r].started \in Nat
  BY RunNames DEF Rows, RunInv, RunTyping, RunRows
<1>2. IsFiniteSet(Rows)
  BY RunNames, FS_Subset DEF Rows
<1>3. \A a, b \in Rows : <<a, b>> \in T <=> LaterFirst(a, b)
  OBVIOUS
<1> HIDE DEF T
<1>4. \A a \in Rows : <<a, a>> \notin T
  BY <1>1, <1>3 DEF LaterFirst
<1>5. \A a, b, c \in Rows : <<a, b>> \in T /\ <<b, c>> \in T => <<a, c>> \in T
  <2> SUFFICES ASSUME NEW a \in Rows, NEW b \in Rows, NEW c \in Rows,
                      LaterFirst(a, b), LaterFirst(b, c)
               PROVE  LaterFirst(a, c)
    BY <1>3
  <2>1. QED
    BY <1>1 DEF LaterFirst
<1>6. \A a, b \in Rows : a = b \/ <<a, b>> \in T \/ <<b, a>> \in T
  <2> SUFFICES ASSUME NEW a \in Rows, NEW b \in Rows, a # b
               PROVE  LaterFirst(a, b) \/ LaterFirst(b, a)
    BY <1>3
  <2>1. QED
    BY <1>1 DEF LaterFirst
<1>7. \E q \in [1..n -> Rows] : \A i, k \in DOMAIN q : i < k => LaterFirst(q[i], q[k])
  <2>1. PICK q \in [1..n -> Rows] : \A i, k \in 1..n : i < k => <<q[i], q[k]>> \in T
    BY <1>2, <1>4, <1>5, <1>6, SortFact
  <2>2. \A i, k \in DOMAIN q : i < k => LaterFirst(q[i], q[k])
    BY <1>3, <2>1
  <2>3. QED
    BY <2>2
<1>8. all \in [1..n -> Rows]
  BY <1>7
<1>9. n \in Nat /\ most \in Nat /\ most <= n
  BY <1>2, FS_CardinalityType, RunNames
<1>10. Scanned = SubSeq(all, 1, most)
  BY DEF Scanned
<1> HIDE DEF all, n, most
<1>11. all \in Seq(Rows) /\ Len(all) = n
  BY <1>8, <1>9
<1>12. SubSeq(all, 1, most) \in Seq(Rows)
  BY <1>9, <1>11, SubSeqProperties
<1>13. QED
  BY <1>10, <1>12

\* The report of each turn of the loop.
Turns(j, s, f) ==
    f = [n \in 0..Len(s) |-> IF n = 0 THEN [status |-> "not_analyzed", source |-> 0]
                             ELSE Visit(j, f[n - 1], s[n])]

LEMMA LoopFact ==
    ASSUME NEW j, NEW s, Len(s) \in Nat
    PROVE  \E f : Turns(j, s, f)
<1> DEFINE none == [status |-> "not_analyzed", source |-> 0]
           Until(N, f) == f = [n \in 0..N |-> IF n = 0 THEN none ELSE Visit(j, f[n - 1], s[n])]
           S == {N \in Nat : \E f : Until(N, f)}
<1>1. 0 \in S
  <2> DEFINE f == [n \in 0..0 |-> none]
  <2>1. Until(0, f)
    OBVIOUS
  <2>2. QED
    BY <2>1
<1>2. ASSUME NEW N \in S PROVE N + 1 \in S
  <2>1. PICK f : Until(N, f)
    OBVIOUS
  <2> DEFINE g == [n \in 0..(N + 1) |-> IF n = N + 1 THEN Visit(j, f[N], s[N + 1]) ELSE f[n]]
  <2>2. N \in Nat /\ \A n \in 0..N : f[n] = IF n = 0 THEN none ELSE Visit(j, f[n - 1], s[n])
    BY <2>1
  <2>3. \A n \in 0..N : g[n] = f[n]
    BY <2>2
  <2>4. ASSUME NEW n \in 0..(N + 1)
        PROVE  g[n] = IF n = 0 THEN none ELSE Visit(j, g[n - 1], s[n])
    <3>1. CASE n = N + 1
      <4>1. g[n] = Visit(j, f[N], s[N + 1]) /\ N \in 0..N /\ n # 0 /\ n - 1 = N
        BY <2>2, <3>1
      <4>2. g[N] = f[N]
        BY <2>3, <4>1
      <4> HIDE DEF g
      <4>3. QED
        BY <3>1, <4>1, <4>2
    <3>2. CASE n # N + 1
      <4>1. n \in 0..N
        BY <2>2, <3>2
      <4>2. g[n] = f[n] /\ (n # 0 => n - 1 \in 0..N /\ g[n - 1] = f[n - 1])
        BY <2>2, <2>3, <4>1
      <4> HIDE DEF g
      <4>3. QED
        BY <2>2, <4>1, <4>2
    <3>3. QED
      BY <3>1, <3>2
  <2>5. Until(N + 1, g)
    <3>1. g = [n \in 0..(N + 1) |-> g[n]]
      OBVIOUS
    <3> HIDE DEF g
    <3>2. QED
      BY <2>4, <3>1
  <2> HIDE DEF Until
  <2>6. QED
    BY <2>2, <2>5
<1> HIDE DEF Until
<1>3. S = Nat
  <2>1. S \in SUBSET Nat
    OBVIOUS
  <2> HIDE DEF S
  <2>2. QED
    BY <1>1, <1>2, <2>1, Induct
<1>4. PICK f : Until(Len(s), f)
  BY <1>3
<1>5. QED
  BY <1>4 DEF Turns, Until

\* The runs so far that are a finished run of the current input.
Finished(j, s, n) ==
    {r \in {s[i] : i \in 1..n} :
        run[r].status = "succeeded" /\ SavedAsNow(r, j) /\ run[r].identity.profile = profile}

\* What is kept between two turns.
Said(j, s, n, report) ==
    /\ report.status \in {"not_analyzed", "outdated", "running", "failed", "available"}
    /\ report.status = "available" <=> Finished(j, s, n) # {}
    /\ report.status = "available" => report.source \in Finished(j, s, n)
    /\ report.status = "running" => /\ report.source \in Rows
                                    /\ run[report.source].status = "running"
                                    /\ now < run[report.source].expires

LEMMA TurnKeeps ==
    ASSUME RunInv, NEW j \in Jobs, NEW s \in Seq(Rows), NEW n \in 0..(Len(s) - 1), NEW report,
           Said(j, s, n, report)
    PROVE  Said(j, s, n + 1, Visit(j, report, s[n + 1]))
<1> DEFINE r == s[n + 1]
           new == Visit(j, report, r)
           good == run[r].status = "succeeded" /\ SavedAsNow(r, j) /\ run[r].identity.profile = profile
<1>1. n \in Nat /\ n + 1 \in 1..Len(s) /\ r \in Rows
  BY LenProperties, ElementOfSeq
<1>2. 1..(n + 1) = 1..n \union {n + 1}
  BY <1>1
<1>3. {s[i] : i \in 1..(n + 1)} = {s[i] : i \in 1..n} \union {r}
  BY <1>2
<1> HIDE DEF r
<1>4. Finished(j, s, n + 1) = Finished(j, s, n) \union (IF good THEN {r} ELSE {})
  BY <1>3 DEF Finished
<1>5. r \in Requests /\ run[r].status \in {"running", "succeeded", "failed"}
      /\ now \in Nat /\ run[r].expires \in Nat
  BY <1>1 DEF Rows, Committed, RunInv, RunTyping, RunRows
<1>6. good => j \in DOMAIN run[r].identity.jobs
  BY DEF SavedAsNow
<1> HIDE DEF good
<1>7. CASE report.status = "available"
  <2>1. new = report
    BY <1>7 DEF Visit
  <2>2. Said(j, s, n + 1, report)
    BY <1>4, <1>7 DEF Said
  <2>3. QED
    BY <2>1, <2>2 DEF r
<1>8. CASE report.status # "available" /\ j \notin DOMAIN run[r].identity.jobs
  <2>1. new = report /\ ~good
    BY <1>6, <1>8 DEF Visit
  <2>2. Said(j, s, n + 1, report)
    BY <1>4, <2>1 DEF Said
  <2>3. QED
    BY <2>1, <2>2 DEF r
<1>9. CASE /\ report.status # "available" /\ j \in DOMAIN run[r].identity.jobs
           /\ ~SavedAsNow(r, j) \/ run[r].identity.profile # profile
  <2>1. ~good
    BY <1>9 DEF good
  <2>2. Finished(j, s, n + 1) = Finished(j, s, n) /\ Finished(j, s, n) = {}
    BY <1>4, <1>9, <2>1 DEF Said
  <2>3. new = IF report.status = "not_analyzed" THEN [status |-> "outdated", source |-> 0] ELSE report
    BY <1>9 DEF Visit
  <2>4. Said(j, s, n + 1, new)
    <3>1. CASE report.status = "not_analyzed"
      <4>1. new.status = "outdated"
        BY <2>3, <3>1
      <4> HIDE DEF new
      <4>2. QED
        BY <2>2, <4>1 DEF Said
    <3>2. CASE report.status # "not_analyzed"
      <4>1. new = report
        BY <2>3, <3>2
      <4> HIDE DEF new
      <4>2. QED
        BY <2>2, <4>1 DEF Said
    <3>3. QED
      BY <3>1, <3>2
  <2>5. QED
    BY <2>4 DEF r
<1>10. CASE /\ report.status # "available" /\ j \in DOMAIN run[r].identity.jobs
            /\ SavedAsNow(r, j) /\ run[r].identity.profile = profile
  <2>1. CASE run[r].status = "succeeded"
    <3>1. new = [status |-> "available", source |-> r]
      BY <1>10, <2>1 DEF Visit
    <3>2. r \in Finished(j, s, n + 1)
      BY <1>4, <1>10, <2>1 DEF good
    <3>3. Said(j, s, n + 1, new)
      BY <3>1, <3>2 DEF Said
    <3>4. QED
      BY <3>3 DEF r
  <2>2. CASE run[r].status # "succeeded" /\ report.status \in {"not_analyzed", "outdated"}
    <3>1. new = [status |-> Fallback(r), source |-> r]
      BY <1>10, <2>2 DEF Visit
    <3>2. Finished(j, s, n + 1) = {}
      BY <1>4, <1>10, <2>2 DEF Said, good
    <3>3. Fallback(r) \in {"running", "failed"}
          /\ (Fallback(r) = "running" => run[r].status = "running" /\ now < run[r].expires)
      BY <1>5 DEF Fallback
    <3>4. Said(j, s, n + 1, new)
      BY <1>1, <3>1, <3>2, <3>3 DEF Said
    <3>5. QED
      BY <3>4 DEF r
  <2>3. CASE run[r].status # "succeeded" /\ report.status \notin {"not_analyzed", "outdated"}
    <3>1. new = report
      BY <1>10, <2>3 DEF Visit
    <3>2. Finished(j, s, n + 1) = Finished(j, s, n)
      BY <1>4, <2>3 DEF good
    <3>3. Said(j, s, n + 1, report)
      BY <3>2 DEF Said
    <3>4. QED
      BY <3>1, <3>3 DEF r
  <2>4. QED
    BY <2>1, <2>2, <2>3
<1>11. QED
  BY <1>7, <1>8, <1>9, <1>10

LEMMA AssessmentFact ==
    ASSUME RunInv, NEW j \in Jobs, posting[j] # Closed, profile # Unready
    PROVE  Said(j, Scanned, Len(Scanned), Assessment(j))
<1> DEFINE s == Scanned
           none == [status |-> "not_analyzed", source |-> 0]
           f == CHOOSE f : Turns(j, s, f)
<1>1. s \in Seq(Rows) /\ Len(s) \in Nat
  BY ScannedFact, LenProperties
<1>2. Assessment(j) = f[Len(s)]
  BY DEF Assessment, Turns
<1>3. Turns(j, s, f)
  BY <1>1, LoopFact
<1> HIDE DEF f, s
<1>4. f[0] = none /\ \A n \in 1..Len(s) : f[n] = Visit(j, f[n - 1], s[n])
  BY <1>1, <1>3 DEF Turns
<1> DEFINE S == {n \in Nat : n <= Len(s) => Said(j, s, n, f[n])}
<1>5. 0 \in S
  <2>1. Finished(j, s, 0) = {}
    BY DEF Finished
  <2>2. f[0].status = "not_analyzed"
    BY <1>4
  <2>3. Said(j, s, 0, f[0])
    BY <2>1, <2>2 DEF Said
  <2>4. QED
    BY <2>3
<1>6. ASSUME NEW n \in S PROVE n + 1 \in S
  <2> SUFFICES ASSUME n + 1 <= Len(s) PROVE Said(j, s, n + 1, f[n + 1])
    OBVIOUS
  <2>1. n \in Nat /\ n \in 0..(Len(s) - 1) /\ n + 1 \in 1..Len(s) /\ (n + 1) - 1 = n
    BY <1>1
  <2>2. Said(j, s, n, f[n])
    BY <1>1, <2>1
  <2>3. f[n + 1] = Visit(j, f[n], s[n + 1])
    BY <1>4, <2>1
  <2>4. QED
    BY <1>1, <2>1, <2>2, <2>3, TurnKeeps
<1>7. S = Nat
  <2>1. S \in SUBSET Nat
    OBVIOUS
  <2> HIDE DEF S
  <2>2. QED
    BY <1>5, <1>6, <2>1, Induct
<1>8. Said(j, s, Len(s), f[Len(s)])
  BY <1>1, <1>7
<1>9. QED
  BY <1>2, <1>8 DEF s

LEMMA RunsAgree == RunInv => AssessmentsAgree
<1> SUFFICES ASSUME RunInv, NEW j \in Jobs
             PROVE  LET scanned == {Scanned[i] : i \in 1..Len(Scanned)}
                        good == {r \in scanned : /\ run[r].status = "succeeded" /\ SavedAsNow(r, j)
                                                 /\ run[r].identity.profile = profile}
                        a == Assessment(j)
                    IN  /\ posting[j] # Closed /\ profile # Unready =>
                              (a.status = "available" <=> good # {})
                        /\ a.status = "available" => a.source \in good
                        /\ a.status = "running" => run[a.source].owned /\ now < run[a.source].expires
                        /\ \A r \in scanned :
                              /\ RunIsCurrent(r) /\ run[r].status = "succeeded"
                              /\ j \in DOMAIN run[r].identity.jobs
                              => a.status = "available"
  BY DEF AssessmentsAgree
<1> DEFINE n == Len(Scanned)
           scanned == {Scanned[i] : i \in 1..n}
           a == Assessment(j)
<1>1. Scanned \in Seq(Rows) /\ n \in Nat
  BY ScannedFact, LenProperties
<1>2. \A r \in scanned : r \in Rows
  BY <1>1, ElementOfSeq
<1>3. \A r \in Rows : run[r].owned = (run[r].status = "running") /\ run[r].identity.profile # Unready
  BY DEF RunInv, RunTyping, RowInv, OwnRow, Rows
<1>4. CASE posting[j] = Closed \/ profile = Unready
  <2>1. a.status = "unavailable"
    BY <1>4 DEF Assessment
  <2>2. ASSUME NEW r \in scanned, RunIsCurrent(r), j \in DOMAIN run[r].identity.jobs
        PROVE  FALSE
    <3>1. run[r].identity.profile = profile /\ SavedAsNow(r, j)
      BY <2>2 DEF RunIsCurrent
    <3>2. run[r].identity.profile # Unready
      BY <1>2, <1>3
    <3>3. QED
      BY <1>4, <3>1, <3>2 DEF SavedAsNow
  <2> HIDE DEF a, scanned
  <2>3. QED
    BY <1>4, <2>1, <2>2 DEF a, scanned
<1>5. CASE posting[j] # Closed /\ profile # Unready
  <2>1. Said(j, Scanned, n, a)
    BY <1>5, AssessmentFact
  <2> DEFINE good == Finished(j, Scanned, n)
  <2>2. good = {r \in scanned : /\ run[r].status = "succeeded" /\ SavedAsNow(r, j)
                                /\ run[r].identity.profile = profile}
    BY DEF Finished
  <2>3. ASSUME NEW r \in scanned, RunIsCurrent(r), run[r].status = "succeeded",
               j \in DOMAIN run[r].identity.jobs
        PROVE  r \in good
    BY <2>2, <2>3 DEF RunIsCurrent
  <2> HIDE DEF a, scanned, good, n
  <2>4. /\ a.status = "available" <=> good # {}
        /\ a.status = "available" => a.source \in good
        /\ a.status = "running" => run[a.source].owned /\ now < run[a.source].expires
    BY <1>3, <2>1 DEF Said, good
  <2>5. QED
    BY <1>5, <2>2, <2>3, <2>4 DEF a, scanned, n
<1>6. QED
  BY <1>4, <1>5

\* The assessment of a job and the batch it comes from tell one story, for any
\* number of requests, histories, edits and lease times.
THEOREM AssessmentsAgreeHolds == RecommendationSpec => []AssessmentsAgree
<1>1. RecommendationSpec => []RunInv
  BY RunInitInv, RunStepInv, PTL DEF RecommendationSpec
<1>2. QED
  BY <1>1, RunsAgree, PTL
-------------------------------------------------------------------------------
(* The extractions *)

(***************************************************************************)
(* The inductive invariant of ResumeFacts.  The fields of rows and         *)
(* extractions (FileTyping); the lock is held from lookup to claim, and a  *)
(* file is called for and stored by one extraction (TargetInv); a          *)
(* reservation has its extraction (ReservedInv); bytes that were paid for  *)
(* have an outcome at one of their entries, unless one was deleted, and    *)
(* are not claimed again (PaidInv); a copy that nobody marked stale is     *)
(* what the columns say (CopiesAreFresh).                                  *)
(***************************************************************************)
FileShape == [content : Contents \union {NoContent, Deleted},
              cache : {"none", "running", "ready", "failed"}, reviewed : BOOLEAN]
CopyShape == [details : Details, reviewed : BOOLEAN, ok : BOOLEAN]

FileTyping ==
    /\ file \in [Files -> FileShape]
    /\ \A f \in Files : file[f].content \notin Contents =>
          file[f].cache = "none" /\ file[f].reviewed = FALSE
    /\ details \in Details
    /\ doing \in [Extractions -> {"idle", "claiming", "calling", "storing", "done", "dead"}]
    /\ target \in [Extractions -> [file : Files \union {Nobody},
                                   content : Contents \union {NoContent}]]
    /\ copy \in [Extractions -> CopyShape]
    /\ edit \in [open : BOOLEAN, read : Details, change : Changes]
    /\ stale \subseteq Readers
    /\ paid \subseteq Extractions \X Contents
    /\ dropped \subseteq Contents

Underway == {"calling", "storing"}

OwnTarget(x) ==
    /\ (holder = x) <=> (doing[x] = "claiming")
    /\ doing[x] \in Underway \union {"claiming"} =>
          /\ target[x].file \in Files /\ target[x].content \in Contents
          /\ file[target[x].file].content \in {target[x].content, Deleted}
    /\ doing[x] \in Underway /\ target[x].file \in Present => file[target[x].file].cache # "none"

TargetInv ==
    /\ \A x \in Extractions : OwnTarget(x)
    /\ \A x, y \in Extractions :
          /\ doing[x] \in Underway /\ doing[y] \in Underway
          /\ target[x].file \in Present /\ target[x].file = target[y].file
          => x = y

ReservedInv ==
    \A f \in Files : file[f].cache = "running" =>
        \E x \in Extractions : target[x].file = f /\ doing[x] \in Underway \union {"dead"}

Kept(c) == c \in dropped \/ \E g \in Files : file[g].content = c /\ file[g].cache # "none"
PaidInv ==
    /\ \A a \in paid : Kept(a[2])
    /\ \A x \in Extractions : doing[x] = "claiming" =>
          \A a \in paid : a[2] = target[x].content => a[2] \in dropped

CopyIsFresh(x) ==
    doing[x] = "storing" /\ x \notin stale /\ target[x].file \in Present =>
        /\ copy[x].details = details
        /\ copy[x].reviewed = file[target[x].file].reviewed
CopiesAreFresh ==
    /\ edit.open /\ Editor \notin stale => edit.read = details
    /\ \A x \in Extractions : CopyIsFresh(x)

ResumeInv ==
    FileTyping /\ TargetInv /\ ReservedInv /\ PaidInv /\ OneCallPerContent /\ CopiesAreFresh
-------------------------------------------------------------------------------
(* Facts about the operators *)

\* The present entries are those with bytes.
LEMMA PresentFact == \A f : f \in Present <=> f \in Files /\ file[f].content \in Contents
  BY DEF Present

\* The best outcome of the same bytes is none only if no copy has any.
LEMMA CachedFact ==
    ASSUME FileTyping, NEW f \in Files
    PROVE  /\ Cached(f) \in {"reviewed", "ready", "running", "failed", "none"}
           /\ Cached(f) \notin {"reviewed", "ready", "running", "failed"} =>
                 \A g \in Files : file[g].content = file[f].content => file[g].cache = "none"
<1> DEFINE copies == Copies(file[f].content)
           outcomes == {file[g].cache : g \in copies}
<1>1. \A g \in copies : g \in Files /\ file[g].cache \in {"none", "running", "ready", "failed"}
  BY DEF Copies, FileTyping, FileShape
<1>2. Cached(f) = IF \E g \in copies : file[g].reviewed THEN "reviewed"
                  ELSE IF "ready" \in outcomes THEN "ready"
                  ELSE IF "running" \in outcomes THEN "running"
                  ELSE IF "failed" \in outcomes THEN "failed" ELSE "none"
  BY DEF Cached
<1>3. \A g \in Files : file[g].content = file[f].content => g \in copies
  BY DEF Copies
<1> HIDE DEF copies
<1>4. QED
  BY <1>1, <1>2, <1>3

\* An edit gives details, and takes back nothing that was typed.
LEMMA ChangedFact ==
    ASSUME NEW d \in Details, NEW change \in Changes
    PROVE  Changed(d, change) \in Details /\ d.typed \subseteq Changed(d, change).typed
<1>1. CASE change \in [select : Files \union {Nobody}]
  BY <1>1 DEF Changed, Details
<1>2. CASE change \in [type : Keys]
  BY <1>2 DEF Changed, Details
<1>3. QED
  BY <1>1, <1>2 DEF Changes

\* Nothing is stored, reserved or paid for in the beginning.
LEMMA ResumeInitInv == ResumeInit => ResumeInv
<1> SUFFICES ASSUME ResumeInit PROVE ResumeInv
  OBVIOUS
<1> USE DEF ResumeInit
<1>1. NoDetails \in Details /\ NoFile \in FileShape
  BY DEF NoDetails, Details, NoFile, FileShape
<1>2. NoCopy \in CopyShape /\ NoEdit \in [open : BOOLEAN, read : Details, change : Changes]
  BY <1>1 DEF NoCopy, CopyShape, NoEdit, Changes
<1>3. FileTyping
  BY <1>1, <1>2 DEF FileTyping, NoTarget, NoFile
<1>4. TargetInv /\ ReservedInv /\ PaidInv /\ OneCallPerContent /\ CopiesAreFresh
  BY ResumeNames DEF TargetInv, OwnTarget, Underway, ReservedInv, PaidInv, OneCallPerContent,
     CopiesAreFresh, CopyIsFresh, NoFile, NoEdit
<1>5. QED
  BY <1>3, <1>4 DEF ResumeInv
-------------------------------------------------------------------------------
(* Every step preserves the invariant *)

\* New bytes come without an outcome to an entry that no extraction has.
LEMMA UploadInv ==
    ASSUME ResumeInv, NEW f \in Files, NEW c \in Contents, Upload(f, c)
    PROVE  ResumeInv'
<1> USE DEF ResumeInv
<1>1. /\ file[f].content = NoContent /\ file[f].cache = "none"
      /\ UNCHANGED <<details, holder, doing, target, copy, edit, stale, paid, dropped>>
  BY ResumeNames DEF Upload, FileTyping
<1>2. /\ file' \in [Files -> FileShape]
      /\ file'[f] = [NoFile EXCEPT !.content = c] /\ \A g \in Files \ {f} : file'[g] = file[g]
  BY DEF Upload, FileTyping, NoFile, FileShape
<1>3. file'[f].content = c /\ file'[f].cache = "none" /\ file'[f].reviewed = FALSE
  BY <1>2 DEF NoFile
<1>4. \A x \in Extractions : doing[x] \in Underway \union {"claiming"} => target[x].file # f
  BY <1>1, ResumeNames DEF TargetInv, OwnTarget
<1>5. FileTyping'
  BY <1>1, <1>2, <1>3 DEF FileTyping, Readers
<1>6. TargetInv'
  BY <1>1, <1>2, <1>4 DEF TargetInv, OwnTarget, Present
<1>7. ReservedInv'
  BY <1>1, <1>2, <1>3 DEF ReservedInv
<1>8. PaidInv'
  BY <1>1, <1>2, <1>3 DEF PaidInv, Kept
<1>9. OneCallPerContent' /\ CopiesAreFresh'
  BY <1>1, <1>2, <1>4 DEF OneCallPerContent, CopiesAreFresh, CopyIsFresh, Present, Underway
<1>10. QED
  BY <1>5, <1>6, <1>7, <1>8, <1>9

\* A deleted entry is remembered if it had an outcome.
LEMMA DeleteInv ==
    ASSUME ResumeInv, NEW f \in Files, DeleteFile(f)
    PROVE  ResumeInv'
<1> USE DEF ResumeInv
<1>1. /\ file[f].content \in Contents
      /\ dropped' = IF file[f].cache # "none" THEN dropped \union {file[f].content} ELSE dropped
      /\ UNCHANGED <<details, holder, doing, target, copy, edit, stale, paid>>
  BY DEF DeleteFile, Present
<1>2. /\ file' \in [Files -> FileShape]
      /\ file'[f] = [NoFile EXCEPT !.content = Deleted] /\ \A g \in Files \ {f} : file'[g] = file[g]
  BY DEF DeleteFile, FileTyping, NoFile, FileShape
<1>3. file'[f].content = Deleted /\ file'[f].cache = "none" /\ file'[f].reviewed = FALSE
  BY <1>2 DEF NoFile
<1>4. dropped \subseteq dropped'
  BY <1>1
<1>5. FileTyping'
  BY <1>1, <1>2, <1>3 DEF FileTyping, Readers
<1>6. TargetInv'
  <2>1. \A g : g \in Present' <=> g \in Present \ {f}
    BY <1>2, <1>3, ResumeNames DEF Present
  <2>2. \A x \in Extractions : OwnTarget(x)'
    BY <1>1, <1>2, <1>3, <2>1 DEF TargetInv, OwnTarget
  <2>3. QED
    BY <1>1, <2>1, <2>2 DEF TargetInv
<1>7. ReservedInv'
  <2>1. \A g \in Files : file'[g].cache = "running" => file[g].cache = "running"
    BY <1>2, <1>3
  <2>2. QED
    BY <1>1, <2>1 DEF ReservedInv
<1>8. \A c : Kept(c) => Kept(c)'
  BY <1>1, <1>2, <1>3, <1>4 DEF Kept
<1>9. PaidInv'
  BY <1>1, <1>4, <1>8 DEF PaidInv
<1>10. OneCallPerContent'
  BY <1>1, <1>4 DEF OneCallPerContent
<1>11. CopiesAreFresh'
  <2>1. \A x \in Extractions : CopyIsFresh(x)'
    BY <1>1, <1>2, <1>3, ResumeNames, ZenonT(60) DEF CopiesAreFresh, CopyIsFresh, Present
  <2>2. QED
    BY <1>1, <1>2, <1>3, <2>1, ResumeNames DEF CopiesAreFresh, Present
<1>12. QED
  BY <1>5, <1>6, <1>7, <1>9, <1>10, <1>11

\* An edit begins with a fresh copy, and ends by writing its own.
LEMMA EditInv ==
    ASSUME ResumeInv, (\E change \in Changes : ReadDetails(change)) \/ WriteDetails
    PROVE  ResumeInv'
<1> USE DEF ResumeInv
<1>1. UNCHANGED <<file, holder, doing, target, copy, paid, dropped>>
  BY DEF ReadDetails, WriteDetails
<1>2. TargetInv' /\ ReservedInv' /\ PaidInv' /\ OneCallPerContent'
  BY <1>1 DEF TargetInv, OwnTarget, Present, ReservedInv, PaidInv, Kept, OneCallPerContent
<1>3. ASSUME NEW change \in Changes, ReadDetails(change) PROVE FileTyping' /\ CopiesAreFresh'
  <2>1. /\ edit' = [open |-> TRUE, read |-> details, change |-> change]
        /\ UNCHANGED <<details, stale>>
    BY <1>3 DEF ReadDetails
  <2>2. FileTyping'
    BY <1>1, <2>1 DEF FileTyping, Readers
  <2>3. CopiesAreFresh'
    BY <1>1, <2>1 DEF CopiesAreFresh, CopyIsFresh, Present
  <2>4. QED
    BY <2>2, <2>3
<1>4. CASE WriteDetails
  <2>1. details' \in Details
    BY <1>4, ChangedFact DEF WriteDetails, FileTyping
  <2>2. edit' = NoEdit /\ ~edit'.open
    BY <1>4 DEF WriteDetails, NoEdit
  <2>3. edit' \in [open : BOOLEAN, read : Details, change : Changes]
    BY <2>2 DEF NoEdit, NoDetails, Details, Changes
  <2>4. stale' = IF details' = details THEN stale \ {Editor} ELSE (stale \union Readers) \ {Editor}
    BY <1>4 DEF WriteDetails
  <2>5. FileTyping'
    BY <1>1, <2>1, <2>2, <2>3, <2>4 DEF FileTyping, Readers
  <2>6. \A x \in Extractions : CopyIsFresh(x)'
    BY <1>1, <2>4, ResumeNames DEF CopiesAreFresh, CopyIsFresh, Present, Readers
  <2>7. QED
    BY <1>2, <2>2, <2>5, <2>6 DEF CopiesAreFresh
<1>5. QED
  BY <1>2, <1>3, <1>4

\* A review makes every copy of its file stale.
LEMMA ReviewInv ==
    ASSUME ResumeInv, NEW f \in Files, RecordReview(f)
    PROVE  ResumeInv'
<1> USE DEF ResumeInv
<1>1. /\ file[f].content \in Contents /\ stale' = stale \union ReadersOf(f)
      /\ UNCHANGED <<details, holder, doing, target, copy, edit, paid, dropped>>
  BY DEF RecordReview, Present
<1>2. /\ file' \in [Files -> FileShape] /\ \A g \in Files \ {f} : file'[g] = file[g]
      /\ file'[f].content = file[f].content /\ file'[f].cache = file[f].cache
  BY DEF RecordReview, FileTyping, FileShape
<1>3. \A g \in Files : file'[g].content = file[g].content /\ file'[g].cache = file[g].cache
  BY <1>2
<1>4. FileTyping'
  BY <1>1, <1>2 DEF FileTyping, Readers, ReadersOf
<1>5. TargetInv' /\ ReservedInv'
  BY <1>1, <1>3 DEF TargetInv, OwnTarget, Present, ReservedInv
<1>6. PaidInv' /\ OneCallPerContent'
  BY <1>1, <1>3 DEF PaidInv, Kept, OneCallPerContent
<1>7. CopiesAreFresh'
  BY <1>1, <1>2, <1>3 DEF CopiesAreFresh, CopyIsFresh, Present, ReadersOf, Readers
<1>8. QED
  BY <1>4, <1>5, <1>6, <1>7

\* A known outcome is copied to the file, whose copies become stale.
LEMMA ReuseInv ==
    ASSUME ResumeInv, NEW x \in Extractions, NEW f \in Files, doing[x] = "idle", f \in Present,
           Cached(f) \in {"reviewed", "ready", "failed"}, ReuseFacts(x, f)
    PROVE  ResumeInv'
<1> USE DEF ResumeInv
<1>1. /\ doing' = [doing EXCEPT ![x] = "done"] /\ file[f].content \in Contents
      /\ UNCHANGED <<holder, target, copy, edit, paid, dropped>>
  BY DEF ReuseFacts, Do, Present
<1>2. details' \in Details
  BY DEF ReuseFacts, FileTyping, Details
<1>3. stale' = stale \union (IF details' = details THEN {} ELSE Readers)
                     \union (IF file'[f].reviewed = file[f].reviewed THEN {} ELSE ReadersOf(f))
  BY DEF ReuseFacts
<1>4. /\ file' \in [Files -> FileShape] /\ \A g \in Files \ {f} : file'[g] = file[g]
      /\ file'[f].content = file[f].content
      /\ file'[f].cache = file[f].cache \/ file'[f].cache \in {"ready", "failed"}
  <2>1. file \in [Files -> FileShape] /\ file[f] \in FileShape
    BY DEF FileTyping
  <2>2. CASE Cached(f) = "reviewed"
    <3>1. file' = [file EXCEPT ![f] = [file[f] EXCEPT !.reviewed = TRUE]]
      BY <2>2 DEF ReuseFacts
    <3>2. [file[f] EXCEPT !.reviewed = TRUE] \in FileShape
      BY <2>1 DEF FileShape
    <3>3. QED
      BY <2>1, <3>1, <3>2 DEF FileShape
  <2>3. CASE Cached(f) \in {"ready", "failed"}
    <3>1. file' = [file EXCEPT ![f] = [file[f] EXCEPT !.cache = Cached(f)]]
      BY <2>3 DEF ReuseFacts
    <3>2. [file[f] EXCEPT !.cache = Cached(f)] \in FileShape
      BY <2>1, <2>3 DEF FileShape
    <3>3. QED
      BY <2>1, <2>3, <3>1, <3>2 DEF FileShape
  <2>4. QED
    BY <2>2, <2>3
<1>5. \A g \in Files : file'[g].content = file[g].content
  BY <1>4
<1>6. \A g : g \in Present' <=> g \in Present
  BY <1>5 DEF Present
<1>7. \A y \in Extractions : doing'[y] \in Underway \union {"claiming"} => doing'[y] = doing[y] /\ y # x
  BY <1>1 DEF FileTyping, Underway
<1>8. FileTyping'
  <2>1. doing' \in [Extractions -> {"idle", "claiming", "calling", "storing", "done", "dead"}]
    BY <1>1 DEF FileTyping
  <2>2. Readers' = Readers /\ ReadersOf(f) \subseteq Readers
    BY <1>1 DEF Readers, ReadersOf, FileTyping
  <2>3. stale' \subseteq Readers'
    BY <1>3, <2>2 DEF FileTyping
  <2>4. QED
    BY <1>1, <1>2, <1>4, <2>1, <2>3 DEF FileTyping
<1>9. TargetInv'
  <2>1. \A y \in Extractions : (doing'[y] = "claiming") <=> (doing[y] = "claiming")
    BY <1>1 DEF FileTyping
  <2>2. \A g \in Files : file[g].cache # "none" => file'[g].cache # "none"
    BY <1>4
  <2>3. \A y \in Extractions : OwnTarget(y)'
    BY <1>1, <1>5, <1>6, <1>7, <2>1, <2>2, PresentFact DEF TargetInv, OwnTarget, Underway
  <2>4. QED
    BY <1>1, <1>6, <1>7, <2>3 DEF TargetInv, Underway
<1>10. ReservedInv'
  <2>1. \A g \in Files : file'[g].cache = "running" => file[g].cache = "running"
    BY <1>4
  <2>2. \A y \in Extractions : doing[y] \in Underway \union {"dead"} => doing'[y] = doing[y]
    BY <1>1 DEF Underway, FileTyping
  <2>3. QED
    BY <1>1, <2>1, <2>2 DEF ReservedInv
<1>11. PaidInv' /\ OneCallPerContent'
  <2>1. \A c : Kept(c) => Kept(c)'
    BY <1>1, <1>4 DEF Kept
  <2>2. QED
    BY <1>1, <1>7, <2>1 DEF PaidInv, OneCallPerContent, Underway
<1>12. CopiesAreFresh'
  <2>1. edit'.open /\ Editor \notin stale' => edit'.read = details'
    BY <1>1, <1>3 DEF CopiesAreFresh, Readers
  <2>2. ASSUME NEW y \in Extractions PROVE CopyIsFresh(y)'
    <3>1. SUFFICES ASSUME doing'[y] = "storing", y \notin stale', target[y].file \in Present
                   PROVE  /\ copy[y].details = details'
                          /\ copy[y].reviewed = file'[target[y].file].reviewed
      BY <1>1, <1>6 DEF CopyIsFresh
    <3>2. doing[y] = "storing" /\ y \notin stale
      BY <1>3, <1>7, <3>1 DEF Underway
    <3>3. details' = details
      BY <1>3, <3>1, <3>2 DEF Readers
    <3>4. file'[target[y].file].reviewed = file[target[y].file].reviewed
      BY <1>3, <1>4, <3>1, <3>2, PresentFact DEF ReadersOf
    <3>5. QED
      BY <3>1, <3>2, <3>3, <3>4 DEF CopiesAreFresh, CopyIsFresh
  <2>3. QED
    BY <2>1, <2>2 DEF CopiesAreFresh
<1>13. QED
  BY <1>8, <1>9, <1>10, <1>11, <1>12

\* A lookup that finds no outcome takes the lock, and no copy was ever paid for.
LEMMA LookupInv ==
    ASSUME ResumeInv, NEW x \in Extractions, NEW f \in Files, Lookup(x, f)
    PROVE  ResumeInv'
<1> USE DEF ResumeInv
<1>1. doing[x] = "idle" /\ holder = Nobody /\ f \in Present /\ file[f].content \in Contents
  BY PresentFact DEF Lookup
<1>2. CASE Cached(f) \in {"reviewed", "ready", "failed"}
  BY <1>1, <1>2, ReuseInv DEF Lookup
<1>3. CASE Cached(f) \notin {"reviewed", "ready", "failed"}
  <2>1. /\ UNCHANGED <<file, details, copy, edit, stale, paid, dropped>>
        /\ \/ doing' = [doing EXCEPT ![x] = "done"] /\ UNCHANGED <<holder, target>>
           \/ /\ Cached(f) # "running" /\ holder' = x /\ doing' = [doing EXCEPT ![x] = "claiming"]
              /\ target' = [target EXCEPT ![x] = [file |-> f, content |-> file[f].content]]
    BY <1>3 DEF Lookup, Do
  <2>2. \A y \in Extractions : /\ doing'[y] \in Underway <=> doing[y] \in Underway
                               /\ (doing'[y] = "storing") <=> (doing[y] = "storing")
                               /\ (doing'[y] = "dead") <=> (doing[y] = "dead")
                               /\ doing[y] \in Underway \union {"dead"} => target'[y] = target[y]
    BY <1>1, <2>1 DEF FileTyping, Underway
  <2>3. FileTyping'
    <3>1. Readers' = Readers
      BY <2>1, <2>2 DEF Readers
    <3>2. /\ doing' \in [Extractions -> {"idle", "claiming", "calling", "storing", "done", "dead"}]
          /\ target' \in [Extractions -> [file : Files \union {Nobody},
                                          content : Contents \union {NoContent}]]
      BY <1>1, <2>1 DEF FileTyping
    <3>3. QED
      BY <2>1, <3>1, <3>2 DEF FileTyping
  <2>4. \A y \in Extractions : doing[y] # "claiming"
    BY <1>1, ResumeNames DEF TargetInv, OwnTarget
  <2>5. \A y \in Extractions : doing'[y] = "claiming" =>
            y = x /\ holder' = x /\ target'[x] = [file |-> f, content |-> file[f].content]
    BY <2>1, <2>4 DEF FileTyping
  <2>6. TargetInv'
    <3>1. \A y \in Extractions : (holder' = y) <=> (doing'[y] = "claiming")
      BY <1>1, <2>1, <2>4, ResumeNames DEF FileTyping
    <3>2. \A y \in Extractions : OwnTarget(y)'
      BY <1>1, <2>1, <2>2, <2>5, <3>1 DEF TargetInv, OwnTarget, Present
    <3>3. QED
      BY <2>1, <2>2, <3>2 DEF TargetInv, Present
  <2>7. ReservedInv'
    BY <2>1, <2>2 DEF ReservedInv
  <2>8. PaidInv'
    <3>1. \A c : Kept(c) => Kept(c)'
      BY <2>1 DEF Kept
    <3>2. ASSUME NEW y \in Extractions, doing'[y] = "claiming",
                 NEW a \in paid, a[2] = target'[y].content
          PROVE  a[2] \in dropped
      <4>1. y = x /\ a[2] = file[f].content
        BY <2>5, <3>2
      <4>2. Cached(f) # "running"
        BY <2>1, <3>2, <4>1 DEF FileTyping
      <4>3. \A g \in Files : file[g].content = a[2] => file[g].cache = "none"
        BY <1>1, <1>3, <4>1, <4>2, CachedFact DEF Present
      <4>4. QED
        BY <4>3 DEF PaidInv, Kept
    <3>3. QED
      BY <2>1, <3>1, <3>2 DEF PaidInv
  <2>9. OneCallPerContent' /\ CopiesAreFresh'
    BY <2>1, <2>2 DEF OneCallPerContent, CopiesAreFresh, CopyIsFresh, Present, Underway
  <2>10. QED
    BY <2>3, <2>6, <2>7, <2>8, <2>9
<1>4. QED
  BY <1>2, <1>3

\* A claim finds the file as it was looked up, or gives up; what it pays for was
\* not paid for, unless an entry with its outcome was deleted.
LEMMA ClaimInv ==
    ASSUME ResumeInv, NEW x \in Extractions, Claim(x)
    PROVE  ResumeInv'
<1> USE DEF ResumeInv
<1>1. PICK f \in Files : f = target[x].file
  BY DEF Claim, TargetInv, OwnTarget
<1>2. PICK c \in Contents : c = target[x].content
  BY DEF Claim, TargetInv, OwnTarget
<1>3. /\ doing[x] = "claiming" /\ holder = x /\ holder' = Nobody
      /\ UNCHANGED <<details, copy, edit, stale, dropped>>
  BY DEF Claim, TargetInv, OwnTarget
<1>4. \A y \in Extractions \ {x} : doing[y] # "claiming"
  BY <1>3 DEF TargetInv, OwnTarget
<1>5. Readers' = Readers
  <2>1. \A y \in Extractions : (doing'[y] = "storing") <=> (doing[y] = "storing")
    BY <1>3 DEF Claim, Do, FileTyping
  <2>2. QED
    BY <1>3, <2>1 DEF Readers
<1>6. CASE ~(file[f].content = c /\ file[f].cache = "none")
  <2>1. /\ doing' = [doing EXCEPT ![x] = "done"] /\ target' = [target EXCEPT ![x] = NoTarget]
        /\ UNCHANGED <<file, paid>>
    BY <1>1, <1>2, <1>6 DEF Claim, Do
  <2>2. \A y \in Extractions : /\ doing'[y] # "claiming"
                               /\ doing'[y] \in Underway \union {"dead"} =>
                                     target'[y] = target[y] /\ doing'[y] = doing[y]
    BY <1>3, <1>4, <2>1 DEF FileTyping, Underway
  <2>3. FileTyping'
    <3>1. /\ doing' \in [Extractions -> {"idle", "claiming", "calling", "storing", "done", "dead"}]
          /\ target' \in [Extractions -> [file : Files \union {Nobody},
                                          content : Contents \union {NoContent}]]
      BY <2>1 DEF FileTyping, NoTarget
    <3>2. QED
      BY <1>3, <1>5, <2>1, <3>1 DEF FileTyping
  <2>4. TargetInv'
    <3>1. \A y \in Extractions : OwnTarget(y)'
      BY <1>3, <2>1, <2>2, ResumeNames DEF TargetInv, OwnTarget, Present, Underway
    <3>2. QED
      BY <2>1, <2>2, <3>1 DEF TargetInv, Present, Underway
  <2>5. ReservedInv'
    <3>1. \A y \in Extractions : doing[y] \in Underway \union {"dead"} =>
             target'[y] = target[y] /\ doing'[y] = doing[y]
      BY <1>3, <2>1 DEF FileTyping, Underway
    <3>2. QED
      BY <2>1, <3>1 DEF ReservedInv
  <2>6. PaidInv' /\ OneCallPerContent'
    BY <1>3, <2>1, <2>2 DEF PaidInv, Kept, OneCallPerContent
  <2>7. CopiesAreFresh'
    BY <1>3, <2>1, <2>2 DEF CopiesAreFresh, CopyIsFresh, Present, Underway
  <2>8. QED
    BY <2>3, <2>4, <2>5, <2>6, <2>7
<1>7. CASE file[f].content = c /\ file[f].cache = "none"
  <2>1. /\ doing' = [doing EXCEPT ![x] = "calling"] /\ paid' = paid \union {<<x, c>>}
        /\ UNCHANGED target
    BY <1>1, <1>2, <1>7 DEF Claim, Do
  <2>2. /\ file' \in [Files -> FileShape] /\ \A g \in Files \ {f} : file'[g] = file[g]
        /\ file'[f].content = c /\ file'[f].cache = "running" /\ file'[f].reviewed = file[f].reviewed
    <3>1. file' = [file EXCEPT ![f].cache = "running"]
      BY <1>1, <1>2, <1>7 DEF Claim
    <3>2. file \in [Files -> FileShape] /\ file[f] \in FileShape
      BY DEF FileTyping
    <3>3. [file[f] EXCEPT !.cache = "running"] \in FileShape
      BY <3>2 DEF FileShape
    <3>4. QED
      BY <1>7, <3>1, <3>2, <3>3 DEF FileShape
  <2>3. /\ \A g \in Files : /\ file'[g].content = file[g].content
                            /\ file'[g].reviewed = file[g].reviewed
                            /\ file[g].cache # "none" => file'[g].cache # "none"
        /\ f \in Present
    BY <1>7, <2>2 DEF Present
  <2>4. \A g : g \in Present' <=> g \in Present
    BY <2>3 DEF Present
  <2>5. \A y \in Extractions : /\ doing'[y] # "claiming"
                               /\ y # x => doing'[y] = doing[y]
                               /\ doing'[x] = "calling"
    BY <1>3, <1>4, <2>1 DEF FileTyping
  <2>6. FileTyping'
    <3>1. /\ doing' \in [Extractions -> {"idle", "claiming", "calling", "storing", "done", "dead"}]
          /\ paid' \subseteq Extractions \X Contents
      BY <2>1 DEF FileTyping
    <3>2. \A g \in Files : file'[g].content \notin Contents =>
              file'[g].cache = "none" /\ file'[g].reviewed = FALSE
      BY <2>2 DEF FileTyping
    <3>3. QED
      BY <1>3, <1>5, <2>1, <2>2, <3>1, <3>2 DEF FileTyping
  <2>7. \A y \in Extractions : doing[y] \in Underway => target[y].file # f
    BY <1>7, <2>3 DEF TargetInv, OwnTarget
  <2>8. TargetInv'
    <3>1. OwnTarget(x)'
      BY <1>1, <1>2, <1>3, <2>1, <2>2, <2>5, ResumeNames DEF OwnTarget
    <3>2. ASSUME NEW y \in Extractions, y # x PROVE OwnTarget(y)'
      BY <1>3, <2>1, <2>3, <2>4, <2>5, <3>2, ResumeNames, PresentFact DEF TargetInv, OwnTarget, Underway
    <3>3. ASSUME NEW y \in Extractions, NEW z \in Extractions,
                 doing'[y] \in Underway, doing'[z] \in Underway,
                 target'[y].file \in Present', target'[y].file = target'[z].file
          PROVE  y = z
      BY <1>1, <2>1, <2>4, <2>5, <2>7, <3>3 DEF TargetInv
    <3>4. QED
      BY <3>1, <3>2, <3>3 DEF TargetInv
  <2>9. ReservedInv'
    <3>1. target'[x].file = f /\ doing'[x] \in Underway
      BY <1>1, <2>1, <2>5 DEF Underway
    <3>2. \A y \in Extractions : doing[y] \in Underway \union {"dead"} => doing'[y] = doing[y]
      BY <1>3, <2>5 DEF Underway
    <3>3. QED
      BY <2>1, <2>2, <3>1, <3>2 DEF ReservedInv
  <2>10. PaidInv'
    <3>1. \A d : Kept(d) => Kept(d)'
      BY <1>3, <2>3 DEF Kept
    <3>2. Kept(c)'
      BY <2>2 DEF Kept
    <3>3. QED
      BY <2>1, <2>5, <3>1, <3>2 DEF PaidInv
  <2>11. OneCallPerContent'
    <3>1. \A a \in paid : a[2] = c => a[2] \in dropped
      BY <1>2, <1>3 DEF PaidInv
    <3>2. QED
      BY <1>3, <2>1, <3>1 DEF OneCallPerContent
  <2>12. CopiesAreFresh'
    <3>1. \A y \in Extractions : CopyIsFresh(y)'
      BY <1>3, <2>1, <2>3, <2>4, <2>5, PresentFact DEF CopiesAreFresh, CopyIsFresh
    <3>2. QED
      BY <1>3, <3>1 DEF CopiesAreFresh
  <2>13. QED
    BY <2>6, <2>8, <2>9, <2>10, <2>11, <2>12
<1>8. QED
  BY <1>6, <1>7

\* When the call ends, an extraction reads back what the columns say, or gives up.
LEMMA ExtractionEndsInv ==
    ASSUME ResumeInv, NEW x \in Extractions, NEW ok \in BOOLEAN, ExtractionCallEnds(x, ok)
    PROVE  ResumeInv'
<1> USE DEF ResumeInv
<1>1. doing[x] = "calling" /\ UNCHANGED <<file, details, holder, edit, stale, paid, dropped>>
  BY DEF ExtractionCallEnds
<1>2. \/ /\ target[x].file \notin Present /\ doing' = [doing EXCEPT ![x] = "done"]
         /\ target' = [target EXCEPT ![x] = NoTarget] /\ UNCHANGED copy
      \/ /\ target[x].file \in Present /\ doing' = [doing EXCEPT ![x] = "storing"]
         /\ UNCHANGED target
         /\ copy' = [copy EXCEPT ![x] = [details |-> details, ok |-> ok,
                                         reviewed |-> file[target[x].file].reviewed]]
  BY DEF ExtractionCallEnds, Do
<1>3. \A y \in Extractions \ {x} : /\ doing'[y] = doing[y] /\ target'[y] = target[y]
                                   /\ copy'[y] = copy[y]
  <2>1. /\ DOMAIN doing = Extractions /\ DOMAIN target = Extractions
        /\ DOMAIN copy = Extractions
    BY DEF FileTyping
  <2>2. QED
    BY <1>2, <2>1
<1>4. doing'[x] = "done" \/ (doing'[x] = "storing" /\ target'[x] = target[x])
  BY <1>2 DEF FileTyping
<1>5. FileTyping'
  <2>1. doing' \in [Extractions -> {"idle", "claiming", "calling", "storing", "done", "dead"}]
    BY <1>2 DEF FileTyping
  <2>2. target' \in [Extractions -> [file : Files \union {Nobody},
                                     content : Contents \union {NoContent}]]
    BY <1>2 DEF FileTyping, NoTarget
  <2>3. ASSUME target[x].file \in Present
        PROVE  [details |-> details, ok |-> ok,
                reviewed |-> file[target[x].file].reviewed] \in CopyShape
    BY <2>3, PresentFact DEF FileTyping, FileShape, CopyShape
  <2>4. copy' \in [Extractions -> CopyShape]
    BY <1>2, <2>3 DEF FileTyping
  <2>5. Readers \subseteq Readers'
    BY <1>1, <1>3 DEF Readers
  <2>6. QED
    BY <1>1, <2>1, <2>2, <2>4, <2>5 DEF FileTyping
<1>6. TargetInv'
  <2>1. \A y \in Extractions : /\ (doing'[y] = "claiming") <=> (doing[y] = "claiming")
                               /\ doing'[y] \in Underway =>
                                     doing[y] \in Underway /\ target'[y] = target[y]
                               /\ doing'[y] = "claiming" => target'[y] = target[y]
    BY <1>1, <1>3, <1>4 DEF Underway
  <2>2. \A y \in Extractions : OwnTarget(y)'
    BY <1>1, <2>1 DEF TargetInv, OwnTarget, Present
  <2>3. QED
    BY <1>1, <2>1, <2>2 DEF TargetInv, Present
<1>7. ReservedInv'
  <2>1. ASSUME NEW f \in Files, file[f].cache = "running"
        PROVE  \E y \in Extractions : target'[y].file = f /\ doing'[y] \in Underway \union {"dead"}
    <3>1. PICK y \in Extractions : target[y].file = f /\ doing[y] \in Underway \union {"dead"}
      BY <2>1 DEF ReservedInv
    <3>2. f \in Present
      BY <2>1 DEF FileTyping, Present
    <3>3. CASE y = x
      BY <1>2, <3>1, <3>2, <3>3 DEF FileTyping, Underway
    <3>4. CASE y # x
      BY <1>3, <3>1, <3>4
    <3>5. QED
      BY <3>3, <3>4
  <2>2. QED
    BY <1>1, <2>1 DEF ReservedInv
<1>8. PaidInv' /\ OneCallPerContent'
  <2>1. \A y \in Extractions : doing'[y] = "claiming" => doing[y] = "claiming" /\ target'[y] = target[y]
    BY <1>3, <1>4
  <2>2. QED
    BY <1>1, <2>1 DEF PaidInv, Kept, OneCallPerContent
<1>9. CopiesAreFresh'
  <2>1. CopyIsFresh(x)'
    BY <1>1, <1>2 DEF CopyIsFresh, FileTyping
  <2>2. \A y \in Extractions : CopyIsFresh(y)'
    BY <1>1, <1>3, <2>1 DEF CopiesAreFresh, CopyIsFresh, Present
  <2>3. QED
    BY <1>1, <2>2 DEF CopiesAreFresh
<1>10. QED
  BY <1>5, <1>6, <1>7, <1>8, <1>9

\* Storing ends the extraction; what it overwrites was read by stale copies alone.
LEMMA StoreInv ==
    ASSUME ResumeInv, NEW x \in Extractions, Store(x)
    PROVE  ResumeInv'
<1> USE DEF ResumeInv
<1>1. PICK f \in Files : f = target[x].file
  BY DEF Store, TargetInv, OwnTarget, Underway
<1>2. /\ doing[x] = "storing" /\ doing' = [doing EXCEPT ![x] = "done"]
      /\ copy' = [copy EXCEPT ![x] = NoCopy] /\ target' = [target EXCEPT ![x] = NoTarget]
      /\ UNCHANGED <<holder, edit, paid, dropped>>
  BY DEF Store, Do
<1>3. \A y \in Extractions \ {x} : /\ doing'[y] = doing[y] /\ target'[y] = target[y]
                                   /\ copy'[y] = copy[y]
  <2>1. /\ DOMAIN doing = Extractions /\ DOMAIN target = Extractions
        /\ DOMAIN copy = Extractions
    BY DEF FileTyping
  <2>2. QED
    BY <1>2, <2>1
<1>4. doing'[x] = "done"
  BY <1>2 DEF FileTyping
<1>5. /\ file' \in [Files -> FileShape] /\ \A g \in Files \ {f} : file'[g] = file[g]
      /\ file'[f].content = file[f].content
      /\ f \notin Present => file' = file
      /\ f \in Present => file'[f].cache \in {"ready", "failed"} /\ file'[f].reviewed = copy[x].reviewed
  <2>1. copy[x].reviewed \in BOOLEAN /\ file[f] \in FileShape /\ file \in [Files -> FileShape]
    BY DEF FileTyping, CopyShape
  <2>2. CASE f \in Present
    <3>1. PICK s \in {"ready", "failed"} :
             file' = [file EXCEPT ![f].cache = s, ![f].reviewed = copy[x].reviewed]
      BY <1>1, <2>2 DEF Store
    <3>2. file' = [file EXCEPT ![f] = [file[f] EXCEPT !.cache = s, !.reviewed = copy[x].reviewed]]
      BY <2>1, <3>1 DEF FileShape
    <3>3. [file[f] EXCEPT !.cache = s, !.reviewed = copy[x].reviewed] \in FileShape
      BY <2>1 DEF FileShape
    <3>4. QED
      BY <2>1, <2>2, <3>2, <3>3 DEF FileShape
  <2>3. CASE f \notin Present
    BY <1>1, <2>1, <2>3 DEF Store
  <2>4. QED
    BY <2>2, <2>3
<1>6. /\ details' \in Details
      /\ stale' = IF details' = details THEN stale \ {x} ELSE (stale \union Readers) \ {x}
  BY <1>1 DEF Store, SelectedIn, FileTyping, CopyShape, Details
<1>7. \A g \in Files : /\ file'[g].content = file[g].content
                       /\ file[g].cache # "none" => file'[g].cache # "none"
                       /\ file'[g].cache = "running" => file[g].cache = "running" /\ (g # f \/ f \notin Present)
  BY <1>5
<1>8. \A g : g \in Present' <=> g \in Present
  BY <1>7 DEF Present
<1>9. FileTyping'
  <2>1. /\ doing' \in [Extractions -> {"idle", "claiming", "calling", "storing", "done", "dead"}]
        /\ target' \in [Extractions -> [file : Files \union {Nobody},
                                        content : Contents \union {NoContent}]]
    BY <1>2 DEF FileTyping, NoTarget
  <2>2. NoCopy \in CopyShape
    BY DEF NoCopy, CopyShape, NoDetails, Details
  <2>3. copy' \in [Extractions -> CopyShape]
    BY <1>2, <2>2 DEF FileTyping
  <2>4. \A g \in Files : file'[g].content \notin Contents =>
            file'[g].cache = "none" /\ file'[g].reviewed = FALSE
    BY <1>5 DEF FileTyping, Present
  <2>5. Readers' = Readers \ {x}
    BY <1>2, <1>3, <1>4, ResumeNames DEF Readers
  <2>6. stale' \subseteq Readers'
    BY <1>6, <2>5 DEF FileTyping
  <2>7. QED
    BY <1>2, <1>5, <1>6, <2>1, <2>3, <2>4, <2>6 DEF FileTyping
<1>10. TargetInv'
  <2>1. \A y \in Extractions : (doing'[y] = "claiming") <=> (doing[y] = "claiming")
    BY <1>2, <1>3, <1>4
  <2>2. \A y \in Extractions : doing'[y] \in Underway \union {"claiming"} =>
            y # x /\ doing'[y] = doing[y] /\ target'[y] = target[y]
    BY <1>3, <1>4 DEF Underway
  <2>3. \A y \in Extractions : OwnTarget(y)'
    BY <1>2, <1>7, <1>8, <2>1, <2>2, PresentFact DEF TargetInv, OwnTarget
  <2>4. QED
    BY <1>8, <2>2, <2>3 DEF TargetInv
<1>11. ReservedInv'
  <2>1. ASSUME NEW g \in Files, file'[g].cache = "running"
        PROVE  \E y \in Extractions : target'[y].file = g /\ doing'[y] \in Underway \union {"dead"}
    <3>1. PICK y \in Extractions : target[y].file = g /\ doing[y] \in Underway \union {"dead"}
      BY <1>7, <2>1 DEF ReservedInv
    <3>2. g \in Present
      BY <1>7, <2>1 DEF FileTyping, Present
    <3>3. y # x
      BY <1>1, <1>7, <2>1, <3>1, <3>2
    <3>4. QED
      BY <1>3, <3>1, <3>3
  <2>2. QED
    BY <2>1 DEF ReservedInv
<1>12. PaidInv' /\ OneCallPerContent'
  <2>1. \A c : Kept(c) => Kept(c)'
    BY <1>2, <1>7 DEF Kept
  <2>2. \A y \in Extractions : doing'[y] = "claiming" => doing[y] = "claiming" /\ target'[y] = target[y]
    BY <1>3, <1>4
  <2>3. QED
    BY <1>2, <2>1, <2>2 DEF PaidInv, OneCallPerContent
<1>13. CopiesAreFresh'
  <2>1. edit'.open /\ Editor \notin stale' => edit'.read = details'
    BY <1>2, <1>6, ResumeNames DEF CopiesAreFresh, Readers
  <2>2. ASSUME NEW y \in Extractions PROVE CopyIsFresh(y)'
    <3>1. SUFFICES ASSUME doing'[y] = "storing", y \notin stale', target'[y].file \in Present
                   PROVE  /\ copy'[y].details = details'
                          /\ copy'[y].reviewed = file'[target'[y].file].reviewed
      BY <1>8 DEF CopyIsFresh
    <3>2. /\ y # x /\ doing[y] = "storing" /\ target'[y] = target[y] /\ copy'[y] = copy[y]
      BY <1>3, <1>4, <3>1
    <3>3. y \notin stale /\ details' = details
      BY <1>6, <3>1, <3>2 DEF Readers
    <3>4. target[y].file \in Files /\ target[y].file # f
      BY <1>1, <1>2, <3>1, <3>2, PresentFact DEF TargetInv, Underway
    <3>5. file'[target[y].file] = file[target[y].file]
      BY <1>5, <3>4
    <3>6. QED
      BY <3>1, <3>2, <3>3, <3>5 DEF CopiesAreFresh, CopyIsFresh
  <2>3. QED
    BY <2>1, <2>2 DEF CopiesAreFresh
<1>14. QED
  BY <1>9, <1>10, <1>11, <1>12, <1>13

\* A process that dies leaves its reservation, and gives up the lock.
LEMMA ProcessDiesInv ==
    ASSUME ResumeInv, NEW x \in Extractions, ProcessDies(x)
    PROVE  ResumeInv'
<1> USE DEF ResumeInv
<1>1. /\ doing[x] \in {"claiming", "calling", "storing"} /\ doing' = [doing EXCEPT ![x] = "dead"]
      /\ holder' = (IF holder = x THEN Nobody ELSE holder) /\ stale' = stale \ {x}
      /\ copy' = [copy EXCEPT ![x] = NoCopy]
      /\ UNCHANGED <<file, details, target, edit, paid, dropped>>
  BY DEF ProcessDies, Do
<1>2. /\ doing'[x] = "dead"
      /\ \A y \in Extractions \ {x} : doing'[y] = doing[y] /\ copy'[y] = copy[y]
  BY <1>1 DEF FileTyping
<1>3. FileTyping'
  <2>1. doing' \in [Extractions -> {"idle", "claiming", "calling", "storing", "done", "dead"}]
    BY <1>1 DEF FileTyping
  <2>2. NoCopy \in CopyShape
    BY DEF NoCopy, CopyShape, NoDetails, Details
  <2>3. copy' \in [Extractions -> CopyShape]
    BY <1>1, <2>2 DEF FileTyping
  <2>4. Readers \ {x} \subseteq Readers'
    BY <1>1, <1>2 DEF Readers
  <2>5. QED
    BY <1>1, <2>1, <2>3, <2>4 DEF FileTyping
<1>4. TargetInv'
  <2>1. \A y \in Extractions : OwnTarget(y)'
    BY <1>1, <1>2, ResumeNames DEF TargetInv, OwnTarget, Underway, Present
  <2>2. QED
    BY <1>1, <1>2, <2>1 DEF TargetInv, Underway, Present
<1>5. ReservedInv'
  <2>1. \A y \in Extractions : doing[y] \in Underway \union {"dead"} =>
            doing'[y] \in Underway \union {"dead"}
    BY <1>2
  <2>2. QED
    BY <1>1, <2>1 DEF ReservedInv
<1>6. PaidInv' /\ OneCallPerContent' /\ CopiesAreFresh'
  BY <1>1, <1>2, ResumeNames
     DEF PaidInv, Kept, OneCallPerContent, CopiesAreFresh, CopyIsFresh, Present
<1>7. QED
  BY <1>3, <1>4, <1>5, <1>6

\* So every step, and a stutter, preserves the invariant.
LEMMA ResumeStepInv == ResumeInv /\ [ResumeNext]_resumeVars => ResumeInv'
<1>1. ASSUME ResumeInv, ResumeNext PROVE ResumeInv'
  BY <1>1, UploadInv, DeleteInv, ReviewInv, EditInv, LookupInv, ClaimInv, ExtractionEndsInv,
     StoreInv, ProcessDiesInv DEF ResumeNext, ExtractionStep
<1>2. ASSUME ResumeInv, UNCHANGED resumeVars PROVE ResumeInv'
  <2>1. UNCHANGED <<file, details, holder, doing, target, copy, edit, stale, paid, dropped>>
    BY <1>2 DEF resumeVars
  <2>2. FileTyping' /\ TargetInv' /\ ReservedInv'
    BY <1>2, <2>1 DEF ResumeInv, FileTyping, Readers, TargetInv, OwnTarget, Present, ReservedInv
  <2>3. PaidInv' /\ OneCallPerContent' /\ CopiesAreFresh'
    BY <1>2, <2>1 DEF ResumeInv, PaidInv, Kept, OneCallPerContent, CopiesAreFresh, CopyIsFresh, Present
  <2>4. QED
    BY <2>2, <2>3 DEF ResumeInv
<1>3. QED
  BY <1>1, <1>2

\* The invariant gives the types that the run checks.
LEMMA ResumeInvImplies == ResumeInv => ResumeTypes
<1> SUFFICES ASSUME ResumeInv PROVE ResumeTypes
  OBVIOUS
<1> USE DEF ResumeInv
<1>1. ASSUME NEW f \in Files
      PROVE  /\ file[f].content \in Contents \union {NoContent, Deleted}
             /\ file[f].cache \in {"none", "running", "ready", "failed"}
             /\ f \notin Present => file[f] = [NoFile EXCEPT !.content = file[f].content]
  <2>1. file[f] \in FileShape
    BY DEF FileTyping
  <2>2. f \notin Present => file[f].cache = "none" /\ file[f].reviewed = FALSE
    BY PresentFact DEF FileTyping
  <2> DEFINE without == [NoFile EXCEPT !.content = file[f].content]
  <2>3. /\ without \in FileShape /\ without.content = file[f].content
        /\ without.cache = "none" /\ without.reviewed = FALSE
    BY <2>1 DEF NoFile, FileShape
  <2> HIDE DEF without
  <2>4. f \notin Present => file[f] = without
    BY <2>1, <2>2, <2>3 DEF FileShape
  <2>5. QED
    BY <2>1, <2>4 DEF FileShape, without
<1>2. ASSUME NEW f \in Files, file[f].cache = "running"
      PROVE  \E x \in Extractions : target[x].file = f /\ doing[x] \in {"calling", "storing", "dead"}
  BY <1>2 DEF ReservedInv, Underway
<1>3. details \in Details /\ stale \subseteq Readers
  BY DEF FileTyping
<1>4. \A x \in Extractions : (holder = x) <=> (doing[x] = "claiming")
  BY DEF TargetInv, OwnTarget
<1>5. QED
  BY <1>1, <1>2, <1>3, <1>4 DEF ResumeTypes
-------------------------------------------------------------------------------
(* What a step may lose *)

LostToRaces ==
    /\ ~(details.typed \subseteq details'.typed) =>
          \E w \in stale : (w = Editor /\ ~edit'.open) \/ (w # Editor /\ doing'[w] = "done")
    /\ \A f \in Files : file[f].reviewed /\ ~file'[f].reviewed /\ f \in Present' =>
          \E x \in stale \intersect Extractions : target[x].file = f /\ doing'[x] = "done"

\* Typed values and reviews are lost to a writer whose copy was stale, and to no other.
LEMMA LossStep == ResumeInv /\ ResumeNext => LostToRaces
<1> SUFFICES ASSUME ResumeInv, ResumeNext PROVE LostToRaces
  OBVIOUS
<1> USE DEF ResumeInv
<1>1. ASSUME UNCHANGED details, \A f \in Files : file'[f].reviewed = file[f].reviewed
      PROVE  LostToRaces
  BY <1>1 DEF LostToRaces
<1>2. ASSUME NEW f \in Files, NEW c \in Contents, Upload(f, c) PROVE LostToRaces
  <2>1. file[f].reviewed = FALSE /\ UNCHANGED details /\ \A g \in Files \ {f} : file'[g] = file[g]
    BY <1>2, ResumeNames DEF Upload, FileTyping
  <2>2. QED
    BY <2>1 DEF LostToRaces
<1>3. ASSUME NEW f \in Files, DeleteFile(f) PROVE LostToRaces
  <2>1. UNCHANGED details /\ f \notin Present' /\ \A g \in Files \ {f} : file'[g] = file[g]
    BY <1>3, ResumeNames DEF DeleteFile, FileTyping, Present, NoFile
  <2>2. QED
    BY <2>1 DEF LostToRaces
<1>4. ASSUME NEW f \in Files, RecordReview(f) PROVE LostToRaces
  <2>1. UNCHANGED details /\ \A g \in Files : file[g].reviewed => file'[g].reviewed
    BY <1>4 DEF RecordReview, FileTyping, FileShape
  <2>2. QED
    BY <2>1 DEF LostToRaces
<1>5. CASE \E change \in Changes : ReadDetails(change)
  BY <1>1, <1>5 DEF ReadDetails
<1>6. CASE WriteDetails
  <2>1. /\ edit.open /\ edit' = NoEdit /\ UNCHANGED file
        /\ details' = Changed(edit.read, edit.change)
    BY <1>6 DEF WriteDetails
  <2>2. edit.read.typed \subseteq details'.typed
    BY <2>1, ChangedFact DEF FileTyping
  <2>3. ~(details.typed \subseteq details'.typed) => Editor \in stale
    BY <2>1, <2>2 DEF CopiesAreFresh
  <2>4. ~edit'.open
    BY <2>1 DEF NoEdit
  <2>5. QED
    BY <2>1, <2>3, <2>4 DEF LostToRaces
<1>7. ASSUME NEW x \in Extractions, NEW f \in Files, Lookup(x, f) PROVE LostToRaces
  <2>1. details'.typed = details.typed
    BY <1>7 DEF Lookup, ReuseFacts, FileTyping, Details
  <2>2. \A g \in Files : file[g].reviewed => file'[g].reviewed
    BY <1>7 DEF Lookup, ReuseFacts, FileTyping, FileShape
  <2>3. QED
    BY <2>1, <2>2 DEF LostToRaces
<1>8. ASSUME NEW x \in Extractions, Claim(x) PROVE LostToRaces
  <2>1. UNCHANGED details /\ \A g \in Files : file'[g].reviewed = file[g].reviewed
    BY <1>8 DEF Claim, FileTyping, FileShape
  <2>2. QED
    BY <1>1, <2>1
<1>9. ASSUME NEW x \in Extractions, NEW ok \in BOOLEAN, ExtractionCallEnds(x, ok) PROVE LostToRaces
  BY <1>1, <1>9 DEF ExtractionCallEnds
<1>10. ASSUME NEW x \in Extractions, Store(x) PROVE LostToRaces
  <2>1. /\ doing[x] = "storing" /\ doing' = [doing EXCEPT ![x] = "done"]
    BY <1>10 DEF Store, Do
  <2>2. doing'[x] = "done" /\ x # Editor
    BY <2>1, ResumeNames DEF FileTyping
  <2>3. PICK f \in Files : f = target[x].file
    BY <2>1 DEF TargetInv, OwnTarget, Underway
  <2>4. CASE f \notin Present
    BY <1>1, <1>10, <2>3, <2>4 DEF Store
  <2>5. CASE f \in Present
    <3>1. /\ details' = (IF copy[x].ok THEN SelectedIn(x) ELSE details)
          /\ \A g \in Files \ {f} : file'[g] = file[g]
          /\ file'[f].reviewed = copy[x].reviewed
      BY <1>10, <2>3, <2>5 DEF Store, FileTyping, FileShape
    <3>2. SelectedIn(x).typed = copy[x].details.typed
      BY DEF SelectedIn, FileTyping, CopyShape, Details
    <3>3. x \notin stale => /\ copy[x].details = details /\ copy[x].reviewed = file[f].reviewed
      BY <2>1, <2>3, <2>5 DEF CopiesAreFresh, CopyIsFresh
    <3>4. ~(details.typed \subseteq details'.typed) => x \in stale
      BY <3>1, <3>2, <3>3
    <3>5. \A g \in Files : file[g].reviewed /\ ~file'[g].reviewed => g = f /\ x \in stale
      BY <3>1, <3>3
    <3>6. QED
      BY <2>2, <2>3, <3>4, <3>5 DEF LostToRaces
  <2>6. QED
    BY <2>4, <2>5
<1>11. ASSUME NEW x \in Extractions, ProcessDies(x) PROVE LostToRaces
  BY <1>1, <1>11 DEF ProcessDies
<1>12. QED
  BY <1>2, <1>3, <1>4, <1>5, <1>6, <1>7, <1>8, <1>9, <1>10, <1>11 DEF ResumeNext, ExtractionStep
-------------------------------------------------------------------------------
(* The job store *)

(***************************************************************************)
(* The inductive invariant.  A collection that reads has written nothing;  *)
(* each of its records is of a title its board had; a record of a listing  *)
(* of a JSON board without a failure is the link of the same number; what  *)
(* it met is of the records taken (CrawlInv).  A row's key is of its own   *)
(* source, or of its own posting on a board, so two transactions can only  *)
(* meet on one posting (OwnKey, Unique).  A transaction removes no row,    *)
(* closes one only for a record that is closed, and finds for each record  *)
(* of a JSON board a row of that posting (WritingInv).                     *)
(***************************************************************************)

\* The ids of a listing can be put in order, one way or the other.
LEMMA OrderedFact ==
    ASSUME NEW S, IsFiniteSet(S), \A e \in S : e \in Nat, NEW upward \in BOOLEAN
    PROVE  /\ Ordered(S, upward) \in [1..Cardinality(S) -> S]
           /\ Ordered(S, upward) \in Seq(S) /\ Len(Ordered(S, upward)) = Cardinality(S)
<1> DEFINE n == Cardinality(S)
           T == {m \in S \X S : IF upward THEN m[1] < m[2] ELSE m[2] < m[1]}
<1>1. n \in Nat
  BY FS_CardinalityType
<1>2. \A a, b \in S : <<a, b>> \in T <=> IF upward THEN a < b ELSE b < a
  OBVIOUS
<1> HIDE DEF T
<1>3. \A a \in S : <<a, a>> \notin T
  BY <1>2
<1>4. \A a, b, c \in S : <<a, b>> \in T /\ <<b, c>> \in T => <<a, c>> \in T
  BY <1>2
<1>5. ASSUME NEW a \in S, NEW b \in S PROVE a = b \/ <<a, b>> \in T \/ <<b, a>> \in T
  <2>1. a = b \/ a < b \/ b < a
    OBVIOUS
  <2>2. QED
    BY <1>2, <2>1
<1>6. PICK q \in [1..n -> S] : \A i, k \in 1..n : i < k => <<q[i], q[k]>> \in T
  BY <1>3, <1>4, <1>5, SortFact
<1>7. \A i, k \in DOMAIN q : i < k => IF upward THEN q[i] < q[k] ELSE q[k] < q[i]
  BY <1>2, <1>6
<1>8. Ordered(S, upward) \in [1..n -> S]
  BY <1>7 DEF Ordered
<1>9. QED
  BY <1>1, <1>8

Reading(c) == c.at \in {"idle", "listing", "details"}

\* The keys that a posting's row may have.
OwnKey(s, e, h) ==
    IF s \in Html THEN \E t \in Titles : h = <<"title", s, t>> ELSE h = <<"id", BoardOf[s], e>>

\* A collection: what it was told, where it is, and what its records are of.
CrawlInv(s, c) ==
    /\ c \in CrawlType /\ c.next # 0
    /\ c.denied => c.at \notin {"listing", "details"}
    /\ c.at = "listing" => c.next = 1 /\ c.items = <<>>
    /\ s \notin Html => c.at # "details" /\ (c.at = "listing" => c.links = <<>>)
    /\ c.at = "details" => c.next <= Len(Attempted(c))
    /\ c.taken <= Len(c.items) /\ (c.at = "waiting" => c.taken < Len(c.items))
    /\ Reading(c) => c.taken = 0 /\ c.met = {}
    /\ \A k \in DOMAIN c.items :
          /\ c.items[k].title \in displayed[BoardOf[s]][c.items[k].id]
          /\ c.items[k].hash = Hash(s, c.items[k].id, c.items[k].title)
    /\ s \notin Html /\ ~Reading(c) /\ ~c.failed =>
          \A k \in DOMAIN c.items : k \in DOMAIN c.links /\ c.items[k].id = c.links[k]
    /\ \A m \in c.met : \E k \in 1..c.taken : m \in Met(c.items[k])

\* A stored or written row.
PostingInv(s, e, r) ==
    r # Unstored => r.title \in displayed[BoardOf[s]][e] /\ OwnKey(s, e, r.hash)

Unique(rows) ==
    \A s, t \in Sources, e, d \in Ids :
        rows[s][e] # Unstored /\ rows[t][d] # Unstored /\ rows[s][e].hash = rows[t][d].hash
            => s = t /\ e = d

\* Some source has a row for posting e of the board that s reads, or s has written one.
Placed(s, e) ==
    \E t \in Sources : BoardOf[t] = BoardOf[s] /\ View(s)[t][e] # Unstored

\* The open transaction of a source, beside what is committed.
WritingInv(s) ==
    /\ Reading(crawl[s]) => written[s] = stored[s]
    /\ \A e \in Ids :
          /\ stored[s][e] # Unstored => written[s][e] # Unstored
          /\ written[s][e].status = "closed" /\ stored[s][e].status = "active" =>
                \E k \in DOMAIN crawl[s].items :
                    crawl[s].items[k].id = e /\ crawl[s].items[k].status = "closed"
    /\ s \notin Html => \A k \in 1..crawl[s].taken : Placed(s, crawl[s].items[k].id)

BoardInv == \A b \in Boards, e \in Ids : Shows(b, e) => board[b][e].title \in displayed[b][e]

JobsInv ==
    /\ StoreTypes /\ BoardInv
    /\ \A s \in Sources : CrawlInv(s, crawl[s]) /\ WritingInv(s)
    /\ \A s \in Sources, e \in Ids : PostingInv(s, e, stored[s][e]) /\ PostingInv(s, e, written[s][e])
    /\ Unique(stored) /\ Unique(written)

LEMMA StoreHas ==
    ASSUME JobsInv
    PROVE  /\ board \in [Boards -> [Ids -> Posting \union {Gone}]]
           /\ displayed \in [Boards -> [Ids -> SUBSET Titles]]
           /\ stored \in [Sources -> [Ids -> RowType]] /\ written \in [Sources -> [Ids -> RowType]]
           /\ crawl \in [Sources -> CrawlType] /\ edits \in Nat /\ crawls \in [Sources -> Nat]
           /\ BoardInv /\ Unique(stored) /\ Unique(written)
           /\ \A s \in Sources : CrawlInv(s, crawl[s]) /\ WritingInv(s) /\ BoardOf[s] \in Boards
           /\ \A s \in Sources, e \in Ids :
                 PostingInv(s, e, stored[s][e]) /\ PostingInv(s, e, written[s][e])
  BY StoreNames DEF JobsInv, StoreTypes

LEMMA CrawlHas ==
    ASSUME NEW c \in CrawlType
    PROVE  /\ c.at \in {"idle", "listing", "details", "publishing", "waiting"}
           /\ c.limit[1] \in Nat /\ c.limit[2] \in Nat /\ c.page \in Nat /\ c.links \in Seq(Ids)
           /\ c.next \in Nat /\ c.tries \in Nat /\ c.denied \in BOOLEAN /\ c.failed \in BOOLEAN
           /\ c.items \in Seq(RecordType) /\ c.taken \in Nat
           /\ c.met \in SUBSET ({"id"} \X Ids \union {"hash"} \X Hashes)
           /\ Len(c.links) \in Nat /\ DOMAIN c.links = 1..Len(c.links)
           /\ Len(c.items) \in Nat /\ DOMAIN c.items = 1..Len(c.items)
           /\ \A k \in DOMAIN c.items : c.items[k] \in RecordType /\ c.items[k].id \in Ids
<1>1. /\ c.at \in {"idle", "listing", "details", "publishing", "waiting"}
      /\ c.limit \in Nat \X Nat /\ c.page \in Nat /\ c.links \in Seq(Ids)
      /\ c.next \in Nat /\ c.tries \in Nat /\ c.denied \in BOOLEAN /\ c.failed \in BOOLEAN
      /\ c.items \in Seq(RecordType) /\ c.taken \in Nat
      /\ c.met \in SUBSET ({"id"} \X Ids \union {"hash"} \X Hashes)
  BY DEF CrawlType
<1>2. \A r \in RecordType : r.id \in Ids
  BY DEF RecordType
<1>3. /\ Len(c.links) \in Nat /\ DOMAIN c.links = 1..Len(c.links)
      /\ Len(c.items) \in Nat /\ DOMAIN c.items = 1..Len(c.items)
      /\ \A k \in DOMAIN c.items : c.items[k] \in RecordType
  BY <1>1
<1>4. QED
  BY <1>1, <1>2, <1>3

LEMMA NullsFact ==
    /\ Unstored.status = "none" /\ NoCrawl \in CrawlType
    /\ NoCrawl.at = "idle" /\ NoCrawl.next = 1 /\ NoCrawl.denied = FALSE /\ NoCrawl.taken = 0
    /\ NoCrawl.links = <<>> /\ NoCrawl.items = <<>> /\ NoCrawl.met = {}
    /\ Gone \notin Posting
<1>1. NoCrawl \in CrawlType
  BY DEF NoCrawl, CrawlType
<1>2. Gone \notin Posting
  BY DEF Gone, Posting
<1>3. QED
  BY <1>1, <1>2 DEF Unstored, NoCrawl

LEMMA RowFact ==
    ASSUME NEW r \in RowType
    PROVE  /\ r # Unstored => /\ r \in [status : {"active", "closed"}, title : Titles, hash : Hashes]
                              /\ r.status \in {"active", "closed"}
           /\ r.status \in {"none", "active", "closed"}
           /\ r.status = "none" <=> r = Unstored
  BY NullsFact DEF RowType

\* The first postings listed, as many as may be read.
LEMMA AttemptedFact ==
    ASSUME NEW links \in Seq(Ids), NEW limit \in Nat \X Nat, NEW c, c.links = links, c.limit = limit
    PROVE  /\ Attempted(c) \in Seq(Ids) /\ Len(Attempted(c)) \in Nat
           /\ Len(Attempted(c)) <= Len(links)
           /\ \A k \in 1..Len(Attempted(c)) : Attempted(c)[k] = links[k]
<1> DEFINE n == IF Len(c.links) < c.limit[2] THEN Len(c.links) ELSE c.limit[2]
<1>1. n \in Nat /\ n <= Len(links) /\ Len(links) \in Nat
  OBVIOUS
<1>2. Attempted(c) = SubSeq(links, 1, n)
  BY DEF Attempted
<1> HIDE DEF n
<1>3. \A i \in 1..n : links[i] \in Ids
  BY <1>1
<1>4. /\ SubSeq(links, 1, n) \in Seq(Ids)
      /\ Len(SubSeq(links, 1, n)) = IF 1 <= n THEN n - 1 + 1 ELSE 0
      /\ \A i \in 1..(n - 1 + 1) : SubSeq(links, 1, n)[i] = links[1 + i - 1]
  BY <1>1, <1>3, SubSeqProperties
<1>5. Len(Attempted(c)) = n
  BY <1>1, <1>2, <1>4
<1>6. \A i \in 1..n : SubSeq(links, 1, n)[i] = links[i]
  BY <1>1, <1>4
<1>7. QED
  BY <1>1, <1>2, <1>4, <1>5, <1>6

LEMMA KeyFact ==
    ASSUME NEW s \in Sources, NEW t \in Sources, NEW e, NEW d, NEW h, OwnKey(s, e, h), OwnKey(t, d, h)
    PROVE  s = t \/ (s \notin Html /\ t \notin Html /\ BoardOf[s] = BoardOf[t] /\ e = d)
  BY DEF OwnKey

LEMMA HashFact ==
    ASSUME NEW s \in Sources, NEW e \in Ids, NEW t \in Titles
    PROVE  Hash(s, e, t) \in Hashes /\ OwnKey(s, e, Hash(s, e, t))
  BY DEF Hash, Hashes, OwnKey

\* The rows stay as they are; one collection, or what a board has displayed, changes.
LEMMA GrowsKeeps ==
    ASSUME JobsInv, UNCHANGED <<stored, written, crawl>>, StoreTypes', BoardInv',
           \A b \in Boards, e \in Ids : displayed[b][e] \subseteq displayed'[b][e]
    PROVE  JobsInv'
<1>1. ASSUME NEW s \in Sources PROVE CrawlInv(s, crawl[s])' /\ WritingInv(s)'
  <2>1. CrawlInv(s, crawl[s]) /\ WritingInv(s) /\ BoardOf[s] \in Boards /\ crawl[s] \in CrawlType
    BY StoreHas
  <2>2. \A k \in DOMAIN crawl[s].items : crawl[s].items[k].id \in Ids
    BY <2>1, CrawlHas
  <2>3. CrawlInv(s, crawl[s])'
    BY <2>1, <2>2 DEF CrawlInv
  <2>4. \A e : Placed(s, e)' = Placed(s, e)
    BY DEF Placed, View
  <2>5. WritingInv(s)'
    BY <2>1, <2>4 DEF WritingInv
  <2>6. QED
    BY <2>3, <2>5
<1>2. \A s \in Sources, e \in Ids : PostingInv(s, e, stored[s][e])' /\ PostingInv(s, e, written[s][e])'
  BY StoreHas DEF PostingInv
<1>3. (Unique(stored) /\ Unique(written))'
  BY StoreHas DEF Unique
<1>4. QED
  BY <1>1, <1>2, <1>3 DEF JobsInv

LEMMA EditBoardStep == ASSUME JobsInv, NEW b \in Boards, EditBoard(b) PROVE JobsInv'
<1>1. PICK e \in Ids, p \in Posting \union {Gone} :
          /\ board' = [board EXCEPT ![b][e] = p]
          /\ displayed' = IF p = Gone THEN displayed ELSE [displayed EXCEPT ![b][e] = @ \union {p.title}]
  BY DEF EditBoard
<1>2. edits' = edits + 1 /\ UNCHANGED <<stored, written, crawl, crawls>>
  BY DEF EditBoard
<1>3. p # Gone => p.title \in Titles
  BY DEF Posting
<1>4. board' \in [Boards -> [Ids -> Posting \union {Gone}]]
  BY <1>1, StoreHas
<1>5. displayed' \in [Boards -> [Ids -> SUBSET Titles]]
  BY <1>1, <1>3, StoreHas
<1>6. StoreTypes'
  BY <1>2, <1>4, <1>5, StoreHas DEF StoreTypes
<1>7. \A d \in Boards, i \in Ids : displayed[d][i] \subseteq displayed'[d][i]
  BY <1>1, StoreHas
<1>8. BoardInv'
  <2> SUFFICES ASSUME NEW d \in Boards, NEW i \in Ids, board'[d][i] # Gone
               PROVE  board'[d][i].title \in displayed'[d][i]
    BY DEF BoardInv, Shows
  <2>1. CASE d = b /\ i = e
    BY <1>1, <2>1, StoreHas
  <2>2. CASE ~(d = b /\ i = e)
    <3>1. board'[d][i] = board[d][i]
      BY <1>1, <2>2, StoreHas
    <3>2. QED
      BY <1>7, <3>1, StoreHas DEF BoardInv, Shows
  <2>3. QED
    BY <2>1, <2>2
<1>9. QED
  BY <1>2, <1>6, <1>7, <1>8, GrowsKeeps

\* A crawl that a step leaves alone keeps its invariant, if no posting is shown otherwise.
LEMMA CrawlStays ==
    ASSUME NEW t, crawl'[t] = crawl[t], displayed' = displayed, CrawlInv(t, crawl[t])
    PROVE  CrawlInv(t, crawl[t])'
BY DEF CrawlInv

\* While a source reads, its transaction has changed nothing.
LEMMA ReadingKeeps ==
    ASSUME JobsInv, NEW s \in Sources, NEW c, CrawlInv(s, c), c.taken = 0, Reading(crawl[s]),
           crawl' = [crawl EXCEPT ![s] = c], UNCHANGED <<board, displayed, stored, written, edits>>,
           crawls' \in [Sources -> Nat]
    PROVE  JobsInv'
<1>1. c \in CrawlType /\ crawl' \in [Sources -> CrawlType]
  BY StoreHas DEF CrawlInv
<1>2. StoreTypes'
  BY <1>1, StoreHas DEF StoreTypes
<1>3. ASSUME NEW t \in Sources PROVE CrawlInv(t, crawl[t])' /\ WritingInv(t)'
  <2>0. \A e : Placed(t, e)' = Placed(t, e)
    BY DEF Placed, View
  <2>1. CASE t = s
    <3>1. crawl'[t] = c
      BY <2>1, StoreHas
    <3>2. CrawlInv(t, crawl[t])'
      BY <2>1, <3>1 DEF CrawlInv
    <3>3. written[t] = stored[t]
      BY <2>1, StoreHas DEF WritingInv
    <3>4. ~\E k \in 1..c.taken : TRUE
      OBVIOUS
    <3>5. WritingInv(t)'
      BY <3>1, <3>3, <3>4 DEF WritingInv
    <3>6. QED
      BY <3>2, <3>5
  <2>2. CASE t # s
    <3>1. crawl'[t] = crawl[t]
      BY <2>2, StoreHas
    <3>2. CrawlInv(t, crawl[t])'
      <4>1. CrawlInv(t, crawl[t])
        BY StoreHas
      <4>2. QED
        BY <3>1, <4>1, CrawlStays
    <3>3. WritingInv(t)
      BY StoreHas
    <3>4. WritingInv(t)'
      BY <2>0, <3>1, <3>3 DEF WritingInv
    <3>5. QED
      BY <3>2, <3>4
  <2>3. QED
    BY <2>1, <2>2
<1>4. \A t \in Sources, e \in Ids : PostingInv(t, e, stored[t][e])' /\ PostingInv(t, e, written[t][e])'
  BY StoreHas DEF PostingInv
<1>5. (Unique(stored) /\ Unique(written) /\ BoardInv)'
  BY StoreHas DEF Unique, BoardInv, Shows
<1>6. QED
  BY <1>2, <1>3, <1>4, <1>5 DEF JobsInv

LEMMA InitKeeps == StoreInit => JobsInv
<1> SUFFICES ASSUME StoreInit
             PROVE  JobsInv
  OBVIOUS
<1>1. /\ \A b \in Boards, e \in Ids : board[b][e] \in {Gone} \union [title : Titles, state : {"open"}]
      /\ board \in [Boards -> [Ids -> {Gone} \union [title : Titles, state : {"open"}]]]
  BY DEF StoreInit
<1>2. [title : Titles, state : {"open"}] \subseteq Posting
  BY DEF Posting
<1>3. \A p \in Posting : p.title \in Titles
  BY DEF Posting
<1>4. BoardInv /\ displayed \in [Boards -> [Ids -> SUBSET Titles]]
  BY <1>1, <1>2, <1>3 DEF StoreInit, BoardInv, Shows
<1>5. /\ \A s \in Sources : crawl[s] = NoCrawl /\ written[s] = stored[s]
      /\ \A s \in Sources, e \in Ids : stored[s][e] = Unstored /\ written[s][e] = Unstored
      /\ stored \in [Sources -> [Ids -> RowType]] /\ written = stored
      /\ crawl \in [Sources -> CrawlType] /\ edits \in Nat /\ crawls \in [Sources -> Nat]
  BY NullsFact DEF StoreInit, RowType
<1>6. StoreTypes
  BY <1>1, <1>2, <1>4, <1>5 DEF StoreTypes
<1>7. \A s \in Sources : CrawlInv(s, NoCrawl)
  BY NullsFact DEF CrawlInv, Reading
<1>8. \A s \in Sources : WritingInv(s)
  <2>1. ~\E k \in 1..NoCrawl.taken : TRUE
    BY NullsFact
  <2>2. QED
    BY <1>5, <2>1, NullsFact DEF WritingInv
<1>9. Unique(stored) /\ Unique(written)
  BY <1>5 DEF Unique
<1>10. QED
  BY <1>4, <1>5, <1>6, <1>7, <1>8, <1>9 DEF JobsInv, PostingInv

\* The detail pages follow, or the publication.
LEMMA OnwardKeeps ==
    ASSUME NEW s \in Sources, NEW c \in CrawlType, c.next # 0, ~c.denied, c.taken = 0, c.met = {},
           \A k \in DOMAIN c.items :
              /\ c.items[k].title \in displayed[BoardOf[s]][c.items[k].id]
              /\ c.items[k].hash = Hash(s, c.items[k].id, c.items[k].title),
           s \notin Html => c.failed /\ c.links = <<>>
    PROVE  CrawlInv(s, Onward(c)) /\ Onward(c).taken = 0
<1> DEFINE goes == IF c.next > Len(Attempted(c)) THEN "publishing" ELSE "details"
           d == [c EXCEPT !.tries = 0, !.at = goes]
<1>1. d = Onward(c)
  BY DEF Onward
<1>2. d \in CrawlType /\ d.at = goes
  BY DEF CrawlType
<1>3. /\ d.limit = c.limit /\ d.links = c.links /\ d.next = c.next /\ d.denied = c.denied
      /\ d.failed = c.failed /\ d.items = c.items /\ d.taken = c.taken /\ d.met = c.met
  BY DEF CrawlType
<1> HIDE DEF d
<1>4. Attempted(d) = Attempted(c)
  BY <1>3 DEF Attempted
<1>5. /\ c.next \in Nat /\ c.links \in Seq(Ids) /\ c.limit \in Nat \X Nat
      /\ Len(c.items) \in Nat /\ Len(c.links) \in Nat
  BY CrawlHas DEF CrawlType
<1>6. Len(Attempted(c)) \in Nat /\ Len(Attempted(c)) <= Len(c.links)
  BY <1>5, AttemptedFact
<1>7. s \notin Html => goes = "publishing"
  BY <1>5, <1>6
<1>8. goes = "details" => c.next <= Len(Attempted(c))
  BY <1>5, <1>6
<1> HIDE DEF goes
<1>9. goes \in {"publishing", "details"}
  BY DEF goes
<1>10. CrawlInv(s, d)
  BY <1>2, <1>3, <1>4, <1>5, <1>7, <1>8, <1>9 DEF CrawlInv, Reading
<1>11. QED
  BY <1>1, <1>3, <1>10

\* What a collection that is under way, and not yet publishing, has.
LEMMA ReadingHas ==
    ASSUME JobsInv, NEW s \in Sources, Requesting(s)
    PROVE  /\ crawl[s] \in CrawlType /\ Reading(crawl[s]) /\ crawl[s].next # 0 /\ ~crawl[s].denied
           /\ crawl[s].taken = 0 /\ crawl[s].met = {}
           /\ \A k \in DOMAIN crawl[s].items :
                 /\ crawl[s].items[k].title \in displayed[BoardOf[s]][crawl[s].items[k].id]
                 /\ crawl[s].items[k].hash = Hash(s, crawl[s].items[k].id, crawl[s].items[k].title)
           /\ s \notin Html => crawl[s].at = "listing" /\ crawl[s].links = <<>>
           /\ crawl[s].at = "listing" => crawl[s].items = <<>> /\ crawl[s].next = 1
           /\ crawls \in [Sources -> Nat]
<1>1. CrawlInv(s, crawl[s]) /\ crawls \in [Sources -> Nat]
  BY StoreHas
<1>2. Reading(crawl[s])
  BY DEF Requesting, Reading
<1>3. QED
  BY <1>1, <1>2 DEF CrawlInv, Requesting

LEMMA IdsFact == \A S : S \subseteq Ids => IsFiniteSet(S) /\ \A e \in S : e \in Nat
<1> SUFFICES ASSUME NEW S, S \subseteq Ids
             PROVE  IsFiniteSet(S) /\ \A e \in S : e \in Nat
  OBVIOUS
<1>1. IsFiniteSet(Ids) /\ S \in SUBSET Ids /\ \A e \in Ids : e \in Nat
  BY StoreNames
<1>2. QED
  BY <1>1, FS_Subset

LEMMA ListingFact ==
    ASSUME NEW s \in Sources, NEW n \in Nat
    PROVE  OnPage(s, n) \subseteq Ids
<1> DEFINE S == {e \in Ids : Shows(BoardOf[s], e)}
           all == Up(S)
<1>1. all \in [1..Cardinality(S) -> S]
  BY IdsFact, OrderedFact DEF Up
<1> HIDE DEF all
<1>2. \A k \in DOMAIN all : all[k] \in Ids
  BY <1>1
<1>3. OnPage(s, n) = {all[k] : k \in DOMAIN all \intersect (n - 1) * PageSize + 1..n * PageSize}
  BY DEF OnPage, all
<1>4. QED
  BY <1>2, <1>3

LEMMA ReadPageStep == ASSUME JobsInv, NEW s \in Sources, ReadPage(s) PROVE JobsInv'
<1> DEFINE c == crawl[s]
           links == c.links \o Up(OnPage(s, c.page) \ ToSet(c.links))
           kept == SubSeq(links, 1, IF Len(links) < c.limit[1] THEN Len(links) ELSE c.limit[1])
           more == Len(kept) < c.limit[1] /\ OnPage(s, c.page) # {} /\ HasNext(s, c.page)
<1>0. s \in Html /\ c.at = "listing" /\ Requesting(s)
  BY DEF ReadPage, Requesting
<1>1. c \in CrawlType /\ c.page \in Nat /\ c.links \in Seq(Ids) /\ c.limit[1] \in Nat
  BY <1>0, ReadingHas, CrawlHas
<1>2. links \in Seq(Ids)
  <2>1. Up(OnPage(s, c.page) \ ToSet(c.links)) \in Seq(OnPage(s, c.page) \ ToSet(c.links))
    BY <1>1, ListingFact, IdsFact, OrderedFact DEF Up
  <2>2. Up(OnPage(s, c.page) \ ToSet(c.links)) \in Seq(Ids)
    BY <1>1, <2>1, ListingFact, SeqMonotonic
  <2>3. QED
    BY <1>1, <2>2
<1> HIDE DEF links
<1>3. kept \in Seq(Ids)
  <2> DEFINE n == IF Len(links) < c.limit[1] THEN Len(links) ELSE c.limit[1]
  <2>1. n \in Nat /\ n <= Len(links) /\ Len(links) \in Nat
    BY <1>1, <1>2
  <2> HIDE DEF n
  <2>2. \A i \in 1..n : links[i] \in Ids
    BY <1>2, <2>1
  <2>3. SubSeq(links, 1, n) \in Seq(Ids)
    BY <2>1, <2>2, SubSeqProperties
  <2>4. QED
    BY <2>3 DEF n
<1>4. \/ Becomes(s, [c EXCEPT !.links = kept, !.page = @ + 1, !.tries = 0])
      \/ Becomes(s, Onward([c EXCEPT !.links = kept, !.failed = TRUE]))
      \/ Becomes(s, Onward([c EXCEPT !.links = kept, !.failed = kept = <<>>]))
  BY DEF ReadPage, links
<1> HIDE DEF kept
<1>5. CASE Becomes(s, [c EXCEPT !.links = kept, !.page = @ + 1, !.tries = 0])
  <2> DEFINE page == c.page + 1
             d == [c EXCEPT !.links = kept, !.page = page, !.tries = 0]
  <2>1. page \in Nat
    BY <1>1
  <2> HIDE DEF page
  <2>2. /\ d \in CrawlType /\ d.at = c.at /\ d.next = c.next /\ d.denied = c.denied
        /\ d.items = c.items /\ d.taken = c.taken /\ d.met = c.met
    BY <1>1, <1>3, <2>1 DEF CrawlType
  <2>3. Becomes(s, d)
    BY <1>5 DEF page
  <2> HIDE DEF d
  <2>4. CrawlInv(s, d)
    BY <1>0, <2>2, ReadingHas, CrawlHas DEF CrawlInv, Reading
  <2>5. QED
    BY <1>0, <2>2, <2>3, <2>4, ReadingHas, ReadingKeeps DEF Becomes
<1>6. ASSUME NEW b \in BOOLEAN, Becomes(s, Onward([c EXCEPT !.links = kept, !.failed = b]))
      PROVE  JobsInv'
  <2> DEFINE d == [c EXCEPT !.links = kept, !.failed = b]
  <2>1. /\ d \in CrawlType /\ d.at = c.at /\ d.next = c.next /\ d.denied = c.denied
        /\ d.items = c.items /\ d.taken = c.taken /\ d.met = c.met
    BY <1>1, <1>3 DEF CrawlType
  <2>2. Becomes(s, Onward(d))
    BY <1>6
  <2> HIDE DEF d
  <2>3. CrawlInv(s, Onward(d)) /\ Onward(d).taken = 0
    BY <1>0, <2>1, ReadingHas, OnwardKeeps
  <2>4. QED
    BY <1>0, <2>2, <2>3, ReadingHas, ReadingKeeps DEF Becomes
<1>7. QED
  BY <1>4, <1>5, <1>6

LEMMA ReadBoardStep == ASSUME JobsInv, NEW s \in Sources, ReadBoard(s) PROVE JobsInv'
<1> DEFINE c == crawl[s]
           b == BoardOf[s]
           inScope == {e \in Ids : Shows(b, e) /\ Candidate(board[b][e])}
<1>0. s \notin Html /\ c.at = "listing" /\ Requesting(s) /\ b \in Boards
  BY StoreHas DEF ReadBoard, Requesting
<1>1. PICK upward \in BOOLEAN :
         LET links == Ordered(inScope, upward)
             tried == Attempted([c EXCEPT !.links = links])
             good == Ordered({e \in ToSet(tried) : board[b][e].state = "open"}, upward)
         IN  Becomes(s, [c EXCEPT !.at = "publishing", !.links = links, !.failed = good # tried,
                                  !.items = [k \in DOMAIN good |->
                                                RecordOf(s, good[k], board[b][good[k]])]])
  BY DEF ReadBoard
<1> DEFINE links == Ordered(inScope, upward)
           tried == Attempted([c EXCEPT !.links = links])
           open == {e \in ToSet(tried) : board[b][e].state = "open"}
           good == Ordered(open, upward)
           items == [k \in DOMAIN good |-> RecordOf(s, good[k], board[b][good[k]])]
           d == [c EXCEPT !.at = "publishing", !.links = links, !.failed = good # tried,
                          !.items = items]
<1>2. Becomes(s, d)
  BY <1>1
<1>3. c \in CrawlType /\ ~c.denied /\ c.taken = 0 /\ c.met = {} /\ c.next # 0
  BY <1>0, ReadingHas
<1>4. links \in Seq(Ids) /\ \A e \in ToSet(links) : Shows(b, e)
  <2>1. links \in Seq(inScope)
    BY IdsFact, OrderedFact
  <2>2. QED
    BY <2>1, SeqMonotonic DEF ToSet
<1> HIDE DEF links
<1>5. /\ tried \in Seq(Ids) /\ Len(tried) \in Nat /\ Len(tried) <= Len(links)
      /\ \A k \in 1..Len(tried) : tried[k] = links[k]
  <2> DEFINE x == [c EXCEPT !.links = links]
  <2>1. x.links = links /\ x.limit = c.limit /\ c.limit \in Nat \X Nat
    BY <1>3 DEF CrawlType
  <2> HIDE DEF x
  <2>2. /\ Attempted(x) \in Seq(Ids) /\ Len(Attempted(x)) \in Nat
        /\ Len(Attempted(x)) <= Len(links)
        /\ \A k \in 1..Len(Attempted(x)) : Attempted(x)[k] = links[k]
    BY <1>4, <2>1, AttemptedFact
  <2>3. QED
    BY <2>2 DEF x
<1> HIDE DEF tried
<1>6. open \subseteq Ids /\ \A e \in open : Shows(b, e)
  BY <1>4, <1>5 DEF ToSet
<1>7. good \in Seq(open) /\ good \in [1..Cardinality(open) -> open] /\ Cardinality(open) \in Nat
  BY <1>6, IdsFact, OrderedFact, FS_CardinalityType
<1>8. \A k \in DOMAIN good : good[k] \in Ids /\ Shows(b, good[k])
  BY <1>6, <1>7
<1>9. ASSUME NEW k \in DOMAIN good
      PROVE  /\ items[k] = RecordOf(s, good[k], board[b][good[k]])
             /\ items[k] \in RecordType /\ items[k].id = good[k]
             /\ items[k].title \in displayed[b][items[k].id]
             /\ items[k].hash = Hash(s, items[k].id, items[k].title)
  <2> DEFINE e == good[k]
             p == board[b][e]
  <2>1. e \in Ids /\ p \in Posting /\ p.title \in displayed[b][e]
    <3>1. e \in Ids /\ board[b][e] # Gone /\ Shows(b, e)
      BY <1>8 DEF Shows
    <3> HIDE DEF e, b, open, good
    <3>2. board[b][e] \in Posting \union {Gone}
      BY <1>0, <3>1, StoreHas
    <3>3. board[b][e].title \in displayed[b][e]
      BY <1>0, <3>1, StoreHas DEF BoardInv
    <3>4. QED
      BY <3>1, <3>2, <3>3
  <2>2. p.title \in Titles
    BY <2>1 DEF Posting
  <2> HIDE DEF p
  <2>3. RecordOf(s, e, p) \in RecordType
    BY <2>1, <2>2, HashFact DEF RecordOf, RecordType, StatusOf
  <2>4. QED
    BY <2>1, <2>3 DEF RecordOf, p
<1>10. items \in Seq(RecordType) /\ DOMAIN items = DOMAIN good
  <2>1. DOMAIN items = DOMAIN good /\ DOMAIN good = 1..Cardinality(open)
    BY <1>7
  <2>2. items = [k \in 1..Cardinality(open) |-> items[k]]
    BY <2>1
  <2> HIDE DEF items, good
  <2>3. items \in [1..Cardinality(open) -> RecordType]
    BY <1>9, <2>1, <2>2
  <2> HIDE DEF open
  <2>4. QED
    BY <1>7, <2>1, <2>3
<1> HIDE DEF items
<1>11. d \in CrawlType /\ d.at = "publishing"
  BY <1>3, <1>4, <1>10 DEF CrawlType
<1>12. /\ d.links = links /\ d.failed = (good # tried) /\ d.items = items /\ d.next = c.next
       /\ d.denied = c.denied /\ d.taken = c.taken /\ d.met = c.met
  BY <1>3 DEF CrawlType
<1> HIDE DEF d
<1>13. ~d.failed => \A k \in DOMAIN d.items : k \in DOMAIN d.links /\ d.items[k].id = d.links[k]
  <2> SUFFICES ASSUME good = tried, NEW k \in DOMAIN good
               PROVE  k \in DOMAIN links /\ items[k].id = links[k]
    BY <1>10, <1>12
  <2>1. k \in 1..Len(tried)
    BY <1>5
  <2>2. k \in DOMAIN links /\ tried[k] = links[k]
    BY <1>4, <1>5, <2>1
  <2>3. QED
    BY <1>9, <2>2
<1>14. Len(d.items) \in Nat
  BY <1>10, <1>12
<1>15. /\ ~\E k \in 1..d.taken : TRUE
       /\ d.taken <= Len(d.items) /\ d.met = {}
  BY <1>3, <1>12, <1>14
<1>16. \A k \in DOMAIN d.items : /\ d.items[k].title \in displayed[BoardOf[s]][d.items[k].id]
                                 /\ d.items[k].hash = Hash(s, d.items[k].id, d.items[k].title)
  BY <1>9, <1>10, <1>12
<1>17. CrawlInv(s, d)
  BY <1>3, <1>11, <1>12, <1>13, <1>15, <1>16 DEF CrawlInv, Reading
<1>18. QED
  BY <1>0, <1>2, <1>3, <1>12, <1>17, ReadingHas, ReadingKeeps DEF Becomes

LEMMA ReadDetailStep == ASSUME JobsInv, NEW s \in Sources, ReadDetail(s) PROVE JobsInv'
<1> DEFINE c == crawl[s]
           e == c.links[c.next]
           p == board[BoardOf[s]][e]
           next == c.next + 1
           read == [c EXCEPT !.next = next]
           r == RecordOf(s, e, p)
<1>0. c.at = "details" /\ Requesting(s) /\ BoardOf[s] \in Boards
  BY StoreHas DEF ReadDetail, Requesting
<1>1. s \in Html
  BY <1>0, ReadingHas
<1>2. c \in CrawlType /\ c.next \in Nat /\ c.links \in Seq(Ids) /\ c.next # 0 /\ Len(c.links) \in Nat
      /\ c.items \in Seq(RecordType) /\ c.limit \in Nat \X Nat
  BY <1>0, ReadingHas, CrawlHas DEF CrawlType
<1>3. c.next <= Len(Attempted(c))
  BY <1>0, StoreHas DEF CrawlInv
<1>4. e \in Ids
  <2>1. Len(Attempted(c)) <= Len(c.links) /\ Len(Attempted(c)) \in Nat
    BY <1>2, AttemptedFact
  <2>2. c.next \in 1..Len(c.links)
    BY <1>2, <1>3, <2>1
  <2>3. QED
    BY <1>2, <2>2
<1>5. next \in Nat /\ next # 0
  BY <1>2
<1>6. \/ p # Gone /\ Becomes(s, Onward(read))
      \/ p # Gone /\ Becomes(s, Onward([read EXCEPT !.items = Append(@, r)]))
      \/ Becomes(s, Onward([read EXCEPT !.failed = TRUE]))
  BY DEF ReadDetail, Parses
<1> HIDE DEF next
<1>7. /\ read \in CrawlType /\ read.next = next /\ read.links = c.links /\ read.items = c.items
      /\ read.denied = c.denied /\ read.taken = c.taken /\ read.met = c.met
      /\ [read EXCEPT !.failed = TRUE] \in CrawlType
  BY <1>2, <1>5 DEF CrawlType
<1>8. ASSUME NEW d \in CrawlType, d.next = next, d.denied = c.denied, d.taken = c.taken,
             d.met = c.met,
             \A k \in DOMAIN d.items :
                /\ d.items[k].title \in displayed[BoardOf[s]][d.items[k].id]
                /\ d.items[k].hash = Hash(s, d.items[k].id, d.items[k].title),
             Becomes(s, Onward(d))
      PROVE  JobsInv'
  <2>1. CrawlInv(s, Onward(d)) /\ Onward(d).taken = 0
    BY <1>0, <1>1, <1>5, <1>8, ReadingHas, OnwardKeeps
  <2>2. QED
    BY <1>0, <1>8, <2>1, ReadingHas, ReadingKeeps DEF Becomes
<1>9. \A k \in DOMAIN c.items :
         /\ c.items[k].title \in displayed[BoardOf[s]][c.items[k].id]
         /\ c.items[k].hash = Hash(s, c.items[k].id, c.items[k].title)
  BY <1>0, ReadingHas
<1>10. CASE Becomes(s, Onward(read))
  BY <1>7, <1>8, <1>9, <1>10
<1>11. CASE Becomes(s, Onward([read EXCEPT !.failed = TRUE]))
  <2> DEFINE d == [read EXCEPT !.failed = TRUE]
  <2>1. d \in CrawlType /\ d.next = next /\ d.items = c.items /\ d.denied = c.denied
        /\ d.taken = c.taken /\ d.met = c.met
    BY <1>2, <1>5, <1>7 DEF CrawlType
  <2> HIDE DEF d, read
  <2>2. Becomes(s, Onward(d))
    BY <1>11 DEF d
  <2>3. QED
    BY <1>8, <1>9, <2>1, <2>2
<1>12. CASE p # Gone /\ Becomes(s, Onward([read EXCEPT !.items = Append(@, r)]))
  <2> DEFINE items == Append(c.items, r)
             d == [read EXCEPT !.items = items]
  <2>1. p \in Posting /\ p.title \in displayed[BoardOf[s]][e]
    <3>1. BoardOf[s] \in Boards /\ e \in Ids /\ BoardInv
      BY <1>0, <1>4, StoreHas
    <3>2. board[BoardOf[s]][e] \in Posting \union {Gone}
      BY <3>1, StoreHas
    <3>3. QED
      BY <1>12, <3>1, <3>2 DEF Shows, BoardInv
  <2>2. p.title \in Titles
    BY <2>1 DEF Posting
  <2>3. r \in RecordType
    BY <1>4, <2>2, HashFact DEF RecordOf, RecordType, StatusOf
  <2>4. r.id = e /\ r.title = p.title /\ r.hash = Hash(s, e, p.title)
    BY DEF RecordOf
  <2> HIDE DEF r, p, e
  <2>5. /\ items \in Seq(RecordType)
        /\ \A k \in DOMAIN items : (k \in DOMAIN c.items /\ items[k] = c.items[k]) \/ items[k] = r
    BY <1>2, <2>3
  <2> HIDE DEF items
  <2>6. d \in CrawlType /\ d.next = next /\ d.items = items /\ d.denied = c.denied
        /\ d.taken = c.taken /\ d.met = c.met
    BY <1>2, <1>5, <1>7, <2>5 DEF CrawlType
  <2>7. Becomes(s, Onward(d))
    BY <1>7, <1>12 DEF items
  <2> HIDE DEF d, read
  <2>8. \A k \in DOMAIN items :
           /\ items[k].title \in displayed[BoardOf[s]][items[k].id]
           /\ items[k].hash = Hash(s, items[k].id, items[k].title)
    BY <1>9, <2>1, <2>4, <2>5
  <2>9. QED
    BY <1>8, <2>6, <2>7, <2>8
<1>13. QED
  BY <1>6, <1>10, <1>11, <1>12

LEMMA RetryStep == ASSUME JobsInv, NEW s \in Sources, Retry(s) PROVE JobsInv'
<1> DEFINE c == crawl[s]
           tries == c.tries + 1
           d == [c EXCEPT !.tries = tries]
<1>1. Requesting(s) /\ Becomes(s, d)
  BY DEF Retry
<1>2. c \in CrawlType /\ c.tries \in Nat
  BY <1>1, ReadingHas, CrawlHas
<1>3. tries \in Nat
  BY <1>2
<1> HIDE DEF tries
<1>4. /\ d \in CrawlType /\ d.at = c.at /\ d.next = c.next /\ d.denied = c.denied /\ d.items = c.items
      /\ d.taken = c.taken /\ d.met = c.met /\ d.links = c.links /\ d.limit = c.limit
      /\ d.failed = c.failed
  BY <1>2, <1>3 DEF CrawlType
<1> HIDE DEF d
<1>5. Attempted(d) = Attempted(c)
  BY <1>4 DEF Attempted
<1>6. CrawlInv(s, c)
  BY StoreHas
<1>7. CrawlInv(s, d)
  BY <1>4, <1>5, <1>6 DEF CrawlInv, Reading
<1>8. QED
  BY <1>1, <1>4, <1>7, ReadingHas, ReadingKeeps DEF Becomes

LEMMA RefusedStep == ASSUME JobsInv, NEW s \in Sources, Refused(s) PROVE JobsInv'
<1> DEFINE c == crawl[s]
           d == [c EXCEPT !.at = "publishing", !.denied = TRUE, !.failed = TRUE]
<1>1. Requesting(s) /\ Becomes(s, d)
  BY DEF Refused
<1>2. c \in CrawlType /\ Len(c.items) \in Nat
  BY <1>1, ReadingHas, CrawlHas
<1>3. /\ d \in CrawlType /\ d.at = "publishing" /\ d.next = c.next /\ d.items = c.items
      /\ d.taken = c.taken /\ d.met = c.met /\ d.failed = TRUE
  BY <1>2 DEF CrawlType
<1> HIDE DEF d
<1>4. CrawlInv(s, c)
  BY StoreHas
<1>5. CrawlInv(s, d)
  BY <1>3, <1>4 DEF CrawlInv, Reading
<1>6. QED
  BY <1>1, <1>3, <1>5, ReadingHas, ReadingKeeps DEF Becomes

LEMMA ListingFailsStep == ASSUME JobsInv, NEW s \in Sources, ListingFails(s) PROVE JobsInv'
<1> DEFINE c == crawl[s]
           d == [c EXCEPT !.failed = TRUE]
<1>1. Requesting(s) /\ Becomes(s, Onward(d))
  BY DEF ListingFails, Requesting
<1>2. c \in CrawlType
  BY <1>1, ReadingHas
<1>3. /\ d \in CrawlType /\ d.next = c.next /\ d.items = c.items /\ d.links = c.links
      /\ d.taken = c.taken /\ d.met = c.met /\ d.failed = TRUE /\ d.denied = c.denied
  BY <1>2 DEF CrawlType
<1> HIDE DEF d
<1>4. CrawlInv(s, Onward(d)) /\ Onward(d).taken = 0
  BY <1>1, <1>3, ReadingHas, OnwardKeeps
<1>5. QED
  BY <1>1, <1>4, ReadingHas, ReadingKeeps DEF Becomes

LEMMA StartCrawlStep == ASSUME JobsInv, NEW s \in Sources, StartCrawl(s) PROVE JobsInv'
<1>1. PICK l \in Limits[s] :
         crawl' = [crawl EXCEPT ![s] = [NoCrawl EXCEPT !.at = "listing", !.limit = l]]
  BY DEF StartCrawl
<1> DEFINE d == [NoCrawl EXCEPT !.at = "listing", !.limit = l]
<1>2. l \in Nat \X Nat
  BY StoreLimits
<1>3. /\ d \in CrawlType /\ d.at = "listing" /\ d.next = NoCrawl.next /\ d.items = NoCrawl.items
      /\ d.links = NoCrawl.links /\ d.taken = NoCrawl.taken /\ d.met = NoCrawl.met
      /\ d.denied = NoCrawl.denied
  BY <1>2, NullsFact DEF CrawlType
<1> HIDE DEF d
<1>4. d.next = 1 /\ d.items = <<>> /\ d.links = <<>> /\ d.taken = 0 /\ d.met = {} /\ ~d.denied
  BY <1>3, NullsFact
<1>5. CrawlInv(s, d)
  BY <1>3, <1>4 DEF CrawlInv, Reading
<1>6. crawls' \in [Sources -> Nat]
  <2> DEFINE n == crawls[s] + 1
  <2>1. crawls \in [Sources -> Nat] /\ n \in Nat
    BY StoreHas
  <2>2. crawls' = [crawls EXCEPT ![s] = n]
    BY DEF StartCrawl
  <2> HIDE DEF n
  <2>3. QED
    BY <2>1, <2>2
<1>7. Reading(crawl[s]) /\ crawl' = [crawl EXCEPT ![s] = d]
  BY <1>1 DEF StartCrawl, Reading, d
<1>8. UNCHANGED <<board, displayed, stored, written, edits>>
  BY DEF StartCrawl
<1>9. QED
  BY <1>4, <1>5, <1>6, <1>7, <1>8, ReadingKeeps

\* A source writes its transaction, or gives it up; nobody else sees it.
LEMMA TransactionKeeps ==
    ASSUME JobsInv, NEW s \in Sources, NEW c, NEW rows, CrawlInv(s, c), rows \in [Ids -> RowType],
           \A e \in Ids : PostingInv(s, e, rows[e]),
           crawl' = [crawl EXCEPT ![s] = c], written' = [written EXCEPT ![s] = rows],
           UNCHANGED <<board, displayed, stored, edits, crawls>>, Unique(written)', WritingInv(s)'
    PROVE  JobsInv'
<1>1. c \in CrawlType /\ crawl' \in [Sources -> CrawlType] /\ written' \in [Sources -> [Ids -> RowType]]
  BY StoreHas DEF CrawlInv
<1>2. StoreTypes'
  BY <1>1, StoreHas DEF StoreTypes
<1>3. ASSUME NEW t \in Sources PROVE CrawlInv(t, crawl[t])' /\ WritingInv(t)'
  <2>1. CASE t = s
    <3>1. crawl'[t] = c
      BY <2>1, StoreHas
    <3>2. CrawlInv(t, crawl[t])'
      BY <2>1, <3>1 DEF CrawlInv
    <3>3. QED
      BY <2>1, <3>2
  <2>2. CASE t # s
    <3>1. crawl'[t] = crawl[t] /\ written'[t] = written[t]
      BY <2>2, StoreHas
    <3>2. CrawlInv(t, crawl[t])'
      <4>1. CrawlInv(t, crawl[t])
        BY StoreHas
      <4>2. QED
        BY <3>1, <4>1, CrawlStays
    <3>3. \A e : Placed(t, e)' = Placed(t, e)
      BY <3>1 DEF Placed, View
    <3>4. WritingInv(t)
      BY StoreHas
    <3>5. WritingInv(t)'
      BY <3>1, <3>3, <3>4 DEF WritingInv
    <3>6. QED
      BY <3>2, <3>5
  <2>3. QED
    BY <2>1, <2>2
<1>4. ASSUME NEW t \in Sources, NEW e \in Ids
      PROVE  PostingInv(t, e, stored[t][e])' /\ PostingInv(t, e, written[t][e])'
  <2>1. written'[t] = IF t = s THEN rows ELSE written[t]
    BY StoreHas
  <2>2. PostingInv(t, e, stored[t][e]) /\ PostingInv(t, e, written'[t][e])
    BY <2>1, StoreHas
  <2>3. QED
    BY <2>2 DEF PostingInv
<1>5. (Unique(stored) /\ BoardInv)'
  BY StoreHas DEF Unique, BoardInv, Shows
<1>6. QED
  BY <1>2, <1>3, <1>4, <1>5 DEF JobsInv

LEMMA WaitForOtherStep == ASSUME JobsInv, NEW s \in Sources, WaitForOther(s) PROVE JobsInv'
<1> DEFINE c == crawl[s]
           d == [c EXCEPT !.at = "waiting"]
<1>1. Publishing(s) /\ Becomes(s, d)
  BY DEF WaitForOther
<1>2. c \in CrawlType /\ CrawlInv(s, c) /\ WritingInv(s) /\ c.at = "publishing"
      /\ c.taken < Len(c.items)
  BY <1>1, StoreHas DEF Publishing
<1>3. /\ d \in CrawlType /\ d.at = "waiting" /\ d.next = c.next /\ d.denied = c.denied
      /\ d.items = c.items /\ d.taken = c.taken /\ d.met = c.met /\ d.links = c.links
      /\ d.limit = c.limit /\ d.failed = c.failed
  BY <1>2 DEF CrawlType
<1> HIDE DEF d
<1>4. CrawlInv(s, d)
  BY <1>2, <1>3 DEF CrawlInv, Reading
<1>5. crawl'[s] = d /\ UNCHANGED <<stored, written>>
  BY <1>1, StoreHas DEF Becomes
<1>6. \A e : Placed(s, e)' = Placed(s, e)
  BY <1>5 DEF Placed, View
<1>7. WritingInv(s)'
  BY <1>2, <1>3, <1>5, <1>6 DEF WritingInv, Reading
<1>8. Unique(written)' /\ written' = [written EXCEPT ![s] = written[s]]
  BY <1>5, StoreHas DEF Unique
<1>9. written[s] \in [Ids -> RowType] /\ \A e \in Ids : PostingInv(s, e, written[s][e])
  BY StoreHas
<1>10. QED
  BY <1>1, <1>4, <1>7, <1>8, <1>9, TransactionKeeps DEF Becomes

LEMMA GiveUpKeeps ==
    ASSUME JobsInv, NEW s \in Sources, Ends(s), written' = [written EXCEPT ![s] = stored[s]],
           UNCHANGED <<board, displayed, stored, edits, crawls>>
    PROVE  JobsInv'
<1>1. CrawlInv(s, NoCrawl)
  BY NullsFact DEF CrawlInv, Reading
<1>2. crawl' = [crawl EXCEPT ![s] = NoCrawl] /\ crawl'[s] = NoCrawl
  BY StoreHas DEF Ends
<1>3. written'[s] = stored[s] /\ stored'[s] = stored[s]
  BY StoreHas
<1>4. WritingInv(s)'
  <2>1. ~\E k \in 1..NoCrawl.taken : TRUE
    BY NullsFact
  <2>2. \A e \in Ids : stored[s][e].status = "active" => stored[s][e].status # "closed"
    OBVIOUS
  <2>3. QED
    BY <1>2, <1>3, <2>1, <2>2 DEF WritingInv
<1>5. Unique(written)'
  <2> SUFFICES ASSUME NEW u \in Sources, NEW t \in Sources, NEW e \in Ids, NEW d \in Ids,
                      written'[u][e] # Unstored, written'[t][d] # Unstored,
                      written'[u][e].hash = written'[t][d].hash
               PROVE  u = t /\ e = d
    BY DEF Unique
  <2>1. /\ \A x \in Sources : written'[x] = IF x = s THEN stored[s] ELSE written[x]
        /\ Unique(stored) /\ Unique(written)
    BY StoreHas
  <2>2. CASE u # s /\ t # s
    BY <2>1, <2>2 DEF Unique
  <2>3. CASE u = s /\ t = s
    BY <2>1, <2>3 DEF Unique
  <2>4. ASSUME NEW x \in Sources, x # s, NEW i \in Ids, NEW j \in Ids, stored[s][i] # Unstored,
               written[x][j] # Unstored, stored[s][i].hash = written[x][j].hash
        PROVE  FALSE
    <3>1. written[s][i] # Unstored
      BY <2>4, StoreHas DEF WritingInv
    <3>2. /\ OwnKey(s, i, stored[s][i].hash) /\ OwnKey(s, i, written[s][i].hash)
          /\ OwnKey(x, j, written[x][j].hash)
      BY <2>4, <3>1, StoreHas DEF PostingInv
    <3>3. s \notin Html /\ x \notin Html /\ BoardOf[s] = BoardOf[x] /\ i = j
      BY <2>4, <3>2, KeyFact
    <3>4. written[s][i].hash = written[x][j].hash
      BY <3>2, <3>3 DEF OwnKey
    <3>5. QED
      BY <2>1, <2>4, <3>1, <3>4 DEF Unique
  <2>5. QED
    BY <2>1, <2>2, <2>3, <2>4
<1>6. QED
  BY <1>1, <1>2, <1>4, <1>5, StoreHas, TransactionKeeps

\* A source sees what it wrote and what the others have committed.
LEMMA ViewFact ==
    ASSUME JobsInv, NEW s \in Sources
    PROVE  \A t \in Sources : View(s)[t] = IF t = s THEN written[s] ELSE stored[t]
  BY StoreHas DEF View

LEMMA OwnersFact ==
    ASSUME NEW rows, NEW h, NEW t \in Sources, NEW e \in Ids
    PROVE  <<t, e>> \in Owners(rows, h) <=> rows[t][e] # Unstored /\ rows[t][e].hash = h
  BY DEF Owners, Known

\* Another row of the same key would be of another source of the same board.
LEMMA OthersKeyFact ==
    ASSUME JobsInv, NEW s \in Sources, NEW e \in Ids, NEW h, OwnKey(s, e, h), NEW t \in Sources, t # s,
           NEW d \in Ids, written[t][d] # Unstored, written[t][d].hash = h
    PROVE  /\ s \notin Html /\ d = e /\ BoardOf[t] = BoardOf[s]
           /\ \A g : OwnKey(s, e, g) => g = h
           /\ stored[t][d] # Unstored => stored[t][d].hash = h
<1>1. OwnKey(t, d, h) /\ (stored[t][d] # Unstored => OwnKey(t, d, stored[t][d].hash))
  BY StoreHas DEF PostingInv
<1>2. s \notin Html /\ t \notin Html /\ BoardOf[s] = BoardOf[t] /\ d = e
  BY <1>1, KeyFact
<1>3. QED
  BY <1>1, <1>2 DEF OwnKey

\* What the next record of a publication is.
LEMMA RecordHas ==
    ASSUME JobsInv, NEW s \in Sources, ~Reading(crawl[s]), crawl[s].taken < Len(crawl[s].items)
    PROVE  /\ Record(s) \in RecordType /\ Record(s).id \in Ids /\ Record(s).title \in Titles
           /\ Record(s).status \in {"active", "closed"} /\ Record(s).hash \in Hashes
           /\ Record(s).title \in displayed[BoardOf[s]][Record(s).id]
           /\ Record(s).hash = Hash(s, Record(s).id, Record(s).title)
           /\ OwnKey(s, Record(s).id, Record(s).hash)
           /\ crawl[s].taken + 1 \in DOMAIN crawl[s].items
           /\ crawl[s].items[crawl[s].taken + 1] = Record(s)
<1>1. crawl[s] \in CrawlType /\ CrawlInv(s, crawl[s])
  BY StoreHas
<1>2. crawl[s].taken + 1 \in DOMAIN crawl[s].items
  BY <1>1, CrawlHas
<1>3. Record(s) \in RecordType
  BY <1>1, <1>2, CrawlHas DEF Record
<1>4. /\ Record(s).id \in Ids /\ Record(s).title \in Titles /\ Record(s).hash \in Hashes
      /\ Record(s).status \in {"active", "closed"}
  BY <1>3 DEF RecordType
<1>5. /\ Record(s).title \in displayed[BoardOf[s]][Record(s).id]
      /\ Record(s).hash = Hash(s, Record(s).id, Record(s).title)
  BY <1>1, <1>2 DEF CrawlInv, Record
<1>6. QED
  BY <1>2, <1>3, <1>4, <1>5, HashFact DEF Record

\* What a record may do to the rows of its source: at most its own posting's is new.
MayBecome(s, rows) ==
    LET r == Record(s)
    IN  /\ rows \in [Ids -> RowType]
        /\ \A e \in Ids : e # r.id => rows[e] = written[s][e]
        /\ \/ rows[r.id] = written[s][r.id]
           \/ /\ rows[r.id] # Unstored /\ rows[r.id].title = r.title
              /\ rows[r.id].status = r.status /\ OwnKey(s, r.id, rows[r.id].hash)
              /\ \A t \in Sources, e \in Ids :
                    written[t][e] # Unstored /\ written[t][e].hash = rows[r.id].hash
                        => t = s /\ e = r.id
        /\ s \notin Html => rows[r.id] # Unstored \/ Placed(s, r.id)

LEMMA TakeKeeps ==
    ASSUME JobsInv, NEW s \in Sources, crawl[s].at \in {"publishing", "waiting"},
           crawl[s].taken < Len(crawl[s].items), Take(s), NEW rows, MayBecome(s, rows),
           written' = [written EXCEPT ![s] = rows]
    PROVE  JobsInv'
<1> DEFINE c == crawl[s]
           r == Record(s)
           i == Record(s).id
           new == IF Met(r) \intersect c.met = {} THEN Met(r) ELSE {}
           next == c.taken + 1
           met == c.met \union new
           d == [c EXCEPT !.at = "publishing", !.taken = next, !.met = met]
<1>0. /\ rows \in [Ids -> RowType]
      /\ \A e \in Ids : e # i => rows[e] = written[s][e]
      /\ \/ rows[i] = written[s][i]
         \/ /\ rows[i] # Unstored /\ rows[i].title = r.title /\ rows[i].status = r.status
            /\ OwnKey(s, i, rows[i].hash)
            /\ \A t \in Sources, e \in Ids :
                  written[t][e] # Unstored /\ written[t][e].hash = rows[i].hash => t = s /\ e = i
      /\ s \notin Html => rows[i] # Unstored \/ Placed(s, i)
  BY DEF MayBecome
<1>1. ~Reading(c) /\ c \in CrawlType /\ CrawlInv(s, c) /\ WritingInv(s)
  BY StoreHas DEF Reading
<1>2. /\ c.taken \in Nat /\ Len(c.items) \in Nat /\ next \in Nat /\ next <= Len(c.items)
      /\ \A k \in 1..next : k \in 1..c.taken \/ k = next
      /\ 1..c.taken \subseteq 1..next /\ next \in 1..next
  BY <1>1, CrawlHas
<1>3. next \in DOMAIN c.items /\ c.items[next] = r /\ i \in Ids
  BY <1>1, RecordHas
<1>4. Met(r) \in SUBSET ({"id"} \X Ids \union {"hash"} \X Hashes)
  BY <1>1, RecordHas DEF Met
<1>5. c.met \in SUBSET ({"id"} \X Ids \union {"hash"} \X Hashes)
  BY <1>1, CrawlHas
<1>6. crawl' = [crawl EXCEPT ![s] = d] /\ UNCHANGED <<board, displayed, stored, edits, crawls>>
  <2>1. crawl' = [crawl EXCEPT ![s].at = "publishing", ![s].taken = @ + 1, ![s].met = @ \union new]
    BY DEF Take
  <2>2. crawl \in [Sources -> CrawlType]
    BY StoreHas
  <2>3. QED
    BY <1>1, <2>1, <2>2 DEF Take, CrawlType
<1> HIDE DEF next, r, i
<1>7. met \in SUBSET ({"id"} \X Ids \union {"hash"} \X Hashes)
  BY <1>4, <1>5
<1>8. \A m \in met : m \in c.met \/ m \in Met(r)
  OBVIOUS
<1> HIDE DEF met
<1>9. /\ d \in CrawlType /\ d.at = "publishing" /\ d.next = c.next /\ d.denied = c.denied
      /\ d.items = c.items /\ d.taken = next /\ d.met = met /\ d.links = c.links
      /\ d.limit = c.limit /\ d.failed = c.failed
  BY <1>1, <1>2, <1>7 DEF CrawlType
<1> HIDE DEF d
<1>10. \A m \in d.met : \E k \in 1..d.taken : m \in Met(d.items[k])
  <2> SUFFICES ASSUME NEW m \in met
               PROVE  \E k \in 1..next : m \in Met(c.items[k])
    BY <1>9
  <2>1. CASE m \in c.met
    <3>1. PICK k \in 1..c.taken : m \in Met(c.items[k])
      BY <1>1, <2>1 DEF CrawlInv
    <3>2. QED
      BY <1>2, <3>1
  <2>2. CASE m \in Met(r)
    BY <1>2, <1>3, <2>2
  <2>3. QED
    BY <1>8, <2>1, <2>2
<1>11. CrawlInv(s, d)
  BY <1>1, <1>2, <1>9, <1>10 DEF CrawlInv, Reading
<1>12. /\ crawl'[s] = d /\ stored' = stored /\ written'[s] = rows
       /\ \A t \in Sources : written'[t] = IF t = s THEN rows ELSE written[t]
  BY <1>6, StoreHas
<1>13. \A e \in Ids : written[s][e] # Unstored => rows[e] # Unstored
  BY <1>0
<1>14. ASSUME NEW e \in Ids, Placed(s, e) \/ rows[e] # Unstored PROVE Placed(s, e)'
  <2>1. \A t \in Sources : View(s)'[t] = IF t = s THEN rows ELSE stored[t]
    BY <1>12, StoreHas DEF View
  <2>2. CASE rows[e] # Unstored
    BY <2>1, <2>2 DEF Placed
  <2>3. CASE Placed(s, e)
    <3>1. PICK t \in Sources : BoardOf[t] = BoardOf[s] /\ View(s)[t][e] # Unstored
      BY <2>3 DEF Placed
    <3>2. View(s)'[t][e] # Unstored
      BY <1>13, <2>1, <3>1, ViewFact
    <3>3. QED
      BY <3>1, <3>2 DEF Placed
  <2>4. QED
    BY <1>14, <2>2, <2>3
<1>15. WritingInv(s)'
  <2>1. ASSUME NEW e \in Ids, stored[s][e] # Unstored PROVE rows[e] # Unstored
    BY <1>1, <1>13, <2>1 DEF WritingInv
  <2>2. ASSUME NEW e \in Ids, rows[e].status = "closed", stored[s][e].status = "active"
        PROVE  \E k \in DOMAIN c.items : c.items[k].id = e /\ c.items[k].status = "closed"
    <3>1. CASE rows[e] = written[s][e]
      BY <1>1, <2>2, <3>1 DEF WritingInv
    <3>2. CASE rows[e] # written[s][e]
      <4>1. e = i /\ rows[e].status = r.status
        BY <1>0, <3>2
      <4>2. QED
        BY <1>3, <2>2, <4>1 DEF i, r
    <3>3. QED
      BY <3>1, <3>2
  <2>3. ASSUME s \notin Html, NEW k \in 1..next, NEW e \in Ids, e = c.items[k].id PROVE Placed(s, e)'
    <3>1. CASE k \in 1..c.taken
      <4>1. Placed(s, e)
        <5>1. k \in DOMAIN c.items
          BY <1>1, <1>2, <3>1, CrawlHas
        <5>2. QED
          BY <1>1, <2>3, <3>1, <5>1, CrawlHas DEF WritingInv
      <4>2. QED
        BY <1>14, <4>1
    <3>2. CASE k = next
      <4>1. e = i
        BY <1>3, <2>3, <3>2 DEF r, i
      <4>2. Placed(s, e) \/ rows[e] # Unstored
        BY <1>0, <2>3, <4>1
      <4>3. QED
        BY <1>14, <4>2
    <3>3. QED
      BY <1>2, <3>1, <3>2
  <2>4. ~Reading(d)
    BY <1>9 DEF Reading
  <2>5. \A k \in 1..next : c.items[k].id \in Ids
    <3>1. 1..next \subseteq DOMAIN c.items
      BY <1>1, <1>2, CrawlHas
    <3>2. QED
      BY <1>1, <3>1, CrawlHas
  <2>6. crawl'[s].taken = next /\ crawl'[s].items = c.items
    BY <1>9, <1>12
  <2>7. s \notin Html => \A k \in 1..crawl'[s].taken : Placed(s, crawl[s].items[k].id)'
    <3> SUFFICES ASSUME s \notin Html, NEW k \in 1..next, NEW e, e = c.items[k].id
                 PROVE  Placed(s, e)'
      BY <2>6
    <3>1. QED
      BY <2>3, <2>5
  <2>8. QED
    BY <1>9, <1>12, <2>1, <2>2, <2>4, <2>7 DEF WritingInv
<1>16. \A e \in Ids : PostingInv(s, e, rows[e])
  <2>1. \A e \in Ids : PostingInv(s, e, written[s][e])
    BY StoreHas
  <2>2. r.title \in displayed[BoardOf[s]][i]
    BY <1>1, RecordHas DEF r, i
  <2>3. PostingInv(s, i, rows[i])
    BY <1>0, <1>3, <2>1, <2>2 DEF PostingInv
  <2>4. QED
    BY <1>0, <2>1, <2>3
<1>17. Unique(written)'
  <2> SUFFICES ASSUME NEW u \in Sources, NEW t \in Sources, NEW e \in Ids, NEW f \in Ids,
                      written'[u][e] # Unstored, written'[t][f] # Unstored,
                      written'[u][e].hash = written'[t][f].hash
               PROVE  u = t /\ e = f
    BY DEF Unique
  <2>1. Unique(written)
    BY StoreHas
  <2>2. \A x \in Sources, y \in Ids : (x = s /\ y = i) \/ written'[x][y] = written[x][y]
    BY <1>0, <1>12
  <2>3. CASE rows[i] = written[s][i]
    <3>1. \A x \in Sources, y \in Ids : written'[x][y] = written[x][y]
      BY <1>3, <1>12, <2>2, <2>3
    <3>2. QED
      BY <2>1, <3>1 DEF Unique
  <2>4. CASE rows[i] # written[s][i]
    <3>1. \A x \in Sources, y \in Ids :
             written[x][y] # Unstored /\ written[x][y].hash = rows[i].hash => x = s /\ y = i
      BY <1>0, <2>4
    <3>2. written'[s][i] = rows[i]
      BY <1>12
    <3>3. QED
      BY <2>1, <2>2, <3>1, <3>2 DEF Unique
  <2>5. QED
    BY <2>3, <2>4
<1>18. QED
  BY <1>0, <1>6, <1>11, <1>15, <1>16, <1>17, TransactionKeeps

\* A record met before, or whose posting another source has, leaves the rows alone.
LEMMA LeftOutIsPlaced ==
    ASSUME JobsInv, NEW s \in Sources, ~Reading(crawl[s]), crawl[s].taken < Len(crawl[s].items),
           s \notin Html,
           \/ Met(Record(s)) \intersect crawl[s].met # {}
           \/ Owners(View(s), Record(s).hash) # {}
    PROVE  Placed(s, Record(s).id)
<1> DEFINE r == Record(s)
           c == crawl[s]
<1>1. r.id \in Ids /\ r.hash = <<"id", BoardOf[s], r.id>> /\ OwnKey(s, r.id, r.hash)
  BY RecordHas DEF OwnKey
<1>2. c \in CrawlType /\ CrawlInv(s, c) /\ WritingInv(s)
  BY StoreHas
<1>3. CASE Met(r) \intersect c.met # {}
  <2>1. PICK m \in Met(r) : m \in c.met
    BY <1>3
  <2>2. PICK k \in 1..c.taken : m \in Met(c.items[k])
    BY <1>2, <2>1 DEF CrawlInv
  <2>3. k \in DOMAIN c.items /\ c.items[k].hash = Hash(s, c.items[k].id, c.items[k].title)
    BY <1>2, CrawlHas DEF CrawlInv
  <2>4. c.items[k].hash = <<"id", BoardOf[s], c.items[k].id>>
    BY <2>3 DEF Hash
  <2>5. /\ m = <<"id", r.id>> \/ m = <<"hash", r.hash>>
        /\ m = <<"id", c.items[k].id>> \/ m = <<"hash", c.items[k].hash>>
    BY <2>1, <2>2 DEF Met
  <2>6. c.items[k].id = r.id
    BY <1>1, <2>4, <2>5
  <2>7. QED
    BY <1>2, <2>6 DEF WritingInv
<1>4. CASE Owners(View(s), r.hash) # {}
  <2>1. PICK o \in Owners(View(s), r.hash) : TRUE
    BY <1>4
  <2>2. PICK t \in Sources, e \in Ids : View(s)[t][e] # Unstored /\ View(s)[t][e].hash = r.hash
    BY <2>1 DEF Owners, Known
  <2>3. OwnKey(t, e, r.hash)
    BY <2>2, ViewFact, StoreHas DEF PostingInv
  <2>4. e = r.id /\ BoardOf[t] = BoardOf[s]
    BY <1>1, <2>3, KeyFact DEF OwnKey
  <2>5. QED
    BY <2>2, <2>4 DEF Placed
<1>5. QED
  BY <1>3, <1>4

LEMMA TakeStep ==
    ASSUME JobsInv, NEW s \in Sources, crawl[s].at \in {"publishing", "waiting"},
           crawl[s].taken < Len(crawl[s].items), Take(s),
           NeedsInsert(s, Record(s)) => ~Contended(s, Record(s).hash)
    PROVE  JobsInv'
<1> DEFINE r == Record(s)
           i == Record(s).id
           x == RowOf(r)
           own == Owners(View(s), r.hash) \subseteq {<<s, i>>}
           h == IF own THEN r.hash ELSE written[s][i].hash
           y == [x EXCEPT !.hash = h]
<1>1. ~Reading(crawl[s])
  BY DEF Reading
<1>2. /\ r \in RecordType /\ i \in Ids /\ r.title \in Titles /\ r.status \in {"active", "closed"}
      /\ r.hash \in Hashes /\ OwnKey(s, i, r.hash)
  BY <1>1, RecordHas
<1>3. written \in [Sources -> [Ids -> RowType]] /\ Unique(written) /\ written[s] \in [Ids -> RowType]
  BY StoreHas
<1>4. /\ x \in RowType /\ x # Unstored /\ x.title = r.title /\ x.status = r.status
      /\ x.hash = r.hash
  <2>1. x \in [status : {"active", "closed"}, title : Titles, hash : Hashes]
    BY <1>2 DEF RowOf
  <2>2. x.status = r.status /\ x.title = r.title /\ x.hash = r.hash
    BY DEF RowOf
  <2>3. QED
    BY <1>2, <2>1, <2>2, NullsFact DEF RowType
<1>5. CASE NeedsInsert(s, r)
  <2> DEFINE rows == [written[s] EXCEPT ![i] = x]
  <2>1. written' = [written EXCEPT ![s][i] = x]
    BY <1>5 DEF Take, Upserted
  <2>2. written' = [written EXCEPT ![s] = rows] /\ rows[i] = x /\ rows \in [Ids -> RowType]
    BY <1>2, <1>3, <1>4, <2>1
  <2>3. \A e \in Ids : e # i => rows[e] = written[s][e]
    BY <1>3
  <2>4. ~Contended(s, r.hash) /\ Owners(View(s), r.hash) = {}
    BY <1>5 DEF NeedsInsert
  <2>5. ASSUME NEW t \in Sources, NEW e \in Ids, written[t][e] # Unstored,
               written[t][e].hash = r.hash
        PROVE  FALSE
    <3>1. ~(View(s)[t][e] # Unstored /\ View(s)[t][e].hash = r.hash)
      BY <2>4, OwnersFact
    <3>2. t # s
      BY <2>5, <3>1, ViewFact
    <3>3. stored[t][e] # Unstored => stored[t][e].hash = r.hash
      BY <1>2, <2>5, <3>2, OthersKeyFact
    <3>4. stored[t][e] = Unstored
      BY <3>1, <3>2, <3>3, ViewFact
    <3>5. QED
      BY <2>4, <2>5, <3>2, <3>4 DEF Contended
  <2> HIDE DEF rows, x, i, r
  <2>6. \A t \in Sources, e \in Ids :
           written[t][e] # Unstored /\ written[t][e].hash = rows[i].hash => t = s /\ e = i
    BY <1>4, <2>2, <2>5
  <2>7. /\ rows[i] # Unstored /\ rows[i].title = r.title /\ rows[i].status = r.status
        /\ OwnKey(s, i, rows[i].hash)
    BY <1>2, <1>4, <2>2
  <2>8. MayBecome(s, rows)
    BY <2>2, <2>3, <2>6, <2>7 DEF MayBecome, r, i
  <2>9. QED
    BY <2>2, <2>8, TakeKeeps
<1>6. CASE ~NeedsInsert(s, r) /\ (Met(r) \intersect crawl[s].met # {} \/ written[s][i] = Unstored)
  <2>1. written' = written
    BY <1>6 DEF Take, Upserted
  <2>2. written' = [written EXCEPT ![s] = written[s]]
    BY <1>3, <2>1
  <2>3. Met(r) \intersect crawl[s].met # {} \/ Owners(View(s), r.hash) # {}
    BY <1>6 DEF NeedsInsert
  <2>4. s \notin Html => Placed(s, i)
    BY <1>1, <2>3, LeftOutIsPlaced
  <2>5. MayBecome(s, written[s])
    BY <1>3, <2>4 DEF MayBecome
  <2>6. QED
    BY <2>2, <2>5, TakeKeeps
<1>7. CASE Met(r) \intersect crawl[s].met = {} /\ written[s][i] # Unstored
  <2> DEFINE rows == [written[s] EXCEPT ![i] = y]
  <2>0. OwnKey(s, i, written[s][i].hash) /\ written[s][i].hash \in Hashes
    <3>1. PostingInv(s, i, written[s][i]) /\ written[s][i] \in RowType
      BY <1>2, StoreHas
    <3>2. QED
      BY <1>7, <3>1 DEF PostingInv, RowType
  <2>1. written' = [written EXCEPT ![s][i] = y]
    BY <1>7 DEF Take, Upserted, NeedsInsert
  <2>2. h \in Hashes /\ OwnKey(s, i, h)
    BY <1>2, <2>0
  <2>3. ASSUME NEW t \in Sources, NEW e \in Ids, written[t][e] # Unstored, written[t][e].hash = h
        PROVE  t = s /\ e = i
    <3>1. CASE h = written[s][i].hash
      BY <1>2, <1>3, <1>7, <2>3, <3>1 DEF Unique
    <3>2. CASE h # written[s][i].hash
      <4>1. own /\ h = r.hash
        BY <3>2
      <4>2. t = s
        <5> HIDE DEF h, own, i
        <5>1. t # s => \A g : OwnKey(s, i, g) => g = h
          BY <1>2, <2>2, <2>3, OthersKeyFact
        <5>2. QED
          BY <2>0, <3>2, <5>1
      <4>3. <<t, e>> \in Owners(View(s), r.hash)
        <5>1. View(s)[t][e] # Unstored /\ View(s)[t][e].hash = r.hash
          BY <2>3, <4>1, <4>2, ViewFact
        <5>2. QED
          BY <5>1, OwnersFact
      <4>4. QED
        BY <4>1, <4>3
    <3>3. QED
      BY <3>1, <3>2
  <2> HIDE DEF h
  <2>4. /\ y \in RowType /\ y # Unstored /\ y.title = r.title /\ y.status = r.status /\ y.hash = h
    <3>1. y \in [status : {"active", "closed"}, title : Titles, hash : Hashes]
      BY <1>2, <2>2 DEF RowOf
    <3>2. y.status = r.status /\ y.title = r.title /\ y.hash = h
      BY DEF RowOf
    <3>3. QED
      BY <1>2, <3>1, <3>2, NullsFact DEF RowType
  <2>5. written' = [written EXCEPT ![s] = rows] /\ rows[i] = y /\ rows \in [Ids -> RowType]
    <3> HIDE DEF y, i
    <3>1. QED
      BY <1>2, <1>3, <2>1, <2>4
  <2>6. \A e \in Ids : e # i => rows[e] = written[s][e]
    BY <1>3
  <2> HIDE DEF rows, y, i, r
  <2>7. \A t \in Sources, e \in Ids :
           written[t][e] # Unstored /\ written[t][e].hash = rows[i].hash => t = s /\ e = i
    BY <2>3, <2>4, <2>5
  <2>8. /\ rows[i] # Unstored /\ rows[i].title = r.title /\ rows[i].status = r.status
        /\ OwnKey(s, i, rows[i].hash)
    BY <2>2, <2>4, <2>5
  <2>9. MayBecome(s, rows)
    BY <2>5, <2>6, <2>7, <2>8 DEF MayBecome, r, i
  <2>10. QED
    BY <2>5, <2>9, TakeKeeps
<1>8. QED
  BY <1>5, <1>6, <1>7 DEF NeedsInsert

LEMMA CommitStep == ASSUME JobsInv, NEW s \in Sources, Commit(s) PROVE JobsInv'
<1> DEFINE rows == IF IsComplete(s) THEN ClosedMissing(s) ELSE written[s]
<1>1. /\ written' = [written EXCEPT ![s] = rows] /\ stored' = [stored EXCEPT ![s] = rows]
      /\ crawl' = [crawl EXCEPT ![s] = NoCrawl] /\ UNCHANGED <<board, displayed, edits, crawls>>
  BY DEF Commit, Ends
<1>2. ASSUME NEW e \in Ids
      PROVE  /\ rows[e] \in RowType /\ (rows[e] = Unstored <=> written[s][e] = Unstored)
             /\ rows[e] # Unstored => rows[e].title = written[s][e].title
                                      /\ rows[e].hash = written[s][e].hash
  <2>1. written[s][e] \in RowType
    BY StoreHas
  <2>2. CASE written[s][e].status = "active" /\ rows # written[s] /\ e \notin ReadIds(crawl[s])
    <3>1. written[s][e] \in [status : {"active", "closed"}, title : Titles, hash : Hashes]
      BY <2>1, <2>2, RowFact
    <3>2. rows[e] = [written[s][e] EXCEPT !.status = "closed"]
      BY <2>2 DEF ClosedMissing
    <3>3. rows[e].status = "closed" /\ rows[e] \in RowType
      BY <3>1, <3>2 DEF RowType
    <3>4. rows[e].title = written[s][e].title /\ rows[e].hash = written[s][e].hash
      BY <3>1, <3>2
    <3> HIDE DEF rows
    <3>5. QED
      BY <2>2, <3>3, <3>4, NullsFact
  <2>3. CASE ~(written[s][e].status = "active" /\ rows # written[s] /\ e \notin ReadIds(crawl[s]))
    <3>1. rows[e] = written[s][e]
      BY <2>3 DEF ClosedMissing
    <3>2. QED
      BY <2>1, <3>1
  <2>4. QED
    BY <2>2, <2>3
<1>3. rows \in [Ids -> RowType]
  <2>1. rows = [e \in Ids |-> rows[e]]
    BY StoreHas DEF ClosedMissing
  <2> HIDE DEF rows
  <2>2. QED
    BY <1>2, <2>1
<1> HIDE DEF rows
<1>4. \A t \in Sources : /\ written'[t] = IF t = s THEN rows ELSE written[t]
                         /\ stored'[t] = IF t = s THEN rows ELSE stored[t]
                         /\ crawl'[t] = IF t = s THEN NoCrawl ELSE crawl[t]
  BY <1>1, StoreHas
<1>5. StoreTypes'
  BY <1>1, <1>3, StoreHas, NullsFact DEF StoreTypes
<1>6. ASSUME NEW t \in Sources, NEW e \in Ids
      PROVE  PostingInv(t, e, stored[t][e])' /\ PostingInv(t, e, written[t][e])'
  <2>1. PostingInv(t, e, stored[t][e]) /\ PostingInv(t, e, written[t][e])
    BY StoreHas
  <2>2. PostingInv(t, e, stored'[t][e]) /\ PostingInv(t, e, written'[t][e])
    BY <1>2, <1>4, <2>1 DEF PostingInv
  <2>3. QED
    BY <1>1, <2>2 DEF PostingInv
<1>7. Unique(written)'
  <2>1. \A t \in Sources, e \in Ids :
           /\ written'[t][e] = Unstored <=> written[t][e] = Unstored
           /\ written'[t][e] # Unstored => written'[t][e].hash = written[t][e].hash
    BY <1>2, <1>4
  <2>2. QED
    BY <2>1, StoreHas DEF Unique
<1>8. Unique(stored)'
  <2> SUFFICES ASSUME NEW u \in Sources, NEW t \in Sources, NEW e \in Ids, NEW d \in Ids,
                      stored'[u][e] # Unstored, stored'[t][d] # Unstored,
                      stored'[u][e].hash = stored'[t][d].hash
               PROVE  u = t /\ e = d
    BY DEF Unique
  <2>1. Unique(stored) /\ Unique(written)
    BY StoreHas
  <2>2. CASE u # s /\ t # s
    BY <1>4, <2>1, <2>2 DEF Unique
  <2>3. CASE u = s /\ t = s
    BY <1>2, <1>4, <2>1, <2>3 DEF Unique
  <2>4. ASSUME NEW x \in Sources, x # s, NEW i \in Ids, NEW j \in Ids, written[s][i] # Unstored,
               stored[x][j] # Unstored, written[s][i].hash = stored[x][j].hash
        PROVE  FALSE
    <3>1. written[x][j] # Unstored
      BY <2>4, StoreHas DEF WritingInv
    <3>2. /\ OwnKey(s, i, written[s][i].hash) /\ OwnKey(x, j, stored[x][j].hash)
          /\ OwnKey(x, j, written[x][j].hash)
      BY <2>4, <3>1, StoreHas DEF PostingInv
    <3>3. s \notin Html /\ x \notin Html /\ BoardOf[s] = BoardOf[x] /\ i = j
      BY <2>4, <3>2, KeyFact
    <3>4. written[s][i].hash = written[x][j].hash
      BY <3>2, <3>3 DEF OwnKey
    <3>5. QED
      BY <2>1, <2>4, <3>1, <3>4 DEF Unique
  <2>5. QED
    BY <1>2, <1>4, <2>1, <2>2, <2>3, <2>4
<1>9. BoardInv'
  BY <1>1, StoreHas DEF BoardInv, Shows
<1>10. ASSUME NEW t \in Sources PROVE CrawlInv(t, crawl[t])' /\ WritingInv(t)'
  <2>1. CASE t = s
    <3>1. CrawlInv(s, NoCrawl)
      BY NullsFact DEF CrawlInv, Reading
    <3>2. crawl'[t] = NoCrawl /\ written'[t] = stored'[t]
      BY <1>4, <2>1
    <3>3. CrawlInv(t, crawl[t])'
      BY <1>1, <2>1, <3>1, <3>2 DEF CrawlInv
    <3>4. ~\E k \in 1..NoCrawl.taken : TRUE
      BY NullsFact
    <3>5. WritingInv(t)'
      BY <3>2, <3>4 DEF WritingInv
    <3>6. QED
      BY <3>3, <3>5
  <2>2. CASE t # s
    <3>1. crawl'[t] = crawl[t] /\ written'[t] = written[t] /\ stored'[t] = stored[t]
      BY <1>4, <2>2
    <3>2. CrawlInv(t, crawl[t])'
      <4>1. CrawlInv(t, crawl[t])
        BY StoreHas
      <4>2. displayed' = displayed
        BY <1>1
      <4>3. QED
        BY <3>1, <4>1, <4>2, CrawlStays
    <3>3. WritingInv(t)
      BY StoreHas
    <3>4. ASSUME NEW e \in Ids, Placed(t, e) PROVE Placed(t, e)'
      <4>1. PICK u \in Sources : BoardOf[u] = BoardOf[t] /\ View(t)[u][e] # Unstored
        BY <3>4 DEF Placed
      <4>2. CASE u = s
        <5>1. stored[s][e] # Unstored
          BY <2>2, <4>1, <4>2, ViewFact
        <5>2. written[s][e] # Unstored
          BY <5>1, StoreHas DEF WritingInv
        <5>3. stored'[s][e] # Unstored
          BY <1>2, <1>4, <5>2
        <5>4. View(t)'[u][e] # Unstored
          BY <1>1, <1>5, <2>2, <4>2, <5>3 DEF View, StoreTypes
        <5>5. QED
          BY <4>1, <5>4 DEF Placed
      <4>3. CASE u # s
        <5>1. View(t)'[u] = View(t)[u]
          BY <1>4, <1>5, <2>2, <4>3, ViewFact DEF View, StoreTypes
        <5>2. QED
          BY <4>1, <5>1 DEF Placed
      <4>4. QED
        BY <4>2, <4>3
    <3>5. \A k \in 1..crawl[t].taken : crawl[t].items[k].id \in Ids
      <4>1. crawl[t] \in CrawlType /\ CrawlInv(t, crawl[t])
        BY StoreHas
      <4>2. 1..crawl[t].taken \subseteq DOMAIN crawl[t].items
        BY <4>1, CrawlHas DEF CrawlInv
      <4>3. QED
        BY <4>1, <4>2, CrawlHas
    <3>6. t \notin Html => \A k \in 1..crawl'[t].taken : Placed(t, crawl[t].items[k].id)'
      <4> SUFFICES ASSUME t \notin Html, NEW k \in 1..crawl[t].taken, NEW e, e = crawl[t].items[k].id
                   PROVE  Placed(t, e)'
        BY <3>1
      <4>1. QED
        BY <3>3, <3>4, <3>5 DEF WritingInv
    <3>7. WritingInv(t)'
      BY <3>1, <3>3, <3>6 DEF WritingInv
    <3>8. QED
      BY <3>2, <3>7
  <2>3. QED
    BY <2>1, <2>2
<1>11. QED
  BY <1>5, <1>6, <1>7, <1>8, <1>9, <1>10 DEF JobsInv

LEMMA JobsStepInv == JobsInv /\ [StoreNext]_storeVars => JobsInv'
<1>1. ASSUME JobsInv, StoreNext PROVE JobsInv'
  <2>1. PICK s \in Sources : StoreStep(s)
    BY <1>1 DEF StoreNext
  <2>2. CASE EditBoard(BoardOf[s])
    BY <1>1, <2>2, StoreHas, EditBoardStep
  <2>3. CASE StartCrawl(s)
    BY <1>1, <2>3, StartCrawlStep
  <2>4. CASE LoseCrawl(s)
    BY <1>1, <2>4, GiveUpKeeps DEF LoseCrawl
  <2>5. CASE ReadPage(s) \/ ReadBoard(s) \/ ReadDetail(s) \/ Refused(s) \/ ListingFails(s) \/ Retry(s)
    BY <1>1, <2>5, ReadPageStep, ReadBoardStep, ReadDetailStep, RefusedStep, ListingFailsStep, RetryStep
  <2>6. CASE WaitForOther(s) \/ PublicationFails(s) \/ Commit(s)
    BY <1>1, <2>6, WaitForOtherStep, GiveUpKeeps, CommitStep DEF PublicationFails
  <2>7. CASE TakeRecord(s)
    BY <1>1, <2>7, TakeStep DEF TakeRecord, Publishing
  <2>8. CASE InsertAfterAll(s)
    <3>1. crawl[s].at = "waiting" /\ ~Contended(s, Record(s).hash) /\ Take(s)
      BY <2>8 DEF InsertAfterAll, Blocked
    <3>2. CrawlInv(s, crawl[s])
      BY <1>1, StoreHas
    <3>3. crawl[s].taken < Len(crawl[s].items)
      BY <3>1, <3>2 DEF CrawlInv
    <3>4. QED
      BY <1>1, <3>1, <3>3, TakeStep
  <2>9. QED
    BY <2>1, <2>2, <2>3, <2>4, <2>5, <2>6, <2>7, <2>8 DEF StoreStep, Work
<1>2. ASSUME JobsInv, UNCHANGED storeVars PROVE JobsInv'
  <2>1. UNCHANGED <<board, displayed, stored, written, crawl, edits, crawls>>
    BY <1>2 DEF storeVars
  <2>2. StoreTypes' /\ BoardInv'
    BY <1>2, <2>1, StoreHas DEF StoreTypes, BoardInv, Shows
  <2>3. \A b \in Boards, e \in Ids : displayed[b][e] \subseteq displayed'[b][e]
    BY <2>1
  <2>4. QED
    BY <1>2, <2>1, <2>2, <2>3, GrowsKeeps
<1>3. QED
  BY <1>1, <1>2

LEMMA JobsInvImplies ==
    JobsInv => StoreTypes /\ KeysAreUnique /\ RowsAreOwn /\ RefusalEndsRequests
<1> SUFFICES ASSUME JobsInv
             PROVE  StoreTypes /\ KeysAreUnique /\ RowsAreOwn /\ RefusalEndsRequests
  OBVIOUS
<1>1. StoreTypes
  BY DEF JobsInv
<1>2. KeysAreUnique
  <2> SUFFICES ASSUME NEW rows \in {stored, written}, NEW o \in Known(rows), NEW q \in Known(rows),
                      rows[o[1]][o[2]].hash = rows[q[1]][q[2]].hash
               PROVE  o = q
    BY DEF KeysAreUnique
  <2>1. Unique(rows)
    BY StoreHas
  <2>2. /\ o \in Sources \X Ids /\ q \in Sources \X Ids
        /\ rows[o[1]][o[2]] # Unstored /\ rows[q[1]][q[2]] # Unstored
    BY DEF Known
  <2>3. o[1] = q[1] /\ o[2] = q[2]
    BY <2>1, <2>2 DEF Unique
  <2>4. QED
    BY <2>2, <2>3
<1>3. RowsAreOwn
  BY StoreHas DEF RowsAreOwn, PostingInv
<1>4. RefusalEndsRequests
  BY StoreHas DEF RefusalEndsRequests, CrawlInv, Requesting
<1>5. QED
  BY <1>1, <1>2, <1>3, <1>4
-------------------------------------------------------------------------------
(* What a commit does *)

ClosesOnlyGone ==
    \A s \in Sources, e \in Ids :
          stored[s][e].status = "active" /\ stored'[s][e].status = "closed" =>
              \/ \E k \in DOMAIN crawl[s].items :
                    crawl[s].items[k].id = e /\ crawl[s].items[k].status = "closed"
              \/ s \notin Html /\ ~crawl[s].failed /\ e \notin ToSet(crawl[s].links)

\* The records of a complete collection are those of its links, one by one.
LEMMA CompleteFact ==
    ASSUME JobsInv, NEW s \in Sources, IsComplete(s), crawl[s].at = "publishing"
    PROVE  /\ ReadIds(crawl[s]) = ToSet(crawl[s].links) /\ DOMAIN crawl[s].items = DOMAIN crawl[s].links
           /\ \A k \in DOMAIN crawl[s].items : crawl[s].items[k].id = crawl[s].links[k]
           /\ ToSet(crawl[s].links) \subseteq Ids
<1>1. CrawlInv(s, crawl[s]) /\ crawl[s] \in CrawlType
  BY StoreHas
<1>2. DOMAIN crawl[s].items = DOMAIN crawl[s].links
  BY <1>1, CrawlHas DEF IsComplete
<1>3. \A k \in DOMAIN crawl[s].items : crawl[s].items[k].id = crawl[s].links[k]
  BY <1>1 DEF IsComplete, CrawlInv, Reading
<1>4. \A k \in DOMAIN crawl[s].items : crawl[s].items[k].id \in Ids
  BY <1>1, CrawlHas
<1>5. QED
  BY <1>2, <1>3, <1>4 DEF ReadIds, ToSet

LEMMA CommitFact ==
    ASSUME JobsInv, NEW s \in Sources, Commit(s)
    PROVE  \A e \in Ids :
             stored'[s][e] = IF IsComplete(s) /\ written[s][e].status = "active"
                                  /\ e \notin ReadIds(crawl[s])
                             THEN [written[s][e] EXCEPT !.status = "closed"] ELSE written[s][e]
  BY StoreHas DEF Commit, ClosedMissing

LEMMA ClosesStep == JobsInv /\ [StoreNext]_storeVars => [ClosesOnlyGone]_storeVars
<1> SUFFICES ASSUME JobsInv, [StoreNext]_storeVars, NEW s \in Sources, NEW e \in Ids,
                    stored[s][e].status = "active", stored'[s][e].status = "closed"
             PROVE  \/ \E k \in DOMAIN crawl[s].items :
                          crawl[s].items[k].id = e /\ crawl[s].items[k].status = "closed"
                    \/ s \notin Html /\ ~crawl[s].failed /\ e \notin ToSet(crawl[s].links)
  BY DEF ClosesOnlyGone
<1>1. PICK t \in Sources : Commit(t)
  <2>1. stored' # stored
    OBVIOUS
  <2>2. PICK t \in Sources : StoreStep(t)
    BY <2>1 DEF StoreNext, storeVars
  <2>3. QED
    BY <2>1, <2>2 DEF StoreStep, Work, EditBoard, StartCrawl, LoseCrawl, Becomes, ReadPage, ReadBoard,
       ReadDetail, Refused, ListingFails, Retry, TakeRecord, Take, WaitForOther, InsertAfterAll,
       PublicationFails
<1>2. t = s
  BY <1>1, StoreHas DEF Commit
<1>3. stored'[s][e] = IF IsComplete(s) /\ written[s][e].status = "active" /\ e \notin ReadIds(crawl[s])
                      THEN [written[s][e] EXCEPT !.status = "closed"] ELSE written[s][e]
  BY <1>1, <1>2, CommitFact
<1>4. CASE IsComplete(s) /\ e \notin ReadIds(crawl[s])
  BY <1>1, <1>2, <1>4, CompleteFact DEF IsComplete, Commit
<1>5. CASE written[s][e].status = "closed"
  BY <1>5, StoreHas DEF WritingInv
<1>6. QED
  BY <1>3, <1>4, <1>5

LEMMA ListedStep == JobsInv /\ [StoreNext]_storeVars => [StoresWhatIsListed]_storeVars
<1> SUFFICES ASSUME JobsInv, NEW s \in Sources, Commit(s), IsComplete(s)
             PROVE  /\ {e \in Ids : stored'[s][e].status = "active"} \subseteq ToSet(crawl[s].links)
                    /\ \A e \in ToSet(crawl[s].links) : \E t \in Sources :
                          BoardOf[t] = BoardOf[s] /\ stored'[t][e] # Unstored
  BY DEF StoresWhatIsListed
<1> DEFINE c == crawl[s]
<1>1. c \in CrawlType /\ CrawlInv(s, c) /\ WritingInv(s) /\ c.at = "publishing"
      /\ ~(c.taken < Len(c.items)) /\ s \notin Html
  BY StoreHas DEF Commit, Publishing, IsComplete
<1>2. /\ ReadIds(c) = ToSet(c.links) /\ DOMAIN c.items = DOMAIN c.links /\ ToSet(c.links) \subseteq Ids
      /\ \A k \in DOMAIN c.items : c.items[k].id = c.links[k]
  BY <1>1, CompleteFact
<1>3. ASSUME NEW e \in Ids, stored'[s][e].status = "active" PROVE e \in ToSet(c.links)
  <2>1. CASE written[s][e].status = "active" /\ e \notin ReadIds(c)
    <3>1. written[s][e] \in RowType /\ written[s][e] # Unstored
      BY <2>1, StoreHas, NullsFact
    <3>2. stored'[s][e] = [written[s][e] EXCEPT !.status = "closed"]
      BY <2>1, CommitFact
    <3>3. stored'[s][e].status = "closed"
      BY <3>1, <3>2, RowFact
    <3>4. QED
      BY <1>3, <3>3
  <2>2. CASE ~(written[s][e].status = "active" /\ e \notin ReadIds(c))
    <3>1. stored'[s][e] = written[s][e]
      BY <2>2, CommitFact
    <3>2. QED
      BY <1>2, <1>3, <2>2, <3>1
  <2>3. QED
    BY <2>1, <2>2
<1>4. ASSUME NEW e \in ToSet(c.links)
      PROVE  \E t \in Sources : BoardOf[t] = BoardOf[s] /\ stored'[t][e] # Unstored
  <2>1. PICK k \in DOMAIN c.links : c.links[k] = e
    BY <1>4 DEF ToSet
  <2>2. k \in 1..c.taken /\ c.items[k].id = e /\ e \in Ids
    BY <1>1, <1>2, <2>1, CrawlHas
  <2>3. Placed(s, e)
    BY <1>1, <2>2 DEF WritingInv
  <2>4. PICK t \in Sources : BoardOf[t] = BoardOf[s] /\ View(s)[t][e] # Unstored
    BY <2>3 DEF Placed
  <2>5. CASE t = s
    <3>1. written[s][e] # Unstored
      BY <2>4, <2>5, ViewFact
    <3>2. e \in ReadIds(c)
      BY <1>2
    <3>3. stored'[s][e] = written[s][e]
      BY <2>2, <3>2, CommitFact
    <3>4. QED
      BY <3>1, <3>3
  <2>6. CASE t # s
    <3>1. stored'[t] = stored[t]
      BY <2>6, StoreHas DEF Commit
    <3>2. QED
      BY <2>4, <2>6, <3>1, ViewFact
  <2>7. QED
    BY <2>5, <2>6
<1>5. QED
  BY <1>3, <1>4
-------------------------------------------------------------------------------
(* The review of an answer *)

(***************************************************************************)
(* What is held at each stage.  A claim is only ever lowered, so what is   *)
(* held supported has passed every rule so far (OutcomeInv, CheckInv);     *)
(* after the resolution a supported outcome rests on a condition whose     *)
(* passage is displayed, so its passage is there.                          *)
(***************************************************************************)
After(stages) == review \in stages

HeldShape ==
    /\ held = [outcome |-> held.outcome, cited |-> held.cited, checks |-> held.checks]
    /\ review \in {"answered", "resolved", "validated", "stored", "rejected"}
    /\ held.outcome \in Outcomes /\ held.cited \in BOOLEAN
    /\ answer \in Answers /\ AnswerShape(answer) /\ DOMAIN held.checks = DOMAIN answer.checks
    /\ held.checks = [i \in DOMAIN held.checks |-> held.checks[i]]
    /\ \A i \in DOMAIN held.checks : held.checks[i] \in Outcomes
    /\ After({"answered", "resolved"}) => held.cited = (answer.cited # "none")

Undoubted(rules, doubts) == \A rule \in rules : ~Doubted(rule, answer.category, doubts)

OutcomeInv ==
    /\ After({"resolved", "validated", "stored"}) => answer.cited # "foreign"
    /\ After({"resolved"}) =>
          /\ held.outcome = "gap" => answer.claim = "gap"
          /\ held.outcome = "supported" =>
                /\ answer.claim = "supported" /\ Undoubted({"scope", "activity"}, answer.doubts)
                /\ \E i \in DOMAIN held.checks : held.checks[i] = "supported"
    /\ After({"validated"}) =>
          /\ held.outcome = "gap" => answer.claim = "gap" /\ answer.denies
          /\ held.outcome = "supported" =>
                /\ answer.claim = "supported" /\ answer.cited # "none"
                /\ Undoubted({"scope", "activity", "constraint", "years", "degree"}, answer.doubts)
                /\ Sufficient(answer.operator, held.checks)
    /\ SupportIsGrounded /\ GapIsContradiction

CheckInv ==
    /\ After({"resolved", "validated", "stored"}) =>
          \A i \in DOMAIN held.checks : held.checks[i] = "supported" =>
              answer.checks[i].claim = "supported" /\ Shown(i)
    /\ After({"validated", "stored"}) =>
          \A i \in DOMAIN held.checks : held.checks[i] = "supported" =>
              Undoubted(DOMAIN Applies \ {"scope"}, answer.checks[i].doubts)

JudgedInv == HeldShape /\ OutcomeInv /\ CheckInv

LEMMA RulesFact ==
    DOMAIN Applies = {"activity", "scope", "subject", "constraint", "years", "degree",
                      "construction", "compound"}
  BY DEF Applies

\* Conditions that suffice establish the requirement.
LEMMA SufficientFact ==
    ASSUME NEW operator, NEW outcomes, Sufficient(operator, outcomes), DOMAIN outcomes # {}
    PROVE  Aggregate(operator, outcomes) = "supported"
<1> DEFINE among == {outcomes[i] : i \in DOMAIN outcomes}
<1>1. CASE operator = "any_of"
  <2>1. "supported" \in among
    BY <1>1 DEF Sufficient
  <2>2. QED
    BY <1>1, <2>1 DEF Aggregate
<1>2. CASE operator \in {"atomic", "all_of"}
  <2>1. among = {"supported"}
    BY <1>2 DEF Sufficient
  <2>2. QED
    BY <1>2, <2>1 DEF Aggregate
<1>3. QED
  BY <1>1, <1>2 DEF Sufficient

\* What is established, a condition establishes.
LEMMA AggregateFact ==
    ASSUME NEW operator, NEW outcomes, Aggregate(operator, outcomes) = "supported"
    PROVE  \E i \in DOMAIN outcomes : outcomes[i] = "supported"
<1> DEFINE among == {outcomes[i] : i \in DOMAIN outcomes}
<1>1. "supported" \in among
  <2>1. CASE operator \in {"atomic", "all_of"}
    BY <2>1 DEF Aggregate
  <2>2. CASE operator = "any_of"
    BY <2>2 DEF Aggregate
  <2>3. CASE operator \notin {"atomic", "all_of", "any_of"}
    <3>1. Aggregate(operator, outcomes) = "unknown"
      BY <2>3 DEF Aggregate
    <3>2. QED
      BY <3>1
  <2>4. QED
    BY <2>1, <2>2, <2>3
<1>2. QED
  BY <1>1

LEMMA JudgedInitInv == AnswerInit => JudgedInv
<1> SUFFICES ASSUME AnswerInit
             PROVE  JudgedInv
  OBVIOUS
<1>1. /\ review = "answered" /\ answer \in Answers /\ AnswerShape(answer)
      /\ held = [outcome |-> answer.claim, cited |-> answer.cited # "none",
                 checks |-> [i \in DOMAIN answer.checks |-> answer.checks[i].claim]]
  BY DEF AnswerInit
<1>2. \A i \in DOMAIN answer.checks : answer.checks[i].claim \in Outcomes
  BY <1>1 DEF AnswerShape
<1>3. answer.claim \in Outcomes
  BY <1>1 DEF AnswerShape
<1>4. HeldShape
  BY <1>1, <1>2, <1>3 DEF HeldShape, After
<1>5. QED
  BY <1>1, <1>4 DEF JudgedInv, OutcomeInv, CheckInv, After, SupportIsGrounded, GapIsContradiction

LEMMA ResolveStep == ASSUME JudgedInv, Resolve PROVE JudgedInv'
<1> DEFINE checks == [i \in DOMAIN answer.checks |-> ResolvedCheck(i)]
<1>1. HeldShape /\ review = "answered" /\ UNCHANGED answer
  BY DEF JudgedInv, Resolve
<1>2. CASE Unsourced
  <2>1. review' = "rejected" /\ UNCHANGED held
    BY <1>2 DEF Resolve
  <2>2. QED
    BY <1>1, <2>1 DEF JudgedInv, HeldShape, OutcomeInv, CheckInv, After, SupportIsGrounded,
       GapIsContradiction
<1>3. CASE ~Unsourced
  <2>1. review' = "resolved" /\ held' = [held EXCEPT !.checks = checks,
                                                     !.outcome = ResolvedOutcome(checks)]
    BY <1>3 DEF Resolve
  <2>2. \A i \in DOMAIN checks :
           /\ checks[i] = ResolvedCheck(i) /\ checks[i] \in Outcomes
           /\ checks[i] = "supported" => answer.checks[i].claim = "supported" /\ Shown(i)
    BY <1>1 DEF ResolvedCheck, HeldShape, AnswerShape, Outcomes
  <2>3. ResolvedOutcome(checks) \in {"unknown", answer.claim} /\ answer.claim \in Outcomes
    BY <1>1 DEF ResolvedOutcome, HeldShape, AnswerShape
  <2>4. ResolvedOutcome(checks) = "supported" =>
           /\ answer.claim = "supported" /\ Undoubted({"scope", "activity"}, answer.doubts)
           /\ Aggregate(answer.operator, checks) = "supported"
    BY DEF ResolvedOutcome, Undoubted
  <2>5. /\ held' = [outcome |-> ResolvedOutcome(checks), cited |-> held.cited, checks |-> checks]
        /\ DOMAIN checks = DOMAIN answer.checks /\ checks = [i \in DOMAIN checks |-> checks[i]]
    BY <1>1, <2>1 DEF HeldShape
  <2> HIDE DEF checks
  <2>6. held'.outcome = ResolvedOutcome(checks) /\ held'.cited = held.cited /\ held'.checks = checks
    BY <2>5
  <2>7. held'.outcome \in Outcomes
    BY <2>3, <2>6 DEF Outcomes
  <2>8. HeldShape'
    BY <1>1, <2>1, <2>2, <2>5, <2>6, <2>7 DEF HeldShape, After
  <2>9. answer.cited # "foreign"
    BY <1>3 DEF Unsourced
  <2>10. held'.outcome = "supported" => \E i \in DOMAIN checks : checks[i] = "supported"
    BY <2>4, <2>6, AggregateFact
  <2>11. held'.outcome = "gap" => answer.claim = "gap"
    BY <2>3, <2>6
  <2>12. OutcomeInv'
    BY <1>1, <2>1, <2>4, <2>6, <2>9, <2>10, <2>11
       DEF OutcomeInv, After, Undoubted, SupportIsGrounded, GapIsContradiction
  <2>13. CheckInv'
    BY <1>1, <2>1, <2>2, <2>6 DEF CheckInv, After, Shown
  <2>14. QED
    BY <2>8, <2>12, <2>13 DEF JudgedInv
<1>4. QED
  BY <1>2, <1>3

\* A condition that is still supported was, and no rule objects to its words.
LEMMA ValidatedCheckFact ==
    ASSUME JudgedInv, review = "resolved", NEW i \in DOMAIN held.checks
    PROVE  /\ ValidatedCheck(i) \in Outcomes
           /\ ValidatedCheck(i) = "supported" =>
                 /\ held.checks[i] = "supported"
                 /\ Undoubted(DOMAIN Applies \ {"scope"}, answer.checks[i].doubts)
<1> DEFINE c == answer.checks[i]
           doubted(rule) == Doubted(rule, answer.category, c.doubts)
           subject == IF held.checks[i] = "supported" /\ doubted("subject")
                      THEN "unknown" ELSE held.checks[i]
           gap == GapGuard(subject, c.passage # "none", c.denies)
           fact == FactGuard(gap, answer.category, c.doubts)
           claim == ClaimGuard(fact, answer.category, c.doubts)
<1>1. held.checks[i] \in Outcomes
  BY DEF JudgedInv, HeldShape
<1>2. ValidatedCheck(i) \in {"unknown", "gap", claim}
  BY DEF ValidatedCheck
<1>3. claim \in {"unknown", held.checks[i]}
  BY DEF GapGuard, FactGuard, ClaimGuard
<1>4. claim = "supported" =>
         /\ ~doubted("subject") /\ ~doubted("constraint") /\ ~doubted("years")
         /\ ~doubted("degree") /\ ~doubted("compound") /\ ~doubted("construction")
         /\ ~doubted("activity")
  BY DEF GapGuard, FactGuard, ClaimGuard
<1> HIDE DEF claim
<1>5. ValidatedCheck(i) = "supported" => claim = "supported"
  BY <1>2
<1>6. QED
  BY <1>1, <1>2, <1>3, <1>4, <1>5, RulesFact DEF Outcomes, Undoubted

\* A supported requirement that was resolved has a passage.
LEMMA ResolvedIsCited ==
    ASSUME JudgedInv, review = "resolved", held.outcome = "supported"
    PROVE  held.cited /\ answer.cited # "none"
<1>1. PICK i \in DOMAIN held.checks : held.checks[i] = "supported"
  BY DEF JudgedInv, OutcomeInv, After
<1>2. Shown(i)
  BY <1>1 DEF JudgedInv, CheckInv, After
<1>3. QED
  BY <1>2 DEF JudgedInv, HeldShape, Shown, After

LEMMA ValidateStep == ASSUME JudgedInv, Validate PROVE JudgedInv'
<1> DEFINE gap == GapGuard(held.outcome, held.cited, answer.denies)
           fact == FactGuard(gap, answer.category, answer.doubts)
           checks == [i \in DOMAIN held.checks |-> ValidatedCheck(i)]
           out == IF fact = "supported" /\ ~Sufficient(answer.operator, checks) THEN "unknown" ELSE fact
<1>1. HeldShape /\ review = "resolved" /\ UNCHANGED answer /\ OutcomeInv /\ CheckInv
  BY DEF JudgedInv, Validate
<1>2. review' = "validated" /\ held' = [held EXCEPT !.checks = checks, !.outcome = out]
  <2>1. ~(held.outcome = "supported" /\ ~held.cited)
    BY <1>1, ResolvedIsCited
  <2>2. QED
    BY <2>1 DEF Validate
<1>3. out \in {"unknown", held.outcome}
  BY DEF GapGuard, FactGuard
<1>4. out = "gap" => held.outcome = "gap" /\ answer.denies
  BY DEF GapGuard, FactGuard
<1>5. out = "supported" => /\ held.outcome = "supported" /\ Sufficient(answer.operator, checks)
                           /\ Undoubted({"constraint", "years", "degree"}, answer.doubts)
  BY DEF GapGuard, FactGuard, Undoubted
<1>6. \A i \in DOMAIN checks :
         /\ checks[i] \in Outcomes
         /\ checks[i] = "supported" =>
               /\ held.checks[i] = "supported"
               /\ Undoubted(DOMAIN Applies \ {"scope"}, answer.checks[i].doubts)
  BY <1>1, ValidatedCheckFact
<1>7. /\ held' = [outcome |-> out, cited |-> held.cited, checks |-> checks]
      /\ DOMAIN checks = DOMAIN held.checks /\ checks = [i \in DOMAIN checks |-> checks[i]]
  BY <1>1, <1>2 DEF HeldShape
<1> HIDE DEF checks, out
<1>8. held'.outcome = out /\ held'.cited = held.cited /\ held'.checks = checks
  BY <1>7
<1>9. held'.outcome \in Outcomes
  BY <1>1, <1>3, <1>8 DEF HeldShape, Outcomes
<1>10. HeldShape'
  BY <1>1, <1>2, <1>6, <1>7, <1>8, <1>9 DEF HeldShape, After
<1>11. out = "supported" => /\ answer.claim = "supported" /\ answer.cited # "none"
                            /\ Undoubted({"scope", "activity", "constraint", "years", "degree"},
                                         answer.doubts)
  BY <1>1, <1>5, ResolvedIsCited DEF OutcomeInv, After, Undoubted
<1>12. OutcomeInv'
  BY <1>1, <1>2, <1>4, <1>5, <1>8, <1>11
     DEF OutcomeInv, After, Undoubted, SupportIsGrounded, GapIsContradiction
<1>13. CheckInv'
  BY <1>1, <1>2, <1>6, <1>7, <1>8 DEF CheckInv, After, Shown, Undoubted
<1>14. QED
  BY <1>10, <1>12, <1>13 DEF JudgedInv

LEMMA PrioritiseStep == ASSUME JudgedInv, Prioritise PROVE JudgedInv'
<1> DEFINE claim == ClaimGuard(held.outcome, answer.category, answer.doubts)
           out == TimingGuard(claim, answer.category, answer.timing)
           cited == held.cited \/ (answer.category = "education" /\ answer.timing # "none")
<1>1. HeldShape /\ review = "validated" /\ review' = "stored" /\ UNCHANGED answer /\ OutcomeInv
      /\ CheckInv /\ held' = [held EXCEPT !.outcome = out, !.cited = cited]
  BY DEF JudgedInv, Prioritise
<1>2. out \in Outcomes
  BY <1>1 DEF HeldShape, ClaimGuard, TimingGuard, Outcomes
<1>3. out = "supported" =>
         /\ held.outcome = "supported" /\ Undoubted({"compound", "construction", "activity"}, answer.doubts)
         /\ (answer.category = "education" => answer.timing = "none")
  BY DEF ClaimGuard, TimingGuard, Undoubted
<1>4. out = "gap" => held.outcome = "gap" \/ (answer.category = "education" /\ answer.timing = "explicit")
  BY DEF ClaimGuard, TimingGuard
<1>5. held' = [outcome |-> out, cited |-> cited, checks |-> held.checks] /\ cited \in BOOLEAN
  BY <1>1 DEF HeldShape
<1> HIDE DEF out, cited
<1>6. held'.outcome = out /\ held'.cited = cited /\ held'.checks = held.checks
  BY <1>5
<1>7. HeldShape'
  BY <1>1, <1>2, <1>5, <1>6 DEF HeldShape, After
<1>8. CheckInv'
  BY <1>1, <1>6 DEF CheckInv, After, Shown, Undoubted
<1>9. ASSUME out = "supported"
      PROVE  /\ answer.claim = "supported" /\ answer.cited \in {"part", "whole"}
             /\ \A rule \in DOMAIN Applies \ {"subject"} :
                   ~Doubted(rule, answer.category, answer.doubts)
             /\ Aggregate(answer.operator, held.checks) = "supported"
  <2>1. /\ answer.claim = "supported" /\ answer.cited # "none" /\ answer.cited # "foreign"
        /\ Undoubted({"scope", "activity", "constraint", "years", "degree"}, answer.doubts)
        /\ Sufficient(answer.operator, held.checks)
    BY <1>1, <1>3, <1>9 DEF OutcomeInv, After
  <2>2. DOMAIN held.checks # {} /\ answer.cited \in {"none", "part", "whole", "foreign"}
    BY <1>1 DEF HeldShape, AnswerShape, Cited
  <2>3. QED
    BY <1>3, <1>9, <2>1, <2>2, SufficientFact, RulesFact DEF Undoubted
<1>10. SupportIsGrounded'
  BY <1>1, <1>3, <1>6, <1>9 DEF SupportIsGrounded
<1>11. GapIsContradiction'
  BY <1>1, <1>4, <1>6 DEF GapIsContradiction, OutcomeInv, After
<1>12. OutcomeInv'
  BY <1>1, <1>10, <1>11 DEF OutcomeInv, After
<1>13. QED
  BY <1>7, <1>8, <1>12 DEF JudgedInv

LEMMA JudgedStepInv == JudgedInv /\ [ReviewNext]_reviewVars => JudgedInv'
<1>1. ASSUME JudgedInv, ReviewNext PROVE JudgedInv'
  BY <1>1, ResolveStep, ValidateStep, PrioritiseStep DEF ReviewNext
<1>2. ASSUME JudgedInv, UNCHANGED reviewVars PROVE JudgedInv'
  BY <1>2 DEF reviewVars, JudgedInv, HeldShape, OutcomeInv, CheckInv, After, Undoubted, Shown,
     SupportIsGrounded, GapIsContradiction
<1>3. QED
  BY <1>1, <1>2

LEMMA JudgedInvImplies ==
    JudgedInv => ReviewTypes /\ SupportIsGrounded /\ ConditionsAreGrounded /\ GapIsContradiction
<1> SUFFICES ASSUME JudgedInv
             PROVE  ReviewTypes /\ SupportIsGrounded /\ ConditionsAreGrounded /\ GapIsContradiction
  OBVIOUS
<1>1. ReviewTypes
  BY DEF JudgedInv, HeldShape, ReviewTypes
<1>2. ConditionsAreGrounded
  BY DEF JudgedInv, CheckInv, After, ConditionsAreGrounded, Undoubted
<1>3. QED
  BY <1>1, <1>2 DEF JudgedInv, OutcomeInv

StaysResolved == review = "resolved" => review' # "rejected"

LEMMA KeptStep == JudgedInv /\ [ReviewNext]_reviewVars => [StaysResolved]_reviewVars
  BY ResolvedIsCited DEF ReviewNext, Resolve, Validate, Prioritise, StaysResolved, reviewVars
-------------------------------------------------------------------------------
(* The matching by rules *)

RunStates ==
    [status : {"none", "running", "failed", "needs_review"}, original : BOOLEAN,
     mock : BOOLEAN, current : BOOLEAN]

MatchInv == MatchTypes /\ latest \in [Vacancies -> RunStates]

LEMMA LatestHas ==
    ASSUME MatchInv, NEW j \in Vacancies
    PROVE  /\ latest[j] \in RunStates
           /\ latest[j].status \in {"none", "running", "failed", "needs_review"}
           /\ latest[j].original => j = Reviewed /\ ~latest[j].mock
<1>1. latest[j] \in RunStates
  BY DEF MatchInv
<1>2. MatchTypes
  BY DEF MatchInv
<1>3. latest[j].original => j = Reviewed /\ ~latest[j].mock
  BY <1>2 DEF MatchTypes
<1>4. latest[j].status \in {"none", "running", "failed", "needs_review"}
  BY <1>2 DEF MatchTypes
<1>5. QED
  BY <1>1, <1>3, <1>4

LEMMA MatchInitInv == MatchInit => MatchInv
<1> SUFFICES ASSUME MatchInit
             PROVE  MatchInv
  OBVIOUS
<1>1. /\ NoRun \in RunStates /\ NoRun.original = FALSE
      /\ NoRun.status \in {"none", "running", "failed", "needs_review"}
  BY DEF NoRun, RunStates
<1>2. latest \in [Vacancies -> RunStates] /\ \A j \in Vacancies : latest[j] = NoRun
  BY <1>1 DEF MatchInit
<1>3. entries \subseteq Entries /\ units \subseteq Units /\ seeks \in BOOLEAN
  BY DEF MatchInit
<1>4. QED
  BY <1>1, <1>2, <1>3 DEF MatchInv, MatchTypes

LEMMA MatchStepInv == MatchInv /\ [MatchNext]_matchVars => MatchInv'
<1> SUFFICES ASSUME MatchInv, [MatchNext]_matchVars
             PROVE  MatchInv'
  OBVIOUS
<1>1. CASE UNCHANGED matchVars
  BY <1>1 DEF matchVars, MatchInv, MatchTypes
<1>2. ASSUME NEW e \in Entries, EditEntries(e) PROVE MatchInv'
  BY <1>2 DEF EditEntries, MatchInv, MatchTypes
<1>3. ASSUME NEW u \in Units, EditUnits(u) PROVE MatchInv'
  BY <1>3 DEF EditUnits, MatchInv, MatchTypes
<1>4. CASE EditSummary
  BY <1>4 DEF EditSummary, MatchInv, MatchTypes
<1>5. ASSUME NEW j \in Vacancies, NEW x \in RunStates, latest' = [latest EXCEPT ![j] = x],
             UNCHANGED <<entries, units, seeks>>, x.original => j = Reviewed /\ ~x.mock
      PROVE  MatchInv'
  <2>1. latest' \in [Vacancies -> RunStates] /\ \A i \in Vacancies : latest'[i] = IF i = j THEN x ELSE latest[i]
    BY <1>5 DEF MatchInv
  <2>2. x.status \in {"none", "running", "failed", "needs_review"}
    BY DEF RunStates
  <2>3. MatchTypes'
    BY <1>5, <2>1, <2>2 DEF MatchInv, MatchTypes
  <2>4. QED
    BY <2>1, <2>3 DEF MatchInv
<1>6. ASSUME NEW j \in Vacancies, NEW mock \in BOOLEAN, StartRun(j, mock) PROVE MatchInv'
  <2> DEFINE x == [status |-> "running", mock |-> mock, current |-> TRUE,
                   original |-> j = Reviewed /\ latest[j] = NoRun /\ ~mock]
  <2>1. x \in RunStates /\ (x.original => j = Reviewed /\ ~x.mock)
    BY DEF RunStates
  <2>2. latest' = [latest EXCEPT ![j] = x] /\ UNCHANGED <<entries, units, seeks>>
    BY <1>6 DEF StartRun
  <2> HIDE DEF x
  <2>3. QED
    BY <1>5, <2>1, <2>2
<1>7. ASSUME NEW j \in Vacancies, NEW became \in {"needs_review", "failed"}, EndRun(j, became)
      PROVE  MatchInv'
  <2> DEFINE x == [latest[j] EXCEPT !.status = became]
  <2>1. latest[j] \in RunStates /\ (latest[j].original => j = Reviewed /\ ~latest[j].mock)
    BY LatestHas
  <2>2. x \in RunStates /\ x.original = latest[j].original /\ x.mock = latest[j].mock
    BY <2>1 DEF RunStates
  <2>3. latest' = [latest EXCEPT ![j] = x] /\ UNCHANGED <<entries, units, seeks>>
    BY <1>7 DEF EndRun
  <2> HIDE DEF x
  <2>4. QED
    BY <1>5, <2>1, <2>2, <2>3
<1>8. ASSUME NEW j \in Vacancies, Recrawl(j) PROVE MatchInv'
  <2> DEFINE x == [latest[j] EXCEPT !.current = FALSE]
  <2>1. latest[j] \in RunStates /\ (latest[j].original => j = Reviewed /\ ~latest[j].mock)
    BY LatestHas
  <2>2. x \in RunStates /\ x.original = latest[j].original /\ x.mock = latest[j].mock
    BY <2>1 DEF RunStates
  <2>3. latest' = [latest EXCEPT ![j] = x] /\ UNCHANGED <<entries, units, seeks>>
    BY <1>8 DEF Recrawl
  <2> HIDE DEF x
  <2>4. QED
    BY <1>5, <2>1, <2>2, <2>3
<1>9. QED
  BY <1>1, <1>2, <1>3, <1>4, <1>6, <1>7, <1>8 DEF MatchNext

\* What is shared with the profile is a skill that the statement names and the
\* profile affirms.
LEMMA OverlapFact ==
    \A a : /\ Overlap(a) \subseteq {s \in {a.skill} : s \in Skills /\ Claimed(s, {"exact", "named"})
                                                      /\ ~Claimed(s, {"denied", "hedged"})}
           /\ \A g : AtomOverlap(a, g) \subseteq Overlap(a)
  BY DEF Overlap, AtomOverlap, Affirmed

LEMMA ComparedFact ==
    \A a : /\ Compared(a) \in {"supported", "gap", "unknown"}
           /\ Compared(a) = "supported" <=>
                 /\ a.skill \in Atomic /\ a.quote \notin {"qualified", "doubtful"}
                 /\ Claimed(a.skill, {"exact"}) /\ ~Claimed(a.skill, {"denied"})
           /\ Compared(a) = "gap" <=>
                 /\ a.skill \in Atomic /\ a.quote \notin {"qualified", "doubtful"}
                 /\ ~Claimed(a.skill, {"exact"}) /\ Claimed(a.skill, {"denied"})
<1>1. \A s, c : Claimed(s, c) \in BOOLEAN
  BY DEF Claimed
<1>2. QED
  BY <1>1, Zenon DEF Compared

\* A row that is decided is decided by its one statement.
LEMMA OutcomeFact ==
    ASSUME NEW r, r.operator = "fact" => \E a \in r.atoms : r.atoms = {a}, r.atoms # {}
    PROVE  /\ Outcome(r) \in {"supported", "gap", "unknown"}
           /\ Outcome(r) = "supported" <=>
                 \E a \in r.atoms :
                    /\ r.atoms = {a} /\ Compared(a) = "supported" /\ a.quote = "bare"
                    /\ IF r.operator = "fact" THEN a.kind = "skill" /\ Overlap(a) # {}
                       ELSE Narrow(r) /\ AtomOverlap(a, r) # {}
           /\ Outcome(r) = "gap" <=>
                 \E a \in r.atoms :
                    /\ r.atoms = {a} /\ Compared(a) = "gap" /\ a.quote = "bare"
                    /\ ~Claimed(a.skill, {"exact", "named"})
                    /\ IF r.operator = "fact" THEN a.kind = "skill" ELSE Narrow(r)
<1>1. CASE r.operator = "fact"
  <2>1. PICK a \in r.atoms : r.atoms = {a}
    BY <1>1
  <2>2. Outcome(r) = FactOutcome(a)
    BY <1>1, <2>1 DEF Outcome
  <2>3. FactOutcome(a) = IF \/ a.kind # "skill" \/ a.quote # "bare" \/ Contradicted(a)
                            \/ Compared(a) = "supported" /\ Overlap(a) = {}
                         THEN "unknown" ELSE Compared(a)
    BY DEF FactOutcome
  <2>4. Contradicted(a) <=> Compared(a) = "gap" /\ Claimed(a.skill, {"exact", "named"})
    BY DEF Contradicted
  <2>5. \A b \in r.atoms : b = a
    BY <2>1
  <2>6. QED
    BY <1>1, <2>1, <2>2, <2>3, <2>4, <2>5, ComparedFact
<1>2. CASE r.operator # "fact" /\ ~Narrow(r)
  BY <1>2 DEF Outcome
<1>3. CASE r.operator # "fact" /\ Narrow(r)
  <2>1. PICK a \in r.atoms : r.atoms = {a} /\ a.quote = "bare"
    BY <1>3 DEF Narrow
  <2>2. Outcome(r) = AtomOutcome(a, r)
    BY <1>3, <2>1 DEF Outcome
  <2>3. AtomOutcome(a, r) = IF /\ ~Contradicted(a)
                               /\ Compared(a) = "gap" \/ AtomOverlap(a, r) # {}
                            THEN Compared(a) ELSE "unknown"
    BY <1>3 DEF AtomOutcome
  <2>4. Contradicted(a) <=> Compared(a) = "gap" /\ Claimed(a.skill, {"exact", "named"})
    BY DEF Contradicted
  <2>5. \A b \in r.atoms : b = a
    BY <2>1
  <2>6. QED
    BY <1>3, <2>1, <2>2, <2>3, <2>4, <2>5, ComparedFact
<1>4. QED
  BY <1>1, <1>2, <1>3

LEMMA RowsFact ==
    ASSUME NEW j \in Vacancies, NEW r \in MatchRows(j)
    PROVE  r.atoms # {} /\ (r.operator = "fact" => \E a \in r.atoms : r.atoms = {a})
<1>1. r \in Corrected.rows \union UNION {Content[i].rows : i \in Vacancies}
  BY DEF MatchRows
<1>2. QED
  BY <1>1, MatchContent

LEMMA ExplicitFact == EvidenceIsExplicit
<1> SUFFICES ASSUME NEW j \in Vacancies, NEW r \in MatchRows(j)
             PROVE  LET named == {a.skill : a \in r.atoms} IN
                    /\ Shared(r) \subseteq {s \in named : /\ Claimed(s, {"exact", "named"})
                                                          /\ ~Claimed(s, {"denied", "hedged"})}
                    /\ Outcome(r) = "supported" => \E s \in Shared(r) : Claimed(s, {"exact"})
                    /\ Outcome(r) = "gap" => \A s \in named : /\ Claimed(s, {"denied"})
                                                              /\ ~Claimed(s, {"exact", "named"})
                    /\ Outcome(r) # "unknown" => \A a \in r.atoms : a.quote = "bare" /\ a.skill \in Atomic
  BY DEF EvidenceIsExplicit
<1> DEFINE named == {a.skill : a \in r.atoms}
           of(a) == IF r.operator = "fact" THEN Overlap(a) ELSE AtomOverlap(a, r)
<1>1. Shared(r) = UNION {of(a) : a \in r.atoms}
  BY DEF Shared
<1>2. \A a : of(a) \subseteq Overlap(a)
  BY OverlapFact
<1> HIDE DEF of
<1>3. Shared(r) \subseteq {s \in named : /\ Claimed(s, {"exact", "named"})
                                         /\ ~Claimed(s, {"denied", "hedged"})}
  <2> SUFFICES ASSUME NEW a \in r.atoms, NEW s \in of(a)
               PROVE  s \in named /\ Claimed(s, {"exact", "named"}) /\ ~Claimed(s, {"denied", "hedged"})
    BY <1>1
  <2>1. s = a.skill /\ Claimed(s, {"exact", "named"}) /\ ~Claimed(s, {"denied", "hedged"})
    BY <1>2, OverlapFact
  <2>2. QED
    BY <2>1
<1>4. ASSUME Outcome(r) = "supported"
      PROVE  /\ \E s \in Shared(r) : Claimed(s, {"exact"})
             /\ \A a \in r.atoms : a.quote = "bare" /\ a.skill \in Atomic
  <2>1. PICK a \in r.atoms : /\ r.atoms = {a} /\ Compared(a) = "supported" /\ a.quote = "bare"
                             /\ of(a) # {}
    BY <1>4, OutcomeFact, RowsFact DEF of
  <2>2. PICK s : s \in of(a)
    BY <2>1
  <2>3. s = a.skill /\ s \in Shared(r)
    BY <1>1, <1>2, <2>2, OverlapFact
  <2>4. QED
    BY <2>1, <2>3, ComparedFact
<1>5. ASSUME Outcome(r) = "gap"
      PROVE  /\ \A s \in named : Claimed(s, {"denied"}) /\ ~Claimed(s, {"exact", "named"})
             /\ \A a \in r.atoms : a.quote = "bare" /\ a.skill \in Atomic
  <2>1. PICK a \in r.atoms : /\ r.atoms = {a} /\ Compared(a) = "gap" /\ a.quote = "bare"
                             /\ ~Claimed(a.skill, {"exact", "named"})
    BY <1>5, OutcomeFact, RowsFact
  <2>2. QED
    BY <2>1, ComparedFact
<1>6. Outcome(r) \in {"supported", "gap", "unknown"}
  BY OutcomeFact, RowsFact
<1>7. QED
  BY <1>3, <1>4, <1>5, <1>6

LEMMA CurrentFact == ASSUME MatchInv PROVE ProposedIsCurrent
<1> SUFFICES ASSUME NEW j \in Matched
             PROVE  /\ latest[j].status = "needs_review" /\ latest[j].current /\ ~latest[j].mock
                    /\ (j = Reviewed => latest[j].original) /\ j \notin Leads
                    /\ \/ Concrete(j) # {}
                       \/ \E d \in Duties(j) : /\ d.priority \notin {"conditional", "secondary"}
                                               /\ d.activity \in Projects
  BY DEF ProposedIsCurrent
<1>1. /\ j \in Vacancies /\ Reason(j) = "none" /\ ~latest[j].mock
      /\ Concrete(j) \union Activities(j) # {}
  BY DEF Matched
<1>2. latest[j].status \in {"none", "running", "failed", "needs_review"}
  BY <1>1, LatestHas
<1>3. /\ latest[j].status = "needs_review" /\ latest[j].current
      /\ (j = Reviewed => latest[j].original) /\ j \notin Leads
  BY <1>1, <1>2 DEF Reason, ReviewHolds, Leads
<1>4. ASSUME NEW x \in Activities(j)
      PROVE  \E d \in Duties(j) : d.priority \notin {"conditional", "secondary"} /\ d.activity \in Projects
  <2>1. PICK d \in Duties(j) : d.priority \notin {"conditional", "secondary"} /\ x \in RelatedJob(d)
    BY <1>4 DEF Activities
  <2>2. d.activity \in Projects
    BY <2>1 DEF RelatedJob
  <2>3. QED
    BY <2>1, <2>2
<1>5. QED
  BY <1>1, <1>3, <1>4

\* The first part of a key is whether there is a gap.
LEMMA GapKeyFact ==
    /\ \A j : Key(j)[1] = IF HasGap(j) THEN 1 ELSE 0
    /\ \A j : DOMAIN Key(j) = 1..5
    /\ \A i, j : Ahead(i, j) /\ ~HasGap(j) => ~HasGap(i)
    /\ \A i, j : ~HasGap(i) /\ HasGap(j) => Ahead(i, j)
<1>1. \A j : Key(j)[1] = IF HasGap(j) THEN 1 ELSE 0
  BY DEF Key, Flag
<1>2. \A j : DOMAIN Key(j) = 1..5
  BY DEF Key
<1>3. ASSUME NEW i, NEW j, Ahead(i, j), ~HasGap(j) PROVE ~HasGap(i)
  <2>1. CASE Key(i) = Key(j)
    BY <1>1, <1>3, <2>1
  <2>2. CASE Precedes(Key(i), Key(j))
    <3>1. PICK k \in 1..5 : Key(i)[k] < Key(j)[k] /\ \A m \in 1..(k - 1) : Key(i)[m] = Key(j)[m]
      BY <1>2, <2>2 DEF Precedes
    <3>2. CASE k = 1
      BY <1>1, <1>3, <3>1, <3>2
    <3>3. CASE k # 1
      <4>1. 1 \in 1..(k - 1)
        BY <3>3
      <4>2. Key(i)[1] = Key(j)[1]
        BY <3>1, <4>1
      <4>3. QED
        BY <1>1, <1>3, <4>2
    <3>4. QED
      BY <3>2, <3>3
  <2>3. QED
    BY <1>3, <2>1, <2>2 DEF Ahead
<1>4. ASSUME NEW i, NEW j, ~HasGap(i), HasGap(j) PROVE Ahead(i, j)
  <2>1. Key(i)[1] = 0 /\ Key(j)[1] = 1 /\ 1 \in DOMAIN Key(i)
    BY <1>1, <1>2, <1>4
  <2>2. Key(i)[1] < Key(j)[1] /\ \A m \in 1..(1 - 1) : Key(i)[m] = Key(j)[m]
    BY <2>1
  <2>3. QED
    BY <2>1, <2>2 DEF Ahead, Precedes
<1>5. QED
  BY <1>1, <1>2, <1>3, <1>4

LEMMA GapsFact == GapsComeLast
<1> SUFFICES ASSUME NEW i \in Matched \ Proposed, NEW j \in Proposed, ~HasGap(i), HasGap(j)
             PROVE  FALSE
  BY DEF GapsComeLast
<1> DEFINE before(x) == {k \in Matched : Ahead(k, x)}
<1>1. Matched \subseteq Vacancies /\ IsFiniteSet(Vacancies)
  BY MatchConstants, FS_Interval DEF Matched, Vacancies
<1>2. IsFiniteSet(Matched)
  BY <1>1, FS_Subset
<1>3. IsFiniteSet(before(i)) /\ IsFiniteSet(before(j))
  BY <1>2, FS_Subset
<1>4. before(i) \subseteq before(j)
  BY GapKeyFact
<1>5. /\ Cardinality(before(i)) <= Cardinality(before(j))
      /\ Cardinality(before(i)) \in Nat /\ Cardinality(before(j)) \in Nat /\ Limit \in Nat
  BY <1>3, <1>4, FS_Subset, FS_CardinalityType, MatchConstants
<1>6. ~(Cardinality(before(i)) < Limit) /\ Cardinality(before(j)) < Limit
  BY DEF Proposed
<1>7. QED
  BY <1>5, <1>6

\* Lines that affirm were added, or doubts taken back, and nothing else.
Improved ==
    /\ \A e \in entries \ entries' : e.claim \in {"denied", "hedged"}
    /\ \A e \in entries' \ entries : e.claim \in {"exact", "named"}
    /\ \A u \in units \ units' : u.claim = "denied"
    /\ \A u \in units' \ units : u.claim = "done"
    /\ UNCHANGED <<seeks, latest>>

\* What is affirmed stays so, and nothing more is doubted.
LEMMA ClaimsGrow ==
    ASSUME Improved
    PROVE  /\ \A s : Claimed(s, {"exact"}) => Claimed(s, {"exact"})'
           /\ \A s : Claimed(s, {"exact", "named"}) => Claimed(s, {"exact", "named"})'
           /\ \A s : Claimed(s, {"denied"})' => Claimed(s, {"denied"})
           /\ \A s : Claimed(s, {"denied", "hedged"})' => Claimed(s, {"denied", "hedged"})
           /\ Affirmed \subseteq Affirmed' /\ Projects \subseteq Projects'
<1>1. \A s : Claimed(s, {"exact"}) => Claimed(s, {"exact"})'
  BY DEF Improved, Claimed
<1>2. \A s : Claimed(s, {"exact", "named"}) => Claimed(s, {"exact", "named"})'
  BY DEF Improved, Claimed
<1>3. \A s : Claimed(s, {"denied"})' => Claimed(s, {"denied"})
  BY DEF Improved, Claimed
<1>4. \A s : Claimed(s, {"denied", "hedged"})' => Claimed(s, {"denied", "hedged"})
  BY DEF Improved, Claimed
<1>5. Affirmed \subseteq Affirmed'
  BY <1>2, <1>4 DEF Affirmed
<1>6. Projects \subseteq Projects'
  <2> SUFFICES ASSUME NEW p \in Projects
               PROVE  p \in Projects'
    OBVIOUS
  <2>1. PICK u \in units : u.claim = "done" /\ u.activity = p
    BY DEF Projects
  <2>2. \A v \in units : v.claim = "denied" => v.activity # p
    BY DEF Projects
  <2>3. u \in units'
    BY <2>1 DEF Improved
  <2>4. \A v \in units' : v.claim = "denied" => v.activity # p
    BY <2>2 DEF Improved
  <2>5. QED
    BY <2>1, <2>3, <2>4 DEF Projects
<1>7. QED
  BY <1>1, <1>2, <1>3, <1>4, <1>5, <1>6

LEMMA OutcomesGrow ==
    ASSUME Improved
    PROVE  /\ \A j : MatchRows(j)' = MatchRows(j) /\ Duties(j)' = Duties(j) /\ Reason(j)' = Reason(j)
           /\ \A a : Overlap(a) \subseteq Overlap(a)'
           /\ \A a, g : AtomOverlap(a, g) \subseteq AtomOverlap(a, g)'
           /\ \A r : Shared(r) \subseteq Shared(r)'
           /\ \A d : RelatedJob(d) \subseteq RelatedJob(d)'
           /\ \A a : Compared(a) = "supported" => Compared(a)' = "supported"
           /\ \A a : Compared(a)' = "gap" => Compared(a) = "gap"
<1>1. \A j : MatchRows(j)' = MatchRows(j) /\ Duties(j)' = Duties(j) /\ Reason(j)' = Reason(j)
  BY DEF Improved, MatchRows, Duties, Reason, ReviewHolds
<1>2. \A a : Overlap(a) \subseteq Overlap(a)'
  BY ClaimsGrow DEF Overlap
<1>3. \A a, g : AtomOverlap(a, g) \subseteq AtomOverlap(a, g)'
  <2> SUFFICES ASSUME NEW a, NEW g, NEW s \in AtomOverlap(a, g)
               PROVE  s \in AtomOverlap(a, g)'
    OBVIOUS
  <2>1. g.quote \notin {"doubtful", "absent"} /\ s \in Overlap(a) \ General
    BY DEF AtomOverlap
  <2>2. QED
    BY <1>2, <2>1 DEF AtomOverlap
<1>4. \A r : Shared(r) \subseteq Shared(r)'
  <2> SUFFICES ASSUME NEW r, NEW s \in Shared(r)
               PROVE  s \in Shared(r)'
    OBVIOUS
  <2>1. PICK a \in r.atoms : s \in (IF r.operator = "fact" THEN Overlap(a) ELSE AtomOverlap(a, r))
    BY DEF Shared
  <2>2. s \in (IF r.operator = "fact" THEN Overlap(a)' ELSE AtomOverlap(a, r)')
    BY <1>2, <1>3, <2>1
  <2>3. QED
    BY <2>2 DEF Shared
<1>5. \A d : RelatedJob(d) \subseteq RelatedJob(d)'
  BY ClaimsGrow DEF RelatedJob
<1>6. \A a : Compared(a) = "supported" => Compared(a)' = "supported"
  <2> SUFFICES ASSUME NEW a, Compared(a) = "supported"
               PROVE  Compared(a)' = "supported"
    OBVIOUS
  <2>1. /\ a.skill \in Atomic /\ a.quote \notin {"qualified", "doubtful"}
        /\ Claimed(a.skill, {"exact"})' /\ ~Claimed(a.skill, {"denied"})'
    BY ComparedFact, ClaimsGrow
  <2>2. Claimed(a.skill, {"exact"})' # Claimed(a.skill, {"denied"})'
    BY <2>1
  <2>3. QED
    BY <2>1, <2>2 DEF Compared
<1>7. \A a : Compared(a)' = "gap" => Compared(a) = "gap"
  <2> SUFFICES ASSUME NEW a, Compared(a)' = "gap"
               PROVE  Compared(a) = "gap"
    OBVIOUS
  <2>1. /\ a.skill \in Atomic /\ a.quote \notin {"qualified", "doubtful"}
        /\ ~Claimed(a.skill, {"exact"})'
        /\ (Claimed(a.skill, {"exact"})' = Claimed(a.skill, {"denied"})') = FALSE
    BY DEF Compared
  <2>2. Claimed(a.skill, {"denied"})' \in BOOLEAN /\ Claimed(a.skill, {"exact"})' \in BOOLEAN
    BY DEF Claimed
  <2>3. Claimed(a.skill, {"denied"})'
    BY <2>1, <2>2, Zenon
  <2>4. QED
    BY <2>1, <2>3, ComparedFact, ClaimsGrow
<1>8. QED
  BY <1>1, <1>2, <1>3, <1>4, <1>5, <1>6, <1>7

\* A supported row stays supported, and no gap is new.
LEMMA DecisionsGrow ==
    ASSUME Improved, NEW j \in Vacancies, NEW r \in MatchRows(j)
    PROVE  /\ Outcome(r) = "supported" => Outcome(r)' = "supported"
           /\ Outcome(r)' = "gap" => Outcome(r) = "gap"
<1>1. r.atoms # {} /\ (r.operator = "fact" => \E a \in r.atoms : r.atoms = {a})
  BY RowsFact
<1>2. CASE r.operator = "fact"
  <2>1. PICK a \in r.atoms : r.atoms = {a}
    BY <1>1, <1>2
  <2>2. Outcome(r) = FactOutcome(a) /\ Outcome(r)' = FactOutcome(a)'
    BY <1>2, <2>1 DEF Outcome
  <2>3. ASSUME FactOutcome(a) = "supported" PROVE FactOutcome(a)' = "supported"
    <3>1. a.kind = "skill" /\ a.quote = "bare" /\ Compared(a) = "supported" /\ Overlap(a) # {}
      BY <2>3 DEF FactOutcome
    <3>2. Compared(a)' = "supported" /\ Overlap(a)' # {}
      BY <3>1, OutcomesGrow
    <3>3. ~Contradicted(a)'
      BY <3>2 DEF Contradicted
    <3>4. QED
      BY <3>1, <3>2, <3>3 DEF FactOutcome
  <2>4. ASSUME FactOutcome(a)' = "gap" PROVE FactOutcome(a) = "gap"
    <3>1. a.kind = "skill" /\ a.quote = "bare" /\ Compared(a)' = "gap" /\ ~Contradicted(a)'
      BY <2>4 DEF FactOutcome
    <3>2. Compared(a) = "gap"
      BY <3>1, OutcomesGrow
    <3>3. ~Claimed(a.skill, {"exact", "named"})'
      BY <3>1 DEF Contradicted
    <3>4. ~Contradicted(a)
      BY <3>3, ClaimsGrow DEF Contradicted
    <3>5. QED
      BY <3>1, <3>2, <3>4 DEF FactOutcome
  <2>5. QED
    BY <2>2, <2>3, <2>4
<1>3. CASE r.operator # "fact" /\ ~Narrow(r)
  BY <1>3 DEF Outcome
<1>4. CASE r.operator # "fact" /\ Narrow(r)
  <2> DEFINE a == CHOOSE x \in r.atoms : TRUE
  <2>1. Outcome(r) = AtomOutcome(a, r) /\ Outcome(r)' = AtomOutcome(a, r)'
    BY <1>4 DEF Outcome
  <2> HIDE DEF a
  <2>2. ASSUME AtomOutcome(a, r) = "supported" PROVE AtomOutcome(a, r)' = "supported"
    <3>1. Compared(a) = "supported" /\ AtomOverlap(a, r) # {}
      BY <2>2 DEF AtomOutcome
    <3>2. Compared(a)' = "supported" /\ AtomOverlap(a, r)' # {}
      BY <3>1, OutcomesGrow
    <3>3. ~Contradicted(a)'
      BY <3>2 DEF Contradicted
    <3>4. QED
      BY <1>4, <3>1, <3>2, <3>3 DEF AtomOutcome
  <2>3. ASSUME AtomOutcome(a, r)' = "gap" PROVE AtomOutcome(a, r) = "gap"
    <3>1. Compared(a)' = "gap" /\ ~Contradicted(a)'
      BY <2>3 DEF AtomOutcome
    <3>2. Compared(a) = "gap"
      BY <3>1, OutcomesGrow
    <3>3. ~Claimed(a.skill, {"exact", "named"})'
      BY <3>1 DEF Contradicted
    <3>4. ~Contradicted(a)
      BY <3>3, ClaimsGrow DEF Contradicted
    <3>5. QED
      BY <1>4, <3>1, <3>2, <3>4 DEF AtomOutcome
  <2>4. QED
    BY <2>1, <2>2, <2>3
<1>5. QED
  BY <1>2, <1>3, <1>4

\* What a job is proposed for is finite.
FiniteEvidence ==
    \A j : /\ IsFiniteSet(Exact(j)) /\ IsFiniteSet(Concrete(j)) /\ IsFiniteSet(Activities(j))
          /\ Cardinality(Exact(j)) \in Nat /\ Cardinality(Concrete(j)) \in Nat
          /\ Cardinality(Activities(j)) \in Nat

LEMMA EvidenceIsFinite == MatchTypes => FiniteEvidence
<1> SUFFICES ASSUME MatchTypes, NEW j
             PROVE  /\ IsFiniteSet(Exact(j)) /\ IsFiniteSet(Concrete(j)) /\ IsFiniteSet(Activities(j))
                    /\ Cardinality(Exact(j)) \in Nat /\ Cardinality(Concrete(j)) \in Nat
                    /\ Cardinality(Activities(j)) \in Nat
  BY DEF FiniteEvidence
<1>1. \A r : Shared(r) \subseteq Skills
  BY OverlapFact DEF Shared
<1>2. Exact(j) \subseteq Skills /\ Concrete(j) \subseteq Skills
  BY <1>1 DEF Exact, Concrete
<1>3. Activities(j) \subseteq {u.activity : u \in Units}
  <2>1. Projects \subseteq {u.activity : u \in Units}
    BY DEF MatchTypes, Projects
  <2>2. Activities(j) \subseteq Projects
    BY DEF Activities, RelatedJob
  <2>3. QED
    BY <2>1, <2>2
<1>4. IsFiniteSet({u.activity : u \in Units})
  <2> DEFINE T == {u.activity : u \in Units}
             f == [u \in Units |-> u.activity]
  <2>1. f \in Surjection(Units, T)
    BY DEF Surjection
  <2> HIDE DEF f, T
  <2>2. IsFiniteSet(T)
    BY <2>1, MatchConstants, FS_Surjection
  <2>3. QED
    BY <2>2 DEF T
<1>5. IsFiniteSet(Exact(j)) /\ IsFiniteSet(Concrete(j)) /\ IsFiniteSet(Activities(j))
  BY <1>2, <1>3, <1>4, MatchConstants, FS_Subset
<1>6. QED
  BY <1>5, FS_CardinalityType

LEMMA FiniteLater == MatchTypes' => FiniteEvidence'
BY EvidenceIsFinite, PTL

\* What is concrete or exact, spelled out, now and after a step.
LEMMA Spelled ==
    ASSUME NEW j
    PROVE  /\ \A s : s \in Concrete(j) <=> s \notin General /\ \E r \in MatchRows(j) : s \in Shared(r)
           /\ \A s : s \in Concrete(j)' <=> s \notin General /\ \E r \in MatchRows(j)' : s \in Shared(r)'
           /\ \A s : s \in Exact(j) <=>
                      s \notin General /\ \E r \in MatchRows(j) : Outcome(r) = "supported" /\ s \in Shared(r)
           /\ \A s : s \in Exact(j)' <=>
                      s \notin General /\ \E r \in MatchRows(j)' : Outcome(r)' = "supported" /\ s \in Shared(r)'
<1>1. \A s : s \in Concrete(j) <=> s \notin General /\ \E r \in MatchRows(j) : s \in Shared(r)
  <2> DEFINE Q == {q \in MatchRows(j) : TRUE}
             T == {Shared(r) : r \in Q}
  <2>1. Concrete(j) = (UNION T) \ General
    BY DEF Concrete
  <2>2. \A r \in Q : Shared(r) \in T
    OBVIOUS
  <2>3. \A t \in T : \E r \in Q : t = Shared(r)
    OBVIOUS
  <2>4. \A r : r \in Q <=> r \in MatchRows(j)
    OBVIOUS
  <2> HIDE DEF Q, T
  <2>5. ASSUME NEW s, s \in Concrete(j)
        PROVE  s \notin General /\ \E r \in MatchRows(j) : s \in Shared(r)
    <3>1. s \notin General /\ \E t \in T : s \in t
      <4>1. s \in (UNION T) \ General
        BY <2>1, <2>5
      <4>2. s \in UNION T
        BY <4>1
      <4>3. \E t \in T : s \in t
        BY <4>2, Zenon
      <4>4. QED
        BY <4>1, <4>3
    <3>2. PICK t \in T : s \in t
      BY <3>1
    <3>3. PICK r \in Q : t = Shared(r)
      BY <2>3
    <3>4. QED
      BY <2>4, <3>1, <3>2, <3>3
  <2>6. ASSUME NEW s, s \notin General, NEW r \in MatchRows(j), s \in Shared(r)
        PROVE  s \in Concrete(j)
    <3>1. Shared(r) \in T
      BY <2>2, <2>4, <2>6
    <3>2. s \in UNION T
      BY <2>6, <3>1, Zenon
    <3>3. s \in (UNION T) \ General
      BY <2>6, <3>2
    <3>4. QED
      BY <2>1, <3>3, Zenon
  <2>7. QED
    BY <2>5, <2>6
<1>2. \A s : s \in Concrete(j)' <=> s \notin General /\ \E r \in MatchRows(j)' : s \in Shared(r)'
  <2> DEFINE Q == {q \in MatchRows(j)' : TRUE}
             T == {Shared(r)' : r \in Q}
  <2>1. Concrete(j)' = (UNION T) \ General
    BY DEF Concrete
  <2>2. \A r \in Q : Shared(r)' \in T
    OBVIOUS
  <2>3. \A t \in T : \E r \in Q : t = Shared(r)'
    OBVIOUS
  <2>4. \A r : r \in Q <=> r \in MatchRows(j)'
    OBVIOUS
  <2> HIDE DEF Q, T
  <2>5. ASSUME NEW s, s \in Concrete(j)'
        PROVE  s \notin General /\ \E r \in MatchRows(j)' : s \in Shared(r)'
    <3>1. s \notin General /\ \E t \in T : s \in t
      <4>1. s \in (UNION T) \ General
        BY <2>1, <2>5
      <4>2. s \in UNION T
        BY <4>1
      <4>3. \E t \in T : s \in t
        BY <4>2, Zenon
      <4>4. QED
        BY <4>1, <4>3
    <3>2. PICK t \in T : s \in t
      BY <3>1
    <3>3. PICK r \in Q : t = Shared(r)'
      BY <2>3
    <3>4. QED
      BY <2>4, <3>1, <3>2, <3>3
  <2>6. ASSUME NEW s, s \notin General, NEW r \in MatchRows(j)', s \in Shared(r)'
        PROVE  s \in Concrete(j)'
    <3>1. Shared(r)' \in T
      BY <2>2, <2>4, <2>6
    <3>2. s \in UNION T
      BY <2>6, <3>1, Zenon
    <3>3. s \in (UNION T) \ General
      BY <2>6, <3>2
    <3>4. QED
      BY <2>1, <3>3, Zenon
  <2>7. QED
    BY <2>5, <2>6
<1>3. \A s : s \in Exact(j) <=> s \notin General /\ \E r \in MatchRows(j) : Outcome(r) = "supported" /\ s \in Shared(r)
  <2> DEFINE Q == {q \in MatchRows(j) : Outcome(q) = "supported"}
             T == {Shared(r) : r \in Q}
  <2>1. Exact(j) = (UNION T) \ General
    BY DEF Exact
  <2>2. \A r \in Q : Shared(r) \in T
    OBVIOUS
  <2>3. \A t \in T : \E r \in Q : t = Shared(r)
    OBVIOUS
  <2>4. \A r : r \in Q <=> r \in MatchRows(j) /\ Outcome(r) = "supported"
    OBVIOUS
  <2> HIDE DEF Q, T
  <2>5. ASSUME NEW s, s \in Exact(j)
        PROVE  s \notin General /\ \E r \in MatchRows(j) : Outcome(r) = "supported" /\ s \in Shared(r)
    <3>1. s \notin General /\ \E t \in T : s \in t
      <4>1. s \in (UNION T) \ General
        BY <2>1, <2>5
      <4>2. s \in UNION T
        BY <4>1
      <4>3. \E t \in T : s \in t
        BY <4>2, Zenon
      <4>4. QED
        BY <4>1, <4>3
    <3>2. PICK t \in T : s \in t
      BY <3>1
    <3>3. PICK r \in Q : t = Shared(r)
      BY <2>3
    <3>4. QED
      BY <2>4, <3>1, <3>2, <3>3
  <2>6. ASSUME NEW s, s \notin General, NEW r \in MatchRows(j), Outcome(r) = "supported", s \in Shared(r)
        PROVE  s \in Exact(j)
    <3>1. Shared(r) \in T
      BY <2>2, <2>4, <2>6
    <3>2. s \in UNION T
      BY <2>6, <3>1, Zenon
    <3>3. s \in (UNION T) \ General
      BY <2>6, <3>2
    <3>4. QED
      BY <2>1, <3>3, Zenon
  <2>7. QED
    BY <2>5, <2>6
<1>4. \A s : s \in Exact(j)' <=> s \notin General /\ \E r \in MatchRows(j)' : Outcome(r)' = "supported" /\ s \in Shared(r)'
  <2> DEFINE Q == {q \in MatchRows(j)' : Outcome(q)' = "supported"}
             T == {Shared(r)' : r \in Q}
  <2>1. Exact(j)' = (UNION T) \ General
    BY DEF Exact
  <2>2. \A r \in Q : Shared(r)' \in T
    OBVIOUS
  <2>3. \A t \in T : \E r \in Q : t = Shared(r)'
    OBVIOUS
  <2>4. \A r : r \in Q <=> r \in MatchRows(j)' /\ Outcome(r)' = "supported"
    OBVIOUS
  <2> HIDE DEF Q, T
  <2>5. ASSUME NEW s, s \in Exact(j)'
        PROVE  s \notin General /\ \E r \in MatchRows(j)' : Outcome(r)' = "supported" /\ s \in Shared(r)'
    <3>1. s \notin General /\ \E t \in T : s \in t
      <4>1. s \in (UNION T) \ General
        BY <2>1, <2>5
      <4>2. s \in UNION T
        BY <4>1
      <4>3. \E t \in T : s \in t
        BY <4>2, Zenon
      <4>4. QED
        BY <4>1, <4>3
    <3>2. PICK t \in T : s \in t
      BY <3>1
    <3>3. PICK r \in Q : t = Shared(r)'
      BY <2>3
    <3>4. QED
      BY <2>4, <3>1, <3>2, <3>3
  <2>6. ASSUME NEW s, s \notin General, NEW r \in MatchRows(j)', Outcome(r)' = "supported", s \in Shared(r)'
        PROVE  s \in Exact(j)'
    <3>1. Shared(r)' \in T
      BY <2>2, <2>4, <2>6
    <3>2. s \in UNION T
      BY <2>6, <3>1, Zenon
    <3>3. s \in (UNION T) \ General
      BY <2>6, <3>2
    <3>4. QED
      BY <2>1, <3>3, Zenon
  <2>7. QED
    BY <2>5, <2>6
<1>5. QED
  BY <1>1, <1>2, <1>3, <1>4

LEMMA KeysGrow ==
    ASSUME Improved, MatchTypes, MatchTypes', NEW j \in Vacancies
    PROVE  ~Precedes(Key(j), Key(j)')
<1>1. Exact(j) \subseteq Exact(j)'
  <2> SUFFICES ASSUME NEW s \in Exact(j)
               PROVE  s \in Exact(j)'
    OBVIOUS
  <2>1. PICK r \in MatchRows(j) : Outcome(r) = "supported" /\ s \in Shared(r) /\ s \notin General
    BY Spelled
  <2>2. r \in MatchRows(j)' /\ Outcome(r)' = "supported" /\ s \in Shared(r)'
    BY <2>1, OutcomesGrow, DecisionsGrow
  <2>3. QED
    BY <2>1, <2>2, Spelled
<1>2. Concrete(j) \subseteq Concrete(j)'
  <2> SUFFICES ASSUME NEW s \in Concrete(j)
               PROVE  s \in Concrete(j)'
    OBVIOUS
  <2>1. PICK r \in MatchRows(j) : s \in Shared(r) /\ s \notin General
    BY Spelled
  <2>2. r \in MatchRows(j)' /\ s \in Shared(r)'
    BY <2>1, OutcomesGrow
  <2>3. QED
    BY <2>1, <2>2, Spelled
<1>3. Activities(j) \subseteq Activities(j)'
  <2> SUFFICES ASSUME NEW x \in Activities(j)
               PROVE  x \in Activities(j)'
    OBVIOUS
  <2>1. PICK d \in Duties(j) : d.priority \notin {"conditional", "secondary"} /\ x \in RelatedJob(d)
    BY DEF Activities
  <2>2. d \in Duties(j)' /\ x \in RelatedJob(d)'
    BY <2>1, OutcomesGrow
  <2>3. QED
    BY <2>1, <2>2 DEF Activities
<1>4. HasGap(j)' => HasGap(j)
  BY OutcomesGrow, DecisionsGrow DEF HasGap
<1> DEFINE e == Cardinality(Exact(j))
           c == Cardinality(Concrete(j))
           a == Cardinality(Activities(j))
           f == Flag(seeks /\ j \notin Interns)
<1>5. /\ e \in Nat /\ e' \in Nat /\ e <= e' /\ c \in Nat /\ c' \in Nat /\ c <= c'
      /\ a \in Nat /\ a' \in Nat /\ a <= a'
  <2>4. FiniteEvidence /\ FiniteEvidence'
    BY EvidenceIsFinite, FiniteLater
  <2>1. /\ IsFiniteSet(Exact(j)') /\ IsFiniteSet(Concrete(j)') /\ IsFiniteSet(Activities(j)')
        /\ e' \in Nat /\ c' \in Nat /\ a' \in Nat
    BY <2>4 DEF FiniteEvidence
  <2>2. e \in Nat /\ c \in Nat /\ a \in Nat
    BY <2>4 DEF FiniteEvidence
  <2>3. e <= e' /\ c <= c' /\ a <= a'
    BY <1>1, <1>2, <1>3, <2>1, FS_Subset
  <2>5. QED
    BY <2>1, <2>2, <2>3
<1>6. /\ Key(j)[1] = (IF HasGap(j) THEN 1 ELSE 0) /\ Key(j)[2] = f
      /\ Key(j)[3] = -e /\ Key(j)[4] = -c /\ Key(j)[5] = -a
      /\ DOMAIN Key(j) = {1, 2, 3, 4, 5}
  <2>1. DOMAIN Key(j) = {1, 2, 3, 4, 5}
    BY DEF Key
  <2>2. QED
    BY <2>1 DEF Key, Flag
<1>7. /\ Key(j)'[1] = (IF HasGap(j)' THEN 1 ELSE 0) /\ Key(j)'[2] = f
      /\ Key(j)'[3] = -e' /\ Key(j)'[4] = -c' /\ Key(j)'[5] = -a'
  BY DEF Key, Flag, Improved
<1>8. f \in {0, 1}
  BY DEF Flag
<1> HIDE DEF e, c, a, f
<1>9. ~(Key(j)[1] < Key(j)'[1])
  BY <1>4, <1>6, <1>7
<1>10. ~(Key(j)[2] < Key(j)'[2])
  BY <1>6, <1>7, <1>8
<1>11. /\ ~(Key(j)[3] < Key(j)'[3]) /\ ~(Key(j)[4] < Key(j)'[4])
       /\ ~(Key(j)[5] < Key(j)'[5])
  <2>3. \A x, y \in Nat : x <= y => ~(-x < -y)
    OBVIOUS
  <2>1. ~(-e < -e') /\ ~(-c < -c') /\ ~(-a < -a')
    BY <1>5, <2>3
  <2>2. QED
    BY <1>6, <1>7, <2>1
<1>12. \A k \in DOMAIN Key(j) : ~(Key(j)[k] < Key(j)'[k])
  BY <1>6, <1>9, <1>10, <1>11
<1>13. QED
  BY <1>12 DEF Precedes

LEMMA MatchedGrow == ASSUME Improved PROVE Matched \subseteq Matched'
<1> SUFFICES ASSUME NEW j \in Matched
             PROVE  j \in Matched'
  OBVIOUS
<1>1. /\ j \in Vacancies /\ (ConcreteSkills # {} \/ Projects # {}) /\ Reason(j) = "none"
      /\ ~latest[j].mock /\ Concrete(j) \union Activities(j) # {}
  BY DEF Matched
<1>2. ConcreteSkills' # {} \/ Projects' # {}
  BY <1>1, ClaimsGrow DEF ConcreteSkills
<1>3. Reason(j)' = "none" /\ ~latest'[j].mock
  BY <1>1, OutcomesGrow DEF Improved
<1>4. Concrete(j) # {} => Concrete(j)' # {}
  <2> SUFFICES ASSUME NEW s \in Concrete(j)
               PROVE  s \in Concrete(j)'
    OBVIOUS
  <2>1. PICK r \in MatchRows(j) : s \in Shared(r) /\ s \notin General
    BY Spelled
  <2>2. r \in MatchRows(j)' /\ s \in Shared(r)'
    BY <2>1, OutcomesGrow
  <2>3. QED
    BY <2>1, <2>2, Spelled
<1>5. Activities(j) # {} => Activities(j)' # {}
  <2> SUFFICES ASSUME NEW x \in Activities(j)
               PROVE  x \in Activities(j)'
    OBVIOUS
  <2>1. PICK d \in Duties(j) : d.priority \notin {"conditional", "secondary"} /\ x \in RelatedJob(d)
    BY DEF Activities
  <2>2. d \in Duties(j)' /\ x \in RelatedJob(d)'
    BY <2>1, OutcomesGrow
  <2>3. QED
    BY <2>1, <2>2 DEF Activities
<1>6. QED
  BY <1>1, <1>2, <1>3, <1>4, <1>5 DEF Matched

Helps ==
    (/\ <<entries, units>>' # <<entries, units>>
     /\ \A e \in entries \ entries' : e.claim \in {"denied", "hedged"}
     /\ \A e \in entries' \ entries : e.claim \in {"exact", "named"}
     /\ \A u \in units \ units' : u.claim = "denied"
     /\ \A u \in units' \ units : u.claim = "done"
     /\ UNCHANGED <<seeks, latest>>)
    => /\ Matched \subseteq Matched'
       /\ \A j \in Matched : \E k \in {Key(j)} : ~Precedes(k, Key(j)')

LEMMA HelpsStep == MatchInv /\ [MatchNext]_matchVars => [Helps]_matchVars
<1> SUFFICES ASSUME MatchInv, [MatchNext]_matchVars, Improved
             PROVE  /\ Matched \subseteq Matched'
                    /\ \A j \in Matched : \E k \in {Key(j)} : ~Precedes(k, Key(j)')
  BY DEF Helps, Improved
<1>1. MatchTypes /\ MatchTypes'
  BY MatchStepInv DEF MatchInv
<1>2. Matched \subseteq Vacancies
  BY DEF Matched
<1>3. QED
  BY <1>1, <1>2, KeysGrow, MatchedGrow
-------------------------------------------------------------------------------
(* The advice and its order *)

\* The order of keys is strict; keys that differ in one place are ordered.
LEMMA LexFact ==
    ASSUME NEW k \in [1..5 -> Int], NEW l \in [1..5 -> Int], NEW m \in [1..5 -> Int]
    PROVE  /\ ~Before(k, k)
           /\ Before(k, l) /\ Before(l, m) => Before(k, m)
           /\ k[5] # l[5] => Before(k, l) \/ Before(l, k)
<1>1. ~Before(k, k)
  BY DEF Before
<1>2. ASSUME Before(k, l), Before(l, m) PROVE Before(k, m)
  <2>1. PICK a \in 1..5 : k[a] < l[a] /\ \A x \in 1..(a - 1) : k[x] = l[x]
    BY <1>2 DEF Before
  <2>2. PICK b \in 1..5 : l[b] < m[b] /\ \A x \in 1..(b - 1) : l[x] = m[x]
    BY <1>2 DEF Before
  <2>3. CASE a < b
    <3>1. a \in 1..(b - 1)
      BY <2>3
    <3>2. k[a] < m[a]
      BY <2>1, <2>2, <3>1
    <3>3. \A x \in 1..(a - 1) : k[x] = m[x]
      BY <2>1, <2>2, <2>3
    <3>4. QED
      BY <3>2, <3>3 DEF Before
  <2>4. CASE a = b
    <3>1. k[a] < m[a]
      BY <2>1, <2>2, <2>4
    <3>3. \A x \in 1..(a - 1) : k[x] = m[x]
      BY <2>1, <2>2, <2>4
    <3>4. QED
      BY <3>1, <3>3 DEF Before
  <2>5. CASE b < a
    <3>1. b \in 1..(a - 1)
      BY <2>5
    <3>2. k[b] < m[b]
      BY <2>1, <2>2, <3>1
    <3>3. \A x \in 1..(b - 1) : k[x] = m[x]
      BY <2>1, <2>2, <2>5
    <3>4. QED
      BY <3>2, <3>3 DEF Before
  <2>6. QED
    BY <2>3, <2>4, <2>5
<1>3. ASSUME k[5] # l[5] PROVE Before(k, l) \/ Before(l, k)
  <2> DEFINE Same(n) == \A x \in 1..(n - 1) : k[x] = l[x]
  <2>1. ASSUME NEW n \in 1..5, Same(n), k[n] # l[n] PROVE Before(k, l) \/ Before(l, k)
    <3>1. k[n] \in Int /\ l[n] \in Int
      OBVIOUS
    <3>2. CASE k[n] < l[n]
      BY <2>1, <3>2 DEF Before
    <3>3. CASE l[n] < k[n]
      BY <2>1, <3>3 DEF Before
    <3>4. QED
      BY <2>1, <3>1, <3>2, <3>3
  <2>2. Same(1)
    OBVIOUS
  <2>3. k[1] = l[1] => Same(2)
    OBVIOUS
  <2>4. k[1] = l[1] /\ k[2] = l[2] => Same(3)
    OBVIOUS
  <2>5. k[1] = l[1] /\ k[2] = l[2] /\ k[3] = l[3] => Same(4)
    OBVIOUS
  <2>6. k[1] = l[1] /\ k[2] = l[2] /\ k[3] = l[3] /\ k[4] = l[4] => Same(5)
    OBVIOUS
  <2> HIDE DEF Same
  <2>7. QED
    BY <1>3, <2>1, <2>2, <2>3, <2>4, <2>5, <2>6
<1>4. QED
  BY <1>1, <1>2, <1>3

\* Ranked as a model must, a batch can be put in order by what differs in its ranks.
BatchOk(jobs) ==
    /\ \E n \in Nat : DOMAIN jobs = 1..n
    /\ jobs = [k \in DOMAIN jobs |-> jobs[k]]
    /\ \A k \in DOMAIN jobs : AdviceJob(jobs[k])
    /\ \A k, l \in DOMAIN jobs : jobs[k].rank = jobs[l].rank => k = l

LEMMA SortedFact ==
    ASSUME NEW n \in Nat, NEW jobs, DOMAIN jobs = 1..n, NEW T,
           \A a \in 1..n : <<a, a>> \notin T,
           \A a, b, c \in 1..n : <<a, b>> \in T /\ <<b, c>> \in T => <<a, c>> \in T,
           \A a, b \in 1..n : a = b \/ <<a, b>> \in T \/ <<b, a>> \in T
    PROVE  /\ SortedBy(jobs, T) \in Surjection(1..n, 1..n)
           /\ SortedBy(jobs, T) \in Injection(1..n, 1..n)
           /\ \A k, l \in 1..n : k < l => <<SortedBy(jobs, T)[k], SortedBy(jobs, T)[l]>> \in T
<1>1. IsFiniteSet(1..n) /\ Cardinality(1..n) = n
  BY FS_Interval
<1>2. \E p \in [1..n -> 1..n] : \A k, l \in 1..n : k < l => <<p[k], p[l]>> \in T
  <2> DEFINE S == 1..n
  <2>1. /\ IsFiniteSet(S) /\ Cardinality(S) = n /\ \A a \in S : <<a, a>> \notin T
        /\ \A a, b, c \in S : <<a, b>> \in T /\ <<b, c>> \in T => <<a, c>> \in T
        /\ \A a, b \in S : a = b \/ <<a, b>> \in T \/ <<b, a>> \in T
    BY <1>1
  <2> HIDE DEF S
  <2>2. \E q \in [1..Cardinality(S) -> S] :
               \A i, k \in 1..Cardinality(S) : i < k => <<q[i], q[k]>> \in T
    BY <2>1, SortFact
  <2>3. QED
    BY <2>1, <2>2 DEF S
<1> DEFINE p == SortedBy(jobs, T)
<1>3. p \in [1..n -> 1..n] /\ \A k, l \in 1..n : k < l => <<p[k], p[l]>> \in T
  BY <1>2 DEF SortedBy
<1> HIDE DEF p
<1>4. \A k, l \in 1..n : p[k] = p[l] => k = l
  <2> SUFFICES ASSUME NEW k \in 1..n, NEW l \in 1..n, p[k] = p[l], k < l
               PROVE  FALSE
    OBVIOUS
  <2>1. <<p[k], p[l]>> \in T /\ p[k] \in 1..n
    BY <1>3
  <2>2. QED
    BY <2>1
<1>5. p \in Injection(1..n, 1..n)
  BY <1>3, <1>4 DEF Injection, IsInjective
<1>6. p \in Surjection(1..n, 1..n)
  BY <1>1, <1>5, FS_Injection
<1>7. QED
  BY <1>3, <1>5, <1>6 DEF p

LEMMA JobRanked ==
    ASSUME NEW job, AdviceJob(job), NEW k \in Nat
    PROVE  /\ AdviceJob([job EXCEPT !.rank = k]) /\ [job EXCEPT !.rank = k].rank = k
           /\ Concerned([job EXCEPT !.rank = k]) <=> Concerned(job)
<1> DEFINE new == [job EXCEPT !.rank = k]
<1>1. /\ new.rows = job.rows /\ new.activities = job.activities /\ new.direction = job.direction
      /\ new.proposed = job.proposed /\ new.timing = job.timing /\ new.rank = k
      /\ new = [rows |-> job.rows, activities |-> job.activities, direction |-> job.direction,
                proposed |-> job.proposed, timing |-> job.timing, rank |-> k]
  BY DEF AdviceJob
<1> HIDE DEF new
<1>2. AdviceJob(new)
  BY <1>1 DEF AdviceJob
<1>3. Concerned(new) <=> Concerned(job)
  BY <1>1 DEF Concerned
<1>4. QED
  BY <1>1, <1>2, <1>3 DEF new

\* prioritize_assessment sorts a batch: the result is one, in order of concern.
LEMMA RankedFact ==
    ASSUME NEW jobs, BatchOk(jobs)
    PROVE  /\ DOMAIN Ranked(jobs) = DOMAIN jobs /\ BatchOk(Ranked(jobs))
           /\ \A k \in DOMAIN jobs : Ranked(jobs)[k].rank = k
           /\ \A k, l \in DOMAIN jobs :
                 k < l => ~(Concerned(Ranked(jobs)[k]) /\ ~Concerned(Ranked(jobs)[l]))
<1>1. PICK n \in Nat : DOMAIN jobs = 1..n
  BY DEF BatchOk
<1> DEFINE T == {m \in (1..n) \X (1..n) : Foremost(jobs[m[1]], jobs[m[2]])}
           p == SortedBy(jobs, T)
<1>2. \A a, b \in 1..n : <<a, b>> \in T <=> Foremost(jobs[a], jobs[b])
  OBVIOUS
<1>3. \A k \in 1..n : AdviceJob(jobs[k]) /\ jobs[k].rank \in Nat /\ Concerned(jobs[k]) \in BOOLEAN
  BY <1>1 DEF BatchOk, AdviceJob, Concerned
<1>4. \A k, l \in 1..n : jobs[k].rank = jobs[l].rank => k = l
  BY <1>1 DEF BatchOk
<1> HIDE DEF T
<1>5. \A a \in 1..n : <<a, a>> \notin T
  BY <1>2, <1>3 DEF Foremost
<1>6. \A a, b, c \in 1..n : <<a, b>> \in T /\ <<b, c>> \in T => <<a, c>> \in T
  <2> SUFFICES ASSUME NEW a \in 1..n, NEW b \in 1..n, NEW c \in 1..n,
                      Foremost(jobs[a], jobs[b]), Foremost(jobs[b], jobs[c])
               PROVE  Foremost(jobs[a], jobs[c])
    BY <1>2
  <2>1. QED
    BY <1>3 DEF Foremost
<1>7. \A a, b \in 1..n : a = b \/ <<a, b>> \in T \/ <<b, a>> \in T
  <2> SUFFICES ASSUME NEW a \in 1..n, NEW b \in 1..n, a # b
               PROVE  Foremost(jobs[a], jobs[b]) \/ Foremost(jobs[b], jobs[a])
    BY <1>2
  <2>1. jobs[a].rank < jobs[b].rank \/ jobs[b].rank < jobs[a].rank
    BY <1>3, <1>4
  <2>2. Concerned(jobs[a]) \in BOOLEAN /\ Concerned(jobs[b]) \in BOOLEAN
    BY <1>3
  <2>3. QED
    BY <2>1, <2>2 DEF Foremost
<1>8. /\ p \in Injection(1..n, 1..n)
      /\ \A k, l \in 1..n : k < l => Foremost(jobs[p[k]], jobs[p[l]])
  <2>1. p \in Injection(1..n, 1..n) /\ \A k, l \in 1..n : k < l => <<p[k], p[l]>> \in T
    BY <1>1, <1>5, <1>6, <1>7, SortedFact
  <2>2. \A k \in 1..n : p[k] \in 1..n
    BY <2>1 DEF Injection
  <2>3. QED
    BY <1>2, <2>1, <2>2
<1>9. Ranked(jobs) = [k \in 1..n |-> [jobs[p[k]] EXCEPT !.rank = k]]
  BY <1>1 DEF Ranked, ByConcern, T
<1> HIDE DEF p
<1>10. \A k \in 1..n : p[k] \in 1..n /\ k \in Nat
  BY <1>8 DEF Injection
<1>11. \A k \in 1..n : /\ AdviceJob(Ranked(jobs)[k]) /\ Ranked(jobs)[k].rank = k
                       /\ Concerned(Ranked(jobs)[k]) <=> Concerned(jobs[p[k]])
  <2> SUFFICES ASSUME NEW k \in 1..n
               PROVE  /\ AdviceJob(Ranked(jobs)[k]) /\ Ranked(jobs)[k].rank = k
                      /\ Concerned(Ranked(jobs)[k]) <=> Concerned(jobs[p[k]])
    OBVIOUS
  <2>1. Ranked(jobs)[k] = [jobs[p[k]] EXCEPT !.rank = k] /\ AdviceJob(jobs[p[k]]) /\ k \in Nat
    BY <1>3, <1>9, <1>10
  <2>2. QED
    BY <2>1, JobRanked
<1>12. DOMAIN Ranked(jobs) = 1..n /\ Ranked(jobs) = [k \in 1..n |-> Ranked(jobs)[k]]
  BY <1>9
<1>13. BatchOk(Ranked(jobs))
  BY <1>11, <1>12 DEF BatchOk
<1>14. ASSUME NEW k \in 1..n, NEW l \in 1..n, k < l
       PROVE  ~(Concerned(Ranked(jobs)[k]) /\ ~Concerned(Ranked(jobs)[l]))
  <2>1. Foremost(jobs[p[k]], jobs[p[l]])
    BY <1>8, <1>14
  <2>2. QED
    BY <1>11, <2>1 DEF Foremost
<1>15. QED
  BY <1>1, <1>11, <1>12, <1>13, <1>14

LEMMA RowsFinite ==
    ASSUME NEW job, AdviceJob(job)
    PROVE  /\ IsFiniteSet(DOMAIN job.rows)
           /\ \A I \in SUBSET DOMAIN job.rows : IsFiniteSet(I) /\ Cardinality(I) \in Nat
           /\ \A I \in SUBSET DOMAIN job.rows :
                 /\ IsFiniteSet({job.rows[i].basis : i \in I})
                 /\ Cardinality({job.rows[i].basis : i \in I}) \in Nat
<1> DEFINE D == DOMAIN job.rows
<1>1. IsFiniteSet(D)
  <2>1. job.rows \in Seq({job.rows[i] : i \in DOMAIN job.rows})
    BY DEF AdviceJob
  <2>2. D = 1..Len(job.rows) /\ Len(job.rows) \in Nat
    BY <2>1, LenProperties
  <2>3. QED
    BY <2>2, FS_Interval
<1> HIDE DEF D
<1>2. ASSUME NEW I \in SUBSET D PROVE IsFiniteSet(I) /\ Cardinality(I) \in Nat
  BY <1>1, FS_Subset, FS_CardinalityType
<1>3. ASSUME NEW I \in SUBSET D
      PROVE  /\ IsFiniteSet({job.rows[i].basis : i \in I})
             /\ Cardinality({job.rows[i].basis : i \in I}) \in Nat
  <2> DEFINE B == {job.rows[i].basis : i \in I}
             f == [i \in I |-> job.rows[i].basis]
  <2>1. f \in Surjection(I, B)
    BY DEF Surjection
  <2> HIDE DEF f, B
  <2>2. IsFiniteSet(B) /\ Cardinality(B) \in Nat
    BY <1>2, <2>1, FS_Surjection, FS_CardinalityType
  <2>3. QED
    BY <2>2 DEF B
<1>4. QED
  BY <1>1, <1>2, <1>3 DEF D

CoreRows(job) ==
    {i \in DOMAIN job.rows :
        LET row == job.rows[i]
        IN  /\ row.category \in Core /\ row.outcome = "supported"
            /\ ~Preferred(row) /\ ~ToolOnly(row) /\ ~row.zero}

LEMMA SupportFact ==
    ASSUME NEW job, AdviceJob(job)
    PROVE  /\ CoreRows(job) \in SUBSET DOMAIN job.rows
           /\ CoreSupported(job) = Cardinality({job.rows[i].basis : i \in CoreRows(job)})
           /\ CoreSupported(job) \in Nat
           /\ Strengths(job) \in SUBSET DOMAIN job.rows
           /\ Cardinality(Strengths(job)) \in Nat
           /\ CoreRows(job) \subseteq Strengths(job)
<1>1. CoreRows(job) \in SUBSET DOMAIN job.rows
  BY DEF CoreRows
<1>2. CoreSupported(job) = Cardinality({job.rows[i].basis : i \in CoreRows(job)})
  BY DEF CoreSupported, CoreRows
<1>3. Strengths(job) \in SUBSET DOMAIN job.rows
  BY DEF Strengths
<1>4. CoreRows(job) \subseteq Strengths(job)
  BY DEF CoreRows, Strengths, Projected
<1>5. QED
  BY <1>1, <1>2, <1>3, <1>4, RowsFinite

LEMMA StatusFact ==
    ASSUME NEW job
    PROVE  /\ Gaps(job) # {} => Status(job) = "not_priority"
           /\ Gaps(job) = {} /\ Unconfirmed(job) \union MandatoryUnknown(job) # {} =>
                 Status(job) = "check_first"
           /\ Gaps(job) = {} /\ Unconfirmed(job) \union MandatoryUnknown(job) = {} =>
                 Status(job) = IF CoreSupported(job) = 0 /\ ~Relevant(job) THEN "not_priority"
                               ELSE IF CoreSupported(job) >= 2 /\ CoreUnknown(job) = {}
                                    THEN "priority_apply" ELSE "consider"
<1>1. CASE Gaps(job) # {}
  BY <1>1 DEF Status
<1>2. CASE Gaps(job) = {} /\ Unconfirmed(job) \union MandatoryUnknown(job) # {}
  BY <1>2 DEF Status
<1>3. CASE Gaps(job) = {} /\ Unconfirmed(job) \union MandatoryUnknown(job) = {}
  BY <1>3 DEF Status
<1>4. QED
  BY <1>1, <1>2, <1>3

LEMMA VerdictFact ==
    ASSUME NEW job
    PROVE  /\ job.direction = "none" => Verdict(job) = "none"
           /\ job.direction # "none" => Verdict(job) \in DOMAIN VerdictOrder
           /\ job.direction # "none" /\ Gaps(job) # {} => Verdict(job) = "not_priority"
           /\ Verdict(job) = "priority_apply" =>
                 /\ Gaps(job) = {} /\ CoreSupported(job) >= 2
                 /\ Unconfirmed(job) \union MandatoryUnknown(job) = {}
<1>1. DOMAIN VerdictOrder = {"priority_apply", "consider", "not_priority", "insufficient_information"}
  BY DEF VerdictOrder
<1>2. CASE job.direction = "none"
  BY <1>2 DEF Verdict
<1>3. CASE job.direction # "none" /\ (Gaps(job) # {} \/ job.direction = "low")
  BY <1>1, <1>3 DEF Verdict
<1>4. CASE job.direction # "none" /\ ~(Gaps(job) # {} \/ job.direction = "low")
  BY <1>1, <1>4 DEF Verdict
<1>5. QED
  BY <1>2, <1>3, <1>4

\* What is worth prioritising has its evidence, whatever the job says.
LEMMA PriorityFact ==
    ASSUME NEW job, AdviceJob(job)
    PROVE  /\ "priority_apply" \in {Status(job), Verdict(job)} =>
                /\ Cardinality({job.rows[i].basis : i \in Strengths(job)}) >= 2
                /\ Status(job) \in {"priority_apply", "consider"}
                /\ \A i \in Blockers(job) : /\ job.rows[i].category \in Core
                                            /\ ~job.rows[i].mandatory
           /\ Gaps(job) # {} =>
                Status(job) = "not_priority" /\ Verdict(job) \in {"not_priority", "none"}
<1>1. Gaps(job) # {} => Status(job) = "not_priority" /\ Verdict(job) \in {"not_priority", "none"}
  BY StatusFact, VerdictFact
<1>2. ASSUME "priority_apply" \in {Status(job), Verdict(job)}
      PROVE  /\ Gaps(job) = {} /\ Unconfirmed(job) \union MandatoryUnknown(job) = {}
             /\ CoreSupported(job) >= 2
  <2>1. CASE Verdict(job) = "priority_apply"
    BY <2>1, VerdictFact
  <2>2. CASE Status(job) = "priority_apply"
    <3>1. Gaps(job) = {} /\ Unconfirmed(job) \union MandatoryUnknown(job) = {}
      BY <2>2, StatusFact
    <3>2. QED
      BY <2>2, <3>1, StatusFact
  <2>3. QED
    BY <1>2, <2>1, <2>2
<1>3. ASSUME CoreSupported(job) >= 2
      PROVE  Cardinality({job.rows[i].basis : i \in Strengths(job)}) >= 2
  <2> DEFINE S == {job.rows[i].basis : i \in CoreRows(job)}
             T == {job.rows[i].basis : i \in Strengths(job)}
  <2>1. S \in SUBSET T
    BY SupportFact
  <2>2. IsFiniteSet(T) /\ Cardinality(T) \in Nat /\ Cardinality(S) \in Nat
    BY SupportFact, RowsFinite
  <2>3. CoreSupported(job) = Cardinality(S)
    BY SupportFact
  <2> HIDE DEF S, T
  <2>4. Cardinality(S) <= Cardinality(T)
    BY <2>1, <2>2, FS_Subset
  <2>5. Cardinality(T) >= 2
    BY <1>3, <2>2, <2>3, <2>4
  <2>6. QED
    BY <2>5 DEF T
<1>4. ASSUME Gaps(job) = {}, Unconfirmed(job) \union MandatoryUnknown(job) = {}, NEW i \in Blockers(job)
      PROVE  job.rows[i].category \in Core /\ ~job.rows[i].mandatory
  <2>1. i \in CoreUnknown(job) /\ i \notin MandatoryUnknown(job)
    BY <1>4 DEF Blockers
  <2>2. QED
    BY <2>1 DEF CoreUnknown, MandatoryUnknown, CriticalRows
<1>5. ASSUME Gaps(job) = {}, Unconfirmed(job) \union MandatoryUnknown(job) = {}, CoreSupported(job) >= 2
      PROVE  Status(job) \in {"priority_apply", "consider"}
  <2>1. CoreSupported(job) # 0
    BY <1>5, SupportFact
  <2>2. QED
    BY <1>5, <2>1, StatusFact
<1>6. QED
  BY <1>1, <1>2, <1>3, <1>4, <1>5

\* One requirement of a job as another one.
WithRow(job, i, row) == [job EXCEPT !.rows = [job.rows EXCEPT ![i] = row]]

LEMMA WithRowFact ==
    ASSUME NEW job, AdviceJob(job), NEW i \in DOMAIN job.rows, NEW row
    PROVE  /\ WithRow(job, i, row).activities = job.activities
           /\ WithRow(job, i, row).direction = job.direction
           /\ DOMAIN WithRow(job, i, row).rows = DOMAIN job.rows
           /\ WithRow(job, i, row).rows[i] = row
           /\ \A k \in DOMAIN job.rows : k # i => WithRow(job, i, row).rows[k] = job.rows[k]
<1>1. WithRow(job, i, row).rows = [job.rows EXCEPT ![i] = row]
  BY DEF AdviceJob, WithRow
<1>2. /\ WithRow(job, i, row).activities = job.activities
      /\ WithRow(job, i, row).direction = job.direction
  BY DEF AdviceJob, WithRow
<1>3. job.rows = [k \in DOMAIN job.rows |-> job.rows[k]]
  BY DEF AdviceJob
<1>4. QED
  BY <1>1, <1>2, <1>3

LEMMA WorthFact ==
    ASSUME NEW job
    PROVE  /\ Worth[Status(job)] \in Nat
           /\ Status(job) = "priority_apply" => Worth[Status(job)] = 3
           /\ Status(job) = "consider" => Worth[Status(job)] = 2
           /\ Status(job) = "check_first" => Worth[Status(job)] = 1
           /\ Status(job) = "not_priority" => Worth[Status(job)] = 0
           /\ Status(job) \in {"priority_apply", "consider", "check_first", "not_priority"}
<1>1. Status(job) \in {"priority_apply", "consider", "check_first", "not_priority"}
  BY StatusFact
<1>2. QED
  BY <1>1 DEF Worth

\* What an optional requirement adds is nothing that an advice counts.
LEMMA OptionalFact ==
    ASSUME NEW job, AdviceJob(job), NEW i \in DOMAIN job.rows, NEW row,
           row = [job.rows[i] EXCEPT !.category = "other"],
           Preferred(job.rows[i]), ~job.rows[i].part, i \notin job.activities
    PROVE  Status(WithRow(job, i, row)) = Status(job)
<1> DEFINE new == WithRow(job, i, row)
<1>1. /\ new.activities = job.activities /\ DOMAIN new.rows = DOMAIN job.rows
      /\ new.rows[i] = row /\ \A k \in DOMAIN job.rows : k # i => new.rows[k] = job.rows[k]
  BY WithRowFact
<1>2. /\ row.category = "other" /\ row.optional = job.rows[i].optional
      /\ row.part = job.rows[i].part /\ row.outcome = job.rows[i].outcome
  BY DEF AdviceJob, AdviceRow
<1> HIDE DEF new
<1>3. ~Critical(row) /\ ~Critical(job.rows[i]) /\ Preferred(row)
  BY <1>2 DEF Critical, Preferred
<1>4. \A o, c : CriticalRows(new, o, c) = CriticalRows(job, o, c)
  <2> SUFFICES ASSUME NEW o, NEW c
               PROVE  \A k \in DOMAIN job.rows :
                         k \in CriticalRows(new, o, c) <=> k \in CriticalRows(job, o, c)
    BY <1>1 DEF CriticalRows
  <2> TAKE k \in DOMAIN job.rows
  <2>1. k \in CriticalRows(new, o, c) <=>
            Critical(new.rows[k]) /\ new.rows[k].category \in c /\ Projected(new.rows[k]) = o
    BY <1>1 DEF CriticalRows
  <2>2. k \in CriticalRows(job, o, c) <=>
            Critical(job.rows[k]) /\ job.rows[k].category \in c /\ Projected(job.rows[k]) = o
    BY DEF CriticalRows
  <2>3. QED
    BY <1>1, <1>3, <2>1, <2>2
<1>5. Gaps(new) = Gaps(job) /\ Unconfirmed(new) = Unconfirmed(job) /\ CoreUnknown(new) = CoreUnknown(job)
  BY <1>4 DEF Gaps, Unconfirmed, CoreUnknown
<1>6. MandatoryUnknown(new) = MandatoryUnknown(job)
  <2>1. i \notin CoreUnknown(job) /\ CoreUnknown(job) \subseteq DOMAIN job.rows
    BY <1>3 DEF CoreUnknown, CriticalRows
  <2>2. \A k \in CoreUnknown(job) : new.rows[k] = job.rows[k]
    BY <1>1, <2>1
  <2>3. QED
    BY <1>5, <2>2 DEF MandatoryUnknown
<1>7. CoreSupported(new) = CoreSupported(job)
  <2>1. \A k \in DOMAIN job.rows : k \in CoreRows(new) <=> k \in CoreRows(job)
    <3> TAKE k \in DOMAIN job.rows
    <3>1. k = i => k \notin CoreRows(new) /\ k \notin CoreRows(job)
      BY <1>1, <1>3 DEF CoreRows
    <3>2. k # i => (k \in CoreRows(new) <=> k \in CoreRows(job))
      BY <1>1 DEF CoreRows
    <3>3. QED
      BY <3>1, <3>2
  <2>2. CoreRows(new) = CoreRows(job)
    BY <1>1, <2>1 DEF CoreRows
  <2>3. i \notin CoreRows(job) /\ CoreRows(job) \subseteq DOMAIN job.rows
    BY <1>3 DEF CoreRows
  <2>4. {new.rows[k].basis : k \in CoreRows(new)} = {job.rows[k].basis : k \in CoreRows(job)}
    BY <1>1, <2>2, <2>3
  <2>5. QED
    BY <2>4 DEF CoreSupported, CoreRows
<1>8. Relevant(new) <=> Relevant(job)
  <2>1. \A k \in DOMAIN job.rows : k \in PartialRows(new) <=> k \in PartialRows(job)
    <3> TAKE k \in DOMAIN job.rows
    <3>1. k = i => k \notin PartialRows(new) /\ k \notin PartialRows(job)
      BY <1>1, <1>2 DEF PartialRows
    <3>2. k # i => (k \in PartialRows(new) <=> k \in PartialRows(job))
      BY <1>1 DEF PartialRows
    <3>3. QED
      BY <3>1, <3>2
  <2>2. PartialRows(new) = PartialRows(job) /\ i \notin PartialRows(job)
        /\ PartialRows(job) \subseteq DOMAIN job.rows
    BY <1>1, <1>2, <2>1 DEF PartialRows
  <2>3. job.activities \subseteq DOMAIN job.rows
    BY DEF AdviceJob
  <2>4. \A k \in PartialRows(job) \union job.activities : new.rows[k] = job.rows[k]
    BY <1>1, <2>2, <2>3
  <2>5. QED
    BY <1>1, <2>2, <2>4 DEF Relevant
<1>9. QED
  <2>1. CASE Gaps(job) # {}
    BY <1>5, <2>1, StatusFact DEF new
  <2>2. CASE Gaps(job) = {} /\ Unconfirmed(job) \union MandatoryUnknown(job) # {}
    BY <1>5, <1>6, <2>2, StatusFact DEF new
  <2>3. CASE Gaps(job) = {} /\ Unconfirmed(job) \union MandatoryUnknown(job) = {}
    <3>1. Gaps(new) = {} /\ Unconfirmed(new) \union MandatoryUnknown(new) = {}
      BY <1>5, <1>6, <2>3
    <3>2. Status(new) = Status(job)
      BY <1>5, <1>7, <1>8, <2>3, <3>1, StatusFact
    <3>3. QED
      BY <3>2 DEF new
  <2>4. QED
    BY <2>1, <2>2, <2>3

\* Support for a requirement that counts opens no gap and no question, and counts.
LEMMA BetterFact ==
    ASSUME NEW job, AdviceJob(job), NEW i \in DOMAIN job.rows, NEW row,
           row = [job.rows[i] EXCEPT !.outcome = "supported"],
           Critical(row), row.category \in Core, ~row.zero, ~row.tool
    PROVE  Worth[Status(WithRow(job, i, row))] >= Worth[Status(job)]
<1> DEFINE new == WithRow(job, i, row)
           old == job.rows[i]
<1>1. /\ new.activities = job.activities /\ DOMAIN new.rows = DOMAIN job.rows
      /\ new.rows[i] = row /\ \A k \in DOMAIN job.rows : k # i => new.rows[k] = job.rows[k]
  BY WithRowFact
<1>2. /\ row.category = old.category /\ row.optional = old.optional /\ row.mandatory = old.mandatory
      /\ row.zero = old.zero /\ row.tool = old.tool /\ row.part = old.part /\ row.basis = old.basis
      /\ row.outcome = "supported"
  BY DEF AdviceJob, AdviceRow
<1> HIDE DEF new, old
<1>3. Projected(row) = "supported" /\ ~ToolOnly(row) /\ ~Preferred(row)
  BY <1>2 DEF Projected, ToolOnly, Critical
<1>4. \A o \in {"gap", "unknown"} : \A c : CriticalRows(new, o, c) \subseteq CriticalRows(job, o, c) \ {i}
  <2> SUFFICES ASSUME NEW o \in {"gap", "unknown"}, NEW c, NEW k \in CriticalRows(new, o, c)
               PROVE  k \in CriticalRows(job, o, c) /\ k # i
    BY Zenon
  <2>1. k \in DOMAIN job.rows /\ Critical(new.rows[k]) /\ new.rows[k].category \in c
        /\ Projected(new.rows[k]) = o
    BY <1>1 DEF CriticalRows
  <2>2. k # i
    BY <1>1, <1>3, <2>1
  <2>3. QED
    BY <1>1, <2>1, <2>2 DEF CriticalRows
<1>5. /\ Gaps(new) \subseteq Gaps(job) /\ Unconfirmed(new) \subseteq Unconfirmed(job)
      /\ CoreUnknown(new) \subseteq CoreUnknown(job) \ {i}
  BY <1>4 DEF Gaps, Unconfirmed, CoreUnknown
<1>6. MandatoryUnknown(new) \subseteq MandatoryUnknown(job)
  <2>1. CoreUnknown(new) \subseteq DOMAIN job.rows
    BY <1>1 DEF CoreUnknown, CriticalRows
  <2>2. QED
    BY <1>1, <1>5, <2>1 DEF MandatoryUnknown
<1>7. AdviceJob(new)
  <2>1. AdviceRow(row)
    <3>1. AdviceRow(old)
      BY DEF AdviceJob, old
    <3>2. row = [category |-> row.category, outcome |-> row.outcome, optional |-> row.optional,
                 mandatory |-> row.mandatory, zero |-> row.zero, tool |-> row.tool,
                 part |-> row.part, basis |-> row.basis]
      BY <3>1 DEF AdviceRow, old
    <3>3. QED
      BY <1>2, <3>1, <3>2 DEF AdviceRow, Levels
  <2>2. /\ new = [rows |-> new.rows, activities |-> new.activities, direction |-> new.direction,
                  proposed |-> new.proposed, timing |-> new.timing, rank |-> new.rank]
        /\ new.direction = job.direction /\ new.proposed = job.proposed
        /\ new.timing = job.timing /\ new.rank = job.rank
    <3>1. job = [rows |-> job.rows, activities |-> job.activities, direction |-> job.direction,
                 proposed |-> job.proposed, timing |-> job.timing, rank |-> job.rank]
      BY DEF AdviceJob
    <3>2. new = [rows |-> [job.rows EXCEPT ![i] = row], activities |-> job.activities,
                 direction |-> job.direction, proposed |-> job.proposed, timing |-> job.timing,
                 rank |-> job.rank]
      BY <3>1 DEF new, WithRow
    <3>3. QED
      BY <3>2
  <2>3. new.rows \in Seq({new.rows[k] : k \in DOMAIN new.rows})
    <3>1. job.rows \in Seq({job.rows[k] : k \in DOMAIN job.rows})
      BY DEF AdviceJob
    <3>2. Len(job.rows) \in Nat /\ DOMAIN job.rows = 1..Len(job.rows)
      BY <3>1, LenProperties
    <3>3. new.rows = [k \in 1..Len(job.rows) |-> new.rows[k]]
      <4>1. new.rows = [job.rows EXCEPT ![i] = row]
        BY DEF AdviceJob, new, WithRow
      <4>2. QED
        BY <3>2, <4>1
    <3>4. QED
      BY <1>1, <3>2, <3>3, IsASeq
  <2>4. \A k \in DOMAIN new.rows : AdviceRow(new.rows[k])
    BY <1>1, <2>1 DEF AdviceJob
  <2>5. QED
    BY <1>1, <2>2, <2>3, <2>4 DEF AdviceJob
<1>8. CoreSupported(new) >= CoreSupported(job) /\ CoreSupported(new) >= 1
  <2> DEFINE S == {job.rows[k].basis : k \in CoreRows(job)}
             T == {new.rows[k].basis : k \in CoreRows(new)}
  <2>1. i \in CoreRows(new)
    BY <1>1, <1>2, <1>3 DEF CoreRows
  <2>2. \A k \in CoreRows(job) : k \in CoreRows(new) /\ new.rows[k].basis = job.rows[k].basis
    <3> TAKE k \in CoreRows(job)
    <3>1. CASE k = i
      BY <1>1, <1>2, <2>1, <3>1 DEF old
    <3>2. CASE k # i
      BY <1>1, <3>2 DEF CoreRows
    <3>3. QED
      BY <3>1, <3>2
  <2>3. S \in SUBSET T /\ row.basis \in T
    BY <1>1, <2>1, <2>2
  <2>4. /\ IsFiniteSet(T) /\ Cardinality(T) \in Nat /\ Cardinality(S) \in Nat
        /\ CoreSupported(new) = Cardinality(T) /\ CoreSupported(job) = Cardinality(S)
    BY <1>7, SupportFact, RowsFinite
  <2> HIDE DEF S, T
  <2>5. Cardinality(S) <= Cardinality(T) /\ Cardinality(T) # 0
    BY <2>3, <2>4, FS_Subset, FS_EmptySet
  <2>6. QED
    BY <2>4, <2>5
<1>9. CoreSupported(job) \in Nat /\ CoreSupported(new) \in Nat
  BY <1>7, SupportFact
<1>10. CASE Gaps(job) # {}
  BY <1>10, StatusFact, WorthFact DEF new
<1>11. CASE Gaps(job) = {} /\ Unconfirmed(job) \union MandatoryUnknown(job) # {}
  <2>1. Status(job) = "check_first" /\ Gaps(new) = {}
    BY <1>5, <1>11, StatusFact
  <2>2. Status(new) # "not_priority"
    <3>1. CoreSupported(new) # 0
      BY <1>8, <1>9
    <3>2. QED
      BY <2>1, <3>1, StatusFact
  <2>3. Worth[Status(new)] >= 1 /\ Worth[Status(job)] = 1
    BY <2>1, <2>2, WorthFact
  <2>4. QED
    BY <2>3 DEF new
<1>12. CASE Gaps(job) = {} /\ Unconfirmed(job) \union MandatoryUnknown(job) = {}
  <2>1. Gaps(new) = {} /\ Unconfirmed(new) \union MandatoryUnknown(new) = {}
    BY <1>5, <1>6, <1>12
  <2>2. CoreSupported(new) # 0
    BY <1>8, <1>9
  <2>3. Status(new) = IF CoreSupported(new) >= 2 /\ CoreUnknown(new) = {}
                      THEN "priority_apply" ELSE "consider"
    BY <2>1, <2>2, StatusFact
  <2>4. Status(job) = "priority_apply" => CoreSupported(job) >= 2 /\ CoreUnknown(job) = {}
    BY <1>12, StatusFact
  <2>5. Status(job) = "priority_apply" => Status(new) = "priority_apply"
    BY <1>5, <1>8, <1>9, <2>3, <2>4
  <2>6. Status(job) \in {"priority_apply", "consider", "not_priority"}
    BY <1>12, StatusFact
  <2>7. Worth[Status(new)] >= Worth[Status(job)]
    BY <2>3, <2>5, <2>6, WorthFact
  <2>8. QED
    BY <2>7 DEF new
<1>13. QED
  BY <1>10, <1>11, <1>12

\* The key of a job: its verdict or advice first, its rank last.
LEMMA KeyShape ==
    ASSUME NEW job, AdviceJob(job)
    PROVE  /\ DisplayKey(job) \in [1..5 -> Int] /\ DisplayKey(job)[5] = job.rank
           /\ job.direction # "none" => DisplayKey(job)[1] = VerdictOrder[Verdict(job)]
<1>1. Status(job) \in {"priority_apply", "consider", "check_first", "not_priority"}
  BY WorthFact
<1>2. StatusOrder[Status(job)] \in Int
  BY <1>1 DEF StatusOrder
<1>3. Verdict(job) # "none" => VerdictOrder[Verdict(job)] \in Int
  <2>1. DOMAIN VerdictOrder = {"priority_apply", "consider", "not_priority", "insufficient_information"}
    BY DEF VerdictOrder
  <2>2. \A v \in DOMAIN VerdictOrder : VerdictOrder[v] \in Int
    BY <2>1 DEF VerdictOrder
  <2>3. QED
    BY <2>2, VerdictFact
<1>4. CoreSupported(job) \in Nat /\ Cardinality(Strengths(job)) \in Nat
  BY SupportFact
<1>5. job.rank \in Nat
  BY DEF AdviceJob
<1> DEFINE first == IF Verdict(job) = "none" THEN StatusOrder[Status(job)] ELSE VerdictOrder[Verdict(job)]
           dated == IF job.timing THEN 1 ELSE 0
           c == -CoreSupported(job)
           s == -Cardinality(Strengths(job))
<1>6. first \in Int /\ dated \in Int /\ c \in Int /\ s \in Int
  BY <1>2, <1>3, <1>4
<1>7. DisplayKey(job) = <<first, dated, c, s, job.rank>>
  BY DEF DisplayKey
<1>8. job.direction # "none" => first = VerdictOrder[Verdict(job)]
  <2>1. "none" \notin DOMAIN VerdictOrder
    BY DEF VerdictOrder
  <2>2. QED
    BY <2>1, VerdictFact
<1> HIDE DEF first, dated, c, s
<1>9. QED
  BY <1>5, <1>6, <1>7, <1>8

\* The order that a batch is displayed in.
Displayed(jobs) ==
    SortedBy(jobs, {m \in (DOMAIN jobs) \X (DOMAIN jobs) :
                       Before(DisplayKey(jobs[m[1]]), DisplayKey(jobs[m[2]]))})

LEMMA DisplayFact ==
    ASSUME NEW jobs, BatchOk(jobs)
    PROVE  /\ Displayed(jobs) \in [DOMAIN jobs -> DOMAIN jobs]
           /\ {Displayed(jobs)[k] : k \in DOMAIN jobs} = DOMAIN jobs
           /\ \A k, l \in DOMAIN jobs : k < l =>
                 Before(DisplayKey(jobs[Displayed(jobs)[k]]), DisplayKey(jobs[Displayed(jobs)[l]]))
<1>1. PICK n \in Nat : DOMAIN jobs = 1..n
  BY DEF BatchOk
<1> DEFINE T == {m \in (1..n) \X (1..n) : Before(DisplayKey(jobs[m[1]]), DisplayKey(jobs[m[2]]))}
           key == [k \in 1..n |-> DisplayKey(jobs[k])]
           p == Displayed(jobs)
<1>2. \A a, b \in 1..n : <<a, b>> \in T <=> Before(key[a], key[b])
  OBVIOUS
<1>3. \A k \in 1..n : AdviceJob(jobs[k]) /\ jobs[k].rank \in Nat
  BY <1>1 DEF BatchOk, AdviceJob
<1>4. \A k \in 1..n : key[k] \in [1..5 -> Int] /\ key[k][5] = jobs[k].rank
  BY <1>3, KeyShape
<1>5. \A k, l \in 1..n : k # l => key[k][5] # key[l][5]
  <2>1. \A k, l \in 1..n : jobs[k].rank = jobs[l].rank => k = l
    BY <1>1 DEF BatchOk
  <2> HIDE DEF key
  <2>2. QED
    BY <1>4, <2>1
<1>6. p = SortedBy(jobs, T)
  BY <1>1 DEF Displayed
<1>7. \A k \in 1..n : key[k] = DisplayKey(jobs[k])
  OBVIOUS
<1> HIDE DEF T, key
<1>8. \A a \in 1..n : <<a, a>> \notin T
  BY <1>2, <1>4, LexFact
<1>9. \A a, b, c \in 1..n : <<a, b>> \in T /\ <<b, c>> \in T => <<a, c>> \in T
  <2> SUFFICES ASSUME NEW a \in 1..n, NEW b \in 1..n, NEW c \in 1..n,
                      Before(key[a], key[b]), Before(key[b], key[c])
               PROVE  Before(key[a], key[c])
    BY <1>2
  <2>1. key[a] \in [1..5 -> Int] /\ key[b] \in [1..5 -> Int] /\ key[c] \in [1..5 -> Int]
    BY <1>4
  <2>2. QED
    BY <2>1, LexFact
<1>10. \A a, b \in 1..n : a = b \/ <<a, b>> \in T \/ <<b, a>> \in T
  <2> SUFFICES ASSUME NEW a \in 1..n, NEW b \in 1..n, a # b
               PROVE  Before(key[a], key[b]) \/ Before(key[b], key[a])
    BY <1>2
  <2>1. key[a] \in [1..5 -> Int] /\ key[b] \in [1..5 -> Int] /\ key[a][5] # key[b][5]
    BY <1>4, <1>5
  <2>2. QED
    BY <2>1, LexFact
<1> HIDE DEF p
<1>11. p \in Surjection(1..n, 1..n) /\ \A k, l \in 1..n : k < l => <<p[k], p[l]>> \in T
  BY <1>1, <1>6, <1>8, <1>9, <1>10, SortedFact
<1>12. p \in [1..n -> 1..n] /\ \A x \in 1..n : \E k \in 1..n : p[k] = x
  BY <1>11 DEF Surjection
<1>13. {p[k] : k \in 1..n} = 1..n
  BY <1>12
<1>14. \A k, l \in 1..n : k < l => Before(DisplayKey(jobs[p[k]]), DisplayKey(jobs[p[l]]))
  <2> SUFFICES ASSUME NEW k \in 1..n, NEW l \in 1..n, k < l
               PROVE  Before(DisplayKey(jobs[p[k]]), DisplayKey(jobs[p[l]]))
    OBVIOUS
  <2>1. p[k] \in 1..n /\ p[l] \in 1..n /\ <<p[k], p[l]>> \in T
    BY <1>11, <1>12
  <2>2. Before(key[p[k]], key[p[l]])
    BY <1>2, <2>1
  <2>3. key[p[k]] = DisplayKey(jobs[p[k]]) /\ key[p[l]] = DisplayKey(jobs[p[l]])
    BY <1>7, <2>1
  <2>4. QED
    BY <2>2, <2>3
<1>15. QED
  BY <1>1, <1>12, <1>13, <1>14 DEF p

(***************************************************************************)
(* The inductive invariant of the advice: the batch is one that a model    *)
(* may rank, and what is displayed is the order of a batch as stored.      *)
(***************************************************************************)
AdviceInv ==
    /\ BatchOk(batch)
    /\ shown # <<>> => batch = Ranked(batch) /\ shown = Displayed(batch)

LEMMA AdviceInitInv == AdviceInit => AdviceInv
<1> SUFFICES ASSUME AdviceInit
             PROVE  BatchOk(batch)
  BY DEF AdviceInit, AdviceInv
<1>1. /\ batch \in Seq({batch[k] : k \in DOMAIN batch})
      /\ \A k \in DOMAIN batch : AdviceJob(batch[k])
      /\ {batch[k].rank : k \in DOMAIN batch} = DOMAIN batch
  BY AdviceBatches DEF AdviceInit
<1> DEFINE n == Len(batch)
           f == [k \in 1..n |-> batch[k].rank]
<1>2. n \in Nat /\ DOMAIN batch = 1..n /\ batch = [k \in DOMAIN batch |-> batch[k]]
  BY <1>1, LenProperties
<1> HIDE DEF n
<1>3. IsFiniteSet(1..n)
  BY <1>2, FS_Interval
<1>4. f \in Surjection(1..n, 1..n)
  <2>1. {batch[k].rank : k \in 1..n} = 1..n
    BY <1>1, <1>2
  <2>2. QED
    BY <2>1 DEF Surjection
<1>5. \A k \in 1..n : f[k] = batch[k].rank
  OBVIOUS
<1> HIDE DEF f
<1>6. f \in Injection(1..n, 1..n)
  BY <1>3, <1>4, FS_Surjection
<1>7. \A k, l \in 1..n : batch[k].rank = batch[l].rank => k = l
  BY <1>5, <1>6 DEF Injection, IsInjective
<1>8. QED
  BY <1>1, <1>2, <1>7 DEF BatchOk

LEMMA AdviceStepInv == AdviceInv /\ [AdviceNext]_adviceVars => AdviceInv'
<1> SUFFICES ASSUME AdviceInv, [AdviceNext]_adviceVars
             PROVE  AdviceInv'
  OBVIOUS
<1>1. CASE StoreRanks
  <2>1. batch' = Ranked(batch) /\ shown' = <<>>
    BY <1>1 DEF StoreRanks
  <2>2. BatchOk(Ranked(batch))
    BY RankedFact DEF AdviceInv
  <2>3. BatchOk(batch')
    BY <2>1, <2>2
  <2>4. QED
    BY <2>1, <2>3 DEF AdviceInv
<1>2. CASE Display
  <2>1. batch' = batch /\ batch = Ranked(batch) /\ shown' = Displayed(batch)
    BY <1>2 DEF Display, Displayed
  <2>2. BatchOk(batch)
    BY DEF AdviceInv
  <2> DEFINE b == batch'
  <2>3. BatchOk(b) /\ b = Ranked(b) /\ shown' = Displayed(b)
    BY <2>1, <2>2
  <2>4. QED
    BY <2>3 DEF AdviceInv
<1>3. CASE UNCHANGED adviceVars
  <2>1. batch' = batch /\ shown' = shown
    BY <1>3 DEF adviceVars
  <2> DEFINE b == batch'
  <2>2. BatchOk(b) /\ (shown' # <<>> => b = Ranked(b) /\ shown' = Displayed(b))
    BY <2>1 DEF AdviceInv
  <2>3. QED
    BY <2>2 DEF AdviceInv
<1>4. QED
  BY <1>1, <1>2, <1>3 DEF AdviceNext

LEMMA AdviceInvImplies ==
    AdviceInv => PriorityIsEarned /\ EvidenceNeverHurts /\ OrderRespectsAdvice
<1> SUFFICES ASSUME AdviceInv
             PROVE  PriorityIsEarned /\ EvidenceNeverHurts /\ OrderRespectsAdvice
  OBVIOUS
<1>1. BatchOk(batch) /\ \A k \in DOMAIN batch : AdviceJob(batch[k])
  BY DEF AdviceInv, BatchOk
<1>2. \A job \in BatchJobs : AdviceJob(job)
  BY <1>1 DEF BatchJobs
<1>3. PriorityIsEarned
  BY <1>2, PriorityFact DEF PriorityIsEarned
<1>4. EvidenceNeverHurts
  <2> SUFFICES ASSUME NEW job \in BatchJobs, NEW i \in DOMAIN job.rows
               PROVE  LET without == [job EXCEPT !.rows = [job.rows EXCEPT ![i].category = "other"]]
                          better == [job EXCEPT !.rows = [job.rows EXCEPT ![i].outcome = "supported"]]
                          row == job.rows[i]
                      IN  /\ Preferred(row) /\ ~row.part /\ i \notin job.activities =>
                                Worth[Status(job)] >= Worth[Status(without)]
                          /\ Critical(row) /\ row.category \in Core /\ ~row.zero /\ ~row.tool =>
                                Worth[Status(better)] >= Worth[Status(job)]
    BY DEF EvidenceNeverHurts
  <2> DEFINE row == job.rows[i]
             other == [row EXCEPT !.category = "other"]
             good == [row EXCEPT !.outcome = "supported"]
  <2>1. AdviceJob(job) /\ AdviceRow(row)
    BY <1>2 DEF AdviceJob
  <2>2. /\ [job EXCEPT !.rows = [job.rows EXCEPT ![i].category = "other"]] = WithRow(job, i, other)
        /\ [job EXCEPT !.rows = [job.rows EXCEPT ![i].outcome = "supported"]] = WithRow(job, i, good)
    BY DEF WithRow
  <2>3. ASSUME Preferred(row), ~row.part, i \notin job.activities
        PROVE  Worth[Status(job)] >= Worth[Status(WithRow(job, i, other))]
    <3>1. Status(WithRow(job, i, other)) = Status(job)
      BY <2>1, <2>3, OptionalFact
    <3>2. Worth[Status(job)] \in Nat
      BY WorthFact
    <3>3. QED
      BY <3>1, <3>2
  <2>4. ASSUME Critical(row), row.category \in Core, ~row.zero, ~row.tool
        PROVE  Worth[Status(WithRow(job, i, good))] >= Worth[Status(job)]
    <3>1. /\ good.category = row.category /\ good.zero = row.zero /\ good.tool = row.tool
          /\ good.optional = row.optional
      BY <2>1 DEF AdviceRow
    <3> HIDE DEF good
    <3>2. Critical(good) /\ good.category \in Core /\ ~good.zero /\ ~good.tool
      BY <2>4, <3>1 DEF Critical, Preferred
    <3>3. good = [job.rows[i] EXCEPT !.outcome = "supported"]
      BY DEF good
    <3>4. QED
      BY <2>1, <3>2, <3>3, BetterFact
  <2>5. QED
    BY <2>2, <2>3, <2>4
<1>5. OrderRespectsAdvice
  <2> SUFFICES ASSUME shown # <<>>
               PROVE  /\ {shown[k] : k \in DOMAIN shown} = DOMAIN batch
                      /\ \A k \in DOMAIN batch : batch[k].rank = k
                      /\ \A k, l \in DOMAIN batch :
                            k < l => ~(Concerned(batch[k]) /\ ~Concerned(batch[l]))
                      /\ \A k, l \in DOMAIN shown :
                            LET a == batch[shown[k]]  b == batch[shown[l]]
                            IN  k < l /\ {a.direction, b.direction} \intersect {"none"} = {} =>
                                   VerdictOrder[Verdict(a)] <= VerdictOrder[Verdict(b)]
    BY DEF OrderRespectsAdvice
  <2>1. batch = Ranked(batch) /\ shown = Displayed(batch)
    BY DEF AdviceInv
  <2>2. /\ \A k \in DOMAIN batch : batch[k].rank = k
        /\ \A k, l \in DOMAIN batch : k < l => ~(Concerned(batch[k]) /\ ~Concerned(batch[l]))
    BY <1>1, <2>1, RankedFact
  <2>3. DOMAIN shown = DOMAIN batch /\ {shown[k] : k \in DOMAIN batch} = DOMAIN batch
        /\ \A k \in DOMAIN batch : shown[k] \in DOMAIN batch
    BY <1>1, <2>1, DisplayFact
  <2>4. ASSUME NEW k \in DOMAIN shown, NEW l \in DOMAIN shown, k < l,
               batch[shown[k]].direction # "none", batch[shown[l]].direction # "none"
        PROVE  VerdictOrder[Verdict(batch[shown[k]])] <= VerdictOrder[Verdict(batch[shown[l]])]
    <3> DEFINE a == batch[shown[k]]
               b == batch[shown[l]]
    <3>1. Before(DisplayKey(a), DisplayKey(b))
      BY <1>1, <2>1, <2>3, <2>4, DisplayFact
    <3>2. AdviceJob(a) /\ AdviceJob(b)
      BY <1>1, <2>3
    <3>3. a.direction # "none" /\ b.direction # "none"
      BY <2>4
    <3> HIDE DEF a, b
    <3>4. /\ DisplayKey(a) \in [1..5 -> Int] /\ DisplayKey(b) \in [1..5 -> Int]
          /\ DisplayKey(a)[1] = VerdictOrder[Verdict(a)] /\ DisplayKey(b)[1] = VerdictOrder[Verdict(b)]
      BY <3>2, <3>3, KeyShape
    <3>5. DisplayKey(a)[1] <= DisplayKey(b)[1]
      <4>1. PICK m \in 1..5 : /\ DisplayKey(a)[m] < DisplayKey(b)[m]
                              /\ \A x \in 1..(m - 1) : DisplayKey(a)[x] = DisplayKey(b)[x]
        BY <3>1, <3>4 DEF Before
      <4>2. CASE m = 1
        BY <3>4, <4>1, <4>2
      <4>3. CASE m # 1
        <5>1. 1 \in 1..(m - 1)
          BY <4>3
        <5>2. QED
          BY <3>4, <4>1, <5>1
      <4>4. QED
        BY <4>2, <4>3
    <3>6. VerdictOrder[Verdict(a)] <= VerdictOrder[Verdict(b)]
      BY <3>4, <3>5
    <3>7. QED
      BY <3>6 DEF a, b
  <2>5. QED
    BY <2>2, <2>3, <2>4
<1>6. QED
  BY <1>3, <1>4, <1>5
-------------------------------------------------------------------------------
(* The facts that forms are filled with *)

\* The facts of the resume are those of one output that holds.
GroundsOf(o) ==
    /\ o \in Used /\ OutputHolds(o) /\ status = "ready" /\ DOMAIN grounds = KeysOf(o)
    /\ \A key \in KeysOf(o) : /\ grounds[key].value = ClaimOn(o, key).value
                              /\ grounds[key].quote = ClaimOn(o, key).quote

ValueInv ==
    /\ dossier \in Dossiers
    /\ DOMAIN grounds = {} \/ \E o : GroundsOf(o)
    /\ reading \in {"asked", "read"} => DOMAIN values = {}
    /\ reading \notin {"asked", "read"} =>
          /\ DOMAIN values = DOMAIN Concluded
                                \union {a \in DOMAIN Alias : Alias[a] \in DOMAIN Concluded}
          /\ \A key \in DOMAIN values :
                values[key] = Concluded[IF key \in DOMAIN Alias THEN Alias[key] ELSE key]

LEMMA ValueInitInv == ValueInit => ValueInv
BY DEF ValueInit, ValueInv

LEMMA SameDossier ==
    ASSUME dossier' = dossier
    PROVE  /\ Used' = Used
           /\ \A o : OutputHolds(o)' = OutputHolds(o)
<1>1. \A o : OutputHolds(o)' = OutputHolds(o)
  BY DEF OutputHolds, ContextHolds, BorneOut
<1>2. QED
  BY <1>1 DEF Used

LEMMA SameConcluded ==
    ASSUME dossier' = dossier, grounds' = grounds
    PROVE  Concluded' = Concluded
<1>1. Typed' = Typed /\ Linked1' = Linked1 /\ FromProfile' = FromProfile /\ FromResume' = FromResume
      /\ \A key : LinksFor(key)' = LinksFor(key)
  BY DEF Typed, Linked1, FromProfile, FromResume, LinksFor
<1>2. Collected' = Collected
  BY DEF Collected, Typed, Linked1, FromProfile, FromResume, LinksFor
<1>3. SchoolKind' = SchoolKind
  BY <1>2 DEF SchoolKind, KindsIn
<1>4. Studies' = Studies
  BY <1>2 DEF Studies
<1>5. QED
  BY <1>2, <1>3, <1>4 DEF Concluded

LEMMA ValueStepInv == ValueInv /\ [ValueNext]_valueVars => ValueInv'
<1> SUFFICES ASSUME ValueInv, [ValueNext]_valueVars PROVE ValueInv'
  OBVIOUS
<1>1. dossier' = dossier
  BY DEF ValueNext, ReadResume, ShowValues, valueVars
<1>2. Used' = Used /\ \A o : OutputHolds(o)' = OutputHolds(o)
  BY <1>1, SameDossier
<1>3. CASE ReadResume
  <2>1. /\ reading = "asked" /\ reading' = "read" /\ values' = values
        /\ dossier.meant = "one" /\ (\E o \in Used : OutputHolds(o)) => status' = "ready"
        /\ grounds' = IF \E o \in Used : OutputHolds(o)
                      THEN LET o == CHOOSE o \in Used : TRUE
                           IN  [key \in KeysOf(o) |->
                                   [value |-> ClaimOn(o, key).value,
                                    quote |-> ClaimOn(o, key).quote]]
                      ELSE <<>>
    BY <1>3 DEF ReadResume
  <2>2. CASE \E o \in Used : OutputHolds(o)
    <3>1. PICK o \in Used : o = CHOOSE p \in Used : TRUE
      BY <2>2
    <3>2. dossier.meant = "one"
      BY <2>2 DEF Used
    <3>3. OutputHolds(o)
      <4> DEFINE holding == {p \in dossier.reviewed : OutputHolds(p)}
      <4>1. Used = IF holding # {} THEN holding
                   ELSE IF dossier.cached.status = "ready" THEN {dossier.cached.output} ELSE {}
        BY <3>2 DEF Used
      <4>2. CASE holding # {}
        BY <3>1, <4>1, <4>2
      <4>3. CASE holding = {}
        <5>1. \A p \in Used : p = dossier.cached.output
          BY <4>1, <4>3
        <5>2. QED
          BY <2>2, <3>1, <5>1
      <4>4. QED
        BY <4>2, <4>3
    <3>4. status' = "ready"
      BY <2>1, <2>2, <3>2
    <3>5. grounds' = [key \in KeysOf(o) |->
                         [value |-> ClaimOn(o, key).value, quote |-> ClaimOn(o, key).quote]]
      BY <2>1, <2>2, <3>1
    <3>6. GroundsOf(o)'
      BY <1>2, <3>1, <3>3, <3>4, <3>5 DEF GroundsOf
    <3>7. QED
      BY <1>1, <2>1, <3>6 DEF ValueInv
  <2>3. CASE ~\E o \in Used : OutputHolds(o)
    <3>1. grounds' = <<>>
      BY <2>1, <2>3
    <3>2. DOMAIN grounds' = {}
      BY <3>1
    <3>3. QED
      BY <1>1, <2>1, <3>2 DEF ValueInv
  <2>4. QED
    BY <2>2, <2>3
<1>4. ASSUME grounds' = grounds, status' = status
      PROVE  /\ DOMAIN grounds' = {} \/ \E o : GroundsOf(o)'
             /\ Concluded' = Concluded
  <2>1. ASSUME NEW o, GroundsOf(o) PROVE GroundsOf(o)'
    BY <1>2, <1>4, <2>1 DEF GroundsOf
  <2>2. QED
    BY <1>1, <1>4, <2>1, SameConcluded DEF ValueInv
<1>5. CASE ShowValues
  <2>1. /\ reading' = "shown" /\ status' = status /\ grounds' = grounds
        /\ values' = [key \in DOMAIN Concluded
                                 \union {a \in DOMAIN Alias : Alias[a] \in DOMAIN Concluded} |->
                         Concluded[IF key \in DOMAIN Alias THEN Alias[key] ELSE key]]
    BY <1>5 DEF ShowValues
  <2>2. QED
    BY <1>1, <1>4, <2>1 DEF ValueInv
<1>6. CASE UNCHANGED valueVars
  <2>1. reading' = reading /\ status' = status /\ grounds' = grounds /\ values' = values
    BY <1>6 DEF valueVars
  <2>2. QED
    BY <1>1, <1>4, <2>1 DEF ValueInv
<1>7. QED
  BY <1>3, <1>5, <1>6 DEF ValueNext

LEMMA DossierHas ==
    ASSUME dossier \in Dossiers
    PROVE  /\ "none" \notin DOMAIN dossier.text
           /\ DOMAIN dossier.typed \subseteq FactKeys /\ DOMAIN dossier.columns \subseteq Columns
           /\ \A o \in Used : \A k \in DOMAIN o.claims : o.claims[k].key \in Extractable
BY DossierShapes DEF Used, OutputShape

\* What is known of a key that the resume tells.
LEMMA GroundFact ==
    ASSUME ValueInv, NEW o, GroundsOf(o), NEW key \in DOMAIN grounds
    PROVE  /\ key \in Extractable /\ ContextHolds(o.context)
           /\ \E c : /\ BorneOut(c, o) /\ c.key = key
                     /\ grounds[key].value = c.value /\ grounds[key].quote = c.quote
<1>1. key \in KeysOf(o) /\ o \in Used /\ OutputHolds(o)
  BY DEF GroundsOf
<1>2. PICK k \in DOMAIN o.claims : o.claims[k].key = key /\ ClaimOn(o, key) = o.claims[k]
  BY <1>1 DEF KeysOf, ClaimOn
<1>3. BorneOut(o.claims[k], o) /\ ContextHolds(o.context)
  BY <1>1 DEF OutputHolds
<1>4. key \in Extractable
  BY <1>1, <1>2, DossierHas DEF ValueInv
<1>5. grounds[key].value = o.claims[k].value /\ grounds[key].quote = o.claims[k].quote
  BY <1>1, <1>2 DEF GroundsOf
<1>6. QED
  BY <1>2, <1>3, <1>4, <1>5

LEMMA GroundKeys == ValueInv => DOMAIN grounds \subseteq Extractable
BY GroundFact DEF ValueInv

LEMMA CollectedFact ==
    ASSUME dossier \in Dossiers
    PROVE  /\ DOMAIN Collected = FromProfile \union Typed \union FromResume
           /\ \A key \in DOMAIN Collected :
                 /\ Collected[key].source = "resume" =>
                       /\ key \in DOMAIN grounds /\ key \notin DOMAIN dossier.typed
                       /\ Collected[key] = Entry(grounds[key].value, "resume", grounds[key].quote)
                 /\ key \in Typed \ FromProfile =>
                       Collected[key] = Entry(dossier.typed[key], "manual", "none")
           /\ Linked1 \subseteq Links
<1>1. Linked1 \subseteq Links /\ Linked1 \subseteq FromProfile
  BY DEF Linked1, FromProfile
<1>2. FromResume = {key \in DOMAIN grounds : key \notin DOMAIN dossier.typed}
  BY DEF FromResume
<1>3. \A v, quote : /\ Entry(v, "profile", quote).source = "profile"
                    /\ Entry(v, "manual", quote).source = "manual"
  BY DEF Entry
<1>4. QED
  BY <1>1, <1>2, <1>3 DEF Collected

\* What is concluded is of the two keys; the rest is as collected.
LEMMA ConcludedFact ==
    /\ \A key \in DOMAIN Concluded : key \notin Derived =>
          key \in DOMAIN Collected /\ Concluded[key] = Collected[key]
    /\ DOMAIN Collected \subseteq DOMAIN Concluded
    /\ \A key \in DOMAIN dossier.typed :
          /\ key \in DOMAIN Concluded <=> key \in DOMAIN Collected
          /\ key \in DOMAIN Concluded => Concluded[key] = Collected[key]
    /\ "institution_type" \in DOMAIN Concluded =>
          \/ "institution_type" \in DOMAIN Collected
          \/ /\ "school" \in DOMAIN Collected
             /\ Concluded["institution_type"].value \in KindsIn(Collected["school"].value)
    /\ "current_student" \in DOMAIN Concluded =>
          \/ "current_student" \in DOMAIN Collected
          \/ Studies /\ Concluded["current_student"].quote = grounds["school"].quote
<1> DEFINE T == {"institution_type" : k \in SchoolKind}
           C == IF Studies THEN {"current_student"} ELSE {}
<1>1. /\ T = IF SchoolKind # {} THEN {"institution_type"} ELSE {}
      /\ DOMAIN Concluded = DOMAIN Collected \union T \union C
  BY DEF Concluded
<1>2. ASSUME NEW key \in DOMAIN Concluded
      PROVE  Concluded[key] =
                 IF key = "institution_type" /\ SchoolKind # {}
                 THEN Entry(CHOOSE k \in SchoolKind : TRUE, Collected["school"].source,
                            IF Collected["school"].quote = "none" THEN Collected["school"].value
                            ELSE Collected["school"].quote)
                 ELSE IF key = "current_student" /\ Studies
                 THEN Entry("Yes", "resume", grounds["school"].quote)
                 ELSE Collected[key]
  BY <1>2 DEF Concluded
<1> HIDE DEF T
<1>3. Derived = {"institution_type", "current_student"}
  BY DEF Derived
<1>4. SchoolKind # {} =>
          /\ "school" \in DOMAIN Collected /\ "institution_type" \notin DOMAIN dossier.typed
          /\ SchoolKind \subseteq KindsIn(Collected["school"].value)
  BY DEF SchoolKind
<1>5. Studies => "current_student" \notin DOMAIN dossier.typed
  BY DEF Studies
<1>6. \A v, source, quote : Entry(v, source, quote).value = v /\ Entry(v, source, quote).quote = quote
  BY DEF Entry
<1>7. \A key \in DOMAIN Concluded : key \notin Derived =>
          key \in DOMAIN Collected /\ Concluded[key] = Collected[key]
  BY <1>1, <1>2, <1>3
<1>8. \A key \in DOMAIN dossier.typed :
          /\ key \in DOMAIN Concluded <=> key \in DOMAIN Collected
          /\ key \in DOMAIN Concluded => Concluded[key] = Collected[key]
  BY <1>1, <1>2, <1>4, <1>5
<1>9. ASSUME "institution_type" \in DOMAIN Concluded, "institution_type" \notin DOMAIN Collected
      PROVE  /\ "school" \in DOMAIN Collected
             /\ Concluded["institution_type"].value \in KindsIn(Collected["school"].value)
  <2>1. SchoolKind # {}
    BY <1>1, <1>9
  <2>2. Concluded["institution_type"].value = (CHOOSE k \in SchoolKind : TRUE)
    BY <1>2, <1>6, <1>9, <2>1
  <2>3. QED
    BY <1>4, <2>1, <2>2
<1>10. ASSUME "current_student" \in DOMAIN Concluded, "current_student" \notin DOMAIN Collected
       PROVE  Studies /\ Concluded["current_student"].quote = grounds["school"].quote
  <2>1. Studies
    BY <1>1, <1>10
  <2>2. Concluded["current_student"].quote = grounds["school"].quote
    BY <1>2, <1>6, <1>10, <2>1
  <2>3. QED
    BY <2>1, <2>2
<1>11. QED
  BY <1>1, <1>7, <1>8, <1>9, <1>10

LEMMA KeysFact ==
    /\ \A key \in FactKeys : key \notin DOMAIN Alias
    /\ \A key \in DOMAIN Alias : Alias[key] \notin Derived
    /\ Preferences \intersect Derived = {} /\ Preferences \intersect Extractable = {}
    /\ Derived \intersect Extractable = {}
    /\ Derived \intersect Columns = {} /\ Derived \intersect Links = {}
    /\ Residence \union Constraints \union Schooling \union Derived \union Preferences
          \subseteq FactKeys
    /\ Endpoints \subseteq Schooling
    /\ Schooling \intersect Derived = {}
    /\ Endpoints \intersect Dates = {} /\ "phone_country_code" \notin Endpoints \union Dates
<1>1. DOMAIN Alias = {"email", "availability", "summary", "nationality_country"}
      /\ Alias["email"] = "contact_email" /\ Alias["availability"] = "availability_period"
      /\ Alias["summary"] = "resume_summary" /\ Alias["nationality_country"] = "nationality"
  BY DEF Alias
<1>2. \A key \in DOMAIN Alias : key \notin FactKeys
  BY <1>1 DEF FactKeys, Columns, Schooling, Derived, Preferences, Residence, Constraints, Links,
              Endpoints, Dates
<1>3. \A key \in DOMAIN Alias : Alias[key] \notin Derived
  BY <1>1 DEF Derived
<1>4. Preferences \intersect Derived = {} /\ Derived \intersect Columns = {}
      /\ Derived \intersect Links = {}
  BY DEF Preferences, Derived, Columns, Links
<1>5. Schooling \intersect Derived = {} /\ Endpoints \subseteq Schooling
      /\ Endpoints \intersect Dates = {} /\ "phone_country_code" \notin Endpoints \union Dates
  BY DEF Schooling, Derived, Endpoints, Dates
<1>6. Residence \union Constraints \union Schooling \union Derived \union Preferences
          \subseteq FactKeys
  BY DEF FactKeys
<1>7. Preferences \intersect Extractable = {} /\ Derived \intersect Extractable = {}
  BY DEF Extractable
<1>8. QED
  BY <1>2, <1>3, <1>4, <1>5, <1>6, <1>7

LEMMA ConcludedKeys == ASSUME ValueInv PROVE DOMAIN Concluded \subseteq FactKeys
<1>1. dossier \in Dossiers
  BY DEF ValueInv
<1>2. FromProfile \subseteq FactKeys
  <2>1. DOMAIN dossier.columns \subseteq Columns /\ Linked1 \subseteq Links
    BY <1>1, DossierHas, CollectedFact
  <2>2. Columns \union Links \subseteq FactKeys
    BY DEF FactKeys
  <2>3. QED
    BY <2>1, <2>2 DEF FromProfile
<1>3. Typed \subseteq FactKeys
  BY <1>1, DossierHas DEF Typed
<1>4. FromResume \subseteq FactKeys
  BY GroundKeys DEF FromResume, Extractable
<1>5. DOMAIN Collected \subseteq FactKeys
  BY <1>1, <1>2, <1>3, <1>4, CollectedFact
<1>6. Derived \subseteq FactKeys
  BY KeysFact
<1>7. QED
  BY <1>5, <1>6, ConcludedFact

\* What is shown of a key, once anything is.
LEMMA ShownFact ==
    ASSUME ValueInv, NEW key \in DOMAIN values
    PROVE  LET k == IF key \in DOMAIN Alias THEN Alias[key] ELSE key
           IN  /\ reading \notin {"asked", "read"} /\ k \in DOMAIN Concluded
               /\ values[key] = Concluded[k]
               /\ key \notin Derived => k \notin Derived
               /\ key \in FactKeys => k = key
<1> DEFINE k == IF key \in DOMAIN Alias THEN Alias[key] ELSE key
<1>1. /\ reading \notin {"asked", "read"}
      /\ DOMAIN values = DOMAIN Concluded \union {a \in DOMAIN Alias : Alias[a] \in DOMAIN Concluded}
      /\ values[key] = Concluded[k]
  BY DEF ValueInv
<1>2. key \notin Derived => k \notin Derived
  BY KeysFact
<1>3. key \in FactKeys => k = key
  BY KeysFact
<1>4. k \in DOMAIN Concluded
  <2>1. CASE key \in DOMAIN Alias
    <3>1. key \notin DOMAIN Concluded
      BY <2>1, ConcludedKeys, KeysFact
    <3>2. QED
      BY <1>1, <2>1, <3>1
  <2>2. CASE key \notin DOMAIN Alias
    BY <1>1, <2>2
  <2>3. QED
    BY <2>1, <2>2
<1>5. QED
  BY <1>1, <1>2, <1>3, <1>4

\* What is shown of a resume is one of its facts.
LEMMA ResumeFact ==
    ASSUME ValueInv, NEW key \in OfSource("resume") \ Derived
    PROVE  LET k == IF key \in DOMAIN Alias THEN Alias[key] ELSE key
           IN  /\ k \in DOMAIN grounds /\ k \in Extractable
               /\ values[key] = Entry(grounds[k].value, "resume", grounds[k].quote)
               /\ key \in FactKeys => k = key
<1> DEFINE k == IF key \in DOMAIN Alias THEN Alias[key] ELSE key
<1>1. key \in DOMAIN values /\ values[key].source = "resume"
  BY DEF OfSource
<1>2. /\ k \in DOMAIN Concluded /\ values[key] = Concluded[k] /\ k \notin Derived
      /\ key \in FactKeys => k = key
  BY <1>1, ShownFact
<1> HIDE DEF k
<1>3. k \in DOMAIN Collected /\ Concluded[k] = Collected[k]
  BY <1>2, ConcludedFact
<1>4. k \in DOMAIN grounds /\ Collected[k] = Entry(grounds[k].value, "resume", grounds[k].quote)
  BY <1>1, <1>2, <1>3, CollectedFact DEF ValueInv
<1>5. QED
  BY <1>2, <1>3, <1>4, GroundKeys DEF k

LEMMA GroundedFact == ValueInv => ResumeValuesAreGrounded
<1> SUFFICES ASSUME ValueInv PROVE ResumeValuesAreGrounded
  OBVIOUS
<1> DEFINE theirs == OfSource("resume") \ Derived
<1>1. ASSUME NEW key \in theirs
      PROVE  \E k \in DOMAIN grounds : /\ values[key].quote = grounds[k].quote
                                      /\ (key \in FactKeys => k = key)
  <2> DEFINE k == IF key \in DOMAIN Alias THEN Alias[key] ELSE key
  <2>1. /\ k \in DOMAIN grounds
        /\ values[key] = Entry(grounds[k].value, "resume", grounds[k].quote)
        /\ (key \in FactKeys => k = key)
    BY <1>1, ResumeFact
  <2> HIDE DEF k
  <2>2. values[key].quote = grounds[k].quote
    BY <2>1 DEF Entry
  <2>3. QED
    BY <2>1, <2>2
<1> HIDE DEF theirs
<1>2. CASE DOMAIN grounds = {}
  <2>1. theirs = {}
    BY <1>1, <1>2
  <2>2. QED
    BY <2>1 DEF ResumeValuesAreGrounded, theirs
<1>3. CASE DOMAIN grounds # {}
  <2>1. PICK o : GroundsOf(o)
    BY <1>3 DEF ValueInv
  <2>2. ContextHolds(o.context)
    BY <1>3, <2>1, GroundFact
  <2>3. ASSUME NEW key \in theirs
        PROVE  \E c : /\ BorneOut(c, o) /\ values[key].quote = c.quote
                      /\ (key \in FactKeys => c.key = key)
    <3>1. PICK k \in DOMAIN grounds : /\ values[key].quote = grounds[k].quote
                                      /\ (key \in FactKeys => k = key)
      BY <1>1, <2>3
    <3>2. PICK c : BorneOut(c, o) /\ c.key = k /\ grounds[k].quote = c.quote
      BY <2>1, <3>1, GroundFact
    <3>3. QED
      BY <3>1, <3>2
  <2>4. ASSUME NEW key \in theirs
        PROVE  values[key].quote \in DOMAIN dossier.text
    <3>1. PICK c : BorneOut(c, o) /\ values[key].quote = c.quote
      BY <2>3, <2>4
    <3>2. QED
      BY <3>1 DEF BorneOut
  <2>5. ASSUME NEW key \in theirs, key \in Residence \union Constraints
        PROVE  key \in dossier.text[values[key].quote].speaks
    <3>1. key \in FactKeys
      BY <2>5, KeysFact
    <3>2. PICK c : BorneOut(c, o) /\ c.key = key /\ values[key].quote = c.quote
      BY <2>3, <2>5, <3>1
    <3>3. QED
      BY <2>5, <3>2 DEF BorneOut
  <2>6. ASSUME NEW key \in theirs, key \in Schooling
        PROVE  values[key].quote = o.context
    <3>1. key \in FactKeys
      BY <2>6, KeysFact
    <3>2. PICK c : BorneOut(c, o) /\ c.key = key /\ values[key].quote = c.quote
      BY <2>3, <2>6, <3>1
    <3>3. QED
      BY <2>6, <3>2 DEF BorneOut
  <2>7. ASSUME NEW key \in theirs, key \in Schooling
        PROVE  dossier.text[values[key].quote].degrees = 1
    <3>1. values[key].quote = o.context
      BY <2>6, <2>7
    <3>2. values[key].quote # "none"
      BY <2>4, <2>7, DossierHas DEF ValueInv
    <3>3. QED
      BY <2>2, <3>1, <3>2 DEF ContextHolds
  <2>8. ASSUME NEW key \in theirs, key \in Endpoints, key \notin Starts
        PROVE  /\ ~dossier.text[values[key].quote].present
               /\ Len(dossier.text[values[key].quote].dates) >= 2
    <3>1. key \in FactKeys /\ key \in Endpoints
      BY <2>8, KeysFact
    <3>2. PICK c : BorneOut(c, o) /\ c.key = key /\ values[key].quote = c.quote
      BY <2>3, <2>8, <3>1
    <3>3. Endpoint(key, dossier.text[values[key].quote]) # {}
      BY <3>1, <3>2, KeysFact DEF BorneOut
    <3>4. QED
      BY <2>8, <3>3 DEF Endpoint
  <2>9. QED
    BY <2>4, <2>5, <2>6, <2>7, <2>8 DEF ResumeValuesAreGrounded, theirs
<1>4. QED
  BY <1>2, <1>3

LEMMA DecidedFact == ValueInv => UserDecides
<1> SUFFICES ASSUME ValueInv, reading = "shown", NEW key \in DOMAIN dossier.typed,
                    key \notin FromProfile
             PROVE  IF key \in Typed
                    THEN /\ key \in DOMAIN values
                         /\ values[key] = Entry(dossier.typed[key], "manual", "none")
                    ELSE key \notin DOMAIN values
  BY DEF UserDecides
<1>1. dossier \in Dossiers /\ key \in FactKeys /\ key \notin DOMAIN Alias
  BY DossierHas, KeysFact DEF ValueInv
<1>2. DOMAIN values = DOMAIN Concluded \union {a \in DOMAIN Alias : Alias[a] \in DOMAIN Concluded}
      /\ (key \in DOMAIN values => values[key] = Concluded[key])
  BY <1>1 DEF ValueInv
<1>3. /\ key \in DOMAIN Concluded <=> key \in DOMAIN Collected
      /\ key \in DOMAIN Concluded => Concluded[key] = Collected[key]
  BY ConcludedFact
<1>4. key \in DOMAIN Collected <=> key \in Typed
  BY <1>1, CollectedFact DEF FromResume
<1>5. key \in Typed => Collected[key] = Entry(dossier.typed[key], "manual", "none")
  BY <1>1, <1>4, CollectedFact
<1>6. QED
  BY <1>1, <1>2, <1>3, <1>4, <1>5

LEMMA ShownConclusions == ValueInv => ConclusionsAreShown
<1> SUFFICES ASSUME ValueInv PROVE ConclusionsAreShown
  OBVIOUS
<1>1. dossier \in Dossiers
  BY DEF ValueInv
\* Neither is collected unless it is typed.
<1>2. \A key \in Derived : key \in DOMAIN Collected => key \in Typed
  <2>1. DOMAIN dossier.columns \subseteq Columns /\ Linked1 \subseteq Links
    BY <1>1, DossierHas, CollectedFact
  <2>2. \A key \in Derived : key \notin FromProfile /\ key \notin FromResume
    BY <2>1, KeysFact, GroundKeys DEF FromProfile, FromResume
  <2>3. QED
    BY <1>1, <2>2, CollectedFact
<1>3. \A key \in DOMAIN Collected \ Derived :
         key \in FactKeys /\ reading \notin {"asked", "read"} =>
            key \in DOMAIN values /\ values[key] = Collected[key]
  <2>1. \A key \in DOMAIN Collected \ Derived :
           key \in DOMAIN Concluded /\ Concluded[key] = Collected[key]
    BY ConcludedFact
  <2>2. QED
    BY <2>1, KeysFact DEF ValueInv
<1>4. {"school", "degree"} \subseteq FactKeys /\ "school" \notin Derived /\ "degree" \notin Derived
      /\ Derived = {"institution_type", "current_student"} /\ Derived \subseteq FactKeys
  <2>1. {"school", "degree"} \subseteq Schooling
    BY DEF Schooling
  <2>2. QED
    BY <2>1, KeysFact DEF Derived
<1>5. ASSUME "institution_type" \in DOMAIN values, "institution_type" \notin Typed
      PROVE  "school" \in DOMAIN values
             /\ values["institution_type"].value \in KindsIn(values["school"].value)
  <2>1. /\ reading \notin {"asked", "read"} /\ "institution_type" \in DOMAIN Concluded
        /\ values["institution_type"] = Concluded["institution_type"]
    BY <1>4, <1>5, ShownFact
  <2>2. "school" \in DOMAIN Collected
        /\ Concluded["institution_type"].value \in KindsIn(Collected["school"].value)
    BY <1>2, <1>4, <1>5, <2>1, ConcludedFact
  <2>3. QED
    BY <1>3, <1>4, <2>1, <2>2
<1>6. ASSUME "current_student" \in DOMAIN values, "current_student" \notin Typed
      PROVE  /\ dossier.text[values["current_student"].quote].ongoing
             /\ \A k \in {"school", "degree"} \intersect OfSource("resume") :
                   values[k].quote = values["current_student"].quote
             /\ {"school", "degree"} \subseteq DOMAIN values
  <2>1. /\ reading \notin {"asked", "read"} /\ "current_student" \in DOMAIN Concluded
        /\ values["current_student"] = Concluded["current_student"]
    BY <1>4, <1>6, ShownFact
  <2>2. Studies /\ values["current_student"].quote = grounds["school"].quote
    BY <1>2, <1>4, <1>6, <2>1, ConcludedFact
  <2>3. /\ grounds["school"].quote = grounds["degree"].quote
        /\ dossier.text[grounds["school"].quote].ongoing
        /\ {"school", "degree"} \subseteq DOMAIN Collected
    BY <2>2 DEF Studies
  <2>4. {"school", "degree"} \subseteq DOMAIN values
    BY <1>3, <1>4, <2>1, <2>3
  <2>5. ASSUME NEW k \in {"school", "degree"}, k \in OfSource("resume")
        PROVE  values[k].quote = values["current_student"].quote
    <3>1. values[k] = Entry(grounds[k].value, "resume", grounds[k].quote)
      BY <1>4, <2>5, ResumeFact
    <3>2. values[k].quote = grounds[k].quote
      BY <3>1 DEF Entry
    <3>3. QED
      BY <2>2, <2>3, <3>2
  <2>6. QED
    BY <2>2, <2>3, <2>4, <2>5
<1>7. OfSource("resume") \intersect Preferences = {}
  <2>1. ASSUME NEW key \in Preferences, key \in OfSource("resume") PROVE FALSE
    <3>1. key \notin Derived /\ key \in FactKeys /\ key \notin Extractable
      BY KeysFact
    <3>2. key \in Extractable
      BY <2>1, <3>1, ResumeFact
    <3>3. QED
      BY <3>1, <3>2
  <2>2. QED
    BY <2>1
<1>8. QED
  BY <1>5, <1>6, <1>7 DEF ConclusionsAreShown

LEMMA ValueInvImplies ==
    ValueInv => ResumeValuesAreGrounded /\ UserDecides /\ ConclusionsAreShown /\ AllOrNothing
<1>1. ValueInv => AllOrNothing
  BY DEF ValueInv, GroundsOf, AllOrNothing
<1>2. QED
  BY <1>1, GroundedFact, DecidedFact, ShownConclusions

-------------------------------------------------------------------------------
(* The mapping of forms to saved facts *)

PlanKeys == {NoKey} \union [owner : People, form : Forms, facts : Answerable]
MapSets == SUBSET ((UNION Suggested) \union ((UNION Forms) \X Facts))
PlanRecords == [key : PlanKeys, until : Nat, maps : MapSets]

\* A plan maps what may be asked, each question at most once, to facts that are there
\* and fit, and what a label names to the fact that it names.
MapsOwn(key, maps) ==
    /\ \A m \in maps : /\ m[1] \in Permitted(key) /\ m[2] \in key.facts
                       /\ AppropriateKind(m[1], m[2])
                       /\ Named(m[1]) => m[2] = m[1].rule
    /\ \A m, n \in maps : m[1] = n[1] => m = n

\* The cache: a plan for a key at most once, none for a key that is being asked.
PlansOk(p, calling) ==
    /\ p \in Seq(PlanRecords) /\ Len(p) <= Capacity
    /\ \A k \in DOMAIN p : MapsOwn(p[k].key, p[k].maps)
    /\ \A k, l \in DOMAIN p : p[k].key = p[l].key => k = l
    /\ \A k \in DOMAIN p : p[k].key \notin calling

PlanTypes ==
    /\ asker \in [Askers -> {"idle", "calling", "told", "refused"}]
    /\ wants \in [Askers -> PlanKeys]
    /\ told \in [Askers -> MapSets]
    /\ facts \in [People -> Answerable]
    /\ hour \in Nat

CallingFor(key) == \E r \in Askers : asker[r] = "calling" /\ wants[r] = key

PlanInv ==
    /\ PlanTypes
    /\ PlansOk(plans, mapping)
    /\ \A key : key \in mapping <=> CallingFor(key)
    /\ \A r, s \in Askers :
          asker[r] = "calling" /\ asker[s] = "calling" /\ wants[r] = wants[s] => r = s
    /\ \A r \in Askers : asker[r] = "told" => MapsOwn(wants[r], told[r])

\* What is left of the cache after its first plans is a cache.
LEMMA LeftFact ==
    ASSUME NEW p, NEW calling, PlansOk(p, calling), NEW n \in 0..Len(p)
    PROVE  PlansOk(SubSeq(p, n + 1, Len(p)), calling)
<1> DEFINE L == Len(p)
           m == n + 1
           s == SubSeq(p, m, L)
<1>1. L \in Nat /\ DOMAIN p = 1..L /\ \A k \in 1..L : p[k] \in PlanRecords
  BY LenProperties, ElementOfSeq DEF PlansOk
<1>2. n \in Nat /\ n <= L /\ m \in Int
  BY <1>1
<1>3. \A i \in m..L : p[i] \in PlanRecords
  BY <1>1, <1>2
<1> HIDE DEF L
<1>4. /\ s \in Seq(PlanRecords)
      /\ Len(s) = IF m <= L THEN L - m + 1 ELSE 0
      /\ \A i \in 1..(L - m + 1) : s[i] = p[m + i - 1]
  BY <1>1, <1>2, <1>3, SubSeqProperties
<1> HIDE DEF s
<1>5. DOMAIN s = 1..Len(s) /\ Len(s) = L - n
  BY <1>1, <1>2, <1>4, LenProperties
<1>6. \A i \in DOMAIN s : n + i \in DOMAIN p /\ s[i] = p[n + i]
  <2> SUFFICES ASSUME NEW i \in DOMAIN s PROVE n + i \in DOMAIN p /\ s[i] = p[n + i]
    OBVIOUS
  <2>1. i \in 1..(L - m + 1) /\ m + i - 1 = n + i /\ n + i \in 1..L
    BY <1>1, <1>2, <1>5
  <2>2. s[i] = p[m + i - 1]
    BY <1>4, <2>1
  <2>3. QED
    BY <1>1, <2>1, <2>2
<1>7. Len(s) <= Capacity
  BY <1>1, <1>2, <1>5, PlanLimits DEF PlansOk, L
<1>8. \A k, l \in DOMAIN s : n + k = n + l => k = l
  BY <1>2, <1>5
<1>9. \A k, l \in DOMAIN s : s[k].key = s[l].key => k = l
  BY <1>6, <1>8 DEF PlansOk
<1>10. PlansOk(s, calling)
  BY <1>4, <1>6, <1>7, <1>9 DEF PlansOk
<1>11. QED
  BY <1>10 DEF s, L

\* A plan is added when its key is no longer asked.
LEMMA AddedFact ==
    ASSUME NEW p, NEW calling, PlansOk(p, calling), NEW new \in PlanRecords, new.key \in calling,
           MapsOwn(new.key, new.maps)
    PROVE  PlansOk(WithinCapacity(Append(p, new)), calling \ {new.key})
<1> DEFINE L == Len(p)
           a == Append(p, new)
           rest == calling \ {new.key}
           s == WithinCapacity(a)
<1>1. L \in Nat /\ DOMAIN p = 1..L /\ p \in Seq(PlanRecords) /\ L <= Capacity /\ Capacity \in Nat
  BY LenProperties, PlanLimits DEF PlansOk
<1>2. /\ a \in Seq(PlanRecords) /\ a # <<>> /\ Len(a) = L + 1
      /\ \A i \in 1..L : a[i] = p[i]
      /\ a[L + 1] = new
  BY <1>1, AppendProperties
<1> HIDE DEF a, L
<1>3. DOMAIN a = 1..(L + 1)
  BY <1>2, LenProperties
<1>4. \A k \in DOMAIN a : (k \in DOMAIN p /\ a[k] = p[k]) \/ (k = L + 1 /\ a[k] = new)
  BY <1>1, <1>2, <1>3
<1>5. \A k \in DOMAIN a : MapsOwn(a[k].key, a[k].maps) /\ a[k].key \notin rest
  BY <1>4 DEF PlansOk
<1>6. \A k, l \in DOMAIN a : a[k].key = a[l].key => k = l
  BY <1>4 DEF PlansOk
<1>7. CASE ~(Len(a) > Capacity)
  <2>1. s = a
    BY <1>7 DEF WithinCapacity
  <2>2. Len(a) <= Capacity
    BY <1>1, <1>2, <1>7
  <2>3. QED
    BY <1>2, <1>5, <1>6, <2>1, <2>2 DEF PlansOk, a
<1>8. CASE Len(a) > Capacity
  <2>1. s = Tail(a)
    BY <1>8 DEF WithinCapacity
  <2>2. /\ s \in Seq(PlanRecords) /\ Len(s) = L
        /\ \A i \in 1..Len(s) : s[i] = a[i + 1]
    BY <1>1, <1>2, <2>1, HeadTailProperties
  <2> HIDE DEF s
  <2>3. DOMAIN s = 1..L
    BY <2>2, LenProperties
  <2>4. \A k \in DOMAIN s : k + 1 \in DOMAIN a /\ s[k] = a[k + 1]
    BY <1>1, <1>3, <2>2, <2>3
  <2>5. \A k, l \in DOMAIN s : k + 1 = l + 1 => k = l
    BY <1>1, <2>3
  <2>6. \A k, l \in DOMAIN s : s[k].key = s[l].key => k = l
    BY <1>6, <2>4, <2>5
  <2>7. PlansOk(s, rest)
    BY <1>1, <1>5, <2>2, <2>4, <2>6 DEF PlansOk
  <2>8. QED
    BY <2>7 DEF s, a
<1>9. QED
  BY <1>7, <1>8

LEMMA PlanInitInv == PlanInit => PlanInv
<1> SUFFICES ASSUME PlanInit PROVE PlanInv
  OBVIOUS
<1>1. PlanTypes
  BY DEF PlanInit, PlanTypes, PlanKeys, MapSets
<1>2. PlansOk(plans, mapping)
  <2>1. plans = <<>> /\ plans \in Seq(PlanRecords) /\ Len(plans) = 0 /\ DOMAIN plans = {}
    BY EmptySeq DEF PlanInit
  <2>2. QED
    BY <2>1, PlanLimits DEF PlansOk
<1>3. QED
  BY <1>1, <1>2 DEF PlanInit, PlanInv, CallingFor

\* What the rules map is a plan, and so is that with what the model may add.
LEMMA MappedFact ==
    ASSUME NEW key \in PlanKeys
    PROVE  /\ MapsOwn(key, Mapped(key)) /\ Mapped(key) \in MapSets
           /\ \A m \in Mapped(key) : Named(m[1])
<1> DEFINE R == Mapped(key)
<1>1. \A m \in R : \E q \in key.form :
          /\ m = <<q, q.rule>> /\ q \in Permitted(key) /\ Named(q) /\ q.rule \in key.facts
          /\ AppropriateKind(q, q.rule)
  BY DEF Mapped, Permitted
<1>2. \A m \in R : /\ m[1] \in Permitted(key) /\ m[2] \in key.facts
                   /\ AppropriateKind(m[1], m[2]) /\ Named(m[1]) /\ m[2] = m[1].rule
                   /\ m = <<m[1], m[1].rule>>
  BY <1>1
<1>3. \A m, n \in R : m[1] = n[1] => m = n
  <2> SUFFICES ASSUME NEW m \in R, NEW n \in R, m[1] = n[1] PROVE m = n
    OBVIOUS
  <2>1. m = <<m[1], m[1].rule>> /\ n = <<n[1], n[1].rule>>
    BY <1>2
  <2>2. QED
    BY <2>1
<1>4. key.form \subseteq UNION Forms /\ key.facts \subseteq Facts
  BY PlanForms DEF PlanKeys, NoKey
<1>5. \A m \in R : m \in (UNION Forms) \X Facts
  BY <1>1, <1>4
<1> HIDE DEF R
<1>6. MapsOwn(key, R) /\ R \in MapSets
  BY <1>2, <1>3, <1>5 DEF MapsOwn, MapSets
<1>7. QED
  BY <1>2, <1>6 DEF R

LEMMA SuggestedFact ==
    ASSUME NEW key \in PlanKeys, NEW S \in Suggested, Valid(key, S)
    PROVE  MapsOwn(key, Mapped(key) \union S) /\ Mapped(key) \union S \in MapSets
<1>1. /\ \A m \in S : /\ m[1] \in Permitted(key) /\ ~Named(m[1]) /\ m[2] \in key.facts
                      /\ AppropriateKind(m[1], m[2])
      /\ \A m, n \in S : m[1] = n[1] => m = n
  BY DEF Valid, Unnamed
<1>2. S \subseteq UNION Suggested
  OBVIOUS
<1>3. MapsOwn(key, Mapped(key) \union S)
  BY <1>1, MappedFact DEF MapsOwn
<1>4. QED
  BY <1>2, <1>3, MappedFact DEF MapSets

\* A request that is answered is told a plan for what it wants.
LEMMA ToldFact ==
    ASSUME PlanInv, NEW r \in Askers, NEW maps \in MapSets, MapsOwn(wants'[r], maps),
           wants' \in [Askers -> PlanKeys], \A s \in Askers : s # r => wants'[s] = wants[s],
           Tell(r, maps), facts' \in [People -> Answerable], hour' \in Nat
    PROVE  /\ PlanTypes' /\ asker'[r] = "told"
           /\ \A s \in Askers : s # r => asker'[s] = asker[s]
           /\ \A s \in Askers : asker'[s] = "told" => MapsOwn(wants'[s], told'[s])
<1>1. /\ asker' = [asker EXCEPT ![r] = "told"]
      /\ told' = [told EXCEPT ![r] = maps]
      /\ asker \in [Askers -> {"idle", "calling", "told", "refused"}]
      /\ told \in [Askers -> MapSets]
  BY DEF Tell, PlanInv, PlanTypes
<1>2. PlanTypes'
  BY <1>1 DEF PlanTypes
<1>3. asker'[r] = "told" /\ told'[r] = maps
      /\ \A s \in Askers : s # r => asker'[s] = asker[s] /\ told'[s] = told[s]
  BY <1>1
<1>4. \A s \in Askers : asker[s] = "told" => MapsOwn(wants[s], told[s])
  BY DEF PlanInv
<1>5. QED
  BY <1>2, <1>3, <1>4

LEMMA AskPlanStep ==
    ASSUME PlanInv, NEW r \in Askers, NEW o \in People, NEW form \in Forms, NEW model \in BOOLEAN,
           AskPlan(r, o, form, model)
    PROVE  PlanInv'
<1> DEFINE key == [owner |-> o, form |-> form, facts |-> facts[o]]
<1>1. /\ asker[r] = "idle" /\ wants' = [wants EXCEPT ![r] = key]
      /\ facts' = facts /\ hour' = hour
  BY DEF AskPlan
<1>2. /\ asker \in [Askers -> {"idle", "calling", "told", "refused"}]
      /\ wants \in [Askers -> PlanKeys] /\ told \in [Askers -> MapSets]
      /\ facts \in [People -> Answerable] /\ hour \in Nat
  BY DEF PlanInv, PlanTypes
<1>3. key \in PlanKeys /\ PlanKeys # {}
  BY <1>2 DEF PlanKeys
<1>4. \/ Tell(r, Mapped(key)) /\ UNCHANGED <<plans, mapping>>
      \/ \E n \in 0..Len(plans) : LET found == PlansOf(LiveAfter(n), key) IN
           /\ plans' = LiveAfter(n)
           /\ \/ Tell(r, Mapped(key)) /\ UNCHANGED mapping
              \/ \E k \in found : Tell(r, LiveAfter(n)[k].maps) /\ UNCHANGED mapping
              \/ asker' = [asker EXCEPT ![r] = "refused"] /\ UNCHANGED <<told, mapping>>
              \/ /\ found = {} /\ key \notin mapping
                 /\ mapping' = mapping \union {key}
                 /\ asker' = [asker EXCEPT ![r] = "calling"] /\ UNCHANGED told
  BY DEF AskPlan
<1> HIDE DEF key
<1>5. wants' \in [Askers -> PlanKeys] /\ wants'[r] = key
      /\ \A s \in Askers : s # r => wants'[s] = wants[s]
  BY <1>1, <1>2, <1>3
<1>6. facts' \in [People -> Answerable] /\ hour' \in Nat
  BY <1>1, <1>2
<1>7. MapsOwn(key, Mapped(key)) /\ Mapped(key) \in MapSets
  BY <1>3, MappedFact
<1>8. PlansOk(plans, mapping)
  BY DEF PlanInv
\* What is told does not change what is asked.
<1>9. ASSUME NEW maps \in MapSets, MapsOwn(key, maps), Tell(r, maps), UNCHANGED mapping,
             PlansOk(plans', mapping)
      PROVE  PlanInv'
  <2>1. /\ PlanTypes' /\ asker'[r] = "told"
        /\ \A s \in Askers : s # r => asker'[s] = asker[s]
        /\ \A s \in Askers : asker'[s] = "told" => MapsOwn(wants'[s], told'[s])
    BY <1>5, <1>6, <1>9, ToldFact
  <2>2. \A k : CallingFor(k) <=> CallingFor(k)'
    BY <1>1, <1>5, <2>1 DEF CallingFor
  <2>3. QED
    BY <1>5, <1>9, <2>1, <2>2 DEF PlanInv
<1>10. ASSUME NEW next \in {"refused", "calling"}, asker' = [asker EXCEPT ![r] = next],
              UNCHANGED told
       PROVE  /\ PlanTypes' /\ asker'[r] = next
              /\ \A s \in Askers : s # r => asker'[s] = asker[s]
              /\ \A s \in Askers : asker'[s] = "told" => MapsOwn(wants'[s], told'[s])
  <2>1. PlanTypes'
    BY <1>2, <1>5, <1>6, <1>10 DEF PlanTypes
  <2>2. asker'[r] = next /\ \A s \in Askers : s # r => asker'[s] = asker[s]
    BY <1>2, <1>10
  <2>3. QED
    BY <1>5, <1>10, <2>1, <2>2 DEF PlanInv
<1>11. CASE Tell(r, Mapped(key)) /\ UNCHANGED <<plans, mapping>>
  BY <1>7, <1>8, <1>9, <1>11
<1>12. ASSUME NEW n \in 0..Len(plans), plans' = LiveAfter(n),
              \/ Tell(r, Mapped(key)) /\ UNCHANGED mapping
              \/ \E k \in PlansOf(LiveAfter(n), key) :
                    Tell(r, LiveAfter(n)[k].maps) /\ UNCHANGED mapping
              \/ asker' = [asker EXCEPT ![r] = "refused"] /\ UNCHANGED <<told, mapping>>
              \/ /\ PlansOf(LiveAfter(n), key) = {} /\ key \notin mapping
                 /\ mapping' = mapping \union {key}
                 /\ asker' = [asker EXCEPT ![r] = "calling"] /\ UNCHANGED told
       PROVE  PlanInv'
  <2> DEFINE left == LiveAfter(n)
  <2>1. PlansOk(left, mapping)
    BY <1>8, <1>12, LeftFact DEF LiveAfter
  <2> HIDE DEF left
  <2>2. CASE Tell(r, Mapped(key)) /\ UNCHANGED mapping
    BY <1>7, <1>9, <1>12, <2>1, <2>2 DEF left
  <2>3. CASE \E k \in PlansOf(left, key) : Tell(r, left[k].maps) /\ UNCHANGED mapping
    <3>1. PICK k \in PlansOf(left, key) : Tell(r, left[k].maps) /\ UNCHANGED mapping
      BY <2>3
    <3>2. k \in DOMAIN left /\ left[k].key = key
      BY DEF PlansOf
    <3>3. left[k] \in PlanRecords /\ MapsOwn(key, left[k].maps)
      <4>1. left \in Seq(PlanRecords)
        BY <2>1 DEF PlansOk
      <4>2. QED
        BY <2>1, <3>2, <4>1, LenProperties, ElementOfSeq DEF PlansOk
    <3>4. left[k].maps \in MapSets
      BY <3>3 DEF PlanRecords
    <3>5. QED
      BY <1>9, <1>12, <2>1, <3>1, <3>3, <3>4 DEF left
  <2>4. CASE asker' = [asker EXCEPT ![r] = "refused"] /\ UNCHANGED <<told, mapping>>
    <3>1. /\ PlanTypes' /\ asker'[r] = "refused"
          /\ \A s \in Askers : s # r => asker'[s] = asker[s]
          /\ \A s \in Askers : asker'[s] = "told" => MapsOwn(wants'[s], told'[s])
      BY <1>10, <2>4
    <3>2. \A k : CallingFor(k) <=> CallingFor(k)'
      BY <1>1, <1>5, <3>1 DEF CallingFor
    <3>3. QED
      BY <1>5, <1>12, <2>1, <2>4, <3>1, <3>2 DEF PlanInv, left
  <2>5. CASE /\ PlansOf(left, key) = {} /\ key \notin mapping
             /\ mapping' = mapping \union {key}
             /\ asker' = [asker EXCEPT ![r] = "calling"] /\ UNCHANGED told
    <3>1. /\ PlanTypes' /\ asker'[r] = "calling"
          /\ \A s \in Askers : s # r => asker'[s] = asker[s]
          /\ \A s \in Askers : asker'[s] = "told" => MapsOwn(wants'[s], told'[s])
      BY <1>10, <2>5
    <3>2. PlansOk(left, mapping')
      BY <2>1, <2>5 DEF PlansOk, PlansOf
    <3>3. \A k : CallingFor(k)' <=> CallingFor(k) \/ k = key
      BY <1>1, <1>5, <3>1 DEF CallingFor
    <3>4. ~CallingFor(key)
      BY <2>5 DEF PlanInv
    <3>5. \A s, t \in Askers :
             asker'[s] = "calling" /\ asker'[t] = "calling" /\ wants'[s] = wants'[t] => s = t
      BY <1>5, <3>1, <3>4 DEF PlanInv, CallingFor
    <3>6. \A k : k \in mapping' <=> CallingFor(k)'
      BY <2>5, <3>3 DEF PlanInv
    <3>7. PlansOk(plans, mapping)'
      BY <1>12, <3>2 DEF left
    <3>8. QED
      BY <3>1, <3>5, <3>6, <3>7 DEF PlanInv
  <2>6. QED
    BY <1>12, <2>2, <2>3, <2>4, <2>5 DEF left
<1>13. QED
  BY <1>4, <1>11, <1>12

LEMMA PlanAnsweredStep ==
    ASSUME PlanInv, NEW r \in Askers, NEW ok \in BOOLEAN, NEW S \in Suggested,
           PlanAnswered(r, ok, S)
    PROVE  PlanInv'
<1> DEFINE key == wants[r]
           maps == Mapped(key) \union IF ok /\ Valid(key, S) THEN S ELSE {}
           due == hour + Lifetime
           new == [key |-> key, until |-> due, maps |-> maps]
<1>1. /\ asker[r] = "calling" /\ mapping' = mapping \ {key}
      /\ plans' = WithinCapacity(Append(plans, new))
      /\ Tell(r, maps) /\ wants' = wants /\ facts' = facts /\ hour' = hour
  BY DEF PlanAnswered
<1>2. /\ asker \in [Askers -> {"idle", "calling", "told", "refused"}]
      /\ wants \in [Askers -> PlanKeys] /\ told \in [Askers -> MapSets]
      /\ facts \in [People -> Answerable] /\ hour \in Nat
  BY DEF PlanInv, PlanTypes
<1>3. key \in PlanKeys /\ due \in Nat
  BY <1>2, PlanLimits
<1>4. MapsOwn(key, maps) /\ maps \in MapSets
  <2>1. CASE ok /\ Valid(key, S)
    BY <1>3, <2>1, SuggestedFact
  <2>2. CASE ~(ok /\ Valid(key, S))
    <3>1. maps = Mapped(key)
      BY <2>2
    <3>2. QED
      BY <1>3, <3>1, MappedFact
  <2>3. QED
    BY <2>1, <2>2
<1> HIDE DEF maps, due, key
<1>5. key \in mapping /\ PlansOk(plans, mapping)
  BY <1>1 DEF PlanInv, CallingFor, key
<1>6. PlansOk(plans', mapping')
  <2>1. new \in PlanRecords /\ new.key = key /\ new.maps = maps
    BY <1>3, <1>4 DEF PlanRecords
  <2> HIDE DEF new
  <2>2. PlansOk(WithinCapacity(Append(plans, new)), mapping \ {key})
    BY <1>4, <1>5, <2>1, AddedFact
  <2>3. QED
    BY <1>1, <2>2
<1>7. /\ PlanTypes' /\ asker'[r] = "told"
      /\ \A s \in Askers : s # r => asker'[s] = asker[s]
      /\ \A s \in Askers : asker'[s] = "told" => MapsOwn(wants'[s], told'[s])
  BY <1>1, <1>2, <1>4, ToldFact DEF key
<1>8. \A k : CallingFor(k)' <=> CallingFor(k) /\ k # key
  BY <1>1, <1>7 DEF PlanInv, CallingFor, key
<1>9. QED
  BY <1>1, <1>6, <1>7, <1>8 DEF PlanInv

LEMMA PlanStepInv == PlanInv /\ [PlanNext]_planVars => PlanInv'
<1> SUFFICES ASSUME PlanInv, [PlanNext]_planVars PROVE PlanInv'
  OBVIOUS
<1>1. /\ asker \in [Askers -> {"idle", "calling", "told", "refused"}]
      /\ wants \in [Askers -> PlanKeys] /\ told \in [Askers -> MapSets]
      /\ facts \in [People -> Answerable] /\ hour \in Nat
  BY DEF PlanInv, PlanTypes
<1>2. PlansOk(plans, mapping)
  BY DEF PlanInv
<1>3. ASSUME NEW r \in Askers, PlanCancelled(r) PROVE PlanInv'
  <2>1. /\ asker[r] = "calling" /\ mapping' = mapping \ {wants[r]}
        /\ asker' = [asker EXCEPT ![r] = "refused"]
        /\ plans' = plans /\ wants' = wants /\ told' = told /\ facts' = facts /\ hour' = hour
    BY <1>3 DEF PlanCancelled
  <2>2. asker'[r] = "refused" /\ \A s \in Askers : s # r => asker'[s] = asker[s]
    BY <1>1, <2>1
  <2>3. PlanTypes'
    BY <1>1, <2>1 DEF PlanTypes
  <2>4. PlansOk(plans, mapping')
    BY <1>2, <2>1 DEF PlansOk
  <2>5. \A k : CallingFor(k)' <=> CallingFor(k) /\ k # wants[r]
    BY <2>1, <2>2 DEF PlanInv, CallingFor
  <2>6. QED
    BY <2>1, <2>2, <2>3, <2>4, <2>5 DEF PlanInv
<1>4. CASE Restart
  <2>1. /\ plans' = <<>> /\ mapping' = {}
        /\ asker' = [r \in Askers |-> IF asker[r] = "calling" THEN "refused" ELSE asker[r]]
        /\ wants' = wants /\ told' = told /\ facts' = facts /\ hour' = hour
    BY <1>4 DEF Restart
  <2>2. \A s \in Askers : asker'[s] # "calling" /\ (asker'[s] = "told" => asker[s] = "told")
    BY <1>1, <2>1
  <2>3. PlanTypes'
    BY <1>1, <2>1 DEF PlanTypes
  <2>4. PlansOk(plans', mapping')
    <3>1. plans' \in Seq(PlanRecords) /\ Len(plans') = 0 /\ DOMAIN plans' = {}
      BY <2>1, EmptySeq
    <3>2. QED
      BY <3>1, PlanLimits DEF PlansOk
  <2>5. \A k : ~CallingFor(k)'
    BY <2>2 DEF CallingFor
  <2>6. QED
    BY <2>1, <2>2, <2>3, <2>4, <2>5 DEF PlanInv
<1>5. ASSUME asker' = asker, wants' = wants, told' = told, plans' = plans, mapping' = mapping,
             facts' \in [People -> Answerable], hour' \in Nat
      PROVE  PlanInv'
  <2>1. PlanTypes' /\ \A k : CallingFor(k)' <=> CallingFor(k)
    BY <1>1, <1>5 DEF PlanTypes, CallingFor
  <2>2. QED
    BY <1>5, <2>1 DEF PlanInv
<1>6. ASSUME NEW o \in People, EditFacts(o) PROVE PlanInv'
  <2>1. /\ facts' \in [People -> Answerable]
        /\ plans' = plans /\ mapping' = mapping /\ asker' = asker /\ wants' = wants
        /\ told' = told /\ hour' = hour
    BY <1>1, <1>6 DEF EditFacts
  <2>2. QED
    BY <1>1, <1>5, <2>1
<1>7. CASE HourPasses
  BY <1>1, <1>5, <1>7 DEF HourPasses
<1>8. CASE UNCHANGED planVars
  BY <1>1, <1>5, <1>8 DEF planVars
<1>9. QED
  BY <1>3, <1>4, <1>6, <1>7, <1>8, AskPlanStep, PlanAnsweredStep DEF PlanNext

LEMMA PlanInvImplies == PlanInv => OneCallPerPlan /\ PlansAreOwn
<1> SUFFICES ASSUME PlanInv PROVE OneCallPerPlan /\ PlansAreOwn
  OBVIOUS
<1>1. mapping = {wants[r] : r \in {r \in Askers : asker[r] = "calling"}}
  BY DEF PlanInv, CallingFor
<1>2. \A key \in mapping : PlansOf(plans, key) = {}
  BY DEF PlanInv, PlansOk, PlansOf
<1>3. OneCallPerPlan
  BY <1>1, <1>2 DEF OneCallPerPlan, PlanInv, PlansOk
<1>4. PlansAreOwn
  BY DEF PlansAreOwn, PlanInv, MapsOwn
<1>5. QED
  BY <1>3, <1>4

-------------------------------------------------------------------------------
(* The answers to questions *)

KnownAs(q) == IF PlanHolds THEN Judgement(q, Selection(LastOf(q))) ELSE "failed"

\* The cache holds the judgement of the plan, the report what that and the saved facts say.
AnswersInv ==
    /\ inquiry \in Inquiries
    /\ stage \in {"asked", "judged", "told"}
    /\ stage # "asked" =>
          /\ \A q : q \in DOMAIN known <=> \E i \in AskedOf : inquiry.form[i] = q
          /\ \A q \in DOMAIN known : known[q].is = KnownAs(q) /\ known[q].of = LastOf(q)
    /\ stage = "told" =>
          /\ DOMAIN given = DOMAIN inquiry.form
          /\ \A i \in DOMAIN given : given[i] = Response(inquiry.form[i])

LEMMA InquiryInitInv == InquiryInit => AnswersInv
BY DEF InquiryInit, AnswersInv

LEMMA SameInquiry ==
    ASSUME inquiry' = inquiry
    PROVE  /\ AskedOf' = AskedOf /\ PlanHolds' = PlanHolds
           /\ \A q : LastOf(q)' = LastOf(q) /\ KnownAs(q)' = KnownAs(q)
<1>1. AskedOf' = AskedOf
  BY DEF AskedOf, Needed, Saved, Values, Holds
<1>2. \A q, s : Judgement(q, s)' = Judgement(q, s)
  BY DEF Judgement, SavedVerdict, Saved, Values, Holds
<1>3. \A q : LastOf(q)' = LastOf(q)
  BY DEF LastOf, AskedOf, Needed, Saved, Values, Holds
<1>4. \A q, key : Saved(q, key)' = Saved(q, key)
  BY DEF Saved, Values, Holds
<1>5. \A i : Selection(i)' = Selection(i)
  BY DEF Selection
<1>6. PlanHolds' = PlanHolds
  BY <1>1, <1>2, <1>4, <1>5 DEF PlanHolds
<1>7. \A q : KnownAs(q)' = KnownAs(q)
  BY <1>2, <1>3, <1>5, <1>6 DEF KnownAs
<1>8. QED
  BY <1>1, <1>3, <1>6, <1>7

LEMMA SameResponse ==
    ASSUME inquiry' = inquiry, known' = known
    PROVE  \A q : Response(q)' = Response(q)
BY DEF Response, SavedAnswer, SavedValue, Saved, Values, Holds, Selection

LEMMA AnswersStepInv == AnswersInv /\ [InquiryNext]_inquiryVars => AnswersInv'
<1> SUFFICES ASSUME AnswersInv, [InquiryNext]_inquiryVars PROVE AnswersInv'
  OBVIOUS
<1>1. inquiry' = inquiry
  BY DEF InquiryNext, Judge, Report, inquiryVars
<1>2. /\ AskedOf' = AskedOf /\ PlanHolds' = PlanHolds
      /\ \A q : LastOf(q)' = LastOf(q) /\ KnownAs(q)' = KnownAs(q)
  BY <1>1, SameInquiry
<1>3. CASE Judge
  <2>1. stage' = "judged"
        /\ known' = [q \in {inquiry.form[i] : i \in AskedOf} |->
                        IF PlanHolds
                        THEN [is |-> Judgement(q, Selection(LastOf(q))), of |-> LastOf(q)]
                        ELSE [is |-> "failed", of |-> LastOf(q)]]
    BY <1>3 DEF Judge
  <2>2. \A q : q \in DOMAIN known' <=> \E i \in AskedOf : inquiry.form[i] = q
    BY <2>1
  <2>3. \A q \in DOMAIN known' : known'[q].is = KnownAs(q) /\ known'[q].of = LastOf(q)
    BY <2>1 DEF KnownAs
  <2>4. QED
    BY <1>1, <1>2, <2>1, <2>2, <2>3 DEF AnswersInv
<1>4. CASE Report
  <2>1. stage = "judged" /\ stage' = "told" /\ known' = known
        /\ given' = [i \in DOMAIN inquiry.form |-> Response(inquiry.form[i])]
    BY <1>4 DEF Report
  <2>2. \A q : Response(q)' = Response(q)
    BY <1>1, <2>1, SameResponse
  <2>3. DOMAIN given' = DOMAIN inquiry'.form
        /\ \A i \in DOMAIN given' : given'[i] = Response(inquiry.form[i])'
    BY <1>1, <2>1, <2>2
  <2>4. QED
    BY <1>1, <1>2, <2>1, <2>3 DEF AnswersInv
<1>5. CASE UNCHANGED inquiryVars
  <2>1. stage' = stage /\ known' = known /\ given' = given
    BY <1>5 DEF inquiryVars
  <2>2. \A q : Response(q)' = Response(q)
    BY <1>1, <2>1, SameResponse
  <2>3. QED
    BY <1>1, <1>2, <2>1, <2>2 DEF AnswersInv
<1>6. QED
  BY <1>3, <1>4, <1>5 DEF InquiryNext

\* What a judgement means.
LEMMA JudgementFact ==
    ASSUME NEW q, NEW s
    PROVE  /\ Judgement(q, s) \in {"invalid", "confirm", "mapped", "truncated", "missing", "answer"}
           /\ Judgement(q, s) = "answer" =>
                 /\ s.disposition \notin {"saved_fact", "missing"}
                 /\ EvidenceVerdict(q, s) = "answer"
           /\ Judgement(q, s) = "missing" => s.disposition = "missing" /\ ~inquiry.truncated
           /\ Judgement(q, s) = "mapped" => s.key \in Facts /\ Saved(q, s.key)
<1>1. SavedVerdict(q, s) \in {"invalid", "confirm", "mapped"}
      /\ (SavedVerdict(q, s) = "mapped" => s.key \in Facts /\ Saved(q, s.key))
  BY DEF SavedVerdict
<1>2. EvidenceVerdict(q, s) \in {"invalid", "confirm", "answer"}
  BY DEF EvidenceVerdict
<1>3. CASE s.disposition = "saved_fact"
  BY <1>1, <1>3 DEF Judgement
<1>4. CASE s.disposition = "missing"
  BY <1>4 DEF Judgement
<1>5. CASE s.disposition \notin {"saved_fact", "missing"}
  BY <1>2, <1>5 DEF Judgement
<1>6. QED
  BY <1>3, <1>4, <1>5

LEMMA EvidenceFact ==
    ASSUME NEW q, NEW s, EvidenceVerdict(q, s) = "answer"
    PROVE  /\ ~Malformed(q, s) /\ ~ToConfirm(q, s)
           /\ Choice(q) => ChoiceVerdict(q, s) # "invalid"
           /\ ~Unframed(q, s) /\ ~Misshapen(q, s) /\ ~(Filled(q, s).size > q.room)
BY DEF EvidenceVerdict

\* A claim that is answered rests on the applicant's passages.
LEMMA SupportedFact ==
    ASSUME NEW q, NEW s, SelectionShape(s), Judgement(q, s) = "answer"
    PROVE  /\ Applicants(s) # {} /\ \A k \in DOMAIN s.excerpts : s.excerpts[k].issued
           /\ FromJob(s) # {} => Specific(q) = {} /\ Rule(q) = "none" /\ q.kind = "text"
           /\ FromJob(s) = {} => ~Unestablished(q, s) /\ s.disposition = "resume_evidence"
           /\ Choice(q) => ChoiceVerdict(q, s) = "answer" /\ s.disposition = "resume_evidence"
<1>1. s.disposition \in {"resume_evidence", "role_connection"} /\ EvidenceVerdict(q, s) = "answer"
  BY JudgementFact DEF SelectionShape, Dispositions
<1>2. /\ ~Malformed(q, s) /\ ~ToConfirm(q, s) /\ ~Unframed(q, s)
      /\ Choice(q) => ChoiceVerdict(q, s) # "invalid"
  BY <1>1, EvidenceFact
<1>3. ChoiceVerdict(q, s) \in {"confirm", "invalid", "answer"}
      /\ (ChoiceVerdict(q, s) = "answer" => Proven(q, s, ChoiceOf(s)))
  BY DEF ChoiceVerdict
<1>4. /\ Applicants(s) # {} /\ \A k \in DOMAIN s.excerpts : s.excerpts[k].issued
      /\ s.disposition = "resume_evidence" => FromJob(s) = {}
  BY <1>2 DEF Malformed
<1>5. CASE s.disposition = "role_connection"
  <2>1. ~Choice(q) /\ Specific(q) = {} /\ Rule(q) = "none"
    BY <1>2, <1>5 DEF ToConfirm
  <2>2. q.kind = "text" /\ FromJob(s) # {}
    BY <1>2, <1>5 DEF Unframed
  <2>3. QED
    BY <1>4, <2>1, <2>2
<1>6. CASE s.disposition = "resume_evidence"
  <2>1. Choice(q) => ChoiceVerdict(q, s) = "answer"
    BY <1>2, <1>3, <1>6 DEF ToConfirm
  <2>2. ~Choice(q) => ~Unestablished(q, s)
    BY <1>2, <1>6 DEF ToConfirm
  <2>3. Choice(q) => ~Unestablished(q, s)
    BY <1>3, <2>1 DEF Proven
  <2>4. QED
    BY <1>4, <1>6, <2>1, <2>2, <2>3
<1>7. QED
  BY <1>1, <1>5, <1>6

LEMMA InquiryHas ==
    ASSUME inquiry \in Inquiries
    PROVE  /\ \A i \in DOMAIN inquiry.form : AnswerField(inquiry.form[i])
           /\ \A key \in DOMAIN inquiry.facts : TextShape(inquiry.facts[key])
           /\ \A i \in DOMAIN inquiry.plan : SelectionShape(Selection(i))
BY InquiryShapes DEF Selection

\* What is told of a question, by what is known of it.
LEMMA ToldOf ==
    ASSUME AnswersInv, stage = "told", NEW i \in DOMAIN inquiry.form
    PROVE  LET q == inquiry.form[i]
               s == Selection(LastOf(q))
               R == given[i]
           IN  /\ R = Response(q) /\ AnswerField(q)
               /\ i \in AskedOf <=> q \in DOMAIN known
               /\ q \in DOMAIN known =>
                     /\ LastOf(q) \in AskedOf /\ inquiry.form[LastOf(q)] = q
                     /\ known[q].is = KnownAs(q) /\ known[q].of = LastOf(q)
                     /\ PlanHolds => SelectionShape(s) /\ known[q].is = Judgement(q, s)
                     /\ ~PlanHolds => known[q].is = "failed"
<1> DEFINE q == inquiry.form[i]
           s == Selection(LastOf(q))
<1>1. given[i] = Response(q)
  BY DEF AnswersInv
<1>2. \A p : p \in DOMAIN known <=> \E j \in AskedOf : inquiry.form[j] = p
  BY DEF AnswersInv
<1>3. i \in AskedOf <=> q \in DOMAIN known
  BY <1>2 DEF AskedOf
<1>4. q \in DOMAIN known => LastOf(q) \in AskedOf /\ inquiry.form[LastOf(q)] = q
  BY <1>2 DEF LastOf
<1>5. q \in DOMAIN known => known[q].is = KnownAs(q) /\ known[q].of = LastOf(q)
  BY DEF AnswersInv
<1>6. PlanHolds => DOMAIN inquiry.plan = AskedOf
  BY DEF PlanHolds
<1>7. inquiry \in Inquiries
  BY DEF AnswersInv
<1>8. AnswerField(q) /\ (LastOf(q) \in DOMAIN inquiry.plan => SelectionShape(s))
  BY <1>7, InquiryHas
<1>9. QED
  BY <1>1, <1>3, <1>4, <1>5, <1>6, <1>8 DEF KnownAs

\* The cases of an answer.
LEMMA ResponseCases ==
    ASSUME NEW q, NEW entry, entry = IF q \in DOMAIN known THEN known[q] ELSE [is |-> "none", of |-> 0]
    PROVE  \/ Protected(q) /\ Response(q) = Omitted("personal")
           \/ ~Protected(q) /\ Rule(q) # "none" /\ Saved(q, Rule(q))
              /\ Response(q) = SavedAnswer(q, Rule(q))
           \/ /\ ~Protected(q) /\ ~(Rule(q) # "none" /\ Saved(q, Rule(q)))
              /\ \/ /\ entry.is = "mapped" /\ Selection(entry.of).key # "none"
                    /\ Saved(q, Selection(entry.of).key)
                    /\ Response(q) = SavedAnswer(q, Selection(entry.of).key)
                 \/ /\ entry.is = "answer"
                    /\ Response(q) = [source |-> "ai_draft", key |-> "none",
                                      value |-> Filled(q, Selection(entry.of)), reason |-> "none"]
                 \/ /\ entry.is = "missing"
                    /\ Response(q) = [source |-> "pending", key |-> "none", value |-> NoText,
                                      reason |-> "none"]
                 \/ entry.is \notin {"none", "mapped", "answer"} /\ Response(q) = Omitted(entry.is)
                 \/ /\ entry.is = "none" \/ /\ entry.is = "mapped"
                                            /\ ~(/\ Selection(entry.of).key # "none"
                                                 /\ Saved(q, Selection(entry.of).key))
                    /\ \E reason : Response(q) = Omitted(reason)
<1> DEFINE key == IF entry.is = "mapped" THEN Selection(entry.of).key ELSE "none"
<1>1. Response(q) =
          IF Protected(q) THEN Omitted("personal")
          ELSE IF Rule(q) # "none" /\ Saved(q, Rule(q)) THEN SavedAnswer(q, Rule(q))
          ELSE IF key # "none" /\ Saved(q, key) THEN SavedAnswer(q, key)
          ELSE IF entry.is = "answer"
          THEN [source |-> "ai_draft", key |-> "none", value |-> Filled(q, Selection(entry.of)),
                reason |-> "none"]
          ELSE IF entry.is = "missing" /\ q.kind = "text" /\ q.room >= PendingSize
          THEN [source |-> "pending", key |-> "none", value |-> NoText, reason |-> "none"]
          ELSE IF entry.is \notin {"none", "mapped"} THEN Omitted(entry.is)
          ELSE Omitted(IF Rule(q) \in Preferences THEN "unsaved_preference" ELSE "not_analysed")
  BY DEF Response
<1>2. CASE Protected(q)
  BY <1>1, <1>2
<1>3. CASE ~Protected(q) /\ Rule(q) # "none" /\ Saved(q, Rule(q))
  BY <1>1, <1>3
<1>4. CASE ~Protected(q) /\ ~(Rule(q) # "none" /\ Saved(q, Rule(q)))
  <2>1. CASE key # "none" /\ Saved(q, key)
    <3>1. entry.is = "mapped" /\ key = Selection(entry.of).key
      BY <2>1
    <3> HIDE DEF key
    <3>2. Response(q) = SavedAnswer(q, key)
      BY <1>1, <1>4, <2>1
    <3>3. QED
      BY <1>4, <2>1, <3>1, <3>2
  <2>2. CASE ~(key # "none" /\ Saved(q, key))
    <3>1. CASE entry.is = "answer"
      BY <1>1, <1>4, <2>2, <3>1
    <3>2. CASE entry.is = "missing" /\ q.kind = "text" /\ q.room >= PendingSize
      BY <1>1, <1>4, <2>2, <3>2
    <3>3. CASE /\ entry.is \notin {"none", "mapped", "answer"}
               /\ ~(entry.is = "missing" /\ q.kind = "text" /\ q.room >= PendingSize)
      BY <1>1, <1>4, <2>2, <3>3
    <3>4. CASE entry.is \in {"none", "mapped"}
      BY <1>1, <1>4, <2>2, <3>4
    <3>5. QED
      BY <3>1, <3>2, <3>3, <3>4
  <2>3. QED
    BY <2>1, <2>2
<1>5. QED
  BY <1>2, <1>3, <1>4

LEMMA SavedFact ==
    ASSUME NEW q, NEW key, Saved(q, key)
    PROVE  LET v == SavedValue(q, key) IN
           /\ v.size <= q.room
           /\ q.kind \in {"number", "date"} => v.shape = q.kind
           /\ q.kind = "select" => \E k \in DOMAIN q.options : q.options[k].value = v
           /\ q.kind = "combobox" =>
                 key \in Searched \/ \E k \in DOMAIN q.options : q.options[k].value = v
<1> DEFINE v == SavedValue(q, key)
           standing == Standing(q, key, inquiry.facts[key])
<1>1. /\ q.kind \in {"date", "number"} => inquiry.facts[key].shape = q.kind
      /\ \E w \in Values(q, key) : w.size <= q.room
  BY DEF Saved
<1>2. v \in Values(q, key) /\ v.size <= q.room
  BY <1>1 DEF SavedValue
<1> HIDE DEF v
<1>3. Values(q, key) =
          IF ~Choice(q) THEN {inquiry.facts[key]}
          ELSE IF standing # {}
          THEN {q.options[k].value : k \in {k \in standing : standing = {k}}}
          ELSE IF q.kind = "combobox" /\ key \in Searched THEN {inquiry.facts[key]} ELSE {}
  BY DEF Values
<1>4. standing \subseteq DOMAIN q.options
  BY DEF Standing
<1> HIDE DEF standing
<1>5. ~Choice(q) => v = inquiry.facts[key]
  BY <1>2, <1>3
<1>6. Choice(q) => \/ \E k \in DOMAIN q.options : q.options[k].value = v
                   \/ q.kind = "combobox" /\ key \in Searched
  BY <1>2, <1>3, <1>4
<1>7. q.kind \in {"number", "date"} => ~Choice(q)
  BY DEF Choice
<1>8. q.kind \in {"select", "combobox"} => Choice(q)
  BY DEF Choice
<1>9. q.kind = "select" => q.kind # "combobox"
  OBVIOUS
<1>10. QED
  BY <1>1, <1>2, <1>5, <1>6, <1>7, <1>8, <1>9 DEF v

LEMMA ChosenFact ==
    ASSUME NEW q, NEW s, AnswerField(q), SelectionShape(s), Choice(q), ChoiceVerdict(q, s) = "answer"
    PROVE  LET c == ChoiceOf(s)
               v == ChosenText(q, c)
           IN  /\ v.size \in Nat
               /\ c.option = "none" => MaySearch(q)
               /\ c.option # "none" =>
                     \E k \in DOMAIN q.options :
                        /\ Chosen(q, c) = {k} /\ q.options[k].value.is = c.option
                        /\ c.option # "blank"
                        /\ v = IF q.kind = "select" THEN q.options[k].value ELSE q.options[k].label
<1> DEFINE c == ChoiceOf(s)
           v == ChosenText(q, c)
<1>1. /\ c.option = "none" => MaySearch(q)
      /\ c.option # "none" => Single(Chosen(q, c))
  BY DEF ChoiceVerdict
<1>2. TextShape(c.cites)
  BY DEF SelectionShape, ChoiceOf, Search
<1> HIDE DEF c
<1>3. ASSUME c.option # "none"
      PROVE  \E k \in DOMAIN q.options :
                /\ Chosen(q, c) = {k} /\ q.options[k].value.is = c.option
                /\ c.option # "blank"
                /\ v = IF q.kind = "select" THEN q.options[k].value ELSE q.options[k].label
  <2>1. PICK k \in Chosen(q, c) : Chosen(q, c) = {k}
    BY <1>1, <1>3 DEF Single
  <2>2. k \in DOMAIN q.options /\ q.options[k].value.is = c.option /\ c.option # "blank"
    BY <2>1 DEF Chosen
  <2>3. (CHOOSE l \in Chosen(q, c) : TRUE) = k
    BY <2>1
  <2>4. v = IF q.kind = "select" THEN q.options[k].value ELSE q.options[k].label
    BY <1>3, <2>3 DEF ChosenText
  <2>5. QED
    BY <2>1, <2>2, <2>4
<1>4. v.size \in Nat
  <2>1. CASE c.option = "none"
    BY <1>2, <2>1 DEF ChosenText, TextShape
  <2>2. CASE c.option # "none"
    <3>1. PICK k \in DOMAIN q.options :
             v = IF q.kind = "select" THEN q.options[k].value ELSE q.options[k].label
      BY <1>3, <2>2
    <3>2. TextShape(q.options[k].value) /\ TextShape(q.options[k].label)
      BY DEF AnswerField
    <3>3. QED
      BY <3>1, <3>2 DEF TextShape
  <2>3. QED
    BY <2>1, <2>2
<1>5. QED
  BY <1>1, <1>3, <1>4 DEF c

\* What is drafted is something that the control takes.
LEMMA FilledFact ==
    ASSUME NEW q, NEW s, AnswerField(q), SelectionShape(s), Judgement(q, s) = "answer"
    PROVE  LET v == Filled(q, s) IN
           /\ v.size <= q.room
           /\ q.kind \in {"number", "date"} => v.shape = q.kind
           /\ q.kind = "select" =>
                 LET valued == {k \in DOMAIN q.options : q.options[k].value = v}
                 IN  valued # {} /\ Single(valued)
           /\ q.kind = "combobox" =>
                 MaySearch(q) \/ \E k \in DOMAIN q.options : v = q.options[k].label
<1> DEFINE v == Filled(q, s)
           c == ChoiceOf(s)
<1>1. EvidenceVerdict(q, s) = "answer"
  BY JudgementFact
<1>2. ~Unframed(q, s) /\ ~Misshapen(q, s) /\ ~(v.size > q.room)
  BY <1>1, EvidenceFact
<1>3. q.room \in Nat
  BY DEF AnswerField
<1>4. CASE Choice(q)
  <2>1. ChoiceVerdict(q, s) = "answer"
    BY <1>4, SupportedFact
  <2>2. v = ChosenText(q, c)
    BY <1>4 DEF Filled
  <2> HIDE DEF v, c
  <2>3. /\ v.size \in Nat
        /\ c.option = "none" => MaySearch(q)
        /\ c.option # "none" =>
              \E k \in DOMAIN q.options :
                 /\ Chosen(q, c) = {k} /\ q.options[k].value.is = c.option /\ c.option # "blank"
                 /\ v = IF q.kind = "select" THEN q.options[k].value ELSE q.options[k].label
    BY <1>4, <2>1, <2>2, ChosenFact DEF c
  <2>4. v.size <= q.room
    BY <1>2, <1>3, <2>3
  <2>5. ASSUME q.kind = "select"
        PROVE  LET valued == {k \in DOMAIN q.options : q.options[k].value = v}
               IN  valued # {} /\ Single(valued)
    <3>1. c.option # "none"
      BY <2>3, <2>5 DEF MaySearch
    <3>2. PICK k \in DOMAIN q.options :
             Chosen(q, c) = {k} /\ q.options[k].value.is = c.option /\ c.option # "blank"
             /\ v = q.options[k].value
      BY <2>3, <2>5, <3>1
    <3>3. \A l \in DOMAIN q.options : q.options[l].value = v => l \in Chosen(q, c)
      BY <3>2 DEF Chosen
    <3>4. {l \in DOMAIN q.options : q.options[l].value = v} = {k}
      BY <3>2, <3>3
    <3>5. QED
      BY <3>4 DEF Single
  <2>6. q.kind = "combobox" => MaySearch(q) \/ \E k \in DOMAIN q.options : v = q.options[k].label
    BY <2>3
  <2>7. q.kind \notin {"number", "date"}
    BY <1>4 DEF Choice
  <2>8. QED
    BY <2>4, <2>5, <2>6, <2>7 DEF v
<1>5. CASE ~Choice(q)
  <2>1. q.kind \notin {"select", "combobox"}
    BY <1>5 DEF Choice
  <2>2. /\ s.text = [is |-> s.text.is, shape |-> s.text.shape, size |-> s.text.size,
                     month |-> s.text.month, name |-> s.text.name, tail |-> s.text.tail,
                     degree |-> s.text.degree]
        /\ s.text.size \in Nat
    BY DEF SelectionShape, TextShape
  <2>3. Joined(s).size \in Nat /\ Joined(s).shape = s.text.shape
        /\ Joined(s) = [is |-> s.text.is, shape |-> s.text.shape, size |-> Joined(s).size,
                        month |-> s.text.month, name |-> s.text.name, tail |-> s.text.tail,
                        degree |-> s.text.degree]
    <3> DEFINE n == s.text.size + Framing
    <3>1. n \in Nat
      BY <2>2 DEF Framing
    <3>2. Joined(s) = IF s.disposition = "role_connection" THEN [s.text EXCEPT !.size = n]
                      ELSE s.text
      BY DEF Joined
    <3> HIDE DEF n
    <3>3. CASE s.disposition = "role_connection"
      <4>1. Joined(s) = [is |-> s.text.is, shape |-> s.text.shape, size |-> n,
                         month |-> s.text.month, name |-> s.text.name, tail |-> s.text.tail,
                         degree |-> s.text.degree]
        BY <2>2, <3>2, <3>3
      <4>2. QED
        BY <3>1, <4>1
    <3>4. CASE s.disposition # "role_connection"
      BY <2>2, <3>2, <3>4
    <3>5. QED
      BY <3>3, <3>4
  <2>4. Linked(s).size \in Nat /\ Linked(s).shape = s.text.shape
    <3> DEFINE j == Joined(s)
               n == j.size + Scheme
    <3>1. n \in Nat
      BY <2>3 DEF Scheme
    <3>2. Linked(s) = IF s.bare THEN [j EXCEPT !.size = n] ELSE j
      BY DEF Linked
    <3> HIDE DEF n
    <3>3. CASE s.bare
      <4>1. Linked(s) = [is |-> s.text.is, shape |-> s.text.shape, size |-> n,
                         month |-> s.text.month, name |-> s.text.name, tail |-> s.text.tail,
                         degree |-> s.text.degree]
        BY <2>3, <3>2, <3>3
      <4>2. QED
        BY <3>1, <4>1
    <3>4. CASE ~s.bare
      BY <2>3, <3>2, <3>4
    <3>5. QED
      BY <3>3, <3>4
  <2>5. v.size \in Nat /\ v.shape = s.text.shape
    BY <1>5, <2>3, <2>4 DEF Filled
  <2> HIDE DEF v
  <2>6. q.kind \in {"number", "date"} => s.text.shape = q.kind
    BY <1>2 DEF Misshapen
  <2>7. v.size <= q.room
    BY <1>2, <1>3, <2>5
  <2>8. QED
    BY <2>1, <2>5, <2>6, <2>7 DEF v
<1>6. QED
  BY <1>4, <1>5

\* What a draft, a pending answer and a saved one come from.
LEMMA SourceFact ==
    ASSUME AnswersInv, stage = "told", NEW i \in DOMAIN inquiry.form
    PROVE  LET q == inquiry.form[i]
               s == Selection(LastOf(q))
           IN  /\ given[i].source = "ai_draft" =>
                     /\ i \in AskedOf /\ PlanHolds /\ SelectionShape(s)
                     /\ Judgement(q, s) = "answer" /\ given[i].value = Filled(q, s)
               /\ given[i].source = "pending" =>
                     PlanHolds /\ ~inquiry.truncated /\ s.disposition = "missing"
               /\ given[i].source = "saved" =>
                     \E key : Saved(q, key) /\ given[i] = SavedAnswer(q, key)
               /\ given[i].source \in {"ai_draft", "pending", "saved", "omitted"}
               /\ given[i].source \in {"ai_draft", "pending"} => q \in DOMAIN known
<1> DEFINE q == inquiry.form[i]
           s == Selection(LastOf(q))
           entry == IF q \in DOMAIN known THEN known[q] ELSE [is |-> "none", of |-> 0]
           R == given[i]
<1>1. /\ R = Response(q) /\ AnswerField(q)
      /\ i \in AskedOf <=> q \in DOMAIN known
      /\ q \in DOMAIN known =>
            /\ known[q].is = KnownAs(q) /\ known[q].of = LastOf(q)
            /\ PlanHolds => SelectionShape(s) /\ known[q].is = Judgement(q, s)
            /\ ~PlanHolds => known[q].is = "failed"
  BY ToldOf
<1>2. \/ \E reason : R = Omitted(reason)
      \/ \E key : Saved(q, key) /\ R = SavedAnswer(q, key)
      \/ /\ entry.is = "answer"
         /\ R = [source |-> "ai_draft", key |-> "none", value |-> Filled(q, Selection(entry.of)),
                 reason |-> "none"]
      \/ /\ entry.is = "missing"
         /\ R = [source |-> "pending", key |-> "none", value |-> NoText, reason |-> "none"]
  <2> HIDE DEF q, R
  <2>1. QED
    BY <1>1, ResponseCases
<1>3. entry.is # "none" => q \in DOMAIN known /\ entry.is = known[q].is /\ entry.of = LastOf(q)
  BY <1>1
<1>4. CASE \E reason : R = Omitted(reason)
  <2>1. R.source = "omitted"
    BY <1>4 DEF Omitted
  <2>2. QED
    BY <2>1
<1>5. CASE \E key : Saved(q, key) /\ R = SavedAnswer(q, key)
  <2>1. R.source = "saved"
    BY <1>5 DEF SavedAnswer
  <2>2. QED
    BY <1>5, <2>1
<1>6. CASE /\ entry.is = "answer"
           /\ R = [source |-> "ai_draft", key |-> "none", value |-> Filled(q, Selection(entry.of)),
                   reason |-> "none"]
  <2>1. R.source = "ai_draft" /\ R.value = Filled(q, s) /\ q \in DOMAIN known
    BY <1>3, <1>6
  <2>2. PlanHolds /\ Judgement(q, s) = "answer" /\ SelectionShape(s) /\ i \in AskedOf
    BY <1>1, <1>3, <1>6
  <2>3. QED
    BY <2>1, <2>2
<1>7. CASE /\ entry.is = "missing"
           /\ R = [source |-> "pending", key |-> "none", value |-> NoText, reason |-> "none"]
  <2>1. R.source = "pending" /\ q \in DOMAIN known
    BY <1>3, <1>7
  <2>2. PlanHolds /\ Judgement(q, s) = "missing"
    BY <1>1, <1>3, <1>7
  <2>3. QED
    BY <2>1, <2>2, JudgementFact
<1>8. QED
  BY <1>2, <1>4, <1>5, <1>6, <1>7

LEMMA PriorityOfUser == AnswersInv => UserComesFirst
<1> SUFFICES ASSUME AnswersInv, stage = "told", NEW i \in DOMAIN inquiry.form
             PROVE  LET q == inquiry.form[i]
                    IN  /\ Protected(q) => given[i].source = "omitted" /\ i \notin AskedOf
                        /\ ~Protected(q) /\ Rule(q) # "none" /\ Saved(q, Rule(q)) =>
                              given[i] = SavedAnswer(q, Rule(q))
                        /\ Rule(q) \in Preferences => given[i].source \in {"saved", "omitted"}
  BY DEF UserComesFirst
<1> DEFINE q == inquiry.form[i]
           R == given[i]
<1>1. R = Response(q) /\ (i \in AskedOf <=> q \in DOMAIN known)
  BY ToldOf
<1>2. i \in AskedOf <=> Needed(q)
  BY DEF AskedOf
<1>3. Protected(q) => R = Omitted("personal") /\ i \notin AskedOf
  BY <1>1, <1>2, ResponseCases DEF Needed
<1>4. ~Protected(q) /\ Rule(q) # "none" /\ Saved(q, Rule(q)) => R = SavedAnswer(q, Rule(q))
  BY <1>1, ResponseCases
<1>5. Rule(q) \in Preferences => q \notin DOMAIN known
  BY <1>1, <1>2 DEF Needed
<1>6. Rule(q) \in Preferences => R.source \in {"saved", "omitted"}
  BY <1>5, SourceFact
<1>7. R = Omitted("personal") => R.source = "omitted"
  BY DEF Omitted
<1>8. QED
  BY <1>3, <1>4, <1>6, <1>7

LEMMA AskedFact == AnswersInv => AskedIsSettled
<1> SUFFICES ASSUME AnswersInv, stage = "told", NEW i \in AskedOf
             PROVE  LET q == inquiry.form[i]
                    IN  /\ q \in DOMAIN known /\ given[i].reason # "not_analysed"
                        /\ PlanHolds /\ Judgement(q, Selection(LastOf(q))) = "answer" =>
                              given[i].source = "ai_draft"
  BY DEF AskedIsSettled
<1> DEFINE q == inquiry.form[i]
           s == Selection(LastOf(q))
           entry == IF q \in DOMAIN known THEN known[q] ELSE [is |-> "none", of |-> 0]
           R == given[i]
<1>1. i \in DOMAIN inquiry.form /\ Needed(q)
  BY DEF AskedOf
<1>2. /\ R = Response(q) /\ q \in DOMAIN known
      /\ known[q].is = KnownAs(q) /\ known[q].of = LastOf(q)
      /\ PlanHolds => known[q].is = Judgement(q, s)
      /\ ~PlanHolds => known[q].is = "failed"
  BY <1>1, ToldOf
<1>3. entry.is = known[q].is /\ entry.of = LastOf(q)
  BY <1>2
<1>4. ~Protected(q) /\ ~(Rule(q) # "none" /\ Saved(q, Rule(q)))
  BY <1>1 DEF Needed
<1>5. entry.is \in {"invalid", "confirm", "mapped", "truncated", "missing", "answer", "failed"}
      /\ (entry.is = "mapped" => s.key \in Facts /\ Saved(q, s.key))
  BY <1>2, <1>3, JudgementFact
<1>6. "none" \notin Facts
  BY DEF Facts, Dates, Endpoints, Residence, Preferences
<1>7. entry.is = "mapped" => Selection(entry.of).key # "none" /\ Saved(q, Selection(entry.of).key)
  BY <1>3, <1>5, <1>6
<1>8. \/ \E key : R = SavedAnswer(q, key) /\ entry.is = "mapped"
      \/ /\ entry.is = "answer"
         /\ R = [source |-> "ai_draft", key |-> "none", value |-> Filled(q, Selection(entry.of)),
                 reason |-> "none"]
      \/ /\ entry.is = "missing"
         /\ R = [source |-> "pending", key |-> "none", value |-> NoText, reason |-> "none"]
      \/ R = Omitted(entry.is) /\ entry.is # "answer"
  <2> HIDE DEF q, R
  <2>1. entry.is # "none"
    BY <1>5
  <2>2. QED
    BY <1>2, <1>4, <1>7, <2>1, ResponseCases
<1> HIDE DEF entry, R
<1>9. R.reason # "not_analysed"
  <2>1. \A key : SavedAnswer(q, key).reason = "none"
    BY DEF SavedAnswer
  <2>2. Omitted(entry.is).reason = entry.is
    BY DEF Omitted
  <2>3. QED
    BY <1>5, <1>8, <2>1, <2>2
<1>10. entry.is = "answer" => R.source = "ai_draft"
  BY <1>8
<1>11. QED
  BY <1>2, <1>3, <1>9, <1>10 DEF R

LEMMA AnswersInvImplies ==
    AnswersInv => /\ DraftsAreSupported /\ AnswersFit /\ MissingIsMissing
                  /\ UserComesFirst /\ AskedIsSettled
<1> SUFFICES ASSUME AnswersInv
             PROVE  DraftsAreSupported /\ AnswersFit /\ MissingIsMissing
  BY PriorityOfUser, AskedFact
<1>1. DraftsAreSupported
  <2> SUFFICES ASSUME NEW i \in DOMAIN inquiry.form, Told(i, {"ai_draft"})
               PROVE  LET q == inquiry.form[i]
                          s == Selection(LastOf(q))
                      IN  /\ i \in AskedOf /\ inquiry.answered
                          /\ \A j \in AskedOf : Judgement(inquiry.form[j], Selection(j)) # "invalid"
                          /\ Applicants(s) # {} /\ \A k \in DOMAIN s.excerpts : s.excerpts[k].issued
                          /\ FromJob(s) # {} => Specific(q) = {} /\ Rule(q) = "none"
                                                /\ q.kind = "text"
                          /\ FromJob(s) = {} => ~Unestablished(q, s)
    BY DEF DraftsAreSupported
  <2> DEFINE q == inquiry.form[i]
             s == Selection(LastOf(q))
  <2>1. stage = "told" /\ given[i].source = "ai_draft"
    BY DEF Told
  <2>2. i \in AskedOf /\ PlanHolds /\ SelectionShape(s) /\ Judgement(q, s) = "answer"
    BY <2>1, SourceFact
  <2>3. inquiry.answered /\ \A j \in AskedOf : Judgement(inquiry.form[j], Selection(j)) # "invalid"
    BY <2>2 DEF PlanHolds
  <2> HIDE DEF q, s
  <2>4. /\ Applicants(s) # {} /\ \A k \in DOMAIN s.excerpts : s.excerpts[k].issued
        /\ FromJob(s) # {} => Specific(q) = {} /\ Rule(q) = "none" /\ q.kind = "text"
        /\ FromJob(s) = {} => ~Unestablished(q, s)
    BY <2>2, SupportedFact
  <2>5. QED
    BY <2>2, <2>3, <2>4 DEF q, s
<1>2. AnswersFit
  <2> DEFINE Fits(i) ==
          LET q == inquiry.form[i]
              v == given[i].value
          IN  /\ v.size <= q.room
              /\ q.kind \in {"number", "date"} => v.shape = q.kind
              /\ q.kind = "select" =>
                    LET valued == {k \in DOMAIN q.options : q.options[k].value = v}
                    IN  valued # {} /\ (given[i].source = "ai_draft" => Single(valued))
              /\ q.kind = "combobox" =>
                    \/ \E k \in DOMAIN q.options : v \in {q.options[k].value, q.options[k].label}
                    \/ MaySearch(q) \/ given[i].key \in Searched
  <2> SUFFICES ASSUME NEW i \in DOMAIN inquiry.form, Told(i, {"saved", "ai_draft"})
               PROVE  Fits(i)
    BY DEF AnswersFit
  <2> DEFINE q == inquiry.form[i]
             s == Selection(LastOf(q))
             v == given[i].value
  <2>1. stage = "told" /\ given[i].source \in {"saved", "ai_draft"}
    BY DEF Told
  <2>2. CASE given[i].source = "saved"
    <3>1. PICK key : Saved(q, key) /\ given[i] = SavedAnswer(q, key)
      BY <2>1, <2>2, SourceFact
    <3>2. v = SavedValue(q, key) /\ given[i].key = key
      BY <3>1 DEF SavedAnswer
    <3>3. /\ v.size <= q.room
          /\ q.kind \in {"number", "date"} => v.shape = q.kind
          /\ q.kind = "select" => \E k \in DOMAIN q.options : q.options[k].value = v
          /\ q.kind = "combobox" =>
                key \in Searched \/ \E k \in DOMAIN q.options : q.options[k].value = v
      BY <3>1, <3>2, SavedFact
    <3>4. QED
      BY <2>2, <3>2, <3>3
  <2>3. CASE given[i].source = "ai_draft"
    <3> DEFINE valued == {k \in DOMAIN q.options : q.options[k].value = v}
    <3>1. SelectionShape(s) /\ Judgement(q, s) = "answer" /\ v = Filled(q, s)
      BY <2>1, <2>3, SourceFact
    <3>2. AnswerField(q)
      BY <2>1, ToldOf
    <3>3. /\ v.size <= q.room
          /\ q.kind \in {"number", "date"} => v.shape = q.kind
          /\ q.kind = "select" => valued # {} /\ Single(valued)
          /\ q.kind = "combobox" =>
                MaySearch(q) \/ \E k \in DOMAIN q.options : v = q.options[k].label
      <4> HIDE DEF q, s, v
      <4>1. QED
        BY <3>1, <3>2, FilledFact
    <3>4. QED
      BY <3>3
  <2>4. QED
    BY <2>1, <2>2, <2>3
<1>3. MissingIsMissing
  BY SourceFact DEF MissingIsMissing, Told
<1>4. QED
  BY <1>1, <1>2, <1>3

-------------------------------------------------------------------------------
(* The drafts of a warm-up *)

\* A set of naturals has a least element.
LEMMA LeastFact ==
    ASSUME NEW T \in SUBSET Nat, T # {}
    PROVE  \E i \in T : \A j \in T : i <= j
<1> SUFFICES ASSUME \A i \in T : \E j \in T : j < i
             PROVE  FALSE
  OBVIOUS
<1> DEFINE S == {n \in Nat : \A j \in T : n <= j}
<1>1. 0 \in S
  OBVIOUS
<1>2. ASSUME NEW n \in S PROVE n + 1 \in S
  <2>1. n \notin T /\ n \in Nat /\ \A j \in T : n <= j
    OBVIOUS
  <2>2. QED
    BY <2>1
<1>3. S \in SUBSET Nat
  OBVIOUS
<1>4. \A n \in S : n + 1 \in S
  BY <1>2
<1> HIDE DEF S
<1>5. S = Nat
  BY <1>1, <1>3, <1>4, Induct
<1>6. PICK t \in T : t \in Nat
  OBVIOUS
<1>7. t + 1 \in Nat
  BY <1>6
<1>8. t + 1 \in S
  BY <1>5, <1>7
<1>9. t + 1 <= t
  BY <1>8 DEF S
<1>10. QED
  BY <1>6, <1>9

\* Of some positions one has the least size, and is the first that has it.
LEMMA SmallestFact ==
    ASSUME NEW n \in Nat, NEW S \in SUBSET (1..n), S # {}, NEW size \in [1..n -> Nat]
    PROVE  /\ \E i \in S : \A j \in S : i <= j
           /\ \E i \in S : \A j \in S : size[i] < size[j] \/ (size[i] = size[j] /\ i <= j)
<1>1. S \in SUBSET Nat /\ \A i \in S : i \in Nat /\ size[i] \in Nat
  OBVIOUS
<1> DEFINE T == {size[i] : i \in S}
<1>2. T \in SUBSET Nat /\ T # {}
  BY <1>1
<1>3. PICK v \in T : \A w \in T : v <= w
  BY <1>2, LeastFact
<1> DEFINE U == {i \in S : size[i] = v}
<1>4. U \in SUBSET Nat /\ U # {}
  BY <1>1, <1>3
<1>5. PICK i \in U : \A j \in U : i <= j
  BY <1>4, LeastFact
<1>6. \A j \in S : size[i] < size[j] \/ (size[i] = size[j] /\ i <= j)
  <2>1. \A j \in S : v <= size[j] /\ size[j] \in Nat /\ v \in Nat
    BY <1>1, <1>2, <1>3
  <2>2. QED
    BY <1>5, <2>1
<1>7. QED
  BY <1>1, <1>5, <1>6, LeastFact

LEMMA WarmingFact ==
    ASSUME Warming(warming)
    PROVE  /\ Len(warming.profile) \in Nat /\ DOMAIN warming.profile = 1..Len(warming.profile)
           /\ Len(warming.jobs) \in Nat /\ DOMAIN warming.jobs = 1..Len(warming.jobs)
           /\ warming.jobs # <<>> => DOMAIN warming.jobs # {}
           /\ \A i \in DOMAIN warming.profile : SizeAt(i) \in Nat /\ SizeAt(i) <= 650
           /\ \A i \in DOMAIN warming.jobs : JobSize(i) \in Nat
           /\ \A i \in DOMAIN warming.profile :
                 warming.profile[i].field = "experience" => warming.profile[i].performed
<1> DEFINE A == 2..650
           B == 2..300
           P == [field : {"education", "experience", "skills", "resume_summary"},
                 size : A, performed : BOOLEAN]
           p == warming.profile
           j == warming.jobs
<1>1. p \in Seq(P) /\ j \in Seq(B)
      /\ \A i \in DOMAIN p : p[i].field = "experience" => p[i].performed
  BY DEF Warming
<1>2. \A a \in A : a \in Nat /\ a <= 650
  OBVIOUS
<1>3. \A b \in B : b \in Nat
  OBVIOUS
<1> HIDE DEF A, B
<1>4. \A e \in P : e.size \in A
  OBVIOUS
<1> HIDE DEF P, p, j
<1>5. /\ Len(p) \in Nat /\ DOMAIN p = 1..Len(p) /\ \A i \in 1..Len(p) : p[i] \in P
      /\ Len(j) \in Nat /\ DOMAIN j = 1..Len(j) /\ \A i \in 1..Len(j) : j[i] \in B
  BY <1>1, LenProperties, ElementOfSeq
<1>6. \A i \in DOMAIN p : p[i].size \in Nat /\ p[i].size <= 650
  BY <1>2, <1>4, <1>5
<1>7. \A i \in DOMAIN j : j[i] \in Nat
  BY <1>3, <1>5
<1>8. j # <<>> => DOMAIN j # {}
  BY <1>1, <1>5, EmptySeq
<1>9. QED
  BY <1>1, <1>5, <1>6, <1>7, <1>8 DEF p, j, SizeAt, JobSize

\* A set of passages holds the one that is better than the others.
LEMMA LeadingFact ==
    ASSUME Warming(warming), NEW k, Eligible(k) # {}
    PROVE  /\ Leading(k) \in Eligible(k)
           /\ k # "intro" /\ (\E i \in Eligible(k) : warming.profile[i].field = "experience") =>
                 warming.profile[Leading(k)].field = "experience"
<1> DEFINE n == Len(warming.profile)
           size == [i \in 1..n |-> SizeAt(i)]
           active == {i \in Eligible(k) : warming.profile[i].field = "experience"}
           S == IF k # "intro" /\ active # {} THEN active ELSE Eligible(k)
           handy == {i \in S : Handy(size[i])}
<1>1. n \in Nat /\ DOMAIN warming.profile = 1..n
  BY WarmingFact
<1>2. \A i \in 1..n : SizeAt(i) \in Nat
  BY <1>1, WarmingFact
<1>3. Eligible(k) \in SUBSET (1..n)
  BY <1>1 DEF Eligible
<1> HIDE DEF n
<1>4. size \in [1..n -> Nat]
  BY <1>2
<1>5. S \in SUBSET (1..n) /\ S # {} /\ S \subseteq Eligible(k)
  BY <1>3
<1>6. handy \in SUBSET (1..n) /\ handy \subseteq S
  BY <1>5
<1> HIDE DEF size, S
<1>7. Leading(k) = Better(S, size)
  BY <1>1 DEF Leading, S, size
<1>8. Better(S, size) =
          IF handy # {} THEN CHOOSE i \in handy : \A j \in handy : i <= j
          ELSE CHOOSE i \in S : \A j \in S : size[i] < size[j] \/ (size[i] = size[j] /\ i <= j)
  BY DEF Better
<1> HIDE DEF handy
<1>9. handy # {} => \E i \in handy : \A j \in handy : i <= j
  BY <1>1, <1>4, <1>5, <1>6, SmallestFact
<1>10. \E i \in S : \A j \in S : size[i] < size[j] \/ (size[i] = size[j] /\ i <= j)
  BY <1>1, <1>4, <1>5, SmallestFact
<1>11. Leading(k) \in S
  BY <1>6, <1>7, <1>8, <1>9, <1>10
<1>12. QED
  BY <1>5, <1>11 DEF S

LEMMA AdvertisedFact ==
    ASSUME Warming(warming), warming.jobs # <<>>
    PROVE  Advertised \in DOMAIN warming.jobs
<1> DEFINE n == Len(warming.jobs)
           S == DOMAIN warming.jobs
           size == [i \in 1..n |-> JobSize(i)]
           handy == {i \in S : Handy(size[i])}
<1>1. n \in Nat /\ S = 1..n /\ S # {}
  BY WarmingFact
<1>2. \A i \in 1..n : JobSize(i) \in Nat
  BY <1>1, WarmingFact
<1> HIDE DEF n, S
<1>3. size \in [1..n -> Nat]
  BY <1>2
<1> HIDE DEF size
<1>4. Advertised = Better(S, size)
  BY <1>1 DEF Advertised, S, size
<1>5. Better(S, size) =
          IF handy # {} THEN CHOOSE i \in handy : \A j \in handy : i <= j
          ELSE CHOOSE i \in S : \A j \in S : size[i] < size[j] \/ (size[i] = size[j] /\ i <= j)
  BY DEF Better
<1>6. handy \in SUBSET (1..n) /\ handy \subseteq S
  BY <1>1
<1> HIDE DEF handy
<1>7. handy # {} => \E i \in handy : \A j \in handy : i <= j
  BY <1>1, <1>3, <1>6, SmallestFact
<1>8. \E i \in S : \A j \in S : size[i] < size[j] \/ (size[i] = size[j] /\ i <= j)
  BY <1>1, <1>3, SmallestFact
<1>9. QED
  BY <1>4, <1>5, <1>6, <1>7, <1>8 DEF S

\* What is kept of a selection: within the budget, and with its first passages.
PassagesKept(s, d) ==
    /\ s = [profile |-> s.profile, jobs |-> s.jobs, size |-> s.size]
    /\ s.size \in Nat /\ s.size <= MaxSelected
    /\ s.profile \subseteq {d.profile[m] : m \in DOMAIN d.profile} /\ d.profile[1] \in s.profile
    /\ d.jobs = <<>> => s.jobs = {}
    /\ d.jobs # <<>> => d.jobs[1] \in s.jobs

OffersPassages(d) ==
    /\ d.profile \in Seq(Nat) /\ Len(d.profile) \in 1..3
    /\ d.jobs \in Seq(Nat) /\ Len(d.jobs) \in 0..2
    /\ \A m \in DOMAIN d.profile : d.profile[m] \in DOMAIN warming.profile
    /\ \A m \in DOMAIN d.jobs : d.jobs[m] \in DOMAIN warming.jobs

LEMMA SelectedFact ==
    ASSUME Warming(warming), NEW d, OffersPassages(d), FirstKept(d).size <= MaxSelected
    PROVE  PassagesKept(Selected(d), d)
<1>1. PassagesKept(FirstKept(d), d)
  <2> DEFINE a == SizeAt(d.profile[1])
             b == a + 1 + JobSize(d.jobs[1])
  <2>1. 1 \in DOMAIN d.profile /\ (d.jobs # <<>> => 1 \in DOMAIN d.jobs)
    BY DEF OffersPassages
  <2>2. a \in Nat /\ (d.jobs # <<>> => b \in Nat)
    <3>1. a \in Nat
      BY <2>1, WarmingFact DEF OffersPassages
    <3>2. d.jobs # <<>> => JobSize(d.jobs[1]) \in Nat
      BY <2>1, WarmingFact DEF OffersPassages
    <3> HIDE DEF a
    <3>3. QED
      BY <3>1, <3>2
  <2>3. FirstKept(d) = IF d.jobs = <<>> THEN [profile |-> {d.profile[1]}, jobs |-> {}, size |-> a]
                       ELSE [profile |-> {d.profile[1]}, jobs |-> {d.jobs[1]}, size |-> b]
    BY DEF FirstKept
  <2> HIDE DEF a, b
  <2>4. CASE d.jobs = <<>>
    <3>1. FirstKept(d) = [profile |-> {d.profile[1]}, jobs |-> {}, size |-> a]
      BY <2>3, <2>4
    <3>2. QED
      BY <2>1, <2>2, <2>4, <3>1 DEF PassagesKept
  <2>5. CASE d.jobs # <<>>
    <3>1. FirstKept(d) = [profile |-> {d.profile[1]}, jobs |-> {d.jobs[1]}, size |-> b]
      BY <2>3, <2>5
    <3>2. QED
      BY <2>1, <2>2, <2>5, <3>1 DEF PassagesKept
  <2>6. QED
    BY <2>4, <2>5
<1>2. ASSUME NEW s, PassagesKept(s, d), NEW n \in {2, 3}
      PROVE  PassagesKept(WithProfile(s, d, n), d)
  <2>1. CASE n <= Len(d.profile) /\ s.size + 1 + SizeAt(d.profile[n]) <= MaxSelected
    <3> DEFINE e == d.profile[n]
               t == s.size + 1 + SizeAt(e)
    <3>1. n \in DOMAIN d.profile /\ SizeAt(e) \in Nat
      BY <2>1, WarmingFact DEF OffersPassages
    <3>2. t \in Nat /\ t <= MaxSelected
      BY <1>2, <2>1, <3>1 DEF PassagesKept
    <3>3. WithProfile(s, d, n) =
              [profile |-> s.profile \union {e}, jobs |-> s.jobs, size |-> t]
      <4>1. WithProfile(s, d, n) = [s EXCEPT !.profile = @ \union {e}, !.size = @ + 1 + SizeAt(e)]
        BY <2>1 DEF WithProfile
      <4>2. s = [profile |-> s.profile, jobs |-> s.jobs, size |-> s.size]
        BY <1>2 DEF PassagesKept
      <4>3. QED
        BY <4>1, <4>2
    <3> HIDE DEF t
    <3>4. QED
      BY <1>2, <3>1, <3>2, <3>3 DEF PassagesKept
  <2>2. CASE ~(n <= Len(d.profile) /\ s.size + 1 + SizeAt(d.profile[n]) <= MaxSelected)
    BY <1>2, <2>2 DEF WithProfile
  <2>3. QED
    BY <2>1, <2>2
<1>3. ASSUME NEW s, PassagesKept(s, d)
      PROVE  PassagesKept(WithJob(s, d), d)
  <2>1. CASE Len(d.jobs) = 2 /\ s.size + 1 + JobSize(d.jobs[2]) <= MaxSelected
    <3> DEFINE e == d.jobs[2]
               t == s.size + 1 + JobSize(e)
    <3>1. 2 \in DOMAIN d.jobs /\ JobSize(e) \in Nat /\ d.jobs # <<>>
      BY <2>1, WarmingFact DEF OffersPassages
    <3>2. t \in Nat /\ t <= MaxSelected
      BY <1>3, <2>1, <3>1 DEF PassagesKept
    <3>3. WithJob(s, d) = [profile |-> s.profile, jobs |-> s.jobs \union {e}, size |-> t]
      <4>1. WithJob(s, d) = [s EXCEPT !.jobs = @ \union {e}, !.size = @ + 1 + JobSize(e)]
        BY <2>1 DEF WithJob
      <4>2. s = [profile |-> s.profile, jobs |-> s.jobs, size |-> s.size]
        BY <1>3 DEF PassagesKept
      <4>3. QED
        BY <4>1, <4>2
    <3> HIDE DEF t
    <3>4. QED
      BY <1>3, <3>1, <3>2, <3>3 DEF PassagesKept
  <2>2. CASE ~(Len(d.jobs) = 2 /\ s.size + 1 + JobSize(d.jobs[2]) <= MaxSelected)
    BY <1>3, <2>2 DEF WithJob
  <2>3. QED
    BY <2>1, <2>2
<1>4. QED
  BY <1>1, <1>2, <1>3 DEF Selected

\* What is in the cache and in the report is what the plan and the saved texts say.
DraftInv ==
    /\ Warming(warming)
    /\ \A k \in DOMAIN common :
          /\ k \in DraftKinds
          /\ common[k].is = "draft" =>
                /\ PlanOfDraftsHolds /\ k \in DOMAIN warming.drafts
                /\ common[k].profile = Selected(warming.drafts[k]).profile
                /\ common[k].jobs = Selected(warming.drafts[k]).jobs
                /\ common[k].size = FixedWords[k] + Selected(warming.drafts[k]).size
    /\ warmth # "asked" => \A k \in DraftKinds :
          PlanOfDraftsHolds /\ k \in DOMAIN warming.drafts => common[k].is = "draft"
    /\ warmth = "told" => \A k \in DraftKinds :
          presented[k] = IF k \in warming.saved THEN "saved" ELSE common[k].is

LEMMA DraftInitInv == DraftInit => DraftInv
BY WarmingShapes DEF DraftInit, DraftInv

LEMMA SameWarming ==
    ASSUME warming' = warming
    PROVE  /\ PlanOfDraftsHolds' = PlanOfDraftsHolds
           /\ \A d : Selected(d)' = Selected(d)
<1>1. \A i : SizeAt(i)' = SizeAt(i) /\ JobSize(i)' = JobSize(i)
  BY DEF SizeAt, JobSize
<1>2. ASSUME NEW d PROVE FirstKept(d)' = FirstKept(d) /\ Selected(d)' = Selected(d)
  <2> DEFINE second == WithProfile(FirstKept(d), d, 2)
             third == WithProfile(second, d, 3)
  <2>1. FirstKept(d)' = FirstKept(d)
    BY <1>1 DEF FirstKept
  <2>2. second' = second
    BY <1>1, <2>1 DEF WithProfile
  <2> HIDE DEF second
  <2>3. third' = third
    BY <1>1, <2>2 DEF WithProfile
  <2> HIDE DEF third
  <2>4. WithJob(third, d)' = WithJob(third, d)
    BY <1>1, <2>3 DEF WithJob
  <2>5. QED
    BY <2>1, <2>4 DEF Selected, third, second
<1>3. \A k : Eligible(k)' = Eligible(k)
  BY DEF Eligible
<1>4. \A k : Leading(k)' = Leading(k)
  BY <1>1, <1>3 DEF Leading
<1>5. Advertised' = Advertised
  BY <1>1 DEF Advertised
<1>6. \A k : Required(k)' = Required(k)
  BY <1>1, <1>3, <1>4, <1>5 DEF Required
<1>7. \A k, d : Allowed(k, d)' = Allowed(k, d)
  BY <1>3 DEF Allowed
<1>8. \A k, d : Acceptable(k, d)' = Acceptable(k, d)
  BY <1>2, <1>7 DEF Acceptable
<1>9. PlanOfDraftsHolds' = PlanOfDraftsHolds
  BY <1>6, <1>8 DEF PlanOfDraftsHolds
<1>10. QED
  BY <1>2, <1>9

LEMMA DraftStepInv == DraftInv /\ [DraftNext]_draftVars => DraftInv'
<1> SUFFICES ASSUME DraftInv, [DraftNext]_draftVars
             PROVE  DraftInv'
  OBVIOUS
<1>1. warming' = warming
  BY DEF DraftNext, JudgeDrafts, TellDrafts, draftVars
<1> DEFINE P == PlanOfDraftsHolds
           S(k) == Selected(warming.drafts[k])
<1>2. PlanOfDraftsHolds' = P /\ \A k : Selected(warming.drafts[k])' = S(k)
  BY <1>1, SameWarming
<1>3. Warming(warming)'
  BY <1>1 DEF DraftInv, Warming
<1>4. CASE JudgeDrafts
  <2>1. common' = [k \in DraftKinds |->
          IF ~P THEN [NotDrafted EXCEPT !.is = "failed"]
          ELSE IF k \notin DOMAIN warming.drafts THEN [NotDrafted EXCEPT !.is = "not_analysed"]
          ELSE [is |-> "draft", profile |-> S(k).profile, jobs |-> S(k).jobs,
                size |-> FixedWords[k] + S(k).size]]
    BY <1>4 DEF JudgeDrafts
  <2>2. warmth' = "judged"
    BY <1>4 DEF JudgeDrafts
  <2> HIDE DEF P, S
  <2>3. ASSUME NEW k \in DraftKinds
        PROVE  /\ common'[k].is = "draft" =>
                     /\ P /\ k \in DOMAIN warming.drafts
                     /\ common'[k].profile = S(k).profile
                     /\ common'[k].jobs = S(k).jobs
                     /\ common'[k].size = FixedWords[k] + S(k).size
               /\ P /\ k \in DOMAIN warming.drafts => common'[k].is = "draft"
    BY <2>1 DEF NotDrafted
  <2>4. DOMAIN common' = DraftKinds
    BY <2>1
  <2>5. QED
    BY <1>1, <1>2, <1>3, <2>2, <2>3, <2>4 DEF DraftInv
<1>5. CASE TellDrafts
  <2>1. common' = common /\ warmth = "judged"
        /\ presented' = [k \in DraftKinds |-> IF k \in warming.saved THEN "saved" ELSE common[k].is]
    BY <1>5 DEF TellDrafts
  <2> HIDE DEF P, S
  <2>2. \A k \in DraftKinds :
           presented'[k] = IF k \in warming.saved THEN "saved" ELSE common[k].is
    BY <2>1
  <2>3. QED
    BY <1>1, <1>2, <1>3, <2>1, <2>2 DEF DraftInv, P, S
<1>6. CASE UNCHANGED draftVars
  BY <1>1, <1>2, <1>3, <1>6 DEF DraftInv, draftVars
<1>7. QED
  BY <1>4, <1>5, <1>6 DEF DraftNext

\* What the prompt gives as an example is accepted.
LEMMA RequiredFact == ASSUME Warming(warming) PROVE RequiredIsPossible
<1> SUFFICES ASSUME NEW k \in DraftKinds, Required(k),
                    ~(k = "motivation" /\ SizeAt(Leading(k)) + JobSize(Advertised) = MaxSelected)
             PROVE  Acceptable(k, ExampleOf(k))
  BY DEF RequiredIsPossible
<1> DEFINE l == Leading(k)
           a == Advertised
           d == ExampleOf(k)
<1>1. l \in Eligible(k) /\ l \in DOMAIN warming.profile /\ SizeAt(l) \in Nat
      /\ (k = "experience" => warming.profile[l].performed)
  BY LeadingFact, WarmingFact DEF Required, Eligible
<1>2. k = "motivation" => a \in DOMAIN warming.jobs /\ JobSize(a) \in Nat
  BY AdvertisedFact, WarmingFact DEF Required
<1>3. /\ k = "motivation" => SizeAt(l) + JobSize(a) < MaxSelected
      /\ SizeAt(l) <= MaxSelected
  <2>1. SizeAt(l) + (IF k = "motivation" THEN JobSize(a) ELSE 0) <= MaxSelected
    BY DEF Required
  <2>2. QED
    BY <1>1, <1>2, <2>1 DEF MaxSelected
<1> HIDE DEF l, a
<1>4. CASE k = "motivation"
  <2>1. d = [profile |-> <<l>>, jobs |-> <<a>>]
    BY <1>4 DEF ExampleOf, l, a
  <2> DEFINE z == SizeAt(l) + 1 + JobSize(a)
  <2>2. z \in Nat /\ z <= MaxSelected
    BY <1>1, <1>2, <1>3, <1>4 DEF MaxSelected
  <2> HIDE DEF d
  <2>3. FirstKept(d) = [profile |-> {l}, jobs |-> {a}, size |-> z]
    BY <2>1 DEF FirstKept
  <2>4. Selected(d) = FirstKept(d)
    BY <2>1 DEF Selected, WithProfile, WithJob
  <2>5. Allowed(k, d)
    <3>1. /\ \A m \in DOMAIN d.profile : m = 1 /\ d.profile[m] = l
          /\ \A m \in DOMAIN d.jobs : m = 1 /\ d.jobs[m] = a
          /\ d.jobs # <<>>
      <4>1. d.profile = <<l>> /\ d.jobs = <<a>>
        BY <2>1
      <4>2. DOMAIN <<l>> = {1} /\ DOMAIN <<a>> = {1} /\ <<l>>[1] = l /\ <<a>>[1] = a
            /\ <<a>> # <<>>
        OBVIOUS
      <4>3. QED
        BY <4>1, <4>2
    <3>2. l \in Eligible(k) /\ a \in DOMAIN warming.jobs /\ k # "experience"
      BY <1>1, <1>2, <1>4
    <3>3. QED
      BY <1>4, <3>1, <3>2 DEF Allowed
  <2> HIDE DEF z
  <2>6. QED
    BY <1>4, <2>2, <2>3, <2>4, <2>5 DEF Acceptable, FixedWords, MaxSelected, MaxValue, d
<1>5. CASE k # "motivation"
  <2>1. d = [profile |-> <<l>>, jobs |-> <<>>]
    BY <1>5 DEF ExampleOf, l
  <2> DEFINE z == SizeAt(l)
  <2> HIDE DEF d
  <2>3. FirstKept(d) = [profile |-> {l}, jobs |-> {}, size |-> z]
    BY <2>1 DEF FirstKept
  <2>4. Selected(d) = FirstKept(d)
    BY <2>1 DEF Selected, WithProfile, WithJob
  <2>5. Allowed(k, d)
    BY <1>1, <1>5, <2>1 DEF Allowed
  <2>6. z \in Nat /\ z <= MaxSelected
    BY <1>1, <1>3
  <2> HIDE DEF z
  <2>7. QED
    BY <1>5, <2>3, <2>4, <2>5, <2>6
       DEF Acceptable, FixedWords, MaxSelected, MaxValue, d, DraftKinds
<1>6. QED
  BY <1>4, <1>5

LEMMA DraftInvImplies ==
    DraftInv => /\ DraftsAreTheApplicants /\ DraftsKeepTheBudget
                /\ RequiredIsPossible /\ RequiredIsPresented
<1> SUFFICES ASSUME DraftInv
             PROVE  /\ DraftsAreTheApplicants /\ DraftsKeepTheBudget
                    /\ RequiredIsPossible /\ RequiredIsPresented
  OBVIOUS
<1>1. Warming(warming)
  BY DEF DraftInv
<1>2. ASSUME NEW k \in DOMAIN common, common[k].is = "draft"
      PROVE  /\ common[k].profile # {} /\ common[k].profile \subseteq DOMAIN warming.profile
             /\ k = "experience" => \A i \in common[k].profile : warming.profile[i].performed
             /\ k = "motivation" <=> common[k].jobs # {}
             /\ common[k].size <= MaxSelected + FixedWords[k]
             /\ warming.drafts[k].profile[1] \in common[k].profile
             /\ k = "motivation" => warming.drafts[k].jobs[1] \in common[k].jobs
  <2> DEFINE d == warming.drafts[k]
             s == Selected(d)
  <2>1. /\ k \in DraftKinds /\ k \in DOMAIN warming.drafts /\ Acceptable(k, d)
        /\ common[k].profile = s.profile /\ common[k].jobs = s.jobs
        /\ common[k].size = FixedWords[k] + s.size
    BY <1>2 DEF DraftInv, PlanOfDraftsHolds
  <2>2. /\ d.profile \in Seq(Nat) /\ Len(d.profile) \in 1..3
        /\ d.jobs \in Seq(Nat) /\ Len(d.jobs) \in 0..2
    BY <1>1, <2>1 DEF Warming
  <2>3. Allowed(k, d) /\ FirstKept(d).size <= MaxSelected
    BY <2>1 DEF Acceptable
  <2>4. OffersPassages(d)
    BY <2>2, <2>3 DEF Allowed, OffersPassages, Eligible
  <2>5. PassagesKept(s, d)
    BY <1>1, <2>3, <2>4, SelectedFact
  <2> HIDE DEF s, d
  <2>6. s.profile \subseteq Eligible(k)
    BY <2>3, <2>5 DEF Allowed, PassagesKept
  <2>7. s.profile \subseteq DOMAIN warming.profile
        /\ (k = "experience" => \A i \in s.profile : warming.profile[i].performed)
    BY <1>1, <2>6, WarmingFact DEF Eligible
  <2>8. k = "motivation" <=> d.jobs # <<>>
    BY <2>3 DEF Allowed
  <2>9. FixedWords[k] + s.size <= MaxSelected + FixedWords[k]
    BY <2>1, <2>5 DEF PassagesKept, FixedWords, MaxSelected, DraftKinds
  <2>10. QED
    BY <2>1, <2>5, <2>7, <2>8, <2>9 DEF PassagesKept, d
<1>3. DraftsAreTheApplicants
  BY <1>2 DEF DraftsAreTheApplicants
<1>4. DraftsKeepTheBudget
  BY <1>2 DEF DraftsKeepTheBudget
<1>5. RequiredIsPresented
  BY DEF DraftInv, RequiredIsPresented, PlanOfDraftsHolds
<1>6. QED
  BY <1>1, <1>3, <1>4, <1>5, RequiredFact

-------------------------------------------------------------------------------
(* The results *)

\* The same bytes are sent to the model once, and the columns keep their types, for
\* any number of entries, copies and extractions that overlap, fail or die.
THEOREM ExtractedOnce == ResumeSpec => [](ResumeTypes /\ OneCallPerContent)
<1>1. ResumeSpec => []ResumeInv
  BY ResumeInitInv, ResumeStepInv, PTL DEF ResumeSpec
<1>2. ResumeInv => ResumeTypes /\ OneCallPerContent
  BY ResumeInvImplies DEF ResumeInv
<1>3. QED
  BY <1>1, <1>2, PTL

\* What the user typed and what was reviewed is lost only to a writer that read the
\* column before, whoever the writers are.
THEOREM EditsLostOnlyToRacesHolds == ResumeSpec => EditsLostOnlyToRaces
<1>1. ResumeInv /\ [ResumeNext]_resumeVars => [LostToRaces]_resumeVars
  BY LossStep
<1>2. ResumeSpec => [][LostToRaces]_resumeVars
  BY <1>1, ResumeInitInv, ResumeStepInv, PTL DEF ResumeSpec
<1>3. QED
  BY <1>2 DEF EditsLostOnlyToRaces, LostToRaces

\* For any boards, sources, limits and bounds: the fields keep their types, no two
\* postings have one key, in the store and in every open publication, a row tells of
\* its own posting, and a refused collection asks nothing more (db_repository.py:59).
THEOREM StoreIsSafe ==
    StoreSpec => [](StoreTypes /\ KeysAreUnique /\ RowsAreOwn /\ RefusalEndsRequests)
<1>1. StoreSpec => []JobsInv
  BY InitKeeps, JobsStepInv, PTL DEF StoreSpec
<1>2. QED
  BY <1>1, JobsInvImplies, PTL

\* A posting closes only because its page said so or a whole listing no longer had
\* it, however the boards change meanwhile (service.py:328).
THEOREM OnlyGoneIsClosedHolds == StoreSpec => OnlyGoneIsClosed
<1>1. StoreSpec => [][ClosesOnlyGone]_storeVars
  BY InitKeeps, JobsStepInv, ClosesStep, PTL DEF StoreSpec
<1>2. QED
  BY <1>1 DEF OnlyGoneIsClosed, ClosesOnlyGone

\* After a complete listing the active rows are listed, and every listed posting is
\* stored, by this source or by another one of the board (service.py:336).
THEOREM CompleteIsExactHolds == StoreSpec => CompleteIsExact
<1>1. StoreSpec => [][StoresWhatIsListed]_storeVars
  BY InitKeeps, JobsStepInv, ListedStep, PTL DEF StoreSpec
<1>2. QED
  BY <1>1 DEF CompleteIsExact

\* For every answer a model can give: what is stored as supported is grounded, in
\* whole and for each condition, and what is stored as a gap is a contradiction.
THEOREM ReviewIsGrounded ==
    ReviewSpec => [](ReviewTypes /\ SupportIsGrounded /\ ConditionsAreGrounded /\ GapIsContradiction)
<1>1. ReviewSpec => []JudgedInv
  BY JudgedInitInv, JudgedStepInv, PTL DEF ReviewSpec
<1>2. QED
  BY <1>1, JudgedInvImplies, PTL

\* No answer that the resolution of its citations accepts is rejected afterwards.
THEOREM ResolvedIsKeptHolds == ReviewSpec => ResolvedIsKept
<1>1. ReviewSpec => [][StaysResolved]_reviewVars
  BY JudgedInitInv, JudgedStepInv, KeptStep, PTL DEF ReviewSpec
<1>2. QED
  BY <1>1 DEF ResolvedIsKept, StaysResolved

\* For any vacancies, skills, profile and extraction: what supports a match is explicit
\* in the profile, what is proposed is current, and known gaps come last.
THEOREM MatchingIsExplicit ==
    MatchSpec => [](MatchTypes /\ EvidenceIsExplicit /\ ProposedIsCurrent /\ GapsComeLast)
<1>1. MatchSpec => []MatchInv
  BY MatchInitInv, MatchStepInv, PTL DEF MatchSpec
<1>2. MatchInv => MatchTypes /\ EvidenceIsExplicit /\ ProposedIsCurrent /\ GapsComeLast
  BY ExplicitFact, CurrentFact, GapsFact DEF MatchInv
<1>3. QED
  BY <1>1, <1>2, PTL

\* More evidence loses a user no job, and worsens no job's place by evidence.
THEOREM EvidenceHelpsHolds == MatchSpec => EvidenceHelps
<1>1. MatchSpec => [][Helps]_matchVars
  BY MatchInitInv, MatchStepInv, HelpsStep, PTL DEF MatchSpec
<1>2. QED
  BY <1>1 DEF EvidenceHelps, Helps

\* For any batch that a model may rank: a job is worth prioritising only with its
\* evidence, better evidence never hurts, and the display keeps to the advice.
THEOREM AdviceIsEarned ==
    AdviceSpec => [](PriorityIsEarned /\ EvidenceNeverHurts /\ OrderRespectsAdvice)
<1>1. AdviceSpec => []AdviceInv
  BY AdviceInitInv, AdviceStepInv, PTL DEF AdviceSpec
<1>2. QED
  BY <1>1, AdviceInvImplies, PTL

\* For any profiles, texts, outputs and links: a value of a resume is in its text, what
\* the user typed or removed decides, a conclusion follows from what is shown, and the
\* facts of a resume are those of one output or none.
THEOREM ValuesAreEarned ==
    ValueSpec => [](/\ ResumeValuesAreGrounded /\ UserDecides /\ ConclusionsAreShown
                    /\ AllOrNothing)
<1>1. ValueSpec => []ValueInv
  BY ValueInitInv, ValueStepInv, PTL DEF ValueSpec
<1>2. QED
  BY <1>1, ValueInvImplies, PTL

\* For any requests, people, forms and profiles: one call for a plan, whoever cancels or
\* restarts, and a plan told is one of its own profile.
THEOREM PlansAreAskedOnce == PlanSpec => [](OneCallPerPlan /\ PlansAreOwn)
<1>1. PlanSpec => []PlanInv
  BY PlanInitInv, PlanStepInv, PTL DEF PlanSpec
<1>2. QED
  BY <1>1, PlanInvImplies, PTL

\* For any forms, profiles and plans: a drafted answer is supported by the passages it
\* cites and fits its field, what is saved or typed comes first, and nothing asked is
\* left open.
THEOREM AnswersAreSupported ==
    InquirySpec => [](/\ DraftsAreSupported /\ AnswersFit /\ MissingIsMissing
                      /\ UserComesFirst /\ AskedIsSettled)
<1>1. InquirySpec => []AnswersInv
  BY InquiryInitInv, AnswersStepInv, PTL DEF InquirySpec
<1>2. QED
  BY <1>1, AnswersInvImplies, PTL

\* For any saved texts and plans: a prepared draft is made of the applicant's own
\* passages within its budget, and the kinds required can be and are presented.
THEOREM DraftsHold ==
    DraftSpec => [](DraftsAreTheApplicants /\ DraftsKeepTheBudget
                    /\ RequiredIsPossible /\ RequiredIsPresented)
<1>1. DraftSpec => []DraftInv
  BY DraftInitInv, DraftStepInv, PTL DEF DraftSpec
<1>2. QED
  BY <1>1, DraftInvImplies, PTL

\* A behaviour of the whole begins as each part does, and is, seen by one part, a
\* behaviour of that part.
LEMMA EachPartBegins ==
    ProfileInit => /\ ResumeInit /\ MatchInit /\ RecommendationInit /\ AnswerInit /\ AdviceInit
                   /\ StoreInit /\ ValueInit /\ PlanInit /\ InquiryInit /\ DraftInit
BY DEF ProfileInit, RunsAtRest, NothingJudged, NothingReviewed, NoBatch, NoBoards, OneBoard,
       NoAnswers, NoDrafts, NoValues, NoPlans, NoQuestions, NoWarming

EachSteps ==
    /\ [ResumeNext]_resumeVars /\ [MatchNext]_matchVars
    /\ [RecommendationNext]_recommendationVars /\ [ReviewNext]_reviewVars
    /\ [AdviceNext]_adviceVars /\ [StoreNext]_storeVars
    /\ [ValueNext]_valueVars /\ [PlanNext]_planVars
    /\ [InquiryNext]_inquiryVars /\ [DraftNext]_draftVars

LEMMA EachPartSteps == [ProfileNext]_profileMCVars => EachSteps
<1> SUFFICES ASSUME [ProfileNext]_profileMCVars
             PROVE  EachSteps
  OBVIOUS
<1>1. CASE part \in DOMAIN Crawling /\ (\E s \in Crawling[part] : StoreStep(s))
           /\ UNCHANGED <<part, profileVars, answerVars>>
  BY <1>1, CrawlNames DEF StoreNext, profileVars, answerVars, EachSteps
<1>2. CASE ~(part \in DOMAIN Crawling /\ (\E s \in Crawling[part] : StoreStep(s))
             /\ UNCHANGED <<part, profileVars, answerVars>>)
  BY <1>2 DEF ProfileNext, profileMCVars, profileVars, answerVars, EachSteps
<1>3. QED
  BY <1>1, <1>2

\* In the composition the model is paid once for the same bytes and once for the same
\* comparison, each within its lease, for any constants.
THEOREM PaidForOnceHolds == ProfileSpec => []PaidForOnce
<1> DEFINE Both == ResumeInv /\ RunInv /\ PlanInv
<1>1. ProfileInit => Both
  BY EachPartBegins, ResumeInitInv, RunInitInv, PlanInitInv
<1>2. Both /\ [ProfileNext]_profileMCVars => Both'
  BY EachPartSteps, ResumeStepInv, RunStepInv, PlanStepInv DEF EachSteps
<1>3. Both => PaidForOnce
  BY ResumeInvImplies, RunInvImplies, PlanInvImplies DEF PaidForOnce, ResumeInv
<1>4. QED
  BY <1>1, <1>2, <1>3, PTL DEF ProfileSpec

\* The strengthening of each part, together.
PartsInv ==
    /\ ResumeInv /\ RunInv /\ MatchInv /\ JudgedInv /\ AdviceInv /\ JobsInv
    /\ ValueInv /\ PlanInv /\ AnswersInv /\ DraftInv

LEMMA PartsInitInv == ProfileInit => PartsInv
BY EachPartBegins, ResumeInitInv, RunInitInv, MatchInitInv, JudgedInitInv, AdviceInitInv, InitKeeps,
   ValueInitInv, PlanInitInv, InquiryInitInv, DraftInitInv
   DEF PartsInv

LEMMA PartsStepInv == PartsInv /\ [ProfileNext]_profileMCVars => PartsInv'
BY EachPartSteps, ResumeStepInv, RunStepInv, MatchStepInv, JudgedStepInv, AdviceStepInv, JobsStepInv,
   ValueStepInv, PlanStepInv, AnswersStepInv, DraftStepInv
   DEF PartsInv, EachSteps

\* In the composition everything that a page is told follows from what was saved,
\* whichever part it is of, for any constants.
THEOREM ConclusionsAreEarnedHolds == ProfileSpec => []ConclusionsAreEarned
<1>1. ProfileSpec => []PartsInv
  BY PartsInitInv, PartsStepInv, PTL DEF ProfileSpec
<1>2. PartsInv => ConclusionsAreEarned
  <2> SUFFICES ASSUME PartsInv PROVE ConclusionsAreEarned
    OBVIOUS
  <2>1. /\ RunInv /\ MatchInv /\ JudgedInv /\ AdviceInv /\ JobsInv
        /\ ValueInv /\ PlanInv /\ AnswersInv /\ DraftInv
    BY DEF PartsInv
  <2>2. AssessmentsAgree
    BY <2>1, RunsAgree
  <2>3. ReviewTypes /\ SupportIsGrounded /\ ConditionsAreGrounded /\ GapIsContradiction
    BY <2>1, JudgedInvImplies
  <2>4. PriorityIsEarned /\ EvidenceNeverHurts /\ OrderRespectsAdvice
    BY <2>1, AdviceInvImplies
  <2>5. MatchTypes /\ EvidenceIsExplicit /\ ProposedIsCurrent /\ GapsComeLast
    BY <2>1, ExplicitFact, CurrentFact, GapsFact DEF MatchInv
  <2>6. StoreTypes /\ KeysAreUnique /\ RowsAreOwn /\ RefusalEndsRequests
    BY <2>1, JobsInvImplies
  <2>7. ResumeValuesAreGrounded /\ UserDecides /\ ConclusionsAreShown /\ AllOrNothing
    BY <2>1, ValueInvImplies
  <2>8. PlansAreOwn
    BY <2>1, PlanInvImplies
  <2>9. /\ DraftsAreSupported /\ AnswersFit /\ MissingIsMissing
        /\ UserComesFirst /\ AskedIsSettled
    BY <2>1, AnswersInvImplies
  <2>10. /\ DraftsAreTheApplicants /\ DraftsKeepTheBudget
         /\ RequiredIsPossible /\ RequiredIsPresented
    BY <2>1, DraftInvImplies
  <2>11. QED
    BY <2>2, <2>3, <2>4, <2>5, <2>6, <2>7, <2>8, <2>9, <2>10 DEF ConclusionsAreEarned
<1>3. QED
  BY <1>1, <1>2, PTL

\* In the composition no late answer changes a finished run, no edit is lost but to a
\* race, no evidence weakens a match, no resolved claim is raised, and no posting
\* closes but a gone one.
THEOREM NothingIsUndoneHolds == ProfileSpec => NothingIsUndone
<1>1. PartsInv /\ [ProfileNext]_profileMCVars =>
          /\ [RunsStay]_recommendationVars /\ [LostToRaces]_resumeVars
          /\ [Helps]_matchVars /\ [StaysResolved]_reviewVars
          /\ [ClosesOnlyGone]_storeVars /\ [StoresWhatIsListed]_storeVars
  <2> SUFFICES ASSUME PartsInv, [ProfileNext]_profileMCVars
               PROVE  /\ [RunsStay]_recommendationVars /\ [LostToRaces]_resumeVars
                      /\ [Helps]_matchVars /\ [StaysResolved]_reviewVars
                      /\ [ClosesOnlyGone]_storeVars /\ [StoresWhatIsListed]_storeVars
    OBVIOUS
  <2>1. ResumeInv /\ RunInv /\ MatchInv /\ JudgedInv /\ JobsInv
    BY DEF PartsInv
  <2>2. [RunsStay]_recommendationVars
    BY <2>1, EachPartSteps, RunsStayStep DEF EachSteps
  <2>3. [LostToRaces]_resumeVars
    BY <2>1, EachPartSteps, LossStep DEF EachSteps
  <2>4. [Helps]_matchVars
    BY <2>1, EachPartSteps, HelpsStep DEF EachSteps
  <2>5. [StaysResolved]_reviewVars
    BY <2>1, EachPartSteps, KeptStep DEF EachSteps
  <2>6. [ClosesOnlyGone]_storeVars
    BY <2>1, EachPartSteps, ClosesStep DEF EachSteps
  <2>7. [StoresWhatIsListed]_storeVars
    BY <2>1, EachPartSteps, ListedStep DEF EachSteps
  <2>8. QED
    BY <2>2, <2>3, <2>4, <2>5, <2>6, <2>7
<1>2. ProfileSpec => /\ [][RunsStay]_recommendationVars /\ [][LostToRaces]_resumeVars
                     /\ [][Helps]_matchVars /\ [][StaysResolved]_reviewVars
                     /\ [][ClosesOnlyGone]_storeVars /\ [][StoresWhatIsListed]_storeVars
  BY <1>1, PartsInitInv, PartsStepInv, PTL DEF ProfileSpec
<1>3. [][RunsStay]_recommendationVars => FinishedRunsStay
  BY DEF FinishedRunsStay, RunsStay
<1>4. [][LostToRaces]_resumeVars => EditsLostOnlyToRaces
  BY DEF EditsLostOnlyToRaces, LostToRaces
<1>5. [][Helps]_matchVars => EvidenceHelps
  BY DEF EvidenceHelps, Helps
<1>6. [][StaysResolved]_reviewVars => ResolvedIsKept
  BY DEF ResolvedIsKept, StaysResolved
<1>7. [][ClosesOnlyGone]_storeVars => OnlyGoneIsClosed
  BY DEF OnlyGoneIsClosed, ClosesOnlyGone
<1>8. [][StoresWhatIsListed]_storeVars => CompleteIsExact
  BY DEF CompleteIsExact
<1>9. QED
  BY <1>2, <1>3, <1>4, <1>5, <1>6, <1>7, <1>8 DEF NothingIsUndone
===============================================================================
