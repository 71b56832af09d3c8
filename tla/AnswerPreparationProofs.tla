------------------------ MODULE AnswerPreparationProofs ------------------------
(***************************************************************************)
(* Proofs about AnswerPreparation, for any requests, pages, questions and  *)
(* profiles.  What needs the 20 seconds to outlast a live worker assumes   *)
(* Timely.                                                                 *)
(***************************************************************************)
EXTENDS AnswerPreparation, TLAPS

(***************************************************************************)
(* The part of the invariant that holds whatever the clock does: a handler *)
(* is at a step under the lock if and only if it holds the lock (LockInv); *)
(* drafts are never mapped (DraftInv); what a handler is about to write to *)
(* the shared row contains what is there (SharingInv).                     *)
(***************************************************************************)
LockInv == \A r \in Requests : pc[r] \in Locked \cup {"sharing"} <=> lock = r

PlaceInv == \A r \in Requests :
    /\ pc[r] \notin Resting => ctx[r] \in Contexts
    /\ pc[r] \in {"answered", "finishing", "sharing"} => outcome[r] # "none"

DraftInv ==
    /\ \A c \in Contexts, k \in Drafts : row[c].cache[k] # "mapped"
    /\ \A r \in Requests, k \in Drafts : cache[r][k] # "mapped"

SharingInv ==
    \A r \in Requests : pc[r] = "sharing" => shared[ctx[r].profile] \subseteq merged[r]

Core ==
    /\ TypeOK
    /\ LockInv
    /\ PlaceInv
    /\ DraftInv
    /\ SharingInv
-------------------------------------------------------------------------------
USE KeysAssumption, TimelyAssumption, NoOneAssumption
USE DEF Resting, Locked, Working, RowStatus, Keys, Good

LEMMA CoreInit == Init => Core
<1> SUFFICES ASSUME Init PROVE Core
  OBVIOUS
<1>1. TypeOK
  BY DEF Init, TypeOK, Rows, Caches, Empty, NoRow
<1>2. LockInv /\ PlaceInv /\ SharingInv
  BY DEF Init, LockInv, PlaceInv, SharingInv
<1>3. DraftInv
  BY DEF Init, DraftInv, Empty, NoRow
<1>4. QED
  BY <1>1, <1>2, <1>3 DEF Core

\* A merged cache, and one with failures recorded, are caches without mapped drafts.
LEMMA CacheFacts ==
    ASSUME TypeOK, NEW known \in Caches, NEW f \in Profiles, NEW lost \in SUBSET Keys
    PROVE  /\ Merged(known, f) \in Caches
           /\ FailPending(known, lost) \in Caches
           /\ \A k \in Drafts : known[k] # "mapped" => /\ Merged(known, f)[k] # "mapped"
                                                       /\ FailPending(known, lost)[k] # "mapped"
<1>1. shared[f] \subseteq Fields
  BY DEF TypeOK
<1>2. \A k \in Drafts : k \in Keys /\ k \notin shared[f]
  BY <1>1
<1>3. QED
  BY <1>2 DEF Caches, Merged, FailPending

\* A cached context, and what is said of it.
LEMMA PlaceFacts ==
    /\ \A c \in Contexts : c.profile \in Profiles /\ c.page \in Pages
    /\ TypeOK => \A p \in Pages : Current(p) \in Contexts
    /\ \A status, K, known : Verdict(status, K, known) \in {"reported", "preparing"}
  BY DEF Contexts, Current, TypeOK, Verdict

LEMMA CoreRead ==
    ASSUME Core, NEW r \in Requests, Read(r)
    PROVE  Core'
<1> USE DEF Core
<1>0. /\ pc[r] \in Resting
      /\ UNCHANGED <<inputs, store, lock, locals, asked>>
      /\ \E to \in {"reported", "preparing"} : pc' = [pc EXCEPT ![r] = to]
  BY PlaceFacts DEF Read, Step
<1> USE <1>0 DEF inputs, store, locals
<1>1. TypeOK'
  BY DEF TypeOK
<1>2. LockInv' /\ PlaceInv'
  BY DEF TypeOK, LockInv, PlaceInv
<1>3. DraftInv' /\ SharingInv'
  BY DEF TypeOK, DraftInv, SharingInv
<1>4. QED
  BY <1>1, <1>2, <1>3

LEMMA CoreOpen ==
    ASSUME Core, NEW r \in Requests, Open(r)
    PROVE  Core'
<1> USE DEF Core
<1>0. /\ pc[r] \in Resting
      /\ UNCHANGED <<inputs, store, lock, cache, pending, outcome, merged, asked>>
      /\ pc' = [pc EXCEPT ![r] = "locking"]
      /\ \E c \in Contexts : ctx' = [ctx EXCEPT ![r] = c]
      /\ \E K \in SUBSET Keys : keys' = [keys EXCEPT ![r] = K]
  <2>1. PICK p \in Pages, K \in Wanted :
          /\ ctx' = [ctx EXCEPT ![r] = Current(p)]
          /\ keys' = [keys EXCEPT ![r] = K]
    BY DEF Open
  <2>2. Current(p) \in Contexts
    BY PlaceFacts
  <2>3. K \in SUBSET Keys
    <3>1. K \in SUBSET Fields \/ K = Drafts
      BY SMT DEF Wanted
    <3>2. QED
      BY <3>1
  <2>4. QED
    BY <2>1, <2>2, <2>3 DEF Open, Step
<1> USE <1>0 DEF inputs, store
<1>1. TypeOK'
  <2>1. ctx' \in [Requests -> Contexts \cup {NoOne}] /\ keys' \in [Requests -> SUBSET Keys]
    BY DEF TypeOK
  <2>2. pc' \in [Requests -> Resting \cup Locked \cup Working \cup {"locking", "checking"}]
    BY DEF TypeOK
  <2>3. QED
    BY <2>1, <2>2 DEF TypeOK
<1>2. LockInv' /\ PlaceInv'
  BY DEF TypeOK, LockInv, PlaceInv
<1>3. DraftInv' /\ SharingInv'
  BY DEF TypeOK, DraftInv, SharingInv
<1>4. QED
  BY <1>1, <1>2, <1>3

LEMMA CoreLock ==
    ASSUME Core, NEW r \in Requests, LockOwner(r)
    PROVE  Core'
<1> USE DEF Core
<1>0. /\ pc[r] = "locking" /\ lock = NoOne /\ lock' = r
      /\ UNCHANGED <<jd, profile, row, stale, shared, ctx, keys, outcome, merged, asked>>
      /\ \E to \in Locked : pc' = [pc EXCEPT ![r] = to]
      /\ cache' = [cache EXCEPT ![r] = Merged(row[ctx[r]].cache, ctx[r].profile)]
      /\ pending' = [pending EXCEPT ![r] = row[ctx[r]].pending]
  BY DEF LockOwner, LockFree, Step, inputs, store
<1>1. ctx[r] \in Contexts
  BY <1>0 DEF PlaceInv
<1>2. row[ctx[r]].cache \in Caches /\ row[ctx[r]].pending \in SUBSET Keys
  BY <1>1 DEF TypeOK, Rows
<1>3. /\ Merged(row[ctx[r]].cache, ctx[r].profile) \in Caches
      /\ \A k \in Drafts : Merged(row[ctx[r]].cache, ctx[r].profile)[k] # "mapped"
  BY <1>1, <1>2, CacheFacts, PlaceFacts DEF DraftInv
<1>4. TypeOK'
  BY <1>0, <1>2, <1>3 DEF TypeOK
<1>5. LockInv' /\ PlaceInv' /\ SharingInv'
  BY <1>0 DEF TypeOK, LockInv, PlaceInv, SharingInv
<1>6. DraftInv'
  BY <1>0, <1>3 DEF TypeOK, DraftInv
<1>7. QED
  BY <1>4, <1>5, <1>6

\* A handler that leaves forgets what it had; it released the lock if it had it.
LEMMA CoreLeave ==
    ASSUME Core, NEW r \in Requests, NEW to \in Resting, pc[r] \notin Resting, Leave(r, to),
           lock' = IF lock = r THEN NoOne ELSE lock,
           UNCHANGED <<inputs, shared, asked>>,
           row' \in [Contexts -> Rows], stale' \in [Contexts -> BOOLEAN],
           \A c \in Contexts, k \in Drafts : row'[c].cache[k] # "mapped"
    PROVE  Core'
<1> USE DEF Core, Leave, Step, inputs
<1>1. TypeOK'
  <2>1. Empty \in Caches
    BY DEF Empty, Caches
  <2>2. QED
    BY <2>1 DEF TypeOK
<1>2. LockInv' /\ PlaceInv' /\ SharingInv'
  BY DEF TypeOK, LockInv, PlaceInv, SharingInv
<1>3. DraftInv'
  BY DEF TypeOK, DraftInv, Empty
<1>4. QED
  BY <1>1, <1>2, <1>3

LEMMA CoreReturn ==
    ASSUME Core, NEW r \in Requests,
           Join(r) \/ TakeOver(r) \/ Satisfied(r) \/ Check(r) \/ Crash(r)
    PROVE  Core'
<1>0. /\ TypeOK /\ LockInv /\ DraftInv /\ PlaceInv
      /\ lock # NoOne => lock \in Requests
  BY DEF Core, TypeOK
<1>1. CASE Join(r) \/ Satisfied(r) \/ Check(r) \/ Crash(r)
  <2>1. \E to \in Resting : Leave(r, to)
    BY <1>1, PlaceFacts DEF Join, Satisfied, Check, Crash
  <2>2. pc[r] \notin Resting /\ UNCHANGED <<inputs, store, asked>>
    BY <1>1 DEF Join, Satisfied, Check, Crash
  <2>3. lock' = IF lock = r THEN NoOne ELSE lock
    BY <1>0, <1>1 DEF Join, Satisfied, Check, Crash, LockInv
  <2>4. QED
    BY <1>0, <2>1, <2>2, <2>3, CoreLeave DEF store, TypeOK, DraftInv
<1>2. CASE TakeOver(r)
  <2>1. ctx[r] \in Contexts /\ lock = r
    BY <1>0, <1>2 DEF TakeOver, PlaceInv, LockInv
  <2>2. cache[r] \in Caches /\ pending[r] \in SUBSET Keys
    BY <1>0 DEF TypeOK
  <2>3. Interrupted(r) \in Caches /\ \A k \in Drafts : Interrupted(r)[k] # "mapped"
    BY <1>0, <2>1, <2>2, CacheFacts, PlaceFacts DEF Interrupted, DraftInv
  <2>4. /\ row' \in [Contexts -> Rows] /\ stale' \in [Contexts -> BOOLEAN]
        /\ \A c \in Contexts, k \in Drafts : row'[c].cache[k] # "mapped"
    BY <1>0, <1>2, <2>1, <2>3 DEF TakeOver, TypeOK, Rows, DraftInv
  <2>5. QED
    BY <1>2, <2>1, <2>4, CoreLeave DEF TakeOver
<1>3. QED
  BY <1>1, <1>2

LEMMA CoreClaim ==
    ASSUME Core, NEW r \in Requests, Claim(r)
    PROVE  Core'
<1> USE DEF Core
<1> DEFINE c == ctx[r]
           missing == Needed(keys[r], cache[r])
           known == IF row[c].status = "none" THEN cache[r] ELSE row[c].cache
<1>0. /\ pc[r] = "claiming" /\ lock' = NoOne
      /\ pc' = [pc EXCEPT ![r] = "calling"]
      /\ row' = [row EXCEPT ![c] = [status |-> "running", token |-> r, pending |-> missing,
                                    cache |-> known]]
      /\ stale' = [stale EXCEPT ![c] = FALSE]
      /\ pending' = [pending EXCEPT ![r] = missing]
      /\ UNCHANGED <<jd, profile, shared, ctx, keys, cache, outcome, merged>>
  BY DEF Claim, Step, inputs
<1>1. c \in Contexts /\ lock = r
  BY <1>0 DEF PlaceInv, LockInv
<1>2. missing \in SUBSET Keys
  BY DEF Needed, TypeOK
<1>3. known \in Caches /\ \A k \in Drafts : known[k] # "mapped"
  BY <1>1 DEF TypeOK, Rows, DraftInv
<1>4. asked' \in [Contexts -> [Keys -> 0..2]]
  BY <1>1 DEF Claim, TypeOK
<1>5. row' \in [Contexts -> Rows]
  BY <1>0, <1>2, <1>3 DEF TypeOK, Rows
<1> HIDE DEF c, missing, known
<1>6. TypeOK'
  BY <1>0, <1>2, <1>4, <1>5 DEF TypeOK
<1>7. LockInv' /\ PlaceInv' /\ SharingInv'
  BY <1>0, <1>1 DEF TypeOK, LockInv, PlaceInv, SharingInv
<1>8. DraftInv'
  BY <1>0, <1>3 DEF TypeOK, DraftInv
<1>9. QED
  BY <1>6, <1>7, <1>8

\* The call ends: every pending key gets an outcome.
CallOver(r) ==
    /\ pc[r] = "calling"
    /\ pc' = [pc EXCEPT ![r] = "answered"]
    /\ \E end \in {"ready", "failed"} : outcome' = [outcome EXCEPT ![r] = end]
    /\ \E known \in Caches :
          /\ cache' = [cache EXCEPT ![r] = known]
          /\ \A k \in pending[r] : known[k] # "none"
          /\ \A k \in Keys \ pending[r] : known[k] = cache[r][k]
          /\ \A k \in Drafts : known[k] # "mapped"
    /\ UNCHANGED <<inputs, store, lock, ctx, keys, pending, merged, asked>>

LEMMA CallEnds ==
    ASSUME TypeOK, DraftInv, NEW r \in Requests, Return(r) \/ Fail(r)
    PROVE  CallOver(r)
<1>0. cache[r] \in Caches /\ pending[r] \in SUBSET Keys /\ \A k \in Drafts : cache[r][k] # "mapped"
  BY DEF TypeOK, DraftInv
<1>1. CASE Return(r)
  <2>1. PICK plan \in [pending[r] -> Good \cup {"failed"}] :
          /\ \A k \in pending[r] \cap Drafts : plan[k] # "mapped"
          /\ cache' = [cache EXCEPT ![r] =
                [k \in Keys |-> IF k \in pending[r] THEN plan[k] ELSE cache[r][k]]]
    BY <1>1 DEF Return
  <2> DEFINE known == [k \in Keys |-> IF k \in pending[r] THEN plan[k] ELSE cache[r][k]]
  <2>2. /\ known \in Caches
        /\ \A k \in pending[r] : known[k] # "none"
        /\ \A k \in Keys \ pending[r] : known[k] = cache[r][k]
        /\ \A k \in Drafts : known[k] # "mapped"
    BY <1>0, <2>1 DEF Caches
  <2> HIDE DEF known
  <2>3. cache' = [cache EXCEPT ![r] = known]
    BY <2>1 DEF known
  <2>4. QED
    BY <1>1, <2>2, <2>3 DEF Return, Step, CallOver
<1>2. CASE Fail(r)
  <2> DEFINE known == FailPending(cache[r], pending[r])
  <2>2. /\ known \in Caches
        /\ \A k \in pending[r] : known[k] # "none"
        /\ \A k \in Keys \ pending[r] : known[k] = cache[r][k]
        /\ \A k \in Drafts : known[k] # "mapped"
    BY <1>0 DEF Caches, FailPending
  <2> HIDE DEF known
  <2>3. cache' = [cache EXCEPT ![r] = known]
    BY <1>2 DEF known, Fail
  <2>4. QED
    BY <1>2, <2>2, <2>3 DEF Fail, Step, CallOver
<1>3. QED
  BY <1>1, <1>2

LEMMA CoreCall ==
    ASSUME Core, NEW r \in Requests, Return(r) \/ Fail(r) \/ Refresh(r)
    PROVE  Core'
<1> USE DEF Core
<1>1. CASE Return(r) \/ Fail(r)
  <2>1. CallOver(r)
    BY <1>1, CallEnds
  <2> USE <2>1 DEF CallOver, inputs, store
  <2>2. TypeOK'
    <3>1. /\ cache' \in [Requests -> Caches]
          /\ outcome' \in [Requests -> {"none", "ready", "failed"}]
      BY DEF TypeOK
    <3>2. pc' \in [Requests -> Resting \cup Locked \cup Working \cup {"locking", "checking"}]
      BY DEF TypeOK
    <3>3. UNCHANGED <<jd, profile, row, stale, shared, lock, ctx, keys, pending, merged, asked>>
      OBVIOUS
    <3> HIDE <2>1
    <3>4. QED
      BY <3>1, <3>2, <3>3 DEF TypeOK
  <2>3. LockInv' /\ PlaceInv' /\ SharingInv'
    BY DEF TypeOK, LockInv, PlaceInv, SharingInv
  <2>4. DraftInv'
    BY DEF TypeOK, DraftInv
  <2>5. QED
    BY <2>2, <2>3, <2>4
<1>2. CASE Refresh(r)
  <2> USE <1>2 DEF Refresh, Step, inputs, store, locals
  <2>1. TypeOK'
    BY DEF TypeOK
  <2>2. LockInv' /\ PlaceInv' /\ SharingInv' /\ DraftInv'
    BY DEF TypeOK, LockInv, PlaceInv, SharingInv, DraftInv
  <2>3. QED
    BY <2>1, <2>2
<1>3. QED
  BY <1>1, <1>2

\* Mappings are of questions only.
LEMMA VerifiedFacts ==
    ASSUME TypeOK, DraftInv, NEW r \in Requests
    PROVE  Verified(r) \subseteq Fields
  BY DEF Verified, TypeOK, DraftInv

\* Writing the outcome back, with or without the lock.
LEMMA CoreWrite ==
    ASSUME Core, NEW r \in Requests, Finish(r) \/ FinishShared(r)
    PROVE  Core'
<1> USE DEF Core
<1>0. /\ pc[r] \in {"finishing", "sharing"}
      /\ pc' = [pc EXCEPT ![r] = "checking"]
      /\ row' = [row EXCEPT ![ctx[r]] = [status |-> outcome[r], token |-> NoOne,
                                         pending |-> {}, cache |-> cache[r]]]
      /\ stale' = [stale EXCEPT ![ctx[r]] = FALSE]
      /\ UNCHANGED <<jd, profile, ctx, keys, cache, pending, outcome, asked>>
      /\ \/ pc[r] = "finishing" /\ UNCHANGED <<shared, lock, merged>>
         \/ /\ pc[r] = "sharing" /\ lock' = NoOne
            /\ shared' = [shared EXCEPT ![ctx[r].profile] = merged[r]]
            /\ merged' = [merged EXCEPT ![r] = {}]
  BY DEF Finish, FinishShared, WriteBack, Step, FinalStatus, SharedBy, inputs
<1>1. ctx[r] \in Contexts /\ ctx[r].profile \in Profiles /\ outcome[r] # "none"
  BY <1>0, PlaceFacts DEF PlaceInv
<1>2. TypeOK'
  <2>1. row' \in [Contexts -> Rows]
    BY <1>0, <1>1 DEF TypeOK, Rows
  <2>2. QED
    BY <1>0, <2>1 DEF TypeOK
<1>3. LockInv' /\ PlaceInv'
  BY <1>0 DEF TypeOK, LockInv, PlaceInv
<1>4. SharingInv'
  BY <1>0 DEF TypeOK, LockInv, SharingInv
<1>5. DraftInv'
  BY <1>0, <1>1 DEF TypeOK, DraftInv
<1>6. QED
  BY <1>2, <1>3, <1>4, <1>5

LEMMA CoreLockShared ==
    ASSUME Core, NEW r \in Requests, LockShared(r)
    PROVE  Core'
<1> USE DEF Core
<1>0. /\ pc[r] = "finishing" /\ lock = NoOne /\ lock' = r
      /\ pc' = [pc EXCEPT ![r] = "sharing"]
      /\ merged' = [merged EXCEPT ![r] = shared[ctx[r].profile] \cup Verified(r)]
      /\ UNCHANGED <<jd, profile, row, stale, shared, ctx, keys, cache, pending, outcome, asked>>
  BY DEF LockShared, LockFree, Step, SharedBy, inputs, store
<1>1. ctx[r] \in Contexts /\ ctx[r].profile \in Profiles
  BY <1>0, PlaceFacts DEF PlaceInv
<1>2. shared[ctx[r].profile] \cup Verified(r) \in SUBSET Fields
  BY <1>1, VerifiedFacts DEF TypeOK
<1>3. TypeOK'
  BY <1>0, <1>2 DEF TypeOK
<1>4. LockInv' /\ PlaceInv'
  BY <1>0 DEF TypeOK, LockInv, PlaceInv
<1>5. DraftInv' /\ SharingInv'
  BY <1>0, <1>1 DEF TypeOK, DraftInv, SharingInv
<1>6. QED
  BY <1>3, <1>4, <1>5

\* The clock, and the user's edits.
LEMMA CoreOutside ==
    ASSUME Core,
           \/ UNCHANGED vars
           \/ \E c \in Contexts : Age(c)
           \/ \E p \in Pages : EditJob(p)
           \/ EditProfile
    PROVE  Core'
<1> USE DEF Core
<1>1. /\ UNCHANGED <<row, shared, lock, pc, locals, asked>>
      /\ jd' \in [Pages -> Editions] /\ profile' \in Profiles
      /\ stale' \in [Contexts -> BOOLEAN]
  <2>1. CASE UNCHANGED vars
    BY <2>1 DEF vars, inputs, store, TypeOK
  <2>2. CASE \E c \in Contexts : Age(c)
    BY <2>2 DEF Age, inputs, TypeOK
  <2>3. CASE \E p \in Pages : EditJob(p)
    BY <2>3 DEF EditJob, store, TypeOK
  <2>4. CASE EditProfile
    BY <2>4 DEF EditProfile, store, TypeOK
  <2>5. QED
    BY <2>1, <2>2, <2>3, <2>4
<1>2. TypeOK'
  BY <1>1 DEF TypeOK, locals
<1>3. LockInv' /\ PlaceInv' /\ DraftInv' /\ SharingInv'
  BY <1>1 DEF LockInv, PlaceInv, DraftInv, SharingInv, locals
<1>4. QED
  BY <1>2, <1>3

LEMMA CoreStep == Core /\ [Next]_vars => Core'
<1> SUFFICES ASSUME Core, [Next]_vars PROVE Core'
  OBVIOUS
<1>1. ASSUME NEW r \in Requests, Read(r) \/ Open(r) \/ Handler(r) \/ Crash(r)
      PROVE  Core'
  BY <1>1, CoreRead, CoreOpen, CoreLock, CoreReturn, CoreClaim, CoreCall, CoreWrite,
     CoreLockShared DEF Handler
<1>2. QED
  BY <1>1, CoreOutside DEF Next

THEOREM CoreInvariance == Spec => []Core
  BY CoreInit, CoreStep, PTL DEF Spec

\* Type correctness, whatever the clock does.
THEOREM TypeCorrect == Spec => []TypeOK
<1>1. Core => TypeOK
  BY DEF Core
<1>2. QED
  BY <1>1, CoreInvariance, PTL

\* Shared mappings are never lost, even when claims are taken over from live
\* workers: the shared row is read and written under the owner's lock.
THEOREM MappingsKept == Spec => SharedGrows
<1>1. Core /\ [Next]_vars => [\A f \in Profiles : shared[f] \subseteq shared'[f]]_vars
  <2> SUFFICES ASSUME Core, Next
               PROVE  \A f \in Profiles : shared[f] \subseteq shared'[f]
    OBVIOUS
  <2>1. \/ UNCHANGED shared
        \/ \E r \in Requests : /\ pc[r] = "sharing"
                               /\ shared' = [shared EXCEPT ![ctx[r].profile] = merged[r]]
    <3>1. ASSUME NEW r \in Requests, Handler(r)
          PROVE  \/ UNCHANGED shared
                 \/ FinishShared(r)
      BY <3>1 DEF Handler, LockOwner, Join, TakeOver, Satisfied, Claim, Return, Fail, Refresh,
                  Finish, LockShared, Check, store
    <3>2. ASSUME NEW r \in Requests, Read(r) \/ Open(r) \/ Crash(r)
          PROVE  UNCHANGED shared
      BY <3>2 DEF Read, Open, Crash, store
    <3>3. ASSUME ~\E r \in Requests : Read(r) \/ Open(r) \/ Handler(r) \/ Crash(r)
          PROVE  UNCHANGED shared
      BY <3>3 DEF Next, Age, EditJob, EditProfile, store
    <3>4. QED
      BY <3>1, <3>2, <3>3 DEF FinishShared, SharedBy
  <2>2. QED
    BY <2>1 DEF Core, TypeOK, SharingInv
<1>2. QED
  BY <1>1, CoreInvariance, PTL DEF Spec, SharedGrows
-------------------------------------------------------------------------------
(***************************************************************************)
(* The part that needs Timely.  A row is running exactly when somebody's   *)
(* claim is on it, and what is pending is not in its cache (RowInv).  A    *)
(* live worker still owns the row it claimed (WorkInv), and what it read   *)
(* under the lock still is the row's, but for mappings learnt meanwhile    *)
(* (ReadInv, KnownInv).  What was asked for is pending or in the cache     *)
(* (AskedInv).                                                             *)
(***************************************************************************)
RowInv == \A c \in Contexts :
    /\ row[c].status = "running" <=> row[c].token # NoOne
    /\ row[c].status = "running" <=> row[c].pending # {}
    /\ \A k \in row[c].pending : row[c].cache[k] = "none"

WorkInv == \A r \in Requests : pc[r] \in Working =>
    /\ row[ctx[r]].status = "running"
    /\ row[ctx[r]].token = r
    /\ row[ctx[r]].pending = pending[r]
    /\ ~stale[ctx[r]]

ReadInv == \A r \in Requests :
    /\ pc[r] = "claiming" => row[ctx[r]].status # "running"
    /\ pc[r] = "taking" => /\ row[ctx[r]].status = "running" /\ stale[ctx[r]]
                           /\ row[ctx[r]].pending = pending[r]
    /\ pc[r] \in {"claiming", "taking"} =>
          cache[r] = Merged(row[ctx[r]].cache, ctx[r].profile)

KnownInv == \A r \in Requests : pc[r] \in Working =>
    /\ \A k \in Keys \ pending[r] : cache[r][k] \in {row[ctx[r]].cache[k], "mapped"}
    /\ pc[r] # "calling" => \A k \in pending[r] : cache[r][k] # "none"

AskedInv == \A c \in Contexts, k \in Keys :
    asked[c][k] = 0 \/ (asked[c][k] = 1 /\ (row[c].cache[k] # "none" \/ k \in row[c].pending))

MergedInv == \A r \in Requests : pc[r] = "sharing" =>
    \A k \in merged[r] : k \in shared[ctx[r].profile] \/ cache[r][k] = "mapped"

Claims ==
    /\ RowInv
    /\ WorkInv
    /\ ReadInv
    /\ KnownInv
    /\ AskedInv
    /\ SharedVerified
    /\ MergedInv

LEMMA ClaimsInit == Init => Claims
<1> SUFFICES ASSUME Init PROVE Claims
  OBVIOUS
<1> USE DEF Init, NoRow
<1>1. RowInv /\ WorkInv /\ ReadInv
  BY DEF RowInv, WorkInv, ReadInv
<1>2. KnownInv /\ AskedInv
  BY DEF KnownInv, AskedInv
<1>3. SharedVerified /\ MergedInv
  BY DEF SharedVerified, MergedInv
<1>4. QED
  BY <1>1, <1>2, <1>3 DEF Claims

\* A handler outside the claims changes nothing of them.
LEMMA ClaimsAside ==
    ASSUME Core, Claims, NEW r \in Requests, NEW to \in Resting \cup {"locking", "checking", "joining"},
           pc' = [pc EXCEPT ![r] = to], UNCHANGED <<store, asked>>,
           \A q \in Requests \ {r} : UNCHANGED <<ctx[q], cache[q], pending[q], merged[q]>>
    PROVE  Claims'
<1> USE DEF Claims, Core, store
<1>1. RowInv' /\ AskedInv' /\ SharedVerified'
  BY DEF RowInv, AskedInv, SharedVerified
<1>2. WorkInv' /\ ReadInv'
  <2>1. \A c \in Contexts : Merged(row[c].cache, c.profile)' = Merged(row[c].cache, c.profile)
    BY DEF Merged
  <2>2. \A q \in Requests : pc'[q] \in Working \cup {"claiming", "taking"} =>
           q # r /\ pc'[q] = pc[q] /\ ctx[q] \in Contexts
    BY DEF TypeOK, PlaceInv
  <2>3. WorkInv'
    BY <2>2 DEF WorkInv
  <2>4. ReadInv'
    BY <2>1, <2>2 DEF ReadInv
  <2>5. QED
    BY <2>3, <2>4
<1>3. KnownInv' /\ MergedInv'
  BY DEF TypeOK, KnownInv, MergedInv
<1>4. QED
  BY <1>1, <1>2, <1>3

LEMMA ClaimsLeave ==
    ASSUME Core, Claims, NEW r \in Requests,
           Read(r) \/ Open(r) \/ Join(r) \/ Satisfied(r) \/ Check(r) \/ Crash(r)
    PROVE  Claims'
<1>1. /\ UNCHANGED <<store, asked>>
      /\ \E to \in Resting \cup {"locking"} : pc' = [pc EXCEPT ![r] = to]
  BY PlaceFacts DEF Read, Open, Join, Satisfied, Check, Crash, Leave, Step
<1>2. \A q \in Requests \ {r} : UNCHANGED <<ctx[q], cache[q], pending[q], merged[q]>>
  BY DEF Core, TypeOK, Read, Open, Join, Satisfied, Check, Crash, Leave, locals
<1>3. QED
  BY <1>1, <1>2, ClaimsAside

\* What is read under the lock is what the row says.
LEMMA ClaimsLock ==
    ASSUME Core, Claims, NEW r \in Requests, LockOwner(r)
    PROVE  Claims'
<1> USE DEF Claims, Core
<1>0. /\ pc[r] = "locking" /\ UNCHANGED <<row, stale, shared, ctx, merged, asked>>
      /\ pc' = [pc EXCEPT ![r] = IF row[ctx[r]].status # "running" THEN "claiming"
                                 ELSE IF stale[ctx[r]] THEN "taking" ELSE "joining"]
      /\ cache' = [cache EXCEPT ![r] = Merged(row[ctx[r]].cache, ctx[r].profile)]
      /\ pending' = [pending EXCEPT ![r] = row[ctx[r]].pending]
  BY DEF LockOwner, Step, store
<1>1. RowInv' /\ AskedInv' /\ SharedVerified'
  BY <1>0 DEF RowInv, AskedInv, SharedVerified
<1>2. WorkInv' /\ KnownInv' /\ MergedInv'
  BY <1>0 DEF TypeOK, WorkInv, KnownInv, MergedInv
<1>3. ReadInv'
  <2>1. \A q \in Requests, c \in Contexts :
           Merged(row[c].cache, c.profile)' = Merged(row[c].cache, c.profile)
    BY <1>0 DEF Merged
  <2>2. ctx[r] \in Contexts /\ stale[ctx[r]] \in BOOLEAN
    BY <1>0 DEF PlaceInv, TypeOK
  <2>3. \A q \in Requests : pc[q] \in {"claiming", "taking"} => ctx[q] \in Contexts
    BY DEF PlaceInv
  <2>4. QED
    BY <1>0, <2>1, <2>2, <2>3 DEF TypeOK, ReadInv
<1>4. QED
  BY <1>1, <1>2, <1>3

\* A takeover finds no live worker, and keeps all that is known.
LEMMA ClaimsTakeOver ==
    ASSUME Core, Claims, NEW r \in Requests, TakeOver(r)
    PROVE  Claims'
<1> USE DEF Claims, Core
<1> DEFINE c == ctx[r]
           known == Interrupted(r)
<1>0. /\ pc[r] = "taking" /\ pc' = [pc EXCEPT ![r] = "reported"]
      /\ row' = [row EXCEPT ![c] = [status |-> "failed", token |-> NoOne, pending |-> {},
                                    cache |-> known]]
      /\ stale' = [stale EXCEPT ![c] = FALSE]
      /\ UNCHANGED <<shared, asked>>
      /\ \A q \in Requests \ {r} : UNCHANGED <<ctx[q], cache[q], pending[q], merged[q]>>
  BY DEF TakeOver, Leave, Step, TypeOK
<1>1. /\ c \in Contexts /\ lock = r
      /\ row[c].status = "running" /\ stale[c] /\ row[c].pending = pending[r]
      /\ cache[r] = Merged(row[c].cache, c.profile)
  BY <1>0 DEF PlaceInv, LockInv, ReadInv
<1>2. \A k \in Keys : known[k] = IF k \in row[c].pending THEN "failed"
                                 ELSE IF k \in shared[c.profile] THEN "mapped" ELSE row[c].cache[k]
  BY <1>1 DEF Interrupted, FailPending, Merged
<1>3. \A q \in Requests \ {r} : /\ pc[q] \notin {"claiming", "taking"}
                                /\ pc[q] \in Working => ctx[q] # c
  BY <1>0, <1>1 DEF LockInv, WorkInv
<1>4. row[c].pending \subseteq Keys
  BY <1>1 DEF TypeOK, Rows
<1> HIDE DEF c, known
<1>5. /\ \A d \in Contexts \ {c} : row'[d] = row[d] /\ stale'[d] = stale[d]
      /\ row'[c] = [status |-> "failed", token |-> NoOne, pending |-> {}, cache |-> known]
  BY <1>0, <1>1 DEF TypeOK
<1>6. \A q \in Requests \ {r} : pc[q] \in Working => ctx[q] \in Contexts \ {c}
  BY <1>3 DEF PlaceInv
<1>7. RowInv'
  BY <1>5 DEF RowInv
<1>8. WorkInv' /\ ReadInv'
  BY <1>0, <1>3, <1>5, <1>6 DEF TypeOK, WorkInv, ReadInv
<1>9. KnownInv' /\ MergedInv'
  BY <1>0, <1>5, <1>6 DEF TypeOK, KnownInv, MergedInv
<1>10. AskedInv'
  BY <1>0, <1>2, <1>4, <1>5 DEF AskedInv
<1>11. SharedVerified'
  <2>1. \A k \in Keys : row[c].cache[k] = "mapped" => row'[c].cache[k] = "mapped"
    BY <1>1, <1>2, <1>5 DEF RowInv
  <2>2. QED
    BY <1>0, <1>5, <2>1 DEF SharedVerified, TypeOK
<1>12. QED
  BY <1>7, <1>8, <1>9, <1>10, <1>11

\* A claim finds no live worker; what is missing was never asked for.
LEMMA ClaimsClaim ==
    ASSUME Core, Claims, NEW r \in Requests, Claim(r)
    PROVE  Claims'
<1> USE DEF Claims, Core
<1> DEFINE c == ctx[r]
           missing == Needed(keys[r], cache[r])
           known == IF row[c].status = "none" THEN cache[r] ELSE row[c].cache
<1>0. /\ pc[r] = "claiming" /\ pc' = [pc EXCEPT ![r] = "calling"]
      /\ row' = [row EXCEPT ![c] = [status |-> "running", token |-> r, pending |-> missing,
                                    cache |-> known]]
      /\ stale' = [stale EXCEPT ![c] = FALSE]
      /\ pending' = [pending EXCEPT ![r] = missing]
      /\ missing # {}
      /\ UNCHANGED <<shared, ctx, cache, merged>>
  BY DEF Claim, Step
<1>1. /\ c \in Contexts /\ lock = r
      /\ row[c].status # "running"
      /\ cache[r] = Merged(row[c].cache, c.profile)
  BY <1>0 DEF PlaceInv, LockInv, ReadInv
<1>2. \A k \in Keys : /\ cache[r][k] = IF k \in shared[c.profile] THEN "mapped" ELSE row[c].cache[k]
                      /\ known[k] \in {row[c].cache[k], "mapped"}
                      /\ cache[r][k] \in {known[k], "mapped"}
                      /\ known[k] = "none" => row[c].cache[k] = "none"
                      /\ row[c].cache[k] = "mapped" => known[k] = "mapped"
  BY <1>1 DEF Merged
<1>3. missing \in SUBSET Keys /\ \A k \in missing : cache[r][k] = "none" /\ known[k] = "none"
  <2>1. missing \in SUBSET Keys /\ \A k \in missing : cache[r][k] = "none"
    BY DEF Needed, TypeOK
  <2>2. QED
    BY <1>2, <2>1
<1>4. \A q \in Requests \ {r} : /\ pc[q] \notin {"claiming", "taking"}
                                /\ pc[q] \in Working => ctx[q] # c
  BY <1>0, <1>1 DEF LockInv, WorkInv
<1>5. /\ asked' \in [Contexts -> [Keys -> 0..2]]
      /\ \A k \in missing : asked[c][k] = 0
      /\ \A k \in missing : asked'[c][k] = 1
      /\ \A k \in Keys \ missing : asked'[c][k] = asked[c][k]
      /\ \A d \in Contexts \ {c} : asked'[d] = asked[d]
  <2>1. \A k \in missing : row[c].cache[k] = "none" /\ row[c].pending = {}
    BY <1>1, <1>2, <1>3 DEF RowInv
  <2>2. \A k \in missing : asked[c][k] = 0
    BY <1>1, <1>3, <2>1 DEF AskedInv
  <2>3. asked' = [asked EXCEPT ![c] = [k \in Keys |->
                   IF k \in missing /\ asked[c][k] < 2 THEN asked[c][k] + 1 ELSE asked[c][k]]]
    BY DEF Claim
  <2> HIDE DEF c, missing
  <2>4. QED
    BY <1>1, <1>3, <2>2, <2>3 DEF TypeOK
<1> HIDE DEF c, missing, known
<1>6. /\ \A d \in Contexts \ {c} : row'[d] = row[d] /\ stale'[d] = stale[d]
      /\ row'[c] = [status |-> "running", token |-> r, pending |-> missing, cache |-> known]
      /\ stale'[c] = FALSE
  BY <1>0, <1>1 DEF TypeOK
<1>7. \A q \in Requests \ {r} : pc[q] \in Working => ctx[q] \in Contexts \ {c}
  BY <1>4 DEF PlaceInv
<1>8. ctx[r] = c /\ pending'[r] = missing /\ pc'[r] = "calling"
  BY <1>0 DEF c, TypeOK
<1>9. RowInv'
  BY <1>0, <1>3, <1>6 DEF RowInv
<1>10. WorkInv'
  BY <1>0, <1>6, <1>7, <1>8 DEF TypeOK, WorkInv
<1>11. ReadInv' /\ MergedInv'
  BY <1>0, <1>4 DEF TypeOK, ReadInv, MergedInv
<1>12. KnownInv'
  BY <1>0, <1>2, <1>6, <1>7, <1>8 DEF TypeOK, KnownInv
<1>13. AskedInv'
  <2>1. \A k \in Keys : row[c].cache[k] # "none" => known[k] # "none"
    BY <1>2
  <2>2. \A k \in Keys : k \notin row[c].pending
    BY <1>1 DEF RowInv
  <2>3. QED
    BY <1>5, <1>6, <2>1, <2>2 DEF AskedInv
<1>14. SharedVerified'
  <2>1. \A k \in Keys : row[c].cache[k] = "mapped" => row'[c].cache[k] = "mapped"
    BY <1>2, <1>6
  <2>2. QED
    BY <1>0, <1>6, <2>1 DEF SharedVerified, TypeOK
<1>15. QED
  BY <1>9, <1>10, <1>11, <1>12, <1>13, <1>14

\* The call, and the look at the row after it: a live worker finds its claim.
LEMMA ClaimsCall ==
    ASSUME Core, Claims, NEW r \in Requests, Return(r) \/ Fail(r) \/ Refresh(r)
    PROVE  Claims'
<1> USE DEF Claims, Core
<1>1. CASE Return(r) \/ Fail(r)
  <2>0. CallOver(r)
    BY <1>1, CallEnds
  <2>1. PICK known \in Caches :
          /\ cache' = [cache EXCEPT ![r] = known]
          /\ \A k \in pending[r] : known[k] # "none"
          /\ \A k \in Keys \ pending[r] : known[k] = cache[r][k]
    BY <2>0 DEF CallOver
  <2>2. /\ pc[r] = "calling" /\ pc' = [pc EXCEPT ![r] = "answered"]
        /\ UNCHANGED <<row, stale, shared, asked, ctx, pending, merged>>
    BY <2>0 DEF CallOver, store
  <2>3. RowInv' /\ AskedInv' /\ SharedVerified'
    BY <2>2 DEF RowInv, AskedInv, SharedVerified
  <2>4. WorkInv' /\ MergedInv'
    BY <2>1, <2>2 DEF TypeOK, WorkInv, MergedInv
  <2>5. KnownInv'
    BY <2>1, <2>2 DEF TypeOK, KnownInv
  <2>6. ReadInv'
    <3>1. \A c \in Contexts : Merged(row[c].cache, c.profile)' = Merged(row[c].cache, c.profile)
      BY <2>2 DEF Merged
    <3>2. \A q \in Requests : pc'[q] \in {"claiming", "taking"} =>
             q # r /\ pc'[q] = pc[q] /\ ctx[q] \in Contexts /\ cache'[q] = cache[q]
      BY <2>1, <2>2 DEF TypeOK, PlaceInv
    <3>3. QED
      BY <2>2, <3>1, <3>2 DEF ReadInv
  <2>7. QED
    BY <2>3, <2>4, <2>5, <2>6
<1>2. CASE Refresh(r)
  <2>1. pc[r] = "answered" /\ pc' = [pc EXCEPT ![r] = "finishing"]
    BY <1>2 DEF Refresh, Step, WorkInv
  <2>2. UNCHANGED <<row, stale, shared, asked, ctx, cache, pending, merged>>
    BY <1>2 DEF Refresh, store, locals
  <2>3. RowInv' /\ AskedInv' /\ SharedVerified'
    BY <2>2 DEF RowInv, AskedInv, SharedVerified
  <2>4. WorkInv' /\ KnownInv' /\ MergedInv'
    BY <2>1, <2>2 DEF TypeOK, WorkInv, KnownInv, MergedInv
  <2>5. ReadInv'
    <3>1. \A c \in Contexts : Merged(row[c].cache, c.profile)' = Merged(row[c].cache, c.profile)
      BY <2>2 DEF Merged
    <3>2. \A q \in Requests : pc'[q] \in {"claiming", "taking"} =>
             pc'[q] = pc[q] /\ ctx[q] \in Contexts
      BY <2>1 DEF TypeOK, PlaceInv
    <3>3. QED
      BY <2>2, <3>1, <3>2 DEF ReadInv
  <2>6. QED
    BY <2>3, <2>4, <2>5
<1>3. QED
  BY <1>1, <1>2

\* Reading the shared row under the lock.
LEMMA ClaimsLockShared ==
    ASSUME Core, Claims, NEW r \in Requests, LockShared(r)
    PROVE  Claims'
<1> USE DEF Claims, Core
<1>0. /\ pc[r] = "finishing" /\ pc' = [pc EXCEPT ![r] = "sharing"]
      /\ merged' = [merged EXCEPT ![r] = shared[ctx[r].profile] \cup Verified(r)]
      /\ UNCHANGED <<row, stale, shared, asked, ctx, cache, pending>>
  BY DEF LockShared, Step, SharedBy, store
<1>1. RowInv' /\ AskedInv' /\ SharedVerified'
  BY <1>0 DEF RowInv, AskedInv, SharedVerified
<1>2. WorkInv' /\ KnownInv'
  BY <1>0 DEF TypeOK, WorkInv, KnownInv
<1>3. ReadInv'
  <2>1. \A c \in Contexts : Merged(row[c].cache, c.profile)' = Merged(row[c].cache, c.profile)
    BY <1>0 DEF Merged
  <2>2. \A q \in Requests : pc'[q] \in {"claiming", "taking"} =>
           pc'[q] = pc[q] /\ ctx[q] \in Contexts
    BY <1>0 DEF TypeOK, PlaceInv
  <2>3. QED
    BY <1>0, <2>1, <2>2 DEF ReadInv
<1>4. MergedInv'
  <2>1. \A k \in Verified(r) : cache[r][k] = "mapped"
    BY DEF Verified
  <2>2. QED
    BY <1>0, <2>1 DEF TypeOK, MergedInv
<1>5. QED
  BY <1>1, <1>2, <1>3, <1>4

\* Writing the outcome: the claim was still there, and what is known stays known.
LEMMA ClaimsWrite ==
    ASSUME Core, Claims, NEW r \in Requests, Finish(r) \/ FinishShared(r)
    PROVE  Claims'
<1> USE DEF Claims, Core
<1> DEFINE c == ctx[r]
<1>0. /\ pc[r] \in {"finishing", "sharing"}
      /\ pc' = [pc EXCEPT ![r] = "checking"]
      /\ row' = [row EXCEPT ![c] = [status |-> outcome[r], token |-> NoOne,
                                    pending |-> {}, cache |-> cache[r]]]
      /\ stale' = [stale EXCEPT ![c] = FALSE]
      /\ UNCHANGED <<ctx, cache, pending, asked>>
      /\ \A q \in Requests \ {r} : merged'[q] = merged[q]
  BY DEF Finish, FinishShared, WriteBack, Step, FinalStatus, TypeOK
<1>1. c \in Contexts /\ c.profile \in Profiles /\ outcome[r] \in {"ready", "failed"}
  BY <1>0, PlaceFacts DEF PlaceInv, TypeOK
<1>2. /\ row[c].status = "running" /\ row[c].token = r /\ ~stale[c]
      /\ row[c].pending = pending[r]
      /\ \A k \in Keys \ pending[r] : cache[r][k] \in {row[c].cache[k], "mapped"}
      /\ \A k \in pending[r] : cache[r][k] # "none"
  BY <1>0 DEF WorkInv, KnownInv
<1>3. \A q \in Requests \ {r} : /\ pc[q] \in Working => ctx[q] # c
                                /\ pc[q] \in {"claiming", "taking"} => ctx[q] # c
  BY <1>2 DEF WorkInv, ReadInv
<1>4. \/ UNCHANGED shared
      \/ /\ pc[r] = "sharing"
         /\ shared' = [shared EXCEPT ![c.profile] = merged[r]]
  BY DEF Finish, FinishShared, SharedBy
<1>5. shared' = shared \/ \A q \in Requests \ {r} : pc[q] \notin Locked \cup {"sharing"}
  BY <1>4 DEF LockInv
<1> HIDE DEF c
<1>6. /\ \A d \in Contexts \ {c} : row'[d] = row[d] /\ stale'[d] = stale[d]
      /\ row'[c] = [status |-> outcome[r], token |-> NoOne, pending |-> {}, cache |-> cache[r]]
  BY <1>0, <1>1 DEF TypeOK
<1>7. \A q \in Requests \ {r} : pc[q] \in Working \cup {"claiming", "taking"}
                               => ctx[q] \in Contexts \ {c}
  BY <1>3 DEF PlaceInv
<1>8. RowInv'
  BY <1>1, <1>6 DEF RowInv
<1>9. WorkInv' /\ KnownInv'
  BY <1>0, <1>6, <1>7 DEF TypeOK, WorkInv, KnownInv
<1>10. ReadInv'
  <2>1. ASSUME NEW q \in Requests, pc'[q] \in {"claiming", "taking"}
        PROVE  /\ pc'[q] = pc[q] /\ ctx[q] \in Contexts \ {c}
               /\ row'[ctx[q]] = row[ctx[q]] /\ stale'[ctx[q]] = stale[ctx[q]] /\ shared' = shared
    <3>1. q # r /\ pc'[q] = pc[q]
      BY <1>0, <2>1 DEF TypeOK
    <3>2. ctx[q] \in Contexts \ {c}
      BY <1>7, <2>1, <3>1
    <3>3. shared' = shared
      BY <1>5, <2>1, <3>1
    <3>4. QED
      BY <1>6, <3>1, <3>2, <3>3
  <2>2. ctx' = ctx /\ cache' = cache /\ pending' = pending
    BY <1>0
  <2>3. ASSUME NEW q \in Requests, pc'[q] \in {"claiming", "taking"}
        PROVE  cache'[q] = Merged(row[ctx[q]].cache, ctx[q].profile)'
    <3>1. cache[q] = Merged(row[ctx[q]].cache, ctx[q].profile)
      BY <2>1, <2>3 DEF ReadInv
    <3>2. Merged(row[ctx[q]].cache, ctx[q].profile)' = Merged(row[ctx[q]].cache, ctx[q].profile)
      BY <2>1, <2>2, <2>3 DEF Merged
    <3>3. QED
      BY <2>2, <3>1, <3>2
  <2>4. ASSUME NEW q \in Requests, pc'[q] \in {"claiming", "taking"}
        PROVE  /\ pc'[q] = "claiming" => row'[ctx'[q]].status # "running"
               /\ pc'[q] = "taking" => /\ row'[ctx'[q]].status = "running" /\ stale'[ctx'[q]]
                                       /\ row'[ctx'[q]].pending = pending'[q]
    <3>1. pc'[q] = pc[q] /\ row'[ctx'[q]] = row[ctx[q]] /\ stale'[ctx'[q]] = stale[ctx[q]]
      BY <2>1, <2>2, <2>4
    <3>2. QED
      BY <2>2, <3>1 DEF ReadInv
  <2>5. QED
    BY <2>3, <2>4 DEF ReadInv
<1>11. AskedInv'
  <2>1. \A k \in Keys : row[c].cache[k] # "none" \/ k \in row[c].pending => cache[r][k] # "none"
    BY <1>2
  <2>2. QED
    BY <1>0, <1>6, <2>1 DEF AskedInv
<1>12. SharedVerified'
  <2>1. \A k \in Keys : row[c].cache[k] = "mapped" => cache[r][k] = "mapped"
    BY <1>1, <1>2 DEF RowInv
  <2>2. ASSUME NEW f \in Profiles, NEW k \in shared[f]
        PROVE  \E d \in Contexts : d.profile = f /\ row'[d].cache[k] = "mapped"
    <3>1. PICK d \in Contexts : d.profile = f /\ row[d].cache[k] = "mapped"
      BY DEF SharedVerified
    <3>2. k \in Keys
      BY DEF TypeOK
    <3>3. QED
      BY <1>6, <2>1, <3>1, <3>2
  <2>3. ASSUME NEW k \in merged[r], pc[r] = "sharing"
        PROVE  \E d \in Contexts : d.profile = c.profile /\ row'[d].cache[k] = "mapped"
    <3>1. CASE k \in shared[c.profile]
      BY <1>1, <2>2, <3>1
    <3>2. CASE k \notin shared[c.profile]
      BY <1>1, <1>6, <2>3, <3>2 DEF MergedInv, c
    <3>3. QED
      BY <3>1, <3>2
  <2>4. CASE UNCHANGED shared
    BY <2>2, <2>4 DEF SharedVerified
  <2>5. CASE pc[r] = "sharing" /\ shared' = [shared EXCEPT ![c.profile] = merged[r]]
    <3>1. ASSUME NEW f \in Profiles, NEW k \in shared'[f]
          PROVE  \E d \in Contexts : d.profile = f /\ row'[d].cache[k] = "mapped"
      <4>1. CASE f = c.profile
        <5>1. k \in merged[r]
          BY <2>5, <3>1, <4>1 DEF TypeOK
        <5>2. QED
          BY <2>3, <2>5, <4>1, <5>1
      <4>2. CASE f # c.profile
        <5>1. k \in shared[f]
          BY <2>5, <3>1, <4>2 DEF TypeOK
        <5>2. QED
          BY <2>2, <5>1
      <4>3. QED
        BY <4>1, <4>2
    <3>2. QED
      BY <3>1 DEF SharedVerified
  <2>6. QED
    BY <1>4, <2>4, <2>5
<1>13. MergedInv'
  BY <1>0, <1>5 DEF TypeOK, MergedInv
<1>14. QED
  BY <1>8, <1>9, <1>10, <1>11, <1>12, <1>13

\* No claim of a live worker ages; edits do not touch what is stored.
LEMMA ClaimsOutside ==
    ASSUME Timely, Core, Claims,
           \/ UNCHANGED vars
           \/ \E c \in Contexts : Age(c)
           \/ \E p \in Pages : EditJob(p)
           \/ EditProfile
    PROVE  Claims'
<1> USE DEF Claims, Core
<1>1. /\ UNCHANGED <<row, shared, pc, locals, asked>>
      /\ \/ UNCHANGED stale
         \/ \E c \in Contexts : ~Alive(c) /\ stale' = [stale EXCEPT ![c] = TRUE]
  BY DEF Age, EditJob, EditProfile, store, vars
<1>2. RowInv' /\ AskedInv' /\ SharedVerified'
  BY <1>1 DEF RowInv, AskedInv, SharedVerified
<1>3. KnownInv' /\ MergedInv'
  BY <1>1 DEF KnownInv, MergedInv, locals
<1>4. WorkInv'
  <2>1. ASSUME NEW q \in Requests, pc[q] \in Working
        PROVE  ~stale'[ctx[q]]
    <3>1. ctx[q] \in Contexts /\ Alive(ctx[q]) /\ ~stale[ctx[q]]
      BY <2>1 DEF PlaceInv, WorkInv, Alive
    <3>2. QED
      BY <1>1, <3>1 DEF TypeOK
  <2>2. QED
    BY <1>1, <2>1 DEF WorkInv, locals
<1>5. ReadInv'
  <2>1. \A c \in Contexts : Merged(row[c].cache, c.profile)' = Merged(row[c].cache, c.profile)
    BY <1>1 DEF Merged
  <2>2. \A c \in Contexts : stale[c] => stale'[c]
    BY <1>1 DEF TypeOK
  <2>3. \A q \in Requests : pc[q] \in {"claiming", "taking"} => ctx[q] \in Contexts
    BY DEF PlaceInv
  <2>4. QED
    BY <1>1, <2>1, <2>2, <2>3 DEF ReadInv, locals
<1>6. QED
  BY <1>2, <1>3, <1>4, <1>5

LEMMA ClaimsStep == Timely /\ Core /\ Claims /\ [Next]_vars => Claims'
<1> SUFFICES ASSUME Timely, Core, Claims, [Next]_vars PROVE Claims'
  OBVIOUS
<1>1. ASSUME NEW r \in Requests, Read(r) \/ Open(r) \/ Handler(r) \/ Crash(r)
      PROVE  Claims'
  BY <1>1, ClaimsLeave, ClaimsLock, ClaimsTakeOver, ClaimsClaim, ClaimsCall, ClaimsWrite,
     ClaimsLockShared DEF Handler
<1>2. QED
  BY <1>1, ClaimsOutside DEF Next

THEOREM ClaimsInvariance == ASSUME Timely PROVE Spec => []Claims
<1>1. Core /\ Claims /\ [Next]_vars => Claims'
  BY ClaimsStep
<1>2. QED
  BY <1>1, ClaimsInit, CoreInvariance, PTL DEF Spec

\* One provider request at a time for a context.
THEOREM OneCallHolds == ASSUME Timely PROVE Spec => []OneCall
<1>1. Claims => OneCall
  BY DEF Claims, WorkInv, OneCall
<1>2. QED
  BY <1>1, ClaimsInvariance, PTL

\* No question is paid for twice.
THEOREM AskedOnceHolds == ASSUME Timely PROVE Spec => []AskedOnce
<1>1. Claims => AskedOnce
  BY DEF Claims, AskedInv, AskedOnce
<1>2. QED
  BY <1>1, ClaimsInvariance, PTL

\* Mappings are shared only with the profile they were verified against.
THEOREM SharedVerifiedHolds == ASSUME Timely PROVE Spec => []SharedVerified
<1>1. Claims => SharedVerified
  BY DEF Claims
<1>2. QED
  BY <1>1, ClaimsInvariance, PTL
-------------------------------------------------------------------------------
\* Writing one row moves one context of the ledger.
LEMMA LedgerMoves ==
    ASSUME Core, NEW c \in Contexts, NEW entry \in Rows, row' = [row EXCEPT ![c] = entry]
    PROVE  Ledger' = [Ledger EXCEPT ![c] = [k \in Keys |-> KeyState(entry, k)]]
<1>1. \A d \in Contexts : row'[d] = IF d = c THEN entry ELSE row[d]
  BY DEF Core, TypeOK
<1>2. \A d \in Contexts, k \in Keys :
         KeyState(row'[d], k) = IF d = c THEN KeyState(entry, k) ELSE KeyState(row[d], k)
  BY <1>1 DEF KeyState
<1>3. QED
  BY <1>2 DEF Ledger

LEMMA StateFacts ==
    \A entry \in Rows : \A k \in Keys :
       /\ KeyState(entry, k) \in {"none", "asked", "good", "failed"}
       /\ KeyState(entry, k) = "good" <=> entry.cache[k] \in Good
       /\ KeyState(entry, k) = "failed" <=> entry.cache[k] = "failed"
       /\ KeyState(entry, k) = "asked" <=> /\ entry.cache[k] = "none"
                                           /\ entry.status = "running" /\ k \in entry.pending
  BY DEF KeyState, Rows, Caches

\* A running row that is closed settles what it had asked for.
LEMMA RowSettles ==
    ASSUME Core, Claims, NEW c \in Contexts, NEW entry \in Rows,
           row' = [row EXCEPT ![c] = entry],
           row[c].status = "running", entry.status # "running",
           \A k \in row[c].pending : entry.cache[k] # "none",
           \A k \in Keys \ row[c].pending : entry.cache[k] \in {row[c].cache[k], "mapped"}
    PROVE  Promise!Settle(c)
<1> DEFINE next == [k \in Keys |-> KeyState(entry, k)]
<1>1. Ledger' = [Ledger EXCEPT ![c] = next]
  BY LedgerMoves
<1>2. row[c] \in Rows /\ row[c].pending \subseteq Keys /\ row[c].pending # {}
  BY DEF Core, TypeOK, Rows, Claims, RowInv
<1>3. \A k \in Keys : Ledger[c][k] = KeyState(row[c], k)
  BY DEF Ledger
<1>4. Promise!InFlight(c) = row[c].pending
  BY <1>2, <1>3, StateFacts DEF Promise!InFlight, Claims, RowInv
<1>5. next \in [Keys -> Promise!States]
  BY StateFacts DEF Promise!States
<1>6. \A k \in row[c].pending : next[k] \in {"good", "failed"}
  <2>1. \A k \in Keys : entry.cache[k] \in Good \cup {"none", "failed"}
    BY DEF Rows, Caches
  <2>2. QED
    BY <1>2, <2>1, StateFacts
<1>7. Promise!OthersLearn(c, row[c].pending, next)
  <2>1. ASSUME NEW k \in Keys \ row[c].pending
        PROVE  next[k] = Ledger[c][k] \/ (Ledger[c][k] \in {"none", "failed"} /\ next[k] = "good")
    <3>1. CASE entry.cache[k] = "mapped"
      <4>1. next[k] = "good"
        BY <3>1, StateFacts
      <4>2. Ledger[c][k] \in {"none", "failed", "good"}
        BY <1>2, <1>3, StateFacts
      <4>3. QED
        BY <4>1, <4>2
    <3>2. CASE entry.cache[k] = row[c].cache[k]
      BY <1>3, <3>2 DEF KeyState
    <3>3. QED
      BY <3>1, <3>2
  <2>2. QED
    BY <2>1 DEF Promise!OthersLearn
<1> HIDE DEF next
<1>8. QED
  BY <1>1, <1>2, <1>4, <1>5, <1>6, <1>7 DEF Promise!Settle

LEMMA TakeOverSettles ==
    ASSUME Core, Claims, NEW r \in Requests, TakeOver(r)
    PROVE  Promise!Settle(ctx[r])
<1> DEFINE c == ctx[r]
           entry == [status |-> "failed", token |-> NoOne, pending |-> {}, cache |-> Interrupted(r)]
<1>1. /\ pc[r] = "taking" /\ c \in Contexts /\ c.profile \in Profiles
      /\ row' = [row EXCEPT ![c] = entry]
  BY PlaceFacts DEF TakeOver, Core, PlaceInv
<1>2. /\ row[c].status = "running" /\ row[c].pending = pending[r]
      /\ cache[r] = Merged(row[c].cache, c.profile)
  BY <1>1 DEF Claims, ReadInv
<1>3. Interrupted(r) \in Caches
  BY <1>1, CacheFacts DEF Core, TypeOK, Interrupted
<1>4. \A k \in Keys : Interrupted(r)[k] = IF k \in row[c].pending THEN "failed"
                                 ELSE IF k \in shared[c.profile] THEN "mapped" ELSE row[c].cache[k]
  BY <1>2 DEF Interrupted, FailPending, Merged
<1>5. row[c].pending \subseteq Keys
  BY <1>1 DEF Core, TypeOK, Rows
<1>6. entry \in Rows
  BY <1>3 DEF Rows
<1>7. /\ \A k \in row[c].pending : entry.cache[k] # "none"
      /\ \A k \in Keys \ row[c].pending : entry.cache[k] \in {row[c].cache[k], "mapped"}
      /\ entry.status # "running"
  BY <1>4, <1>5
<1> HIDE DEF c, entry
<1>8. Promise!Settle(c)
  BY <1>1, <1>2, <1>6, <1>7, RowSettles
<1>9. QED
  BY <1>8 DEF c

LEMMA WriteSettles ==
    ASSUME Core, Claims, NEW r \in Requests, Finish(r) \/ FinishShared(r)
    PROVE  Promise!Settle(ctx[r])
<1> DEFINE c == ctx[r]
           entry == [status |-> outcome[r], token |-> NoOne, pending |-> {}, cache |-> cache[r]]
<1>1. /\ pc[r] \in {"finishing", "sharing"} /\ c \in Contexts
      /\ row' = [row EXCEPT ![c] = entry]
      /\ outcome[r] \in {"ready", "failed"} /\ cache[r] \in Caches
  BY DEF Finish, FinishShared, WriteBack, FinalStatus, Core, PlaceInv, TypeOK
<1>2. /\ row[c].status = "running" /\ row[c].pending = pending[r]
      /\ \A k \in Keys \ pending[r] : cache[r][k] \in {row[c].cache[k], "mapped"}
      /\ \A k \in pending[r] : cache[r][k] # "none"
  BY <1>1 DEF Claims, WorkInv, KnownInv
<1>3. entry \in Rows /\ entry.status # "running" /\ entry.cache = cache[r]
  BY <1>1 DEF Rows
<1> HIDE DEF c, entry
<1>4. Promise!Settle(c)
  BY <1>1, <1>2, <1>3, RowSettles
<1>5. QED
  BY <1>4 DEF c

LEMMA ClaimAsks ==
    ASSUME Core, Claims, NEW r \in Requests, Claim(r)
    PROVE  Promise!Ask(ctx[r])
<1> DEFINE c == ctx[r]
           missing == Needed(keys[r], cache[r])
           known == IF row[c].status = "none" THEN cache[r] ELSE row[c].cache
           entry == [status |-> "running", token |-> r, pending |-> missing, cache |-> known]
           next == [k \in Keys |-> KeyState(entry, k)]
<1>1. /\ pc[r] = "claiming" /\ c \in Contexts /\ missing # {}
      /\ row' = [row EXCEPT ![c] = entry]
  BY DEF Claim, Core, PlaceInv
<1>2. row[c].status # "running" /\ cache[r] = Merged(row[c].cache, c.profile)
  BY <1>1 DEF Claims, ReadInv
<1>3. row[c] \in Rows /\ known \in Caches
  BY <1>1 DEF Core, TypeOK, Rows
<1>4. missing \in SUBSET Keys /\ \A k \in missing : cache[r][k] = "none"
  BY DEF Needed, Core, TypeOK
<1>5. \A k \in Keys : /\ known[k] \in {row[c].cache[k], "mapped"}
                      /\ cache[r][k] = "none" => known[k] = "none" /\ row[c].cache[k] = "none"
  BY <1>2 DEF Merged
<1>6. entry \in Rows
  BY <1>3, <1>4 DEF Rows
<1>7. Ledger' = [Ledger EXCEPT ![c] = next]
  BY <1>1, <1>6, LedgerMoves
<1>8. \A k \in Keys : Ledger[c][k] = KeyState(row[c], k) /\ Ledger[c][k] # "asked"
  BY <1>1, <1>2, <1>3, StateFacts DEF Ledger
<1>9. Promise!InFlight(c) = {}
  BY <1>8 DEF Promise!InFlight
<1>10. \A k \in missing : Ledger[c][k] = "none" /\ next[k] = "asked"
  BY <1>4, <1>5, <1>8 DEF KeyState
<1>11. next \in [Keys -> Promise!States]
  BY <1>6, StateFacts DEF Promise!States
<1>12. Promise!OthersLearn(c, missing, next)
  <2>1. ASSUME NEW k \in Keys \ missing
        PROVE  next[k] = Ledger[c][k] \/ (Ledger[c][k] \in {"none", "failed"} /\ next[k] = "good")
    <3>1. CASE known[k] = "mapped"
      <4>1. next[k] = "good"
        BY <1>6, <3>1, StateFacts
      <4>2. Ledger[c][k] \in {"none", "failed", "good"}
        BY <1>3, <1>8, StateFacts
      <4>3. QED
        BY <4>1, <4>2
    <3>2. CASE known[k] = row[c].cache[k]
      BY <1>2, <1>8, <3>2 DEF KeyState
    <3>3. QED
      BY <1>5, <3>1, <3>2
  <2>2. QED
    BY <2>1 DEF Promise!OthersLearn
<1> HIDE DEF c, missing, known, entry, next
<1>13. Promise!Ask(c)
  BY <1>1, <1>4, <1>7, <1>9, <1>10, <1>11, <1>12 DEF Promise!Ask
<1>14. QED
  BY <1>13 DEF c

\* Every context's questions go through AnswerLedger.
THEOREM LedgerRefined == ASSUME Timely PROVE Spec => LedgerImplemented
<1>1. Init => Promise!Init
  BY DEF Init, Promise!Init, Ledger, KeyState, NoRow, Empty
<1>2. Core /\ Claims /\ [Next]_vars => [Promise!Next]_Ledger
  <2> SUFFICES ASSUME Core, Claims, [Next]_vars
               PROVE  [Promise!Next]_Ledger
    OBVIOUS
  <2>1. ASSUME UNCHANGED row
        PROVE  UNCHANGED Ledger
    BY <2>1 DEF Ledger, KeyState
  <2>2. ASSUME NEW r \in Requests, Claim(r) \/ TakeOver(r) \/ Finish(r) \/ FinishShared(r)
        PROVE  Promise!Next
    <3>1. ctx[r] \in Contexts
      BY <2>2 DEF Core, PlaceInv, Claim, TakeOver, Finish, FinishShared
    <3>2. QED
      BY <2>2, <3>1, ClaimAsks, TakeOverSettles, WriteSettles DEF Promise!Next
  <2>3. ASSUME NEW r \in Requests,
               Read(r) \/ Open(r) \/ Crash(r) \/ LockOwner(r) \/ Join(r) \/ Satisfied(r) \/ Return(r)
                 \/ Fail(r) \/ Refresh(r) \/ LockShared(r) \/ Check(r)
        PROVE  UNCHANGED row
    BY <2>3 DEF Read, Open, Crash, LockOwner, Join, Satisfied, Return, Fail, Refresh, LockShared,
                Check, store
  <2>4. ASSUME \/ UNCHANGED vars
               \/ \E c \in Contexts : Age(c)
               \/ \E p \in Pages : EditJob(p)
               \/ EditProfile
        PROVE  UNCHANGED row
    BY <2>4 DEF vars, Age, EditJob, EditProfile, store
  <2>5. QED
    BY <2>1, <2>2, <2>3, <2>4 DEF Next, Handler
<1>3. QED
  BY <1>1, <1>2, CoreInvariance, ClaimsInvariance, PTL DEF Spec, LedgerImplemented, Promise!Spec
===============================================================================
