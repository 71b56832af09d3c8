--------------------------- MODULE AnswerPreparation ---------------------------
(***************************************************************************)
(* The durable answer cache of one user (backend/app/answer_preparation/   *)
(* service.py): concurrent requests for the same or for different contexts *)
(* claim a batch of questions under the owner's row lock, call the paid    *)
(* model without any lock, and write the outcome back if the claim is      *)
(* still theirs.  A claim older than 20 seconds is taken over and failed.  *)
(*                                                                         *)
(* A key is a question of a form, or stands for the general drafts that    *)
(* only the warm-up route asks for.  A context stands for its hash: page,  *)
(* job description and profile.                                            *)
(***************************************************************************)
EXTENDS Naturals, FiniteSets

CONSTANTS
    Requests,   \* handlers serving HTTP requests of the user
    Pages,      \* application pages, one job each
    Editions,   \* contents a job description may have
    Profiles,   \* contents of the saved profile and the selected PDF
    Fields,     \* questions of the forms
    Drafts,     \* {"__common__"}: the key of the general drafts
    Timely,     \* TRUE: a live worker writes back within the 20 seconds
    NoOne

ASSUME KeysAssumption == Drafts \cap Fields = {}
ASSUME TimelyAssumption == Timely \in BOOLEAN
ASSUME NoOneAssumption == NoOne \notin Requests

VARIABLES
    jd,         \* page -> its job description now
    profile,    \* the profile now
    row,        \* context -> its answer_preparations row
    stale,      \* context -> its running claim is older than 20 seconds
    shared,     \* profile -> keys with a verified mapping to a saved fact
    lock,       \* who holds the owner's row lock
    pc,         \* request -> where its handler is
    ctx, keys,  \* request -> the context and the keys it asks about
    cache,      \* request -> its copy of the cache, then what the call made of it
    pending,    \* request -> the keys it claimed, or those of the claim it takes over
    outcome,    \* request -> how its model call ended
    merged,     \* request -> the shared mappings it is about to write
    asked       \* context, key -> calls that asked for it (0, 1, 2 or more)

store == <<row, stale, shared>>
inputs == <<jd, profile>>
locals == <<ctx, keys, cache, pending, outcome, merged>>
vars == <<inputs, store, lock, pc, locals, asked>>

Keys == Fields \cup Drafts
Contexts == [page : Pages, jd : Editions, profile : Profiles]
Good == {"mapped", "answered"}
Caches == [Keys -> Good \cup {"none", "failed"}]
Empty == [k \in Keys |-> "none"]

RowStatus == {"none", "running", "ready", "failed"}
Resting == {"idle", "reported", "preparing"}
Locked == {"joining", "taking", "claiming"}
Working == {"calling", "answered", "finishing", "sharing"}

Rows == [status : RowStatus, token : Requests \cup {NoOne}, cache : Caches,
         pending : SUBSET Keys]

TypeOK ==
    /\ jd \in [Pages -> Editions]
    /\ profile \in Profiles
    /\ row \in [Contexts -> Rows]
    /\ stale \in [Contexts -> BOOLEAN]
    /\ shared \in [Profiles -> SUBSET Fields]
    /\ lock \in Requests \cup {NoOne}
    /\ pc \in [Requests -> Resting \cup Locked \cup Working \cup {"locking", "checking"}]
    /\ ctx \in [Requests -> Contexts \cup {NoOne}]
    /\ keys \in [Requests -> SUBSET Keys]
    /\ cache \in [Requests -> Caches]
    /\ pending \in [Requests -> SUBSET Keys]
    /\ outcome \in [Requests -> {"none", "ready", "failed"}]
    /\ merged \in [Requests -> SUBSET Fields]
    /\ asked \in [Contexts -> [Keys -> 0..2]]

NoRow == [status |-> "none", token |-> NoOne, cache |-> Empty, pending |-> {}]

Init ==
    /\ jd \in [Pages -> Editions]
    /\ profile \in Profiles
    /\ row = [c \in Contexts |-> NoRow]
    /\ stale = [c \in Contexts |-> FALSE]
    /\ shared = [f \in Profiles |-> {}]
    /\ lock = NoOne
    /\ pc = [r \in Requests |-> "idle"]
    /\ ctx = [r \in Requests |-> NoOne]
    /\ keys = [r \in Requests |-> {}]
    /\ cache = [r \in Requests |-> Empty]
    /\ pending = [r \in Requests |-> {}]
    /\ outcome = [r \in Requests |-> "none"]
    /\ merged = [r \in Requests |-> {}]
    /\ asked = [c \in Contexts |-> [k \in Keys |-> 0]]

-----------------------------------------------------------------------------
(* The context a page has now, as _snapshot hashes it.                     *)
Current(p) == [page |-> p, jd |-> jd[p], profile |-> profile]

(* Mappings verified for the profile override the context's own cache.     *)
Merged(known, f) == [k \in Keys |-> IF k \in shared[f] THEN "mapped" ELSE known[k]]

Needed(K, known) == {k \in K : known[k] = "none"}

\* Mutant: what a failed call asked for is left out of the cache.
FailPendingLost(known, lost) == known

(* Every pending key is recorded as failed, so that it is never retried.   *)
FailPending(known, lost) == [k \in Keys |-> IF k \in lost THEN "failed" ELSE known[k]]

(* A running row is reported "preparing" while something asked is missing. *)
Verdict(status, K, known) ==
    IF status = "running" /\ \E k \in K : known[k] \notin Good THEN "preparing" ELSE "reported"

-----------------------------------------------------------------------------
\* Mutant: nobody waits for the owner's lock.
LockIgnored == TRUE

LockFree == lock = NoOne

Step(r, to) == pc' = [pc EXCEPT ![r] = to]

(* The handler returns: with a report, with "preparing", or with neither.  *)
Leave(r, answer) ==
    /\ Step(r, answer)
    /\ ctx' = [ctx EXCEPT ![r] = NoOne]
    /\ keys' = [keys EXCEPT ![r] = {}]
    /\ cache' = [cache EXCEPT ![r] = Empty]
    /\ pending' = [pending EXCEPT ![r] = {}]
    /\ outcome' = [outcome EXCEPT ![r] = "none"]
    /\ merged' = [merged EXCEPT ![r] = {}]

(* A form asks for some of its questions, the warm-up for the drafts.      *)
Wanted == ((SUBSET Fields) \cup {Drafts}) \ {{}}
Warm(r) == keys[r] = Drafts

(* A request that is answered from the cache: it is cache_only, no model   *)
(* is configured, or nothing it asks is missing.                           *)
Read(r) ==
    \E p \in Pages, K \in Wanted :
       LET c == Current(p) IN
       /\ pc[r] \in Resting
       /\ Step(r, Verdict(row[c].status, K, Merged(row[c].cache, c.profile)))
       /\ UNCHANGED <<inputs, store, lock, locals, asked>>

(* A request that finds something missing goes for the owner's lock.       *)
Open(r) ==
    \E p \in Pages, K \in Wanted :
       LET c == Current(p) IN
       /\ pc[r] \in Resting
       /\ Needed(K, Merged(row[c].cache, c.profile)) # {}
       /\ Step(r, "locking")
       /\ ctx' = [ctx EXCEPT ![r] = c]
       /\ keys' = [keys EXCEPT ![r] = K]
       /\ UNCHANGED <<inputs, store, lock, cache, pending, outcome, merged, asked>>

(* Under the lock the row and the shared mappings are read again, and what *)
(* is found decides what to do.                                            *)
LockOwner(r) ==
    LET c == ctx[r] IN
    /\ pc[r] = "locking" /\ LockFree
    /\ lock' = r
    /\ Step(r, IF row[c].status # "running" THEN "claiming"
               ELSE IF stale[c] THEN "taking" ELSE "joining")
    /\ cache' = [cache EXCEPT ![r] = Merged(row[c].cache, c.profile)]
    /\ pending' = [pending EXCEPT ![r] = row[c].pending]
    /\ UNCHANGED <<inputs, store, ctx, keys, outcome, merged, asked>>

(* A claim of another request is in flight: roll back and report, with the *)
(* row's status read afresh after the rollback.                            *)
Join(r) ==
    /\ pc[r] = "joining"
    /\ lock' = NoOne
    /\ Leave(r, Verdict(row[ctx[r]].status, keys[r], cache[r]))
    /\ UNCHANGED <<inputs, store, asked>>

\* Mutant: the takeover starts from an empty cache.
InterruptedOnly(r) == FailPending(Empty, pending[r])

Interrupted(r) == FailPending(cache[r], pending[r])

(* The claim is older than 20 seconds: fail what it asked for.             *)
TakeOver(r) ==
    /\ pc[r] = "taking"
    /\ lock' = NoOne
    /\ row' = [row EXCEPT ![ctx[r]] =
                 [status |-> "failed", token |-> NoOne, pending |-> {},
                  cache |-> Interrupted(r)]]
    /\ stale' = [stale EXCEPT ![ctx[r]] = FALSE]
    /\ Leave(r, "reported")
    /\ UNCHANGED <<inputs, shared, asked>>

(* Meanwhile another request settled all that was missing.                 *)
Satisfied(r) ==
    /\ pc[r] = "claiming" /\ Needed(keys[r], cache[r]) = {}
    /\ lock' = NoOne
    /\ Leave(r, "reported")
    /\ UNCHANGED <<inputs, store, asked>>

(* Claim the missing keys.  A new row is created with the merged cache; an *)
(* existing one keeps its own until the call is over.                      *)
Claim(r) ==
    LET c == ctx[r]
        missing == Needed(keys[r], cache[r]) IN
    /\ pc[r] = "claiming" /\ missing # {}
    /\ lock' = NoOne
    /\ row' = [row EXCEPT ![c] =
                 [status |-> "running", token |-> r, pending |-> missing,
                  cache |-> IF row[c].status = "none" THEN cache[r] ELSE row[c].cache]]
    /\ stale' = [stale EXCEPT ![c] = FALSE]
    /\ pending' = [pending EXCEPT ![r] = missing]
    /\ asked' = [asked EXCEPT ![c] = [k \in Keys |->
                   IF k \in missing /\ asked[c][k] < 2 THEN asked[c][k] + 1 ELSE asked[c][k]]]
    /\ Step(r, "calling")
    /\ UNCHANGED <<inputs, shared, ctx, keys, cache, outcome, merged>>

-----------------------------------------------------------------------------
(* The model call ends.  A plan that validates settles every pending key   *)
(* one way or the other ...                                                *)
Return(r) ==
    /\ pc[r] = "calling"
    /\ Step(r, "answered")
    /\ \E plan \in [pending[r] -> Good \cup {"failed"}] :
          /\ \A k \in pending[r] \cap Drafts : plan[k] # "mapped"
          /\ cache' = [cache EXCEPT ![r] =
                [k \in Keys |-> IF k \in pending[r] THEN plan[k] ELSE cache[r][k]]]
    /\ outcome' = [outcome EXCEPT ![r] = "ready"]
    /\ UNCHANGED <<inputs, store, lock, ctx, keys, pending, merged, asked>>

(* ... and an invalid one, an error, the timeout or a cancellation fails   *)
(* them all.                                                               *)
Fail(r) ==
    /\ pc[r] = "calling"
    /\ Step(r, "answered")
    /\ cache' = [cache EXCEPT ![r] = FailPending(cache[r], pending[r])]
    /\ outcome' = [outcome EXCEPT ![r] = "failed"]
    /\ UNCHANGED <<inputs, store, lock, ctx, keys, pending, merged, asked>>

(* The row is read again, without the lock: is the claim still mine?       *)
Refresh(r) ==
    LET mine == row[ctx[r]].status = "running" /\ row[ctx[r]].token = r IN
    /\ pc[r] = "answered"
    /\ Step(r, IF mine THEN "finishing" ELSE "checking")
    /\ UNCHANGED <<inputs, store, lock, locals, asked>>

\* Mutant: whatever was pending is shared, the drafts too.
VerifiedAll(r) == IF outcome[r] = "ready" THEN pending[r] ELSE {}

(* Mappings the call verified are shared by the contexts of the profile.   *)
Verified(r) == IF outcome[r] = "ready" THEN {k \in pending[r] : cache[r][k] = "mapped"} ELSE {}

\* Mutant: the mappings go to the profile of the moment.
SharedNow(r) == profile

SharedBy(r) == ctx[r].profile

\* Mutant: a failed call leaves the row running.
FinalStatusReadyOnly(r) == IF outcome[r] = "ready" THEN "ready" ELSE "running"

FinalStatus(r) == outcome[r]

(* The outcome is written by primary key, whoever holds the row by now.    *)
WriteBack(r) ==
    /\ row' = [row EXCEPT ![ctx[r]] =
                 [status |-> FinalStatus(r), token |-> NoOne, pending |-> {}, cache |-> cache[r]]]
    /\ stale' = [stale EXCEPT ![ctx[r]] = FALSE]
    /\ Step(r, "checking")
    /\ UNCHANGED <<inputs, ctx, keys, cache, pending, outcome, asked>>

Finish(r) ==
    /\ pc[r] = "finishing" /\ Verified(r) = {}
    /\ WriteBack(r)
    /\ UNCHANGED <<shared, lock, merged>>

(* Sharing mappings waits for the lock and reads the shared row under it;  *)
(* the same transaction writes it and the outcome.                         *)
LockShared(r) ==
    /\ pc[r] = "finishing" /\ Verified(r) # {} /\ LockFree
    /\ lock' = r
    /\ Step(r, "sharing")
    /\ merged' = [merged EXCEPT ![r] = shared[SharedBy(r)] \cup Verified(r)]
    /\ UNCHANGED <<inputs, store, ctx, keys, cache, pending, outcome, asked>>

FinishShared(r) ==
    /\ pc[r] = "sharing"
    /\ lock' = NoOne
    /\ shared' = [shared EXCEPT ![SharedBy(r)] = merged[r]]
    /\ merged' = [merged EXCEPT ![r] = {}]
    /\ WriteBack(r)

(* The context as the handler sees it after the call.  The warm-up route   *)
(* holds the JobPosting it loaded in the same session, which commits do    *)
(* not expire: its job description is still the old one.                   *)
SeenAfter(r) == IF Warm(r) THEN [Current(ctx[r].page) EXCEPT !.jd = ctx[r].jd]
                ELSE Current(ctx[r].page)

(* Report, or answer 409 when the context changed during the call.         *)
Check(r) ==
    /\ pc[r] = "checking"
    /\ Leave(r, IF SeenAfter(r) = ctx[r] THEN "reported" ELSE "idle")
    /\ UNCHANGED <<inputs, store, lock, asked>>

-----------------------------------------------------------------------------
(* The process serving a request dies; its transaction rolls back.         *)
Crash(r) ==
    /\ pc[r] \notin Resting
    /\ Leave(r, "idle")
    /\ lock' = IF lock = r THEN NoOne ELSE lock
    /\ UNCHANGED <<inputs, store, asked>>

(* A live worker holds the claim on c.                                     *)
Alive(c) == \E r \in Requests : pc[r] \in Working /\ ctx[r] = c /\ row[c].token = r

(* Twenty seconds pass.  The call is cut off after 8, so a worker that is  *)
(* alive has normally written back.                                        *)
Age(c) ==
    /\ row[c].status = "running" /\ ~stale[c]
    /\ Timely => ~Alive(c)
    /\ stale' = [stale EXCEPT ![c] = TRUE]
    /\ UNCHANGED <<inputs, row, shared, lock, pc, locals, asked>>

EditJob(p) ==
    /\ \E e \in Editions \ {jd[p]} : jd' = [jd EXCEPT ![p] = e]
    /\ UNCHANGED <<profile, store, lock, pc, locals, asked>>

EditProfile ==
    /\ profile' \in Profiles \ {profile}
    /\ UNCHANGED <<jd, store, lock, pc, locals, asked>>

Handler(r) ==
    \/ LockOwner(r) \/ Join(r) \/ TakeOver(r) \/ Satisfied(r) \/ Claim(r)
    \/ Return(r) \/ Fail(r) \/ Refresh(r) \/ Finish(r) \/ LockShared(r) \/ FinishShared(r) \/ Check(r)

Next ==
    \/ \E r \in Requests : Read(r) \/ Open(r) \/ Handler(r) \/ Crash(r)
    \/ \E c \in Contexts : Age(c)
    \/ \E p \in Pages : EditJob(p)
    \/ EditProfile

Spec == Init /\ [][Next]_vars

(* A handler that can go on does; the database grants the lock to those    *)
(* who wait for it in turn; time passes.                                   *)
Fairness ==
    /\ \A r \in Requests : WF_vars(Handler(r)) /\ SF_vars(LockOwner(r)) /\ SF_vars(LockShared(r))
    /\ \A c \in Contexts : WF_vars(Age(c))

FairSpec == Spec /\ Fairness

-----------------------------------------------------------------------------
(* A key's state in the ledger of AnswerLedger.                            *)
KeyState(entry, k) ==
    IF entry.cache[k] \in Good THEN "good"
    ELSE IF entry.cache[k] = "failed" THEN "failed"
    ELSE IF entry.status = "running" /\ k \in entry.pending THEN "asked" ELSE "none"

Ledger == [c \in Contexts |-> [k \in Keys |-> KeyState(row[c], k)]]

Promise == INSTANCE AnswerLedger WITH ledger <- Ledger

(* Whatever requests run together, die or are taken over, every context's  *)
(* questions go through AnswerLedger: asked once, one batch at a time,     *)
(* settled for good.                                                       *)
LedgerImplemented == Promise!Spec

(* One provider request at a time for a context: two handlers never wait   *)
(* for the model on the same context (service.py:1060-1089).               *)
OneCall == \A r1, r2 \in Requests :
    pc[r1] \in Working /\ pc[r2] \in Working /\ ctx[r1] = ctx[r2] => r1 = r2

(* No question of a context is paid for twice, not even one whose call     *)
(* failed, died or was taken over (docs: "Real failures are retained       *)
(* without automatic paid retry").                                         *)
AskedOnce == \A c \in Contexts, k \in Keys : asked[c][k] <= 1

(* Mappings saved by different contexts at the same time never overwrite   *)
(* each other (service.py:1006-1022).                                      *)
SharedGrows == [][\A f \in Profiles : shared[f] \subseteq shared'[f]]_vars

(* A mapping is shared only with the profile it was verified against, even *)
(* when the profile changes during the call.                               *)
SharedVerified == \A f \in Profiles : \A k \in shared[f] :
    \E c \in Contexts : c.profile = f /\ row[c].cache[k] = "mapped"

(* "Never publish old-account/PDF/JD snapshots as current after an awaited *)
(* call" (service.py:1165): what is reported is about the page's context.  *)
CurrentReport == [][\A r \in Requests : pc[r] = "checking" /\ pc'[r] = "reported"
                      => ctx[r] = Current(ctx[r].page)]_vars

(* Every request that waits for the lock or for the model ends.            *)
EveryRequestEnds == \A r \in Requests : pc[r] \notin Resting ~> pc[r] \in Resting

(* A claim is released when its handler returns, whatever the call gave:   *)
(* only a handler that dies leaves the row running (service.py:1147-1159). *)
ClaimsEnd == \A r \in Requests, c \in Contexts :
    pc[r] \in Working /\ ctx[r] = c /\ row[c].token = r
        ~> row[c].status # "running" \/ pc[r] = "idle"

(* No request is left waiting, and none leaves its claim behind.           *)
PreparationConcludes == EveryRequestEnds /\ ClaimsEnd
=============================================================================
