------------------------- MODULE ExtractionRunsProofs -------------------------
(***************************************************************************)
(* Proofs about ExtractionRuns, for any requests, inputs and pipelines,    *)
(* any number of repairs, any timeout and any margin.                      *)
(***************************************************************************)
EXTENDS ExtractionRuns, TLAPS

(***************************************************************************)
(* The inductive invariant.  The uncommitted key is with the request whose *)
(* insert succeeded, and no committed run holds it (KeyInv); a row is      *)
(* committed from Start on and records the input its request extracts      *)
(* (RowInv); the running run is no repetition of a finished one (FreshInv);*)
(* the time since a row was built is the time spent in calls and outside   *)
(* (ElapsedInv).                                                           *)
(***************************************************************************)
Working == {"opening", "calling", "succeeded", "failing"}
Holding == {"inserted", "refreshed"}

KeyInv ==
    /\ \A r \in Requests : pc[r] \in Holding <=> keyHolder = r
    /\ \A r \in Requests : status[r] = "running" => keyHolder = None
    /\ \A q, r \in Requests : status[q] = "running" /\ status[r] = "running" => q = r

RowInv ==
    \A r \in Requests :
        /\ pc[r] \in {"idle", "inserting"} \union Holding => status[r] = "none"
        /\ pc[r] \in Working => status[r] # "none"
        /\ pc[r] \in Working \union {"refreshed"} => row[r].input = item[r]
        /\ status[r] = "needs_review" => result[r] = row[r].input

Same(q, r) == row[q].input = row[r].input /\ row[q].pipeline = row[r].pipeline

FreshInv ==
    \A q, r \in Requests :
        /\ q # r /\ ~forced[q] /\ ~forced[r]
        /\ status[q] = "needs_review" /\ status[r] \in {"running", "needs_review"}
        => ~Same(q, r)

\* The longest that n provider calls can take.
Budget(n) == CallTimeout * n

Spent(r) == IF pc[r] = "calling" THEN Budget(attempt[r] - 1) + spent[r]
            ELSE Budget(attempt[r])

ElapsedInv ==
    \A r \in Requests :
        /\ pc[r] \in Active /\ slack[r] < Margin
               => clock <= row[r].started + slack[r] + Spent(r)
        /\ pc[r] = "calling" => attempt[r] >= 1
        /\ pc[r] \in {"idle", "inserting", "opening"} \union Holding => attempt[r] = 0
        /\ pc[r] # "calling" => spent[r] = 0
        /\ pc[r] \in Active => row[r].expires = row[r].started + Lease
        /\ pc[r] \in Working /\ slack[r] < Margin => status[r] = "running"

IInv ==
    /\ TypeOK
    /\ KeyInv
    /\ RowInv
    /\ FreshInv
    /\ ElapsedInv
-------------------------------------------------------------------------------
(* Arithmetic of the call budget *)

\* Calls add up: each takes a timeout at most, and there are Retries + 1 of them.
LEMMA BudgetFacts ==
    /\ Budget(0) = 0
    /\ \A n \in Nat : Budget(n) \in Nat /\ Budget(n + 1) = Budget(n) + CallTimeout
    /\ \A n \in 0..(Retries + 1) : Budget(n) <= Budget(Retries + 1)
    /\ Lease = Budget(Retries + 1) + Margin
  BY TimeAssumption, SMTT(30) DEF Budget, Lease

-------------------------------------------------------------------------------
(* Every step preserves the invariant *)

USE NameAssumption, TimeAssumption
USE DEF Working, Holding, Active, Final, Contents, Committed

\* Before any request the invariant holds.
LEMMA InitInv == Init => IInv
<1> SUFFICES ASSUME Init PROVE IInv
  OBVIOUS
<1> USE DEF Init, NoRow
<1>1. TypeOK
  BY DEF TypeOK, Location
<1>2. KeyInv /\ RowInv /\ FreshInv
  BY DEF KeyInv, RowInv, FreshInv
<1>3. ElapsedInv
  BY DEF ElapsedInv
<1>4. QED
  BY <1>1, <1>2, <1>3 DEF IInv

\* A rollback takes the row and the key away, or leaves a committed row behind.
LEMMA AbandonInv ==
    ASSUME IInv, NEW r \in Requests, NEW to \in {"done", "dead"}, Abandon(r, to)
    PROVE  IInv'
<1> USE DEF IInv, Abandon, Leave, Goto
<1>1. TypeOK'
  BY DEF TypeOK, Location, NoRow
<1>2. KeyInv'
  BY DEF TypeOK, KeyInv
<1>3. RowInv'
  BY DEF TypeOK, RowInv
<1>4. FreshInv'
  BY DEF TypeOK, FreshInv, Same
<1>5. ElapsedInv'
  BY DEF TypeOK, ElapsedInv, Spent
<1>6. QED
  BY <1>1, <1>2, <1>3, <1>4, <1>5

\* Building the row.
LEMMA RequestInv ==
    ASSUME IInv, NEW r \in Requests, NEW force \in BOOLEAN, NEW p \in Pipelines,
           Request(r, force, p)
    PROVE  IInv'
<1> USE DEF IInv, Request, Goto
<1>0. Lease \in Nat
  BY DEF Lease
<1>1. TypeOK'
  BY <1>0 DEF TypeOK, Location
<1>2. KeyInv'
  BY DEF TypeOK, KeyInv
<1>3. RowInv'
  BY DEF TypeOK, RowInv
<1>4. FreshInv'
  BY DEF TypeOK, RowInv, FreshInv, Same
<1>5. ElapsedInv'
  <2>1. \A q \in Requests \ {r} : Spent(q)' = Spent(q)
    BY DEF TypeOK, Spent
  <2>2. attempt[r] = 0 /\ attempt'[r] = 0 /\ pc'[r] = "inserting" /\ spent[r] = 0
    BY DEF TypeOK, ElapsedInv
  <2>3. Spent(r)' = 0
    BY <2>2, BudgetFacts DEF Spent, Budget
  <2>4. row'[r].started = clock /\ row'[r].expires = clock + Lease
    BY DEF TypeOK
  <2>5. clock <= row'[r].started + slack'[r] + Spent(r)'
    BY <2>3, <2>4 DEF TypeOK
  <2>6. QED
    BY <2>1, <2>2, <2>4, <2>5 DEF TypeOK, ElapsedInv
<1>6. QED
  BY <1>1, <1>2, <1>3, <1>4, <1>5

\* The time in calls stays within the budget of the calls begun.
LEMMA SpentFacts ==
    ASSUME IInv, NEW r \in Requests
    PROVE  /\ Spent(r) \in Nat
           /\ Spent(r) <= Budget(attempt[r])
           /\ Spent(r) <= Budget(Retries + 1)
<1> USE DEF IInv
<1>1. attempt[r] \in 0..(Retries + 1) /\ spent[r] \in 0..CallTimeout
  BY DEF TypeOK
<1>2. Spent(r) \in Nat /\ Spent(r) <= Budget(attempt[r])
  <2>1. CASE pc[r] = "calling"
    <3>1. attempt[r] - 1 \in Nat
      BY <1>1, <2>1 DEF ElapsedInv
    <3>2. Budget(attempt[r]) = Budget(attempt[r] - 1) + CallTimeout
      BY <1>1, <3>1, BudgetFacts
    <3>3. QED
      BY <1>1, <2>1, <3>1, <3>2, BudgetFacts DEF Spent
  <2>2. CASE pc[r] # "calling"
    BY <1>1, <2>2, BudgetFacts DEF Spent
  <2>3. QED
    BY <2>1, <2>2
<1>3. Budget(attempt[r]) \in Nat /\ Budget(Retries + 1) \in Nat
      /\ Budget(attempt[r]) <= Budget(Retries + 1)
  BY <1>1, BudgetFacts
<1>4. QED
  BY <1>2, <1>3

\* Taking the key: no committed run holds it.
LEMMA InsertInv ==
    ASSUME IInv, NEW r \in Requests, Insert(r), ~\E q \in Requests : status[q] = "running"
    PROVE  IInv'
<1> USE DEF IInv
<1>0. /\ pc[r] = "inserting" /\ keyHolder = None /\ keyHolder' = r
      /\ pc' = [pc EXCEPT ![r] = "inserted"]
      /\ UNCHANGED <<clock, job, status, row, result, forced, item, attempt, spent, slack>>
  BY DEF Insert, Goto, runVars
<1>1. TypeOK'
  BY <1>0 DEF TypeOK, Location
<1>2. KeyInv'
  BY <1>0 DEF TypeOK, KeyInv
<1>3. RowInv' /\ FreshInv'
  BY <1>0 DEF TypeOK, RowInv, FreshInv, Same
<1>4. ElapsedInv'
  BY <1>0 DEF TypeOK, ElapsedInv, Spent
<1>5. QED
  BY <1>1, <1>2, <1>3, <1>4

\* Reading the posting again into the request and its row.
LEMMA RefreshInv ==
    ASSUME IInv, NEW r \in Requests, Refresh(r), job # Invalid
    PROVE  IInv'
<1> USE DEF IInv
<1>0. /\ pc[r] = "inserted"
      /\ item' = [item EXCEPT ![r] = job]
      /\ row' = [row EXCEPT ![r].input = job]
      /\ pc' = [pc EXCEPT ![r] = "refreshed"]
      /\ UNCHANGED <<clock, job, keyHolder, status, result, forced, attempt, spent, slack>>
  BY DEF Refresh, Goto
<1>1. TypeOK'
  <2>1. row' \in [Requests -> [input : Contents, pipeline : Pipelines \union {None},
                               started : Nat, expires : Nat]]
    BY <1>0 DEF TypeOK
  <2>2. QED
    BY <1>0, <2>1 DEF TypeOK, Location
<1>2. KeyInv'
  BY <1>0 DEF TypeOK, KeyInv
<1>3. status[r] = "none"
  BY <1>0 DEF RowInv
<1>4. RowInv'
  BY <1>0, <1>3 DEF TypeOK, RowInv
<1>5. FreshInv'
  BY <1>0, <1>3 DEF TypeOK, FreshInv, Same
<1>6. ElapsedInv'
  BY <1>0 DEF TypeOK, ElapsedInv, Spent
<1>7. QED
  BY <1>1, <1>2, <1>4, <1>5, <1>6

\* Committing the run: nobody else finished one since the cache was consulted.
LEMMA StartInv ==
    ASSUME IInv, NEW r \in Requests, Start(r)
    PROVE  IInv'
<1> USE DEF IInv
<1>0. /\ pc[r] = "refreshed" /\ (forced[r] \/ Cached(r) = {})
      /\ keyHolder' = None
      /\ status' = [status EXCEPT ![r] = "running"]
      /\ pc' = [pc EXCEPT ![r] = "opening"]
      /\ UNCHANGED <<clock, job, row, result, forced, item, attempt, spent, slack>>
  BY DEF Start, Goto
<1>1. TypeOK'
  BY <1>0 DEF TypeOK, Location
<1>2. keyHolder = r /\ \A q \in Requests : status[q] # "running"
  BY <1>0 DEF TypeOK, KeyInv
<1>3. KeyInv'
  BY <1>0, <1>2 DEF TypeOK, KeyInv
<1>4. RowInv'
  BY <1>0 DEF TypeOK, RowInv
<1>5. FreshInv'
  <2>1. status[r] = "none" /\ row[r].input = item[r]
    BY <1>0 DEF RowInv
  <2>2. forced[r] \/ \A q \in Requests : status[q] = "needs_review" => ~Same(q, r)
    BY <1>0, <2>1 DEF Cached, Same
  <2>3. \A q \in Requests : (Same(q, r) <=> Same(r, q))
    BY DEF Same
  <2>4. QED
    BY <1>0, <2>1, <2>2, <2>3 DEF TypeOK, FreshInv, Same
<1>6. ElapsedInv'
  BY <1>0 DEF TypeOK, ElapsedInv, Spent
<1>7. QED
  BY <1>1, <1>3, <1>4, <1>5, <1>6

\* Provider calls: one that ends took a timeout at most, so its budget covers it.
LEMMA CallInv ==
    ASSUME IInv, NEW r \in Requests, Open(r) \/ OpenFails(r) \/
                \E outcome \in {"valid", "repairable", "error"} : CallEnds(r, outcome)
    PROVE  IInv'
<1> USE DEF IInv
<1>0. /\ pc[r] \in {"opening", "calling"}
      /\ UNCHANGED <<clock, job, keyHolder, status, row, result, forced, item, slack>>
      /\ spent' = [spent EXCEPT ![r] = 0]
      /\ \E to \in Working, n \in 0..(Retries + 1) :
            /\ pc' = [pc EXCEPT ![r] = to]
            /\ attempt' = [attempt EXCEPT ![r] = n]
            /\ \/ n = attempt[r] /\ to \in {"succeeded", "failing"}
               \/ n = attempt[r] + 1 /\ to = "calling"
  <2>1. CASE Open(r)
    <3>1. spent[r] = 0 /\ attempt[r] = 0
      BY <2>1 DEF Open, ElapsedInv
    <3>2. 1 \in 0..(Retries + 1)
      OBVIOUS
    <3>3. /\ pc' = [pc EXCEPT ![r] = "calling"]
          /\ attempt' = [attempt EXCEPT ![r] = 1]
          /\ spent' = [spent EXCEPT ![r] = 0]
      BY <2>1, <3>1 DEF Open, Goto, TypeOK
    <3>4. pc[r] = "opening"
          /\ UNCHANGED <<clock, job, keyHolder, status, row, result, forced, item, slack>>
      BY <2>1 DEF Open, runVars
    <3>5. "calling" \in Working /\ 1 = attempt[r] + 1
      BY <3>1
    <3>6. QED
      BY <3>2, <3>3, <3>4, <3>5
  <2>2. CASE OpenFails(r)
    <3>1. spent[r] = 0
      BY <2>2 DEF OpenFails, ElapsedInv
    <3>2. /\ pc' = [pc EXCEPT ![r] = "failing"]
          /\ attempt' = [attempt EXCEPT ![r] = attempt[r]]
          /\ spent' = [spent EXCEPT ![r] = 0]
      BY <2>2, <3>1 DEF OpenFails, Goto, TypeOK
    <3>3. QED
      BY <2>2, <3>2 DEF OpenFails, TypeOK, runVars
  <2>3. ASSUME NEW outcome \in {"valid", "repairable", "error"}, CallEnds(r, outcome)
        PROVE  /\ pc[r] \in {"opening", "calling"}
               /\ UNCHANGED <<clock, job, keyHolder, status, row, result, forced, item, slack>>
               /\ spent' = [spent EXCEPT ![r] = 0]
               /\ \E to \in Working, n \in 0..(Retries + 1) :
                     /\ pc' = [pc EXCEPT ![r] = to]
                     /\ attempt' = [attempt EXCEPT ![r] = n]
                     /\ \/ n = attempt[r] /\ to \in {"succeeded", "failing"}
                        \/ n = attempt[r] + 1 /\ to = "calling"
    <3>1. CASE outcome = "repairable" /\ MayRepair(r)
      <4>1. attempt[r] + 1 \in 0..(Retries + 1)
        BY <3>1 DEF TypeOK, MayRepair
      <4>2. /\ pc' = [pc EXCEPT ![r] = "calling"]
            /\ attempt' = [attempt EXCEPT ![r] = attempt[r] + 1]
        BY <2>3, <3>1 DEF CallEnds, TypeOK
      <4>3. QED
        BY <2>3, <4>1, <4>2 DEF CallEnds, runVars
    <3>2. CASE ~(outcome = "repairable" /\ MayRepair(r))
      <4>1. /\ \E to \in {"succeeded", "failing"} : pc' = [pc EXCEPT ![r] = to]
            /\ attempt' = [attempt EXCEPT ![r] = attempt[r]]
        BY <2>3, <3>2 DEF CallEnds, Goto, TypeOK
      <4>2. QED
        BY <2>3, <4>1 DEF CallEnds, TypeOK, runVars
    <3>3. QED
      BY <3>1, <3>2
  <2>4. QED
    BY <2>1, <2>2, <2>3
<1>1. TypeOK'
  BY <1>0 DEF TypeOK, Location
<1>2. KeyInv' /\ FreshInv'
  BY <1>0 DEF TypeOK, KeyInv, FreshInv, Same
<1>3. RowInv'
  BY <1>0 DEF TypeOK, RowInv
<1>4. ElapsedInv'
  <2>1. attempt[r] \in Nat /\ spent[r] \in 0..CallTimeout
    BY DEF TypeOK
  <2>2. Spent(r) \in Nat /\ Spent(r) <= Budget(attempt[r])
    BY SpentFacts
  <2>3. Spent(r)' = Budget(attempt[r])
    <3>1. PICK to \in Working, n \in 0..(Retries + 1) :
             /\ pc' = [pc EXCEPT ![r] = to]
             /\ attempt' = [attempt EXCEPT ![r] = n]
             /\ \/ n = attempt[r] /\ to \in {"succeeded", "failing"}
                \/ n = attempt[r] + 1 /\ to = "calling"
      BY <1>0
    <3>2. pc'[r] = to /\ attempt'[r] = n /\ spent'[r] = 0
      BY <1>0, <3>1 DEF TypeOK
    <3>3. CASE to = "calling"
      <4>1. Spent(r)' = Budget(attempt'[r] - 1) + spent'[r]
        BY <3>2, <3>3 DEF Spent, Budget
      <4>2. attempt'[r] - 1 = attempt[r]
        BY <2>1, <3>1, <3>2, <3>3
      <4>3. Budget(attempt[r]) \in Nat
        BY <2>1, BudgetFacts
      <4>4. QED
        BY <3>2, <4>1, <4>2, <4>3
    <3>4. CASE to # "calling"
      BY <3>1, <3>2, <3>4 DEF Spent, Budget
    <3>5. QED
      BY <3>3, <3>4
  <2>4. \A q \in Requests \ {r} : Spent(q)' = Spent(q)
    BY <1>0 DEF TypeOK, Spent
  <2>5. Budget(attempt[r]) \in Nat
    BY <2>1, BudgetFacts
  <2>6. \A q \in Requests : pc'[q] \in Active /\ slack'[q] < Margin
            => clock' <= row'[q].started + slack'[q] + Spent(q)'
    BY <1>0, <2>1, <2>2, <2>3, <2>4, <2>5 DEF TypeOK, ElapsedInv
  <2>7. QED
    BY <1>0, <2>1, <2>6 DEF TypeOK, ElapsedInv
<1>5. QED
  BY <1>1, <1>2, <1>3, <1>4

\* Storing the outcome of a run, unless it was recovered meanwhile.
LEMMA ConcludeInv ==
    ASSUME IInv, NEW r \in Requests, Conclude(r)
    PROVE  IInv'
<1> USE DEF IInv
<1>0. /\ pc[r] \in {"succeeded", "failing"}
      /\ pc' = [pc EXCEPT ![r] = "done"]
      /\ item' = [item EXCEPT ![r] = Invalid]
      /\ attempt' = [attempt EXCEPT ![r] = 0]
      /\ spent' = [spent EXCEPT ![r] = 0]
      /\ slack' = [slack EXCEPT ![r] = 0]
      /\ UNCHANGED <<clock, job, keyHolder, row, forced>>
  BY DEF Conclude, Leave, Goto
<1>1. \/ UNCHANGED <<status, result>>
      \/ /\ status[r] = "running"
         /\ \/ /\ status' = [status EXCEPT ![r] = "needs_review"]
               /\ result' = [result EXCEPT ![r] = item[r]]
            \/ /\ status' = [status EXCEPT ![r] = "failed"]
               /\ result' = [result EXCEPT ![r] = Invalid]
  BY DEF Conclude, Finish
<1>2. TypeOK'
  BY <1>0, <1>1 DEF TypeOK, Location
<1>3. KeyInv'
  BY <1>0, <1>1 DEF TypeOK, KeyInv
<1>4. RowInv'
  BY <1>0, <1>1 DEF TypeOK, RowInv
<1>5. FreshInv'
  BY <1>0, <1>1 DEF TypeOK, FreshInv, KeyInv, Same
<1>6. ElapsedInv'
  <2>1. \A q \in Requests \ {r} : Spent(q)' = Spent(q) /\ status'[q] = status[q]
    BY <1>0, <1>1 DEF TypeOK, Spent
  <2>2. QED
    BY <1>0, <2>1 DEF TypeOK, ElapsedInv
<1>7. QED
  BY <1>2, <1>3, <1>4, <1>5, <1>6

\* Recovering an expired run: its worker, if alive, has used up the margin.
LEMMA RecoverInv ==
    ASSUME IInv, NEW r \in Requests, Recover(r)
    PROVE  IInv'
<1> USE DEF IInv
<1>0. /\ status[r] = "running" /\ row[r].expires <= clock
      /\ status' = [status EXCEPT ![r] = "failed"]
      /\ result' = [result EXCEPT ![r] = Invalid]
      /\ UNCHANGED <<clock, job, keyHolder, row, pc, forced, item, attempt, spent, slack>>
  BY DEF Recover, Finish, requestVars
<1>1. TypeOK'
  BY <1>0 DEF TypeOK
<1>2. KeyInv' /\ RowInv' /\ FreshInv'
  BY <1>0 DEF TypeOK, KeyInv, RowInv, FreshInv, Same
<1>3. ~(pc[r] \in Working /\ slack[r] < Margin)
  <2> SUFFICES ASSUME pc[r] \in Working, slack[r] < Margin PROVE FALSE
    OBVIOUS
  <2>1. clock <= row[r].started + slack[r] + Spent(r)
    BY DEF ElapsedInv
  <2>2. Spent(r) \in Nat /\ Spent(r) <= Budget(Retries + 1)
    BY SpentFacts
  <2>3. row[r].expires = row[r].started + Budget(Retries + 1) + Margin
    <3>1. Budget(Retries + 1) \in Nat
      BY BudgetFacts
    <3>2. QED
      BY <3>1, BudgetFacts DEF TypeOK, ElapsedInv
  <2>4. Budget(Retries + 1) \in Nat
    BY BudgetFacts
  <2>5. QED
    BY <1>0, <2>1, <2>2, <2>3, <2>4 DEF TypeOK
<1>4. ElapsedInv'
  <2>1. \A q \in Requests : Spent(q)' = Spent(q)
    BY <1>0 DEF Spent
  <2>2. QED
    BY <1>0, <1>3, <2>1 DEF TypeOK, ElapsedInv
<1>5. QED
  BY <1>1, <1>2, <1>4

\* Time passes in a call or outside, until the margin is used up.
LEMMA TickInv ==
    ASSUME IInv, Tick
    PROVE  IInv'
<1> USE DEF IInv
<1>0. /\ clock' = clock + 1
      /\ \A r \in Requests : spent[r] < CallTimeout
      /\ UNCHANGED <<job, keyHolder, status, row, result, pc, forced, item, attempt>>
      /\ spent' = [r \in Requests |-> IF pc[r] = "calling" THEN spent[r] + 1 ELSE spent[r]]
      /\ slack' = [r \in Requests |-> IF pc[r] \in Active \ {"calling"}
                                      THEN AtMost(slack[r] + 1, Margin) ELSE slack[r]]
  BY DEF Tick, runVars
<1>1. TypeOK'
  BY <1>0 DEF TypeOK, AtMost
<1>2. KeyInv' /\ RowInv' /\ FreshInv'
  BY <1>0 DEF TypeOK, KeyInv, RowInv, FreshInv, Same
<1>3. ElapsedInv'
  <2>1. ASSUME NEW r \in Requests, pc[r] = "calling"
        PROVE  Spent(r)' = Spent(r) + 1 /\ slack'[r] = slack[r]
    <3>1. attempt[r] - 1 \in Nat
      BY <2>1 DEF TypeOK, ElapsedInv
    <3>2. QED
      BY <1>0, <2>1, <3>1, BudgetFacts DEF TypeOK, Spent
  <2>2. ASSUME NEW r \in Requests, pc[r] # "calling"
        PROVE  Spent(r)' = Spent(r)
    BY <1>0, <2>2 DEF Spent
  <2>3. ASSUME NEW r \in Requests, pc[r] \in Active \ {"calling"}, slack'[r] < Margin
        PROVE  slack'[r] = slack[r] + 1 /\ slack[r] < Margin
    BY <1>0, <2>3 DEF TypeOK, AtMost
  <2>4. ASSUME NEW r \in Requests, pc[r] \in Active, slack'[r] < Margin
        PROVE  slack[r] < Margin /\ clock' <= row[r].started + slack'[r] + Spent(r)'
    <3>1. slack[r] < Margin
      BY <2>1, <2>3, <2>4
    <3>2. clock <= row[r].started + slack[r] + Spent(r)
      BY <2>4, <3>1 DEF ElapsedInv
    <3>3. Spent(r) \in Nat
      BY SpentFacts
    <3>4. CASE pc[r] = "calling"
      <4>1. Spent(r)' = Spent(r) + 1 /\ slack'[r] = slack[r]
        BY <2>1, <3>4
      <4>2. clock \in Nat /\ row[r].started \in Nat /\ slack[r] \in Nat
        BY DEF TypeOK
      <4>3. QED
        BY <1>0, <3>1, <3>2, <3>3, <4>1, <4>2
    <3>5. CASE pc[r] # "calling"
      BY <1>0, <2>2, <2>3, <2>4, <3>2, <3>3, <3>5 DEF TypeOK
    <3>6. QED
      BY <3>4, <3>5, <3>1
  <2>5. QED
    BY <1>0, <2>4 DEF TypeOK, ElapsedInv
<1>4. QED
  BY <1>1, <1>2, <1>3

\* Every step keeps the invariant.
LEMMA NextInv == IInv /\ [Next]_vars => IInv'
<1> SUFFICES ASSUME IInv, [Next]_vars PROVE IInv'
  OBVIOUS
<1>1. ASSUME NEW r \in Requests, AdminRequest(r) \/ BatchRequest(r)
      PROVE  IInv'
  BY <1>1, RequestInv DEF AdminRequest, BatchRequest
<1>2. ASSUME NEW r \in Requests, Insert(r) \/ Refresh(r) \/ Reuse(r) \/ Crash(r)
      PROVE  IInv'
  BY <1>2, AbandonInv, InsertInv, RefreshInv DEF Insert, Refresh, Reuse, Crash
<1>3. ASSUME NEW r \in Requests,
             Start(r) \/ Open(r) \/ OpenFails(r) \/ Conclude(r) \/ Recover(r)
      PROVE  IInv'
  BY <1>3, StartInv, CallInv, ConcludeInv, RecoverInv
<1>4. ASSUME NEW r \in Requests, NEW outcome \in {"valid", "repairable", "error"},
             CallEnds(r, outcome)
      PROVE  IInv'
  BY <1>4, CallInv
<1>5. ASSUME NEW contents \in Contents, Rewrite(contents)
      PROVE  IInv'
  BY <1>5 DEF Rewrite, IInv, TypeOK, KeyInv, RowInv, FreshInv, Same, ElapsedInv, Spent,
              runVars, requestVars
<1>6. CASE Tick
  BY <1>6, TickInv
<1>7. CASE UNCHANGED vars
  BY <1>7 DEF vars, IInv, TypeOK, KeyInv, RowInv, FreshInv, Same, ElapsedInv, Spent,
              runVars, requestVars
<1>8. QED
  BY <1>1, <1>2, <1>3, <1>4, <1>5, <1>6, <1>7 DEF Next, Work

\* The invariant every other result rests on.
THEOREM Invariance == Spec => []IInv
<1>1. QED
  BY InitInv, NextInv, PTL DEF Spec
-------------------------------------------------------------------------------
(* The results *)

\* Every variable keeps its type; in particular there are Retries + 1 calls at most.
THEOREM TypeCorrect == Spec => []TypeOK
<1>1. IInv => TypeOK
  BY DEF IInv
<1>2. QED
  BY <1>1, Invariance, PTL

\* Requests that may use the cache never produce one result twice
\* (persistence.py:174-204).
THEOREM NoDuplicates == Spec => []NoDuplicateExtraction
<1>1. IInv => NoDuplicateExtraction
  BY DEF IInv, FreshInv, Same, NoDuplicateExtraction
<1>2. QED
  BY <1>1, Invariance, PTL

\* A stored result was extracted from the input its run records
\* (persistence.py:179-186).
THEOREM ResultsMatch == Spec => []ResultOfRecordedInput
<1>1. IInv => ResultOfRecordedInput
  BY DEF IInv, RowInv, ResultOfRecordedInput
<1>2. QED
  BY <1>1, Invariance, PTL

\* The lease covers all calls and the margin (persistence.py:153-157).
THEOREM LeaseSuffices == Spec => []LeaseOutlivesAttempts
<1>1. IInv => LeaseOutlivesAttempts
  BY DEF IInv, ElapsedInv, LeaseOutlivesAttempts
<1>2. QED
  BY <1>1, Invariance, PTL

\* Recovered and finished runs never change again, not even by the worker of a
\* recovered run (persistence.py:114-133).
THEOREM HistoryFinal == Spec => HistoryIsFinal
<1>1. IInv /\ [Next]_vars =>
        [\A r \in Requests : status[r] \in Final =>
            UNCHANGED <<status[r], row[r], result[r]>>]_vars
  <2> SUFFICES ASSUME IInv, [Next]_vars, NEW q \in Requests, status[q] \in Final
               PROVE  UNCHANGED <<status[q], row[q], result[q]>>
    OBVIOUS
  <2>0. TypeOK /\ RowInv /\ (pc[q] \in {"idle", "inserting"} \union Holding
                                => status[q] \notin Final)
    BY DEF IInv, RowInv
  <2>1. ASSUME NEW r \in Requests, AdminRequest(r) \/ BatchRequest(r)
        PROVE  UNCHANGED <<status[q], row[q], result[q]>>
    BY <2>0, <2>1 DEF AdminRequest, BatchRequest, Request, TypeOK
  <2>2. ASSUME NEW r \in Requests, NEW to, Abandon(r, to)
        PROVE  UNCHANGED <<status[q], row[q], result[q]>>
    BY <2>0, <2>2 DEF Abandon, TypeOK
  <2>3. ASSUME NEW r \in Requests, Insert(r) \/ Refresh(r) \/ Reuse(r) \/ Crash(r)
        PROVE  UNCHANGED <<status[q], row[q], result[q]>>
    BY <2>0, <2>2, <2>3 DEF Insert, Refresh, Reuse, Crash, TypeOK, runVars
  <2>4. ASSUME NEW r \in Requests, Start(r)
        PROVE  UNCHANGED <<status[q], row[q], result[q]>>
    BY <2>0, <2>4 DEF Start, TypeOK
  <2>5. ASSUME NEW r \in Requests, Conclude(r) \/ Recover(r)
        PROVE  UNCHANGED <<status[q], row[q], result[q]>>
    BY <2>0, <2>5 DEF Conclude, Recover, Finish, TypeOK
  <2>6. ASSUME NEW r \in Requests, Open(r) \/ OpenFails(r) \/
                 \E outcome \in {"valid", "repairable", "error"} : CallEnds(r, outcome)
        PROVE  UNCHANGED <<status[q], row[q], result[q]>>
    BY <2>6 DEF Open, OpenFails, CallEnds, runVars
  <2>7. CASE Tick \/ UNCHANGED vars \/ \E contents \in Contents : Rewrite(contents)
    BY <2>7 DEF Tick, vars, Rewrite, runVars
  <2>8. QED
    BY <2>1, <2>3, <2>4, <2>5, <2>6, <2>7 DEF Next, Work
<1>2. QED
  BY <1>1, Invariance, PTL DEF Spec, HistoryIsFinal
===============================================================================
