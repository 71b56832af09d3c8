----------------------------- MODULE AnswerLedger -----------------------------
(***************************************************************************)
(* What backend/app/answer_preparation promises for each context (one      *)
(* page, job description and profile of one user): a question is put to    *)
(* the paid model at most once, one batch of questions at a time; what was *)
(* asked is settled, and stays settled: an answer is never lost, and a     *)
(* failure is replaced only by an answer learnt elsewhere.                 *)
(***************************************************************************)
CONSTANTS Contexts, Keys

VARIABLE ledger

States == {"none", "asked", "good", "failed"}

InFlight(c) == {k \in Keys : ledger[c][k] = "asked"}

(* Keys outside S keep their state or learn an answer another context      *)
(* verified.                                                               *)
OthersLearn(c, S, next) ==
    \A k \in Keys \ S : \/ next[k] = ledger[c][k]
                        \/ ledger[c][k] \in {"none", "failed"} /\ next[k] = "good"

Ask(c) ==
    /\ InFlight(c) = {}
    /\ \E S \in SUBSET {k \in Keys : ledger[c][k] = "none"} :
         \E next \in [Keys -> States] :
            /\ S # {}
            /\ \A k \in S : next[k] = "asked"
            /\ OthersLearn(c, S, next)
            /\ ledger' = [ledger EXCEPT ![c] = next]

Settle(c) ==
    /\ InFlight(c) # {}
    /\ \E next \in [Keys -> States] :
            /\ \A k \in InFlight(c) : next[k] \in {"good", "failed"}
            /\ OthersLearn(c, InFlight(c), next)
            /\ ledger' = [ledger EXCEPT ![c] = next]

Init == ledger = [c \in Contexts |-> [k \in Keys |-> "none"]]
Next == \E c \in Contexts : Ask(c) \/ Settle(c)
Spec == Init /\ [][Next]_ledger
=============================================================================
