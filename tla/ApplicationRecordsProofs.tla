------------------------ MODULE ApplicationRecordsProofs ------------------------
(***************************************************************************)
(* Proofs about ApplicationRecords for any number of workers, fields and   *)
(* answers.  The invariant describes what a worker between its read and    *)
(* its write can still rely on, although the row may have changed.         *)
(***************************************************************************)
EXTENDS ApplicationRecords, TLAPS

\* A worker about to insert holds an acceptable status and date.
CreateOK == \A t \in Threads :
    request[t].op = "create" => MayCreate(request[t].target, request[t].at)

\* A worker about to change the status: there is a record, the transition was
\* legal from what it read, a date it saw is still there, and if it is going to
\* submit, the record has no date given by the user.
UpdateOK == \A t \in Threads : request[t].op = "update" =>
    /\ row # NoRow
    /\ request[t].target \in AllowedTransitions[request[t].seen]
    /\ request[t].seen \in Sent => row.submitted_at # "none"
    /\ request[t].at # "none" => row.submitted_at # "none"
    /\ request[t].target = "submitted" => row.submitted_at # "given"

RowOK == row # NoRow =>
    /\ row.status \in Sent => row.submitted_at # "none"
    /\ row.status = "draft" => row.submitted_at # "given"
    /\ row.method = "assistant" => Confirmable(row.form)

Inv == TypeOK /\ CreateOK /\ UpdateOK /\ RowOK

-----------------------------------------------------------------------------
\* What the table of transitions says, case by case.
LEMMA Transitions ==
    ASSUME NEW s \in Statuses, NEW u \in AllowedTransitions[s]
    PROVE  /\ u \in Statuses \ {"draft"}
           /\ u = "submitted" => s = "draft"
           /\ u \in Sent => u = "submitted" \/ s \in Sent
  BY DEF Statuses, Sent, AllowedTransitions

\* The form of a manual record is a form.
LEMMA NoFormType == NoForm \in Forms
  BY DEF NoForm, Forms, Values

\* The check on creation and the reader agree on the final value of a field.
LEMMA Agreement ==
    ASSUME NEW form \in Forms, Confirmable(form)
    PROVE  \A f \in Required : /\ f \in DOMAIN SavedAnswers(form)
                               /\ SavedAnswers(form)[f] \in Texts
  <1> SUFFICES ASSUME NEW f \in Required
               PROVE  f \in DOMAIN SavedAnswers(form) /\ SavedAnswers(form)[f] \in Texts
    OBVIOUS
  <1>1. f \in Fields /\ f \in Selected(form)
    BY FieldsAssumption DEF Confirmable
  <1>2. FinalValue(form, f) \in Values \ {"unset", "null", "blank"}
    BY <1>1 DEF Confirmable, FinalValue, Forms
  <1>3. SavedAnswers(form)[f] = FinalValue(form, f)
    BY <1>1, <1>2 DEF SavedAnswers, FinalValue
  <1> QED BY <1>1, <1>2, <1>3 DEF SavedAnswers, Values

-----------------------------------------------------------------------------
\* Every reachable state satisfies the invariant.
THEOREM Invariance == Spec => []Inv
  <1>1. Init => Inv
    BY NoRowAssumption DEF Init, Inv, TypeOK, CreateOK, UpdateOK, RowOK, Idle, Statuses, Times
  <1>2. Inv /\ [Next]_vars => Inv'
    <2> SUFFICES ASSUME Inv, [Next]_vars PROVE Inv'
      OBVIOUS
    <2> USE DEF Inv
    <2>1. ASSUME NEW t \in Threads, CheckManual(t) PROVE Inv'
      <3>1. PICK status \in Statuses, at \in Times :
               /\ MayCreate(status, at)
               /\ request' = [request EXCEPT ![t] = [op |-> "create", target |-> status,
                                                     seen |-> "draft", at |-> at]]
        BY <2>1 DEF CheckManual
      <3>2. row' = row
        BY <2>1 DEF CheckManual
      <3>3. TypeOK'
        BY <3>1, <3>2 DEF TypeOK, Statuses
      <3> QED BY <3>1, <3>2, <3>3 DEF TypeOK, CreateOK, UpdateOK, RowOK
    <2>2. ASSUME NEW t \in Threads, InsertManual(t) PROVE Inv'
      <3>1. request' = [request EXCEPT ![t] = Idle]
        BY <2>2 DEF InsertManual, Answered
      <3>2. request[t].op = "create" /\ Insert(t)
        BY <2>2 DEF InsertManual
      <3>3. CASE row # NoRow
        <4>1. row' = row
          BY <3>2, <3>3 DEF Insert
        <4> QED BY <3>1, <4>1 DEF TypeOK, CreateOK, UpdateOK, RowOK, Idle, Statuses, Times
      <3>4. CASE row = NoRow
        <4>1. row' = [method |-> "manual", status |-> request[t].target,
                      submitted_at |-> request[t].at, form |-> NoForm]
          BY <3>2, <3>4 DEF Insert
        <4>2. row' \in Rows
          BY <4>1, NoFormType DEF TypeOK, Rows
        <4>3. TypeOK'
          BY <3>1, <4>2 DEF TypeOK, Idle, Statuses, Times
        <4>4. RowOK'
          BY <3>2, <4>1 DEF RowOK, CreateOK, MayCreate, Sent
        <4> QED BY <3>1, <3>4, <4>3, <4>4 DEF TypeOK, CreateOK, UpdateOK, Idle
      <3> QED BY <3>3, <3>4
    <2>3. ASSUME NEW t \in Threads, CreateAssistant(t) PROVE Inv'
      <3>1. PICK form \in Forms :
               /\ Confirmable(form)
               /\ row' = [method |-> "assistant", status |-> "submitted",
                          submitted_at |-> "now", form |-> form]
        BY <2>3 DEF CreateAssistant
      <3>2. row = NoRow /\ request' = request
        BY <2>3 DEF CreateAssistant
      <3>3. row' \in Rows
        BY <3>1 DEF Rows, Statuses, Times
      <3> QED BY <3>1, <3>2, <3>3 DEF TypeOK, CreateOK, UpdateOK, RowOK
    <2>4. ASSUME NEW t \in Threads, ReadStatus(t) PROVE Inv'
      <3>1. row # NoRow /\ row' = row
        BY <2>4 DEF ReadStatus
      <3>2. row \in Rows /\ row.status \in Statuses /\ row.submitted_at \in Times
        BY <3>1 DEF TypeOK, Rows
      <3>3. PICK target \in AllowedTransitions[row.status] :
               request' = [request EXCEPT ![t] = [op |-> "update", target |-> target,
                                          seen |-> row.status, at |-> row.submitted_at]]
        BY <2>4 DEF ReadStatus
      <3>4. target \in Statuses /\ (target = "submitted" => row.status = "draft")
        BY <3>2, Transitions
      <3>5. TypeOK'
        BY <3>1, <3>2, <3>3, <3>4 DEF TypeOK
      <3>6. UpdateOK'
        BY <3>1, <3>3, <3>4 DEF TypeOK, UpdateOK, RowOK
      <3> QED BY <3>1, <3>3, <3>5, <3>6 DEF TypeOK, CreateOK, RowOK
    <2>5. ASSUME NEW t \in Threads, WriteStatus(t) PROVE Inv'
      <3>1. request[t].op = "update" /\ row # NoRow
        BY <2>5 DEF WriteStatus, UpdateOK
      <3>2. /\ row' = [row EXCEPT !.status = request[t].target,
                                  !.submitted_at = IF Stamps(t) THEN "now" ELSE @]
            /\ request' = [request EXCEPT ![t] = Idle]
        BY <2>5 DEF WriteStatus, Write, Answered
      <3>3. row \in Rows /\ request[t].target \in Statuses /\ request[t].seen \in Statuses
        BY <3>1 DEF TypeOK
      <3>4. row' \in Rows
        BY <3>2, <3>3 DEF Rows, Times
      <3>5. TypeOK'
        BY <3>2, <3>4 DEF TypeOK, Idle, Statuses, Times
      <3>6. row' # NoRow
        BY <3>4, NoRowAssumption
      <3>7. /\ row'.status = request[t].target
            /\ row'.submitted_at = IF Stamps(t) THEN "now" ELSE row.submitted_at
            /\ row'.method = row.method
            /\ row'.form = row.form
        BY <3>2, <3>3 DEF Rows
      <3>8. /\ request[t].target # "draft"
            /\ request[t].target \in Sent => request[t].target = "submitted"
                                             \/ request[t].seen \in Sent
        BY <3>1, <3>3, Transitions DEF UpdateOK
      <3>9. RowOK'
        BY <3>1, <3>7, <3>8 DEF RowOK, UpdateOK, Stamps
      <3>10. UpdateOK'
        BY <3>1, <3>2, <3>6, <3>7 DEF TypeOK, UpdateOK, Idle
      <3> QED BY <3>2, <3>5, <3>9, <3>10 DEF TypeOK, CreateOK, Idle
    <2>6. CASE UNCHANGED vars
      BY <2>6 DEF vars, TypeOK, CreateOK, UpdateOK, RowOK
    <2> QED BY <2>1, <2>2, <2>3, <2>4, <2>5, <2>6 DEF Next
  <1> QED BY <1>1, <1>2, PTL DEF Spec

\* Type correctness, for any workers, fields and answers.
THEOREM TypeCorrect == Spec => []TypeOK
  <1>1. Inv => TypeOK
    BY DEF Inv
  <1> QED BY <1>1, Invariance, PTL

\* Whatever status changes overlap, a sent or answered application is dated.
THEOREM StampedHolds == Spec => []Stamped
  <1>1. Inv => Stamped
    BY DEF Inv, RowOK, Stamped
  <1> QED BY <1>1, Invariance, PTL

\* The reader finds a non-empty answer to every required field.
THEOREM AnswersCompleteHolds == Spec => []AnswersComplete
  <1>1. Inv => AnswersComplete
    <2> SUFFICES ASSUME Inv, row # NoRow, row.method = "assistant"
                 PROVE  \A f \in Required : /\ f \in DOMAIN SavedAnswers(row.form)
                                            /\ SavedAnswers(row.form)[f] \in Texts
      BY DEF AnswersComplete
    <2>1. row.form \in Forms
      BY DEF Inv, TypeOK, Rows
    <2>2. Confirmable(row.form)
      BY DEF Inv, RowOK
    <2> QED BY <2>1, <2>2, Agreement
  <1> QED BY <1>1, Invariance, PTL

\* No overlapping creation or status change replaces a recorded application.
THEOREM RecordKeptHolds == Spec => RecordKept
  <1>1. Inv /\ Inv' /\ [Next]_vars =>
           [row # NoRow =>
              /\ row' # NoRow
              /\ row'.method = row.method
              /\ row'.form = row.form
              /\ row.submitted_at = "given" => row'.submitted_at = "given"]_vars
    <2> SUFFICES ASSUME Inv, [Next]_vars, row # NoRow
                 PROVE  /\ row' # NoRow
                        /\ row'.method = row.method
                        /\ row'.form = row.form
                        /\ row.submitted_at = "given" => row'.submitted_at = "given"
      OBVIOUS
    <2>0. row \in Rows
      BY DEF Inv, TypeOK
    <2>1. ASSUME NEW t \in Threads, InsertManual(t) PROVE row' = row
      BY <2>1 DEF InsertManual, Insert
    <2>2. ASSUME NEW t \in Threads, WriteStatus(t)
          PROVE  /\ row' # NoRow
                 /\ row'.method = row.method
                 /\ row'.form = row.form
                 /\ row.submitted_at = "given" => row'.submitted_at = "given"
      <3>1. row' = [row EXCEPT !.status = request[t].target,
                               !.submitted_at = IF Stamps(t) THEN "now" ELSE @]
        BY <2>2 DEF WriteStatus, Write
      <3>2. request[t].target \in Statuses /\ request[t].op = "update"
        BY <2>2 DEF WriteStatus, Inv, TypeOK
      <3>3. row' \in Rows
        BY <2>0, <3>1, <3>2 DEF Rows, Times
      <3>4. Stamps(t) => row.submitted_at # "given"
        BY <3>2 DEF Inv, UpdateOK, Stamps
      <3> QED BY <2>0, <3>1, <3>3, <3>4, NoRowAssumption DEF Rows
    <2> QED BY <2>1, <2>2 DEF Next, CheckManual, CreateAssistant, ReadStatus, vars
  <1> QED BY <1>1, Invariance, PTL DEF Spec, RecordKept
=================================================================================
