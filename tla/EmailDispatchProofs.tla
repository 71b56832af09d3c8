-------------------------- MODULE EmailDispatchProofs --------------------------
(***************************************************************************)
(* Proofs about EmailDispatch, for any requests, texts, attachments,       *)
(* policies and addresses, and any set of requests that may die.           *)
(***************************************************************************)
EXTENDS EmailDispatch, TLAPS

(***************************************************************************)
(* The inductive invariant.  What a request has read is usable (ReadInv);  *)
(* a live token belongs to the stored review and its preview showed just   *)
(* that (TokenInv); the request that owns the claim works on the review it *)
(* claimed (ClaimInv); the mailbox holds at most its message, and as much  *)
(* as the outcome it knows says (MailInv).                                 *)
(***************************************************************************)
Ready == {"previewReady", "sendReady", "claimed", "delivered"}
Reading == {"previewRead", "sendRead"} \union Ready

ReadInv ==
    /\ app.status # "absent" => app.text \in Texts
    /\ app.status = "absent" => app.digest = Nothing
    /\ \A r \in Requests :
          /\ pc[r] \in Reading => snap[r].text \in Texts
          /\ pc[r] \in Ready => /\ snap[r].pdf \in Pdfs
                                /\ snap[r].channel \in Channels
                                /\ snap[r].contact \in Contacts

TokenInv ==
    /\ app.digest # Nothing =>
          /\ app.status = "draft"
          /\ app.reviewed.text = app.text
          /\ app.reviewed.pdf = app.pdf
          /\ pc[app.digest] \in {"issued", "answered", "dead"}
          /\ shown[app.digest] # Blank => shown[app.digest] = app.reviewed
    /\ \A p \in Requests :
          /\ pc[p] # "answered" => shown[p] = Blank
          /\ pc[p] \in {"sendRead", "sendReady"} => token[p] # Nothing /\ shown[token[p]] # Blank

InFlight(r) == pc[r] \in {"claimed", "delivered"}

ClaimInv ==
    /\ claim.by = Nothing <=> app.status \in {"absent", "draft"}
    /\ claim.by # Nothing => claim.token # Nothing /\ shown[claim.token] = app.reviewed
    /\ claim.by # Nothing => pc[claim.token] = "answered"
    /\ \A r \in Requests : InFlight(r) =>
          app.status = "sending" /\ claim.by = r /\ snap[r] = app.reviewed

Claimed == [by |-> claim.by, text |-> app.reviewed.text, pdf |-> app.reviewed.pdf,
            contact |-> app.reviewed.contact]

MailInv ==
    /\ mailbox # {} => claim.by # Nothing /\ mailbox = {Claimed}
    /\ app.status = "sent" => mailbox # {}
    /\ app.status = "failed" => mailbox = {}
    /\ \A r \in Requests :
          /\ pc[r] = "claimed" => mailbox = {}
          /\ pc[r] = "delivered" =>
                /\ verdict[r] \in Verdicts
                /\ verdict[r] = "sent" => mailbox # {}
                /\ verdict[r] = "failed" => mailbox = {}

IInv ==
    /\ TypeOK
    /\ ReadInv
    /\ TokenInv
    /\ ClaimInv
    /\ MailInv
--------------------------------------------------------------------------------
(* Every step preserves the invariant: a lemma for each group of actions. *)

USE NothingAssumption, CrashAssumption
USE DEF Ready, Reading, InFlight, OrNothing, requestVars

\* Filling in a part of a snapshot gives a snapshot.
LEMMA SnapshotParts ==
    ASSUME NEW s \in Snapshot, NEW a, NEW b
    PROVE  /\ a \in OrNothing(Texts) /\ b \in OrNothing(Pdfs)
                => [s EXCEPT !.text = a, !.pdf = b] \in Snapshot
           /\ a \in OrNothing(Channels) /\ b \in OrNothing(Contacts)
                => [s EXCEPT !.channel = a, !.contact = b] \in Snapshot
  BY DEF Snapshot

\* An absent application satisfies the invariant.
LEMMA InitInv == Init => IInv
<1> SUFFICES ASSUME Init PROVE IInv
  OBVIOUS
<1> USE DEF Init, Blank
<1>1. TypeOK
  BY DEF TypeOK, Snapshot, Messages, Statuses, Location
<1>2. ReadInv /\ TokenInv
  BY DEF ReadInv, TokenInv
<1>3. ClaimInv /\ MailInv
  BY DEF ClaimInv, MailInv
<1>4. QED
  BY <1>1, <1>2, <1>3 DEF IInv

\* Creating the row, or losing to the request that created it.
LEMMA InsertInv ==
    ASSUME IInv, NEW r \in Requests, NEW text \in Texts, NEW pdf \in OrNothing(Pdfs),
           Insert(r, text, pdf)
    PROVE  IInv'
<1> USE DEF IInv, Insert, Answer, Leave, Goto
<1>1. TypeOK'
  <2>1. Blank \in Snapshot
    BY DEF Blank, Snapshot
  <2>2. app' \in [status : Statuses, text : OrNothing(Texts), pdf : OrNothing(Pdfs),
                  digest : OrNothing(Requests), reviewed : Snapshot, expired : BOOLEAN]
    BY DEF TypeOK, Statuses
  <2>3. QED
    BY <2>1, <2>2 DEF TypeOK, Location
<1>2. ReadInv'
  BY DEF TypeOK, ReadInv
<1>3. TokenInv'
  BY DEF TypeOK, ReadInv, TokenInv
<1>4. ClaimInv'
  BY DEF TypeOK, ClaimInv, TokenInv
<1>5. MailInv'
  BY DEF TypeOK, MailInv, ClaimInv, Claimed
<1>6. QED
  BY <1>1, <1>2, <1>3, <1>4, <1>5

\* An edit withdraws the token, so nothing is left to be claimed.
LEMMA ReplaceInv ==
    ASSUME IInv, NEW r \in Requests, NEW text \in Texts, NEW pdf \in OrNothing(Pdfs),
           NEW keep \in BOOLEAN, Replace(r, text, pdf, keep)
    PROVE  IInv'
<1> USE DEF IInv, Replace, Answer, Leave, Goto
<1>1. TypeOK'
  <2>1. Blank \in Snapshot
    BY DEF Blank, Snapshot
  <2>2. app' \in [status : Statuses, text : OrNothing(Texts), pdf : OrNothing(Pdfs),
                  digest : OrNothing(Requests), reviewed : Snapshot, expired : BOOLEAN]
    BY <2>1 DEF TypeOK
  <2>3. QED
    BY <2>1, <2>2 DEF TypeOK, Location
<1>2. ReadInv'
  BY DEF TypeOK, ReadInv
<1>3. TokenInv'
  BY DEF TypeOK, TokenInv
<1>4. ClaimInv'
  BY DEF TypeOK, ClaimInv, TokenInv
<1>5. MailInv'
  BY DEF TypeOK, MailInv, ClaimInv, Claimed
<1>6. QED
  BY <1>1, <1>2, <1>3, <1>4, <1>5

\* Loading the row; a send request brings the token of an answered preview.
LEMMA LoadInv ==
    ASSUME IInv, NEW r \in Requests, NEW to \in {"previewRead", "sendRead"}, Load(r, to),
           UNCHANGED <<app, channel, contact, mailbox, shown, verdict, claim>>,
           \/ to = "previewRead" /\ UNCHANGED token
           \/ \E p \in Requests : /\ shown[p] # Blank
                                  /\ token' = [token EXCEPT ![r] = p]
    PROVE  IInv'
<1> USE DEF IInv, Load, Goto
<1>1. TypeOK'
  <2>1. [snap[r] EXCEPT !.text = app.text, !.pdf = app.pdf] \in Snapshot
    BY SnapshotParts DEF TypeOK
  <2>2. snap' = [snap EXCEPT ![r] = [snap[r] EXCEPT !.text = app.text, !.pdf = app.pdf]]
    BY DEF TypeOK
  <2>3. snap' \in [Requests -> Snapshot]
    BY <2>1, <2>2 DEF TypeOK
  <2>4. QED
    BY <2>3 DEF TypeOK, Location
<1>2. ReadInv'
  BY DEF TypeOK, ReadInv, Snapshot
<1>3. TokenInv'
  BY DEF TypeOK, TokenInv
<1>4. ClaimInv'
  BY DEF TypeOK, ClaimInv
<1>5. MailInv'
  BY DEF TypeOK, MailInv, Claimed
<1>6. QED
  BY <1>1, <1>2, <1>3, <1>4, <1>5

\* Reading posting, policy and contact; the guard makes the snapshot usable.
LEMMA GatherInv ==
    ASSUME IInv, NEW r \in Requests, NEW from, NEW to, Gather(r, from, to),
           \/ from = "previewRead" /\ to = "previewReady"
           \/ from = "sendRead" /\ to = "sendReady"
    PROVE  IInv'
<1> USE DEF IInv, Gather, Answer, Leave, Goto
<1>1. TypeOK'
  <2>1. Blank \in Snapshot
    BY DEF Blank, Snapshot
  <2>2. [snap[r] EXCEPT !.channel = channel, !.contact = contact] \in Snapshot
    BY SnapshotParts DEF TypeOK
  <2>3. \/ snap' = [snap EXCEPT ![r] =
              [snap[r] EXCEPT !.channel = channel, !.contact = contact]]
        \/ snap' = [snap EXCEPT ![r] = Blank]
    BY DEF TypeOK
  <2>4. snap' \in [Requests -> Snapshot]
    BY <2>1, <2>2, <2>3 DEF TypeOK
  <2>5. QED
    BY <2>4 DEF TypeOK, Location
<1>2. ReadInv'
  BY DEF TypeOK, ReadInv, Snapshot
<1>3. TokenInv'
  BY DEF TypeOK, TokenInv
<1>4. ClaimInv'
  BY DEF TypeOK, ClaimInv
<1>5. MailInv'
  BY DEF TypeOK, MailInv, Claimed
<1>6. QED
  BY <1>1, <1>2, <1>3, <1>4, <1>5

\* Storing the review of a draft that is still as read.
LEMMA IssueInv ==
    ASSUME IInv, NEW r \in Requests, Issue(r)
    PROVE  IInv'
<1> USE DEF IInv, Issue, Answer, Leave, Goto
<1>1. TypeOK'
  <2>1. Blank \in Snapshot /\ snap[r] \in Snapshot
    BY DEF TypeOK, Blank, Snapshot
  <2>2. app' \in [status : Statuses, text : OrNothing(Texts), pdf : OrNothing(Pdfs),
                  digest : OrNothing(Requests), reviewed : Snapshot, expired : BOOLEAN]
    <3>1. \/ app' = [app EXCEPT !.digest = r, !.reviewed = snap[r], !.expired = FALSE]
          \/ app' = app
      OBVIOUS
    <3>2. QED
      BY <2>1, <3>1 DEF TypeOK
  <2>3. QED
    BY <2>1, <2>2 DEF TypeOK, Location
<1>2. CASE ~StillAsRead(r)
  <2>1. ReadInv' /\ TokenInv'
    BY <1>2 DEF TypeOK, ReadInv, TokenInv
  <2>2. ClaimInv' /\ MailInv'
    BY <1>2 DEF TypeOK, ClaimInv, MailInv, Claimed
  <2>3. QED
    BY <1>1, <2>1, <2>2
<1>3. CASE StillAsRead(r)
  <2>1. /\ app' = [app EXCEPT !.digest = r, !.reviewed = snap[r], !.expired = FALSE]
        /\ pc' = [pc EXCEPT ![r] = "issued"]
        /\ UNCHANGED <<channel, contact, mailbox, snap, token, verdict, shown, claim>>
        /\ pc[r] = "previewReady"
    BY <1>3
  <2>2. /\ app.status = "draft" /\ app'.status = "draft"
        /\ app'.text = app.text /\ app'.pdf = app.pdf
        /\ app'.digest = r /\ app'.reviewed = snap[r]
        /\ snap[r].text = app.text /\ snap[r].pdf = app.pdf
    BY <1>3, <2>1 DEF TypeOK, StillAsRead
  <2> HIDE DEF Issue
  <2>3. ReadInv'
    BY <2>1, <2>2 DEF TypeOK, ReadInv
  <2>4. TokenInv'
    BY <2>1, <2>2 DEF TypeOK, TokenInv
  <2>5. claim.by = Nothing /\ \A q \in Requests : ~InFlight(q)
    BY <2>2 DEF ClaimInv
  <2>6. ClaimInv'
    BY <2>1, <2>2, <2>5 DEF TypeOK, ClaimInv
  <2>7. MailInv'
    BY <2>1, <2>2, <2>5 DEF TypeOK, MailInv
  <2>8. QED
    BY <1>1, <2>3, <2>4, <2>6, <2>7
<1>4. QED
  BY <1>2, <1>3

\* Answering a preview: while its token is live, it shows the stored review.
LEMMA ShowInv ==
    ASSUME IInv, NEW r \in Requests, Show(r)
    PROVE  IInv'
<1> USE DEF IInv, Show, Answer, Leave, Goto
<1>1. TypeOK'
  <2>1. Blank \in Snapshot
    BY DEF Blank, Snapshot
  <2>2. /\ [app.reviewed EXCEPT !.text = app.text, !.pdf = app.pdf] \in Snapshot
        /\ [text |-> app.text, pdf |-> app.pdf, channel |-> channel,
            contact |-> contact] \in Snapshot
    BY DEF TypeOK, Snapshot
  <2>3. shown' \in [Requests -> Snapshot]
    BY <2>1, <2>2 DEF TypeOK
  <2>4. QED
    BY <2>1, <2>3 DEF TypeOK, Location
<1>2. ReadInv'
  BY DEF TypeOK, ReadInv
<1>3. TokenInv'
  <2>1. app.digest # Nothing => app.reviewed # Blank
    BY DEF TypeOK, TokenInv, ReadInv, Blank
  <2>2. app.digest # Nothing =>
           [app.reviewed EXCEPT !.text = app.text, !.pdf = app.pdf] = app.reviewed
    <3>1. \A s \in Snapshot : [s EXCEPT !.text = s.text, !.pdf = s.pdf] = s
      BY DEF Snapshot
    <3>2. app.reviewed \in Snapshot
      BY DEF TypeOK
    <3>3. QED
      BY <3>1, <3>2 DEF TokenInv
  <2>3. app.digest = r => shown'[r] = app.reviewed
    BY <2>1, <2>2 DEF TypeOK
  <2>4. QED
    BY <2>3 DEF TypeOK, TokenInv
<1>4. ClaimInv'
  BY DEF TypeOK, ClaimInv
<1>5. MailInv'
  BY DEF TypeOK, MailInv, Claimed
<1>6. QED
  BY <1>1, <1>2, <1>3, <1>4, <1>5

\* The claim: the presented token is the live one, so its answer showed the
\* review that is claimed, and no other request is in flight.
LEMMA ClaimedInv ==
    ASSUME IInv, NEW r \in Requests, Claim(r)
    PROVE  IInv'
<1> USE DEF IInv, Claim, Answer, Leave, Goto
<1>1. TypeOK'
  <2>1. Blank \in Snapshot
    BY DEF Blank, Snapshot
  <2>2. app' \in [status : Statuses, text : OrNothing(Texts), pdf : OrNothing(Pdfs),
                  digest : OrNothing(Requests), reviewed : Snapshot, expired : BOOLEAN]
    <3>1. \/ app' = [app EXCEPT !.status = "sending", !.digest = Nothing]
          \/ app' = app
      OBVIOUS
    <3>2. QED
      BY <3>1 DEF TypeOK, Statuses
  <2>3. claim' \in [by : OrNothing(Requests), token : OrNothing(Requests)]
    BY DEF TypeOK
  <2>4. QED
    BY <2>1, <2>2, <2>3 DEF TypeOK, Location
<1>2. CASE ~Claimable(r)
  <2>1. ReadInv' /\ TokenInv'
    BY <1>2 DEF TypeOK, ReadInv, TokenInv
  <2>2. ClaimInv' /\ MailInv'
    BY <1>2 DEF TypeOK, ClaimInv, MailInv, Claimed
  <2>3. QED
    BY <1>1, <2>1, <2>2
<1>3. CASE Claimable(r)
  <2>1. /\ app' = [app EXCEPT !.status = "sending", !.digest = Nothing]
        /\ claim' = [by |-> r, token |-> token[r]]
        /\ pc' = [pc EXCEPT ![r] = "claimed"]
        /\ UNCHANGED <<channel, contact, mailbox, snap, token, verdict, shown>>
        /\ pc[r] = "sendReady"
    BY <1>3
  <2>2. /\ app.status = "draft" /\ app'.status = "sending"
        /\ app'.text = app.text /\ app'.pdf = app.pdf
        /\ app'.digest = Nothing /\ app'.reviewed = app.reviewed
        /\ app.digest = token[r] /\ app.reviewed = snap[r]
    BY <1>3, <2>1 DEF TypeOK, Claimable, StillAsRead
  <2> HIDE DEF Claim
  <2>3. ReadInv'
    BY <2>1, <2>2 DEF TypeOK, ReadInv
  <2>4. TokenInv'
    BY <2>1, <2>2 DEF TypeOK, TokenInv
  <2>5. claim.by = Nothing /\ \A q \in Requests : ~InFlight(q)
    BY <2>2 DEF ClaimInv
  <2>6. /\ token[r] \in Requests /\ shown[token[r]] = app.reviewed
        /\ pc[token[r]] = "answered" /\ token[r] # r
    BY <2>1, <2>2 DEF TypeOK, TokenInv
  <2>7. ClaimInv'
    BY <2>1, <2>2, <2>5, <2>6 DEF TypeOK, ClaimInv
  <2>8. MailInv'
    BY <2>1, <2>2, <2>5 DEF TypeOK, MailInv
  <2>9. QED
    BY <1>1, <2>3, <2>4, <2>7, <2>8
<1>4. QED
  BY <1>2, <1>3

\* The message that reaches the mailbox is the claimed one.
LEMMA DeliverInv ==
    ASSUME IInv, NEW r \in Requests, NEW outcome \in Verdicts, Deliver(r, outcome)
    PROVE  IInv'
<1> USE DEF IInv, Deliver, Goto
<1>1. TypeOK'
  <2>1. MessageOf(r) \in Messages
    BY DEF TypeOK, ReadInv, MessageOf, Messages
  <2>2. QED
    BY <2>1 DEF TypeOK, Location
<1>2. ReadInv'
  BY DEF TypeOK, ReadInv
<1>3. TokenInv'
  BY DEF TypeOK, TokenInv
<1>4. ClaimInv'
  BY DEF TypeOK, ClaimInv
<1>5. MailInv'
  <2>1. MessageOf(r) = Claimed
    BY DEF ClaimInv, MessageOf, Claimed
  <2>2. \A q \in Requests \ {r} : ~InFlight(q)
    BY DEF ClaimInv
  <2>3. claim.by # Nothing
    BY DEF ClaimInv
  <2>4. app.status = "sending"
    BY DEF ClaimInv
  <2>5. \/ outcome \in {"sent", "unknown"} /\ mailbox' = {Claimed}
        \/ outcome \in {"failed", "unknown"} /\ mailbox' = {}
    BY <2>1 DEF MailInv
  <2>6. Claimed' = Claimed
    BY DEF Claimed
  <2>7. QED
    BY <2>2, <2>3, <2>4, <2>5, <2>6 DEF TypeOK, MailInv
<1>6. QED
  BY <1>1, <1>2, <1>3, <1>4, <1>5

\* The recorded outcome is the one the request knows.
LEMMA RecordInv ==
    ASSUME IInv, NEW r \in Requests, Record(r)
    PROVE  IInv'
<1> USE DEF IInv, Record, Answer, Leave, Goto
<1>1. TypeOK'
  <2>1. Blank \in Snapshot
    BY DEF Blank, Snapshot
  <2>2. verdict[r] \in Verdicts
    BY DEF MailInv
  <2>3. app' \in [status : Statuses, text : OrNothing(Texts), pdf : OrNothing(Pdfs),
                  digest : OrNothing(Requests), reviewed : Snapshot, expired : BOOLEAN]
    BY <2>2 DEF TypeOK, Statuses
  <2>4. QED
    BY <2>1, <2>3 DEF TypeOK, Location
<1>2. ReadInv'
  BY DEF TypeOK, ReadInv, MailInv, Verdicts
<1>3. TokenInv'
  BY DEF TypeOK, TokenInv, ClaimInv
<1>4. ClaimInv'
  BY DEF TypeOK, ClaimInv, MailInv, Verdicts
<1>5. MailInv'
  BY DEF TypeOK, MailInv, ClaimInv, Claimed, Verdicts
<1>6. QED
  BY <1>1, <1>2, <1>3, <1>4, <1>5

\* Death, the clock, and changes outside the requests.
LEMMA EnvironmentInv ==
    ASSUME IInv,
           \/ \E r \in Requests : Crash(r) \/ StartCreate(r) \/ StartEdit(r)
           \/ Expire
           \/ \E c \in OrNothing(Channels) : ChangeChannel(c)
           \/ \E k \in OrNothing(Contacts) : ChangeContact(k)
    PROVE  IInv'
<1> USE DEF IInv, Crash, StartCreate, StartEdit, Expire, ChangeChannel, ChangeContact,
            Leave, Goto
<1>1. TypeOK'
  <2>1. Blank \in Snapshot
    BY DEF Blank, Snapshot
  <2>2. app' \in [status : Statuses, text : OrNothing(Texts), pdf : OrNothing(Pdfs),
                  digest : OrNothing(Requests), reviewed : Snapshot, expired : BOOLEAN]
    BY DEF TypeOK
  <2>3. QED
    BY <2>1, <2>2 DEF TypeOK, Location
<1>2. ReadInv'
  BY DEF TypeOK, ReadInv
<1>3. TokenInv'
  BY DEF TypeOK, TokenInv
<1>4. ClaimInv'
  BY DEF TypeOK, ClaimInv
<1>5. MailInv'
  BY DEF TypeOK, MailInv, Claimed
<1>6. QED
  BY <1>1, <1>2, <1>3, <1>4, <1>5

\* Every step keeps the invariant.
LEMMA NextInv == IInv /\ [Next]_vars => IInv'
<1> SUFFICES ASSUME IInv, [Next]_vars PROVE IInv'
  OBVIOUS
<1>1. ASSUME NEW r \in Requests, StartCreate(r) \/ StartEdit(r) \/ Crash(r)
      PROVE  IInv'
  BY <1>1, EnvironmentInv
<1>2. ASSUME NEW r \in Requests, StartPreview(r)
      PROVE  IInv'
  BY <1>2, LoadInv DEF StartPreview
<1>3. ASSUME NEW r \in Requests, NEW p \in Requests, StartSend(r, p)
      PROVE  IInv'
  <2>1. /\ Load(r, "sendRead")
        /\ UNCHANGED <<app, channel, contact, mailbox, shown, verdict, claim>>
        /\ \E q \in Requests : shown[q] # Blank /\ token' = [token EXCEPT ![r] = q]
    BY <1>3 DEF StartSend
  <2>2. QED
    BY <2>1, LoadInv
<1>4. ASSUME NEW r \in Requests, NEW text \in Texts, NEW pdf \in OrNothing(Pdfs),
             Insert(r, text, pdf)
      PROVE  IInv'
  BY <1>4, InsertInv
<1>5. ASSUME NEW r \in Requests, NEW text \in Texts, NEW pdf \in OrNothing(Pdfs),
             NEW keep \in BOOLEAN, Replace(r, text, pdf, keep)
      PROVE  IInv'
  BY <1>5, ReplaceInv
<1>6. ASSUME NEW r \in Requests,
             \/ Gather(r, "previewRead", "previewReady")
             \/ Gather(r, "sendRead", "sendReady")
      PROVE  IInv'
  BY <1>6, GatherInv
<1>7. ASSUME NEW r \in Requests, Issue(r) \/ Show(r) \/ Claim(r) \/ Record(r)
      PROVE  IInv'
  BY <1>7, IssueInv, ShowInv, ClaimedInv, RecordInv
<1>8. ASSUME NEW r \in Requests, NEW outcome \in Verdicts, Deliver(r, outcome)
      PROVE  IInv'
  BY <1>8, DeliverInv
<1>9. CASE \/ Expire
           \/ \E c \in OrNothing(Channels) : ChangeChannel(c)
           \/ \E k \in OrNothing(Contacts) : ChangeContact(k)
  BY <1>9, EnvironmentInv
<1>10. CASE UNCHANGED vars
  BY <1>10 DEF vars, IInv, TypeOK, ReadInv, TokenInv, ClaimInv, MailInv, Claimed
<1>11. QED
  BY <1>1, <1>2, <1>3, <1>4, <1>5, <1>6, <1>7, <1>8, <1>9, <1>10 DEF Next, Serve

\* The invariant every other result rests on.
THEOREM Invariance == Spec => []IInv
<1>1. QED
  BY InitInv, NextInv, PTL DEF Spec
--------------------------------------------------------------------------------
(* The results *)

\* Every variable keeps its type.
THEOREM TypeCorrect == Spec => []TypeOK
<1>1. IInv => TypeOK
  BY DEF IInv
<1>2. QED
  BY <1>1, Invariance, PTL

\* A message in the mailbox is what the answer of the presented preview displayed
\* (router.py:345-382, 395-430).
THEOREM ShownIsSent == Spec => []DeliveredAsShown
<1>1. IInv => DeliveredAsShown
  <2> SUFFICES ASSUME IInv, NEW m \in mailbox
               PROVE  /\ claim.token # Nothing
                      /\ shown[claim.token] =
                           [app.reviewed EXCEPT !.text = m.text, !.pdf = m.pdf,
                                                !.contact = m.contact]
    BY DEF DeliveredAsShown
  <2>1. claim.by # Nothing /\ m = Claimed
    BY DEF IInv, MailInv
  <2>2. \A s \in Snapshot :
           [s EXCEPT !.text = s.text, !.pdf = s.pdf, !.contact = s.contact] = s
    BY DEF Snapshot
  <2>3. app.reviewed \in Snapshot
    BY DEF IInv, TypeOK
  <2>4. QED
    BY <2>1, <2>2, <2>3 DEF IInv, ClaimInv, Claimed
<1>2. QED
  BY <1>1, Invariance, PTL

\* The handlers that write the row; every other step leaves it, and the claim, alone.
RowWrite(r) ==
    \/ \E text \in Texts, pdf \in OrNothing(Pdfs) :
          \/ Insert(r, text, pdf)
          \/ \E keep \in BOOLEAN : Replace(r, text, pdf, keep)
    \/ Issue(r) \/ Claim(r) \/ Record(r)

LEMMA WritersOnly ==
    ASSUME [Next]_vars,
           ~Expire, \A r \in Requests : ~RowWrite(r)
    PROVE  UNCHANGED <<app, claim>>
<1>1. ASSUME NEW r \in Requests, Gather(r, "previewRead", "previewReady")
                               \/ Gather(r, "sendRead", "sendReady")
      PROVE  UNCHANGED <<app, claim>>
  BY <1>1 DEF Gather
<1>2. ASSUME NEW r \in Requests, NEW outcome \in Verdicts, Deliver(r, outcome)
      PROVE  UNCHANGED <<app, claim>>
  BY <1>2 DEF Deliver
<1>3. ASSUME NEW r \in Requests, StartCreate(r) \/ StartEdit(r) \/ StartPreview(r) \/ Show(r)
                               \/ Crash(r) \/ \E p \in Requests : StartSend(r, p)
      PROVE  UNCHANGED <<app, claim>>
  BY <1>3 DEF StartCreate, StartEdit, StartPreview, Show, Crash, StartSend
<1>4. ASSUME NEW c, ChangeChannel(c) \/ ChangeContact(c)
      PROVE  UNCHANGED <<app, claim>>
  BY <1>4 DEF ChangeChannel, ChangeContact
<1>5. CASE UNCHANGED vars
  BY <1>5 DEF vars
<1>6. QED
  BY <1>1, <1>2, <1>3, <1>4, <1>5 DEF Next, Serve, RowWrite

\* Only a claim moves the row out of draft.
LEMMA OnlyClaimSends ==
    ASSUME IInv, [Next]_vars, app.status = "draft", app'.status # "draft"
    PROVE  \E r \in Requests : Claim(r) /\ Claimable(r)
<1>1. PICK r \in Requests : RowWrite(r)
  <2>1. Expire => app'.status = app.status
    BY DEF Expire, IInv, TypeOK
  <2>2. QED
    BY <2>1, WritersOnly
<1>2. ~Record(r)
  BY DEF Record, IInv, ClaimInv
<1>3. ~Issue(r)
  BY DEF Issue, IInv, TypeOK
<1>4. \A text, pdf, keep : ~Insert(r, text, pdf) /\ ~Replace(r, text, pdf, keep)
  <2>1. \A text, pdf : ~Insert(r, text, pdf)
    BY SMTT(30) DEF Insert, IInv, TypeOK
  <2>2. \A text, pdf, keep : ~Replace(r, text, pdf, keep)
    BY DEF Replace, IInv, TypeOK
  <2>3. QED
    BY <2>1, <2>2
<1>5. Claim(r)
  BY <1>1, <1>2, <1>3, <1>4 DEF RowWrite
<1>6. QED
  BY <1>5 DEF Claim

\* The claim commits against the posting and policy that were reviewed, whatever
\* the handler read before its UPDATE (router.py:182-202, 395-417).
THEOREM CurrentPolicy == Spec => ClaimedUnderCurrentPolicy
<1>1. IInv /\ [Next]_vars =>
        [app.status = "draft" /\ app'.status = "sending"
           => channel # Nothing /\ channel = app.reviewed.channel]_vars
  <2> SUFFICES ASSUME IInv, [Next]_vars, app.status = "draft", app'.status = "sending"
               PROVE  channel # Nothing /\ channel = app.reviewed.channel
    OBVIOUS
  <2>1. PICK r \in Requests : Claim(r) /\ Claimable(r)
    BY OnlyClaimSends
  <2>2. snap[r].channel \in Channels
    BY <2>1 DEF IInv, ReadInv, Claim
  <2>3. QED
    BY <2>1, <2>2 DEF Claimable, StillAsRead
<1>2. QED
  BY <1>1, Invariance, PTL DEF Spec, ClaimedUnderCurrentPolicy

\* Once claimed, the row is frozen but for its status, which only becomes final:
\* a late edit or preview finds no draft, a late claim no live token
\* (router.py:289-326, 354-375, 395-417, 431-444).
THEOREM Frozen == Spec => FrozenOnceClaimed
<1>1. IInv /\ [Next]_vars =>
        [app.status \notin {"absent", "draft"} =>
           /\ app' = [app EXCEPT !.status = app'.status, !.expired = app'.expired]
           /\ \/ app'.status = app.status
              \/ app.status = "sending" /\ app'.status \in Verdicts]_vars
  <2> SUFFICES ASSUME IInv, [Next]_vars, app.status \notin {"absent", "draft"}
               PROVE  /\ app' = [app EXCEPT !.status = app'.status, !.expired = app'.expired]
                      /\ \/ app'.status = app.status
                         \/ app.status = "sending" /\ app'.status \in Verdicts
    OBVIOUS
  <2> DEFINE Rows == [status : Statuses, text : OrNothing(Texts), pdf : OrNothing(Pdfs),
                      digest : OrNothing(Requests), reviewed : Snapshot, expired : BOOLEAN]
  <2>0. app \in Rows
    BY DEF IInv, TypeOK
  <2>1. \A row \in Rows : row = [row EXCEPT !.status = row.status, !.expired = row.expired]
    OBVIOUS
  <2>2. CASE Expire
    BY <2>2 DEF Expire, IInv, TokenInv
  <2>3. CASE UNCHANGED app
    BY <2>0, <2>1, <2>3
  <2>4. ASSUME NEW r \in Requests, Record(r)
        PROVE  /\ app' = [app EXCEPT !.status = app'.status, !.expired = app'.expired]
               /\ \/ app'.status = app.status
                  \/ app.status = "sending" /\ app'.status \in Verdicts
    <3>1. app.status = "sending" /\ verdict[r] \in Verdicts
      BY <2>4 DEF IInv, ClaimInv, MailInv, Record
    <3>2. app' = [app EXCEPT !.status = verdict[r]]
      BY <2>4, <3>1 DEF Record
    <3>3. QED
      BY <2>0, <3>1, <3>2
  <2>5. ASSUME NEW r \in Requests, RowWrite(r), ~Record(r)
        PROVE  UNCHANGED app
    <3>1. CASE Issue(r) \/ Claim(r)
      BY <3>1 DEF Issue, Claim, Claimable, StillAsRead
    <3>2. ASSUME NEW text, NEW pdf, NEW keep,
                 Insert(r, text, pdf) \/ Replace(r, text, pdf, keep)
          PROVE  UNCHANGED app
      BY <3>2 DEF Insert, Replace
    <3>3. QED
      BY <2>5, <3>1, <3>2 DEF RowWrite
  <2>6. QED
    BY <2>2, <2>3, <2>4, <2>5, WritersOnly
<1>2. QED
  BY <1>1, Invariance, PTL DEF Spec, FrozenOnceClaimed

\* The channel implements the single dispatch: the message a claim begins is the
\* only one that reaches the mailbox, and the status does not contradict it.
THEOREM DispatchImplemented == Spec => DispatchSpec
<1>1. Init => Dispatch!Init
  BY DEF Init, Dispatch!Init
<1>2. IInv /\ [Next]_vars => [Dispatch!Next]_(Dispatch!vars)
  <2> SUFFICES ASSUME IInv, [Next]_vars PROVE [Dispatch!Next]_(Dispatch!vars)
    OBVIOUS
  <2> DEFINE sent(c, row) == IF c.by = Nothing THEN Nothing
                             ELSE [by |-> c.by, text |-> row.reviewed.text,
                                   pdf |-> row.reviewed.pdf, contact |-> row.reviewed.contact]
  <2>1. ASSUME UNCHANGED <<app.status, sent(claim, app), mailbox>>
        PROVE  UNCHANGED Dispatch!vars
    BY <2>1 DEF Dispatch!vars
  <2>2. ASSUME NEW r \in Requests, Claim(r), app.status = "draft", Claimable(r)
        PROVE  Dispatch!Begin(MessageOf(r)) /\ MessageOf(r) \in Messages
    <3>1. claim'.by = r /\ app'.status = "sending" /\ app'.reviewed = app.reviewed
      <4>1. claim' = [by |-> r, token |-> token[r]]
        BY <2>2 DEF Claim
      <4>2. app' = [app EXCEPT !.status = "sending", !.digest = Nothing]
        BY <2>2 DEF Claim
      <4>3. QED
        BY <4>1, <4>2 DEF IInv, TypeOK
    <3>2. app.reviewed = snap[r]
      BY <2>2 DEF Claimable
    <3>3. sent(claim', app') = MessageOf(r)
      BY <3>1, <3>2 DEF MessageOf
    <3>4. MessageOf(r) \in Messages
      BY <2>2 DEF Claim, IInv, TypeOK, ReadInv, MessageOf, Messages
    <3>5. UNCHANGED mailbox
      BY <2>2 DEF Claim
    <3>6. QED
      BY <2>2, <3>1, <3>3, <3>4, <3>5 DEF Dispatch!Begin
  <2>3. ASSUME NEW r \in Requests, NEW outcome \in Verdicts, Deliver(r, outcome)
        PROVE  Dispatch!Accept \/ UNCHANGED Dispatch!vars
    <3>1. /\ app.status = "sending" /\ claim.by # Nothing /\ mailbox = {}
          /\ MessageOf(r) = sent(claim, app)
      BY <2>3 DEF Deliver, IInv, ClaimInv, MailInv, MessageOf
    <3>2. UNCHANGED <<app, claim>>
      BY <2>3 DEF Deliver
    <3>3. mailbox' = {sent(claim, app)} \/ UNCHANGED mailbox
      BY <2>3, <3>1 DEF Deliver
    <3>4. QED
      BY <2>1, <3>1, <3>2, <3>3 DEF Dispatch!Accept
  <2>4. ASSUME NEW r \in Requests, Record(r)
        PROVE  \E outcome \in Verdicts : Dispatch!Conclude(outcome)
    <3>1. /\ app.status = "sending" /\ claim.by # Nothing /\ verdict[r] \in Verdicts
          /\ verdict[r] = "sent" => mailbox = {sent(claim, app)}
          /\ verdict[r] = "failed" => mailbox = {}
      BY <2>4 DEF Record, IInv, ClaimInv, MailInv, Claimed
    <3>2. app'.status = verdict[r] /\ app'.reviewed = app.reviewed /\ UNCHANGED <<claim, mailbox>>
      BY <2>4, <3>1 DEF Record, IInv, TypeOK
    <3>3. QED
      BY <3>1, <3>2 DEF Dispatch!Conclude
  <2>5. ASSUME NEW r \in Requests, NEW text \in Texts, NEW pdf \in OrNothing(Pdfs),
               Insert(r, text, pdf)
        PROVE  Dispatch!Create \/ UNCHANGED Dispatch!vars
    <3>1. CASE app.status = "absent"
      <4>1. app'.status = "draft" /\ UNCHANGED <<claim, mailbox>> /\ claim.by = Nothing
        BY <2>5, <3>1 DEF Insert, IInv, TypeOK, ClaimInv
      <4>2. QED
        BY <3>1, <4>1 DEF Dispatch!Create
    <3>2. CASE app.status # "absent"
      BY <2>5, <3>2 DEF Insert, Dispatch!vars
    <3>3. QED
      BY <3>1, <3>2
  <2>6. ASSUME NEW r \in Requests,
               \/ Issue(r)
               \/ \E text \in Texts, pdf \in OrNothing(Pdfs), keep \in BOOLEAN :
                     Replace(r, text, pdf, keep)
               \/ Claim(r) /\ ~Claimable(r)
        PROVE  UNCHANGED Dispatch!vars
    <3>1. app.status \notin {"absent", "draft"} \/ app.status = "absent" => UNCHANGED app
      BY <2>6 DEF Issue, StillAsRead, Replace, Claim
    <3>2. app.status = "draft" => claim.by = Nothing
      BY DEF IInv, ClaimInv
    <3>3. app'.status = app.status /\ UNCHANGED <<claim, mailbox>>
      <4>1. CASE Issue(r) \/ (Claim(r) /\ ~Claimable(r))
        BY <4>1 DEF Issue, Claim, IInv, TypeOK
      <4>2. CASE \E text \in Texts, pdf \in OrNothing(Pdfs), keep \in BOOLEAN :
                    Replace(r, text, pdf, keep)
        BY <4>2 DEF Replace, IInv, TypeOK
      <4>3. QED
        BY <2>6, <4>1, <4>2
    <3>4. app.status \in {"absent", "draft"} \/ UNCHANGED app
      BY <3>1
    <3>5. claim.by = Nothing \/ UNCHANGED app
      BY <3>4 DEF IInv, ClaimInv
    <3>6. QED
      BY <2>1, <3>3, <3>5
  <2>7. CASE Expire
    BY <2>1, <2>7 DEF Expire, IInv, TypeOK
  <2>8. ASSUME ~Expire, \A r \in Requests : ~RowWrite(r),
               \A r \in Requests, outcome \in Verdicts : ~Deliver(r, outcome)
        PROVE  UNCHANGED Dispatch!vars
    <3>1. UNCHANGED <<app, claim>>
      BY <2>8, WritersOnly
    <3>2. UNCHANGED mailbox
      BY <2>8 DEF Next, Serve, vars, RowWrite, StartCreate, StartEdit, StartPreview, StartSend,
         Gather, Show, Crash, ChangeChannel, ChangeContact
    <3>3. QED
      BY <2>1, <3>1, <3>2
  <2>9. ASSUME NEW r \in Requests, RowWrite(r)
        PROVE  [Dispatch!Next]_(Dispatch!vars)
    <3>1. Claim(r) => Dispatch!Next \/ UNCHANGED Dispatch!vars
      <4>1. Claimable(r) => app.status = "draft"
        BY DEF Claimable, StillAsRead
      <4>2. QED
        BY <2>2, <2>6, <4>1 DEF Dispatch!Next
    <3>2. QED
      BY <2>4, <2>5, <2>6, <2>9, <3>1 DEF RowWrite, Dispatch!Next, Verdicts
  <2>10. QED
    BY <2>3, <2>7, <2>8, <2>9 DEF Dispatch!Next
<1>3. QED
  BY <1>1, <1>2, Invariance, PTL DEF Spec, DispatchSpec, Dispatch!Spec
================================================================================
