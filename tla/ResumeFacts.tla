------------------------------- MODULE ResumeFacts -------------------------------
(***************************************************************************)
(* The reusable facts that a model extracts from a user's resumes, and the *)
(* JSON column of the profile that says which resume is used and what the  *)
(* user typed (backend/app/profiles/autofill_facts.py, resume_files.py and *)
(* the routes of router.py).                                               *)
(*                                                                         *)
(* An extraction locks the owner's profile row while it looks for a cached *)
(* result among all copies of the same bytes and reserves its own copy;    *)
(* the call to the model runs without a lock.  Both the suggestions of a   *)
(* file and the details of the profile are JSON columns that are read,     *)
(* changed in memory and written back whole, so a writer may put back what *)
(* another has changed since it read: the model keeps each writer's copy   *)
(* and, as a ghost, whether that copy is stale.                            *)
(***************************************************************************)
EXTENDS Naturals, FiniteSets

CONSTANTS Files,        \* resume entries
          Contents,     \* bytes with readable text (their hash)
          Extractions,  \* executions of extract_resume_autofill
          Keys,         \* facts the user can type
          NoContent,    \* an entry that does not exist yet
          Deleted,      \* an entry that exists no more: its id is not used again
          Nobody        \* no file, no extraction

Editor == "editor" \* the user's edit, as a writer

ASSUME ResumeNames ==
    /\ NoContent \notin Contents /\ Deleted \notin Contents /\ Deleted # NoContent
    /\ Nobody \notin Files \union Extractions
    /\ Editor \notin Extractions

VARIABLES
    file,     \* content, cached outcome and recorded review of each entry
    details,  \* the selected resume and the keys the user has typed
    holder,   \* extraction that locks the profile row
    doing,    \* where each extraction is
    target,   \* its file and the content it read
    copy,     \* the columns it read back before it stores its result
    edit,     \* the user's edit between its read and its write
    stale,    \* ghost: writers whose copy is not what the columns say now
    paid,     \* ghost: the contents sent to the model, and by which extraction
    dropped   \* ghost: contents of which an entry with an outcome was deleted

resumeVars == <<file, details, holder, doing, target, copy, edit, stale, paid, dropped>>

NoFile == [content |-> NoContent, cache |-> "none", reviewed |-> FALSE]
Present == {f \in Files : file[f].content \in Contents}
Details == [selected : Files \union {Nobody}, typed : SUBSET Keys]
NoDetails == [selected |-> Nobody, typed |-> {}]

\* What a PATCH of the details may change: the selection or one typed value.
Changes == [select : Files \union {Nobody}] \union [type : Keys]
NoTarget == [file |-> Nobody, content |-> NoContent]
NoCopy == [details |-> NoDetails, reviewed |-> FALSE, ok |-> FALSE]
NoEdit == [open |-> FALSE, read |-> NoDetails, change |-> [select |-> Nobody]]

ResumeInit ==
    /\ file = [f \in Files |-> NoFile]
    /\ details = NoDetails
    /\ holder = Nobody
    /\ doing = [x \in Extractions |-> "idle"]
    /\ target = [x \in Extractions |-> NoTarget]
    /\ copy = [x \in Extractions |-> NoCopy]
    /\ edit = NoEdit
    /\ stale = {} /\ paid = {} /\ dropped = {}

Do(x, what) == doing' = [doing EXCEPT ![x] = what]

\* Writers that have read a column which is now written by somebody else.
Readers == {x \in Extractions : doing[x] = "storing"} \union (IF edit.open THEN {Editor} ELSE {})
ReadersOf(f) == {x \in Extractions : doing[x] = "storing" /\ target[x].file = f}
-------------------------------------------------------------------------------
(* The user's files and details *)

\* create_file: a parsed upload; bytes may be uploaded again.
Upload(f, c) ==
    /\ file[f].content = NoContent
    /\ file' = [file EXCEPT ![f] = [NoFile EXCEPT !.content = c]]
    /\ UNCHANGED <<details, holder, doing, target, copy, edit, stale, paid, dropped>>

\* delete_resume asks neither for the selection nor for a running extraction.
DeleteFile(f) ==
    /\ f \in Present
    /\ file' = [file EXCEPT ![f] = [NoFile EXCEPT !.content = Deleted]]
    /\ dropped' = IF file[f].cache # "none" THEN dropped \union {file[f].content} ELSE dropped
    /\ UNCHANGED <<details, holder, doing, target, copy, edit, stale, paid>>

\* update_autofill_details reads the details and checks the file it selects.
ReadDetails(change) ==
    /\ ~edit.open
    /\ "select" \in DOMAIN change => change.select \in Present \union {Nobody}
    /\ edit' = [open |-> TRUE, read |-> details, change |-> change]
    /\ UNCHANGED <<file, details, holder, doing, target, copy, stale, paid, dropped>>

Changed(d, change) ==
    IF "select" \in DOMAIN change
    THEN [d EXCEPT !.selected = change.select]
    ELSE [d EXCEPT !.typed = @ \union {change.type}]

\* It writes the whole column, as soon as nobody locks the row.
WriteDetails ==
    /\ edit.open /\ holder = Nobody
    /\ details' = Changed(edit.read, edit.change)
    /\ edit' = NoEdit
    /\ stale' = IF details' = details THEN stale \ {Editor}
                ELSE (stale \union Readers) \ {Editor}
    /\ UNCHANGED <<file, holder, doing, target, copy, paid, dropped>>

\* An administrator records a review of what a file says, outside the API.
RecordReview(f) ==
    /\ f \in Present /\ ~file[f].reviewed
    /\ file' = [file EXCEPT ![f].reviewed = TRUE]
    /\ stale' = stale \union ReadersOf(f)
    /\ UNCHANGED <<details, holder, doing, target, copy, edit, paid, dropped>>
-------------------------------------------------------------------------------
(* An extraction *)

Copies(c) == {f \in Files : file[f].content = c}

\* Mutant: only the file itself is looked at.
CachedForFile(f) == file[f].cache

\* _shared_extraction_cache: a review of any copy, then the best outcome.
Cached(f) ==
    LET copies == Copies(file[f].content)
        outcomes == {file[g].cache : g \in copies}
    IN  CASE \E g \in copies : file[g].reviewed -> "reviewed"
          [] OTHER -> IF "ready" \in outcomes THEN "ready"
                      ELSE IF "running" \in outcomes THEN "running"
                      ELSE IF "failed" \in outcomes THEN "failed" ELSE "none"

\* A known result of the same bytes is copied to the file; ready facts select it.
ReuseFacts(x, f) ==
    /\ Do(x, "done")
    /\ file' = IF Cached(f) = "reviewed" THEN [file EXCEPT ![f].reviewed = TRUE]
               ELSE [file EXCEPT ![f].cache = Cached(f)]
    /\ details' = IF Cached(f) = "failed" THEN details ELSE [details EXCEPT !.selected = f]
    /\ stale' = stale \union (IF details' = details THEN {} ELSE Readers)
                     \union (IF file'[f].reviewed = file[f].reviewed THEN {} ELSE ReadersOf(f))
    /\ UNCHANGED <<holder, target, copy, edit, paid, dropped>>

\* Under the lock: 409 for a running extraction, reuse, or go on to reserve.
Lookup(x, f) ==
    /\ doing[x] = "idle" /\ holder = Nobody /\ f \in Present
    /\ CASE Cached(f) = "running" ->
              /\ Do(x, "done")
              /\ UNCHANGED <<file, details, holder, target, copy, edit, stale, paid, dropped>>
         [] Cached(f) \in {"reviewed", "ready", "failed"} -> ReuseFacts(x, f)
         [] OTHER ->
              /\ holder' = x
              /\ Do(x, "claiming")
              /\ target' = [target EXCEPT ![x] = [file |-> f, content |-> file[f].content]]
              /\ UNCHANGED <<file, details, copy, edit, stale, paid, dropped>>

\* The reservation is committed, which releases the lock; the call starts.  A
\* file deleted or written meanwhile ends the request instead.
Claim(x) ==
    LET f == target[x].file
    IN  /\ doing[x] = "claiming"
        /\ holder' = Nobody
        /\ IF file[f].content = target[x].content /\ file[f].cache = "none"
           THEN /\ file' = [file EXCEPT ![f].cache = "running"]
                /\ Do(x, "calling")
                /\ paid' = paid \union {<<x, target[x].content>>}
                /\ UNCHANGED target
           ELSE /\ Do(x, "done")
                /\ target' = [target EXCEPT ![x] = NoTarget]
                /\ UNCHANGED <<file, paid>>
        /\ UNCHANGED <<details, copy, edit, stale, dropped>>

\* The call ends in facts the text grounds, or in any of the errors; the columns
\* are read back, unless the file is gone.
ExtractionCallEnds(x, ok) ==
    /\ doing[x] = "calling"
    /\ IF target[x].file \notin Present
       THEN /\ Do(x, "done")
            /\ target' = [target EXCEPT ![x] = NoTarget]
            /\ UNCHANGED copy
       ELSE /\ copy' = [copy EXCEPT ![x] = [details |-> details, ok |-> ok,
                                            reviewed |-> file[target[x].file].reviewed]]
            /\ Do(x, "storing")
            /\ UNCHANGED target
    /\ UNCHANGED <<file, details, holder, edit, stale, paid, dropped>>

SelectedIn(x) == [copy[x].details EXCEPT !.selected = target[x].file]

\* Both columns are written back whole; a file deleted meanwhile undoes both.
Store(x) ==
    LET f == target[x].file
    IN  /\ doing[x] = "storing"
        /\ copy[x].ok => holder = Nobody
        /\ IF f \notin Present
           THEN UNCHANGED <<file, details>> /\ stale' = stale \ {x}
           ELSE /\ file' = [file EXCEPT ![f].cache = IF copy[x].ok THEN "ready" ELSE "failed",
                                        ![f].reviewed = copy[x].reviewed]
                /\ details' = IF copy[x].ok THEN SelectedIn(x) ELSE details
                /\ stale' = IF details' = details THEN stale \ {x}
                            ELSE (stale \union Readers) \ {x}
        /\ Do(x, "done")
        /\ copy' = [copy EXCEPT ![x] = NoCopy]
        /\ target' = [target EXCEPT ![x] = NoTarget]
        /\ UNCHANGED <<holder, edit, paid, dropped>>

\* The process dies: its transaction is undone, its reservation stays.
ProcessDies(x) ==
    /\ doing[x] \in {"claiming", "calling", "storing"}
    /\ Do(x, "dead")
    /\ holder' = IF holder = x THEN Nobody ELSE holder
    /\ stale' = stale \ {x}
    /\ copy' = [copy EXCEPT ![x] = NoCopy]
    /\ UNCHANGED <<file, details, target, edit, paid, dropped>>

ExtractionStep(x) ==
    \/ Claim(x)
    \/ \E ok \in BOOLEAN : ExtractionCallEnds(x, ok)
    \/ Store(x)

ResumeNext ==
    \/ \E f \in Files : \/ \E c \in Contents : Upload(f, c)
                        \/ DeleteFile(f)
                        \/ RecordReview(f)
    \/ \E change \in Changes : ReadDetails(change)
    \/ WriteDetails
    \/ \E x \in Extractions : \/ \E f \in Files : Lookup(x, f)
                              \/ ExtractionStep(x)
                              \/ ProcessDies(x)

\* A process that lives carries its extraction to the end.
ResumeFairness == \A x \in Extractions : WF_resumeVars(ExtractionStep(x))

ResumeSpec == ResumeInit /\ [][ResumeNext]_resumeVars /\ ResumeFairness
-------------------------------------------------------------------------------
(* The profile that forms are filled from: build_autofill_profile *)

\* The selected file, or the only one; with several the user must choose.
UsedFile ==
    IF details.selected \in Present THEN details.selected
    ELSE IF Cardinality(Present) = 1 THEN CHOOSE f \in Present : TRUE
    ELSE Nobody

UsedFacts ==
    IF UsedFile = Nobody THEN "none"
    ELSE IF file[UsedFile].reviewed \/ file[UsedFile].cache = "ready" THEN "facts"
    ELSE "no facts"
-------------------------------------------------------------------------------
(* Properties *)

\* Every variable has its type; only an extraction that calls or stores, or that
\* died, keeps a file reserved, and the lock is held from lookup to claim.
ResumeTypes ==
    /\ \A f \in Files : /\ file[f].content \in Contents \union {NoContent, Deleted}
                        /\ file[f].cache \in {"none", "running", "ready", "failed"}
                        /\ f \notin Present => file[f] = [NoFile EXCEPT !.content = file[f].content]
    /\ details \in Details
    /\ \A x \in Extractions : holder = x <=> doing[x] = "claiming"
    /\ \A f \in Files : file[f].cache = "running" =>
          \E x \in Extractions : target[x].file = f /\ doing[x] \in {"calling", "storing", "dead"}
    /\ stale \subseteq Readers

\* The same bytes are sent to the model once, however many copies and requests
\* there are and whether the call succeeds, fails or dies, as long as the user
\* does not delete an entry that holds the outcome (AUTOFILL_REPAIR, "owner/hash
\* reservations").
OneCallPerContent ==
    \A a, b \in paid : a[2] = b[2] => a = b \/ a[2] \in dropped

\* What the user typed, and a recorded review, are lost only to a writer that
\* read the column before they were saved: no sequence of requests loses them.
EditsLostOnlyToRaces ==
    [][/\ ~(details.typed \subseteq details'.typed) =>
             \E w \in stale : (w = Editor /\ ~edit'.open) \/ (w # Editor /\ doing'[w] = "done")
       /\ \A f \in Files : file[f].reviewed /\ ~file'[f].reviewed /\ f \in Present' =>
             \E x \in stale \intersect Extractions : target[x].file = f /\ doing'[x] = "done"
      ]_resumeVars

\* A file is reserved by an extraction whose process lives.
ReservationHeld ==
    \E f \in Files : /\ file[f].cache = "running"
                     /\ \A x \in Extractions : target[x].file = f => doing[x] # "dead"

\* A reservation ends: in an outcome, with its file, or with its process.
ReservationsEnd == ReservationHeld ~> ~ReservationHeld
===============================================================================
