--------------------------------- MODULE JobStore ---------------------------------
(***************************************************************************)
(* What a collection reads from a job board and what it makes of the       *)
(* stored postings (backend/app/ingestion: internsg_adapter.collect,       *)
(* public_ats_adapter.collect, db_repository.upsert and close_missing, and *)
(* the publication in service.run_source).                                 *)
(*                                                                         *)
(* A board changes at any time, also between two requests of one crawl.    *)
(* The InternSG board is read page by page and posting by posting; a       *)
(* public applicant tracking board (JSON) in one response.  What was read  *)
(* is published in one transaction, seen by nobody before its commit.  A   *)
(* source runs one collection at a time, as SourceCollection shows; two    *)
(* sources may name one board and collect at once.                         *)
(*                                                                         *)
(* Of a posting only what decides its identity and its status is kept: its *)
(* id, its title, and whether it is open, closed, outside the scope or     *)
(* unreadable.  Robots rules that cannot be read are one of the failures   *)
(* of the first request; Barred are the pages they disallow.               *)
(***************************************************************************)
EXTENDS Integers, FiniteSets, Sequences, SequencesExt

CONSTANTS Sources,    \* rows of job_sources
          Html,       \* those read from InternSG; the others read a JSON board
          Boards,
          BoardOf,    \* the board a source names
          Ids,        \* external ids of postings: 1..n, in the order a listing has them
          Titles,
          Barred,     \* postings whose page the robots rules disallow
          PageSize,   \* postings on a page of a listing
          LastPage,   \* MAX_LISTING_PAGES
          Limits,     \* the choices of <<max_links, max_details>> for each source
          Retries,    \* retry_count of each source's requests
          MaxEdits,   \* bound: changes of the boards
          MaxCrawls   \* bound: collections of each source

ASSUME StoreNames ==
    /\ Html \subseteq Sources
    /\ BoardOf \in [Sources -> Boards]
    /\ Ids \subseteq Nat /\ IsFiniteSet(Ids)
ASSUME StoreLimits ==
    /\ {PageSize, LastPage} \subseteq Nat \ {0}
    /\ Retries \in [Sources -> Nat] /\ {MaxEdits, MaxCrawls} \subseteq Nat
    /\ Limits \in [Sources -> SUBSET {l \in (Nat \ {0}) \X (Nat \ {0}) : l[2] <= l[1]}]

Gone == [state |-> "gone"]
Posting == [title : Titles, state : {"open", "closed", "outside", "broken"}]

VARIABLES
    board,     \* what each board displays
    displayed, \* ghost: titles a posting has had on its board
    stored,    \* the rows of job_postings, by source and id, as committed
    written,   \* the rows of a source as its open transaction leaves them
    crawl,     \* the collection of each source
    edits,     \* changes of the boards so far
    crawls     \* collections of each source so far

storeVars == <<board, displayed, stored, written, crawl, edits, crawls>>

Unstored == [status |-> "none"]
NoCrawl == [at |-> "idle", limit |-> <<1, 1>>, page |-> 1, links |-> <<>>, next |-> 1,
            tries |-> 0, denied |-> FALSE, failed |-> FALSE, items |-> <<>>, taken |-> 0, met |-> {}]

\* The key that must be unique in the store: the title within an InternSG source, the
\* id on a JSON board, whichever source reads it.
Hash(s, e, t) == IF s \in Html THEN <<"title", s, t>> ELSE <<"id", BoardOf[s], e>>
\* Only InternSG displays postings that are closed, with a notice.
StatusOf(p) == IF p.state = "closed" THEN "closed" ELSE "active"
RecordOf(s, e, p) ==
    [id |-> e, title |-> p.title, hash |-> Hash(s, e, p.title), status |-> StatusOf(p)]

Shows(b, e) == board[b][e] # Gone
\* A set of ids in the order of a listing, or from its end.
Ordered(S, upward) ==
    CHOOSE q \in [1..Cardinality(S) -> S] :
        \A i, j \in DOMAIN q : i < j => IF upward THEN q[i] < q[j] ELSE q[j] < q[i]
Up(S) == Ordered(S, TRUE)

StoreInit ==
    /\ board \in [Boards -> [Ids -> {Gone} \union [title : Titles, state : {"open"}]]]
    /\ displayed = [b \in Boards |-> [e \in Ids |->
                       IF Shows(b, e) THEN {board[b][e].title} ELSE {}]]
    /\ stored = [s \in Sources |-> [e \in Ids |-> Unstored]]
    /\ written = stored
    /\ crawl = [s \in Sources |-> NoCrawl]
    /\ edits = 0
    /\ crawls = [s \in Sources |-> 0]
-------------------------------------------------------------------------------
(* The board, and the beginning and the loss of a collection *)

\* Somebody posts, edits, closes or removes a posting.
EditBoard(b) ==
    /\ edits < MaxEdits
    /\ edits' = edits + 1
    /\ \E e \in Ids, p \in Posting \union {Gone} :
          /\ p # board[b][e]
          /\ board' = [board EXCEPT ![b][e] = p]
          /\ displayed' = IF p = Gone THEN displayed
                                      ELSE [displayed EXCEPT ![b][e] = @ \union {p.title}]
    /\ UNCHANGED <<stored, written, crawl, crawls>>

StartCrawl(s) ==
    /\ crawl[s].at = "idle" /\ crawls[s] < MaxCrawls
    /\ crawls' = [crawls EXCEPT ![s] = @ + 1]
    /\ \E l \in Limits[s] : crawl' = [crawl EXCEPT ![s] = [NoCrawl EXCEPT !.at = "listing",
                                                                       !.limit = l]]
    /\ UNCHANGED <<board, displayed, stored, written, edits>>

\* A crash, a lost lease or an exception: the transaction leaves nothing.
Ends(s) == crawl' = [crawl EXCEPT ![s] = NoCrawl]
LoseCrawl(s) ==
    /\ crawl[s].at # "idle"
    /\ Ends(s) /\ written' = [written EXCEPT ![s] = stored[s]]
    /\ UNCHANGED <<board, displayed, stored, edits, crawls>>
-------------------------------------------------------------------------------
(* Reading a board *)

Becomes(s, c) ==
    /\ crawl' = [crawl EXCEPT ![s] = c]
    /\ UNCHANGED <<board, displayed, stored, written, edits, crawls>>

Requesting(s) == crawl[s].at \in {"listing", "details"}

\* A transport error, or for InternSG a 5xx answer, is asked again a few times.
Retry(s) ==
    /\ Requesting(s) /\ crawl[s].tries < Retries[s]
    /\ Becomes(s, [crawl[s] EXCEPT !.tries = @ + 1])

\* Only so many postings are read, those listed first.
Attempted(c) == SubSeq(c.links, 1, IF Len(c.links) < c.limit[2] THEN Len(c.links)
                                                                ELSE c.limit[2])
\* The detail pages follow, when there are any to read.
Onward(c) ==
    [c EXCEPT !.tries = 0,
              !.at = IF c.next > Len(Attempted(c)) THEN "publishing" ELSE "details"]

OnPage(s, n) ==
    LET all == Up({e \in Ids : Shows(BoardOf[s], e)})
    IN  {all[k] : k \in DOMAIN all \intersect (n - 1) * PageSize + 1..n * PageSize}
HasNext(s, n) ==
    /\ n < LastPage
    /\ n * PageSize < Cardinality({e \in Ids : Shows(BoardOf[s], e)})

\* InternSG: links are taken page by page, each once, up to the limit; a link to
\* another page than the next one fails the listing, what was found goes on.
ReadPage(s) ==
    LET c == crawl[s]
        links == c.links \o Up(OnPage(s, c.page) \ ToSet(c.links))
        kept == SubSeq(links, 1, IF Len(links) < c.limit[1] THEN Len(links) ELSE c.limit[1])
        more == Len(kept) < c.limit[1] /\ OnPage(s, c.page) # {} /\ HasNext(s, c.page)
    IN  /\ s \in Html /\ c.at = "listing"
        /\ \/ more /\ Becomes(s, [c EXCEPT !.links = kept, !.page = @ + 1, !.tries = 0])
           \/ more /\ Becomes(s, Onward([c EXCEPT !.links = kept, !.failed = TRUE]))
           \/ ~more /\ Becomes(s, Onward([c EXCEPT !.links = kept, !.failed = kept = <<>>]))

\* Early careers in Singapore, by the fields of the answer; not all of it may parse.
Candidate(p) == p.state \in {"open", "broken"}

\* A JSON board answers with all its postings, in any order; those in scope are
\* candidates.  They are read from the answer, without another request.
ReadBoard(s) ==
    LET c == crawl[s]  b == BoardOf[s]
        inScope == {e \in Ids : Shows(b, e) /\ Candidate(board[b][e])}
    IN  /\ s \notin Html /\ c.at = "listing"
        /\ \E upward \in BOOLEAN :
              LET links == Ordered(inScope, upward)
                  tried == Attempted([c EXCEPT !.links = links])
                  good == Ordered({e \in ToSet(tried) : board[b][e].state = "open"}, upward)
              IN  Becomes(s, [c EXCEPT !.at = "publishing", !.links = links,
                                !.failed = good # tried,
                                !.items = [k \in DOMAIN good |->
                                              RecordOf(s, good[k], board[b][good[k]])]])

\* 403 or 429 ends the whole collection; a listing that fails, its details go on.
Refused(s) ==
    /\ Requesting(s)
    /\ Becomes(s, [crawl[s] EXCEPT !.at = "publishing", !.denied = TRUE, !.failed = TRUE])
ListingFails(s) ==
    /\ crawl[s].at = "listing"
    /\ Becomes(s, Onward([crawl[s] EXCEPT !.failed = TRUE]))

AllowedByRobots(e) == e \notin Barred
Parses(p) == p # Gone /\ p.state # "broken"
InScope(p) == p.state # "outside"

\* The page of a posting, as it is by now: out of scope is left out, a closed one kept.
ReadDetail(s) ==
    LET c == crawl[s]
        e == c.links[c.next]
        p == board[BoardOf[s]][e]
        read == [c EXCEPT !.next = @ + 1]
    IN  /\ c.at = "details"
        /\ \/ /\ AllowedByRobots(e) /\ Parses(p)
              /\ Becomes(s, Onward(IF ~InScope(p) THEN read
                                   ELSE [read EXCEPT !.items = Append(@, RecordOf(s, e, p))]))
           \/ Becomes(s, Onward([read EXCEPT !.failed = TRUE]))
-------------------------------------------------------------------------------
(* Publishing what was read *)

\* A transaction reads what others committed and what it wrote itself.
View(s) == [stored EXCEPT ![s] = written[s]]
Known(rows) == {o \in Sources \X Ids : rows[o[1]][o[2]] # Unstored}
Owners(rows, h) == {o \in Known(rows) : rows[o[1]][o[2]].hash = h}

\* Another open transaction has inserted a row with this key.
Contended(s, h) ==
    \E t \in Sources \ {s} : \E e \in Ids :
        stored[t][e] = Unstored /\ written[t][e] # Unstored /\ written[t][e].hash = h

RowOf(r) == [status |-> r.status, title |-> r.title, hash |-> r.hash]
Met(r) == {<<"id", r.id>>, <<"hash", r.hash>>}

NeedsInsert(s, r) ==
    /\ Met(r) \intersect crawl[s].met = {}
    /\ written[s][r.id] = Unstored /\ Owners(View(s), r.hash) = {}

\* A known posting is refreshed, and keeps its key when another row holds the new
\* one; a posting whose key is taken is left out, and so is one met before.
Upserted(s, r) ==
    IF NeedsInsert(s, r) THEN [written EXCEPT ![s][r.id] = RowOf(r)]
    ELSE IF Met(r) \intersect crawl[s].met # {} \/ written[s][r.id] = Unstored THEN written
    ELSE [written EXCEPT ![s][r.id] =
             [RowOf(r) EXCEPT !.hash = IF Owners(View(s), r.hash) \subseteq {<<s, r.id>>}
                                     THEN r.hash ELSE written[s][r.id].hash]]

Record(s) == crawl[s].items[crawl[s].taken + 1]
Publishing(s) == crawl[s].at = "publishing" /\ crawl[s].taken < Len(crawl[s].items)

Take(s) ==
    LET r == Record(s)
        new == IF Met(r) \intersect crawl[s].met = {} THEN Met(r) ELSE {}
    IN  /\ written' = Upserted(s, r)
        /\ crawl' = [crawl EXCEPT ![s].at = "publishing", ![s].taken = @ + 1,
                                  ![s].met = @ \union new]
        /\ UNCHANGED <<board, displayed, stored, edits, crawls>>

TakeRecord(s) ==
    /\ Publishing(s)
    /\ NeedsInsert(s, Record(s)) => ~Contended(s, Record(s).hash)
    /\ Take(s)

\* An insert of a key that another transaction has inserted waits for its end: the
\* insert goes on, or the index refuses it and the collection fails.
WaitForOther(s) ==
    /\ Publishing(s)
    /\ NeedsInsert(s, Record(s)) /\ Contended(s, Record(s).hash)
    /\ Becomes(s, [crawl[s] EXCEPT !.at = "waiting"])
Blocked(s) == crawl[s].at = "waiting" /\ Contended(s, Record(s).hash)
InsertAfterAll(s) ==
    /\ crawl[s].at = "waiting" /\ ~Blocked(s) /\ NeedsInsert(s, Record(s))
    /\ Take(s)
PublicationFails(s) ==
    /\ crawl[s].at = "waiting"
    /\ \/ ~Blocked(s) /\ ~NeedsInsert(s, Record(s))
       \/ Blocked(s) /\ \E t \in Sources \ {s} : Blocked(t)
    /\ Ends(s) /\ written' = [written EXCEPT ![s] = stored[s]]
    /\ UNCHANGED <<board, displayed, stored, edits, crawls>>

\* All of a JSON board's candidates were read, each once and without a failure.
ReadIds(c) == {c.items[k].id : k \in DOMAIN c.items}
IsComplete(s) ==
    LET c == crawl[s]
    IN  /\ s \notin Html /\ ~c.failed
        /\ 0 < Len(c.links) /\ Len(c.links) = Len(Attempted(c))
        /\ Len(c.items) = Len(c.links) /\ Cardinality(ReadIds(c)) = Len(c.items)

ClosedMissing(s) ==
    [e \in Ids |-> IF written[s][e].status = "active" /\ e \notin ReadIds(crawl[s])
                   THEN [written[s][e] EXCEPT !.status = "closed"] ELSE written[s][e]]

Commit(s) ==
    /\ crawl[s].at = "publishing" /\ ~Publishing(s)
    /\ LET rows == IF IsComplete(s) THEN ClosedMissing(s) ELSE written[s]
       IN  written' = [written EXCEPT ![s] = rows] /\ stored' = [stored EXCEPT ![s] = rows]
    /\ Ends(s)
    /\ UNCHANGED <<board, displayed, edits, crawls>>
-------------------------------------------------------------------------------
Work(s) ==
    /\ crawl[s].at # "idle"
    /\ \/ ReadPage(s) \/ ReadBoard(s) \/ ReadDetail(s) \/ Refused(s) \/ ListingFails(s)
       \/ Retry(s) \/ TakeRecord(s) \/ WaitForOther(s) \/ InsertAfterAll(s)
       \/ PublicationFails(s) \/ Commit(s)

StoreStep(s) == EditBoard(BoardOf[s]) \/ StartCrawl(s) \/ Work(s) \/ LoseCrawl(s)
StoreNext == \E s \in Sources : StoreStep(s)

\* Requests have timeouts and the database ends every wait: as long as a collection
\* can go on, one does.
StoreFairness == WF_storeVars(\E s \in Sources : Work(s))
StoreSpec == StoreInit /\ [][StoreNext]_storeVars /\ StoreFairness
-------------------------------------------------------------------------------
(* Properties *)

Hashes == {Hash(s, e, t) : s \in Sources, e \in Ids, t \in Titles}
RowType == {Unstored} \union [status : {"active", "closed"}, title : Titles, hash : Hashes]
RecordType == [id : Ids, title : Titles, hash : Hashes, status : {"active", "closed"}]
CrawlType ==
    [at : {"idle", "listing", "details", "publishing", "waiting"}, limit : Nat \X Nat,
     page : Nat, links : Seq(Ids), next : Nat, tries : Nat, denied : BOOLEAN,
     failed : BOOLEAN, items : Seq(RecordType), taken : Nat,
     met : SUBSET ({"id"} \X Ids \union {"hash"} \X Hashes)]

\* Every row and every collection has the fields its columns and objects allow.
StoreTypes ==
    /\ board \in [Boards -> [Ids -> Posting \union {Gone}]]
    /\ displayed \in [Boards -> [Ids -> SUBSET Titles]]
    /\ {stored, written} \subseteq [Sources -> [Ids -> RowType]]
    /\ crawl \in [Sources -> CrawlType]
    /\ edits \in Nat /\ crawls \in [Sources -> Nat]

\* No two postings share the unique key, in the store and with what the open
\* publications add, whatever titles the board moved between them (db_repository.py:62).
KeysAreUnique ==
    \A rows \in {stored, written} : \A o, q \in Known(rows) :
        rows[o[1]][o[2]].hash = rows[q[1]][q[2]].hash => o = q

\* A row tells of its own posting: a matching key never brings it another's title
\* (db_repository.py:59).
RowsAreOwn ==
    \A s \in Sources, e \in Ids : \A r \in {stored[s][e], written[s][e]} :
        r # Unstored => r.title \in displayed[BoardOf[s]][e]

\* Once a site refused a request, the collection asks it nothing more
\* (internsg_adapter.py:162).
RefusalEndsRequests == \A s \in Sources : crawl[s].denied => ~Requesting(s)

\* A stored posting closes only because its own page said so or because a whole
\* listing, read without a failure, no longer had it (service.py:328).
OnlyGoneIsClosed ==
    [][\A s \in Sources, e \in Ids :
          stored[s][e].status = "active" /\ stored'[s][e].status = "closed" =>
              \/ \E k \in DOMAIN crawl[s].items :
                    crawl[s].items[k].id = e /\ crawl[s].items[k].status = "closed"
              \/ s \notin Html /\ ~crawl[s].failed /\ e \notin ToSet(crawl[s].links)
      ]_storeVars

\* After a complete listing, the source has active what was listed and no more, but
\* for a posting that another source of the same board already has (service.py:336).
StoresWhatIsListed ==
    \A s \in Sources : Commit(s) /\ IsComplete(s) =>
        /\ {e \in Ids : stored'[s][e].status = "active"} \subseteq ToSet(crawl[s].links)
        /\ \A e \in ToSet(crawl[s].links) : \E t \in Sources :
              BoardOf[t] = BoardOf[s] /\ stored'[t][e] # Unstored
CompleteIsExact == [][StoresWhatIsListed]_storeVars

\* A collection ends, also when two publish one board's postings at once.
Collecting == \E s \in Sources : crawl[s].at # "idle"
CollectionsEnd == Collecting ~> ~Collecting
===============================================================================
