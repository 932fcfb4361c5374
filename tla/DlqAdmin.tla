------------------------------ MODULE DlqAdmin ------------------------------
(***************************************************************************)
(* The batch endpoints of the admin API, /dlq/cleanup, /dlq/batch-delete    *)
(* and /dlq/batch-requeue: a listing of the DLQ, then one statement (or the *)
(* three of a requeue) for each row listed, by its id; and GET /dlq, called *)
(* page by page until has_more is false.  Meanwhile the DLQ processor       *)
(* captures jobs, plugins and operators delete rows, and other batches work *)
(* on the same rows.                                                        *)
(*                                                                         *)
(* Time is counted in captures: every capture, of a new row or of one that  *)
(* is there already, has a failed_at of its own.                            *)
(***************************************************************************)
EXTENDS Integers, FiniteSets, FiniteSetsExt, Functions

CONSTANTS
    Callers,     \* callers of the endpoints
    Limit,       \* max_jobs of a request
    PageSize,    \* limit of GET /dlq
    MaxRows,     \* bound: number of rows ever inserted in backfill_dlq
    MaxCaptures, \* bound: number of captures
    MaxBatches,  \* bound: number of requests
    Errors       \* whether a statement may fail

ASSUME DlqAdminAssumption ==
    /\ Limit \in Nat /\ MaxRows \in Nat /\ MaxCaptures \in Nat /\ MaxBatches \in Nat
    /\ PageSize \in Nat \ {0} /\ Errors \in BOOLEAN

VARIABLES
    dlq,      \* backfill_dlq: row id -> failed_at and requeued_count
    nextDlq,  \* its id sequence
    now,      \* failed_at of the last capture
    call,     \* the request in flight of each caller
    batches,  \* requests so far
    answered, \* history: totals of the counts answered
    lost,     \* history: rows deleted by plugins and single deletes, or by a batch
              \* that was not told
    owed,     \* history: rows that the pages of each caller have to show
    shifted   \* history: callers under whose pages a row was deleted

pages == <<owed, shifted>>
vars == <<dlq, nextDlq, now, call, batches, answered, lost, pages>>

Row == [failedAt : 1..MaxCaptures, requeued : Nat]
Nothing == [d \in {} |-> 0]
Idle == [op |-> "idle", step |-> "next", todo |-> Nothing, cutoff |-> 0, full |-> FALSE,
         erred |-> FALSE, deleted |-> 0, requeued |-> 0, failed |-> 0, offset |-> 0, seen |-> {}]

Put(table, id, r) == [x \in DOMAIN table \cup {id} |-> IF x = id THEN r ELSE table[x]]
Without(table, id) == Restrict(table, DOMAIN table \ {id})

-----------------------------------------------------------------------------
(* Who else writes to the DLQ.                                              *)

\* The upsert of a capture: a new row, or a new failed_at for the row of the key.
Capture ==
    /\ now < MaxCaptures
    /\ now' = now + 1
    /\ \/ /\ nextDlq <= MaxRows
          /\ dlq' = Put(dlq, nextDlq, [failedAt |-> now', requeued |-> 0])
          /\ nextDlq' = nextDlq + 1
          /\ UNCHANGED pages
       \/ /\ \E d \in DOMAIN dlq :
                /\ dlq' = [dlq EXCEPT ![d].failedAt = now']
                /\ owed' = [c \in Callers |-> owed[c] \ {d}]
          /\ UNCHANGED <<nextDlq, shifted>>
    /\ UNCHANGED <<call, batches, answered, lost>>

\* A deleted row moves the later ones up a place, perhaps onto a page already read.
Shift(d) ==
    /\ owed' = [c \in Callers |-> owed[c] \ {d}]
    /\ shifted' = {c \in Callers : call[c].op = "page"}

\* delete_dlq_by_job_key after a success, or DELETE /dlq/:dlq_id.
DeleteElsewhere ==
    /\ \E d \in DOMAIN dlq : dlq' = Without(dlq, d) /\ Shift(d)
    /\ lost' = lost + 1
    /\ UNCHANGED <<nextDlq, now, call, batches, answered>>

-----------------------------------------------------------------------------
(* The listing.                                                             *)

\* Mutant of Before: ORDER BY failed_at ASC.
OldestBefore(S, d) == {e \in S : dlq[e].failedAt < dlq[d].failedAt}

\* ORDER BY failed_at DESC: the rows of S that come before row d.
Before(S, d) == {e \in S : dlq[e].failedAt > dlq[d].failedAt}
\* LIMIT limit OFFSET offset.
Slice(S, limit, offset) ==
    {d \in S : Cardinality(Before(S, d)) \in offset..(offset + limit - 1)}
FailedBetween(from, to) == {d \in DOMAIN dlq : dlq[d].failedAt \in from..to}

\* Mutants of Listed: the LIMIT is left out; a bound of the filter is exclusive.
ListedWithoutLimit(from, to) == FailedBetween(from, to)
ListedStrictly(from, to) == Slice({d \in FailedBetween(from, to) : dlq[d].failedAt < to}, Limit, 0)

\* list_dlq_jobs: newest first, at most Limit rows.
Listed(from, to) == Slice(FailedBetween(from, to), Limit, 0)

\* The part of a cutoff that has passed.
Past(to) == IF to <= now THEN to ELSE now

\* A request: list, and answer at once if it is a dry run or the listing fails.
\* A bound may lie in the future: older_than_days may be negative.
Request(c, op) ==
    /\ call[c] = Idle
    /\ batches < MaxBatches /\ batches' = batches + 1
    /\ \E from, to \in 0..MaxCaptures :
         /\ op = "cleanup" => from = 0
         /\ \/ call' = [call EXCEPT ![c] =
                 [Idle EXCEPT !.op = op, !.cutoff = Past(to),
                              !.todo = [d \in Listed(from, to) |-> dlq[d].failedAt],
                              !.full = Cardinality(Listed(from, to)) = Limit]]
            \/ UNCHANGED call
    /\ UNCHANGED <<dlq, nextDlq, now, answered, lost, pages>>

-----------------------------------------------------------------------------
(* The loops.                                                               *)

Left(c) == DOMAIN call[c].todo
\* The loops go through the rows in the order listed, newest first.
First(c) == CHOOSE d \in Left(c) : \A e \in Left(c) : call[c].todo[e] <= call[c].todo[d]
Rest(c) == Without(call[c].todo, First(c))
Deleting(c) == call[c].op \in {"cleanup", "delete"} /\ Left(c) # {}
Requeueing(c) == call[c].op = "requeue" /\ Left(c) # {}
Advance(c, r) == call' = [call EXCEPT ![c] = r]

\* Mutant of DeleteRow: a row already gone is counted.
DeleteRowOrNot(c) ==
    /\ Deleting(c)
    /\ dlq' = Without(dlq, First(c)) /\ Shift(First(c))
    /\ Advance(c, [call[c] EXCEPT !.todo = Rest(c), !.deleted = @ + 1])
    /\ UNCHANGED <<nextDlq, now, batches, answered, lost>>

\* delete_dlq_job of the next row: counted if the DELETE returned it.
DeleteRow(c) ==
    /\ Deleting(c)
    /\ LET d == First(c)
           hit == d \in DOMAIN dlq
       IN  /\ dlq' = Without(dlq, d)
           /\ IF hit THEN Shift(d) ELSE UNCHANGED pages
           /\ Advance(c, [call[c] EXCEPT !.todo = Rest(c), !.deleted = @ + IF hit THEN 1 ELSE 0])
    /\ UNCHANGED <<nextDlq, now, batches, answered, lost>>

\* unwrap_or(false): an error counts as a row that was gone (erred is history), also
\* if the DELETE was applied and only its reply is lost.
DeleteFails(c) ==
    /\ Errors /\ Deleting(c)
    /\ \/ UNCHANGED <<dlq, lost, pages>>
       \/ /\ First(c) \in DOMAIN dlq
          /\ dlq' = Without(dlq, First(c)) /\ Shift(First(c))
          /\ lost' = lost + 1
    /\ Advance(c, [call[c] EXCEPT !.todo = Rest(c), !.erred = TRUE])
    /\ UNCHANGED <<nextDlq, now, batches, answered>>

\* Mutant of RequeueFails: the row is tried again.
RequeueFailsAgain(c) ==
    /\ Requeueing(c) /\ call[c].step # "book"
    /\ \/ Errors
       \/ call[c].step = "next" /\ First(c) \notin DOMAIN dlq
       \/ call[c].step = "enqueue"
    /\ Advance(c, [call[c] EXCEPT !.step = "next"])
    /\ UNCHANGED <<dlq, nextDlq, now, batches, answered, lost, pages>>

\* requeue_dlq_job of the next row: read it, enqueue, book.
RequeueRead(c) ==
    /\ Requeueing(c) /\ call[c].step = "next"
    /\ First(c) \in DOMAIN dlq
    /\ Advance(c, [call[c] EXCEPT !.step = "enqueue"])
    /\ UNCHANGED <<dlq, nextDlq, now, batches, answered, lost, pages>>
RequeueEnqueue(c) ==
    /\ Requeueing(c) /\ call[c].step = "enqueue"
    /\ Advance(c, [call[c] EXCEPT !.step = "book"])
    /\ UNCHANGED <<dlq, nextDlq, now, batches, answered, lost, pages>>

\* DlqJobNotFound, AlreadyInProgress or a failing statement: noted, and on.
RequeueFails(c) ==
    /\ Requeueing(c) /\ call[c].step # "book"
    /\ \/ Errors
       \/ call[c].step = "next" /\ First(c) \notin DOMAIN dlq
       \/ call[c].step = "enqueue"
    /\ Advance(c, [call[c] EXCEPT !.step = "next", !.todo = Rest(c), !.failed = @ + 1])
    /\ UNCHANGED <<dlq, nextDlq, now, batches, answered, lost, pages>>

\* The bookkeeping UPDATE, which may find no row and whose error is only logged.
RequeueBook(c) ==
    /\ Requeueing(c) /\ call[c].step = "book"
    /\ LET d == First(c)
       IN  \/ d \in DOMAIN dlq /\ dlq' = [dlq EXCEPT ![d].requeued = @ + 1]
           \/ (d \notin DOMAIN dlq \/ Errors) /\ UNCHANGED dlq
    /\ Advance(c, [call[c] EXCEPT !.step = "next", !.todo = Rest(c), !.requeued = @ + 1])
    /\ UNCHANGED <<nextDlq, now, batches, answered, lost, pages>>

\* The loop has ended: the counts are answered.
Answer(c) ==
    /\ call[c].op \in {"cleanup", "delete", "requeue"} /\ Left(c) = {}
    /\ answered' = [deleted |-> answered.deleted + call[c].deleted,
                    requeued |-> answered.requeued + call[c].requeued]
    /\ Advance(c, Idle)
    /\ UNCHANGED <<dlq, nextDlq, now, batches, lost, pages>>
-----------------------------------------------------------------------------
(* GET /dlq, page by page.                                                  *)

StartPaging(c) ==
    /\ call[c] = Idle
    /\ batches < MaxBatches /\ batches' = batches + 1
    /\ Advance(c, [Idle EXCEPT !.op = "page"])
    /\ owed' = [owed EXCEPT ![c] = DOMAIN dlq]
    /\ UNCHANGED <<dlq, nextDlq, now, answered, lost, shifted>>

\* A page, LIMIT and OFFSET over the newest first, and then the count of all rows.
ReadPage(c) ==
    /\ call[c].op = "page" /\ call[c].step = "next"
    /\ Advance(c, [call[c] EXCEPT !.step = "count",
                      !.seen = @ \cup Slice(DOMAIN dlq, PageSize, call[c].offset)])
    /\ UNCHANGED <<dlq, nextDlq, now, batches, answered, lost, pages>>
EndPaging(c) == owed' = [owed EXCEPT ![c] = {}] /\ shifted' = shifted \ {c}
HasMore(c) == call[c].offset + PageSize < Cardinality(DOMAIN dlq)
NextPage(c) ==
    /\ call[c].op = "page" /\ call[c].step = "count" /\ HasMore(c)
    /\ Advance(c, [call[c] EXCEPT !.step = "next", !.offset = @ + PageSize])
    /\ UNCHANGED <<dlq, nextDlq, now, batches, answered, lost, pages>>
LastPage(c) ==
    /\ call[c].op = "page" /\ call[c].step = "count" /\ ~HasMore(c)
    /\ Advance(c, Idle)
    /\ EndPaging(c)
    /\ UNCHANGED <<dlq, nextDlq, now, batches, answered, lost>>
\* A statement of a page fails: the error is answered, and the caller gives up.
PageFails(c) ==
    /\ Errors /\ call[c].op = "page"
    /\ Advance(c, Idle)
    /\ EndPaging(c)
    /\ UNCHANGED <<dlq, nextDlq, now, batches, answered, lost>>
-----------------------------------------------------------------------------
Init ==
    /\ dlq = [d \in {} |-> d] /\ nextDlq = 1 /\ now = 0
    /\ call = [c \in Callers |-> Idle] /\ batches = 0
    /\ answered = [deleted |-> 0, requeued |-> 0] /\ lost = 0
    /\ owed = [c \in Callers |-> {}] /\ shifted = {}

Loop(c) ==
    \/ DeleteRow(c) \/ DeleteFails(c)
    \/ RequeueRead(c) \/ RequeueEnqueue(c) \/ RequeueFails(c) \/ RequeueBook(c)
    \/ Answer(c)
    \/ ReadPage(c) \/ NextPage(c) \/ LastPage(c) \/ PageFails(c)

Next ==
    \/ Capture \/ DeleteElsewhere
    \/ \E c \in Callers, op \in {"cleanup", "delete", "requeue"} : Request(c, op)
    \/ \E c \in Callers : StartPaging(c) \/ Loop(c)

Spec == Init /\ [][Next]_vars

\* A handler that is running is polled until it answers.
FairSpec == Spec /\ \A c \in Callers : WF_vars(Loop(c))
-----------------------------------------------------------------------------
(* Properties.                                                              *)

Ids == 1..MaxRows
Times == 1..MaxCaptures
Todos == UNION {[S -> Times] : S \in SUBSET Ids}
Calls == [op : {"idle", "cleanup", "delete", "requeue", "page"},
          step : {"next", "enqueue", "book", "count"},
          todo : Todos, cutoff : 0..MaxCaptures,
          full : BOOLEAN, erred : BOOLEAN, deleted : Nat, requeued : Nat, failed : Nat,
          offset : 0..MaxRows, seen : SUBSET Ids]

\* Every variable keeps its type: what a request has handled and has still to
\* handle is never more than its max_jobs.
TypeOK ==
    /\ dlq \in [DOMAIN dlq -> Row]
    /\ nextDlq \in 1..(MaxRows + 1) /\ DOMAIN dlq \subseteq 1..(nextDlq - 1)
    /\ now \in 0..MaxCaptures /\ batches \in 0..MaxBatches /\ shifted \subseteq Callers
    /\ answered \in [deleted : Nat, requeued : Nat] /\ lost \in Nat
    /\ call \in [Callers -> Calls] /\ owed \in [Callers -> SUBSET DOMAIN dlq]
    /\ \A c \in Callers :
          /\ call[c].cutoff <= now
          /\ Cardinality(Left(c)) + call[c].deleted + call[c].requeued + call[c].failed <= Limit

\* The deleted_counts of all requests, answered or under way, add up to the rows
\* the batches were told they removed: no row is counted by two of them, and none
\* by nobody unless its reply was lost.
DeletedOnce ==
    answered.deleted + MapThenSumSet(LAMBDA c : call[c].deleted, Callers)
        + lost + Cardinality(DOMAIN dlq) = nextDlq - 1

\* When a cleanup whose listing was shorter than max_jobs has gone through it
\* without an error, no row is left that failed at or before its cutoff (or before
\* the listing, if the cutoff lies after it).
CleanupComplete ==
    \A c \in Callers :
        call[c].op = "cleanup" /\ Left(c) = {} /\ ~call[c].full /\ ~call[c].erred
        => FailedBetween(0, call[c].cutoff) = {}

\* Pages of GET /dlq, read until has_more is false, show every row that was there at
\* the start and did not change, if none was deleted meanwhile: rows captured between
\* two pages come first and push others back, never off the pages still to be read.
PagesShowAll == [][\A c \in Callers : LastPage(c) /\ c \notin shifted => owed[c] \subseteq call[c].seen]_vars

\* Every request is answered, whatever happens to the rows it has listed, and paging
\* ends once captures do.
Answered == \A c \in Callers : call[c].op # "idle" ~> call[c].op = "idle"

-----------------------------------------------------------------------------
(* What the documentation says and the code does not keep.                  *)

\* "Bulk-delete DLQ jobs older than a cutoff" (docs/04-admin-api.md): a cleanup
\* deletes no row that failed after its cutoff.
CleanupSparesRecent ==
    [][\A c \in Callers :
          call[c].op = "cleanup" /\ call'[c].deleted > call[c].deleted
          => \A d \in DOMAIN dlq \ DOMAIN dlq' : dlq[d].failedAt <= call[c].cutoff]_vars

\* "Once service recovers, batch requeue", page by page (docs/02-dlq.md, workflow 2):
\* the pages show every row that is there and unchanged all the time.
WorkflowReachesAll == [][\A c \in Callers : LastPage(c) => owed[c] \subseteq call[c].seen]_vars
=============================================================================
