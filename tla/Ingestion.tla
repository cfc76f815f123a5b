----------------------------- MODULE Ingestion -----------------------------
(***************************************************************************)
(* Document ingestion: the POST /documents handler, the Celery task        *)
(* ingest_document, the recovery script and the stores they share (the     *)
(* documents and chunks tables, the staged file), over a broker that       *)
(* delivers every message at least once.                                   *)
(*                                                                         *)
(* One step is one statement that another process can see: a commit, a     *)
(* lock call, a file operation, a broker call.  Parsing, chunking and      *)
(* embedding are part of the step that follows them.                       *)
(***************************************************************************)
EXTENDS Naturals

CONSTANTS
    Docs,         \* uploads; a document's uuid is fresh, so one per POST
    Slots,        \* worker pool children, over all worker containers
    ChunkCount,   \* chunks that chunk_text yields for each document's text
    MaxRetries,   \* max_retries of the task
    Budget,       \* how often each fault may happen in a behaviour
    None          \* no slot, no message

Faults == {"crash", "latecrash", "redeliver", "ambiguous", "disconnect",
           "lookup", "outage", "publish", "requeue", "reset", "apicrash", "rollback",
           "unlink"}

Message == [doc : Docs, retries : 0..MaxRetries]

ASSUME ConstantsAssumption ==
    /\ ChunkCount \in [Docs -> Nat]
    /\ MaxRetries \in Nat
    /\ Budget \in [Faults -> Nat]
    /\ None \notin Slots /\ None \notin Message

VARIABLES
    row,      \* documents: the committed row of each document
    chunks,   \* chunks: how many committed rows each document has
    file,     \* upload volume: is there a staged file?
    queued,   \* broker: messages ready, counted
    unacked,  \* broker: deliveries whose consumer died, counted
    holder,   \* PostgreSQL: the session advisory lock of each document
    run,      \* the task as each worker slot executes it
    client,   \* the upload handler and the recovery script, for each document
    spent     \* faults so far, of each kind

vars == <<row, chunks, file, queued, unacked, holder, run, client, spent>>

stores == <<row, chunks, file>>
broker == <<queued, unacked>>

Status == {"absent", "pending", "processing", "done", "failed"}
Errors == {"none", "submit", "ingest"}
Row    == [status : Status, error : Errors, num : Nat]
NoRow  == [status |-> "absent", error |-> "none", num |-> 0]

\* Statements of the task's try block, before its outcome is committed.
InTry == {"waiting", "locked", "loaded", "marked", "read", "deleted"}
Steps == InTry \cup {"idle", "cleanup", "raise", "failing", "unlock", "settle"}

Run == [pc      : Steps,
        msg     : Message \cup {None},
        held    : BOOLEAN,   \* is the delivery tag still in the unacked hash?
        seen    : Row,       \* the row as the ORM session last loaded it
        removed : Nat,       \* chunk rows under the uncommitted DELETE
        linked  : BOOLEAN,   \* is the pinned connection alive?
        raised  : BOOLEAN]   \* is an exception on its way to Celery?
Idle == [pc |-> "idle", msg |-> None, held |-> FALSE, seen |-> NoRow,
         removed |-> 0, linked |-> TRUE, raised |-> FALSE]

Started(m) == [pc |-> "waiting", msg |-> m, held |-> TRUE, seen |-> NoRow,
               removed |-> 0, linked |-> TRUE, raised |-> FALSE]

Clients     == {"upload", "recovery"}
ClientSteps == {"idle", "created", "checked", "staged", "refused", "refreshed",
                "accepted", "rejected", "dead"}
Client      == [pc : ClientSteps, seen : Row]

Present(d) == row[d].status # "absent"
Settled(d) == row[d].status \in {"done", "failed"}

Put(bag, m)  == [bag EXCEPT ![m] = @ + 1]
Take(bag, m) == [bag EXCEPT ![m] = @ - 1]

Spend(fault) == /\ spent[fault] < Budget[fault]
                /\ spent' = [spent EXCEPT ![fault] = @ + 1]

\* The unit of work updates the columns that differ from the values loaded,
\* whatever the committed row holds by then.
Changed(current, loaded, assigned) == IF assigned = loaded THEN current ELSE assigned

Flush(current, loaded, assigned) ==
    [status |-> Changed(current.status, loaded.status, assigned.status),
     error  |-> Changed(current.error, loaded.error, assigned.error),
     num    |-> Changed(current.num, loaded.num, assigned.num)]

\* An UPDATE of a row that a reset deleted raises and writes nothing.
Commit(d, loaded, assigned) ==
    row' = IF Present(d) THEN [row EXCEPT ![d] = Flush(@, loaded, assigned)] ELSE row

Init ==
    /\ row     = [d \in Docs |-> NoRow]
    /\ chunks  = [d \in Docs |-> 0]
    /\ file    = [d \in Docs |-> FALSE]
    /\ queued  = [m \in Message |-> 0]
    /\ unacked = [m \in Message |-> 0]
    /\ holder  = [d \in Docs |-> None]
    /\ run     = [s \in Slots |-> Idle]
    /\ client  = [c \in Clients |-> [d \in Docs |-> [pc |-> "idle", seen |-> NoRow]]]
    /\ spent   = [f \in Faults |-> 0]

-----------------------------------------------------------------------------
(* The two clients that submit a document: the upload handler and          *)
(* recover_ingestion --requeue.                                            *)

ClientStep(c, d, from, to, loaded) ==
    /\ client[c][d].pc = from
    /\ client' = [client EXCEPT ![c][d] = [pc |-> to, seen |-> loaded]]

CreateRow(d) ==
    /\ ClientStep("upload", d, "idle", "created", NoRow)
    /\ row' = [row EXCEPT ![d] = [status |-> "pending", error |-> "none", num |-> 0]]
    /\ UNCHANGED <<chunks, file, broker, holder, run, spent>>

Stage(d) ==
    /\ ClientStep("upload", d, "created", "staged", NoRow)
    /\ file' = [file EXCEPT ![d] = TRUE]
    /\ UNCHANGED <<row, chunks, broker, holder, run, spent>>

\* A failed write may leave a file behind.
StageFails(d) ==
    /\ ClientStep("upload", d, "created", "refused", NoRow)
    /\ \E left \in BOOLEAN : file' = [file EXCEPT ![d] = left]
    /\ UNCHANGED <<row, chunks, broker, holder, run, spent>>

\* The script refuses documents that are done or have no file.
Inspect(d) ==
    /\ row[d].status \notin {"absent", "done"} /\ file[d]
    /\ Spend("requeue")
    /\ ClientStep("recovery", d, "idle", "checked", row[d])
    /\ UNCHANGED <<stores, broker, holder, run>>

MarkPending(d) ==
    LET loaded == client["recovery"][d].seen IN
    /\ ClientStep("recovery", d, "checked", IF Present(d) THEN "staged" ELSE "idle", NoRow)
    /\ Commit(d, loaded, [status |-> "pending", error |-> "none", num |-> loaded.num])
    /\ UNCHANGED <<chunks, file, broker, holder, run, spent>>

\* Where a client ends; the script may be run again.
Ended(c, outcome) == IF c = "upload" THEN outcome ELSE "idle"

Submission(d)  == Put(queued, [doc |-> d, retries |-> 0])

\* Mutant: the document is marked and nothing is submitted.
NoSubmission(d) == queued
Submitted(d)    == Submission(d)

Submit(c, d) ==
    /\ ClientStep(c, d, "staged", Ended(c, "accepted"), NoRow)
    /\ queued' = Submitted(d)
    /\ UNCHANGED <<stores, unacked, holder, run, spent>>

SubmitFails(c, d) ==
    /\ ClientStep(c, d, "staged", "refused", NoRow)
    /\ UNCHANGED <<stores, broker, holder, run, spent>>

\* The broker stores the message and its answer is lost.
SubmitAmbiguous(c, d) ==
    /\ ClientStep(c, d, "staged", "refused", NoRow)
    /\ Spend("ambiguous")
    /\ queued' = Submission(d)
    /\ UNCHANGED <<stores, unacked, holder, run>>

\* A client leaves a done document alone, and cannot refresh a deleted one.
Refresh(c, d) ==
    /\ IF row[d].status \in {"absent", "done"}
       THEN ClientStep(c, d, "refused", Ended(c, "rejected"), NoRow)
       ELSE ClientStep(c, d, "refused", "refreshed", row[d])
    /\ UNCHANGED <<stores, broker, holder, run, spent>>

MarkRefused(c, d) ==
    LET loaded == client[c][d].seen IN
    /\ ClientStep(c, d, "refreshed", Ended(c, "rejected"), NoRow)
    /\ Commit(d, loaded, [status |-> "failed", error |-> "submit", num |-> loaded.num])
    /\ UNCHANGED <<chunks, file, broker, holder, run, spent>>

\* The API process dies inside the handler.
ApiCrash(d) ==
    /\ Spend("apicrash")
    /\ \E step \in {"created", "staged", "refused", "refreshed"} :
          ClientStep("upload", d, step, "dead", NoRow)
    /\ UNCHANGED <<stores, broker, holder, run>>

Upload(d)  == CreateRow(d) \/ Stage(d) \/ StageFails(d) \/ ApiCrash(d)
Recover(d) == Inspect(d) \/ MarkPending(d)
Enqueue(c, d) == \/ Submit(c, d) \/ SubmitFails(c, d) \/ SubmitAmbiguous(c, d)
                 \/ Refresh(c, d) \/ MarkRefused(c, d)

\* eval.ingest_corpus --reset: every document and chunk goes in one transaction.
ResetCorpus ==
    /\ Spend("reset")
    /\ row' = [d \in Docs |-> NoRow]
    /\ chunks' = [d \in Docs |-> 0]
    /\ UNCHANGED <<file, broker, holder, run, client>>

-----------------------------------------------------------------------------
(* The task, as slot s executes it for the document of its message.        *)

Doc(s)     == run[s].msg.doc
LastTry(s) == run[s].msg.retries >= MaxRetries

At(s, step)     == run[s].pc = step
OnLink(s, step) == run[s].pc = step /\ run[s].linked

\* The run moves on: the next statement, the loaded row, the open DELETE.
Goto(s, step, loaded, deleted) ==
    run' = [run EXCEPT ![s] = [pc |-> step, msg |-> @.msg, held |-> @.held,
                               seen |-> loaded, removed |-> deleted,
                               linked |-> @.linked, raised |-> @.raised]]

\* The same, with a sound connection and with or without an exception.
GotoRaised(s, step, exception) ==
    run' = [run EXCEPT ![s] = [pc |-> step, msg |-> @.msg, held |-> @.held,
                               seen |-> NoRow, removed |-> 0,
                               linked |-> TRUE, raised |-> exception]]

Deliver(s) ==
    /\ At(s, "idle")
    /\ \E m \in Message :
          /\ queued[m] > 0
          /\ queued' = Take(queued, m)
          /\ run' = [run EXCEPT ![s] = Started(m)]
    /\ UNCHANGED <<stores, unacked, holder, client, spent>>

\* Mutant: the task takes no lock.
LockIgnored(d) == TRUE
LockFree(d)    == holder[d] = None

\* pg_advisory_lock blocks until the session gets the document's lock.
Lock(s) ==
    /\ OnLink(s, "waiting") /\ LockFree(Doc(s))
    /\ holder' = [holder EXCEPT ![Doc(s)] = s]
    /\ Goto(s, "locked", NoRow, 0)
    /\ UNCHANGED <<stores, broker, client, spent>>

\* Mutant: a done document is ingested again.
NeverDone(d)   == FALSE
AlreadyDone(d) == row[d].status = "done"

\* A vanished document ends the task; a done one only loses its staged file.
Load(s) ==
    /\ OnLink(s, "locked")
    /\ IF AlreadyDone(Doc(s)) THEN Goto(s, "cleanup", NoRow, 0)
       ELSE Goto(s, IF Present(Doc(s)) THEN "loaded" ELSE "unlock", row[Doc(s)], 0)
    /\ UNCHANGED <<stores, broker, holder, client, spent>>

MarkProcessing(s) ==
    /\ OnLink(s, "loaded") /\ Present(Doc(s))
    /\ Commit(Doc(s), run[s].seen,
           [status |-> "processing", error |-> "none", num |-> run[s].seen.num])
    /\ Goto(s, "marked", NoRow, 0)
    /\ UNCHANGED <<chunks, file, broker, holder, client, spent>>

\* The commit expired the row: reading content_type loads it again.
ReadFile(s) ==
    /\ OnLink(s, "marked") /\ file[Doc(s)] /\ Present(Doc(s))
    /\ Goto(s, "read", row[Doc(s)], 0)
    /\ UNCHANGED <<stores, broker, holder, client, spent>>

DoneRow(s) == [status |-> "done", error |-> run[s].seen.error, num |-> ChunkCount[Doc(s)]]

\* Text without chunks: the document is done and old chunks are not touched.
CommitEmpty(s) ==
    /\ OnLink(s, "read") /\ Present(Doc(s)) /\ ChunkCount[Doc(s)] = 0
    /\ Commit(Doc(s), run[s].seen, DoneRow(s))
    /\ Goto(s, "cleanup", NoRow, 0)
    /\ UNCHANGED <<chunks, file, broker, holder, client, spent>>

\* Mutant: new chunks are added to the old ones.
DeleteNone(d) == 0
OldChunks(d)  == chunks[d]

\* The DELETE runs in the open transaction; the INSERTs follow at the commit.
DeleteChunks(s) ==
    /\ OnLink(s, "read") /\ ChunkCount[Doc(s)] > 0
    /\ Goto(s, "deleted", run[s].seen, OldChunks(Doc(s)))
    /\ UNCHANGED <<stores, broker, holder, client, spent>>

CommitDone(s) ==
    /\ OnLink(s, "deleted") /\ Present(Doc(s))
    /\ Commit(Doc(s), run[s].seen, DoneRow(s))
    /\ chunks' = [chunks EXCEPT ![Doc(s)] = (@ - run[s].removed) + ChunkCount[Doc(s)]]
    /\ Goto(s, "cleanup", NoRow, 0)
    /\ UNCHANGED <<file, broker, holder, client, spent>>

\* An OSError of os.remove is swallowed; the file that is there then stays.
RemoveStagedFile(s) ==
    /\ At(s, "cleanup")
    /\ \/ file' = [file EXCEPT ![Doc(s)] = FALSE] /\ UNCHANGED spent
       \/ file[Doc(s)] /\ Spend("unlink") /\ UNCHANGED file
    /\ Goto(s, "unlock", NoRow, 0)
    /\ UNCHANGED <<row, chunks, broker, holder, client>>

\* The rollback forgets an open DELETE and lets a broken connection be opened
\* again, though without the advisory lock it held.
Raise(s) ==
    /\ GotoRaised(s, "raise", TRUE)
    /\ UNCHANGED <<stores, broker, holder, client>>

\* Parser, model, file system or database: any statement of the try block may
\* raise; the first two, the lock and the lookup, on a broken connection.
WorkFails(s) ==
    /\ run[s].pc \in InTry
    /\ run[s].pc \in {"waiting", "locked"} => ~run[s].linked
    /\ Raise(s) /\ UNCHANGED spent

\* engine.connect() raises, outside the try block: nothing is recorded.
ConnectFails(s) ==
    /\ OnLink(s, "waiting")
    /\ Spend("outage")
    /\ GotoRaised(s, "settle", TRUE)
    /\ UNCHANGED <<stores, broker, holder, client>>

\* The lookup raises on a sound connection, before the done check.
LookupFails(s) == At(s, "locked") /\ Spend("lookup") /\ Raise(s)

\* Mutant: every failure removes the staged file.
AfterAnyTry == "cleanup"
AfterTry    == "unlock"

\* The except block records an outcome only after the last try.
LeaveForRetry(s) ==
    /\ At(s, "raise") /\ ~LastTry(s)
    /\ Goto(s, AfterTry, NoRow, 0)
    /\ UNCHANGED <<stores, broker, holder, client, spent>>

LoadToFail(s) ==
    /\ OnLink(s, "raise") /\ LastTry(s)
    /\ Goto(s, IF Present(Doc(s)) THEN "failing" ELSE "cleanup", row[Doc(s)], 0)
    /\ UNCHANGED <<stores, broker, holder, client, spent>>

\* Chunk rows that another session's open transaction deletes are locked.
ChunksLocked(s) ==
    \E t \in Slots \ {s} : At(t, "deleted") /\ Doc(t) = Doc(s) /\ run[t].removed > 0

\* Mutants: the failure keeps the count; it keeps the chunks.
KeepingCount(r) == [status |-> "failed", error |-> "ingest", num |-> r.num]
FailedRow(r)    == [status |-> "failed", error |-> "ingest", num |-> 0]

KeepChunks(d) == chunks
DropChunks(d) == [chunks EXCEPT ![d] = 0]

CommitFailed(s) ==
    /\ OnLink(s, "failing") /\ Present(Doc(s)) /\ ~ChunksLocked(s)
    /\ Commit(Doc(s), run[s].seen, FailedRow(run[s].seen))
    /\ chunks' = DropChunks(Doc(s))
    /\ Goto(s, "cleanup", NoRow, 0)
    /\ UNCHANGED <<file, broker, holder, client, spent>>

\* The except block itself raises: the status stays as it is, and the file too.
RecordingFails(s) ==
    /\ (At(s, "raise") /\ LastTry(s)) \/ At(s, "failing")
    /\ \/ Spend("outage")
       \/ (~run[s].linked \/ (At(s, "failing") /\ ~Present(Doc(s)))) /\ UNCHANGED spent
    /\ GotoRaised(s, "unlock", TRUE)
    /\ UNCHANGED <<stores, broker, holder, client>>

\* Mutant: the pooled connection keeps its lock.
KeepLocks(s)    == holder' = holder
ReleaseLocks(s) == holder' = [d \in Docs |-> IF holder[d] = s THEN None ELSE holder[d]]

\* The finally block; over a broken connection the unlock raises in its turn.
Unlock(s) ==
    /\ At(s, "unlock")
    /\ ReleaseLocks(s)
    /\ GotoRaised(s, "settle", run[s].raised \/ ~run[s].linked)
    /\ UNCHANGED <<stores, broker, client, spent>>

\* Celery publishes the retry as a new message and only then acknowledges.
PublishRetry(s) ==
    /\ At(s, "settle") /\ run[s].raised /\ ~LastTry(s)
    /\ queued' = Put(queued, [doc |-> Doc(s), retries |-> run[s].msg.retries + 1])
    /\ GotoRaised(s, "settle", FALSE)
    /\ UNCHANGED <<stores, unacked, holder, client, spent>>

\* A retry that cannot be published is rejected without requeueing.
RetryLost(s) ==
    /\ At(s, "settle") /\ run[s].raised /\ ~LastTry(s)
    /\ Spend("publish")
    /\ GotoRaised(s, "settle", FALSE)
    /\ UNCHANGED <<stores, broker, holder, client>>

Acknowledge(s) ==
    /\ At(s, "settle") /\ (run[s].raised => LastTry(s))
    /\ run' = [run EXCEPT ![s] = Idle]
    /\ UNCHANGED <<stores, broker, holder, client, spent>>

-----------------------------------------------------------------------------
(* What the broker, the database and the machine do to a running task.     *)

\* Mutant: deliveries are acknowledged when they are received.
NothingBack(s) == unacked
GivenBack(s)   == IF run[s].held THEN Put(unacked, run[s].msg) ELSE unacked

\* The pool child or its container dies; PostgreSQL drops the session's lock.
\* A delivery that outlived its visibility timeout has no message to give back.
Crash(s) ==
    /\ ~At(s, "idle")
    /\ Spend(IF run[s].held THEN "crash" ELSE "latecrash")
    /\ unacked' = GivenBack(s)
    /\ ReleaseLocks(s)
    /\ run' = [run EXCEPT ![s] = Idle]
    /\ UNCHANGED <<stores, queued, client>>

\* Mutant: a message is restored although the unacked hash no longer holds it.
Unchecked(m) == TRUE
InHash(m)    == unacked[m] > 0

\* A lost worker's delivery is requeued: at once, or at the visibility timeout.
Restore(m) ==
    /\ InHash(m)
    /\ unacked' = Take(unacked, m)
    /\ queued' = Put(queued, m)
    /\ UNCHANGED <<stores, holder, run, client, spent>>

\* Redis dies and comes back without what it had not synced: a message that was
\* put in the list is gone, or an acknowledged delivery is in the hash again.
ForgetMessage(m) ==
    /\ queued[m] > 0
    /\ Spend("rollback")
    /\ queued' = Take(queued, m)
    /\ UNCHANGED <<stores, unacked, holder, run, client>>

ForgetAcknowledgement(s) ==
    /\ At(s, "settle") /\ (run[s].raised => LastTry(s)) /\ run[s].held
    /\ Spend("rollback")
    /\ run' = [run EXCEPT ![s] = Idle]
    /\ unacked' = Put(unacked, run[s].msg)
    /\ UNCHANGED <<stores, queued, holder, client>>

\* The task outlives the visibility timeout: a second delivery appears.
VisibilityTimeout(s) ==
    /\ ~At(s, "idle") /\ run[s].held
    /\ Spend("redeliver")
    /\ queued' = Put(queued, run[s].msg)
    /\ run' = [run EXCEPT ![s].held = FALSE]
    /\ UNCHANGED <<stores, unacked, holder, client>>

\* The database drops the session, and with it the advisory lock.
LoseConnection(s) ==
    /\ run[s].pc \notin {"idle", "settle"} /\ run[s].linked
    /\ Spend("disconnect")
    /\ ReleaseLocks(s)
    /\ run' = [run EXCEPT ![s].linked = FALSE]
    /\ UNCHANGED <<stores, broker, client>>

Work(s) ==
    \/ Lock(s) \/ Load(s) \/ MarkProcessing(s) \/ ReadFile(s)
    \/ CommitEmpty(s) \/ DeleteChunks(s) \/ CommitDone(s) \/ RemoveStagedFile(s)
    \/ ConnectFails(s) \/ WorkFails(s) \/ LookupFails(s) \/ LeaveForRetry(s)
    \/ LoadToFail(s) \/ CommitFailed(s) \/ RecordingFails(s) \/ Unlock(s)
    \/ PublishRetry(s) \/ RetryLost(s) \/ Acknowledge(s)

Next ==
    \/ \E d \in Docs : Upload(d) \/ Recover(d) \/ \E c \in Clients : Enqueue(c, d)
    \/ \E s \in Slots : Deliver(s) \/ Work(s) \/ Crash(s)
                        \/ VisibilityTimeout(s) \/ LoseConnection(s)
                        \/ ForgetAcknowledgement(s)
    \/ \E m \in Message : Restore(m) \/ ForgetMessage(m)
    \/ ResetCorpus

Spec == Init /\ [][Next]_vars

\* A free slot consumes what is queued, a running task goes on, and a delivery
\* whose consumer died is restored.  No client has to finish and no fault has to
\* happen.
Fairness ==
    /\ \A s \in Slots : WF_vars(Deliver(s)) /\ WF_vars(Work(s))
    /\ \A m \in Message : WF_vars(Restore(m))

FairSpec == Spec /\ Fairness

-----------------------------------------------------------------------------
(* Properties.                                                             *)

\* Every variable keeps its type.
TypeOK ==
    /\ row \in [Docs -> Row]
    /\ chunks \in [Docs -> Nat]
    /\ file \in [Docs -> BOOLEAN]
    /\ queued \in [Message -> Nat]
    /\ unacked \in [Message -> Nat]
    /\ holder \in [Docs -> Slots \cup {None}]
    /\ run \in [Slots -> Run]
    /\ client \in [Clients -> [Docs -> Client]]
    /\ spent \in [Faults -> Nat]

\* However deliveries, crashes and retries interleave, and even when the lock is
\* lost, a document's chunk rows are one whole copy of its text or none.
WholeCopyOrNone == \A d \in Docs : chunks[d] \in {0, ChunkCount[d]}

\* num_chunks counts the chunk rows that are there, in every status.
CountMatchesChunks == \A d \in Docs : row[d].num = chunks[d]

\* A document reported as done is searchable in full.
DoneIsSearchable == \A d \in Docs : row[d].status = "done" => chunks[d] = ChunkCount[d]

\* Search never returns content of a document that is not reported as done.
OnlyDoneIsSearchable == \A d \in Docs : chunks[d] > 0 => row[d].status = "done"

Owed(d) == \/ \E m \in Message : m.doc = d /\ queued[m] + unacked[m] > 0
           \/ \E s \in Slots : ~At(s, "idle") /\ Doc(s) = d

\* As long as Redis loses nothing, an upload answered with 202 is never forgotten:
\* until its outcome is recorded, a delivery of it is queued, restorable or running,
\* or the operator is about to requeue it.
AcceptedIsOwed ==
    \A d \in Docs : /\ client["upload"][d].pc = "accepted"
                    /\ row[d].status \in {"pending", "processing"}
                    => \/ Owed(d) \/ client["recovery"][d].pc # "idle"
                       \/ spent["rollback"] > 0

\* A document once done is never reported otherwise as long as it exists.
DoneIsFinal ==
    [][\A d \in Docs : row[d].status = "done" => row'[d].status \in {"done", "absent"}]_vars

\* Chunks of a stored document are not taken out of the index again.
IndexedIsKept ==
    [][\A d \in Docs : chunks[d] > 0 => chunks'[d] > 0 \/ row'[d].status = "absent"]_vars

\* The staged bytes go only once the outcome is recorded: no retry, redelivery
\* or restart that still has to decide it finds them gone.
BytesOutliveDecision ==
    [][\A d \in Docs : file[d] /\ ~file'[d] =>
          row[d].status \in {"done", "failed", "absent"}]_vars

\* No delivery takes the staged file from under another that is about to read it.
ReadersKeepFile ==
    [][\A d \in Docs : file[d] /\ ~file'[d] =>
          \A s \in Slots : run[s].pc \in {"loaded", "marked"} => Doc(s) # d]_vars

\* An upload answered with 202 ends done or failed for good, unless Redis lost
\* what it had not synced; its staged file is removed for good, unless a removal
\* failed.
EventuallySettled ==
    \A d \in Docs : client["upload"][d].pc = "accepted"
                        ~> \/ [](Settled(d) /\ (~file[d] \/ spent["unlink"] > 0))
                           \/ spent["rollback"] > 0

\* While no status race is possible, ingestion implements the abstract document
\* life: publication in one step, nothing of an unfinished document searchable,
\* and no way back from done.
Life == INSTANCE DocumentLifecycle WITH
            status <- [d \in Docs |-> row[d].status], visible <- chunks
ImplementsLifecycle == Life!LifeSpec
=============================================================================
