--------------------------- MODULE IngestionProofs ---------------------------
(* Theorems about Ingestion, for every value of its constants.              *)
EXTENDS Ingestion, TLAPS

\* Statements a delivery executes only while it believes it has the lock.
Locked == {"locked", "loaded", "marked", "read", "deleted"}

BusyHasMessage == \A s \in Slots : ~At(s, "idle") => run[s].msg \in Message

\* A live session past the lock call, and before any exception, has the lock.
LiveHasLock == \A s \in Slots : run[s].pc \in Locked /\ run[s].linked => holder[Doc(s)] = s

\* Nothing exists of a document that was not uploaded yet.
FreshIsClean ==
    \A d \in Docs : client["upload"][d].pc = "idle" =>
        /\ row[d] = NoRow /\ chunks[d] = 0
        /\ client["recovery"][d].pc = "idle"
        /\ \A m \in Message : m.doc = d => queued[m] = 0 /\ unacked[m] = 0
        /\ \A s \in Slots : ~At(s, "idle") => Doc(s) # d

\* What the open DELETE covers is what is there, unless a reset took it.
DeleteIsExact ==
    \A s \in Slots : At(s, "deleted") /\ run[s].linked /\ Present(Doc(s))
                     => run[s].removed = chunks[Doc(s)]

IndexInv == /\ TypeOK /\ BusyHasMessage /\ LiveHasLock /\ FreshIsClean
            /\ DeleteIsExact /\ WholeCopyOrNone

\* The rows that the code writes are rows.
LEMMA RowTypes ==
    /\ NoRow \in Row /\ Idle \in Run
    /\ \A a, b, c \in Row : Flush(a, b, c) \in Row
    /\ \A m \in Message : Started(m) \in Run
    /\ \A st \in Status, e \in Errors, n \in Nat :
          [status |-> st, error |-> e, num |-> n] \in Row
    /\ \A r \in Row : r.status \in Status /\ r.error \in Errors /\ r.num \in Nat
  BY DEF NoRow, Row, Idle, Run, Steps, InTry, Status, Errors, Flush, Changed, Started

\* What a busy slot works on.
LEMMA RunFields ==
    ASSUME TypeOK, BusyHasMessage
    PROVE  \A s \in Slots :
              /\ run[s] \in Run /\ run[s].pc \in Steps /\ run[s].seen \in Row
              /\ run[s].removed \in Nat /\ run[s].linked \in BOOLEAN
              /\ run[s].held \in BOOLEAN /\ run[s].raised \in BOOLEAN
              /\ ~At(s, "idle") => /\ run[s].msg \in Message /\ Doc(s) \in Docs
                                   /\ row[Doc(s)] \in Row /\ ChunkCount[Doc(s)] \in Nat
                                   /\ chunks[Doc(s)] \in Nat
                                   /\ run[s].msg.retries \in 0..MaxRetries
  BY ConstantsAssumption DEF TypeOK, Run, BusyHasMessage, Doc, Message, At

\* Moving a run on keeps the type of the runs.
LEMMA GotoType ==
    ASSUME TypeOK
    PROVE  \A s \in Slots, step \in Steps, loaded \in Row, deleted \in Nat :
              Goto(s, step, loaded, deleted) => run' \in [Slots -> Run]
  BY DEF TypeOK, Run, Goto

\* So does leaving the try block or the finally block.
LEMMA GotoRaisedType ==
    ASSUME TypeOK
    PROVE  \A s \in Slots, step \in Steps, exception \in BOOLEAN :
              GotoRaised(s, step, exception) => run' \in [Slots -> Run]
  BY RowTypes DEF TypeOK, Run, GotoRaised

\* A commit keeps the type of the rows.
LEMMA CommitType ==
    ASSUME TypeOK
    PROVE  \A d \in Docs, loaded, assigned \in Row :
              Commit(d, loaded, assigned) => row' \in [Docs -> Row]
  BY RowTypes DEF TypeOK, Commit

\* A step of a client keeps the type of the clients.
LEMMA ClientType ==
    ASSUME TypeOK
    PROVE  \A c \in Clients, d \in Docs, from \in ClientSteps, to \in ClientSteps, loaded \in Row :
              ClientStep(c, d, from, to, loaded) => client' \in [Clients -> [Docs -> Client]]
  BY DEF TypeOK, ClientStep, Client

\* What a client remembers of the row is a row.
LEMMA ClientFields ==
    ASSUME TypeOK
    PROVE  \A c \in Clients, d \in Docs :
              client[c][d].pc \in ClientSteps /\ client[c][d].seen \in Row
  BY DEF TypeOK, Client

\* Counting a fault keeps the type of the counters.
LEMMA SpendType ==
    ASSUME TypeOK
    PROVE  \A fault \in Faults : Spend(fault) => spent' \in [Faults -> Nat]
  BY DEF TypeOK, Spend

\* Putting a message in a bag, or taking one out, keeps its type.
LEMMA BrokerType ==
    \A bag \in [Message -> Nat], m \in Message :
        /\ Put(bag, m) \in [Message -> Nat]
        /\ bag[m] > 0 => Take(bag, m) \in [Message -> Nat]
  BY DEF Put, Take

\* A submission is a message.
LEMMA FirstMessage ==
    ASSUME NEW d \in Docs PROVE [doc |-> d, retries |-> 0] \in Message
  BY ConstantsAssumption DEF Message

\* The retry that is not the last one is a message.
LEMMA NextMessage ==
    ASSUME TypeOK, BusyHasMessage, NEW s \in Slots, ~At(s, "idle"), ~LastTry(s)
    PROVE  [doc |-> Doc(s), retries |-> run[s].msg.retries + 1] \in Message
<1>1. run[s].msg.retries + 1 \in 0..MaxRetries
  BY RunFields, ConstantsAssumption DEF LastTry
<1>. QED
  BY <1>1, RunFields DEF Message

\* A run whose flags change is still a run.
LEMMA FlagType ==
    ASSUME TypeOK, NEW s \in Slots
    PROVE  /\ [run EXCEPT ![s].held = FALSE] \in [Slots -> Run]
           /\ [run EXCEPT ![s].linked = FALSE] \in [Slots -> Run]
  BY ZenonT(60) DEF TypeOK, Run

\* An API crash keeps the type of the clients.
LEMMA CrashedClient ==
    ASSUME TypeOK, NEW d \in Docs, ApiCrash(d)
    PROVE  client' \in [Clients -> [Docs -> Client]]
<1>1. PICK step \in {"created", "staged", "refused", "refreshed"} :
         ClientStep("upload", d, step, "dead", NoRow)
  BY DEF ApiCrash
<1>. QED
  BY <1>1, ClientType, RowTypes DEF Clients, ClientSteps

\* Every step keeps the types.
LEMMA TypeStep ==
    ASSUME TypeOK, BusyHasMessage, DeleteIsExact, Next
    PROVE  TypeOK'
<1> USE ConstantsAssumption DEF TypeOK, stores, broker
<1>1. ASSUME NEW d \in Docs, CreateRow(d) PROVE TypeOK'
  BY <1>1, RowTypes, ClientType, ClientFields DEF CreateRow, Clients,
     ClientSteps, Status, Errors
<1>2. ASSUME NEW d \in Docs, Stage(d) PROVE TypeOK'
  BY <1>2, RowTypes, ClientType, ClientFields DEF Stage, Clients, ClientSteps
<1>3. ASSUME NEW d \in Docs, StageFails(d) PROVE TypeOK'
  BY <1>3, RowTypes, ClientType, ClientFields DEF StageFails, Clients,
     ClientSteps
<1>4. ASSUME NEW d \in Docs, ApiCrash(d) PROVE TypeOK'
  BY <1>4, RowTypes, ClientFields, SpendType, CrashedClient DEF ApiCrash,
     Clients, ClientSteps, Faults
<1>5. ASSUME NEW d \in Docs, Inspect(d) PROVE TypeOK'
  BY <1>5, RowTypes, ClientType, ClientFields, SpendType DEF Inspect, Clients,
     ClientSteps, Faults
<1>6. ASSUME NEW d \in Docs, MarkPending(d) PROVE TypeOK'
  BY <1>6, RowTypes, ClientType, ClientFields, CommitType DEF MarkPending,
     Clients, ClientSteps, Status, Errors
<1>7. ASSUME NEW c \in Clients, NEW d \in Docs, Submit(c, d) PROVE TypeOK'
  BY <1>7, RowTypes, ClientType, ClientFields, BrokerType, FirstMessage DEF
     Submit, Ended, Submitted, Submission, Clients, ClientSteps
<1>8. ASSUME NEW c \in Clients, NEW d \in Docs, SubmitFails(c, d) PROVE TypeOK'
  BY <1>8, RowTypes, ClientType, ClientFields, FirstMessage DEF SubmitFails,
     Clients, ClientSteps
<1>9. ASSUME NEW c \in Clients, NEW d \in Docs, SubmitAmbiguous(c, d) PROVE TypeOK'
  BY <1>9, RowTypes, ClientType, ClientFields, SpendType, BrokerType,
     FirstMessage DEF SubmitAmbiguous, Submission, Clients, ClientSteps,
     Faults
<1>10. ASSUME NEW c \in Clients, NEW d \in Docs, Refresh(c, d) PROVE TypeOK'
  BY <1>10, RowTypes, ClientType, ClientFields, FirstMessage DEF Refresh,
     Ended, Clients, ClientSteps
<1>11. ASSUME NEW c \in Clients, NEW d \in Docs, MarkRefused(c, d) PROVE TypeOK'
  BY <1>11, RowTypes, ClientType, ClientFields, CommitType, FirstMessage DEF
     MarkRefused, Ended, Clients, ClientSteps, Status, Errors
<1>12. ASSUME NEW s \in Slots, Deliver(s) PROVE TypeOK'
  BY <1>12, RowTypes, RunFields, BrokerType DEF Deliver, Started, At, OnLink
<1>13. ASSUME NEW s \in Slots, Lock(s) PROVE TypeOK'
  BY <1>13, RowTypes, RunFields, GotoType DEF Lock, LockFree, At, OnLink,
     Steps, InTry
<1>14. ASSUME NEW s \in Slots, Load(s) PROVE TypeOK'
  BY <1>14, RowTypes, RunFields, GotoType DEF Load, AlreadyDone, At, OnLink,
     Steps, InTry
<1>15. ASSUME NEW s \in Slots, MarkProcessing(s) PROVE TypeOK'
  BY <1>15, RowTypes, RunFields, GotoType, CommitType DEF MarkProcessing, At,
     OnLink, Steps, InTry, Status, Errors
<1>16. ASSUME NEW s \in Slots, ReadFile(s) PROVE TypeOK'
  BY <1>16, RowTypes, RunFields, GotoType DEF ReadFile, At, OnLink, Steps,
     InTry
<1>17. ASSUME NEW s \in Slots, CommitEmpty(s) PROVE TypeOK'
  BY <1>17, RowTypes, RunFields, GotoType, CommitType DEF CommitEmpty,
     DoneRow, At, OnLink, Steps, InTry, Status, Errors
<1>18. ASSUME NEW s \in Slots, DeleteChunks(s) PROVE TypeOK'
  BY <1>18, RowTypes, RunFields, GotoType DEF DeleteChunks, OldChunks, At,
     OnLink, Steps, InTry
<1>19. ASSUME NEW s \in Slots, CommitDone(s) PROVE TypeOK'
  BY <1>19, RowTypes, RunFields, GotoType, CommitType DEF CommitDone, DoneRow,
     At, OnLink, Steps, InTry, Status, Errors, DeleteIsExact
<1>20. ASSUME NEW s \in Slots, RemoveStagedFile(s) PROVE TypeOK'
  <2>1. file' \in [Docs -> BOOLEAN] /\ spent' \in [Faults -> Nat]
    BY <1>20, SpendType DEF RemoveStagedFile, Faults
  <2>2. run' \in [Slots -> Run]
    BY <1>20, RowTypes, RunFields, GotoType DEF RemoveStagedFile, Steps
  <2>. QED
    BY <1>20, <2>1, <2>2 DEF RemoveStagedFile
<1>21. ASSUME NEW s \in Slots, ConnectFails(s) PROVE TypeOK'
  BY <1>21, RowTypes, RunFields, GotoRaisedType, SpendType DEF ConnectFails,
     At, OnLink, Steps, InTry, Faults
<1>22. ASSUME NEW s \in Slots, WorkFails(s) PROVE TypeOK'
  BY <1>22, RowTypes, RunFields, GotoRaisedType DEF WorkFails, Raise, InTry,
     At, OnLink, Steps
<1>23. ASSUME NEW s \in Slots, LookupFails(s) PROVE TypeOK'
  BY <1>23, RowTypes, RunFields, GotoRaisedType, SpendType DEF LookupFails,
     Raise, At, OnLink, Steps, InTry, Faults
<1>24. ASSUME NEW s \in Slots, LeaveForRetry(s) PROVE TypeOK'
  BY <1>24, RowTypes, RunFields, GotoType DEF LeaveForRetry, AfterTry, At,
     OnLink, Steps, InTry
<1>25. ASSUME NEW s \in Slots, LoadToFail(s) PROVE TypeOK'
  BY <1>25, RowTypes, RunFields, GotoType DEF LoadToFail, At, OnLink, Steps,
     InTry
<1>26. ASSUME NEW s \in Slots, CommitFailed(s) PROVE TypeOK'
  BY <1>26, RowTypes, RunFields, GotoType, CommitType DEF CommitFailed,
     FailedRow, DropChunks, ChunksLocked, At, OnLink, Steps, InTry, Status,
     Errors
<1>27. ASSUME NEW s \in Slots, RecordingFails(s) PROVE TypeOK'
  BY <1>27, RowTypes, RunFields, GotoRaisedType, SpendType DEF RecordingFails,
     At, OnLink, Steps, InTry, Faults
<1>28. ASSUME NEW s \in Slots, Unlock(s) PROVE TypeOK'
  BY <1>28, RowTypes, RunFields, GotoRaisedType DEF Unlock, ReleaseLocks, At,
     OnLink, Steps, InTry
<1>29. ASSUME NEW s \in Slots, PublishRetry(s) PROVE TypeOK'
  BY <1>29, RowTypes, RunFields, GotoRaisedType, NextMessage, BrokerType DEF
     PublishRetry, At, OnLink, Steps, InTry
<1>30. ASSUME NEW s \in Slots, RetryLost(s) PROVE TypeOK'
  BY <1>30, RowTypes, RunFields, GotoRaisedType, SpendType DEF RetryLost, At,
     OnLink, Steps, InTry, Faults
<1>31. ASSUME NEW s \in Slots, Acknowledge(s) PROVE TypeOK'
  BY <1>31, RowTypes, RunFields DEF Acknowledge, At, OnLink
<1>32. ASSUME NEW s \in Slots, Crash(s) PROVE TypeOK'
  BY <1>32, RowTypes, RunFields, SpendType, BrokerType DEF Crash, GivenBack,
     ReleaseLocks, At, OnLink, Faults
<1>33. ASSUME NEW s \in Slots, VisibilityTimeout(s) PROVE TypeOK'
  BY <1>33, RowTypes, RunFields, SpendType, BrokerType, FlagType DEF
     VisibilityTimeout, At, OnLink, Faults
<1>34. ASSUME NEW s \in Slots, LoseConnection(s) PROVE TypeOK'
  BY <1>34, RowTypes, RunFields, SpendType, FlagType DEF LoseConnection,
     ReleaseLocks, At, OnLink, Faults
<1>35. ASSUME NEW m \in Message, Restore(m) PROVE TypeOK'
  BY <1>35, RowTypes, BrokerType DEF Restore, InHash
<1>36. CASE ResetCorpus
  BY <1>36, RowTypes, SpendType DEF ResetCorpus, Faults
<1>37. ASSUME NEW m \in Message, ForgetMessage(m) PROVE TypeOK'
  BY <1>37, RowTypes, SpendType, BrokerType DEF ForgetMessage, Faults
<1>38. ASSUME NEW s \in Slots, ForgetAcknowledgement(s) PROVE TypeOK'
  BY <1>38, RowTypes, RunFields, SpendType, BrokerType DEF ForgetAcknowledgement, GivenBack,
     At, OnLink, Faults
<1>. QED
  BY <1>1, <1>2, <1>3, <1>4, <1>5, <1>6, <1>7, <1>8, <1>9, <1>10, <1>11,
     <1>12, <1>13, <1>14, <1>15, <1>16, <1>17, <1>18, <1>19, <1>20, <1>21,
     <1>22, <1>23, <1>24, <1>25, <1>26, <1>27, <1>28, <1>29, <1>30, <1>31,
     <1>32, <1>33, <1>34, <1>35, <1>36, <1>37, <1>38 DEF Next, Upload, Recover, Enqueue,
     Work

\* Only a slot that took a message is busy.
LEMMA BusyStep ==
    ASSUME TypeOK, BusyHasMessage, Next
    PROVE  BusyHasMessage'
<1> USE DEF TypeOK, BusyHasMessage, stores, broker
<1>1. ASSUME NEW d \in Docs, CreateRow(d) PROVE BusyHasMessage'
  BY <1>1 DEF CreateRow, ClientStep, At
<1>2. ASSUME NEW d \in Docs, Stage(d) PROVE BusyHasMessage'
  BY <1>2 DEF Stage, ClientStep, At
<1>3. ASSUME NEW d \in Docs, StageFails(d) PROVE BusyHasMessage'
  BY <1>3 DEF StageFails, ClientStep, At
<1>4. ASSUME NEW d \in Docs, ApiCrash(d) PROVE BusyHasMessage'
  BY <1>4 DEF ApiCrash, ClientStep, At
<1>5. ASSUME NEW d \in Docs, Inspect(d) PROVE BusyHasMessage'
  BY <1>5 DEF Inspect, ClientStep, At
<1>6. ASSUME NEW d \in Docs, MarkPending(d) PROVE BusyHasMessage'
  BY <1>6 DEF MarkPending, ClientStep, At
<1>7. ASSUME NEW c \in Clients, NEW d \in Docs, Submit(c, d) PROVE BusyHasMessage'
  BY <1>7 DEF Submit, ClientStep, At
<1>8. ASSUME NEW c \in Clients, NEW d \in Docs, SubmitFails(c, d) PROVE BusyHasMessage'
  BY <1>8 DEF SubmitFails, ClientStep, At
<1>9. ASSUME NEW c \in Clients, NEW d \in Docs, SubmitAmbiguous(c, d) PROVE BusyHasMessage'
  BY <1>9 DEF SubmitAmbiguous, ClientStep, At
<1>10. ASSUME NEW c \in Clients, NEW d \in Docs, Refresh(c, d) PROVE BusyHasMessage'
  BY <1>10 DEF Refresh, ClientStep, At
<1>11. ASSUME NEW c \in Clients, NEW d \in Docs, MarkRefused(c, d) PROVE BusyHasMessage'
  BY <1>11 DEF MarkRefused, ClientStep, At
<1>12. ASSUME NEW s \in Slots, Deliver(s) PROVE BusyHasMessage'
  BY <1>12, RunFields DEF Deliver, Started, At, OnLink
<1>13. ASSUME NEW s \in Slots, Lock(s) PROVE BusyHasMessage'
  BY <1>13, RunFields DEF Lock, LockFree, At, OnLink, Goto
<1>14. ASSUME NEW s \in Slots, Load(s) PROVE BusyHasMessage'
  BY <1>14, RunFields DEF Load, AlreadyDone, At, OnLink, Goto
<1>15. ASSUME NEW s \in Slots, MarkProcessing(s) PROVE BusyHasMessage'
  BY <1>15, RunFields DEF MarkProcessing, At, OnLink, Goto
<1>16. ASSUME NEW s \in Slots, ReadFile(s) PROVE BusyHasMessage'
  BY <1>16, RunFields DEF ReadFile, At, OnLink, Goto
<1>17. ASSUME NEW s \in Slots, CommitEmpty(s) PROVE BusyHasMessage'
  BY <1>17, RunFields DEF CommitEmpty, At, OnLink, Goto
<1>18. ASSUME NEW s \in Slots, DeleteChunks(s) PROVE BusyHasMessage'
  BY <1>18, RunFields DEF DeleteChunks, OldChunks, At, OnLink, Goto
<1>19. ASSUME NEW s \in Slots, CommitDone(s) PROVE BusyHasMessage'
  BY <1>19, RunFields DEF CommitDone, At, OnLink, Goto
<1>20. ASSUME NEW s \in Slots, RemoveStagedFile(s) PROVE BusyHasMessage'
  BY <1>20, RunFields DEF RemoveStagedFile, At, OnLink, Goto
<1>21. ASSUME NEW s \in Slots, ConnectFails(s) PROVE BusyHasMessage'
  BY <1>21, RunFields DEF ConnectFails, At, OnLink, GotoRaised
<1>22. ASSUME NEW s \in Slots, WorkFails(s) PROVE BusyHasMessage'
  BY <1>22, RunFields DEF WorkFails, Raise, InTry, At, OnLink, GotoRaised
<1>23. ASSUME NEW s \in Slots, LookupFails(s) PROVE BusyHasMessage'
  BY <1>23, RunFields DEF LookupFails, Raise, At, OnLink, GotoRaised
<1>24. ASSUME NEW s \in Slots, LeaveForRetry(s) PROVE BusyHasMessage'
  BY <1>24, RunFields DEF LeaveForRetry, AfterTry, At, OnLink, Goto
<1>25. ASSUME NEW s \in Slots, LoadToFail(s) PROVE BusyHasMessage'
  BY <1>25, RunFields DEF LoadToFail, At, OnLink, Goto
<1>26. ASSUME NEW s \in Slots, CommitFailed(s) PROVE BusyHasMessage'
  BY <1>26, RunFields DEF CommitFailed, DropChunks, ChunksLocked, At, OnLink,
     Goto
<1>27. ASSUME NEW s \in Slots, RecordingFails(s) PROVE BusyHasMessage'
  BY <1>27, RunFields DEF RecordingFails, At, OnLink, GotoRaised
<1>28. ASSUME NEW s \in Slots, Unlock(s) PROVE BusyHasMessage'
  BY <1>28, RunFields DEF Unlock, At, OnLink, GotoRaised
<1>29. ASSUME NEW s \in Slots, PublishRetry(s) PROVE BusyHasMessage'
  BY <1>29, RunFields DEF PublishRetry, LastTry, At, OnLink, GotoRaised
<1>30. ASSUME NEW s \in Slots, RetryLost(s) PROVE BusyHasMessage'
  BY <1>30, RunFields DEF RetryLost, At, OnLink, GotoRaised
<1>31. ASSUME NEW s \in Slots, Acknowledge(s) PROVE BusyHasMessage'
  BY <1>31, RunFields DEF Acknowledge, Idle, At, OnLink
<1>32. ASSUME NEW s \in Slots, Crash(s) PROVE BusyHasMessage'
  BY <1>32, RunFields DEF Crash, Idle, At, OnLink
<1>33. ASSUME NEW s \in Slots, VisibilityTimeout(s) PROVE BusyHasMessage'
  BY <1>33, RunFields DEF VisibilityTimeout, At, OnLink
<1>34. ASSUME NEW s \in Slots, LoseConnection(s) PROVE BusyHasMessage'
  BY <1>34, RunFields DEF LoseConnection, At, OnLink
<1>35. ASSUME NEW m \in Message, Restore(m) PROVE BusyHasMessage'
  BY <1>35 DEF Restore, InHash, At
<1>36. CASE ResetCorpus
  BY <1>36 DEF ResetCorpus, At
<1>37. ASSUME NEW m \in Message, ForgetMessage(m) PROVE BusyHasMessage'
  BY <1>37 DEF ForgetMessage, At
<1>38. ASSUME NEW s \in Slots, ForgetAcknowledgement(s) PROVE BusyHasMessage'
  BY <1>38, RunFields DEF ForgetAcknowledgement, Idle, At, OnLink
<1>. QED
  BY <1>1, <1>2, <1>3, <1>4, <1>5, <1>6, <1>7, <1>8, <1>9, <1>10, <1>11,
     <1>12, <1>13, <1>14, <1>15, <1>16, <1>17, <1>18, <1>19, <1>20, <1>21,
     <1>22, <1>23, <1>24, <1>25, <1>26, <1>27, <1>28, <1>29, <1>30, <1>31,
     <1>32, <1>33, <1>34, <1>35, <1>36, <1>37, <1>38 DEF Next, Upload, Recover, Enqueue,
     Work

\* Nobody else takes the lock of a live session.
LEMMA LockStep ==
    ASSUME TypeOK, BusyHasMessage, LiveHasLock, Next
    PROVE  LiveHasLock'
<1> USE DEF TypeOK, LiveHasLock, Locked, Doc, stores, broker
<1>1. ASSUME NEW d \in Docs, CreateRow(d) PROVE LiveHasLock'
  BY <1>1 DEF CreateRow, ClientStep, At
<1>2. ASSUME NEW d \in Docs, Stage(d) PROVE LiveHasLock'
  BY <1>2 DEF Stage, ClientStep, At
<1>3. ASSUME NEW d \in Docs, StageFails(d) PROVE LiveHasLock'
  BY <1>3 DEF StageFails, ClientStep, At
<1>4. ASSUME NEW d \in Docs, ApiCrash(d) PROVE LiveHasLock'
  BY <1>4 DEF ApiCrash, ClientStep, At
<1>5. ASSUME NEW d \in Docs, Inspect(d) PROVE LiveHasLock'
  BY <1>5 DEF Inspect, ClientStep, At
<1>6. ASSUME NEW d \in Docs, MarkPending(d) PROVE LiveHasLock'
  BY <1>6 DEF MarkPending, ClientStep, At
<1>7. ASSUME NEW c \in Clients, NEW d \in Docs, Submit(c, d) PROVE LiveHasLock'
  BY <1>7 DEF Submit, ClientStep, At
<1>8. ASSUME NEW c \in Clients, NEW d \in Docs, SubmitFails(c, d) PROVE LiveHasLock'
  BY <1>8 DEF SubmitFails, ClientStep, At
<1>9. ASSUME NEW c \in Clients, NEW d \in Docs, SubmitAmbiguous(c, d) PROVE LiveHasLock'
  BY <1>9 DEF SubmitAmbiguous, ClientStep, At
<1>10. ASSUME NEW c \in Clients, NEW d \in Docs, Refresh(c, d) PROVE LiveHasLock'
  BY <1>10 DEF Refresh, ClientStep, At
<1>11. ASSUME NEW c \in Clients, NEW d \in Docs, MarkRefused(c, d) PROVE LiveHasLock'
  BY <1>11 DEF MarkRefused, ClientStep, At
<1>12. ASSUME NEW s \in Slots, Deliver(s) PROVE LiveHasLock'
  BY <1>12, RunFields DEF Deliver, Started, At, OnLink
<1>13. ASSUME NEW s \in Slots, Lock(s) PROVE LiveHasLock'
  BY <1>13, RunFields, ConstantsAssumption DEF Lock, LockFree, At, OnLink,
     Goto
<1>14. ASSUME NEW s \in Slots, Load(s) PROVE LiveHasLock'
  <2>1. PICK step, loaded : Goto(s, step, loaded, 0)
    BY <1>14 DEF Load
  <2>. QED
    BY <1>14, <2>1, RunFields DEF Load, At, OnLink, Goto
<1>15. ASSUME NEW s \in Slots, MarkProcessing(s) PROVE LiveHasLock'
  BY <1>15, RunFields DEF MarkProcessing, At, OnLink, Goto
<1>16. ASSUME NEW s \in Slots, ReadFile(s) PROVE LiveHasLock'
  BY <1>16, RunFields DEF ReadFile, At, OnLink, Goto
<1>17. ASSUME NEW s \in Slots, CommitEmpty(s) PROVE LiveHasLock'
  BY <1>17, RunFields DEF CommitEmpty, At, OnLink, Goto
<1>18. ASSUME NEW s \in Slots, DeleteChunks(s) PROVE LiveHasLock'
  BY <1>18, RunFields DEF DeleteChunks, OldChunks, At, OnLink, Goto
<1>19. ASSUME NEW s \in Slots, CommitDone(s) PROVE LiveHasLock'
  BY <1>19, RunFields DEF CommitDone, At, OnLink, Goto
<1>20. ASSUME NEW s \in Slots, RemoveStagedFile(s) PROVE LiveHasLock'
  BY <1>20, RunFields DEF RemoveStagedFile, At, OnLink, Goto
<1>21. ASSUME NEW s \in Slots, ConnectFails(s) PROVE LiveHasLock'
  BY <1>21, RunFields DEF ConnectFails, At, OnLink, GotoRaised
<1>22. ASSUME NEW s \in Slots, WorkFails(s) PROVE LiveHasLock'
  BY <1>22, RunFields DEF WorkFails, Raise, InTry, At, OnLink, GotoRaised
<1>23. ASSUME NEW s \in Slots, LookupFails(s) PROVE LiveHasLock'
  BY <1>23, RunFields DEF LookupFails, Raise, At, OnLink, GotoRaised
<1>24. ASSUME NEW s \in Slots, LeaveForRetry(s) PROVE LiveHasLock'
  BY <1>24, RunFields DEF LeaveForRetry, AfterTry, At, OnLink, Goto
<1>25. ASSUME NEW s \in Slots, LoadToFail(s) PROVE LiveHasLock'
  BY <1>25, RunFields DEF LoadToFail, At, OnLink, Goto
<1>26. ASSUME NEW s \in Slots, CommitFailed(s) PROVE LiveHasLock'
  BY <1>26, RunFields DEF CommitFailed, DropChunks, ChunksLocked, At, OnLink,
     Goto
<1>27. ASSUME NEW s \in Slots, RecordingFails(s) PROVE LiveHasLock'
  BY <1>27, RunFields DEF RecordingFails, At, OnLink, GotoRaised
<1>28. ASSUME NEW s \in Slots, Unlock(s) PROVE LiveHasLock'
  BY <1>28, RunFields DEF Unlock, ReleaseLocks, At, OnLink, GotoRaised
<1>29. ASSUME NEW s \in Slots, PublishRetry(s) PROVE LiveHasLock'
  BY <1>29, RunFields DEF PublishRetry, LastTry, At, OnLink, GotoRaised
<1>30. ASSUME NEW s \in Slots, RetryLost(s) PROVE LiveHasLock'
  BY <1>30, RunFields DEF RetryLost, At, OnLink, GotoRaised
<1>31. ASSUME NEW s \in Slots, Acknowledge(s) PROVE LiveHasLock'
  BY <1>31, RunFields DEF Acknowledge, Idle, At, OnLink
<1>32. ASSUME NEW s \in Slots, Crash(s) PROVE LiveHasLock'
  BY <1>32, RunFields DEF Crash, ReleaseLocks, Idle, At, OnLink
<1>33. ASSUME NEW s \in Slots, VisibilityTimeout(s) PROVE LiveHasLock'
  BY <1>33, RunFields DEF VisibilityTimeout, At, OnLink
<1>34. ASSUME NEW s \in Slots, LoseConnection(s) PROVE LiveHasLock'
  BY <1>34, RunFields DEF LoseConnection, ReleaseLocks, At, OnLink
<1>35. ASSUME NEW m \in Message, Restore(m) PROVE LiveHasLock'
  BY <1>35 DEF Restore, InHash, At
<1>36. CASE ResetCorpus
  BY <1>36 DEF ResetCorpus, At
<1>37. ASSUME NEW m \in Message, ForgetMessage(m) PROVE LiveHasLock'
  BY <1>37 DEF ForgetMessage, At
<1>38. ASSUME NEW s \in Slots, ForgetAcknowledgement(s) PROVE LiveHasLock'
  BY <1>38, RunFields DEF ForgetAcknowledgement, Idle, At, OnLink
<1>. QED
  BY <1>1, <1>2, <1>3, <1>4, <1>5, <1>6, <1>7, <1>8, <1>9, <1>10, <1>11,
     <1>12, <1>13, <1>14, <1>15, <1>16, <1>17, <1>18, <1>19, <1>20, <1>21,
     <1>22, <1>23, <1>24, <1>25, <1>26, <1>27, <1>28, <1>29, <1>30, <1>31,
     <1>32, <1>33, <1>34, <1>35, <1>36, <1>37, <1>38 DEF Next, Upload, Recover, Enqueue,
     Work

\* Deliveries and rows come from uploads.
LEMMA FreshStep ==
    ASSUME TypeOK, BusyHasMessage, FreshIsClean, Next
    PROVE  FreshIsClean'
<1> USE DEF TypeOK, FreshIsClean, Clients, Doc, stores, broker
<1>1. ASSUME NEW d \in Docs, CreateRow(d) PROVE FreshIsClean'
  BY <1>1, ClientFields DEF CreateRow, ClientStep, At
<1>2. ASSUME NEW d \in Docs, Stage(d) PROVE FreshIsClean'
  BY <1>2, ClientFields DEF Stage, ClientStep, At
<1>3. ASSUME NEW d \in Docs, StageFails(d) PROVE FreshIsClean'
  BY <1>3, ClientFields DEF StageFails, ClientStep, At
<1>4. ASSUME NEW d \in Docs, ApiCrash(d) PROVE FreshIsClean'
  BY <1>4, ClientFields DEF ApiCrash, ClientStep, At
<1>5. ASSUME NEW d \in Docs, Inspect(d) PROVE FreshIsClean'
  BY <1>5, ClientFields DEF Inspect, ClientStep, At, NoRow
<1>6. ASSUME NEW d \in Docs, MarkPending(d) PROVE FreshIsClean'
  BY <1>6, ClientFields DEF MarkPending, Commit, ClientStep, At, Present,
     NoRow
<1>7. ASSUME NEW c \in Clients, NEW d \in Docs, Submit(c, d) PROVE FreshIsClean'
  BY <1>7, ClientFields DEF Submit, Ended, Submitted, Submission, Put,
     ClientStep, At
<1>8. ASSUME NEW c \in Clients, NEW d \in Docs, SubmitFails(c, d) PROVE FreshIsClean'
  BY <1>8, ClientFields DEF SubmitFails, ClientStep, At
<1>9. ASSUME NEW c \in Clients, NEW d \in Docs, SubmitAmbiguous(c, d) PROVE FreshIsClean'
  BY <1>9, ClientFields DEF SubmitAmbiguous, Submission, Put, ClientStep, At
<1>10. ASSUME NEW c \in Clients, NEW d \in Docs, Refresh(c, d) PROVE FreshIsClean'
  BY <1>10, ClientFields DEF Refresh, Ended, ClientStep, At, NoRow
<1>11. ASSUME NEW c \in Clients, NEW d \in Docs, MarkRefused(c, d) PROVE FreshIsClean'
  BY <1>11, ClientFields DEF MarkRefused, Ended, Commit, ClientStep, At,
     Present, NoRow
<1>12. ASSUME NEW s \in Slots, Deliver(s) PROVE FreshIsClean'
  BY <1>12, RunFields DEF Deliver, Started, Take, At, OnLink
<1>13. ASSUME NEW s \in Slots, Lock(s) PROVE FreshIsClean'
  BY <1>13, RunFields DEF Lock, LockFree, At, OnLink, Goto
<1>14. ASSUME NEW s \in Slots, Load(s) PROVE FreshIsClean'
  <2>1. PICK step, loaded : Goto(s, step, loaded, 0)
    BY <1>14 DEF Load
  <2>. QED
    BY <1>14, <2>1, RunFields DEF Load, At, OnLink, Goto
<1>15. ASSUME NEW s \in Slots, MarkProcessing(s) PROVE FreshIsClean'
  BY <1>15, RunFields DEF MarkProcessing, Commit, At, OnLink, Goto, Present,
     NoRow
<1>16. ASSUME NEW s \in Slots, ReadFile(s) PROVE FreshIsClean'
  BY <1>16, RunFields DEF ReadFile, At, OnLink, Goto
<1>17. ASSUME NEW s \in Slots, CommitEmpty(s) PROVE FreshIsClean'
  BY <1>17, RunFields DEF CommitEmpty, Commit, DoneRow, At, OnLink, Goto,
     Present, NoRow
<1>18. ASSUME NEW s \in Slots, DeleteChunks(s) PROVE FreshIsClean'
  BY <1>18, RunFields DEF DeleteChunks, OldChunks, At, OnLink, Goto
<1>19. ASSUME NEW s \in Slots, CommitDone(s) PROVE FreshIsClean'
  BY <1>19, RunFields DEF CommitDone, Commit, DoneRow, At, OnLink, Goto,
     Present, NoRow
<1>20. ASSUME NEW s \in Slots, RemoveStagedFile(s) PROVE FreshIsClean'
  BY <1>20, RunFields DEF RemoveStagedFile, At, OnLink, Goto
<1>21. ASSUME NEW s \in Slots, ConnectFails(s) PROVE FreshIsClean'
  BY <1>21, RunFields DEF ConnectFails, At, OnLink, GotoRaised
<1>22. ASSUME NEW s \in Slots, WorkFails(s) PROVE FreshIsClean'
  BY <1>22, RunFields DEF WorkFails, Raise, InTry, At, OnLink, GotoRaised
<1>23. ASSUME NEW s \in Slots, LookupFails(s) PROVE FreshIsClean'
  BY <1>23, RunFields DEF LookupFails, Raise, At, OnLink, GotoRaised
<1>24. ASSUME NEW s \in Slots, LeaveForRetry(s) PROVE FreshIsClean'
  BY <1>24, RunFields DEF LeaveForRetry, AfterTry, At, OnLink, Goto
<1>25. ASSUME NEW s \in Slots, LoadToFail(s) PROVE FreshIsClean'
  BY <1>25, RunFields DEF LoadToFail, At, OnLink, Goto
<1>26. ASSUME NEW s \in Slots, CommitFailed(s) PROVE FreshIsClean'
  BY <1>26, RunFields DEF CommitFailed, Commit, FailedRow, DropChunks,
     ChunksLocked, At, OnLink, Goto, Present, NoRow
<1>27. ASSUME NEW s \in Slots, RecordingFails(s) PROVE FreshIsClean'
  BY <1>27, RunFields DEF RecordingFails, At, OnLink, GotoRaised
<1>28. ASSUME NEW s \in Slots, Unlock(s) PROVE FreshIsClean'
  BY <1>28, RunFields DEF Unlock, ReleaseLocks, At, OnLink, GotoRaised
<1>29. ASSUME NEW s \in Slots, PublishRetry(s) PROVE FreshIsClean'
  BY <1>29, RunFields DEF PublishRetry, Put, LastTry, At, OnLink, GotoRaised
<1>30. ASSUME NEW s \in Slots, RetryLost(s) PROVE FreshIsClean'
  BY <1>30, RunFields DEF RetryLost, At, OnLink, GotoRaised
<1>31. ASSUME NEW s \in Slots, Acknowledge(s) PROVE FreshIsClean'
  BY <1>31, RunFields DEF Acknowledge, Idle, At, OnLink
<1>32. ASSUME NEW s \in Slots, Crash(s) PROVE FreshIsClean'
  BY <1>32, RunFields DEF Crash, GivenBack, Put, ReleaseLocks, Idle, At,
     OnLink
<1>33. ASSUME NEW s \in Slots, VisibilityTimeout(s) PROVE FreshIsClean'
  BY <1>33, RunFields DEF VisibilityTimeout, Put, At, OnLink
<1>34. ASSUME NEW s \in Slots, LoseConnection(s) PROVE FreshIsClean'
  BY <1>34, RunFields DEF LoseConnection, ReleaseLocks, At, OnLink
<1>35. ASSUME NEW m \in Message, Restore(m) PROVE FreshIsClean'
  BY <1>35, ClientFields DEF Restore, InHash, Put, Take, At
<1>36. CASE ResetCorpus
  BY <1>36, ClientFields DEF ResetCorpus, At
<1>37. ASSUME NEW m \in Message, ForgetMessage(m) PROVE FreshIsClean'
  BY <1>37, ClientFields DEF ForgetMessage, Put, Take, At
<1>38. ASSUME NEW s \in Slots, ForgetAcknowledgement(s) PROVE FreshIsClean'
  BY <1>38, RunFields DEF ForgetAcknowledgement, Put, Idle, At,
     OnLink
<1>. QED
  BY <1>1, <1>2, <1>3, <1>4, <1>5, <1>6, <1>7, <1>8, <1>9, <1>10, <1>11,
     <1>12, <1>13, <1>14, <1>15, <1>16, <1>17, <1>18, <1>19, <1>20, <1>21,
     <1>22, <1>23, <1>24, <1>25, <1>26, <1>27, <1>28, <1>29, <1>30, <1>31,
     <1>32, <1>33, <1>34, <1>35, <1>36, <1>37, <1>38 DEF Next, Upload, Recover, Enqueue,
     Work

\* Nobody changes the chunks under an open DELETE of a live session.
LEMMA DeleteStep ==
    ASSUME TypeOK, BusyHasMessage, LiveHasLock, FreshIsClean, DeleteIsExact, Next
    PROVE  DeleteIsExact'
<1> USE DEF TypeOK, DeleteIsExact, Doc, stores, broker
<1>1. ASSUME NEW d \in Docs, CreateRow(d) PROVE DeleteIsExact'
  BY <1>1 DEF CreateRow, ClientStep, At, Present, FreshIsClean, Clients
<1>2. ASSUME NEW d \in Docs, Stage(d) PROVE DeleteIsExact'
  BY <1>2 DEF Stage, ClientStep, At, Present
<1>3. ASSUME NEW d \in Docs, StageFails(d) PROVE DeleteIsExact'
  BY <1>3 DEF StageFails, ClientStep, At, Present
<1>4. ASSUME NEW d \in Docs, ApiCrash(d) PROVE DeleteIsExact'
  BY <1>4 DEF ApiCrash, ClientStep, At, Present
<1>5. ASSUME NEW d \in Docs, Inspect(d) PROVE DeleteIsExact'
  BY <1>5 DEF Inspect, ClientStep, At, Present
<1>6. ASSUME NEW d \in Docs, MarkPending(d) PROVE DeleteIsExact'
  BY <1>6 DEF MarkPending, Commit, ClientStep, At, Present
<1>7. ASSUME NEW c \in Clients, NEW d \in Docs, Submit(c, d) PROVE DeleteIsExact'
  BY <1>7 DEF Submit, ClientStep, At, Present
<1>8. ASSUME NEW c \in Clients, NEW d \in Docs, SubmitFails(c, d) PROVE DeleteIsExact'
  BY <1>8 DEF SubmitFails, ClientStep, At, Present
<1>9. ASSUME NEW c \in Clients, NEW d \in Docs, SubmitAmbiguous(c, d) PROVE DeleteIsExact'
  BY <1>9 DEF SubmitAmbiguous, ClientStep, At, Present
<1>10. ASSUME NEW c \in Clients, NEW d \in Docs, Refresh(c, d) PROVE DeleteIsExact'
  BY <1>10 DEF Refresh, ClientStep, At, Present
<1>11. ASSUME NEW c \in Clients, NEW d \in Docs, MarkRefused(c, d) PROVE DeleteIsExact'
  BY <1>11 DEF MarkRefused, Commit, ClientStep, At, Present
<1>12. ASSUME NEW s \in Slots, Deliver(s) PROVE DeleteIsExact'
  BY <1>12, RunFields, RowTypes DEF Deliver, Started, At, OnLink, LiveHasLock,
     Locked, Present
<1>13. ASSUME NEW s \in Slots, Lock(s) PROVE DeleteIsExact'
  BY <1>13, RunFields, RowTypes DEF Lock, LockFree, At, OnLink, Goto,
     LiveHasLock, Locked, Present
<1>14. ASSUME NEW s \in Slots, Load(s) PROVE DeleteIsExact'
  BY <1>14, RunFields, RowTypes DEF Load, AlreadyDone, At, OnLink, Goto,
     LiveHasLock, Locked, Present
<1>15. ASSUME NEW s \in Slots, MarkProcessing(s) PROVE DeleteIsExact'
  BY <1>15, RunFields, RowTypes DEF MarkProcessing, Commit, At, OnLink, Goto,
     LiveHasLock, Locked, Present
<1>16. ASSUME NEW s \in Slots, ReadFile(s) PROVE DeleteIsExact'
  BY <1>16, RunFields, RowTypes DEF ReadFile, At, OnLink, Goto, LiveHasLock,
     Locked, Present
<1>17. ASSUME NEW s \in Slots, CommitEmpty(s) PROVE DeleteIsExact'
  BY <1>17, RunFields, RowTypes DEF CommitEmpty, Commit, At, OnLink, Goto,
     LiveHasLock, Locked, Present
<1>18. ASSUME NEW s \in Slots, DeleteChunks(s) PROVE DeleteIsExact'
  BY <1>18, RunFields, RowTypes DEF DeleteChunks, OldChunks, At, OnLink, Goto,
     LiveHasLock, Locked, Present
<1>19. ASSUME NEW s \in Slots, CommitDone(s) PROVE DeleteIsExact'
  BY <1>19, RunFields, RowTypes DEF CommitDone, Commit, At, OnLink, Goto,
     LiveHasLock, Locked, Present
<1>20. ASSUME NEW s \in Slots, RemoveStagedFile(s) PROVE DeleteIsExact'
  BY <1>20, RunFields, RowTypes DEF RemoveStagedFile, At, OnLink, Goto,
     LiveHasLock, Locked, Present
<1>21. ASSUME NEW s \in Slots, ConnectFails(s) PROVE DeleteIsExact'
  BY <1>21, RunFields, RowTypes DEF ConnectFails, At, OnLink, GotoRaised,
     LiveHasLock, Locked, Present
<1>22. ASSUME NEW s \in Slots, WorkFails(s) PROVE DeleteIsExact'
  BY <1>22, RunFields, RowTypes DEF WorkFails, Raise, InTry, At, OnLink,
     GotoRaised, LiveHasLock, Locked, Present
<1>23. ASSUME NEW s \in Slots, LookupFails(s) PROVE DeleteIsExact'
  BY <1>23, RunFields, RowTypes DEF LookupFails, Raise, At, OnLink,
     GotoRaised, LiveHasLock, Locked, Present
<1>24. ASSUME NEW s \in Slots, LeaveForRetry(s) PROVE DeleteIsExact'
  BY <1>24, RunFields, RowTypes DEF LeaveForRetry, AfterTry, At, OnLink, Goto,
     LiveHasLock, Locked, Present
<1>25. ASSUME NEW s \in Slots, LoadToFail(s) PROVE DeleteIsExact'
  BY <1>25, RunFields, RowTypes DEF LoadToFail, At, OnLink, Goto, LiveHasLock,
     Locked, Present
<1>26. ASSUME NEW s \in Slots, CommitFailed(s) PROVE DeleteIsExact'
  BY <1>26, RunFields, RowTypes DEF CommitFailed, Commit, DropChunks,
     ChunksLocked, At, OnLink, Goto, LiveHasLock, Locked, Present
<1>27. ASSUME NEW s \in Slots, RecordingFails(s) PROVE DeleteIsExact'
  BY <1>27, RunFields, RowTypes DEF RecordingFails, At, OnLink, GotoRaised,
     LiveHasLock, Locked, Present
<1>28. ASSUME NEW s \in Slots, Unlock(s) PROVE DeleteIsExact'
  BY <1>28, RunFields, RowTypes DEF Unlock, ReleaseLocks, At, OnLink,
     GotoRaised, LiveHasLock, Locked, Present
<1>29. ASSUME NEW s \in Slots, PublishRetry(s) PROVE DeleteIsExact'
  BY <1>29, RunFields, RowTypes DEF PublishRetry, LastTry, At, OnLink,
     GotoRaised, LiveHasLock, Locked, Present
<1>30. ASSUME NEW s \in Slots, RetryLost(s) PROVE DeleteIsExact'
  BY <1>30, RunFields, RowTypes DEF RetryLost, At, OnLink, GotoRaised,
     LiveHasLock, Locked, Present
<1>31. ASSUME NEW s \in Slots, Acknowledge(s) PROVE DeleteIsExact'
  BY <1>31, RunFields, RowTypes DEF Acknowledge, Idle, At, OnLink,
     LiveHasLock, Locked, Present
<1>32. ASSUME NEW s \in Slots, Crash(s) PROVE DeleteIsExact'
  BY <1>32, RunFields, RowTypes DEF Crash, ReleaseLocks, Idle, At, OnLink,
     LiveHasLock, Locked, Present
<1>33. ASSUME NEW s \in Slots, VisibilityTimeout(s) PROVE DeleteIsExact'
  BY <1>33, RunFields, RowTypes DEF VisibilityTimeout, At, OnLink,
     LiveHasLock, Locked, Present
<1>34. ASSUME NEW s \in Slots, LoseConnection(s) PROVE DeleteIsExact'
  BY <1>34, RunFields, RowTypes DEF LoseConnection, ReleaseLocks, At, OnLink,
     LiveHasLock, Locked, Present
<1>35. ASSUME NEW m \in Message, Restore(m) PROVE DeleteIsExact'
  BY <1>35 DEF Restore, InHash, At, Present
<1>36. CASE ResetCorpus
  BY <1>36, RunFields DEF ResetCorpus, At, Present, NoRow
<1>37. ASSUME NEW m \in Message, ForgetMessage(m) PROVE DeleteIsExact'
  BY <1>37 DEF ForgetMessage, At, Present
<1>38. ASSUME NEW s \in Slots, ForgetAcknowledgement(s) PROVE DeleteIsExact'
  BY <1>38, RunFields, RowTypes DEF ForgetAcknowledgement, Idle, At, OnLink,
     LiveHasLock, Locked, Present
<1>. QED
  BY <1>1, <1>2, <1>3, <1>4, <1>5, <1>6, <1>7, <1>8, <1>9, <1>10, <1>11,
     <1>12, <1>13, <1>14, <1>15, <1>16, <1>17, <1>18, <1>19, <1>20, <1>21,
     <1>22, <1>23, <1>24, <1>25, <1>26, <1>27, <1>28, <1>29, <1>30, <1>31,
     <1>32, <1>33, <1>34, <1>35, <1>36, <1>37, <1>38 DEF Next, Upload, Recover, Enqueue,
     Work

\* Chunks are replaced as a whole.
LEMMA WholeStep ==
    ASSUME TypeOK, BusyHasMessage, DeleteIsExact, WholeCopyOrNone, Next
    PROVE  WholeCopyOrNone'
<1> USE ConstantsAssumption DEF TypeOK, WholeCopyOrNone, stores, broker
<1>1. ASSUME NEW d \in Docs, CreateRow(d) PROVE WholeCopyOrNone'
  BY <1>1 DEF CreateRow
<1>2. ASSUME NEW d \in Docs, Stage(d) PROVE WholeCopyOrNone'
  BY <1>2 DEF Stage
<1>3. ASSUME NEW d \in Docs, StageFails(d) PROVE WholeCopyOrNone'
  BY <1>3 DEF StageFails
<1>4. ASSUME NEW d \in Docs, ApiCrash(d) PROVE WholeCopyOrNone'
  BY <1>4 DEF ApiCrash
<1>5. ASSUME NEW d \in Docs, Inspect(d) PROVE WholeCopyOrNone'
  BY <1>5 DEF Inspect
<1>6. ASSUME NEW d \in Docs, MarkPending(d) PROVE WholeCopyOrNone'
  BY <1>6 DEF MarkPending
<1>7. ASSUME NEW c \in Clients, NEW d \in Docs, Submit(c, d) PROVE WholeCopyOrNone'
  BY <1>7 DEF Submit
<1>8. ASSUME NEW c \in Clients, NEW d \in Docs, SubmitFails(c, d) PROVE WholeCopyOrNone'
  BY <1>8 DEF SubmitFails
<1>9. ASSUME NEW c \in Clients, NEW d \in Docs, SubmitAmbiguous(c, d) PROVE WholeCopyOrNone'
  BY <1>9 DEF SubmitAmbiguous
<1>10. ASSUME NEW c \in Clients, NEW d \in Docs, Refresh(c, d) PROVE WholeCopyOrNone'
  BY <1>10 DEF Refresh
<1>11. ASSUME NEW c \in Clients, NEW d \in Docs, MarkRefused(c, d) PROVE WholeCopyOrNone'
  BY <1>11 DEF MarkRefused
<1>12. ASSUME NEW s \in Slots, Deliver(s) PROVE WholeCopyOrNone'
  BY <1>12, RunFields DEF Deliver, Started, At, OnLink
<1>13. ASSUME NEW s \in Slots, Lock(s) PROVE WholeCopyOrNone'
  BY <1>13, RunFields DEF Lock, LockFree, At, OnLink
<1>14. ASSUME NEW s \in Slots, Load(s) PROVE WholeCopyOrNone'
  BY <1>14, RunFields DEF Load, AlreadyDone, At, OnLink
<1>15. ASSUME NEW s \in Slots, MarkProcessing(s) PROVE WholeCopyOrNone'
  BY <1>15, RunFields DEF MarkProcessing, At, OnLink
<1>16. ASSUME NEW s \in Slots, ReadFile(s) PROVE WholeCopyOrNone'
  BY <1>16, RunFields DEF ReadFile, At, OnLink
<1>17. ASSUME NEW s \in Slots, CommitEmpty(s) PROVE WholeCopyOrNone'
  BY <1>17, RunFields DEF CommitEmpty, At, OnLink
<1>18. ASSUME NEW s \in Slots, DeleteChunks(s) PROVE WholeCopyOrNone'
  BY <1>18, RunFields DEF DeleteChunks, OldChunks, At, OnLink
<1>19. ASSUME NEW s \in Slots, CommitDone(s) PROVE WholeCopyOrNone'
  BY <1>19, RunFields DEF CommitDone, At, OnLink, DeleteIsExact
<1>20. ASSUME NEW s \in Slots, RemoveStagedFile(s) PROVE WholeCopyOrNone'
  BY <1>20, RunFields DEF RemoveStagedFile, At, OnLink
<1>21. ASSUME NEW s \in Slots, ConnectFails(s) PROVE WholeCopyOrNone'
  BY <1>21, RunFields DEF ConnectFails, At, OnLink
<1>22. ASSUME NEW s \in Slots, WorkFails(s) PROVE WholeCopyOrNone'
  BY <1>22, RunFields DEF WorkFails, Raise, InTry, At, OnLink
<1>23. ASSUME NEW s \in Slots, LookupFails(s) PROVE WholeCopyOrNone'
  BY <1>23, RunFields DEF LookupFails, Raise, At, OnLink
<1>24. ASSUME NEW s \in Slots, LeaveForRetry(s) PROVE WholeCopyOrNone'
  BY <1>24, RunFields DEF LeaveForRetry, AfterTry, At, OnLink
<1>25. ASSUME NEW s \in Slots, LoadToFail(s) PROVE WholeCopyOrNone'
  BY <1>25, RunFields DEF LoadToFail, At, OnLink
<1>26. ASSUME NEW s \in Slots, CommitFailed(s) PROVE WholeCopyOrNone'
  BY <1>26, RunFields DEF CommitFailed, DropChunks, At, OnLink
<1>27. ASSUME NEW s \in Slots, RecordingFails(s) PROVE WholeCopyOrNone'
  BY <1>27, RunFields DEF RecordingFails, At, OnLink
<1>28. ASSUME NEW s \in Slots, Unlock(s) PROVE WholeCopyOrNone'
  BY <1>28, RunFields DEF Unlock, At, OnLink
<1>29. ASSUME NEW s \in Slots, PublishRetry(s) PROVE WholeCopyOrNone'
  BY <1>29, RunFields DEF PublishRetry, LastTry, At, OnLink
<1>30. ASSUME NEW s \in Slots, RetryLost(s) PROVE WholeCopyOrNone'
  BY <1>30, RunFields DEF RetryLost, At, OnLink
<1>31. ASSUME NEW s \in Slots, Acknowledge(s) PROVE WholeCopyOrNone'
  BY <1>31, RunFields DEF Acknowledge, Idle, At, OnLink
<1>32. ASSUME NEW s \in Slots, Crash(s) PROVE WholeCopyOrNone'
  BY <1>32, RunFields DEF Crash, Idle, At, OnLink
<1>33. ASSUME NEW s \in Slots, VisibilityTimeout(s) PROVE WholeCopyOrNone'
  BY <1>33, RunFields DEF VisibilityTimeout, At, OnLink
<1>34. ASSUME NEW s \in Slots, LoseConnection(s) PROVE WholeCopyOrNone'
  BY <1>34, RunFields DEF LoseConnection, At, OnLink
<1>35. ASSUME NEW m \in Message, Restore(m) PROVE WholeCopyOrNone'
  BY <1>35 DEF Restore, InHash
<1>36. CASE ResetCorpus
  BY <1>36 DEF ResetCorpus
<1>37. ASSUME NEW m \in Message, ForgetMessage(m) PROVE WholeCopyOrNone'
  BY <1>37 DEF ForgetMessage
<1>38. ASSUME NEW s \in Slots, ForgetAcknowledgement(s) PROVE WholeCopyOrNone'
  BY <1>38, RunFields DEF ForgetAcknowledgement, Idle, At, OnLink
<1>. QED
  BY <1>1, <1>2, <1>3, <1>4, <1>5, <1>6, <1>7, <1>8, <1>9, <1>10, <1>11,
     <1>12, <1>13, <1>14, <1>15, <1>16, <1>17, <1>18, <1>19, <1>20, <1>21,
     <1>22, <1>23, <1>24, <1>25, <1>26, <1>27, <1>28, <1>29, <1>30, <1>31,
     <1>32, <1>33, <1>34, <1>35, <1>36, <1>37, <1>38 DEF Next, Upload, Recover, Enqueue,
     Work

\* The invariant holds in the initial states.
LEMMA IndexInit == Init => IndexInv
<1> SUFFICES ASSUME Init PROVE IndexInv
  OBVIOUS
<1> USE ConstantsAssumption DEF Init
<1>1. TypeOK
  BY RowTypes DEF TypeOK, Client, ClientSteps, Faults
<1>2. BusyHasMessage /\ LiveHasLock /\ DeleteIsExact
  BY DEF BusyHasMessage, LiveHasLock, DeleteIsExact, Locked, At, Idle
<1>3. FreshIsClean
  BY DEF FreshIsClean, Clients, At, Idle
<1>4. WholeCopyOrNone
  BY DEF WholeCopyOrNone
<1>. QED
  BY <1>1, <1>2, <1>3, <1>4 DEF IndexInv

\* Every step keeps the invariant, whatever the fault.
LEMMA IndexNext == IndexInv /\ [Next]_vars => IndexInv'
<1> SUFFICES ASSUME IndexInv, [Next]_vars PROVE IndexInv'
  OBVIOUS
<1>1. CASE Next
  BY <1>1, TypeStep, BusyStep, LockStep, FreshStep, DeleteStep, WholeStep DEF IndexInv
<1>2. CASE UNCHANGED vars
  BY <1>2 DEF vars, IndexInv, TypeOK, BusyHasMessage, LiveHasLock, FreshIsClean,
     DeleteIsExact, WholeCopyOrNone, At, Doc, Present
<1>. QED
  BY <1>1, <1>2

\* The task keeps the inductive invariant under every fault of the model.
THEOREM IndexInvariant == Spec => []IndexInv
  BY IndexInit, IndexNext, PTL DEF Spec

\* Every reachable state is well typed: in particular no counter of rows or
\* messages goes below zero, under any faults.
THEOREM TypeCorrect == Spec => []TypeOK
<1>1. IndexInv => TypeOK
  BY DEF IndexInv
<1>. QED
  BY <1>1, IndexInvariant, PTL

\* Whatever deliveries, crashes, lost sessions, retries and resets do, the chunks
\* of a document are one whole copy of its text or none.
THEOREM WholeCopy == Spec => []WholeCopyOrNone
<1>1. IndexInv => WholeCopyOrNone
  BY DEF IndexInv
<1>. QED
  BY <1>1, IndexInvariant, PTL

=============================================================================
