------------------------ MODULE IngestionLockProofs ------------------------
(* What the advisory lock gives as long as no session is lost under a task. *)
EXTENDS IngestionProofs

SessionsSurvive == Budget["disconnect"] = 0

AllLinked == \A s \in Slots : run[s].linked

\* Everything between the lock call and the unlock.
Critical == Locked \cup {"cleanup", "raise", "failing", "unlock"}

Exclusive == \A s \in Slots : run[s].pc \in Critical => holder[Doc(s)] = s

\* What the next commit will compare with is what is there.
SeenIsCurrent ==
    \A s \in Slots : run[s].pc \in {"read", "deleted", "failing"} /\ Present(Doc(s)) =>
        /\ run[s].seen.num = row[Doc(s)].num
        /\ row[Doc(s)].status = "done" => run[s].seen.status = "done"

\* The upload handler is the first to write the staged file.
NoFileYet == \A d \in Docs : client["upload"][d].pc \in {"idle", "created"} => ~file[d]

LockInv == /\ IndexInv /\ AllLinked /\ Exclusive /\ SeenIsCurrent /\ NoFileYet
           /\ CountMatchesChunks /\ DoneIsSearchable

\* With no disconnect in the budget, none is ever spent.
LEMMA NoSessionLost ==
    ASSUME SessionsSurvive, TypeOK, NEW s \in Slots
    PROVE  ~LoseConnection(s)
  BY ConstantsAssumption DEF LoseConnection, Spend, SessionsSurvive, Faults, TypeOK

\* No session is lost.
LEMMA LinkedStep ==
    ASSUME SessionsSurvive, TypeOK, AllLinked, Next
    PROVE  AllLinked'
<1> USE DEF TypeOK, AllLinked, stores, broker
<1>1. ASSUME NEW d \in Docs, CreateRow(d) PROVE AllLinked'
  BY <1>1 DEF CreateRow, ClientStep
<1>2. ASSUME NEW d \in Docs, Stage(d) PROVE AllLinked'
  BY <1>2 DEF Stage, ClientStep
<1>3. ASSUME NEW d \in Docs, StageFails(d) PROVE AllLinked'
  BY <1>3 DEF StageFails, ClientStep
<1>4. ASSUME NEW d \in Docs, ApiCrash(d) PROVE AllLinked'
  BY <1>4 DEF ApiCrash, ClientStep
<1>5. ASSUME NEW d \in Docs, Inspect(d) PROVE AllLinked'
  BY <1>5 DEF Inspect, ClientStep
<1>6. ASSUME NEW d \in Docs, MarkPending(d) PROVE AllLinked'
  BY <1>6 DEF MarkPending, ClientStep
<1>7. ASSUME NEW c \in Clients, NEW d \in Docs, Submit(c, d) PROVE AllLinked'
  BY <1>7 DEF Submit, ClientStep
<1>8. ASSUME NEW c \in Clients, NEW d \in Docs, SubmitFails(c, d) PROVE AllLinked'
  BY <1>8 DEF SubmitFails, ClientStep
<1>9. ASSUME NEW c \in Clients, NEW d \in Docs, SubmitAmbiguous(c, d) PROVE AllLinked'
  BY <1>9 DEF SubmitAmbiguous, ClientStep
<1>10. ASSUME NEW c \in Clients, NEW d \in Docs, Refresh(c, d) PROVE AllLinked'
  BY <1>10 DEF Refresh, ClientStep
<1>11. ASSUME NEW c \in Clients, NEW d \in Docs, MarkRefused(c, d) PROVE AllLinked'
  BY <1>11 DEF MarkRefused, ClientStep
<1>12. ASSUME NEW s \in Slots, Deliver(s) PROVE AllLinked'
  BY <1>12 DEF Deliver, Started, At, OnLink
<1>13. ASSUME NEW s \in Slots, Lock(s) PROVE AllLinked'
  BY <1>13 DEF Lock, LockFree, At, OnLink, Goto
<1>14. ASSUME NEW s \in Slots, Load(s) PROVE AllLinked'
  <2>1. PICK step, loaded : Goto(s, step, loaded, 0)
    BY <1>14 DEF Load
  <2>. QED
    BY <1>14, <2>1, RunFields DEF Load, At, OnLink, Goto
<1>15. ASSUME NEW s \in Slots, MarkProcessing(s) PROVE AllLinked'
  BY <1>15 DEF MarkProcessing, At, OnLink, Goto
<1>16. ASSUME NEW s \in Slots, ReadFile(s) PROVE AllLinked'
  BY <1>16 DEF ReadFile, At, OnLink, Goto
<1>17. ASSUME NEW s \in Slots, CommitEmpty(s) PROVE AllLinked'
  BY <1>17 DEF CommitEmpty, At, OnLink, Goto
<1>18. ASSUME NEW s \in Slots, DeleteChunks(s) PROVE AllLinked'
  BY <1>18 DEF DeleteChunks, At, OnLink, Goto
<1>19. ASSUME NEW s \in Slots, CommitDone(s) PROVE AllLinked'
  BY <1>19 DEF CommitDone, At, OnLink, Goto
<1>20. ASSUME NEW s \in Slots, RemoveStagedFile(s) PROVE AllLinked'
  BY <1>20 DEF RemoveStagedFile, At, OnLink, Goto
<1>21. ASSUME NEW s \in Slots, ConnectFails(s) PROVE AllLinked'
  BY <1>21 DEF ConnectFails, At, OnLink, GotoRaised
<1>22. ASSUME NEW s \in Slots, WorkFails(s) PROVE AllLinked'
  BY <1>22 DEF WorkFails, Raise, InTry, At, OnLink, GotoRaised
<1>23. ASSUME NEW s \in Slots, LookupFails(s) PROVE AllLinked'
  BY <1>23 DEF LookupFails, Raise, At, OnLink, GotoRaised
<1>24. ASSUME NEW s \in Slots, LeaveForRetry(s) PROVE AllLinked'
  BY <1>24 DEF LeaveForRetry, AfterTry, At, OnLink, Goto
<1>25. ASSUME NEW s \in Slots, LoadToFail(s) PROVE AllLinked'
  BY <1>25 DEF LoadToFail, At, OnLink, Goto
<1>26. ASSUME NEW s \in Slots, CommitFailed(s) PROVE AllLinked'
  BY <1>26 DEF CommitFailed, At, OnLink, Goto
<1>27. ASSUME NEW s \in Slots, RecordingFails(s) PROVE AllLinked'
  BY <1>27 DEF RecordingFails, At, OnLink, GotoRaised
<1>28. ASSUME NEW s \in Slots, Unlock(s) PROVE AllLinked'
  BY <1>28 DEF Unlock, ReleaseLocks, At, OnLink, GotoRaised
<1>29. ASSUME NEW s \in Slots, PublishRetry(s) PROVE AllLinked'
  BY <1>29 DEF PublishRetry, LastTry, At, OnLink, GotoRaised
<1>30. ASSUME NEW s \in Slots, RetryLost(s) PROVE AllLinked'
  BY <1>30 DEF RetryLost, At, OnLink, GotoRaised
<1>31. ASSUME NEW s \in Slots, Acknowledge(s) PROVE AllLinked'
  BY <1>31 DEF Acknowledge, Idle, At, OnLink
<1>32. ASSUME NEW s \in Slots, Crash(s) PROVE AllLinked'
  BY <1>32 DEF Crash, ReleaseLocks, Idle, At, OnLink
<1>33. ASSUME NEW s \in Slots, VisibilityTimeout(s) PROVE AllLinked'
  BY <1>33 DEF VisibilityTimeout, At, OnLink
<1>34. ASSUME NEW s \in Slots, LoseConnection(s) PROVE AllLinked'
  BY <1>34, NoSessionLost
<1>35. ASSUME NEW m \in Message, Restore(m) PROVE AllLinked'
  BY <1>35 DEF Restore, InHash
<1>36. CASE ResetCorpus
  BY <1>36 DEF ResetCorpus
<1>37. ASSUME NEW m \in Message, ForgetMessage(m) PROVE AllLinked'
  BY <1>37 DEF ForgetMessage
<1>38. ASSUME NEW s \in Slots, ForgetAcknowledgement(s) PROVE AllLinked'
  BY <1>38 DEF ForgetAcknowledgement, Idle, At, OnLink
<1>. QED
  BY <1>1, <1>2, <1>3, <1>4, <1>5, <1>6, <1>7, <1>8, <1>9, <1>10, <1>11,
     <1>12, <1>13, <1>14, <1>15, <1>16, <1>17, <1>18, <1>19, <1>20, <1>21,
     <1>22, <1>23, <1>24, <1>25, <1>26, <1>27, <1>28, <1>29, <1>30, <1>31,
     <1>32, <1>33, <1>34, <1>35, <1>36, <1>37, <1>38 DEF Next, Upload, Recover, Enqueue,
     Work

\* Only the holder of the lock is between the lock call and the unlock.
LEMMA ExclusiveStep ==
    ASSUME SessionsSurvive, TypeOK, BusyHasMessage, AllLinked, Exclusive, Next
    PROVE  Exclusive'
<1> USE ConstantsAssumption DEF TypeOK, AllLinked, Exclusive, Critical,
   Locked, Doc, stores, broker
<1>1. ASSUME NEW d \in Docs, CreateRow(d) PROVE Exclusive'
  BY <1>1 DEF CreateRow, ClientStep, At
<1>2. ASSUME NEW d \in Docs, Stage(d) PROVE Exclusive'
  BY <1>2 DEF Stage, ClientStep, At
<1>3. ASSUME NEW d \in Docs, StageFails(d) PROVE Exclusive'
  BY <1>3 DEF StageFails, ClientStep, At
<1>4. ASSUME NEW d \in Docs, ApiCrash(d) PROVE Exclusive'
  BY <1>4 DEF ApiCrash, ClientStep, At
<1>5. ASSUME NEW d \in Docs, Inspect(d) PROVE Exclusive'
  BY <1>5 DEF Inspect, ClientStep, At
<1>6. ASSUME NEW d \in Docs, MarkPending(d) PROVE Exclusive'
  BY <1>6 DEF MarkPending, ClientStep, At
<1>7. ASSUME NEW c \in Clients, NEW d \in Docs, Submit(c, d) PROVE Exclusive'
  BY <1>7 DEF Submit, ClientStep, At
<1>8. ASSUME NEW c \in Clients, NEW d \in Docs, SubmitFails(c, d) PROVE Exclusive'
  BY <1>8 DEF SubmitFails, ClientStep, At
<1>9. ASSUME NEW c \in Clients, NEW d \in Docs, SubmitAmbiguous(c, d) PROVE Exclusive'
  BY <1>9 DEF SubmitAmbiguous, ClientStep, At
<1>10. ASSUME NEW c \in Clients, NEW d \in Docs, Refresh(c, d) PROVE Exclusive'
  BY <1>10 DEF Refresh, ClientStep, At
<1>11. ASSUME NEW c \in Clients, NEW d \in Docs, MarkRefused(c, d) PROVE Exclusive'
  BY <1>11 DEF MarkRefused, ClientStep, At
<1>12. ASSUME NEW s \in Slots, Deliver(s) PROVE Exclusive'
  BY <1>12, RunFields DEF Deliver, Started, At, OnLink
<1>13. ASSUME NEW s \in Slots, Lock(s) PROVE Exclusive'
  BY <1>13, RunFields DEF Lock, LockFree, At, OnLink, Goto
<1>14. ASSUME NEW s \in Slots, Load(s) PROVE Exclusive'
  <2>1. PICK step, loaded : Goto(s, step, loaded, 0)
    BY <1>14 DEF Load
  <2>. QED
    BY <1>14, <2>1, RunFields DEF Load, At, OnLink, Goto
<1>15. ASSUME NEW s \in Slots, MarkProcessing(s) PROVE Exclusive'
  BY <1>15, RunFields DEF MarkProcessing, At, OnLink, Goto
<1>16. ASSUME NEW s \in Slots, ReadFile(s) PROVE Exclusive'
  BY <1>16, RunFields DEF ReadFile, At, OnLink, Goto
<1>17. ASSUME NEW s \in Slots, CommitEmpty(s) PROVE Exclusive'
  BY <1>17, RunFields DEF CommitEmpty, At, OnLink, Goto
<1>18. ASSUME NEW s \in Slots, DeleteChunks(s) PROVE Exclusive'
  BY <1>18, RunFields DEF DeleteChunks, At, OnLink, Goto
<1>19. ASSUME NEW s \in Slots, CommitDone(s) PROVE Exclusive'
  BY <1>19, RunFields DEF CommitDone, At, OnLink, Goto
<1>20. ASSUME NEW s \in Slots, RemoveStagedFile(s) PROVE Exclusive'
  BY <1>20, RunFields DEF RemoveStagedFile, At, OnLink, Goto
<1>21. ASSUME NEW s \in Slots, ConnectFails(s) PROVE Exclusive'
  BY <1>21, RunFields DEF ConnectFails, At, OnLink, GotoRaised
<1>22. ASSUME NEW s \in Slots, WorkFails(s) PROVE Exclusive'
  BY <1>22, RunFields DEF WorkFails, Raise, InTry, At, OnLink, GotoRaised
<1>23. ASSUME NEW s \in Slots, LookupFails(s) PROVE Exclusive'
  BY <1>23, RunFields DEF LookupFails, Raise, At, OnLink, GotoRaised
<1>24. ASSUME NEW s \in Slots, LeaveForRetry(s) PROVE Exclusive'
  BY <1>24, RunFields DEF LeaveForRetry, AfterTry, At, OnLink, Goto
<1>25. ASSUME NEW s \in Slots, LoadToFail(s) PROVE Exclusive'
  BY <1>25, RunFields DEF LoadToFail, At, OnLink, Goto
<1>26. ASSUME NEW s \in Slots, CommitFailed(s) PROVE Exclusive'
  BY <1>26, RunFields DEF CommitFailed, At, OnLink, Goto
<1>27. ASSUME NEW s \in Slots, RecordingFails(s) PROVE Exclusive'
  BY <1>27, RunFields DEF RecordingFails, At, OnLink, GotoRaised
<1>28. ASSUME NEW s \in Slots, Unlock(s) PROVE Exclusive'
  BY <1>28, RunFields DEF Unlock, ReleaseLocks, At, OnLink, GotoRaised
<1>29. ASSUME NEW s \in Slots, PublishRetry(s) PROVE Exclusive'
  BY <1>29, RunFields DEF PublishRetry, LastTry, At, OnLink, GotoRaised
<1>30. ASSUME NEW s \in Slots, RetryLost(s) PROVE Exclusive'
  BY <1>30, RunFields DEF RetryLost, At, OnLink, GotoRaised
<1>31. ASSUME NEW s \in Slots, Acknowledge(s) PROVE Exclusive'
  BY <1>31, RunFields DEF Acknowledge, Idle, At, OnLink
<1>32. ASSUME NEW s \in Slots, Crash(s) PROVE Exclusive'
  BY <1>32, RunFields DEF Crash, ReleaseLocks, Idle, At, OnLink
<1>33. ASSUME NEW s \in Slots, VisibilityTimeout(s) PROVE Exclusive'
  BY <1>33, RunFields DEF VisibilityTimeout, At, OnLink
<1>34. ASSUME NEW s \in Slots, LoseConnection(s) PROVE Exclusive'
  BY <1>34, NoSessionLost
<1>35. ASSUME NEW m \in Message, Restore(m) PROVE Exclusive'
  BY <1>35 DEF Restore, InHash, At
<1>36. CASE ResetCorpus
  BY <1>36 DEF ResetCorpus, At
<1>37. ASSUME NEW m \in Message, ForgetMessage(m) PROVE Exclusive'
  BY <1>37 DEF ForgetMessage, At
<1>38. ASSUME NEW s \in Slots, ForgetAcknowledgement(s) PROVE Exclusive'
  BY <1>38, RunFields DEF ForgetAcknowledgement, Idle, At, OnLink
<1>. QED
  BY <1>1, <1>2, <1>3, <1>4, <1>5, <1>6, <1>7, <1>8, <1>9, <1>10, <1>11,
     <1>12, <1>13, <1>14, <1>15, <1>16, <1>17, <1>18, <1>19, <1>20, <1>21,
     <1>22, <1>23, <1>24, <1>25, <1>26, <1>27, <1>28, <1>29, <1>30, <1>31,
     <1>32, <1>33, <1>34, <1>35, <1>36, <1>37, <1>38 DEF Next, Upload, Recover, Enqueue,
     Work

\* Nobody else changes the row of a document whose lock is held, but for its status.
LEMMA SeenStep ==
    ASSUME TypeOK, BusyHasMessage, FreshIsClean, AllLinked, Exclusive, SeenIsCurrent, Next
    PROVE  SeenIsCurrent'
<1> USE DEF TypeOK, SeenIsCurrent, Doc, stores, broker
<1>1. ASSUME NEW d \in Docs, CreateRow(d) PROVE SeenIsCurrent'
  BY <1>1 DEF CreateRow, ClientStep, FreshIsClean, Clients, At, Present
<1>2. ASSUME NEW d \in Docs, Stage(d) PROVE SeenIsCurrent'
  BY <1>2, ClientFields, RunFields DEF Stage, ClientStep, At, Present
<1>3. ASSUME NEW d \in Docs, StageFails(d) PROVE SeenIsCurrent'
  BY <1>3, ClientFields, RunFields DEF StageFails, ClientStep, At, Present
<1>4. ASSUME NEW d \in Docs, ApiCrash(d) PROVE SeenIsCurrent'
  BY <1>4, ClientFields, RunFields DEF ApiCrash, ClientStep, At, Present
<1>5. ASSUME NEW d \in Docs, Inspect(d) PROVE SeenIsCurrent'
  BY <1>5, ClientFields, RunFields DEF Inspect, ClientStep, At, Present
<1>6. ASSUME NEW d \in Docs, MarkPending(d) PROVE SeenIsCurrent'
  BY <1>6, ClientFields, RunFields DEF MarkPending, Commit, ClientStep, At,
     Flush, Changed, Present
<1>7. ASSUME NEW c \in Clients, NEW d \in Docs, Submit(c, d) PROVE SeenIsCurrent'
  BY <1>7, ClientFields, RunFields DEF Submit, ClientStep, At, Present
<1>8. ASSUME NEW c \in Clients, NEW d \in Docs, SubmitFails(c, d) PROVE SeenIsCurrent'
  BY <1>8, ClientFields, RunFields DEF SubmitFails, ClientStep, At, Present
<1>9. ASSUME NEW c \in Clients, NEW d \in Docs, SubmitAmbiguous(c, d) PROVE SeenIsCurrent'
  BY <1>9, ClientFields, RunFields DEF SubmitAmbiguous, ClientStep, At,
     Present
<1>10. ASSUME NEW c \in Clients, NEW d \in Docs, Refresh(c, d) PROVE SeenIsCurrent'
  BY <1>10, ClientFields, RunFields DEF Refresh, ClientStep, At, Present
<1>11. ASSUME NEW c \in Clients, NEW d \in Docs, MarkRefused(c, d) PROVE SeenIsCurrent'
  BY <1>11, ClientFields, RunFields DEF MarkRefused, Commit, ClientStep, At,
     Flush, Changed, Present
<1>12. ASSUME NEW s \in Slots, Deliver(s) PROVE SeenIsCurrent'
  BY <1>12, RunFields, RowTypes DEF Deliver, Started, At, OnLink, Exclusive,
     Critical, Locked, Present
<1>13. ASSUME NEW s \in Slots, Lock(s) PROVE SeenIsCurrent'
  BY <1>13, RunFields, RowTypes DEF Lock, LockFree, At, OnLink, Goto,
     Exclusive, Critical, Locked, Present
<1>14. ASSUME NEW s \in Slots, Load(s) PROVE SeenIsCurrent'
  <2>1. PICK step, loaded : Goto(s, step, loaded, 0)
    BY <1>14 DEF Load
  <2>. QED
    BY <1>14, <2>1, RunFields DEF Load, At, Present, OnLink, Goto
<1>15. ASSUME NEW s \in Slots, MarkProcessing(s) PROVE SeenIsCurrent'
  BY <1>15, RunFields, RowTypes DEF MarkProcessing, Commit, At, OnLink, Goto,
     Exclusive, Critical, Locked, Present, Flush, Changed
<1>16. ASSUME NEW s \in Slots, ReadFile(s) PROVE SeenIsCurrent'
  BY <1>16, RunFields, RowTypes DEF ReadFile, At, OnLink, Goto, Exclusive,
     Critical, Locked, Present
<1>17. ASSUME NEW s \in Slots, CommitEmpty(s) PROVE SeenIsCurrent'
  BY <1>17, RunFields, RowTypes DEF CommitEmpty, Commit, DoneRow, At, OnLink,
     Goto, Exclusive, Critical, Locked, Present, Flush, Changed
<1>18. ASSUME NEW s \in Slots, DeleteChunks(s) PROVE SeenIsCurrent'
  BY <1>18, RunFields, RowTypes DEF DeleteChunks, At, OnLink, Goto, Exclusive,
     Critical, Locked, Present
<1>19. ASSUME NEW s \in Slots, CommitDone(s) PROVE SeenIsCurrent'
  BY <1>19, RunFields, RowTypes DEF CommitDone, Commit, DoneRow, At, OnLink,
     Goto, Exclusive, Critical, Locked, Present, Flush, Changed
<1>20. ASSUME NEW s \in Slots, RemoveStagedFile(s) PROVE SeenIsCurrent'
  BY <1>20, RunFields, RowTypes DEF RemoveStagedFile, At, OnLink, Goto,
     Exclusive, Critical, Locked, Present
<1>21. ASSUME NEW s \in Slots, ConnectFails(s) PROVE SeenIsCurrent'
  BY <1>21, RunFields, RowTypes DEF ConnectFails, At, OnLink, GotoRaised,
     Exclusive, Critical, Locked, Present
<1>22. ASSUME NEW s \in Slots, WorkFails(s) PROVE SeenIsCurrent'
  BY <1>22, RunFields, RowTypes DEF WorkFails, Raise, InTry, At, OnLink,
     GotoRaised, Exclusive, Critical, Locked, Present
<1>23. ASSUME NEW s \in Slots, LookupFails(s) PROVE SeenIsCurrent'
  BY <1>23, RunFields, RowTypes DEF LookupFails, Raise, At, OnLink,
     GotoRaised, Exclusive, Critical, Locked, Present
<1>24. ASSUME NEW s \in Slots, LeaveForRetry(s) PROVE SeenIsCurrent'
  BY <1>24, RunFields, RowTypes DEF LeaveForRetry, AfterTry, At, OnLink, Goto,
     Exclusive, Critical, Locked, Present
<1>25. ASSUME NEW s \in Slots, LoadToFail(s) PROVE SeenIsCurrent'
  BY <1>25, RunFields, RowTypes DEF LoadToFail, At, OnLink, Goto, Exclusive,
     Critical, Locked, Present
<1>26. ASSUME NEW s \in Slots, CommitFailed(s) PROVE SeenIsCurrent'
  BY <1>26, RunFields, RowTypes DEF CommitFailed, Commit, FailedRow, At,
     OnLink, Goto, Exclusive, Critical, Locked, Present, Flush, Changed
<1>27. ASSUME NEW s \in Slots, RecordingFails(s) PROVE SeenIsCurrent'
  BY <1>27, RunFields, RowTypes DEF RecordingFails, At, OnLink, GotoRaised,
     Exclusive, Critical, Locked, Present
<1>28. ASSUME NEW s \in Slots, Unlock(s) PROVE SeenIsCurrent'
  BY <1>28, RunFields, RowTypes DEF Unlock, ReleaseLocks, At, OnLink,
     GotoRaised, Exclusive, Critical, Locked, Present
<1>29. ASSUME NEW s \in Slots, PublishRetry(s) PROVE SeenIsCurrent'
  BY <1>29, RunFields, RowTypes DEF PublishRetry, LastTry, At, OnLink,
     GotoRaised, Exclusive, Critical, Locked, Present
<1>30. ASSUME NEW s \in Slots, RetryLost(s) PROVE SeenIsCurrent'
  BY <1>30, RunFields, RowTypes DEF RetryLost, At, OnLink, GotoRaised,
     Exclusive, Critical, Locked, Present
<1>31. ASSUME NEW s \in Slots, Acknowledge(s) PROVE SeenIsCurrent'
  BY <1>31, RunFields, RowTypes DEF Acknowledge, Idle, At, OnLink, Exclusive,
     Critical, Locked, Present
<1>32. ASSUME NEW s \in Slots, Crash(s) PROVE SeenIsCurrent'
  BY <1>32, RunFields, RowTypes DEF Crash, ReleaseLocks, Idle, At, OnLink,
     Exclusive, Critical, Locked, Present
<1>33. ASSUME NEW s \in Slots, VisibilityTimeout(s) PROVE SeenIsCurrent'
  BY <1>33, RunFields, RowTypes DEF VisibilityTimeout, At, OnLink, Exclusive,
     Critical, Locked, Present
<1>34. ASSUME NEW s \in Slots, LoseConnection(s) PROVE SeenIsCurrent'
  BY <1>34, RunFields, RowTypes DEF LoseConnection, ReleaseLocks, At, OnLink,
     Exclusive, Critical, Locked, Present
<1>35. ASSUME NEW m \in Message, Restore(m) PROVE SeenIsCurrent'
  BY <1>35, ClientFields, RunFields DEF Restore, InHash, At, Present
<1>36. CASE ResetCorpus
  BY <1>36, ClientFields, RunFields DEF ResetCorpus, At, NoRow, Present
<1>37. ASSUME NEW m \in Message, ForgetMessage(m) PROVE SeenIsCurrent'
  BY <1>37, ClientFields, RunFields DEF ForgetMessage, At, Present
<1>38. ASSUME NEW s \in Slots, ForgetAcknowledgement(s) PROVE SeenIsCurrent'
  BY <1>38, RunFields, RowTypes DEF ForgetAcknowledgement, Idle, At, OnLink,
     Exclusive, Critical, Locked, Present
<1>. QED
  BY <1>1, <1>2, <1>3, <1>4, <1>5, <1>6, <1>7, <1>8, <1>9, <1>10, <1>11,
     <1>12, <1>13, <1>14, <1>15, <1>16, <1>17, <1>18, <1>19, <1>20, <1>21,
     <1>22, <1>23, <1>24, <1>25, <1>26, <1>27, <1>28, <1>29, <1>30, <1>31,
     <1>32, <1>33, <1>34, <1>35, <1>36, <1>37, <1>38 DEF Next, Upload, Recover, Enqueue,
     Work

\* A commit of chunks commits their number.
LEMMA CountStep ==
    ASSUME TypeOK, BusyHasMessage, FreshIsClean, DeleteIsExact, WholeCopyOrNone, SeenIsCurrent, CountMatchesChunks, Next
    PROVE  CountMatchesChunks'
<1> USE ConstantsAssumption DEF TypeOK, CountMatchesChunks, stores, broker
<1>1. ASSUME NEW d \in Docs, CreateRow(d) PROVE CountMatchesChunks'
  BY <1>1 DEF CreateRow, ClientStep, FreshIsClean, Clients, At, NoRow
<1>2. ASSUME NEW d \in Docs, Stage(d) PROVE CountMatchesChunks'
  BY <1>2, ClientFields DEF Stage
<1>3. ASSUME NEW d \in Docs, StageFails(d) PROVE CountMatchesChunks'
  BY <1>3, ClientFields DEF StageFails
<1>4. ASSUME NEW d \in Docs, ApiCrash(d) PROVE CountMatchesChunks'
  BY <1>4, ClientFields DEF ApiCrash
<1>5. ASSUME NEW d \in Docs, Inspect(d) PROVE CountMatchesChunks'
  BY <1>5, ClientFields DEF Inspect
<1>6. ASSUME NEW d \in Docs, MarkPending(d) PROVE CountMatchesChunks'
  BY <1>6, ClientFields DEF MarkPending, Commit, Flush, Changed, Present, At,
     OnLink
<1>7. ASSUME NEW c \in Clients, NEW d \in Docs, Submit(c, d) PROVE CountMatchesChunks'
  BY <1>7, ClientFields DEF Submit
<1>8. ASSUME NEW c \in Clients, NEW d \in Docs, SubmitFails(c, d) PROVE CountMatchesChunks'
  BY <1>8, ClientFields DEF SubmitFails
<1>9. ASSUME NEW c \in Clients, NEW d \in Docs, SubmitAmbiguous(c, d) PROVE CountMatchesChunks'
  BY <1>9, ClientFields DEF SubmitAmbiguous
<1>10. ASSUME NEW c \in Clients, NEW d \in Docs, Refresh(c, d) PROVE CountMatchesChunks'
  BY <1>10, ClientFields DEF Refresh
<1>11. ASSUME NEW c \in Clients, NEW d \in Docs, MarkRefused(c, d) PROVE CountMatchesChunks'
  BY <1>11, ClientFields DEF MarkRefused, Commit, Flush, Changed, Present, At,
     OnLink
<1>12. ASSUME NEW s \in Slots, Deliver(s) PROVE CountMatchesChunks'
  BY <1>12, RunFields DEF Deliver, Started, At, OnLink
<1>13. ASSUME NEW s \in Slots, Lock(s) PROVE CountMatchesChunks'
  BY <1>13, RunFields DEF Lock, LockFree, At, OnLink
<1>14. ASSUME NEW s \in Slots, Load(s) PROVE CountMatchesChunks'
  BY <1>14, RunFields DEF Load, AlreadyDone, At, OnLink
<1>15. ASSUME NEW s \in Slots, MarkProcessing(s) PROVE CountMatchesChunks'
  BY <1>15, RunFields DEF MarkProcessing, Commit, At, OnLink, Flush, Changed,
     Present
<1>16. ASSUME NEW s \in Slots, ReadFile(s) PROVE CountMatchesChunks'
  BY <1>16, RunFields DEF ReadFile, At, OnLink
<1>17. ASSUME NEW s \in Slots, CommitEmpty(s) PROVE CountMatchesChunks'
  BY <1>17, RunFields DEF CommitEmpty, Commit, DoneRow, At, OnLink, Flush,
     Changed, Present, WholeCopyOrNone, SeenIsCurrent
<1>18. ASSUME NEW s \in Slots, DeleteChunks(s) PROVE CountMatchesChunks'
  BY <1>18, RunFields DEF DeleteChunks, At, OnLink
<1>19. ASSUME NEW s \in Slots, CommitDone(s) PROVE CountMatchesChunks'
  BY <1>19, RunFields DEF CommitDone, Commit, DoneRow, At, OnLink, Flush,
     Changed, Present, DeleteIsExact, SeenIsCurrent
<1>20. ASSUME NEW s \in Slots, RemoveStagedFile(s) PROVE CountMatchesChunks'
  BY <1>20, RunFields DEF RemoveStagedFile, At, OnLink
<1>21. ASSUME NEW s \in Slots, ConnectFails(s) PROVE CountMatchesChunks'
  BY <1>21, RunFields DEF ConnectFails, At, OnLink
<1>22. ASSUME NEW s \in Slots, WorkFails(s) PROVE CountMatchesChunks'
  BY <1>22, RunFields DEF WorkFails, Raise, InTry, At, OnLink
<1>23. ASSUME NEW s \in Slots, LookupFails(s) PROVE CountMatchesChunks'
  BY <1>23, RunFields DEF LookupFails, Raise, At, OnLink
<1>24. ASSUME NEW s \in Slots, LeaveForRetry(s) PROVE CountMatchesChunks'
  BY <1>24, RunFields DEF LeaveForRetry, AfterTry, At, OnLink
<1>25. ASSUME NEW s \in Slots, LoadToFail(s) PROVE CountMatchesChunks'
  BY <1>25, RunFields DEF LoadToFail, At, OnLink
<1>26. ASSUME NEW s \in Slots, CommitFailed(s) PROVE CountMatchesChunks'
  BY <1>26, RunFields DEF CommitFailed, Commit, FailedRow, DropChunks, At,
     OnLink, Flush, Changed, Present, SeenIsCurrent
<1>27. ASSUME NEW s \in Slots, RecordingFails(s) PROVE CountMatchesChunks'
  BY <1>27, RunFields DEF RecordingFails, At, OnLink
<1>28. ASSUME NEW s \in Slots, Unlock(s) PROVE CountMatchesChunks'
  BY <1>28, RunFields DEF Unlock, At, OnLink
<1>29. ASSUME NEW s \in Slots, PublishRetry(s) PROVE CountMatchesChunks'
  BY <1>29, RunFields DEF PublishRetry, LastTry, At, OnLink
<1>30. ASSUME NEW s \in Slots, RetryLost(s) PROVE CountMatchesChunks'
  BY <1>30, RunFields DEF RetryLost, At, OnLink
<1>31. ASSUME NEW s \in Slots, Acknowledge(s) PROVE CountMatchesChunks'
  BY <1>31, RunFields DEF Acknowledge, At, OnLink
<1>32. ASSUME NEW s \in Slots, Crash(s) PROVE CountMatchesChunks'
  BY <1>32, RunFields DEF Crash, At, OnLink
<1>33. ASSUME NEW s \in Slots, VisibilityTimeout(s) PROVE CountMatchesChunks'
  BY <1>33, RunFields DEF VisibilityTimeout, At, OnLink
<1>34. ASSUME NEW s \in Slots, LoseConnection(s) PROVE CountMatchesChunks'
  BY <1>34, RunFields DEF LoseConnection, At, OnLink
<1>35. ASSUME NEW m \in Message, Restore(m) PROVE CountMatchesChunks'
  BY <1>35, ClientFields DEF Restore
<1>36. CASE ResetCorpus
  BY <1>36, ClientFields DEF ResetCorpus, NoRow
<1>37. ASSUME NEW m \in Message, ForgetMessage(m) PROVE CountMatchesChunks'
  BY <1>37, ClientFields DEF ForgetMessage
<1>38. ASSUME NEW s \in Slots, ForgetAcknowledgement(s) PROVE CountMatchesChunks'
  BY <1>38, RunFields DEF ForgetAcknowledgement, At, OnLink
<1>. QED
  BY <1>1, <1>2, <1>3, <1>4, <1>5, <1>6, <1>7, <1>8, <1>9, <1>10, <1>11,
     <1>12, <1>13, <1>14, <1>15, <1>16, <1>17, <1>18, <1>19, <1>20, <1>21,
     <1>22, <1>23, <1>24, <1>25, <1>26, <1>27, <1>28, <1>29, <1>30, <1>31,
     <1>32, <1>33, <1>34, <1>35, <1>36, <1>37, <1>38 DEF Next, Upload, Recover, Enqueue,
     Work

\* Only a commit of the chunks makes a document done, and a failure that takes them undoes it.
LEMMA DoneStep ==
    ASSUME TypeOK, BusyHasMessage, FreshIsClean, DeleteIsExact, WholeCopyOrNone, SeenIsCurrent, DoneIsSearchable, Next
    PROVE  DoneIsSearchable'
<1> USE ConstantsAssumption DEF TypeOK, DoneIsSearchable, stores, broker
<1>1. ASSUME NEW d \in Docs, CreateRow(d) PROVE DoneIsSearchable'
  BY <1>1, ClientFields DEF CreateRow
<1>2. ASSUME NEW d \in Docs, Stage(d) PROVE DoneIsSearchable'
  BY <1>2, ClientFields DEF Stage
<1>3. ASSUME NEW d \in Docs, StageFails(d) PROVE DoneIsSearchable'
  BY <1>3, ClientFields DEF StageFails
<1>4. ASSUME NEW d \in Docs, ApiCrash(d) PROVE DoneIsSearchable'
  BY <1>4, ClientFields DEF ApiCrash
<1>5. ASSUME NEW d \in Docs, Inspect(d) PROVE DoneIsSearchable'
  BY <1>5, ClientFields DEF Inspect
<1>6. ASSUME NEW d \in Docs, MarkPending(d) PROVE DoneIsSearchable'
  BY <1>6, ClientFields DEF MarkPending, Commit, Flush, Changed, Present, At,
     OnLink
<1>7. ASSUME NEW c \in Clients, NEW d \in Docs, Submit(c, d) PROVE DoneIsSearchable'
  BY <1>7, ClientFields DEF Submit
<1>8. ASSUME NEW c \in Clients, NEW d \in Docs, SubmitFails(c, d) PROVE DoneIsSearchable'
  BY <1>8, ClientFields DEF SubmitFails
<1>9. ASSUME NEW c \in Clients, NEW d \in Docs, SubmitAmbiguous(c, d) PROVE DoneIsSearchable'
  BY <1>9, ClientFields DEF SubmitAmbiguous
<1>10. ASSUME NEW c \in Clients, NEW d \in Docs, Refresh(c, d) PROVE DoneIsSearchable'
  BY <1>10, ClientFields DEF Refresh
<1>11. ASSUME NEW c \in Clients, NEW d \in Docs, MarkRefused(c, d) PROVE DoneIsSearchable'
  BY <1>11, ClientFields DEF MarkRefused, Commit, Flush, Changed, Present, At,
     OnLink
<1>12. ASSUME NEW s \in Slots, Deliver(s) PROVE DoneIsSearchable'
  BY <1>12, RunFields DEF Deliver, Started, At, OnLink
<1>13. ASSUME NEW s \in Slots, Lock(s) PROVE DoneIsSearchable'
  BY <1>13, RunFields DEF Lock, LockFree, At, OnLink
<1>14. ASSUME NEW s \in Slots, Load(s) PROVE DoneIsSearchable'
  BY <1>14, RunFields DEF Load, AlreadyDone, At, OnLink
<1>15. ASSUME NEW s \in Slots, MarkProcessing(s) PROVE DoneIsSearchable'
  BY <1>15, RunFields DEF MarkProcessing, Commit, At, OnLink, Flush, Changed,
     Present
<1>16. ASSUME NEW s \in Slots, ReadFile(s) PROVE DoneIsSearchable'
  BY <1>16, RunFields DEF ReadFile, At, OnLink
<1>17. ASSUME NEW s \in Slots, CommitEmpty(s) PROVE DoneIsSearchable'
  BY <1>17, RunFields DEF CommitEmpty, Commit, DoneRow, At, OnLink,
     WholeCopyOrNone, Flush, Changed, Present
<1>18. ASSUME NEW s \in Slots, DeleteChunks(s) PROVE DoneIsSearchable'
  BY <1>18, RunFields DEF DeleteChunks, At, OnLink
<1>19. ASSUME NEW s \in Slots, CommitDone(s) PROVE DoneIsSearchable'
  BY <1>19, RunFields DEF CommitDone, Commit, DoneRow, At, OnLink,
     DeleteIsExact, Flush, Changed, Present
<1>20. ASSUME NEW s \in Slots, RemoveStagedFile(s) PROVE DoneIsSearchable'
  BY <1>20, RunFields DEF RemoveStagedFile, At, OnLink
<1>21. ASSUME NEW s \in Slots, ConnectFails(s) PROVE DoneIsSearchable'
  BY <1>21, RunFields DEF ConnectFails, At, OnLink
<1>22. ASSUME NEW s \in Slots, WorkFails(s) PROVE DoneIsSearchable'
  BY <1>22, RunFields DEF WorkFails, Raise, InTry, At, OnLink
<1>23. ASSUME NEW s \in Slots, LookupFails(s) PROVE DoneIsSearchable'
  BY <1>23, RunFields DEF LookupFails, Raise, At, OnLink
<1>24. ASSUME NEW s \in Slots, LeaveForRetry(s) PROVE DoneIsSearchable'
  BY <1>24, RunFields DEF LeaveForRetry, AfterTry, At, OnLink
<1>25. ASSUME NEW s \in Slots, LoadToFail(s) PROVE DoneIsSearchable'
  BY <1>25, RunFields DEF LoadToFail, At, OnLink
<1>26. ASSUME NEW s \in Slots, CommitFailed(s) PROVE DoneIsSearchable'
  BY <1>26, RunFields DEF CommitFailed, Commit, FailedRow, DropChunks, At,
     OnLink, SeenIsCurrent, Flush, Changed, Present
<1>27. ASSUME NEW s \in Slots, RecordingFails(s) PROVE DoneIsSearchable'
  BY <1>27, RunFields DEF RecordingFails, At, OnLink
<1>28. ASSUME NEW s \in Slots, Unlock(s) PROVE DoneIsSearchable'
  BY <1>28, RunFields DEF Unlock, At, OnLink
<1>29. ASSUME NEW s \in Slots, PublishRetry(s) PROVE DoneIsSearchable'
  BY <1>29, RunFields DEF PublishRetry, LastTry, At, OnLink
<1>30. ASSUME NEW s \in Slots, RetryLost(s) PROVE DoneIsSearchable'
  BY <1>30, RunFields DEF RetryLost, At, OnLink
<1>31. ASSUME NEW s \in Slots, Acknowledge(s) PROVE DoneIsSearchable'
  BY <1>31, RunFields DEF Acknowledge, At, OnLink
<1>32. ASSUME NEW s \in Slots, Crash(s) PROVE DoneIsSearchable'
  BY <1>32, RunFields DEF Crash, At, OnLink
<1>33. ASSUME NEW s \in Slots, VisibilityTimeout(s) PROVE DoneIsSearchable'
  BY <1>33, RunFields DEF VisibilityTimeout, At, OnLink
<1>34. ASSUME NEW s \in Slots, LoseConnection(s) PROVE DoneIsSearchable'
  BY <1>34, RunFields DEF LoseConnection, At, OnLink
<1>35. ASSUME NEW m \in Message, Restore(m) PROVE DoneIsSearchable'
  BY <1>35, ClientFields DEF Restore
<1>36. CASE ResetCorpus
  BY <1>36, ClientFields DEF ResetCorpus, NoRow
<1>37. ASSUME NEW m \in Message, ForgetMessage(m) PROVE DoneIsSearchable'
  BY <1>37, ClientFields DEF ForgetMessage
<1>38. ASSUME NEW s \in Slots, ForgetAcknowledgement(s) PROVE DoneIsSearchable'
  BY <1>38, RunFields DEF ForgetAcknowledgement, At, OnLink
<1>. QED
  BY <1>1, <1>2, <1>3, <1>4, <1>5, <1>6, <1>7, <1>8, <1>9, <1>10, <1>11,
     <1>12, <1>13, <1>14, <1>15, <1>16, <1>17, <1>18, <1>19, <1>20, <1>21,
     <1>22, <1>23, <1>24, <1>25, <1>26, <1>27, <1>28, <1>29, <1>30, <1>31,
     <1>32, <1>33, <1>34, <1>35, <1>36, <1>37, <1>38 DEF Next, Upload, Recover, Enqueue,
     Work

\* Nobody writes the file before the handler does.
LEMMA FileStep ==
    ASSUME TypeOK, NoFileYet, Next
    PROVE  NoFileYet'
<1> USE DEF TypeOK, NoFileYet, Clients, stores, broker
<1>1. ASSUME NEW d \in Docs, CreateRow(d) PROVE NoFileYet'
  BY <1>1 DEF CreateRow, ClientStep
<1>2. ASSUME NEW d \in Docs, Stage(d) PROVE NoFileYet'
  BY <1>2 DEF Stage, ClientStep
<1>3. ASSUME NEW d \in Docs, StageFails(d) PROVE NoFileYet'
  BY <1>3 DEF StageFails, ClientStep
<1>4. ASSUME NEW d \in Docs, ApiCrash(d) PROVE NoFileYet'
  BY <1>4 DEF ApiCrash, ClientStep
<1>5. ASSUME NEW d \in Docs, Inspect(d) PROVE NoFileYet'
  BY <1>5 DEF Inspect, ClientStep
<1>6. ASSUME NEW d \in Docs, MarkPending(d) PROVE NoFileYet'
  BY <1>6 DEF MarkPending, ClientStep
<1>7. ASSUME NEW c \in Clients, NEW d \in Docs, Submit(c, d) PROVE NoFileYet'
  BY <1>7 DEF Submit, Ended, ClientStep
<1>8. ASSUME NEW c \in Clients, NEW d \in Docs, SubmitFails(c, d) PROVE NoFileYet'
  BY <1>8 DEF SubmitFails, ClientStep
<1>9. ASSUME NEW c \in Clients, NEW d \in Docs, SubmitAmbiguous(c, d) PROVE NoFileYet'
  BY <1>9 DEF SubmitAmbiguous, ClientStep
<1>10. ASSUME NEW c \in Clients, NEW d \in Docs, Refresh(c, d) PROVE NoFileYet'
  BY <1>10 DEF Refresh, Ended, ClientStep
<1>11. ASSUME NEW c \in Clients, NEW d \in Docs, MarkRefused(c, d) PROVE NoFileYet'
  BY <1>11 DEF MarkRefused, Ended, ClientStep
<1>12. ASSUME NEW s \in Slots, Deliver(s) PROVE NoFileYet'
  BY <1>12 DEF Deliver, Started, At, OnLink
<1>13. ASSUME NEW s \in Slots, Lock(s) PROVE NoFileYet'
  BY <1>13 DEF Lock, LockFree, At, OnLink
<1>14. ASSUME NEW s \in Slots, Load(s) PROVE NoFileYet'
  BY <1>14 DEF Load, AlreadyDone, At, OnLink
<1>15. ASSUME NEW s \in Slots, MarkProcessing(s) PROVE NoFileYet'
  BY <1>15 DEF MarkProcessing, At, OnLink
<1>16. ASSUME NEW s \in Slots, ReadFile(s) PROVE NoFileYet'
  BY <1>16 DEF ReadFile, At, OnLink
<1>17. ASSUME NEW s \in Slots, CommitEmpty(s) PROVE NoFileYet'
  BY <1>17 DEF CommitEmpty, At, OnLink
<1>18. ASSUME NEW s \in Slots, DeleteChunks(s) PROVE NoFileYet'
  BY <1>18 DEF DeleteChunks, At, OnLink
<1>19. ASSUME NEW s \in Slots, CommitDone(s) PROVE NoFileYet'
  BY <1>19 DEF CommitDone, At, OnLink
<1>20. ASSUME NEW s \in Slots, RemoveStagedFile(s) PROVE NoFileYet'
  BY <1>20 DEF RemoveStagedFile, At, OnLink
<1>21. ASSUME NEW s \in Slots, ConnectFails(s) PROVE NoFileYet'
  BY <1>21 DEF ConnectFails, At, OnLink
<1>22. ASSUME NEW s \in Slots, WorkFails(s) PROVE NoFileYet'
  BY <1>22 DEF WorkFails, Raise, InTry, At, OnLink
<1>23. ASSUME NEW s \in Slots, LookupFails(s) PROVE NoFileYet'
  BY <1>23 DEF LookupFails, Raise, At, OnLink
<1>24. ASSUME NEW s \in Slots, LeaveForRetry(s) PROVE NoFileYet'
  BY <1>24 DEF LeaveForRetry, AfterTry, At, OnLink
<1>25. ASSUME NEW s \in Slots, LoadToFail(s) PROVE NoFileYet'
  BY <1>25 DEF LoadToFail, At, OnLink
<1>26. ASSUME NEW s \in Slots, CommitFailed(s) PROVE NoFileYet'
  BY <1>26 DEF CommitFailed, At, OnLink
<1>27. ASSUME NEW s \in Slots, RecordingFails(s) PROVE NoFileYet'
  BY <1>27 DEF RecordingFails, At, OnLink
<1>28. ASSUME NEW s \in Slots, Unlock(s) PROVE NoFileYet'
  BY <1>28 DEF Unlock, At, OnLink
<1>29. ASSUME NEW s \in Slots, PublishRetry(s) PROVE NoFileYet'
  BY <1>29 DEF PublishRetry, LastTry, At, OnLink
<1>30. ASSUME NEW s \in Slots, RetryLost(s) PROVE NoFileYet'
  BY <1>30 DEF RetryLost, At, OnLink
<1>31. ASSUME NEW s \in Slots, Acknowledge(s) PROVE NoFileYet'
  BY <1>31 DEF Acknowledge, At, OnLink
<1>32. ASSUME NEW s \in Slots, Crash(s) PROVE NoFileYet'
  BY <1>32 DEF Crash, At, OnLink
<1>33. ASSUME NEW s \in Slots, VisibilityTimeout(s) PROVE NoFileYet'
  BY <1>33 DEF VisibilityTimeout, At, OnLink
<1>34. ASSUME NEW s \in Slots, LoseConnection(s) PROVE NoFileYet'
  BY <1>34 DEF LoseConnection, At, OnLink
<1>35. ASSUME NEW m \in Message, Restore(m) PROVE NoFileYet'
  BY <1>35 DEF Restore
<1>36. CASE ResetCorpus
  BY <1>36 DEF ResetCorpus
<1>37. ASSUME NEW m \in Message, ForgetMessage(m) PROVE NoFileYet'
  BY <1>37 DEF ForgetMessage
<1>38. ASSUME NEW s \in Slots, ForgetAcknowledgement(s) PROVE NoFileYet'
  BY <1>38 DEF ForgetAcknowledgement, At, OnLink
<1>. QED
  BY <1>1, <1>2, <1>3, <1>4, <1>5, <1>6, <1>7, <1>8, <1>9, <1>10, <1>11,
     <1>12, <1>13, <1>14, <1>15, <1>16, <1>17, <1>18, <1>19, <1>20, <1>21,
     <1>22, <1>23, <1>24, <1>25, <1>26, <1>27, <1>28, <1>29, <1>30, <1>31,
     <1>32, <1>33, <1>34, <1>35, <1>36, <1>37, <1>38 DEF Next, Upload, Recover, Enqueue,
     Work

\* The invariant holds in the initial states.
LEMMA LockInit == Init => LockInv
<1> SUFFICES ASSUME Init PROVE LockInv
  OBVIOUS
<1>1. AllLinked /\ Exclusive /\ SeenIsCurrent
  BY DEF Init, AllLinked, Exclusive, SeenIsCurrent, Critical, Locked, Idle
<1>2. CountMatchesChunks /\ DoneIsSearchable
  BY DEF Init, CountMatchesChunks, DoneIsSearchable, NoRow
<1>3. NoFileYet
  BY DEF Init, NoFileYet
<1>. QED
  BY <1>1, <1>2, <1>3, IndexInit DEF LockInv

\* Every step keeps the invariant while no session is lost.
LEMMA LockNext == SessionsSurvive /\ LockInv /\ [Next]_vars => LockInv'
<1> SUFFICES ASSUME SessionsSurvive, LockInv, [Next]_vars PROVE LockInv'
  OBVIOUS
<1>1. CASE Next
  BY <1>1, IndexNext, LinkedStep, ExclusiveStep, SeenStep, CountStep, DoneStep, FileStep
     DEF LockInv, IndexInv
<1>2. CASE UNCHANGED vars
  BY <1>2, IndexNext DEF vars, LockInv, AllLinked, Exclusive, SeenIsCurrent,
     CountMatchesChunks, DoneIsSearchable, NoFileYet, Doc, Present
<1>. QED
  BY <1>1, <1>2

\* While no database session is lost, the lock of the task keeps the inductive
\* invariant under every other fault.
THEOREM LockInvariant ==
    ASSUME SessionsSurvive
    PROVE  Spec => []LockInv
<1>1. LockInv /\ [Next]_vars => LockInv'
  BY LockNext
<1>. QED
  BY <1>1, LockInit, PTL DEF Spec

\* While no session is lost under a task, num_chunks (tasks.py, models.py) is the
\* number of chunk rows, whatever else fails.
THEOREM CountIsExact ==
    ASSUME SessionsSurvive
    PROVE  Spec => []CountMatchesChunks
<1>1. LockInv => CountMatchesChunks
  BY DEF LockInv
<1>. QED
  BY <1>1, LockInvariant, PTL

\* While no session is lost under a task, a document reported done has all its
\* chunks, whatever else fails.
THEOREM DoneMeansSearchable ==
    ASSUME SessionsSurvive
    PROVE  Spec => []DoneIsSearchable
<1>1. LockInv => DoneIsSearchable
  BY DEF LockInv
<1>. QED
  BY <1>1, LockInvariant, PTL

\* Once a file is staged, only the cleanup of its own document removes it.
LEMMA FileRemovers ==
    ASSUME LockInv, Next, NEW d \in Docs, file[d], ~file'[d]
    PROVE  \E s \in Slots : RemoveStagedFile(s) /\ Doc(s) = d
<1> USE DEF LockInv, IndexInv, TypeOK, stores, broker
<1>1. (\E e \in Docs : \/ CreateRow(e) \/ ApiCrash(e) \/ Inspect(e) \/ MarkPending(e)
                     \/ \E c \in Clients : Enqueue(c, e)) => file' = file
  BY DEF CreateRow, ApiCrash, Inspect, MarkPending, Enqueue, Submit, SubmitFails,
     SubmitAmbiguous, Refresh, MarkRefused
<1>2. ASSUME NEW s \in Slots,
             \/ Deliver(s) \/ Crash(s) \/ VisibilityTimeout(s) \/ LoseConnection(s)
             \/ ForgetAcknowledgement(s)
             \/ Work(s) /\ ~RemoveStagedFile(s)
      PROVE  file' = file
  BY <1>2 DEF Deliver, Crash, VisibilityTimeout, LoseConnection, ForgetAcknowledgement, Work, Lock, Load,
     MarkProcessing, ReadFile, CommitEmpty, DeleteChunks, CommitDone, ConnectFails,
     WorkFails, LookupFails, Raise, LeaveForRetry, LoadToFail, CommitFailed,
     RecordingFails, Unlock, PublishRetry, RetryLost, Acknowledge
<1>3. (ResetCorpus \/ \E m \in Message : Restore(m) \/ ForgetMessage(m)) => file' = file
  BY DEF ResetCorpus, Restore, ForgetMessage
<1>4. ASSUME NEW e \in Docs, Stage(e) \/ StageFails(e) PROVE FALSE
  BY <1>4 DEF Stage, StageFails, ClientStep, NoFileYet
<1>5. ASSUME NEW s \in Slots, RemoveStagedFile(s) PROVE Doc(s) = d
  BY <1>5 DEF RemoveStagedFile
<1>. QED
  BY <1>1, <1>2, <1>3, <1>4, <1>5 DEF Next, Upload, Recover

\* While no session is lost under a task, no delivery takes the staged file from
\* under another that holds the lock and is about to read it.
THEOREM FileIsKept ==
    ASSUME SessionsSurvive
    PROVE  Spec => ReadersKeepFile
<1> DEFINE Kept == \A d \in Docs : file[d] /\ ~file'[d] =>
        \A s \in Slots : run[s].pc \in {"loaded", "marked"} => Doc(s) # d
<1>1. LockInv /\ [Next]_vars => [Kept]_vars
  <2> SUFFICES ASSUME LockInv, Next, NEW d \in Docs, file[d], ~file'[d],
                      NEW t \in Slots, run[t].pc \in {"loaded", "marked"}, Doc(t) = d
               PROVE  FALSE
    OBVIOUS
  <2>1. PICK s \in Slots : RemoveStagedFile(s) /\ Doc(s) = d
    BY FileRemovers
  <2>. QED
    BY <2>1 DEF RemoveStagedFile, At, LockInv, Exclusive, Critical, Locked
<1>2. Spec => [][Kept]_vars
  BY <1>1, LockInvariant, PTL DEF Spec
<1>. QED
  BY <1>2 DEF ReadersKeepFile

-----------------------------------------------------------------------------
(* Who writes what: every step touches the rows, the chunks and the runs   *)
(* through one of a few actions.                                           *)

\* Only two clients and four statements of the task write a row, and a reset.
LEMMA RowWriters ==
    ASSUME Next
    PROVE  \/ row' = row
           \/ \E d \in Docs : CreateRow(d) \/ MarkPending(d) \/ \E c \in Clients : MarkRefused(c, d)
           \/ \E s \in Slots : \/ MarkProcessing(s) \/ CommitEmpty(s)
                               \/ CommitDone(s) \/ CommitFailed(s)
           \/ ResetCorpus
<1> USE DEF stores
<1>1. ASSUME NEW d \in Docs, Stage(d) \/ StageFails(d) \/ ApiCrash(d) \/ Inspect(d)
      PROVE  row' = row
  BY <1>1 DEF Stage, StageFails, ApiCrash, Inspect
<1>2. ASSUME NEW c \in Clients, NEW d \in Docs,
             Submit(c, d) \/ SubmitFails(c, d) \/ SubmitAmbiguous(c, d) \/ Refresh(c, d)
      PROVE  row' = row
  BY <1>2 DEF Submit, SubmitFails, SubmitAmbiguous, Refresh
<1>3. ASSUME NEW s \in Slots,
             \/ Deliver(s) \/ Lock(s) \/ Load(s) \/ ReadFile(s) \/ DeleteChunks(s)
             \/ RemoveStagedFile(s) \/ ConnectFails(s) \/ WorkFails(s) \/ LookupFails(s)
             \/ LeaveForRetry(s) \/ LoadToFail(s) \/ RecordingFails(s) \/ Unlock(s)
             \/ PublishRetry(s) \/ RetryLost(s) \/ Acknowledge(s) \/ Crash(s)
             \/ VisibilityTimeout(s) \/ LoseConnection(s) \/ ForgetAcknowledgement(s)
      PROVE  row' = row
  BY <1>3 DEF Deliver, Lock, Load, ReadFile, DeleteChunks, RemoveStagedFile, ConnectFails,
     WorkFails, LookupFails, Raise, LeaveForRetry, LoadToFail, RecordingFails, Unlock,
     PublishRetry, RetryLost, Acknowledge, Crash, VisibilityTimeout, LoseConnection,
     ForgetAcknowledgement
<1>4. ASSUME NEW m \in Message, Restore(m) \/ ForgetMessage(m) PROVE row' = row
  BY <1>4 DEF Restore, ForgetMessage
<1>. QED
  BY <1>1, <1>2, <1>3, <1>4 DEF Next, Upload, Recover, Enqueue, Work

\* Only the two outcomes of the task write chunks, and a reset.
LEMMA ChunkWriters ==
    ASSUME Next
    PROVE  \/ chunks' = chunks
           \/ \E s \in Slots : CommitDone(s) \/ CommitFailed(s)
           \/ ResetCorpus
<1>1. CASE row' = row
  <2> USE <1>1 DEF stores
  <2>1. ASSUME NEW d \in Docs, Upload(d) \/ Recover(d) \/ \E c \in Clients : Enqueue(c, d)
        PROVE  chunks' = chunks
    BY <2>1 DEF Upload, CreateRow, Stage, StageFails, ApiCrash, Recover, Inspect, MarkPending,
       Enqueue, Submit, SubmitFails, SubmitAmbiguous, Refresh, MarkRefused
  <2>2. ASSUME NEW s \in Slots,
               \/ Deliver(s) \/ (Work(s) /\ ~CommitDone(s) /\ ~CommitFailed(s)) \/ Crash(s)
               \/ VisibilityTimeout(s) \/ LoseConnection(s) \/ ForgetAcknowledgement(s)
        PROVE  chunks' = chunks
    BY <2>2 DEF Deliver, Work, Lock, Load, MarkProcessing, ReadFile, CommitEmpty, DeleteChunks,
       RemoveStagedFile, ConnectFails, WorkFails, LookupFails, Raise, LeaveForRetry, LoadToFail,
       RecordingFails, Unlock, PublishRetry, RetryLost, Acknowledge, Crash, VisibilityTimeout,
       LoseConnection, ForgetAcknowledgement
  <2>3. ASSUME NEW m \in Message, Restore(m) \/ ForgetMessage(m) PROVE chunks' = chunks
    BY <2>3 DEF Restore, ForgetMessage
  <2>. QED
    BY <2>1, <2>2, <2>3 DEF Next
<1>2. CASE row' # row
  BY <1>2, RowWriters DEF CreateRow, MarkPending, MarkRefused, MarkProcessing, CommitEmpty
<1>. QED
  BY <1>1, <1>2

\* A slot whose run goes on where it was.
Stays(s) == run'[s].pc = run[s].pc /\ run'[s].seen = run[s].seen /\ run'[s].msg = run[s].msg

\* The statements that decide about the document, and the one that takes its file.
Deciding == {"loaded", "marked", "read", "deleted", "raise", "failing", "cleanup"}

\* A run arrives at such a statement by one of its own steps.
Arrives(s) ==
    /\ run'[s].msg = run[s].msg
    /\ \/ Load(s) \/ MarkProcessing(s) \/ ReadFile(s) \/ CommitEmpty(s) \/ DeleteChunks(s)
       \/ CommitDone(s) \/ WorkFails(s) \/ LookupFails(s) \/ LoadToFail(s) \/ CommitFailed(s)

LEMMA Arrivals ==
    ASSUME TypeOK, Next, NEW t \in Slots, run'[t].pc \in Deciding
    PROVE  Stays(t) \/ Arrives(t)
<1> USE DEF TypeOK, Stays, Deciding
<1>1. ASSUME NEW d \in Docs, Upload(d) \/ Recover(d) \/ \E c \in Clients : Enqueue(c, d)
      PROVE  run' = run
  BY <1>1 DEF Upload, CreateRow, Stage, StageFails, ApiCrash, Recover, Inspect, MarkPending,
     Enqueue, Submit, SubmitFails, SubmitAmbiguous, Refresh, MarkRefused
<1>2. ASSUME NEW m \in Message, Restore(m) \/ ForgetMessage(m) PROVE run' = run
  BY <1>2 DEF Restore, ForgetMessage
<1>3. ResetCorpus => run' = run
  BY DEF ResetCorpus
<1>4. ASSUME NEW s \in Slots, VisibilityTimeout(s) \/ LoseConnection(s) PROVE Stays(t)
  BY <1>4, SMTT(30) DEF VisibilityTimeout, LoseConnection, Run
<1>5. ASSUME NEW s \in Slots,
             \/ Deliver(s) \/ Crash(s) \/ ForgetAcknowledgement(s) \/ Acknowledge(s)
             \/ Lock(s) \/ RemoveStagedFile(s) \/ ConnectFails(s) \/ LeaveForRetry(s)
             \/ RecordingFails(s) \/ Unlock(s) \/ PublishRetry(s) \/ RetryLost(s)
      PROVE  Stays(t)
  <2>1. \/ \E m \in Message : run' = [run EXCEPT ![s] = Started(m)]
        \/ run' = [run EXCEPT ![s] = Idle]
        \/ \E step \in {"locked", "unlock", "settle"} :
              \/ Goto(s, step, NoRow, 0)
              \/ \E exception \in BOOLEAN : GotoRaised(s, step, exception)
    <3>1. CASE Deliver(s) \/ Crash(s) \/ ForgetAcknowledgement(s) \/ Acknowledge(s)
      BY <3>1 DEF Deliver, Crash, ForgetAcknowledgement, Acknowledge
    <3>2. CASE Lock(s) \/ RemoveStagedFile(s) \/ LeaveForRetry(s)
      BY <3>2 DEF Lock, RemoveStagedFile, LeaveForRetry, AfterTry
    <3>3. CASE ConnectFails(s) \/ RecordingFails(s) \/ PublishRetry(s) \/ RetryLost(s)
      BY <3>3 DEF ConnectFails, RecordingFails, PublishRetry, RetryLost
    <3>4. CASE Unlock(s)
      BY <3>4 DEF Unlock, Run
    <3>. QED
      BY <1>5, <3>1, <3>2, <3>3, <3>4
  <2>. QED
    BY <2>1 DEF Started, Idle, Goto, GotoRaised
<1>6. ASSUME NEW s \in Slots,
             \/ Load(s) \/ MarkProcessing(s) \/ ReadFile(s) \/ CommitEmpty(s) \/ DeleteChunks(s)
             \/ CommitDone(s) \/ WorkFails(s) \/ LookupFails(s) \/ LoadToFail(s) \/ CommitFailed(s)
      PROVE  Stays(t) \/ Arrives(t)
  <2>1. \/ \E step \in Steps, loaded \in {NoRow, row[Doc(s)], run[s].seen}, deleted \in Nat \cup {OldChunks(Doc(s))} :
              Goto(s, step, loaded, deleted)
        \/ GotoRaised(s, "raise", TRUE)
    BY <1>6 DEF Load, MarkProcessing, ReadFile, CommitEmpty, DeleteChunks, CommitDone, WorkFails,
       LookupFails, Raise, LoadToFail, CommitFailed, Steps, InTry
  <2>2. run'[s].msg = run[s].msg /\ (t # s => Stays(t))
    BY <2>1 DEF Goto, GotoRaised
  <2>. QED
    BY <1>6, <2>2 DEF Arrives
<1>. QED
  BY <1>1, <1>2, <1>3, <1>4, <1>5, <1>6 DEF Next, Work

\* Under a run that holds the lock and stays where it is, only a client or a
\* reset can change the row.
LEMMA RowUnderLock ==
    ASSUME TypeOK, BusyHasMessage, FreshIsClean, Exclusive, Next,
           NEW t \in Slots, run[t].pc \in Deciding, Stays(t)
    PROVE  \/ row'[Doc(t)] = row[Doc(t)]
           \/ row'[Doc(t)] = NoRow
           \/ MarkPending(Doc(t))
           \/ \E c \in Clients : MarkRefused(c, Doc(t))
<1>1. Doc(t) \in Docs /\ holder[Doc(t)] = t
  BY RunFields DEF Exclusive, Deciding, Critical, Locked, At
<1>2. CASE row' = row
  BY <1>2
<1>3. ASSUME NEW d \in Docs, CreateRow(d) \/ MarkPending(d) \/ \E c \in Clients : MarkRefused(c, d)
      PROVE  (d = Doc(t) /\ ~CreateRow(d)) \/ row'[Doc(t)] = row[Doc(t)]
  <2>1. CASE d # Doc(t)
    BY <1>1, <1>3, <2>1 DEF CreateRow, MarkPending, MarkRefused, Commit, TypeOK
  <2>2. CASE d = Doc(t)
    BY <1>1, <2>2 DEF CreateRow, ClientStep, FreshIsClean, Deciding, At
  <2>. QED
    BY <2>1, <2>2
<1>4. ASSUME NEW s \in Slots,
             MarkProcessing(s) \/ CommitEmpty(s) \/ CommitDone(s) \/ CommitFailed(s)
      PROVE  row'[Doc(t)] = row[Doc(t)]
  <2>1. run[s].pc \in {"loaded", "read", "deleted", "failing"} /\ run'[s].pc \in {"marked", "cleanup"}
    BY <1>4 DEF MarkProcessing, CommitEmpty, CommitDone, CommitFailed, OnLink, Goto, TypeOK
  <2>2. s # t
    BY <2>1 DEF Stays
  <2>3. Doc(s) \in Docs /\ Doc(s) # Doc(t)
    BY <1>1, <2>1, <2>2, RunFields DEF Exclusive, Critical, Locked, At
  <2>. QED
    BY <1>1, <1>4, <2>3 DEF MarkProcessing, CommitEmpty, CommitDone, CommitFailed, Commit, TypeOK
<1>5. ResetCorpus => row'[Doc(t)] = NoRow
  BY <1>1 DEF ResetCorpus
<1>. QED
  BY <1>2, <1>3, <1>4, <1>5, RowWriters

-----------------------------------------------------------------------------
(* What the task decides about.                                            *)

\* A run between the done check and its outcome is about an unfinished document.
Undone ==
    \A s \in Slots : run[s].pc \in {"loaded", "marked", "read", "deleted"} =>
        row[Doc(s)].status # "done" /\ run[s].seen.status # "done"

WorkInv == LockInv /\ Undone

\* Nobody else finishes the document of a run that has the lock.
LEMMA UndoneStep ==
    ASSUME WorkInv, Next
    PROVE  Undone'
<1> USE DEF WorkInv, LockInv, IndexInv
<1>1. SUFFICES ASSUME NEW t \in Slots, run'[t].pc \in {"loaded", "marked", "read", "deleted"}
               PROVE  row'[Doc(t)'].status # "done" /\ run'[t].seen.status # "done"
  BY DEF Undone
<1>2. CASE Stays(t)
  <2>1. Doc(t)' = Doc(t) /\ Doc(t) \in Docs
    BY <1>1, <1>2, RunFields DEF Stays, Doc, At
  <2>2. row[Doc(t)].status # "done" /\ run[t].seen.status # "done"
    BY <1>1, <1>2 DEF Stays, Undone
  <2>3. MarkPending(Doc(t)) => row'[Doc(t)].status # "done"
    BY <2>1, <2>2 DEF MarkPending, Commit, Flush, Changed, Present, TypeOK
  <2>4. \A c \in Clients : MarkRefused(c, Doc(t)) => row'[Doc(t)].status # "done"
    BY <2>1, <2>2 DEF MarkRefused, Commit, Flush, Changed, Present, TypeOK
  <2>. QED
    BY <1>1, <1>2, <2>1, <2>2, <2>3, <2>4, RowUnderLock DEF Stays, Deciding, NoRow
<1>3. CASE Arrives(t)
  <2>1. Doc(t)' = Doc(t)
    BY <1>3 DEF Arrives, Doc
  <2>2. CASE Load(t)
    BY <1>1, <2>1, <2>2, RunFields DEF Load, AlreadyDone, Goto, OnLink, At, stores, TypeOK
  <2>3. CASE MarkProcessing(t)
    BY <1>1, <2>1, <2>3, RunFields DEF MarkProcessing, Commit, Flush, Changed, Goto, OnLink, At,
       TypeOK, Undone, NoRow
  <2>4. CASE ReadFile(t) \/ DeleteChunks(t)
    BY <1>1, <2>1, <2>4, RunFields DEF ReadFile, DeleteChunks, Goto, OnLink, At, stores, TypeOK, Undone
  <2>5. CASE CommitEmpty(t) \/ CommitDone(t) \/ LoadToFail(t) \/ CommitFailed(t)
    BY <1>1, <2>5 DEF CommitEmpty, CommitDone, LoadToFail, CommitFailed, Goto, TypeOK
  <2>6. CASE WorkFails(t) \/ LookupFails(t)
    BY <1>1, <2>6 DEF WorkFails, LookupFails, Raise, GotoRaised, TypeOK
  <2>. QED
    BY <1>3, <2>2, <2>3, <2>4, <2>5, <2>6 DEF Arrives
<1>. QED
  BY <1>1, <1>2, <1>3, Arrivals DEF Deciding

\* The invariant of the work, in the initial states and over every step.
LEMMA WorkInit == Init => WorkInv
  BY LockInit DEF Init, WorkInv, Undone, Idle

LEMMA WorkNext == SessionsSurvive /\ WorkInv /\ [Next]_vars => WorkInv'
<1> SUFFICES ASSUME SessionsSurvive, WorkInv, [Next]_vars PROVE WorkInv'
  OBVIOUS
<1>1. LockInv'
  BY LockNext DEF WorkInv
<1>2. CASE Next
  BY <1>1, <1>2, UndoneStep DEF WorkInv
<1>3. CASE UNCHANGED vars
  BY <1>1, <1>3 DEF vars, WorkInv, Undone, Doc
<1>. QED
  BY <1>2, <1>3

-----------------------------------------------------------------------------
(* What it has decided, while no operator requeues a document.             *)

NoRequeue == Budget["requeue"] = 0

RecoveryRests == \A d \in Docs : client["recovery"][d].pc = "idle"

\* A failure that was loaded is still there when it is recorded again.
FailedStays ==
    \A s \in Slots : /\ At(s, "failing") /\ Present(Doc(s))
                     /\ run[s].seen.status = "failed"
                     => row[Doc(s)].status = "failed"

\* The task is about to remove the file of a document that is decided or gone.
Decided ==
    \A s \in Slots : At(s, "cleanup") => row[Doc(s)].status \in {"done", "failed", "absent"}

DecisionInv == WorkInv /\ RecoveryRests /\ FailedStays /\ Decided

\* No step of a worker slot touches a client.
LEMMA SlotsKeepClients ==
    ASSUME NEW s \in Slots,
           \/ Deliver(s) \/ Work(s) \/ Crash(s) \/ VisibilityTimeout(s) \/ LoseConnection(s)
           \/ ForgetAcknowledgement(s)
    PROVE  client' = client
  BY DEF Deliver, Work, Lock, Load, MarkProcessing, ReadFile, CommitEmpty, DeleteChunks,
     CommitDone, RemoveStagedFile, ConnectFails, WorkFails, LookupFails, Raise, LeaveForRetry,
     LoadToFail, CommitFailed, RecordingFails, Unlock, PublishRetry, RetryLost, Acknowledge,
     Crash, VisibilityTimeout, LoseConnection, ForgetAcknowledgement

\* With no requeue in the budget, the recovery script never starts.
LEMMA RecoveryStep ==
    ASSUME NoRequeue, TypeOK, RecoveryRests, Next
    PROVE  RecoveryRests'
<1> USE DEF TypeOK, RecoveryRests, ClientStep, Clients
<1>1. ASSUME NEW d \in Docs, Upload(d) PROVE RecoveryRests'
  BY <1>1 DEF Upload, CreateRow, Stage, StageFails, ApiCrash
<1>2. ASSUME NEW d \in Docs, Inspect(d) PROVE RecoveryRests'
  BY <1>2, ConstantsAssumption DEF Inspect, Spend, NoRequeue, Faults
<1>3. ASSUME NEW d \in Docs, MarkPending(d) PROVE RecoveryRests'
  BY <1>3 DEF MarkPending
<1>4. ASSUME NEW c \in Clients, NEW d \in Docs, Enqueue(c, d) PROVE RecoveryRests'
  BY <1>4 DEF Enqueue, Submit, SubmitFails, SubmitAmbiguous, Refresh, MarkRefused
<1>5. ASSUME NEW s \in Slots,
             \/ Deliver(s) \/ Work(s) \/ Crash(s) \/ VisibilityTimeout(s) \/ LoseConnection(s)
             \/ ForgetAcknowledgement(s)
      PROVE  client' = client
  BY <1>5, SlotsKeepClients
<1>6. (ResetCorpus \/ \E m \in Message : Restore(m) \/ ForgetMessage(m)) => client' = client
  BY DEF ResetCorpus, Restore, ForgetMessage
<1>. QED
  BY <1>1, <1>2, <1>3, <1>4, <1>5, <1>6 DEF Next, Recover

\* A recorded failure changes only through a run that has the lock.
LEMMA FailedStep ==
    ASSUME DecisionInv, Next
    PROVE  FailedStays'
<1> USE DEF DecisionInv, WorkInv, LockInv, IndexInv
<1>1. SUFFICES ASSUME NEW t \in Slots, run'[t].pc = "failing", Present(Doc(t))',
                      run'[t].seen.status = "failed"
               PROVE  row'[Doc(t)'].status = "failed"
  BY DEF FailedStays, At
<1>2. CASE Stays(t)
  <2>1. Doc(t)' = Doc(t) /\ Doc(t) \in Docs
    BY <1>1, <1>2, RunFields DEF Stays, Doc, At
  <2>2. Present(Doc(t)) => row[Doc(t)].status = "failed"
    BY <1>1, <1>2 DEF Stays, FailedStays, At
  <2>3. ~MarkPending(Doc(t))
    BY <2>1 DEF RecoveryRests, MarkPending, ClientStep
  <2>4. \A c \in Clients : MarkRefused(c, Doc(t)) /\ Present(Doc(t))' => row'[Doc(t)].status = "failed"
    BY <2>1, <2>2 DEF MarkRefused, Commit, Flush, Changed, Present, TypeOK
  <2>. QED
    BY <1>1, <1>2, <2>1, <2>2, <2>3, <2>4, RowUnderLock DEF Stays, Deciding, NoRow, Present
<1>3. CASE Arrives(t)
  <2>1. LoadToFail(t)
    BY <1>1, <1>3 DEF Arrives, Load, MarkProcessing, ReadFile, CommitEmpty, DeleteChunks, CommitDone,
       WorkFails, LookupFails, Raise, CommitFailed, Goto, GotoRaised, TypeOK
  <2>. QED
    BY <1>1, <2>1, RunFields DEF LoadToFail, Goto, Doc, OnLink, At, stores, TypeOK
<1>. QED
  BY <1>1, <1>2, <1>3, Arrivals DEF Deciding

\* The statement that removes the file follows an outcome.
LEMMA DecidedStep ==
    ASSUME DecisionInv, Next
    PROVE  Decided'
<1> USE DEF DecisionInv, WorkInv, LockInv, IndexInv
<1>1. SUFFICES ASSUME NEW t \in Slots, run'[t].pc = "cleanup"
               PROVE  row'[Doc(t)'].status \in {"done", "failed", "absent"}
  BY DEF Decided, At
<1>2. CASE Stays(t)
  <2>1. Doc(t)' = Doc(t) /\ Doc(t) \in Docs
    BY <1>1, <1>2, RunFields DEF Stays, Doc, At
  <2>2. row[Doc(t)].status \in {"done", "failed", "absent"}
    BY <1>1, <1>2 DEF Stays, Decided, At
  <2>3. ~MarkPending(Doc(t))
    BY <2>1 DEF RecoveryRests, MarkPending, ClientStep
  <2>4. \A c \in Clients : MarkRefused(c, Doc(t)) => row'[Doc(t)].status \in {"done", "failed", "absent"}
    BY <2>1, <2>2 DEF MarkRefused, Commit, Flush, Changed, TypeOK
  <2>. QED
    BY <1>1, <1>2, <2>1, <2>2, <2>3, <2>4, RowUnderLock DEF Stays, Deciding, NoRow
<1>3. CASE Arrives(t)
  <2>1. Doc(t)' = Doc(t)
    BY <1>3 DEF Arrives, Doc
  <2>2. CASE Load(t)
    BY <1>1, <2>1, <2>2, RunFields DEF Load, AlreadyDone, Goto, OnLink, At, stores, TypeOK
  <2>3. CASE CommitEmpty(t) \/ CommitDone(t)
    BY <2>1, <2>3, RunFields DEF CommitEmpty, CommitDone, DoneRow, Commit, Flush, Changed, OnLink, At,
       TypeOK, Undone
  <2>4. CASE LoadToFail(t)
    BY <1>1, <2>1, <2>4, RunFields DEF LoadToFail, Goto, OnLink, At, stores, TypeOK, Present
  <2>5. CASE CommitFailed(t)
    BY <2>1, <2>5, RunFields DEF CommitFailed, FailedRow, Commit, Flush, Changed, OnLink, At,
       TypeOK, FailedStays
  <2>6. CASE MarkProcessing(t) \/ ReadFile(t) \/ DeleteChunks(t)
    BY <1>1, <2>6 DEF MarkProcessing, ReadFile, DeleteChunks, Goto, TypeOK
  <2>7. CASE WorkFails(t) \/ LookupFails(t)
    BY <1>1, <2>7 DEF WorkFails, LookupFails, Raise, GotoRaised, TypeOK
  <2>. QED
    BY <1>3, <2>2, <2>3, <2>4, <2>5, <2>6, <2>7 DEF Arrives
<1>. QED
  BY <1>1, <1>2, <1>3, Arrivals DEF Deciding

\* The invariant of the decisions, in the initial states and over every step.
LEMMA DecisionInit == Init => DecisionInv
  BY WorkInit DEF Init, DecisionInv, RecoveryRests, FailedStays, Decided, Idle, Clients, At

LEMMA DecisionNext ==
    SessionsSurvive /\ NoRequeue /\ DecisionInv /\ [Next]_vars => DecisionInv'
<1> SUFFICES ASSUME SessionsSurvive, NoRequeue, DecisionInv, [Next]_vars PROVE DecisionInv'
  OBVIOUS
<1>1. WorkInv'
  BY WorkNext DEF DecisionInv
<1>2. CASE Next
  BY <1>1, <1>2, RecoveryStep, FailedStep, DecidedStep DEF DecisionInv, WorkInv, LockInv, IndexInv
<1>3. CASE UNCHANGED vars
  BY <1>1, <1>3 DEF vars, DecisionInv, RecoveryRests, FailedStays, Decided, Doc, Present, At
<1>. QED
  BY <1>2, <1>3

\* While no session is lost and nobody requeues, what the task decides is not
\* undone before it has cleaned up.
LEMMA DecisionInvariant ==
    ASSUME SessionsSurvive, NoRequeue
    PROVE  Spec => []DecisionInv
<1>1. DecisionInv /\ [Next]_vars => DecisionInv'
  BY DecisionNext
<1>. QED
  BY <1>1, DecisionInit, PTL DEF Spec

\* While no session is lost and nobody requeues, a staged file is removed only
\* when the outcome is recorded, or the document is gone.
THEOREM BytesAreKept ==
    ASSUME SessionsSurvive, NoRequeue
    PROVE  Spec => BytesOutliveDecision
<1> DEFINE Kept == \A d \in Docs : file[d] /\ ~file'[d] =>
        row[d].status \in {"done", "failed", "absent"}
<1>1. DecisionInv /\ [Next]_vars => [Kept]_vars
  <2> SUFFICES ASSUME DecisionInv, Next, NEW d \in Docs, file[d], ~file'[d]
               PROVE  row[d].status \in {"done", "failed", "absent"}
    OBVIOUS
  <2>1. PICK s \in Slots : RemoveStagedFile(s) /\ Doc(s) = d
    BY FileRemovers DEF DecisionInv, WorkInv
  <2>. QED
    BY <2>1 DEF DecisionInv, Decided, RemoveStagedFile
<1>2. Spec => [][Kept]_vars
  BY <1>1, DecisionInvariant, PTL DEF Spec
<1>. QED
  BY <1>2 DEF BytesOutliveDecision

-----------------------------------------------------------------------------
(* Who may write the status, while no broker answer is lost either.        *)

NoLostAnswer == Budget["ambiguous"] = 0

\* Before its submission nothing of a document is under way.
Unsubmitted ==
    \A d \in Docs :
        client["upload"][d].pc \in {"idle", "created", "staged", "refused", "refreshed"} =>
            /\ row[d].status \in {"absent", "pending"} /\ chunks[d] = 0
            /\ \A m \in Message : m.doc = d => queued[m] = 0 /\ unacked[m] = 0
            /\ \A s \in Slots : ~At(s, "idle") => Doc(s) # d

\* The status that the next commit will compare with is the one that is there.
SeenStatusIsCurrent ==
    \A s \in Slots :
        run[s].pc \in {"loaded", "read", "deleted", "failing"} /\ Present(Doc(s))
            => run[s].seen.status = row[Doc(s)].status

\* A document is published out of the processing status.
Marked ==
    \A s \in Slots : run[s].pc \in {"marked", "read", "deleted"}
                     => row[Doc(s)].status \in {"processing", "absent"}

StatusInv == /\ DecisionInv /\ Unsubmitted /\ SeenStatusIsCurrent /\ Marked
             /\ OnlyDoneIsSearchable

\* A message appears where its document is submitted, or where a run of it is.
LEMMA MessageSources ==
    ASSUME TypeOK, Next, NEW m \in Message, queued[m] = 0, unacked[m] = 0
    PROVE  \/ queued'[m] = 0 /\ unacked'[m] = 0
           \/ \E c \in Clients : Submit(c, m.doc) \/ SubmitAmbiguous(c, m.doc)
           \/ \E s \in Slots : ~At(s, "idle") /\ Doc(s) = m.doc
<1> USE DEF TypeOK, broker, Put, Take
<1>1. ASSUME NEW d \in Docs, Upload(d) \/ Recover(d)
      PROVE  queued' = queued /\ unacked' = unacked
  BY <1>1 DEF Upload, CreateRow, Stage, StageFails, ApiCrash, Recover, Inspect, MarkPending
<1>2. ASSUME NEW c \in Clients, NEW d \in Docs, Submit(c, d) \/ SubmitAmbiguous(c, d)
      PROVE  d = m.doc \/ (queued'[m] = 0 /\ unacked'[m] = 0)
  BY <1>2, FirstMessage DEF Submit, SubmitAmbiguous, Submitted, Submission
<1>3. ASSUME NEW c \in Clients, NEW d \in Docs, SubmitFails(c, d) \/ Refresh(c, d) \/ MarkRefused(c, d)
      PROVE  queued' = queued /\ unacked' = unacked
  BY <1>3 DEF SubmitFails, Refresh, MarkRefused
<1>4. ASSUME NEW s \in Slots, Deliver(s) PROVE queued'[m] = 0 /\ unacked'[m] = 0
  BY <1>4 DEF Deliver
<1>5. ASSUME NEW s \in Slots,
             \/ Lock(s) \/ Load(s) \/ MarkProcessing(s) \/ ReadFile(s) \/ CommitEmpty(s)
             \/ DeleteChunks(s) \/ CommitDone(s) \/ RemoveStagedFile(s) \/ ConnectFails(s)
             \/ WorkFails(s) \/ LookupFails(s) \/ LeaveForRetry(s) \/ LoadToFail(s)
             \/ CommitFailed(s) \/ RecordingFails(s) \/ Unlock(s) \/ RetryLost(s)
             \/ Acknowledge(s) \/ LoseConnection(s)
      PROVE  queued' = queued /\ unacked' = unacked
  BY <1>5 DEF Lock, Load, MarkProcessing, ReadFile, CommitEmpty, DeleteChunks, CommitDone,
     RemoveStagedFile, ConnectFails, WorkFails, LookupFails, Raise, LeaveForRetry, LoadToFail,
     CommitFailed, RecordingFails, Unlock, RetryLost, Acknowledge, LoseConnection
<1>6. ASSUME NEW s \in Slots, PublishRetry(s)
      PROVE  ~At(s, "idle") /\ (Doc(s) = m.doc \/ (queued'[m] = 0 /\ unacked'[m] = 0))
  <2> DEFINE retry == [doc |-> Doc(s), retries |-> run[s].msg.retries + 1]
  <2>1. retry.doc = Doc(s)
    OBVIOUS
  <2> HIDE DEF retry
  <2>2. queued' = Put(queued, retry) /\ unacked' = unacked
    BY <1>6 DEF PublishRetry, retry
  <2>3. ~At(s, "idle")
    BY <1>6 DEF PublishRetry, At
  <2>. QED
    BY <2>1, <2>2, <2>3
<1>7. ASSUME NEW s \in Slots, Crash(s) \/ VisibilityTimeout(s) \/ ForgetAcknowledgement(s)
      PROVE  ~At(s, "idle") /\ (Doc(s) = m.doc \/ (queued'[m] = 0 /\ unacked'[m] = 0))
  BY <1>7 DEF Crash, VisibilityTimeout, ForgetAcknowledgement, GivenBack, At, Doc
<1>8. ASSUME NEW n \in Message, Restore(n) \/ ForgetMessage(n)
      PROVE  queued'[m] = 0 /\ unacked'[m] = 0
  BY <1>8 DEF Restore, ForgetMessage, InHash
<1>9. ResetCorpus => queued' = queued /\ unacked' = unacked
  BY DEF ResetCorpus
<1>. QED
  BY <1>1, <1>2, <1>3, <1>4, <1>5, <1>6, <1>7, <1>8, <1>9 DEF Next, Enqueue, Work

\* A slot is busy with what it was busy with, or with a message it has taken.
LEMMA RunSources ==
    ASSUME TypeOK, Next, NEW t \in Slots, run'[t].pc # "idle"
    PROVE  \/ ~At(t, "idle") /\ run'[t].msg = run[t].msg
           \/ \E m \in Message : queued[m] > 0 /\ run'[t].msg = m
<1> USE DEF TypeOK, At
<1>1. ASSUME NEW d \in Docs, Upload(d) \/ Recover(d) \/ \E c \in Clients : Enqueue(c, d)
      PROVE  run' = run
  BY <1>1 DEF Upload, CreateRow, Stage, StageFails, ApiCrash, Recover, Inspect, MarkPending,
     Enqueue, Submit, SubmitFails, SubmitAmbiguous, Refresh, MarkRefused
<1>2. (ResetCorpus \/ \E m \in Message : Restore(m) \/ ForgetMessage(m)) => run' = run
  BY DEF ResetCorpus, Restore, ForgetMessage
<1>3. ASSUME NEW s \in Slots, Deliver(s)
      PROVE  run'[t] = run[t] \/ \E m \in Message : queued[m] > 0 /\ run'[t].msg = m
  BY <1>3 DEF Deliver, Started
<1>4. ASSUME NEW s \in Slots, Crash(s) \/ ForgetAcknowledgement(s) \/ Acknowledge(s)
      PROVE  run'[t] = run[t]
  BY <1>4 DEF Crash, ForgetAcknowledgement, Acknowledge, Idle
<1>5. ASSUME NEW s \in Slots, VisibilityTimeout(s) \/ LoseConnection(s)
      PROVE  run'[t].pc = run[t].pc /\ run'[t].msg = run[t].msg
  BY <1>5 DEF VisibilityTimeout, LoseConnection, Run
<1>6. ASSUME NEW s \in Slots, Work(s), ~Acknowledge(s)
      PROVE  ~At(s, "idle") /\ run'[s].msg = run[s].msg /\ (t # s => run'[t] = run[t])
  BY <1>6 DEF Work, Lock, Load, MarkProcessing, ReadFile, CommitEmpty, DeleteChunks, CommitDone,
     RemoveStagedFile, ConnectFails, WorkFails, LookupFails, Raise, LeaveForRetry, LoadToFail,
     CommitFailed, RecordingFails, Unlock, PublishRetry, RetryLost, OnLink, Goto, GotoRaised, InTry
<1>. QED
  BY <1>1, <1>2, <1>3, <1>4, <1>5, <1>6 DEF Next

\* An upload comes to a step before its submission only from an earlier one.
LEMMA UploadMoves ==
    ASSUME TypeOK, Next, NEW d \in Docs,
           client'["upload"][d].pc \in {"idle", "created", "staged", "refused", "refreshed"}
    PROVE  client["upload"][d].pc \in {"idle", "created", "staged", "refused", "refreshed"}
<1> USE DEF TypeOK, ClientStep, Clients
<1>1. ASSUME NEW e \in Docs, Upload(e) \/ Recover(e) \/ \E c \in Clients : Enqueue(c, e)
      PROVE  \/ client'["upload"][d].pc = client["upload"][d].pc
             \/ client["upload"][d].pc \in {"idle", "created", "staged", "refused", "refreshed"}
  BY <1>1 DEF Upload, CreateRow, Stage, StageFails, ApiCrash, Recover, Inspect, MarkPending,
     Enqueue, Submit, SubmitFails, SubmitAmbiguous, Refresh, MarkRefused
<1>2. ASSUME NEW s \in Slots,
             \/ Deliver(s) \/ Work(s) \/ Crash(s) \/ VisibilityTimeout(s) \/ LoseConnection(s)
             \/ ForgetAcknowledgement(s)
      PROVE  client' = client
  BY <1>2, SlotsKeepClients
<1>3. (ResetCorpus \/ \E m \in Message : Restore(m) \/ ForgetMessage(m)) => client' = client
  BY DEF ResetCorpus, Restore, ForgetMessage
<1>. QED
  BY <1>1, <1>2, <1>3 DEF Next

\* What was not submitted is left alone.
LEMMA UnsubmittedStep ==
    ASSUME NoLostAnswer, StatusInv, Next
    PROVE  Unsubmitted'
<1> USE DEF StatusInv, DecisionInv, WorkInv, LockInv, IndexInv
<1> DEFINE Before == {"idle", "created", "staged", "refused", "refreshed"}
<1>1. SUFFICES ASSUME NEW d \in Docs, client'["upload"][d].pc \in Before
               PROVE  /\ row'[d].status \in {"absent", "pending"} /\ chunks'[d] = 0
                      /\ \A m \in Message : m.doc = d => queued'[m] = 0 /\ unacked'[m] = 0
                      /\ \A s \in Slots : run'[s].pc # "idle" => run'[s].msg.doc # d
  BY DEF Unsubmitted, At, Doc
<1>2. client["upload"][d].pc \in Before
  BY <1>1, UploadMoves
<1>3. /\ row[d].status \in {"absent", "pending"} /\ chunks[d] = 0
      /\ \A m \in Message : m.doc = d => queued[m] = 0 /\ unacked[m] = 0
      /\ \A s \in Slots : ~At(s, "idle") => Doc(s) # d
  BY <1>2 DEF Unsubmitted
<1>4. ~MarkPending(d) /\ ~MarkRefused("recovery", d) /\ ~Submit("recovery", d)
  BY DEF RecoveryRests, MarkPending, MarkRefused, Submit, ClientStep
<1>5. ~MarkRefused("upload", d) /\ ~Submit("upload", d)
  BY <1>1 DEF MarkRefused, Submit, ClientStep, Ended, TypeOK, Clients
<1>6. \A c \in Clients : ~SubmitAmbiguous(c, d)
  BY ConstantsAssumption DEF SubmitAmbiguous, Spend, NoLostAnswer, TypeOK, Faults
<1>7. row'[d].status \in {"absent", "pending"}
  <2>1. ASSUME NEW e \in Docs, CreateRow(e) PROVE row'[d].status \in {"absent", "pending"}
    BY <1>3, <2>1 DEF CreateRow, TypeOK
  <2>2. ASSUME NEW e \in Docs, MarkPending(e) \/ \E c \in Clients : MarkRefused(c, e)
        PROVE  row'[d] = row[d]
    BY <1>4, <1>5, <2>2 DEF MarkPending, MarkRefused, Commit, Clients, TypeOK
  <2>3. ASSUME NEW s \in Slots,
               MarkProcessing(s) \/ CommitEmpty(s) \/ CommitDone(s) \/ CommitFailed(s)
        PROVE  row'[d] = row[d]
    BY <1>3, <2>3 DEF MarkProcessing, CommitEmpty, CommitDone, CommitFailed, Commit, OnLink, At, TypeOK
  <2>4. ResetCorpus => row'[d].status = "absent"
    BY DEF ResetCorpus, NoRow
  <2>. QED
    BY <1>3, <2>1, <2>2, <2>3, <2>4, RowWriters
<1>8. chunks'[d] = 0
  <2>1. ASSUME NEW s \in Slots, CommitDone(s) \/ CommitFailed(s) PROVE chunks'[d] = chunks[d]
    BY <1>3, <2>1 DEF CommitDone, CommitFailed, DropChunks, OnLink, At, TypeOK
  <2>. QED
    BY <1>3, <2>1, ChunkWriters DEF ResetCorpus
<1>9. \A m \in Message : m.doc = d => queued'[m] = 0 /\ unacked'[m] = 0
  BY <1>3, <1>4, <1>5, <1>6, MessageSources DEF Clients
<1>10. \A s \in Slots : run'[s].pc # "idle" => run'[s].msg.doc # d
  BY <1>3, RunSources DEF Doc
<1>. QED
  BY <1>7, <1>8, <1>9, <1>10

\* Nobody writes the row of a document that a run has locked.
LEMMA LockedRow ==
    ASSUME StatusInv, Next, NEW t \in Slots, run[t].pc \in Deciding, Stays(t)
    PROVE  /\ Doc(t)' = Doc(t) /\ Doc(t) \in Docs
           /\ row'[Doc(t)] = row[Doc(t)] \/ row'[Doc(t)] = NoRow
<1> USE DEF StatusInv, DecisionInv, WorkInv, LockInv, IndexInv
<1>1. Doc(t)' = Doc(t) /\ Doc(t) \in Docs /\ ~At(t, "idle")
  BY RunFields DEF Stays, Doc, At, Deciding
<1>2. ~MarkPending(Doc(t)) /\ ~MarkRefused("recovery", Doc(t))
  BY <1>1 DEF RecoveryRests, MarkPending, MarkRefused, ClientStep
<1>3. ~MarkRefused("upload", Doc(t))
  BY <1>1 DEF MarkRefused, ClientStep, Unsubmitted
<1>. QED
  BY <1>1, <1>2, <1>3, RowUnderLock DEF Clients

\* The loaded status stays current under the lock.
LEMMA SeenStatusStep ==
    ASSUME StatusInv, Next
    PROVE  SeenStatusIsCurrent'
<1> USE DEF StatusInv, DecisionInv, WorkInv, LockInv, IndexInv
<1>1. SUFFICES ASSUME NEW t \in Slots, run'[t].pc \in {"loaded", "read", "deleted", "failing"},
                      Present(Doc(t))'
               PROVE  run'[t].seen.status = row'[Doc(t)'].status
  BY DEF SeenStatusIsCurrent
<1>2. CASE Stays(t)
  BY <1>1, <1>2, LockedRow DEF Stays, Deciding, SeenStatusIsCurrent, Present, NoRow
<1>3. CASE Arrives(t)
  <2>1. \/ Load(t) \/ ReadFile(t) \/ LoadToFail(t)
        \/ DeleteChunks(t)
    BY <1>1, <1>3 DEF Arrives, MarkProcessing, CommitEmpty, CommitDone, WorkFails, LookupFails, Raise,
       CommitFailed, Goto, GotoRaised, TypeOK
  <2>2. CASE Load(t)
    BY <1>1, <1>3, <2>2, RunFields DEF Arrives, Load, Goto, Doc, OnLink, At, stores, TypeOK
  <2>3. CASE ReadFile(t) \/ LoadToFail(t)
    BY <1>1, <1>3, <2>3, RunFields DEF Arrives, ReadFile, LoadToFail, Goto, Doc, OnLink, At, stores,
       TypeOK
  <2>4. CASE DeleteChunks(t)
    BY <1>1, <1>3, <2>4 DEF Arrives, DeleteChunks, Goto, Doc, OnLink, stores, TypeOK,
       SeenStatusIsCurrent, Present
  <2>. QED
    BY <2>1, <2>2, <2>3, <2>4
<1>. QED
  BY <1>1, <1>2, <1>3, Arrivals DEF Deciding

\* The processing status stays under the lock until the outcome.
LEMMA MarkedStep ==
    ASSUME StatusInv, Next
    PROVE  Marked'
<1> USE DEF StatusInv, DecisionInv, WorkInv, LockInv, IndexInv
<1>1. SUFFICES ASSUME NEW t \in Slots, run'[t].pc \in {"marked", "read", "deleted"}
               PROVE  row'[Doc(t)'].status \in {"processing", "absent"}
  BY DEF Marked
<1>2. CASE Stays(t)
  BY <1>1, <1>2, LockedRow DEF Stays, Deciding, Marked, NoRow
<1>3. CASE Arrives(t)
  <2>1. MarkProcessing(t) \/ ReadFile(t) \/ DeleteChunks(t)
    BY <1>1, <1>3 DEF Arrives, Load, LoadToFail, CommitEmpty, CommitDone, WorkFails, LookupFails, Raise,
       CommitFailed, Goto, GotoRaised, TypeOK
  <2>2. CASE MarkProcessing(t)
    BY <1>3, <2>2, RunFields DEF Arrives, MarkProcessing, Commit, Flush, Changed, Doc, OnLink, At,
       TypeOK, SeenStatusIsCurrent
  <2>3. CASE ReadFile(t) \/ DeleteChunks(t)
    BY <1>3, <2>3 DEF Arrives, ReadFile, DeleteChunks, Doc, OnLink, stores, Marked
  <2>. QED
    BY <2>1, <2>2, <2>3
<1>. QED
  BY <1>1, <1>2, <1>3, Arrivals DEF Deciding

\* The status and the chunks change together.
LEMMA OnlyDoneStep ==
    ASSUME StatusInv, Next
    PROVE  OnlyDoneIsSearchable'
<1> USE DEF StatusInv, DecisionInv, WorkInv, LockInv, IndexInv, OnlyDoneIsSearchable, TypeOK
<1>1. ASSUME NEW d \in Docs, CreateRow(d) PROVE OnlyDoneIsSearchable'
  BY <1>1 DEF CreateRow, ClientStep, FreshIsClean
<1>2. ASSUME NEW d \in Docs, MarkPending(d) PROVE FALSE
  BY <1>2 DEF MarkPending, ClientStep, RecoveryRests
<1>3. ASSUME NEW c \in Clients, NEW d \in Docs, MarkRefused(c, d) PROVE OnlyDoneIsSearchable'
  <2>1. c = "upload" /\ chunks[d] = 0
    BY <1>3 DEF MarkRefused, ClientStep, RecoveryRests, Unsubmitted, Clients
  <2>. QED
    BY <1>3, <2>1 DEF MarkRefused, Commit
<1>4. ASSUME NEW s \in Slots, MarkProcessing(s) PROVE OnlyDoneIsSearchable'
  <2>1. Doc(s) \in Docs /\ ~(chunks[Doc(s)] > 0)
    BY <1>4, RunFields DEF MarkProcessing, OnLink, At, Undone
  <2>. QED
    BY <1>4, <2>1 DEF MarkProcessing, Commit
<1>5. ASSUME NEW s \in Slots, CommitEmpty(s) PROVE OnlyDoneIsSearchable'
  BY <1>5, RunFields DEF CommitEmpty, Commit, DoneRow, Flush, Changed, OnLink, At, Undone
<1>6. ASSUME NEW s \in Slots, CommitDone(s) PROVE OnlyDoneIsSearchable'
  BY <1>6, RunFields DEF CommitDone, Commit, DoneRow, Flush, Changed, OnLink, At, Undone
<1>7. ASSUME NEW s \in Slots, CommitFailed(s) PROVE OnlyDoneIsSearchable'
  BY <1>7, RunFields DEF CommitFailed, Commit, DropChunks, OnLink, At
<1>8. ResetCorpus => OnlyDoneIsSearchable'
  BY DEF ResetCorpus
<1>9. row' = row /\ chunks' = chunks => OnlyDoneIsSearchable'
  OBVIOUS
<1>10. row' # row \/ chunks' # chunks =>
          \/ \E d \in Docs : CreateRow(d) \/ MarkPending(d) \/ \E c \in Clients : MarkRefused(c, d)
          \/ \E s \in Slots : \/ MarkProcessing(s) \/ CommitEmpty(s)
                              \/ CommitDone(s) \/ CommitFailed(s)
          \/ ResetCorpus
  BY RowWriters, ChunkWriters
<1>. QED
  BY <1>1, <1>2, <1>3, <1>4, <1>5, <1>6, <1>7, <1>8, <1>9, <1>10

\* The invariant of the status, in the initial states and over every step.
LEMMA StatusInit == Init => StatusInv
  BY DecisionInit DEF Init, StatusInv, Unsubmitted, SeenStatusIsCurrent, Marked,
     OnlyDoneIsSearchable, Idle, NoRow, Clients, At

LEMMA StatusNext ==
    SessionsSurvive /\ NoRequeue /\ NoLostAnswer /\ StatusInv /\ [Next]_vars => StatusInv'
<1> SUFFICES ASSUME SessionsSurvive, NoRequeue, NoLostAnswer, StatusInv, [Next]_vars
             PROVE  StatusInv'
  OBVIOUS
<1>1. DecisionInv'
  BY DecisionNext DEF StatusInv
<1>2. CASE Next
  BY <1>1, <1>2, UnsubmittedStep, SeenStatusStep, MarkedStep, OnlyDoneStep DEF StatusInv
<1>3. CASE UNCHANGED vars
  BY <1>1, <1>3 DEF vars, StatusInv, Unsubmitted, SeenStatusIsCurrent, Marked,
     OnlyDoneIsSearchable, Doc, Present, At
<1>. QED
  BY <1>2, <1>3

\* While no session and no broker answer is lost and nobody requeues, only the
\* handler of an upload and then only the lock holder write the status.
THEOREM StatusInvariant ==
    ASSUME SessionsSurvive, NoRequeue, NoLostAnswer
    PROVE  Spec => []StatusInv
<1>1. StatusInv /\ [Next]_vars => StatusInv'
  BY StatusNext
<1>. QED
  BY <1>1, StatusInit, PTL DEF Spec

\* Under the same assumptions, search (search.py joins chunks and documents
\* without a look at the status) returns nothing of a document that is not done.
THEOREM SearchShowsOnlyDone ==
    ASSUME SessionsSurvive, NoRequeue, NoLostAnswer
    PROVE  Spec => []OnlyDoneIsSearchable
<1>1. StatusInv => OnlyDoneIsSearchable
  BY DEF StatusInv
<1>. QED
  BY <1>1, StatusInvariant, PTL

-----------------------------------------------------------------------------
(* The life of a document, while lookups succeed before the done check.    *)

LookupsSucceed == Budget["lookup"] = 0
NoReset        == Budget["reset"] = 0

\* A failure is recorded of an unfinished document only.
RaiseUndone ==
    \A s \in Slots : run[s].pc \in {"raise", "failing"} => row[Doc(s)].status # "done"

LifeInv == StatusInv /\ RaiseUndone

\* A live task raises only about an unfinished document.
LEMMA RaiseStep ==
    ASSUME LookupsSucceed, LifeInv, Next
    PROVE  RaiseUndone'
<1> USE DEF LifeInv, StatusInv, DecisionInv, WorkInv, LockInv, IndexInv
<1>1. SUFFICES ASSUME NEW t \in Slots, run'[t].pc \in {"raise", "failing"}
               PROVE  row'[Doc(t)'].status # "done"
  BY DEF RaiseUndone
<1>2. CASE Stays(t)
  BY <1>1, <1>2, LockedRow DEF Stays, Deciding, RaiseUndone, NoRow
<1>3. CASE Arrives(t)
  <2>1. WorkFails(t) \/ LookupFails(t) \/ LoadToFail(t)
    BY <1>1, <1>3 DEF Arrives, Load, MarkProcessing, ReadFile, CommitEmpty, DeleteChunks, CommitDone,
       CommitFailed, Goto, TypeOK
  <2>2. ~LookupFails(t)
    BY ConstantsAssumption DEF LookupFails, Spend, LookupsSucceed, TypeOK, Faults
  <2>3. CASE WorkFails(t)
    BY <1>3, <2>3 DEF Arrives, WorkFails, Raise, Doc, InTry, AllLinked, Undone, stores
  <2>4. CASE LoadToFail(t)
    BY <1>3, <2>4 DEF Arrives, LoadToFail, Doc, OnLink, RaiseUndone, stores
  <2>. QED
    BY <2>1, <2>2, <2>3, <2>4
<1>. QED
  BY <1>1, <1>2, <1>3, Arrivals DEF Deciding

\* The invariant of the document life, in the initial states and over every step.
LEMMA LifeInvInit == Init => LifeInv
  BY StatusInit DEF Init, LifeInv, RaiseUndone, Idle

LEMMA LifeInvNext ==
    ASSUME SessionsSurvive, NoRequeue, NoLostAnswer, LookupsSucceed
    PROVE  LifeInv /\ [Next]_vars => LifeInv'
<1> SUFFICES ASSUME LifeInv, [Next]_vars PROVE LifeInv'
  OBVIOUS
<1>1. StatusInv'
  BY StatusNext DEF LifeInv
<1>2. CASE Next
  BY <1>1, <1>2, RaiseStep DEF LifeInv
<1>3. CASE UNCHANGED vars
  BY <1>1, <1>3 DEF vars, LifeInv, RaiseUndone, Doc
<1>. QED
  BY <1>2, <1>3

LEMMA LifeInvariant ==
    ASSUME SessionsSurvive, NoRequeue, NoLostAnswer, LookupsSucceed
    PROVE  Spec => []LifeInv
<1>1. LifeInv /\ [Next]_vars => LifeInv'
  BY LifeInvNext
<1>. QED
  BY <1>1, LifeInvInit, PTL DEF Spec

\* The status of each document, as the abstract life knows it.
Statuses == [d \in Docs |-> row[d].status]

\* Every step of the stores is a step of the abstract life, a stutter or a reset.
LEMMA LifeStep ==
    ASSUME LifeInv, Next
    PROVE  Life!LifeNext \/ UNCHANGED <<Statuses, chunks>> \/ ResetCorpus
<1> USE DEF LifeInv, StatusInv, DecisionInv, WorkInv, LockInv, IndexInv, TypeOK
<1>1. ASSUME NEW d \in Docs, CreateRow(d) PROVE Life!Register(d)
  <2>1. row[d].status = "absent"
    BY <1>1 DEF CreateRow, ClientStep, FreshIsClean, NoRow
  <2>. QED
    BY <1>1, <2>1 DEF CreateRow, Life!Register
<1>2. ASSUME NEW d \in Docs, MarkPending(d) PROVE FALSE
  BY <1>2 DEF MarkPending, ClientStep, RecoveryRests
<1>3. ASSUME NEW c \in Clients, NEW d \in Docs, MarkRefused(c, d)
      PROVE  Life!Reject(d) \/ UNCHANGED <<Statuses, chunks>>
  <2>1. c = "upload" /\ chunks[d] = 0 /\ row[d].status \in {"absent", "pending"}
    BY <1>3 DEF MarkRefused, ClientStep, RecoveryRests, Unsubmitted, Clients
  <2>2. row' = row \/ row' = [row EXCEPT ![d] = row'[d]]
    BY <1>3 DEF MarkRefused, Commit
  <2>3. row' = row \/ (row'[d].status \in {row[d].status, "failed"} /\ row[d].status = "pending")
    BY <1>3, <2>1 DEF MarkRefused, Commit, Flush, Changed, Present
  <2>4. chunks' = chunks /\ chunks = [chunks EXCEPT ![d] = 0]
    BY <1>3, <2>1 DEF MarkRefused
  <2>. QED
    BY <2>2, <2>3, <2>4 DEF Life!Reject, Life!Unfinished, Statuses
<1>4. ASSUME NEW s \in Slots, MarkProcessing(s)
      PROVE  \E d \in Docs : Life!Attempt(d)
  <2>1. PICK d \in Docs : d = Doc(s)
    BY <1>4, RunFields DEF MarkProcessing, OnLink, At
  <2>2. row[d].status \in {"pending", "processing", "failed"}
    BY <1>4, <2>1 DEF MarkProcessing, OnLink, Undone, Present, Row, Status
  <2>3. row' = [row EXCEPT ![d] = row'[d]] /\ row'[d].status = "processing"
    BY <1>4, <2>1 DEF MarkProcessing, Commit, Flush, Changed, OnLink, SeenStatusIsCurrent
  <2>4. Life!Attempt(d)
    BY <1>4, <2>1, <2>2, <2>3 DEF MarkProcessing, Life!Attempt, Life!Unfinished
  <2>. QED
    BY <2>4
<1>5. ASSUME NEW s \in Slots, CommitEmpty(s) \/ CommitDone(s)
      PROVE  \E d \in Docs : Life!Publish(d)
  <2>1. PICK d \in Docs : d = Doc(s)
    BY <1>5, RunFields DEF CommitEmpty, CommitDone, OnLink, At
  <2>2. row[d].status = "processing"
    BY <1>5, <2>1 DEF CommitEmpty, CommitDone, OnLink, Marked, Present
  <2>3. row' = [row EXCEPT ![d] = row'[d]] /\ row'[d].status = "done"
    BY <1>5, <2>1 DEF CommitEmpty, CommitDone, Commit, DoneRow, Flush, Changed, OnLink, Undone
  <2>4. chunks' = [chunks EXCEPT ![d] = ChunkCount[d]]
    <3>1. CASE CommitEmpty(s)
      BY <2>1, <3>1 DEF CommitEmpty, WholeCopyOrNone
    <3>2. CASE CommitDone(s)
      <4>1. run[s].removed = chunks[d]
        BY <2>1, <3>2 DEF CommitDone, DeleteIsExact, OnLink, At
      <4>2. (chunks[d] - run[s].removed) + ChunkCount[d] = ChunkCount[d]
        BY <4>1, ConstantsAssumption
      <4>. QED
        BY <2>1, <3>2, <4>2 DEF CommitDone
    <3>. QED
      BY <1>5, <3>1, <3>2
  <2>5. Life!Publish(d)
    BY <2>2, <2>3, <2>4 DEF Life!Publish
  <2>. QED
    BY <2>5
<1>6. ASSUME NEW s \in Slots, CommitFailed(s)
      PROVE  \E d \in Docs : Life!Reject(d)
  <2>1. PICK d \in Docs : d = Doc(s)
    BY <1>6, RunFields DEF CommitFailed, OnLink, At
  <2>2. row[d].status \in {"pending", "processing", "failed"}
    BY <1>6, <2>1 DEF CommitFailed, OnLink, RaiseUndone, Present, Row, Status
  <2>3. row' = [row EXCEPT ![d] = row'[d]] /\ row'[d].status = "failed"
    BY <1>6, <2>1 DEF CommitFailed, Commit, FailedRow, Flush, Changed, OnLink, SeenStatusIsCurrent
  <2>4. Life!Reject(d)
    BY <1>6, <2>1, <2>2, <2>3 DEF CommitFailed, DropChunks, Life!Reject, Life!Unfinished
  <2>. QED
    BY <2>4
<1>7. \/ row' = row /\ chunks' = chunks
      \/ \E d \in Docs : CreateRow(d) \/ \E c \in Clients : MarkRefused(c, d)
      \/ \E s \in Slots : \/ MarkProcessing(s) \/ CommitEmpty(s)
                          \/ CommitDone(s) \/ CommitFailed(s)
      \/ ResetCorpus
  BY <1>2, RowWriters, ChunkWriters
<1>8. CASE row' = row /\ chunks' = chunks
  BY <1>8 DEF Statuses
<1>9. CASE \E d \in Docs : CreateRow(d) \/ \E c \in Clients : MarkRefused(c, d)
  BY <1>1, <1>3, <1>9 DEF Life!LifeNext
<1>10. CASE \E s \in Slots : MarkProcessing(s) \/ CommitEmpty(s) \/ CommitDone(s) \/ CommitFailed(s)
  BY <1>4, <1>5, <1>6, <1>10 DEF Life!LifeNext
<1>. QED
  BY <1>7, <1>8, <1>9, <1>10

\* While nobody but the upload and the lock holder writes a status, and the done
\* check is reached, a document once done is never reported otherwise.
THEOREM DoneStays ==
    ASSUME SessionsSurvive, NoRequeue, NoLostAnswer, LookupsSucceed
    PROVE  Spec => DoneIsFinal
<1> DEFINE Kept == \A d \in Docs : row[d].status = "done" => row'[d].status \in {"done", "absent"}
<1>1. LifeInv /\ [Next]_vars => [Kept]_vars
  <2> SUFFICES ASSUME LifeInv, Next, NEW d \in Docs, row[d].status = "done"
               PROVE  row'[d].status \in {"done", "absent"}
    OBVIOUS
  <2>1. Life!LifeNext => Statuses'[d] = "done"
    BY DEF Life!LifeNext, Life!Register, Life!Attempt, Life!Publish, Life!Reject, Life!Unfinished,
       Statuses
  <2>2. ResetCorpus => row'[d].status = "absent"
    BY DEF ResetCorpus, NoRow
  <2>. QED
    BY <2>1, <2>2, LifeStep DEF Statuses
<1>2. Spec => [][Kept]_vars
  BY <1>1, LifeInvariant, PTL DEF Spec
<1>. QED
  BY <1>2 DEF DoneIsFinal

\* Under the same assumptions, the chunks of a stored document stay in the index.
THEOREM IndexStays ==
    ASSUME SessionsSurvive, NoRequeue, NoLostAnswer, LookupsSucceed
    PROVE  Spec => IndexedIsKept
<1> DEFINE Kept == \A d \in Docs : chunks[d] > 0 => chunks'[d] > 0 \/ row'[d].status = "absent"
<1>1. LifeInv /\ [Next]_vars => [Kept]_vars
  <2> SUFFICES ASSUME LifeInv, Next, NEW d \in Docs, chunks[d] > 0
               PROVE  chunks'[d] > 0 \/ row'[d].status = "absent"
    OBVIOUS
  <2> USE DEF LifeInv, StatusInv, DecisionInv, WorkInv, LockInv, IndexInv
  <2>1. row[d].status = "done"
    BY DEF OnlyDoneIsSearchable
  <2>2. Life!LifeNext => chunks'[d] = chunks[d]
    BY <2>1 DEF Life!LifeNext, Life!Register, Life!Attempt, Life!Publish, Life!Reject,
       Life!Unfinished, TypeOK
  <2>3. ResetCorpus => row'[d].status = "absent"
    BY DEF ResetCorpus, NoRow
  <2>. QED
    BY <2>2, <2>3, LifeStep
<1>2. Spec => [][Kept]_vars
  BY <1>1, LifeInvariant, PTL DEF Spec
<1>. QED
  BY <1>2 DEF IndexedIsKept

\* Without a reset too, ingestion implements the abstract document life, whatever
\* deliveries, deaths, broken publications and failures to record do.
THEOREM LifecycleIsImplemented ==
    ASSUME SessionsSurvive, NoRequeue, NoLostAnswer, LookupsSucceed, NoReset
    PROVE  Spec => ImplementsLifecycle
<1>1. Init => Life!LifeInit
  BY DEF Init, Life!LifeInit, NoRow
<1>2. LifeInv /\ [Next]_vars => [Life!LifeNext]_(Life!lifeVars)
  <2> SUFFICES ASSUME LifeInv, [Next]_vars
               PROVE  Life!LifeNext \/ UNCHANGED Life!lifeVars
    OBVIOUS
  <2>1. ~ResetCorpus
    BY ConstantsAssumption DEF ResetCorpus, Spend, NoReset, Faults, LifeInv, StatusInv, DecisionInv,
       WorkInv, LockInv, IndexInv, TypeOK
  <2>2. CASE Next
    BY <2>1, <2>2, LifeStep DEF Life!lifeVars, Statuses
  <2>3. CASE UNCHANGED vars
    BY <2>3 DEF vars, Life!lifeVars
  <2>. QED
    BY <2>2, <2>3
<1>. QED
  BY <1>1, <1>2, LifeInvariant, PTL DEF Spec, ImplementsLifecycle, Life!LifeSpec

\* Only these steps touch the broker.
LEMMA BrokerWriters ==
    ASSUME Next
    PROVE  \/ queued' = queued /\ unacked' = unacked
           \/ \E c \in Clients, d \in Docs : Submit(c, d) \/ SubmitAmbiguous(c, d)
           \/ \E s \in Slots : \/ Deliver(s) \/ PublishRetry(s) \/ Crash(s) \/ VisibilityTimeout(s)
                               \/ ForgetAcknowledgement(s)
           \/ \E m \in Message : Restore(m) \/ ForgetMessage(m)
<1> USE DEF broker
<1>1. ASSUME NEW d \in Docs, Upload(d) \/ Recover(d)
      PROVE  queued' = queued /\ unacked' = unacked
  BY <1>1 DEF Upload, CreateRow, Stage, StageFails, ApiCrash, Recover, Inspect, MarkPending
<1>2. ASSUME NEW c \in Clients, NEW d \in Docs, SubmitFails(c, d) \/ Refresh(c, d) \/ MarkRefused(c, d)
      PROVE  queued' = queued /\ unacked' = unacked
  BY <1>2 DEF SubmitFails, Refresh, MarkRefused
<1>3. ASSUME NEW s \in Slots,
             \/ Lock(s) \/ Load(s) \/ MarkProcessing(s) \/ ReadFile(s) \/ CommitEmpty(s)
             \/ DeleteChunks(s) \/ CommitDone(s) \/ RemoveStagedFile(s) \/ ConnectFails(s)
             \/ WorkFails(s) \/ LookupFails(s) \/ LeaveForRetry(s) \/ LoadToFail(s)
             \/ CommitFailed(s) \/ RecordingFails(s) \/ Unlock(s) \/ RetryLost(s)
             \/ Acknowledge(s) \/ LoseConnection(s)
      PROVE  queued' = queued /\ unacked' = unacked
  BY <1>3 DEF Lock, Load, MarkProcessing, ReadFile, CommitEmpty, DeleteChunks, CommitDone,
     RemoveStagedFile, ConnectFails, WorkFails, LookupFails, Raise, LeaveForRetry, LoadToFail,
     CommitFailed, RecordingFails, Unlock, RetryLost, Acknowledge, LoseConnection
<1>4. ResetCorpus => queued' = queued /\ unacked' = unacked
  BY DEF ResetCorpus
<1>. QED
  BY <1>1, <1>2, <1>3, <1>4 DEF Next, Enqueue, Work

\* Every fault is counted.
LEMMA FaultsAreCounted ==
    ASSUME Next
    PROVE  spent' = spent \/ \E fault \in Faults : Spend(fault)
<1>1. ASSUME NEW d \in Docs, Upload(d) \/ Recover(d) \/ \E c \in Clients : Enqueue(c, d)
      PROVE  spent' = spent \/ \E fault \in Faults : Spend(fault)
  BY <1>1 DEF Upload, CreateRow, Stage, StageFails, ApiCrash, Recover, Inspect, MarkPending,
     Enqueue, Submit, SubmitFails, SubmitAmbiguous, Refresh, MarkRefused, Faults
<1>2. ASSUME NEW s \in Slots, Work(s)
      PROVE  spent' = spent \/ \E fault \in Faults : Spend(fault)
  BY <1>2 DEF Work, Lock, Load, MarkProcessing, ReadFile, CommitEmpty, DeleteChunks,
     CommitDone, RemoveStagedFile, ConnectFails, WorkFails, LookupFails, Raise, LeaveForRetry,
     LoadToFail, CommitFailed, RecordingFails, Unlock, PublishRetry, RetryLost, Acknowledge, Faults
<1>3. ASSUME NEW s \in Slots,
             \/ Deliver(s) \/ Crash(s) \/ VisibilityTimeout(s) \/ LoseConnection(s)
             \/ ForgetAcknowledgement(s)
      PROVE  spent' = spent \/ \E fault \in Faults : Spend(fault)
  BY <1>3 DEF Deliver, Crash, VisibilityTimeout, LoseConnection, ForgetAcknowledgement, Faults
<1>4. (ResetCorpus \/ \E m \in Message : Restore(m) \/ ForgetMessage(m))
      => spent' = spent \/ \E fault \in Faults : Spend(fault)
  BY DEF ResetCorpus, Restore, ForgetMessage, Faults
<1>. QED
  BY <1>1, <1>2, <1>3, <1>4 DEF Next

-----------------------------------------------------------------------------
(* What the system owes to an accepted upload, as long as nothing that the *)
(* task has taken is dropped: the broker takes every retry, the database   *)
(* can be reached, and a late delivery does not die with its worker.       *)

NothingDropped == \A fault \in {"publish", "outage", "latecrash"} : Budget[fault] = 0

\* Accepted, undecided, and Redis has lost nothing so far.
Waits(d) == /\ client["upload"][d].pc = "accepted"
            /\ row[d].status \in {"pending", "processing"}
            /\ spent["rollback"] = 0

Queued(d) == \E m \in Message : m.doc = d /\ queued[m] + unacked[m] > 0

\* The recovery script is going to submit the document, or to call it failed.
Promised(d) ==
    \/ client["recovery"][d].pc \in {"staged", "refused"}
    \/ client["recovery"][d].pc = "refreshed" /\ client["recovery"][d].seen.status # "failed"

\* The run is going to record an outcome of the document, or to retry.
WillDecide(s, d) ==
    /\ ~At(s, "idle") /\ Doc(s) = d
    /\ \/ run[s].pc \in InTry \cup {"raise", "failing"}
       \/ run[s].pc \in {"unlock", "settle"} /\ run[s].raised /\ ~LastTry(s)

\* Something is under way about the document, on one of these slots or elsewhere.
UnderWay(d, S) == Queued(d) \/ Promised(d) \/ \E s \in S : WillDecide(s, d)

WaitsForSomething == \A d \in Docs : Waits(d) => UnderWay(d, Slots)

\* A failure that will be recorded over the same failure decides nothing.
RepeatDecidesNothing ==
    \A s \in Slots : At(s, "failing") /\ run[s].seen.status = "failed" /\ Waits(Doc(s))
                     => UnderWay(Doc(s), Slots \ {s})

RaisedIsKnown == \A s \in Slots : At(s, "raise") => run[s].raised

OwedInv == WorkInv /\ WaitsForSomething /\ RepeatDecidesNothing /\ RaisedIsKnown

\* A message put in a bag is there, and no other is lost.
LEMMA PutKeeps ==
    ASSUME NEW bag \in [Message -> Nat], NEW m \in Message
    PROVE  /\ Put(bag, m)[m] > 0
           /\ \A n \in Message : Put(bag, m)[n] >= bag[n] /\ Put(bag, m)[n] \in Nat
  BY DEF Put

\* A step of one slot leaves the others alone.
LEMMA OtherSlots ==
    ASSUME TypeOK, NEW s \in Slots, NEW t \in Slots, s # t,
           \/ Deliver(s) \/ Work(s) \/ Crash(s) \/ VisibilityTimeout(s) \/ LoseConnection(s)
           \/ ForgetAcknowledgement(s)
    PROVE  run'[t] = run[t]
  BY DEF TypeOK, Deliver, Work, Lock, Load, MarkProcessing, ReadFile, CommitEmpty, DeleteChunks,
     CommitDone, RemoveStagedFile, ConnectFails, WorkFails, LookupFails, Raise, LeaveForRetry,
     LoadToFail, CommitFailed, RecordingFails, Unlock, PublishRetry, RetryLost, Acknowledge,
     Crash, VisibilityTimeout, LoseConnection, ForgetAcknowledgement, Goto, GotoRaised

\* Neither the clients nor the broker nor a reset touch a run.
LEMMA OthersKeepRuns ==
    ASSUME \/ \E d \in Docs : Upload(d) \/ Recover(d) \/ \E c \in Clients : Enqueue(c, d)
           \/ \E m \in Message : Restore(m) \/ ForgetMessage(m)
           \/ ResetCorpus
    PROVE  run' = run
  BY DEF Upload, CreateRow, Stage, StageFails, ApiCrash, Recover, Inspect, MarkPending,
     Enqueue, Submit, SubmitFails, SubmitAmbiguous, Refresh, MarkRefused, Restore, ForgetMessage,
     ResetCorpus

\* A queued message stays until a slot takes it.
LEMMA QueuedStep ==
    ASSUME TypeOK, BusyHasMessage, Next, NEW d \in Docs, Queued(d), Waits(d)'
    PROVE  Queued(d)' \/ \E s \in Slots : Deliver(s) /\ WillDecide(s, d)'
<1> USE DEF TypeOK, broker
<1>1. PICK m \in Message : m.doc = d /\ queued[m] + unacked[m] > 0
  BY DEF Queued
<1>2. SUFFICES ASSUME ~(queued' = queued /\ unacked' = unacked)
               PROVE  \/ queued'[m] + unacked'[m] > 0
                      \/ \E s \in Slots : Deliver(s) /\ WillDecide(s, d)'
  BY <1>1 DEF Queued
<1>3. ASSUME NEW c \in Clients, NEW e \in Docs, Submit(c, e) \/ SubmitAmbiguous(c, e)
      PROVE  queued'[m] + unacked'[m] > 0
  <2>1. queued' = Put(queued, [doc |-> e, retries |-> 0]) /\ unacked' = unacked
    BY <1>3 DEF Submit, SubmitAmbiguous, Submitted, Submission
  <2>. QED
    BY <1>1, <2>1, FirstMessage, PutKeeps
<1>4. ASSUME NEW s \in Slots, Deliver(s)
      PROVE  queued'[m] + unacked'[m] > 0 \/ WillDecide(s, d)'
  <2>1. PICK n \in Message : queued[n] > 0 /\ queued' = Take(queued, n)
                             /\ run' = [run EXCEPT ![s] = Started(n)]
    BY <1>4 DEF Deliver
  <2>2. CASE n = m
    BY <1>1, <2>1, <2>2 DEF Started, WillDecide, At, Doc, InTry
  <2>3. CASE n # m
    BY <1>1, <1>4, <2>1, <2>3 DEF Take, Deliver
  <2>. QED
    BY <2>2, <2>3
<1>5. ASSUME NEW s \in Slots, PublishRetry(s) PROVE queued'[m] + unacked'[m] > 0
  <2> DEFINE retry == [doc |-> Doc(s), retries |-> run[s].msg.retries + 1]
  <2>1. retry \in Message
    BY <1>5, NextMessage DEF PublishRetry, At
  <2>2. queued' = Put(queued, retry) /\ unacked' = unacked
    BY <1>5 DEF PublishRetry
  <2> HIDE DEF retry
  <2>. QED
    BY <1>1, <2>1, <2>2, PutKeeps
<1>6. ASSUME NEW s \in Slots, Crash(s) \/ VisibilityTimeout(s)
      PROVE  queued'[m] + unacked'[m] > 0
  <2>1. run[s].msg \in Message
    BY <1>6 DEF Crash, VisibilityTimeout, BusyHasMessage
  <2>2. \/ queued' = queued /\ (unacked' = unacked \/ unacked' = Put(unacked, run[s].msg))
        \/ queued' = Put(queued, run[s].msg) /\ unacked' = unacked
    BY <1>6 DEF Crash, VisibilityTimeout, GivenBack
  <2>. QED
    BY <1>1, <2>1, <2>2, PutKeeps
<1>7. ASSUME NEW n \in Message, Restore(n) PROVE queued'[m] + unacked'[m] > 0
  BY <1>1, <1>7 DEF Restore, InHash, Put, Take
<1>8. ASSUME \/ \E n \in Message : ForgetMessage(n)
             \/ \E s \in Slots : ForgetAcknowledgement(s)
      PROVE  FALSE
  <2>1. spent'["rollback"] = spent["rollback"] + 1 /\ spent["rollback"] \in Nat
    BY <1>8 DEF ForgetMessage, ForgetAcknowledgement, Spend, Faults
  <2>. QED
    BY <2>1 DEF Waits
<1>9. \/ \E c \in Clients, e \in Docs : Submit(c, e) \/ SubmitAmbiguous(c, e)
      \/ \E s \in Slots : \/ Deliver(s) \/ PublishRetry(s) \/ Crash(s) \/ VisibilityTimeout(s)
                          \/ ForgetAcknowledgement(s)
      \/ \E n \in Message : Restore(n) \/ ForgetMessage(n)
  BY <1>2, BrokerWriters
<1>. QED
  BY <1>3, <1>4, <1>5, <1>6, <1>7, <1>8, <1>9

\* What the recovery script has promised it submits or decides.
LEMMA PromiseStep ==
    ASSUME TypeOK, Next, NEW d \in Docs, Promised(d), Waits(d)'
    PROVE  Promised(d)' \/ Queued(d)'
<1> USE DEF TypeOK, Clients, ClientStep
<1>1. SUFFICES ASSUME client'["recovery"][d] # client["recovery"][d]
               PROVE  Promised(d)' \/ Queued(d)'
  BY DEF Promised
<1>2. ASSUME NEW e \in Docs, Upload(e) PROVE FALSE
  BY <1>1, <1>2 DEF Upload, CreateRow, Stage, StageFails, ApiCrash
<1>3. ASSUME NEW e \in Docs, Recover(e) PROVE FALSE
  BY <1>1, <1>3 DEF Recover, Inspect, MarkPending, Promised
<1>4. ASSUME NEW c \in Clients, NEW e \in Docs, Enqueue(c, e)
      PROVE  c = "recovery" /\ e = d
  BY <1>1, <1>4 DEF Enqueue, Submit, SubmitFails, SubmitAmbiguous, Refresh, MarkRefused
<1>5. ASSUME Submit("recovery", d) \/ SubmitAmbiguous("recovery", d) PROVE Queued(d)'
  <2> DEFINE m == [doc |-> d, retries |-> 0]
  <2>1. m \in Message /\ m.doc = d
    BY FirstMessage
  <2>2. queued' = Put(queued, m) /\ unacked' = unacked
    BY <1>5 DEF Submit, SubmitAmbiguous, Submitted, Submission
  <2> HIDE DEF m
  <2>. QED
    BY <2>1, <2>2, PutKeeps DEF Queued
<1>6. ASSUME SubmitFails("recovery", d) PROVE Promised(d)'
  BY <1>6 DEF SubmitFails, Promised
<1>7. ASSUME Refresh("recovery", d) PROVE Promised(d)'
  BY <1>7 DEF Refresh, Promised, Waits, stores
<1>8. ASSUME MarkRefused("recovery", d) PROVE FALSE
  BY <1>8 DEF MarkRefused, Commit, Flush, Changed, Promised, Waits, Present
<1>9. \E e \in Docs : Upload(e) \/ Recover(e) \/ \E c \in Clients : Enqueue(c, e)
  BY <1>1, SlotsKeepClients DEF Next, Restore, ForgetMessage, ResetCorpus
<1>. QED
  BY <1>2, <1>3, <1>4, <1>5, <1>6, <1>7, <1>8, <1>9 DEF Enqueue

\* A run that is going to decide decides, or leaves a message behind.
LEMMA DecisionStep ==
    ASSUME NothingDropped, SessionsSurvive, WorkInv, RaisedIsKnown, Next,
           NEW d \in Docs, NEW s \in Slots, WillDecide(s, d), Waits(d)'
    PROVE  \/ WillDecide(s, d)' \/ Queued(d)'
           \/ CommitFailed(s) /\ run[s].seen.status = "failed"
<1> USE DEF WorkInv, LockInv, IndexInv, TypeOK
<1>1. CASE run'[s] = run[s]
  BY <1>1 DEF WillDecide, At, Doc, LastTry
<1>2. CASE run'[s] # run[s]
  <2>1. \/ Deliver(s) \/ Work(s) \/ Crash(s) \/ VisibilityTimeout(s) \/ LoseConnection(s)
        \/ ForgetAcknowledgement(s)
    BY <1>2, OtherSlots, OthersKeepRuns DEF Next
  <2>2. Doc(s) = d /\ run[s].linked /\ run[s].msg \in Message /\ ~At(s, "idle")
        /\ run[s].pc \in InTry \cup {"raise", "failing", "unlock", "settle"}
        /\ (run[s].pc \in {"unlock", "settle"} => run[s].raised /\ ~LastTry(s))
    <3>1. Doc(s) = d /\ ~At(s, "idle")
      BY DEF WillDecide
    <3>2. run[s].linked /\ run[s].msg \in Message
      BY <3>1 DEF AllLinked, BusyHasMessage
    <3>3. run[s].pc \in InTry \cup {"raise", "failing", "unlock", "settle"}
          /\ (run[s].pc \in {"unlock", "settle"} => run[s].raised /\ ~LastTry(s))
      BY DEF WillDecide, InTry
    <3>. QED
      BY <3>1, <3>2, <3>3
  <2>3. ~Deliver(s) /\ ~Acknowledge(s) /\ ~RemoveStagedFile(s) /\ ~LoseConnection(s)
        /\ ~ForgetAcknowledgement(s)
    BY <2>2, NoSessionLost DEF Deliver, Acknowledge, RemoveStagedFile, ForgetAcknowledgement, At, InTry
  <2>4. ~RetryLost(s) /\ ~ConnectFails(s)
    <3>1. \A fault \in {"publish", "outage"} : spent[fault] \in Nat /\ Budget[fault] = 0
      BY DEF NothingDropped, Faults
    <3>2. ~Spend("publish") /\ ~Spend("outage")
      BY <3>1 DEF Spend
    <3>. QED
      BY <3>2 DEF RetryLost, ConnectFails
  <2>5. CASE Lock(s) \/ MarkProcessing(s) \/ ReadFile(s) \/ DeleteChunks(s)
    BY <2>2, <2>5 DEF Lock, MarkProcessing, ReadFile, DeleteChunks, Goto, WillDecide, At, Doc, InTry
  <2>6. CASE Load(s)
    BY <2>2, <2>6 DEF Load, AlreadyDone, Present, Goto, WillDecide, At, Doc, InTry, Waits, stores
  <2>7. CASE CommitEmpty(s) \/ CommitDone(s)
    BY <2>2, <2>7 DEF CommitEmpty, CommitDone, Commit, DoneRow, Flush, Changed, OnLink, Undone, Waits
  <2>8. CASE WorkFails(s) \/ LookupFails(s)
    BY <2>2, <2>8 DEF WorkFails, LookupFails, Raise, GotoRaised, WillDecide, At, Doc
  <2>9. CASE LeaveForRetry(s)
    BY <2>2, <2>9 DEF LeaveForRetry, AfterTry, RaisedIsKnown, Goto, WillDecide, At, Doc, LastTry
  <2>10. CASE LoadToFail(s)
    BY <2>2, <2>10 DEF LoadToFail, Present, Goto, WillDecide, At, Doc, Waits, stores
  <2>11. CASE CommitFailed(s)
    BY <2>2, <2>11 DEF CommitFailed, Commit, FailedRow, Flush, Changed, Waits
  <2>12. CASE RecordingFails(s)
    <3>1. ~Spend("outage")
      BY ConstantsAssumption DEF Spend, NothingDropped, Faults
    <3>. QED
      BY <2>2, <2>12, <3>1 DEF RecordingFails, Present, Waits, stores
  <2>13. CASE Unlock(s)
    BY <2>2, <2>13 DEF Unlock, GotoRaised, WillDecide, At, Doc, LastTry, InTry
  <2>14. CASE PublishRetry(s)
    <3> DEFINE retry == [doc |-> Doc(s), retries |-> run[s].msg.retries + 1]
    <3>1. retry \in Message /\ retry.doc = d
      BY <2>2, <2>14, NextMessage DEF PublishRetry
    <3>2. queued' = Put(queued, retry) /\ unacked' = unacked
      BY <2>14 DEF PublishRetry
    <3> HIDE DEF retry
    <3>. QED
      BY <3>1, <3>2, PutKeeps DEF Queued
  <2>15. CASE Crash(s)
    <3>1. run[s].held
      BY <2>15, ConstantsAssumption DEF Crash, Spend, NothingDropped, Faults
    <3>2. queued' = queued /\ unacked' = Put(unacked, run[s].msg)
      BY <2>15, <3>1 DEF Crash, GivenBack
    <3>. QED
      BY <2>2, <3>2, PutKeeps DEF Queued, Doc
  <2>16. CASE VisibilityTimeout(s)
    BY <2>2, <2>16 DEF VisibilityTimeout, WillDecide, At, Doc, LastTry, Run
  <2>. QED
    BY <2>1, <2>3, <2>4, <2>5, <2>6, <2>7, <2>8, <2>9, <2>10, <2>11, <2>12, <2>13, <2>14, <2>15,
       <2>16 DEF Work
<1>. QED
  BY <1>1, <1>2

\* Whoever makes an upload wait says so, or is at work on it.
LEMMA OpeningStep ==
    ASSUME TypeOK, BusyHasMessage, Next, NEW d \in Docs, ~Waits(d), Waits(d)'
    PROVE  \/ Queued(d)' \/ Promised(d)'
           \/ \E s \in Slots : MarkProcessing(s) /\ WillDecide(s, d)'
<1> USE DEF TypeOK, Clients
<1>1. spent["rollback"] = 0
  <2>1. spent' = spent \/ \E fault \in Faults : Spend(fault)
    BY FaultsAreCounted
  <2>2. spent'["rollback"] >= spent["rollback"] /\ spent["rollback"] \in Nat
    BY <2>1 DEF Spend, Faults
  <2>. QED
    BY <2>2 DEF Waits
<1>2. CASE client'["upload"][d].pc = "accepted" /\ client["upload"][d].pc # "accepted"
  <2>1. Submit("upload", d)
    <3>1. \E e \in Docs : Upload(e) \/ Recover(e) \/ \E c \in Clients : Enqueue(c, e)
      BY <1>2, SlotsKeepClients DEF Next, Restore, ForgetMessage, ResetCorpus
    <3>. QED
      BY <1>2, <3>1 DEF Upload, CreateRow, Stage, StageFails, ApiCrash, Recover, Inspect, MarkPending,
         Enqueue, Submit, SubmitFails, SubmitAmbiguous, Refresh, MarkRefused, ClientStep, Ended
  <2> DEFINE m == [doc |-> d, retries |-> 0]
  <2>2. m \in Message /\ m.doc = d
    BY FirstMessage
  <2>3. queued' = Put(queued, m) /\ unacked' = unacked
    BY <2>1 DEF Submit, Submitted, Submission
  <2> HIDE DEF m
  <2>. QED
    BY <2>2, <2>3, PutKeeps DEF Queued
<1>3. CASE client["upload"][d].pc = "accepted"
  <2>1. row[d].status \notin {"pending", "processing"} /\ row'[d].status \in {"pending", "processing"}
    BY <1>1, <1>3 DEF Waits
  <2>2. ASSUME NEW e \in Docs, CreateRow(e) PROVE FALSE
    BY <1>3, <2>1, <2>2 DEF CreateRow, ClientStep
  <2>3. ASSUME NEW e \in Docs, MarkPending(e) PROVE Promised(d)'
    BY <2>1, <2>3 DEF MarkPending, Commit, ClientStep, Promised
  <2>4. ASSUME NEW c \in Clients, NEW e \in Docs, MarkRefused(c, e) PROVE FALSE
    BY <2>1, <2>4 DEF MarkRefused, Commit, Flush, Changed
  <2>5. ASSUME NEW s \in Slots, CommitEmpty(s) \/ CommitDone(s) \/ CommitFailed(s) PROVE FALSE
    BY <2>1, <2>5, RunFields DEF CommitEmpty, CommitDone, CommitFailed, Commit, DoneRow, FailedRow, Flush,
       Changed, OnLink, At
  <2>6. ASSUME NEW s \in Slots, MarkProcessing(s) PROVE WillDecide(s, d)'
    <3>1. Doc(s) = d
      BY <2>1, <2>6 DEF MarkProcessing, Commit
    <3>. QED
      BY <2>6, <3>1 DEF MarkProcessing, Goto, WillDecide, At, Doc, InTry
  <2>7. ResetCorpus => FALSE
    BY <2>1 DEF ResetCorpus, NoRow
  <2>. QED
    BY <2>1, <2>2, <2>3, <2>4, <2>5, <2>6, <2>7, RowWriters
<1>. QED
  BY <1>2, <1>3 DEF Waits

\* What is under way stays under way on the slots that decide nothing in vain.
LEMMA UnderWayStep ==
    ASSUME NothingDropped, SessionsSurvive, WorkInv, RaisedIsKnown, Next,
           NEW d \in Docs, NEW S \in SUBSET Slots, Waits(d)', Waits(d) => UnderWay(d, S),
           \A s \in Slots \ S : run'[s].pc = "failing",
           \A s \in S : CommitFailed(s) /\ Doc(s) = d => run[s].seen.status # "failed"
    PROVE  UnderWay(d, S)'
<1> USE DEF WorkInv, LockInv, IndexInv
<1>1. ASSUME NEW s \in Slots, Deliver(s) \/ MarkProcessing(s) PROVE s \in S
  BY <1>1 DEF Deliver, Started, MarkProcessing, Goto, TypeOK
<1>2. CASE ~Waits(d)
  BY <1>1, <1>2, OpeningStep DEF UnderWay
<1>3. CASE Queued(d)
  BY <1>1, <1>3, QueuedStep DEF UnderWay
<1>4. CASE Promised(d)
  BY <1>4, PromiseStep DEF UnderWay
<1>5. ASSUME NEW s \in S, WillDecide(s, d) PROVE UnderWay(d, S)'
  BY <1>5, DecisionStep DEF UnderWay, WillDecide
<1>. QED
  BY <1>2, <1>3, <1>4, <1>5 DEF UnderWay


\* Whoever waits for the except block has raised.
LEMMA RaisedStep ==
    ASSUME TypeOK, RaisedIsKnown, Next
    PROVE  RaisedIsKnown'
<1> SUFFICES ASSUME NEW s \in Slots, run'[s].pc = "raise" PROVE run'[s].raised
  BY DEF RaisedIsKnown, At
<1> USE DEF TypeOK
<1>1. CASE run'[s] = run[s]
  BY <1>1 DEF RaisedIsKnown, At
<1>2. CASE WorkFails(s) \/ LookupFails(s)
  BY <1>2 DEF WorkFails, LookupFails, Raise, GotoRaised
<1>3. CASE VisibilityTimeout(s) \/ LoseConnection(s)
  BY <1>3 DEF VisibilityTimeout, LoseConnection, RaisedIsKnown, At, Run
<1>4. ASSUME \/ Deliver(s) \/ Lock(s) \/ Load(s) \/ MarkProcessing(s) \/ ReadFile(s) \/ CommitEmpty(s)
             \/ DeleteChunks(s) \/ CommitDone(s) \/ RemoveStagedFile(s) \/ ConnectFails(s)
             \/ LeaveForRetry(s) \/ LoadToFail(s) \/ CommitFailed(s) \/ RecordingFails(s) \/ Unlock(s)
             \/ PublishRetry(s) \/ RetryLost(s) \/ Acknowledge(s) \/ Crash(s) \/ ForgetAcknowledgement(s)
      PROVE  FALSE
  BY <1>4 DEF Deliver, Started, Lock, Load, MarkProcessing, ReadFile, CommitEmpty, DeleteChunks,
     CommitDone, RemoveStagedFile, ConnectFails, LeaveForRetry, AfterTry, LoadToFail, CommitFailed,
     RecordingFails, Unlock, PublishRetry, RetryLost, Acknowledge, Crash, ForgetAcknowledgement, Goto,
     GotoRaised, Idle
<1>5. \/ run'[s] = run[s]
      \/ Deliver(s) \/ Work(s) \/ Crash(s) \/ VisibilityTimeout(s) \/ LoseConnection(s)
      \/ ForgetAcknowledgement(s)
  BY OtherSlots, OthersKeepRuns DEF Next
<1>. QED
  BY <1>1, <1>2, <1>3, <1>4, <1>5 DEF Work

\* Whoever waits has something under way after every step.
LEMMA WaitingStep ==
    ASSUME NothingDropped, SessionsSurvive, OwedInv, Next
    PROVE  WaitsForSomething'
<1> SUFFICES ASSUME NEW d \in Docs, Waits(d)' PROVE UnderWay(d, Slots)'
  BY DEF WaitsForSomething
<1> USE DEF OwedInv
<1>1. CASE \A s \in Slots : CommitFailed(s) /\ Doc(s) = d => run[s].seen.status # "failed"
  <2>1. Waits(d) => UnderWay(d, Slots)
    BY DEF WaitsForSomething
  <2>. QED
    BY <1>1, <2>1, UnderWayStep
<1>2. ASSUME NEW t \in Slots, CommitFailed(t), Doc(t) = d, run[t].seen.status = "failed"
      PROVE  UnderWay(d, Slots)'
  <2> USE DEF WorkInv, LockInv, IndexInv
  <2>1. row'[d].status = row[d].status
    BY <1>2 DEF CommitFailed, Commit, FailedRow, Flush, Changed, TypeOK
  <2>2. Waits(d) /\ At(t, "failing")
    BY <1>2, <2>1 DEF Waits, CommitFailed, OnLink, At
  <2>3. UnderWay(d, Slots \ {t})
    BY <1>2, <2>2 DEF RepeatDecidesNothing
  <2>4. queued' = queued /\ unacked' = unacked /\ client' = client
    BY <1>2 DEF CommitFailed, broker
  <2>5. ASSUME NEW s \in Slots \ {t}, WillDecide(s, d) PROVE WillDecide(s, d)'
    <3>1. run'[s] = run[s]
      BY <1>2, OtherSlots DEF Work
    <3>. QED
      BY <2>5, <3>1 DEF WillDecide, At, Doc, LastTry
  <2>. QED
    BY <2>3, <2>4, <2>5 DEF UnderWay, Queued, Promised
<1>. QED
  BY <1>1, <1>2

\* What is recorded over itself leaves the document to another.
LEMMA RepeatStep ==
    ASSUME NothingDropped, SessionsSurvive, OwedInv, Next
    PROVE  RepeatDecidesNothing'
<1> USE DEF OwedInv, WorkInv, LockInv, IndexInv
<1> SUFFICES ASSUME NEW s \in Slots, run'[s].pc = "failing", run'[s].seen.status = "failed",
                    Waits(Doc(s))'
             PROVE  UnderWay(Doc(s), Slots \ {s})'
  BY DEF RepeatDecidesNothing, At
<1>1. CASE Stays(s)
  <2>1. PICK d \in Docs : d = Doc(s)
    BY <1>1, RunFields DEF Stays, BusyHasMessage, At
  <2>2. Doc(s)' = d /\ run[s].pc = "failing" /\ run[s].seen.status = "failed"
    BY <1>1, <2>1 DEF Stays, Doc
  <2>3. Waits(d)' /\ (Waits(d) => UnderWay(d, Slots \ {s}))
    BY <2>1, <2>2 DEF RepeatDecidesNothing, At, Waits
  <2>4. \A t \in Slots \ {s} : CommitFailed(t) /\ Doc(t) = d => run[t].seen.status # "failed"
    BY <2>1, <2>2 DEF Exclusive, Critical, CommitFailed, OnLink
  <2>5. UnderWay(d, Slots \ {s})'
    BY <2>3, <2>4, UnderWayStep
  <2>. QED
    BY <2>2, <2>5 DEF UnderWay, Queued, Promised, WillDecide
<1>2. CASE Arrives(s)
  <2>1. LoadToFail(s)
    BY <1>2 DEF Arrives, TypeOK, Load, MarkProcessing, ReadFile, CommitEmpty, DeleteChunks, CommitDone,
       WorkFails, LookupFails, Raise, CommitFailed, Goto, GotoRaised
  <2>2. run'[s].seen = row[Doc(s)] /\ Doc(s)' = Doc(s) /\ row' = row
    BY <2>1 DEF LoadToFail, Goto, Doc, TypeOK, stores
  <2>. QED
    BY <2>2 DEF Waits
<1>. QED
  BY <1>1, <1>2, Arrivals DEF Deciding

LEMMA OwedInit == Init => OwedInv
  BY WorkInit DEF Init, OwedInv, WaitsForSomething, RepeatDecidesNothing, RaisedIsKnown, Waits, NoRow,
     Idle, At

LEMMA OwedNext ==
    ASSUME SessionsSurvive, NothingDropped
    PROVE  OwedInv /\ [Next]_vars => OwedInv'
<1> SUFFICES ASSUME OwedInv, [Next]_vars PROVE OwedInv'
  OBVIOUS
<1>1. WorkInv'
  BY WorkNext DEF OwedInv
<1>2. CASE Next
  BY <1>1, <1>2, WaitingStep, RepeatStep, RaisedStep DEF OwedInv, WorkInv, LockInv, IndexInv
<1>3. CASE UNCHANGED vars
  BY <1>1, <1>3 DEF vars, OwedInv, WaitsForSomething, RepeatDecidesNothing, RaisedIsKnown, Waits,
     UnderWay, Queued, Promised, WillDecide, Doc, At, LastTry
<1>. QED
  BY <1>2, <1>3

\* As long as the retries can be published, the database answers and no late
\* delivery dies, there is always someone who knows of an accepted upload, and it
\* is not somebody who only repeats a failure already recorded.
LEMMA OwedInvariant ==
    ASSUME SessionsSurvive, NothingDropped
    PROVE  Spec => []OwedInv
<1>1. OwedInv /\ [Next]_vars => OwedInv'
  BY OwedNext
<1>. QED
  BY <1>1, OwedInit, PTL DEF Spec

\* Under these assumptions an upload answered with 202 is never forgotten, through
\* crashes, redeliveries, retries, requeues, resets and ambiguous answers.
THEOREM AcceptedIsNeverForgotten ==
    ASSUME SessionsSurvive, NothingDropped
    PROVE  Spec => []AcceptedIsOwed
<1>1. OwedInv => AcceptedIsOwed
  <2> SUFFICES ASSUME OwedInv, NEW d \in Docs, client["upload"][d].pc = "accepted",
                      row[d].status \in {"pending", "processing"}, ~(spent["rollback"] > 0)
               PROVE  Owed(d) \/ client["recovery"][d].pc # "idle"
    BY DEF AcceptedIsOwed
  <2>1. spent["rollback"] = 0
    BY DEF OwedInv, WorkInv, LockInv, IndexInv, TypeOK, Faults
  <2>2. UnderWay(d, Slots)
    BY <2>1 DEF OwedInv, WaitsForSomething, Waits
  <2>. QED
    BY <2>2 DEF UnderWay, Queued, Promised, WillDecide, Owed
<1>. QED
  BY <1>1, OwedInvariant, PTL

=============================================================================
