---------------------------- MODULE UploadPanel ----------------------------
(***************************************************************************)
(* The upload part of the browser page: handleFile posts a file and polls  *)
(* its document.  A second file may be dropped while the first is polled,  *)
(* so several loops write the one panel.  The server is the abstract       *)
(* document life; a poll's answer may be old when it arrives.              *)
(***************************************************************************)
EXTENDS Naturals

CONSTANTS
    Files,        \* one document each
    ChunkCount,   \* chunks of each document
    Polls,        \* how often a loop asks
    NoFile

ASSUME UploadAssumption ==
    ChunkCount \in [Files -> Nat] /\ Polls \in Nat \ {0} /\ NoFile \notin Files

VARIABLES
    status, visible,   \* the server
    panel,             \* the component's state
    loop               \* handleFile for each file

Server == INSTANCE DocumentLifecycle WITH Docs <- Files

serverVars == <<status, visible>>
panelVars  == <<status, visible, panel, loop>>

States == {"pending", "processing", "done", "failed"}
Answer == [status : {"absent"} \cup States, chunks : Nat]
Panel  == [file : Files \cup {NoFile}, state : States \cup {"none", "uploading", "error"},
           chunks : Nat, error : BOOLEAN]
Loop   == [pc : {"idle", "posting", "asking", "answered", "ended"},
           polls : 0..Polls, answer : Answer]

NoAnswer == [status |-> "absent", chunks |-> 0]

PanelInit ==
    /\ Server!LifeInit
    /\ panel = [file |-> NoFile, state |-> "none", chunks |-> 0, error |-> FALSE]
    /\ loop = [f \in Files |-> [pc |-> "idle", polls |-> 0, answer |-> NoAnswer]]

\* Mutant: setDoc keeps the file name that is there.
LastName(f) == IF panel.file = NoFile THEN f ELSE panel.file
Name(f)     == f

SetDoc(f, state, chunks, error) ==
    panel' = [file |-> Name(f), state |-> state, chunks |-> chunks, error |-> error]

GoOn(f, from, to) == loop[f].pc = from /\ loop' = [loop EXCEPT ![f].pc = to]

ChooseFile(f) ==
    /\ GoOn(f, "idle", "posting")
    /\ SetDoc(f, "uploading", 0, FALSE)
    /\ UNCHANGED serverVars

Register(f) ==
    /\ loop[f].pc = "posting" /\ Server!Register(f)
    /\ UNCHANGED <<panel, loop>>

\* The answer of the upload says pending, whatever happened since.
Posted(f) ==
    /\ status[f] # "absent"
    /\ GoOn(f, "posting", "asking")
    /\ SetDoc(f, "pending", 0, panel.error)
    /\ UNCHANGED serverVars

\* Mutant: one poll too many.
OneMore(n)   == n <= Polls
MorePolls(n) == n < Polls

\* The upload or a poll is refused, or the network fails.
RequestFails(f) ==
    /\ \/ GoOn(f, "posting", "ended")
       \/ MorePolls(loop[f].polls) /\ GoOn(f, "asking", "ended")
    /\ SetDoc(f, "error", 0, TRUE)
    /\ UNCHANGED serverVars

Ask(f) ==
    /\ loop[f].pc = "asking" /\ MorePolls(loop[f].polls) /\ status[f] # "absent"
    /\ loop' = [loop EXCEPT ![f] = [pc |-> "answered", polls |-> @.polls + 1,
                                    answer |-> [status |-> status[f], chunks |-> visible[f]]]]
    /\ UNCHANGED <<serverVars, panel>>

Show(f) ==
    LET answer == loop[f].answer IN
    /\ GoOn(f, "answered", IF answer.status \in {"done", "failed"} THEN "ended" ELSE "asking")
    /\ SetDoc(f, answer.status, answer.chunks, panel.error \/ answer.status = "failed")
    /\ UNCHANGED serverVars

\* Mutant: the loop ends without a word.
Silent  == panel.error
Message == TRUE

GiveUp(f) ==
    /\ ~MorePolls(loop[f].polls)
    /\ GoOn(f, "asking", "ended")
    /\ panel' = [panel EXCEPT !.error = Message]
    /\ UNCHANGED serverVars

Serve(f) == /\ Server!Attempt(f) \/ Server!Publish(f) \/ Server!Reject(f)
            /\ UNCHANGED <<panel, loop>>

PanelNext == \E f \in Files : \/ ChooseFile(f) \/ Register(f) \/ Posted(f) \/ RequestFails(f)
                              \/ Ask(f) \/ Show(f) \/ GiveUp(f) \/ Serve(f)
=============================================================================
