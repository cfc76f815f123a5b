-------------------------- MODULE DocumentLifecycle --------------------------
(***************************************************************************)
(* What ingestion promises a client that polls GET /documents/{id} and     *)
(* searches: the life of one document as its status and its searchable     *)
(* chunks, changed together and without a step in between.                 *)
(***************************************************************************)
EXTENDS Naturals

CONSTANTS Docs, ChunkCount

VARIABLES status,    \* what the API reports
          visible    \* how many chunks search can return

lifeVars == <<status, visible>>

Unfinished(d) == status[d] \in {"pending", "processing", "failed"}

LifeInit == /\ status = [d \in Docs |-> "absent"]
            /\ visible = [d \in Docs |-> 0]

Register(d) == /\ status[d] = "absent"
               /\ status' = [status EXCEPT ![d] = "pending"]
               /\ UNCHANGED visible

\* A failed document may be attempted again by a late delivery.
Attempt(d) == /\ Unfinished(d)
              /\ status' = [status EXCEPT ![d] = "processing"]
              /\ UNCHANGED visible

\* Publication is one step, and final.
Publish(d) == /\ status[d] = "processing"
              /\ status' = [status EXCEPT ![d] = "done"]
              /\ visible' = [visible EXCEPT ![d] = ChunkCount[d]]

\* Nothing of a failed document is searchable.
Reject(d) == /\ Unfinished(d)
             /\ status' = [status EXCEPT ![d] = "failed"]
             /\ visible' = [visible EXCEPT ![d] = 0]

LifeNext == \E d \in Docs : Register(d) \/ Attempt(d) \/ Publish(d) \/ Reject(d)

LifeSpec == LifeInit /\ [][LifeNext]_lifeVars
==============================================================================
