----------------------------- MODULE MCIngestion -----------------------------
(* Small instances of Ingestion: documents, worker slots and fault budgets.  *)
EXTENDS Ingestion, TLC

CONSTANTS full, blank, w1, w2

\* A document with two chunks, one whose text yields none.
OneDoc  == {full}
TwoDocs == {full, blank}
CountOne == full :> 2
CountTwo == full :> 2 @@ blank :> 0
TwoSlots == {w1, w2}

Once(kinds) == [f \in Faults |-> IF f \in kinds THEN 1 ELSE 0]

\* Worker and API deaths, second deliveries and removals that fail, which the
\* design expects, and a Redis that comes back without its last second.
DeliveryFaults == Once({"crash", "redeliver", "apicrash", "rollback", "unlink"})

\* Faults of the worker's database session, of its broker and of late deliveries.
LockFaults == Once({"redeliver", "latecrash", "disconnect", "lookup", "outage", "publish"})

\* Clients that write the status without the lock, and a reset under way.
RaceFaults == Once({"redeliver", "ambiguous", "requeue", "reset", "crash"})

\* One fault each, for the disagreements.
LostAnswer     == Once({"ambiguous"})
OneRequeue     == Once({"requeue"})
LostConnection == Once({"disconnect", "redeliver"})

Symmetry == Permutations(TwoSlots)
==============================================================================
