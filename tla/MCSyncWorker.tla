------------------------------ MODULE MCSyncWorker ------------------------------
\* Instances of SyncWorker: the definitions of MCSyncEngine under the worker.
EXTENDS MCSyncEngine, DocumentedPromises

RankOne == (ab :> 1)
RankTwo == (ab :> 1) @@ (ba :> 2)
===============================================================================
