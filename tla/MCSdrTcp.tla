------------------------------ MODULE MCSdrTcp ------------------------------
(***************************************************************************)
(* The two threads that use the server's pool, and the stages they work at. *)
(***************************************************************************)
EXTENDS SdrTcpInv

PoolThreads == {"feed", "server"}

PoolStageOf == [t \in PoolThreads |-> IF t = "feed" THEN 0 ELSE 1]

=============================================================================
