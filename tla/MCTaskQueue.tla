---------------------------- MODULE MCTaskQueue ----------------------------
(***************************************************************************)
(* A small instance of TaskQueue: four enqueue requests, two of them for   *)
(* the same key, a chain of up to four dependents, one request without a   *)
(* derived provider and one on a second provider.                          *)
(***************************************************************************)
EXTENDS TaskQueue, TLC

CONSTANTS t1, t2, t3, t4, k1, k2, k3, video, image, ark, vidu, demo

MCKeyOf == t1 :> k1 @@ t2 :> k2 @@ t3 :> k3 @@ t4 :> k1
MCProjectOf == [t \in Tasks |-> demo]
MCLaneOf == t1 :> video @@ t2 :> video @@ t3 :> image @@ t4 :> video
MCProviderOf == t1 :> ark @@ t2 :> None @@ t3 :> ark @@ t4 :> vidu

\* Bound: the requests arrive in this order.
Before(t, u) == status[u] # "absent" => status[t] # "absent" /\ queuedAt[t] < queuedAt[u]
ArriveInOrder == Before(t1, t2) /\ Before(t2, t3) /\ Before(t3, t4)
=============================================================================
