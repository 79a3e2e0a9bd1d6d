------------------------------ MODULE MCBridge ------------------------------
(* Small instances of Bridge for TLC.                                      *)
EXTENDS Bridge, TLC

CONSTANTS h1, h2, alice, bob, d1, d2, k1, k2

HandlerSymmetry == Permutations(Handlers)

Put(kind, key, data, user) ==
    [kind |-> kind, key |-> key, data |-> data, user |-> user, expires_at |-> None,
     signed |-> TRUE, work |-> 0, solved |-> TRUE, ttl |-> None]

MCSize == (d1 :> 1) @@ (d2 :> 3)

MCHashOf == (d1 :> k1) @@ (d2 :> k2)

(* Volume: one identity, cheap and expensive requests, small and large.    *)
VolumeRequests ==
    {Put("slot", k1, d1, alice),
     [Put("slot", k2, d2, alice) EXCEPT !.work = 2]}

(* Storage: all kinds, grants that expire, keys that do not match.         *)
StorageRequests ==
    {[Put("card", k1, d1, alice) EXCEPT !.expires_at = 1],
     Put("card", k1, d2, alice),
     [Put("slot", k1, d1, bob) EXCEPT !.expires_at = 1],
     Put("slot", k2, d2, Malformed),
     [Put("inbox", k2, d1, bob) EXCEPT !.ttl = 0],
     Put("inbox", k2, d2, bob),
     Put("inbox", k1, Malformed, bob)}

MCRequests == VolumeRequests \cup StorageRequests

(* A behaviour serves one of the two workloads.  Volume has a long log and *)
(* no failures: a handler that is dropped adds nothing to what the volume  *)
(* properties count.  Storage has failures at every step, and any number   *)
(* of requests that fail before they are logged.                           *)
VARIABLE workload

Volume == [requests |-> VolumeRequests, time |-> MaxTime, logs |-> MaxLogs, failures |-> FALSE]

Storage == [requests |-> StorageRequests, time |-> 1, logs |-> 2, failures |-> TRUE]

(* Handlers whose request is not in the log yet.                           *)
Serving == {h \in Handlers : pc[h] \in Steps \ {"read_score", "write_score"}}

MCInit == Init /\ workload \in {Volume, Storage}

MCNext ==
    /\ \/ \E h \in Handlers : Receive(h) \/ HandlerStep(h) \/ (workload.failures /\ Abort(h))
       \/ workload.failures /\ Restart
       \/ Tick
    /\ \A h \in Handlers :
          \/ req'[h] \in {req[h], None}
          \/ req'[h] \in workload.requests /\ Len(request_logs) + Cardinality(Serving) < workload.logs
    /\ clock' <= workload.time
    /\ UNCHANGED workload

MCSpec == MCInit /\ [][MCNext]_<<vars, workload>>
=============================================================================
