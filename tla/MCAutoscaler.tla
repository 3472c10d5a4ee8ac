---------------------------- MODULE MCAutoscaler ----------------------------
(* Two controllers, a ceiling of two replicas and machines for one more, and
   queues that ask for one replica, for two, and for what is within the
   tolerance of either. *)
EXTENDS Autoscaler

CONSTANTS a, b
TwoControllers == {a, b}
MCDemands == {2, 5, 9}

(* What goes wrong together: sessions, calls of Scale, stops, replicas, demand. *)
At(mode, machines, demands, s, f, x, r, d) ==
    [mode : {mode}, machines : {machines}, demand : demands,
     budget : {[k \in Kinds |-> CASE k = "session" -> s [] k = "scale" -> f [] k = "stop" -> x
                                  [] k = "replica" -> r [] k = "demand" -> d]}]
MCSites ==
    UNION {At("etcd", 3, MCDemands, 2, 0, 0, 0, 0), At("etcd", 3, MCDemands, 0, 0, 0, 1, 0),
           At("etcd", 3, {9}, 1, 0, 0, 0, 1), At("etcd", 3, {9}, 0, 1, 1, 0, 1),
           At("process", 2, {9}, 1, 0, 0, 0, 0), At("process", 2, {9}, 0, 1, 1, 1, 0),
           At("process", 3, {9}, 0, 0, 0, 1, 1)}
=============================================================================
