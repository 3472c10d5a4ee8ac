----------------------------- MODULE Autoscaler -----------------------------
(***************************************************************************)
(* The autoscaler: Decide and Run of src/router/autoscaler.go, run by      *)
(* whichever controller RunAsLeader of src/router/election.go elects, and  *)
(* the two executors of src/router/executor.go.  EtcdExecutor publishes a  *)
(* target that an actuator outside the repository applies;                 *)
(* ProcessExecutor starts and stops processes of its own.                  *)
(*                                                                         *)
(* A process is loading until it registers, unready while it is ill or has *)
(* not been probed, ready, or dead.  Observations are exact (what a health *)
(* check misses is Fleet's), time is the age of a sample, and fractions    *)
(* are pairs of integers.                                                  *)
(***************************************************************************)
EXTENDS Integers, Sequences, FiniteSets, FiniteSetsExt, SequencesExt

CONSTANTS Controllers,
          MinReplicas, MaxReplicas,
          TargetQueueDepth,
          TolNum, TolDen,            \* Tolerance
          Window,                    \* ScaleDownStabilization
          Demands,                   \* possible totals of waiting requests
          Sites                      \* the deployments: see Site

Kinds == {"session", "scale", "stop", "replica", "demand"}   \* what the environment does it to
Actuator == "actuator"
Operator == "operator"       \* someone who starts a replica by hand
Owners == Controllers \cup {Actuator, Operator}

(* A deployment: its executor, how many processes the machines of one owner can
   hold, the queue it starts with, and, as a bound, how often the environment
   does something to it. *)
Site == [mode : {"etcd", "process"}, machines : Nat, demand : Demands, budget : [Kinds -> Nat]]

(* ScalePolicy.validate: a policy it refuses starts no autoscaler. *)
ValidPolicy ==
    /\ TargetQueueDepth \in Nat \ {0}
    /\ MinReplicas \in Nat \ {0} /\ MaxReplicas \in Nat /\ MinReplicas <= MaxReplicas
    /\ TolNum \in Nat /\ TolDen \in Nat /\ TolNum < TolDen

ASSUME PolicyAssumption ==
    /\ ValidPolicy
    /\ Window \in Nat /\ Demands \subseteq Nat /\ Sites \subseteq Site
    /\ IsFiniteSet(Controllers) /\ Controllers \cap {Actuator, Operator} = {}

VARIABLES
    site,      \* the deployment; --executor is the same on every controller
    ctl,       \* controller -> where RunAsLeader is
    keys,      \* controllers whose key in the election is alive
    ahead,     \* controller -> the older keys its Campaign waits for
    history,   \* controller -> its samples: [age, desired]
    asked,     \* controller -> every sample it took, never trimmed
    pending,   \* controller -> the count Scale is applying, 0 for none
    target,    \* DesiredKey, 0 for none
    fleet,     \* owner -> the states of the processes it started, oldest first
    ghosts,    \* ring entries of dead replicas whose lease has not lapsed
    holds,     \* history: the counts outside the policy's range that a hold decided
    demand,    \* waiting requests
    kvHigh,    \* some replica is over KVHighWater
    budget     \* what is left of the deployment's budget

ctlVars == <<ctl, keys, ahead>>
tickVars == <<history, asked, pending>>
vars == <<site, ctlVars, tickVars, target, fleet, ghosts, holds, demand, kvHigh, budget>>

Init ==
    /\ site \in Sites /\ demand = site.demand /\ budget = site.budget
    /\ ctl = [c \in Controllers |-> "idle"]
    /\ keys = {} /\ ahead = [c \in Controllers |-> {}]
    /\ history = [c \in Controllers |-> {}] /\ asked = history
    /\ pending = [c \in Controllers |-> 0]
    /\ target = 0
    /\ fleet = [o \in Owners |-> <<>>] /\ ghosts = 0 /\ holds = {}
    /\ kvHigh = FALSE

-----------------------------------------------------------------------------
(* The policy. *)

InState(S) == UNION {{<<o, i>> : i \in {k \in DOMAIN fleet[o] : fleet[o][k] \in S}} : o \in Owners}
ReadyReplicas == Cardinality(InState({"ready"}))

(* Load counts every entry of the ring: a replica that serves, one that is ill
   or not probed yet, and one that is gone and whose lease is still alive. *)
Registered == Cardinality(InState({"ready", "unready"})) + ghosts

Counts == MinReplicas .. MaxReplicas

(* clamp.  Mutant: no ceiling. *)
ClampFloor(n) == IF n < MinReplicas THEN MinReplicas ELSE n
Clamp(n) == IF n < MinReplicas THEN MinReplicas ELSE IF n > MaxReplicas THEN MaxReplicas ELSE n

(* The ratio of the queue to its target leaves the dead band. *)
OffTarget(current) ==
    LET goal == current * TargetQueueDepth
        gap == IF demand > goal THEN demand - goal ELSE goal - demand
    IN  gap * TolDen > TolNum * goal

(* The proportional count, KV pressure, and the clamp, for current > 0. *)
Raw(current) ==
    LET prop == IF OffTarget(current)
                THEN (demand + TargetQueueDepth - 1) \div TargetQueueDepth ELSE current
    IN  Clamp(IF kvHigh /\ prop <= current THEN current + 1 ELSE prop)

(* trim.  Mutant: the newest sample alone is kept. *)
TrimToNewest(S) == {s \in S : s.age = 0}
Trim(S) == {s \in S : s.age <= Window}

(* The highest count the window has seen, if that is a scale-down at all. *)
Stabilized(raw, S, current) ==
    LET most == Max({s.desired : s \in S} \cup {raw})
    IN  IF most >= current THEN current ELSE most

(* No replica is ready: the fleet is held at what the ring has, which no clamp
   bounds, or started from nothing.  Mutant: nothing to hold, nothing to do. *)
BlindHold == Registered
Blind == IF Registered > 0 THEN Registered ELSE MinReplicas

(* One tick of Run: Decide, and Scale when the count changes. *)
Tick(c) ==
    LET current == ReadyReplicas
        raw == Raw(current)
        sample == [age |-> 0, desired |-> raw]
        kept == Trim(history[c] \cup {sample})
        desired == IF current = 0 THEN Blind
                   ELSE IF raw >= current THEN raw ELSE Stabilized(raw, kept, current)
    IN  /\ ctl[c] = "leading" /\ pending[c] = 0
        /\ pending' = [pending EXCEPT ![c] = IF desired # current THEN desired ELSE 0]
        /\ IF current = 0 THEN UNCHANGED <<history, asked>>
           ELSE /\ history' = [history EXCEPT ![c] = kept]
                /\ asked' = [asked EXCEPT ![c] = @ \cup {sample}]
        /\ holds' = IF current = 0 THEN holds \cup ({desired} \ Counts) ELSE holds
        /\ UNCHANGED <<site, ctlVars, target, fleet, ghosts, demand, kvHigh, budget>>

-----------------------------------------------------------------------------
(* The executors. *)

(* EtcdExecutor.Scale: nothing fences a controller that has lost its key. *)
Publish(c) ==
    /\ site.mode = "etcd" /\ pending[c] # 0
    /\ target' = pending[c]
    /\ pending' = [pending EXCEPT ![c] = 0]
    /\ UNCHANGED <<site, ctlVars, history, asked, fleet, ghosts, holds, demand, kvHigh, budget>>

(* A list of processes one step closer to n: the newest goes first. *)
Closer(procs, n) ==
    IF Len(procs) < n THEN Append(procs, "loading")
    ELSE SubSeq(procs, 1, Len(procs) - 1)

(* There is no machine left for what n asks. *)
Full(procs, n) == Len(procs) < n /\ Len(procs) >= site.machines

(* ProcessExecutor.Scale, which counts the processes it started, dead or alive,
   and does not look at the context between two of them.  It returns when the
   count is right or the machine can start no more.  A process it stops
   deregisters; one that must be killed is a death before the stop. *)
StartOrStop(c) ==
    /\ site.mode = "process" /\ pending[c] # 0
    /\ IF Len(fleet[c]) = pending[c] \/ Full(fleet[c], pending[c])
       THEN pending' = [pending EXCEPT ![c] = 0] /\ UNCHANGED fleet
       ELSE fleet' = [fleet EXCEPT ![c] = Closer(@, pending[c])] /\ UNCHANGED pending
    /\ UNCHANGED <<site, ctlVars, history, asked, target, ghosts, holds, demand, kvHigh, budget>>

(* Whatever reads DesiredKey: it clears away processes that died, then starts
   or stops. *)
Actuate ==
    LET procs == fleet[Actuator]
        dead == {i \in DOMAIN procs : procs[i] = "dead"}
    IN  /\ target # 0
        /\ \/ \E i \in dead : fleet' = [fleet EXCEPT ![Actuator] = RemoveAt(@, i)]
           \/ dead = {} /\ Len(procs) # target /\ ~Full(procs, target)
              /\ fleet' = [fleet EXCEPT ![Actuator] = Closer(@, target)]
        /\ UNCHANGED <<site, ctlVars, tickVars, target, ghosts, holds, demand, kvHigh, budget>>

-----------------------------------------------------------------------------
(* RunAsLeader. *)

(* The election without the key of c: nobody waits for it any more. *)
Drop(c) == keys' = keys \ {c} /\ ahead' = [o \in Controllers |-> ahead[o] \ {c}]

(* A session, a key, and a wait for the keys that are older. *)
Campaign(c) ==
    /\ ctl[c] = "idle"
    /\ ctl' = [ctl EXCEPT ![c] = "waiting"]
    /\ keys' = keys \cup {c} /\ ahead' = [ahead EXCEPT ![c] = keys]
    /\ UNCHANGED <<site, tickVars, target, fleet, ghosts, holds, demand, kvHigh, budget>>

(* The older keys are gone.  Nobody watched the session meanwhile: its own key
   may be gone as well. *)
Elected(c) ==
    /\ ctl[c] = "waiting" /\ ahead[c] = {}
    /\ ctl' = [ctl EXCEPT ![c] = "leading"]
    /\ UNCHANGED <<site, keys, ahead, tickVars, target, fleet, ghosts, holds, demand, kvHigh, budget>>

(* session.Done, which only a leader watches: the context ends, a Put in flight
   fails with it, and Run returns to campaign again; a process executor finishes
   its Scale first.  Mutant: the loss is logged and the context goes on. *)
NoticeLogged(c) == ctl[c] = "leading" /\ c \notin keys /\ UNCHANGED vars
Notice(c) ==
    /\ ctl[c] = "leading" /\ c \notin keys
    /\ site.mode = "etcd" \/ pending[c] = 0
    /\ ctl' = [ctl EXCEPT ![c] = "idle"]
    /\ pending' = [pending EXCEPT ![c] = 0]
    /\ UNCHANGED <<site, keys, ahead, history, asked, target, fleet, ghosts, holds, demand, kvHigh, budget>>

-----------------------------------------------------------------------------
(* The environment. *)

Fault(k) == budget[k] > 0 /\ budget' = [budget EXCEPT ![k] = @ - 1]

(* A session lapses in etcd, and its controller does not know yet. *)
SessionExpires(c) ==
    /\ Fault("session") /\ c \in keys
    /\ Drop(c)
    /\ UNCHANGED <<site, ctl, tickVars, target, fleet, ghosts, holds, demand, kvHigh>>

(* Scale returns an error, which Run logs: the Put times out, or a process does
   not start and those before it stay. *)
ScaleFails(c) ==
    /\ Fault("scale") /\ pending[c] # 0
    /\ pending' = [pending EXCEPT ![c] = 0]
    /\ UNCHANGED <<site, ctlVars, history, asked, target, fleet, ghosts, holds, demand, kvHigh>>

(* SIGTERM between ticks: resign, and cleanup stops what this executor started. *)
Shutdown(c) ==
    /\ Fault("stop") /\ ctl[c] # "off" /\ pending[c] = 0
    /\ \E o \in Controllers : o # c /\ ctl[o] # "off"
    /\ ctl' = [ctl EXCEPT ![c] = "off"]
    /\ Drop(c)
    /\ fleet' = [fleet EXCEPT ![c] = <<>>]
    /\ UNCHANGED <<site, tickVars, target, ghosts, holds, demand, kvHigh>>

(* The i-th process of someone finishes loading and registers, or passes a probe. *)
Advances(i, from, to) ==
    /\ \E o \in Owners :
          /\ i \in DOMAIN fleet[o] /\ fleet[o][i] = from
          /\ fleet' = [fleet EXCEPT ![o][i] = to]
    /\ UNCHANGED <<site, ctlVars, tickVars, target, ghosts, holds, demand, kvHigh, budget>>
Registers(i) == Advances(i, "loading", "unready")
Serves(i) == Advances(i, "unready", "ready")

(* A process falls ill or dies; the lease of one that had registered goes on. *)
Fails ==
    /\ Fault("replica")
    /\ \E o \in Owners : \E i \in DOMAIN fleet[o] : \E s \in {"unready", "dead"} :
          /\ fleet[o][i] # "dead" /\ (s = "unready" => fleet[o][i] = "ready")
          /\ fleet' = [fleet EXCEPT ![o][i] = s]
          /\ ghosts' = IF s = "dead" /\ fleet[o][i] # "loading" THEN ghosts + 1 ELSE ghosts
    /\ UNCHANGED <<site, ctlVars, tickVars, target, holds, demand, kvHigh>>

(* The lease of a dead replica lapses, and the ring drops its entry. *)
LeaseLapses ==
    /\ ghosts > 0 /\ ghosts' = ghosts - 1
    /\ UNCHANGED <<site, ctlVars, tickVars, target, fleet, holds, demand, kvHigh, budget>>

(* Someone starts a replica that no executor knows of. *)
StartedByHand ==
    /\ Fault("replica") /\ Len(fleet[Operator]) < site.machines
    /\ fleet' = [fleet EXCEPT ![Operator] = Append(@, "loading")]
    /\ UNCHANGED <<site, ctlVars, tickVars, target, ghosts, holds, demand, kvHigh>>

(* The queue grows or shrinks, or the KV pressure of the worst replica does. *)
DemandChanges ==
    /\ Fault("demand")
    /\ demand' \in Demands /\ kvHigh' \in BOOLEAN
    /\ UNCHANGED <<site, ctlVars, tickVars, target, fleet, ghosts, holds>>

(* Samples grow older; past the window they stay just past it. *)
Aged(S) == {[s EXCEPT !.age = IF @ <= Window THEN @ + 1 ELSE @] : s \in S}
TimePasses ==
    /\ history' = [c \in Controllers |-> Aged(history[c])]
    /\ asked' = [c \in Controllers |-> {s \in Aged(asked[c]) : s.age <= Window}]
    /\ UNCHANGED <<site, ctlVars, pending, target, fleet, ghosts, holds, demand, kvHigh, budget>>

Most == Max({s.machines : s \in Sites})   \* the longest a fleet may be

Controller(c) ==
    \/ Tick(c) \/ Publish(c) \/ StartOrStop(c)
    \/ Campaign(c) \/ Elected(c) \/ Notice(c)

Next ==
    \/ \E c \in Controllers : Controller(c) \/ SessionExpires(c) \/ ScaleFails(c) \/ Shutdown(c)
    \/ \E i \in 1..Most : Registers(i) \/ Serves(i)
    \/ Actuate \/ Fails \/ LeaseLapses \/ StartedByHand \/ DemandChanges \/ TimePasses

(* Every controller's loop goes on, time passes, processes finish loading and
   ill ones recover, leases that nobody renews lapse, and the actuator acts. *)
Fairness ==
    /\ \A c \in Controllers :
          /\ WF_vars(Tick(c)) /\ WF_vars(Publish(c) \/ StartOrStop(c))
          /\ WF_vars(Campaign(c) \/ Elected(c)) /\ SF_vars(Notice(c))
    /\ \A i \in 1..Most : WF_vars(Registers(i) \/ Serves(i))
    /\ WF_vars(Actuate) /\ WF_vars(LeaseLapses) /\ WF_vars(TimePasses)

Spec == Init /\ [][Next]_vars /\ Fairness

-----------------------------------------------------------------------------
(* Properties. *)

(* A controller gives up replicas only if nothing it saw within the window asked
   for more than it leaves (Decide and trim); a scale-down decided on no ready
   replica at all is the hold of an outage. *)
SustainedDown ==
    [][\A c \in Controllers :
          pending[c] = 0 /\ 0 < pending'[c] /\ pending'[c] < ReadyReplicas =>
              \A s \in asked'[c] : s.desired <= pending'[c]]_vars

(* However many controllers believe they lead, a count outside the policy's
   range is only ever published, or a fleet grown past the ceiling, because a
   hold decided on that count: Decide clamps everything but the hold, and the
   hold counts ring entries that are dead, unprobed or someone else's.  A fleet
   is what one executor runs: two controllers with process executors each keep
   to it, and their fleets add up. *)
WithinCeiling ==
    /\ target \in {0} \cup Counts \cup holds
    /\ \A o \in Owners \ {Operator} :
          Len(fleet[o]) <= MaxReplicas \/ \E n \in holds : Len(fleet[o]) <= n

(* Sessions that lapse end in one leader again, which holds the key. *)
OneLeaderAgain ==
    <>[](\E c \in Controllers :
            /\ ctl[c] = "leading" /\ c \in keys
            /\ \A o \in Controllers \ {c} : ctl[o] # "leading")

(* The loop comes to rest: with a demand that no longer changes the fleet reaches
   a size the policy leaves alone, whoever led meanwhile and whatever they saw.
   With replicas started by hand it rests where the target is what the policy
   asks for.  A process executor's fleet only stops changing: it may rest at the
   wrong size, since it counts what it started and not what runs. *)
ComesToRest ==
    /\ <>[](site.mode = "etcd" =>
              /\ ReadyReplicas > 0
              /\ Raw(ReadyReplicas) \in
                    {ReadyReplicas} \cup (IF fleet[Operator] = <<>> THEN {} ELSE {target}))
    /\ <>[][UNCHANGED fleet]_vars
=============================================================================
