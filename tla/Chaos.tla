------------------------------- MODULE Chaos -------------------------------
(* The chaos suite: scripts/chaos.py runs scenarios of                       *)
(* bench/chaos/scenarios.py one after another, each with the cluster, the     *)
(* load driver and the fault proxy of bench/chaos/harness.py. The main thread *)
(* executes a scenario step by step; the driver's threads and the proxy's     *)
(* accept loop run beside it, and its verdict is read from the list the       *)
(* threads append to.                                                         *)
(*                                                                            *)
(* Time is not a step: the threads may run between any two steps. A response  *)
(* is "ok" or not; what the router, etcd and the clocks report is a choice    *)
(* where the code compares it.                                                *)
EXTENDS Naturals, Sequences, FiniteSets

CONSTANTS
    Workers,       \* the threads of a load driver
    MaxOutcomes,   \* bound: requests per driver
    MaxScenarios   \* bound: scenarios per invocation

ASSUME ChaosAssumption ==
    /\ IsFiniteSet(Workers) /\ Workers # {}
    /\ MaxOutcomes \in Nat /\ MaxScenarios \in Nat

VARIABLES
    scenario,  \* the one that runs, "none" between two, "over" at the end
    step,      \* its next step, in its body or in its finally clause
    verdict,   \* "open" in the body; then "pass", "fail", "raised" or "exit"
    driver,    \* the LoadDriver: its stop event, outcomes and the marks taken
    worker,    \* its threads: about to test the event, in a request, or gone
    procs,     \* child processes that run
    proxy,     \* the FaultProxy and one connection through it
    up,        \* the services whose container runs
    met,       \* what the scenario measured besides failures is as it should be
    stopped,   \* the scenario's local flag of that name
    suite,     \* scenarios run, whether all passed, the exit code
    seen       \* history: the fault is in place, a client reported a drop, what docker
               \* refused to start, what it stopped when Ctrl-C cut the scenario short

chaosVars == <<scenario, step, verdict, driver, worker, procs, proxy, up, stopped, met, suite, seen>>

Services == {"redis", "etcd"}

(****************************** The scenarios ******************************)
SigkillReplica ==
    <<"start", "drive", "mark", "kill", "mark", "evicted", "stop", "join", "mark", "judge">>

SigtermReplica ==
    <<"start", "drive", "mark", "term", "evicted", "stop", "join", "mark", "judge">>

NetworkPartition ==
    <<"start", "proxy", "spawn", "ready", "drive", "mark", "blackhole",
      "evicted", "stop", "join", "mark", "judge">>

RedisDown ==
    <<"start", "drive", "mark", "docker_stop", "set", "probe", "stop", "join", "mark", "judge">>

(* Mutant of EtcdDown: the flag is cleared before the command.                *)
EtcdDownForgets ==
    <<"start", "drive", "mark", "docker_stop", "set", "mark", "clear", "docker_start",
      "stop", "join", "mark", "judge">>

EtcdDown ==
    <<"start", "drive", "mark", "docker_stop", "set", "mark", "docker_start", "clear",
      "stop", "join", "mark", "judge">>

TrafficSpike ==
    <<"binary", "start", "spawn", "drive", "baseline", "stop", "join", "drive", "sample",
      "stop", "join", "judge">>

SlowReplica ==
    <<"start", "proxy", "spawn", "ready", "drive", "mark", "delay",
      "share", "stop", "join", "mark", "judge">>

ALL == [sigkill_replica   |-> SigkillReplica,   sigterm_replica |-> SigtermReplica,
        network_partition |-> NetworkPartition, redis_down      |-> RedisDown,
        etcd_down         |-> EtcdDown,         traffic_spike   |-> TrafficSpike,
        slow_replica      |-> SlowReplica]

(* One order for every finally clause: a step a scenario has no use for finds *)
(* nothing to do.                                                             *)
Finally == <<"stop", "join", "proxy stop", "reap", "cluster stop", "restore", "end">>

Running == scenario \in DOMAIN ALL

At(s) == Running /\ verdict = "open" /\ ALL[scenario][step] = s

Ending(s) == Running /\ verdict # "open" /\ Finally[step] = s

Continue == step' = step + 1 /\ UNCHANGED verdict

Leave(v) == step' = 1 /\ verdict' = v

(* The service a scenario stops, and the replicas its cluster has.            *)
Service == IF scenario = "redis_down" THEN "redis" ELSE "etcd"
Replicas ==
    {"replica-0", "replica-1"}
    \cup (IF scenario \in {"sigkill_replica", "sigterm_replica"} THEN {"replica-2"} ELSE {})

(* What a step leaves alone.                                                  *)
SuiteSame  == UNCHANGED <<scenario, suite>>
DriverSame == UNCHANGED <<driver, worker>>
WorldSame  == UNCHANGED <<procs, proxy, up, stopped, met>>

Idle == [stop |-> FALSE, joined |-> FALSE, log |-> <<>>, marks |-> <<>>]
Unused == [mode |-> "pass", on |-> FALSE, link |-> "none"]

ChaosInit ==
    /\ scenario = "none" /\ step = 1 /\ verdict = "open"
    /\ driver = Idle /\ worker = [w \in Workers |-> "gone"]
    /\ procs = {} /\ proxy = Unused /\ up = Services /\ stopped = FALSE /\ met = TRUE
    /\ suite = [ran |-> 0, green |-> TRUE, code |-> "none"]
    /\ seen = [fault |-> FALSE, drop |-> FALSE, refused |-> {}, cut |-> {}]

(********************** The threads of the load driver *********************)
(* The test of the stop event, and the request if it is not set.              *)
Send(w) ==
    /\ worker[w] = "loop"
    /\ \/ driver.stop /\ worker' = [worker EXCEPT ![w] = "gone"]
       \/ /\ ~driver.stop
          /\ Len(driver.log) + Cardinality({v \in Workers : worker[v] = "busy"}) < MaxOutcomes
          /\ worker' = [worker EXCEPT ![w] = "busy"]
    /\ UNCHANGED <<step, verdict, driver, seen>> /\ SuiteSame /\ WorldSame

(* A request ends, with a done event or a failure one_request catches, and    *)
(* its outcome is appended. Without a router it can only fail; it may hang.   *)
Answer(w, ok) ==
    /\ worker[w] = "busy"
    /\ ok => "router" \in procs
    /\ worker' = [worker EXCEPT ![w] = "loop"]
    /\ driver' = [driver EXCEPT !.log = Append(@, ok)]
    /\ seen' = [seen EXCEPT !.drop = @ \/ (seen.fault /\ ~ok /\ ~driver.joined)]
    /\ UNCHANGED <<step, verdict>> /\ SuiteSame /\ WorldSame

(* An exception one_request does not catch (of http.client, on a body cut      *)
(* inside a chunk) ends the thread: the failure is on no list.                *)
Uncaught(w) ==
    /\ worker[w] = "busy"
    /\ worker' = [worker EXCEPT ![w] = "gone"]
    /\ UNCHANGED <<step, verdict, driver, seen>> /\ SuiteSame /\ WorldSame

(****************************** The fault proxy ****************************)
(* The accept loop takes a connection; what becomes of it is decided after,   *)
(* when the mode may have changed and stop() may have closed the others.      *)
Accept ==
    /\ proxy.on /\ proxy.link = "none"
    /\ proxy' = [proxy EXCEPT !.link = "accepted"]
    /\ UNCHANGED <<step, verdict, procs, up, stopped, seen, met>> /\ SuiteSame /\ DriverSame

Connect ==
    /\ proxy.link = "accepted"
    /\ proxy' = [proxy EXCEPT !.link =
                    IF proxy.mode = "blackhole" THEN "held"
                    ELSE IF "extra" \in procs /\ proxy.on THEN "piped" ELSE "closed"]
    /\ UNCHANGED <<step, verdict, procs, up, stopped, seen, met>> /\ SuiteSame /\ DriverSame

(* A pump that finds the mode blackhole returns, and closes both ends.        *)
Pump ==
    /\ proxy.link = "piped"
    /\ proxy.mode = "blackhole" \/ "extra" \notin procs
    /\ proxy' = [proxy EXCEPT !.link = "closed"]
    /\ UNCHANGED <<step, verdict, procs, up, stopped, seen, met>> /\ SuiteSame /\ DriverSame

(************************* The steps of a scenario *************************)
(* Cluster.start: every process comes up and the fleet becomes ready; or a    *)
(* process cannot be spawned, or there is no router binary, or Ctrl-C comes   *)
(* between two of them; or Ctrl-C comes while start() waits; or the fleet is  *)
(* never ready: start() stops it and raises SystemExit.                       *)
StartCluster ==
    /\ At("start")
    /\ \/ "etcd" \in up /\ procs' = {"router"} \cup Replicas /\ Continue
       \/ \E some \in SUBSET Replicas : procs' = some /\ (Leave("raised") \/ Leave("exit"))
       \/ procs' = {"router"} \cup Replicas /\ Leave("exit")
       \/ procs' = {} /\ Leave("exit")
    /\ UNCHANGED <<proxy, up, stopped, seen, met>> /\ SuiteSame /\ DriverSame

(* A driver with threads of its own. One that was in use before is discarded, *)
(* with the threads that still wait for an answer. In traffic_spike the       *)
(* second driver is the fault.                                                *)
StartDriver ==
    /\ At("drive")
    /\ driver' = Idle
    /\ worker' = [w \in Workers |-> "loop"]
    /\ seen' = [seen EXCEPT !.fault = driver.joined, !.drop = FALSE]
    /\ Continue /\ SuiteSame /\ WorldSame

Mark ==
    /\ At("mark")
    /\ driver' = [driver EXCEPT !.marks = Append(@, Len(driver.log))]
    /\ Continue /\ UNCHANGED <<worker, seen>> /\ SuiteSame /\ WorldSame

(* A signal to replica 2, if it still runs: it dies, or drains for a while.   *)
Signal ==
    /\ \/ At("kill") /\ procs' = procs \ {"replica-2"}
       \/ At("term") /\ procs' \in {procs, procs \ {"replica-2"}}
    /\ seen' = [seen EXCEPT !.fault = TRUE]
    /\ Continue /\ UNCHANGED <<proxy, up, stopped, met>> /\ SuiteSame /\ DriverSame

ProxyStart ==
    /\ At("proxy")
    /\ \/ proxy' = [proxy EXCEPT !.on = TRUE] /\ Continue
       \/ UNCHANGED proxy /\ Leave("raised")
    /\ UNCHANGED <<procs, up, stopped, seen, met>> /\ SuiteSame /\ DriverSame

(* The third replica of a proxy's scenario, the autoscaler of traffic_spike.  *)
Spawn ==
    /\ At("spawn")
    /\ \/ procs' = procs \cup {"extra"} /\ Continue
       \/ UNCHANGED procs /\ Leave("raised")
    /\ UNCHANGED <<proxy, up, stopped, seen, met>> /\ SuiteSame /\ DriverSame

SetMode ==
    /\ \/ At("blackhole") /\ proxy' = [proxy EXCEPT !.mode = "blackhole"]
       \/ At("delay") /\ proxy' = [proxy EXCEPT !.mode = "delay"]
    /\ seen' = [seen EXCEPT !.fault = TRUE]
    /\ Continue /\ UNCHANGED <<procs, up, stopped, met>> /\ SuiteSame /\ DriverSame

(* Checks that may end a scenario early, as failed: no autoscaler binary, a   *)
(* third replica that is never ready, a port that another process answers     *)
(* when its container is gone.                                                *)
Check(s) ==
    /\ At(s) /\ (Continue \/ Leave("fail"))
    /\ UNCHANGED seen /\ SuiteSame /\ DriverSame /\ WorldSame

CheckBinary == Check("binary")
WaitReady == Check("ready")
Probe == Check("probe")

(* What a scenario measures while the load runs.                              *)
Measure(s, good) ==
    /\ At(s) /\ met' = good
    /\ Continue /\ UNCHANGED <<procs, proxy, up, stopped, seen>> /\ SuiteSame /\ DriverSame

(* A router that does not answer counts as one without ready replicas.        *)
ReadyCount(answers, evicted) == IF answers THEN (IF evicted THEN 2 ELSE 3) ELSE 0

AwaitEviction ==
    \E answers, evicted \in BOOLEAN : Measure("evicted", ReadyCount(answers, evicted) <= 2)

(* The target rose above the baseline and did not oscillate, or not.          *)
SampleTarget == \E good \in BOOLEAN : Measure("sample", good)

(* A target that cannot be decoded, at the baseline or among the samples.     *)
Undecodable ==
    /\ At("baseline") \/ At("sample")
    /\ Leave("raised")
    /\ UNCHANGED seen /\ SuiteSame /\ DriverSame /\ WorldSame

ReadBaseline ==
    /\ At("baseline") /\ Continue
    /\ UNCHANGED seen /\ SuiteSame /\ DriverSame /\ WorldSame

LoadShare == \E small \in BOOLEAN : Measure("share", small)

(* docker() raises when the command fails. The flag is a statement of its     *)
(* own: set after a stop, cleared after a start.                              *)
DockerStop ==
    /\ At("docker_stop")
    /\ \/ /\ up' = up \ {Service}
          /\ seen' = [seen EXCEPT !.fault = TRUE] /\ Continue
       \/ UNCHANGED <<up, seen>> /\ Leave("raised")
    /\ UNCHANGED <<procs, proxy, stopped, met>> /\ SuiteSame /\ DriverSame

DockerStart ==
    /\ At("docker_start")
    /\ \/ up' = up \cup {Service} /\ Continue
       \/ UNCHANGED up /\ Leave("raised")
    /\ UNCHANGED <<procs, proxy, stopped, seen, met>> /\ SuiteSame /\ DriverSame

Flag ==
    /\ \/ At("set") /\ stopped' = TRUE
       \/ At("clear") /\ stopped' = FALSE
    /\ Continue /\ UNCHANGED <<procs, proxy, up, seen, met>> /\ SuiteSame /\ DriverSame

(* LoadDriver.stop, in the body and again in the finally clause: the event,   *)
(* then a join of every thread with its share of the timeout. A thread that   *)
(* waits for an answer may outlast it; the others do not.                     *)
StopDriver ==
    /\ At("stop") \/ Ending("stop")
    /\ driver' = [driver EXCEPT !.stop = TRUE]
    /\ Continue /\ UNCHANGED <<worker, seen>> /\ SuiteSame /\ WorldSame

Join ==
    /\ At("join") \/ Ending("join")
    /\ \A w \in Workers : worker[w] # "loop"
    /\ driver' = [driver EXCEPT !.joined = TRUE]
    /\ Continue /\ UNCHANGED <<worker, seen>> /\ SuiteSame /\ WorldSame

(* Mutant of Phases: only what came after the last mark but one.              *)
PhasesLast ==
    LET m == driver.marks IN
    IF m = <<>> THEN {driver.log} ELSE {SubSeq(driver.log, m[Len(m) - 1] + 1, m[Len(m)])}

(* The outcomes the verdict is about: between consecutive marks, or all of    *)
(* the driver's where a scenario takes no mark.                               *)
Phases ==
    LET m == driver.marks IN
    IF m = <<>> THEN {driver.log}
    ELSE {SubSeq(driver.log, m[i] + 1, m[i + 1]) : i \in 1..(Len(m) - 1)}

Has(phase, ok) == \E i \in DOMAIN phase : phase[i] = ok

(* No failure in any phase; where a service was stopped, a success in each;   *)
(* for a signal, a first-token time that is no worse; and what was measured.  *)
Judge ==
    /\ At("judge")
    /\ \E quick \in BOOLEAN :
          Leave(IF /\ met
                   /\ scenario \in {"sigkill_replica", "sigterm_replica"} => quick
                   /\ \A p \in Phases : ~Has(p, FALSE)
                   /\ scenario \in {"redis_down", "etcd_down"} => \A p \in Phases : Has(p, TRUE)
                THEN "pass" ELSE "fail")
    /\ UNCHANGED seen /\ SuiteSame /\ DriverSame /\ WorldSame

(* Ctrl-C in the body of a scenario. During docker stop, the container may    *)
(* stop all the same; until the flag is set, the finally clause will not      *)
(* start it again.                                                            *)
Interrupt ==
    /\ Running /\ verdict = "open" /\ Leave("exit")
    /\ up' = up \/ (At("docker_stop") /\ up' = up \ {Service})
    /\ seen' = IF (At("docker_stop") \/ At("set")) /\ Service \notin up'
               THEN [seen EXCEPT !.cut = @ \cup {Service}] ELSE seen
    /\ UNCHANGED <<procs, proxy, stopped, met>> /\ SuiteSame /\ DriverSame

(*************************** The finally clause ****************************)
(* FaultProxy.stop closes the connections on its list and the socket.         *)
ProxyStop ==
    /\ Ending("proxy stop")
    /\ proxy' = [proxy EXCEPT !.on = FALSE,
                              !.link = IF @ \in {"held", "piped"} THEN "closed" ELSE @]
    /\ Continue /\ UNCHANGED <<procs, up, stopped, seen, met>> /\ SuiteSame /\ DriverSame

(* Terminated, waited for, killed if the wait times out.                      *)
Reap ==
    /\ Ending("reap")
    /\ procs' = procs \ {"extra"}
    /\ Continue /\ UNCHANGED <<proxy, up, stopped, seen, met>> /\ SuiteSame /\ DriverSame

StopCluster ==
    /\ Ending("cluster stop")
    /\ procs' = procs \cap {"extra"}
    /\ Continue /\ UNCHANGED <<proxy, up, stopped, seen, met>> /\ SuiteSame /\ DriverSame

(* A refusal is not noticed here: check=False.                                *)
Restore ==
    /\ Ending("restore")
    /\ IF stopped
       THEN \/ up' = up \cup {Service} /\ UNCHANGED seen
            \/ UNCHANGED up /\ seen' = [seen EXCEPT !.refused = @ \cup {Service}]
       ELSE UNCHANGED <<up, seen>>
    /\ Continue /\ UNCHANGED <<procs, proxy, stopped, met>> /\ SuiteSame /\ DriverSame

(******************************** The suite ********************************)
(* main() takes the next name. A service docker would not start is still down. *)
Begin(name) ==
    /\ scenario = "none" /\ suite.ran < MaxScenarios
    /\ scenario' = name /\ step' = 1 /\ verdict' = "open"
    /\ driver' = Idle /\ worker' = [w \in Workers |-> "gone"]
    /\ proxy' = Unused /\ stopped' = FALSE /\ met' = TRUE
    /\ seen' = [seen EXCEPT !.fault = FALSE, !.drop = FALSE]
    /\ UNCHANGED <<procs, up, suite>>

(* An Exception counts as a failed result; SystemExit and Ctrl-C pass through *)
(* main() and end the suite, with no result written.                          *)
End ==
    /\ Ending("end")
    /\ scenario' = IF verdict = "exit" THEN "over" ELSE "none"
    /\ suite' = [ran |-> suite.ran + 1, green |-> suite.green /\ verdict = "pass",
                 code |-> IF verdict = "exit" THEN "error" ELSE "none"]
    /\ UNCHANGED <<step, verdict, seen>> /\ DriverSame /\ WorldSame

Report ==
    /\ scenario = "none" /\ suite.ran > 0
    /\ scenario' = "over"
    /\ suite' = [suite EXCEPT !.code = IF suite.green THEN "zero" ELSE "error"]
    /\ UNCHANGED <<step, verdict, seen>> /\ DriverSame /\ WorldSame

ChaosNext ==
    \/ \E name \in DOMAIN ALL : Begin(name)
    \/ StartCluster \/ StartDriver \/ Mark \/ Signal \/ ProxyStart \/ Spawn
    \/ AwaitEviction \/ ReadBaseline \/ SampleTarget \/ Undecodable \/ LoadShare
    \/ SetMode \/ CheckBinary \/ WaitReady \/ Probe \/ DockerStop \/ DockerStart \/ Flag
    \/ StopDriver \/ Join
    \/ Judge \/ ProxyStop \/ Reap \/ StopCluster \/ Restore \/ End \/ Report
    \/ \E w \in Workers : Send(w)
    \/ \E w \in Workers, ok \in BOOLEAN : Answer(w, ok)
    \/ \E w \in Workers : Uncaught(w)
    \/ Accept \/ Connect \/ Pump \/ Interrupt

ChaosSpec == ChaosInit /\ [][ChaosNext]_chaosVars

(******************************* Properties ********************************)
(* A scenario passes only if its fault was in place and no client reported a  *)
(* failure between the fault and the moment the driver was joined, whatever   *)
(* the order in which threads append outcomes and the main thread takes its   *)
(* marks. (A thread that outlasts the join reports too late to be counted,    *)
(* and one that dies of an exception one_request does not catch, not at all.) *)
GreenIsClean == verdict = "pass" => seen.fault /\ ~seen.drop

(* Whichever way the body of a scenario ends - verdict, exception, SystemExit *)
(* or Ctrl-C at any of its steps - its finally clause leaves nothing for the  *)
(* next one: no process, no open proxy, no relayed connection, no client that *)
(* would send again, and no stopped service but one docker refused to start.  *)
(* When Ctrl-C has ended the suite, a service may be left stopped in one more *)
(* case: docker had stopped it and the scenario had not yet set its flag.     *)
NothingLeftBehind ==
    ~Running => /\ procs = {} /\ ~proxy.on /\ proxy.link # "piped"
                /\ \A w \in Workers : worker[w] = "loop" => driver.stop
                /\ Services \ up \subseteq
                       seen.refused \cup (IF scenario = "over" THEN seen.cut ELSE {})
=============================================================================
