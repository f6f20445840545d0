------------------------------ MODULE Supervisor ------------------------------
(***************************************************************************)
(* The processes of main(): the monitor, the worker it keeps alive, the    *)
(* raptor program each worker forks when the configuration says so, and    *)
(* the copy of the worker that goes on when the raptor's exec fails.  They *)
(* are one process group, for daemon() made the monitor its leader.        *)
(***************************************************************************)
EXTENDS Naturals, FiniteSets

CONSTANTS
  Pids,   (* the processes the system has room for beside the monitor       *)
  Others, (* how many of them other programs may have taken                 *)
  Enable  (* the values of EnableRaptorGPS to consider                      *)

VARIABLES
  monitor,   (* "starting" until it has its signal handlers, "waiting" in   *)
             (* wait(), "sleeping" before the fork, or "gone"               *)
  sigterm,   (* SIGTERM is pending for the monitor                          *)
  proc,      (* what each process is doing; "free" is no process            *)
  child,     (* the processes whose parent is the monitor                   *)
  pending,   (* the processes SIGTERM is pending for                        *)
  broker,    (* the broker accepts connections                              *)
  config,    (* dataAccess.cfg: "good", "missing" or of another "version"   *)
  raptor,    (* enableRaptorGps                                             *)
  exhausted  (* the monitor ended because fork() failed                     *)

settings == <<config, raptor>>
vars == <<monitor, sigterm, proc, child, pending, broker, settings, exhausted>>

(* fork() may find that the others have taken what the group left. *)
Free == {p \in Pids : proc[p] = "free"}
MayFail == Cardinality(Free) <= Others

Alive(p) == proc[p] \notin {"free", "zombie"}
Processes == {p \in Pids : Alive(p)}
Serving == {p \in Pids : proc[p] = "serving"}

TypeOK ==
  /\ monitor \in {"starting", "waiting", "sleeping", "gone"}
  /\ proc \in [Pids -> {"free", "zombie", "forked", "booting", "booted", "bound", "serving",
                        "exec", "raptor"}]
  /\ child \subseteq Pids /\ pending \subseteq Pids
  /\ sigterm \in BOOLEAN /\ broker \in BOOLEAN /\ exhausted \in BOOLEAN
  /\ config \in {"good", "missing", "version"} /\ raptor \in BOOLEAN

(* The first worker is forked before the monitor has its signal handlers.  *)
Init ==
  /\ monitor = "starting" /\ sigterm = FALSE /\ exhausted = FALSE
  /\ \E p \in Pids : proc = [q \in Pids |-> IF q = p THEN "forked" ELSE "free"] /\ child = {p}
  /\ pending = {}
  /\ broker \in BOOLEAN
  /\ config \in {"good", "missing", "version"} /\ raptor \in Enable

Step(p, from, to) == proc[p] = from /\ p \notin pending /\ proc' = [proc EXCEPT ![p] = to]

(* The end of a process.  Only the monitor waits, and only for its own     *)
(* children; init reaps the others.                                        *)
End(p) ==
  /\ proc' = [proc EXCEPT ![p] = IF p \in child /\ monitor # "gone" THEN "zombie" ELSE "free"]
  /\ pending' = pending \ {p}

(* Mutant: the signal is sent to the monitor's child only. *)
KillGroup_Child == pending' = pending \cup (Processes \cap child)

(* kill(0, SIGTERM), as far as the other processes go. *)
KillGroup == pending' = pending \cup Processes

-----------------------------------------------------------------------------
(* The monitor: it installs its handlers, then waits, sleeps a second and  *)
(* forks.                                                                  *)
SetMasterSignal ==
  /\ monitor = "starting" /\ ~sigterm
  /\ monitor' = "waiting"
  /\ UNCHANGED <<sigterm, proc, child, pending, broker, settings, exhausted>>

MonitorReaps ==
  /\ monitor = "waiting" /\ ~sigterm
  /\ \E p \in child : /\ proc[p] = "zombie"
                      /\ proc' = [proc EXCEPT ![p] = "free"]
                      /\ child' = child \ {p}
  /\ monitor' = "sleeping"
  /\ UNCHANGED <<sigterm, pending, broker, settings, exhausted>>

(* Mutant: the monitor goes back to wait() without a new worker. *)
MonitorForks_Not ==
  /\ monitor = "sleeping" /\ ~sigterm
  /\ monitor' = "waiting"
  /\ UNCHANGED <<sigterm, proc, child, pending, broker, settings, exhausted>>

(* Mutant: the monitor sleeps and forks again although a worker lives. *)
MonitorForks_Twice ==
  /\ monitor \in {"waiting", "sleeping"} /\ ~sigterm
  /\ \E p \in Pids : Step(p, "free", "forked") /\ child' = child \cup {p}
  /\ monitor' = "waiting"
  /\ UNCHANGED <<sigterm, pending, broker, settings, exhausted>>

MonitorForks ==
  /\ monitor = "sleeping" /\ ~sigterm
  /\ \E p \in Pids : Step(p, "free", "forked") /\ child' = child \cup {p}
  /\ monitor' = "waiting"
  /\ UNCHANGED <<sigterm, pending, broker, settings, exhausted>>

(* fork() fails when there is no process to be had, and the monitor exits. *)
MonitorExhausted ==
  /\ monitor = "sleeping" /\ ~sigterm
  /\ MayFail
  /\ monitor' = "gone" /\ exhausted' = TRUE
  /\ proc' = [p \in Pids |-> IF proc[p] = "zombie" THEN "free" ELSE proc[p]]
  /\ UNCHANGED <<sigterm, child, pending, broker, settings>>

(* An operator stops the service with a signal to the monitor. *)
Stop ==
  /\ monitor # "gone" /\ ~sigterm
  /\ sigterm' = TRUE
  /\ UNCHANGED <<monitor, proc, child, pending, broker, settings, exhausted>>

(* kill_signal_master: the group is told, the monitor exits.  Before the   *)
(* monitor has that handler SIGTERM ends it alone.                         *)
MonitorStops ==
  /\ monitor # "gone" /\ sigterm
  /\ monitor' = "gone" /\ sigterm' = FALSE
  /\ IF monitor = "starting" THEN UNCHANGED pending ELSE KillGroup
  /\ proc' = [p \in Pids |-> IF proc[p] = "zombie" THEN "free" ELSE proc[p]]
  /\ UNCHANGED <<child, broker, settings, exhausted>>

-----------------------------------------------------------------------------
(* The worker.  Until setchildsignal it has the signal handlers of the     *)
(* monitor that forked it.                                                 *)
SetChildSignal(p) ==
  /\ Step(p, "forked", "booting")
  /\ UNCHANGED <<monitor, sigterm, child, pending, broker, settings, exhausted>>

(* The configuration is missing or cannot be parsed: EXIT_FAILURE. *)
ConfigFails(p) ==
  /\ config = "missing"
  /\ proc[p] = "booting" /\ p \notin pending
  /\ End(p)
  /\ UNCHANGED <<monitor, sigterm, child, broker, settings, exhausted>>

(* The version is another: the worker stops the whole group. *)
VersionError(p) ==
  /\ config = "version"
  /\ proc[p] = "booting" /\ p \notin pending
  /\ KillGroup
  /\ sigterm' = (monitor # "gone")
  /\ UNCHANGED <<monitor, proc, child, broker, settings, exhausted>>

(* The worker forks the process that is to become the raptor program; a    *)
(* failed fork goes unnoticed.                                             *)
ForkRaptor(p) ==
  /\ config = "good" /\ raptor
  /\ proc[p] = "booting" /\ p \notin pending
  /\ \/ \E q \in Free : proc' = [proc EXCEPT ![p] = "booted", ![q] = "exec"]
     \/ MayFail /\ proc' = [proc EXCEPT ![p] = "booted"]
  /\ UNCHANGED <<monitor, sigterm, child, pending, broker, settings, exhausted>>

(* The four acceptors are bound; bindOrDie aborts when someone listens. *)
Construct(p) ==
  /\ \/ proc[p] = "booted"
     \/ proc[p] = "booting" /\ config = "good" /\ ~raptor
  /\ p \notin pending
  /\ IF Serving = {} THEN proc' = [proc EXCEPT ![p] = "bound"] /\ UNCHANGED pending ELSE End(p)
  /\ UNCHANGED <<monitor, sigterm, child, broker, settings, exhausted>>

(* exec succeeds, and the program has the default action for SIGTERM; or   *)
(* it fails, the error is logged, and the process goes on as a worker.     *)
Exec(p) ==
  /\ \/ Step(p, "exec", "raptor")
     \/ Step(p, "exec", "booted")
  /\ UNCHANGED <<monitor, sigterm, child, pending, broker, settings, exhausted>>

(* amqp_ and amqpGps_ are constructed after the servers; an AMQPException  *)
(* of either leaves main with EXIT_FAILURE.  Then the servers listen, and  *)
(* listenOrDie aborts when another process was faster.                     *)
Listen(p) ==
  /\ proc[p] = "bound" /\ p \notin pending
  /\ IF broker /\ Serving = {}
     THEN proc' = [proc EXCEPT ![p] = "serving"] /\ UNCHANGED pending
     ELSE End(p)
  /\ UNCHANGED <<monitor, sigterm, child, broker, settings, exhausted>>

(* Whatever ends a worker at work: a publication that throws, an exception *)
(* no callback catches, a failed assertion, or a signal.                   *)
WorkerDies(p) ==
  /\ proc[p] = "serving" /\ p \notin pending
  /\ End(p)
  /\ UNCHANGED <<monitor, sigterm, child, broker, settings, exhausted>>

(* SIGTERM takes effect.  A worker that still has the monitor's handlers   *)
(* tells the whole group again before it exits; the first one was forked   *)
(* before the monitor had any.                                             *)
SignalTaken(p) ==
  /\ p \in pending
  /\ proc' = [proc EXCEPT ![p] = IF p \in child /\ monitor # "gone" THEN "zombie" ELSE "free"]
  /\ \/ pending' = pending \ {p} /\ UNCHANGED sigterm
     \/ /\ proc[p] = "forked"
        /\ pending' = Processes \ {p}
        /\ sigterm' = (monitor # "gone")
  /\ UNCHANGED <<monitor, child, broker, settings, exhausted>>

BrokerChanges ==
  /\ broker' = ~broker
  /\ UNCHANGED <<monitor, sigterm, proc, child, pending, settings, exhausted>>

MonitorStep ==
  SetMasterSignal \/ MonitorReaps \/ MonitorForks \/ MonitorExhausted \/ MonitorStops

WorkerStep(p) ==
  \/ SetChildSignal(p) \/ ConfigFails(p) \/ VersionError(p) \/ ForkRaptor(p)
  \/ Construct(p) \/ Exec(p) \/ Listen(p) \/ SignalTaken(p)

Next ==
  \/ MonitorStep \/ Stop \/ BrokerChanges
  \/ \E p \in Pids : WorkerStep(p) \/ WorkerDies(p)

Spec == Init /\ [][Next]_vars

(* Processes are scheduled and signals are delivered. *)
FairSpec == Spec /\ WF_vars(MonitorStep) /\ \A p \in Pids : WF_vars(WorkerStep(p))

-----------------------------------------------------------------------------
(* However often the worker ends (publications that throw, exceptions no   *)
(* callback catches, a broker that refuses), the ports are served again    *)
(* once the broker can be reached; unless the service is stopped or raptor *)
(* programs, of which every restart leaves one, have used up the processes.*)
ServedAgain ==
  config = "good" /\ <>[]broker => []<>(Serving # {} \/ monitor = "gone")

(* Without raptor programs no process is ever left over: there is one      *)
(* worker at most, it is the monitor's child, and the monitor does not run *)
(* out of processes.  With them still only one serves the ports.           *)
OneWorker ==
  /\ monitor # "gone" => Cardinality(child) <= 1
  /\ ~raptor => Processes \subseteq child /\ ~exhausted
  /\ Cardinality(Serving) <= 1

(* A service that is stopped once its monitor has its signal handlers, or  *)
(* that then finds another version in its configuration, leaves no process *)
(* behind: not a worker being born, not a raptor program, not the copy     *)
(* whose exec failed.  A SIGTERM that reaches the monitor between the      *)
(* first fork and setmatsersignal ends the monitor alone: the first worker *)
(* stays and serves, with nobody to restart it.                            *)
StopEndsAll == (sigterm /\ monitor # "starting") ~> (monitor = "gone" /\ Processes = {})
===============================================================================
