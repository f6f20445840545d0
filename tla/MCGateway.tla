------------------------------ MODULE MCGateway ------------------------------
(* Instances of CommandHandlers, MqReceiver and Supervisor for TLC.  The   *)
(* three share no state, so one run checks them side by side: in every     *)
(* behaviour one part takes all the steps, and the others stay as they     *)
(* were started.                                                           *)
EXTENDS CommandHandlers

CONSTANTS MaxMessages, Pids, Others, Enable

(* The system has room for one process more than others may take.          *)
ASSUME GatewayAssumption ==
  /\ MaxMessages \in Nat /\ MaxFaults \in Nat
  /\ IsFiniteSet(Pids) /\ Others \in Nat /\ Others < Cardinality(Pids)

VARIABLES
  part,
  kind, next, first, wire, mqLink, pc, cur, got, handed, run, mqWorker, mqFaults,
  monitor, sigterm, proc, child, pending, broker, config, raptor, exhausted

Receiver ==
  INSTANCE MqReceiver WITH link <- mqLink, worker <- mqWorker, faults <- mqFaults

Processes == INSTANCE Supervisor

thread == <<kind, next, first, wire, mqLink, pc, cur, got, handed, run, mqWorker, mqFaults>>
main == <<monitor, sigterm, proc, child, pending, broker, config, raptor, exhausted>>
all == <<part, vars, thread, main>>

(* Commands that have all their fields, and some that lack the last one a  *)
(* handler asks for.                                                       *)
MCCommands ==
  [kind : {"V1new", "V77"}, fields : {4, 5}] \cup [kind : {"alarm"}, fields : {36, 37}]
    \cup [kind : {"V39"}, fields : {3, 4}]
    \cup [kind : {"V30", "V600", "V0", "V1replace", "unknown"}, fields : {24}]

MCInit ==
  /\ part \in {"handlers", "receiver", "processes"}
  /\ part = "handlers" \/ command = [e \in Events |-> [kind |-> "V30", fields |-> 24]]
  /\ part = "receiver" \/ kind = [i \in 1 .. MaxMessages |-> "command"]
  /\ part = "processes" \/ (config = "good" /\ broker = TRUE /\ raptor = FALSE)
  /\ Init /\ Receiver!Init /\ Processes!Init
  /\ part = "processes" \/ child = {CHOOSE p \in Pids : TRUE}

Handlers(A) == part = "handlers" /\ A /\ UNCHANGED <<part, thread, main>>
Thread(A) == part = "receiver" /\ A /\ UNCHANGED <<part, vars, main>>
Main(A) == part = "processes" /\ A /\ UNCHANGED <<part, vars, thread>>

MCNext ==
  \/ Handlers(Handle) \/ Handlers(SendFails) \/ Handlers(Restart) \/ Handlers(ConnectionLost)
  \/ \E e \in Events : Handlers(Send(e))
  \/ \E l \in Links : Handlers(LinkDecays(l))
  \/ Thread(Receiver!Deliver) \/ Thread(Receiver!OtherMethod) \/ Thread(Receiver!LinkEnds)
  \/ Thread(Receiver!WaitMethod) \/ Thread(Receiver!WaitHeader) \/ Thread(Receiver!WaitBody)
  \/ Thread(Receiver!MessageReceived) \/ Thread(Receiver!ThreadEnds)
  \/ Thread(Receiver!RunCommand) \/ Thread(Receiver!Restart)
  \/ Main(Processes!SetMasterSignal)
  \/ Main(Processes!MonitorReaps) \/ Main(Processes!MonitorForks)
  \/ Main(Processes!MonitorExhausted) \/ Main(Processes!MonitorStops)
  \/ Main(Processes!Stop) \/ Main(Processes!BrokerChanges)
  \/ \E p \in Pids :
       \/ Main(Processes!SetChildSignal(p)) \/ Main(Processes!ConfigFails(p))
       \/ Main(Processes!VersionError(p)) \/ Main(Processes!ForkRaptor(p))
       \/ Main(Processes!Construct(p)) \/ Main(Processes!Exec(p))
       \/ Main(Processes!Listen(p)) \/ Main(Processes!SignalTaken(p))
       \/ Main(Processes!WorkerDies(p))

MCSpec ==
  /\ MCInit /\ [][MCNext]_all
  /\ WF_all(Handlers(Handle \/ SendFails)) /\ WF_all(Handlers(Restart))
  /\ \A e \in Events : WF_all(Handlers(Send(e)))
  /\ WF_all(Thread(Receiver!ThreadStep)) /\ WF_all(Thread(Receiver!RunCommand))
  /\ WF_all(Thread(Receiver!Deliver)) /\ WF_all(Thread(Receiver!Restart))
  /\ WF_all(Main(Processes!MonitorStep))
  /\ \A p \in Pids : WF_all(Main(Processes!WorkerStep(p)))

-----------------------------------------------------------------------------
(* Every well-formed message that came whole was handed to the loop, once  *)
(* and in order (MqReceiver).                                              *)
CommandsIntact == Receiver!CommandsIntact

(* A command the broker sent over a link that stays is run (MqReceiver).   *)
CommandsRun == part = "receiver" => Receiver!CommandsRun

(* One worker, one set of ports, nobody left over (Supervisor).            *)
OneWorker == Processes!OneWorker

(* The ports are served again after the worker ends (Supervisor).          *)
ServedAgain == part = "processes" => Processes!ServedAgain

(* A service stopped once its monitor has its handlers leaves no process   *)
(* behind (Supervisor).                                                    *)
StopEndsAll == Processes!StopEndsAll
===============================================================================
