---------------------------- MODULE CommandHandlers ----------------------------
(***************************************************************************)
(* What a recorder's commands do: callMdvrcmdHandler finds the handler,    *)
(* and the handler acknowledges to the recorder, publishes to the broker,  *)
(* or forwards to the video server, in an order of its own.  A field the   *)
(* handler cannot find throws between two of these effects; a publication  *)
(* that fails ends the worker between them.  Recorders repeat an event     *)
(* that is not answered, over a new connection when the old one is gone.   *)
(*                                                                         *)
(* A command is its kind and the number of its fields that a comma ends:   *)
(* split(msg, ',', n) throws exactly when there are fewer than n.          *)
(***************************************************************************)
EXTENDS Naturals, Sequences, FiniteSets

CONSTANTS
  Events,      (* the events a recorder has to report                      *)
  Commands,    (* the commands it may report them with                     *)
  MaxFaults    (* how often a link or a connection may go down             *)

VARIABLES
  command,    (* of each event: the command the recorder sends about it    *)
  input,      (* the events of the commands in the input buffer, in order  *)
  stalled,    (* a command threw: the rest waits for the next read         *)
  answered,   (* the events the recorder has an acknowledgement of         *)
  acked,      (* the events a handler acknowledged                         *)
  published,  (* the events Publish returned for                           *)
  link,       (* ex_ and exGps_: "up", "silent" or "broken"                *)
  worker,     (* the worker runs                                           *)
  deaths,     (* how often send2MQ or send3MQ ended it                     *)
  faults      (* how often a link or a connection went down                *)

vars == <<command, input, stalled, answered, acked, published, link, worker, deaths, faults>>

Links == {"ex_", "exGps_"}

(* Commands by what their handlers do.  "V1new" is a V1 of an identity     *)
(* nobody holds or of its holder, "V1replace" takes it from another;       *)
(* "V0video" answers C39, C110 or C114; "V77" is also a V20, and "V21" a   *)
(* V22 or V23; "V600other" is a V600 not of type 3 to 7.                   *)
Kinds == {"V1new", "V1replace", "V0", "V0video", "V21", "V30", "V39", "V77", "V600",
          "V600other", "alarm", "unknown"}

ASSUME CommandsAssumption == Commands \subseteq [kind : Kinds, fields : Nat]

TypeOK ==
  /\ command \in [Events -> Commands]
  /\ input \in Seq(Events) /\ stalled \in BOOLEAN
  /\ answered \subseteq Events /\ acked \subseteq Events /\ published \subseteq Events
  /\ link \in [Links -> {"up", "silent", "broken"}]
  /\ worker \in BOOLEAN /\ deaths \in Nat /\ faults \in 0 .. MaxFaults

-----------------------------------------------------------------------------
(* The effects of each handler in its order: acknowledgements, and         *)
(* publications over one of the links, each with the last field the        *)
(* handler takes from the command before it.                               *)
Handler(kind) ==
  CASE kind = "V1new" -> << <<"ex_", 2>>, <<"ack", 5>> >>
    [] kind = "V1replace" -> << <<"ack", 5>> >>
    [] kind = "V77" -> << <<"ack", 5>>, <<"ex_", 2>> >>
    [] kind = "V600" -> << <<"ack", 24>>, <<"ex_", 2>> >>
    [] kind = "alarm" -> << <<"ack", 37>>, <<"ex_", 2>> >>
    [] kind = "V0" -> << <<"ex_", 21>> >>
    [] kind = "V30" -> << <<"exGps_", 2>> >>
    [] kind = "V39" -> << <<"ex_", 2>> >>
    [] OTHER -> << >>

(* The kinds whose handler ends with an exception for want of a field; an  *)
(* unknown command throws in callMdvrcmdHandler, a V600 is checked first.  *)
Throws(c) ==
  \/ c.fields < 4
  \/ c.kind = "unknown"
  \/ c.kind = "V0video" /\ c.fields < 21
  \/ c.kind # "V600" /\ \E k \in DOMAIN Handler(c.kind) : Handler(c.kind)[k][2] > c.fields

(* The effects before the first field that is missing; the command's name  *)
(* is the fourth field.                                                    *)
Effects(c) ==
  LET script == Handler(c.kind)
      Reached(k) == \A j \in 1 .. k : script[j][2] <= c.fields
  IN IF c.fields < 4 THEN << >>
     ELSE [k \in 1 .. Cardinality({i \in DOMAIN script : Reached(i)}) |-> script[k][1]]

Has(c, effect) == \E k \in DOMAIN Effects(c) : Effects(c)[k] = effect
Publishes(c) == \E l \in Links : Has(c, l)
AcksFirst(c) == Effects(c) # << >> /\ Effects(c)[1] = "ack"

-----------------------------------------------------------------------------
Init ==
  /\ command \in [Events -> Commands]
  /\ input = << >> /\ stalled = FALSE
  /\ answered = {} /\ acked = {} /\ published = {}
  /\ link = [l \in Links |-> "up"]
  /\ worker = TRUE /\ deaths = 0 /\ faults = 0

(* The recorder reports an event, or repeats one that is not answered. *)
Send(e) ==
  /\ worker
  /\ e \notin answered
  /\ Len(input) < Cardinality(Events)
  /\ stalled \/ \A k \in DOMAIN input : input[k] # e
  /\ input' = Append(input, e)
  /\ stalled' = FALSE
  /\ UNCHANGED <<command, answered, acked, published, link, worker, deaths, faults>>

(* Every publication of the command finds its link. *)
CanPublish(c) == \A l \in Links : Has(c, l) => link[l] # "broken"

(* Mutant: a command that throws is left in the buffer. *)
Handle_PutBack ==
  /\ worker /\ ~stalled /\ input # << >>
  /\ LET e == Head(input)
         c == command[e]
         answers == IF Has(c, "ack") THEN {e} ELSE {}
     IN /\ CanPublish(c)
        /\ acked' = acked \cup answers
        /\ answered' = answered \cup answers
        /\ published' = IF Publishes(c) THEN published \cup {e} ELSE published
        /\ stalled' = Throws(c)
        /\ input' = IF Throws(c) THEN input ELSE Tail(input)
  /\ UNCHANGED <<command, link, worker, deaths, faults>>

(* One turn of the loop in onMdvrMessage. *)
Handle ==
  /\ worker /\ ~stalled /\ input # << >>
  /\ LET e == Head(input)
         c == command[e]
         answers == IF Has(c, "ack") THEN {e} ELSE {}
     IN /\ CanPublish(c)
        /\ acked' = acked \cup answers
        /\ answered' = answered \cup answers
        /\ published' = IF Publishes(c) THEN published \cup {e} ELSE published
        /\ stalled' = Throws(c)
  /\ input' = Tail(input)
  /\ UNCHANGED <<command, link, worker, deaths, faults>>

(* Mutant: the failed publication is logged and forgotten. *)
SendFails_Swallow ==
  /\ worker /\ ~stalled /\ input # << >>
  /\ LET c == command[Head(input)]
     IN /\ ~CanPublish(c)
        /\ acked' = IF Has(c, "ack") THEN acked \cup {Head(input)} ELSE acked
        /\ answered' = IF Has(c, "ack") THEN answered \cup {Head(input)} ELSE answered
  /\ input' = Tail(input)
  /\ UNCHANGED <<command, stalled, published, link, worker, deaths, faults>>

(* send2MQ and send3MQ turn the exception of Publish into exit(0).  An     *)
(* acknowledgement that came first has been written, or waits in the       *)
(* output buffer and is lost.                                              *)
SendFails ==
  /\ worker /\ ~stalled /\ input # << >>
  /\ LET e == Head(input)
         c == command[e]
     IN /\ ~CanPublish(c)
        /\ IF AcksFirst(c)
           THEN acked' = acked \cup {e} /\ answered' \in {answered, answered \cup {e}}
           ELSE UNCHANGED <<acked, answered>>
  /\ worker' = FALSE
  /\ input' = << >> /\ stalled' = FALSE
  /\ deaths' = deaths + 1
  /\ UNCHANGED <<command, published, link, faults>>

(* The monitor forks another worker, which connects both links anew. *)
Restart ==
  /\ ~worker
  /\ worker' = TRUE
  /\ link' = [l \in Links |-> "up"]
  /\ UNCHANGED <<command, input, stalled, answered, acked, published, deaths, faults>>

(* The broker drops a link; the kernel learns of it at once or later. *)
LinkDecays(l) ==
  /\ faults < MaxFaults
  /\ \/ link[l] = "up" /\ link' = [link EXCEPT ![l] = "silent"]
     \/ link[l] # "broken" /\ link' = [link EXCEPT ![l] = "broken"]
  /\ faults' = faults + 1
  /\ UNCHANGED <<command, input, stalled, answered, acked, published, worker, deaths>>

(* The recorder's connection ends with what was not read, and comes again. *)
ConnectionLost ==
  /\ faults < MaxFaults /\ input # << >>
  /\ input' = << >> /\ stalled' = FALSE
  /\ faults' = faults + 1
  /\ UNCHANGED <<command, answered, acked, published, link, worker, deaths>>

Next ==
  \/ Handle \/ SendFails \/ Restart \/ ConnectionLost
  \/ \E e \in Events : Send(e)
  \/ \E l \in Links : LinkDecays(l)

Spec == Init /\ [][Next]_vars

(* The loop turns, the monitor forks, and the recorder repeats. *)
FairSpec ==
  /\ Spec
  /\ WF_vars(Handle \/ SendFails) /\ WF_vars(Restart)
  /\ \A e \in Events : WF_vars(Send(e))

-----------------------------------------------------------------------------
(* Acknowledging and publishing come apart only where the process ends     *)
(* between them, one event for each death, and in a V1 that lacks its      *)
(* fifth field, which is published and not answered.                       *)
EffectsTogether ==
  LET Promises(e, effects) == \E k \in DOMAIN Handler(command[e].kind) :
                                 Handler(command[e].kind)[k][1] \in effects
  IN /\ Cardinality({e \in acked \ published : Promises(e, Links)}) <= deaths
     /\ \A e \in published \ acked :
          Promises(e, {"ack"}) => command[e].kind = "V1new" /\ command[e].fields < 5

(* A recorder that goes on repeating a well-formed event is answered,      *)
(* whatever the other commands before it in the buffer are, and however    *)
(* the worker ends in between.                                             *)
RecorderAnswered == \A e \in Events : [](Has(command[e], "ack") => <>(e \in answered))
===============================================================================
