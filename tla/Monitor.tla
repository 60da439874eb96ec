------------------------------ MODULE Monitor ------------------------------
(***************************************************************************)
(* The path of an event from the scheduler to the picture: the task that   *)
(* connects, receives and retries (src/src/monitor.rs), the forwarder that *)
(* moves its events from one channel to the other and the UI loop's arm    *)
(* that applies them (src/src/main.rs:56-90, 112-118).                     *)
(***************************************************************************)
EXTENDS IcecreamScheduler, SequencesExt

CONSTANT
    MaxInFlight  \* bound: messages and events on their way to the picture

ASSUME MonitorAssumption == MaxInFlight \in Nat

VARIABLES
    pc,      \* where run_monitor is
    monq,    \* the channel monitor_tx -> monitor_rx
    eventq,  \* the monitor events in the channel event_tx -> event_rx
    state    \* App.state

monitorVars == <<pc, monq, eventq, state>>
vars == <<srvHosts, srvJobs, toldHosts, toldJobs, link, wire, reachable,
          pc, monq, eventq, state>>

InFlight == Len(wire) + Len(monq) + Len(eventq)

PC == {"discover", "connect", "receive", "sleep"}

(* Wire, channels and picture hold only what the program puts there.       *)
TypeOK ==
    /\ SchedulerTypeOK
    /\ pc \in PC
    /\ monq \in Seq(MonitorEvent)
    /\ eventq \in Seq(MonitorEvent)
    /\ state \in State

Init ==
    /\ SchedulerInit
    /\ pc = "discover"
    /\ monq = <<>>
    /\ eventq = <<>>
    /\ state = NewState

-----------------------------------------------------------------------------
(* connect_and_monitor.                                                    *)

Send(e) == monq' = Append(monq, e)

(* discover_scheduler returns: an address was configured, or a scheduler   *)
(* answered the broadcast.                                                 *)
Discover ==
    /\ pc = "discover" /\ reachable
    /\ pc' = "connect"
    /\ UNCHANGED <<schedulerVars, monq, eventq, state>>

(* The handshake succeeds and the login is sent: the scheduler knows of    *)
(* the monitor from here on.                                               *)
Connect ==
    /\ pc = "connect" /\ link = "none" /\ reachable
    /\ link' = "up"
    /\ wire' = <<>>
    /\ toldHosts' = {} /\ toldJobs' = {}
    /\ \E s \in Scheduler : Send([kind |-> "Connected", scheduler |-> s])
    /\ pc' = "receive"
    /\ UNCHANGED <<truth, reachable, eventq, state>>

(* The peer accepts the connection and never answers the handshake.        *)
HandshakeStalls ==
    /\ HalfOpen
    /\ pc = "connect" /\ link = "none"
    /\ link' = "silent"
    /\ UNCHANGED <<truth, told, wire, reachable, monitorVars>>

(* Mutant: the first failure ends the task, as a `?` would.                *)
AttemptFails_Returns ==
    /\ pc \in {"discover", "connect"} /\ link = "none" /\ ~reachable
    /\ Send(DisconnectedEvent)
    /\ pc' = "returned"
    /\ UNCHANGED <<schedulerVars, eventq, state>>

(* Discovery times out, the connection is refused, or the handshake fails: *)
(* back in run_monitor, which sends Disconnected and sleeps.               *)
AttemptFails ==
    /\ pc \in {"discover", "connect"} /\ link = "none" /\ ~reachable
    /\ Send(DisconnectedEvent)
    /\ pc' = "sleep"
    /\ UNCHANGED <<schedulerVars, eventq, state>>

(* Mutant: the end of a local job has no arm.                              *)
EventsOf_NoLocalDone(m) ==
    CASE m.kind = "MonStats" ->
            <<[kind |-> "HostStats", host |-> m.host_id, name |-> m.name]>>
      [] m.kind = "MonGetCs" ->
            <<[kind |-> "JobPending", job |-> m.job_id, client |-> m.client_id]>>
      [] m.kind = "MonJobBegin" ->
            <<[kind |-> "JobBegin", job |-> m.job_id, host |-> m.host_id]>>
      [] m.kind = "MonLocalJobBegin" ->
            <<[kind |-> "LocalJobBegin", job |-> m.job_id, host |-> m.host_id]>>
      [] m.kind = "MonJobDone" -> <<[kind |-> "JobDone", job |-> m.job_id]>>
      [] OTHER -> <<>>

(* The event a message becomes, if it becomes one.                         *)
EventsOf(m) ==
    CASE m.kind = "MonStats" ->
            <<[kind |-> "HostStats", host |-> m.host_id, name |-> m.name]>>
      [] m.kind = "MonGetCs" ->
            <<[kind |-> "JobPending", job |-> m.job_id, client |-> m.client_id]>>
      [] m.kind = "MonJobBegin" ->
            <<[kind |-> "JobBegin", job |-> m.job_id, host |-> m.host_id]>>
      [] m.kind = "MonLocalJobBegin" ->
            <<[kind |-> "LocalJobBegin", job |-> m.job_id, host |-> m.host_id]>>
      [] m.kind \in {"MonJobDone", "JobLocalDone"} ->
            <<[kind |-> "JobDone", job |-> m.job_id]>>
      [] OTHER -> <<>>

Receive ==
    /\ pc = "receive" /\ wire # <<>> /\ Head(wire) \notin LastMessage
    /\ wire' = Tail(wire)
    /\ monq' = monq \o EventsOf(Head(wire))
    /\ UNCHANGED <<truth, told, link, reachable, pc, eventq, state>>

(* Mutant: a connection that ends is not reported.                         *)
ReceiveLast_Unreported ==
    /\ pc = "receive" /\ wire # <<>> /\ Head(wire) \in LastMessage
    /\ wire' = <<>>
    /\ link' = "none"
    /\ pc' = "sleep"
    /\ UNCHANGED <<truth, told, reachable, monq, eventq, state>>

(* End, an error of the stream or of the decoder: the connection is        *)
(* dropped, Disconnected is sent and the task sleeps.                      *)
ReceiveLast ==
    /\ pc = "receive" /\ wire # <<>> /\ Head(wire) \in LastMessage
    /\ wire' = <<>>
    /\ link' = "none"
    /\ Send(DisconnectedEvent)
    /\ pc' = "sleep"
    /\ UNCHANGED <<truth, told, reachable, eventq, state>>

(* The five seconds are over.  The bound on the backlog stands for the     *)
(* time they give the other tasks.                                         *)
WakeUp ==
    /\ pc = "sleep" /\ InFlight < MaxInFlight
    /\ pc' = "discover"
    /\ UNCHANGED <<schedulerVars, monq, eventq, state>>

MonitorTask == Discover \/ Connect \/ AttemptFails \/ Receive \/ ReceiveLast \/ WakeUp

-----------------------------------------------------------------------------
(* The forwarder task and the UI loop.                                     *)

(* Mutant: the last event in is the first out.                             *)
Forward_Overtakes ==
    /\ monq # <<>>
    /\ eventq' = <<Head(monq)>> \o eventq
    /\ monq' = Tail(monq)
    /\ UNCHANGED <<schedulerVars, pc, state>>

Forward ==
    /\ monq # <<>>
    /\ eventq' = Append(eventq, Head(monq))
    /\ monq' = Tail(monq)
    /\ UNCHANGED <<schedulerVars, pc, state>>

Process ==
    /\ eventq # <<>>
    /\ state' = ApplyEvent(state, Head(eventq))
    /\ eventq' = Tail(eventq)
    /\ UNCHANGED <<schedulerVars, pc, monq>>

Next ==
    \/ MonitorTask \/ Forward \/ Process
    \/ HandshakeStalls
    \/ SchedulerWorks /\ InFlight < MaxInFlight /\ UNCHANGED monitorVars
    \/ NetworkNext /\ UNCHANGED monitorVars

Spec == Init /\ [][Next]_vars

(* The three tasks run whenever they can: nothing in the tokio runtime     *)
(* starves a task that is ready.  Scheduler and network promise nothing.   *)
FairSpec ==
    Spec /\ WF_vars(MonitorTask) /\ WF_vars(Forward) /\ WF_vars(Process)

-----------------------------------------------------------------------------
(* While the header says Disconnected no host and no job is shown: nothing *)
(* of a connection that ended outlives it, however its last events, the    *)
(* Disconnected and the next attempts interleave in the two channels       *)
(* (monitor.rs:35, main.rs:64-71, model.rs:151-155).                       *)
NothingWithoutConnection == state.connected \/ NothingShown(state)

(* A new connection is announced only to a picture that has been cleared:  *)
(* every Connected that is applied finds the previous Disconnected already *)
(* applied, so hosts and jobs of two connections never share a table       *)
(* (run_monitor's Disconnected before every retry, monitor.rs:35).         *)
OneSessionAtATime ==
    [][Process /\ Head(eventq).kind = "Connected" => ~state.connected]_vars

(* While a connection is up the picture, once it has caught up with what   *)
(* is still in the channels and on the wire, shows exactly the daemons and *)
(* jobs the scheduler announced on this connection, each job in its true   *)
(* place and state: also after a lost connection, a restart that reuses    *)
(* job ids, and begins and ends of jobs the monitor never heard of         *)
(* (monitor.rs:59-112, model.rs:141-223).                                  *)
PictureIsExact ==
    pc = "receive" /\ link = "up" =>
        LET sent == FlattenSeq([i \in DOMAIN wire |-> EventsOf(wire[i])])
            final == FoldLeft(ApplyEvent, state, eventq \o monq \o sent)
        IN  /\ final.connected
            /\ {h \in HostId : Shown(final.hosts, h)} = toldHosts
            /\ final.jobs =
                 [j \in JobId |-> IF j \in toldJobs THEN srvJobs[j] ELSE Absent]

(* The two channels and the forwarder between them are one FIFO: no event  *)
(* is lost, doubled or reordered, and the sessions on it alternate with    *)
(* Disconnected (EventFeed; main.rs:56-71).                                *)
Feed == INSTANCE EventFeed
            WITH session <- IF pc = "receive" THEN "open" ELSE "closed",
                 feed <- eventq \o monq,
                 view <- state
ImplementsEventFeed == Feed!Spec

(* When a connection has ended, the header says Disconnected at some later *)
(* time, whatever was unread or queued (monitor.rs:35, model.rs:151).      *)
EndIsShown == link = "ended" ~> ~state.connected

(* As long as attempts could succeed from some time on, the monitor shows  *)
(* itself connected again and again: no failure ends the retries           *)
(* (run_monitor "Reconnects on failure.", monitor.rs:24-39).               *)
Reconnects == <>[]reachable => []<>(state.connected)

(* "Run the monitor loop. Reconnects on failure." (monitor.rs:24): a peer  *)
(* that is gone stops being shown as connected, and so is tried again.     *)
SilenceIsNoticed == link = "silent" ~> ~state.connected
=============================================================================
