--------------------------- MODULE MonitorProofs ---------------------------
(***************************************************************************)
(* The monitor's two channels implement EventFeed, and what that feed      *)
(* promises holds of the monitor: for any scheduler, any network and any   *)
(* number of messages under way.                                           *)
(*                                                                         *)
(* The types of the wire and of the channels are all that the refinement   *)
(* needs to know of reachable states.  NothingWithoutConnection is not     *)
(* inductive: it depends on the events still under way coming in an order  *)
(* that keeps the sessions apart.  FeedInv says so of every two neighbours *)
(* on the feed, and of its two ends: the picture before it and the sender  *)
(* behind it; every step of EventFeed keeps it, so every step of the       *)
(* monitor does.  PictureIsExact has an inductive invariant of its own:    *)
(* the picture in which all that is under way will end.                    *)
(***************************************************************************)
EXTENDS Monitor, DataProofs

Session == IF pc = "receive" THEN "open" ELSE "closed"
Fed == eventq \o monq

-----------------------------------------------------------------------------
(* apply_event: the types it keeps, and what it does to the connection.    *)

(* Counters and the colour index stay within the width of their type.      *)
LEMMA IncType ==
    /\ \A n \in 0..(U32 - 1) : Inc32(n) \in 0..(U32 - 1)
    /\ \A n \in 0..(U64 - 1) : Inc64(n) \in 0..(U64 - 1)
    /\ \A n \in 0..(U8 - 1) : (n + 1) % U8 \in 0..(U8 - 1)
BY StateAssumption DEF StateAssumption, Inc32, Inc64

(* The fields of a host, so that later steps need not unfold the record.   *)
LEMMA BumpType ==
    ASSUME NEW hosts \in [HostId -> Host \cup {Absent}], NEW h
    PROVE  /\ BumpIn(hosts, h) \in [HostId -> Host \cup {Absent}]
           /\ BumpOut(hosts, h) \in [HostId -> Host \cup {Absent}]
           /\ BumpLocal(hosts, h) \in [HostId -> Host \cup {Absent}]
<1>1. ASSUME NEW r \in Host
      PROVE  /\ [r EXCEPT !.total_in = Inc32(@)] \in Host
             /\ [r EXCEPT !.total_out = Inc32(@)] \in Host
             /\ [r EXCEPT !.total_local = Inc32(@)] \in Host
  BY IncType DEF Host
<1>2. CASE h \notin HostId \/ ~Shown(hosts, h)
  BY <1>2 DEF BumpIn, BumpOut, BumpLocal, Shown
<1>3. CASE h \in HostId /\ Shown(hosts, h)
  BY <1>1, <1>3 DEF BumpIn, BumpOut, BumpLocal, Shown
<1> QED BY <1>2, <1>3

(* SchedulerState::new is a state.                                         *)
LEMMA NewStateType == NewState \in State
BY StateAssumption DEF StateAssumption, NewState, State

(* The arms of apply_event that replace or drop one job or host.           *)
LEMMA HostStatsType ==
    ASSUME NEW s \in State, NEW h \in HostId, NEW name \in Name \cup {NoName}
    PROVE  ApplyHostStats(s, h, name) \in State
<1>1. CASE name = NoName
  BY <1>1 DEF ApplyHostStats, State
<1>2. CASE name \in Name /\ Shown(s.hosts, h)
  <2>1. [s.hosts[h] EXCEPT !.name = name] \in Host
    BY <1>2 DEF State, Shown, Host
  <2>2. ApplyHostStats(s, h, name) =
          [s EXCEPT !.hosts = [s.hosts EXCEPT ![h] = [s.hosts[h] EXCEPT !.name = name]]]
    BY <1>2, StateAssumption DEF StateAssumption, ApplyHostStats, State
  <2> QED BY <2>1, <2>2 DEF State
<1>3. CASE name \in Name /\ ~Shown(s.hosts, h)
  <2>1. NewHost(name, s.next_color) \in Host
    BY <1>3, StateAssumption DEF StateAssumption, NewHost, Host, State
  <2>2. (s.next_color + 1) % U8 \in 0..(U8 - 1)
    BY IncType DEF State
  <2> QED BY <1>3, <2>1, <2>2, StateAssumption DEF StateAssumption, ApplyHostStats, State
<1> QED BY <1>1, <1>2, <1>3

(* The arms that change one job, and with it the counters.                 *)
LEMMA JobEventType ==
    ASSUME NEW s \in State, NEW j \in JobId, NEW h \in HostId
    PROVE  /\ ApplyJobPending(s, j, h) \in State
           /\ ApplyJobBegin(s, j, h) \in State
           /\ ApplyLocalJobBegin(s, j, h) \in State
<1>1. ApplyJobPending(s, j, h) \in State
  BY DEF ApplyJobPending, State, Job, JobState
<1>2. ApplyJobBegin(s, j, h) \in State
  <2>1. CASE ~Shown(s.jobs, j)
    BY <2>1 DEF ApplyJobBegin
  <2>2. CASE Shown(s.jobs, j)
    <3> DEFINE job == [s.jobs[j] EXCEPT !.host_id = h, !.state = "RemoteActive"]
               hosts == BumpOut(BumpIn(s.hosts, h), s.jobs[j].client_id)
    <3>1. job \in Job
      BY <2>2 DEF State, Shown, Job, JobState
    <3>2. hosts \in [HostId -> Host \cup {Absent}]
      BY BumpType DEF State
    <3>3. Inc64(s.total_remote) \in 0..(U64 - 1)
      BY IncType DEF State
    <3>4. ApplyJobBegin(s, j, h) =
            [s EXCEPT !.jobs = [s.jobs EXCEPT ![j] = job], !.hosts = hosts,
                      !.total_remote = Inc64(s.total_remote)]
      BY <2>2 DEF ApplyJobBegin, State, Shown, Job
    <3> HIDE DEF job, hosts
    <3> QED BY <3>1, <3>2, <3>3, <3>4 DEF State
  <2> QED BY <2>1, <2>2
<1>3. ApplyLocalJobBegin(s, j, h) \in State
  <2> DEFINE job == [client_id |-> h, host_id |-> h, state |-> "LocalActive"]
  <2>1. job \in Job
    BY DEF Job, JobState
  <2>2. BumpLocal(s.hosts, h) \in [HostId -> Host \cup {Absent}]
    BY BumpType DEF State
  <2>3. Inc64(s.total_local) \in 0..(U64 - 1)
    BY IncType DEF State
  <2> HIDE DEF job
  <2> QED BY <2>1, <2>2, <2>3 DEF ApplyLocalJobBegin, State, job
<1> QED BY <1>1, <1>2, <1>3

(* apply_event keeps the picture well typed, whatever the event.           *)
THEOREM ApplyEventType ==
    ASSUME NEW s \in State, NEW e \in MonitorEvent
    PROVE  ApplyEvent(s, e) \in State
<1>1. CASE e \in ConnectedEvent
  BY <1>1 DEF ConnectedEvent, ApplyEvent, ApplyConnected, State
<1>2. CASE e = DisconnectedEvent
  BY <1>2 DEF DisconnectedEvent, ApplyEvent, ApplyDisconnected, State
<1>3. CASE e \in [ kind : {"HostStats"}, host : HostId, name : Name \cup {NoName} ]
  <2>1. ApplyEvent(s, e) = ApplyHostStats(s, e.host, e.name)
    BY <1>3 DEF ApplyEvent
  <2> QED BY <1>3, <2>1, HostStatsType
<1>4. CASE e \in [ kind : {"JobPending"}, job : JobId, client : HostId ]
  <2>1. ApplyEvent(s, e) = ApplyJobPending(s, e.job, e.client)
    BY <1>4 DEF ApplyEvent
  <2> QED BY <1>4, <2>1, JobEventType
<1>5. CASE e \in [ kind : {"JobBegin", "LocalJobBegin"}, job : JobId, host : HostId ]
  <2>1. \/ ApplyEvent(s, e) = ApplyJobBegin(s, e.job, e.host)
        \/ ApplyEvent(s, e) = ApplyLocalJobBegin(s, e.job, e.host)
    BY <1>5 DEF ApplyEvent
  <2> QED BY <1>5, <2>1, JobEventType
<1>6. CASE e \in [ kind : {"JobDone"}, job : JobId ]
  <2>1. ApplyEvent(s, e) = ApplyJobDone(s, e.job)
    BY <1>6 DEF ApplyEvent
  <2>2. \A j \in JobId : ApplyJobDone(s, j) \in State
    BY DEF ApplyJobDone, State
  <2> QED BY <1>6, <2>1, <2>2
<1> QED BY <1>1, <1>2, <1>3, <1>4, <1>5, <1>6 DEF MonitorEvent, DataEvent

(* What an event does to the connection, and to a picture without one.     *)
LEMMA ConnectionAfter ==
    ASSUME NEW s \in State
    PROVE  /\ \A e \in ConnectedEvent :
                /\ ApplyEvent(s, e).connected = TRUE
                /\ ApplyEvent(s, e).hosts = s.hosts
                /\ ApplyEvent(s, e).jobs = s.jobs
           /\ ApplyEvent(s, DisconnectedEvent).connected = FALSE
           /\ NothingShown(ApplyEvent(s, DisconnectedEvent))
           /\ \A e \in DataEvent : ApplyEvent(s, e).connected = s.connected
<1>1. ASSUME NEW e \in ConnectedEvent
      PROVE  /\ ApplyEvent(s, e).connected = TRUE
             /\ ApplyEvent(s, e).hosts = s.hosts
             /\ ApplyEvent(s, e).jobs = s.jobs
  BY DEF ConnectedEvent, ApplyEvent, ApplyConnected, State
<1>2. /\ ApplyEvent(s, DisconnectedEvent).connected = FALSE
      /\ NothingShown(ApplyEvent(s, DisconnectedEvent))
  BY DEF DisconnectedEvent, ApplyEvent, ApplyDisconnected, State, NothingShown, Shown
<1>3. ASSUME NEW e \in DataEvent
      PROVE  ApplyEvent(s, e).connected = s.connected
  BY DEF DataEvent, ApplyEvent, ApplyHostStats, ApplyJobPending, ApplyJobBegin,
         ApplyLocalJobBegin, ApplyJobDone, State
<1> QED BY <1>1, <1>2, <1>3

-----------------------------------------------------------------------------
(* The messages a scheduler can send, and the events they become.          *)

(* What the scheduler's actions announce are messages.                     *)
LEMMA MessageTypes ==
    /\ \A h \in HostId, name \in Name \cup {NoName} :
          [kind |-> "MonStats", host_id |-> h, name |-> name] \in Message
    /\ \A j \in JobId, h \in HostId :
          /\ [kind |-> "MonGetCs", job_id |-> j, client_id |-> h] \in Message
          /\ [kind |-> "MonJobBegin", job_id |-> j, host_id |-> h] \in Message
          /\ [kind |-> "MonLocalJobBegin", job_id |-> j, host_id |-> h] \in Message
    /\ \A j \in JobId, k \in {"MonJobDone", "JobLocalDone"} :
          [kind |-> k, job_id |-> j] \in Message
    /\ [kind |-> "Ping"] \in Message
    /\ LastMessage \subseteq Message
BY DEF Message, LastMessage

(* A message becomes at most one data event.                               *)
LEMMA EventsOfType ==
    ASSUME NEW m \in Message
    PROVE  EventsOf(m) = <<>> \/ \E e \in DataEvent : EventsOf(m) = <<e>>
<1>1. CASE m \in [ kind : {"MonStats"}, host_id : HostId, name : Name \cup {NoName} ]
  <2> DEFINE e == [kind |-> "HostStats", host |-> m.host_id, name |-> m.name]
  <2>1. e \in DataEvent
    BY <1>1 DEF DataEvent
  <2>2. EventsOf(m) = <<e>>
    BY <1>1 DEF EventsOf
  <2> QED BY <2>1, <2>2
<1>2. CASE m \in [ kind : {"MonGetCs"}, job_id : JobId, client_id : HostId ]
  <2> DEFINE e == [kind |-> "JobPending", job |-> m.job_id, client |-> m.client_id]
  <2>1. e \in DataEvent
    BY <1>2 DEF DataEvent
  <2>2. EventsOf(m) = <<e>>
    BY <1>2 DEF EventsOf
  <2> QED BY <2>1, <2>2
<1>3. CASE m \in [ kind : {"MonJobBegin", "MonLocalJobBegin"}, job_id : JobId, host_id : HostId ]
  <2> DEFINE e(k) == [kind |-> k, job |-> m.job_id, host |-> m.host_id]
  <2>1. e("JobBegin") \in DataEvent /\ e("LocalJobBegin") \in DataEvent
    BY <1>3 DEF DataEvent
  <2>2. EventsOf(m) = <<e("JobBegin")>> \/ EventsOf(m) = <<e("LocalJobBegin")>>
    BY <1>3 DEF EventsOf
  <2> QED BY <2>1, <2>2
<1>4. CASE m \in [ kind : {"MonJobDone", "JobLocalDone"}, job_id : JobId ]
  <2> DEFINE e == [kind |-> "JobDone", job |-> m.job_id]
  <2>1. e \in DataEvent
    BY <1>4 DEF DataEvent
  <2>2. EventsOf(m) = <<e>>
    BY <1>4 DEF EventsOf
  <2> QED BY <2>1, <2>2
<1>5. CASE m \in [ kind : {"Ping"} ] \cup LastMessage
  BY <1>5 DEF EventsOf, LastMessage
<1> QED BY <1>1, <1>2, <1>3, <1>4, <1>5 DEF Message

-----------------------------------------------------------------------------
(* Type correctness.                                                       *)

(* The program starts unconnected, with empty queues.                      *)
LEMMA InitType == Init => TypeOK
BY NewStateType, EmptySeq
   DEF Init, SchedulerInit, TypeOK, SchedulerTypeOK, Link, PC

(* An announcement that is a message keeps wire and told well typed.       *)
LEMMA AnnounceType ==
    ASSUME SchedulerTypeOK, NEW m \in Message,
           NEW hosts \in SUBSET HostId, NEW jobs \in SUBSET JobId,
           Announce(m, hosts, jobs)
    PROVE  /\ wire' \in Seq(Message)
           /\ toldHosts' \subseteq HostId
           /\ toldJobs' \subseteq JobId
BY DEF SchedulerTypeOK, Announce

(* The scheduler's own actions.                                            *)
LEMMA SchedulerWorksType == SchedulerTypeOK /\ SchedulerWorks => SchedulerTypeOK'
<1> SUFFICES ASSUME SchedulerTypeOK, SchedulerWorks PROVE SchedulerTypeOK'
  OBVIOUS
<1> USE DEF SchedulerTypeOK
<1>1. link' = link /\ reachable' = reachable
  BY DEF SchedulerWorks
<1>2. ASSUME NEW h \in HostId, NEW name \in Name, HostReports(h, name)
      PROVE  SchedulerTypeOK'
  <2>1. /\ wire' \in Seq(Message)
        /\ toldHosts' \subseteq HostId
        /\ toldJobs' \subseteq JobId
    BY <1>2, MessageTypes, AnnounceType DEF HostReports
  <2> QED BY <1>1, <1>2, <2>1 DEF HostReports
<1>3. ASSUME NEW h \in HostId, HostLeaves(h)
      PROVE  SchedulerTypeOK'
  <2>1. /\ wire' \in Seq(Message)
        /\ toldHosts' \subseteq HostId
        /\ toldJobs' \subseteq JobId
    BY <1>3, MessageTypes, AnnounceType DEF HostLeaves
  <2> QED BY <1>1, <1>3, <2>1 DEF HostLeaves
<1>4. ASSUME NEW j \in JobId, NEW h \in HostId, JobRequested(j, h)
      PROVE  SchedulerTypeOK'
  <2>1. /\ wire' \in Seq(Message)
        /\ toldHosts' \subseteq HostId
        /\ toldJobs' \subseteq JobId
    <3> DEFINE m == [kind |-> "MonGetCs", job_id |-> j, client_id |-> h]
    <3>1. /\ m \in Message /\ toldJobs \cup {j} \in SUBSET JobId
          /\ Announce(m, toldHosts, toldJobs \cup {j})
      BY <1>4, MessageTypes DEF JobRequested
    <3> HIDE DEF m
    <3> QED BY <3>1, AnnounceType
  <2>2. [client_id |-> h, host_id |-> NoHost, state |-> "Pending"] \in Job
    BY DEF Job, JobState
  <2> QED BY <1>1, <1>4, <2>1, <2>2 DEF JobRequested
<1>5. ASSUME NEW j \in JobId, NEW h \in HostId, JobStarts(j, h)
      PROVE  SchedulerTypeOK'
  <2>1. /\ wire' \in Seq(Message)
        /\ toldHosts' \subseteq HostId
        /\ toldJobs' \subseteq JobId
    BY <1>5, MessageTypes, AnnounceType DEF JobStarts
  <2> DEFINE job == [srvJobs[j] EXCEPT !.host_id = h, !.state = "RemoteActive"]
  <2>2. job \in Job
    BY <1>5 DEF JobStarts, Job, JobState
  <2>3. srvJobs' = [srvJobs EXCEPT ![j] = job]
    BY <1>5 DEF JobStarts, Job
  <2> HIDE DEF job
  <2> QED BY <1>1, <1>5, <2>1, <2>2, <2>3 DEF JobStarts
<1>6. ASSUME NEW j \in JobId, NEW h \in HostId, LocalJobStarts(j, h)
      PROVE  SchedulerTypeOK'
  <2>1. /\ wire' \in Seq(Message)
        /\ toldHosts' \subseteq HostId
        /\ toldJobs' \subseteq JobId
    <3> DEFINE m == [kind |-> "MonLocalJobBegin", job_id |-> j, host_id |-> h]
    <3>1. /\ m \in Message /\ toldJobs \cup {j} \in SUBSET JobId
          /\ Announce(m, toldHosts, toldJobs \cup {j})
      BY <1>6, MessageTypes DEF LocalJobStarts
    <3> HIDE DEF m
    <3> QED BY <3>1, AnnounceType
  <2>2. [client_id |-> h, host_id |-> h, state |-> "LocalActive"] \in Job
    BY DEF Job, JobState
  <2> QED BY <1>1, <1>6, <2>1, <2>2 DEF LocalJobStarts
<1>7. ASSUME NEW j \in JobId, JobFinishes(j)
      PROVE  SchedulerTypeOK'
  <2> DEFINE k == IF srvJobs[j].state = "LocalActive"
                  THEN "JobLocalDone" ELSE "MonJobDone"
  <2>1. /\ wire' \in Seq(Message)
        /\ toldHosts' \subseteq HostId
        /\ toldJobs' \subseteq JobId
    <3>1. [kind |-> k, job_id |-> j] \in Message
      BY MessageTypes
    <3> QED BY <1>7, <3>1, AnnounceType DEF JobFinishes
  <2> QED BY <1>1, <1>7, <2>1 DEF JobFinishes
<1>8. CASE Ping
  BY <1>1, <1>8, MessageTypes DEF Ping, truth, told
<1> QED BY <1>2, <1>3, <1>4, <1>5, <1>6, <1>7, <1>8 DEF SchedulerWorks

(* The ways a connection ends.                                             *)
LEMMA NetworkType == SchedulerTypeOK /\ NetworkNext => SchedulerTypeOK'
<1> SUFFICES ASSUME SchedulerTypeOK, NetworkNext PROVE SchedulerTypeOK'
  OBVIOUS
<1> USE DEF SchedulerTypeOK
<1>1. ASSUME NEW last \in LastMessage, Hangup(last)
      PROVE  link' \in Link /\ wire' \in Seq(Message)
  <2>1. PICK unread \in {wire, <<>>} : wire' = Append(unread, last)
    BY <1>1 DEF Hangup
  <2>2. unread \in Seq(Message) /\ last \in Message
    BY MessageTypes, EmptySeq
  <2>3. wire' \in Seq(Message)
    BY <2>1, <2>2
  <2> QED BY <1>1, <2>3 DEF Hangup, Link
<1>2. CASE ConnectionEnds
  BY <1>1, <1>2 DEF ConnectionEnds, truth, told
<1>3. CASE SchedulerRestarts
  <2>1. link' \in Link /\ wire' \in Seq(Message)
    BY <1>1, <1>3 DEF SchedulerRestarts, LastMessage
  <2> QED BY <1>3, <2>1 DEF SchedulerRestarts, told
<1>4. CASE GoesSilent
  BY <1>4, EmptySeq DEF GoesSilent, truth, told, Link
<1>5. CASE ReachabilityChanges
  BY <1>5 DEF ReachabilityChanges, truth, told
<1> QED BY <1>2, <1>3, <1>4, <1>5 DEF NetworkNext

(* Every step of the monitor.                                              *)
LEMMA NextType == TypeOK /\ [Next]_vars => TypeOK'
<1> SUFFICES ASSUME TypeOK, [Next]_vars PROVE TypeOK'
  OBVIOUS
<1> USE DEF TypeOK
<1>1. CASE Discover
  BY <1>1 DEF Discover, schedulerVars, SchedulerTypeOK, PC
<1>2. CASE Connect
  <2>1. monq' \in Seq(MonitorEvent)
    BY <1>2 DEF Connect, Send, MonitorEvent, ConnectedEvent
  <2> QED BY <1>2, <2>1, EmptySeq DEF Connect, truth, SchedulerTypeOK, Link, PC
<1>3. CASE AttemptFails
  <2>1. monq' \in Seq(MonitorEvent)
    BY <1>3 DEF AttemptFails, Send, MonitorEvent
  <2> QED BY <1>3, <2>1 DEF AttemptFails, schedulerVars, SchedulerTypeOK, PC
<1>4. CASE Receive
  <2>1. Head(wire) \in Message /\ Tail(wire) \in Seq(Message)
    BY <1>4, HeadTailProperties DEF Receive, SchedulerTypeOK
  <2>2. EventsOf(Head(wire)) \in Seq(MonitorEvent)
    <3>1. CASE EventsOf(Head(wire)) = <<>>
      BY <3>1, EmptySeq
    <3>2. ASSUME NEW e \in DataEvent, EventsOf(Head(wire)) = <<e>>
          PROVE  EventsOf(Head(wire)) \in Seq(MonitorEvent)
      <4>1. e \in MonitorEvent
        BY DEF MonitorEvent
      <4>2. <<e>> \in Seq(MonitorEvent)
        BY <4>1
      <4> QED BY <3>2, <4>2
    <3> QED BY <2>1, <3>1, <3>2, EventsOfType
  <2>3. monq' \in Seq(MonitorEvent)
    BY <1>4, <2>2, ConcatProperties DEF Receive
  <2> QED BY <1>4, <2>1, <2>3 DEF Receive, truth, told, SchedulerTypeOK
<1>5. CASE ReceiveLast
  <2>1. monq' \in Seq(MonitorEvent)
    BY <1>5 DEF ReceiveLast, Send, MonitorEvent
  <2> QED BY <1>5, <2>1, EmptySeq DEF ReceiveLast, truth, told, SchedulerTypeOK, Link, PC
<1>6. CASE WakeUp
  BY <1>6 DEF WakeUp, schedulerVars, SchedulerTypeOK, PC
<1>7. CASE Forward
  <2>1. /\ Head(monq) \in MonitorEvent
        /\ Tail(monq) \in Seq(MonitorEvent)
    BY <1>7, HeadTailProperties DEF Forward
  <2> QED BY <1>7, <2>1 DEF Forward, schedulerVars, SchedulerTypeOK
<1>8. CASE Process
  <2>1. /\ Head(eventq) \in MonitorEvent
        /\ Tail(eventq) \in Seq(MonitorEvent)
    BY <1>8, HeadTailProperties DEF Process
  <2>2. state' \in State
    BY <1>8, <2>1, ApplyEventType DEF Process
  <2> QED BY <1>8, <2>1, <2>2 DEF Process, schedulerVars, SchedulerTypeOK
<1>9. CASE HandshakeStalls
  BY <1>9 DEF HandshakeStalls, truth, told, monitorVars, SchedulerTypeOK, Link
<1>10. CASE SchedulerWorks /\ UNCHANGED monitorVars
  BY <1>10, SchedulerWorksType DEF monitorVars
<1>11. CASE NetworkNext /\ UNCHANGED monitorVars
  BY <1>11, NetworkType DEF monitorVars
<1>12. CASE UNCHANGED vars
  BY <1>12 DEF vars, SchedulerTypeOK
<1> QED BY <1>1, <1>2, <1>3, <1>4, <1>5, <1>6, <1>7, <1>8, <1>9, <1>10, <1>11, <1>12
        DEF Next, MonitorTask

(* Wire, channels and picture only ever hold what the program can put      *)
(* there (all of monitor.rs and of SchedulerState::apply_event).           *)
THEOREM TypeCorrect == Spec => []TypeOK
BY InitType, NextType, PTL DEF Spec

-----------------------------------------------------------------------------
(* Refinement.  The operators reached through the two instances are the    *)
(* ones of SchedulerState.                                                 *)

(* ApplyEvent and the event sets of the instance.                          *)
LEMMA FeedOperators ==
    /\ Feed!NewState = NewState
    /\ Feed!DataEvent = DataEvent
    /\ Feed!ConnectedEvent = ConnectedEvent
    /\ Feed!DisconnectedEvent = DisconnectedEvent
    /\ \A s, e : Feed!ApplyEvent(s, e) = ApplyEvent(s, e)
<1>1. /\ Feed!NewState = NewState
      /\ Feed!DataEvent = DataEvent
      /\ Feed!ConnectedEvent = ConnectedEvent
      /\ Feed!DisconnectedEvent = DisconnectedEvent
  BY DEF NewState, DataEvent, ConnectedEvent, DisconnectedEvent, Feed!NewState,
         Feed!DataEvent, Feed!ConnectedEvent, Feed!DisconnectedEvent
<1>2. ASSUME NEW s, NEW e PROVE Feed!ApplyEvent(s, e) = ApplyEvent(s, e)
  BY Zenon DEF
     ApplyEvent, ApplyConnected, ApplyDisconnected, ApplyHostStats,
     ApplyJobPending, ApplyJobBegin, ApplyLocalJobBegin, ApplyJobDone,
     BumpIn, BumpOut, BumpLocal, Shown, NewHost, Inc32, Inc64,
     Feed!ApplyEvent, Feed!ApplyConnected, Feed!ApplyDisconnected,
     Feed!ApplyHostStats, Feed!ApplyJobPending, Feed!ApplyJobBegin,
     Feed!ApplyLocalJobBegin, Feed!ApplyJobDone, Feed!BumpIn, Feed!BumpOut,
     Feed!BumpLocal, Feed!Shown, Feed!NewHost, Feed!Inc32, Feed!Inc64
<1> QED BY <1>1, <1>2

(* Sending into monitor_tx appends to the feed.                            *)
LEMMA SendIsSend ==
    ASSUME TypeOK, NEW e \in MonitorEvent, Send(e), UNCHANGED <<eventq, state>>
    PROVE  Feed!Send(e)
<1>1. eventq \o Append(monq, e) = Append(eventq \o monq, e)
  BY AppendIsConcat, ConcatAssociative, ConcatProperties DEF TypeOK
<1> QED BY <1>1 DEF Send, Feed!Send

(* The UI loop takes the head of the feed.                                 *)
LEMMA ProcessApplies ==
    ASSUME TypeOK, Process
    PROVE  /\ Feed!Apply
           /\ Head(eventq \o monq) = Head(eventq)
           /\ ~UNCHANGED (eventq \o monq)
<1>1. /\ eventq \o monq # <<>>
      /\ Head(eventq \o monq) = Head(eventq)
      /\ Tail(eventq \o monq) = Tail(eventq) \o monq
  BY EmptySeq, ConcatProperties, ConcatEqualIffEmpty DEF Process, TypeOK
<1>2. Feed!Apply
  BY <1>1, FeedOperators DEF Process, Feed!Apply
<1>3. /\ Len(eventq') = Len(eventq) - 1 /\ Len(eventq) \in Nat
      /\ eventq' \in Seq(MonitorEvent) /\ monq' = monq
  BY HeadTailProperties, LenProperties DEF Process, TypeOK
<1>4. /\ Len(eventq \o monq) = Len(eventq) + Len(monq)
      /\ Len(eventq' \o monq') = Len(eventq') + Len(monq)
      /\ Len(monq) \in Nat
  BY <1>3, ConcatProperties, LenProperties DEF TypeOK
<1>5. Len(eventq' \o monq') # Len(eventq \o monq)
  BY <1>3, <1>4
<1> QED BY <1>1, <1>2, <1>5

(* Initial states are initial states of the feed.                          *)
LEMMA InitRefines == Init => Feed!Init
BY FeedOperators, EmptySeq, ConcatEmptySeq DEF Init, Feed!Init

(* Every step is a step of the feed or leaves it alone: Forward stutters.  *)
LEMMA NextRefines == TypeOK /\ [Next]_vars => [Feed!Next]_Feed!vars
<1> SUFFICES ASSUME TypeOK, [Next]_vars PROVE [Feed!Next]_Feed!vars
  OBVIOUS
<1> USE DEF Feed!vars
<1>1. CASE UNCHANGED <<monq, eventq, state>> /\ Session' = Session
  BY <1>1 DEF Session
<1>2. CASE Connect
  <2>1. PICK e \in ConnectedEvent : Send(e)
    BY <1>2 DEF Connect, ConnectedEvent
  <2>2. Feed!Send(e)
    BY <1>2, <2>1, SendIsSend DEF Connect, MonitorEvent
  <2>3. Feed!Open(e)
    BY <1>2, <2>2 DEF Connect, Feed!Open
  <2> QED BY <2>1, <2>3, FeedOperators DEF Feed!Next
<1>3. CASE AttemptFails \/ ReceiveLast
  <2>1. Feed!Send(DisconnectedEvent)
    BY <1>3, SendIsSend DEF AttemptFails, ReceiveLast, MonitorEvent
  <2>2. Feed!Close
    BY <1>3, <2>1, FeedOperators DEF AttemptFails, ReceiveLast, Feed!Close
  <2> QED BY <2>2 DEF Feed!Next
<1>4. CASE Receive
  <2>1. Head(wire) \in Message
    BY <1>4, HeadTailProperties DEF Receive, TypeOK, SchedulerTypeOK
  <2>2. CASE EventsOf(Head(wire)) = <<>>
    <3>1. monq' = monq
      BY <1>4, <2>2, ConcatEmptySeq DEF Receive, TypeOK
    <3> QED BY <1>1, <1>4, <3>1 DEF Receive, Session
  <2>3. ASSUME NEW e \in DataEvent, EventsOf(Head(wire)) = <<e>>
        PROVE  [Feed!Next]_Feed!vars
    <3>1. e \in MonitorEvent
      BY DEF MonitorEvent
    <3>2. Send(e)
      BY <1>4, <2>3, <3>1, AppendIsConcat DEF Receive, Send, TypeOK
    <3>3. Feed!Send(e)
      BY <1>4, <3>1, <3>2, SendIsSend DEF Receive
    <3>4. Feed!Tell(e)
      BY <1>4, <3>3 DEF Receive, Feed!Tell
    <3> QED BY <3>4, FeedOperators DEF Feed!Next
  <2> QED BY <2>1, <2>2, <2>3, EventsOfType
<1>5. CASE Forward
  <2> DEFINE h == Head(monq)
             t == Tail(monq)
  <2>1. h \in MonitorEvent /\ t \in Seq(MonitorEvent) /\ monq = <<h>> \o t
    BY <1>5, HeadTailProperties DEF Forward, TypeOK
  <2>2. eventq' = eventq \o <<h>> /\ monq' = t
    BY <1>5, <2>1, AppendIsConcat DEF Forward, TypeOK
  <2> HIDE DEF h, t
  <2>3. eventq' \o monq' = eventq \o monq
    BY <2>1, <2>2, ConcatAssociative DEF TypeOK
  <2> QED BY <1>5, <2>3 DEF Forward
<1>6. CASE Process
  BY <1>6, ProcessApplies DEF Feed!Next
<1>7. CASE Discover \/ WakeUp \/ HandshakeStalls \/ UNCHANGED monitorVars
  BY <1>1, <1>7 DEF Discover, WakeUp, HandshakeStalls, monitorVars, Session
<1> QED BY <1>2, <1>3, <1>4, <1>5, <1>6, <1>7
        DEF Next, MonitorTask, vars, monitorVars

(* The two channels with the forwarder between them are one FIFO whose     *)
(* sessions follow one another (monitor.rs:24-113, main.rs:56-71, 112-118).*)
THEOREM Refinement == Spec => ImplementsEventFeed
BY InitType, NextType, InitRefines, NextRefines, PTL
   DEF Spec, ImplementsEventFeed, Feed!Spec

-----------------------------------------------------------------------------
(* What every feed of sessions keeps.                                      *)

(* The session after e, and which events may come in which session.        *)
After(e) == IF e.kind = "Disconnected" THEN "closed" ELSE "open"
MayCome(e, s) ==
    /\ e \in ConnectedEvent => s = "closed"
    /\ e \in DataEvent => s = "open"

(* The feed q leads from session `first` to session `last`.                *)
Leads(first, q, last) ==
    /\ \A i \in 1..(Len(q) - 1) : MayCome(q[i + 1], After(q[i]))
    /\ Len(q) = 0 => first = last
    /\ Len(q) # 0 => MayCome(q[1], first) /\ After(q[Len(q)]) = last

SessionShown == IF state.connected THEN "open" ELSE "closed"

FeedInv ==
    /\ Fed \in Seq(MonitorEvent) /\ state \in State
    /\ NothingWithoutConnection
    /\ Leads(SessionShown, Fed, Session)

(* The three kinds of events are told apart.                               *)
LEMMA KindsOfEvents ==
    /\ \A e \in ConnectedEvent : After(e) = "open" /\ e \notin DataEvent
    /\ \A e \in DataEvent : After(e) = "open" /\ e \notin ConnectedEvent
    /\ After(DisconnectedEvent) = "closed"
    /\ DisconnectedEvent \notin ConnectedEvent /\ DisconnectedEvent \notin DataEvent
BY DEF After, ConnectedEvent, DataEvent, DisconnectedEvent

(* Appending an event that may come now.                                   *)
LEMMA AppendLeads ==
    ASSUME NEW q \in Seq(MonitorEvent), NEW e \in MonitorEvent,
           NEW first, NEW last,
           Leads(first, q, last), MayCome(e, last)
    PROVE  Leads(first, Append(q, e), After(e))
<1> DEFINE r == Append(q, e)
<1>1. /\ Len(q) \in Nat /\ Len(r) = Len(q) + 1 /\ r[Len(r)] = e
      /\ \A i \in 1..Len(q) : r[i] = q[i]
  OBVIOUS
<1>2. ASSUME NEW i \in 1..(Len(r) - 1)
      PROVE  MayCome(r[i + 1], After(r[i]))
  <2>1. CASE i < Len(q)
    BY <1>1, <2>1 DEF Leads
  <2>2. CASE i = Len(q)
    BY <1>1, <2>2 DEF Leads
  <2> QED BY <1>1, <2>1, <2>2
<1>3. MayCome(r[1], first)
  <2>1. CASE Len(q) = 0
    BY <1>1, <2>1 DEF Leads
  <2>2. CASE Len(q) # 0
    BY <1>1, <2>2 DEF Leads
  <2> QED BY <2>1, <2>2
<1> HIDE DEF r
<1>4. Leads(first, r, After(e))
  BY <1>1, <1>2, <1>3 DEF Leads
<1> QED BY <1>4 DEF r

(* Taking the head off.                                                    *)
LEMMA TailLeads ==
    ASSUME NEW q \in Seq(MonitorEvent), NEW first, NEW last,
           q # <<>>, Leads(first, q, last)
    PROVE  /\ MayCome(Head(q), first)
           /\ Leads(After(Head(q)), Tail(q), last)
<1> DEFINE r == Tail(q)
<1>1. /\ Len(q) \in Nat \ {0} /\ Len(r) = Len(q) - 1
      /\ \A i \in 1..(Len(q) - 1) : r[i] = q[i + 1]
  BY EmptySeq, HeadTailProperties
<1>2. Head(q) = q[1]
  OBVIOUS
<1> HIDE DEF r
<1>3. \A i \in 1..(Len(r) - 1) : MayCome(r[i + 1], After(r[i]))
  BY <1>1 DEF Leads
<1>4. CASE Len(r) = 0
  <2>1. Len(q) = 1
    BY <1>1, <1>4
  <2>2. MayCome(q[1], first) /\ After(q[1]) = last
    BY <2>1 DEF Leads
  <2>3. Leads(After(Head(q)), r, last)
    BY <1>2, <1>3, <1>4, <2>2 DEF Leads
  <2> QED BY <1>2, <2>2, <2>3 DEF r
<1>5. CASE Len(r) # 0
  BY <1>1, <1>2, <1>3, <1>5 DEF Leads, r
<1> QED BY <1>4, <1>5

(* Nothing was sent yet and nothing is shown.                              *)
LEMMA FeedInitInv == Feed!Init => FeedInv
<1> SUFFICES ASSUME Feed!Init PROVE FeedInv
  OBVIOUS
<1>1. Fed = <<>> /\ state = NewState /\ Session = "closed"
  BY FeedOperators DEF Feed!Init, Fed, Session
<1>2. Fed \in Seq(MonitorEvent) /\ Len(Fed) = 0 /\ state \in State
  BY <1>1, NewStateType, EmptySeq
<1>3. NothingWithoutConnection
  BY <1>1 DEF NothingWithoutConnection, NothingShown, Shown, NewState
<1>4. SessionShown = "closed"
  BY <1>1 DEF NewState, SessionShown
<1>5. Leads(SessionShown, Fed, Session)
  BY <1>1, <1>2, <1>4 DEF Leads
<1> QED BY <1>2, <1>3, <1>5 DEF FeedInv

(* Sending an event that may come in the present session.                  *)
LEMMA FeedSendInv ==
    ASSUME FeedInv, NEW e \in MonitorEvent, MayCome(e, Session),
           Feed!Send(e), Session' = After(e)
    PROVE  FeedInv'
<1>1. Fed' = Append(Fed, e) /\ state' = state
  BY DEF Feed!Send, Fed
<1>2. Fed' \in Seq(MonitorEvent) /\ state' \in State
  BY <1>1, AppendProperties DEF FeedInv
<1>3. NothingWithoutConnection' /\ SessionShown' = SessionShown
  BY <1>1 DEF FeedInv, NothingWithoutConnection, SessionShown
<1>4. Leads(SessionShown, Append(Fed, e), After(e))
  BY AppendLeads DEF FeedInv
<1>5. Leads(SessionShown, Fed, Session)'
  BY <1>1, <1>3, <1>4
<1> QED BY <1>2, <1>3, <1>5 DEF FeedInv

(* What is applied next may come next, and leads to the rest of the feed.  *)
LEMMA FeedApplyInv == ASSUME FeedInv, Feed!Apply PROVE FeedInv'
<1> DEFINE e == Head(Fed)
<1>0. /\ Fed # <<>> /\ state' = ApplyEvent(state, e) /\ Fed' = Tail(Fed)
      /\ Session' = Session
  BY FeedOperators DEF Feed!Apply, Fed, Session
<1>1. e \in MonitorEvent /\ Tail(Fed) \in Seq(MonitorEvent) /\ state \in State
  BY <1>0, HeadTailProperties DEF FeedInv
<1>2. MayCome(e, SessionShown) /\ Leads(After(e), Tail(Fed), Session)
  BY <1>0, TailLeads DEF FeedInv
<1> HIDE DEF e
<1>3. state' \in State
  BY <1>0, <1>1, ApplyEventType
<1>4. SessionShown' = After(e) /\ NothingWithoutConnection'
  <2>1. CASE e \in ConnectedEvent
    <3>1. state'.connected
      BY <1>0, <1>1, <2>1, ConnectionAfter
    <3> QED BY <2>1, <3>1, KindsOfEvents DEF SessionShown, NothingWithoutConnection
  <2>2. CASE e = DisconnectedEvent
    <3>1. ~state'.connected /\ NothingShown(state')
      BY <1>0, <1>1, <2>2, ConnectionAfter
    <3> QED BY <2>2, <3>1, KindsOfEvents DEF SessionShown, NothingWithoutConnection
  <2>3. CASE e \in DataEvent
    <3>1. state.connected
      BY <1>2, <2>3 DEF MayCome, SessionShown
    <3>2. state'.connected
      BY <1>0, <1>1, <2>3, <3>1, ConnectionAfter
    <3> QED BY <2>3, <3>2, KindsOfEvents DEF SessionShown, NothingWithoutConnection
  <2> QED BY <1>1, <2>1, <2>2, <2>3 DEF MonitorEvent
<1>5. Leads(SessionShown, Fed, Session)'
  BY <1>0, <1>2, <1>4
<1> QED BY <1>0, <1>1, <1>3, <1>4, <1>5 DEF FeedInv

(* Every step of the feed.                                                 *)
LEMMA FeedNextInv == FeedInv /\ [Feed!Next]_Feed!vars => FeedInv'
<1> SUFFICES ASSUME FeedInv, [Feed!Next]_Feed!vars PROVE FeedInv'
  OBVIOUS
<1>1. ASSUME NEW e \in ConnectedEvent, Feed!Open(e) PROVE FeedInv'
  <2>1. e \in MonitorEvent /\ MayCome(e, Session) /\ Session' = After(e)
    BY <1>1, KindsOfEvents DEF Feed!Open, MayCome, MonitorEvent, Session
  <2> QED BY <1>1, <2>1, FeedSendInv DEF Feed!Open
<1>2. ASSUME NEW e \in DataEvent, Feed!Tell(e) PROVE FeedInv'
  <2>1. e \in MonitorEvent /\ MayCome(e, Session) /\ Session' = After(e)
    BY <1>2, KindsOfEvents DEF Feed!Tell, MayCome, MonitorEvent, Session
  <2> QED BY <1>2, <2>1, FeedSendInv DEF Feed!Tell
<1>3. CASE Feed!Close
  <2> DEFINE e == DisconnectedEvent
  <2>1. e \in MonitorEvent /\ MayCome(e, Session) /\ Session' = After(e)
    BY <1>3, KindsOfEvents DEF Feed!Close, MayCome, MonitorEvent, Session
  <2>2. Feed!Send(e)
    BY <1>3, FeedOperators DEF Feed!Close
  <2> HIDE DEF e
  <2> QED BY <2>1, <2>2, FeedSendInv
<1>4. CASE Feed!Apply
  BY <1>4, FeedApplyInv
<1>5. CASE UNCHANGED Feed!vars
  <2>1. Session' = Session /\ Fed' = Fed /\ state' = state
    BY <1>5 DEF Feed!vars, Session, Fed
  <2> QED BY <2>1 DEF FeedInv, NothingWithoutConnection, SessionShown
<1> QED BY <1>1, <1>2, <1>3, <1>4, <1>5, FeedOperators DEF Feed!Next

(* Events and pictures of the instance.                                    *)
LEMMA FeedTypes ==
    /\ Feed!MonitorEvent = MonitorEvent
    /\ Feed!State = State
<1>1. Feed!MonitorEvent = MonitorEvent
  BY FeedOperators DEF MonitorEvent, Feed!MonitorEvent
<1>2. Feed!Host = Host /\ Feed!Job = Job
  BY DEF Host, Job, JobState, Feed!Host, Feed!Job, Feed!JobState
<1>3. Feed!State = State
  BY <1>2 DEF State, Feed!State
<1> QED BY <1>1, <1>3

(* On every feed of sessions nothing is shown outside a session.           *)
THEOREM Sessions == Feed!Spec => [](Feed!TypeOK /\ Feed!NothingWithoutConnection)
<1>1. FeedInv => Feed!TypeOK /\ Feed!NothingWithoutConnection
  BY FeedTypes DEF FeedInv, Fed, Feed!TypeOK, Feed!NothingWithoutConnection,
         NothingWithoutConnection, Feed!NothingShown, NothingShown, Feed!Shown, Shown
<1> QED BY <1>1, FeedInitInv, FeedNextInv, PTL DEF Feed!Spec

(* The Connected that opens a session finds the previous one closed.       *)
THEOREM SessionsFollow == Feed!Spec => Feed!OneSessionAtATime
<1>1. FeedInv /\ [Feed!Next]_Feed!vars =>
          [Feed!Apply /\ Head(eventq \o monq).kind = "Connected" => ~state.connected]_Feed!vars
  <2> SUFFICES ASSUME FeedInv, Feed!Apply, Head(eventq \o monq).kind = "Connected"
               PROVE  ~state.connected
    OBVIOUS
  <2>1. Fed # <<>> /\ Head(Fed).kind = "Connected"
    BY DEF Feed!Apply, Fed
  <2>2. Head(Fed) \in MonitorEvent /\ MayCome(Head(Fed), SessionShown)
    BY <2>1, TailLeads, HeadTailProperties DEF FeedInv
  <2>3. Head(Fed) \in ConnectedEvent
    BY <2>1, <2>2 DEF MonitorEvent, DataEvent, DisconnectedEvent
  <2> QED BY <2>2, <2>3 DEF MayCome, SessionShown
<1> QED BY <1>1, FeedInitInv, FeedNextInv, PTL DEF Feed!Spec, Feed!OneSessionAtATime

-----------------------------------------------------------------------------
(* What holds of the feed holds of the monitor.                            *)

(* While Disconnected is shown the table is empty, whatever the two        *)
(* channels still hold (monitor.rs:35, model.rs:151-155).                  *)
THEOREM TableNeedsConnection == Spec => []NothingWithoutConnection
<1>1. Feed!NothingWithoutConnection => NothingWithoutConnection
  BY DEF Feed!NothingWithoutConnection, NothingWithoutConnection,
         Feed!NothingShown, NothingShown, Feed!Shown, Shown
<1> QED BY <1>1, Refinement, Sessions, PTL DEF ImplementsEventFeed

(* Hosts and jobs of two connections never share a table: a Connected is   *)
(* applied only to a picture cleared before (monitor.rs:35).               *)
THEOREM SessionsNeverMix == Spec => OneSessionAtATime
<1>1. /\ TypeOK
      /\ [Feed!Apply /\ Head(eventq \o monq).kind = "Connected" => ~state.connected]_Feed!vars
      /\ [Next]_vars
      => [Process /\ Head(eventq).kind = "Connected" => ~state.connected]_vars
  <2> SUFFICES ASSUME TypeOK, Process, Head(eventq).kind = "Connected",
                      Feed!Apply /\ Head(eventq \o monq).kind = "Connected"
                          => ~state.connected
               PROVE  ~state.connected
    BY ProcessApplies DEF Feed!vars
  <2>1. Head(eventq \o monq) = Head(eventq) /\ Feed!Apply
    BY ProcessApplies
  <2> QED BY <2>1
<1> QED BY <1>1, SessionsFollow, Refinement, TypeCorrect, PTL
        DEF ImplementsEventFeed, OneSessionAtATime, Feed!OneSessionAtATime, Spec

-----------------------------------------------------------------------------
(* The picture after all that is under way.                                *)

Applying == [p \in State \X MonitorEvent |-> ApplyEvent(p[1], p[2])]
Final(s, q) == Folded(Applying, s, q)
Sent(w) == FlattenSeq([i \in DOMAIN w |-> EventsOf(w[i])])

LEMMA ApplyingIsStep ==
    /\ IsStep(Applying, State, MonitorEvent)
    /\ \A s \in State, e \in MonitorEvent : Applying[<<s, e>>] = ApplyEvent(s, e)
<1>1. \A p \in State \X MonitorEvent : ApplyEvent(p[1], p[2]) \in State
  <2> TAKE p \in State \X MonitorEvent
  <2>1. p[1] \in State /\ p[2] \in MonitorEvent
    OBVIOUS
  <2> QED BY <2>1, ApplyEventType
<1>2. \A s \in State, e \in MonitorEvent : Applying[<<s, e>>] = ApplyEvent(s, e)
  BY DEF Applying
<1> QED BY <1>1, <1>2, Zenon DEF IsStep, Applying

(* PictureIsExact's fold is this one.                                      *)
LEMMA FoldLeftApplies ==
    ASSUME NEW s \in State, NEW q \in Seq(MonitorEvent)
    PROVE  FoldLeft(ApplyEvent, s, q) = Final(s, q)
<1> DEFINE Value(g, t) ==
             IF t = {} THEN s ELSE ApplyEvent(g[t \ {Max(t)}], q[Max(t)])
           Is(g) == g = [t \in SUBSET DOMAIN q |-> Value(g, t)]
           it == CHOOSE g : Is(g)
<1>1. FoldLeft(ApplyEvent, s, q) = it[DOMAIN q]
  BY DEF FoldLeft, MapThenFoldSet
<1>2. PICK g : IsFoldIteration(g, Applying, s, q)
  BY ApplyingIsStep, FoldExists
<1>3. ASSUME NEW t \in SUBSET DOMAIN q, t # {} PROVE Max(t) \in t /\ q[Max(t)] \in MonitorEvent
  <2>1. DOMAIN q = 1..Len(q) /\ Len(q) \in Nat
    OBVIOUS
  <2>2. Max(t) \in t
    BY <1>3, <2>1, MaxOfPlaces
  <2> QED BY <2>1, <2>2
<1> DEFINE Step(k, t) ==
             IF t = {} THEN s ELSE Applying[<<k[t \ {Max(t)}], q[Max(t)]>>]
<1>4. ASSUME NEW h, \A t \in SUBSET DOMAIN q : h[t] \in State, NEW t \in SUBSET DOMAIN q
      PROVE  Value(h, t) = Step(h, t)
  <2>1. t # {} => h[t \ {Max(t)}] \in State /\ q[Max(t)] \in MonitorEvent
    BY <1>3, <1>4
  <2> QED BY <2>1, ApplyingIsStep
<1>5. \A t \in SUBSET DOMAIN q : g[t] \in State
  BY <1>2, ApplyingIsStep, FoldExists
<1>6. Is(g)
  <2>1. g = [t \in SUBSET DOMAIN q |-> Step(g, t)]
    BY <1>2 DEF IsFoldIteration
  <2>2. \A t \in SUBSET DOMAIN q : Value(g, t) = Step(g, t)
    BY <1>4, <1>5
  <2> HIDE DEF Value, Step
  <2> QED BY <2>1, <2>2
<1>7. Is(it)
  <2> HIDE DEF Is
  <2> QED BY <1>6
<1> HIDE DEF it
<1>8. Folds(it, Applying, s, q, State)
  BY <1>3, <1>7, ApplyingIsStep DEF Folds
<1> HIDE DEF Is
<1>9. it[DOMAIN q] = Folded(Applying, s, q)
  BY <1>8, ApplyingIsStep, FoldMatches
<1> QED BY <1>1, <1>9 DEF Final

(* What a fold of events ends in, event after event.                       *)
LEMMA FinalLaws ==
    ASSUME NEW s \in State, NEW q \in Seq(MonitorEvent), NEW e \in MonitorEvent
    PROVE  /\ Final(s, q) \in State
           /\ Final(s, <<>>) = s
           /\ Final(s, q \o <<e>>) = ApplyEvent(Final(s, q), e)
           /\ Final(s, <<e>> \o q) = Final(ApplyEvent(s, e), q)
<1>1. Final(s, q) \in State /\ Final(s, <<>>) = s
  BY ApplyingIsStep, FoldOfRun, FoldEmpty DEF Final
<1>2. Final(s, Append(q, e)) = Applying[<<Final(s, q), e>>]
  BY ApplyingIsStep, FoldAppend DEF Final
<1>3. Append(q, e) = q \o <<e>>
  BY AppendIsConcat
<1>4. Final(s, <<e>> \o q) = Folded(Applying, Applying[<<s, e>>], q)
  BY ApplyingIsStep, FoldPrepend DEF Final
<1>5. /\ Applying[<<s, e>>] = ApplyEvent(s, e)
      /\ Applying[<<Final(s, q), e>>] = ApplyEvent(Final(s, q), e)
  BY <1>1, ApplyingIsStep
<1> QED BY <1>1, <1>2, <1>3, <1>4, <1>5 DEF Final

LEMMA EventsOfSeq ==
    ASSUME NEW m \in Message
    PROVE  EventsOf(m) \in Seq(MonitorEvent)
<1>1. CASE EventsOf(m) = <<>>
  BY <1>1, EmptySeq
<1>2. ASSUME NEW e \in DataEvent, EventsOf(m) = <<e>> PROVE EventsOf(m) \in Seq(MonitorEvent)
  <2>1. e \in MonitorEvent
    BY DEF MonitorEvent
  <2>2. <<e>> \in Seq(MonitorEvent)
    BY <2>1
  <2> QED BY <1>2, <2>2
<1> QED BY <1>1, <1>2, EventsOfType

(* The events of the wire, message after message.                          *)
LEMMA SentLaws ==
    ASSUME NEW w \in Seq(Message), NEW m \in Message
    PROVE  /\ Sent(w) \in Seq(MonitorEvent)
           /\ Sent(<<>>) = <<>>
           /\ Sent(Append(w, m)) = Sent(w) \o EventsOf(m)
           /\ w # <<>> => Sent(w) = EventsOf(Head(w)) \o Sent(Tail(w))
<1> DEFINE f == [n \in Message |-> EventsOf(n)]
<1>1. f \in [Message -> Seq(MonitorEvent)] /\ \A n \in Message : f[n] = EventsOf(n)
  BY EventsOfSeq
<1>2. ASSUME NEW v \in Seq(Message) PROVE Sent(v) = FlatMap(f, v)
  <2>1. \A i \in DOMAIN v : f[v[i]] = EventsOf(v[i])
    BY <1>1
  <2> HIDE DEF f
  <2>2. Images(f, v) = [i \in DOMAIN v |-> EventsOf(v[i])]
    BY <2>1 DEF Images
  <2> QED BY <2>2 DEF Sent, FlatMap
<1> HIDE DEF f
<1>3. /\ FlatMap(f, w) \in Seq(MonitorEvent) /\ FlatMap(f, <<>>) = <<>>
      /\ FlatMap(f, Append(w, m)) = FlatMap(f, w) \o f[m]
  <2>1. f \in [Message -> Seq(MonitorEvent)]
    BY <1>1
  <2> QED BY ONLY <2>1, w \in Seq(Message), m \in Message, FlatMapLaws
<1>4. w # <<>> => /\ FlatMap(f, w) = f[Head(w)] \o FlatMap(f, Tail(w))
                  /\ Head(w) \in Message
  <2>1. f \in [Message -> Seq(MonitorEvent)]
    BY <1>1
  <2>2. w # <<>> => FlatMap(f, w) = f[Head(w)] \o FlatMap(f, Tail(w))
    BY ONLY <2>1, w \in Seq(Message), FlatMapHead
  <2> QED BY <2>2, HeadTailProperties
<1>5. Append(w, m) \in Seq(Message) /\ <<>> \in Seq(Message) /\ (w # <<>> => Tail(w) \in Seq(Message))
  BY EmptySeq, HeadTailProperties
<1> QED BY <1>1, <1>2, <1>3, <1>4, <1>5

-----------------------------------------------------------------------------
(* What apply_event makes of the scheduler's announcements.                *)

Exact(s, hosts, jobs, all) ==
    /\ s.connected
    /\ {h \in HostId : Shown(s.hosts, h)} = hosts
    /\ s.jobs = [j \in JobId |-> IF j \in jobs THEN all[j] ELSE Absent]

(* Counting a job does not show or hide a host.                            *)
LEMMA BumpShows ==
    ASSUME NEW hosts \in [HostId -> Host \cup {Absent}], NEW k
    PROVE  \A h \in HostId : /\ Shown(BumpIn(hosts, k), h) <=> Shown(hosts, h)
                             /\ Shown(BumpOut(hosts, k), h) <=> Shown(hosts, h)
                             /\ Shown(BumpLocal(hosts, k), h) <=> Shown(hosts, h)
<1>1. ASSUME NEW r \in Host
      PROVE  /\ [r EXCEPT !.total_in = Inc32(@)] \in Host
             /\ [r EXCEPT !.total_out = Inc32(@)] \in Host
             /\ [r EXCEPT !.total_local = Inc32(@)] \in Host
  BY IncType DEF Host
<1>2. CASE k \notin HostId \/ ~Shown(hosts, k)
  BY <1>2 DEF BumpIn, BumpOut, BumpLocal, Shown
<1>3. CASE k \in HostId /\ Shown(hosts, k)
  BY <1>1, <1>3, StateAssumption DEF StateAssumption, BumpIn, BumpOut, BumpLocal, Shown
<1> QED BY <1>2, <1>3

(* A report shows its host, a farewell takes it off; jobs are left alone.  *)
LEMMA StatsExact ==
    ASSUME NEW s \in State, NEW hosts \in SUBSET HostId, NEW jobs \in SUBSET JobId, NEW all,
           Exact(s, hosts, jobs, all), NEW h \in HostId
    PROVE  /\ \A name \in Name : Exact(ApplyHostStats(s, h, name), hosts \cup {h}, jobs, all)
           /\ Exact(ApplyHostStats(s, h, NoName), hosts \ {h}, jobs, all)
<1>1. ASSUME NEW name \in Name \cup {NoName}
      PROVE  /\ ApplyHostStats(s, h, name).connected = s.connected
             /\ ApplyHostStats(s, h, name).jobs = s.jobs
             /\ \A g \in HostId : Shown(ApplyHostStats(s, h, name).hosts, g)
                    <=> IF g = h THEN name # NoName ELSE Shown(s.hosts, g)
  <2> DEFINE n == ApplyHostStats(s, h, name)
  <2>0. /\ s.hosts \in [HostId -> Host \cup {Absent}]
        /\ n.connected = s.connected /\ n.jobs = s.jobs
    BY DEF ApplyHostStats, State
  <2>1. CASE name = NoName
    BY <2>0, <2>1 DEF ApplyHostStats, State, Shown
  <2>2. CASE name # NoName /\ Shown(s.hosts, h)
    <3>1. n.hosts = [s.hosts EXCEPT ![h] = [s.hosts[h] EXCEPT !.name = name]]
      BY <2>2 DEF ApplyHostStats, State
    <3>2. [s.hosts[h] EXCEPT !.name = name] \in Host
      BY <2>0, <2>2 DEF Shown, Host
    <3> HIDE DEF n
    <3> QED BY <2>0, <2>2, <3>1, <3>2, StateAssumption DEF StateAssumption, Shown, n
  <2>3. CASE name # NoName /\ ~Shown(s.hosts, h)
    <3>1. n.hosts = [s.hosts EXCEPT ![h] = NewHost(name, s.next_color)]
      BY <2>3 DEF ApplyHostStats, State
    <3>2. NewHost(name, s.next_color) \in Host
      BY <2>3, StateAssumption DEF StateAssumption, NewHost, Host, State
    <3> HIDE DEF n
    <3> QED BY <2>0, <2>3, <3>1, <3>2, StateAssumption DEF StateAssumption, Shown, n
  <2> QED BY <2>1, <2>2, <2>3
<1>2. NoName \notin Name
  BY StateAssumption DEF StateAssumption
<1>3. ASSUME NEW name \in Name
      PROVE  Exact(ApplyHostStats(s, h, name), hosts \cup {h}, jobs, all)
  <2> DEFINE n == ApplyHostStats(s, h, name)
  <2>1. \A g \in HostId : Shown(n.hosts, g) <=> g = h \/ Shown(s.hosts, g)
    BY <1>1, <1>2
  <2>2. n.connected = s.connected /\ n.jobs = s.jobs
    BY <1>1
  <2> HIDE DEF n
  <2> QED BY <2>1, <2>2 DEF Exact, n
<1>4. Exact(ApplyHostStats(s, h, NoName), hosts \ {h}, jobs, all)
  <2> DEFINE n == ApplyHostStats(s, h, NoName)
  <2>1. \A g \in HostId : Shown(n.hosts, g) <=> g # h /\ Shown(s.hosts, g)
    BY <1>1, <1>2
  <2>2. n.connected = s.connected /\ n.jobs = s.jobs
    BY <1>1
  <2> HIDE DEF n
  <2> QED BY <2>1, <2>2 DEF Exact, n
<1> QED BY <1>3, <1>4

(* A job's request, beginnings and end, also of a job never heard of.      *)
LEMMA JobsExact ==
    ASSUME NEW s \in State, NEW hosts \in SUBSET HostId, NEW jobs \in SUBSET JobId,
           NEW all \in [JobId -> Job \cup {Absent}],
           Exact(s, hosts, jobs, all), NEW j \in JobId, NEW h \in HostId
    PROVE  /\ Exact(ApplyJobPending(s, j, h), hosts, jobs \cup {j},
                    [all EXCEPT ![j] = [client_id |-> h, host_id |-> NoHost, state |-> "Pending"]])
           /\ Exact(ApplyLocalJobBegin(s, j, h), hosts, jobs \cup {j},
                    [all EXCEPT ![j] = [client_id |-> h, host_id |-> h, state |-> "LocalActive"]])
           /\ all[j] # Absent =>
                Exact(ApplyJobBegin(s, j, h), hosts, jobs,
                      [all EXCEPT ![j].host_id = h, ![j].state = "RemoteActive"])
           /\ Exact(ApplyJobDone(s, j), hosts, jobs \ {j}, [all EXCEPT ![j] = Absent])
<1>0. /\ s.hosts \in [HostId -> Host \cup {Absent}]
      /\ s.connected /\ {g \in HostId : Shown(s.hosts, g)} = hosts
      /\ s.jobs = [k \in JobId |-> IF k \in jobs THEN all[k] ELSE Absent]
  BY DEF Exact, State
<1>1. Exact(ApplyJobPending(s, j, h), hosts, jobs \cup {j},
            [all EXCEPT ![j] = [client_id |-> h, host_id |-> NoHost, state |-> "Pending"]])
  <2> DEFINE n == ApplyJobPending(s, j, h)
             r == [client_id |-> h, host_id |-> NoHost, state |-> "Pending"]
  <2>1. n.connected = s.connected /\ n.hosts = s.hosts /\ n.jobs = [s.jobs EXCEPT ![j] = r]
    BY DEF ApplyJobPending, State
  <2> HIDE DEF n, r
  <2>2. [s.jobs EXCEPT ![j] = r] =
          [k \in JobId |-> IF k \in jobs \cup {j} THEN [all EXCEPT ![j] = r][k] ELSE Absent]
    BY <1>0
  <2> QED BY <1>0, <2>1, <2>2 DEF Exact, n, r
<1>2. Exact(ApplyLocalJobBegin(s, j, h), hosts, jobs \cup {j},
            [all EXCEPT ![j] = [client_id |-> h, host_id |-> h, state |-> "LocalActive"]])
  <2> DEFINE n == ApplyLocalJobBegin(s, j, h)
             r == [client_id |-> h, host_id |-> h, state |-> "LocalActive"]
  <2>1. /\ n.connected = s.connected /\ n.hosts = BumpLocal(s.hosts, h)
        /\ n.jobs = [s.jobs EXCEPT ![j] = r]
    BY DEF ApplyLocalJobBegin, State
  <2> HIDE DEF n, r
  <2>2. [s.jobs EXCEPT ![j] = r] =
          [k \in JobId |-> IF k \in jobs \cup {j} THEN [all EXCEPT ![j] = r][k] ELSE Absent]
    BY <1>0
  <2>3. {g \in HostId : Shown(n.hosts, g)} = hosts
    BY <1>0, <2>1, BumpShows
  <2> QED BY <1>0, <2>1, <2>2, <2>3 DEF Exact, n, r
<1>3. ASSUME all[j] # Absent
      PROVE  Exact(ApplyJobBegin(s, j, h), hosts, jobs,
                   [all EXCEPT ![j].host_id = h, ![j].state = "RemoteActive"])
  <2> DEFINE n == ApplyJobBegin(s, j, h)
             r == [all[j] EXCEPT !.host_id = h, !.state = "RemoteActive"]
  <2>1. all[j] \in Job
    BY <1>3
  <2>2. [all EXCEPT ![j].host_id = h, ![j].state = "RemoteActive"] = [all EXCEPT ![j] = r]
    BY <2>1 DEF Job
  <2>3. CASE j \in jobs
    <3>1. s.jobs[j] = all[j] /\ Shown(s.jobs, j)
      BY <1>0, <1>3, <2>3 DEF Shown
    <3>2. /\ n.connected = s.connected
          /\ n.hosts = BumpOut(BumpIn(s.hosts, h), s.jobs[j].client_id)
      BY <3>1 DEF ApplyJobBegin, State
    <3>3. n.jobs = [s.jobs EXCEPT ![j] = r]
      <4>1. n.jobs = [s.jobs EXCEPT ![j].host_id = h, ![j].state = "RemoteActive"]
        BY <3>1 DEF ApplyJobBegin, State
      <4> HIDE DEF n
      <4>2. [s.jobs EXCEPT ![j].host_id = h, ![j].state = "RemoteActive"] = [s.jobs EXCEPT ![j] = r]
        BY <1>0, <2>1, <3>1 DEF Job
      <4> QED BY <4>1, <4>2
    <3> HIDE DEF n, r
    <3>4. [s.jobs EXCEPT ![j] = r] =
            [k \in JobId |-> IF k \in jobs THEN [all EXCEPT ![j] = r][k] ELSE Absent]
      BY <1>0, <2>3
    <3>5. {g \in HostId : Shown(n.hosts, g)} = hosts
      <4> DEFINE b == BumpIn(s.hosts, h)
      <4>1. b \in [HostId -> Host \cup {Absent}] /\ \A g \in HostId : Shown(b, g) <=> Shown(s.hosts, g)
        BY <1>0, BumpType, BumpShows
      <4>2. n.hosts = BumpOut(b, s.jobs[j].client_id)
        BY <3>2
      <4> HIDE DEF b
      <4>3. \A g \in HostId : Shown(n.hosts, g) <=> Shown(b, g)
        BY <4>1, <4>2, BumpShows
      <4> QED BY <1>0, <4>1, <4>3
    <3> QED BY <1>0, <2>2, <3>2, <3>3, <3>4, <3>5 DEF Exact, n
  <2>4. CASE j \notin jobs
    <3>1. n = s
      BY <1>0, <2>4 DEF ApplyJobBegin, Shown
    <3> HIDE DEF n, r
    <3>2. s.jobs = [k \in JobId |-> IF k \in jobs THEN [all EXCEPT ![j] = r][k] ELSE Absent]
      BY <1>0, <2>4
    <3> QED BY <1>0, <2>2, <3>1, <3>2 DEF Exact, n
  <2> QED BY <2>3, <2>4
<1>4. Exact(ApplyJobDone(s, j), hosts, jobs \ {j}, [all EXCEPT ![j] = Absent])
  <2> DEFINE n == ApplyJobDone(s, j)
  <2>1. n.connected = s.connected /\ n.hosts = s.hosts /\ n.jobs = [s.jobs EXCEPT ![j] = Absent]
    BY DEF ApplyJobDone, State
  <2> HIDE DEF n
  <2>2. [s.jobs EXCEPT ![j] = Absent] =
          [k \in JobId |-> IF k \in jobs \ {j} THEN [all EXCEPT ![j] = Absent][k] ELSE Absent]
    BY <1>0
  <2> QED BY <1>0, <2>1, <2>2 DEF Exact, n
<1> QED BY <1>1, <1>2, <1>3, <1>4

-----------------------------------------------------------------------------
(* The inductive invariant: the picture all events under way end in is the *)
(* scheduler's while it is connected, and an empty one while it is not.    *)

Pictured == Final(state, eventq \o monq \o Sent(wire))

PictureInv ==
    /\ pc # "receive" => NothingShown(Final(state, eventq \o monq))
    /\ pc = "receive" /\ link = "up" => Exact(Pictured, toldHosts, toldJobs, srvJobs)

LEMMA PicturedType ==
    ASSUME TypeOK
    PROVE  /\ eventq \o monq \in Seq(MonitorEvent)
           /\ Sent(wire) \in Seq(MonitorEvent)
           /\ eventq \o monq \o Sent(wire) \in Seq(MonitorEvent)
           /\ Pictured \in State
<1> DEFINE q == eventq \o monq
           w == Sent(wire)
<1>1. q \in Seq(MonitorEvent)
  BY ConcatProperties DEF TypeOK
<1>2. w \in Seq(MonitorEvent)
  BY SentLaws, MessageTypes DEF TypeOK, SchedulerTypeOK
<1> HIDE DEF q, w
<1>3. q \o w \in Seq(MonitorEvent)
  BY <1>1, <1>2, ConcatProperties
<1>4. Final(state, q \o w) \in State
  BY <1>3, ApplyingIsStep, FoldOfRun DEF Final, TypeOK
<1> QED BY <1>1, <1>2, <1>3, <1>4 DEF q, w, Pictured

(* An announcement is the last thing to reach the picture.                 *)
LEMMA AnnouncedIsApplied ==
    ASSUME TypeOK, NEW m \in Message, NEW e \in MonitorEvent, EventsOf(m) = <<e>>,
           NEW hosts, NEW jobs, Announce(m, hosts, jobs), link = "up",
           UNCHANGED <<eventq, monq, state>>
    PROVE  /\ Pictured' = ApplyEvent(Pictured, e)
           /\ toldHosts' = hosts /\ toldJobs' = jobs
<1> DEFINE q == eventq \o monq
           w == Sent(wire)
<1>1. q \in Seq(MonitorEvent) /\ w \in Seq(MonitorEvent) /\ q \o w \in Seq(MonitorEvent)
  BY PicturedType
<1>2. wire' = Append(wire, m) /\ toldHosts' = hosts /\ toldJobs' = jobs
  BY DEF Announce
<1>3. Sent(wire') = w \o <<e>>
  BY <1>2, SentLaws DEF TypeOK, SchedulerTypeOK
<1>4. Pictured' = Final(state, q \o Sent(wire'))
  BY DEF Pictured
<1> HIDE DEF q, w
<1>5. <<e>> \in Seq(MonitorEvent)
  OBVIOUS
<1>6. q \o (w \o <<e>>) = (q \o w) \o <<e>>
  BY <1>1, <1>5, ConcatAssociative
<1>7. Final(state, (q \o w) \o <<e>>) = ApplyEvent(Final(state, q \o w), e)
  BY <1>1, FinalLaws DEF TypeOK
<1> QED BY <1>2, <1>3, <1>4, <1>6, <1>7 DEF Pictured, q, w

(* Every announcement keeps the picture exact.                             *)
LEMMA SchedulerWorksExact ==
    ASSUME TypeOK, SchedulerWorks, UNCHANGED <<eventq, monq, state>>, link = "up",
           Exact(Pictured, toldHosts, toldJobs, srvJobs)
    PROVE  Exact(Pictured', toldHosts', toldJobs', srvJobs')
<1>0. /\ Pictured \in State /\ toldHosts \in SUBSET HostId /\ toldJobs \in SUBSET JobId
      /\ srvJobs \in [JobId -> Job \cup {Absent}]
  BY PicturedType DEF TypeOK, SchedulerTypeOK
<1>1. ASSUME NEW h \in HostId, NEW name \in Name, HostReports(h, name)
      PROVE  Exact(Pictured', toldHosts', toldJobs', srvJobs')
  <2> DEFINE m == [kind |-> "MonStats", host_id |-> h, name |-> name]
             e == [kind |-> "HostStats", host |-> h, name |-> name]
  <2>1. /\ m \in Message /\ e \in MonitorEvent /\ EventsOf(m) = <<e>>
        /\ \A s : ApplyEvent(s, e) = ApplyHostStats(s, h, name)
    BY MessageTypes DEF MonitorEvent, DataEvent, EventsOf, ApplyEvent
  <2>2. Announce(m, toldHosts \cup {h}, toldJobs) /\ srvJobs' = srvJobs
    BY <1>1 DEF HostReports
  <2> HIDE DEF m, e
  <2>3. /\ Pictured' = ApplyHostStats(Pictured, h, name)
        /\ toldHosts' = toldHosts \cup {h} /\ toldJobs' = toldJobs
    BY <2>1, <2>2, AnnouncedIsApplied
  <2> QED BY <1>0, <2>2, <2>3, StatsExact
<1>2. ASSUME NEW h \in HostId, HostLeaves(h)
      PROVE  Exact(Pictured', toldHosts', toldJobs', srvJobs')
  <2> DEFINE m == [kind |-> "MonStats", host_id |-> h, name |-> NoName]
             e == [kind |-> "HostStats", host |-> h, name |-> NoName]
  <2>1. /\ m \in Message /\ e \in MonitorEvent /\ EventsOf(m) = <<e>>
        /\ \A s : ApplyEvent(s, e) = ApplyHostStats(s, h, NoName)
    BY MessageTypes DEF MonitorEvent, DataEvent, EventsOf, ApplyEvent
  <2>2. Announce(m, toldHosts \ {h}, toldJobs) /\ srvJobs' = srvJobs
    BY <1>2 DEF HostLeaves
  <2> HIDE DEF m, e
  <2>3. /\ Pictured' = ApplyHostStats(Pictured, h, NoName)
        /\ toldHosts' = toldHosts \ {h} /\ toldJobs' = toldJobs
    BY <2>1, <2>2, AnnouncedIsApplied
  <2> QED BY <1>0, <2>2, <2>3, StatsExact
<1>3. ASSUME NEW j \in JobId, NEW h \in HostId, JobRequested(j, h)
      PROVE  Exact(Pictured', toldHosts', toldJobs', srvJobs')
  <2> DEFINE m == [kind |-> "MonGetCs", job_id |-> j, client_id |-> h]
             e == [kind |-> "JobPending", job |-> j, client |-> h]
  <2>1. /\ m \in Message /\ e \in MonitorEvent /\ EventsOf(m) = <<e>>
        /\ \A s : ApplyEvent(s, e) = ApplyJobPending(s, j, h)
    BY MessageTypes DEF MonitorEvent, DataEvent, EventsOf, ApplyEvent
  <2>2. /\ Announce(m, toldHosts, toldJobs \cup {j})
        /\ srvJobs' = [srvJobs EXCEPT ![j] =
               [client_id |-> h, host_id |-> NoHost, state |-> "Pending"]]
    BY <1>3 DEF JobRequested
  <2> HIDE DEF m, e
  <2>3. /\ Pictured' = ApplyJobPending(Pictured, j, h)
        /\ toldHosts' = toldHosts /\ toldJobs' = toldJobs \cup {j}
    BY <2>1, <2>2, AnnouncedIsApplied
  <2> QED BY <1>0, <2>2, <2>3, JobsExact
<1>4. ASSUME NEW j \in JobId, NEW h \in HostId, JobStarts(j, h)
      PROVE  Exact(Pictured', toldHosts', toldJobs', srvJobs')
  <2> DEFINE m == [kind |-> "MonJobBegin", job_id |-> j, host_id |-> h]
             e == [kind |-> "JobBegin", job |-> j, host |-> h]
  <2>1. /\ m \in Message /\ e \in MonitorEvent /\ EventsOf(m) = <<e>>
        /\ \A s : ApplyEvent(s, e) = ApplyJobBegin(s, j, h)
    BY MessageTypes DEF MonitorEvent, DataEvent, EventsOf, ApplyEvent
  <2>2. /\ Announce(m, toldHosts, toldJobs) /\ srvJobs[j] # Absent
        /\ srvJobs' = [srvJobs EXCEPT ![j].host_id = h, ![j].state = "RemoteActive"]
    BY <1>4 DEF JobStarts
  <2> HIDE DEF m, e
  <2>3. /\ Pictured' = ApplyJobBegin(Pictured, j, h)
        /\ toldHosts' = toldHosts /\ toldJobs' = toldJobs
    BY <2>1, <2>2, AnnouncedIsApplied
  <2> QED BY <1>0, <2>2, <2>3, JobsExact
<1>5. ASSUME NEW j \in JobId, NEW h \in HostId, LocalJobStarts(j, h)
      PROVE  Exact(Pictured', toldHosts', toldJobs', srvJobs')
  <2> DEFINE m == [kind |-> "MonLocalJobBegin", job_id |-> j, host_id |-> h]
             e == [kind |-> "LocalJobBegin", job |-> j, host |-> h]
  <2>1. /\ m \in Message /\ e \in MonitorEvent /\ EventsOf(m) = <<e>>
        /\ \A s : ApplyEvent(s, e) = ApplyLocalJobBegin(s, j, h)
    BY MessageTypes DEF MonitorEvent, DataEvent, EventsOf, ApplyEvent
  <2>2. /\ Announce(m, toldHosts, toldJobs \cup {j})
        /\ srvJobs' = [srvJobs EXCEPT ![j] =
               [client_id |-> h, host_id |-> h, state |-> "LocalActive"]]
    BY <1>5 DEF LocalJobStarts
  <2> HIDE DEF m, e
  <2>3. /\ Pictured' = ApplyLocalJobBegin(Pictured, j, h)
        /\ toldHosts' = toldHosts /\ toldJobs' = toldJobs \cup {j}
    BY <2>1, <2>2, AnnouncedIsApplied
  <2> QED BY <1>0, <2>2, <2>3, JobsExact
<1>6. ASSUME NEW j \in JobId, JobFinishes(j)
      PROVE  Exact(Pictured', toldHosts', toldJobs', srvJobs')
  <2> DEFINE k == IF srvJobs[j].state = "LocalActive" THEN "JobLocalDone" ELSE "MonJobDone"
             m == [kind |-> k, job_id |-> j]
             e == [kind |-> "JobDone", job |-> j]
  <2>1. /\ m \in Message /\ e \in MonitorEvent /\ EventsOf(m) = <<e>>
        /\ \A s : ApplyEvent(s, e) = ApplyJobDone(s, j)
    <3>1. k \in {"MonJobDone", "JobLocalDone"}
      OBVIOUS
    <3> HIDE DEF k
    <3> QED BY <3>1, MessageTypes DEF MonitorEvent, DataEvent, EventsOf, ApplyEvent
  <2>2. /\ Announce(m, toldHosts, toldJobs \ {j})
        /\ srvJobs' = [srvJobs EXCEPT ![j] = Absent]
    BY <1>6 DEF JobFinishes
  <2> HIDE DEF m, e, k
  <2>3. /\ Pictured' = ApplyJobDone(Pictured, j)
        /\ toldHosts' = toldHosts /\ toldJobs' = toldJobs \ {j}
    BY <2>1, <2>2, AnnouncedIsApplied
  <2>4. \E h \in HostId : TRUE
    <3>1. srvJobs[j] \in Job
      BY <1>0, <1>6 DEF JobFinishes
    <3> QED BY <3>1 DEF Job
  <2> QED BY <1>0, <2>2, <2>3, <2>4, JobsExact
<1>7. CASE Ping
  <2>1. /\ [kind |-> "Ping"] \in Message /\ EventsOf([kind |-> "Ping"]) = <<>>
    BY MessageTypes DEF EventsOf
  <2>2. Sent(wire') = Sent(wire) \o <<>>
    BY <1>7, <2>1, SentLaws DEF Ping, TypeOK, SchedulerTypeOK
  <2>3. Sent(wire') = Sent(wire)
    BY <2>2, PicturedType, ConcatEmptySeq
  <2>4. Pictured' = Pictured
    BY <2>3 DEF Pictured
  <2> QED BY <1>7, <2>4 DEF Ping, truth, told
<1> QED BY <1>1, <1>2, <1>3, <1>4, <1>5, <1>6, <1>7 DEF SchedulerWorks

LEMMA InitPicture == Init => PictureInv
<1> SUFFICES ASSUME Init PROVE PictureInv
  OBVIOUS
<1> DEFINE none == <<>>
<1>1. pc = "discover" /\ state = NewState /\ eventq \o monq = none
  BY EmptySeq, ConcatEmptySeq DEF Init
<1>2. NothingShown(NewState)
  BY DEF NewState, NothingShown, Shown
<1>3. Final(NewState, none) = NewState
  BY NewStateType, ApplyingIsStep, FoldEmpty DEF Final
<1> HIDE DEF none
<1> QED BY <1>1, <1>2, <1>3 DEF PictureInv

(* Disconnected, sent by a failed attempt or at the end of a connection,   *)
(* is the last event of the feed and clears the picture.                   *)
LEMMA DisconnectedClears ==
    ASSUME TypeOK, Send(DisconnectedEvent), UNCHANGED <<eventq, state>>
    PROVE  NothingShown(Final(state', eventq' \o monq'))
<1> DEFINE q == eventq \o monq
           e == DisconnectedEvent
<1>1. q \in Seq(MonitorEvent) /\ e \in MonitorEvent
  BY PicturedType DEF MonitorEvent
<1>2. eventq' \o monq' = q \o <<e>>
  <2>1. monq' = monq \o <<e>> /\ <<e>> \in Seq(MonitorEvent)
    BY <1>1, AppendIsConcat DEF Send, TypeOK
  <2>2. eventq \o (monq \o <<e>>) = (eventq \o monq) \o <<e>>
    BY <2>1, ConcatAssociative DEF TypeOK
  <2> QED BY <2>1, <2>2
<1> HIDE DEF q, e
<1>3. Final(state, q \o <<e>>) = ApplyEvent(Final(state, q), e) /\ Final(state, q) \in State
  BY <1>1, FinalLaws DEF TypeOK
<1>4. NothingShown(ApplyEvent(Final(state, q), e))
  BY <1>3, ConnectionAfter DEF e
<1> QED BY <1>2, <1>3, <1>4

(* A step that takes events from one place and puts them, in order, to the *)
(* next, or applies the first of them, leaves the final picture alone.     *)
LEMMA SameFinal ==
    ASSUME TypeOK,
           \/ UNCHANGED <<state, eventq, monq>>
           \/ Forward
           \/ Process
    PROVE  /\ Final(state', eventq' \o monq') = Final(state, eventq \o monq)
           /\ wire' = wire => Pictured' = Pictured
<1> USE DEF TypeOK
<1> DEFINE w == Sent(wire)
<1>0. w \in Seq(MonitorEvent)
  BY PicturedType
<1>1. CASE UNCHANGED <<state, eventq, monq>>
  BY <1>1 DEF Pictured
<1>2. CASE Forward
  <2> DEFINE h == Head(monq)
             t == Tail(monq)
  <2>1. h \in MonitorEvent /\ t \in Seq(MonitorEvent) /\ monq = <<h>> \o t
    BY <1>2, HeadTailProperties DEF Forward
  <2>2. eventq' = eventq \o <<h>> /\ monq' = t /\ state' = state
    BY <1>2, <2>1, AppendIsConcat DEF Forward
  <2> HIDE DEF h, t
  <2>3. eventq' \o monq' = eventq \o monq
    BY <2>1, <2>2, ConcatAssociative
  <2> QED BY <2>2, <2>3 DEF Pictured
<1>3. CASE Process
  <2> DEFINE e == Head(eventq)
             t == Tail(eventq)
             q == t \o monq
  <2>1. e \in MonitorEvent /\ t \in Seq(MonitorEvent) /\ eventq = <<e>> \o t
    BY <1>3, HeadTailProperties DEF Process
  <2>2. state' = ApplyEvent(state, e) /\ eventq' = t /\ monq' = monq
    BY <1>3 DEF Process
  <2> HIDE DEF e, t
  <2>3. <<e>> \in Seq(MonitorEvent)
    BY <2>1
  <2>4. q \in Seq(MonitorEvent) /\ eventq \o monq = <<e>> \o q
    BY <2>1, <2>3, ConcatProperties, ConcatAssociative
  <2>5. eventq' \o monq' = q
    BY <2>2
  <2> HIDE DEF q, w
  <2>6. q \o w \in Seq(MonitorEvent) /\ (<<e>> \o q) \o w = <<e>> \o (q \o w)
    BY <1>0, <2>3, <2>4, ConcatProperties, ConcatAssociative
  <2>7. /\ Final(state, <<e>> \o q) = Final(state', q)
        /\ Final(state, <<e>> \o (q \o w)) = Final(state', q \o w)
    BY <2>1, <2>2, <2>4, <2>6, FinalLaws
  <2> QED BY <2>4, <2>5, <2>6, <2>7 DEF Pictured, w
<1> QED BY <1>1, <1>2, <1>3

LEMMA NextPicture == TypeOK /\ PictureInv /\ [Next]_vars => PictureInv'
<1> SUFFICES ASSUME TypeOK, PictureInv, [Next]_vars PROVE PictureInv'
  OBVIOUS
<1>1. CASE Connect
  <2>1. PICK s \in Scheduler : Send([kind |-> "Connected", scheduler |-> s])
    BY <1>1 DEF Connect
  <2> DEFINE e == [kind |-> "Connected", scheduler |-> s]
             q == eventq \o monq
  <2>2. e \in ConnectedEvent /\ e \in MonitorEvent /\ q \in Seq(MonitorEvent)
    BY PicturedType DEF ConnectedEvent, MonitorEvent
  <2>3. eventq' \o monq' \o Sent(wire') = q \o <<e>>
    <3>1. monq' = monq \o <<e>> /\ <<e>> \in Seq(MonitorEvent)
      BY <2>1, <2>2, AppendIsConcat DEF Send, TypeOK
    <3>2. eventq \o (monq \o <<e>>) = (eventq \o monq) \o <<e>>
      BY <3>1, ConcatAssociative DEF TypeOK
    <3>3. Sent(wire') = <<>> /\ eventq' = eventq
      BY <1>1, SentLaws, MessageTypes DEF Connect, TypeOK, SchedulerTypeOK
    <3>4. q \o <<e>> \in Seq(MonitorEvent)
      BY <2>2, <3>1, ConcatProperties
    <3>5. (q \o <<e>>) \o <<>> = q \o <<e>>
      BY <3>4, ConcatEmptySeq
    <3> QED BY <3>1, <3>2, <3>3, <3>5
  <2> HIDE DEF e, q
  <2> DEFINE f == Final(state, q)
  <2>4. /\ Final(state, q \o <<e>>) = ApplyEvent(f, e) /\ f \in State
        /\ state' = state
    BY <1>1, <2>2, FinalLaws DEF TypeOK, Connect
  <2>5. NothingShown(f)
    BY <1>1 DEF PictureInv, Connect, q
  <2> HIDE DEF f
  <2>6. /\ ApplyEvent(f, e).connected /\ ApplyEvent(f, e).hosts = f.hosts
        /\ ApplyEvent(f, e).jobs = f.jobs
    BY <2>2, <2>4, ConnectionAfter
  <2>7. f.jobs = [j \in JobId |-> Absent]
    BY <2>4, <2>5 DEF NothingShown, Shown, State
  <2>8. Exact(ApplyEvent(f, e), {}, {}, srvJobs')
    BY <2>5, <2>6, <2>7 DEF Exact, NothingShown
  <2>9. Pictured' = ApplyEvent(f, e)
    BY <2>3, <2>4 DEF Pictured
  <2> QED BY <1>1, <2>8, <2>9 DEF PictureInv, Connect
<1>2. CASE AttemptFails \/ ReceiveLast
  BY <1>2, DisconnectedClears DEF AttemptFails, ReceiveLast, PictureInv
<1>3. CASE Receive
  <2> DEFINE m == Head(wire)
             r == Tail(wire)
             q == eventq \o monq
  <2>1. m \in Message /\ r \in Seq(Message) /\ Sent(wire) = EventsOf(m) \o Sent(r)
    BY <1>3, HeadTailProperties, SentLaws DEF Receive, TypeOK, SchedulerTypeOK
  <2>2. wire' = r /\ monq' = monq \o EventsOf(m) /\ eventq' = eventq /\ state' = state
    BY <1>3 DEF Receive
  <2> HIDE DEF m, r
  <2>3. EventsOf(m) \in Seq(MonitorEvent) /\ Sent(r) \in Seq(MonitorEvent)
    BY <2>1, EventsOfSeq, SentLaws
  <2>4. eventq \o (monq \o EventsOf(m)) = q \o EventsOf(m) /\ q \in Seq(MonitorEvent)
    BY <2>3, PicturedType, ConcatAssociative DEF TypeOK
  <2> HIDE DEF q
  <2>5. (q \o EventsOf(m)) \o Sent(r) = q \o (EventsOf(m) \o Sent(r))
    BY <2>3, <2>4, ConcatAssociative
  <2>6. Pictured' = Pictured
    BY <2>1, <2>2, <2>4, <2>5 DEF Pictured, q
  <2> QED BY <1>3, <2>6 DEF PictureInv, Receive, truth, told
<1>4. CASE Forward \/ Process
  BY <1>4, SameFinal DEF Forward, Process, schedulerVars, PictureInv
<1>5. CASE Discover \/ WakeUp \/ UNCHANGED vars
  <2>1. UNCHANGED <<state, eventq, monq, wire, link, toldHosts, toldJobs, srvJobs>>
    BY <1>5 DEF Discover, WakeUp, vars, schedulerVars
  <2>2. pc' = pc \/ (pc # "receive" /\ pc' # "receive")
    BY <1>5 DEF Discover, WakeUp, vars
  <2> QED BY <2>1, <2>2, SameFinal DEF PictureInv
<1>6. CASE HandshakeStalls
  <2>1. UNCHANGED <<state, eventq, monq, pc>> /\ pc = "connect"
    BY <1>6 DEF HandshakeStalls, monitorVars
  <2> QED BY <2>1, SameFinal DEF PictureInv
<1>7. CASE SchedulerWorks /\ UNCHANGED monitorVars
  <2>1. UNCHANGED <<state, eventq, monq, pc, link>>
    BY <1>7 DEF SchedulerWorks, monitorVars
  <2> QED BY <1>7, <2>1, SameFinal, SchedulerWorksExact DEF PictureInv
<1>8. CASE NetworkNext /\ UNCHANGED monitorVars
  <2>1. UNCHANGED <<state, eventq, monq, pc>>
    BY <1>8 DEF monitorVars
  <2>2. link' = "up" => link = "up" /\ UNCHANGED <<wire, toldHosts, toldJobs, srvJobs>>
    BY <1>8 DEF NetworkNext, ConnectionEnds, SchedulerRestarts, GoesSilent,
                ReachabilityChanges, Hangup, truth, told
  <2> QED BY <2>1, <2>2, SameFinal DEF PictureInv
<1> QED BY <1>1, <1>2, <1>3, <1>4, <1>5, <1>6, <1>7, <1>8 DEF Next, MonitorTask

(* A picture that has caught up is the truth.                              *)
LEMMA PictureFollows == TypeOK /\ PictureInv => PictureIsExact
<1> SUFFICES ASSUME TypeOK, PictureInv, pc = "receive", link = "up"
             PROVE  LET sent == FlattenSeq([i \in DOMAIN wire |-> EventsOf(wire[i])])
                        final == FoldLeft(ApplyEvent, state, eventq \o monq \o sent)
                    IN  /\ final.connected
                        /\ {h \in HostId : Shown(final.hosts, h)} = toldHosts
                        /\ final.jobs =
                             [j \in JobId |-> IF j \in toldJobs THEN srvJobs[j] ELSE Absent]
  BY DEF PictureIsExact
<1>1. FoldLeft(ApplyEvent, state, eventq \o monq \o Sent(wire)) = Pictured
  BY PicturedType, FoldLeftApplies DEF Pictured, TypeOK
<1>2. Exact(Pictured, toldHosts, toldJobs, srvJobs)
  BY DEF PictureInv
<1> QED BY <1>1, <1>2 DEF Sent, Exact

(* What the table shows while a connection is up is, once it has caught up *)
(* with what is under way, what the scheduler announced: no event is lost, *)
(* doubled, reordered or left over from an earlier connection.             *)
THEOREM PictureCorrect == Spec => []PictureIsExact
<1>1. TypeOK /\ PictureInv /\ [Next]_vars => (TypeOK /\ PictureInv)'
  BY NextType, NextPicture
<1> QED BY <1>1, InitType, InitPicture, PictureFollows, PTL DEF Spec
=============================================================================
