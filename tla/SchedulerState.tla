--------------------------- MODULE SchedulerState ---------------------------
(***************************************************************************)
(* The monitor's picture of the compile farm: struct SchedulerState of     *)
(* src/src/model.rs and its one mutator, apply_event, as a function from a *)
(* state and an event to the next state.                                   *)
(*                                                                         *)
(* Left out, because no property depends on them: file names, start times, *)
(* and every attribute of a host except its "Name", whose absence decides  *)
(* whether a host is dropped.                                              *)
(***************************************************************************)
EXTENDS Naturals, FiniteSets

CONSTANTS
    HostId,       \* the ids the scheduler gives to hosts; 0 is not one of them
    JobId,        \* the ids the scheduler gives to jobs
    NoHost,       \* the host_id 0 of a job that runs nowhere yet
    Name,         \* the values of the attribute "Name"
    NoName,       \* an attribute list without the key "Name"
    Scheduler,    \* the names a Connected event can carry
    NoScheduler,  \* the empty name shown before the first connection
    Absent,       \* what HashMap::get returns for a key that is not there
    U8,           \* how many values a u8 has: the range of next_color
    U32,          \* how many values a u32 has: the range of a host's counters
    U64           \* how many values a u64 has: the range of the totals

JobState == {"Pending", "RemoteActive", "LocalActive"}

Host == [ name : Name, color_idx : 0..(U8 - 1), total_in : 0..(U32 - 1),
          total_out : 0..(U32 - 1), total_local : 0..(U32 - 1) ]

Job == [ client_id : HostId, host_id : HostId \cup {NoHost}, state : JobState ]

State == [ hosts : [HostId -> Host \cup {Absent}],
           jobs : [JobId -> Job \cup {Absent}],
           scheduler_name : Scheduler \cup {NoScheduler},
           connected : BOOLEAN,
           total_remote : 0..(U64 - 1),
           total_local : 0..(U64 - 1),
           next_color : 0..(U8 - 1) ]

ASSUME StateAssumption ==
    /\ U8 \in Nat \ {0} /\ U32 \in Nat \ {0} /\ U64 \in Nat \ {0}
    /\ NoHost \notin HostId
    /\ NoName \notin Name
    /\ Absent \notin Host /\ Absent \notin Job

(***************************************************************************)
(* MonitorEvent.  The data events are the ones that tell of hosts and jobs;*)
(* the monitor sends them only while it is connected.                      *)
(***************************************************************************)
ConnectedEvent == [ kind : {"Connected"}, scheduler : Scheduler ]
DisconnectedEvent == [ kind |-> "Disconnected" ]
DataEvent ==
    [ kind : {"HostStats"}, host : HostId, name : Name \cup {NoName} ]
        \cup [ kind : {"JobPending"}, job : JobId, client : HostId ]
        \cup [ kind : {"JobBegin", "LocalJobBegin"}, job : JobId, host : HostId ]
        \cup [ kind : {"JobDone"}, job : JobId ]

MonitorEvent == ConnectedEvent \cup {DisconnectedEvent} \cup DataEvent

-----------------------------------------------------------------------------
(* SchedulerState::new.                                                    *)
NewState ==
    [ hosts |-> [h \in HostId |-> Absent], jobs |-> [j \in JobId |-> Absent],
      scheduler_name |-> NoScheduler, connected |-> FALSE,
      total_remote |-> 0, total_local |-> 0, next_color |-> 0 ]

(* Host::new followed by update_attrs.                                     *)
NewHost(name, color) ==
    [ name |-> name, color_idx |-> color,
      total_in |-> 0, total_out |-> 0, total_local |-> 0 ]

(* `+= 1` on a u32 and on a u64; the release build wraps.                  *)
Inc32(n) == (n + 1) % U32
Inc64(n) == (n + 1) % U64

Shown(map, k) == map[k] # Absent
NothingShown(s) ==
    /\ \A h \in HostId : ~Shown(s.hosts, h)
    /\ \A j \in JobId : ~Shown(s.jobs, j)

-----------------------------------------------------------------------------
(* The arms of apply_event, one operator each.                             *)

ApplyConnected(s, scheduler) ==
    [s EXCEPT !.scheduler_name = scheduler, !.connected = TRUE]

(* Mutant: the jobs of a lost connection stay.                             *)
ApplyDisconnected_KeepsJobs(s) ==
    [s EXCEPT !.connected = FALSE, !.hosts = [h \in HostId |-> Absent]]

ApplyDisconnected(s) ==
    [s EXCEPT !.connected = FALSE,
              !.hosts = [h \in HostId |-> Absent],
              !.jobs = [j \in JobId |-> Absent]]

(* Mutants: next_color does not wrap; a host is made anew by every report; *)
(* the colour is the number of hosts shown.                                *)
ApplyHostStats_NoWrap(s, h, name) ==
    IF name = NoName THEN [s EXCEPT !.hosts[h] = Absent]
    ELSE IF Shown(s.hosts, h) THEN [s EXCEPT !.hosts[h].name = name]
    ELSE [s EXCEPT !.hosts[h] = NewHost(name, s.next_color), !.next_color = @ + 1]
ApplyHostStats_MakesAnew(s, h, name) ==
    IF name = NoName THEN [s EXCEPT !.hosts[h] = Absent]
    ELSE [s EXCEPT !.hosts[h] = NewHost(name, s.next_color),
                   !.next_color = (@ + 1) % U8]
ApplyHostStats_ColourByCount(s, h, name) ==
    IF name = NoName THEN [s EXCEPT !.hosts[h] = Absent]
    ELSE IF Shown(s.hosts, h) THEN [s EXCEPT !.hosts[h].name = name]
    ELSE [s EXCEPT !.hosts[h] =
              NewHost(name, Cardinality({g \in HostId : Shown(s.hosts, g)}) % U8)]

(* No "Name" removes the host.  A host seen for the first time takes the   *)
(* next colour; a known one keeps its colour and its counters.             *)
ApplyHostStats(s, h, name) ==
    IF name = NoName THEN [s EXCEPT !.hosts[h] = Absent]
    ELSE IF Shown(s.hosts, h) THEN [s EXCEPT !.hosts[h].name = name]
    ELSE [s EXCEPT !.hosts[h] = NewHost(name, s.next_color),
                   !.next_color = (@ + 1) % U8]

ApplyJobPending(s, j, client) ==
    [s EXCEPT !.jobs[j] =
        [client_id |-> client, host_id |-> NoHost, state |-> "Pending"]]

(* The two counters of hosts are bumped one after the other, so a client   *)
(* that runs its own remote job has both bumped.                           *)
BumpIn(hosts, h) ==
    IF Shown(hosts, h) THEN [hosts EXCEPT ![h].total_in = Inc32(@)] ELSE hosts
BumpOut(hosts, h) ==
    IF Shown(hosts, h) THEN [hosts EXCEPT ![h].total_out = Inc32(@)] ELSE hosts
BumpLocal(hosts, h) ==
    IF Shown(hosts, h) THEN [hosts EXCEPT ![h].total_local = Inc32(@)] ELSE hosts

(* Mutants: a job that begins twice is counted once in the header, not in  *)
(* the table; the job does not learn its host.                             *)
ApplyJobBegin_TotalOnce(s, j, h) ==
    IF ~Shown(s.jobs, j) THEN s
    ELSE [s EXCEPT !.jobs[j].host_id = h,
                   !.jobs[j].state = "RemoteActive",
                   !.hosts = BumpOut(BumpIn(@, h), s.jobs[j].client_id),
                   !.total_remote = IF s.jobs[j].state = "Pending" THEN Inc64(@) ELSE @]
ApplyJobBegin_NoHostId(s, j, h) ==
    IF ~Shown(s.jobs, j) THEN s
    ELSE [s EXCEPT !.jobs[j].state = "RemoteActive",
                   !.hosts = BumpOut(BumpIn(@, h), s.jobs[j].client_id),
                   !.total_remote = Inc64(@)]

(* The begin of a job the monitor does not know is dropped.                *)
ApplyJobBegin(s, j, h) ==
    IF ~Shown(s.jobs, j) THEN s
    ELSE [s EXCEPT !.jobs[j].host_id = h,
                   !.jobs[j].state = "RemoteActive",
                   !.hosts = BumpOut(BumpIn(@, h), s.jobs[j].client_id),
                   !.total_remote = Inc64(@)]

(* Mutant: a job id that is known already is not counted for its host.     *)
ApplyLocalJobBegin_CountsNew(s, j, h) ==
    [s EXCEPT !.jobs[j] =
                  [client_id |-> h, host_id |-> h, state |-> "LocalActive"],
              !.hosts = IF Shown(s.jobs, j) THEN @ ELSE BumpLocal(@, h),
              !.total_local = Inc64(@)]

ApplyLocalJobBegin(s, j, h) ==
    [s EXCEPT !.jobs[j] =
                  [client_id |-> h, host_id |-> h, state |-> "LocalActive"],
              !.hosts = BumpLocal(@, h),
              !.total_local = Inc64(@)]

ApplyJobDone(s, j) == [s EXCEPT !.jobs[j] = Absent]

(* SchedulerState::apply_event.                                            *)
ApplyEvent(s, e) ==
    CASE e.kind = "Connected" -> ApplyConnected(s, e.scheduler)
      [] e.kind = "Disconnected" -> ApplyDisconnected(s)
      [] e.kind = "HostStats" -> ApplyHostStats(s, e.host, e.name)
      [] e.kind = "JobPending" -> ApplyJobPending(s, e.job, e.client)
      [] e.kind = "JobBegin" -> ApplyJobBegin(s, e.job, e.host)
      [] e.kind = "LocalJobBegin" -> ApplyLocalJobBegin(s, e.job, e.host)
      [] e.kind = "JobDone" -> ApplyJobDone(s, e.job)
=============================================================================
