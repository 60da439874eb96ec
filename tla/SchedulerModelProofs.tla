------------------------ MODULE SchedulerModelProofs ------------------------
(***************************************************************************)
(* What apply_event keeps true under every sequence of events, for any     *)
(* number of hosts and jobs.                                               *)
(*                                                                         *)
(* A host's counter can only be compared with an earlier value of itself,  *)
(* or with the jobs that run, as long as it does not wrap.  So the         *)
(* invariant has each of them below the header's total, which the bound on *)
(* job starts keeps below the width of a counter.                          *)
(***************************************************************************)
EXTENDS SchedulerModel, DataProofs

(* The jobs counted for h, of either kind.                                 *)
Counted(s, c, h, st) ==
    {j \in c : Shown(s.jobs, j) /\ s.jobs[j].state = st /\ s.jobs[j].host_id = h}

BelowTotals ==
    /\ state.total_remote <= MaxStarts
    /\ state.total_local <= MaxStarts
    /\ \A h \in HostId : Shown(state.hosts, h) =>
          /\ state.hosts[h].total_in <= state.total_remote
          /\ state.hosts[h].total_out <= state.total_remote
          /\ state.hosts[h].total_local <= state.total_local

CountedRun ==
    \A j \in counted :
        /\ Shown(state.jobs, j)
        /\ Shown(state.hosts, state.jobs[j].host_id)

CountersCover ==
    \A h \in HostId : Shown(state.hosts, h) =>
        /\ Cardinality(Counted(state, counted, h, "RemoteActive"))
             <= state.hosts[h].total_in
        /\ Cardinality(Counted(state, counted, h, "LocalActive"))
             <= state.hosts[h].total_local

IInv == TypeOK /\ JobShape /\ BelowTotals /\ CountedRun /\ CountersCover

-----------------------------------------------------------------------------
(* What one event does to hosts and jobs, field by field.                  *)

(* An increment below the bound is a plain one.                            *)
LEMMA IncPlain ==
    /\ \A n \in Nat : n < MaxStarts => Inc32(n) = n + 1
    /\ \A n \in Nat : n < MaxStarts => Inc64(n) = n + 1
BY ModelAssumption, StateAssumption
   DEF ModelAssumption, StateAssumption, Inc32, Inc64

(* Counters and the colour index stay within the width of their type.      *)
LEMMA IncType ==
    /\ \A n \in 0..(U32 - 1) : Inc32(n) \in 0..(U32 - 1)
    /\ \A n \in 0..(U64 - 1) : Inc64(n) \in 0..(U64 - 1)
    /\ \A n \in 0..(U8 - 1) : (n + 1) % U8 \in 0..(U8 - 1)
BY StateAssumption DEF StateAssumption, Inc32, Inc64

(* A bump raises one counter of one host, and leaves the table a table.    *)
LEMMA BumpEffect ==
    ASSUME NEW hosts \in [HostId -> Host \cup {Absent}], NEW h \in HostId, NEW g \in HostId
    PROVE  /\ {BumpIn(hosts, h), BumpOut(hosts, h), BumpLocal(hosts, h)}
                \subseteq [HostId -> Host \cup {Absent}]
           /\ Shown(BumpIn(hosts, h), g) <=> Shown(hosts, g)
           /\ Shown(BumpOut(hosts, h), g) <=> Shown(hosts, g)
           /\ Shown(BumpLocal(hosts, h), g) <=> Shown(hosts, g)
           /\ Shown(hosts, g) =>
                /\ BumpIn(hosts, h)[g] =
                     IF g = h THEN [hosts[g] EXCEPT !.total_in = Inc32(@)] ELSE hosts[g]
                /\ BumpOut(hosts, h)[g] =
                     IF g = h THEN [hosts[g] EXCEPT !.total_out = Inc32(@)] ELSE hosts[g]
                /\ BumpLocal(hosts, h)[g] =
                     IF g = h THEN [hosts[g] EXCEPT !.total_local = Inc32(@)] ELSE hosts[g]
<1>1. ASSUME NEW r \in Host
      PROVE  /\ [r EXCEPT !.total_in = Inc32(@)] \in Host \ {Absent}
             /\ [r EXCEPT !.total_out = Inc32(@)] \in Host \ {Absent}
             /\ [r EXCEPT !.total_local = Inc32(@)] \in Host \ {Absent}
  <2>1. /\ [r EXCEPT !.total_in = Inc32(@)] \in Host
        /\ [r EXCEPT !.total_out = Inc32(@)] \in Host
        /\ [r EXCEPT !.total_local = Inc32(@)] \in Host
    BY IncType DEF Host
  <2> QED BY <2>1, StateAssumption DEF StateAssumption
<1>2. CASE ~Shown(hosts, h)
  BY <1>2 DEF BumpIn, BumpOut, BumpLocal, Shown
<1>3. CASE Shown(hosts, h)
  BY <1>1, <1>3 DEF BumpIn, BumpOut, BumpLocal, Shown
<1> QED BY <1>2, <1>3

(* Before and after, for a host that stays in the table: nothing but the   *)
(* name changes.                                                           *)
SameHost(r, q) ==
    /\ q.color_idx = r.color_idx
    /\ q.total_in = r.total_in /\ q.total_out = r.total_out
    /\ q.total_local = r.total_local

(* A host's report adds it, renews it or drops it, and touches no other    *)
(* host, no job and no total.                                              *)
LEMMA HostStatsEffect ==
    ASSUME NEW s \in State, NEW h \in HostId, NEW name \in Name \cup {NoName}
    PROVE  LET t == ApplyHostStats(s, h, name)
           IN  /\ t.jobs = s.jobs
               /\ t.total_remote = s.total_remote /\ t.total_local = s.total_local
               /\ \A g \in HostId : Shown(t.hosts, g) /\ Shown(s.hosts, g)
                     => SameHost(s.hosts[g], t.hosts[g])
               /\ \A g \in HostId : Shown(t.hosts, g) /\ ~Shown(s.hosts, g)
                     => /\ t.hosts[g].total_in = 0 /\ t.hosts[g].total_out = 0
                        /\ t.hosts[g].total_local = 0
<1> SUFFICES ASSUME NEW t, t = ApplyHostStats(s, h, name)
             PROVE  /\ t.jobs = s.jobs
                    /\ t.total_remote = s.total_remote /\ t.total_local = s.total_local
                    /\ \A g \in HostId : Shown(t.hosts, g) /\ Shown(s.hosts, g)
                          => SameHost(s.hosts[g], t.hosts[g])
                    /\ \A g \in HostId : Shown(t.hosts, g) /\ ~Shown(s.hosts, g)
                          => /\ t.hosts[g].total_in = 0 /\ t.hosts[g].total_out = 0
                             /\ t.hosts[g].total_local = 0
  OBVIOUS
<1>1. CASE name = NoName
  <2>1. t.hosts = [s.hosts EXCEPT ![h] = Absent]
    BY <1>1 DEF ApplyHostStats, State
  <2> QED BY <1>1, <2>1 DEF ApplyHostStats, State, Shown, SameHost
<1>2. CASE name # NoName /\ Shown(s.hosts, h)
  <2>1. t.hosts = [s.hosts EXCEPT ![h] = [s.hosts[h] EXCEPT !.name = name]]
    BY <1>2 DEF ApplyHostStats, State
  <2>2. SameHost(s.hosts[h], [s.hosts[h] EXCEPT !.name = name])
    BY <1>2 DEF State, Shown, Host, SameHost
  <2> QED BY <1>2, <2>1, <2>2 DEF ApplyHostStats, State, Shown, SameHost
<1>3. CASE name # NoName /\ ~Shown(s.hosts, h)
  <2>1. t.hosts = [s.hosts EXCEPT ![h] = NewHost(name, s.next_color)]
    BY <1>3 DEF ApplyHostStats, State
  <2> QED BY <1>3, <2>1 DEF ApplyHostStats, State, Shown, SameHost, NewHost
<1> QED BY <1>1, <1>2, <1>3

(* The begin of a known job moves it to its host and raises the header's   *)
(* total.                                                                  *)
LEMMA JobBeginJobs ==
    ASSUME NEW s \in State, NEW j \in JobId, NEW h \in HostId, Shown(s.jobs, j)
    PROVE  LET t == ApplyJobBegin(s, j, h)
           IN  /\ \A i \in JobId : i # j => t.jobs[i] = s.jobs[i]
               /\ t.jobs[j] # Absent /\ t.jobs[j].state = "RemoteActive"
               /\ t.jobs[j].host_id = h
               /\ t.hosts = BumpOut(BumpIn(s.hosts, h), s.jobs[j].client_id)
               /\ t.total_remote = Inc64(s.total_remote) /\ t.total_local = s.total_local
<1> DEFINE t == ApplyJobBegin(s, j, h)
           job == [s.jobs[j] EXCEPT !.host_id = h, !.state = "RemoteActive"]
<1>1. s.jobs[j] \in Job
  BY DEF State, Shown
<1>2. job \in Job /\ job.state = "RemoteActive" /\ job.host_id = h
  BY <1>1 DEF Job, JobState
<1>3. job # Absent
  BY <1>2, StateAssumption DEF StateAssumption
<1>4. t.jobs = [s.jobs EXCEPT ![j] = job]
  BY DEF ApplyJobBegin, State, Shown, Job
<1>5. /\ t.total_remote = Inc64(s.total_remote) /\ t.total_local = s.total_local
      /\ t.hosts = BumpOut(BumpIn(s.hosts, h), s.jobs[j].client_id)
  BY DEF ApplyJobBegin, State
<1> HIDE DEF t, job
<1>6. /\ \A i \in JobId : i # j => t.jobs[i] = s.jobs[i]
      /\ t.jobs[j] = job
  BY <1>4 DEF State
<1> QED BY <1>2, <1>3, <1>5, <1>6 DEF t

(* It also raises total_in of its host and total_out of its client.        *)
LEMMA JobBeginHosts ==
    ASSUME NEW s \in State, NEW j \in JobId, NEW h \in HostId, NEW g \in HostId,
           Shown(s.jobs, j)
    PROVE  LET t == ApplyJobBegin(s, j, h)
           IN  /\ Shown(t.hosts, g) <=> Shown(s.hosts, g)
               /\ Shown(s.hosts, g) =>
                    /\ t.hosts[g].color_idx = s.hosts[g].color_idx
                    /\ t.hosts[g].total_in =
                         IF g = h THEN Inc32(s.hosts[g].total_in) ELSE s.hosts[g].total_in
                    /\ t.hosts[g].total_out =
                         IF g = s.jobs[j].client_id THEN Inc32(s.hosts[g].total_out)
                                                    ELSE s.hosts[g].total_out
                    /\ t.hosts[g].total_local = s.hosts[g].total_local
<1> DEFINE t == ApplyJobBegin(s, j, h)
           c == s.jobs[j].client_id
           mid == BumpIn(s.hosts, h)
<1>1. c \in HostId
  BY DEF State, Shown, Job
<1>2. s.hosts \in [HostId -> Host \cup {Absent}] /\ mid \in [HostId -> Host \cup {Absent}]
  BY BumpEffect DEF State
<1>3. t.hosts = BumpOut(mid, c)
  BY JobBeginJobs
<1> HIDE DEF mid, c, t
<1>4. Shown(t.hosts, g) <=> Shown(s.hosts, g)
  <2>1. Shown(mid, g) <=> Shown(s.hosts, g)
    BY <1>2, BumpEffect DEF mid
  <2>2. Shown(BumpOut(mid, c), g) <=> Shown(mid, g)
    BY <1>1, <1>2, BumpEffect
  <2> QED BY <1>3, <2>1, <2>2
<1>5. ASSUME Shown(s.hosts, g)
      PROVE  /\ mid[g] = IF g = h THEN [s.hosts[g] EXCEPT !.total_in = Inc32(@)]
                                  ELSE s.hosts[g]
             /\ t.hosts[g] = IF g = c THEN [mid[g] EXCEPT !.total_out = Inc32(@)]
                                      ELSE mid[g]
             /\ s.hosts[g] \in Host
  <2>1. /\ Shown(mid, g)
        /\ mid[g] = IF g = h THEN [s.hosts[g] EXCEPT !.total_in = Inc32(@)]
                             ELSE s.hosts[g]
    BY <1>2, <1>5, BumpEffect DEF mid
  <2>2. BumpOut(mid, c)[g] = IF g = c THEN [mid[g] EXCEPT !.total_out = Inc32(@)]
                                      ELSE mid[g]
    BY <1>1, <1>2, <2>1, BumpEffect
  <2>3. s.hosts[g] \in Host
    BY <1>2, <1>5 DEF Shown
  <2> QED BY <1>3, <2>1, <2>2, <2>3
<1>6. Shown(s.hosts, g) =>
        /\ t.hosts[g].color_idx = s.hosts[g].color_idx
        /\ t.hosts[g].total_in =
             IF g = h THEN Inc32(s.hosts[g].total_in) ELSE s.hosts[g].total_in
        /\ t.hosts[g].total_out =
             IF g = c THEN Inc32(s.hosts[g].total_out) ELSE s.hosts[g].total_out
        /\ t.hosts[g].total_local = s.hosts[g].total_local
  BY <1>5 DEF Host
<1> QED BY <1>4, <1>6 DEF t, c

(* The begin of a local job replaces what was known under its id.          *)
LEMMA LocalJobBeginEffect ==
    ASSUME NEW s \in State, NEW j \in JobId, NEW h \in HostId
    PROVE  LET t == ApplyLocalJobBegin(s, j, h)
           IN  /\ t.jobs = [s.jobs EXCEPT ![j] =
                      [client_id |-> h, host_id |-> h, state |-> "LocalActive"]]
               /\ t.total_remote = s.total_remote /\ t.total_local = Inc64(s.total_local)
               /\ \A g \in HostId :
                    /\ Shown(t.hosts, g) <=> Shown(s.hosts, g)
                    /\ Shown(s.hosts, g) =>
                         /\ t.hosts[g].color_idx = s.hosts[g].color_idx
                         /\ t.hosts[g].total_in = s.hosts[g].total_in
                         /\ t.hosts[g].total_out = s.hosts[g].total_out
                         /\ t.hosts[g].total_local =
                              IF g = h THEN Inc32(s.hosts[g].total_local)
                                       ELSE s.hosts[g].total_local
<1> SUFFICES ASSUME NEW t, t = ApplyLocalJobBegin(s, j, h)
             PROVE  /\ t.jobs = [s.jobs EXCEPT ![j] =
                           [client_id |-> h, host_id |-> h, state |-> "LocalActive"]]
                    /\ t.total_remote = s.total_remote /\ t.total_local = Inc64(s.total_local)
                    /\ \A g \in HostId :
                         /\ Shown(t.hosts, g) <=> Shown(s.hosts, g)
                         /\ Shown(s.hosts, g) =>
                              /\ t.hosts[g].color_idx = s.hosts[g].color_idx
                              /\ t.hosts[g].total_in = s.hosts[g].total_in
                              /\ t.hosts[g].total_out = s.hosts[g].total_out
                              /\ t.hosts[g].total_local =
                                   IF g = h THEN Inc32(s.hosts[g].total_local)
                                            ELSE s.hosts[g].total_local
  OBVIOUS
<1>1. s.hosts \in [HostId -> Host \cup {Absent}]
  BY DEF State
<1>2. /\ t.hosts = BumpLocal(s.hosts, h)
      /\ t.jobs = [s.jobs EXCEPT ![j] =
             [client_id |-> h, host_id |-> h, state |-> "LocalActive"]]
      /\ t.total_remote = s.total_remote /\ t.total_local = Inc64(s.total_local)
  BY DEF ApplyLocalJobBegin, State
<1>3. ASSUME NEW g \in HostId
      PROVE  /\ Shown(t.hosts, g) <=> Shown(s.hosts, g)
             /\ Shown(s.hosts, g) =>
                  /\ t.hosts[g] = IF g = h THEN [s.hosts[g] EXCEPT !.total_local = Inc32(@)]
                                           ELSE s.hosts[g]
                  /\ s.hosts[g] \in Host
  <2>1. /\ Shown(BumpLocal(s.hosts, h), g) <=> Shown(s.hosts, g)
        /\ Shown(s.hosts, g) => BumpLocal(s.hosts, h)[g] =
             IF g = h THEN [s.hosts[g] EXCEPT !.total_local = Inc32(@)] ELSE s.hosts[g]
    BY <1>1, BumpEffect
  <2>2. Shown(s.hosts, g) => s.hosts[g] \in Host
    BY <1>1 DEF Shown
  <2> QED BY <1>2, <2>1, <2>2
<1> QED BY <1>2, <1>3 DEF Host

(* SchedulerState::new is a state.                                         *)
LEMMA NewStateType == NewState \in State
BY StateAssumption DEF StateAssumption, NewState, State

(* apply_event keeps the picture well typed: the arms that change hosts.   *)
LEMMA HostStatsType ==
    ASSUME NEW s \in State, NEW h \in HostId, NEW name \in Name \cup {NoName}
    PROVE  ApplyHostStats(s, h, name) \in State
<1>1. CASE name = NoName
  BY <1>1 DEF ApplyHostStats, State
<1>2. CASE name \in Name /\ Shown(s.hosts, h)
  BY <1>2, StateAssumption DEF StateAssumption, ApplyHostStats, State, Shown, Host
<1>3. CASE name \in Name /\ ~Shown(s.hosts, h)
  <2>1. NewHost(name, s.next_color) \in Host /\ (s.next_color + 1) % U8 \in 0..(U8 - 1)
    BY <1>3, IncType, StateAssumption DEF StateAssumption, NewHost, Host, State
  <2> QED BY <1>3, <2>1, StateAssumption DEF StateAssumption, ApplyHostStats, State
<1> QED BY <1>1, <1>2, <1>3

(* The arms that start a job.                                              *)
LEMMA JobStartType ==
    ASSUME NEW s \in State, NEW j \in JobId, NEW h \in HostId
    PROVE  ApplyJobBegin(s, j, h) \in State /\ ApplyLocalJobBegin(s, j, h) \in State
<1>1. ASSUME NEW hosts \in [HostId -> Host \cup {Absent}], NEW g \in HostId
      PROVE  {BumpIn(hosts, g), BumpOut(hosts, g), BumpLocal(hosts, g)}
                \subseteq [HostId -> Host \cup {Absent}]
  BY BumpEffect
<1>2. s.hosts \in [HostId -> Host \cup {Absent}]
  BY DEF State
<1>3. /\ Inc64(s.total_remote) \in 0..(U64 - 1) /\ Inc64(s.total_local) \in 0..(U64 - 1)
  BY IncType DEF State
<1>4. ASSUME ~Shown(s.jobs, j) PROVE ApplyJobBegin(s, j, h) \in State
  BY <1>4 DEF ApplyJobBegin
<1>5. ASSUME Shown(s.jobs, j) PROVE ApplyJobBegin(s, j, h) \in State
  <2> DEFINE job == [s.jobs[j] EXCEPT !.host_id = h, !.state = "RemoteActive"]
             hosts == BumpOut(BumpIn(s.hosts, h), s.jobs[j].client_id)
  <2>1. job \in Job /\ s.jobs[j].client_id \in HostId
    BY <1>5 DEF State, Shown, Job, JobState
  <2>2. hosts \in [HostId -> Host \cup {Absent}]
    BY <1>1, <1>2, <2>1
  <2>3. ApplyJobBegin(s, j, h) =
          [s EXCEPT !.jobs = [s.jobs EXCEPT ![j] = job], !.hosts = hosts,
                    !.total_remote = Inc64(s.total_remote)]
    BY <1>5 DEF ApplyJobBegin, State, Shown, Job
  <2> HIDE DEF job, hosts
  <2> QED BY <1>3, <2>1, <2>2, <2>3 DEF State
<1>6. ApplyLocalJobBegin(s, j, h) \in State
  <2> DEFINE job == [client_id |-> h, host_id |-> h, state |-> "LocalActive"]
  <2>1. job \in Job /\ BumpLocal(s.hosts, h) \in [HostId -> Host \cup {Absent}]
    BY <1>1, <1>2 DEF Job, JobState
  <2> HIDE DEF job
  <2> QED BY <1>3, <2>1 DEF ApplyLocalJobBegin, State, job
<1> QED BY <1>4, <1>5, <1>6

(* Every arm.                                                              *)
LEMMA EventType ==
    ASSUME NEW s \in State, NEW e \in MonitorEvent
    PROVE  ApplyEvent(s, e) \in State
<1>1. CASE e \in ConnectedEvent
  BY <1>1 DEF ConnectedEvent, ApplyEvent, ApplyConnected, State
<1>2. CASE e = DisconnectedEvent
  BY <1>2 DEF DisconnectedEvent, ApplyEvent, ApplyDisconnected, State
<1>3. CASE e \in [ kind : {"HostStats"}, host : HostId, name : Name \cup {NoName} ]
  <2>1. ApplyEvent(s, e) = ApplyHostStats(s, e.host, e.name)
    BY <1>3 DEF ApplyEvent
  <2> QED BY <1>3, <2>1, HostStatsType
<1>4. CASE e \in [ kind : {"JobPending"}, job : JobId, client : HostId ]
  BY <1>4 DEF ApplyEvent, ApplyJobPending, State, Job, JobState
<1>5. CASE e \in [ kind : {"JobBegin", "LocalJobBegin"}, job : JobId, host : HostId ]
  <2>1. \/ ApplyEvent(s, e) = ApplyJobBegin(s, e.job, e.host)
        \/ ApplyEvent(s, e) = ApplyLocalJobBegin(s, e.job, e.host)
    BY <1>5 DEF ApplyEvent
  <2> QED BY <1>5, <2>1, JobStartType
<1>6. CASE e \in [ kind : {"JobDone"}, job : JobId ]
  BY <1>6 DEF ApplyEvent, ApplyJobDone, State
<1> QED BY <1>1, <1>2, <1>3, <1>4, <1>5, <1>6 DEF MonitorEvent, DataEvent

-----------------------------------------------------------------------------
(* The history variable, and the sizes of sets of jobs.                    *)

(* What is counted after an event runs on a host that is shown, and was    *)
(* counted before unless the event touched it.                             *)
LEMMA CountedAfter ==
    ASSUME NEW e, Receive(e), state' \in State
    PROVE  /\ counted' \subseteq JobId
           /\ \A j \in counted' :
                /\ Shown(state'.jobs, j)
                /\ state'.jobs[j].state \in {"RemoteActive", "LocalActive"}
                /\ state'.jobs[j].host_id \in HostId
                /\ Shown(state'.hosts, state'.jobs[j].host_id)
                /\ j \in counted \/ state'.jobs[j] # state.jobs[j]
BY DEF Receive, ShownHosts, active_jobs_on_host, JobsIn

(* Sets of jobs are finite, and their sizes natural numbers.               *)
LEMMA JobSets ==
    ASSUME NEW S \in SUBSET JobId, NEW T \in SUBSET JobId
    PROVE  /\ Cardinality(S) \in Nat
           /\ T \subseteq S => Cardinality(T) <= Cardinality(S)
           /\ \A j : T \subseteq S \cup {j} => Cardinality(T) <= Cardinality(S) + 1
           /\ T = {} => Cardinality(T) = 0
<1>1. IsFiniteSet(S) /\ IsFiniteSet(T)
  BY ModelAssumption, FS_Subset DEF ModelAssumption
<1>2. Cardinality(S) \in Nat /\ Cardinality(T) \in Nat
  BY <1>1, FS_CardinalityType
<1>3. T \subseteq S => Cardinality(T) <= Cardinality(S)
  BY <1>1, FS_Subset
<1>4. ASSUME NEW j, T \subseteq S \cup {j}
      PROVE  Cardinality(T) <= Cardinality(S) + 1
  <2>1. /\ IsFiniteSet(S \cup {j})
        /\ Cardinality(S \cup {j}) \in {Cardinality(S), Cardinality(S) + 1}
    BY <1>1, FS_AddElement
  <2>2. Cardinality(T) <= Cardinality(S \cup {j})
    BY <1>4, <2>1, FS_Subset
  <2> QED BY <1>2, <2>1, <2>2
<1>5. Cardinality({}) = 0
  BY FS_EmptySet
<1> QED BY <1>2, <1>3, <1>4, <1>5

(* How many jobs are counted for a host after an event, and before.        *)
LEMMA CountedSizes ==
    ASSUME TypeOK, counted' \subseteq JobId, NEW h, NEW st
    PROVE  LET old == Counted(state, counted, h, st)
               new == Counted(state', counted', h, st)
           IN  /\ Cardinality(old) \in Nat /\ Cardinality(new) \in Nat
               /\ new \subseteq old => Cardinality(new) <= Cardinality(old)
               /\ \A j : new \subseteq old \cup {j} => Cardinality(new) <= Cardinality(old) + 1
               /\ new = {} => Cardinality(new) = 0
<1>1. Counted(state, counted, h, st) \in SUBSET JobId
  BY DEF TypeOK, Counted
<1>2. Counted(state', counted', h, st) \in SUBSET JobId
  BY DEF Counted
<1> QED BY <1>1, <1>2, JobSets

-----------------------------------------------------------------------------
(* The invariant through each kind of event.                               *)

KeepsHistory ==
    \A h \in HostId :
        Shown(state.hosts, h) /\ Shown(state'.hosts, h) =>
            LET old == state.hosts[h]
                new == state'.hosts[h]
            IN  /\ new.color_idx = old.color_idx
                /\ new.total_in >= old.total_in
                /\ new.total_out >= old.total_out
                /\ new.total_local >= old.total_local

Preserved ==
    JobShape' /\ BelowTotals' /\ CountedRun' /\ CountersCover' /\ KeepsHistory

(* Counters are natural numbers.                                           *)
LEMMA CounterType ==
    ASSUME TypeOK, NEW h \in HostId, Shown(state.hosts, h)
    PROVE  /\ state.hosts[h] \in Host
           /\ state.hosts[h].total_in \in Nat
           /\ state.hosts[h].total_out \in Nat
           /\ state.hosts[h].total_local \in Nat
BY StateAssumption DEF StateAssumption, TypeOK, State, Shown, Host

(* An event that leaves jobs and totals alone, and gives hosts that are    *)
(* new zero counters.                                                      *)
LEMMA JobsUntouched ==
    ASSUME IInv, NEW e, Receive(e), state' \in State,
           state'.jobs = state.jobs,
           state'.total_remote = state.total_remote, state'.total_local = state.total_local,
           \A g \in HostId : Shown(state'.hosts, g) /\ Shown(state.hosts, g)
                 => SameHost(state.hosts[g], state'.hosts[g]),
           \A g \in HostId : Shown(state'.hosts, g) /\ ~Shown(state.hosts, g)
                 => /\ state'.hosts[g].total_in = 0 /\ state'.hosts[g].total_out = 0
                    /\ state'.hosts[g].total_local = 0
    PROVE  Preserved
<1>1. counted' \subseteq counted
  BY CountedAfter
<1>2. JobShape'
  BY DEF IInv, JobShape
<1>3. BelowTotals'
  <2>1. state.total_remote \in Nat /\ state.total_local \in Nat
    BY StateAssumption DEF StateAssumption, IInv, TypeOK, State
  <2> QED BY <2>1 DEF IInv, BelowTotals, SameHost
<1>4. CountedRun'
  BY CountedAfter DEF CountedRun
<1>5. CountersCover'
  <2> SUFFICES ASSUME NEW h \in HostId, Shown(state'.hosts, h),
                      NEW st \in {"RemoteActive", "LocalActive"}
               PROVE  Cardinality(Counted(state', counted', h, st)) <=
                        IF st = "RemoteActive" THEN state'.hosts[h].total_in
                                               ELSE state'.hosts[h].total_local
    BY DEF CountersCover
  <2>1. Counted(state', counted', h, st) \subseteq Counted(state, counted, h, st)
    BY <1>1 DEF Counted
  <2>2. CASE Shown(state.hosts, h)
    BY <2>1, <2>2, CountedSizes, CountedAfter, CounterType
       DEF IInv, CountersCover, SameHost
  <2>3. CASE ~Shown(state.hosts, h)
    <3>1. Counted(state', counted', h, st) = {}
      BY <2>1, <2>3 DEF IInv, CountedRun, Counted
    <3>2. Cardinality(Counted(state', counted', h, st)) = 0
      BY <3>1, FS_EmptySet
    <3> QED BY <2>3, <3>2
  <2> QED BY <2>2, <2>3
<1>6. KeepsHistory
  BY CounterType DEF KeepsHistory, SameHost, IInv
<1> QED BY <1>2, <1>3, <1>4, <1>5, <1>6 DEF Preserved

(* What a begin does to the counters, which are below their width.         *)
LEMMA RemoteBeginCounts ==
    ASSUME IInv, NEW j \in JobId, NEW h \in HostId, Shown(state.jobs, j),
           state' = ApplyJobBegin(state, j, h), state.total_remote < MaxStarts
    PROVE  /\ state.total_remote \in Nat /\ state.total_local \in Nat
           /\ state'.total_remote = state.total_remote + 1
           /\ state'.total_local = state.total_local
           /\ \A g \in HostId : Shown(state'.hosts, g) =>
                /\ Shown(state.hosts, g)
                /\ state'.hosts[g].color_idx = state.hosts[g].color_idx
                /\ state'.hosts[g].total_in =
                     IF g = h THEN state.hosts[g].total_in + 1 ELSE state.hosts[g].total_in
                /\ state'.hosts[g].total_out =
                     IF g = state.jobs[j].client_id THEN state.hosts[g].total_out + 1
                                                    ELSE state.hosts[g].total_out
                /\ state'.hosts[g].total_local = state.hosts[g].total_local
<1>0. state \in State /\ TypeOK
  BY DEF IInv, TypeOK
<1>1. state.total_remote \in Nat /\ state.total_local \in Nat
  BY <1>0, StateAssumption DEF StateAssumption, State
<1>2. /\ state'.total_remote = state.total_remote + 1
      /\ state'.total_local = state.total_local
  BY <1>0, <1>1, JobBeginJobs, IncPlain
<1>3. ASSUME NEW g \in HostId, Shown(state'.hosts, g)
      PROVE  /\ Shown(state.hosts, g)
             /\ state'.hosts[g].color_idx = state.hosts[g].color_idx
             /\ state'.hosts[g].total_in =
                  IF g = h THEN state.hosts[g].total_in + 1 ELSE state.hosts[g].total_in
             /\ state'.hosts[g].total_out =
                  IF g = state.jobs[j].client_id THEN state.hosts[g].total_out + 1
                                                 ELSE state.hosts[g].total_out
             /\ state'.hosts[g].total_local = state.hosts[g].total_local
  <2>1. Shown(state.hosts, g)
    BY <1>0, <1>3, JobBeginHosts
  <2>2. /\ state'.hosts[g].color_idx = state.hosts[g].color_idx
        /\ state'.hosts[g].total_in =
             IF g = h THEN Inc32(state.hosts[g].total_in) ELSE state.hosts[g].total_in
        /\ state'.hosts[g].total_out =
             IF g = state.jobs[j].client_id THEN Inc32(state.hosts[g].total_out)
                                            ELSE state.hosts[g].total_out
        /\ state'.hosts[g].total_local = state.hosts[g].total_local
    BY <1>0, <2>1, JobBeginHosts
  <2>3. /\ Inc32(state.hosts[g].total_in) = state.hosts[g].total_in + 1
        /\ Inc32(state.hosts[g].total_out) = state.hosts[g].total_out + 1
    <3>1. state.hosts[g].total_in < MaxStarts /\ state.hosts[g].total_out < MaxStarts
      BY <1>0, <1>1, <2>1, CounterType, ModelAssumption
         DEF ModelAssumption, IInv, BelowTotals
    <3> QED BY <1>0, <2>1, <3>1, CounterType, IncPlain
  <2> QED BY <2>1, <2>2, <2>3
<1> QED BY <1>1, <1>2, <1>3

LEMMA LocalBeginCounts ==
    ASSUME IInv, NEW j \in JobId, NEW h \in HostId,
           state' = ApplyLocalJobBegin(state, j, h), state.total_local < MaxStarts
    PROVE  /\ state.total_remote \in Nat /\ state.total_local \in Nat
           /\ state'.total_local = state.total_local + 1
           /\ state'.total_remote = state.total_remote
           /\ \A g \in HostId : Shown(state'.hosts, g) =>
                /\ Shown(state.hosts, g)
                /\ state'.hosts[g].color_idx = state.hosts[g].color_idx
                /\ state'.hosts[g].total_in = state.hosts[g].total_in
                /\ state'.hosts[g].total_out = state.hosts[g].total_out
                /\ state'.hosts[g].total_local =
                     IF g = h THEN state.hosts[g].total_local + 1
                              ELSE state.hosts[g].total_local
<1>0. state \in State /\ TypeOK
  BY DEF IInv, TypeOK
<1>1. state.total_remote \in Nat /\ state.total_local \in Nat
  BY <1>0, StateAssumption DEF StateAssumption, State
<1>2. /\ state'.total_local = state.total_local + 1
      /\ state'.total_remote = state.total_remote
  <2>1. /\ state'.total_local = Inc64(state.total_local)
        /\ state'.total_remote = state.total_remote
    BY <1>0, LocalJobBeginEffect
  <2> QED BY <1>1, <2>1, IncPlain
<1>3. ASSUME NEW g \in HostId, Shown(state'.hosts, g)
      PROVE  /\ Shown(state.hosts, g)
             /\ state'.hosts[g].color_idx = state.hosts[g].color_idx
             /\ state'.hosts[g].total_in = state.hosts[g].total_in
             /\ state'.hosts[g].total_out = state.hosts[g].total_out
             /\ state'.hosts[g].total_local =
                  IF g = h THEN state.hosts[g].total_local + 1
                           ELSE state.hosts[g].total_local
  <2>1. Shown(state.hosts, g)
    BY <1>0, <1>3, LocalJobBeginEffect
  <2>2. /\ state'.hosts[g].color_idx = state.hosts[g].color_idx
        /\ state'.hosts[g].total_in = state.hosts[g].total_in
        /\ state'.hosts[g].total_out = state.hosts[g].total_out
        /\ state'.hosts[g].total_local =
             IF g = h THEN Inc32(state.hosts[g].total_local) ELSE state.hosts[g].total_local
    BY <1>0, <2>1, LocalJobBeginEffect
  <2>3. Inc32(state.hosts[g].total_local) = state.hosts[g].total_local + 1
    <3>1. state.hosts[g].total_local < MaxStarts
      BY <1>0, <1>1, <2>1, CounterType, ModelAssumption
         DEF ModelAssumption, IInv, BelowTotals
    <3> QED BY <1>0, <2>1, <3>1, CounterType, IncPlain
  <2> QED BY <2>1, <2>2, <2>3
<1> QED BY <1>1, <1>2, <1>3

(* An event that puts no job on any host, and leaves hosts and totals      *)
(* alone.                                                                  *)
LEMMA HostsUntouched ==
    ASSUME IInv, NEW e, Receive(e), state' \in State, JobShape',
           state'.hosts = state.hosts,
           state'.total_remote = state.total_remote, state'.total_local = state.total_local,
           \A j \in JobId : \/ state'.jobs[j] = state.jobs[j]
                            \/ ~Shown(state'.jobs, j)
                            \/ state'.jobs[j].state = "Pending"
    PROVE  Preserved
<1>1. counted' \subseteq counted /\ \A j \in counted' : state'.jobs[j] = state.jobs[j]
  BY CountedAfter
<1>2. BelowTotals'
  BY DEF IInv, BelowTotals
<1>3. CountedRun'
  BY CountedAfter DEF CountedRun
<1>4. CountersCover'
  <2> SUFFICES ASSUME NEW h \in HostId, Shown(state.hosts, h),
                      NEW st \in {"RemoteActive", "LocalActive"}
               PROVE  Cardinality(Counted(state', counted', h, st)) <=
                        IF st = "RemoteActive" THEN state.hosts[h].total_in
                                               ELSE state.hosts[h].total_local
    BY DEF CountersCover
  <2>1. Counted(state', counted', h, st) \subseteq Counted(state, counted, h, st)
    BY <1>1 DEF Counted, Shown
  <2> QED BY <2>1, CountedSizes, CountedAfter, CounterType DEF IInv, CountersCover
<1>5. KeepsHistory
  BY CounterType DEF KeepsHistory, IInv
<1> QED BY <1>2, <1>3, <1>4, <1>5 DEF Preserved
(* The begin of a job that is known.                                       *)
LEMMA RemoteBegins ==
    ASSUME IInv, NEW e, Receive(e), state' \in State,
           NEW j \in JobId, NEW h \in HostId, Shown(state.jobs, j),
           state' = ApplyJobBegin(state, j, h), state.total_remote < MaxStarts
    PROVE  Preserved
<1> DEFINE Running(g, st) == Counted(state, counted, g, st)
           Running2(g, st) == Counted(state', counted', g, st)
<1>0. state \in State /\ TypeOK
  BY DEF IInv, TypeOK
<1>1. /\ \A i \in JobId : i # j => state'.jobs[i] = state.jobs[i]
      /\ Shown(state'.jobs, j) /\ state'.jobs[j].state = "RemoteActive"
      /\ state'.jobs[j].host_id = h
      /\ state'.total_local = state.total_local
  BY <1>0, JobBeginJobs DEF Shown
<1>2. /\ state.total_remote \in Nat /\ state.total_local \in Nat
      /\ state'.total_remote = state.total_remote + 1
  BY RemoteBeginCounts
<1>3. ASSUME NEW g \in HostId, Shown(state'.hosts, g)
      PROVE  /\ Shown(state.hosts, g)
             /\ state'.hosts[g].color_idx = state.hosts[g].color_idx
             /\ state'.hosts[g].total_in =
                  IF g = h THEN state.hosts[g].total_in + 1 ELSE state.hosts[g].total_in
             /\ state'.hosts[g].total_out \in
                  {state.hosts[g].total_out, state.hosts[g].total_out + 1}
             /\ state'.hosts[g].total_local = state.hosts[g].total_local
  BY <1>3, RemoteBeginCounts
<1>4. JobShape'
  BY <1>0, <1>1, StateAssumption DEF StateAssumption, IInv, JobShape, Shown
<1>5. BelowTotals'
  BY <1>0, <1>1, <1>2, <1>3, CounterType, ModelAssumption
     DEF ModelAssumption, IInv, BelowTotals
<1>6. CountedRun'
  BY CountedAfter DEF CountedRun
<1>7. CountersCover'
  <2>1. /\ \A i \in JobId : i # j => state'.jobs[i] = state.jobs[i]
        /\ state'.jobs[j].state = "RemoteActive" /\ state'.jobs[j].host_id = h
    BY <1>1
  <2>2. \A i \in counted' : i \in JobId /\ (i # j => i \in counted)
    BY <2>1, CountedAfter
  <2> SUFFICES ASSUME NEW g \in HostId, Shown(state'.hosts, g)
               PROVE  /\ Cardinality(Running2(g, "RemoteActive")) <= state'.hosts[g].total_in
                      /\ Cardinality(Running2(g, "LocalActive")) <= state'.hosts[g].total_local
    BY DEF CountersCover
  <2>3. /\ Running2(g, "LocalActive") \subseteq Running(g, "LocalActive")
        /\ Running2(g, "RemoteActive") \subseteq Running(g, "RemoteActive") \cup {j}
        /\ g # h => Running2(g, "RemoteActive") \subseteq Running(g, "RemoteActive")
    BY <2>1, <2>2 DEF Counted, Shown
  <2>4. /\ Cardinality(Running(g, "RemoteActive")) <= state.hosts[g].total_in
        /\ Cardinality(Running(g, "LocalActive")) <= state.hosts[g].total_local
    BY <1>3 DEF IInv, CountersCover
  <2>5. /\ \A st : Cardinality(Running(g, st)) \in Nat /\ Cardinality(Running2(g, st)) \in Nat
        /\ Cardinality(Running2(g, "LocalActive")) <= Cardinality(Running(g, "LocalActive"))
        /\ Cardinality(Running2(g, "RemoteActive")) <= Cardinality(Running(g, "RemoteActive")) + 1
        /\ g # h => Cardinality(Running2(g, "RemoteActive"))
                      <= Cardinality(Running(g, "RemoteActive"))
    BY <1>0, <2>3, CountedSizes, CountedAfter
  <2> HIDE DEF Running, Running2
  <2> QED BY <1>0, <1>3, <2>4, <2>5, CounterType
<1>8. KeepsHistory
  BY <1>0, <1>3, CounterType DEF KeepsHistory
<1> QED BY <1>4, <1>5, <1>6, <1>7, <1>8 DEF Preserved

(* The begin of a local job, under any id.                                 *)
LEMMA LocalBegins ==
    ASSUME IInv, NEW e, Receive(e), state' \in State,
           NEW j \in JobId, NEW h \in HostId,
           state' = ApplyLocalJobBegin(state, j, h), state.total_local < MaxStarts
    PROVE  Preserved
<1> DEFINE Running(g, st) == Counted(state, counted, g, st)
           Running2(g, st) == Counted(state', counted', g, st)
<1>0. state \in State /\ TypeOK
  BY DEF IInv, TypeOK
<1>1. /\ state'.jobs = [state.jobs EXCEPT ![j] =
             [client_id |-> h, host_id |-> h, state |-> "LocalActive"]]
      /\ state'.total_remote = state.total_remote
  BY <1>0, LocalJobBeginEffect
<1>2. /\ state.total_remote \in Nat /\ state.total_local \in Nat
      /\ state'.total_local = state.total_local + 1
  BY LocalBeginCounts
<1>3. ASSUME NEW g \in HostId, Shown(state'.hosts, g)
      PROVE  /\ Shown(state.hosts, g)
             /\ state'.hosts[g].color_idx = state.hosts[g].color_idx
             /\ state'.hosts[g].total_in = state.hosts[g].total_in
             /\ state'.hosts[g].total_out = state.hosts[g].total_out
             /\ state'.hosts[g].total_local =
                  IF g = h THEN state.hosts[g].total_local + 1
                           ELSE state.hosts[g].total_local
  BY <1>3, LocalBeginCounts
<1>4. JobShape'
  BY <1>0, <1>1, StateAssumption DEF StateAssumption, IInv, JobShape, State, Shown
<1>5. BelowTotals'
  BY <1>0, <1>1, <1>2, <1>3, CounterType, ModelAssumption
     DEF ModelAssumption, IInv, BelowTotals
<1>6. CountedRun'
  BY CountedAfter DEF CountedRun
<1>7. CountersCover'
  <2>1. /\ \A i \in JobId : i # j => state'.jobs[i] = state.jobs[i]
        /\ state'.jobs[j].state = "LocalActive" /\ state'.jobs[j].host_id = h
    BY <1>0, <1>1 DEF State
  <2>2. \A i \in counted' : i \in JobId /\ (i # j => i \in counted)
    BY <2>1, CountedAfter
  <2> SUFFICES ASSUME NEW g \in HostId, Shown(state'.hosts, g)
               PROVE  /\ Cardinality(Running2(g, "RemoteActive")) <= state'.hosts[g].total_in
                      /\ Cardinality(Running2(g, "LocalActive")) <= state'.hosts[g].total_local
    BY DEF CountersCover
  <2>3. /\ Running2(g, "RemoteActive") \subseteq Running(g, "RemoteActive")
        /\ Running2(g, "LocalActive") \subseteq Running(g, "LocalActive") \cup {j}
        /\ g # h => Running2(g, "LocalActive") \subseteq Running(g, "LocalActive")
    BY <2>1, <2>2 DEF Counted, Shown
  <2>4. /\ Cardinality(Running(g, "RemoteActive")) <= state.hosts[g].total_in
        /\ Cardinality(Running(g, "LocalActive")) <= state.hosts[g].total_local
    BY <1>3 DEF IInv, CountersCover
  <2>5. /\ \A st : Cardinality(Running(g, st)) \in Nat /\ Cardinality(Running2(g, st)) \in Nat
        /\ Cardinality(Running2(g, "RemoteActive")) <= Cardinality(Running(g, "RemoteActive"))
        /\ Cardinality(Running2(g, "LocalActive")) <= Cardinality(Running(g, "LocalActive")) + 1
        /\ g # h => Cardinality(Running2(g, "LocalActive"))
                      <= Cardinality(Running(g, "LocalActive"))
    BY <1>0, <2>3, CountedSizes, CountedAfter
  <2> HIDE DEF Running, Running2
  <2> QED BY <1>0, <1>3, <2>4, <2>5, CounterType
<1>8. KeepsHistory
  BY <1>0, <1>3, CounterType DEF KeepsHistory
<1> QED BY <1>4, <1>5, <1>6, <1>7, <1>8 DEF Preserved

(* Every event keeps the picture well typed and the invariant true.        *)
LEMMA EventPreserves ==
    ASSUME IInv, NEW e \in MonitorEvent, Receive(e),
           e.kind = "JobBegin" => state.total_remote < MaxStarts,
           e.kind = "LocalJobBegin" => state.total_local < MaxStarts
    PROVE  state' \in State /\ counted' \subseteq JobId /\ Preserved
<1>1. state \in State /\ state' = ApplyEvent(state, e)
  BY DEF IInv, TypeOK, Receive
<1>2. state' \in State
  BY <1>1, EventType
<1>3. counted' \subseteq JobId
  BY <1>2, CountedAfter
<1>4. CASE e \in ConnectedEvent
  <2>1. state' = [state EXCEPT !.scheduler_name = e.scheduler, !.connected = TRUE]
    BY <1>1, <1>4 DEF ConnectedEvent, ApplyEvent, ApplyConnected
  <2>2. /\ state'.jobs = state.jobs /\ state'.hosts = state.hosts
        /\ state'.total_remote = state.total_remote
        /\ state'.total_local = state.total_local
    BY <1>1, <2>1 DEF State
  <2>3. JobShape'
    BY <2>2 DEF IInv, JobShape
  <2> QED BY <1>2, <2>2, <2>3, HostsUntouched, <1>3
<1>5. CASE e = DisconnectedEvent
  <2>1. state' = ApplyDisconnected(state)
    BY <1>1, <1>5 DEF DisconnectedEvent, ApplyEvent
  <2>2. /\ \A h \in HostId : ~Shown(state'.hosts, h)
        /\ \A j \in JobId : ~Shown(state'.jobs, j)
        /\ state'.total_remote = state.total_remote
        /\ state'.total_local = state.total_local
    BY <1>1, <2>1 DEF ApplyDisconnected, State, Shown
  <2>3. counted' = {}
    BY <1>2, <2>2, CountedAfter
  <2>4. JobShape' /\ KeepsHistory
    BY <2>2 DEF JobShape, KeepsHistory
  <2>5. BelowTotals'
    BY <2>2 DEF IInv, BelowTotals
  <2>6. CountedRun' /\ CountersCover'
    BY <2>2, <2>3 DEF CountedRun, CountersCover
  <2> QED BY <1>2, <1>3, <2>4, <2>5, <2>6 DEF Preserved
<1>6. CASE e \in [ kind : {"HostStats"}, host : HostId, name : Name \cup {NoName} ]
  <2>1. state' = ApplyHostStats(state, e.host, e.name)
    BY <1>1, <1>6 DEF ApplyEvent
  <2>2. e.host \in HostId /\ e.name \in Name \cup {NoName}
    BY <1>6
  <2>3. /\ state'.jobs = state.jobs
        /\ state'.total_remote = state.total_remote
        /\ state'.total_local = state.total_local
        /\ \A g \in HostId : Shown(state'.hosts, g) /\ Shown(state.hosts, g)
              => SameHost(state.hosts[g], state'.hosts[g])
        /\ \A g \in HostId : Shown(state'.hosts, g) /\ ~Shown(state.hosts, g)
              => /\ state'.hosts[g].total_in = 0 /\ state'.hosts[g].total_out = 0
                 /\ state'.hosts[g].total_local = 0
    BY <1>1, <2>1, <2>2, HostStatsEffect
  <2> QED BY <1>2, <1>3, <2>3, JobsUntouched
<1>7. CASE e \in [ kind : {"JobPending"}, job : JobId, client : HostId ]
  <2>1. state' = ApplyJobPending(state, e.job, e.client) /\ e.job \in JobId
    BY <1>1, <1>7 DEF ApplyEvent
  <2>2. /\ \A j \in JobId : j # e.job => state'.jobs[j] = state.jobs[j]
        /\ state'.jobs[e.job].state = "Pending"
        /\ state'.jobs[e.job].host_id = NoHost
        /\ state'.hosts = state.hosts
        /\ state'.total_remote = state.total_remote
        /\ state'.total_local = state.total_local
    BY <1>1, <2>1 DEF ApplyJobPending, State
  <2>3. JobShape'
    BY <2>2 DEF IInv, JobShape, Shown
  <2> QED BY <1>2, <1>3, <2>2, <2>3, HostsUntouched
<1>8. CASE e \in [ kind : {"JobBegin"}, job : JobId, host : HostId ]
  <2>1. /\ state' = ApplyJobBegin(state, e.job, e.host)
        /\ e.job \in JobId /\ e.host \in HostId /\ e.kind = "JobBegin"
    BY <1>1, <1>8 DEF ApplyEvent
  <2>2. CASE Shown(state.jobs, e.job)
    BY <1>2, <1>3, <2>1, <2>2, RemoteBegins
  <2>3. CASE ~Shown(state.jobs, e.job)
    <3>1. state' = state
      BY <2>1, <2>3 DEF ApplyJobBegin
    <3>2. JobShape'
      BY <3>1 DEF IInv, JobShape
    <3> QED BY <1>2, <1>3, <3>1, <3>2, HostsUntouched
  <2> QED BY <2>2, <2>3
<1>9. CASE e \in [ kind : {"LocalJobBegin"}, job : JobId, host : HostId ]
  <2>1. /\ state' = ApplyLocalJobBegin(state, e.job, e.host)
        /\ e.job \in JobId /\ e.host \in HostId /\ e.kind = "LocalJobBegin"
    BY <1>1, <1>9 DEF ApplyEvent
  <2> QED BY <1>2, <1>3, <2>1, LocalBegins
<1>10. CASE e \in [ kind : {"JobDone"}, job : JobId ]
  <2>1. state' = ApplyJobDone(state, e.job) /\ e.job \in JobId
    BY <1>1, <1>10 DEF ApplyEvent
  <2>2. /\ \A j \in JobId : j # e.job => state'.jobs[j] = state.jobs[j]
        /\ ~Shown(state'.jobs, e.job)
        /\ state'.hosts = state.hosts
        /\ state'.total_remote = state.total_remote
        /\ state'.total_local = state.total_local
    BY <1>1, <2>1 DEF ApplyJobDone, State, Shown
  <2>3. JobShape'
    BY <2>2 DEF IInv, JobShape, Shown
  <2> QED BY <1>2, <1>3, <2>2, <2>3, HostsUntouched
<1> QED BY <1>4, <1>5, <1>6, <1>7, <1>8, <1>9, <1>10 DEF MonitorEvent, DataEvent

(* Each action is an event.                                                *)
LEMMA NextEvent ==
    ASSUME IInv, Next
    PROVE  state' \in State /\ counted' \subseteq JobId /\ Preserved
<1>1. \E e \in MonitorEvent :
        /\ Receive(e)
        /\ e.kind = "JobBegin" => state.total_remote < MaxStarts
        /\ e.kind = "LocalJobBegin" => state.total_local < MaxStarts
  <2>1. /\ DisconnectedEvent \in MonitorEvent /\ DisconnectedEvent.kind = "Disconnected"
        /\ \A s \in Scheduler : [kind |-> "Connected", scheduler |-> s] \in MonitorEvent
    BY DEF MonitorEvent, ConnectedEvent, DisconnectedEvent
  <2>2. \A j \in JobId :
          /\ [kind |-> "JobDone", job |-> j] \in MonitorEvent
          /\ \A h \in HostId :
               /\ [kind |-> "JobPending", job |-> j, client |-> h] \in MonitorEvent
               /\ [kind |-> "JobBegin", job |-> j, host |-> h] \in MonitorEvent
               /\ [kind |-> "LocalJobBegin", job |-> j, host |-> h] \in MonitorEvent
    BY DEF MonitorEvent, DataEvent
  <2>3. \A h \in HostId, name \in Name \cup {NoName} :
          [kind |-> "HostStats", host |-> h, name |-> name] \in MonitorEvent
    BY DEF MonitorEvent, DataEvent
  <2>4. CASE Connect
    BY <2>1, <2>4 DEF Connect
  <2>5. CASE Disconnect
    BY <2>1, <2>5 DEF Disconnect
  <2>6. CASE HostStats
    BY <2>3, <2>6 DEF HostStats
  <2>7. CASE JobPending
    BY <2>2, <2>7 DEF JobPending
  <2>8. CASE JobBegin
    BY <2>2, <2>8 DEF JobBegin
  <2>9. CASE LocalJobBegin
    BY <2>2, <2>9 DEF LocalJobBegin
  <2>10. CASE JobDone
    BY <2>2, <2>10 DEF JobDone
  <2> QED BY <2>4, <2>5, <2>6, <2>7, <2>8, <2>9, <2>10 DEF Next
<1> QED BY <1>1, EventPreserves

-----------------------------------------------------------------------------
(* A picture that is empty has nothing to balance.                         *)
LEMMA InitInv == Init => IInv
<1> SUFFICES ASSUME Init PROVE IInv
  OBVIOUS
<1>1. /\ \A h \in HostId : ~Shown(state.hosts, h)
      /\ \A j \in JobId : ~Shown(state.jobs, j)
      /\ state.total_remote = 0 /\ state.total_local = 0 /\ counted = {}
  BY DEF Init, NewState, Shown
<1>2. TypeOK
  BY NewStateType, ModelAssumption DEF ModelAssumption, Init, TypeOK
<1>3. JobShape /\ BelowTotals /\ CountedRun /\ CountersCover
  BY <1>1, ModelAssumption
     DEF ModelAssumption, JobShape, BelowTotals, CountedRun, CountersCover
<1> QED BY <1>2, <1>3 DEF IInv

(* Every step, with the history of registrations.                          *)
LEMMA NextInv == IInv /\ [Next]_vars => IInv'
<1> SUFFICES ASSUME IInv, [Next]_vars PROVE IInv'
  OBVIOUS
<1>1. CASE Next
  <2>1. state' \in State /\ counted' \subseteq JobId /\ Preserved
    BY <1>1, NextEvent
  <2>2. registered' \in 0..MaxRegistrations /\ regNo' \in [HostId -> 0..MaxRegistrations]
    <3>1. CASE HostStats
      BY <3>1, ModelAssumption DEF ModelAssumption, HostStats, IInv, TypeOK
    <3>2. CASE UNCHANGED <<registered, regNo>>
      BY <3>2 DEF IInv, TypeOK
    <3> QED BY <1>1, <3>1, <3>2
            DEF Next, Connect, Disconnect, JobPending, JobBegin, LocalJobBegin, JobDone
  <2> QED BY <2>1, <2>2 DEF IInv, TypeOK, Preserved
<1>2. CASE UNCHANGED vars
  BY <1>2 DEF vars, IInv, TypeOK, JobShape, BelowTotals, CountedRun, CountersCover, Counted
<1> QED BY <1>1, <1>2

(* The invariant holds throughout.                                         *)
LEMMA Invariance == Spec => []IInv
BY InitInv, NextInv, PTL DEF Spec

(* The picture stays within its types (model.rs:38-52, 99-119, 141-223).   *)
THEOREM PictureTyped == Spec => []TypeOK
<1>1. IInv => TypeOK
  BY DEF IInv
<1> QED BY <1>1, Invariance, PTL

(* A job runs on no host exactly while it is pending, and a local job on   *)
(* its own client, whatever hit its id before (model.rs:169-218).          *)
THEOREM JobsAreWhole == Spec => []JobShape
<1>1. IInv => JobShape
  BY DEF IInv
<1> QED BY <1>1, Invariance, PTL

(* The running jobs that a host saw start are covered by its counters      *)
(* (model.rs:159, 185-218).                                                *)
THEOREM CurIsCovered == Spec => []RunningIsCounted
<1>1. ASSUME IInv PROVE RunningIsCounted
  <2> SUFFICES ASSUME NEW h \in ShownHosts(state)
               PROVE  LET running(st) == counted \cap active_jobs_on_host(state, h)
                                            \cap JobsIn(state, {st})
                      IN  /\ Cardinality(running("RemoteActive"))
                               <= state.hosts[h].total_in
                          /\ Cardinality(running("LocalActive"))
                               <= state.hosts[h].total_local
    BY DEF RunningIsCounted
  <2>1. \A st \in {"RemoteActive", "LocalActive"} :
          counted \cap active_jobs_on_host(state, h) \cap JobsIn(state, {st})
            = Counted(state, counted, h, st)
    BY <1>1 DEF IInv, TypeOK, Counted, active_jobs_on_host, JobsIn
  <2>2. h \in HostId /\ Shown(state.hosts, h)
    BY DEF ShownHosts
  <2> QED BY <1>1, <2>1, <2>2 DEF IInv, CountersCover
<1> QED BY <1>1, Invariance, PTL

(* A host that stays in the table keeps its colour, and its counters never *)
(* go back (model.rs:163-167, 190-195, 214-216).                           *)
THEOREM HostsKeepHistory == Spec => HostKeepsHistory
<1>1. IInv /\ [Next]_vars => [KeepsHistory]_vars
  BY NextEvent DEF Preserved
<1> QED BY <1>1, Invariance, PTL DEF Spec, HostKeepsHistory, KeepsHistory

-----------------------------------------------------------------------------
(* The header's lines agree with one another for any number of hosts and   *)
(* jobs.  The jobs that run are counted afresh at every draw, the totals   *)
(* are carried along; that the first stay below the second is inductive    *)
(* only because a begin both adds at most one job of its kind and raises   *)
(* the total of that kind by exactly one, which the bound on job starts    *)
(* keeps from wrapping.                                                    *)

Local(s) == JobsIn(s, {"LocalActive"})
Remote(s) == JobsIn(s, {"RemoteActive"})

RunningBelowTotals ==
    /\ Cardinality(Local(state)) <= state.total_local
    /\ Cardinality(Remote(state)) <= state.total_remote

(* One step: at most one more job of a kind, and then the total of that    *)
(* kind is raised.                                                         *)
StartsAreCounted ==
    /\ \/ Local(state') \subseteq Local(state) /\ state'.total_local = state.total_local
       \/ /\ \E j \in JobId : Local(state') \subseteq Local(state) \cup {j}
          /\ state'.total_local = state.total_local + 1
    /\ \/ Remote(state') \subseteq Remote(state) /\ state'.total_remote = state.total_remote
       \/ /\ \E j \in JobId : Remote(state') \subseteq Remote(state) \cup {j}
          /\ state'.total_remote = state.total_remote + 1

(* An event that starts no job and counts none.                            *)
LEMMA NoStart ==
    ASSUME \A j \in JobId : Shown(state'.jobs, j) /\ state'.jobs[j].state # "Pending"
                               => state'.jobs[j] = state.jobs[j],
           state'.total_local = state.total_local,
           state'.total_remote = state.total_remote
    PROVE  StartsAreCounted
<1>1. Local(state') \subseteq Local(state)
  BY DEF Local, JobsIn, Shown
<1>2. Remote(state') \subseteq Remote(state)
  BY DEF Remote, JobsIn, Shown
<1> QED BY <1>1, <1>2 DEF StartsAreCounted

(* A remote job that begins is added to one set and may leave the other.   *)
LEMMA RemoteStart ==
    ASSUME TypeOK, NEW j \in JobId, NEW h \in HostId,
           state' = ApplyJobBegin(state, j, h), state.total_remote < MaxStarts
    PROVE  StartsAreCounted
<1>0. state \in State /\ state.total_remote \in Nat
  BY StateAssumption DEF TypeOK, State, StateAssumption
<1>1. CASE ~Shown(state.jobs, j)
  <2>1. state' = state
    BY <1>1 DEF ApplyJobBegin
  <2> QED BY <2>1, NoStart
<1>2. CASE Shown(state.jobs, j)
  <2>1. /\ \A i \in JobId : i # j => state'.jobs[i] = state.jobs[i]
        /\ state'.jobs[j].state = "RemoteActive"
        /\ state'.total_remote = Inc64(state.total_remote)
        /\ state'.total_local = state.total_local
    BY <1>0, <1>2, JobBeginJobs
  <2>2. state'.total_remote = state.total_remote + 1
    BY <1>0, <2>1, IncPlain
  <2>3. Local(state') \subseteq Local(state)
    BY <2>1 DEF Local, JobsIn, Shown
  <2>4. Remote(state') \subseteq Remote(state) \cup {j}
    BY <2>1 DEF Remote, JobsIn, Shown
  <2> QED BY <2>1, <2>2, <2>3, <2>4 DEF StartsAreCounted
<1> QED BY <1>1, <1>2

(* So is a local one, under any id.                                        *)
LEMMA LocalStart ==
    ASSUME TypeOK, NEW j \in JobId, NEW h \in HostId,
           state' = ApplyLocalJobBegin(state, j, h), state.total_local < MaxStarts
    PROVE  StartsAreCounted
<1>0. state \in State /\ state.total_local \in Nat
  BY StateAssumption DEF TypeOK, State, StateAssumption
<1>1. /\ state'.jobs = [state.jobs EXCEPT ![j] =
             [client_id |-> h, host_id |-> h, state |-> "LocalActive"]]
      /\ state'.total_remote = state.total_remote
      /\ state'.total_local = Inc64(state.total_local)
  BY <1>0, LocalJobBeginEffect
<1>2. state'.total_local = state.total_local + 1
  BY <1>0, <1>1, IncPlain
<1>3. /\ \A i \in JobId : i # j => state'.jobs[i] = state.jobs[i]
      /\ state'.jobs[j].state = "LocalActive"
  BY <1>0, <1>1 DEF State
<1>4. Local(state') \subseteq Local(state) \cup {j}
  BY <1>3 DEF Local, JobsIn, Shown
<1>5. Remote(state') \subseteq Remote(state)
  BY <1>3 DEF Remote, JobsIn, Shown
<1> QED BY <1>1, <1>2, <1>4, <1>5 DEF StartsAreCounted

(* Every action either starts nothing or is one of the two begins.         *)
LEMMA NextCounts ==
    ASSUME TypeOK, Next
    PROVE  StartsAreCounted
<1>0. state \in State
  BY DEF TypeOK
<1>1. CASE Connect
  <2>1. PICK s \in Scheduler : state' = ApplyConnected(state, s)
    BY <1>1 DEF Connect, Receive, ApplyEvent
  <2> QED BY <1>0, <2>1, NoStart DEF ApplyConnected, State
<1>2. CASE Disconnect
  <2>1. state' = ApplyDisconnected(state)
    BY <1>2 DEF Disconnect, Receive, ApplyEvent, DisconnectedEvent
  <2> QED BY <1>0, <2>1, NoStart DEF ApplyDisconnected, State, Shown
<1>3. CASE HostStats
  <2>1. PICK h \in HostId, name \in Name \cup {NoName} :
          state' = ApplyHostStats(state, h, name)
    BY <1>3 DEF HostStats, Receive, ApplyEvent
  <2> QED BY <1>0, <2>1, HostStatsEffect, NoStart
<1>4. CASE JobPending
  <2>1. PICK j \in JobId, c \in HostId : state' = ApplyJobPending(state, j, c)
    BY <1>4 DEF JobPending, Receive, ApplyEvent
  <2> QED BY <1>0, <2>1, NoStart DEF ApplyJobPending, State
<1>5. CASE JobBegin
  <2>1. PICK j \in JobId, h \in HostId : state' = ApplyJobBegin(state, j, h)
    BY <1>5 DEF JobBegin, Receive, ApplyEvent
  <2> QED BY <1>5, <2>1, RemoteStart DEF JobBegin
<1>6. CASE LocalJobBegin
  <2>1. PICK j \in JobId, h \in HostId : state' = ApplyLocalJobBegin(state, j, h)
    BY <1>6 DEF LocalJobBegin, Receive, ApplyEvent
  <2> QED BY <1>6, <2>1, LocalStart DEF LocalJobBegin
<1>7. CASE JobDone
  <2>1. PICK j \in JobId : state' = ApplyJobDone(state, j)
    BY <1>7 DEF JobDone, Receive, ApplyEvent
  <2> QED BY <1>0, <2>1, NoStart DEF ApplyJobDone, State, Shown
<1> QED BY <1>1, <1>2, <1>3, <1>4, <1>5, <1>6, <1>7 DEF Next

-----------------------------------------------------------------------------
(* More jobs of a kind only together with a higher total of that kind.     *)
LEMMA NextBelow ==
    IInv /\ RunningBelowTotals /\ [Next]_vars => RunningBelowTotals'
<1> SUFFICES ASSUME IInv, RunningBelowTotals, [Next]_vars
             PROVE  RunningBelowTotals'
  OBVIOUS
<1>0. TypeOK /\ state.total_local \in Nat /\ state.total_remote \in Nat
  BY StateAssumption DEF IInv, TypeOK, State, StateAssumption
<1>1. CASE Next
  <2>1. StartsAreCounted
    BY <1>0, <1>1, NextCounts
  <2>2. /\ Local(state) \in SUBSET JobId /\ Local(state') \in SUBSET JobId
        /\ Remote(state) \in SUBSET JobId /\ Remote(state') \in SUBSET JobId
    BY DEF Local, Remote, JobsIn
  <2>3. /\ Cardinality(Local(state)) \in Nat /\ Cardinality(Local(state')) \in Nat
        /\ Local(state') \subseteq Local(state)
              => Cardinality(Local(state')) <= Cardinality(Local(state))
        /\ \A j : Local(state') \subseteq Local(state) \cup {j}
              => Cardinality(Local(state')) <= Cardinality(Local(state)) + 1
    BY <2>2, JobSets
  <2>4. /\ Cardinality(Remote(state)) \in Nat /\ Cardinality(Remote(state')) \in Nat
        /\ Remote(state') \subseteq Remote(state)
              => Cardinality(Remote(state')) <= Cardinality(Remote(state))
        /\ \A j : Remote(state') \subseteq Remote(state) \cup {j}
              => Cardinality(Remote(state')) <= Cardinality(Remote(state)) + 1
    BY <2>2, JobSets
  <2>5. Cardinality(Local(state')) <= state'.total_local
    BY <1>0, <2>1, <2>3 DEF StartsAreCounted, RunningBelowTotals
  <2>6. Cardinality(Remote(state')) <= state'.total_remote
    BY <1>0, <2>1, <2>4 DEF StartsAreCounted, RunningBelowTotals
  <2> QED BY <2>5, <2>6 DEF RunningBelowTotals
<1>2. CASE UNCHANGED vars
  BY <1>2 DEF vars, RunningBelowTotals, Local, Remote, JobsIn
<1> QED BY <1>1, <1>2

(* An empty picture has no job.                                            *)
LEMMA InitBelow == Init => RunningBelowTotals
<1> SUFFICES ASSUME Init PROVE RunningBelowTotals
  OBVIOUS
<1>1. /\ Local(state) = {} /\ Remote(state) = {}
      /\ state.total_local = 0 /\ state.total_remote = 0
  BY DEF Init, NewState, Local, Remote, JobsIn, Shown
<1> QED BY <1>1, FS_EmptySet DEF RunningBelowTotals

(* Every job is pending or runs, and runs in one of two ways.              *)
LEMMA KindsOfJobs ==
    ASSUME TypeOK
    PROVE  /\ active_job_count(state) \in Nat /\ local_job_count(state) \in Nat
           /\ pending_job_count(state) \in Nat
           /\ active_job_count(state)
                = local_job_count(state) + Cardinality(Remote(state))
           /\ active_job_count(state) + pending_job_count(state)
                = Cardinality({j \in JobId : Shown(state.jobs, j)})
<1> DEFINE Active == JobsIn(state, {"RemoteActive", "LocalActive"})
           Pending == JobsIn(state, {"Pending"})
           All == {j \in JobId : Shown(state.jobs, j)}
<1>1. /\ Active = Local(state) \cup Remote(state) /\ Local(state) \cap Remote(state) = {}
      /\ All = Active \cup Pending /\ Active \cap Pending = {}
  <2>1. \A j \in JobId : Shown(state.jobs, j) =>
          state.jobs[j].state \in {"Pending", "RemoteActive", "LocalActive"}
    BY DEF TypeOK, State, Shown, Job, JobState
  <2> QED BY <2>1 DEF Local, Remote, JobsIn
<1>2. /\ IsFiniteSet(Local(state)) /\ IsFiniteSet(Remote(state))
      /\ IsFiniteSet(Active) /\ IsFiniteSet(Pending)
  <2>1. IsFiniteSet(JobId)
    BY ModelAssumption DEF ModelAssumption
  <2>2. /\ Local(state) \in SUBSET JobId /\ Remote(state) \in SUBSET JobId
        /\ Active \in SUBSET JobId /\ Pending \in SUBSET JobId
    BY DEF Local, Remote, JobsIn
  <2> QED BY <2>1, <2>2, FS_Subset
<1>3. Cardinality(Local(state) \cap Remote(state)) = 0 /\ Cardinality(Active \cap Pending) = 0
  BY <1>1, FS_EmptySet
<1>4. /\ Cardinality(Local(state)) \in Nat /\ Cardinality(Remote(state)) \in Nat
      /\ Cardinality(Active) \in Nat /\ Cardinality(Pending) \in Nat
  BY <1>2, FS_CardinalityType
<1>5. Cardinality(Local(state) \cup Remote(state))
        = Cardinality(Local(state)) + Cardinality(Remote(state)) - 0
  BY <1>2, <1>3, FS_Union
<1>6. Cardinality(Active \cup Pending) = Cardinality(Active) + Cardinality(Pending) - 0
  BY <1>2, <1>3, FS_Union
<1> HIDE DEF Active, Pending, All
<1>7. /\ active_job_count(state) = Cardinality(Active)
      /\ pending_job_count(state) = Cardinality(Pending)
      /\ local_job_count(state) = Cardinality(Local(state))
  BY DEF active_job_count, pending_job_count, local_job_count, Active, Pending, Local
<1>8. /\ Cardinality(Active) = Cardinality(Local(state)) + Cardinality(Remote(state))
      /\ Cardinality(All) = Cardinality(Active) + Cardinality(Pending)
  BY <1>1, <1>4, <1>5, <1>6
<1> QED BY <1>4, <1>7, <1>8 DEF All

(* Each active server has a job that no other server has.                  *)
LEMMA ServersHaveJobs ==
    ASSUME TypeOK
    PROVE  Cardinality(active_servers(state)) <= active_job_count(state)
<1> DEFINE Active == JobsIn(state, {"RemoteActive", "LocalActive"})
           Busy == {j \in Active : state.jobs[j].host_id \in active_servers(state)}
           f == [j \in Busy |-> state.jobs[j].host_id]
<1>1. f \in Surjection(Busy, active_servers(state))
  <2>1. f \in [Busy -> active_servers(state)]
    OBVIOUS
  <2>2. \A h \in active_servers(state) : \E j \in Busy : f[j] = h
    BY DEF active_servers, active_jobs_on_host
  <2> QED BY <2>1, <2>2 DEF Surjection
<1>2. IsFiniteSet(Active) /\ IsFiniteSet(Busy)
  <2>1. IsFiniteSet(JobId)
    BY ModelAssumption DEF ModelAssumption
  <2>2. Active \in SUBSET JobId /\ Busy \in SUBSET JobId
    BY DEF JobsIn
  <2> QED BY <2>1, <2>2, FS_Subset
<1>3. Busy \in SUBSET Active
  OBVIOUS
<1> HIDE DEF f, Busy, Active
<1>4. IsFiniteSet(active_servers(state))
      /\ Cardinality(active_servers(state)) <= Cardinality(Busy)
  BY <1>1, <1>2, FS_Surjection
<1>5. Cardinality(Busy) <= Cardinality(Active)
  BY <1>2, <1>3, FS_Subset
<1>6. /\ Cardinality(active_servers(state)) \in Nat
      /\ Cardinality(Busy) \in Nat /\ Cardinality(Active) \in Nat
  BY <1>2, <1>4, FS_CardinalityType
<1>7. active_job_count(state) = Cardinality(Active)
  BY DEF active_job_count, Active
<1> QED BY <1>4, <1>5, <1>6, <1>7

(* The header's lines agree (ui.rs:227-282; model.rs:185-218, 241-262).    *)
THEOREM HeaderAgrees == Spec => []HeaderAddsUp
<1>1. IInv /\ RunningBelowTotals => HeaderAddsUp
  <2> SUFFICES ASSUME IInv, RunningBelowTotals PROVE HeaderAddsUp
    OBVIOUS
  <2>1. TypeOK /\ state.total_local \in Nat /\ state.total_remote \in Nat
    BY StateAssumption DEF IInv, TypeOK, State, StateAssumption
  <2>2. Cardinality(Remote(state)) \in Nat
    <3>1. Remote(state) \in SUBSET JobId
      BY DEF Remote, JobsIn
    <3> QED BY <3>1, JobSets
  <2>3. local_job_count(state) = Cardinality(Local(state))
    BY DEF local_job_count, Local
  <2>4. active_job_count(state) - local_job_count(state) = Cardinality(Remote(state))
    BY <2>1, <2>2, KindsOfJobs
  <2> QED BY <2>1, <2>3, <2>4, KindsOfJobs, ServersHaveJobs
          DEF HeaderAddsUp, RunningBelowTotals
<1> QED BY <1>1, Invariance, InitBelow, NextBelow, PTL DEF Spec

-----------------------------------------------------------------------------
(* Hosts registered close to one another are drawn in different colours:   *)
(* next_color is the number of registrations modulo the width of a u8, and *)
(* a host keeps the one it got.  As the palette divides that width, the    *)
(* wrap does not disturb the order of the colours, and two numbers less    *)
(* than a palette apart have different residues.                           *)

(* A positive multiple is no smaller than what it is a multiple of.        *)
LEMMA Multiple ==
    ASSUME NEW k \in Int, NEW p \in Nat \ {0}, 0 < p * k
    PROVE  p <= p * k
<1>1. k >= 1
  BY Z3
<1> QED BY <1>1, Z3

(* The residue is the only one.                                            *)
LEMMA Residue ==
    ASSUME NEW m \in Nat \ {0}, NEW q \in Nat, NEW r \in 0..(m - 1)
    PROVE  (m * q + r) % m = r
<1> DEFINE n == m * q + r
<1>1. n \in Nat
  BY Z3
<1>2. PICK p \in Nat : n = m * p + (n % m)
  BY <1>1, Division
<1>3. n % m \in 0..(m - 1)
  BY <1>1, Division
<1>4. PICK u \in 0..(m - 1) : u = n % m
  BY <1>3
<1>5. m * p + u = m * q + r
  BY <1>2, <1>4
<1>6. m * (q - p) = u - r /\ m * (p - q) = r - u
  BY <1>5, Z3
<1>7. ~(0 < m * (q - p)) /\ ~(0 < m * (p - q))
  <2>1. CASE 0 < m * (q - p)
    BY <1>6, <2>1, Multiple
  <2>2. CASE 0 < m * (p - q)
    BY <1>6, <2>2, Multiple
  <2> QED BY <2>1, <2>2
<1>8. u = r
  BY <1>6, <1>7
<1> QED BY <1>4, <1>8

(* Counting modulo m is counting.                                          *)
LEMMA WrappingAdd ==
    ASSUME NEW n \in Nat, NEW m \in Nat \ {0}
    PROVE  ((n % m) + 1) % m = (n + 1) % m
<1>1. PICK q \in Nat : n = m * q + (n % m)
  BY Division
<1>2. n % m \in 0..(m - 1)
  BY Division
<1>3. CASE (n % m) + 1 < m
  <2> DEFINE r == (n % m) + 1
  <2>1. r \in 0..(m - 1)
    BY <1>2, <1>3
  <2>2. n + 1 = m * q + r
    BY <1>1, <1>2
  <2>3. r = m * 0 + r
    BY <2>1
  <2> HIDE DEF r
  <2>4. (m * q + r) % m = r /\ (m * 0 + r) % m = r
    BY <2>1, Residue
  <2> QED BY <2>2, <2>3, <2>4 DEF r
<1>4. CASE (n % m) + 1 = m
  <2>1. n + 1 = m * (q + 1) + 0
    <3>1. m * (q + 1) = m * q + m
      BY Z3
    <3>2. m * q \in Nat
      BY Z3
    <3> QED BY <1>1, <1>2, <1>4, <3>1, <3>2
  <2>2. m = m * 1 + 0
    OBVIOUS
  <2>3. (m * (q + 1) + 0) % m = 0 /\ (m * 1 + 0) % m = 0
    BY Residue
  <2> QED BY <1>4, <2>1, <2>2, <2>3
<1> QED BY <1>2, <1>3, <1>4

(* A palette that divides the width of the index does not see it wrap.     *)
LEMMA PaletteOfWrapped ==
    ASSUME NEW n \in Nat, NEW m \in Nat \ {0}, NEW p \in Nat \ {0}, m % p = 0
    PROVE  \E q \in Nat : n = p * q + ((n % m) % p)
<1>1. PICK a \in Nat : n = m * a + (n % m)
  BY Division
<1>2. PICK b \in Nat : m = p * b + (m % p)
  BY Division
<1>3. n % m \in Nat
  BY Division
<1>4. PICK c \in Nat : n % m = p * c + ((n % m) % p)
  BY <1>3, Division
<1> DEFINE u == (n % m) % p
<1>5. m = p * b
  BY <1>2, Z3
<1>6. u \in Nat
  BY <1>3, Division
<1> HIDE DEF u
<1>7. n = (p * b) * a + (p * c + u)
  BY <1>1, <1>4, <1>5 DEF u
<1>8. (p * b) * a + (p * c + u) = p * (b * a + c) + u
  BY <1>6, Z3
<1>9. b * a + c \in Nat
  BY Z3
<1> QED BY <1>7, <1>8, <1>9 DEF u

(* Numbers less than a palette apart are of different colours.             *)
LEMMA Apart ==
    ASSUME NEW m \in Nat \ {0}, NEW p \in Nat \ {0}, m % p = 0,
           NEW r \in Nat, NEW s \in Nat, r < s, s - r < p
    PROVE  (r % m) % p # (s % m) % p
<1> SUFFICES ASSUME (r % m) % p = (s % m) % p PROVE FALSE
  OBVIOUS
<1>1. PICK a \in Nat : r = p * a + ((r % m) % p)
  BY PaletteOfWrapped
<1>2. PICK b \in Nat : s = p * b + ((s % m) % p)
  BY PaletteOfWrapped
<1>3. PICK u \in 0..(p - 1) : u = (r % m) % p
  BY Division
<1>4. r = p * a + u /\ s = p * b + u
  BY <1>1, <1>2, <1>3
<1>5. s - r = p * (b - a)
  BY <1>4, Z3
<1>6. 0 < p * (b - a) /\ p * (b - a) < p
  BY <1>5
<1>7. p <= p * (b - a)
  BY <1>6, Multiple
<1>8. p * (b - a) \in Int
  BY Z3
<1> QED BY <1>6, <1>7, <1>8

-----------------------------------------------------------------------------
(* The colours of the hosts shown.                                         *)

ColourInv ==
    /\ state.next_color = registered % U8
    /\ \A h \in HostId : Shown(state.hosts, h) =>
          /\ regNo[h] < registered
          /\ state.hosts[h].color_idx = regNo[h] % U8

(* No host is new, and none changes its colour.                            *)
KeepsColours ==
    /\ state'.next_color = state.next_color
    /\ \A g \in HostId : Shown(state'.hosts, g) =>
          /\ Shown(state.hosts, g)
          /\ state'.hosts[g].color_idx = state.hosts[g].color_idx

(* Zero is the first colour, and no host has it yet.                       *)
LEMMA InitColours == Init => ColourInv
<1>1. 0 % U8 = 0
  <2>1. 0 = U8 * 0 + 0 /\ 0 \in 0..(U8 - 1)
    BY StateAssumption DEF StateAssumption
  <2>2. (U8 * 0 + 0) % U8 = 0
    BY <2>1, StateAssumption, Residue DEF StateAssumption
  <2> QED BY <2>1, <2>2
<1> QED BY <1>1 DEF Init, NewState, ColourInv, Shown

(* The events of jobs leave colours alone, and so does a begin that bumps  *)
(* counters of a host.                                                     *)
LEMMA JobColours ==
    ASSUME state \in State, NEW j \in JobId, NEW h \in HostId,
           \/ state' = ApplyJobPending(state, j, h)
           \/ state' = ApplyJobBegin(state, j, h)
           \/ state' = ApplyLocalJobBegin(state, j, h)
           \/ state' = ApplyJobDone(state, j)
    PROVE  KeepsColours
<1>1. CASE state' = ApplyJobPending(state, j, h) \/ state' = ApplyJobDone(state, j)
  BY <1>1 DEF ApplyJobPending, ApplyJobDone, State, KeepsColours
<1>2. CASE state' = ApplyJobBegin(state, j, h)
  <2>1. CASE ~Shown(state.jobs, j)
    BY <1>2, <2>1 DEF ApplyJobBegin, KeepsColours
  <2>2. CASE Shown(state.jobs, j)
    <3>1. state'.next_color = state.next_color
      BY <1>2 DEF ApplyJobBegin, State
    <3>2. \A g \in HostId :
            /\ Shown(state'.hosts, g) <=> Shown(state.hosts, g)
            /\ Shown(state.hosts, g) =>
                 state'.hosts[g].color_idx = state.hosts[g].color_idx
      BY <1>2, <2>2, JobBeginHosts
    <3> QED BY <3>1, <3>2 DEF KeepsColours
  <2> QED BY <2>1, <2>2
<1>3. CASE state' = ApplyLocalJobBegin(state, j, h)
  <2>1. state'.next_color = state.next_color
    BY <1>3 DEF ApplyLocalJobBegin, State
  <2>2. \A g \in HostId :
          /\ Shown(state'.hosts, g) <=> Shown(state.hosts, g)
          /\ Shown(state.hosts, g) =>
               state'.hosts[g].color_idx = state.hosts[g].color_idx
    BY <1>3, LocalJobBeginEffect
  <2> QED BY <2>1, <2>2 DEF KeepsColours
<1> QED BY <1>1, <1>2, <1>3

(* A host in the table keeps its number and its colour.                    *)
LEMMA KeptColours ==
    ASSUME ColourInv, KeepsColours, UNCHANGED <<registered, regNo>>
    PROVE  ColourInv'
BY DEF ColourInv, KeepsColours

(* A report about a host: the only event that gives out a colour.          *)
LEMMA HostStatsColours ==
    ASSUME TypeOK, ColourInv, HostStats
    PROVE  ColourInv'
<1>1. PICK h \in HostId, name \in Name \cup {NoName} :
        /\ state' = ApplyHostStats(state, h, name)
        /\ IF name \in Name /\ ~Shown(state.hosts, h)
           THEN /\ registered' = registered + 1
                /\ regNo' = [regNo EXCEPT ![h] = registered]
           ELSE UNCHANGED <<registered, regNo>>
  BY DEF HostStats, Receive, ApplyEvent
<1>2. state \in State /\ registered \in Nat /\ regNo \in [HostId -> Nat]
  BY ModelAssumption DEF ModelAssumption, TypeOK
<1>3. CASE name = NoName
  <2>1. KeepsColours
    BY <1>1, <1>2, <1>3 DEF ApplyHostStats, State, Shown, KeepsColours
  <2>2. UNCHANGED <<registered, regNo>>
    BY <1>1, <1>3, StateAssumption DEF StateAssumption
  <2> QED BY <2>1, <2>2, KeptColours
<1>4. CASE name # NoName /\ Shown(state.hosts, h)
  <2>1. /\ state'.hosts = [state.hosts EXCEPT ![h] = [state.hosts[h] EXCEPT !.name = name]]
        /\ state'.next_color = state.next_color
    BY <1>1, <1>2, <1>4 DEF ApplyHostStats, State
  <2>2. [state.hosts[h] EXCEPT !.name = name].color_idx = state.hosts[h].color_idx
    BY <1>2, <1>4 DEF State, Shown, Host
  <2>3. KeepsColours
    BY <1>2, <1>4, <2>1, <2>2 DEF State, Shown, KeepsColours
  <2> QED BY <1>1, <1>4, <2>3, KeptColours
<1>5. CASE name # NoName /\ ~Shown(state.hosts, h)
  <2>1. /\ state'.hosts = [state.hosts EXCEPT ![h] = NewHost(name, state.next_color)]
        /\ state'.next_color = (state.next_color + 1) % U8
    BY <1>1, <1>2, <1>5 DEF ApplyHostStats, State
  <2>2. registered' = registered + 1 /\ regNo' = [regNo EXCEPT ![h] = registered]
    BY <1>1, <1>5
  <2>3. state'.next_color = registered' % U8
    BY <1>2, <2>1, <2>2, WrappingAdd, StateAssumption DEF StateAssumption, ColourInv
  <2>4. ASSUME NEW g \in HostId, Shown(state'.hosts, g)
        PROVE  regNo'[g] < registered' /\ state'.hosts[g].color_idx = regNo'[g] % U8
    <3>1. CASE g = h
      BY <1>2, <2>1, <2>2, <3>1 DEF State, NewHost, ColourInv
    <3>2. CASE g # h
      <4>1. state'.hosts[g] = state.hosts[g] /\ regNo'[g] = regNo[g] /\ regNo[g] \in Nat
        BY <1>2, <2>1, <2>2, <3>2 DEF State
      <4>2. Shown(state.hosts, g)
        BY <2>4, <4>1 DEF Shown
      <4> QED BY <1>2, <2>2, <4>1, <4>2 DEF ColourInv
    <3> QED BY <3>1, <3>2
  <2> QED BY <2>3, <2>4 DEF ColourInv
<1> QED BY <1>3, <1>4, <1>5

(* Every step.                                                             *)
LEMMA NextColours == TypeOK /\ ColourInv /\ [Next]_vars => ColourInv'
<1> SUFFICES ASSUME TypeOK, ColourInv, [Next]_vars PROVE ColourInv'
  OBVIOUS
<1>1. state \in State
  BY DEF TypeOK
<1>2. CASE Connect
  <2>1. PICK s : state' = ApplyConnected(state, s)
    BY <1>2 DEF Connect, Receive, ApplyEvent
  <2>2. KeepsColours
    BY <1>1, <2>1 DEF ApplyConnected, State, KeepsColours
  <2> QED BY <1>2, <2>2, KeptColours DEF Connect
<1>3. CASE Disconnect
  <2>1. state' = ApplyDisconnected(state)
    BY <1>3 DEF Disconnect, Receive, ApplyEvent, DisconnectedEvent
  <2>2. KeepsColours
    BY <1>1, <2>1 DEF ApplyDisconnected, State, Shown, KeepsColours
  <2> QED BY <1>3, <2>2, KeptColours DEF Disconnect
<1>4. CASE HostStats
  BY <1>4, HostStatsColours
<1>5. CASE JobPending
  <2>1. PICK j \in JobId, h \in HostId : state' = ApplyJobPending(state, j, h)
    BY <1>5 DEF JobPending, Receive, ApplyEvent
  <2> QED BY <1>1, <1>5, <2>1, JobColours, KeptColours DEF JobPending
<1>6. CASE JobBegin
  <2>1. PICK j \in JobId, h \in HostId : state' = ApplyJobBegin(state, j, h)
    BY <1>6 DEF JobBegin, Receive, ApplyEvent
  <2> QED BY <1>1, <1>6, <2>1, JobColours, KeptColours DEF JobBegin
<1>7. CASE LocalJobBegin
  <2>1. PICK j \in JobId, h \in HostId : state' = ApplyLocalJobBegin(state, j, h)
    BY <1>7 DEF LocalJobBegin, Receive, ApplyEvent
  <2> QED BY <1>1, <1>7, <2>1, JobColours, KeptColours DEF LocalJobBegin
<1>8. CASE JobDone
  <2>1. PICK j \in JobId : state' = ApplyJobDone(state, j)
    BY <1>8 DEF JobDone, Receive, ApplyEvent
  <2>2. KeepsColours
    BY <1>1, <2>1 DEF ApplyJobDone, State, KeepsColours
  <2> QED BY <1>8, <2>2, KeptColours DEF JobDone
<1>9. CASE UNCHANGED vars
  BY <1>9 DEF vars, ColourInv
<1> QED BY <1>2, <1>3, <1>4, <1>5, <1>6, <1>7, <1>8, <1>9 DEF Next

(* Hosts registered fewer than PaletteSize apart never share a colour, as  *)
(* the palette divides the 256 values of the wrapping index                *)
(* (model.rs:162-166, ui.rs:38).                                           *)
THEOREM NeighboursDifferInColour == Spec => []NeighboursDiffer
<1>1. ASSUME TypeOK, ColourInv PROVE NeighboursDiffer
  <2> SUFFICES ASSUME NEW g \in ShownHosts(state), NEW h \in ShownHosts(state),
                      regNo[g] < regNo[h], regNo[h] - regNo[g] < PaletteSize
               PROVE  state.hosts[g].color_idx % PaletteSize
                        # state.hosts[h].color_idx % PaletteSize
    BY DEF NeighboursDiffer
  <2>1. /\ g \in HostId /\ state.hosts[g].color_idx = regNo[g] % U8
        /\ h \in HostId /\ state.hosts[h].color_idx = regNo[h] % U8
    BY <1>1 DEF ShownHosts, ColourInv
  <2>2. regNo[g] \in Nat /\ regNo[h] \in Nat
    BY <1>1, <2>1, ModelAssumption DEF ModelAssumption, TypeOK
  <2>3. (regNo[g] % U8) % PaletteSize # (regNo[h] % U8) % PaletteSize
    BY <2>2, Apart, StateAssumption, ModelAssumption DEF StateAssumption, ModelAssumption
  <2> QED BY <2>1, <2>3
<1>2. IInv => TypeOK
  BY DEF IInv
<1>3. ColourInv /\ IInv /\ [Next]_vars => ColourInv'
  BY <1>2, NextColours
<1>4. Spec => []ColourInv
  BY InitColours, <1>3, Invariance, PTL DEF Spec
<1> QED BY <1>1, <1>2, <1>4, Invariance, PTL

-----------------------------------------------------------------------------
(* The books balance: a begin raises one counter in each of two columns by *)
(* one and the header's total with them, and no other event raises a       *)
(* column.  Each column is the sum over the hosts shown of a counter.      *)

In(s) == [h \in ShownHosts(s) |-> s.hosts[h].total_in]
Out(s) == [h \in ShownHosts(s) |-> s.hosts[h].total_out]
LocalStarts(s) == [h \in ShownHosts(s) |-> s.hosts[h].total_local]

LEMMA ColumnTypes ==
    ASSUME NEW s \in State
    PROVE  /\ IsFiniteSet(ShownHosts(s))
           /\ In(s) \in [ShownHosts(s) -> Nat]
           /\ Out(s) \in [ShownHosts(s) -> Nat]
           /\ LocalStarts(s) \in [ShownHosts(s) -> Nat]
<1>1. IsFiniteSet(ShownHosts(s))
  BY ModelAssumption, FS_Subset DEF ModelAssumption, ShownHosts
<1>2. \A h \in ShownHosts(s) :
        /\ s.hosts[h].total_in \in Nat /\ s.hosts[h].total_out \in Nat
        /\ s.hosts[h].total_local \in Nat
  BY StateAssumption DEF StateAssumption, State, ShownHosts, Shown, Host
<1> QED BY <1>1, <1>2 DEF In, Out, LocalStarts

(* MapThenSumSet is the sum of each.                                      *)
LEMMA InColumn ==
    ASSUME NEW s \in State
    PROVE  \E g : /\ IsSum(g, In(s), ShownHosts(s))
                  /\ MapThenSumSet(LAMBDA h : s.hosts[h].total_in, ShownHosts(s))
                       = g[ShownHosts(s)]
<1> DEFINE S == ShownHosts(s)
           Value(g, t) == IF t = {} THEN 0
                          ELSE s.hosts[CHOOSE x \in t : TRUE].total_in
                                 + g[t \ {CHOOSE x \in t : TRUE}]
           Is(g) == g = [t \in SUBSET S |-> Value(g, t)]
           it == CHOOSE g : Is(g)
<1>1. MapThenSumSet(LAMBDA h : s.hosts[h].total_in, S) = it[S]
  BY DEF MapThenSumSet, MapThenFoldSet
<1>2. ASSUME NEW g, NEW t \in SUBSET S
      PROVE  Value(g, t) = IF t = {} THEN 0 ELSE In(s)[First(t)] + g[t \ {First(t)}]
  BY DEF In, First
<1>3. ASSUME NEW g PROVE Is(g) <=> IsSum(g, In(s), S)
  <2> DEFINE G == [t \in SUBSET S |->
                     IF t = {} THEN 0 ELSE In(s)[First(t)] + g[t \ {First(t)}]]
             H == [t \in SUBSET S |-> Value(g, t)]
  <2>1. G = H
    <3> HIDE DEF Value
    <3> QED BY <1>2
  <2>2. IsSum(g, In(s), S) <=> g = G
    BY DEF IsSum
  <2> HIDE DEF G
  <2> QED BY <2>1, <2>2
<1>4. \E g : Is(g)
  <2> HIDE DEF Is
  <2> QED BY <1>3, ColumnTypes, SumExists
<1>5. Is(it)
  <2> HIDE DEF Is
  <2> QED BY <1>4
<1>6. IsSum(it, In(s), S)
  <2> HIDE DEF Is, it
  <2> QED BY <1>3, <1>5
<1> HIDE DEF it
<1> QED BY <1>1, <1>6

LEMMA OutColumn ==
    ASSUME NEW s \in State
    PROVE  \E g : /\ IsSum(g, Out(s), ShownHosts(s))
                  /\ MapThenSumSet(LAMBDA h : s.hosts[h].total_out, ShownHosts(s))
                       = g[ShownHosts(s)]
<1> DEFINE S == ShownHosts(s)
           Value(g, t) == IF t = {} THEN 0
                          ELSE s.hosts[CHOOSE x \in t : TRUE].total_out
                                 + g[t \ {CHOOSE x \in t : TRUE}]
           Is(g) == g = [t \in SUBSET S |-> Value(g, t)]
           it == CHOOSE g : Is(g)
<1>1. MapThenSumSet(LAMBDA h : s.hosts[h].total_out, S) = it[S]
  BY DEF MapThenSumSet, MapThenFoldSet
<1>2. ASSUME NEW g, NEW t \in SUBSET S
      PROVE  Value(g, t) = IF t = {} THEN 0 ELSE Out(s)[First(t)] + g[t \ {First(t)}]
  BY DEF Out, First
<1>3. ASSUME NEW g PROVE Is(g) <=> IsSum(g, Out(s), S)
  <2> DEFINE G == [t \in SUBSET S |->
                     IF t = {} THEN 0 ELSE Out(s)[First(t)] + g[t \ {First(t)}]]
             H == [t \in SUBSET S |-> Value(g, t)]
  <2>1. G = H
    <3> HIDE DEF Value
    <3> QED BY <1>2
  <2>2. IsSum(g, Out(s), S) <=> g = G
    BY DEF IsSum
  <2> HIDE DEF G
  <2> QED BY <2>1, <2>2
<1>4. \E g : Is(g)
  <2> HIDE DEF Is
  <2> QED BY <1>3, ColumnTypes, SumExists
<1>5. Is(it)
  <2> HIDE DEF Is
  <2> QED BY <1>4
<1>6. IsSum(it, Out(s), S)
  <2> HIDE DEF Is, it
  <2> QED BY <1>3, <1>5
<1> HIDE DEF it
<1> QED BY <1>1, <1>6

LEMMA LocalColumn ==
    ASSUME NEW s \in State
    PROVE  \E g : /\ IsSum(g, LocalStarts(s), ShownHosts(s))
                  /\ MapThenSumSet(LAMBDA h : s.hosts[h].total_local, ShownHosts(s))
                       = g[ShownHosts(s)]
<1> DEFINE S == ShownHosts(s)
           Value(g, t) == IF t = {} THEN 0
                          ELSE s.hosts[CHOOSE x \in t : TRUE].total_local
                                 + g[t \ {CHOOSE x \in t : TRUE}]
           Is(g) == g = [t \in SUBSET S |-> Value(g, t)]
           it == CHOOSE g : Is(g)
<1>1. MapThenSumSet(LAMBDA h : s.hosts[h].total_local, S) = it[S]
  BY DEF MapThenSumSet, MapThenFoldSet
<1>2. ASSUME NEW g, NEW t \in SUBSET S
      PROVE  Value(g, t) = IF t = {} THEN 0 ELSE LocalStarts(s)[First(t)] + g[t \ {First(t)}]
  BY DEF LocalStarts, First
<1>3. ASSUME NEW g PROVE Is(g) <=> IsSum(g, LocalStarts(s), S)
  <2> DEFINE G == [t \in SUBSET S |->
                     IF t = {} THEN 0 ELSE LocalStarts(s)[First(t)] + g[t \ {First(t)}]]
             H == [t \in SUBSET S |-> Value(g, t)]
  <2>1. G = H
    <3> HIDE DEF Value
    <3> QED BY <1>2
  <2>2. IsSum(g, LocalStarts(s), S) <=> g = G
    BY DEF IsSum
  <2> HIDE DEF G
  <2> QED BY <2>1, <2>2
<1>4. \E g : Is(g)
  <2> HIDE DEF Is
  <2> QED BY <1>3, ColumnTypes, SumExists
<1>5. Is(it)
  <2> HIDE DEF Is
  <2> QED BY <1>4
<1>6. IsSum(it, LocalStarts(s), S)
  <2> HIDE DEF Is, it
  <2> QED BY <1>3, <1>5
<1> HIDE DEF it
<1> QED BY <1>1, <1>6

(* From f to e no counter rises but one, by one, and then the total does   *)
(* so as well, from n to m; a host that is new has none.                   *)
Booked(e, f, m, n) ==
    /\ \A x \in DOMAIN e \ DOMAIN f : e[x] = 0
    /\ \E k :
         /\ \A x \in DOMAIN e \cap DOMAIN f : x # k => e[x] <= f[x]
         /\ \/ m = n /\ (k \in DOMAIN e \cap DOMAIN f => e[k] <= f[k])
            \/ m = n + 1 /\ (k \in DOMAIN e \cap DOMAIN f => e[k] <= f[k] + 1)

StepIsBooked ==
    /\ Booked(In(state'), In(state), state'.total_remote, state.total_remote)
    /\ Booked(Out(state'), Out(state), state'.total_remote, state.total_remote)
    /\ Booked(LocalStarts(state'), LocalStarts(state), state'.total_local, state.total_local)

(* An event that leaves the totals alone and raises no counter.            *)
LEMMA NothingToBook ==
    ASSUME state \in State, state' \in State,
           state'.total_remote = state.total_remote, state'.total_local = state.total_local,
           \A g \in HostId : Shown(state'.hosts, g) =>
             /\ Shown(state.hosts, g) => SameHost(state.hosts[g], state'.hosts[g])
             /\ ~Shown(state.hosts, g) =>
                  /\ state'.hosts[g].total_in = 0 /\ state'.hosts[g].total_out = 0
                  /\ state'.hosts[g].total_local = 0
    PROVE  StepIsBooked
<1>1. \A g \in ShownHosts(state) :
        /\ state.hosts[g].total_in \in Nat /\ state.hosts[g].total_out \in Nat
        /\ state.hosts[g].total_local \in Nat
  BY StateAssumption DEF StateAssumption, State, ShownHosts, Shown, Host
<1>2. Booked(In(state'), In(state), state'.total_remote, state.total_remote)
  BY <1>1 DEF Booked, In, ShownHosts, SameHost
<1>3. Booked(Out(state'), Out(state), state'.total_remote, state.total_remote)
  BY <1>1 DEF Booked, Out, ShownHosts, SameHost
<1>4. Booked(LocalStarts(state'), LocalStarts(state), state'.total_local, state.total_local)
  BY <1>1 DEF Booked, LocalStarts, ShownHosts, SameHost
<1> QED BY <1>2, <1>3, <1>4 DEF StepIsBooked

(* A remote begin is booked at its host and at its client.                 *)
LEMMA RemoteIsBooked ==
    ASSUME IInv, state' \in State, NEW j \in JobId, NEW h \in HostId,
           state' = ApplyJobBegin(state, j, h), state.total_remote < MaxStarts
    PROVE  StepIsBooked
<1>0. state \in State
  BY DEF IInv, TypeOK
<1>1. CASE ~Shown(state.jobs, j)
  <2>1. state' = state
    BY <1>1 DEF ApplyJobBegin
  <2> QED BY <1>0, <2>1, NothingToBook DEF SameHost
<1>2. CASE Shown(state.jobs, j)
  <2>1. \A g \in ShownHosts(state) :
          /\ state.hosts[g].total_in \in Nat /\ state.hosts[g].total_out \in Nat
          /\ state.hosts[g].total_local \in Nat
    BY <1>0, StateAssumption DEF StateAssumption, State, ShownHosts, Shown, Host
  <2>2. /\ state'.total_remote = state.total_remote + 1
        /\ state'.total_local = state.total_local
        /\ \A g \in ShownHosts(state') :
             /\ g \in ShownHosts(state)
             /\ state'.hosts[g].total_in =
                  IF g = h THEN state.hosts[g].total_in + 1 ELSE state.hosts[g].total_in
             /\ state'.hosts[g].total_out =
                  IF g = state.jobs[j].client_id THEN state.hosts[g].total_out + 1
                                                 ELSE state.hosts[g].total_out
             /\ state'.hosts[g].total_local = state.hosts[g].total_local
    BY <1>2, RemoteBeginCounts DEF ShownHosts
  <2>3. Booked(In(state'), In(state), state'.total_remote, state.total_remote)
    <3>1. /\ \A x \in DOMAIN In(state') \ DOMAIN In(state) : In(state')[x] = 0
          /\ \A x \in DOMAIN In(state') \cap DOMAIN In(state) :
               IF x = h THEN In(state')[x] <= In(state)[x] + 1
                        ELSE In(state')[x] <= In(state)[x]
      BY <2>1, <2>2 DEF In
    <3> QED BY <2>2, <3>1 DEF Booked
  <2>4. Booked(Out(state'), Out(state), state'.total_remote, state.total_remote)
    <3>1. /\ \A x \in DOMAIN Out(state') \ DOMAIN Out(state) : Out(state')[x] = 0
          /\ \A x \in DOMAIN Out(state') \cap DOMAIN Out(state) :
               IF x = state.jobs[j].client_id THEN Out(state')[x] <= Out(state)[x] + 1
                                              ELSE Out(state')[x] <= Out(state)[x]
      BY <2>1, <2>2 DEF Out
    <3> QED BY <2>2, <3>1 DEF Booked
  <2>5. Booked(LocalStarts(state'), LocalStarts(state), state'.total_local, state.total_local)
    <3>1. /\ \A x \in DOMAIN LocalStarts(state') \ DOMAIN LocalStarts(state) :
               LocalStarts(state')[x] = 0
          /\ \A x \in DOMAIN LocalStarts(state') \cap DOMAIN LocalStarts(state) :
               LocalStarts(state')[x] <= LocalStarts(state)[x]
      BY <2>1, <2>2 DEF LocalStarts
    <3> QED BY <2>2, <3>1 DEF Booked
  <2> QED BY <2>3, <2>4, <2>5 DEF StepIsBooked
<1> QED BY <1>1, <1>2

(* A local begin is booked at its client.                                  *)
LEMMA LocalIsBooked ==
    ASSUME IInv, state' \in State, NEW j \in JobId, NEW h \in HostId,
           state' = ApplyLocalJobBegin(state, j, h), state.total_local < MaxStarts
    PROVE  StepIsBooked
<1>1. \A g \in ShownHosts(state) :
        /\ state.hosts[g].total_in \in Nat /\ state.hosts[g].total_out \in Nat
        /\ state.hosts[g].total_local \in Nat
  BY StateAssumption DEF IInv, TypeOK, StateAssumption, State, ShownHosts, Shown, Host
<1>2. /\ state'.total_local = state.total_local + 1
      /\ state'.total_remote = state.total_remote
      /\ \A g \in ShownHosts(state') :
           /\ g \in ShownHosts(state)
           /\ state'.hosts[g].total_in = state.hosts[g].total_in
           /\ state'.hosts[g].total_out = state.hosts[g].total_out
           /\ state'.hosts[g].total_local =
                IF g = h THEN state.hosts[g].total_local + 1
                         ELSE state.hosts[g].total_local
  BY LocalBeginCounts DEF ShownHosts
<1>3. Booked(In(state'), In(state), state'.total_remote, state.total_remote)
  <2>1. /\ \A x \in DOMAIN In(state') \ DOMAIN In(state) : In(state')[x] = 0
        /\ \A x \in DOMAIN In(state') \cap DOMAIN In(state) :
             In(state')[x] <= In(state)[x]
    BY <1>1, <1>2 DEF In
  <2> QED BY <1>2, <2>1 DEF Booked
<1>4. Booked(Out(state'), Out(state), state'.total_remote, state.total_remote)
  <2>1. /\ \A x \in DOMAIN Out(state') \ DOMAIN Out(state) : Out(state')[x] = 0
        /\ \A x \in DOMAIN Out(state') \cap DOMAIN Out(state) :
             Out(state')[x] <= Out(state)[x]
    BY <1>1, <1>2 DEF Out
  <2> QED BY <1>2, <2>1 DEF Booked
<1>5. Booked(LocalStarts(state'), LocalStarts(state), state'.total_local, state.total_local)
  <2>1. /\ \A x \in DOMAIN LocalStarts(state') \ DOMAIN LocalStarts(state) :
             LocalStarts(state')[x] = 0
        /\ \A x \in DOMAIN LocalStarts(state') \cap DOMAIN LocalStarts(state) :
             IF x = h THEN LocalStarts(state')[x] <= LocalStarts(state)[x] + 1
                      ELSE LocalStarts(state')[x] <= LocalStarts(state)[x]
    BY <1>1, <1>2 DEF LocalStarts
  <2> QED BY <1>2, <2>1 DEF Booked
<1> QED BY <1>3, <1>4, <1>5 DEF StepIsBooked

(* Every action.                                                           *)
LEMMA NextIsBooked ==
    ASSUME IInv, Next, state' \in State
    PROVE  StepIsBooked
<1>0. state \in State
  BY DEF IInv, TypeOK
<1>1. CASE Connect
  <2>1. PICK s \in Scheduler : state' = ApplyConnected(state, s)
    BY <1>1 DEF Connect, Receive, ApplyEvent
  <2>2. /\ state'.hosts = state.hosts /\ state'.total_remote = state.total_remote
        /\ state'.total_local = state.total_local
    BY <1>0, <2>1 DEF ApplyConnected, State
  <2> QED BY <1>0, <2>2, NothingToBook DEF SameHost
<1>2. CASE Disconnect
  <2>1. state' = ApplyDisconnected(state)
    BY <1>2 DEF Disconnect, Receive, ApplyEvent, DisconnectedEvent
  <2>2. /\ \A h \in HostId : ~Shown(state'.hosts, h)
        /\ state'.total_remote = state.total_remote
        /\ state'.total_local = state.total_local
    BY <1>0, <2>1 DEF ApplyDisconnected, State, Shown
  <2> QED BY <1>0, <2>2, NothingToBook
<1>3. CASE HostStats
  <2>1. PICK h \in HostId, name \in Name \cup {NoName} :
          state' = ApplyHostStats(state, h, name)
    BY <1>3 DEF HostStats, Receive, ApplyEvent
  <2> QED BY <1>0, <2>1, HostStatsEffect, NothingToBook
<1>4. CASE JobPending
  <2>1. PICK j \in JobId, c \in HostId : state' = ApplyJobPending(state, j, c)
    BY <1>4 DEF JobPending, Receive, ApplyEvent
  <2>2. /\ state'.hosts = state.hosts /\ state'.total_remote = state.total_remote
        /\ state'.total_local = state.total_local
    BY <1>0, <2>1 DEF ApplyJobPending, State
  <2> QED BY <1>0, <2>2, NothingToBook DEF SameHost
<1>5. CASE JobBegin
  <2>1. PICK j \in JobId, h \in HostId : state' = ApplyJobBegin(state, j, h)
    BY <1>5 DEF JobBegin, Receive, ApplyEvent
  <2> QED BY <1>5, <2>1, RemoteIsBooked DEF JobBegin
<1>6. CASE LocalJobBegin
  <2>1. PICK j \in JobId, h \in HostId : state' = ApplyLocalJobBegin(state, j, h)
    BY <1>6 DEF LocalJobBegin, Receive, ApplyEvent
  <2> QED BY <1>6, <2>1, LocalIsBooked DEF LocalJobBegin
<1>7. CASE JobDone
  <2>1. PICK j \in JobId : state' = ApplyJobDone(state, j)
    BY <1>7 DEF JobDone, Receive, ApplyEvent
  <2>2. /\ state'.hosts = state.hosts /\ state'.total_remote = state.total_remote
        /\ state'.total_local = state.total_local
    BY <1>0, <2>1 DEF ApplyJobDone, State
  <2> QED BY <1>0, <2>2, NothingToBook DEF SameHost
<1> QED BY <1>1, <1>2, <1>3, <1>4, <1>5, <1>6, <1>7 DEF Next

(* A column that is booked stays within its total.                         *)
LEMMA BookedStaysBelow ==
    ASSUME NEW S, IsFiniteSet(S), NEW R, IsFiniteSet(R),
           NEW e \in [S -> Nat], NEW f \in [R -> Nat],
           NEW c, NEW d, IsSum(c, e, S), IsSum(d, f, R),
           NEW n \in Nat, NEW m, Booked(e, f, m, n), d[R] <= n
    PROVE  c[S] <= m
<1>1. /\ DOMAIN e = S /\ DOMAIN f = R
      /\ \A k \in S \cap R : e[k] \in Nat /\ f[k] \in Nat /\ (e[k] <= f[k] => e[k] <= f[k] + 1)
  OBVIOUS
<1>2. PICK k : /\ \A x \in S \cap R : x # k => e[x] <= f[x]
               /\ \/ m = n /\ (k \in S \cap R => e[k] <= f[k])
                  \/ m = n + 1 /\ (k \in S \cap R => e[k] <= f[k] + 1)
  BY <1>1 DEF Booked
<1>3. \A x \in S \ R : e[x] = 0
  BY <1>1 DEF Booked
<1>4. k \in S \cap R => e[k] <= f[k] + 1
  BY <1>1, <1>2
<1>5. /\ c[S] \in Nat /\ d[R] \in Nat
      /\ c[S] <= d[R] + 1
      /\ (k \in S \cap R => e[k] <= f[k]) => c[S] <= d[R]
  BY <1>2, <1>3, <1>4, SumBound
<1> QED BY <1>2, <1>5

(* The invariant, of the sums themselves.                                  *)
SumsBelow ==
    LET S == ShownHosts(state)
    IN  /\ \A c : IsSum(c, In(state), S) => c[S] <= state.total_remote
        /\ \A c : IsSum(c, Out(state), S) => c[S] <= state.total_remote
        /\ \A c : IsSum(c, LocalStarts(state), S) => c[S] <= state.total_local

(* Nothing is in the columns of an empty table.                            *)
LEMMA InitBooks == Init => SumsBelow
<1> SUFFICES ASSUME Init PROVE SumsBelow
  OBVIOUS
<1>1. /\ state \in State /\ ShownHosts(state) = {}
      /\ state.total_remote = 0 /\ state.total_local = 0
  BY NewStateType DEF Init, NewState, ShownHosts, Shown
<1>2. ASSUME NEW f, NEW g, IsSum(g, f, {}) PROVE g[{}] = 0
  BY <1>2 DEF IsSum
<1> QED BY <1>1, <1>2 DEF SumsBelow

LEMMA NextBooks == IInv /\ SumsBelow /\ [Next]_vars => SumsBelow'
<1> SUFFICES ASSUME IInv, SumsBelow, [Next]_vars PROVE SumsBelow'
  OBVIOUS
<1> DEFINE S == ShownHosts(state')
           R == ShownHosts(state)
<1>1. CASE Next
  <2>0. /\ state \in State /\ state' \in State
        /\ state.total_remote \in Nat /\ state.total_local \in Nat
    BY <1>1, NextEvent, StateAssumption DEF StateAssumption, IInv, TypeOK, State
  <2>1. StepIsBooked
    BY <1>1, <2>0, NextIsBooked
  <2>2. /\ IsFiniteSet(R) /\ In(state) \in [R -> Nat]
        /\ Out(state) \in [R -> Nat] /\ LocalStarts(state) \in [R -> Nat]
    BY <2>0, ColumnTypes
  <2>3. /\ IsFiniteSet(S) /\ In(state') \in [S -> Nat]
        /\ Out(state') \in [S -> Nat] /\ LocalStarts(state') \in [S -> Nat]
    BY <2>0, ColumnTypes
  <2>4. ASSUME NEW c, IsSum(c, In(state'), S) PROVE c[S] <= state'.total_remote
    <3>1. PICK d : IsSum(d, In(state), R)
      BY <2>2, SumExists
    <3>2. /\ Booked(In(state'), In(state), state'.total_remote, state.total_remote)
          /\ d[R] <= state.total_remote
      BY <2>1, <3>1 DEF StepIsBooked, SumsBelow
    <3> DEFINE e == In(state')
               f == In(state)
    <3>3. e \in [S -> Nat] /\ f \in [R -> Nat] /\ IsFiniteSet(S) /\ IsFiniteSet(R)
      BY <2>2, <2>3
    <3>4. IsSum(c, e, S) /\ IsSum(d, f, R)
      BY <2>4, <3>1
    <3> HIDE DEF S, R
    <3>5. Booked(e, f, state'.total_remote, state.total_remote) /\ d[R] <= state.total_remote
      BY <3>2
    <3> HIDE DEF e, f
    <3> QED BY <2>0, <3>3, <3>4, <3>5, BookedStaysBelow
  <2>5. ASSUME NEW c, IsSum(c, Out(state'), S) PROVE c[S] <= state'.total_remote
    <3>1. PICK d : IsSum(d, Out(state), R)
      BY <2>2, SumExists
    <3>2. /\ Booked(Out(state'), Out(state), state'.total_remote, state.total_remote)
          /\ d[R] <= state.total_remote
      BY <2>1, <3>1 DEF StepIsBooked, SumsBelow
    <3> DEFINE e == Out(state')
               f == Out(state)
    <3>3. e \in [S -> Nat] /\ f \in [R -> Nat] /\ IsFiniteSet(S) /\ IsFiniteSet(R)
      BY <2>2, <2>3
    <3>4. IsSum(c, e, S) /\ IsSum(d, f, R)
      BY <2>5, <3>1
    <3> HIDE DEF S, R
    <3>5. Booked(e, f, state'.total_remote, state.total_remote) /\ d[R] <= state.total_remote
      BY <3>2
    <3> HIDE DEF e, f
    <3> QED BY <2>0, <3>3, <3>4, <3>5, BookedStaysBelow
  <2>6. ASSUME NEW c, IsSum(c, LocalStarts(state'), S) PROVE c[S] <= state'.total_local
    <3>1. PICK d : IsSum(d, LocalStarts(state), R)
      BY <2>2, SumExists
    <3>2. /\ Booked(LocalStarts(state'), LocalStarts(state), state'.total_local, state.total_local)
          /\ d[R] <= state.total_local
      BY <2>1, <3>1 DEF StepIsBooked, SumsBelow
    <3> DEFINE e == LocalStarts(state')
               f == LocalStarts(state)
    <3>3. e \in [S -> Nat] /\ f \in [R -> Nat] /\ IsFiniteSet(S) /\ IsFiniteSet(R)
      BY <2>2, <2>3
    <3>4. IsSum(c, e, S) /\ IsSum(d, f, R)
      BY <2>6, <3>1
    <3> HIDE DEF S, R
    <3>5. Booked(e, f, state'.total_local, state.total_local) /\ d[R] <= state.total_local
      BY <3>2
    <3> HIDE DEF e, f
    <3> QED BY <2>0, <3>3, <3>4, <3>5, BookedStaysBelow
  <2> QED BY <2>4, <2>5, <2>6 DEF SumsBelow
<1>2. CASE UNCHANGED vars
  BY <1>2 DEF vars, SumsBelow, In, Out, LocalStarts, ShownHosts
<1> QED BY <1>1, <1>2

(* A column never adds up to more than the header's total of its kind      *)
(* (model.rs:185-218).                                                     *)
THEOREM ColumnsBalance == Spec => []BooksBalance
<1>1. ASSUME IInv, SumsBelow PROVE BooksBalance
  <2>1. state \in State
    BY <1>1 DEF IInv, TypeOK
  <2>2. MapThenSumSet(LAMBDA h : state.hosts[h].total_in, ShownHosts(state))
          <= state.total_remote
    BY <1>1, <2>1, InColumn DEF SumsBelow
  <2>3. MapThenSumSet(LAMBDA h : state.hosts[h].total_out, ShownHosts(state))
          <= state.total_remote
    BY <1>1, <2>1, OutColumn DEF SumsBelow
  <2>4. MapThenSumSet(LAMBDA h : state.hosts[h].total_local, ShownHosts(state))
          <= state.total_local
    BY <1>1, <2>1, LocalColumn DEF SumsBelow
  <2> QED BY <2>2, <2>3, <2>4 DEF BooksBalance
<1> QED BY <1>1, InitBooks, NextBooks, Invariance, PTL DEF Spec
=============================================================================
