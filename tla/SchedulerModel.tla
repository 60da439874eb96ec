--------------------------- MODULE SchedulerModel ---------------------------
(***************************************************************************)
(* SchedulerState driven by every sequence of events, in any order: what   *)
(* apply_event keeps true whatever the scheduler sends, also when begins   *)
(* come without a request, hosts leave while jobs run on them, or a job id *)
(* is announced twice.                                                     *)
(***************************************************************************)
EXTENDS SchedulerState, FiniteSetsExt

CONSTANTS
    PaletteSize,      \* HOST_COLORS.len()
    MaxStarts,        \* bound: job starts explored, of either kind
    MaxRegistrations  \* bound: hosts registered

(* A host's counters cannot wrap before 2^32 jobs; the runs stay below     *)
(* that.  256 colours are a whole number of palettes.  Ids are u32.        *)
ASSUME ModelAssumption ==
    /\ MaxStarts \in Nat /\ MaxStarts < U32 /\ U32 <= U64
    /\ MaxRegistrations \in Nat
    /\ PaletteSize \in Nat \ {0} /\ U8 % PaletteSize = 0
    /\ IsFiniteSet(HostId) /\ IsFiniteSet(JobId)

VARIABLES
    state,       \* App.state
    registered,  \* history: how many hosts were registered so far
    regNo,       \* history: the number each shown host got when registered
    counted      \* history: running jobs whose start the host now shown saw

vars == <<state, registered, regNo, counted>>

Init ==
    /\ state = NewState
    /\ registered = 0
    /\ regNo = [h \in HostId |-> 0]
    /\ counted = {}

(* What the header and the table count.                                    *)
ShownHosts(s) == {h \in HostId : Shown(s.hosts, h)}
JobsIn(s, states) == {j \in JobId : Shown(s.jobs, j) /\ s.jobs[j].state \in states}
active_jobs_on_host(s, h) ==
    {j \in JobsIn(s, {"RemoteActive", "LocalActive"}) : s.jobs[j].host_id = h}
active_job_count(s) == Cardinality(JobsIn(s, {"RemoteActive", "LocalActive"}))
local_job_count(s) == Cardinality(JobsIn(s, {"LocalActive"}))
pending_job_count(s) == Cardinality(JobsIn(s, {"Pending"}))
active_servers(s) == {h \in ShownHosts(s) : active_jobs_on_host(s, h) # {}}

-----------------------------------------------------------------------------
(* One action per event kind.                                              *)

Receive(e) ==
    /\ state' = ApplyEvent(state, e)
    /\ counted' =
        {j \in UNION {active_jobs_on_host(state', h) : h \in ShownHosts(state')} :
            j \in counted \/ state'.jobs[j] # state.jobs[j]}

Connect ==
    /\ \E s \in Scheduler : Receive([kind |-> "Connected", scheduler |-> s])
    /\ UNCHANGED <<registered, regNo>>

Disconnect == Receive(DisconnectedEvent) /\ UNCHANGED <<registered, regNo>>

HostStats ==
    \E h \in HostId, name \in Name \cup {NoName} :
        /\ registered < MaxRegistrations
        /\ Receive([kind |-> "HostStats", host |-> h, name |-> name])
        /\ IF name \in Name /\ ~Shown(state.hosts, h)
           THEN /\ registered' = registered + 1
                /\ regNo' = [regNo EXCEPT ![h] = registered]
           ELSE UNCHANGED <<registered, regNo>>

JobPending ==
    /\ \E j \in JobId, c \in HostId :
        Receive([kind |-> "JobPending", job |-> j, client |-> c])
    /\ UNCHANGED <<registered, regNo>>

JobBegin ==
    /\ state.total_remote < MaxStarts
    /\ \E j \in JobId, h \in HostId :
        Receive([kind |-> "JobBegin", job |-> j, host |-> h])
    /\ UNCHANGED <<registered, regNo>>

LocalJobBegin ==
    /\ state.total_local < MaxStarts
    /\ \E j \in JobId, h \in HostId :
        Receive([kind |-> "LocalJobBegin", job |-> j, host |-> h])
    /\ UNCHANGED <<registered, regNo>>

JobDone ==
    /\ \E j \in JobId : Receive([kind |-> "JobDone", job |-> j])
    /\ UNCHANGED <<registered, regNo>>

Next ==
    \/ Connect \/ Disconnect \/ HostStats
    \/ JobPending \/ JobBegin \/ LocalJobBegin \/ JobDone

Spec == Init /\ [][Next]_vars

-----------------------------------------------------------------------------
(* The fields stay within their types, the wrapping colour index included  *)
(* (model.rs:38-52, 99-119).                                               *)
TypeOK ==
    /\ state \in State
    /\ registered \in 0..MaxRegistrations
    /\ regNo \in [HostId -> 0..MaxRegistrations]
    /\ counted \subseteq JobId

(* Books balance: the IN (OUT, LOCAL) column never adds up to more than    *)
(* the Remote (Remote, Local) total of the header, through any order of    *)
(* begins, restarts of a job id, hosts that leave and come back, and       *)
(* reconnections (apply_event, model.rs:185-218).                          *)
BooksBalance ==
    LET column(f(_)) == MapThenSumSet(LAMBDA h : f(state.hosts[h]), ShownHosts(state))
    IN  /\ column(LAMBDA r : r.total_in) <= state.total_remote
        /\ column(LAMBDA r : r.total_out) <= state.total_remote
        /\ column(LAMBDA r : r.total_local) <= state.total_local

(* A host's CUR never exceeds its IN and LOCAL by jobs it saw start: every *)
(* running job that began while its host was shown, and stayed shown, is   *)
(* in that host's total_in if it is remote and in its total_local if it is *)
(* local.  Jobs left over from before the host was dropped and came back   *)
(* are the only ones in CUR that its counters lack (model.rs:159, 185-218).*)
RunningIsCounted ==
    \A h \in ShownHosts(state) :
        LET running(st) == counted \cap active_jobs_on_host(state, h) \cap JobsIn(state, {st})
        IN  /\ Cardinality(running("RemoteActive")) <= state.hosts[h].total_in
            /\ Cardinality(running("LocalActive")) <= state.hosts[h].total_local

(* The lines of the header do not contradict one another, although the     *)
(* counts are taken afresh and the totals are carried along: no more local *)
(* (remote) jobs run than were ever counted, a server is active only for a *)
(* job of its own, and every job is active or pending (draw_header,        *)
(* ui.rs:227-282; model.rs:185-218, 241-262).                              *)
HeaderAddsUp ==
    /\ local_job_count(state) <= state.total_local
    /\ active_job_count(state) - local_job_count(state) <= state.total_remote
    /\ Cardinality(active_servers(state)) <= active_job_count(state)
    /\ active_job_count(state) + pending_job_count(state)
         = Cardinality({j \in JobId : Shown(state.jobs, j)})

(* A job runs on no host exactly while it is pending, and a local job runs *)
(* on its own client, whatever events hit the same job id before           *)
(* (apply_event, model.rs:174-213; active_jobs_on_host relies on it).      *)
JobShape ==
    \A j \in JobId : Shown(state.jobs, j) =>
        LET job == state.jobs[j] IN
        /\ job.state = "Pending" <=> job.host_id = NoHost
        /\ job.state = "LocalActive" => job.client_id = job.host_id

(* Two shown hosts registered fewer than PaletteSize apart are drawn in    *)
(* different colours, also after next_color wrapped (model.rs:162-166,     *)
(* host_color in ui.rs:38).                                                *)
NeighboursDiffer ==
    \A g, h \in ShownHosts(state) :
        /\ regNo[g] < regNo[h]
        /\ regNo[h] - regNo[g] < PaletteSize
        => state.hosts[g].color_idx % PaletteSize
             # state.hosts[h].color_idx % PaletteSize

(* While a host stays in the table its colour never changes and its        *)
(* counters never go back: a stats update renews the host, it does not     *)
(* replace it (entry().or_insert_with, model.rs:163-167).                  *)
HostKeepsHistory ==
    [][\A h \in HostId :
        Shown(state.hosts, h) /\ Shown(state'.hosts, h) =>
            LET old == state.hosts[h]
                new == state'.hosts[h]
            IN  /\ new.color_idx = old.color_idx
                /\ new.total_in >= old.total_in
                /\ new.total_out >= old.total_out
                /\ new.total_local >= old.total_local]_vars
=============================================================================
