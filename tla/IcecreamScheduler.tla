------------------------- MODULE IcecreamScheduler -------------------------
(***************************************************************************)
(* EXTERNAL.  The icecream scheduler and the TCP connection to it, as far  *)
(* as src/src/monitor.rs and the protocol crate rely on them: the daemons  *)
(* and jobs the scheduler has, the messages it sends to a monitor that     *)
(* logged in, and the ways a connection ends.                              *)
(*                                                                         *)
(* Daemons come, report, and go, also while jobs of theirs run.  A monitor *)
(* is told what happens while it is logged in and nothing of what happened *)
(* before: it may see the begin or the end of a job it never heard of.     *)
(***************************************************************************)
EXTENDS SchedulerState, Sequences

CONSTANT
    HalfOpen      \* whether a peer may vanish without closing its connection

ASSUME SchedulerAssumption == HalfOpen \in BOOLEAN

VARIABLES
    srvHosts,   \* the daemons the scheduler has
    srvJobs,    \* the jobs the scheduler has
    toldHosts,  \* the daemons it announced on the present connection
    toldJobs,   \* the jobs whose request it announced there
    link,       \* the connection as the network sees it
    wire,       \* the messages sent and not yet read
    reachable   \* whether a connection attempt would succeed

truth == <<srvHosts, srvJobs>>
told == <<toldHosts, toldJobs>>
schedulerVars == <<srvHosts, srvJobs, toldHosts, toldJobs, link, wire, reachable>>

Link == {"none", "up", "ended", "silent"}

(* What recv_message returns: a message, or an error.  "End" is a message, *)
(* "Eof" stands for a closed or reset stream, "Bad" for a frame that is    *)
(* too long or does not decode, an unknown type included.                  *)
LastMessage == [ kind : {"End", "Eof", "Bad"} ]
Message ==
    [ kind : {"MonStats"}, host_id : HostId, name : Name \cup {NoName} ]
        \cup [ kind : {"MonGetCs"}, job_id : JobId, client_id : HostId ]
        \cup [ kind : {"MonJobBegin", "MonLocalJobBegin"}, job_id : JobId, host_id : HostId ]
        \cup [ kind : {"MonJobDone", "JobLocalDone"}, job_id : JobId ]
        \cup [ kind : {"Ping"} ]
        \cup LastMessage

SchedulerTypeOK ==
    /\ srvHosts \subseteq HostId
    /\ srvJobs \in [JobId -> Job \cup {Absent}]
    /\ toldHosts \subseteq HostId
    /\ toldJobs \subseteq JobId
    /\ link \in Link
    /\ wire \in Seq(Message)
    /\ reachable \in BOOLEAN

SchedulerInit ==
    /\ srvHosts = {}
    /\ srvJobs = [j \in JobId |-> Absent]
    /\ toldHosts = {} /\ toldJobs = {}
    /\ link = "none"
    /\ wire = <<>>
    /\ reachable = TRUE

-----------------------------------------------------------------------------
(* What the scheduler does is announced if a monitor is logged in.         *)

Announce(m, hosts, jobs) ==
    IF link = "up"
    THEN /\ wire' = Append(wire, m)
         /\ toldHosts' = hosts
         /\ toldJobs' = jobs
    ELSE UNCHANGED <<wire, toldHosts, toldJobs>>

HostReports(h, name) ==
    /\ srvHosts' = srvHosts \cup {h}
    /\ Announce([kind |-> "MonStats", host_id |-> h, name |-> name],
                toldHosts \cup {h}, toldJobs)
    /\ UNCHANGED srvJobs

HostLeaves(h) ==
    /\ h \in srvHosts
    /\ srvHosts' = srvHosts \ {h}
    /\ Announce([kind |-> "MonStats", host_id |-> h, name |-> NoName],
                toldHosts \ {h}, toldJobs)
    /\ UNCHANGED srvJobs

JobRequested(j, client) ==
    /\ srvJobs[j] = Absent /\ client \in srvHosts
    /\ srvJobs' = [srvJobs EXCEPT ![j] =
           [client_id |-> client, host_id |-> NoHost, state |-> "Pending"]]
    /\ Announce([kind |-> "MonGetCs", job_id |-> j, client_id |-> client],
                toldHosts, toldJobs \cup {j})
    /\ UNCHANGED srvHosts

JobStarts(j, h) ==
    /\ srvJobs[j] # Absent /\ srvJobs[j].state = "Pending" /\ h \in srvHosts
    /\ srvJobs' = [srvJobs EXCEPT ![j].host_id = h, ![j].state = "RemoteActive"]
    /\ Announce([kind |-> "MonJobBegin", job_id |-> j, host_id |-> h],
                toldHosts, toldJobs)
    /\ UNCHANGED srvHosts

LocalJobStarts(j, h) ==
    /\ srvJobs[j] = Absent /\ h \in srvHosts
    /\ srvJobs' = [srvJobs EXCEPT ![j] =
           [client_id |-> h, host_id |-> h, state |-> "LocalActive"]]
    /\ Announce([kind |-> "MonLocalJobBegin", job_id |-> j, host_id |-> h],
                toldHosts, toldJobs \cup {j})
    /\ UNCHANGED srvHosts

(* A request can end without ever having started.                          *)
JobFinishes(j) ==
    /\ srvJobs[j] # Absent
    /\ srvJobs' = [srvJobs EXCEPT ![j] = Absent]
    /\ Announce([kind |-> IF srvJobs[j].state = "LocalActive"
                          THEN "JobLocalDone" ELSE "MonJobDone", job_id |-> j],
                toldHosts, toldJobs \ {j})
    /\ UNCHANGED srvHosts

Ping ==
    /\ link = "up"
    /\ wire' = Append(wire, [kind |-> "Ping"])
    /\ UNCHANGED <<truth, told>>

SchedulerWorks ==
    /\ \/ \E h \in HostId, name \in Name : HostReports(h, name)
       \/ \E h \in HostId : HostLeaves(h)
       \/ \E j \in JobId, h \in HostId :
            JobRequested(j, h) \/ JobStarts(j, h) \/ LocalJobStarts(j, h)
       \/ \E j \in JobId : JobFinishes(j)
       \/ Ping
    /\ UNCHANGED <<link, reachable>>

(* The scheduler ends the connection, or a middlebox does; a reset loses   *)
(* what was not read yet.  When it was the scheduler's own exit it comes   *)
(* back empty, and gives its job ids out anew.                             *)
Hangup(last) ==
    /\ link = "up"
    /\ link' = "ended"
    /\ \E unread \in {wire, <<>>} : wire' = Append(unread, last)

ConnectionEnds ==
    /\ \E last \in LastMessage : Hangup(last)
    /\ UNCHANGED <<truth, told, reachable>>

SchedulerRestarts ==
    /\ IF link = "up" THEN Hangup([kind |-> "Eof"]) ELSE UNCHANGED <<link, wire>>
    /\ srvHosts' = {}
    /\ srvJobs' = [j \in JobId |-> Absent]
    /\ UNCHANGED <<told, reachable>>

(* The peer loses power or its cable: nothing more comes, not even an end. *)
GoesSilent ==
    /\ HalfOpen /\ link = "up"
    /\ link' = "silent"
    /\ \E unread \in {wire, <<>>} : wire' = unread
    /\ UNCHANGED <<truth, told, reachable>>

ReachabilityChanges ==
    /\ reachable' = ~reachable
    /\ UNCHANGED <<truth, told, link, wire>>

NetworkNext ==
    ConnectionEnds \/ SchedulerRestarts \/ GoesSilent \/ ReachabilityChanges
=============================================================================
