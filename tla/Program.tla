------------------------------ MODULE Program ------------------------------
(***************************************************************************)
(* The whole program, from the scheduler to the terminal (src/src/main.rs):*)
(* the monitor task and the forwarder of Monitor, the input thread and the *)
(* UI loop of RedrawLoop meet in the one channel event_rx.  The loop       *)
(* applies monitor events to the picture and copies the picture to the     *)
(* screen when it draws; main sets the terminal up before the loop and     *)
(* back after it, and its return ends the other tasks.                     *)
(***************************************************************************)
EXTENDS Naturals, Sequences, SequencesExt

CONSTANTS
    HostId, JobId, NoHost, Name, NoName, Scheduler, NoScheduler, Absent,
    U8, U32, U64, HalfOpen, MaxInFlight,  \* as in Monitor
    Interval, LogCap,                     \* as in RedrawLoop
    MaxTyped                              \* bound: keys and resizes waiting

VARIABLES
    srvHosts, srvJobs, toldHosts, toldJobs, link, wire, reachable,  \* the world
    pc, monq, state,                                                \* of Monitor
    phase, since, redraw_pending, timer, log, lag, stale, quiet,    \* of RedrawLoop
    rx,      \* event_rx: what was typed and what the forwarder sent
    screen,  \* the picture as it was last drawn
    modes    \* the terminal: "raw", "alternate"

world == <<srvHosts, srvJobs, toldHosts, toldJobs, link, wire, reachable>>
loop == <<phase, since, redraw_pending, timer, log, lag, stale, quiet>>
vars == <<world, pc, monq, state, loop, rx, screen, modes>>

(* UiEvent: a key, the key q, a resize, or a monitor event.                *)
Typed == [ kind : {"key", "quit", "resize"} ]
KindOf(e) == IF e \in Typed THEN e.kind ELSE "monitor"

(* The monitor events of the channel, and the kinds of all there is.       *)
Fed(q) == FlattenSeq([i \in DOMAIN q |-> IF q[i] \in Typed THEN <<>> ELSE <<q[i]>>])
Kinds(q) == [i \in DOMAIN q |-> KindOf(q[i])]

Mon == INSTANCE Monitor WITH eventq <- Fed(rx)
Loop == INSTANCE RedrawLoop WITH queue <- Kinds(rx), MaxQueue <- MaxTyped

ASSUME ProgramAssumption ==
    /\ Mon!StateAssumption /\ Mon!SchedulerAssumption /\ Mon!MonitorAssumption
    /\ Loop!RedrawAssumption

(* Raw mode and the alternate screen: set up, the loop runs.               *)
Both == {"raw", "alternate"}
Up == phase = "running" /\ modes = Both

Init ==
    /\ rx = <<>>
    /\ Mon!Init /\ Loop!Init
    /\ screen = state
    /\ modes = {}

-----------------------------------------------------------------------------
(* The tasks that fill the channel; they end with main.  They are spawned  *)
(* before the terminal is set up and may run from then on: more than the   *)
(* runtime's one thread allows them, which is main's until it waits.       *)

MonitorTask ==
    /\ phase = "running"
    /\ UNCHANGED <<rx, loop, screen, modes>>
    /\ Mon!MonitorTask

Forward ==
    /\ phase = "running" /\ monq # <<>>
    /\ rx' = Append(rx, Head(monq))
    /\ monq' = Tail(monq)
    /\ UNCHANGED <<world, pc, state, loop, screen, modes>>

Type ==
    /\ phase = "running"
    /\ Len(SelectSeq(rx, LAMBDA e : e \in Typed)) < MaxTyped
    /\ \E e \in Typed : rx' = Append(rx, e)
    /\ UNCHANGED <<world, pc, monq, state, loop, screen, modes>>

-----------------------------------------------------------------------------
(* main.                                                                   *)

(* enable_raw_mode, then EnterAlternateScreen and the first draw; an error *)
(* leaves main, that of the draw in the alternate screen.                  *)
SetUp ==
    /\ phase = "running" /\ modes # Both
    /\ LET next == IF modes = {} THEN {"raw"} ELSE Both IN
       \/ modes' = next /\ UNCHANGED phase
       \/ phase' = "failed" /\ modes' \in {modes} \cup ({next} \ {{"raw"}})
    /\ UNCHANGED <<world, pc, monq, state, since, redraw_pending, timer, log,
                   lag, stale, quiet, rx, screen>>

(* A draw in this step is one that leaves nothing undrawn.                 *)
Show == screen' = IF phase' = "running" /\ ~stale' THEN state' ELSE screen

(* Mutant: events are not applied while a redraw is pending.               *)
Applied_WhenIdle(e) ==
    IF e \in Typed \/ redraw_pending THEN state ELSE Mon!ApplyEvent(state, e)

Applied(e) == IF e \in Typed THEN state ELSE Mon!ApplyEvent(state, e)

(* The loop takes an event: process_event, and a draw if it is due.        *)
TakeEvent ==
    /\ Up /\ rx # <<>>
    /\ rx' = Tail(rx)
    /\ Loop!Loop
    /\ state' = Applied(Head(rx))
    /\ Show
    /\ UNCHANGED <<world, pc, monq, modes>>

RedrawLate ==
    /\ Up
    /\ UNCHANGED <<world, pc, monq, state, rx, modes>>
    /\ Loop!TimerFires
    /\ Show

Tick ==
    /\ Up
    /\ UNCHANGED <<world, pc, monq, state, rx, screen, modes>>
    /\ Loop!Tick

(* Mutant: the alternate screen is not left.                               *)
TearDown_RawOnly ==
    /\ phase = "left" /\ "raw" \in modes
    /\ modes' = modes \ {"raw"}
    /\ UNCHANGED <<world, pc, monq, state, loop, rx, screen>>

(* disable_raw_mode, then LeaveAlternateScreen.                            *)
TearDown ==
    /\ phase = "left" /\ modes # {}
    /\ \/ modes' = (IF "raw" \in modes THEN modes \ {"raw"} ELSE {}) /\ UNCHANGED phase
       \/ phase' = "failed" /\ UNCHANGED modes
    /\ UNCHANGED <<world, pc, monq, state, since, redraw_pending, timer, log,
                   lag, stale, quiet, rx, screen>>

-----------------------------------------------------------------------------
WorldNext ==
    /\ phase = "running"
    /\ UNCHANGED <<rx, pc, monq, state, loop, screen, modes>>
    /\ \/ Mon!SchedulerWorks /\ Mon!InFlight < MaxInFlight
       \/ Mon!NetworkNext
       \/ Mon!HandshakeStalls

Next ==
    \/ MonitorTask \/ Forward \/ Type
    \/ SetUp \/ TakeEvent \/ RedrawLate \/ Tick \/ TearDown
    \/ WorldNext

Spec == Init /\ [][Next]_vars

(* As in Monitor and in RedrawLoop; main also goes through its set-up.     *)
FairSpec ==
    /\ Spec
    /\ WF_vars(MonitorTask) /\ WF_vars(Forward)
    /\ WF_vars(TakeEvent) /\ WF_vars(RedrawLate) /\ WF_vars(Tick)
    /\ WF_vars(SetUp) /\ WF_vars(TearDown)

-----------------------------------------------------------------------------
(* The parts keep their types, and the screen shows a picture.             *)
TypeOK ==
    /\ Mon!TypeOK /\ Loop!TypeOK
    /\ rx \in Seq(Typed \cup Mon!MonitorEvent)
    /\ screen \in Mon!State
    /\ modes \subseteq Both

(* Keys and redraws in the same channel and the same loop do not disturb   *)
(* the path of the events: the whole program is a Monitor, so everything   *)
(* said of that holds here (main.rs:33-37, 104-122).                       *)
ImplementsMonitor == Mon!Spec

(* What is on the screen is the picture, unless a redraw is pending that   *)
(* will not outlast the interval that began with the last draw: an event   *)
(* is applied and then drawn or scheduled, in either branch, and no key or *)
(* resize in between makes the loop forget it (main.rs:124-165).           *)
UndrawnIsDue ==
    phase = "running" /\ screen # state =>
        redraw_pending /\ timer + quiet <= Interval

ShowsWhatWasTold ==
    /\ screen.connected
    /\ {h \in HostId : Mon!Shown(screen.hosts, h)} = toldHosts
    /\ screen.jobs = [j \in JobId |-> IF j \in toldJobs THEN srvJobs[j] ELSE Absent]

(* From the scheduler to the terminal: while a connection is up, with      *)
(* nothing on the wire or in a channel and no redraw pending, the screen   *)
(* shows exactly the hosts and jobs the scheduler announced on it, in      *)
(* their true states (monitor.rs:59-112, main.rs:64-71, 104-165).          *)
ScreenIsExact ==
    /\ phase = "running" /\ pc = "receive" /\ link = "up"
    /\ wire = <<>> /\ monq = <<>> /\ Fed(rx) = <<>> /\ ~redraw_pending
    => ShowsWhatWasTold

(* No host and no job is on the screen under the header Disconnected: the  *)
(* screen is the picture as it was between two events, and the channel the *)
(* keys share with the monitor keeps its sessions apart (main.rs:104-165,  *)
(* model.rs:151-155).                                                      *)
ScreenNeedsConnection == screen.connected \/ Mon!NothingShown(screen)

(* What is on the screen was the picture, drawn whole, and once nothing    *)
(* happens any more out there it is the truth: the hosts and jobs of the   *)
(* scheduler that can be reached, or Disconnected and nothing - however    *)
(* keys, retries, draws and the last events interleave (main.rs:124-165).  *)
(* It takes a world without half-open peers: one that goes silent is never *)
(* found out (SilenceIsNoticed of Monitor).                                *)
ScreenIsRight ==
    IF reachable \/ link = "up"
    THEN ShowsWhatWasTold
    ELSE ~screen.connected /\ Mon!NothingShown(screen)
WorldIsQuiet ==
    UNCHANGED <<srvHosts, srvJobs, reachable>> /\ (link' = "ended" => link = "ended")
ScreenSettles ==
    <>[][WorldIsQuiet]_vars => <>[](ScreenIsRight \/ phase # "running")

(* A q that was typed, also while the program still starts, gives the      *)
(* terminal back as it was; only an error of the terminal itself does not  *)
(* (main.rs:92-94, 106-109, 167-169).                                      *)
QuitGivesTerminalBack ==
    (phase = "running" /\ \E i \in DOMAIN rx : rx[i].kind = "quit")
        ~> (modes = {} /\ phase = "left") \/ phase = "failed"
=============================================================================
