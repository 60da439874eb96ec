----------------------------- MODULE RedrawLoop -----------------------------
(***************************************************************************)
(* The UI loop of src/src/main.rs: when an event is applied, when the      *)
(* screen is redrawn.  A key or a resize is drawn at once; a monitor event *)
(* is drawn at once if the last draw is min_interval old, and otherwise    *)
(* together with those that follow it, when it is.                         *)
(*                                                                         *)
(* Time passes in ticks.  What an event does to App is left out: it        *)
(* changes what should be on the screen.                                   *)
(***************************************************************************)
EXTENDS Naturals, Sequences

CONSTANTS
    Interval,  \* min_interval, in ticks
    LogCap,    \* the 1000 lines of log_messages
    MaxQueue   \* bound: events waiting in event_rx

ASSUME RedrawAssumption ==
    /\ Interval \in Nat \ {0}
    /\ LogCap \in Nat \ {0}
    /\ MaxQueue \in Nat

VARIABLES
    phase,           \* "running", "left" by q, or "failed" in terminal.draw
    queue,           \* the kinds of the events in event_rx
    since,           \* last_redraw.elapsed(), as far as Interval
    redraw_pending,  \* the loop's flag
    timer,           \* what is left of the sleep of the pending branch
    log,             \* log_messages.len()
    lag,             \* history: the age of the oldest change not yet drawn,
                     \* as far as Interval + 1
    stale,           \* history: whether there is one
    quiet            \* history: the time since the screen was really drawn

vars == <<phase, queue, since, redraw_pending, timer, log, lag, stale, quiet>>

Kind == {"key", "quit", "resize", "monitor"}
Immediate == {"key", "resize"}

(* The log never holds more than LogCap lines (main.rs:113-116).           *)
TypeOK ==
    /\ phase \in {"running", "left", "failed"}
    /\ queue \in Seq(Kind)
    /\ since \in 0..Interval
    /\ redraw_pending \in BOOLEAN
    /\ timer \in 0..Interval
    /\ log \in 0..LogCap
    /\ lag \in 0..(Interval + 1)
    /\ stale \in BOOLEAN
    /\ quiet \in 0..Interval

(* The first draw is done before the loop.                                 *)
Init ==
    /\ phase = "running"
    /\ queue = <<>>
    /\ since = 0
    /\ redraw_pending = FALSE
    /\ timer = 0
    /\ log = 0
    /\ lag = 0 /\ stale = FALSE /\ quiet = 0

-----------------------------------------------------------------------------
(* Mutant: the sleep begins anew with every event.                         *)
Remaining_Whole(elapsed) == Interval

(* min_interval.saturating_sub(elapsed), computed each time round.         *)
Remaining(elapsed) == Interval - elapsed

(* The top of the loop: the pending branch makes its sleep anew.           *)
LoopTop == timer' = IF redraw_pending' THEN Remaining(since') ELSE 0

(* Mutant: last_redraw is not set.                                         *)
Draw_ForgetsTime ==
    \/ /\ phase' = "running"
       /\ since' = since
       /\ redraw_pending' = FALSE
       /\ LoopTop
       /\ stale' = FALSE /\ lag' = 0 /\ quiet' = 0
    \/ /\ phase' = "failed"
       /\ UNCHANGED <<since, redraw_pending, timer, lag, stale, quiet>>

(* terminal.draw, then last_redraw and the flag; in the idle branch the    *)
(* flag is clear already.  An error leaves main through `?`.               *)
Draw ==
    \/ /\ phase' = "running"
       /\ since' = 0
       /\ redraw_pending' = FALSE
       /\ LoopTop
       /\ stale' = FALSE /\ lag' = 0 /\ quiet' = 0
    \/ /\ phase' = "failed"
       /\ UNCHANGED <<since, redraw_pending, timer, lag, stale, quiet>>

(* process_event on a monitor event: one line more in the log, the oldest  *)
(* one out when it is full, and a picture the screen does not show.        *)
(* Mutant: the log is not trimmed.                                         *)
Apply_KeepsAll == log' = log + 1

Apply ==
    log' = IF log + 1 > LogCap THEN log ELSE log + 1
Undrawn ==
    /\ stale' = TRUE
    /\ UNCHANGED <<phase, since, lag, quiet>>
    /\ LoopTop

Take(kinds) ==
    /\ phase = "running"
    /\ queue # <<>> /\ Head(queue) \in kinds
    /\ queue' = Tail(queue)

(* Mutant: the pending branch does not ask process_event whether to quit.  *)
Quit_IdleOnly ==
    /\ Take({"quit"})
    /\ phase' = IF redraw_pending THEN phase ELSE "left"
    /\ UNCHANGED <<since, redraw_pending, timer, log, lag, stale, quiet>>

(* The key q, in whichever branch: process_event says so, the loop breaks. *)
Quit ==
    /\ Take({"quit"})
    /\ phase' = "left"
    /\ UNCHANGED <<since, redraw_pending, timer, log, lag, stale, quiet>>

-----------------------------------------------------------------------------
(* The pending branch: the sleep against the queue, in any order.          *)

TimerFires ==
    /\ phase = "running" /\ redraw_pending /\ timer = 0
    /\ Draw
    /\ UNCHANGED <<queue, log>>

(* Mutant: a key clears the flag without drawing.                          *)
PendingImmediate_NoDraw ==
    /\ redraw_pending /\ Take(Immediate)
    /\ redraw_pending' = FALSE
    /\ Undrawn
    /\ UNCHANGED log

PendingImmediate ==
    /\ redraw_pending /\ Take(Immediate)
    /\ Draw
    /\ UNCHANGED log

PendingMonitor ==
    /\ redraw_pending /\ Take({"monitor"})
    /\ Apply
    /\ UNCHANGED redraw_pending
    /\ Undrawn

(* The idle branch.                                                        *)

IdleImmediate ==
    /\ ~redraw_pending /\ Take(Immediate)
    /\ Draw
    /\ UNCHANGED log

(* Mutant: an event too soon after a draw is not remembered.               *)
IdleMonitor_NotPending ==
    /\ ~redraw_pending /\ Take({"monitor"})
    /\ Apply
    /\ IF since >= Interval THEN Draw ELSE UNCHANGED redraw_pending /\ Undrawn

IdleMonitor ==
    /\ ~redraw_pending /\ Take({"monitor"})
    /\ Apply
    /\ IF since >= Interval
       THEN Draw
       ELSE redraw_pending' = TRUE /\ Undrawn

Loop ==
    \/ Quit \/ PendingImmediate \/ PendingMonitor
    \/ IdleImmediate \/ IdleMonitor

-----------------------------------------------------------------------------
(* Keys, resizes and monitor events come at any time.                      *)
Arrive ==
    /\ phase = "running" /\ Len(queue) < MaxQueue
    /\ \E k \in Kind : queue' = Append(queue, k)
    /\ UNCHANGED <<phase, since, redraw_pending, timer, log, lag, stale, quiet>>

(* The runtime wakes a sleep when it is over: time does not pass a timer   *)
(* that has expired.                                                       *)
Tick ==
    /\ phase = "running" /\ (redraw_pending => timer > 0)
    /\ since' = IF since < Interval THEN since + 1 ELSE since
    /\ quiet' = IF quiet < Interval THEN quiet + 1 ELSE quiet
    /\ timer' = IF timer > 0 THEN timer - 1 ELSE 0
    /\ lag' = IF ~stale THEN 0 ELSE IF lag <= Interval THEN lag + 1 ELSE lag
    /\ UNCHANGED <<phase, queue, redraw_pending, log, stale>>

Next == Loop \/ TimerFires \/ Arrive \/ Tick

Spec == Init /\ [][Next]_vars

(* Time goes on, and the two branches of select! are polled in random      *)
(* order, so neither is put off forever by the other.                      *)
FairSpec == Spec /\ WF_vars(Tick) /\ WF_vars(TimerFires) /\ WF_vars(Loop)

-----------------------------------------------------------------------------
(* A change that is not on the screen is on its way there: whenever the    *)
(* loop waits with something undrawn, the redraw is pending and its sleep  *)
(* will not outlast the interval that began with the last draw, whichever  *)
(* branch handled which event last (main.rs:125-164).                      *)
StaleIsPending ==
    stale => redraw_pending /\ timer + quiet <= Interval

(* No change waits longer than one interval for the screen, however many   *)
(* monitor events keep coming in between: each of them restarts the sleep, *)
(* but only for what remains (main.rs:126-127).                            *)
StalenessBounded == lag <= Interval

(* The screen is not drawn for the sake of the monitor more than once per  *)
(* interval, counting the draws that keys and resizes cause                *)
(* (main.rs:127-132, 142, 156-162).                                        *)
DrawsAreThrottled ==
    [][TimerFires \/ (IdleMonitor /\ ~redraw_pending') => quiet = Interval]_vars

(* A change is drawn in the end, unless the program is left or fails.      *)
ChangeIsDrawn == stale ~> ~stale \/ phase # "running"

(* A q that was typed ends the program, however busy the monitor is        *)
(* (main.rs:106-109, 136, 152).                                            *)
QuitIsHeard ==
    (\E i \in DOMAIN queue : queue[i] = "quit") ~> phase # "running"
=============================================================================
