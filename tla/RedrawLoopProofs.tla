-------------------------- MODULE RedrawLoopProofs --------------------------
(***************************************************************************)
(* For any interval and any stream of events: a change is on the screen    *)
(* within one interval, and the monitor causes at most one draw in each.   *)
(*                                                                         *)
(* The bounds are not inductive by themselves: that a change is never      *)
(* older than the last draw, and that a pending sleep ends exactly when    *)
(* the interval since that draw does, is what carries them from an event   *)
(* to the next.                                                            *)
(***************************************************************************)
EXTENDS RedrawLoop, TLAPS, SequenceTheorems

Clocks ==
    /\ since = quiet
    /\ redraw_pending = stale
    /\ redraw_pending => timer = Interval - since
    /\ IF stale THEN lag <= since ELSE lag = 0

IInv == TypeOK /\ Clocks

-----------------------------------------------------------------------------
(* The first draw is done before the loop.                                 *)
LEMMA InitInv == Init => IInv
<1> SUFFICES ASSUME Init PROVE IInv
  OBVIOUS
<1>1. queue \in Seq(Kind)
  BY EmptySeq DEF Init
<1>2. Clocks
  BY DEF Init, Clocks
<1>3. redraw_pending \in BOOLEAN /\ stale \in BOOLEAN
  BY DEF Init
<1>4. /\ since \in 0..Interval /\ timer \in 0..Interval /\ quiet \in 0..Interval
      /\ log \in 0..LogCap /\ lag \in 0..(Interval + 1) /\ phase \in {"running", "left", "failed"}
  BY RedrawAssumption DEF RedrawAssumption, Init
<1> QED BY <1>1, <1>2, <1>3, <1>4 DEF IInv, TypeOK

(* Taking an event off the queue, and the log's line for it.               *)
LEMMA TakeType ==
    ASSUME TypeOK, NEW kinds, Take(kinds)
    PROVE  queue' \in Seq(Kind)
BY DEF TypeOK, Take

(* The log is trimmed to its capacity.                                     *)
LEMMA ApplyType ==
    ASSUME TypeOK, Apply
    PROVE  log' \in 0..LogCap
BY RedrawAssumption DEF RedrawAssumption, TypeOK, Apply

(* A draw leaves nothing undrawn and starts the interval anew.             *)
LEMMA DrawInv ==
    ASSUME IInv, Draw, queue' \in Seq(Kind), log' \in 0..LogCap
    PROVE  IInv'
<1>1. CASE phase' = "running"
  <2>1. /\ since' = 0 /\ timer' = 0 /\ lag' = 0 /\ quiet' = 0
        /\ redraw_pending' = FALSE /\ stale' = FALSE
    BY <1>1 DEF Draw, LoopTop
  <2>2. TypeOK'
    <3>1. redraw_pending' \in BOOLEAN /\ stale' \in BOOLEAN
      BY <2>1
    <3>2. /\ since' \in 0..Interval /\ timer' \in 0..Interval
          /\ quiet' \in 0..Interval /\ lag' \in 0..(Interval + 1)
      BY <2>1, RedrawAssumption DEF RedrawAssumption
    <3> QED BY <1>1, <3>1, <3>2 DEF TypeOK
  <2>3. Clocks'
    BY <2>1 DEF Clocks
  <2> QED BY <2>2, <2>3 DEF IInv
<1>2. CASE phase' = "failed"
  BY <1>2 DEF Draw, IInv, TypeOK, Clocks
<1> QED BY <1>1, <1>2 DEF Draw

(* A change that is not drawn has its redraw pending and its sleep remade. *)
LEMMA UndrawnInv ==
    ASSUME IInv, Undrawn, redraw_pending' = TRUE,
           queue' \in Seq(Kind), log' \in 0..LogCap
    PROVE  IInv'
BY RedrawAssumption
   DEF RedrawAssumption, IInv, TypeOK, Clocks, Undrawn, LoopTop, Remaining

(* Every step of the loop, and of time.                                    *)
LEMMA NextInv == IInv /\ [Next]_vars => IInv'
<1> SUFFICES ASSUME IInv, [Next]_vars PROVE IInv'
  OBVIOUS
<1>1. CASE Quit
  <2>1. queue' \in Seq(Kind)
    BY <1>1, TakeType DEF Quit, IInv
  <2> QED BY <1>1, <2>1 DEF Quit, IInv, TypeOK, Clocks
<1>2. CASE TimerFires
  BY <1>2, DrawInv DEF TimerFires, IInv, TypeOK
<1>3. CASE PendingImmediate \/ IdleImmediate
  <2>1. queue' \in Seq(Kind) /\ log' \in 0..LogCap
    BY <1>3, TakeType DEF PendingImmediate, IdleImmediate, IInv, TypeOK
  <2> QED BY <1>3, <2>1, DrawInv DEF PendingImmediate, IdleImmediate
<1>4. CASE PendingMonitor
  <2>1. queue' \in Seq(Kind) /\ log' \in 0..LogCap
    BY <1>4, TakeType, ApplyType DEF PendingMonitor, IInv
  <2> QED BY <1>4, <2>1, UndrawnInv DEF PendingMonitor
<1>5. CASE IdleMonitor
  <2>1. queue' \in Seq(Kind) /\ log' \in 0..LogCap
    BY <1>5, TakeType, ApplyType DEF IdleMonitor, IInv
  <2> QED BY <1>5, <2>1, DrawInv, UndrawnInv DEF IdleMonitor
<1>6. CASE Arrive
  <2>1. queue' \in Seq(Kind)
    BY <1>6 DEF Arrive, IInv, TypeOK
  <2> QED BY <1>6, <2>1 DEF Arrive, IInv, TypeOK, Clocks
<1>7. CASE Tick
  BY <1>7, RedrawAssumption DEF RedrawAssumption, Tick, IInv, TypeOK, Clocks
<1>8. CASE UNCHANGED vars
  BY <1>8 DEF vars, IInv, TypeOK, Clocks
<1> QED BY <1>1, <1>2, <1>3, <1>4, <1>5, <1>6, <1>7, <1>8 DEF Next, Loop

(* The invariant holds throughout.                                         *)
LEMMA Invariance == Spec => []IInv
BY InitInv, NextInv, PTL DEF Spec

(* The log never outgrows its capacity and no clock its range, whatever    *)
(* arrives (main.rs:113-116).                                              *)
THEOREM LoopTyped == Spec => []TypeOK
<1>1. IInv => TypeOK
  BY DEF IInv
<1> QED BY <1>1, Invariance, PTL

(* Something undrawn always has its redraw pending, due within the         *)
(* interval that began with the last draw (main.rs:124-165).               *)
THEOREM StaleHasRedraw == Spec => []StaleIsPending
<1>1. IInv => StaleIsPending
  BY RedrawAssumption DEF RedrawAssumption, IInv, TypeOK, Clocks, StaleIsPending
<1> QED BY <1>1, Invariance, PTL

(* No change waits longer than min_interval for the screen, whatever keeps *)
(* arriving (main.rs:126-127).                                             *)
THEOREM ScreenIsFresh == Spec => []StalenessBounded
<1>1. IInv => StalenessBounded
  BY RedrawAssumption DEF RedrawAssumption, IInv, TypeOK, Clocks, StalenessBounded
<1> QED BY <1>1, Invariance, PTL

(* Between a draw and the next one made for the monitor lies the interval  *)
(* (main.rs:127-132, 156-162).                                             *)
THEOREM Throttled == Spec => DrawsAreThrottled
<1>1. IInv /\ [Next]_vars =>
        [TimerFires \/ (IdleMonitor /\ ~redraw_pending') => quiet = Interval]_vars
  <2> SUFFICES ASSUME IInv, TimerFires \/ (IdleMonitor /\ ~redraw_pending')
               PROVE  quiet = Interval
    OBVIOUS
  <2>1. CASE TimerFires
    BY <2>1, RedrawAssumption DEF RedrawAssumption, TimerFires, IInv, TypeOK, Clocks
  <2>2. CASE IdleMonitor /\ ~redraw_pending'
    BY <2>2, RedrawAssumption DEF RedrawAssumption, IdleMonitor, IInv, TypeOK, Clocks
  <2> QED BY <2>1, <2>2
<1> QED BY <1>1, Invariance, PTL DEF Spec, DrawsAreThrottled
=============================================================================
