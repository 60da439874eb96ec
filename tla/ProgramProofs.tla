--------------------------- MODULE ProgramProofs ---------------------------
(***************************************************************************)
(* The program as a whole implements the monitor with its two channels,    *)
(* and what reaches the screen is what Monitor and RedrawLoop promise      *)
(* together: for any scheduler, any number of hosts, jobs and messages     *)
(* under way, and any interval between two draws.                          *)
(*                                                                         *)
(* Neither component is proved again.  The monitor's lemmas are used with  *)
(* the monitor's events of rx in place of its channel (MP), the loop's     *)
(* with the kinds of the events of rx (LP).  What is new is what lies      *)
(* between them: how rx looks to either side, and that the screen is the   *)
(* picture as of the last draw.                                            *)
(***************************************************************************)
EXTENDS Program, DataProofs

MP == INSTANCE MonitorProofs WITH eventq <- Fed(rx)
LP == INSTANCE RedrawLoopProofs WITH queue <- Kinds(rx), MaxQueue <- MaxTyped

(* UiEvent: a key, a resize or an event of the monitor.                    *)
Event == Typed \cup Mon!MonitorEvent

(* The assumptions of the modules whose lemmas are used here.              *)
LEMMA Assumptions ==
    /\ MP!StateAssumption /\ MP!SchedulerAssumption /\ MP!MonitorAssumption
    /\ LP!RedrawAssumption
BY ProgramAssumption
   DEF MP!StateAssumption, MP!SchedulerAssumption, MP!MonitorAssumption,
       MP!Host, MP!Job, MP!JobState, LP!RedrawAssumption,
       Mon!StateAssumption, Mon!SchedulerAssumption, Mon!MonitorAssumption,
       Mon!Host, Mon!Job, Mon!JobState, Loop!RedrawAssumption

(* The operators of Program's instance of Monitor are those of the         *)
(* instance of MonitorProofs: both substitute the same expressions.        *)
LEMMA MonitorOperators ==
    /\ Mon!MonitorEvent = MP!MonitorEvent
    /\ Mon!State = MP!State
    /\ Mon!TypeOK <=> MP!TypeOK
    /\ Mon!Init <=> MP!Init
    /\ Mon!vars = MP!vars
<1>1. /\ Mon!MonitorEvent = MP!MonitorEvent
      /\ Mon!State = MP!State
      /\ Mon!TypeOK <=> MP!TypeOK
  BY Zenon DEF Mon!MonitorEvent, Mon!ConnectedEvent, Mon!DisconnectedEvent, Mon!DataEvent,
               MP!MonitorEvent, MP!ConnectedEvent, MP!DisconnectedEvent, MP!DataEvent,
               Mon!State, Mon!Host, Mon!Job, Mon!JobState, MP!State, MP!Host, MP!Job,
               MP!JobState, Mon!TypeOK, Mon!SchedulerTypeOK, Mon!Link, Mon!Message,
               Mon!LastMessage, Mon!PC, MP!TypeOK, MP!SchedulerTypeOK, MP!Link, MP!Message,
               MP!LastMessage, MP!PC
<1>2. (Mon!Init <=> MP!Init) /\ Mon!vars = MP!vars
  BY Zenon DEF Mon!Init, Mon!SchedulerInit, Mon!NewState, MP!Init, MP!SchedulerInit,
               MP!NewState, Mon!vars, MP!vars
<1> QED BY <1>1, <1>2

(* So are the steps.                                                       *)
LEMMA MonitorSteps == [Mon!Next]_Mon!vars <=> [MP!Next]_MP!vars
<1>1. Mon!MonitorTask <=> MP!MonitorTask
  BY Zenon DEF Mon!MonitorTask, Mon!Discover, Mon!Connect, Mon!AttemptFails, Mon!Receive,
               Mon!ReceiveLast, Mon!WakeUp, Mon!EventsOf, Mon!LastMessage,
               Mon!schedulerVars, Mon!monitorVars, Mon!truth, Mon!told,
               Mon!DisconnectedEvent, Mon!InFlight, Mon!Send, MP!MonitorTask, MP!Discover,
               MP!Connect, MP!AttemptFails, MP!Receive, MP!ReceiveLast, MP!WakeUp,
               MP!EventsOf, MP!LastMessage, MP!schedulerVars, MP!monitorVars, MP!truth,
               MP!told, MP!DisconnectedEvent, MP!InFlight, MP!Send
<1>2. (Mon!Forward <=> MP!Forward) /\ (Mon!HandshakeStalls <=> MP!HandshakeStalls)
  BY Zenon DEF Mon!Forward, Mon!HandshakeStalls, Mon!InFlight, Mon!Send, Mon!monitorVars,
               Mon!schedulerVars, Mon!truth, Mon!told, MP!Forward, MP!HandshakeStalls,
               MP!InFlight, MP!Send, MP!monitorVars, MP!schedulerVars, MP!truth, MP!told
<1>3. Mon!Process <=> MP!Process
  BY Zenon DEF Mon!Process, Mon!schedulerVars, Mon!truth, Mon!told, Mon!ApplyEvent,
               Mon!ApplyConnected, Mon!ApplyDisconnected, Mon!ApplyHostStats,
               Mon!ApplyJobPending, Mon!ApplyJobBegin, Mon!ApplyLocalJobBegin,
               Mon!ApplyJobDone, Mon!BumpIn, Mon!BumpOut, Mon!BumpLocal, Mon!Shown,
               Mon!NewHost, Mon!Inc32, Mon!Inc64, MP!Process, MP!schedulerVars, MP!truth,
               MP!told, MP!ApplyEvent, MP!ApplyConnected, MP!ApplyDisconnected,
               MP!ApplyHostStats, MP!ApplyJobPending, MP!ApplyJobBegin,
               MP!ApplyLocalJobBegin, MP!ApplyJobDone, MP!BumpIn, MP!BumpOut, MP!BumpLocal,
               MP!Shown, MP!NewHost, MP!Inc32, MP!Inc64
<1>4. Mon!SchedulerWorks /\ Mon!InFlight < MaxInFlight
        <=> MP!SchedulerWorks /\ MP!InFlight < MaxInFlight
  BY Zenon DEF Mon!SchedulerWorks, Mon!InFlight, Mon!Announce, Mon!HostReports,
               Mon!HostLeaves, Mon!JobRequested, Mon!JobStarts, Mon!LocalJobStarts,
               Mon!JobFinishes, Mon!Ping, Mon!Send, Mon!truth, Mon!told, Mon!LastMessage,
               Mon!Shown, MP!SchedulerWorks, MP!InFlight, MP!Announce, MP!HostReports,
               MP!HostLeaves, MP!JobRequested, MP!JobStarts, MP!LocalJobStarts,
               MP!JobFinishes, MP!Ping, MP!Send, MP!truth, MP!told, MP!LastMessage, MP!Shown
<1>5. Mon!NetworkNext <=> MP!NetworkNext
  BY Zenon DEF Mon!NetworkNext, Mon!Hangup, Mon!ConnectionEnds, Mon!SchedulerRestarts,
               Mon!GoesSilent, Mon!ReachabilityChanges, Mon!truth, Mon!told,
               Mon!LastMessage, Mon!Send, MP!NetworkNext, MP!Hangup, MP!ConnectionEnds,
               MP!SchedulerRestarts, MP!GoesSilent, MP!ReachabilityChanges, MP!truth,
               MP!told, MP!LastMessage, MP!Send
<1>6. /\ UNCHANGED Mon!vars <=> UNCHANGED MP!vars
      /\ UNCHANGED Mon!monitorVars <=> UNCHANGED MP!monitorVars
  BY Zenon DEF Mon!vars, Mon!monitorVars, MP!vars, MP!monitorVars
<1>7. Mon!Next <=> MP!Next
  BY Zenon, <1>1, <1>2, <1>3, <1>4, <1>5, <1>6 DEF Mon!Next, MP!Next
<1> QED BY <1>6, <1>7

(* And the types after a step.                                             *)
LEMMA MonitorOperatorsPrimed == Mon!TypeOK' <=> MP!TypeOK'
BY MonitorOperators, PTL

(* The same of the two instances of the loop.                              *)
LEMMA LoopOperators ==
    /\ Loop!TypeOK <=> LP!TypeOK
    /\ Loop!Init <=> LP!Init
    /\ Loop!vars = LP!vars
    /\ Loop!Next <=> LP!Next
BY Zenon DEF Loop!TypeOK, LP!TypeOK, Loop!Kind, LP!Kind, Loop!Init, LP!Init, Loop!vars,
             LP!vars, Loop!Next, Loop!Loop, Loop!TimerFires, Loop!Arrive, Loop!Tick,
             Loop!Quit, Loop!PendingImmediate, Loop!PendingMonitor, Loop!IdleImmediate,
             Loop!IdleMonitor, Loop!Take, Loop!Apply, Loop!Draw, Loop!Undrawn,
             Loop!LoopTop, Loop!Remaining, Loop!Immediate, LP!Next, LP!Loop, LP!TimerFires,
             LP!Arrive, LP!Tick, LP!Quit, LP!PendingImmediate, LP!PendingMonitor,
             LP!IdleImmediate, LP!IdleMonitor, LP!Take, LP!Apply, LP!Draw, LP!Undrawn,
             LP!LoopTop, LP!Remaining, LP!Immediate

(* And of its types after a step.                                          *)
LEMMA LoopOperatorsPrimed == Loop!TypeOK' <=> LP!TypeOK'
BY LoopOperators, PTL

(* An event of rx is either typed or the monitor's, and the loop tells the *)
(* two apart by the variant.                                               *)
LEMMA KindsOfEvents ==
    ASSUME NEW e \in Event
    PROVE  /\ e \in Typed \/ e \in Mon!MonitorEvent
           /\ ~(e \in Typed /\ e \in Mon!MonitorEvent)
           /\ KindOf(e) \in Loop!Kind
           /\ KindOf(e) = "monitor" <=> e \in Mon!MonitorEvent
BY DEF Event, Typed, KindOf, Loop!Kind, Mon!MonitorEvent, Mon!ConnectedEvent,
       Mon!DisconnectedEvent, Mon!DataEvent

(* The monitor's part of rx: it is empty when rx is, grows by what the     *)
(* forwarder appends and by nothing that is typed, and loses its head when *)
(* rx loses one of the monitor's events.                                   *)
LEMMA FedLaws ==
    ASSUME NEW q \in Seq(Event), NEW e \in Event
    PROVE  /\ Fed(q) \in Seq(Mon!MonitorEvent)
           /\ Fed(<<>>) = <<>>
           /\ Fed(Append(q, e)) = IF e \in Typed THEN Fed(q) ELSE Append(Fed(q), e)
           /\ q # <<>> => Fed(q) = IF Head(q) \in Typed THEN Fed(Tail(q))
                                   ELSE <<Head(q)>> \o Fed(Tail(q))
<1> DEFINE V == Mon!MonitorEvent
           Piece(d) == IF d \in Typed THEN <<>> ELSE <<d>>
           f == [d \in Event |-> Piece(d)]
<1>1. \A d \in Event : Piece(d) \in Seq(V)
  <2> TAKE d \in Event
  <2>1. CASE d \in Typed
    BY <2>1, EmptySeq
  <2>2. CASE d \notin Typed
    <3>1. d \in V
      BY <2>2 DEF Event
    <3> HIDE DEF V
    <3>2. <<d>> \in Seq(V)
      BY <3>1
    <3> QED BY <2>2, <3>2
  <2> QED BY <2>1, <2>2
<1> HIDE DEF V
<1>2. f \in [Event -> Seq(V)] /\ \A d \in Event : f[d] = Piece(d)
  <2> HIDE DEF Piece
  <2> QED BY <1>1
<1>3. ASSUME NEW r \in Seq(Event) PROVE Fed(r) = FlatMap(f, r)
  <2>1. \A i \in DOMAIN r : f[r[i]] = Piece(r[i])
    BY <1>2
  <2> HIDE DEF f
  <2>2. Images(f, r) = [i \in DOMAIN r |-> Piece(r[i])]
    BY <2>1 DEF Images
  <2> QED BY <2>2 DEF Fed, FlatMap
<1> HIDE DEF f, Piece
<1>4. /\ FlatMap(f, q) \in Seq(V) /\ FlatMap(f, <<>>) = <<>>
      /\ FlatMap(f, Append(q, e)) = FlatMap(f, q) \o f[e]
      /\ q # <<>> => FlatMap(f, q) = f[Head(q)] \o FlatMap(f, Tail(q))
  <2>1. f \in [Event -> Seq(V)]
    BY <1>2
  <2>2. /\ FlatMap(f, q) \in Seq(V) /\ FlatMap(f, <<>>) = <<>>
        /\ FlatMap(f, Append(q, e)) = FlatMap(f, q) \o f[e]
    BY ONLY <2>1, q \in Seq(Event), e \in Event, FlatMapLaws
  <2>3. q # <<>> => FlatMap(f, q) = f[Head(q)] \o FlatMap(f, Tail(q))
    BY ONLY <2>1, q \in Seq(Event), FlatMapHead
  <2> QED BY <2>2, <2>3
<1>5. /\ Append(q, e) \in Seq(Event) /\ <<>> \in Seq(Event)
      /\ q # <<>> => Head(q) \in Event /\ Tail(q) \in Seq(Event)
  BY EmptySeq, HeadTailProperties
<1>6. Fed(q) \in Seq(V) /\ Fed(<<>>) = <<>>
  BY <1>3, <1>4, <1>5
<1>7. Fed(Append(q, e)) = Fed(q) \o Piece(e)
  BY <1>2, <1>3, <1>4, <1>5
<1>8. q # <<>> => Fed(q) = Piece(Head(q)) \o Fed(Tail(q)) /\ Fed(Tail(q)) \in Seq(V)
  <2>1. q # <<>> => Fed(Tail(q)) \in Seq(V)
    <3>1. ASSUME NEW r \in Seq(Event) PROVE FlatMap(f, r) \in Seq(V)
      <4>1. f \in [Event -> Seq(V)]
        BY <1>2
      <4> QED BY ONLY <4>1, r \in Seq(Event), e \in Event, FlatMapLaws
    <3> QED BY <1>3, <1>5, <3>1
  <2> QED BY <1>2, <1>3, <1>4, <1>5, <2>1
<1>9. Fed(Append(q, e)) = IF e \in Typed THEN Fed(q) ELSE Append(Fed(q), e)
  <2>1. CASE e \in Typed
    BY <1>6, <1>7, <2>1, ConcatEmptySeq DEF Piece
  <2>2. CASE e \notin Typed
    <3>1. e \in V
      BY <2>2 DEF Event, V
    <3> QED BY <1>6, <1>7, <2>2, <3>1, AppendIsConcat DEF Piece
  <2> QED BY <2>1, <2>2
<1>10. q # <<>> => Fed(q) = IF Head(q) \in Typed THEN Fed(Tail(q))
                            ELSE <<Head(q)>> \o Fed(Tail(q))
  BY <1>8, ConcatEmptySeq DEF Piece
<1> QED BY <1>6, <1>9, <1>10 DEF V

(* The kinds of the events in rx, for the loop: its queue is empty when rx *)
(* is, and loses its head with rx.                                         *)
LEMMA KindsLaws ==
    ASSUME NEW q \in Seq(Event)
    PROVE  /\ Kinds(q) \in Seq(Loop!Kind)
           /\ Kinds(<<>>) = <<>>
           /\ q # <<>> => /\ Head(Kinds(q)) = KindOf(Head(q))
                          /\ Kinds(q) # <<>>
                          /\ Kinds(Tail(q)) = Tail(Kinds(q))
<1>1. ASSUME NEW r \in Seq(Event)
      PROVE  /\ Kinds(r) \in Seq(Loop!Kind) /\ Len(Kinds(r)) = Len(r)
             /\ \A i \in 1..Len(r) : Kinds(r)[i] = KindOf(r[i])
  <2>1. DOMAIN r = 1..Len(r) /\ Len(r) \in Nat /\ \A i \in 1..Len(r) : r[i] \in Event
    OBVIOUS
  <2>2. \A i \in 1..Len(r) : KindOf(r[i]) \in Loop!Kind
    BY <2>1, KindsOfEvents
  <2> QED BY <2>1, <2>2 DEF Kinds
<1>2. Kinds(<<>>) = <<>>
  BY DEF Kinds
<1>3. ASSUME q # <<>>
      PROVE  /\ Head(Kinds(q)) = KindOf(Head(q))
             /\ Kinds(q) # <<>>
             /\ Kinds(Tail(q)) = Tail(Kinds(q))
  <2>1. Head(q) = q[1] /\ Tail(q) \in Seq(Event) /\ Len(q) \in Nat /\ Len(q) # 0
        /\ Len(Tail(q)) = Len(q) - 1 /\ \A i \in 1..(Len(q) - 1) : Tail(q)[i] = q[i + 1]
    BY <1>3, HeadTailProperties, EmptySeq
  <2>2. /\ Kinds(q) \in Seq(Loop!Kind) /\ Kinds(Tail(q)) \in Seq(Loop!Kind)
        /\ Len(Kinds(q)) = Len(q) /\ Len(Kinds(Tail(q))) = Len(q) - 1
        /\ \A i \in 1..Len(q) : Kinds(q)[i] = KindOf(q[i])
        /\ \A i \in 1..(Len(q) - 1) : Kinds(Tail(q))[i] = KindOf(q[i + 1])
    BY <1>1, <2>1
  <2>3. Kinds(q) # <<>> /\ Head(Kinds(q)) = KindOf(Head(q))
    BY <2>1, <2>2
  <2>4. Tail(Kinds(q)) \in Seq(Loop!Kind) /\ Len(Tail(Kinds(q))) = Len(q) - 1
        /\ \A i \in 1..(Len(q) - 1) : Tail(Kinds(q))[i] = Kinds(q)[i + 1]
    BY <2>2, <2>3, HeadTailProperties
  <2>5. \A i \in 1..(Len(q) - 1) : Tail(Kinds(q))[i] = Kinds(Tail(q))[i]
    BY <2>1, <2>2, <2>4
  <2> QED BY <2>2, <2>3, <2>4, <2>5, SeqEqual
<1> QED BY <1>1, <1>2, <1>3

-----------------------------------------------------------------------------
(* The screen shows the picture, unless an event waits for its redraw.     *)
Drawn == phase = "running" /\ ~stale => screen = state

IInv == TypeOK /\ LP!Clocks /\ Drawn

(* Nothing is shown and nothing is due before the first event.             *)
LEMMA InitIInv == Init => IInv
<1> SUFFICES ASSUME Init PROVE IInv
  OBVIOUS
<1>1. Mon!TypeOK /\ Mon!State = MP!State
  BY MP!InitType, Assumptions, MonitorOperators DEF Init
<1>2. LP!IInv
  BY LP!InitInv, Assumptions, LoopOperators DEF Init
<1>3. Loop!TypeOK /\ LP!Clocks
  BY <1>2, LoopOperators DEF LP!IInv
<1>4. rx \in Seq(Typed \cup Mon!MonitorEvent)
  BY EmptySeq DEF Init
<1>5. state \in Mon!State
  BY <1>1 DEF Mon!TypeOK
<1> QED BY <1>1, <1>3, <1>4, <1>5 DEF Init, IInv, TypeOK, Drawn

(* The forwarder task moves the head of the monitor's channel to the end   *)
(* of the monitor's part of rx.                                            *)
LEMMA ForwardFeeds ==
    ASSUME TypeOK, Forward
    PROVE  Mon!Forward /\ rx' \in Seq(Event)
<1> DEFINE e == Head(monq)
<1>1. e \in Mon!MonitorEvent /\ rx \in Seq(Event)
  BY HeadTailProperties DEF Forward, TypeOK, Mon!TypeOK, Event
<1>2. rx' = Append(rx, e)
  BY DEF Forward
<1> HIDE DEF e
<1>3. e \in Event /\ e \notin Typed
  BY <1>1, KindsOfEvents DEF Event
<1>4. Fed(rx)' = Append(Fed(rx), e)
  BY <1>1, <1>2, <1>3, FedLaws
<1>5. rx' \in Seq(Event)
  BY <1>1, <1>2, <1>3
<1> QED BY <1>4, <1>5 DEF Forward, Mon!Forward, Mon!schedulerVars, world, e

(* The input thread adds nothing to the monitor's part of rx.              *)
LEMMA TypeFeeds ==
    ASSUME TypeOK, Type
    PROVE  UNCHANGED Mon!vars /\ rx' \in Seq(Event)
<1>1. PICK e \in Typed : rx' = Append(rx, e)
  BY DEF Type
<1>2. rx \in Seq(Event) /\ e \in Event
  BY DEF TypeOK, Event
<1>3. Fed(rx)' = Fed(rx)
  BY <1>1, <1>2, FedLaws
<1>4. rx' \in Seq(Event)
  BY <1>1, <1>2
<1> QED BY <1>3, <1>4 DEF Type, Mon!vars, world

(* The loop's event is the monitor's Process step when it came from the    *)
(* monitor, and no step of the monitor when it was typed.                  *)
LEMMA TakeEventFeeds ==
    ASSUME TypeOK, TakeEvent
    PROVE  [Mon!Next]_Mon!vars /\ rx' \in Seq(Event)
<1> DEFINE e == Head(rx)
           t == Tail(rx)
<1>1. rx # <<>> /\ rx \in Seq(Event) /\ e \in Event /\ t \in Seq(Event)
  BY HeadTailProperties DEF TakeEvent, TypeOK, Event
<1>2. rx' = t /\ state' = Applied(e) /\ UNCHANGED <<world, pc, monq>>
  BY DEF TakeEvent
<1>3. Fed(rx) = IF e \in Typed THEN Fed(t) ELSE <<e>> \o Fed(t)
  BY <1>1, FedLaws
<1>4. Fed(t) \in Seq(Mon!MonitorEvent)
  BY <1>1, FedLaws
<1> HIDE DEF e, t
<1>5. CASE e \in Typed
  <2>1. Fed(rx)' = Fed(rx) /\ state' = state
    BY <1>2, <1>3, <1>5 DEF Applied
  <2> QED BY <1>1, <1>2, <2>1 DEF Mon!vars, world
<1>6. CASE e \notin Typed
  <2>1. e \in Mon!MonitorEvent
    BY <1>1, <1>6 DEF Event
  <2>2. Fed(rx) = <<e>> \o Fed(t)
    BY <1>3, <1>6
  <2>3. Fed(rx) # <<>> /\ Head(Fed(rx)) = e /\ Tail(Fed(rx)) = Fed(t)
    BY <1>4, <2>1, <2>2, ConcatProperties
  <2>4. Fed(rx)' = Fed(t) /\ state' = Mon!ApplyEvent(state, e)
    BY <1>2, <1>6 DEF Applied
  <2>5. Mon!Process
    BY <1>2, <2>3, <2>4 DEF Mon!Process, Mon!schedulerVars, world
  <2> QED BY <1>1, <1>2, <2>5 DEF Mon!Next
<1> QED BY <1>5, <1>6

(* Every step of the program is a step of the monitor or leaves it alone.  *)
LEMMA NextRefines == TypeOK /\ [Next]_vars => [Mon!Next]_Mon!vars /\ rx' \in Seq(Event)
<1> SUFFICES ASSUME TypeOK, [Next]_vars PROVE [Mon!Next]_Mon!vars /\ rx' \in Seq(Event)
  OBVIOUS
<1>1. CASE Forward
  BY <1>1, ForwardFeeds DEF Mon!Next
<1>2. CASE Type
  BY <1>2, TypeFeeds
<1>3. CASE TakeEvent
  BY <1>3, TakeEventFeeds
<1>4. CASE rx' = rx /\ [Mon!Next]_Mon!vars
  BY <1>4 DEF TypeOK, Event
<1>5. CASE MonitorTask \/ WorldNext
  BY <1>4, <1>5 DEF MonitorTask, WorldNext, Mon!Next, Mon!monitorVars
<1>6. CASE SetUp \/ RedrawLate \/ Tick \/ TearDown \/ UNCHANGED vars
  <2>1. UNCHANGED <<world, pc, monq, state, rx>>
    BY <1>6 DEF SetUp, RedrawLate, Tick, TearDown, vars
  <2> QED BY <1>4, <2>1 DEF Mon!vars, world
<1> QED BY <1>1, <1>2, <1>3, <1>5, <1>6 DEF Next

(* The steps of the loop keep its types and clocks; the other steps leave  *)
(* the loop alone, or end it.                                              *)
LEMMA LoopKeeps ==
    ASSUME TypeOK, LP!Clocks, [Next]_vars
    PROVE  Loop!TypeOK' /\ LP!Clocks'
<1>1. LP!IInv
  BY LoopOperators DEF TypeOK, LP!IInv
<1>2. rx' \in Seq(Event)
  BY NextRefines
<1>3. Kinds(rx)' \in Seq(Loop!Kind)
  BY <1>2, KindsLaws, KindsOfEvents
<1>4. ASSUME UNCHANGED <<since, redraw_pending, timer, log, lag, stale, quiet>>,
             phase' \in {phase, "failed"}
      PROVE  Loop!TypeOK' /\ LP!Clocks'
  BY <1>3, <1>4 DEF TypeOK, Loop!TypeOK, LP!Clocks
<1>5. CASE TakeEvent \/ RedrawLate \/ Tick
  <2>1. LP!Next
    BY <1>5, LoopOperators DEF TakeEvent, RedrawLate, Tick, Loop!Next
  <2>2. LP!IInv'
    BY <1>1, <2>1, LP!NextInv, Assumptions
  <2> QED BY <2>2, LoopOperatorsPrimed DEF LP!IInv
<1>6. CASE MonitorTask \/ Forward \/ Type \/ WorldNext \/ UNCHANGED vars
  BY <1>4, <1>6 DEF MonitorTask, Forward, Type, WorldNext, vars, loop
<1>7. CASE SetUp \/ TearDown
  BY <1>4, <1>7 DEF SetUp, TearDown
<1> QED BY <1>5, <1>6, <1>7 DEF Next

(* The monitor task sends events; it does not touch the picture.           *)
LEMMA MonitorTaskSends == Mon!MonitorTask => UNCHANGED state
BY DEF Mon!MonitorTask, Mon!Discover, Mon!Connect, Mon!AttemptFails, Mon!Receive,
       Mon!ReceiveLast, Mon!WakeUp

(* Every step keeps the invariant: a picture changes in the loop only,     *)
(* where the draw that shows it follows or stays due.                      *)
LEMMA NextIInv == IInv /\ [Next]_vars => IInv'
<1> SUFFICES ASSUME IInv, [Next]_vars PROVE IInv'
  OBVIOUS
<1>0. TypeOK /\ LP!Clocks /\ Drawn
  BY DEF IInv
<1>1. Mon!TypeOK'
  <2>1. [MP!Next]_MP!vars /\ MP!TypeOK
    BY <1>0, NextRefines, MonitorSteps, MonitorOperators DEF TypeOK
  <2>2. MP!TypeOK'
    BY <2>1, MP!NextType, Assumptions
  <2> QED BY <2>2, MonitorOperatorsPrimed
<1>2. Loop!TypeOK' /\ LP!Clocks'
  BY <1>0, LoopKeeps
<1>3. rx' \in Seq(Typed \cup Mon!MonitorEvent)
  BY <1>0, NextRefines DEF Event
<1>4. state' \in Mon!State /\ screen \in Mon!State
  BY <1>0, <1>1 DEF TypeOK, Mon!TypeOK
<1>5. CASE TakeEvent \/ RedrawLate
  <2>1. Show /\ modes' = modes
    BY <1>5 DEF TakeEvent, RedrawLate
  <2>2. screen' \in Mon!State /\ Drawn'
    BY <1>4, <2>1 DEF Show, Drawn
  <2> QED BY <1>0, <1>1, <1>2, <1>3, <2>1, <2>2 DEF IInv, TypeOK
<1>6. CASE MonitorTask \/ Forward \/ Type \/ WorldNext \/ Tick \/ UNCHANGED vars
  <2>1. UNCHANGED <<state, screen, phase, stale, modes>>
    BY <1>6, MonitorTaskSends
       DEF MonitorTask, Forward, Type, WorldNext, Tick, vars, loop, Loop!Tick
  <2> QED BY <1>0, <1>1, <1>2, <1>3, <1>4, <2>1 DEF IInv, TypeOK, Drawn
<1>7. CASE SetUp \/ TearDown
  <2>1. /\ UNCHANGED <<state, screen, stale>>
        /\ phase' = "running" => phase = "running"
        /\ modes' \subseteq Both
    BY <1>0, <1>7 DEF SetUp, TearDown, TypeOK, Both
  <2> QED BY <1>0, <1>1, <1>2, <1>3, <1>4, <2>1 DEF IInv, TypeOK, Drawn
<1> QED BY <1>5, <1>6, <1>7 DEF Next

(* IInv holds in every reachable state.                                    *)
LEMMA Invariance == Spec => []IInv
BY InitIInv, NextIInv, PTL DEF Spec

(* Every variable of the program keeps its type: the channel of main.rs:56 *)
(* carries UiEvents only, and the state and the screen stay pictures of a  *)
(* farm.                                                                   *)
THEOREM TypeCorrect == Spec => []TypeOK
<1>1. IInv => TypeOK
  BY DEF IInv
<1> QED BY <1>1, Invariance, PTL

(* The forwarder task, the input thread and the UI loop (main.rs:64-88,    *)
(* 104-165) lose, duplicate and reorder none of the monitor's events: seen *)
(* through the channel rx the program runs the monitor as Monitor          *)
(* specifies it.                                                           *)
THEOREM Refinement == Spec => ImplementsMonitor
<1>1. Init => Mon!Init
  BY DEF Init
<1>2. IInv /\ [Next]_vars => [Mon!Next]_Mon!vars
  BY NextRefines DEF IInv
<1> QED BY <1>1, <1>2, Invariance, PTL DEF Spec, ImplementsMonitor, Mon!Spec

(* While the loop runs, a screen that is not the picture has its redraw    *)
(* pending and is at most REDRAW_INTERVAL late (main.rs:124-165).          *)
THEOREM ScreenFollows == Spec => []UndrawnIsDue
<1>1. IInv => UndrawnIsDue
  BY Assumptions DEF LP!RedrawAssumption, IInv, TypeOK, Loop!TypeOK, LP!Clocks, Drawn, UndrawnIsDue
<1> QED BY <1>1, Invariance, PTL

(* The invariant of PictureIsExact, for the program: the picture in which  *)
(* all that is under way will end is the one the scheduler told of.        *)
LEMMA PictureFollows == Spec => []MP!PictureInv
<1>1. Mon!Init => MP!TypeOK /\ MP!PictureInv
  BY MP!InitType, MP!InitPicture, Assumptions, MonitorOperators
<1>2. MP!TypeOK /\ MP!PictureInv /\ [Mon!Next]_Mon!vars => (MP!TypeOK /\ MP!PictureInv)'
  BY MP!NextType, MP!NextPicture, Assumptions, MonitorOperators, MonitorSteps
<1> QED BY <1>1, <1>2, Refinement, PTL DEF ImplementsMonitor, Mon!Spec

(* From the scheduler to the screen: with nothing under way and no redraw  *)
(* pending, the hosts and jobs on the screen are those the scheduler told  *)
(* of (monitor.rs:59-112, main.rs:64-71, 104-165).                         *)
THEOREM EndToEnd == Spec => []ScreenIsExact
<1>1. IInv /\ MP!PictureInv => ScreenIsExact
  <2> SUFFICES ASSUME IInv, MP!PictureInv, phase = "running", pc = "receive", link = "up",
                      wire = <<>>, monq = <<>>, Fed(rx) = <<>>, ~redraw_pending
               PROVE  ShowsWhatWasTold
    BY DEF ScreenIsExact
  <2>1. screen = state /\ state \in MP!State
    BY MonitorOperators DEF IInv, Drawn, LP!Clocks, TypeOK, Mon!TypeOK
  <2>2. MP!Pictured = state
    <3>1. MP!Sent(<<>>) = <<>>
      BY MP!SentLaws, MP!MessageTypes, Assumptions, EmptySeq
    <3>2. MP!Pictured = MP!Final(state, <<>>)
      BY <3>1, ConcatEmptySeq, EmptySeq DEF MP!Pictured
    <3>3. MP!DisconnectedEvent \in MP!MonitorEvent /\ <<>> \in Seq(MP!MonitorEvent)
      BY EmptySeq DEF MP!MonitorEvent
    <3>4. MP!Final(state, <<>>) = state
      BY <2>1, <3>3, MP!FinalLaws, Assumptions
    <3> QED BY <3>2, <3>4
  <2>3. MP!Exact(state, toldHosts, toldJobs, srvJobs)
    BY <2>2 DEF MP!PictureInv
  <2> QED BY <2>1, <2>3 DEF MP!Exact, MP!Shown, Mon!Shown, ShowsWhatWasTold
<1> QED BY <1>1, Invariance, PictureFollows, PTL

(* No host and no job is on the screen under the header Disconnected: a    *)
(* draw never comes between the two, whatever is typed                     *)
(* (model.rs:151-155, main.rs:124-165).                                    *)
THEOREM DisconnectedShowsNothing == Spec => []ScreenNeedsConnection
<1>1. Mon!Spec => []MP!NothingWithoutConnection
  <2>1. Mon!Init => MP!Init
    BY MonitorOperators
  <2>2. MP!Spec => []MP!NothingWithoutConnection
    BY MP!TableNeedsConnection, Assumptions
  <2> QED BY <2>1, <2>2, MonitorSteps, PTL DEF Mon!Spec, MP!Spec
<1>2. MP!NothingWithoutConnection => state.connected \/ Mon!NothingShown(state)
  BY DEF MP!NothingWithoutConnection, MP!NothingShown, MP!Shown, Mon!NothingShown, Mon!Shown
<1>3. Init /\ MP!NothingWithoutConnection => ScreenNeedsConnection
  BY <1>2 DEF Init, ScreenNeedsConnection
<1>4. ScreenNeedsConnection /\ MP!NothingWithoutConnection' /\ [Next]_vars
        => ScreenNeedsConnection'
  <2> SUFFICES ASSUME ScreenNeedsConnection, MP!NothingWithoutConnection', [Next]_vars
               PROVE  ScreenNeedsConnection'
    OBVIOUS
  <2>1. state'.connected \/ Mon!NothingShown(state')
    BY DEF MP!NothingWithoutConnection, MP!NothingShown, MP!Shown, Mon!NothingShown, Mon!Shown
  <2>2. screen' \in {screen, state'}
    BY DEF Next, MonitorTask, Forward, Type, SetUp, TakeEvent, RedrawLate, Tick, TearDown,
           WorldNext, Show, vars
  <2> QED BY <2>1, <2>2 DEF ScreenNeedsConnection, Mon!NothingShown, Mon!Shown
<1> QED BY <1>1, <1>3, <1>4, Refinement, PTL DEF Spec, ImplementsMonitor

(* What RedrawLoop promises of an arbitrary queue holds in the program,    *)
(* where the queue is what the forwarder and the input thread sent: an     *)
(* undrawn event has its redraw pending and is not kept longer than an     *)
(* interval, and the loop draws for the monitor's events at most once per  *)
(* interval (main.rs:124-165).                                             *)
THEOREM LoopCarriesOver ==
    Spec => /\ [](Loop!StaleIsPending /\ Loop!StalenessBounded)
            /\ Loop!DrawsAreThrottled
<1> USE DEF LP!RedrawAssumption, IInv, TypeOK, Loop!TypeOK, LP!Clocks
<1>1. IInv => Loop!StaleIsPending /\ Loop!StalenessBounded
  BY Assumptions DEF Loop!StaleIsPending, Loop!StalenessBounded
<1>2. IInv => [Loop!TimerFires \/ (Loop!IdleMonitor /\ ~redraw_pending')
                 => quiet = Interval]_Loop!vars
  BY Assumptions DEF Loop!TimerFires, Loop!IdleMonitor
<1> QED BY <1>1, <1>2, Invariance, PTL DEF Loop!DrawsAreThrottled
=============================================================================
