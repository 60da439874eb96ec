----------------------------- MODULE EventFeed -----------------------------
(***************************************************************************)
(* What the monitor task and the UI promise each other: one FIFO of events *)
(* on which sessions follow one another.  A session is opened by Connected *)
(* and closed by Disconnected, hosts and jobs are told only within one,    *)
(* and every event is applied once, in order.                              *)
(***************************************************************************)
EXTENDS SchedulerState, Sequences

VARIABLES
    session,  \* "open" or "closed", as the last event sent leaves it
    feed,     \* the events sent and not yet applied
    view      \* the picture

vars == <<session, feed, view>>

Init ==
    /\ session = "closed"
    /\ feed = <<>>
    /\ view = NewState

Send(e) == feed' = Append(feed, e) /\ UNCHANGED view

Open(e) == session = "closed" /\ session' = "open" /\ Send(e)
Tell(e) == session = "open" /\ UNCHANGED session /\ Send(e)
Close == session' = "closed" /\ Send(DisconnectedEvent)

Apply ==
    /\ feed # <<>>
    /\ view' = ApplyEvent(view, Head(feed))
    /\ feed' = Tail(feed)
    /\ UNCHANGED session

Next ==
    \/ \E e \in ConnectedEvent : Open(e)
    \/ \E e \in DataEvent : Tell(e)
    \/ Close
    \/ Apply

Spec == Init /\ [][Next]_vars

-----------------------------------------------------------------------------
(* The feed carries events only.                                           *)
TypeOK ==
    /\ session \in {"open", "closed"}
    /\ feed \in Seq(MonitorEvent)
    /\ view \in State

(* Nothing is shown outside a session.                                     *)
NothingWithoutConnection == view.connected \/ NothingShown(view)

(* The Connected that opens a session finds the previous one closed.       *)
OneSessionAtATime ==
    [][Apply /\ Head(feed).kind = "Connected" => ~view.connected]_vars
=============================================================================
