----------------------------- MODULE LossyFeed -----------------------------
(***************************************************************************)
(* What the event channel of BackendRuntime promises to the thread that    *)
(* reads it.  Events are named by the order in which they were published.  *)
(* Those not yet read are a window that always ends with the newest one.   *)
(* To make room the oldest event of the window may be lost, but never the  *)
(* newest, and never more events than were published beyond Capacity.      *)
(***************************************************************************)
EXTENDS Naturals, Sequences

CONSTANT Capacity   \* events the channel holds

VARIABLES
  offered,   \* how many events have been published
  window,    \* the events published and neither lost nor received, in order
  received,  \* the events received, in order
  closed     \* no event will be published any more

vars == <<offered, window, received, closed>>

Lost == offered - Len(window) - Len(received)

Init ==
  /\ offered = 0
  /\ window = <<>>
  /\ received = <<>>
  /\ closed = FALSE

Offer ==
  /\ ~ closed
  /\ offered' = offered + 1
  /\ window' = Append(window, offered + 1)
  /\ UNCHANGED <<received, closed>>

Lose ==
  /\ ~ closed
  /\ Len(window) > 1
  /\ Lost + Capacity < offered
  /\ window' = Tail(window)
  /\ UNCHANGED <<offered, received, closed>>

Receive ==
  /\ window # <<>>
  /\ received' = Append(received, Head(window))
  /\ window' = Tail(window)
  /\ UNCHANGED <<offered, closed>>

Close ==
  /\ ~ closed
  /\ closed' = TRUE
  /\ UNCHANGED <<offered, window, received>>

Next == Offer \/ Lose \/ Receive \/ Close

Spec == Init /\ [][Next]_vars
=============================================================================
