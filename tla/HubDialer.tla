----------------------------- MODULE HubDialer ------------------------------
(***************************************************************************)
(* The dialer of a reverse-mode worker (worker-claude/src/ws/dialer.py):   *)
(* the task that keeps a control socket to the hub open, the tasks that    *)
(* dial a data socket for each open_data_channel, and stop().              *)
(***************************************************************************)
EXTENDS Naturals

CONSTANTS Channels,   \* data sockets asked for at a time
          MaxWait     \* the cap of _Backoff, in doublings

VARIABLES
  run,     \* _run: what it awaits
  wait,    \* _Backoff._current, in doublings
  task,    \* _data_tasks
  stop     \* how far stop() has got

vars == <<run, wait, task, stop>>

Init ==
  /\ run = "none" /\ wait = 0 /\ task = [c \in Channels |-> "none"] /\ stop = "no"

Start == run = "none" /\ stop = "no" /\ run' = "dialing" /\ UNCHANGED <<wait, task, stop>>

\* Connected, and then acknowledged by the hub.
Registers ==
  /\ run \in {"dialing", "shaking"}
  /\ run' = IF run = "dialing" THEN "shaking" ELSE "serving"
  /\ UNCHANGED <<wait, task, stop>>

\* Anything but a clean close: no connection, no acknowledgement, a lost link.
Breaks ==
  /\ run \in {"dialing", "shaking", "serving"} /\ run' = "waiting"
  /\ wait' = IF wait < MaxWait THEN wait + 1 ELSE wait
  /\ UNCHANGED <<task, stop>>

\* The hub closes the socket: the next dial follows at once.
Closes ==
  /\ run = "serving" /\ run' = "dialing" /\ wait' = 0 /\ UNCHANGED <<task, stop>>

WaitIsOver == run = "waiting" /\ run' = "dialing" /\ UNCHANGED <<wait, task, stop>>

OpenDataChannel(c) ==
  /\ run = "serving" /\ task[c] = "none" /\ task' = [task EXCEPT ![c] = "dialing"]
  /\ UNCHANGED <<run, wait, stop>>

\* Its connection is served, as in WorkerHandler.
DataSession(c) ==
  /\ task[c] = "dialing" /\ task' = [task EXCEPT ![c] = "serving"]
  /\ UNCHANGED <<run, wait, stop>>

\* The socket is closed, could not be opened, or its task is cancelled: the
\* handler's finally clause has run.
DataSessionEnds(c) ==
  /\ task[c] \in {"dialing", "serving", "cancelled"}
  /\ task' = [task EXCEPT ![c] = "none"]
  /\ UNCHANGED <<run, wait, stop>>
-----------------------------------------------------------------------------
(* stop().                                                                 *)

\* The run task is cancelled.
StopRun ==
  /\ stop = "no" /\ stop' = "run" /\ UNCHANGED <<run, wait, task>>

\* It ends where it awaits, unless a message is being dispatched already.
RunEnds == stop = "run" /\ run # "none" /\ run' = "none" /\ UNCHANGED <<wait, task, stop>>

Cancelled == [c \in Channels |-> IF task[c] = "none" THEN "none" ELSE "cancelled"]

\* Variant: the run task is not awaited.
StopDataEarly ==
  /\ stop = "run" /\ stop' = "data" /\ task' = Cancelled /\ UNCHANGED <<run, wait>>

StopData ==
  /\ stop = "run" /\ run = "none" /\ stop' = "data" /\ task' = Cancelled
  /\ UNCHANGED <<run, wait>>

\* gather() has seen them all end.
StopDone ==
  /\ stop = "data" /\ task = [c \in Channels |-> "none"] /\ stop' = "done"
  /\ UNCHANGED <<run, wait, task>>

Next ==
  \/ Start \/ Registers \/ Breaks \/ Closes \/ WaitIsOver
  \/ \E c \in Channels : OpenDataChannel(c) \/ DataSession(c) \/ DataSessionEnds(c)
  \/ StopRun \/ RunEnds \/ StopData \/ StopDone

Spec == Init /\ [][Next]_vars
-----------------------------------------------------------------------------
\* Once stop() has cancelled the data sessions none begins any more, and none
\* is left when it returns: the worker does not end under a session being served.
NothingLeft ==
  stop \in {"data", "done"} =>
    /\ run = "none"
    /\ \A c \in Channels : task[c] \in {"none"} \cup IF stop = "data" THEN {"cancelled"} ELSE {}
=============================================================================
