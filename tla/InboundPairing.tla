--------------------------- MODULE InboundPairing ---------------------------
(***************************************************************************)
(* Reverse mode: how the hub pairs a data socket, dialled by a worker it   *)
(* cannot reach, with the task that asked for one over the worker's        *)
(* control socket (hub/src/workers/inbound.py and the /worker-register and *)
(* /worker-data endpoints of hub/src/main.py), for one worker.             *)
(***************************************************************************)
EXTENDS Naturals, FiniteSets

CONSTANTS
  Ctrls,        \* control sockets; bounds how often the worker registers
  Opens,        \* calls of open_session, each with its own uuid
  None          \* no control socket

PairingAssumption == None \notin Ctrls

VARIABLES
  control,      \* _controls[worker_id].ws
  ctrl,         \* each control socket, as the hub's endpoint sees it
  opener,       \* where each call of open_session is
  via,          \* the control socket it writes to
  waiters,      \* the keys of _waiters
  fut,          \* the future of each waiter
  told,         \* open_data_channel commands the worker has received
  data          \* the data socket of each call

vars == <<control, ctrl, opener, via, waiters, fut, told, data>>
openVars == <<opener, via, waiters, fut>>

TypeOK ==
  /\ control \in Ctrls \cup {None}
  /\ ctrl \in [Ctrls -> {"new", "up", "lost", "gone"}]
  /\ opener \in [Opens -> {"new", "sending", "waiting", "paired", "timedOut", "failed",
                           "cancelled"}]
  /\ via \in [Opens -> Ctrls \cup {None}]
  /\ waiters \in SUBSET Opens
  /\ fut \in [Opens -> {"open", "set", "cancelled"}]
  /\ told \in SUBSET Opens
  /\ data \in [Opens -> {"none", "knocking", "held", "rejected", "done"}]

Init ==
  /\ control = None
  /\ ctrl = [k \in Ctrls |-> "new"]
  /\ opener = [o \in Opens |-> "new"]
  /\ via = [o \in Opens |-> None]
  /\ waiters = {}
  /\ fut = [o \in Opens |-> "open"]
  /\ told = {}
  /\ data = [o \in Opens |-> "none"]
-----------------------------------------------------------------------------
(***************************************************************************)
(* The control socket.                                                     *)
(***************************************************************************)
\* The worker registers, perhaps before the hub saw its last socket close.
Register(k) ==
  /\ ctrl[k] = "new" /\ \A j \in Ctrls : ctrl[j] # "up"
  /\ ctrl' = [ctrl EXCEPT ![k] = "up"]
  /\ control' = k
  /\ UNCHANGED <<openVars, told, data>>

Lose(k) ==
  /\ ctrl[k] = "up"
  /\ ctrl' = [ctrl EXCEPT ![k] = "lost"]
  /\ UNCHANGED <<control, openVars, told, data>>

\* drop_control(worker_id, ws).
Drop(k) == control' = IF control = k THEN None ELSE control

EndpointEnds(k) ==
  /\ ctrl[k] = "lost"
  /\ ctrl' = [ctrl EXCEPT ![k] = "gone"]
  /\ Drop(k)
  /\ UNCHANGED <<openVars, told, data>>
-----------------------------------------------------------------------------
(***************************************************************************)
(* open_session.                                                           *)
(***************************************************************************)
Open(o) ==
  /\ opener[o] = "new"
  /\ via' = [via EXCEPT ![o] = control]
  /\ IF control = None
     THEN /\ opener' = [opener EXCEPT ![o] = "failed"]
          /\ UNCHANGED waiters
     ELSE /\ opener' = [opener EXCEPT ![o] = "sending"]
          /\ waiters' = waiters \cup {o}
  /\ UNCHANGED <<control, ctrl, fut, told, data>>

\* The command is written; on a socket whose peer is gone that may look like
\* success.
SendCommand(o) ==
  /\ opener[o] = "sending"
  /\ ctrl[via[o]] # "gone"
  /\ told' = IF ctrl[via[o]] = "up" THEN told \cup {o} ELSE told
  /\ opener' = [opener EXCEPT ![o] = "waiting"]
  /\ UNCHANGED <<control, ctrl, via, waiters, fut, data>>

\* Variant: the waiter is left behind.
SendFailsLeaving(o) ==
  /\ opener[o] = "sending"
  /\ ctrl[via[o]] # "up"
  /\ Drop(via[o])
  /\ opener' = [opener EXCEPT ![o] = "failed"]
  /\ UNCHANGED <<ctrl, via, waiters, fut, told, data>>

SendFails(o) ==
  /\ opener[o] = "sending"
  /\ ctrl[via[o]] # "up"
  /\ waiters' = waiters \ {o}
  /\ Drop(via[o])
  /\ opener' = [opener EXCEPT ![o] = "failed"]
  /\ UNCHANGED <<ctrl, via, fut, told, data>>

\* Variant: the caller goes on without waiting for the socket.
PairEarly(o) ==
  /\ opener[o] = "waiting"
  /\ opener' = [opener EXCEPT ![o] = "paired"]
  /\ UNCHANGED <<control, ctrl, via, waiters, fut, told, data>>

Pair(o) ==
  /\ opener[o] = "waiting" /\ fut[o] = "set"
  /\ opener' = [opener EXCEPT ![o] = "paired"]
  /\ UNCHANGED <<control, ctrl, via, waiters, fut, told, data>>

\* Variant: the waiter is neither cancelled nor removed.
TimesOutKeeping(o) ==
  /\ opener[o] = "waiting"
  /\ opener' = [opener EXCEPT ![o] = "timedOut"]
  /\ UNCHANGED <<control, ctrl, via, waiters, fut, told, data>>

\* asyncio.wait_for gives up: also when the future was set in the meantime and the
\* task has not run yet.
TimesOut(o) ==
  /\ opener[o] = "waiting"
  /\ opener' = [opener EXCEPT ![o] = "timedOut"]
  /\ fut' = [fut EXCEPT ![o] = IF @ = "open" THEN "cancelled" ELSE @]
  /\ waiters' = waiters \ {o}
  /\ UNCHANGED <<control, ctrl, via, told, data>>

\* The browser goes and the retry task that called open_session is cancelled: the
\* waiter stays in the table.
Cancel(o) ==
  /\ opener[o] \in {"sending", "waiting"}
  /\ opener' = [opener EXCEPT ![o] = "cancelled"]
  /\ fut' = [fut EXCEPT ![o] = IF opener[o] = "waiting" /\ @ = "open" THEN "cancelled" ELSE @]
  /\ UNCHANGED <<control, ctrl, via, waiters, told, data>>
-----------------------------------------------------------------------------
(***************************************************************************)
(* The data socket.                                                        *)
(***************************************************************************)
\* The worker dials, now or much later; without a live control it is turned away.
Knock(o) ==
  /\ o \in told
  /\ told' = told \ {o}
  /\ data' = [data EXCEPT ![o] = IF control = None THEN "rejected" ELSE "knocking"]
  /\ UNCHANGED <<control, ctrl, openVars>>

DialFails(o) ==
  /\ o \in told
  /\ told' = told \ {o}
  /\ UNCHANGED <<control, ctrl, openVars, data>>

\* register_data, after the socket was accepted.
Arrive(o) ==
  /\ data[o] = "knocking"
  /\ waiters' = waiters \ {o}
  /\ IF o \in waiters /\ fut[o] = "open"
     THEN /\ fut' = [fut EXCEPT ![o] = "set"]
          /\ data' = [data EXCEPT ![o] = "held"]
     ELSE /\ data' = [data EXCEPT ![o] = "rejected"]
          /\ UNCHANGED fut
  /\ UNCHANGED <<control, ctrl, opener, via, told>>

\* The WorkerConnection that adopted the socket is done with it.
LinkEnds(o) ==
  /\ opener[o] = "paired" /\ data[o] = "held"
  /\ data' = [data EXCEPT ![o] = "done"]
  /\ UNCHANGED <<control, ctrl, openVars, told>>
-----------------------------------------------------------------------------
Opener(o) == SendCommand(o) \/ SendFails(o) \/ Pair(o) \/ TimesOut(o)

Next ==
  \/ \E k \in Ctrls : Register(k) \/ Lose(k) \/ EndpointEnds(k)
  \/ \E o \in Opens :
       \/ Open(o) \/ Opener(o) \/ Cancel(o)
       \/ Knock(o) \/ DialFails(o) \/ Arrive(o) \/ LinkEnds(o)

Spec == Init /\ [][Next]_vars

\* A caller runs when it can, and gives up at last.
FairSpec == Spec /\ \A o \in Opens : WF_vars(Opener(o))
-----------------------------------------------------------------------------
\* "the worker, if it eventually dials with this stale session_id, will be cleanly
\* rejected by register_data()" (inbound.py).
StaleRejected ==
  [][\A o \in Opens :
       opener[o] \in {"timedOut", "failed"} /\ data'[o] # data[o] => data'[o] # "held"]_vars

\* The table of waiters does not grow with calls that failed or timed out.
NoOrphanWaiter ==
  \A o \in waiters : opener[o] \in {"sending", "waiting", "cancelled"}

\* Every call of open_session ends, whatever becomes of the control socket, and a
\* call that ends well has a live socket that answers its own command.
OpensSettle ==
  \A o \in Opens :
    opener[o] = "sending" ~>
      \/ opener[o] \in {"timedOut", "failed", "cancelled"}
      \/ opener[o] = "paired" /\ data[o] \in {"held", "done"}
=============================================================================
