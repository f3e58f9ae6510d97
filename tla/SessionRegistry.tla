-------------------------- MODULE SessionRegistry ---------------------------
(***************************************************************************)
(* The registry of parked sessions of a worker and its expiry timers       *)
(* (shared/worker_shared/sdk/registry.py).  Parking starts an asyncio task *)
(* that sleeps for DETACH_TTL seconds and then stops the session; taking a *)
(* session, or parking another under its id, cancels that task.  A task    *)
(* cancelled before it resumes from its sleep returns at once, even when   *)
(* its time is up.                                                         *)
(***************************************************************************)
EXTENDS Naturals, FiniteSets

CONSTANTS
  Sids,         \* session ids
  Instances,    \* Session objects
  SidOf,        \* Session.session_id
  Tasks,        \* expiry tasks; bounds how many are alive at the same time
  TTL,          \* DETACH_TTL, in ticks
  None           \* no Session, no task, no id

ASSUME RegistryAssumption ==
  /\ SidOf \in [Instances -> Sids]
  /\ TTL \in Nat \ {0}
  /\ None \notin Instances \cup Tasks \cup Sids

VARIABLES
  sessions,     \* _sessions: the Session parked under each id
  expiry,       \* _expiry_tasks: the task that will stop it
  timer,        \* each task: the id it sleeps for and how long it still has to
  stopping,     \* the Session a task that woke up awaits the stop() of
  held,         \* the running Sessions that a connection holds, not parked
  closing,      \* the Sessions stop_all is working through
  age           \* how long each entry has been parked, up to TTL

vars == <<sessions, expiry, timer, stopping, held, closing, age>>

Asleep(t) == timer[t].sid # None
Idle == [sid |-> None, left |-> 0]
Unused(t) == ~ Asleep(t) /\ stopping[t] = None

TypeOK ==
  /\ sessions \in [Sids -> Instances \cup {None}]
  /\ expiry \in [Sids -> Tasks \cup {None}]
  /\ timer \in [Tasks -> [sid : Sids \cup {None}, left : 0 .. TTL]]
  /\ stopping \in [Tasks -> Instances \cup {None}]
  /\ held \in SUBSET Instances
  /\ closing \in SUBSET Instances
  /\ age \in [Sids -> 0 .. TTL]

Init ==
  /\ sessions = [s \in Sids |-> None]
  /\ expiry = [s \in Sids |-> None]
  /\ timer = [t \in Tasks |-> Idle]
  /\ stopping = [t \in Tasks |-> None]
  /\ held = Instances
  /\ closing = {}
  /\ age = [s \in Sids |-> 0]
-----------------------------------------------------------------------------
\* Variant: the recorded task is forgotten but goes on sleeping.
Forgotten(s) == timer

\* The timers once the task recorded for s is cancelled.
Cancelled(s) == [t \in Tasks |-> IF t = expiry[s] THEN Idle ELSE timer[t]]

\* Variant: an id that was parked before keeps no timer.
ParkUnarmed(i, t) ==
  LET s == SidOf[i] IN
  /\ i \in held
  /\ Unused(t)
  /\ sessions' = [sessions EXCEPT ![s] = i]
  /\ expiry' = [expiry EXCEPT ![s] = IF @ = None THEN t ELSE None]
  /\ timer' = IF expiry[s] = None
              THEN [timer EXCEPT ![t] = [sid |-> s, left |-> TTL]]
              ELSE Cancelled(s)
  /\ age' = [age EXCEPT ![s] = 0]
  /\ held' = held \ {i}
  /\ UNCHANGED <<stopping, closing>>

\* An entry already there is replaced; the Session it held is not stopped.
Park(i, t) ==
  LET s == SidOf[i] IN
  /\ i \in held
  /\ Unused(t)
  /\ sessions' = [sessions EXCEPT ![s] = i]
  /\ expiry' = [expiry EXCEPT ![s] = t]
  /\ timer' = [Cancelled(s) EXCEPT ![t] = [sid |-> s, left |-> TTL]]
  /\ age' = [age EXCEPT ![s] = 0]
  /\ held' = held \ {i}
  /\ UNCHANGED <<stopping, closing>>

Take(s) ==
  /\ sessions[s] # None
  /\ sessions' = [sessions EXCEPT ![s] = None]
  /\ expiry' = [expiry EXCEPT ![s] = None]
  /\ timer' = Cancelled(s)
  /\ held' = held \cup {sessions[s]}
  /\ UNCHANGED <<stopping, closing, age>>

\* A tick passes; a sleeper whose time is up may be run late.
Tick ==
  /\ timer' = [t \in Tasks |-> IF timer[t].left > 0
                                 THEN [timer[t] EXCEPT !.left = @ - 1]
                                 ELSE timer[t]]
  /\ age' = [s \in Sids |-> IF age[s] < TTL THEN age[s] + 1 ELSE TTL]
  /\ UNCHANGED <<sessions, expiry, stopping, held, closing>>

\* Variant: the entry stays in the registry while its Session is stopped.
ExpireInPlace(t) ==
  LET s == timer[t].sid IN
  /\ Asleep(t) /\ timer[t].left = 0
  /\ stopping' = [stopping EXCEPT ![t] = sessions[s]]
  /\ expiry' = [expiry EXCEPT ![s] = None]
  /\ timer' = [timer EXCEPT ![t] = Idle]
  /\ UNCHANGED <<sessions, held, closing, age>>

\* The sleep is over: both entries of the id go, then stop() is awaited.
Expire(t) ==
  LET s == timer[t].sid IN
  /\ Asleep(t) /\ timer[t].left = 0
  /\ stopping' = [stopping EXCEPT ![t] = sessions[s]]
  /\ sessions' = [sessions EXCEPT ![s] = None]
  /\ expiry' = [expiry EXCEPT ![s] = None]
  /\ timer' = [timer EXCEPT ![t] = Idle]
  /\ UNCHANGED <<held, closing, age>>

\* stop() returned, or raised and was logged.  The object is garbage and stands
\* for a Session started later.
ExpireDone(t) ==
  /\ stopping[t] # None
  /\ stopping' = [stopping EXCEPT ![t] = None]
  /\ held' = held \cup {stopping[t]}
  /\ UNCHANGED <<sessions, expiry, timer, closing, age>>

\* Server shutdown: every timer is cancelled and the registry emptied before the
\* first stop() is awaited.
StopAll ==
  /\ closing = {}
  /\ closing' = {sessions[s] : s \in Sids} \ {None}
  /\ closing' # {}
  /\ timer' = [t \in Tasks |-> IF \E s \in Sids : expiry[s] = t THEN Idle ELSE timer[t]]
  /\ expiry' = [s \in Sids |-> None]
  /\ sessions' = [s \in Sids |-> None]
  /\ UNCHANGED <<stopping, held, age>>

StopNext(i) ==
  /\ i \in closing
  /\ closing' = closing \ {i}
  /\ held' = held \cup {i}
  /\ UNCHANGED <<sessions, expiry, timer, stopping, age>>

Next ==
  \/ \E i \in Instances, t \in Tasks : Park(i, t)
  \/ \E s \in Sids : Take(s)
  \/ Tick
  \/ \E t \in Tasks : Expire(t) \/ ExpireDone(t)
  \/ StopAll
  \/ \E i \in Instances : StopNext(i)

\* Time passes and the event loop runs a task whose sleep is over.
Spec ==
  /\ Init /\ [][Next]_vars
  /\ WF_vars(Tick)
  /\ \A t \in Tasks : SF_vars(Expire(t))
-----------------------------------------------------------------------------
\* A sleeping task is the one recorded for its id and that id is parked: no
\* timer of an earlier stay in the registry is left to stop the session of a
\* later one (take and park cancel before they record).
TimersMatch ==
  \A t \in Tasks :
    Asleep(t) => expiry[timer[t].sid] = t /\ sessions[timer[t].sid] # None

\* "Sessions expire after DETACH_TTL seconds without being reclaimed": expiry
\* stops a session only when it has been parked for the whole time to live, and
\* it stops a session that nobody holds.
NeverEarly ==
  [][\A t \in Tasks :
       stopping[t] = None /\ stopping'[t] # None =>
         /\ age[timer[t].sid] = TTL
         /\ stopping'[t] \notin held
         /\ \A s \in Sids : sessions'[s] # stopping'[t]]_vars

\* No session stays parked for ever: it is reclaimed, replaced or stopped.
ParkedEnds ==
  \A s \in Sids, i \in Instances : sessions[s] = i ~> sessions[s] # i
=============================================================================
