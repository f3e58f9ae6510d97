------------------------------ MODULE HubLinks ------------------------------
(***************************************************************************)
(* The links one browser connection of the hub keeps to the workers        *)
(* (hub/src/ws/handler.py): the initial connection pass, the reader task   *)
(* of each WorkerConnection, the retry task of each worker that is down,   *)
(* and the teardown when the browser goes.                                 *)
(***************************************************************************)
EXTENDS Naturals, FiniteSets

CONSTANTS
  Workers,      \* the entries of workers.json
  Links,        \* WorkerConnection objects; bounds how many exist at a time
  MaxLeaks,     \* bounds the sockets left open by a reader that failed
  None          \* no link

LinksAssumption == None \notin Links /\ None \notin Workers /\ MaxLeaks \in Nat

VARIABLES
  phase,        \* where handle_websocket is
  todo,         \* workers the initial pass has not tried yet
  conns,        \* worker_conns: the link in use for each worker
  of,           \* the worker of each link
  sock,         \* the transport of each link
  reader,       \* the _read_loop task of each link
  retry,        \* the _retry task of each worker
  tasks,        \* the keys of retry_tasks
  closing       \* the links the finally block has still to close

vars == <<phase, todo, conns, of, sock, reader, retry, tasks, closing>>
linkVars == <<conns, of, sock, reader>>
retryVars == <<retry, tasks>>

TypeOK ==
  /\ phase \in {"connecting", "serving", "closing", "closed"}
  /\ todo \in SUBSET Workers
  /\ conns \in [Workers -> Links \cup {None}]
  /\ of \in [Links -> Workers \cup {None}]
  /\ sock \in [Links -> {"closed", "open", "lost"}]
  /\ reader \in [Links -> {"off", "on"}]
  /\ retry \in [Workers -> {"none", "sleep", "dial", "fetch", "cancelled"}]
  /\ tasks \in SUBSET Workers
  /\ closing \in SUBSET Links

Init ==
  /\ phase = "connecting"
  /\ todo = Workers
  /\ conns = [w \in Workers |-> None]
  /\ of = [l \in Links |-> None]
  /\ sock = [l \in Links |-> "closed"]
  /\ reader = [l \in Links |-> "off"]
  /\ retry = [w \in Workers |-> "none"]
  /\ tasks = {}
  /\ closing = {}
-----------------------------------------------------------------------------
ShuttingDown == phase \in {"closing", "closed"}

\* _try_connect succeeds: the link is adopted and its reader task created.  An
\* object whose reader has ended and whose socket is closed stands for a new one.
Connected(w, l) ==
  /\ reader[l] = "off" /\ sock[l] = "closed"
  /\ conns' = [conns EXCEPT ![w] = l]
  /\ of' = [of EXCEPT ![l] = w]
  /\ sock' = [sock EXCEPT ![l] = "open"]
  /\ reader' = [reader EXCEPT ![l] = "on"]

InitialConnect(w, l) ==
  /\ phase = "connecting" /\ w \in todo
  /\ Connected(w, l)
  /\ todo' = todo \ {w}
  /\ UNCHANGED <<phase, retryVars, closing>>

\* Variant: a worker that does not answer at first is given up.
InitialFailsSilently(w) ==
  /\ phase = "connecting" /\ w \in todo
  /\ todo' = todo \ {w}
  /\ UNCHANGED <<phase, linkVars, retryVars, closing>>

InitialFails(w) ==
  /\ phase = "connecting" /\ w \in todo
  /\ todo' = todo \ {w}
  /\ retry' = [retry EXCEPT ![w] = "sleep"]
  /\ tasks' = tasks \cup {w}
  /\ UNCHANGED <<phase, linkVars, closing>>

\* Cancellation is a request: the task ends when it next runs.
CancelAll ==
  /\ retry' = [w \in Workers |-> IF w \in tasks THEN "cancelled" ELSE retry[w]]
  /\ tasks' = {}

\* No worker answered: the retries are cancelled and the browser sent away.
NoWorkers ==
  /\ phase = "connecting" /\ todo = {}
  /\ \A w \in Workers : conns[w] = None
  /\ CancelAll
  /\ phase' = "closed"
  /\ UNCHANGED <<todo, linkVars, closing>>

Serve ==
  /\ phase = "connecting" /\ todo = {}
  /\ \E w \in Workers : conns[w] # None
  /\ phase' = "serving"
  /\ UNCHANGED <<todo, linkVars, retryVars, closing>>
-----------------------------------------------------------------------------
\* Variant: the dead link stays in worker_conns.
OnDisconnectKeepsEntry(w) ==
  /\ UNCHANGED conns
  /\ IF ShuttingDown \/ w \in tasks
     THEN UNCHANGED retryVars
     ELSE /\ retry' = [retry EXCEPT ![w] = "sleep"]
          /\ tasks' = tasks \cup {w}

\* Variant: the teardown does not keep the callback from scheduling a retry.
OnDisconnectUnguarded(w) ==
  /\ conns' = [conns EXCEPT ![w] = None]
  /\ IF w \in tasks
     THEN UNCHANGED retryVars
     ELSE /\ retry' = [retry EXCEPT ![w] = "sleep"]
          /\ tasks' = tasks \cup {w}

\* on_disconnect, called when the reader of a link of w ends: the entry of the
\* worker goes, whichever link it names, and a retry is scheduled unless one is
\* in flight or the handler is shutting down.
OnDisconnect(w) ==
  /\ conns' = [conns EXCEPT ![w] = None]
  /\ IF ShuttingDown \/ w \in tasks
     THEN UNCHANGED retryVars
     ELSE /\ retry' = [retry EXCEPT ![w] = "sleep"]
          /\ tasks' = tasks \cup {w}

\* The worker or the network closes the socket.
Lose(l) ==
  /\ sock[l] = "open"
  /\ sock' = [sock EXCEPT ![l] = "lost"]
  /\ UNCHANGED <<phase, todo, conns, of, reader, retryVars, closing>>

\* The reader finds its socket closed.
ReaderEnds(l) ==
  /\ reader[l] = "on" /\ sock[l] = "lost"
  /\ reader' = [reader EXCEPT ![l] = "off"]
  /\ sock' = [sock EXCEPT ![l] = "closed"]
  /\ OnDisconnect(of[l])
  /\ UNCHANGED <<phase, todo, of, closing>>

\* Bound: how many sockets nobody reads may be open at the same time.
MayLeak == Cardinality({l \in Links : reader[l] = "off" /\ sock[l] # "closed"}) < MaxLeaks

\* on_message raises: the reader logs it and ends; nobody closes the socket.
ReaderFails(l) ==
  /\ reader[l] = "on" /\ sock[l] = "open"
  /\ MayLeak
  /\ reader' = [reader EXCEPT ![l] = "off"]
  /\ OnDisconnect(of[l])
  /\ UNCHANGED <<phase, todo, of, sock, closing>>

\* A socket nobody reads is closed by its peer at last.
Forgotten(l) ==
  /\ reader[l] = "off" /\ sock[l] = "lost"
  /\ sock' = [sock EXCEPT ![l] = "closed"]
  /\ UNCHANGED <<phase, todo, conns, of, reader, retryVars, closing>>
-----------------------------------------------------------------------------
\* The retry task: sleep, then dial unless the worker is connected already.
Ended(w) ==
  /\ retry' = [retry EXCEPT ![w] = "none"]
  /\ tasks' = tasks \ {w}

Usable(w) == conns[w] # None /\ sock[conns[w]] = "open"

RetryWakes(w) ==
  /\ retry[w] = "sleep"
  /\ IF Usable(w)
     THEN Ended(w)
     ELSE retry' = [retry EXCEPT ![w] = "dial"] /\ UNCHANGED tasks
  /\ UNCHANGED <<phase, todo, linkVars, closing>>

RetryConnects(w, l) ==
  /\ retry[w] = "dial"
  /\ Connected(w, l)
  /\ retry' = [retry EXCEPT ![w] = "fetch"]
  /\ UNCHANGED <<phase, todo, tasks, closing>>

\* Variant: the task ends when the dial fails.
RetryGivesUp(w) ==
  /\ retry[w] = "dial"
  /\ Ended(w)
  /\ UNCHANGED <<phase, todo, linkVars, closing>>

RetryFails(w) ==
  /\ retry[w] = "dial"
  /\ retry' = [retry EXCEPT ![w] = "sleep"]
  /\ UNCHANGED <<phase, todo, linkVars, tasks, closing>>

\* The projects of every worker are fetched, up to 10 s each, and pushed with
\* worker_reconnected to the browser; then the task is over.
RetryDone(w) ==
  /\ retry[w] = "fetch"
  /\ Ended(w)
  /\ UNCHANGED <<phase, todo, linkVars, closing>>

RetryCancelled(w) ==
  /\ retry[w] = "cancelled"
  /\ Ended(w)
  /\ UNCHANGED <<phase, todo, linkVars, closing>>
-----------------------------------------------------------------------------
\* Variant: the retry tasks are left running.
HangUpKeepsRetries ==
  /\ phase = "serving"
  /\ phase' = "closing"
  /\ closing' = {conns[w] : w \in Workers} \ {None}
  /\ UNCHANGED <<todo, linkVars, retryVars>>

\* The browser goes, or is silent for HEARTBEAT_TIMEOUT seconds.
HangUp ==
  /\ phase = "serving"
  /\ phase' = "closing"
  /\ CancelAll
  /\ closing' = {conns[w] : w \in Workers} \ {None}
  /\ UNCHANGED <<todo, linkVars>>

\* WorkerConnection.close: the reader, if it still runs, is cancelled and calls
\* on_disconnect; then the socket is closed.
CloseLink(l) ==
  /\ phase = "closing" /\ l \in closing
  /\ closing' = closing \ {l}
  /\ reader' = [reader EXCEPT ![l] = "off"]
  /\ sock' = [sock EXCEPT ![l] = "closed"]
  /\ IF reader[l] = "on" THEN OnDisconnect(of[l]) ELSE UNCHANGED <<conns, retryVars>>
  /\ UNCHANGED <<phase, todo, of>>

Closed ==
  /\ phase = "closing" /\ closing = {}
  /\ phase' = "closed"
  /\ conns' = [w \in Workers |-> None]
  /\ UNCHANGED <<todo, of, sock, reader, retryVars, closing>>
-----------------------------------------------------------------------------
Retry(w) ==
  \/ RetryWakes(w) \/ RetryFails(w) \/ RetryDone(w) \/ RetryCancelled(w)
  \/ \E l \in Links : RetryConnects(w, l)

Handler ==
  \/ \E w \in Workers : InitialFails(w) \/ \E l \in Links : InitialConnect(w, l)
  \/ NoWorkers \/ Serve
  \/ (\E l \in Links : CloseLink(l)) \/ Closed

Next ==
  \/ Handler
  \/ \E l \in Links : ReaderEnds(l) \/ ReaderFails(l) \/ Lose(l) \/ Forgotten(l)
  \/ \E w \in Workers : Retry(w)
  \/ HangUp

Spec == Init /\ [][Next]_vars

\* The tasks of the event loop run; a worker that keeps being dialled answers at
\* last.  Nothing makes a socket fail or the browser leave.
Fairness ==
  /\ WF_vars(Handler)
  /\ \A l \in Links : WF_vars(ReaderEnds(l))
  /\ \A w \in Workers :
       /\ WF_vars(Retry(w))
       /\ SF_vars(\E l \in Links : RetryConnects(w, l))
-----------------------------------------------------------------------------
\* A message is never routed to a link that nobody reads (routing looks only in
\* worker_conns), and no link is read that routing cannot reach: the "phantom
\* worker_conns the new handler can never reach" of handler.py.
RoutesMatchReaders ==
  \A l \in Links :
    /\ reader[l] = "on" => conns[of[l]] = l
    /\ \A w \in Workers : conns[w] = l => reader[l] = "on" /\ of[l] = w

\* Every live retry task is the one retry_tasks names, so that the teardown can
\* cancel it; and once the handler is gone none goes on dialling.
RetriesAreKnown ==
  \A w \in Workers :
    /\ retry[w] \in {"sleep", "dial", "fetch"} => w \in tasks /\ ~ ShuttingDown
    /\ w \in tasks => retry[w] # "none"

\* The teardown ends, with every task of the handler over.
TeardownCompletes ==
  phase = "closing" ~> /\ phase = "closed"
                       /\ \A w \in Workers : retry[w] = "none"
                       /\ \A l \in Links : reader[l] = "off"

FairSpec == Spec /\ Fairness
-----------------------------------------------------------------------------
\* Until the browser goes, a worker is left with neither a link nor a retry only
\* as a retry task that had reconnected it ends: its new link was lost while the
\* task was still fetching, and on_disconnect took the retry for under way.
Abandoned(w) ==
  ~ ShuttingDown /\ w \notin todo /\ conns[w] = None /\ w \notin tasks
AbandonedOnlyAfterFetch ==
  [][\A w \in Workers : Abandoned(w)' /\ ~ Abandoned(w) => retry[w] = "fetch"]_vars

\* A worker that is down and retried comes back, as long as the browser is served.
Reconnects ==
  \A w \in Workers :
    phase = "serving" /\ conns[w] = None /\ retry[w] \in {"sleep", "dial"}
      ~> phase # "serving" \/ conns[w] # None
=============================================================================
