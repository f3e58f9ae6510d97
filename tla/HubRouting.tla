----------------------------- MODULE HubRouting -----------------------------
(***************************************************************************)
(* What the hub does with the messages of one browser and of the workers   *)
(* it is linked to (hub/src/ws/handler.py, project_index.py): requests are *)
(* routed by the id of a project or to the active worker, and ids are      *)
(* translated.  A handler, and with it the index, lives as long as the     *)
(* browser's socket.  Every worker has one project here, so that the hub's *)
(* id of the project is the offset of the worker.                          *)
(*                                                                         *)
(* The workers are external: each has for this browser a current session,  *)
(* as SessionManager gives it, and reads its messages in order.            *)
(***************************************************************************)
EXTENDS Naturals, Sequences, FiniteSets

CONSTANTS
  Workers,    \* the entries of workers.json
  Sessions, Host,   \* the sessions, and the worker of each
  Prompts,    \* prompts, the bound on how many are typed
  MaxQueue,   \* bounds every queue
  None

ASSUME RoutingAssumption ==
  /\ IsFiniteSet(Workers)
  /\ Host \in [Sessions -> Workers]
  /\ None \notin Workers \cup Sessions \cup Prompts \cup Nat

VARIABLES
  hub,      \* whether a handler serves the browser's socket
  reqs,     \* what the browser sent, read by the handler in order
  wire,     \* what was sent to the browser
  links,    \* the keys of worker_conns
  offset,   \* _worker_offsets
  listed,   \* the workers with a project in _mappings
  active,   \* active_worker_id
  inbox,    \* what was sent to each worker
  cur,      \* the current session of each worker's connection
  live,     \* sessions that send to this browser: current, or parked by a switch
  busy,     \* sessions in the middle of a turn
  given     \* the sessions that took each prompt, in order

index == <<offset, listed>>
work  == <<cur, live, busy, given>>
hubVars == <<hub, reqs, wire, links, index, active, inbox, work>>

HubInit ==
  /\ hub = FALSE /\ reqs = <<>> /\ wire = <<>> /\ links = {} /\ listed = {}
  /\ offset = [w \in Workers |-> None] /\ active = None
  /\ inbox = [w \in Workers |-> <<>>] /\ cur = [w \in Workers |-> None]
  /\ live = {} /\ busy \in SUBSET Sessions /\ given = [p \in Prompts |-> <<>>]

Hosted(w) == {s \in Sessions : Host[s] = w}
Push(m) == Len(wire) < MaxQueue /\ wire' = Append(wire, m)
-----------------------------------------------------------------------------
(* ProjectIndex.                                                           *)

\* _offset_for: the next one free, on the worker's first use.
OffsetFor(w) ==
  IF offset[w] # None THEN offset[w]
  ELSE Cardinality({v \in Workers : offset[v] # None})

Resolve(id) == {w \in listed : offset[w] = id}

\* Variant: a worker takes the offset its place among the linked ones gives it.
ListProjectsByPlace(w) ==
  /\ hub /\ w \in links \ listed
  /\ offset' = [offset EXCEPT ![w] = Cardinality(listed \cap links)]
  /\ listed' = listed \cup {w}
  /\ Push([t |-> "projects", of |-> [v \in listed' |-> offset'[v]]])
  /\ UNCHANGED <<hub, reqs, links, active, inbox, work>>

\* The projects of w are listed: before the first request is read, for a request
\* of the browser, after a reconnect, or because w says so.
ListProjects(w) ==
  /\ hub /\ w \in links \ listed
  /\ offset' = [offset EXCEPT ![w] = OffsetFor(w)]
  /\ listed' = listed \cup {w}
  /\ Push([t |-> "projects", of |-> [v \in listed' |-> offset'[v]]])
  /\ UNCHANGED <<hub, reqs, links, active, inbox, work>>
-----------------------------------------------------------------------------
(* The life of a handler and of its links.                                 *)

\* A fresh handler: the workers U answer, and the first of them is active.
HandlerStarts(U) ==
  /\ ~ hub /\ hub' = TRUE /\ links' = U /\ active' \in U
  /\ UNCHANGED <<wire, index, inbox, work>>

\* The browser's socket is gone: the workers park what is current for it.
HandlerEnds ==
  /\ hub /\ hub' = FALSE
  /\ reqs' = <<>> /\ wire' = <<>> /\ links' = {} /\ listed' = {} /\ active' = None
  /\ offset' = [w \in Workers |-> None] /\ inbox' = [w \in Workers |-> <<>>]
  /\ cur' = [w \in Workers |-> None] /\ live' = {}
  /\ UNCHANGED <<busy, given>>

\* A link is lost, perhaps because the worker restarts and forgets its turns.
LinkLost(w) ==
  /\ w \in links /\ links' = links \ {w}
  /\ inbox' = [inbox EXCEPT ![w] = <<>>] /\ cur' = [cur EXCEPT ![w] = None]
  /\ live' = live \ Hosted(w) /\ busy' \in {busy, busy \ Hosted(w)}
  /\ UNCHANGED <<hub, reqs, wire, index, active, given>>

LinkRetried(w) ==
  /\ hub /\ w \notin links /\ links' = links \cup {w}
  /\ Push([t |-> "reconnected", w |-> w])
  /\ UNCHANGED <<hub, reqs, index, active, inbox, work>>
-----------------------------------------------------------------------------
(* Requests.                                                               *)

Route(w, m) ==
  /\ Len(inbox[w]) < MaxQueue
  /\ inbox' = [inbox EXCEPT ![w] = Append(@, m)] /\ UNCHANGED wire

Fails == Push([t |-> "error"]) /\ UNCHANGED <<active, inbox>>

\* Project-bound: the id is resolved; an unknown project and a worker that is
\* not connected are errors.
RouteByProject(m) ==
  IF Resolve(m.id) \cap links = {} THEN Fails
  ELSE \E w \in Resolve(m.id) : active' = w /\ Route(w, [t |-> "resume", s |-> m.s])

\* Session-bound: to the active worker, if it is still connected.
RouteToActive(m) ==
  IF active \in links THEN Route(active, m) /\ UNCHANGED active ELSE Fails

HubReads ==
  /\ hub /\ reqs # <<>> /\ reqs' = Tail(reqs)
  /\ LET m == Head(reqs) IN
       IF m.t = "resume" THEN RouteByProject(m) ELSE RouteToActive(m)
  /\ UNCHANGED <<hub, links, index, work>>
-----------------------------------------------------------------------------
(* The workers, and what the hub makes of their messages.                  *)

\* session_started makes its worker the active one.
WorkerStarts(w, s) ==
  /\ s \in Hosted(w)
  /\ cur' = [cur EXCEPT ![w] = s] /\ live' = live \cup {s} /\ active' = w
  /\ Push([t |-> "started", s |-> s, busy |-> s \in busy])
  /\ UNCHANGED <<busy, given>>

WorkerRefuses == Push([t |-> "error"]) /\ UNCHANGED <<work, active>>

WorkerPrompts(w, p) ==
  /\ UNCHANGED <<cur, live, active>>
  /\ IF cur[w] = None \/ cur[w] \in busy
     THEN Push([t |-> IF cur[w] = None THEN "no_session" ELSE "busy", p |-> p])
          /\ UNCHANGED <<busy, given>>
     ELSE /\ busy' = busy \cup {cur[w]} /\ UNCHANGED wire
          /\ given' = [given EXCEPT ![p] = Append(@, cur[w])]

WorkerReads(w) ==
  /\ inbox[w] # <<>> /\ inbox' = [inbox EXCEPT ![w] = Tail(@)]
  /\ LET m == Head(inbox[w]) IN
       \/ m.t = "resume" /\ (WorkerStarts(w, m.s) \/ WorkerRefuses)
       \/ m.t = "prompt" /\ WorkerPrompts(w, m.p)
  /\ UNCHANGED <<hub, reqs, links, index>>

\* A turn ends; its result reaches the browser if the session sends to it.
TurnEnds(s) ==
  /\ s \in busy /\ busy' = busy \ {s}
  /\ IF s \in live THEN Push([t |-> "result", s |-> s]) ELSE UNCHANGED wire
  /\ UNCHANGED <<hub, reqs, links, index, active, inbox, cur, live, given>>

HubNext ==
  \/ HubReads
  \/ \E w \in Workers : ListProjects(w) \/ LinkLost(w) \/ LinkRetried(w) \/ WorkerReads(w)
  \/ \E s \in Sessions : TurnEnds(s)
-----------------------------------------------------------------------------
\* Within one connection the ids of the hub are unambiguous: what the browser
\* has been shown as the project of a worker reaches that worker, however the
\* workers come, go and are listed.
ShownResolves ==
  \A k \in DOMAIN wire : wire[k].t = "projects" =>
    \A w \in DOMAIN wire[k].of : Resolve(wire[k].of[w]) = {w}

\* "hub_id = worker_index * 1_000_000 + worker_project_id" (project_index.py): a
\* request for a session never reaches another worker than the session's.
RequestsReachHost ==
  \A w \in Workers : \A k \in DOMAIN inbox[w] :
    inbox[w][k].t = "resume" => Host[inbox[w][k].s] = w
=============================================================================
