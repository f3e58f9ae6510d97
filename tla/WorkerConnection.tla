-------------------------- MODULE WorkerConnection --------------------------
(***************************************************************************)
(* Requests and responses over one link from the hub to a worker           *)
(* (hub/src/workers/connection.py): the per-type lock, the table of        *)
(* pending futures, the read loop that matches a message to a future, the  *)
(* timeout of the caller, its cancellation when the browser's connection   *)
(* ends, and the close of the link.  The worker handles what it receives   *)
(* in order.  Of the workers of this repository one echoes the id of a     *)
(* request in its reply, the others do not.                                *)
(***************************************************************************)
EXTENDS Naturals, Sequences

CONSTANTS
  Reqs,         \* calls of request(); bounds how many are made
  Types,        \* response types
  Background,   \* those asked for by tasks that outlive the browser's connection
  MaxPushes,    \* bounds the messages the worker sends unasked
  None          \* no request, no message

\* A message: its type, the request it answers, and whether it carries its id.
Message == [type : Types, answers : Reqs \cup {None}, hasId : BOOLEAN]

ASSUME ConnectionAssumption ==
  /\ Background \subseteq Types
  /\ None \notin Reqs \cup Types
  /\ MaxPushes \in Nat

ASSUME MessageAssumption == None \notin Message

VARIABLES
  echoes,       \* whether the worker's build echoes _req_id
  ending,       \* the hub's handler of the browser's connection is in its teardown
  stage,        \* where each call of request() is
  kind,         \* the response type it waits for
  line,         \* _request_locks: each type's holder and those queued behind it
  pending,      \* the keys of _pending
  fut,          \* the future of each call
  got,          \* the message it was resolved with
  supports,     \* _supports_req_id
  toWorker,     \* requests on their way
  toHub,        \* messages on their way back
  pushes,       \* how many unasked messages the worker has sent
  link,         \* the transport: "up", "lost", or "none" once closed
  reader        \* the _read_loop task

vars == <<echoes, ending, stage, kind, line, pending, fut, got, supports, toWorker, toHub,
          pushes, link, reader>>
callVars == <<stage, kind, line>>
futVars == <<pending, fut, got, supports>>
wireVars == <<toWorker, toHub, pushes, link>>

TypeOK ==
  /\ echoes \in BOOLEAN
  /\ ending \in BOOLEAN
  /\ stage \in [Reqs -> {"new", "queued", "waiting", "returned", "timedOut", "cancelled"}]
  /\ kind \in [Reqs -> Types \cup {None}]
  /\ line \in [Types -> Seq(Reqs)]
  /\ pending \in SUBSET Reqs
  /\ fut \in [Reqs -> {"open", "set", "cancelled"}]
  /\ got \in [Reqs -> Message \cup {None}]
  /\ supports \in BOOLEAN
  /\ toWorker \in Seq(Reqs)
  /\ toHub \in Seq(Message)
  /\ pushes \in 0 .. MaxPushes
  /\ link \in {"up", "lost", "none"}
  /\ reader \in {"on", "off"}

Init ==
  /\ echoes \in BOOLEAN
  /\ ending = FALSE
  /\ stage = [r \in Reqs |-> "new"]
  /\ kind = [r \in Reqs |-> None]
  /\ line = [t \in Types |-> <<>>]
  /\ pending = {}
  /\ fut = [r \in Reqs |-> "open"]
  /\ got = [r \in Reqs |-> None]
  /\ supports = FALSE
  /\ toWorker = <<>>
  /\ toHub = <<>>
  /\ pushes = 0
  /\ link = "up"
  /\ reader = "on"
-----------------------------------------------------------------------------
(***************************************************************************)
(* request().                                                              *)
(***************************************************************************)
\* The calls of the handler and of its retry tasks are cancelled with it.
Doomed(r) == ending /\ kind[r] \notin Background

Call(r, t) ==
  /\ stage[r] = "new"
  /\ ending => t \in Background
  /\ stage' = [stage EXCEPT ![r] = "queued"]
  /\ kind' = [kind EXCEPT ![r] = t]
  /\ line' = [line EXCEPT ![t] = Append(@, r)]
  /\ UNCHANGED <<echoes, ending, futVars, wireVars, reader>>

\* Variant: no lock per response type.
MayGoAnyway(r) == stage[r] = "queued"

\* The caller has the lock of its response type.
HasLock(r) == stage[r] \in {"queued", "waiting"} /\ Head(line[kind[r]]) = r
MayGo(r) == stage[r] = "queued" /\ HasLock(r) /\ ~ Doomed(r)

\* The future is recorded before the message leaves; a send over a closed link
\* is swallowed.
Send(r) ==
  /\ MayGo(r)
  /\ stage' = [stage EXCEPT ![r] = "waiting"]
  /\ pending' = pending \cup {r}
  /\ toWorker' = IF link = "up" THEN Append(toWorker, r) ELSE toWorker
  /\ UNCHANGED <<echoes, ending, kind, line, fut, got, supports, toHub, pushes, link, reader>>

\* The caller, first in line, leaves and its lock goes to the next.
Leaves(r, how) ==
  /\ HasLock(r)
  /\ stage' = [stage EXCEPT ![r] = how]
  /\ line' = [line EXCEPT ![kind[r]] = Tail(@)]
  /\ UNCHANGED <<echoes, ending, kind, fut, got, supports, wireVars, reader>>

Returns(r) ==
  /\ stage[r] = "waiting" /\ fut[r] = "set"
  /\ Leaves(r, "returned")
  /\ UNCHANGED pending

\* Variant: the timed-out future stays in the table.
TimesOutKeeping(r) ==
  /\ stage[r] = "waiting" /\ fut[r] # "cancelled"
  /\ Leaves(r, "timedOut")
  /\ UNCHANGED pending

\* Variant: the lock is not given up on a timeout.
TimesOutLocked(r) ==
  /\ stage[r] = "waiting"
  /\ fut[r] # "cancelled"
  /\ stage' = [stage EXCEPT ![r] = "timedOut"]
  /\ pending' = pending \ {r}
  /\ UNCHANGED <<echoes, ending, kind, line, fut, got, supports, wireVars, reader>>

\* The timeout may fire after the future was set, before the caller is run again.
TimesOut(r) ==
  /\ stage[r] = "waiting" /\ fut[r] # "cancelled"
  /\ Leaves(r, "timedOut")
  /\ pending' = pending \ {r}

\* request() catches TimeoutError only: a cancelled caller leaves its entry.  One that
\* is still queued leaves in its turn; all behind it are cancelled too.
IsCancelled(r) ==
  /\ fut[r] = "cancelled" \/ Doomed(r)
  /\ Leaves(r, "cancelled")
  /\ UNCHANGED pending
-----------------------------------------------------------------------------
(***************************************************************************)
(* _read_loop.                                                             *)
(***************************************************************************)
\* The entry goes; its future is set unless it was cancelled.
Resolve(r, m) ==
  /\ pending' = pending \ {r}
  /\ fut' = [fut EXCEPT ![r] = IF @ = "open" THEN "set" ELSE @]
  /\ got' = [got EXCEPT ![r] = IF fut[r] = "open" THEN m ELSE @]

Waiting(t) == {r \in pending : kind[r] = t}

\* Variant: a message without an id is matched by its type for ever.
ReadMatching(m) ==
  IF m.hasId
  THEN /\ supports' = TRUE
       /\ IF m.answers \in pending THEN Resolve(m.answers, m) ELSE UNCHANGED <<pending, fut, got>>
  ELSE /\ UNCHANGED supports
       /\ IF Waiting(m.type) = {}
          THEN UNCHANGED <<pending, fut, got>>
          ELSE \E r \in Waiting(m.type) : Resolve(r, m)

\* A message with an id resolves that request, or is dropped.  One without goes to
\* on_message, unless no id was ever seen and a request of its type is pending.
ReadMessage(m) ==
  IF m.hasId
  THEN /\ supports' = TRUE
       /\ IF m.answers \in pending THEN Resolve(m.answers, m) ELSE UNCHANGED <<pending, fut, got>>
  ELSE /\ UNCHANGED supports
       /\ IF supports \/ Waiting(m.type) = {}
          THEN UNCHANGED <<pending, fut, got>>
          ELSE \E r \in Waiting(m.type) : Resolve(r, m)

Read ==
  /\ reader = "on" /\ toHub # <<>>
  /\ toHub' = Tail(toHub)
  /\ ReadMessage(Head(toHub))
  /\ UNCHANGED <<echoes, ending, callVars, toWorker, pushes, link, reader>>

\* The transport is found closed, or on_message raised.  Pending futures stay.
ReaderEnds ==
  /\ reader = "on"
  /\ reader' = "off"
  /\ UNCHANGED <<echoes, ending, callVars, futVars, wireVars>>
-----------------------------------------------------------------------------
(***************************************************************************)
(* The teardown of the browser's connection (the finally block of the      *)
(* hub's handler).  It cancels the retry tasks, and with each the future   *)
(* the task awaits; then it closes the links, one await at a time.         *)
(***************************************************************************)
HandlerEnds ==
  /\ ~ ending
  /\ ending' = TRUE
  /\ fut' = [r \in Reqs |->
               IF stage[r] = "waiting" /\ kind[r] \notin Background /\ fut[r] = "open"
               THEN "cancelled" ELSE fut[r]]
  /\ UNCHANGED <<echoes, callVars, pending, got, supports, wireVars, reader>>

\* close(): futures are cancelled and forgotten, the reader is cancelled and awaited,
\* then the transport is closed.
Close ==
  /\ ending
  /\ link # "none"
  /\ fut' = [r \in Reqs |-> IF r \in pending /\ fut[r] = "open" THEN "cancelled" ELSE fut[r]]
  /\ pending' = {}
  /\ reader' = "off"
  /\ link' = "none" /\ toWorker' = <<>> /\ toHub' = <<>>
  /\ UNCHANGED <<echoes, ending, callVars, got, supports, pushes>>
-----------------------------------------------------------------------------
(***************************************************************************)
(* The worker and the network.                                             *)
(***************************************************************************)
Answer ==
  /\ link = "up" /\ toWorker # <<>>
  /\ LET r == Head(toWorker) IN
       toHub' = Append(toHub, [type |-> kind[r], answers |-> r, hasId |-> echoes])
  /\ toWorker' = Tail(toWorker)
  /\ UNCHANGED <<echoes, ending, callVars, futVars, pushes, link, reader>>

\* A worker that does not know the request replies with an error, which the hub
\* swallows.
Ignore ==
  /\ link = "up" /\ toWorker # <<>>
  /\ toWorker' = Tail(toWorker)
  /\ UNCHANGED <<echoes, ending, callVars, futVars, toHub, pushes, link, reader>>

\* `projects` after a create_project the browser asked for.
Push(t) ==
  /\ link = "up" /\ pushes < MaxPushes
  /\ toHub' = Append(toHub, [type |-> t, answers |-> None, hasId |-> FALSE])
  /\ pushes' = pushes + 1
  /\ UNCHANGED <<echoes, ending, callVars, futVars, toWorker, link, reader>>

\* What is still in flight may be lost with the link.
Lose ==
  /\ link = "up"
  /\ link' = "lost"
  /\ toWorker' = <<>>
  /\ \E n \in 0 .. Len(toHub) : toHub' = SubSeq(toHub, 1, n)
  /\ UNCHANGED <<echoes, ending, callVars, futVars, pushes, reader>>
-----------------------------------------------------------------------------
Callers == \E r \in Reqs : Send(r) \/ Returns(r) \/ TimesOut(r) \/ IsCancelled(r)

Next ==
  \/ \E r \in Reqs, t \in Types : Call(r, t)
  \/ Callers
  \/ Read \/ ReaderEnds \/ HandlerEnds \/ Close
  \/ Answer \/ Ignore \/ Lose
  \/ \E t \in Types : Push(t)

\* Callers run when they can, and asyncio.wait_for always gives up.
Fairness == WF_vars(Callers)

Spec == Init /\ [][Next]_vars
FairSpec == Spec /\ Fairness
-----------------------------------------------------------------------------
\* The table holds the requests whose answer is still awaited, and nothing late can
\* resolve one that was given up.  What else it holds is what a teardown cancelled, on
\* a link that it has not closed: there the entry stays, since request() removes it on
\* a timeout only.
OnlyCancelledLinger ==
  \A r \in Reqs :
    /\ stage[r] = "waiting" /\ fut[r] = "open" => r \in pending
    /\ r \in pending =>
         \/ stage[r] = "waiting" /\ fut[r] = "open"
         \/ ending /\ fut[r] = "cancelled" /\ link # "none"

\* With a worker that does not echo ids, one lock per response type is all there
\* is: no two requests under way swap their answers.  A request gets the answer to
\* another only when that one timed out, or was itself served with something else.
NoCrossTalk ==
  \A r \in Reqs :
    got[r] # None /\ got[r].answers \notin {r, None} =>
      LET q == got[r].answers IN
      /\ ~ echoes /\ kind[q] = kind[r]
      /\ \/ stage[q] = "timedOut"
         \/ stage[q] = "returned" /\ got[q].answers # q

\* Once the worker has echoed an id, every future gets the answer to its own
\* request: not an unasked message of the same type, not a late answer.
ExactOnceEchoed ==
  [][\A r \in Reqs : supports /\ fut[r] = "open" /\ fut'[r] = "set" =>
       got'[r].answers = r]_vars

\* A request that waits behind others of its type, over a link that may be dead,
\* still comes to an end: once the last call was made, none is left under way.
RequestsSettle ==
  <>[](\A r \in Reqs : stage[r] \notin {"queued", "waiting"})
=============================================================================
