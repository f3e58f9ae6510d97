--------------------------- MODULE SessionManager ---------------------------
(***************************************************************************)
(* Session ownership inside one worker process: the lock table             *)
(* (shared/worker_shared/locks/manager.py), the registry of parked         *)
(* sessions (sdk/registry.py) and one SessionManager per WebSocket         *)
(* connection (sdk/manager.py), driven by that connection's message loop   *)
(* (ws/handler.py).                                                        *)
(*                                                                         *)
(* All of it runs on one asyncio event loop.  A task, one per connection,  *)
(* is interrupted only where it suspends: running names the task in the    *)
(* middle of a stretch of code that awaits nothing, and no other task      *)
(* steps until that stretch ends.                                          *)
(***************************************************************************)
EXTENDS Naturals, FiniteSets, Sequences

CONSTANTS
  Conns,        \* WebSocket connections
  Labels,       \* device labels, "email @ device"
  Label,        \* the device label of each connection
  Sids,         \* session ids
  OldSids,      \* the ids with a transcript on disk when the worker starts
  Instances,    \* Session objects; bounds how many exist at the same time
  Adopts,       \* when a Session that made its id up takes the SDK's: never in the
                \* Claude worker, "starting" in the Codex and the Copilot worker,
                \* "live" in the Windows worker
  NoSid,        \* no session id
  NoConn,       \* no connection; also the muted send of a parked session
  NoInst        \* no Session object

ASSUME SessionAssumption ==
  /\ Label \in [Conns -> Labels]
  /\ OldSids \subseteq Sids
  /\ NoSid \notin Sids
  /\ NoConn \notin Conns
  /\ NoInst \notin Instances
  /\ Adopts \subseteq {"starting", "live"}

VARIABLES
  locks,        \* LockManager._locks: the connection owning each session id
  mu,           \* the task inside LockManager._mu across an await
  waiters,      \* the tasks queued on LockManager._mu, first come first served
  running,      \* the task executing between two suspension points
  registry,     \* SessionRegistry._sessions: the Session parked under each id
  sidOf,        \* Session.session_id
  own,          \* the Sessions that still carry the id they made up
  st,           \* life of each Session object
  send,         \* Session._send: the connection output goes to, NoConn if muted
  current,      \* SessionManager._current of each connection
  pc,           \* where each connection's task is
  tgt,          \* the session id the task's request is about
  mine,         \* the Session the request created or took from the registry
  aside,        \* the Session the task is parking, or stopping for a takeover
  sid,          \* _park_current's local: the id whose lock it gives up
  force,        \* resume_session(force=...)
  known         \* session ids a client can ask for

vars == <<locks, mu, waiters, running, registry, sidOf, own, st, send, current,
          pc, tgt, mine, aside, sid, force, known>>
lockVars == <<locks, mu, waiters>>
idVars == <<sidOf, own>>
objVars == <<sidOf, own, st, send>>
reqVars == <<tgt, mine, aside, sid, force>>

Life == {"gone", "new", "starting", "live", "stopping", "expiring"}
Stage == {"idle", "acquire", "notify", "revoke", "granted", "release",
          "starting", "reattach", "leave", "closed"}

TypeOK ==
  /\ locks \in [Sids -> Conns \cup {NoConn}]
  /\ mu \in Conns \cup {NoConn}
  /\ waiters \in Seq(Conns)
  /\ running \in Conns \cup {NoConn}
  /\ registry \in [Sids -> Instances \cup {NoInst}]
  /\ sidOf \in [Instances -> Sids \cup {NoSid}]
  /\ own \in SUBSET Instances
  /\ st \in [Instances -> Life]
  /\ send \in [Instances -> Conns \cup {NoConn}]
  /\ current \in [Conns -> Instances \cup {NoInst}]
  /\ pc \in [Conns -> Stage]
  /\ tgt \in [Conns -> Sids \cup {NoSid}]
  /\ mine \in [Conns -> Instances \cup {NoInst}]
  /\ aside \in [Conns -> Instances \cup {NoInst}]
  /\ sid \in [Conns -> Sids \cup {NoSid}]
  /\ force \in [Conns -> BOOLEAN]
  /\ known \in SUBSET Sids

Init ==
  /\ locks = [s \in Sids |-> NoConn]
  /\ mu = NoConn
  /\ waiters = <<>>
  /\ running = NoConn
  /\ registry = [s \in Sids |-> NoInst]
  /\ sidOf = [i \in Instances |-> NoSid]
  /\ own = {}
  /\ st = [i \in Instances |-> "gone"]
  /\ send = [i \in Instances |-> NoConn]
  /\ current = [c \in Conns |-> NoInst]
  /\ pc = [c \in Conns |-> "closed"]
  /\ tgt = [c \in Conns |-> NoSid]
  /\ mine = [c \in Conns |-> NoInst]
  /\ aside = [c \in Conns |-> NoInst]
  /\ sid = [c \in Conns |-> NoSid]
  /\ force = [c \in Conns |-> FALSE]
  /\ known = OldSids
-----------------------------------------------------------------------------
(***************************************************************************)
(* Scheduling.                                                             *)
(***************************************************************************)
At(c, stage) == pc[c] = stage /\ running \in {c, NoConn}
Goto(c, stage) == pc' = [pc EXCEPT ![c] = stage]
RunsOn(c) == running' = c            \* no suspension point before the next step
Suspends == running' = NoConn
MaySuspend(c) == running' \in {c, NoConn}

\* The handler returns to its message loop, and its local variables with it.
Return(c) ==
  /\ Goto(c, "idle")
  /\ Suspends
  /\ tgt' = [tgt EXCEPT ![c] = NoSid]
  /\ mine' = [mine EXCEPT ![c] = NoInst]
  /\ force' = [force EXCEPT ![c] = FALSE]

MuFree == mu = NoConn

\* Variant: no mutex.
EnterAnyway(c) == running = c /\ UNCHANGED waiters

\* Variant: whoever finds the lock free gets it, queue or not.
EnterBarging(c) ==
  /\ MuFree
  /\ \/ running = c /\ UNCHANGED waiters
     \/ /\ running = NoConn /\ waiters # <<>> /\ Head(waiters) = c
        /\ waiters' = Tail(waiters)

\* asyncio.Lock: a newcomer gets a free lock with no queue at once and without
\* suspending; a released lock goes to the head of the queue.
Enter(c) ==
  /\ MuFree
  /\ IF waiters = <<>> THEN running = c ELSE Head(waiters) = c /\ running = NoConn
  /\ waiters' = IF waiters = <<>> THEN waiters ELSE Tail(waiters)

\* `async with self._mu` finds the lock taken or others queued.
Queue(c) ==
  /\ pc[c] \in {"acquire", "release", "leave"}
  /\ running = c
  /\ ~ MuFree \/ waiters # <<>>
  /\ waiters' = Append(waiters, c)
  /\ Suspends
  /\ UNCHANGED <<locks, mu, registry, objVars, current, pc, reqVars, known>>

\* A Session nobody refers to is garbage: its object can stand for a new one.
Referenced(i) ==
  \/ \E s \in Sids : registry[s] = i
  \/ \E c \in Conns : i \in {current[c], mine[c], aside[c]}
Free(i) == st[i] = "gone" /\ ~ Referenced(i)

\* uuid4(): an id that no lock, no request and no transcript has.
FreshSid(s) ==
  /\ s \notin known
  /\ locks[s] = NoConn
  /\ \A c \in Conns : tgt[c] # s

\* Bound: a request is admitted while every task that may still need a Session
\* object finds a free one.
Room == Cardinality({i \in Instances : Free(i)})
          > Cardinality({c \in Conns : pc[c] \notin {"idle", "closed"}})
-----------------------------------------------------------------------------
(***************************************************************************)
(* Requests: the message loop dispatches one at a time (handler.py).       *)
(***************************************************************************)
\* A socket is accepted.  Connection ids are uuids: one that closed, which nothing
\* refers to any more, stands for a new one.
Connect(c) ==
  /\ At(c, "closed")
  /\ Goto(c, "idle")
  /\ UNCHANGED <<lockVars, running, registry, objVars, current, reqVars, known>>

NewSession(c, s, i) ==
  /\ At(c, "idle")
  /\ FreshSid(s)
  /\ Room
  /\ Free(i)
  /\ sidOf' = [sidOf EXCEPT ![i] = s]
  /\ own' = own \cup {i}
  /\ st' = [st EXCEPT ![i] = "new"]
  /\ send' = [send EXCEPT ![i] = c]
  /\ tgt' = [tgt EXCEPT ![c] = s]
  /\ mine' = [mine EXCEPT ![c] = i]
  /\ force' = [force EXCEPT ![c] = FALSE]
  /\ Goto(c, "acquire")
  /\ RunsOn(c)
  /\ UNCHANGED <<lockVars, registry, current, aside, sid, known>>

\* registry.take comes before the lock is asked for.
ResumeSession(c, s, f) ==
  /\ At(c, "idle")
  /\ s \in known
  /\ Room
  /\ mine' = [mine EXCEPT ![c] = registry[s]]
  /\ registry' = [registry EXCEPT ![s] = NoInst]
  /\ tgt' = [tgt EXCEPT ![c] = s]
  /\ force' = [force EXCEPT ![c] = f]
  /\ Goto(c, "acquire")
  /\ RunsOn(c)
  /\ UNCHANGED <<lockVars, objVars, current, aside, sid, known>>
-----------------------------------------------------------------------------
(***************************************************************************)
(* LockManager.try_acquire.                                                *)
(***************************************************************************)
Owner(c) == locks[tgt[c]]
HeldByOther(c) == Owner(c) \notin {c, NoConn}
MayTakeOver(c) == force[c] \/ Label[Owner(c)] = Label[c]

\* The lock stays with its holder; a Session taken from the registry goes back,
\* muted, under the id it has by now.
Refuse(c) ==
  /\ pc[c] = "acquire"
  /\ Enter(c)
  /\ HeldByOther(c)
  /\ ~ MayTakeOver(c)
  /\ IF mine[c] = NoInst
     THEN UNCHANGED <<registry, send>>
     ELSE /\ registry' = [registry EXCEPT ![sidOf[mine[c]]] = mine[c]]
          /\ send' = [send EXCEPT ![mine[c]] = NoConn]
  /\ Return(c)
  /\ UNCHANGED <<locks, mu, idVars, st, current, aside, sid, known>>

\* Variant: the mutex is given up before the holder's callback is awaited.
NotifyUnlocked(c) ==
  /\ pc[c] = "acquire"
  /\ Enter(c)
  /\ HeldByOther(c)
  /\ MayTakeOver(c)
  /\ mu' = mu
  /\ Goto(c, "notify")
  /\ MaySuspend(c)
  /\ UNCHANGED <<locks, registry, objVars, current, reqVars, known>>

\* A takeover awaits the holder's revoke callback while it keeps the mutex; the
\* callback first awaits the lock_revoked message to the holder's client.
Notify(c) ==
  /\ pc[c] = "acquire"
  /\ Enter(c)
  /\ HeldByOther(c)
  /\ MayTakeOver(c)
  /\ mu' = c
  /\ Goto(c, "notify")
  /\ MaySuspend(c)
  /\ UNCHANGED <<locks, registry, objVars, current, reqVars, known>>

\* Variant: connection_id and device_label are swapped in the LockEntry.
GrantLabel(c) ==
  /\ locks' = [locks EXCEPT ![tgt[c]] = Label[c]]
  /\ mu' = NoConn
  /\ Goto(c, "granted")
  /\ RunsOn(c)

Grant(c) ==
  /\ locks' = [locks EXCEPT ![tgt[c]] = c]
  /\ mu' = NoConn
  /\ Goto(c, "granted")
  /\ RunsOn(c)

Acquire(c) ==
  /\ pc[c] = "acquire"
  /\ Enter(c)
  /\ ~ HeldByOther(c)
  /\ Grant(c)
  /\ UNCHANGED <<registry, objVars, current, reqVars, known>>

\* The callback finds the holder displaying the session and awaits its stop().
Shows(c, s) == current[c] # NoInst /\ sidOf[current[c]] = s

\* Variant: the callback parks the session through _park_current, which wants
\* the mutex the takeover is holding.
RevokeParks(c) ==
  /\ At(c, "notify")
  /\ Shows(Owner(c), tgt[c])
  /\ aside' = [aside EXCEPT ![c] = current[Owner(c)]]
  /\ sid' = [sid EXCEPT ![c] = tgt[c]]
  /\ registry' = [registry EXCEPT ![tgt[c]] = current[Owner(c)]]
  /\ Goto(c, "release")
  /\ RunsOn(c)
  /\ UNCHANGED <<lockVars, objVars, current, tgt, mine, force, known>>

RevokeStop(c) ==
  /\ At(c, "notify")
  /\ Shows(Owner(c), tgt[c])
  /\ aside' = [aside EXCEPT ![c] = current[Owner(c)]]
  /\ st' = [st EXCEPT ![current[Owner(c)]] = "stopping"]
  /\ Goto(c, "revoke")
  /\ MaySuspend(c)
  /\ UNCHANGED <<lockVars, registry, idVars, send, current, tgt, mine, sid, force, known>>

\* The holder displays something else, or nothing yet: there is nothing to stop.
RevokeNothing(c) ==
  /\ At(c, "notify")
  /\ ~ Shows(Owner(c), tgt[c])
  /\ Grant(c)
  /\ UNCHANGED <<waiters, registry, objVars, current, reqVars, known>>

\* Variant: the holder keeps displaying the stopped session.
RevokeKeepsCurrent(c) ==
  /\ At(c, "revoke")
  /\ st' = [st EXCEPT ![aside[c]] = "gone"]
  /\ aside' = [aside EXCEPT ![c] = NoInst]
  /\ Grant(c)
  /\ UNCHANGED <<waiters, registry, idVars, send, current, tgt, mine, sid, force, known>>

RevokeDone(c) ==
  /\ At(c, "revoke")
  /\ st' = [st EXCEPT ![aside[c]] = "gone"]
  /\ own' = own \ {aside[c]}
  /\ current' = [current EXCEPT ![Owner(c)] = NoInst]
  /\ aside' = [aside EXCEPT ![c] = NoInst]
  /\ Grant(c)
  /\ UNCHANGED <<waiters, registry, sidOf, send, tgt, mine, sid, force, known>>
-----------------------------------------------------------------------------
(***************************************************************************)
(* After the lock: SessionManager._park_current, then attach or start.     *)
(***************************************************************************)
\* Variant: the session is let go without being parked.
ParkNowhere(c) ==
  /\ At(c, "granted")
  /\ current[c] # NoInst
  /\ aside' = [aside EXCEPT ![c] = current[c]]
  /\ sid' = [sid EXCEPT ![c] = sidOf[current[c]]]
  /\ Goto(c, "release")
  /\ RunsOn(c)
  /\ UNCHANGED <<lockVars, registry, objVars, current, tgt, mine, force, known>>

\* registry.park with the live send: the old entry, if any, is overwritten.
Park(c) ==
  /\ At(c, "granted")
  /\ current[c] # NoInst
  /\ registry' = [registry EXCEPT ![sidOf[current[c]]] = current[c]]
  /\ send' = [send EXCEPT ![current[c]] = c]
  /\ aside' = [aside EXCEPT ![c] = current[c]]
  /\ sid' = [sid EXCEPT ![c] = sidOf[current[c]]]
  /\ Goto(c, "release")
  /\ RunsOn(c)
  /\ UNCHANGED <<lockVars, idVars, st, current, tgt, mine, force, known>>

\* Variant: the entry is deleted whoever owns it.
ReleaseAnyones(c) ==
  /\ pc[c] = "release"
  /\ Enter(c)
  /\ locks' = [locks EXCEPT ![sid[c]] = NoConn]
  /\ current' = [current EXCEPT ![c] = NoInst]
  /\ aside' = [aside EXCEPT ![c] = NoInst]
  /\ sid' = [sid EXCEPT ![c] = NoSid]
  /\ Goto(c, "granted")
  /\ RunsOn(c)
  /\ UNCHANGED <<mu, registry, objVars, tgt, mine, force, known>>

\* LockManager.release drops the lock only if this connection still owns it.
Release(c) ==
  /\ pc[c] = "release"
  /\ Enter(c)
  /\ locks' = [locks EXCEPT ![sid[c]] = IF @ = c THEN NoConn ELSE @]
  /\ current' = [current EXCEPT ![c] = NoInst]
  /\ aside' = [aside EXCEPT ![c] = NoInst]
  /\ sid' = [sid EXCEPT ![c] = NoSid]
  /\ Goto(c, "granted")
  /\ RunsOn(c)
  /\ UNCHANGED <<mu, registry, objVars, tgt, mine, force, known>>

IsNew(i) == i # NoInst /\ st[i] = "new"

StartNew(c) ==
  /\ At(c, "granted")
  /\ current[c] = NoInst
  /\ IsNew(mine[c])
  /\ st' = [st EXCEPT ![mine[c]] = "starting"]
  /\ Goto(c, "starting")
  /\ MaySuspend(c)
  /\ UNCHANGED <<lockVars, registry, idVars, send, current, reqVars, known>>

\* The slow path of resume_session: a second SDK process reads the transcript.
StartResumed(c, i) ==
  /\ At(c, "granted")
  /\ current[c] = NoInst
  /\ mine[c] = NoInst
  /\ Free(i)
  /\ sidOf' = [sidOf EXCEPT ![i] = tgt[c]]
  /\ own' = own \ {i}
  /\ st' = [st EXCEPT ![i] = "starting"]
  /\ send' = [send EXCEPT ![i] = c]
  /\ mine' = [mine EXCEPT ![c] = i]
  /\ Goto(c, "starting")
  /\ MaySuspend(c)
  /\ UNCHANGED <<lockVars, registry, current, tgt, aside, sid, force, known>>

\* A Session that made its id up takes the one the SDK chose for the conversation:
\* nobody has seen it, and the lock stays with the old one.
Adopt(i, s) ==
  /\ i \in own
  /\ FreshSid(s)
  /\ sidOf' = [sidOf EXCEPT ![i] = s]
  /\ own' = own \ {i}
  /\ known' = known \cup {s}

\* It does in start(), which then tells the client (Codex, Copilot).
StartAdopts(c, s) ==
  /\ At(c, "starting")
  /\ "starting" \in Adopts
  /\ Adopt(mine[c], s)
  /\ MaySuspend(c)
  /\ UNCHANGED <<lockVars, registry, st, send, current, pc, reqVars>>

\* Or with the first result, on a screen or parked (Windows).
ResultAdopts(i, s) ==
  /\ running = NoConn
  /\ "live" \in Adopts
  /\ st[i] = "live"
  /\ Adopt(i, s)
  /\ UNCHANGED <<lockVars, running, registry, st, send, current, pc, reqVars>>

Started(c) ==
  /\ At(c, "starting")
  /\ st' = [st EXCEPT ![mine[c]] = "live"]
  /\ current' = [current EXCEPT ![c] = mine[c]]
  /\ known' = known \cup {sidOf[mine[c]]}
  /\ Return(c)
  /\ UNCHANGED <<lockVars, registry, idVars, send, aside, sid>>

\* session.start() raises: the dispatcher reports the error, the lock stays.
StartFails(c) ==
  /\ At(c, "starting")
  /\ st' = [st EXCEPT ![mine[c]] = "gone"]
  /\ own' = own \ {mine[c]}
  /\ Return(c)
  /\ UNCHANGED <<lockVars, registry, sidOf, send, current, aside, sid, known>>

\* Variant: the parked Session is not rebound to the new socket.
ReattachMuted(c) ==
  /\ At(c, "granted")
  /\ current[c] = NoInst
  /\ mine[c] # NoInst /\ ~ IsNew(mine[c])
  /\ Goto(c, "reattach")
  /\ MaySuspend(c)
  /\ UNCHANGED <<lockVars, registry, objVars, current, reqVars, known>>

\* The fast path rebinds the parked Session and re-applies model and effort,
\* each of which may suspend.
Reattach(c) ==
  /\ At(c, "granted")
  /\ current[c] = NoInst
  /\ mine[c] # NoInst /\ ~ IsNew(mine[c])
  /\ send' = [send EXCEPT ![mine[c]] = c]
  /\ Goto(c, "reattach")
  /\ MaySuspend(c)
  /\ UNCHANGED <<lockVars, registry, idVars, st, current, reqVars, known>>

Reattached(c) ==
  /\ At(c, "reattach")
  /\ current' = [current EXCEPT ![c] = mine[c]]
  /\ Return(c)
  /\ UNCHANGED <<lockVars, registry, objVars, aside, sid, known>>
-----------------------------------------------------------------------------
(***************************************************************************)
(* SessionManager.stop, from the finally block of the message loop: the    *)
(* socket closed or nothing arrived for HEARTBEAT_TIMEOUT seconds.         *)
(***************************************************************************)
\* Variant: stop() returns early when no session is displayed.
DisconnectEarly(c) ==
  /\ At(c, "idle")
  /\ IF current[c] = NoInst
     THEN Goto(c, "closed") /\ Suspends /\ UNCHANGED <<registry, send>>
     ELSE /\ registry' = [registry EXCEPT ![sidOf[current[c]]] = current[c]]
          /\ send' = [send EXCEPT ![current[c]] = NoConn]
          /\ Goto(c, "leave")
          /\ RunsOn(c)
  /\ current' = [current EXCEPT ![c] = NoInst]
  /\ UNCHANGED <<lockVars, idVars, st, reqVars, known>>

Disconnect(c) ==
  /\ At(c, "idle")
  /\ IF current[c] = NoInst
     THEN UNCHANGED <<registry, send>>
     ELSE /\ registry' = [registry EXCEPT ![sidOf[current[c]]] = current[c]]
          /\ send' = [send EXCEPT ![current[c]] = NoConn]
  /\ current' = [current EXCEPT ![c] = NoInst]
  /\ Goto(c, "leave")
  /\ RunsOn(c)
  /\ UNCHANGED <<lockVars, idVars, st, reqVars, known>>

\* LockManager.release_all_by_connection, then ConnectionManager.disconnect: what
\* is sent to the connection from now on goes nowhere.
ReleaseAll(c) ==
  /\ pc[c] = "leave"
  /\ Enter(c)
  /\ locks' = [s \in Sids |-> IF locks[s] = c THEN NoConn ELSE locks[s]]
  /\ send' = [i \in Instances |-> IF send[i] = c THEN NoConn ELSE send[i]]
  /\ Goto(c, "closed")
  /\ Suspends
  /\ UNCHANGED <<mu, registry, idVars, st, current, reqVars, known>>

(***************************************************************************)
(* SessionRegistry._expire: the entry leaves the registry, then the timer  *)
(* task awaits the Session's stop().                                       *)
(***************************************************************************)
Expire(s) ==
  /\ running = NoConn
  /\ registry[s] # NoInst
  /\ registry' = [registry EXCEPT ![s] = NoInst]
  /\ st' = [st EXCEPT ![registry[s]] = IF @ = "live" THEN "expiring" ELSE @]
  /\ UNCHANGED <<lockVars, running, idVars, send, current, pc, reqVars, known>>

Expired(i) ==
  /\ running = NoConn
  /\ st[i] = "expiring"
  /\ st' = [st EXCEPT ![i] = "gone"]
  /\ own' = own \ {i}
  /\ UNCHANGED <<lockVars, running, registry, sidOf, send, current, pc, reqVars, known>>
-----------------------------------------------------------------------------
\* What a task does on its own, once a request or a disconnect set it going.
Step(c) ==
  \/ Queue(c) \/ Refuse(c) \/ Notify(c) \/ Acquire(c)
  \/ RevokeStop(c) \/ RevokeNothing(c) \/ RevokeDone(c)
  \/ Park(c) \/ Release(c)
  \/ StartNew(c) \/ (\E i \in Instances : StartResumed(c, i))
  \/ (\E s \in Sids : StartAdopts(c, s)) \/ Started(c) \/ StartFails(c)
  \/ Reattach(c) \/ Reattached(c)
  \/ ReleaseAll(c)

Request(c) ==
  \/ Connect(c)
  \/ \E s \in Sids, i \in Instances : NewSession(c, s, i)
  \/ \E s \in Sids, f \in BOOLEAN : ResumeSession(c, s, f)
  \/ Disconnect(c)

Next ==
  \/ \E c \in Conns : Request(c) \/ Step(c)
  \/ \E s \in Sids : Expire(s)
  \/ \E i \in Instances : Expired(i)
  \/ \E i \in Instances, s \in Sids : ResultAdopts(i, s)

Spec == Init /\ [][Next]_vars

\* The event loop's ready queue is first in, first out: a task that keeps being
\* ready is run, though others run in between (strong fairness).  SDK starts and
\* stops and socket writes come back.  Nothing makes a client send a request or a
\* timer fire.
Fairness ==
  /\ \A c \in Conns : SF_vars(Step(c))
  /\ \A i \in Instances : SF_vars(Expired(i))

FairSpec == Spec /\ Fairness
-----------------------------------------------------------------------------
(***************************************************************************)
(* What holds whatever the clients do.                                     *)
(***************************************************************************)
\* While a takeover stops the holder's session inside the lock's mutex
\* (manager.py _on_revoked: `await self._current.stop()`, then `self._current =
\* None`), the holder cannot have attached another one: what the final
\* assignment drops is the session that was stopped.
RevokeDropsStopped ==
  \A c \in Conns :
    pc[c] = "revoke" => HeldByOther(c) /\ current[Owner(c)] \in {aside[c], NoInst}

\* release_all_by_connection leaves nothing behind: a closed connection owns no
\* lock, though its requests may have failed half way with the lock in hand.
LockOwnerOpen == \A s \in Sids, c \in Conns : locks[s] = c => pc[c] # "closed"

\* A session on a client's screen streams to that client, and to no other: it
\* is never left muted by a park that lost a race with the reattach.
ViewerGetsStream ==
  \A c \in Conns :
    current[c] # NoInst /\ pc[c] # "release" => send[current[c]] = c

\* A connection loses a lock only by a step of its own that gives it up, or to a
\* connection that forces it or carries the same device label, and then only after
\* its revoke callback ran: a release that waited for the mutex while the lock was
\* taken over leaves the new owner's lock alone.
LockLostProperly ==
  [][\A s \in Sids, d \in Conns :
       locks[s] = d /\ locks'[s] # d =>
         \/ /\ locks'[s] = NoConn
            /\ pc[d] \in {"release", "leave"} /\ pc'[d] # pc[d]
         \/ \E c \in Conns :
              /\ locks'[s] = c /\ tgt[c] = s
              /\ force[c] \/ Label[c] = Label[d]
              /\ pc[c] \in {"notify", "revoke"}]_vars

\* Every request a connection makes comes to an end: nobody waits for ever on
\* the lock's mutex, which is held across the awaits of a revoke callback.
RequestsComplete ==
  \A c \in Conns :
    pc[c] \notin {"idle", "closed"} ~> pc[c] \in {"idle", "closed"}

\* The lock table implements the lock service of SessionLocks.
Locks == INSTANCE SessionLocks WITH
           owner <- locks,
           claimant <- mu,
           claimed <- IF mu = NoConn THEN NoSid ELSE tgt[mu]
ImplementsLocks == Locks!FairSpec
-----------------------------------------------------------------------------
(***************************************************************************)
(* What holds where Sessions keep their ids (Adopts = {}: the Claude       *)
(* worker), when takeovers find the holder at rest.  Orderly restricts the *)
(* environment, not the program: no client resumes the session it already  *)
(* displays, and a takeover begins when the holder has no request in       *)
(* progress and ends before the holder makes another or disconnects.       *)
(* In the other workers a Session leaves its lock behind with the id it    *)
(* made up, and none of the three holds.                                   *)
(***************************************************************************)
NoOwnResume ==
  \A c \in Conns : pc[c] = "idle" /\ tgt'[c] # NoSid => ~ Shows(c, tgt'[c])
HolderAtRest ==
  \A c \in Conns :
    /\ pc[c] = "acquire" /\ pc'[c] = "notify" => pc[Owner(c)] = "idle"
    /\ pc[c] \in {"notify", "revoke"} => pc'[Owner(c)] = pc[Owner(c)]
Orderly == NoOwnResume /\ HolderAtRest

OrderlySpec == Init /\ [][Next /\ Orderly]_vars

Alive(i) == st[i] \in {"starting", "live"}

\* "They protect against two clients editing the same conversation
\* simultaneously" (locks/manager.py): a session id never has two Sessions, that
\* is two SDK processes appending to one transcript.
OneSessionPerId ==
  \A i, j \in Instances : Alive(i) /\ Alive(j) /\ sidOf[i] = sidOf[j] => i = j

\* "Held by the WS connection that most recently called new_session /
\* resume_session" (README): whoever displays a session owns its lock.
ViewerOwnsLock ==
  \A c \in Conns : current[c] # NoInst => locks[sidOf[current[c]]] = c

\* Every running SDK process can be reached again: displayed, parked under its
\* own id, or in the hands of a request; never leaked.
NoOrphan ==
  \A i \in Instances :
    Alive(i) => \/ registry[sidOf[i]] = i
                \/ \E c \in Conns : i \in {current[c], mine[c]}
-----------------------------------------------------------------------------
(***************************************************************************)
(* What the repository's text says and the program does not do.            *)
(***************************************************************************)
\* Clients that never resume what they already display.
AttentiveSpec == Init /\ [][Next /\ NoOwnResume]_vars
=============================================================================
