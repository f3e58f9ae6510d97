------------------------- MODULE SessionOrderProofs -------------------------
(***************************************************************************)
(* Proof that, in a worker whose Sessions keep their ids (Adopts = {}, the *)
(* Claude worker), when takeovers find the holder at rest and nobody       *)
(* resumes what it displays (OrderlySpec), a session id has one SDK        *)
(* process at most, whoever displays it owns its lock, and no process is   *)
(* leaked.  Where ids change none of it holds (SM_ids.cfg).  The           *)
(* argument is about a session that is on its way from one screen to the   *)
(* next: its lock is free, or will be given up before the request that     *)
(* took the session gets the mutex, because the mutex is handed on in the  *)
(* order in which it was asked for.                                        *)
(***************************************************************************)
EXTENDS SessionStreamProofs

\* A task that wants the mutex and is not running waits for it, once.
QueueInv ==
  /\ \A c \in Conns :
       pc[c] \in {"acquire", "release", "leave"} /\ running # c =>
         \E k \in 1 .. Len(waiters) : waiters[k] = c
  /\ \A k \in 1 .. Len(waiters) :
       /\ pc[waiters[k]] \in {"acquire", "release", "leave"}
       /\ running # waiters[k]
       /\ \A j \in 1 .. Len(waiters) : waiters[j] = waiters[k] => j = k

\* c will have the mutex before d, which asks for it later if it has not yet.
Ahead(c, d) ==
  \E j \in 1 .. Len(waiters) :
    waiters[j] = c /\ \A k \in 1 .. Len(waiters) : waiters[k] = d => j < k

\* A request past its lock's acquisition owns the lock; what the connection still
\* shows is another session.
HoldInv ==
  \A c \in Conns :
    /\ pc[c] \in {"granted", "release", "starting", "reattach"} => locks[tgt[c]] = c
    /\ pc[c] \in {"acquire", "notify", "revoke", "granted", "release"} /\ current[c] # NoInst =>
         sidOf[current[c]] # tgt[c]
    /\ pc[c] = "release" =>
         current[c] # NoInst /\ aside[c] = current[c] /\ sid[c] = sidOf[current[c]]

\* A Session is parked, and taken, under its own id, which some client knows once it
\* started.
PlaceInv ==
  /\ \A s \in Sids : registry[s] # NoInst => sidOf[registry[s]] = s /\ s \in known
  /\ \A c \in Conns :
       mine[c] # NoInst =>
         sidOf[mine[c]] = tgt[c] /\ (st[mine[c]] = "live" => tgt[c] \in known)
  /\ \A c \in Conns : current[c] # NoInst => sidOf[current[c]] \in known

\* The holder rests while its session is taken over.
RestInv ==
  \A c \in Conns :
    /\ pc[c] \in {"notify", "revoke"} => pc[Owner(c)] = "idle" /\ mine[c] = NoInst
    /\ pc[c] = "revoke" => aside[c] = current[Owner(c)]

\* What is parked runs, and so does what is shown, unless it is being stopped for
\* a takeover; what is being let go was parked, and perhaps taken since.
LifeInv ==
  /\ \A s \in Sids : registry[s] # NoInst => st[registry[s]] = "live"
  /\ \A c \in Conns :
       mine[c] # NoInst =>
         st[mine[c]] \in IF pc[c] = "starting" THEN {"starting"} ELSE {"new", "live"}
  /\ \A c \in Conns :
       current[c] # NoInst =>
         IF pc[c] = "release"
         THEN Alive(current[c]) => \/ registry[sidOf[current[c]]] = current[c]
                                   \/ \E d \in Conns : mine[d] = current[c]
         ELSE \/ st[current[c]] = "live"
              \/ \E d \in Conns : pc[d] = "revoke" /\ aside[d] = current[c]

\* h is about to give the lock of s up.
GivesUp(h, s) == pc[h] = "leave" \/ (pc[h] = "release" /\ sid[h] = s)

\* The lock of a parked session is free or about to be; who asked for that lock
\* before will find it taken.
ParkLockInv ==
  \A s \in Sids :
    registry[s] # NoInst =>
      /\ locks[s] # NoConn => GivesUp(locks[s], s)
      /\ \A e \in Conns :
           pc[e] = "acquire" /\ tgt[e] = s => locks[s] # NoConn /\ Ahead(e, locks[s])

\* The same of a session that was taken, until its lock is acquired: the lock is
\* given up before, and nobody gets it in between.
TakeLockInv ==
  \A d \in Conns :
    pc[d] = "acquire" /\ mine[d] # NoInst =>
      /\ locks[tgt[d]] # NoConn => GivesUp(locks[tgt[d]], tgt[d]) /\ Ahead(locks[tgt[d]], d)
      /\ \A e \in Conns \ {d} :
           pc[e] = "acquire" /\ tgt[e] = tgt[d] /\ Ahead(e, d) =>
             locks[tgt[d]] # NoConn /\ Ahead(e, locks[tgt[d]])

OrderInv ==
  /\ QueueInv
  /\ HoldInv
  /\ PlaceInv
  /\ RestInv
  /\ LifeInv
  /\ ParkLockInv
  /\ TakeLockInv
  /\ ViewerOwnsLock
  /\ OneSessionPerId
  /\ NoOrphan
-----------------------------------------------------------------------------
\* A step that leaves the queue alone leaves the order alone.
LEMMA AheadKept ==
  ASSUME waiters' = waiters
  PROVE  \A d, e \in Conns : Ahead(d, e)' <=> Ahead(d, e)
  BY DEF Ahead

\* Whoever gets the mutex was ahead of everybody else who wants it, and the order
\* of the others is what it was.
LEMMA EnterAhead ==
  ASSUME QueueInv, waiters \in Seq(Conns), NEW c \in Conns, Enter(c)
  PROVE  /\ \A e \in Conns : ~ Ahead(e, c)
         /\ \A d \in Conns \ {c} : pc[d] \in {"acquire", "release", "leave"} => Ahead(c, d)
         /\ \A d, e \in Conns \ {c} : Ahead(e, d)' <=> Ahead(e, d)
         /\ \A d \in Conns \ {c} : ~ Ahead(c, d)'
         /\ \A k \in 1 .. Len(waiters') : waiters'[k] \in Conns \ {c}
<1>1. CASE waiters = <<>>
  BY <1>1 DEF Enter, QueueInv, Ahead
<1>2. CASE waiters # <<>>
  <2>1. /\ Len(waiters) \in Nat \ {0} /\ waiters[1] = c /\ running = NoConn
        /\ Len(waiters') = Len(waiters) - 1
        /\ \A k \in 1 .. Len(waiters) - 1 : waiters'[k] = waiters[k + 1]
    BY <1>2, HeadTailProperties, EmptySeq DEF Enter
  <2>2. \A k \in 1 .. Len(waiters') : k + 1 \in 1 .. Len(waiters) /\ waiters'[k] = waiters[k + 1]
    BY <2>1
  <2>3. \A k \in 1 .. Len(waiters) : k # 1 => k - 1 \in 1 .. Len(waiters') /\ waiters'[k - 1] = waiters[k]
    BY <2>1
  <2>4. \A k \in 1 .. Len(waiters) : waiters[k] = c => k = 1
    BY <2>1 DEF QueueInv
  <2>5. \A e \in Conns : ~ Ahead(e, c)
    BY <2>1, <2>4 DEF Ahead
  <2>6. \A d \in Conns \ {c} : Ahead(c, d)
    BY <2>1, <2>4 DEF Ahead
  <2>7. ASSUME NEW k \in 1 .. Len(waiters')  PROVE waiters'[k] \in Conns \ {c}
    BY <2>2, <2>4, ElementOfSeq
  <2>8. ASSUME NEW d \in Conns \ {c}, NEW e \in Conns \ {c}, Ahead(e, d)
        PROVE  Ahead(e, d)'
    <3>1. PICK j \in 1 .. Len(waiters) :
            waiters[j] = e /\ \A k \in 1 .. Len(waiters) : waiters[k] = d => j < k
      BY <2>8 DEF Ahead
    <3>2. j # 1 /\ j - 1 \in 1 .. Len(waiters') /\ waiters'[j - 1] = e
      BY <3>1, <2>1, <2>3
    <3>3. \A k \in 1 .. Len(waiters') : waiters'[k] = d => j - 1 < k
      BY <3>1, <2>1, <2>2
    <3> QED  BY <3>2, <3>3 DEF Ahead
  <2>9. ASSUME NEW d \in Conns \ {c}, NEW e \in Conns \ {c}, Ahead(e, d)'
        PROVE  Ahead(e, d)
    <3>1. PICK j \in 1 .. Len(waiters') :
            waiters'[j] = e /\ \A k \in 1 .. Len(waiters') : waiters'[k] = d => j < k
      BY <2>9 DEF Ahead
    <3>2. j + 1 \in 1 .. Len(waiters) /\ waiters[j + 1] = e
      BY <3>1, <2>2
    <3>3. \A k \in 1 .. Len(waiters) : waiters[k] = d => j + 1 < k
      BY <3>1, <2>1, <2>3
    <3> QED  BY <3>2, <3>3 DEF Ahead
  <2>10. \A d \in Conns \ {c} : ~ Ahead(c, d)'
    BY <2>7 DEF Ahead
  <2> QED  BY <2>5, <2>6, <2>7, <2>8, <2>9, <2>10
<1> QED  BY <1>1, <1>2

\* Whoever queues is behind everybody who wants the mutex already.
LEMMA QueueAhead ==
  ASSUME QueueInv, waiters \in Seq(Conns), NEW c \in Conns, Queue(c)
  PROVE  /\ \A d, e \in Conns : Ahead(e, d) => Ahead(e, d)'
         /\ \A d \in Conns, e \in Conns \ {c} : Ahead(e, d)' => Ahead(e, d)
         /\ \A d \in Conns : pc[d] \in {"acquire", "release", "leave"} => ~ Ahead(c, d)'
  BY AppendProperties DEF Queue, QueueInv, Ahead

\* A task that does not want the mutex is ahead of nobody and behind all who wait.
LEMMA IdleAhead ==
  ASSUME QueueInv, waiters \in Seq(Conns), NEW c \in Conns, running \in {c, NoConn},
         pc[c] \notin {"acquire", "release", "leave"}
  PROVE  \A d \in Conns \ {c} :
           /\ ~ Ahead(c, d)
           /\ pc[d] \in {"acquire", "release", "leave"} => Ahead(d, c)
<1>1. \A k \in 1 .. Len(waiters) : waiters[k] # c
  BY DEF QueueInv
<1>2. \A d \in Conns \ {c} : running # d
  BY SessionAssumption
<1> QED  BY <1>1, <1>2 DEF QueueInv, Ahead

\* The queue stays one when its head gets the mutex.
LEMMA EnterQueue ==
  ASSUME QueueInv, waiters \in Seq(Conns), NEW c \in Conns, Enter(c), running' \in {c, NoConn},
         \A d \in Conns \ {c} : pc'[d] = pc[d],
         pc'[c] \notin {"acquire", "release", "leave"}
  PROVE  QueueInv'
<1>1. CASE waiters = <<>>
  BY <1>1 DEF Enter, QueueInv
<1>2. CASE waiters # <<>>
  <2>1. /\ Len(waiters) \in Nat \ {0} /\ waiters[1] = c /\ running = NoConn
        /\ Len(waiters') = Len(waiters) - 1
        /\ \A k \in 1 .. Len(waiters) - 1 : waiters'[k] = waiters[k + 1]
    BY <1>2, HeadTailProperties, EmptySeq DEF Enter
  <2>2. \A k \in 1 .. Len(waiters') :
          k + 1 \in 1 .. Len(waiters) /\ waiters'[k] = waiters[k + 1] /\ waiters[k + 1] \in Conns \ {c}
    BY <2>1, ElementOfSeq DEF QueueInv
  <2>3. \A k \in 1 .. Len(waiters) : k # 1 => k - 1 \in 1 .. Len(waiters') /\ waiters'[k - 1] = waiters[k]
    BY <2>1
  <2>4. ASSUME NEW d \in Conns, pc'[d] \in {"acquire", "release", "leave"}
        PROVE  \E k \in 1 .. Len(waiters') : waiters'[k] = d
    <3>1. d # c /\ pc'[d] = pc[d] /\ running # d
      BY <2>4, <2>1, SessionAssumption
    <3>2. PICK k \in 1 .. Len(waiters) : waiters[k] = d
      BY <3>1, <2>4 DEF QueueInv
    <3> QED  BY <3>1, <3>2, <2>1, <2>3
  <2>5. ASSUME NEW k \in 1 .. Len(waiters')
        PROVE  /\ pc'[waiters'[k]] \in {"acquire", "release", "leave"}
               /\ running' # waiters'[k]
    BY <2>2, SessionAssumption DEF QueueInv
  <2>6. ASSUME NEW j \in 1 .. Len(waiters'), NEW k \in 1 .. Len(waiters'),
               waiters'[j] = waiters'[k]
        PROVE  j = k
    <3>1. j + 1 = k + 1
      BY <2>2, <2>6 DEF QueueInv
    <3> QED  BY <3>1
  <2> QED  BY <2>4, <2>5, <2>6 DEF QueueInv
<1> QED  BY <1>1, <1>2

\* And when a task joins it.
LEMMA QueueQueue ==
  ASSUME QueueInv, waiters \in Seq(Conns), NEW c \in Conns, Queue(c)
  PROVE  QueueInv'
<1>1. /\ Len(waiters) \in Nat /\ Len(waiters') = Len(waiters) + 1
      /\ waiters'[Len(waiters) + 1] = c
      /\ \A k \in 1 .. Len(waiters) : waiters'[k] = waiters[k]
  BY AppendProperties DEF Queue
<1>2. /\ running = c /\ running' = NoConn /\ pc' = pc
      /\ pc[c] \in {"acquire", "release", "leave"}
  BY DEF Queue, Suspends
<1>3. \A k \in 1 .. Len(waiters) : waiters[k] \in Conns \ {c}
  BY <1>2, ElementOfSeq DEF QueueInv
<1>4. \A k \in 1 .. Len(waiters') :
        \/ k \in 1 .. Len(waiters) /\ waiters'[k] = waiters[k]
        \/ k = Len(waiters) + 1 /\ waiters'[k] = c
  BY <1>1
<1>5. ASSUME NEW d \in Conns, pc'[d] \in {"acquire", "release", "leave"}
      PROVE  \E k \in 1 .. Len(waiters') : waiters'[k] = d
  BY <1>1, <1>2, <1>5 DEF QueueInv
<1>6. \A k \in 1 .. Len(waiters') :
        pc'[waiters'[k]] \in {"acquire", "release", "leave"} /\ running' # waiters'[k]
  BY <1>2, <1>3, <1>4, SessionAssumption DEF QueueInv
<1>7. \A j, k \in 1 .. Len(waiters') : waiters'[j] = waiters'[k] => j = k
  BY <1>3, <1>4 DEF QueueInv
<1> QED  BY <1>5, <1>6, <1>7 DEF QueueInv

\* And when another task goes on, perhaps to the point where it asks for the mutex.
LEMMA RunQueue ==
  ASSUME QueueInv, waiters \in Seq(Conns), waiters' = waiters, NEW c \in Conns,
         running \in {c, NoConn}, running' \in {c, NoConn},
         pc[c] \notin {"acquire", "release", "leave"},
         \A d \in Conns \ {c} : pc'[d] = pc[d],
         pc'[c] \in {"acquire", "release", "leave"} => running' = c
  PROVE  QueueInv'
<1>1. \A k \in 1 .. Len(waiters) : waiters[k] \in Conns \ {c}
  BY ElementOfSeq DEF QueueInv
<1> QED  BY <1>1, SessionAssumption DEF QueueInv

\* Every step keeps OrderInv.
LEMMA NextOrderInv ==
  ASSUME Adopts = {}, LockInv, NamedInv, StreamInv, OrderInv, Next, Orderly
  PROVE  OrderInv'
<1> USE SessionAssumption DEF LockInv, TypeOK, MuInv, TargetInv, ClaimInv, AttachInv, RevokeInv, LockOwnerOpen,
       Life, Stage, lockVars, idVars, objVars, reqVars, At, Goto, RunsOn, Suspends, MaySuspend, Owner,
       HeldByOther, MuFree, Shows, IsNew, Return, Grant, StreamInv, ParkedInv,
       TakenInv, ShownInv, AttachedInv, NewInv, StartedInv, NewHeldInv, LeaveInv, ViewerGetsStream,
       OrderInv, HoldInv, PlaceInv, RestInv, LifeInv, GivesUp, ParkLockInv, TakeLockInv,
       ViewerOwnsLock, OneSessionPerId, NoOrphan, Alive, Orderly, NoOwnResume, HolderAtRest
<1>1. ASSUME NEW c \in Conns, Connect(c)
      PROVE  OrderInv'
  <2>1. QueueInv'
    BY <1>1, RunQueue DEF Connect
  <2>2. HoldInv' /\ PlaceInv' /\ RestInv' /\ LifeInv' /\ ParkLockInv'
        /\ TakeLockInv' /\ ViewerOwnsLock' /\ OneSessionPerId' /\ NoOrphan'
    BY <1>1, AheadKept DEF Connect
  <2> QED  BY <2>1, <2>2
<1>2. ASSUME NEW c \in Conns, NEW s \in Sids, NEW i \in Instances, NewSession(c, s, i)
      PROVE  OrderInv'
  <2>1. QueueInv'
    BY <1>2, RunQueue DEF NewSession, Free, Referenced, FreshSid
  <2>2. HoldInv' /\ PlaceInv' /\ RestInv' /\ LifeInv' /\ ParkLockInv'
        /\ TakeLockInv' /\ ViewerOwnsLock' /\ OneSessionPerId' /\ NoOrphan'
    BY <1>2, AheadKept DEF NewSession, Free, Referenced, FreshSid
  <2> QED  BY <2>1, <2>2
<1>3. ASSUME NEW c \in Conns, NEW s \in Sids, NEW f \in BOOLEAN, ResumeSession(c, s, f)
      PROVE  OrderInv'
  <2>1. QueueInv'
    BY <1>3, RunQueue DEF ResumeSession
  <2>2. HoldInv' /\ PlaceInv' /\ RestInv' /\ LifeInv' /\ ParkLockInv'
        /\ ViewerOwnsLock' /\ OneSessionPerId' /\ NoOrphan'
    BY <1>3, AheadKept DEF ResumeSession
  <2>3. TakeLockInv'
    <3>1. pc[c] = "idle" /\ running \in {c, NoConn} /\ waiters' = waiters
      BY <1>3 DEF ResumeSession
    <3>2. \A d \in Conns \ {c} :
            /\ ~ Ahead(c, d)
            /\ pc[d] \in {"acquire", "release", "leave"} => Ahead(d, c)
      BY <3>1, IdleAhead
    <3>3. \A d, e \in Conns : Ahead(d, e)' <=> Ahead(d, e)
      BY <3>1, AheadKept
    <3>4. \A d \in Conns \ {c} : pc'[d] = pc[d] /\ mine'[d] = mine[d] /\ tgt'[d] = tgt[d]
      BY <1>3 DEF ResumeSession
    <3>5. /\ pc'[c] = "acquire" /\ mine'[c] = registry[s] /\ tgt'[c] = s
          /\ locks' = locks /\ sidOf' = sidOf /\ sid' = sid
      BY <1>3 DEF ResumeSession
    <3>6. \A h \in Conns, t \in Sids : GivesUp(h, t) => h # c /\ GivesUp(h, t)'
      BY <3>1, <3>4, <3>5
    <3>7. ASSUME registry[s] # NoInst
          PROVE  /\ locks[s] # NoConn => GivesUp(locks[s], s) /\ Ahead(locks[s], c)
                 /\ \A e \in Conns \ {c} : pc[e] = "acquire" /\ tgt[e] = s /\ Ahead(e, c) =>
                      locks[s] # NoConn /\ Ahead(e, locks[s])
      BY <3>1, <3>2, <3>7
    <3> SUFFICES ASSUME NEW d \in Conns, pc'[d] = "acquire", mine'[d] # NoInst
                 PROVE  (/\ locks[tgt[d]] # NoConn =>
                              GivesUp(locks[tgt[d]], tgt[d]) /\ Ahead(locks[tgt[d]], d)
                         /\ \A e \in Conns \ {d} :
                              pc[e] = "acquire" /\ tgt[e] = tgt[d] /\ Ahead(e, d) =>
                                locks[tgt[d]] # NoConn /\ Ahead(e, locks[tgt[d]]))'
      OBVIOUS
    <3>8. CASE d = c
      <4>1. registry[s] # NoInst
        BY <3>5, <3>8
      <4> HIDE DEF GivesUp, TakeLockInv, ParkLockInv
      <4> QED  BY <4>1, <3>3, <3>4, <3>5, <3>6, <3>7, <3>8
    <3>9. CASE d # c
      <4>1. PICK t \in Sids : /\ tgt[d] = t /\ tgt'[d] = t
                              /\ pc[d] = "acquire" /\ mine[d] # NoInst
        BY <3>4, <3>9
      <4>2. /\ locks[t] # NoConn => GivesUp(locks[t], t) /\ Ahead(locks[t], d)
            /\ \A e \in Conns \ {d} : pc[e] = "acquire" /\ tgt[e] = t /\ Ahead(e, d) =>
                 locks[t] # NoConn /\ Ahead(e, locks[t])
        BY <4>1
      <4> HIDE DEF GivesUp, TakeLockInv, ParkLockInv
      <4> QED  BY <4>1, <4>2, <3>2, <3>3, <3>4, <3>5, <3>6, <3>9
    <3> QED  BY <3>8, <3>9
  <2> HIDE DEF QueueInv, HoldInv, PlaceInv, RestInv, LifeInv, ParkLockInv, TakeLockInv,
            ViewerOwnsLock, OneSessionPerId, NoOrphan
  <2> QED  BY <2>1, <2>2, <2>3
<1>4. ASSUME NEW c \in Conns, Queue(c)
      PROVE  OrderInv'
  <2>1. QueueInv'
    BY <1>4, QueueQueue DEF Queue
  <2>2. HoldInv' /\ PlaceInv' /\ RestInv' /\ LifeInv' /\ ParkLockInv'
        /\ TakeLockInv' /\ ViewerOwnsLock' /\ OneSessionPerId' /\ NoOrphan'
    BY <1>4, QueueAhead DEF Queue
  <2> QED  BY <2>1, <2>2
<1>5. ASSUME NEW c \in Conns, Refuse(c)
      PROVE  OrderInv'
  <2>1. QueueInv'
    BY <1>5, EnterQueue DEF Refuse
  <2>2. HoldInv' /\ PlaceInv' /\ RestInv' /\ LifeInv' /\ ParkLockInv'
        /\ TakeLockInv' /\ ViewerOwnsLock' /\ OneSessionPerId' /\ NoOrphan'
    BY <1>5, EnterType, EnterAhead DEF Refuse
  <2> QED  BY <2>1, <2>2
<1>6. ASSUME NEW c \in Conns, Notify(c)
      PROVE  OrderInv'
  <2>1. QueueInv'
    BY <1>6, EnterQueue DEF Notify
  <2>2. HoldInv' /\ PlaceInv' /\ RestInv' /\ LifeInv' /\ ParkLockInv'
        /\ TakeLockInv' /\ ViewerOwnsLock' /\ OneSessionPerId' /\ NoOrphan'
    BY <1>6, EnterType, EnterAhead DEF Notify
  <2> QED  BY <2>1, <2>2
<1>7. ASSUME NEW c \in Conns, Acquire(c)
      PROVE  OrderInv'
  <2>1. QueueInv'
    BY <1>7, EnterQueue DEF Acquire
  <2>2. HoldInv' /\ PlaceInv' /\ RestInv' /\ LifeInv' /\ ParkLockInv'
        /\ TakeLockInv' /\ ViewerOwnsLock' /\ OneSessionPerId' /\ NoOrphan'
    BY <1>7, EnterType, EnterAhead DEF Acquire
  <2> QED  BY <2>1, <2>2
<1>8. ASSUME NEW c \in Conns, RevokeStop(c)
      PROVE  OrderInv'
  <2>1. QueueInv'
    BY <1>8, RunQueue DEF RevokeStop
  <2>2. HoldInv' /\ PlaceInv' /\ RestInv' /\ LifeInv' /\ ParkLockInv'
        /\ TakeLockInv' /\ ViewerOwnsLock' /\ OneSessionPerId' /\ NoOrphan'
    BY <1>8, AheadKept DEF RevokeStop
  <2> QED  BY <2>1, <2>2
<1>9. ASSUME NEW c \in Conns, RevokeNothing(c)
      PROVE  OrderInv'
  <2>1. QueueInv'
    BY <1>9, RunQueue DEF RevokeNothing
  <2>2. HoldInv' /\ PlaceInv' /\ RestInv' /\ LifeInv' /\ ParkLockInv'
        /\ TakeLockInv' /\ ViewerOwnsLock' /\ OneSessionPerId' /\ NoOrphan'
    BY <1>9, AheadKept DEF RevokeNothing
  <2> QED  BY <2>1, <2>2
<1>10. ASSUME NEW c \in Conns, RevokeDone(c)
      PROVE  OrderInv'
  <2>1. QueueInv'
    BY <1>10, RunQueue DEF RevokeDone
  <2>2. HoldInv' /\ PlaceInv' /\ RestInv' /\ LifeInv' /\ ParkLockInv'
        /\ TakeLockInv' /\ ViewerOwnsLock' /\ OneSessionPerId' /\ NoOrphan'
    BY <1>10, AheadKept DEF RevokeDone
  <2> QED  BY <2>1, <2>2
<1>11. ASSUME NEW c \in Conns, Park(c)
      PROVE  OrderInv'
  <2>1. QueueInv'
    BY <1>11, RunQueue DEF Park
  <2>2. HoldInv' /\ PlaceInv' /\ RestInv' /\ TakeLockInv' /\ ViewerOwnsLock'
        /\ OneSessionPerId' /\ NoOrphan'
    BY <1>11, AheadKept DEF Park
  <2>3. LifeInv'
    <3>1. pc[c] = "granted" /\ current[c] # NoInst
      BY <1>11 DEF Park
    <3>2. ASSUME NEW d \in Conns, pc[d] = "revoke"  PROVE aside[d] # current[c]
      BY <3>1, <3>2
    <3>3. st[current[c]] = "live"
      BY <3>1, <3>2
    <3>4. ASSUME NEW d \in Conns \ {c}, current[d] # NoInst
          PROVE  sidOf[current[d]] # sidOf[current[c]]
      BY <3>1, <3>4
    <3> QED  BY <1>11, <3>1, <3>3, <3>4 DEF Park
  <2>4. ParkLockInv'
    <3>1. /\ pc[c] = "granted" /\ running \in {c, NoConn} /\ waiters' = waiters
          /\ locks' = locks /\ tgt' = tgt /\ sidOf' = sidOf
          /\ \A d \in Conns \ {c} : pc'[d] = pc[d] /\ sid'[d] = sid[d]
      BY <1>11 DEF Park
    <3>2. \A d \in Conns \ {c} : pc[d] = "acquire" => Ahead(d, c)
      BY <3>1, IdleAhead
    <3>3. \A d, e \in Conns : Ahead(d, e)' <=> Ahead(d, e)
      BY <3>1, AheadKept
    <3>4. \A h \in Conns, t \in Sids : GivesUp(h, t) => h # c /\ GivesUp(h, t)'
      BY <3>1
    <3>5. /\ current[c] # NoInst /\ pc'[c] = "release" /\ sid'[c] = sidOf[current[c]]
          /\ registry' = [registry EXCEPT ![sidOf[current[c]]] = current[c]]
          /\ locks[sidOf[current[c]]] = c
      BY <1>11 DEF Park
    <3>6. \A t \in Sids : t = sidOf[current[c]] => GivesUp(c, t)'
      BY <3>1, <3>5
    <3> HIDE DEF GivesUp
    <3> QED  BY <3>1, <3>2, <3>3, <3>4, <3>5, <3>6
  <2> HIDE DEF QueueInv, HoldInv, PlaceInv, RestInv, LifeInv, ParkLockInv, TakeLockInv,
            ViewerOwnsLock, OneSessionPerId, NoOrphan
  <2> QED  BY <2>1, <2>2, <2>3, <2>4
<1>12. ASSUME NEW c \in Conns, Release(c)
      PROVE  OrderInv'
  <2>1. QueueInv'
    BY <1>12, EnterQueue DEF Release
  <2>2. HoldInv' /\ PlaceInv' /\ RestInv'
    BY <1>12 DEF Release
  <2>5. LifeInv'
    BY <1>12 DEF Release
  <2>6. ParkLockInv'
    BY <1>12, EnterType, EnterAhead DEF Release
  <2>4. ViewerOwnsLock' /\ OneSessionPerId' /\ NoOrphan'
    BY <1>12 DEF Release
  <2>3. TakeLockInv'
    <3>1. /\ pc[c] = "release" /\ tgt' = tgt /\ sidOf' = sidOf /\ mine' = mine
          /\ pc'[c] = "granted"
          /\ \A d \in Conns \ {c} : pc'[d] = pc[d] /\ sid'[d] = sid[d]
          /\ \A t \in Sids : locks'[t] = IF t = sid[c] /\ locks[t] = c THEN NoConn ELSE locks[t]
      BY <1>12 DEF Release
    <3>2. /\ \A e \in Conns : ~ Ahead(e, c)
          /\ \A d, e \in Conns \ {c} : Ahead(e, d)' <=> Ahead(e, d)
      BY <1>12, EnterAhead DEF Release
    <3>3. \A h \in Conns \ {c}, t \in Sids : GivesUp(h, t)' <=> GivesUp(h, t)
      BY <3>1
    <3>4. \A t \in Sids : GivesUp(c, t) => t = sid[c]
      BY <3>1
    <3> SUFFICES ASSUME NEW d \in Conns, pc'[d] = "acquire", mine'[d] # NoInst
                 PROVE  (/\ locks[tgt[d]] # NoConn =>
                              GivesUp(locks[tgt[d]], tgt[d]) /\ Ahead(locks[tgt[d]], d)
                         /\ \A e \in Conns \ {d} :
                              pc[e] = "acquire" /\ tgt[e] = tgt[d] /\ Ahead(e, d) =>
                                locks[tgt[d]] # NoConn /\ Ahead(e, locks[tgt[d]]))'
      OBVIOUS
    <3>5. PICK t \in Sids : /\ tgt[d] = t /\ tgt'[d] = t
                            /\ d # c /\ pc[d] = "acquire" /\ mine[d] # NoInst
      BY <3>1
    <3>6. CASE locks[t] \in {c, NoConn}
      <4>1. locks'[t] = NoConn
        BY <3>1, <3>4, <3>5, <3>6
      <4>2. \A e \in Conns \ {d} : pc[e] = "acquire" /\ tgt[e] = t => ~ Ahead(e, d)
        BY <3>2, <3>5, <3>6
      <4> HIDE DEF GivesUp, TakeLockInv
      <4> QED  BY <3>1, <3>2, <3>5, <4>1, <4>2
    <3>7. CASE locks[t] \notin {c, NoConn}
      <4>1. PICK h \in Conns \ {c} : locks[t] = h /\ locks'[t] = h
        BY <3>1, <3>5, <3>7
      <4>2. GivesUp(h, t) /\ Ahead(h, d)
        BY <3>5, <4>1
      <4>3. \A e \in Conns \ {d} : pc[e] = "acquire" /\ tgt[e] = t /\ Ahead(e, d) => Ahead(e, h)
        BY <3>5, <4>1
      <4>4. \A e \in Conns : pc'[e] = "acquire" => e # c /\ pc[e] = "acquire" /\ tgt'[e] = tgt[e]
        BY <3>1
      <4> HIDE DEF GivesUp, TakeLockInv
      <4>5. GivesUp(h, t)' /\ Ahead(h, d)'
        BY <4>1, <4>2, <3>2, <3>3, <3>5
      <4> QED  BY <4>1, <4>3, <4>4, <4>5, <3>1, <3>2, <3>5
    <3> QED  BY <3>6, <3>7
  <2> HIDE DEF QueueInv, HoldInv, PlaceInv, RestInv, LifeInv, ParkLockInv, TakeLockInv,
            ViewerOwnsLock, OneSessionPerId, NoOrphan
  <2> QED  BY <2>1, <2>2, <2>3, <2>4, <2>5, <2>6
<1>13. ASSUME NEW c \in Conns, StartNew(c)
      PROVE  OrderInv'
  <2>1. QueueInv'
    BY <1>13, RunQueue DEF StartNew
  <2>2. HoldInv' /\ PlaceInv' /\ RestInv' /\ LifeInv' /\ ParkLockInv'
        /\ TakeLockInv' /\ ViewerOwnsLock' /\ NoOrphan'
    BY <1>13, AheadKept DEF StartNew
  <2>3. OneSessionPerId'
    <3>1. /\ pc[c] = "granted" /\ current[c] = NoInst /\ IsNew(mine[c])
          /\ locks[tgt[c]] = c /\ tgt[c] \in Sids
      BY <1>13 DEF StartNew
    <3>2. registry[tgt[c]] = NoInst
      BY <3>1
    <3>3. ASSUME NEW d \in Conns \ {c}, mine[d] # NoInst  PROVE tgt[d] # tgt[c]
      BY <3>1, <3>3
    <3>4. ASSUME NEW j \in Instances, Alive(j), sidOf[j] = tgt[c]  PROVE FALSE
      BY <3>1, <3>2, <3>3, <3>4
    <3> QED  BY <1>13, <3>1, <3>4 DEF StartNew
  <2> HIDE DEF QueueInv, HoldInv, PlaceInv, RestInv, LifeInv, ParkLockInv, TakeLockInv,
            ViewerOwnsLock, OneSessionPerId, NoOrphan
  <2> QED  BY <2>1, <2>2, <2>3
<1>14. ASSUME NEW c \in Conns, NEW i \in Instances, StartResumed(c, i)
      PROVE  OrderInv'
  <2>1. QueueInv'
    BY <1>14, RunQueue DEF StartResumed
  <2>2. HoldInv' /\ PlaceInv' /\ RestInv' /\ LifeInv' /\ ParkLockInv'
        /\ TakeLockInv' /\ ViewerOwnsLock' /\ NoOrphan'
    BY <1>14, AheadKept DEF StartResumed, Free, Referenced
  <2>3. OneSessionPerId'
    <3>1. /\ pc[c] = "granted" /\ current[c] = NoInst /\ mine[c] = NoInst
          /\ locks[tgt[c]] = c /\ tgt[c] \in Sids
      BY <1>14 DEF StartResumed
    <3>2. registry[tgt[c]] = NoInst
      BY <3>1
    <3>3. ASSUME NEW d \in Conns \ {c}, mine[d] # NoInst  PROVE tgt[d] # tgt[c]
      BY <3>1, <3>3
    <3>4. ASSUME NEW j \in Instances, Alive(j), sidOf[j] = tgt[c]  PROVE FALSE
      BY <3>1, <3>2, <3>3, <3>4
    <3> QED  BY <1>14, <3>1, <3>4 DEF StartResumed
  <2> HIDE DEF QueueInv, HoldInv, PlaceInv, RestInv, LifeInv, ParkLockInv, TakeLockInv,
            ViewerOwnsLock, OneSessionPerId, NoOrphan
  <2> QED  BY <2>1, <2>2, <2>3
<1>15. ASSUME NEW c \in Conns, Started(c)
      PROVE  OrderInv'
  <2>1. QueueInv'
    BY <1>15, RunQueue DEF Started
  <2>2. HoldInv' /\ PlaceInv' /\ RestInv' /\ LifeInv' /\ ParkLockInv'
        /\ TakeLockInv' /\ ViewerOwnsLock' /\ OneSessionPerId' /\ NoOrphan'
    BY <1>15, AheadKept DEF Started
  <2> QED  BY <2>1, <2>2
<1>16. ASSUME NEW c \in Conns, StartFails(c)
      PROVE  OrderInv'
  <2>1. QueueInv'
    BY <1>16, RunQueue DEF StartFails
  <2>2. HoldInv' /\ PlaceInv' /\ RestInv' /\ LifeInv' /\ ParkLockInv'
        /\ TakeLockInv' /\ ViewerOwnsLock' /\ OneSessionPerId' /\ NoOrphan'
    BY <1>16, AheadKept DEF StartFails
  <2> QED  BY <2>1, <2>2
<1>17. ASSUME NEW c \in Conns, Reattach(c)
      PROVE  OrderInv'
  <2>1. QueueInv'
    BY <1>17, RunQueue DEF Reattach
  <2>2. HoldInv' /\ PlaceInv' /\ RestInv' /\ LifeInv' /\ ParkLockInv'
        /\ TakeLockInv' /\ ViewerOwnsLock' /\ OneSessionPerId' /\ NoOrphan'
    BY <1>17, AheadKept DEF Reattach
  <2> QED  BY <2>1, <2>2
<1>18. ASSUME NEW c \in Conns, Reattached(c)
      PROVE  OrderInv'
  <2>1. QueueInv'
    BY <1>18, RunQueue DEF Reattached
  <2>2. HoldInv' /\ PlaceInv' /\ RestInv' /\ LifeInv' /\ ParkLockInv'
        /\ TakeLockInv' /\ ViewerOwnsLock' /\ OneSessionPerId' /\ NoOrphan'
    BY <1>18, AheadKept DEF Reattached
  <2> QED  BY <2>1, <2>2
<1>19. ASSUME NEW c \in Conns, Disconnect(c)
      PROVE  OrderInv'
  <2>1. QueueInv'
    BY <1>19, RunQueue DEF Disconnect
  <2>2. HoldInv' /\ PlaceInv' /\ RestInv' /\ TakeLockInv' /\ ViewerOwnsLock'
        /\ OneSessionPerId'
    BY <1>19, AheadKept DEF Disconnect
  <2>3. LifeInv'
    <3>1. pc[c] = "idle" /\ pc'[c] = "leave"
      BY <1>19 DEF Disconnect
    <3>2. ASSUME NEW d \in Conns, pc[d] = "revoke"  PROVE current[c] # NoInst => aside[d] # current[c]
      BY <3>1, <3>2
    <3>3. current[c] # NoInst => st[current[c]] = "live"
      BY <3>1, <3>2
    <3>4. ASSUME NEW d \in Conns \ {c}, current[d] # NoInst, current[c] # NoInst
          PROVE  sidOf[current[d]] # sidOf[current[c]]
      BY <3>1, <3>4
    <3>5. CASE current[c] = NoInst
      BY <1>19, <3>1, <3>5 DEF Disconnect
    <3>6. CASE current[c] # NoInst
      <4>1. /\ st' = st /\ mine' = mine /\ sidOf' = sidOf /\ aside' = aside
            /\ registry' = [registry EXCEPT ![sidOf[current[c]]] = current[c]]
            /\ current' = [current EXCEPT ![c] = NoInst]
            /\ pc' = [pc EXCEPT ![c] = "leave"]
        BY <1>19, <3>6 DEF Disconnect
      <4>2. sidOf[current[c]] \in Sids
        BY <3>6
      <4>3. \A s \in Sids : registry'[s] # NoInst => st'[registry'[s]] = "live"
        BY <3>3, <3>6, <4>1, <4>2
      <4>4. ASSUME NEW d \in Conns, mine[d] # NoInst
            PROVE  st[mine[d]] \in IF pc'[d] = "starting" THEN {"starting"} ELSE {"new", "live"}
        BY <3>1, <4>1, <4>4
      <4>5. ASSUME NEW d \in Conns \ {c}, current[d] # NoInst
            PROVE  IF pc[d] = "release"
                   THEN Alive(current[d]) => \/ registry'[sidOf[current[d]]] = current[d]
                                             \/ \E e \in Conns : mine[e] = current[d]
                   ELSE \/ st[current[d]] = "live"
                        \/ \E e \in Conns : pc'[e] = "revoke" /\ aside[e] = current[d]
        <5>1. registry'[sidOf[current[d]]] = registry[sidOf[current[d]]]
          BY <3>4, <3>6, <4>1, <4>2, <4>5
        <5>2. \A e \in Conns : pc[e] = "revoke" => pc'[e] = "revoke"
          BY <3>1, <4>1
        <5> QED  BY <4>5, <5>1, <5>2
      <4> QED  BY <4>1, <4>3, <4>4, <4>5 DEF LifeInv, Alive
    <3> QED  BY <3>5, <3>6
  <2>4. ParkLockInv'
    <3>1. /\ pc[c] = "idle" /\ running \in {c, NoConn} /\ waiters' = waiters
          /\ locks' = locks /\ tgt' = tgt /\ sidOf' = sidOf
          /\ \A d \in Conns \ {c} : pc'[d] = pc[d] /\ sid'[d] = sid[d]
      BY <1>19 DEF Disconnect
    <3>2. \A d \in Conns \ {c} : pc[d] = "acquire" => Ahead(d, c)
      BY <3>1, IdleAhead
    <3>3. \A d, e \in Conns : Ahead(d, e)' <=> Ahead(d, e)
      BY <3>1, AheadKept
    <3>4. \A h \in Conns, t \in Sids : GivesUp(h, t) => h # c /\ GivesUp(h, t)'
      BY <3>1
    <3>5. /\ pc'[c] = "leave"
          /\ current[c] = NoInst => registry' = registry
          /\ current[c] # NoInst =>
               /\ registry' = [registry EXCEPT ![sidOf[current[c]]] = current[c]]
               /\ locks[sidOf[current[c]]] = c
      BY <1>19 DEF Disconnect
    <3>6. \A t \in Sids : GivesUp(c, t)'
      BY <3>5
    <3> HIDE DEF GivesUp
    <3> QED  BY <3>1, <3>2, <3>3, <3>4, <3>5, <3>6
  <2>5. NoOrphan'
    <3>1. pc[c] = "idle" /\ pc'[c] = "leave"
      BY <1>19 DEF Disconnect
    <3>2. ASSUME NEW d \in Conns, pc[d] = "revoke"  PROVE current[c] # NoInst => aside[d] # current[c]
      BY <3>1, <3>2
    <3>3. current[c] # NoInst => st[current[c]] = "live"
      BY <3>1, <3>2
    <3>5. CASE current[c] = NoInst
      BY <1>19, <3>1, <3>5 DEF Disconnect
    <3>6. CASE current[c] # NoInst
      <4>1. /\ st' = st /\ mine' = mine /\ sidOf' = sidOf
            /\ registry' = [registry EXCEPT ![sidOf[current[c]]] = current[c]]
            /\ current' = [current EXCEPT ![c] = NoInst]
        BY <1>19, <3>6 DEF Disconnect
      <4>2. \A i \in Instances : Alive(i) /\ sidOf[i] = sidOf[current[c]] => i = current[c]
        BY <3>3, <3>6
      <4>3. sidOf[current[c]] \in Sids
        BY <3>6
      <4> QED  BY <4>1, <4>2, <4>3
    <3> QED  BY <3>5, <3>6
  <2> HIDE DEF QueueInv, HoldInv, PlaceInv, RestInv, LifeInv, ParkLockInv, TakeLockInv,
            ViewerOwnsLock, OneSessionPerId, NoOrphan
  <2> QED  BY <2>1, <2>2, <2>3, <2>4, <2>5
<1>20. ASSUME NEW c \in Conns, ReleaseAll(c)
      PROVE  OrderInv'
  <2>1. QueueInv'
    BY <1>20, EnterQueue DEF ReleaseAll
  <2>2. HoldInv' /\ PlaceInv' /\ RestInv' /\ LifeInv' /\ ParkLockInv'
        /\ TakeLockInv' /\ OneSessionPerId' /\ NoOrphan'
    BY <1>20, EnterType, EnterAhead DEF ReleaseAll
  <2>3. ViewerOwnsLock'
    <3>1. /\ pc[c] = "leave" /\ current' = current /\ sidOf' = sidOf
          /\ locks' = [t \in Sids |-> IF locks[t] = c THEN NoConn ELSE locks[t]]
      BY <1>20 DEF ReleaseAll
    <3>2. current[c] = NoInst
      BY <3>1
    <3>3. \A d \in Conns : current[d] # NoInst => sidOf[current[d]] \in Sids
      OBVIOUS
    <3> QED  BY <3>1, <3>2, <3>3
  <2> HIDE DEF QueueInv, HoldInv, PlaceInv, RestInv, LifeInv, ParkLockInv, TakeLockInv,
            ViewerOwnsLock, OneSessionPerId, NoOrphan
  <2> QED  BY <2>1, <2>2, <2>3
<1>21. ASSUME NEW s \in Sids, Expire(s)
      PROVE  OrderInv'
  <2>1. QueueInv'
    BY <1>21 DEF Expire, QueueInv
  <2>2. HoldInv' /\ PlaceInv' /\ RestInv' /\ LifeInv' /\ ParkLockInv'
        /\ TakeLockInv' /\ ViewerOwnsLock' /\ OneSessionPerId' /\ NoOrphan'
    BY <1>21, AheadKept DEF Expire
  <2> QED  BY <2>1, <2>2
<1>22. ASSUME NEW i \in Instances, Expired(i)
      PROVE  OrderInv'
  <2>1. QueueInv'
    BY <1>22 DEF Expired, QueueInv
  <2>2. HoldInv' /\ PlaceInv' /\ RestInv' /\ LifeInv' /\ ParkLockInv'
        /\ TakeLockInv' /\ ViewerOwnsLock' /\ OneSessionPerId' /\ NoOrphan'
    BY <1>22, AheadKept DEF Expired
  <2> QED  BY <2>1, <2>2
<1>23. /\ \A c \in Conns, s \in Sids : ~ StartAdopts(c, s)
       /\ \A i \in Instances, s \in Sids : ~ ResultAdopts(i, s)
  BY DEF StartAdopts, ResultAdopts
<1> HIDE DEF LockInv, TypeOK, MuInv, TargetInv, ClaimInv, AttachInv, RevokeInv, LockOwnerOpen, Life,
       Stage, lockVars, idVars, objVars, reqVars, At, Goto, RunsOn, Suspends, MaySuspend, Owner,
       HeldByOther, MuFree, Shows, IsNew, Return, Grant, StreamInv, ParkedInv,
       TakenInv, ShownInv, AttachedInv, NewInv, StartedInv, NewHeldInv, LeaveInv, ViewerGetsStream,
       OrderInv, HoldInv, PlaceInv, RestInv, LifeInv, GivesUp, ParkLockInv, TakeLockInv,
       ViewerOwnsLock, OneSessionPerId, NoOrphan, Alive, Orderly, NoOwnResume, HolderAtRest
<1> QED
  BY <1>1, <1>2, <1>3, <1>4, <1>5, <1>6, <1>7, <1>8, <1>9, <1>10, <1>11, <1>12, <1>13, <1>14, <1>15, <1>16, <1>17, <1>18, <1>19, <1>20, <1>21, <1>22, <1>23 DEF Next, Request, Step

\* OrderInv holds in a worker that just started.
LEMMA InitOrderInv == Init => OrderInv
  BY SessionAssumption
  DEF Init, OrderInv, QueueInv, HoldInv, PlaceInv, RestInv, LifeInv, ParkLockInv, TakeLockInv,
      ViewerOwnsLock, OneSessionPerId, NoOrphan, Alive

\* OrderInv reads nothing but the variables of the specification.
LEMMA StutterOrderInv ==
  ASSUME OrderInv, UNCHANGED vars
  PROVE  OrderInv'
  BY DEF vars, OrderInv, QueueInv, HoldInv, PlaceInv, RestInv, LifeInv, ParkLockInv, TakeLockInv,
         ViewerOwnsLock, OneSessionPerId, NoOrphan, Alive, Owner, GivesUp, Ahead

-----------------------------------------------------------------------------
\* The order in which sessions, locks and the mutex change hands where Sessions keep
\* their ids, for clients that do not resume what they display and takeovers that find
\* the holder at rest.
THEOREM OrderInvariant == Adopts = {} => (OrderlySpec => []OrderInv)
<1> SUFFICES ASSUME Adopts = {} PROVE OrderlySpec => []OrderInv
  OBVIOUS
<1>1. OrderlySpec => Spec
  BY PTL DEF OrderlySpec, Spec
<1>2. LockInv /\ NamedInv /\ StreamInv /\ OrderInv /\ [Next /\ Orderly]_vars => OrderInv'
  BY NextOrderInv, StutterOrderInv
<1> QED
  BY <1>1, <1>2, LockInvariant, StreamInvariant, InitOrderInv, PTL DEF OrderlySpec

\* Where ids are kept, one never has two SDK processes (try_acquire, the takeover's
\* revoke callback, park and resume).
THEOREM OneProcessPerId == Adopts = {} => (OrderlySpec => []OneSessionPerId)
<1>1. OrderInv => OneSessionPerId
  BY DEF OrderInv
<1> QED
  BY OrderInvariant, <1>1, PTL

\* Where ids are kept, whoever displays a session owns its lock (_park_current's
\* release and the assignments of _current).
THEOREM ViewersOwnLocks == Adopts = {} => (OrderlySpec => []ViewerOwnsLock)
<1>1. OrderInv => ViewerOwnsLock
  BY DEF OrderInv
<1> QED
  BY OrderInvariant, <1>1, PTL

\* Where ids are kept, no SDK process is leaked by parking, taking, replacing or
\* stopping it.
THEOREM NoneLeaked == Adopts = {} => (OrderlySpec => []NoOrphan)
<1>1. OrderInv => NoOrphan
  BY DEF OrderInv
<1> QED
  BY OrderInvariant, <1>1, PTL
=============================================================================
