------------------------ MODULE SessionManagerProofs ------------------------
(***************************************************************************)
(* Proofs about SessionManager, for any set of connections, labels, ids    *)
(* and Session objects.  The lock discipline and the types are proved by   *)
(* one inductive invariant, LockInv: that a revoke callback is applied to  *)
(* a connection at all (a type fact) depends on the mutex being held.      *)
(***************************************************************************)
EXTENDS SessionManager, SequenceTheorems, TLAPS

\* The mutex is held exactly by the task inside a takeover.
MuInv == \A c \in Conns : mu = c <=> pc[c] \in {"notify", "revoke"}

\* A request has a target from its dispatch to its return.
TargetInv ==
  \A c \in Conns : tgt[c] = NoSid <=> pc[c] \in {"idle", "leave", "closed"}

\* A takeover goes on against the connection it began with.
ClaimInv ==
  \A c \in Conns :
    pc[c] \in {"notify", "revoke"} => HeldByOther(c) /\ MayTakeOver(c)

\* A task that attaches a session displays none meanwhile.
AttachInv ==
  \A c \in Conns : pc[c] \in {"starting", "reattach"} => current[c] = NoInst

\* While c awaits the stop of the holder's session, the holder cannot get past
\* the mutex, and so cannot display another.
RevokeInv ==
  \A c \in Conns :
    pc[c] = "revoke" =>
      /\ aside[c] # NoInst
      /\ current[Owner(c)] \in {aside[c], NoInst}
      /\ pc[Owner(c)] \in {"idle", "acquire", "granted", "release", "leave"}
      /\ pc[Owner(c)] = "granted" => current[Owner(c)] # NoInst

\* A Session that something refers to has an id.
NamedInv ==
  /\ \A s \in Sids : registry[s] # NoInst => sidOf[registry[s]] \in Sids
  /\ \A c \in Conns :
       /\ current[c] # NoInst => sidOf[current[c]] \in Sids
       /\ mine[c] # NoInst => sidOf[mine[c]] \in Sids
       /\ pc[c] = "starting" => mine[c] # NoInst

LockInv ==
  /\ TypeOK
  /\ MuInv
  /\ TargetInv
  /\ ClaimInv
  /\ AttachInv
  /\ RevokeInv
  /\ LockOwnerOpen

-----------------------------------------------------------------------------
\* Getting the mutex (asyncio.Lock.acquire) keeps the queue a queue of tasks.
LEMMA EnterType ==
  ASSUME NEW c \in Conns, waiters \in Seq(Conns), Enter(c)
  PROVE  waiters' \in Seq(Conns) /\ mu = NoConn
  BY HeadTailProperties DEF Enter, MuFree

\* Every step keeps LockInv.  Most actions keep it in one leaf; where a part needs
\* its own argument the parts are taken one by one.
LEMMA NextLockInv ==
  ASSUME LockInv, NamedInv, Next
  PROVE  LockInv'
<1> USE SessionAssumption DEF LockInv, TypeOK, MuInv, TargetInv, ClaimInv, AttachInv, RevokeInv, LockOwnerOpen, Life, Stage, lockVars, idVars, objVars, reqVars, At, Goto, RunsOn, Suspends, MaySuspend, Owner, HeldByOther, MayTakeOver, MuFree, Enter, Shows
<1>1. ASSUME NEW c \in Conns, Connect(c) PROVE LockInv'
  BY <1>1 DEF Connect, Return, Grant
<1>2. ASSUME NEW c \in Conns, NEW s \in Sids, NEW i \in Instances, NewSession(c, s, i) PROVE LockInv'
  BY <1>2 DEF NewSession, Return, Grant
<1>3. ASSUME NEW c \in Conns, NEW s \in Sids, NEW f \in BOOLEAN, ResumeSession(c, s, f) PROVE LockInv'
  BY <1>3 DEF ResumeSession, Return, Grant
<1>4. ASSUME NEW c \in Conns, Queue(c) PROVE LockInv'
  <2>1. TypeOK'
    BY <1>4, AppendProperties DEF Queue, Return, Grant
  <2>2. MuInv'
    BY <1>4, AppendProperties DEF Queue, Return, Grant
  <2>3. TargetInv'
    BY <1>4, AppendProperties DEF Queue, Return, Grant
  <2>4. ClaimInv'
    BY <1>4, AppendProperties DEF Queue, Return, Grant
  <2>5. AttachInv'
    BY <1>4, AppendProperties DEF Queue, Return, Grant
  <2>6. RevokeInv'
    BY <1>4, AppendProperties DEF Queue, Return, Grant
  <2>7. LockOwnerOpen'
    BY <1>4, AppendProperties DEF Queue, Return, Grant
  <2> HIDE DEF TypeOK, MuInv, TargetInv, ClaimInv, AttachInv, RevokeInv, LockOwnerOpen
  <2> QED  BY <2>1, <2>2, <2>3, <2>4, <2>5, <2>6, <2>7
<1>5. ASSUME NEW c \in Conns, Refuse(c) PROVE LockInv'
  BY <1>5, EnterType DEF Refuse, Return, Grant
<1>6. ASSUME NEW c \in Conns, Notify(c) PROVE LockInv'
  BY <1>6, EnterType DEF Notify, Return, Grant
<1>7. ASSUME NEW c \in Conns, Acquire(c) PROVE LockInv'
  BY <1>7, EnterType DEF Acquire, Return, Grant
<1>8. ASSUME NEW c \in Conns, RevokeStop(c) PROVE LockInv'
  <2>1. TypeOK'
    <3>1. Owner(c) \in Conns
      BY <1>8 DEF RevokeStop
    <3>2. current[Owner(c)] \in Instances /\ pc' = [pc EXCEPT ![c] = "revoke"]
      BY <1>8, <3>1 DEF RevokeStop
    <3> HIDE DEF MuInv, TargetInv, ClaimInv, AttachInv, RevokeInv, LockOwnerOpen
    <3> QED  BY <1>8, <3>1, <3>2 DEF RevokeStop
  <2>2. MuInv'
    BY <1>8 DEF RevokeStop, Return, Grant
  <2>3. TargetInv'
    BY <1>8 DEF RevokeStop, Return, Grant
  <2>4. ClaimInv'
    BY <1>8 DEF RevokeStop, Return, Grant
  <2>5. AttachInv'
    BY <1>8 DEF RevokeStop, Return, Grant
  <2>6. RevokeInv'
    <3>1. Owner(c) \in Conns \ {c}
      BY <1>8 DEF RevokeStop
    <3>2. pc[Owner(c)] \in {"idle", "acquire", "granted", "release", "leave"}
      BY <1>8, <3>1 DEF RevokeStop
    <3>3. \A d \in Conns \ {c} : pc'[d] = pc[d] /\ pc[d] # "revoke"
      BY <1>8 DEF RevokeStop
    <3>4. /\ pc'[c] = "revoke" /\ locks' = locks /\ tgt' = tgt /\ current' = current
          /\ aside'[c] = current[Owner(c)] /\ aside'[c] # NoInst
      BY <1>8 DEF RevokeStop
    <3> QED  BY <3>1, <3>2, <3>3, <3>4
  <2>7. LockOwnerOpen'
    BY <1>8 DEF RevokeStop, Return, Grant
  <2> HIDE DEF TypeOK, MuInv, TargetInv, ClaimInv, AttachInv, RevokeInv, LockOwnerOpen
  <2> QED  BY <2>1, <2>2, <2>3, <2>4, <2>5, <2>6, <2>7
<1>9. ASSUME NEW c \in Conns, RevokeNothing(c) PROVE LockInv'
  BY <1>9 DEF RevokeNothing, Return, Grant
<1>10. ASSUME NEW c \in Conns, RevokeDone(c) PROVE LockInv'
  BY <1>10 DEF RevokeDone, Return, Grant
<1>11. ASSUME NEW c \in Conns, Park(c) PROVE LockInv'
  <2>1. TypeOK'
    <3> HIDE DEF MuInv, TargetInv, ClaimInv, AttachInv, RevokeInv, LockOwnerOpen
    <3>1. registry' \in [Sids -> Instances \cup {NoInst}]
      BY <1>11 DEF Park
    <3>2. sid' \in [Conns -> Sids \cup {NoSid}]
      BY <1>11 DEF Park
    <3> QED  BY <1>11, <3>1, <3>2 DEF Park
  <2>2. MuInv'
    BY <1>11 DEF Park, Return, Grant
  <2>3. TargetInv'
    BY <1>11 DEF Park, Return, Grant
  <2>4. ClaimInv'
    BY <1>11 DEF Park, Return, Grant
  <2>5. AttachInv'
    BY <1>11 DEF Park, Return, Grant
  <2>6. RevokeInv'
    BY <1>11 DEF Park, Return, Grant
  <2>7. LockOwnerOpen'
    BY <1>11 DEF Park, Return, Grant
  <2> HIDE DEF TypeOK, MuInv, TargetInv, ClaimInv, AttachInv, RevokeInv, LockOwnerOpen
  <2> QED  BY <2>1, <2>2, <2>3, <2>4, <2>5, <2>6, <2>7
<1>12. ASSUME NEW c \in Conns, Release(c) PROVE LockInv'
  <2>1. TypeOK'
    <3> HIDE DEF MuInv, TargetInv, ClaimInv, AttachInv, RevokeInv, LockOwnerOpen
    <3> QED  BY <1>12, EnterType DEF Release
  <2>2. MuInv'
    BY <1>12, EnterType DEF Release, Return, Grant
  <2>3. TargetInv'
    BY <1>12, EnterType DEF Release, Return, Grant
  <2>4. ClaimInv'
    BY <1>12, EnterType DEF Release, Return, Grant
  <2>5. AttachInv'
    BY <1>12, EnterType DEF Release, Return, Grant
  <2>6. RevokeInv'
    BY <1>12, EnterType DEF Release, Return, Grant
  <2>7. LockOwnerOpen'
    BY <1>12, EnterType DEF Release, Return, Grant
  <2> HIDE DEF TypeOK, MuInv, TargetInv, ClaimInv, AttachInv, RevokeInv, LockOwnerOpen
  <2> QED  BY <2>1, <2>2, <2>3, <2>4, <2>5, <2>6, <2>7
<1>13. ASSUME NEW c \in Conns, StartNew(c) PROVE LockInv'
  <2>1. TypeOK'
    <3> HIDE DEF MuInv, TargetInv, ClaimInv, AttachInv, RevokeInv, LockOwnerOpen
    <3> QED  BY <1>13 DEF StartNew
  <2>2. MuInv'
    BY <1>13 DEF StartNew, Return, Grant
  <2>3. TargetInv'
    BY <1>13 DEF StartNew, Return, Grant
  <2>4. ClaimInv'
    BY <1>13 DEF StartNew, Return, Grant
  <2>5. AttachInv'
    BY <1>13 DEF StartNew, Return, Grant
  <2>6. RevokeInv'
    BY <1>13 DEF StartNew, Return, Grant
  <2>7. LockOwnerOpen'
    BY <1>13 DEF StartNew, Return, Grant
  <2> HIDE DEF TypeOK, MuInv, TargetInv, ClaimInv, AttachInv, RevokeInv, LockOwnerOpen
  <2> QED  BY <2>1, <2>2, <2>3, <2>4, <2>5, <2>6, <2>7
<1>14. ASSUME NEW c \in Conns, NEW i \in Instances, StartResumed(c, i) PROVE LockInv'
  BY <1>14 DEF StartResumed, Return, Grant
<1>15. ASSUME NEW c \in Conns, Started(c) PROVE LockInv'
  <2>1. TypeOK'
    <3>1. sidOf[mine[c]] \in Sids
      BY <1>15 DEF Started, NamedInv
    <3> HIDE DEF MuInv, TargetInv, ClaimInv, AttachInv, RevokeInv, LockOwnerOpen
    <3> QED  BY <1>15, <3>1 DEF Started, Return
  <2>2. MuInv'
    BY <1>15 DEF Started, Return, Grant
  <2>3. TargetInv'
    BY <1>15 DEF Started, Return, Grant
  <2>4. ClaimInv'
    BY <1>15 DEF Started, Return, Grant
  <2>5. AttachInv'
    BY <1>15 DEF Started, Return, Grant
  <2>6. RevokeInv'
    BY <1>15 DEF Started, Return, Grant
  <2>7. LockOwnerOpen'
    BY <1>15 DEF Started, Return, Grant
  <2> HIDE DEF TypeOK, MuInv, TargetInv, ClaimInv, AttachInv, RevokeInv, LockOwnerOpen
  <2> QED  BY <2>1, <2>2, <2>3, <2>4, <2>5, <2>6, <2>7
<1>16. ASSUME NEW c \in Conns, StartFails(c) PROVE LockInv'
  <2>1. TypeOK'
    BY <1>16 DEF StartFails, Return, Grant
  <2>2. MuInv'
    BY <1>16 DEF StartFails, Return, Grant
  <2>3. TargetInv'
    BY <1>16 DEF StartFails, Return, Grant
  <2>4. ClaimInv'
    BY <1>16 DEF StartFails, Return, Grant
  <2>5. AttachInv'
    BY <1>16 DEF StartFails, Return, Grant
  <2>6. RevokeInv'
    BY <1>16 DEF StartFails, Return, Grant
  <2>7. LockOwnerOpen'
    BY <1>16 DEF StartFails, Return, Grant
  <2> HIDE DEF TypeOK, MuInv, TargetInv, ClaimInv, AttachInv, RevokeInv, LockOwnerOpen
  <2> QED  BY <2>1, <2>2, <2>3, <2>4, <2>5, <2>6, <2>7
<1>17. ASSUME NEW c \in Conns, Reattach(c) PROVE LockInv'
  BY <1>17 DEF Reattach, Return, Grant
<1>18. ASSUME NEW c \in Conns, Reattached(c) PROVE LockInv'
  BY <1>18 DEF Reattached, Return, Grant
<1>19. ASSUME NEW c \in Conns, Disconnect(c) PROVE LockInv'
  <2>1. TypeOK'
    <3> HIDE DEF MuInv, TargetInv, ClaimInv, AttachInv, RevokeInv, LockOwnerOpen
    <3>1. registry' \in [Sids -> Instances \cup {NoInst}]
      BY <1>19 DEF Disconnect
    <3>2. send' \in [Instances -> Conns \cup {NoConn}]
      BY <1>19 DEF Disconnect
    <3> QED  BY <1>19, <3>1, <3>2 DEF Disconnect
  <2>2. MuInv'
    BY <1>19 DEF Disconnect, Return, Grant
  <2>3. TargetInv'
    BY <1>19 DEF Disconnect, Return, Grant
  <2>4. ClaimInv'
    BY <1>19 DEF Disconnect, Return, Grant
  <2>5. AttachInv'
    BY <1>19 DEF Disconnect, Return, Grant
  <2>6. RevokeInv'
    BY <1>19 DEF Disconnect, Return, Grant
  <2>7. LockOwnerOpen'
    BY <1>19 DEF Disconnect, Return, Grant
  <2> HIDE DEF TypeOK, MuInv, TargetInv, ClaimInv, AttachInv, RevokeInv, LockOwnerOpen
  <2> QED  BY <2>1, <2>2, <2>3, <2>4, <2>5, <2>6, <2>7
<1>20. ASSUME NEW c \in Conns, ReleaseAll(c) PROVE LockInv'
  BY <1>20, EnterType DEF ReleaseAll, Return, Grant
<1>21. ASSUME NEW s \in Sids, Expire(s) PROVE LockInv'
  BY <1>21 DEF Expire, Return, Grant
<1>22. ASSUME NEW i \in Instances, Expired(i) PROVE LockInv'
  BY <1>22 DEF Expired, Return, Grant
<1>23. ASSUME NEW c \in Conns, NEW s \in Sids, StartAdopts(c, s) PROVE LockInv'
  BY <1>23 DEF StartAdopts, Adopt, FreshSid
<1>24. ASSUME NEW i \in Instances, NEW s \in Sids, ResultAdopts(i, s) PROVE LockInv'
  BY <1>24 DEF ResultAdopts, Adopt, FreshSid
<1> HIDE DEF LockInv, TypeOK, MuInv, TargetInv, ClaimInv, AttachInv, RevokeInv, LockOwnerOpen, Life, Stage, lockVars, idVars, objVars, reqVars, At, Goto, RunsOn, Suspends, MaySuspend, Owner, HeldByOther, MayTakeOver, MuFree, Enter, Shows
<1> QED
  BY <1>1, <1>2, <1>3, <1>4, <1>5, <1>6, <1>7, <1>8, <1>9, <1>10, <1>11, <1>12, <1>13, <1>14, <1>15, <1>16, <1>17, <1>18, <1>19, <1>20, <1>21, <1>22, <1>23, <1>24 DEF Next, Request, Step

\* Every step keeps NamedInv: who is referred to was given an id when it was made.
LEMMA NextNamedInv ==
  ASSUME TypeOK, TargetInv, AttachInv, NamedInv, Next
  PROVE  NamedInv'
<1> USE SessionAssumption DEF TypeOK, TargetInv, AttachInv, NamedInv, At, Goto, objVars, reqVars, Return
<1>1. ASSUME NEW c \in Conns, Connect(c) \/ Queue(c) \/ Notify(c) \/ Acquire(c)
      PROVE  NamedInv'
  BY <1>1 DEF Connect, Queue, Notify, Acquire, Grant
<1>2. ASSUME NEW c \in Conns, NEW s \in Sids, NEW i \in Instances, NewSession(c, s, i)
      PROVE  NamedInv'
  BY <1>2 DEF NewSession
<1>3. ASSUME NEW c \in Conns, NEW s \in Sids, NEW f \in BOOLEAN, ResumeSession(c, s, f)
      PROVE  NamedInv'
  BY <1>3 DEF ResumeSession
<1>4. ASSUME NEW c \in Conns, Refuse(c)  PROVE NamedInv'
  <2>1. /\ sidOf' = sidOf /\ current' = current
        /\ pc' = [pc EXCEPT ![c] = "idle"] /\ mine' = [mine EXCEPT ![c] = NoInst]
        /\ registry' \in {registry, [registry EXCEPT ![sidOf[mine[c]]] = mine[c]]}
        /\ mine[c] = NoInst => registry' = registry
    BY <1>4 DEF Refuse, idVars
  <2>2. mine[c] # NoInst => mine[c] \in Instances /\ sidOf[mine[c]] \in Sids
    OBVIOUS
  <2>3. \A s \in Sids : registry'[s] # NoInst => sidOf'[registry'[s]] \in Sids
    <3>1. CASE registry' = registry
      BY <2>1, <3>1
    <3>2. CASE mine[c] # NoInst /\ registry' = [registry EXCEPT ![sidOf[mine[c]]] = mine[c]]
      BY <2>1, <2>2, <3>2
    <3> QED  BY <2>1, <3>1, <3>2
  <2>4. ASSUME NEW d \in Conns
        PROVE  /\ current'[d] # NoInst => sidOf'[current'[d]] \in Sids
               /\ mine'[d] # NoInst => sidOf'[mine'[d]] \in Sids
               /\ pc'[d] = "starting" => mine'[d] # NoInst
    <3>1. CASE d = c
      BY <2>1, <3>1
    <3>2. CASE d # c
      BY <2>1, <3>2
    <3> QED  BY <3>1, <3>2
  <2> QED  BY <2>3, <2>4 DEF NamedInv
<1>5. ASSUME NEW c \in Conns, RevokeStop(c) \/ RevokeNothing(c) \/ RevokeDone(c)
      PROVE  NamedInv'
  BY <1>5 DEF RevokeStop, RevokeNothing, RevokeDone, Grant, idVars
<1>6. ASSUME NEW c \in Conns, Park(c) \/ Disconnect(c)  PROVE NamedInv'
  BY <1>6 DEF Park, Disconnect, idVars
<1>7. ASSUME NEW c \in Conns, Release(c) \/ ReleaseAll(c)  PROVE NamedInv'
  BY <1>7 DEF Release, ReleaseAll, idVars
<1>8. ASSUME NEW c \in Conns, NEW i \in Instances, StartResumed(c, i)  PROVE NamedInv'
  BY <1>8 DEF StartResumed
<1>9. ASSUME NEW c \in Conns, StartNew(c) \/ Started(c) \/ StartFails(c)  PROVE NamedInv'
  BY <1>9 DEF StartNew, Started, StartFails, idVars, IsNew
<1>10. ASSUME NEW c \in Conns, Reattach(c) \/ Reattached(c)  PROVE NamedInv'
  <2>1. /\ sidOf' = sidOf /\ registry' = registry
        /\ pc' = [pc EXCEPT ![c] = "reattach"] \/ pc' = [pc EXCEPT ![c] = "idle"]
        /\ mine' = mine \/ (mine' = [mine EXCEPT ![c] = NoInst] /\ pc'[c] = "idle")
        /\ current' = current \/ current' = [current EXCEPT ![c] = mine[c]]
    BY <1>10 DEF Reattach, Reattached, idVars
  <2> QED  BY <2>1
<1>11. ASSUME NEW s \in Sids, Expire(s)  PROVE NamedInv'
  BY <1>11 DEF Expire, idVars
<1>12. ASSUME NEW i \in Instances, Expired(i)  PROVE NamedInv'
  BY <1>12 DEF Expired
<1>13. ASSUME NEW c \in Conns, NEW s \in Sids, StartAdopts(c, s)  PROVE NamedInv'
  BY <1>13 DEF StartAdopts, Adopt
<1>14. ASSUME NEW i \in Instances, NEW s \in Sids, ResultAdopts(i, s)  PROVE NamedInv'
  BY <1>14 DEF ResultAdopts, Adopt
<1> HIDE DEF TypeOK, TargetInv, AttachInv, NamedInv, At, Goto, objVars, reqVars, Return
<1> QED
  BY <1>1, <1>2, <1>3, <1>4, <1>5, <1>6, <1>7, <1>8, <1>9, <1>10, <1>11, <1>12, <1>13,
     <1>14 DEF Next, Request, Step

\* LockInv and NamedInv hold in a worker that just started.
LEMMA InitLockInv == Init => LockInv /\ NamedInv
  BY SessionAssumption
  DEF Init, NamedInv, LockInv, TypeOK, MuInv, TargetInv, ClaimInv, AttachInv, RevokeInv,
      LockOwnerOpen, Life, Stage

\* They read nothing but the variables of the specification.
LEMMA StutterLockInv ==
  ASSUME LockInv, NamedInv, UNCHANGED vars
  PROVE  LockInv' /\ NamedInv'
  BY DEF vars, NamedInv, LockInv, TypeOK, MuInv, TargetInv, ClaimInv, AttachInv, RevokeInv,
         LockOwnerOpen, HeldByOther, MayTakeOver, Owner

\* The lock discipline of try_acquire, release and the revoke callbacks, whatever
\* the clients do.
THEOREM LockInvariant == Spec => [](LockInv /\ NamedInv)
<1>1. LockInv => TypeOK /\ TargetInv /\ AttachInv
  BY DEF LockInv
<1>2. LockInv /\ NamedInv /\ [Next]_vars => (LockInv /\ NamedInv)'
  BY <1>1, NextLockInv, NextNamedInv, StutterLockInv
<1> QED
  BY InitLockInv, <1>2, PTL DEF Spec

\* Every variable keeps its type, for any number of connections, ids and Sessions.
THEOREM TypeCorrect == Spec => []TypeOK
<1>1. LockInv => TypeOK
  BY DEF LockInv
<1> QED
  BY LockInvariant, <1>1, PTL

\* A closed connection owns no lock.
THEOREM OwnersAreOpen == Spec => []LockOwnerOpen
<1>1. LockInv => LockOwnerOpen
  BY DEF LockInv
<1> QED
  BY LockInvariant, <1>1, PTL

\* A revoke callback drops the session it stopped and no other.
THEOREM RevokeIsExact == Spec => []RevokeDropsStopped
<1>1. LockInv => RevokeDropsStopped
  BY DEF LockInv, ClaimInv, RevokeInv, RevokeDropsStopped
<1> QED
  BY LockInvariant, <1>1, PTL

-----------------------------------------------------------------------------
\* Which steps take a lock from its owner: three actions can, and each is either the
\* owner's own or a takeover in its last stage.
LEMMA LockLossStep ==
  ASSUME LockInv, [Next]_vars,
         NEW s \in Sids, NEW d \in Conns, locks[s] = d, locks'[s] # d
  PROVE  \/ /\ locks'[s] = NoConn
            /\ pc[d] \in {"release", "leave"} /\ pc'[d] # pc[d]
         \/ \E c \in Conns :
              /\ locks'[s] = c /\ tgt[c] = s
              /\ force[c] \/ Label[c] = Label[d]
              /\ pc[c] \in {"notify", "revoke"}
<1> DEFINE Lost ==
         \/ /\ locks'[s] = NoConn
            /\ pc[d] \in {"release", "leave"} /\ pc'[d] # pc[d]
         \/ \E c \in Conns :
              /\ locks'[s] = c /\ tgt[c] = s
              /\ force[c] \/ Label[c] = Label[d]
              /\ pc[c] \in {"notify", "revoke"}
<1> USE SessionAssumption DEF LockInv, TypeOK, ClaimInv, HeldByOther, MayTakeOver, Owner
<1>1. ASSUME NEW c \in Conns, Request(c) PROVE FALSE
  BY <1>1 DEF Request, Connect, NewSession, ResumeSession, Disconnect, lockVars
<1>2. ASSUME NEW c \in Conns, Acquire(c) PROVE FALSE
  BY <1>2 DEF Acquire, Grant
<1>3. ASSUME NEW c \in Conns, RevokeNothing(c) \/ RevokeDone(c) PROVE Lost
  BY <1>3 DEF RevokeNothing, RevokeDone, Grant, At
<1>4. ASSUME NEW c \in Conns, Release(c) PROVE Lost
  BY <1>4 DEF Release, Goto, Stage
<1>5. ASSUME NEW c \in Conns, ReleaseAll(c) PROVE Lost
  BY <1>5 DEF ReleaseAll, Goto, Stage
<1>6. ASSUME NEW c \in Conns, Queue(c) \/ Refuse(c) \/ Notify(c) \/ RevokeStop(c) \/ Park(c)
      PROVE  FALSE
  BY <1>6 DEF Queue, Refuse, Notify, RevokeStop, Park, lockVars
<1>7. ASSUME NEW c \in Conns,
             \/ StartNew(c) \/ (\E i \in Instances : StartResumed(c, i))
             \/ (\E t \in Sids : StartAdopts(c, t)) \/ Started(c) \/ StartFails(c)
             \/ Reattach(c) \/ Reattached(c)
      PROVE  FALSE
  BY <1>7 DEF StartNew, StartResumed, StartAdopts, Started, StartFails, Reattach, Reattached, lockVars
<1>8. ASSUME \/ \E t \in Sids : Expire(t)
             \/ \E i \in Instances : Expired(i)
             \/ \E i \in Instances, t \in Sids : ResultAdopts(i, t)
             \/ UNCHANGED vars
      PROVE  FALSE
  BY <1>8 DEF Expire, Expired, ResultAdopts, vars, lockVars
<1> HIDE DEF Lost, LockInv
<1>9. Lost
  BY <1>1, <1>2, <1>3, <1>4, <1>5, <1>6, <1>7, <1>8 DEF Next, Step
<1> QED
  BY <1>9 DEF Lost

\* No connection loses a lock it owns but by its own release or a takeover that
\* was allowed and announced.
THEOREM LocksAreKept == Spec => LockLostProperly
<1>1. LockInv /\ [Next]_vars =>
        [\A s \in Sids, d \in Conns :
           locks[s] = d /\ locks'[s] # d =>
             \/ /\ locks'[s] = NoConn
                /\ pc[d] \in {"release", "leave"} /\ pc'[d] # pc[d]
             \/ \E c \in Conns :
                  /\ locks'[s] = c /\ tgt[c] = s
                  /\ force[c] \/ Label[c] = Label[d]
                  /\ pc[c] \in {"notify", "revoke"}]_vars
  BY LockLossStep
<1> QED
  BY LockInvariant, <1>1, PTL DEF Spec, LockLostProperly

-----------------------------------------------------------------------------
\* An empty lock table is the initial state of the lock service.
LEMMA LocksInit == Init => Locks!Init
  BY DEF Init, Locks!Init

\* Every step of a worker is a step of the lock service or leaves it alone.  The
\* session a takeover claims is tgt[mu]: nothing changes it while mu is held.
LEMMA LocksStep ==
  ASSUME LockInv, [Next]_vars
  PROVE  [Locks!Next]_(Locks!vars)
<1> USE SessionAssumption DEF LockInv, TypeOK, MuInv, TargetInv, MuFree, Enter
<1>1. ASSUME NEW c \in Conns, Request(c) PROVE UNCHANGED Locks!vars
  BY <1>1 DEF Request, Connect, NewSession, ResumeSession, Disconnect, lockVars, reqVars,
              At, Locks!vars
<1>2. ASSUME NEW c \in Conns, Acquire(c) PROVE Locks!Next
  <2>1. tgt[c] \in Sids /\ mu = NoConn /\ mu' = NoConn
    BY <1>2 DEF Acquire, Grant
  <2>2. Locks!Acquire(c, tgt[c])
    BY <1>2, <2>1 DEF Acquire, Grant, HeldByOther, Owner, Locks!Acquire, Locks!Quiet
  <2> QED  BY <2>1, <2>2 DEF Locks!Next
<1>3. ASSUME NEW c \in Conns, Notify(c) PROVE Locks!Next
  <2>1. tgt[c] \in Sids /\ mu = NoConn /\ mu' = c /\ tgt'[c] = tgt[c]
    BY <1>3 DEF Notify, reqVars
  <2>2. Locks!Claim(c, tgt[c])
    BY <1>3, <2>1 DEF Notify, HeldByOther, Owner, Locks!Claim, Locks!Quiet
  <2> QED  BY <2>1, <2>2 DEF Locks!Next
<1>4. ASSUME NEW c \in Conns, RevokeNothing(c) \/ RevokeDone(c) PROVE Locks!Next
  <2>1. mu = c /\ mu' = NoConn
    BY <1>4 DEF RevokeNothing, RevokeDone, Grant, At
  <2>2. Locks!TakeOver
    BY <1>4, <2>1 DEF RevokeNothing, RevokeDone, Grant, Locks!TakeOver, Locks!Quiet
  <2> QED  BY <2>2 DEF Locks!Next
<1>5. ASSUME NEW c \in Conns, Release(c) PROVE [Locks!Next]_(Locks!vars)
  <2> DEFINE s == sid[c]
  <2>1. mu = NoConn /\ mu' = NoConn
    BY <1>5 DEF Release
  <2>2. CASE s \in Sids
    <3>1. /\ locks \in [Sids -> Conns \cup {NoConn}]
          /\ locks' = [locks EXCEPT ![s] = IF @ = c THEN NoConn ELSE @]
      BY <1>5 DEF Release
    <3>2. locks' = [t \in Sids |-> IF t \in {s} /\ locks[t] = c THEN NoConn ELSE locks[t]]
      BY <3>1, <2>2
    <3>3. Locks!Release(c, {s})
      BY <2>1, <3>2 DEF Locks!Release, Locks!Quiet
    <3> QED  BY <2>2, <3>3 DEF Locks!Next
  <2>3. CASE s \notin Sids
    BY <1>5, <2>1, <2>3 DEF Release, Locks!vars
  <2> QED  BY <2>2, <2>3
<1>6. ASSUME NEW c \in Conns, ReleaseAll(c) PROVE Locks!Next
  <2>1. mu = NoConn /\ mu' = NoConn
    BY <1>6 DEF ReleaseAll
  <2>2. Locks!Release(c, Sids)
    BY <1>6, <2>1 DEF ReleaseAll, Locks!Release, Locks!Quiet
  <2> QED  BY <2>2 DEF Locks!Next
<1>7. ASSUME NEW c \in Conns, Queue(c) \/ Refuse(c) \/ RevokeStop(c) \/ Park(c)
      PROVE  UNCHANGED Locks!vars
  BY <1>7 DEF Queue, Refuse, RevokeStop, Park, lockVars, reqVars, Locks!vars
<1>8. ASSUME NEW c \in Conns,
             \/ StartNew(c) \/ (\E i \in Instances : StartResumed(c, i))
             \/ (\E t \in Sids : StartAdopts(c, t)) \/ Started(c) \/ StartFails(c)
             \/ Reattach(c) \/ Reattached(c)
      PROVE  UNCHANGED Locks!vars
  BY <1>8 DEF StartNew, StartResumed, StartAdopts, Started, StartFails, Reattach, Reattached, Return,
              At, lockVars, reqVars, Locks!vars
<1>9. ASSUME \/ \E t \in Sids : Expire(t)
             \/ \E i \in Instances : Expired(i)
             \/ \E i \in Instances, t \in Sids : ResultAdopts(i, t)
             \/ UNCHANGED vars
      PROVE  UNCHANGED Locks!vars
  BY <1>9 DEF Expire, Expired, ResultAdopts, vars, lockVars, reqVars, Locks!vars
<1> HIDE DEF LockInv
<1> QED
  BY <1>1, <1>2, <1>3, <1>4, <1>5, <1>6, <1>7, <1>8, <1>9 DEF Next, Step

\* The lock table, with its mutex, its queue and the tasks that call it,
\* implements the lock service of SessionLocks (its safety part).
THEOREM LocksImplemented == Spec => Locks!Spec
<1>1. LockInv /\ [Next]_vars => [Locks!Next]_(Locks!vars)
  BY LocksStep
<1> QED
  BY LockInvariant, LocksInit, <1>1, PTL DEF Spec, Locks!Spec
=============================================================================
