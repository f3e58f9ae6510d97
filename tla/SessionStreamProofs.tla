------------------------ MODULE SessionStreamProofs ------------------------
(***************************************************************************)
(* Proof that a displayed session streams to the client that displays it   *)
(* (ViewerGetsStream).  The argument is about who may hold a Session       *)
(* object: the registry, one request, one screen.  The only object with    *)
(* two holders is the one being parked, between registry.park and the      *)
(* lock's release; its old viewer never touches its send again.            *)
(***************************************************************************)
EXTENDS SessionManagerProofs

\* A parked Session is in nobody's hands, and on no screen but one that is
\* letting it go; it is parked under one id.
ParkedInv ==
  \A s \in Sids :
    registry[s] # NoInst =>
      /\ \A c \in Conns : mine[c] # registry[s]
      /\ \A c \in Conns : current[c] = registry[s] => pc[c] = "release"
      /\ \A t \in Sids : registry[t] = registry[s] => s = t

\* A Session in the hands of a request is in no other request's, and on no
\* screen but one that is letting it go.
TakenInv ==
  \A c \in Conns :
    mine[c] # NoInst =>
      /\ pc[c] \notin {"idle", "leave", "closed"}
      /\ \A d \in Conns : mine[d] = mine[c] => c = d
      /\ \A d \in Conns : current[d] = mine[c] => pc[d] = "release"

\* Two screens show the same Session only while one is letting it go.
ShownInv ==
  \A c, d \in Conns :
    current[c] # NoInst /\ current[c] = current[d] =>
      c = d \/ "release" \in {pc[c], pc[d]}

\* A Session being attached already sends to the connection attaching it.
AttachedInv ==
  \A c \in Conns :
    pc[c] \in {"starting", "reattach"} =>
      /\ mine[c] # NoInst
      /\ send[mine[c]] = c
      /\ st[mine[c]] # "new"

\* The lock of a new session's id is free or its creator's: no other request can
\* name that id before the session is known.
NewInv ==
  \A c \in Conns :
    IsNew(mine[c]) =>
      /\ send[mine[c]] = c
      /\ sidOf[mine[c]] = tgt[c]
      /\ Owner(c) \in {NoConn, c}
      /\ tgt[c] \notin known
      /\ \A d \in Conns \ {c} : tgt[d] # tgt[c]

\* The id of a Session being started is the one asked for, or one the client was told.
StartedInv == \A c \in Conns : pc[c] = "starting" => sidOf[mine[c]] \in known \cup {tgt[c]}

\* A Session that was never started is in the hands of its creator only.
NewHeldInv ==
  /\ \A s \in Sids : ~ IsNew(registry[s])
  /\ \A c \in Conns : ~ IsNew(current[c])

\* A connection that leaves shows nothing.
LeaveInv == \A c \in Conns : pc[c] \in {"leave", "closed"} => current[c] = NoInst

StreamInv ==
  /\ ParkedInv
  /\ TakenInv
  /\ ShownInv
  /\ AttachedInv
  /\ NewInv
  /\ StartedInv
  /\ NewHeldInv
  /\ LeaveInv
  /\ ViewerGetsStream

-----------------------------------------------------------------------------
\* Every step keeps StreamInv.  The ones that move a Session from holder to holder
\* (ResumeSession, Refuse, Park, Disconnect, Reattach, the two starts) rest on
\* ParkedInv and TakenInv; that LockInv bars a takeover from a new session's request
\* keeps Refuse from parking a Session that never started.
LEMMA NextStreamInv ==
  ASSUME LockInv, NamedInv, StreamInv, Next
  PROVE  StreamInv'
<1> USE SessionAssumption DEF LockInv, TypeOK, MuInv, TargetInv, ClaimInv, AttachInv, Life,
       Stage, lockVars, idVars, objVars, reqVars, At, Goto, RunsOn, Suspends, MaySuspend, Owner,
       HeldByOther, MuFree, Enter, Shows, IsNew, Return, Grant, StreamInv, ParkedInv,
       TakenInv, ShownInv, AttachedInv, NewInv, StartedInv, NewHeldInv, LeaveInv, ViewerGetsStream
<1>1. ASSUME NEW c \in Conns, Connect(c) PROVE StreamInv'
  BY <1>1 DEF Connect
<1>2. ASSUME NEW c \in Conns, NEW s \in Sids, NEW i \in Instances, NewSession(c, s, i)
      PROVE  StreamInv'
  BY <1>2 DEF NewSession, Free, Referenced, FreshSid
<1>3. ASSUME NEW c \in Conns, NEW s \in Sids, NEW f \in BOOLEAN, ResumeSession(c, s, f)
      PROVE  StreamInv'
  BY <1>3 DEF ResumeSession
<1>4. ASSUME NEW c \in Conns, Queue(c) PROVE StreamInv'
  BY <1>4 DEF Queue
<1>5. ASSUME NEW c \in Conns, Refuse(c) PROVE StreamInv'
  <2>1. CASE mine[c] = NoInst
    BY <1>5, <2>1 DEF Refuse
  <2>2. CASE mine[c] # NoInst
    <3>0. sidOf[mine[c]] \in Sids /\ ~ IsNew(mine[c])
      BY <1>5, <2>2 DEF NamedInv, Refuse
    <3>1. ParkedInv'
      BY <1>5, <2>2, <3>0 DEF Refuse
    <3>2. TakenInv' /\ ShownInv' /\ AttachedInv'
      BY <1>5, <2>2, <3>0 DEF Refuse
    <3>3. NewInv' /\ StartedInv' /\ NewHeldInv'
      BY <1>5, <2>2, <3>0 DEF Refuse
    <3>4. LeaveInv' /\ ViewerGetsStream'
      BY <1>5, <2>2, <3>0 DEF Refuse
    <3> HIDE DEF ParkedInv, TakenInv, ShownInv, AttachedInv, NewInv, StartedInv, NewHeldInv, LeaveInv,
              ViewerGetsStream
    <3> QED  BY <3>1, <3>2, <3>3, <3>4
  <2> QED  BY <2>1, <2>2
<1>6. ASSUME NEW c \in Conns, Notify(c) PROVE StreamInv'
  BY <1>6 DEF Notify
<1>7. ASSUME NEW c \in Conns, Acquire(c) PROVE StreamInv'
  BY <1>7 DEF Acquire
<1>8. ASSUME NEW c \in Conns, RevokeStop(c) PROVE StreamInv'
  BY <1>8 DEF RevokeStop
<1>9. ASSUME NEW c \in Conns, RevokeNothing(c) PROVE StreamInv'
  BY <1>9 DEF RevokeNothing
<1>10. ASSUME NEW c \in Conns, RevokeDone(c) PROVE StreamInv'
  BY <1>10 DEF RevokeDone
<1>11. ASSUME NEW c \in Conns, Park(c) PROVE StreamInv'
  BY <1>11 DEF Park
<1>12. ASSUME NEW c \in Conns, Release(c) PROVE StreamInv'
  BY <1>12 DEF Release
<1>13. ASSUME NEW c \in Conns, StartNew(c) PROVE StreamInv'
  BY <1>13 DEF StartNew
<1>14. ASSUME NEW c \in Conns, NEW i \in Instances, StartResumed(c, i) PROVE StreamInv'
  BY <1>14 DEF StartResumed, Free, Referenced
<1>15. ASSUME NEW c \in Conns, Started(c) PROVE StreamInv'
  BY <1>15 DEF Started
<1>16. ASSUME NEW c \in Conns, StartFails(c) PROVE StreamInv'
  BY <1>16 DEF StartFails
<1>17. ASSUME NEW c \in Conns, Reattach(c) PROVE StreamInv'
  BY <1>17 DEF Reattach
<1>18. ASSUME NEW c \in Conns, Reattached(c) PROVE StreamInv'
  BY <1>18 DEF Reattached
<1>19. ASSUME NEW c \in Conns, Disconnect(c) PROVE StreamInv'
  <2>1. CASE current[c] = NoInst
    BY <1>19, <2>1 DEF Disconnect
  <2>2. CASE current[c] # NoInst
    <3>0. sidOf[current[c]] \in Sids
      BY <2>2 DEF NamedInv
    <3>1. ParkedInv'
      BY <1>19, <2>2, <3>0 DEF Disconnect
    <3>2. TakenInv' /\ ShownInv'
      BY <1>19, <2>2 DEF Disconnect
    <3>3. AttachedInv' /\ NewInv' /\ StartedInv'
      BY <1>19, <2>2 DEF Disconnect
    <3>4. NewHeldInv'
      <4>1. /\ st' = st
            /\ \A s \in Sids : registry'[s] \in {registry[s], current[c]}
            /\ \A d \in Conns : current'[d] \in {current[d], NoInst}
        BY <1>19, <2>2, <3>0 DEF Disconnect
      <4>2. /\ \A s \in Sids : ~ IsNew(registry[s])
            /\ \A d \in Conns : ~ IsNew(current[d])
        OBVIOUS
      <4> QED  BY <4>1, <4>2
    <3>5. LeaveInv' /\ ViewerGetsStream'
      BY <1>19, <2>2 DEF Disconnect
    <3> HIDE DEF ParkedInv, TakenInv, ShownInv, AttachedInv, NewInv, StartedInv, NewHeldInv, LeaveInv,
              ViewerGetsStream
    <3> QED  BY <3>1, <3>2, <3>3, <3>4, <3>5
  <2> QED  BY <2>1, <2>2
<1>20. ASSUME NEW c \in Conns, ReleaseAll(c) PROVE StreamInv'
  BY <1>20 DEF ReleaseAll
<1>21. ASSUME NEW s \in Sids, Expire(s) PROVE StreamInv'
  BY <1>21 DEF Expire
<1>22. ASSUME NEW i \in Instances, Expired(i) PROVE StreamInv'
  BY <1>22 DEF Expired
<1>23. ASSUME NEW c \in Conns, NEW s \in Sids, StartAdopts(c, s) PROVE StreamInv'
  BY <1>23 DEF StartAdopts, Adopt, FreshSid
<1>24. ASSUME NEW i \in Instances, NEW s \in Sids, ResultAdopts(i, s) PROVE StreamInv'
  BY <1>24 DEF ResultAdopts, Adopt, FreshSid
<1> HIDE DEF LockInv, StreamInv, TypeOK, MuInv, TargetInv, ClaimInv, AttachInv, Life, Stage,
       lockVars, idVars, objVars, reqVars, At, Goto, RunsOn, Suspends, MaySuspend, Owner, HeldByOther,
       MuFree, Enter, Shows, IsNew, Return, Grant, ParkedInv, TakenInv, ShownInv, AttachedInv,
       NewInv, StartedInv, NewHeldInv, LeaveInv, ViewerGetsStream
<1> QED
  BY <1>1, <1>2, <1>3, <1>4, <1>5, <1>6, <1>7, <1>8, <1>9, <1>10, <1>11, <1>12, <1>13,
     <1>14, <1>15, <1>16, <1>17, <1>18, <1>19, <1>20, <1>21, <1>22, <1>23, <1>24 DEF Next, Request, Step

\* StreamInv holds in a worker that just started.
LEMMA InitStreamInv == Init => StreamInv
  BY SessionAssumption
  DEF Init, StreamInv, ParkedInv, TakenInv, ShownInv, AttachedInv, NewInv, StartedInv, NewHeldInv,
      LeaveInv, ViewerGetsStream, IsNew

\* StreamInv reads nothing but the variables of the specification.
LEMMA StutterStreamInv ==
  ASSUME StreamInv, UNCHANGED vars
  PROVE  StreamInv'
  BY DEF vars, StreamInv, ParkedInv, TakenInv, ShownInv, AttachedInv, NewInv, StartedInv, NewHeldInv,
         LeaveInv, ViewerGetsStream, IsNew, Owner

\* Who may hold a Session object, whatever the clients do.
THEOREM StreamInvariant == Spec => []StreamInv
<1>1. LockInv /\ NamedInv /\ StreamInv /\ [Next]_vars => StreamInv'
  BY NextStreamInv, StutterStreamInv
<1> QED
  BY InitStreamInv, LockInvariant, <1>1, PTL DEF Spec

\* A session on a client's screen streams to that client.
THEOREM ViewersAreServed == Spec => []ViewerGetsStream
<1>1. StreamInv => ViewerGetsStream
  BY DEF StreamInv
<1> QED
  BY StreamInvariant, <1>1, PTL
=============================================================================
