---------------------------- MODULE SessionLocks ----------------------------
(***************************************************************************)
(* What the lock manager of a worker promises                              *)
(* (shared/worker_shared/locks/manager.py), without its mutex, its queue   *)
(* or the tasks that call it: every session id has at most one owner, an   *)
(* owner loses its lock to another connection only after that connection   *)
(* claimed it and the owner was told, and one takeover is under way at a   *)
(* time.                                                                   *)
(***************************************************************************)
CONSTANTS Conns, Sids, NoConn, NoSid

VARIABLES
  owner,      \* the connection owning each session id
  claimant,   \* the connection taking a lock over, if any
  claimed     \* the session id it takes over

vars == <<owner, claimant, claimed>>

Init ==
  /\ owner = [s \in Sids |-> NoConn]
  /\ claimant = NoConn
  /\ claimed = NoSid

Quiet == claimant = NoConn

\* A free lock, or one's own, is granted.
Acquire(c, s) ==
  /\ Quiet
  /\ owner[s] \in {c, NoConn}
  /\ owner' = [owner EXCEPT ![s] = c]
  /\ UNCHANGED <<claimant, claimed>>

\* The owner is being told that its lock is revoked.
Claim(c, s) ==
  /\ Quiet
  /\ owner[s] \notin {c, NoConn}
  /\ claimant' = c
  /\ claimed' = s
  /\ UNCHANGED owner

TakeOver ==
  /\ ~ Quiet
  /\ owner' = [owner EXCEPT ![claimed] = claimant]
  /\ claimant' = NoConn
  /\ claimed' = NoSid

\* A connection gives up one lock, or all of them when it closes.
Release(c, S) ==
  /\ Quiet
  /\ owner' = [s \in Sids |-> IF s \in S /\ owner[s] = c THEN NoConn ELSE owner[s]]
  /\ UNCHANGED <<claimant, claimed>>

Next ==
  \/ \E c \in Conns, s \in Sids :
       Acquire(c, s) \/ Claim(c, s) \/ Release(c, {s})
  \/ \E c \in Conns : Release(c, Sids)
  \/ TakeOver

Spec == Init /\ [][Next]_vars

\* A claim is always settled.
FairSpec == Spec /\ WF_vars(TakeOver)
=============================================================================
