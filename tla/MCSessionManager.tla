-------------------------- MODULE MCSessionManager --------------------------
(***************************************************************************)
(* Small instances of SessionManager for TLC.                              *)
(***************************************************************************)
EXTENDS SessionManager, TLC

CONSTANTS c1, c2, c3, phone, laptop

\* c1 and c2 are two sockets of one device, c3 is another device.
MCLabel == [c \in Conns |-> IF c = c3 THEN phone ELSE laptop]

Symmetry == Permutations(Instances) \cup Permutations({c1, c2})

\* What a garbage Session object remembers is of no consequence.
View == <<locks, mu, waiters, running, registry, st, current, pc, tgt, mine, aside,
          sid, force, known,
          [i \in Instances |->
             IF Free(i) THEN <<>> ELSE <<sidOf[i], send[i], Adopts # {} /\ i \in own>>]>>
=============================================================================
