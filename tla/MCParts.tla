------------------------------ MODULE MCParts -------------------------------
(***************************************************************************)
(* Small instances of three parts that share no state, one of them per     *)
(* behavior, so that a run of one is a run of all: the registry of parked  *)
(* sessions, where two Sessions share one id as they do when a second one  *)
(* is started while the first is still parked; the links of one browser    *)
(* to the workers; and the pairing of reverse-mode sockets.                *)
(***************************************************************************)
EXTENDS SessionRegistry

CONSTANTS Workers, Links, MaxLeaks, Ctrls, Opens, i3, s1, s2

VARIABLES
  part,
  phase, todo, conns, of, sock, reader, retry, tasks,
  control, ctrl, opener, via, waiters, fut, told, data

MCSidOf == [i \in Instances |-> IF i = i3 THEN s2 ELSE s1]

Hub == INSTANCE HubLinks
Inb == INSTANCE InboundPairing

ASSUME PartsAssumption == Hub!LinksAssumption /\ Inb!PairingAssumption

\* closing is the one of the part that runs: each of two parts has its own.
ofReg == <<sessions, expiry, timer, stopping, held, age>>
ofHub == <<phase, todo, conns, of, sock, reader, retry, tasks>>
ofInb == <<control, ctrl, opener, via, waiters, fut, told, data>>
allVars == <<part, vars, ofHub, ofInb>>

MCInit == part \in {"registry", "links", "pairing"} /\ Init /\ Hub!Init /\ Inb!Init

Registry(A) == part = "registry" /\ A /\ UNCHANGED <<part, ofHub, ofInb>>
Linking(A)  == part = "links" /\ A /\ UNCHANGED <<part, ofReg, ofInb>>
Pairing(A)  == part = "pairing" /\ A /\ UNCHANGED <<part, vars, ofHub>>

MCNext == Registry(Next) \/ Linking(Hub!Next) \/ Pairing(Inb!Next)

\* The fairness of the three.
MCFairness ==
  /\ WF_allVars(Registry(Tick))
  /\ \A t \in Tasks : SF_allVars(Registry(Expire(t)))
  /\ WF_allVars(Linking(Hub!Handler))
  /\ \A l \in Links : WF_allVars(Linking(Hub!ReaderEnds(l)))
  /\ \A w \in Workers : /\ WF_allVars(Linking(Hub!Retry(w)))
                         /\ SF_allVars(Linking(\E l \in Links : Hub!RetryConnects(w, l)))
  /\ \A o \in Opens : WF_allVars(Pairing(Inb!Opener(o)))

MCSpec == MCInit /\ [][MCNext]_allVars /\ MCFairness
-----------------------------------------------------------------------------
\* What is checked of the links and of the pairing, under its own name.
RoutesMatchReaders == Hub!RoutesMatchReaders
RetriesAreKnown == Hub!RetriesAreKnown
AbandonedOnlyAfterFetch == Hub!AbandonedOnlyAfterFetch
Reconnects == Hub!Reconnects
TeardownCompletes == Hub!TeardownCompletes
NoOrphanWaiter == Inb!NoOrphanWaiter
StaleRejected == Inb!StaleRejected
OpensSettle == Inb!OpensSettle
=============================================================================
