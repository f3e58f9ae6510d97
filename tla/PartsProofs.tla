---------------------------- MODULE PartsProofs ----------------------------
(***************************************************************************)
(* Proofs about the registry of parked sessions, the links of one browser  *)
(* to the workers, and the pairing of reverse-mode sockets, for any number *)
(* of sessions, timers, workers, links, registrations and calls.           *)
(***************************************************************************)
EXTENDS MCParts, TLAPS

\* The types of what the proofs read; closing belongs to the part that runs.
RegistryTypes ==
  /\ sessions \in [Sids -> Instances \cup {None}]
  /\ expiry \in [Sids -> Tasks \cup {None}]
  /\ timer \in [Tasks -> [sid : Sids \cup {None}, left : 0 .. TTL]]
  /\ stopping \in [Tasks -> Instances \cup {None}]
  /\ held \in SUBSET Instances
  /\ age \in [Sids -> 0 .. TTL]

LinkTypes ==
  /\ phase \in {"connecting", "serving", "closing", "closed"}
  /\ todo \in SUBSET Workers
  /\ conns \in [Workers -> Links \cup {None}]
  /\ of \in [Links -> Workers \cup {None}]
  /\ reader \in [Links -> {"off", "on"}]
  /\ retry \in [Workers -> {"none", "sleep", "dial", "fetch", "cancelled"}]
  /\ tasks \in SUBSET Workers

PairTypes ==
  /\ opener \in [Opens -> {"new", "sending", "waiting", "paired", "timedOut", "failed",
                           "cancelled"}]
  /\ waiters \in SUBSET Opens
  /\ fut \in [Opens -> {"open", "set", "cancelled"}]
  /\ data \in [Opens -> {"none", "knocking", "held", "rejected", "done"}]

\* An id is parked exactly as long as it has a timer, each timer belongs to one id,
\* and what it still has to sleep is what its session still may stay.
StayInv ==
  /\ \A s \in Sids :
       /\ sessions[s] = None <=> expiry[s] = None
       /\ expiry[s] # None => timer[expiry[s]].sid = s
       /\ sessions[s] # None => SidOf[sessions[s]] = s
  /\ \A t \in Tasks : Asleep(t) =>
       /\ expiry[timer[t].sid] = t
       /\ age[timer[t].sid] + timer[t].left = TTL

\* A Session is in one place: with a connection, parked, or being stopped.
OwnInv ==
  /\ closing \subseteq Instances \ held
  /\ \A s \in Sids : sessions[s] \notin held \cup closing
  /\ \A t \in Tasks : stopping[t] # None =>
       /\ stopping[t] \notin held \cup closing
       /\ \A s \in Sids : sessions[s] # stopping[t]
       /\ \A u \in Tasks : stopping[u] = stopping[t] => u = t

\* A worker that waits to be dialled has no link that its new one could replace.
LinkInv ==
  /\ RoutesMatchReaders
  /\ \A l \in Links : reader[l] = "on" => of[l] \in Workers
  /\ \A w \in Workers :
       w \in todo \/ retry[w] \in {"sleep", "dial"} => conns[w] = None

\* The initial pass goes first, and leaves nothing that the teardown would miss.
RetryInv ==
  /\ RetriesAreKnown
  /\ todo # {} => phase = "connecting"
  /\ \A w \in todo : retry[w] = "none" /\ w \notin tasks
  /\ \A w \in Workers : retry[w] = "cancelled" => Hub!ShuttingDown
  /\ Hub!ShuttingDown => tasks = {}

\* The teardown has every link that is still routed to on its list.
TeardownInv ==
  /\ closing \subseteq Links
  /\ \A w \in Workers :
       /\ phase = "closing" /\ conns[w] # None => conns[w] \in closing
       /\ phase = "closed" => conns[w] = None

\* A waiter has not been answered, and a call begins without one.
PairInv ==
  /\ NoOrphanWaiter
  /\ \A o \in Opens :
       /\ opener[o] = "new" => fut[o] = "open"
       /\ fut[o] = "set" => o \notin waiters

RegistryInv == RegistryTypes /\ StayInv
LinksInv    == LinkTypes /\ LinkInv /\ RetryInv
PairingInv  == PairTypes /\ PairInv

\* Whichever part runs.
PartsInv ==
  /\ RegistryInv /\ (part = "registry" => OwnInv)
  /\ LinksInv /\ (part = "links" => TeardownInv)
  /\ PairingInv
-----------------------------------------------------------------------------
\* Every step of the registry keeps its invariant; stop() is called when the whole
\* time to live is over, on a Session that nobody else has.
LEMMA RegistryStep ==
  ASSUME RegistryInv, OwnInv, Next
  PROVE  RegistryInv' /\ OwnInv'
<1> USE RegistryAssumption DEF RegistryInv, RegistryTypes, StayInv, OwnInv, Asleep, Idle, Unused, Cancelled
<1>1. ASSUME NEW i \in Instances, NEW t \in Tasks, Park(i, t)  PROVE RegistryInv' /\ OwnInv'
  <2>1. RegistryTypes'
    BY <1>1 DEF Park
  <2>2. StayInv'
    BY <1>1 DEF Park
  <2>3. OwnInv'
    BY <1>1 DEF Park
  <2> HIDE DEF RegistryTypes, StayInv, OwnInv
  <2> QED  BY <2>1, <2>2, <2>3
<1>2. ASSUME NEW s \in Sids, Take(s)  PROVE RegistryInv' /\ OwnInv'
  <2>1. RegistryTypes'
    BY <1>2 DEF Take
  <2>2. StayInv'
    BY <1>2 DEF Take
  <2>3. OwnInv'
    BY <1>2 DEF Take
  <2> HIDE DEF RegistryTypes, StayInv, OwnInv
  <2> QED  BY <2>1, <2>2, <2>3
<1>3. ASSUME Tick  PROVE RegistryInv' /\ OwnInv'
  <2>1. RegistryTypes'
    BY <1>3 DEF Tick
  <2>2. StayInv'
    BY <1>3 DEF Tick
  <2>3. OwnInv'
    BY <1>3 DEF Tick
  <2> HIDE DEF RegistryTypes, StayInv, OwnInv
  <2> QED  BY <2>1, <2>2, <2>3
<1>4. ASSUME NEW t \in Tasks, Expire(t)  PROVE RegistryInv' /\ OwnInv'
  <2>1. RegistryTypes'
    BY <1>4 DEF Expire
  <2>2. StayInv'
    BY <1>4 DEF Expire
  <2>3. OwnInv'
    BY <1>4 DEF Expire
  <2> HIDE DEF RegistryTypes, StayInv, OwnInv
  <2> QED  BY <2>1, <2>2, <2>3
<1>5. ASSUME NEW t \in Tasks, ExpireDone(t)  PROVE RegistryInv' /\ OwnInv'
  <2>1. RegistryTypes'
    BY <1>5 DEF ExpireDone
  <2>2. StayInv'
    BY <1>5 DEF ExpireDone
  <2>3. OwnInv'
    BY <1>5 DEF ExpireDone
  <2> HIDE DEF RegistryTypes, StayInv, OwnInv
  <2> QED  BY <2>1, <2>2, <2>3
<1>6. ASSUME StopAll  PROVE RegistryInv' /\ OwnInv'
  <2>1. RegistryTypes'
    BY <1>6 DEF StopAll
  <2>2. StayInv'
    BY <1>6 DEF StopAll
  <2>3. OwnInv'
    BY <1>6 DEF StopAll
  <2> HIDE DEF RegistryTypes, StayInv, OwnInv
  <2> QED  BY <2>1, <2>2, <2>3
<1>7. ASSUME NEW i \in Instances, StopNext(i)  PROVE RegistryInv' /\ OwnInv'
  <2>1. RegistryTypes'
    BY <1>7 DEF StopNext
  <2>2. StayInv'
    BY <1>7 DEF StopNext
  <2>3. OwnInv'
    BY <1>7 DEF StopNext
  <2> HIDE DEF RegistryTypes, StayInv, OwnInv
  <2> QED  BY <2>1, <2>2, <2>3
<1> HIDE DEF RegistryInv, OwnInv
<1> QED  BY <1>1, <1>2, <1>3, <1>4, <1>5, <1>6, <1>7 DEF Next

LEMMA LinksStep ==
  ASSUME LinksInv, TeardownInv, Hub!Next
  PROVE  LinksInv' /\ TeardownInv'
<1> USE PartsAssumption DEF Hub!LinksAssumption, LinksInv, LinkTypes, LinkInv, RetryInv, TeardownInv,
       RoutesMatchReaders, Hub!RoutesMatchReaders, RetriesAreKnown, Hub!RetriesAreKnown,
       Hub!ShuttingDown, Hub!linkVars, Hub!retryVars
<1>1. ASSUME NEW w \in Workers, NEW l \in Links, Hub!InitialConnect(w, l)  PROVE LinksInv' /\ TeardownInv'
  <2>1. LinkTypes'
    BY <1>1 DEF Hub!InitialConnect, Hub!Connected
  <2>2. LinkInv'
    BY <1>1 DEF Hub!InitialConnect, Hub!Connected
  <2>3. RetryInv'
    BY <1>1 DEF Hub!InitialConnect, Hub!Connected
  <2>4. TeardownInv'
    BY <1>1 DEF Hub!InitialConnect, Hub!Connected
  <2> HIDE DEF LinkTypes, LinkInv, RetryInv, TeardownInv
  <2> QED  BY <2>1, <2>2, <2>3, <2>4
<1>2. ASSUME NEW w \in Workers, Hub!InitialFails(w)  PROVE LinksInv' /\ TeardownInv'
  <2>1. LinkTypes'
    BY <1>2 DEF Hub!InitialFails
  <2>2. LinkInv'
    BY <1>2 DEF Hub!InitialFails
  <2>3. RetryInv'
    BY <1>2 DEF Hub!InitialFails
  <2>4. TeardownInv'
    BY <1>2 DEF Hub!InitialFails
  <2> HIDE DEF LinkTypes, LinkInv, RetryInv, TeardownInv
  <2> QED  BY <2>1, <2>2, <2>3, <2>4
<1>3. ASSUME Hub!NoWorkers  PROVE LinksInv' /\ TeardownInv'
  <2>1. LinkTypes'
    BY <1>3 DEF Hub!NoWorkers, Hub!CancelAll
  <2>2. LinkInv'
    BY <1>3 DEF Hub!NoWorkers, Hub!CancelAll
  <2>3. RetryInv'
    BY <1>3 DEF Hub!NoWorkers, Hub!CancelAll
  <2>4. TeardownInv'
    BY <1>3 DEF Hub!NoWorkers, Hub!CancelAll
  <2> HIDE DEF LinkTypes, LinkInv, RetryInv, TeardownInv
  <2> QED  BY <2>1, <2>2, <2>3, <2>4
<1>4. ASSUME Hub!Serve  PROVE LinksInv' /\ TeardownInv'
  <2>1. LinkTypes'
    BY <1>4 DEF Hub!Serve
  <2>2. LinkInv'
    BY <1>4 DEF Hub!Serve
  <2>3. RetryInv'
    BY <1>4 DEF Hub!Serve
  <2>4. TeardownInv'
    BY <1>4 DEF Hub!Serve
  <2> HIDE DEF LinkTypes, LinkInv, RetryInv, TeardownInv
  <2> QED  BY <2>1, <2>2, <2>3, <2>4
<1>5. ASSUME NEW l \in Links, Hub!Lose(l)  PROVE LinksInv' /\ TeardownInv'
  <2>1. LinkTypes'
    BY <1>5 DEF Hub!Lose
  <2>2. LinkInv'
    BY <1>5 DEF Hub!Lose
  <2>3. RetryInv'
    BY <1>5 DEF Hub!Lose
  <2>4. TeardownInv'
    BY <1>5 DEF Hub!Lose
  <2> HIDE DEF LinkTypes, LinkInv, RetryInv, TeardownInv
  <2> QED  BY <2>1, <2>2, <2>3, <2>4
<1>6. ASSUME NEW l \in Links, Hub!ReaderEnds(l)  PROVE LinksInv' /\ TeardownInv'
  <2>1. LinkTypes'
    BY <1>6 DEF Hub!ReaderEnds, Hub!OnDisconnect
  <2>2. LinkInv'
    BY <1>6 DEF Hub!ReaderEnds, Hub!OnDisconnect
  <2>3. RetryInv'
    BY <1>6 DEF Hub!ReaderEnds, Hub!OnDisconnect
  <2>4. TeardownInv'
    BY <1>6 DEF Hub!ReaderEnds, Hub!OnDisconnect
  <2> HIDE DEF LinkTypes, LinkInv, RetryInv, TeardownInv
  <2> QED  BY <2>1, <2>2, <2>3, <2>4
<1>7. ASSUME NEW l \in Links, Hub!ReaderFails(l)  PROVE LinksInv' /\ TeardownInv'
  <2>1. LinkTypes'
    BY <1>7 DEF Hub!ReaderFails, Hub!OnDisconnect
  <2>2. LinkInv'
    BY <1>7 DEF Hub!ReaderFails, Hub!OnDisconnect
  <2>3. RetryInv'
    BY <1>7 DEF Hub!ReaderFails, Hub!OnDisconnect
  <2>4. TeardownInv'
    BY <1>7 DEF Hub!ReaderFails, Hub!OnDisconnect
  <2> HIDE DEF LinkTypes, LinkInv, RetryInv, TeardownInv
  <2> QED  BY <2>1, <2>2, <2>3, <2>4
<1>8. ASSUME NEW l \in Links, Hub!Forgotten(l)  PROVE LinksInv' /\ TeardownInv'
  <2>1. LinkTypes'
    BY <1>8 DEF Hub!Forgotten
  <2>2. LinkInv'
    BY <1>8 DEF Hub!Forgotten
  <2>3. RetryInv'
    BY <1>8 DEF Hub!Forgotten
  <2>4. TeardownInv'
    BY <1>8 DEF Hub!Forgotten
  <2> HIDE DEF LinkTypes, LinkInv, RetryInv, TeardownInv
  <2> QED  BY <2>1, <2>2, <2>3, <2>4
<1>9. ASSUME NEW w \in Workers, Hub!RetryWakes(w)  PROVE LinksInv' /\ TeardownInv'
  <2>1. LinkTypes'
    BY <1>9 DEF Hub!RetryWakes, Hub!Usable, Hub!Ended
  <2>2. LinkInv'
    BY <1>9 DEF Hub!RetryWakes, Hub!Usable, Hub!Ended
  <2>3. RetryInv'
    BY <1>9 DEF Hub!RetryWakes, Hub!Usable, Hub!Ended
  <2>4. TeardownInv'
    BY <1>9 DEF Hub!RetryWakes, Hub!Usable, Hub!Ended
  <2> HIDE DEF LinkTypes, LinkInv, RetryInv, TeardownInv
  <2> QED  BY <2>1, <2>2, <2>3, <2>4
<1>10. ASSUME NEW w \in Workers, NEW l \in Links, Hub!RetryConnects(w, l)  PROVE LinksInv' /\ TeardownInv'
  <2>1. LinkTypes'
    BY <1>10 DEF Hub!RetryConnects, Hub!Connected
  <2>2. LinkInv'
    BY <1>10 DEF Hub!RetryConnects, Hub!Connected
  <2>3. RetryInv'
    BY <1>10 DEF Hub!RetryConnects, Hub!Connected
  <2>4. TeardownInv'
    BY <1>10 DEF Hub!RetryConnects, Hub!Connected
  <2> HIDE DEF LinkTypes, LinkInv, RetryInv, TeardownInv
  <2> QED  BY <2>1, <2>2, <2>3, <2>4
<1>11. ASSUME NEW w \in Workers, Hub!RetryFails(w)  PROVE LinksInv' /\ TeardownInv'
  <2>1. LinkTypes'
    BY <1>11 DEF Hub!RetryFails
  <2>2. LinkInv'
    BY <1>11 DEF Hub!RetryFails
  <2>3. RetryInv'
    BY <1>11 DEF Hub!RetryFails
  <2>4. TeardownInv'
    BY <1>11 DEF Hub!RetryFails
  <2> HIDE DEF LinkTypes, LinkInv, RetryInv, TeardownInv
  <2> QED  BY <2>1, <2>2, <2>3, <2>4
<1>12. ASSUME NEW w \in Workers, Hub!RetryDone(w)  PROVE LinksInv' /\ TeardownInv'
  <2>1. LinkTypes'
    BY <1>12 DEF Hub!RetryDone, Hub!Ended
  <2>2. LinkInv'
    BY <1>12 DEF Hub!RetryDone, Hub!Ended
  <2>3. RetryInv'
    BY <1>12 DEF Hub!RetryDone, Hub!Ended
  <2>4. TeardownInv'
    BY <1>12 DEF Hub!RetryDone, Hub!Ended
  <2> HIDE DEF LinkTypes, LinkInv, RetryInv, TeardownInv
  <2> QED  BY <2>1, <2>2, <2>3, <2>4
<1>13. ASSUME NEW w \in Workers, Hub!RetryCancelled(w)  PROVE LinksInv' /\ TeardownInv'
  <2>1. LinkTypes'
    BY <1>13 DEF Hub!RetryCancelled, Hub!Ended
  <2>2. LinkInv'
    BY <1>13 DEF Hub!RetryCancelled, Hub!Ended
  <2>3. RetryInv'
    BY <1>13 DEF Hub!RetryCancelled, Hub!Ended
  <2>4. TeardownInv'
    BY <1>13 DEF Hub!RetryCancelled, Hub!Ended
  <2> HIDE DEF LinkTypes, LinkInv, RetryInv, TeardownInv
  <2> QED  BY <2>1, <2>2, <2>3, <2>4
<1>14. ASSUME Hub!HangUp  PROVE LinksInv' /\ TeardownInv'
  <2>1. LinkTypes'
    BY <1>14 DEF Hub!HangUp, Hub!CancelAll
  <2>2. LinkInv'
    BY <1>14 DEF Hub!HangUp, Hub!CancelAll
  <2>3. RetryInv'
    BY <1>14 DEF Hub!HangUp, Hub!CancelAll
  <2>4. TeardownInv'
    BY <1>14 DEF Hub!HangUp, Hub!CancelAll
  <2> HIDE DEF LinkTypes, LinkInv, RetryInv, TeardownInv
  <2> QED  BY <2>1, <2>2, <2>3, <2>4
<1>15. ASSUME NEW l \in Links, Hub!CloseLink(l)  PROVE LinksInv' /\ TeardownInv'
  <2>1. LinkTypes'
    BY <1>15 DEF Hub!CloseLink, Hub!OnDisconnect
  <2>2. LinkInv'
    BY <1>15 DEF Hub!CloseLink, Hub!OnDisconnect
  <2>3. RetryInv'
    BY <1>15 DEF Hub!CloseLink, Hub!OnDisconnect
  <2>4. TeardownInv'
    BY <1>15 DEF Hub!CloseLink, Hub!OnDisconnect
  <2> HIDE DEF LinkTypes, LinkInv, RetryInv, TeardownInv
  <2> QED  BY <2>1, <2>2, <2>3, <2>4
<1>16. ASSUME Hub!Closed  PROVE LinksInv' /\ TeardownInv'
  <2>1. LinkTypes'
    BY <1>16 DEF Hub!Closed
  <2>2. LinkInv'
    BY <1>16 DEF Hub!Closed
  <2>3. RetryInv'
    BY <1>16 DEF Hub!Closed
  <2>4. TeardownInv'
    BY <1>16 DEF Hub!Closed
  <2> HIDE DEF LinkTypes, LinkInv, RetryInv, TeardownInv
  <2> QED  BY <2>1, <2>2, <2>3, <2>4
<1> HIDE DEF LinksInv, TeardownInv
<1> QED
  BY <1>1, <1>2, <1>3, <1>4, <1>5, <1>6, <1>7, <1>8, <1>9, <1>10, <1>11, <1>12, <1>13, <1>14, <1>15, <1>16
  DEF Hub!Next, Hub!Handler, Hub!Retry

LEMMA PairingStep ==
  ASSUME PairingInv, Inb!Next
  PROVE  PairingInv'
<1> USE DEF PairingInv, PairTypes, PairInv, NoOrphanWaiter, Inb!NoOrphanWaiter, Inb!openVars
<1>1. ASSUME NEW k \in Ctrls, Inb!Register(k)  PROVE PairingInv'
  BY <1>1 DEF Inb!Register
<1>2. ASSUME NEW k \in Ctrls, Inb!Lose(k)  PROVE PairingInv'
  BY <1>2 DEF Inb!Lose
<1>3. ASSUME NEW k \in Ctrls, Inb!EndpointEnds(k)  PROVE PairingInv'
  BY <1>3 DEF Inb!EndpointEnds
<1>4. ASSUME NEW o \in Opens, Inb!Open(o)  PROVE PairingInv'
  BY <1>4 DEF Inb!Open
<1>5. ASSUME NEW o \in Opens, Inb!SendCommand(o)  PROVE PairingInv'
  BY <1>5 DEF Inb!SendCommand
<1>6. ASSUME NEW o \in Opens, Inb!SendFails(o)  PROVE PairingInv'
  BY <1>6 DEF Inb!SendFails
<1>7. ASSUME NEW o \in Opens, Inb!Pair(o)  PROVE PairingInv'
  BY <1>7 DEF Inb!Pair
<1>8. ASSUME NEW o \in Opens, Inb!TimesOut(o)  PROVE PairingInv'
  BY <1>8 DEF Inb!TimesOut
<1>9. ASSUME NEW o \in Opens, Inb!Cancel(o)  PROVE PairingInv'
  BY <1>9 DEF Inb!Cancel
<1>10. ASSUME NEW o \in Opens, Inb!Knock(o)  PROVE PairingInv'
  BY <1>10 DEF Inb!Knock
<1>11. ASSUME NEW o \in Opens, Inb!DialFails(o)  PROVE PairingInv'
  BY <1>11 DEF Inb!DialFails
<1>12. ASSUME NEW o \in Opens, Inb!Arrive(o)  PROVE PairingInv'
  BY <1>12 DEF Inb!Arrive
<1>13. ASSUME NEW o \in Opens, Inb!LinkEnds(o)  PROVE PairingInv'
  BY <1>13 DEF Inb!LinkEnds
<1> HIDE DEF PairingInv
<1> QED
  BY <1>1, <1>2, <1>3, <1>4, <1>5, <1>6, <1>7, <1>8, <1>9, <1>10, <1>11, <1>12, <1>13
  DEF Inb!Next, Inb!Opener
-----------------------------------------------------------------------------
LEMMA PartsInit == MCInit => PartsInv
<1> SUFFICES ASSUME MCInit
             PROVE  PartsInv
  OBVIOUS
<1>1. RegistryInv /\ OwnInv
  BY RegistryAssumption DEF MCInit, Init, RegistryInv, RegistryTypes, StayInv, OwnInv, Asleep, Idle
<1>2. LinksInv /\ TeardownInv
  BY PartsAssumption DEF MCInit, Hub!Init, Hub!LinksAssumption, LinksInv, LinkTypes, LinkInv, RetryInv,
     TeardownInv, RoutesMatchReaders, Hub!RoutesMatchReaders, RetriesAreKnown, Hub!RetriesAreKnown,
     Hub!ShuttingDown
<1>3. PairingInv
  BY DEF MCInit, Inb!Init, PairingInv, PairTypes, PairInv, NoOrphanWaiter, Inb!NoOrphanWaiter
<1> QED  BY <1>1, <1>2, <1>3 DEF PartsInv

\* What a part does leaves the invariants of the two others alone.
LEMMA RegistryFrame == RegistryInv /\ UNCHANGED ofReg => RegistryInv'
  BY DEF ofReg, RegistryInv, RegistryTypes, StayInv, Asleep

LEMMA LinksFrame == LinksInv /\ UNCHANGED ofHub => LinksInv'
  BY DEF ofHub, LinksInv, LinkTypes, LinkInv, RetryInv, RoutesMatchReaders, Hub!RoutesMatchReaders,
     RetriesAreKnown, Hub!RetriesAreKnown, Hub!ShuttingDown

LEMMA PairingFrame == PairingInv /\ UNCHANGED ofInb => PairingInv'
  BY DEF ofInb, PairingInv, PairTypes, PairInv, NoOrphanWaiter, Inb!NoOrphanWaiter

LEMMA PartsStep == PartsInv /\ [MCNext]_allVars => PartsInv'
<1> SUFFICES ASSUME PartsInv, [MCNext]_allVars
             PROVE  PartsInv'
  OBVIOUS
<1> USE RegistryFrame, LinksFrame, PairingFrame DEF PartsInv
<1>1. CASE Registry(Next)
  BY <1>1, RegistryStep DEF Registry
<1>2. CASE Linking(Hub!Next)
  BY <1>2, LinksStep DEF Linking
<1>3. CASE Pairing(Inb!Next)
  <2>1. UNCHANGED <<ofReg, ofHub>>
    BY <1>3 DEF Pairing, vars, ofReg
  <2> QED  BY <1>3, <2>1, PairingStep DEF Pairing
<1>4. CASE UNCHANGED allVars
  <2>1. UNCHANGED <<part, ofReg, closing, ofHub, ofInb>>
    BY <1>4 DEF allVars, vars, ofReg
  <2>2. part = "registry" => OwnInv'
    BY <2>1 DEF OwnInv, ofReg
  <2>3. part = "links" => TeardownInv'
    BY <2>1 DEF TeardownInv, ofHub
  <2> QED  BY <2>1, <2>2, <2>3
<1> QED  BY <1>1, <1>2, <1>3, <1>4 DEF MCNext

\* The inductive invariant of the three parts: where a Session is and how long it
\* may stay, what routing, readers and retries know of each other, and which calls
\* still wait for a socket.
THEOREM PartsInvariant == MCSpec => []PartsInv
<1>1. MCSpec => MCInit /\ [][MCNext]_allVars
  BY DEF MCSpec
<1> QED  BY <1>1, PartsInit, PartsStep, PTL

\* No timer of an earlier stay is left to stop the session of a later one: take()
\* and park() cancel before they record.
THEOREM TimersNeverStale == MCSpec => []TimersMatch
<1>1. PartsInv => TimersMatch
  BY RegistryAssumption DEF PartsInv, RegistryInv, RegistryTypes, StayInv, TimersMatch, Asleep
<1> QED  BY <1>1, PartsInvariant, PTL

\* _expire_later stops a Session only when it was parked for all of DETACH_TTL, and
\* one that nobody holds.
THEOREM ExpiryNeverEarly == MCSpec => NeverEarly
<1> DEFINE Due == \A t \in Tasks :
       stopping[t] = None /\ stopping'[t] # None =>
         /\ age[timer[t].sid] = TTL
         /\ stopping'[t] \notin held
         /\ \A s \in Sids : sessions'[s] # stopping'[t]
<1>1. ASSUME PartsInv, [MCNext]_allVars  PROVE [Due]_vars
  <2> SUFFICES ASSUME stopping' # stopping, NEW t \in Tasks, stopping[t] = None, stopping'[t] # None
               PROVE  /\ age[timer[t].sid] = TTL
                      /\ stopping'[t] \notin held
                      /\ \A s \in Sids : sessions'[s] # stopping'[t]
    BY <1>1 DEF allVars, vars, MCNext
  <2>1. Registry(Next)
    BY <1>1 DEF MCNext, Linking, Pairing, allVars, vars, ofReg
  <2>2. OwnInv /\ RegistryInv
    BY <1>1, <2>1 DEF PartsInv, Registry
  <2>3. PICK u \in Tasks : Expire(u) \/ ExpireDone(u)
    BY <2>1 DEF Registry, Next, Park, Take, Tick, StopAll, StopNext
  <2>4. Expire(u) /\ u = t
    BY <2>2, <2>3 DEF Expire, ExpireDone, RegistryInv, RegistryTypes
  <2> QED
    BY RegistryAssumption, <2>2, <2>4 DEF Expire, Asleep, RegistryInv, RegistryTypes, StayInv, OwnInv
<1>2. MCSpec => [][MCNext]_allVars
  BY DEF MCSpec
<1> QED  BY <1>1, <1>2, PartsInvariant, PTL DEF NeverEarly

\* The hub routes only to links that are read, and reads none it cannot route to.
THEOREM RoutesAreRead == MCSpec => []RoutesMatchReaders
<1>1. PartsInv => RoutesMatchReaders
  BY DEF PartsInv, LinksInv, LinkInv
<1> QED  BY <1>1, PartsInvariant, PTL

\* retry_tasks names every live retry task, so that the teardown cancels them all.
THEOREM NoRetryOutlives == MCSpec => []RetriesAreKnown
<1>1. PartsInv => RetriesAreKnown
  BY DEF PartsInv, LinksInv, RetryInv
<1> QED  BY <1>1, PartsInvariant, PTL

\* A worker is given up only by a retry task that had reconnected it and was still
\* fetching the projects when the new link was lost.
THEOREM AbandonedByFetchOnly == MCSpec => AbandonedOnlyAfterFetch
<1>1. ASSUME PartsInv, [MCNext]_allVars, ~ UNCHANGED Hub!vars, NEW w \in Workers,
             Hub!Abandoned(w)', ~ Hub!Abandoned(w)
      PROVE  retry[w] = "fetch"
  <2> USE <1>1 DEF Hub!Abandoned, Hub!ShuttingDown
  <2>1. Linking(Hub!Next) \/ (UNCHANGED ofHub)
    BY DEF MCNext, Registry, Pairing, allVars
  <2>2. CASE UNCHANGED ofHub
    BY <2>2 DEF ofHub
  <2>3. CASE Linking(Hub!Next)
    <3> USE <2>3 DEF PartsInv, Linking, LinksInv, LinkTypes, LinkInv, RetryInv,
           RetriesAreKnown, Hub!RetriesAreKnown, Hub!linkVars, Hub!retryVars
    <3>1. CASE Hub!Handler
      <4>1. CASE \E v \in Workers : Hub!InitialFails(v)
        BY <4>1 DEF Hub!InitialFails
      <4>2. CASE \E v \in Workers, l \in Links : Hub!InitialConnect(v, l)
        <5>1. PICK v \in Workers, l \in Links : Hub!InitialConnect(v, l)
          BY <4>2
        <5>2. l # None /\ conns' = [conns EXCEPT ![v] = l] /\ todo' = todo \ {v} /\ tasks' = tasks
          BY <5>1, PartsAssumption DEF Hub!InitialConnect, Hub!Connected, Hub!LinksAssumption
        <5> QED  BY <5>1, <5>2 DEF Hub!InitialConnect
      <4>3. CASE Hub!NoWorkers \/ Hub!Serve \/ Hub!Closed
        BY <4>3 DEF Hub!NoWorkers, Hub!Serve, Hub!Closed
      <4>4. CASE \E l \in Links : Hub!CloseLink(l)
        BY <4>4 DEF Hub!CloseLink
      <4> QED  BY <3>1, <4>1, <4>2, <4>3, <4>4 DEF Hub!Handler
    <3>2. CASE \E l \in Links : Hub!ReaderEnds(l) \/ Hub!ReaderFails(l) \/ Hub!Lose(l) \/ Hub!Forgotten(l)
      BY <3>2 DEF Hub!ReaderEnds, Hub!ReaderFails, Hub!Lose, Hub!Forgotten, Hub!OnDisconnect
    <3>3. CASE \E v \in Workers : Hub!Retry(v)
      BY <3>3 DEF Hub!Retry, Hub!RetryWakes, Hub!RetryFails, Hub!RetryDone, Hub!RetryCancelled,
         Hub!RetryConnects, Hub!Connected, Hub!Ended, Hub!Usable
    <3>4. CASE Hub!HangUp
      BY <3>4 DEF Hub!HangUp
    <3> QED  BY <3>1, <3>2, <3>3, <3>4 DEF Hub!Next
  <2> QED  BY <2>1, <2>2, <2>3
<1>2. MCSpec => [][MCNext]_allVars
  BY DEF MCSpec
<1>3. PartsInv /\ [MCNext]_allVars =>
        [\A w \in Workers : Hub!Abandoned(w)' /\ ~ Hub!Abandoned(w) => retry[w] = "fetch"]_(Hub!vars)
  BY <1>1
<1> QED
  BY <1>2, <1>3, PartsInvariant, PTL DEF AbandonedOnlyAfterFetch, Hub!AbandonedOnlyAfterFetch

\* open_session leaves no waiter behind when it fails or times out.
THEOREM WaitersAreAwaited == MCSpec => []NoOrphanWaiter
<1>1. PartsInv => NoOrphanWaiter
  BY DEF PartsInv, PairingInv, PairInv
<1> QED  BY <1>1, PartsInvariant, PTL

\* A data socket dialled for a call that has given up is never kept.
THEOREM StaleSocketRejected == MCSpec => StaleRejected
<1> DEFINE Held == \A o \in Opens : opener[o] \in {"timedOut", "failed"} /\ data'[o] # data[o] => data'[o] # "held"
<1>1. ASSUME PartsInv, [MCNext]_allVars  PROVE [Held]_(Inb!vars)
  <2> USE <1>1 DEF Inb!vars
  <2> SUFFICES ASSUME NEW o \in Opens, opener[o] \in {"timedOut", "failed"}, data'[o] # data[o]
               PROVE  data'[o] # "held"
    OBVIOUS
  <2>1. Inb!Next
    BY DEF MCNext, Registry, Linking, Pairing, allVars, ofInb
  <2>2. PICK p \in Opens : Inb!Knock(p) \/ Inb!Arrive(p) \/ Inb!LinkEnds(p)
    BY <2>1 DEF Inb!Next, Inb!Register, Inb!Lose, Inb!EndpointEnds, Inb!Open, Inb!Opener, Inb!SendCommand,
       Inb!SendFails, Inb!Pair, Inb!TimesOut, Inb!Cancel, Inb!DialFails
  <2> QED
    BY <2>2 DEF Inb!Knock, Inb!Arrive, Inb!LinkEnds, PartsInv, PairingInv, PairTypes, PairInv,
       NoOrphanWaiter, Inb!NoOrphanWaiter
<1>2. MCSpec => [][MCNext]_allVars
  BY DEF MCSpec
<1> QED  BY <1>1, <1>2, PartsInvariant, PTL DEF StaleRejected, Inb!StaleRejected
=============================================================================
