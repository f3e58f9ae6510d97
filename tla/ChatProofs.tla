----------------------------- MODULE ChatProofs -----------------------------
(***************************************************************************)
(* Proofs about the project ids the hub shows and the chat that keeps them,*)
(* for any set of workers, sessions and prompts and for queues of any      *)
(* length.                                                                 *)
(***************************************************************************)
EXTENDS ChatClient, FiniteSetTheorems, TLAPS

-----------------------------------------------------------------------------
(* The messages, by who reads them.                                        *)

Request == [t : {"prompt"}, p : Prompts] \cup [t : {"resume"}, id : Nat, s : Sessions]
Order == [t : {"prompt"}, p : Prompts] \cup [t : {"resume"}, s : Sessions]
Event ==
  [t : {"error"}] \cup [t : {"no_session", "busy"}, p : Prompts]
    \cup [t : {"started"}, s : Sessions, busy : BOOLEAN] \cup [t : {"result"}, s : Sessions]
    \cup [t : {"reconnected"}, w : Workers]
Listing == [t : {"projects"}, of : UNION {[D -> Nat] : D \in SUBSET Workers}]
Message == Event \cup Listing

HubTypes ==
  /\ hub \in BOOLEAN /\ links \subseteq Workers /\ active \in Workers \cup {None}
  /\ reqs \in Seq(Request) /\ wire \in Seq(Message) /\ inbox \in [Workers -> Seq(Order)]
  /\ offset \in [Workers -> Nat \cup {None}] /\ listed \subseteq Workers
  /\ cur \in [Workers -> Sessions \cup {None}]
  /\ live \subseteq Sessions /\ busy \subseteq Sessions
  /\ given \in [Prompts -> Seq(Sessions)]

TabTypes ==
  /\ ws \in {"down", "open", "closing"} /\ streaming \in BOOLEAN /\ dropped \in BOOLEAN
  /\ view \in Sessions \cup {None} /\ proj \in Nat \cup {None}
  /\ ids \in [Workers -> Nat \cup {None}]
  /\ last \in Prompts \cup {None} /\ queued \in Prompts \cup {None}
  /\ typed \in [Prompts -> Sessions \cup {None}]

ChatTypes == HubTypes /\ TabTypes
-----------------------------------------------------------------------------
(* The index.                                                              *)

\* The workers that have an offset.
Numbered == {v \in Workers : offset[v] # None}

\* Offsets are handed out from 0 on, to one worker each; a worker is listed under
\* the one it has.
IndexInv ==
  /\ listed \subseteq Numbered
  /\ \A v \in Numbered : offset[v] < Cardinality(Numbered)
  /\ \A v, w \in Numbered : offset[v] = offset[w] => v = w

\* A project list on its way to the browser says what the index still says.
ShownInv ==
  \A k \in DOMAIN wire : wire[k].t = "projects" =>
    /\ DOMAIN wire[k].of \subseteq listed
    /\ \A w \in DOMAIN wire[k].of : wire[k].of[w] = offset[w]

RoutingInv == IndexInv /\ ShownInv
ChatInv == ChatTypes /\ RoutingInv
-----------------------------------------------------------------------------
(* What goes in and out of a queue.                                        *)

LEMMA TailOf ==
  ASSUME NEW S, NEW q \in Seq(S), q # <<>>
  PROVE  /\ Head(q) \in S /\ Tail(q) \in Seq(S)
         /\ \A k \in DOMAIN Tail(q) : k + 1 \in DOMAIN q /\ Tail(q)[k] = q[k + 1]
  OBVIOUS

LEMMA AppendOf ==
  ASSUME NEW S, NEW q \in Seq(S), NEW m \in S
  PROVE  /\ Append(q, m) \in Seq(S)
         /\ \A k \in DOMAIN Append(q, m) :
              (k \in DOMAIN q /\ Append(q, m)[k] = q[k]) \/ Append(q, m)[k] = m
  OBVIOUS

LEMMA EventIsMessage == \A m \in Event : m \in Message /\ m.t # "projects"
  BY DEF Event, Message

\* What is pushed to the browser, other than a project list, changes nothing that
\* has been shown.
LEMMA Pushed ==
  ASSUME HubTypes, ShownInv, UNCHANGED index, NEW m \in Event, Push(m)
  PROVE  wire' \in Seq(Message) /\ ShownInv'
<1>1. wire' = Append(wire, m) /\ wire \in Seq(Message) /\ m \in Message /\ m.t # "projects"
  BY EventIsMessage DEF Push, HubTypes
<1>2. wire' \in Seq(Message)
  BY <1>1, AppendOf
<1>3. ASSUME NEW k \in DOMAIN wire', wire'[k].t = "projects"
      PROVE  k \in DOMAIN wire /\ wire'[k] = wire[k]
  BY <1>1, <1>3, AppendOf
<1> QED  BY <1>2, <1>3 DEF ShownInv, index

\* What is read from it is not shown any more.
LEMMA Shown ==
  ASSUME HubTypes, ShownInv, UNCHANGED index, wire # <<>>, wire' = Tail(wire)
  PROVE  wire' \in Seq(Message) /\ Head(wire) \in Message /\ ShownInv'
<1>1. wire \in Seq(Message)
  BY DEF HubTypes
<1>2. \A k \in DOMAIN wire' : k + 1 \in DOMAIN wire /\ wire'[k] = wire[k + 1]
  BY <1>1, TailOf
<1>3. wire' \in Seq(Message) /\ Head(wire) \in Message
  BY <1>1, TailOf
<1> QED  BY <1>2, <1>3 DEF ShownInv, index

LEMMA NothingNew ==
  ASSUME RoutingInv, UNCHANGED <<index, wire>>
  PROVE  RoutingInv'
  BY DEF RoutingInv, IndexInv, Numbered, ShownInv, index
-----------------------------------------------------------------------------
(* The project index.                                                      *)

\* A worker that had no offset gets one that no other worker has.
LEMMA FreshOffset ==
  ASSUME IndexInv, HubTypes, NEW w \in Workers, offset' = [offset EXCEPT ![w] = OffsetFor(w)],
         listed' = listed \cup {w}
  PROVE  /\ offset' \in [Workers -> Nat \cup {None}] /\ IndexInv'
         /\ offset'[w] \in Nat
         /\ \A v \in Numbered : offset'[v] = offset[v]
<1> USE DEF HubTypes
<1>1. IsFiniteSet(Numbered) /\ Cardinality(Numbered) \in Nat
  <2>1. Numbered \subseteq Workers /\ IsFiniteSet(Workers)
    BY RoutingAssumption DEF Numbered
  <2> QED  BY <2>1, FS_Subset, FS_CardinalityType
<1>2. CASE w \in Numbered
  <2>1. offset' = offset /\ offset[w] \in Nat
    BY <1>2 DEF OffsetFor, Numbered
  <2>2. Numbered' = Numbered
    BY <2>1 DEF Numbered
  <2> QED  BY <1>2, <2>1, <2>2 DEF IndexInv
<1>3. CASE w \notin Numbered
  <2>1. OffsetFor(w) = Cardinality(Numbered)
    BY <1>3 DEF OffsetFor, Numbered
  <2>2. None \notin Nat
    BY RoutingAssumption
  <2>3. /\ offset' \in [Workers -> Nat \cup {None}] /\ offset'[w] = Cardinality(Numbered)
        /\ \A v \in Workers : v # w => offset'[v] = offset[v]
    BY <1>1, <2>1
  <2>4. Numbered' = Numbered \cup {w}
    BY <1>1, <2>2, <2>3 DEF Numbered
  <2>5. Cardinality(Numbered') = Cardinality(Numbered) + 1
    BY <1>1, <1>3, <2>4, FS_AddElement
  <2>6. \A v \in Numbered : v # w /\ v \in Workers /\ offset[v] \in Nat
    BY <1>3 DEF Numbered
  <2>7. listed' \subseteq Numbered'
    BY <2>4 DEF IndexInv
  <2>8. \A v \in Numbered' : offset'[v] < Cardinality(Numbered')
    BY <1>1, <2>3, <2>4, <2>5, <2>6 DEF IndexInv
  <2>9. \A v, u \in Numbered' : offset'[v] = offset'[u] => v = u
    BY <1>1, <2>3, <2>4, <2>6 DEF IndexInv
  <2> QED  BY <1>1, <2>3, <2>6, <2>7, <2>8, <2>9 DEF IndexInv
<1> QED  BY <1>2, <1>3

\* A worker's projects are listed under the ids the tab already knows them by.
LEMMA Lists ==
  ASSUME HubTypes, RoutingInv, NEW w \in Workers, ListProjects(w)
  PROVE  HubTypes' /\ RoutingInv'
<1> USE DEF RoutingInv
<1> DEFINE of == [v \in listed' |-> offset'[v]]
           m == [t |-> "projects", of |-> of]
<1>1. /\ wire' = Append(wire, m) /\ listed' = listed \cup {w}
      /\ offset' = [offset EXCEPT ![w] = OffsetFor(w)]
      /\ UNCHANGED <<hub, reqs, links, active, inbox, cur, live, busy, given>>
  BY DEF ListProjects, Push, work
<1>2. /\ offset' \in [Workers -> Nat \cup {None}] /\ IndexInv' /\ offset'[w] \in Nat
      /\ \A v \in Numbered : offset'[v] = offset[v]
  BY <1>1, FreshOffset
<1>3. listed' \subseteq Workers /\ listed \subseteq Numbered
  BY <1>1 DEF HubTypes, IndexInv
<1>4. \A v \in listed' : offset'[v] \in Nat
  BY <1>2, <1>3 DEF IndexInv, Numbered
<1>5. m \in Message
  <2>1. of \in [listed' -> Nat]
    BY <1>4
  <2>2. of \in UNION {[D -> Nat] : D \in SUBSET Workers}
    BY <1>3, <2>1
  <2> QED  BY <2>2 DEF Message, Listing
<1>6. m.t = "projects" /\ DOMAIN m.of = listed' /\ \A v \in listed' : m.of[v] = offset'[v]
  OBVIOUS
<1> HIDE DEF m
<1>7. wire \in Seq(Message)
  BY DEF HubTypes
<1>8. ShownInv'
  <2> SUFFICES ASSUME NEW k \in DOMAIN wire', wire'[k].t = "projects"
               PROVE  /\ DOMAIN wire'[k].of \subseteq listed'
                      /\ \A v \in DOMAIN wire'[k].of : wire'[k].of[v] = offset'[v]
    BY DEF ShownInv
  <2>1. CASE wire'[k] = m
    BY <1>6, <2>1
  <2>2. CASE k \in DOMAIN wire /\ wire'[k] = wire[k]
    BY <1>1, <1>2, <1>3, <2>2 DEF ShownInv
  <2> QED  BY <1>1, <1>5, <1>7, <2>1, <2>2, AppendOf
<1>9. HubTypes'
  <2>1. wire' \in Seq(Message)
    BY <1>1, <1>5, <1>7, AppendOf
  <2> QED  BY <1>1, <1>2, <1>3, <2>1 DEF HubTypes
<1> QED  BY <1>2, <1>8, <1>9
-----------------------------------------------------------------------------
(* The hub and the workers.                                                *)

LEMMA Routes ==
  ASSUME HubTypes, NEW w \in Workers, NEW m \in Order, Route(w, m)
  PROVE  inbox' \in [Workers -> Seq(Order)]
<1>1. inbox \in [Workers -> Seq(Order)] /\ inbox' = [inbox EXCEPT ![w] = Append(inbox[w], m)]
  BY DEF HubTypes, Route
<1>2. Append(inbox[w], m) \in Seq(Order)
  BY <1>1, AppendOf
<1> QED  BY <1>1, <1>2

LEMMA RequestsStep ==
  ASSUME HubTypes, RoutingInv, HubReads
  PROVE  HubTypes' /\ RoutingInv'
<1> DEFINE r == Head(reqs)
<1>1. r \in Request /\ reqs' \in Seq(Request)
  <2>1. reqs \in Seq(Request) /\ reqs # <<>> /\ reqs' = Tail(reqs)
    BY DEF HubTypes, HubReads
  <2> QED  BY <2>1, TailOf
<1>2. r.t = "prompt" => r \in Order
  BY <1>1 DEF Request, Order
<1>3. r.t # "resume" => r.t = "prompt"
  BY <1>1 DEF Request
<1>4. r.t = "resume" => r.s \in Sessions
  BY <1>1 DEF Request
<1>5. /\ UNCHANGED <<hub, links, offset, listed, cur, live, busy, given>>
      /\ \/ r.t = "resume" /\ RouteByProject(r)
         \/ r.t # "resume" /\ RouteToActive(r)
  BY DEF HubReads, index, work
<1> HIDE DEF r
<1>6. CASE Fails
  <2>1. [t |-> "error"] \in Event
    BY DEF Event
  <2>2. wire' \in Seq(Message) /\ ShownInv'
    BY <1>5, <1>6, <2>1, Pushed DEF Fails, RoutingInv, index
  <2> QED  BY <1>1, <1>5, <1>6, <2>2 DEF Fails, HubTypes, RoutingInv, IndexInv, Numbered
<1>7. ASSUME NEW w \in Workers, NEW m \in Order, Route(w, m), active' \in Workers \cup {None}
      PROVE  HubTypes' /\ RoutingInv'
  <2>1. inbox' \in [Workers -> Seq(Order)]
    BY <1>7, Routes
  <2>2. UNCHANGED wire
    BY <1>7 DEF Route
  <2> QED  BY <1>1, <1>5, <1>7, <2>1, <2>2, NothingNew DEF HubTypes, index
<1>8. CASE r.t = "resume" /\ ~ Fails
  <2>1. PICK w \in Resolve(r.id) : active' = w /\ Route(w, [t |-> "resume", s |-> r.s])
    BY <1>5, <1>8 DEF RouteByProject
  <2>2. w \in Workers /\ [t |-> "resume", s |-> r.s] \in Order
    BY <1>4, <1>8 DEF Resolve, HubTypes, Order
  <2> QED  BY <1>7, <2>1, <2>2
<1>9. CASE r.t # "resume" /\ ~ Fails
  <2>1. active \in links /\ Route(active, r) /\ UNCHANGED active
    BY <1>5, <1>9 DEF RouteToActive
  <2>2. active \in Workers /\ r \in Order
    BY <1>2, <1>3, <1>9, <2>1 DEF HubTypes
  <2> QED  BY <1>7, <2>1, <2>2
<1> QED  BY <1>6, <1>8, <1>9

LEMMA LinkLostStep ==
  ASSUME HubTypes, RoutingInv, NEW w \in Workers, LinkLost(w)
  PROVE  HubTypes' /\ RoutingInv'
<1>1. RoutingInv'
  BY NothingNew DEF LinkLost
<1>2. /\ inbox' = [inbox EXCEPT ![w] = <<>>] /\ cur' = [cur EXCEPT ![w] = None]
      /\ live' \subseteq Sessions /\ busy' \subseteq Sessions /\ links' \subseteq Workers
      /\ UNCHANGED <<hub, reqs, wire, offset, listed, active, given>>
  BY DEF LinkLost, HubTypes, index
<1>3. <<>> \in Seq(Order)
  OBVIOUS
<1> QED  BY <1>1, <1>2, <1>3 DEF HubTypes

LEMMA LinkRetriedStep ==
  ASSUME HubTypes, RoutingInv, NEW w \in Workers, LinkRetried(w)
  PROVE  HubTypes' /\ RoutingInv'
<1>1. [t |-> "reconnected", w |-> w] \in Event
  BY DEF Event
<1>2. wire' \in Seq(Message) /\ ShownInv'
  BY <1>1, Pushed DEF LinkRetried, RoutingInv
<1> QED  BY <1>2 DEF LinkRetried, HubTypes, RoutingInv, IndexInv, Numbered, index, work

LEMMA WorkerStep ==
  ASSUME HubTypes, RoutingInv, NEW w \in Workers, WorkerReads(w)
  PROVE  HubTypes' /\ RoutingInv'
<1> DEFINE m == Head(inbox[w])
<1>1. m \in Order /\ inbox' \in [Workers -> Seq(Order)]
  <2>1. inbox[w] \in Seq(Order) /\ inbox[w] # <<>> /\ inbox' = [inbox EXCEPT ![w] = Tail(inbox[w])]
    BY DEF HubTypes, WorkerReads
  <2>2. m \in Order /\ Tail(inbox[w]) \in Seq(Order)
    BY <2>1, TailOf
  <2> QED  BY <2>1, <2>2 DEF HubTypes
<1>2. UNCHANGED <<hub, reqs, links, offset, listed>> /\ UNCHANGED index
  BY DEF WorkerReads, index
<1>3. \/ m.t = "resume" /\ (WorkerStarts(w, m.s) \/ WorkerRefuses)
      \/ m.t = "prompt" /\ WorkerPrompts(w, m.p)
  BY DEF WorkerReads
<1>4. (m.t = "resume" => m.s \in Sessions) /\ (m.t = "prompt" => m.p \in Prompts)
  BY <1>1 DEF Order
<1> HIDE DEF m
<1>5. ASSUME /\ UNCHANGED wire \/ \E e \in Event : Push(e)
             /\ active' \in Workers \cup {None} /\ cur' \in [Workers -> Sessions \cup {None}]
             /\ live' \subseteq Sessions /\ busy' \subseteq Sessions
             /\ given' \in [Prompts -> Seq(Sessions)]
      PROVE  HubTypes' /\ RoutingInv'
  <2>1. wire' \in Seq(Message) /\ ShownInv'
    <3>1. CASE UNCHANGED wire
      BY <1>2, <3>1 DEF HubTypes, RoutingInv, ShownInv
    <3>2. CASE \E e \in Event : Push(e)
      BY <1>2, <3>2, Pushed DEF RoutingInv
    <3> QED  BY <1>5, <3>1, <3>2
  <2> QED  BY <1>1, <1>2, <1>5, <2>1 DEF HubTypes, RoutingInv, IndexInv, Numbered
<1>6. CASE m.t = "resume" /\ WorkerStarts(w, m.s)
  <2>1. [t |-> "started", s |-> m.s, busy |-> m.s \in busy] \in Event
    BY <1>4, <1>6 DEF Event
  <2>2. Push([t |-> "started", s |-> m.s, busy |-> m.s \in busy])
    BY <1>6 DEF WorkerStarts
  <2>3. /\ active' \in Workers \cup {None} /\ cur' \in [Workers -> Sessions \cup {None}]
        /\ live' \subseteq Sessions /\ UNCHANGED <<busy, given>>
    BY <1>4, <1>6 DEF WorkerStarts, HubTypes
  <2> QED  BY <1>5, <2>1, <2>2, <2>3 DEF HubTypes
<1>7. CASE WorkerRefuses
  <2>1. [t |-> "error"] \in Event /\ Push([t |-> "error"])
    BY <1>7 DEF Event, WorkerRefuses
  <2> QED  BY <1>5, <1>7, <2>1 DEF WorkerRefuses, HubTypes, work
<1>8. CASE m.t = "prompt" /\ WorkerPrompts(w, m.p)
  <2>1. UNCHANGED <<cur, live, active>>
    BY <1>8 DEF WorkerPrompts
  <2>2. CASE cur[w] = None \/ cur[w] \in busy
    <3> DEFINE e == [t |-> IF cur[w] = None THEN "no_session" ELSE "busy", p |-> m.p]
    <3>1. e \in Event
      BY <1>4, <1>8 DEF Event
    <3>2. Push(e) /\ UNCHANGED <<busy, given>>
      BY <1>8, <2>2 DEF WorkerPrompts
    <3> QED  BY <1>5, <2>1, <3>1, <3>2 DEF HubTypes
  <2>3. CASE ~ (cur[w] = None \/ cur[w] \in busy)
    <3>1. cur[w] \in Sessions /\ m.p \in Prompts
      BY <1>4, <1>8, <2>3 DEF HubTypes
    <3>2. /\ busy' = busy \cup {cur[w]} /\ UNCHANGED wire
          /\ given' = [given EXCEPT ![m.p] = Append(given[m.p], cur[w])]
      BY <1>8, <2>3 DEF WorkerPrompts
    <3>3. Append(given[m.p], cur[w]) \in Seq(Sessions)
      BY <3>1, AppendOf DEF HubTypes
    <3>4. given' \in [Prompts -> Seq(Sessions)]
      BY <3>1, <3>2, <3>3 DEF HubTypes
    <3> QED  BY <1>5, <2>1, <3>1, <3>2, <3>4 DEF HubTypes
  <2> QED  BY <2>2, <2>3
<1> QED  BY <1>3, <1>6, <1>7, <1>8

LEMMA TurnStep ==
  ASSUME HubTypes, RoutingInv, NEW s \in Sessions, TurnEnds(s)
  PROVE  HubTypes' /\ RoutingInv'
<1>1. [t |-> "result", s |-> s] \in Event
  BY DEF Event
<1>2. wire' \in Seq(Message) /\ ShownInv'
  <2>1. CASE Push([t |-> "result", s |-> s])
    BY <1>1, <2>1, Pushed DEF TurnEnds, RoutingInv
  <2>2. CASE UNCHANGED wire
    BY <2>2, NothingNew DEF TurnEnds, RoutingInv, HubTypes
  <2> QED  BY <2>1, <2>2 DEF TurnEnds
<1> QED  BY <1>2 DEF TurnEnds, HubTypes, RoutingInv, IndexInv, Numbered, index

\* No step of the hub or of a worker shows an id that is another worker's.
LEMMA HubStep ==
  ASSUME HubTypes, RoutingInv, HubNext
  PROVE  HubTypes' /\ RoutingInv'
BY RequestsStep, Lists, LinkLostStep, LinkRetriedStep, WorkerStep, TurnStep DEF HubNext
-----------------------------------------------------------------------------
(* The handler and the tab.                                                *)

LEMMA Requests ==
  /\ \A p \in Prompts : Prompt(p) \in Request
  /\ \A i \in Nat, s \in Sessions : Resume(i, s) \in Request
  BY DEF Request, Prompt, Resume

LEMMA Bundles == \A r, q \in Request : <<r>> \in Seq(Request) /\ <<r, q>> \in Seq(Request)
<1> SUFFICES ASSUME NEW S, NEW r \in S, NEW q \in S
             PROVE  <<r>> \in Seq(S) /\ <<r, q>> \in Seq(S)
  OBVIOUS
<1> QED  OBVIOUS

LEMMA LastSessionType == ASSUME TabTypes  PROVE LastSession \subseteq Seq(Request)
<1>1. <<>> \in Seq(Request)
  OBVIOUS
<1>2. CASE view # None /\ proj # None
  <2>1. Resume(proj, view) \in Request
    BY <1>2, Requests DEF TabTypes
  <2> QED  BY <1>1, <2>1, Bundles DEF LastSession
<1> QED  BY <1>1, <1>2 DEF LastSession

LEMMA Sends ==
  ASSUME HubTypes, NEW ms \in Seq(Request), Send(ms)
  PROVE  reqs' \in Seq(Request)
  BY DEF HubTypes, Send

\* The hub's side of a step that only sends to it.
LEMMA TabOnly ==
  ASSUME HubTypes, RoutingInv, reqs' \in Seq(Request),
         UNCHANGED <<hub, wire, links, index, active, inbox, work>>
  PROVE  HubTypes' /\ RoutingInv'
<1>1. RoutingInv'
  BY NothingNew
<1> QED  BY <1>1 DEF HubTypes, index, work

LEMMA ConnectStep ==
  ASSUME ChatInv, Connect
  PROVE  ChatInv'
<1> USE DEF ChatInv, ChatTypes
<1>1. PICK U \in SUBSET Workers \ {{}} : HandlerStarts(U)
  BY DEF Connect
<1>2. reqs' \in Seq(Request)
  BY LastSessionType DEF Connect
<1>3. RoutingInv'
  BY <1>1, NothingNew DEF HandlerStarts
<1>4. HubTypes'
  BY <1>1, <1>2 DEF HandlerStarts, HubTypes, index, work
<1>5. TabTypes'
  BY DEF Connect, TabTypes
<1> QED  BY <1>3, <1>4, <1>5

\* With the handler goes the index, and all that was shown by it.
LEMMA BreakStep ==
  ASSUME ChatInv, Break
  PROVE  ChatInv'
<1> USE DEF ChatInv, ChatTypes
<1>1. /\ reqs' = <<>> /\ wire' = <<>> /\ links' = {} /\ listed' = {} /\ active' = None /\ hub' = FALSE
      /\ offset' = [w \in Workers |-> None] /\ inbox' = [w \in Workers |-> <<>>]
      /\ cur' = [w \in Workers |-> None] /\ live' = {} /\ UNCHANGED <<busy, given>>
  BY DEF Break, HandlerEnds
<1>2. <<>> \in Seq(Request) /\ <<>> \in Seq(Message) /\ <<>> \in Seq(Order) /\ DOMAIN <<>> = {}
  OBVIOUS
<1>3. HubTypes'
  BY <1>1, <1>2 DEF HubTypes
<1>4. Numbered' = {}
  BY <1>1 DEF Numbered
<1>5. RoutingInv'
  BY <1>1, <1>2, <1>4 DEF RoutingInv, IndexInv, ShownInv
<1>6. TabTypes'
  BY DEF Break, TabTypes, refs
<1> QED  BY <1>3, <1>5, <1>6

LEMMA CloseStep ==
  ASSUME ChatInv, OnClose
  PROVE  ChatInv'
<1> USE DEF ChatInv, ChatTypes
<1>1. UNCHANGED hubVars /\ UNCHANGED <<view, proj, ids, streaming, refs, typed>>
      /\ ws' \in {"down", "open", "closing"}
  BY DEF OnClose
<1>2. HubTypes' /\ RoutingInv'
  BY <1>1, TabOnly DEF hubVars, HubTypes
<1>3. TabTypes'
  BY <1>1 DEF TabTypes, refs
<1> QED  BY <1>2, <1>3

LEMMA UserStep ==
  ASSUME ChatInv,
         \/ OnStop \/ SendPendingPrompt \/ \E s \in Sessions : OnPickSession(s)
         \/ \E p \in Prompts : OnSubmit(p) \/ OnInterrupt(p)
  PROVE  ChatInv'
<1> USE DEF ChatInv, ChatTypes
<1>1. ASSUME NEW s \in Sessions, OnPickSession(s)  PROVE ChatInv'
  <2>1. Host[s] \in Workers
    BY RoutingAssumption
  <2>2. ids[Host[s]] \in Nat
    BY <1>1, <2>1 DEF OnPickSession, TabTypes
  <2>3. Resume(ids[Host[s]], s) \in Request
    BY <2>2, Requests
  <2>4. reqs' \in Seq(Request)
    BY <1>1, <2>3, Bundles, Sends DEF OnPickSession
  <2>5. HubTypes' /\ RoutingInv'
    BY <1>1, <2>4, TabOnly DEF OnPickSession
  <2>6. TabTypes'
    BY <1>1, <2>2 DEF OnPickSession, TabTypes, refs
  <2> QED  BY <2>5, <2>6
<1>2. ASSUME NEW p \in Prompts, OnSubmit(p)  PROVE ChatInv'
  <2>1. Prompt(p) \in Request
    BY Requests
  <2>2. reqs' \in Seq(Request)
    BY <1>2, <2>1, Bundles, Sends DEF OnSubmit
  <2>3. HubTypes' /\ RoutingInv'
    BY <1>2, <2>2, TabOnly DEF OnSubmit, Types
  <2>4. TabTypes'
    BY <1>2 DEF OnSubmit, Types, TabTypes
  <2> QED  BY <2>3, <2>4
<1>3. ASSUME NEW p \in Prompts, OnInterrupt(p)  PROVE ChatInv'
  <2>1. HubTypes' /\ RoutingInv'
    BY <1>3, TabOnly DEF OnInterrupt, Types, HubTypes
  <2>2. TabTypes'
    BY <1>3 DEF OnInterrupt, Types, TabTypes
  <2> QED  BY <2>1, <2>2
<1>4. CASE OnStop
  <2>1. HubTypes' /\ RoutingInv'
    BY <1>4, TabOnly DEF OnStop, hubVars, HubTypes
  <2>2. TabTypes'
    BY <1>4 DEF OnStop, TabTypes
  <2> QED  BY <2>1, <2>2
<1>5. CASE SendPendingPrompt
  <2>1. queued \in Prompts /\ Prompt(queued) \in Request
    BY <1>5, Requests DEF SendPendingPrompt, TabTypes
  <2>2. reqs' \in Seq(Request)
    BY <1>5, <2>1, Bundles, Sends DEF SendPendingPrompt
  <2>3. HubTypes' /\ RoutingInv'
    BY <1>5, <2>2, TabOnly DEF SendPendingPrompt
  <2>4. TabTypes'
    BY <1>5, <2>1 DEF SendPendingPrompt, TabTypes
  <2> QED  BY <2>3, <2>4
<1> QED  BY <1>1, <1>2, <1>3, <1>4, <1>5

\* What a message makes the tab send and remember.
LEMMA Handled ==
  ASSUME ChatTypes, NEW m \in Message,
         \/ m.t = "no_session" /\ OnNoSession
         \/ m.t \in {"busy", "error"} /\ OnError(m)
         \/ m.t = "result" /\ OnResult(m)
         \/ m.t = "started" /\ OnStarted(m)
         \/ m.t = "projects" /\ OnProjects(m)
         \/ m.t = "reconnected" /\ OnReconnected(m),
         UNCHANGED <<ws, typed>>
  PROVE  reqs' \in Seq(Request) /\ TabTypes'
<1> USE DEF ChatTypes
<1>1. reqs \in Seq(Request)
  BY DEF HubTypes
<1>2. CASE m.t = "no_session" /\ OnNoSession
  <2>1. CASE view # None /\ proj # None /\ last # None
    <3>1. last' = None /\ Send(<<Resume(proj, view), Prompt(last)>>)
          /\ UNCHANGED <<view, proj, ids, streaming, dropped, queued>>
      BY <1>2, <2>1 DEF OnNoSession
    <3>2. Resume(proj, view) \in Request /\ Prompt(last) \in Request
      BY <2>1, Requests DEF TabTypes
    <3>3. reqs' \in Seq(Request)
      BY <3>1, <3>2, Bundles, Sends
    <3> QED  BY <3>1, <3>3 DEF TabTypes
  <2>2. CASE ~ (view # None /\ proj # None /\ last # None)
    BY <1>1, <1>2, <2>2 DEF OnNoSession, TabTypes, refs
  <2> QED  BY <2>1, <2>2
<1>3. CASE m.t \in {"busy", "error"} /\ OnError(m)
  BY <1>1, <1>3 DEF OnError, TabTypes, refs
<1>4. CASE m.t = "result" /\ OnResult(m)
  <2>1. /\ dropped' = FALSE /\ last' = queued /\ queued' = None /\ streaming' \in BOOLEAN
        /\ UNCHANGED <<view, proj, ids>>
        /\ (queued # None /\ Send(<<Prompt(queued)>>)) \/ UNCHANGED reqs
    BY <1>4 DEF OnResult, TabTypes
  <2>2. queued # None => Prompt(queued) \in Request
    BY Requests DEF TabTypes
  <2>3. reqs' \in Seq(Request)
    BY <1>1, <2>1, <2>2, Bundles, Sends
  <2> QED  BY <2>1, <2>3 DEF TabTypes
<1>5. CASE m.t = "started" /\ OnStarted(m)
  <2>1. m.s \in Sessions /\ m.busy \in BOOLEAN
    BY <1>5 DEF Message, Event, Listing
  <2>2. /\ view' = m.s /\ streaming' \in BOOLEAN /\ last' \in {last, None} /\ dropped' \in {dropped, FALSE}
        /\ UNCHANGED <<proj, ids, queued>>
        /\ (last # None /\ Send(<<Prompt(last)>>)) \/ UNCHANGED reqs
    BY <1>5, <2>1 DEF OnStarted
  <2>3. last # None => Prompt(last) \in Request
    BY Requests DEF TabTypes
  <2>4. reqs' \in Seq(Request)
    BY <1>1, <2>2, <2>3, Bundles, Sends
  <2> QED  BY <2>1, <2>2, <2>4 DEF TabTypes
<1>6. CASE m.t = "projects" /\ OnProjects(m)
  <2>1. m.of \in UNION {[D -> Nat] : D \in SUBSET Workers}
    BY <1>6 DEF Message, Event, Listing
  <2>2. PICK D \in SUBSET Workers : m.of \in [D -> Nat]
    BY <2>1
  <2>3. ids' \in [Workers -> Nat \cup {None}]
    BY <1>6, <2>2 DEF OnProjects
  <2> QED  BY <1>1, <1>6, <2>3 DEF OnProjects, TabTypes, refs
<1>7. CASE m.t = "reconnected" /\ OnReconnected(m)
  <2>1. reqs' \in Seq(Request)
    BY <1>1, <1>7, LastSessionType, Sends DEF OnReconnected
  <2> QED  BY <1>7, <2>1 DEF OnReconnected, TabTypes, refs
<1> QED  BY <1>2, <1>3, <1>4, <1>5, <1>6, <1>7

LEMMA MessageStep ==
  ASSUME ChatInv, OnServerMessage
  PROVE  ChatInv'
<1> USE DEF ChatInv, ChatTypes
<1>1. /\ wire # <<>> /\ wire' = Tail(wire)
      /\ UNCHANGED <<hub, links, index, active, inbox, work, ws, typed>>
  BY DEF OnServerMessage
<1>2. wire' \in Seq(Message) /\ Head(wire) \in Message /\ ShownInv'
  BY <1>1, Shown DEF RoutingInv
<1>3. reqs' \in Seq(Request) /\ TabTypes'
  BY <1>1, <1>2, Handled DEF OnServerMessage
<1> QED  BY <1>1, <1>2, <1>3 DEF HubTypes, RoutingInv, IndexInv, Numbered, index, work

LEMMA ChatStep == ChatInv /\ [Next]_vars => ChatInv'
<1> SUFFICES ASSUME ChatInv, [Next]_vars
             PROVE  ChatInv'
  OBVIOUS
<1>1. CASE HubNext /\ UNCHANGED <<ws, view, proj, ids, streaming, refs, typed>>
  <2>1. HubTypes' /\ RoutingInv'
    BY <1>1, HubStep DEF ChatInv, ChatTypes
  <2>2. TabTypes'
    BY <1>1 DEF ChatInv, ChatTypes, TabTypes, refs
  <2> QED  BY <2>1, <2>2 DEF ChatInv, ChatTypes
<1>2. CASE UNCHANGED vars
  <2>1. HubTypes' /\ RoutingInv'
    BY <1>2, TabOnly DEF ChatInv, ChatTypes, vars, hubVars, HubTypes
  <2>2. TabTypes'
    BY <1>2 DEF vars, ChatInv, ChatTypes, TabTypes, refs
  <2> QED  BY <2>1, <2>2 DEF ChatInv, ChatTypes
<1> QED  BY <1>1, <1>2, ConnectStep, BreakStep, CloseStep, UserStep, MessageStep DEF Next

LEMMA ChatInit == Init => ChatInv
<1> SUFFICES ASSUME Init
             PROVE  ChatInv
  OBVIOUS
<1>1. <<>> \in Seq(Request) /\ <<>> \in Seq(Message) /\ <<>> \in Seq(Order) /\ <<>> \in Seq(Sessions)
      /\ DOMAIN <<>> = {}
  OBVIOUS
<1>2. HubTypes
  BY <1>1 DEF Init, HubInit, HubTypes
<1>3. TabTypes
  BY DEF Init, TabTypes
<1>4. Numbered = {} /\ listed = {} /\ wire = <<>>
  BY DEF Init, HubInit, Numbered
<1> QED  BY <1>1, <1>2, <1>3, <1>4 DEF ChatInv, ChatTypes, RoutingInv, IndexInv, ShownInv
-----------------------------------------------------------------------------
\* The chat and the hub's index keep their types, the offsets stay apart, and a
\* project list on its way to the browser agrees with them.
THEOREM ChatInvariant == Spec => []ChatInv
<1>1. Spec => Init /\ [][Next]_vars
  BY DEF Spec
<1> QED  BY <1>1, ChatInit, ChatStep, PTL

\* The project id a browser has been shown reaches the worker it was shown for,
\* however workers are linked, lost, listed and asked: an offset is handed out
\* once while the index lives (ProjectIndex._offset_for).
THEOREM IdsReachTheirWorker == Spec => []ShownResolves
<1>1. ChatInv => ShownResolves
  <2> SUFFICES ASSUME ChatInv, NEW k \in DOMAIN wire, wire[k].t = "projects",
                      NEW w \in DOMAIN wire[k].of
               PROVE  Resolve(wire[k].of[w]) = {w}
    BY DEF ShownResolves
  <2>1. w \in listed /\ wire[k].of[w] = offset[w]
    BY DEF ChatInv, RoutingInv, ShownInv
  <2>2. \A v \in listed : offset[v] = offset[w] => v = w
    BY <2>1 DEF ChatInv, RoutingInv, IndexInv
  <2> QED  BY <2>1, <2>2 DEF Resolve
<1> QED  BY <1>1, ChatInvariant, PTL
-----------------------------------------------------------------------------
(* Where a prompt is.                                                      *)

NoAsked == \A k \in DOMAIN reqs : reqs[k].t # "prompt"
NoRouted == \A w \in Workers : \A k \in DOMAIN inbox[w] : inbox[w][k].t # "prompt"
NoRefused == \A k \in DOMAIN wire : wire[k].t # "no_session"

Asked(k) == k \in DOMAIN reqs /\ reqs[k].t = "prompt"
Routed(w, k) == k \in DOMAIN inbox[w] /\ inbox[w][k].t = "prompt"
Refused(k) == k \in DOMAIN wire /\ wire[k].t = "no_session"

\* There is one copy of one prompt: asked, routed, refused or kept by the tab.
OneCopy ==
  /\ \A j, k \in Nat : Asked(j) /\ Asked(k) => j = k
  /\ \A v, w \in Workers, j, k \in Nat : Routed(v, j) /\ Routed(w, k) => v = w /\ j = k
  /\ \A j, k \in Nat : Refused(j) /\ Refused(k) => j = k
  /\ ~ NoAsked => NoRouted /\ NoRefused
  /\ ~ NoRefused => NoRouted
  /\ dropped \/ queued # None => NoCopy
  /\ dropped => queued = None /\ last # None

\* It is of a prompt nobody has taken, and what is remembered is that prompt.
Fresh(p) == p \in Prompts /\ given[p] = <<>> /\ typed[p] # None
Mine(p) == Fresh(p) /\ last \in {None, p}

CopyInv ==
  /\ OneCopy
  /\ \A k \in Nat : Asked(k) => Mine(reqs[k].p)
  /\ \A w \in Workers, k \in Nat : Routed(w, k) => Mine(inbox[w][k].p)
  /\ \A k \in Nat : Refused(k) => Mine(wire[k].p)
  /\ dropped => Fresh(last)
  /\ queued # None => Fresh(queued)
  /\ \A p \in Prompts : typed[p] = None => given[p] = <<>>
  /\ TakenOnce

\* A queue lost messages at its head, or got one that is no prompt.
ThinAsked == \E d \in {0, 1} : \A k \in Nat : Asked(k)' => Asked(k + d) /\ reqs'[k] = reqs[k + d]
ThinRouted == \A w \in Workers : \E d \in {0, 1} : \A k \in Nat :
  Routed(w, k)' => Routed(w, k + d) /\ inbox'[w][k] = inbox[w][k + d]
ThinRefused == \E d \in {0, 1} : \A k \in Nat :
  Refused(k)' => Refused(k + d) /\ wire'[k] = wire[k + d]
Thin == ThinAsked /\ ThinRouted /\ ThinRefused

PlaceFacts ==
  /\ NoCopy <=> NoAsked /\ NoRouted /\ NoRefused
  /\ NoAsked <=> \A k \in Nat : ~ Asked(k)
  /\ NoRouted <=> \A w \in Workers, k \in Nat : ~ Routed(w, k)
  /\ NoRefused <=> \A k \in Nat : ~ Refused(k)

LEMMA Places == ChatTypes => PlaceFacts
<1> SUFFICES ASSUME ChatTypes
             PROVE  PlaceFacts
  OBVIOUS
<1>1. NoCopy <=> NoAsked /\ NoRouted /\ NoRefused
  BY DEF NoCopy, NoAsked, NoRouted, NoRefused
<1>2. NoAsked <=> \A k \in Nat : ~ Asked(k)
  BY DEF NoAsked, Asked, ChatTypes, HubTypes
<1>3. NoRouted <=> \A w \in Workers, k \in Nat : ~ Routed(w, k)
  <2>1. \A w \in Workers : inbox[w] \in Seq(Order)
    BY DEF ChatTypes, HubTypes
  <2> QED  BY <2>1 DEF NoRouted, Routed
<1>4. NoRefused <=> \A k \in Nat : ~ Refused(k)
  BY DEF NoRefused, Refused, ChatTypes, HubTypes
<1> QED  BY <1>1, <1>2, <1>3, <1>4 DEF PlaceFacts

LEMMA PlacesNext == ChatTypes' => PlaceFacts'
  BY Places, PTL

\* What is Thin has no copy where there was none.
LEMMA ThinNone ==
  ASSUME ChatTypes, ChatTypes'
  PROVE  /\ ThinAsked /\ NoAsked => NoAsked'
         /\ ThinRouted /\ NoRouted => NoRouted'
         /\ ThinRefused /\ NoRefused => NoRefused'
<1>1. (ThinAsked /\ NoAsked) => NoAsked'
  BY Places, PlacesNext DEF PlaceFacts, ThinAsked
<1>2. (ThinRouted /\ NoRouted) => NoRouted'
  BY Places, PlacesNext DEF PlaceFacts, ThinRouted
<1>3. (ThinRefused /\ NoRefused) => NoRefused'
  BY Places, PlacesNext DEF PlaceFacts, ThinRefused
<1> QED  BY <1>1, <1>2, <1>3

\* A step that makes no copy and gives none away.
LEMMA ThinKeeps ==
  ASSUME ChatTypes, ChatTypes', CopyInv, Thin, UNCHANGED <<given, typed>>,
         last' \in {None, last},
         dropped' => dropped /\ UNCHANGED last,
         queued' \in {None, queued}
  PROVE  CopyInv'
<1> USE DEF CopyInv
<1>1. /\ NoAsked => NoAsked'
      /\ NoRouted => NoRouted'
      /\ NoRefused => NoRefused'
  BY ThinNone DEF Thin
<1>2. PICK d \in {0, 1} : \A k \in Nat : Asked(k)' => Asked(k + d) /\ reqs'[k] = reqs[k + d]
  BY DEF Thin, ThinAsked
<1>3. PICK e \in {0, 1} : \A k \in Nat : Refused(k)' => Refused(k + e) /\ wire'[k] = wire[k + e]
  BY DEF Thin, ThinRefused
<1>4. \A w \in Workers : \E f \in {0, 1} : \A k \in Nat :
        Routed(w, k)' => Routed(w, k + f) /\ inbox'[w][k] = inbox[w][k + f]
  BY DEF Thin, ThinRouted
<1>5. OneCopy'
  <2>1. \A j, k \in Nat : Asked(j)' /\ Asked(k)' => j = k
    BY <1>2 DEF OneCopy
  <2>2. \A j, k \in Nat : Refused(j)' /\ Refused(k)' => j = k
    BY <1>3 DEF OneCopy
  <2>3. ASSUME NEW v \in Workers, NEW w \in Workers, NEW j \in Nat, NEW k \in Nat,
               Routed(v, j)', Routed(w, k)'
        PROVE  v = w /\ j = k
    <3>1. PICK f \in {0, 1} : \A i \in Nat : Routed(v, i)' => Routed(v, i + f)
      BY <1>4
    <3>2. PICK g \in {0, 1} : \A i \in Nat : Routed(w, i)' => Routed(w, i + g)
      BY <1>4
    <3>3. v = w
      <4>1. Routed(v, j + f) /\ Routed(w, k + g) /\ j + f \in Nat /\ k + g \in Nat
        BY <2>3, <3>1, <3>2
      <4> QED  BY <4>1 DEF OneCopy
    <3>4. Routed(v, j + f) /\ Routed(v, k + f) /\ j + f \in Nat /\ k + f \in Nat
      BY <2>3, <3>1, <3>3
    <3>5. j + f = k + f
      BY <3>4 DEF OneCopy
    <3> QED  BY <3>3, <3>5
  <2>4. dropped' \/ queued' # None => NoCopy'
    BY <1>1, Places, PlacesNext DEF PlaceFacts, OneCopy
  <2>5. dropped' => queued' = None /\ last' # None
    BY DEF OneCopy
  <2>6. (~ NoAsked' => NoRouted' /\ NoRefused') /\ (~ NoRefused' => NoRouted')
    BY <1>1 DEF OneCopy
  <2> QED  BY <2>1, <2>2, <2>3, <2>4, <2>5, <2>6 DEF OneCopy
<1>6. ASSUME NEW k \in Nat, Asked(k)'  PROVE Mine(reqs[k].p)'
  <2>1. Asked(k + d) /\ reqs'[k] = reqs[k + d] /\ k + d \in Nat
    BY <1>2, <1>6
  <2> QED  BY <2>1 DEF Mine, Fresh
<1>7. ASSUME NEW k \in Nat, Refused(k)'  PROVE Mine(wire[k].p)'
  <2>1. Refused(k + e) /\ wire'[k] = wire[k + e] /\ k + e \in Nat
    BY <1>3, <1>7
  <2> QED  BY <2>1 DEF Mine, Fresh
<1>8. ASSUME NEW w \in Workers, NEW k \in Nat, Routed(w, k)'  PROVE Mine(inbox[w][k].p)'
  <2>1. PICK f \in {0, 1} : \A i \in Nat : Routed(w, i)' => Routed(w, i + f) /\ inbox'[w][i] = inbox[w][i + f]
    BY <1>4
  <2>2. Routed(w, k + f) /\ inbox'[w][k] = inbox[w][k + f] /\ k + f \in Nat
    BY <1>8, <2>1
  <2> QED  BY <2>2 DEF Mine, Fresh
<1>9. /\ dropped' => Fresh(last)'
      /\ queued' # None => Fresh(queued)'
  BY DEF Fresh
<1>10. TakenOnce' /\ \A q \in Prompts : typed'[q] = None => given'[q] = <<>>
  BY DEF TakenOnce
<1> QED  BY <1>5, <1>6, <1>7, <1>8, <1>9, <1>10 DEF CopyInv

\* A step after which the tab alone may keep a copy, as `queued` or `last`.
LEMMA KeptAtMost ==
  ASSUME ChatTypes', NoCopy', TakenOnce',
         \A p \in Prompts : typed'[p] = None => given'[p] = <<>>,
         dropped' => queued' = None /\ last' # None /\ Fresh(last)',
         queued' # None => Fresh(queued)'
  PROVE  CopyInv'
<1>1. /\ NoAsked' /\ NoRouted' /\ NoRefused'
      /\ \A k \in Nat : ~ Asked(k)'
      /\ \A w \in Workers, k \in Nat : ~ Routed(w, k)'
      /\ \A k \in Nat : ~ Refused(k)'
  BY PlacesNext DEF PlaceFacts
<1> QED  BY <1>1 DEF CopyInv, OneCopy

\* A step after which the only copy is under way.
LEMMA OneUnderWay ==
  ASSUME ChatTypes', TakenOnce',
         \A p \in Prompts : typed'[p] = None => given'[p] = <<>>,
         ~ dropped', queued' = None, NEW p, Mine(p)',
         \/ /\ NoRouted' /\ NoRefused'
            /\ \A j, k \in Nat : Asked(j)' /\ Asked(k)' => j = k /\ reqs'[k].p = p
         \/ /\ NoAsked' /\ NoRefused'
            /\ \A v, w \in Workers, j, k \in Nat :
                 Routed(v, j)' /\ Routed(w, k)' => v = w /\ j = k /\ inbox'[w][k].p = p
         \/ /\ NoAsked' /\ NoRouted'
            /\ \A j, k \in Nat : Refused(j)' /\ Refused(k)' => j = k /\ wire'[k].p = p
  PROVE  CopyInv'
<1>1. /\ NoAsked' <=> \A k \in Nat : ~ Asked(k)'
      /\ NoRouted' <=> \A w \in Workers, k \in Nat : ~ Routed(w, k)'
      /\ NoRefused' <=> \A k \in Nat : ~ Refused(k)'
  BY PlacesNext DEF PlaceFacts
<1>2. CASE /\ NoRouted' /\ NoRefused'
           /\ \A j, k \in Nat : Asked(j)' /\ Asked(k)' => j = k /\ reqs'[k].p = p
  BY <1>1, <1>2 DEF CopyInv, OneCopy
<1>3. CASE /\ NoAsked' /\ NoRefused'
           /\ \A v, w \in Workers, j, k \in Nat :
                Routed(v, j)' /\ Routed(w, k)' => v = w /\ j = k /\ inbox'[w][k].p = p
  BY <1>1, <1>3 DEF CopyInv, OneCopy
<1>4. CASE /\ NoAsked' /\ NoRouted'
           /\ \A j, k \in Nat : Refused(j)' /\ Refused(k)' => j = k /\ wire'[k].p = p
  BY <1>1, <1>4 DEF CopyInv, OneCopy
<1> QED  BY <1>2, <1>3, <1>4

\* What the queues do to the copies in them.
LEMMA AskedThin ==
  ASSUME ChatTypes
  PROVE  /\ UNCHANGED reqs \/ reqs' = <<>> => ThinAsked
         /\ reqs # <<>> /\ reqs' = Tail(reqs) => ThinAsked
         /\ \A ms \in Seq(Request) :
              Send(ms) /\ (\A i \in DOMAIN ms : ms[i].t # "prompt") => ThinAsked
<1>1. reqs \in Seq(Request)
  BY DEF ChatTypes, HubTypes
<1>2. ASSUME UNCHANGED reqs \/ reqs' = <<>>  PROVE ThinAsked
  <2>1. \A k \in Nat : Asked(k)' => Asked(k + 0) /\ reqs'[k] = reqs[k + 0]
    BY <1>2 DEF Asked
  <2> QED  BY <2>1 DEF ThinAsked
<1>3. ASSUME reqs # <<>>, reqs' = Tail(reqs)  PROVE ThinAsked
  <2>1. \A k \in Nat : Asked(k)' => Asked(k + 1) /\ reqs'[k] = reqs[k + 1]
    BY <1>1, <1>3, TailOf DEF Asked
  <2> QED  BY <2>1 DEF ThinAsked
<1>4. ASSUME NEW ms \in Seq(Request), Send(ms), \A i \in DOMAIN ms : ms[i].t # "prompt"
      PROVE  ThinAsked
  <2>1. CASE UNCHANGED reqs
    BY <1>2, <2>1
  <2>2. CASE reqs' = reqs \o ms
    <3>1. \A k \in DOMAIN reqs' : k \notin DOMAIN reqs => k - Len(reqs) \in DOMAIN ms
                                                       /\ reqs'[k] = ms[k - Len(reqs)]
      BY <1>1, <2>2
    <3>2. \A k \in DOMAIN reqs : k \in DOMAIN reqs' /\ reqs'[k] = reqs[k]
      BY <1>1, <2>2
    <3>3. \A k \in Nat : Asked(k)' => Asked(k + 0) /\ reqs'[k] = reqs[k + 0]
      BY <1>4, <3>1, <3>2 DEF Asked
    <3> QED  BY <3>3 DEF ThinAsked
  <2> QED  BY <1>4, <2>1, <2>2 DEF Send
<1> QED  BY <1>2, <1>3, <1>4

LEMMA RefusedThin ==
  ASSUME ChatTypes
  PROVE  /\ UNCHANGED wire \/ wire' = <<>> => ThinRefused
         /\ wire # <<>> /\ wire' = Tail(wire) => ThinRefused
         /\ \A m : Push(m) /\ m.t # "no_session" => ThinRefused
<1>1. wire \in Seq(Message)
  BY DEF ChatTypes, HubTypes
<1>2. ASSUME UNCHANGED wire \/ wire' = <<>>  PROVE ThinRefused
  <2>1. \A k \in Nat : Refused(k)' => Refused(k + 0) /\ wire'[k] = wire[k + 0]
    BY <1>2 DEF Refused
  <2> QED  BY <2>1 DEF ThinRefused
<1>3. ASSUME wire # <<>>, wire' = Tail(wire)  PROVE ThinRefused
  <2>1. \A k \in Nat : Refused(k)' => Refused(k + 1) /\ wire'[k] = wire[k + 1]
    BY <1>1, <1>3, TailOf DEF Refused
  <2> QED  BY <2>1 DEF ThinRefused
<1>4. ASSUME NEW m, Push(m), m.t # "no_session"  PROVE ThinRefused
  <2>1. wire' = Append(wire, m)
    BY <1>4 DEF Push
  <2>2. \A k \in DOMAIN wire' : (k \in DOMAIN wire /\ wire'[k] = wire[k]) \/ wire'[k] = m
    <3>1. wire \in Seq(Message \cup {m}) /\ m \in Message \cup {m}
      BY <1>1
    <3> QED  BY <2>1, <3>1, AppendOf
  <2>3. \A k \in Nat : Refused(k)' => Refused(k + 0) /\ wire'[k] = wire[k + 0]
    BY <1>4, <2>2 DEF Refused
  <2> QED  BY <2>3 DEF ThinRefused
<1> QED  BY <1>2, <1>3, <1>4

LEMMA RoutedThin ==
  ASSUME ChatTypes
  PROVE  /\ UNCHANGED inbox => ThinRouted
         /\ inbox' = [w \in Workers |-> <<>>] => ThinRouted
         /\ \A w \in Workers :
              /\ inbox' = [inbox EXCEPT ![w] = <<>>] => ThinRouted
              /\ inbox[w] # <<>> /\ inbox' = [inbox EXCEPT ![w] = Tail(inbox[w])] => ThinRouted
              /\ \A m \in Order : Route(w, m) /\ m.t # "prompt" => ThinRouted
<1>1. \A w \in Workers : inbox[w] \in Seq(Order)
  BY DEF ChatTypes, HubTypes
<1>2. ASSUME NEW v \in Workers, inbox'[v] \in {inbox[v], <<>>}
      PROVE  \E d \in {0, 1} : \A k \in Nat :
               Routed(v, k)' => Routed(v, k + d) /\ inbox'[v][k] = inbox[v][k + d]
  <2>1. \A k \in Nat : Routed(v, k)' => Routed(v, k + 0) /\ inbox'[v][k] = inbox[v][k + 0]
    BY <1>2 DEF Routed
  <2> QED  BY <2>1
<1>3. ASSUME \A v \in Workers : inbox'[v] \in {inbox[v], <<>>}  PROVE ThinRouted
  BY <1>2, <1>3 DEF ThinRouted
<1>4. DOMAIN inbox = Workers
  BY DEF ChatTypes, HubTypes
<1>5. ASSUME NEW w \in Workers, inbox[w] # <<>>, inbox' = [inbox EXCEPT ![w] = Tail(inbox[w])]
      PROVE  ThinRouted
  <2>1. \A k \in Nat : Routed(w, k)' => Routed(w, k + 1) /\ inbox'[w][k] = inbox[w][k + 1]
    BY <1>1, <1>4, <1>5, TailOf DEF Routed
  <2>2. \A v \in Workers : v # w => inbox'[v] = inbox[v]
    BY <1>4, <1>5
  <2> QED  BY <1>2, <2>1, <2>2 DEF ThinRouted
<1>6. ASSUME NEW w \in Workers, NEW m \in Order, Route(w, m), m.t # "prompt"  PROVE ThinRouted
  <2>1. inbox' = [inbox EXCEPT ![w] = Append(inbox[w], m)]
    BY <1>6 DEF Route
  <2>2. \A k \in DOMAIN inbox'[w] : (k \in DOMAIN inbox[w] /\ inbox'[w][k] = inbox[w][k]) \/ inbox'[w][k] = m
    BY <1>1, <1>4, <2>1, AppendOf
  <2>3. \A k \in Nat : Routed(w, k)' => Routed(w, k + 0) /\ inbox'[w][k] = inbox[w][k + 0]
    BY <1>6, <2>2 DEF Routed
  <2>4. \A v \in Workers : v # w => inbox'[v] = inbox[v]
    BY <1>4, <2>1
  <2> QED  BY <1>2, <2>3, <2>4 DEF ThinRouted
<1>7. UNCHANGED inbox => ThinRouted
  BY <1>3
<1>8. inbox' = [w \in Workers |-> <<>>] => ThinRouted
  BY <1>3
<1>9. \A w \in Workers : inbox' = [inbox EXCEPT ![w] = <<>>] => ThinRouted
  BY <1>3, <1>4
<1> QED  BY <1>5, <1>6, <1>7, <1>8, <1>9

\* A prompt that is sent when there is no copy is the only one.
LEMMA SentAlone ==
  ASSUME ChatTypes, NoAsked, NEW ms \in Seq(Request), NEW p \in Prompts, NEW n \in DOMAIN ms,
         ms[n] = Prompt(p), \A i \in DOMAIN ms : i # n => ms[i].t # "prompt", Send(ms)
  PROVE  \A j, k \in Nat : Asked(j)' /\ Asked(k)' => j = k /\ reqs'[k].p = p
<1>1. reqs \in Seq(Request)
  BY DEF ChatTypes, HubTypes
<1>2. CASE UNCHANGED reqs
  BY <1>2 DEF NoAsked, Asked
<1>3. CASE reqs' = reqs \o ms
  <2>1. \A k \in DOMAIN reqs' :
          \/ k \in DOMAIN reqs /\ reqs'[k] = reqs[k]
          \/ k - Len(reqs) \in DOMAIN ms /\ reqs'[k] = ms[k - Len(reqs)]
    BY <1>1, <1>3
  <2>2. ASSUME NEW k \in Nat, Asked(k)'  PROVE k = Len(reqs) + n /\ reqs'[k] = ms[n]
    <3>1. reqs'[k].t = "prompt" /\ k \in DOMAIN reqs'
      BY <2>2 DEF Asked
    <3>2. k - Len(reqs) \in DOMAIN ms /\ reqs'[k] = ms[k - Len(reqs)]
      BY <2>1, <3>1 DEF NoAsked
    <3>3. k - Len(reqs) = n
      BY <3>1, <3>2
    <3> QED  BY <1>1, <3>2, <3>3
  <2>3. ms[n].p = p
    BY DEF Prompt
  <2> QED  BY <2>2, <2>3
<1> QED  BY <1>2, <1>3 DEF Send
-----------------------------------------------------------------------------
\* The copy at the head of a queue is the only one.
LEMMA HeadAlone ==
  ASSUME ChatTypes, ChatTypes', CopyInv
  PROVE  /\ reqs # <<>> /\ reqs' = Tail(reqs) /\ Head(reqs).t = "prompt" =>
              NoAsked' /\ Mine(Head(reqs).p) /\ NoRouted /\ NoRefused /\ ~ dropped /\ queued = None
         /\ wire # <<>> /\ wire' = Tail(wire) /\ Head(wire).t = "no_session" =>
              NoRefused' /\ Mine(Head(wire).p) /\ NoAsked /\ NoRouted /\ ~ dropped /\ queued = None
         /\ \A w \in Workers :
              inbox[w] # <<>> /\ inbox' = [inbox EXCEPT ![w] = Tail(inbox[w])] /\ Head(inbox[w]).t = "prompt" =>
                NoRouted' /\ Mine(Head(inbox[w]).p) /\ NoAsked /\ NoRefused /\ ~ dropped /\ queued = None
<1> USE DEF CopyInv
<1>1. PlaceFacts /\ PlaceFacts'
  BY Places, PlacesNext
<1>2. ASSUME reqs # <<>>, reqs' = Tail(reqs), Head(reqs).t = "prompt"
      PROVE  NoAsked' /\ Mine(Head(reqs).p) /\ NoRouted /\ NoRefused /\ ~ dropped /\ queued = None
  <2>1. Asked(1) /\ reqs[1] = Head(reqs) /\ \A k \in Nat : Asked(k)' => k # 0 /\ Asked(k + 1)
    BY <1>2, TailOf DEF Asked, ChatTypes, HubTypes
  <2>2. \A k \in Nat : Asked(k)' => k + 1 = 1
    BY <2>1 DEF OneCopy
  <2>3. \A k \in Nat : ~ Asked(k)'
    BY <2>1, <2>2
  <2> QED  BY <1>1, <2>1, <2>3 DEF OneCopy, PlaceFacts
<1>3. ASSUME wire # <<>>, wire' = Tail(wire), Head(wire).t = "no_session"
      PROVE  NoRefused' /\ Mine(Head(wire).p) /\ NoAsked /\ NoRouted /\ ~ dropped /\ queued = None
  <2>1. Refused(1) /\ wire[1] = Head(wire) /\ \A k \in Nat : Refused(k)' => k # 0 /\ Refused(k + 1)
    BY <1>3, TailOf DEF Refused, ChatTypes, HubTypes
  <2>2. \A k \in Nat : Refused(k)' => k + 1 = 1
    BY <2>1 DEF OneCopy
  <2>3. \A k \in Nat : ~ Refused(k)'
    BY <2>1, <2>2
  <2> QED  BY <1>1, <2>1, <2>3 DEF OneCopy, PlaceFacts
<1>4. ASSUME NEW w \in Workers, inbox[w] # <<>>, inbox' = [inbox EXCEPT ![w] = Tail(inbox[w])],
             Head(inbox[w]).t = "prompt"
      PROVE  NoRouted' /\ Mine(Head(inbox[w]).p) /\ NoAsked /\ NoRefused /\ ~ dropped /\ queued = None
  <2>1. inbox[w] \in Seq(Order) /\ DOMAIN inbox = Workers
    BY DEF ChatTypes, HubTypes
  <2>2. Routed(w, 1) /\ inbox[w][1] = Head(inbox[w])
        /\ \A k \in Nat : Routed(w, k)' => k # 0 /\ Routed(w, k + 1)
    BY <1>4, <2>1, TailOf DEF Routed
  <2>3. \A k \in Nat : Routed(w, k)' => k + 1 = 1
    BY <2>2 DEF OneCopy
  <2>4. \A v \in Workers, k \in Nat : v # w => (Routed(v, k)' => Routed(v, k))
    BY <1>4, <2>1 DEF Routed
  <2>5. \A v \in Workers, k \in Nat : ~ Routed(v, k)'
    BY <2>2, <2>3, <2>4 DEF OneCopy
  <2> QED  BY <1>1, <2>2, <2>5 DEF OneCopy, PlaceFacts
<1> QED  BY <1>2, <1>3, <1>4

\* A request that is routed, or fails, takes its copy along.
LEMMA CopyRouted ==
  ASSUME ChatTypes, ChatTypes', CopyInv, HubReads, UNCHANGED <<refs, typed>>
  PROVE  CopyInv'
<1> DEFINE r == Head(reqs)
<1>1. /\ r \in Request /\ reqs # <<>> /\ reqs' = Tail(reqs) /\ UNCHANGED <<given, last, dropped, queued>>
      /\ \/ r.t = "resume" /\ RouteByProject(r)
         \/ r.t # "resume" /\ RouteToActive(r)
  <2>1. reqs \in Seq(Request) /\ reqs # <<>>
    BY DEF HubReads, ChatTypes, HubTypes
  <2> QED  BY <2>1, TailOf DEF HubReads, refs, work
<1>2. ThinAsked
  BY <1>1, AskedThin
<1>3. r.t \in {"prompt", "resume"} /\ (r.t = "resume" => r.s \in Sessions) /\ (r.t = "prompt" => r \in Order)
  BY <1>1 DEF Request, Order
<1>4. CASE Fails
  <2>1. ThinRefused /\ ThinRouted
    BY <1>4, RefusedThin, RoutedThin DEF Fails
  <2> QED  BY <1>1, <1>2, <2>1, ThinKeeps DEF Thin
<1>5. CASE r.t = "resume" /\ ~ Fails
  <2>1. PICK w \in Resolve(r.id) : Route(w, [t |-> "resume", s |-> r.s])
    BY <1>1, <1>5 DEF RouteByProject
  <2>2. w \in Workers /\ [t |-> "resume", s |-> r.s] \in Order
    BY <1>3, <1>5 DEF Resolve, ChatTypes, HubTypes, Order
  <2>3. ThinRouted /\ ThinRefused
    BY <2>1, <2>2, RoutedThin, RefusedThin DEF Route
  <2> QED  BY <1>1, <1>2, <2>3, ThinKeeps DEF Thin
<1>6. CASE r.t # "resume" /\ ~ Fails
  <2>1. active \in links /\ Route(active, r)
    BY <1>1, <1>6 DEF RouteToActive
  <2>2. active \in Workers /\ r \in Order /\ r.t = "prompt" /\ inbox[active] \in Seq(Order) /\ DOMAIN inbox = Workers
    BY <1>3, <1>6, <2>1 DEF ChatTypes, HubTypes
  <2>3. NoAsked' /\ Mine(r.p) /\ NoRouted /\ NoRefused /\ ~ dropped /\ queued = None
    BY <1>1, <2>2, HeadAlone
  <2>4. NoRefused' /\ inbox' = [inbox EXCEPT ![active] = Append(inbox[active], r)]
    BY <2>1, <2>3 DEF Route, NoRefused
  <2>5. \A k \in DOMAIN inbox'[active] :
          (k \in DOMAIN inbox[active] /\ inbox'[active][k] = inbox[active][k])
            \/ (k = Len(inbox[active]) + 1 /\ inbox'[active][k] = r)
    BY <2>2, <2>4
  <2>6. \A v \in Workers, k \in Nat :
          Routed(v, k)' => v = active /\ k = Len(inbox[active]) + 1 /\ inbox'[v][k] = r
    BY <2>2, <2>3, <2>4, <2>5 DEF Routed, NoRouted
  <2>7. PICK p : p = r.p
    OBVIOUS
  <2>8. Mine(p)' /\ TakenOnce' /\ UNCHANGED <<typed, given>>
    BY <1>1, <2>3, <2>7 DEF Mine, Fresh, CopyInv, TakenOnce
  <2>9. \A q \in Prompts : typed'[q] = None => given'[q] = <<>>
    BY <2>8 DEF CopyInv
  <2>10. \A v, w \in Workers, j, k \in Nat :
           Routed(v, j)' /\ Routed(w, k)' => v = w /\ j = k /\ inbox'[w][k].p = p
    BY <2>6, <2>7
  <2> HIDE DEF r
  <2> QED  BY <1>1, <2>3, <2>4, <2>8, <2>9, <2>10, OneUnderWay
<1> QED  BY <1>1, <1>3, <1>4, <1>5, <1>6

\* A worker takes the prompt, or refuses it.
LEMMA CopyTaken ==
  ASSUME ChatTypes, ChatTypes', CopyInv, NEW w \in Workers, WorkerReads(w), UNCHANGED <<refs, typed>>
  PROVE  CopyInv'
<1> DEFINE m == Head(inbox[w])
<1>1. /\ m \in Order /\ inbox[w] # <<>> /\ inbox' = [inbox EXCEPT ![w] = Tail(inbox[w])]
      /\ UNCHANGED <<reqs, last, dropped, queued, typed>>
      /\ \/ m.t = "resume" /\ (WorkerStarts(w, m.s) \/ WorkerRefuses)
         \/ m.t = "prompt" /\ WorkerPrompts(w, m.p)
  <2>1. inbox[w] \in Seq(Order) /\ inbox[w] # <<>>
    BY DEF WorkerReads, ChatTypes, HubTypes
  <2> QED  BY <2>1, TailOf DEF WorkerReads, refs
<1>2. ThinAsked /\ ThinRouted
  BY <1>1, AskedThin, RoutedThin
<1>3. ASSUME UNCHANGED given, NEW e, Push(e), e.t # "no_session"  PROVE CopyInv'
  <2>1. ThinRefused
    BY <1>3, RefusedThin
  <2> QED  BY <1>1, <1>2, <1>3, <2>1, ThinKeeps DEF Thin
<1>4. CASE m.t = "resume"
  <2> DEFINE e == [t |-> "started", s |-> m.s, busy |-> m.s \in busy]
  <2>1. e.t # "no_session" /\ [t |-> "error"].t # "no_session"
    OBVIOUS
  <2>2. UNCHANGED given /\ (Push(e) \/ Push([t |-> "error"]))
    BY <1>1, <1>4 DEF WorkerStarts, WorkerRefuses, work
  <2> HIDE DEF e
  <2> QED  BY <1>3, <2>1, <2>2
<1>5. CASE m.t = "prompt"
  <2>0. PICK p : p = m.p
    OBVIOUS
  <2>1. WorkerPrompts(w, p)
    BY <1>1, <1>5, <2>0
  <2>2. NoRouted' /\ Mine(p) /\ NoAsked /\ NoRefused /\ ~ dropped /\ queued = None
    BY <1>1, <1>5, <2>0, HeadAlone
  <2>3. NoAsked' /\ ~ dropped' /\ queued' = None /\ p \in Prompts
    BY <1>1, <2>2 DEF NoAsked, Mine, Fresh
  <2>4. CASE cur[w] # None /\ cur[w] \in busy
    <3>1. UNCHANGED given /\ Push([t |-> "busy", p |-> p])
      BY <2>1, <2>4 DEF WorkerPrompts
    <3>2. [t |-> "busy", p |-> p].t # "no_session"
      OBVIOUS
    <3> QED  BY <1>3, <3>1, <3>2
  <2>5. CASE cur[w] = None
    <3> DEFINE e == [t |-> "no_session", p |-> p]
    <3>1. UNCHANGED given /\ wire' = Append(wire, e)
      BY <2>1, <2>5 DEF WorkerPrompts, Push
    <3>2. wire \in Seq(Message \cup {e}) /\ e \in Message \cup {e} /\ e.p = p
      BY DEF ChatTypes, HubTypes
    <3> HIDE DEF e
    <3>3. \A k \in DOMAIN wire' : (k \in DOMAIN wire /\ wire'[k] = wire[k])
                                     \/ (k = Len(wire) + 1 /\ wire'[k] = e)
      BY <3>1, <3>2
    <3>4. \A j, k \in Nat : Refused(j)' /\ Refused(k)' => j = k /\ wire'[k].p = p
      BY <2>2, <3>2, <3>3 DEF Refused, NoRefused
    <3>5. Mine(p)' /\ TakenOnce'
      BY <1>1, <2>2, <3>1 DEF Mine, Fresh, CopyInv, TakenOnce
    <3>6. \A q \in Prompts : typed'[q] = None => given'[q] = <<>>
      BY <1>1, <3>1 DEF CopyInv
    <3> QED  BY <2>2, <2>3, <3>4, <3>5, <3>6, OneUnderWay
  <2>6. CASE cur[w] # None /\ cur[w] \notin busy
    <3>1. UNCHANGED wire /\ given' = [given EXCEPT ![p] = Append(given[p], cur[w])]
      BY <2>1, <2>6 DEF WorkerPrompts
    <3>2. given \in [Prompts -> Seq(Sessions)] /\ given[p] = <<>> /\ typed[p] # None
      BY <2>2 DEF Mine, Fresh, ChatTypes, HubTypes
    <3>3. given'[p] # <<>> /\ Len(given'[p]) <= 1 /\ \A q \in Prompts : q # p => given'[q] = given[q]
      BY <2>3, <3>1, <3>2
    <3>4. \A q \in Prompts : typed'[q] = None => given'[q] = <<>>
      BY <1>1, <3>2, <3>3 DEF CopyInv
    <3>5. NoRefused'
      BY <2>2, <3>1 DEF NoRefused
    <3>6. NoCopy'
      BY <2>2, <2>3, <3>5, PlacesNext DEF PlaceFacts
    <3>7. TakenOnce'
      <4> SUFFICES ASSUME NEW q \in Prompts  PROVE Len(given'[q]) <= 1
        BY DEF TakenOnce
      <4>1. CASE q = p
        BY <3>3, <4>1
      <4>2. CASE q # p
        BY <3>3, <4>2 DEF CopyInv, TakenOnce
      <4> QED  BY <4>1, <4>2
    <3> QED  BY <2>3, <3>4, <3>6, <3>7, KeptAtMost
  <2> QED  BY <2>4, <2>5, <2>6
<1> QED  BY <1>1, <1>4, <1>5

\* What is sent, lost and listed besides makes no copy.
LEMMA CopyHub ==
  ASSUME ChatTypes, ChatTypes', CopyInv, HubNext, UNCHANGED <<refs, typed>>
  PROVE  CopyInv'
<1> DEFINE Quiet(m) == UNCHANGED given /\ ThinAsked /\ ThinRouted /\ Push(m) /\ m.t # "no_session"
<1>1. ASSUME UNCHANGED given, Thin  PROVE CopyInv'
  BY <1>1, ThinKeeps DEF refs
<1>2. ASSUME NEW m, Quiet(m)  PROVE CopyInv'
  BY <1>1, <1>2, RefusedThin DEF Thin
<1> HIDE DEF Quiet
<1>3. ASSUME NEW w \in Workers, ListProjects(w)  PROVE CopyInv'
  <2> DEFINE m == [t |-> "projects", of |-> [v \in listed' |-> offset'[v]]]
  <2>1. Push(m) /\ UNCHANGED <<reqs, inbox, given>>
    BY <1>3 DEF ListProjects, work
  <2>2. m.t # "no_session"
    OBVIOUS
  <2>3. PICK n : n = m
    OBVIOUS
  <2> HIDE DEF m
  <2>4. ThinAsked /\ ThinRouted
    BY <2>1, AskedThin, RoutedThin
  <2>5. Push(n) /\ n.t # "no_session"
    BY <2>1, <2>2, <2>3 DEF Push
  <2> QED  BY <1>2, <2>1, <2>4, <2>5 DEF Quiet
<1>4. ASSUME NEW w \in Workers, LinkLost(w)  PROVE CopyInv'
  <2>1. ThinAsked /\ ThinRouted /\ ThinRefused /\ UNCHANGED given
    BY <1>4, AskedThin, RoutedThin, RefusedThin DEF LinkLost
  <2> QED  BY <1>1, <2>1 DEF Thin
<1>5. ASSUME NEW w \in Workers, LinkRetried(w)  PROVE CopyInv'
  <2>1. ThinAsked /\ ThinRouted /\ UNCHANGED given /\ Push([t |-> "reconnected", w |-> w])
    BY <1>5, AskedThin, RoutedThin DEF LinkRetried, work
  <2> QED  BY <1>2, <2>1 DEF Quiet
<1>6. ASSUME NEW s \in Sessions, TurnEnds(s)  PROVE CopyInv'
  <2>1. /\ ThinAsked /\ ThinRouted /\ UNCHANGED given
        /\ Push([t |-> "result", s |-> s]) \/ UNCHANGED wire
    BY <1>6, AskedThin, RoutedThin DEF TurnEnds
  <2>2. CASE UNCHANGED wire
    BY <1>1, <2>1, <2>2, RefusedThin DEF Thin
  <2>3. CASE Push([t |-> "result", s |-> s])
    BY <1>2, <2>1, <2>3 DEF Quiet
  <2> QED  BY <2>1, <2>2, <2>3
<1> QED  BY <1>3, <1>4, <1>5, <1>6, CopyRouted, CopyTaken DEF HubNext

\* What goes to the hub in one message, or two, is typed and tells prompts apart.
LEMMA ResumesOnly ==
  ASSUME ChatTypes, NEW ms \in LastSession
  PROVE  ms \in Seq(Request) /\ \A i \in DOMAIN ms : ms[i].t # "prompt"
<1>1. ms \in Seq(Request)
  BY LastSessionType DEF ChatTypes
<1>2. DOMAIN <<>> = {}
  OBVIOUS
<1>3. CASE ms = <<Resume(proj, view)>>
  <2>1. DOMAIN ms = {1} /\ ms[1] = Resume(proj, view)
    BY <1>3
  <2> QED  BY <1>1, <2>1 DEF Resume
<1> QED  BY <1>1, <1>2, <1>3 DEF LastSession

\* The tab's own steps, but for those that begin, send or resend a prompt.
LEMMA CopyTab ==
  ASSUME ChatTypes, ChatTypes', CopyInv,
         Connect \/ Break \/ OnClose \/ OnStop \/ \E s \in Sessions : OnPickSession(s)
  PROVE  CopyInv'
<1>1. CASE Connect
  <2>1. PICK U \in SUBSET Workers \ {{}} : HandlerStarts(U)
    BY <1>1 DEF Connect
  <2>2. UNCHANGED <<wire, inbox, given, last, dropped, typed>> /\ queued' = None
    BY <1>1, <2>1 DEF Connect, HandlerStarts, work
  <2>3. ThinRouted /\ ThinRefused
    BY <2>2, RoutedThin, RefusedThin
  <2>4. \A k \in DOMAIN reqs' : reqs'[k].t # "prompt"
    BY <1>1, ResumesOnly DEF Connect
  <2>5. ThinAsked
    BY <2>4 DEF ThinAsked, Asked
  <2> QED  BY <2>2, <2>3, <2>5, ThinKeeps DEF Thin
<1>2. CASE Break
  <2>1. /\ reqs' = <<>> /\ wire' = <<>> /\ inbox' = [w \in Workers |-> <<>>]
        /\ UNCHANGED <<given, last, dropped, queued, typed>>
    BY <1>2 DEF Break, HandlerEnds, refs
  <2> QED  BY <2>1, ThinKeeps, AskedThin, RoutedThin, RefusedThin DEF Thin
<1>3. CASE OnClose \/ OnStop
  <2>1. UNCHANGED <<reqs, wire, inbox, given, last, dropped, typed>> /\ queued' \in {None, queued}
    BY <1>3 DEF OnClose, OnStop, hubVars, work, refs
  <2> QED  BY <2>1, ThinKeeps, AskedThin, RoutedThin, RefusedThin DEF Thin
<1>4. ASSUME NEW s \in Sessions, OnPickSession(s)  PROVE CopyInv'
  <2> DEFINE ms == <<Resume(ids[Host[s]], s)>>
  <2>1. UNCHANGED <<wire, inbox, given, last, dropped, queued, typed>> /\ Send(ms)
    BY <1>4 DEF OnPickSession, work, refs
  <2>2. ids[Host[s]] \in Nat
    BY <1>4, RoutingAssumption DEF OnPickSession, ChatTypes, TabTypes
  <2>3. ms \in Seq(Request) /\ DOMAIN ms = {1} /\ ms[1].t # "prompt"
    BY <2>2, Requests, Bundles DEF Resume
  <2> HIDE DEF ms
  <2>4. ThinAsked
    BY <2>1, <2>3, AskedThin
  <2> QED  BY <2>1, <2>4, ThinKeeps, RoutedThin, RefusedThin DEF Thin
<1> QED  BY <1>1, <1>2, <1>3, <1>4

\* A prompt that is typed is the only one to be kept or sent.
LEMMA CopyTyped ==
  ASSUME ChatTypes, ChatTypes', CopyInv, Settled, NEW p \in Prompts, OnSubmit(p) \/ OnInterrupt(p)
  PROVE  CopyInv'
<1>1. /\ NoAsked /\ NoRouted /\ NoRefused /\ ~ dropped /\ queued = None
      /\ UNCHANGED <<wire, inbox, given>>
      /\ typed[p] = None /\ typed'[p] # None /\ \A q \in Prompts : q # p => typed'[q] = typed[q]
  BY Places DEF PlaceFacts, Settled, OnSubmit, OnInterrupt, Types, work, ChatTypes, TabTypes
<1>2. given[p] = <<>> /\ Fresh(p)' /\ TakenOnce' /\ NoRouted' /\ NoRefused'
  BY <1>1 DEF CopyInv, Fresh, TakenOnce, NoRouted, NoRefused
<1>3. \A q \in Prompts : typed'[q] = None => given'[q] = <<>>
  BY <1>1 DEF CopyInv
<1>4. p # None
  BY RoutingAssumption
<1>5. CASE OnSubmit(p)
  <2> DEFINE ms == <<Prompt(p)>>
  <2>1. last' = p /\ UNCHANGED queued /\ dropped' = (ws # "open") /\ Send(ms)
    BY <1>5 DEF OnSubmit
  <2>2. ms \in Seq(Request) /\ DOMAIN ms = {1} /\ ms[1] = Prompt(p)
    BY Requests, Bundles
  <2> HIDE DEF ms
  <2>3. CASE ws = "open"
    <3>1. \A j, k \in Nat : Asked(j)' /\ Asked(k)' => j = k /\ reqs'[k].p = p
      BY <1>1, <2>1, <2>2, SentAlone
    <3>2. Mine(p)' /\ ~ dropped' /\ queued' = None
      BY <1>1, <1>2, <2>1, <2>3 DEF Mine
    <3> QED  BY <1>2, <1>3, <3>1, <3>2, OneUnderWay
  <2>4. CASE ws # "open"
    <3>1. UNCHANGED reqs
      BY <2>1, <2>4 DEF Send
    <3>2. NoAsked'
      BY <1>1, <3>1 DEF NoAsked
    <3>3. NoCopy'
      BY <1>2, <3>2, PlacesNext DEF PlaceFacts
    <3>4. Fresh(last)'
      BY <1>2, <2>1 DEF Fresh
    <3> QED  BY <1>1, <1>2, <1>3, <1>4, <2>1, <3>3, <3>4, KeptAtMost
  <2> QED  BY <2>3, <2>4
<1>6. CASE OnInterrupt(p)
  <2>1. queued' = p /\ UNCHANGED <<last, dropped, reqs>>
    BY <1>6 DEF OnInterrupt
  <2>2. NoAsked'
    BY <1>1, <2>1 DEF NoAsked
  <2>3. NoCopy'
    BY <1>2, <2>2, PlacesNext DEF PlaceFacts
  <2>4. Fresh(queued)'
    BY <1>2, <2>1 DEF Fresh
  <2> QED  BY <1>1, <1>2, <1>3, <2>1, <2>3, <2>4, KeptAtMost
<1> QED  BY <1>5, <1>6

\* Where the tab sends what it remembers, that is the only copy.
LEMMA CopyResent ==
  ASSUME ChatTypes, ChatTypes', CopyInv, NEW p, Fresh(p), NoAsked, NoRouted', NoRefused',
         NEW ms \in Seq(Request), NEW n \in DOMAIN ms, ms[n] = Prompt(p),
         \A i \in DOMAIN ms : i # n => ms[i].t # "prompt", Send(ms),
         UNCHANGED <<given, typed>>, ~ dropped', queued' = None, last' \in {None, p}
  PROVE  CopyInv'
<1>1. p \in Prompts /\ Mine(p)' /\ TakenOnce'
  BY DEF Fresh, Mine, CopyInv, TakenOnce
<1>2. \A j, k \in Nat : Asked(j)' /\ Asked(k)' => j = k /\ reqs'[k].p = p
  BY <1>1, SentAlone
<1>3. \A q \in Prompts : typed'[q] = None => given'[q] = <<>>
  BY DEF CopyInv
<1> QED  BY <1>1, <1>2, <1>3, OneUnderWay

LEMMA CopyPending ==
  ASSUME ChatTypes, ChatTypes', CopyInv, SendPendingPrompt
  PROVE  CopyInv'
<1>1. PICK p : p = queued
  OBVIOUS
<1>2. /\ p # None /\ queued' = None /\ last' = p /\ Send(<<Prompt(p)>>)
      /\ UNCHANGED <<wire, inbox, given, dropped, typed>>
  BY <1>1 DEF SendPendingPrompt, work
<1>3. Fresh(p) /\ NoCopy /\ ~ dropped
  BY <1>1, <1>2 DEF CopyInv, OneCopy
<1>4. NoAsked /\ NoRouted' /\ NoRefused'
  BY <1>2, <1>3, Places DEF PlaceFacts, NoRouted, NoRefused
<1> DEFINE ms == <<Prompt(p)>>
<1>5. ms \in Seq(Request) /\ DOMAIN ms = {1} /\ ms[1] = Prompt(p)
  BY <1>3, Requests, Bundles DEF Fresh
<1> HIDE DEF ms
<1>6. Send(ms)
  BY <1>2 DEF ms
<1> QED  BY <1>2, <1>3, <1>4, <1>5, <1>6, CopyResent

\* Of the messages of the hub three make the tab send a prompt again.
LEMMA CopyHandled ==
  ASSUME ChatTypes, ChatTypes', CopyInv, OnServerMessage
  PROVE  CopyInv'
<1> DEFINE m == Head(wire)
<1>1. /\ wire # <<>> /\ wire' = Tail(wire) /\ m \in Message /\ UNCHANGED <<inbox, given, typed>>
      /\ \/ m.t = "no_session" /\ OnNoSession
         \/ m.t \in {"busy", "error"} /\ OnError(m)
         \/ m.t = "result" /\ OnResult(m)
         \/ m.t = "started" /\ OnStarted(m)
         \/ m.t = "projects" /\ OnProjects(m)
         \/ m.t = "reconnected" /\ OnReconnected(m)
  <2>1. wire \in Seq(Message) /\ wire # <<>>
    BY DEF OnServerMessage, ChatTypes, HubTypes
  <2> QED  BY <2>1, TailOf DEF OnServerMessage, work
<1>2. ThinRefused /\ ThinRouted
  BY <1>1, RefusedThin, RoutedThin
<1>3. (NoRefused => NoRefused') /\ (NoRouted => NoRouted')
  BY <1>2, ThinNone
<1>4. ASSUME ThinAsked, last' \in {None, last}, dropped' => dropped /\ UNCHANGED last,
             queued' \in {None, queued}
      PROVE  CopyInv'
  BY <1>1, <1>2, <1>4, ThinKeeps DEF Thin
<1>5. CASE m.t = "no_session" /\ OnNoSession
  <2>1. NoRefused' /\ Mine(m.p) /\ NoAsked /\ NoRouted /\ ~ dropped /\ queued = None
    BY <1>1, <1>5, HeadAlone
  <2>2. CASE view # None /\ proj # None /\ last # None
    <3>1. PICK p : p = last
      OBVIOUS
    <3> DEFINE ms == <<Resume(proj, view), Prompt(p)>>
    <3>2. last' = None /\ UNCHANGED <<dropped, queued>> /\ Send(ms)
      BY <1>5, <2>2, <3>1 DEF OnNoSession
    <3>3. Fresh(p)
      BY <2>1, <2>2, <3>1 DEF Mine
    <3>4. Resume(proj, view) \in Request /\ Prompt(p) \in Request
      BY <2>2, <3>3, Requests DEF ChatTypes, TabTypes, Fresh
    <3>5. ms \in Seq(Request) /\ DOMAIN ms = {1, 2} /\ ms[2] = Prompt(p) /\ ms[1].t # "prompt"
      BY <3>4, Bundles DEF Resume
    <3> HIDE DEF ms
    <3> QED  BY <1>1, <1>3, <2>1, <3>2, <3>3, <3>5, CopyResent
  <2>3. CASE ~ (view # None /\ proj # None /\ last # None)
    <3>1. UNCHANGED <<reqs, refs>>
      BY <1>5, <2>3 DEF OnNoSession
    <3> QED  BY <1>4, <3>1, AskedThin DEF refs
  <2> QED  BY <2>2, <2>3
<1>6. CASE m.t = "result" /\ OnResult(m)
  <2>1. dropped' = FALSE /\ last' = queued /\ queued' = None
        /\ IF queued # None THEN Send(<<Prompt(queued)>>) ELSE UNCHANGED reqs
    BY <1>6 DEF OnResult
  <2>2. CASE queued = None
    BY <1>4, <2>1, <2>2, AskedThin
  <2>3. CASE queued # None
    <3>1. PICK p : p = queued
      OBVIOUS
    <3> DEFINE ms == <<Prompt(p)>>
    <3>2. Fresh(p) /\ NoAsked /\ NoRouted /\ NoRefused
      BY <2>3, <3>1, Places DEF CopyInv, OneCopy, PlaceFacts
    <3>3. ms \in Seq(Request) /\ DOMAIN ms = {1} /\ ms[1] = Prompt(p)
      BY <3>2, Requests, Bundles DEF Fresh
    <3>4. Send(ms)
      BY <2>1, <2>3, <3>1
    <3> HIDE DEF ms
    <3> QED  BY <1>1, <1>3, <2>1, <3>1, <3>2, <3>3, <3>4, CopyResent
  <2> QED  BY <2>2, <2>3
<1>7. CASE m.t = "started" /\ OnStarted(m)
  <2>1. CASE ~ m.busy /\ dropped /\ last # None
    <3>1. PICK p : p = last
      OBVIOUS
    <3> DEFINE ms == <<Prompt(p)>>
    <3>2. last' = None /\ dropped' = FALSE /\ UNCHANGED queued /\ Send(ms)
      BY <1>7, <2>1, <3>1 DEF OnStarted
    <3>3. Fresh(p) /\ NoAsked /\ NoRouted /\ NoRefused /\ queued = None
      BY <2>1, <3>1, Places DEF CopyInv, OneCopy, PlaceFacts
    <3>4. ms \in Seq(Request) /\ DOMAIN ms = {1} /\ ms[1] = Prompt(p)
      BY <3>3, Requests, Bundles DEF Fresh
    <3> HIDE DEF ms
    <3> QED  BY <1>1, <1>3, <3>2, <3>3, <3>4, CopyResent
  <2>2. CASE ~ (~ m.busy /\ dropped /\ last # None)
    <3>1. UNCHANGED <<reqs, last, dropped, queued>>
      BY <1>7, <2>2 DEF OnStarted
    <3> QED  BY <1>4, <3>1, AskedThin
  <2> QED  BY <2>1, <2>2
<1>8. CASE \/ m.t \in {"busy", "error"} /\ OnError(m)
           \/ m.t = "projects" /\ OnProjects(m)
  <2>1. UNCHANGED <<reqs, refs>>
    BY <1>8 DEF OnError, OnProjects
  <2> QED  BY <1>4, <2>1, AskedThin DEF refs
<1>9. CASE m.t = "reconnected" /\ OnReconnected(m)
  <2>1. UNCHANGED <<last, dropped, queued>> /\ (UNCHANGED reqs \/ \E ms \in LastSession : Send(ms))
    BY <1>9 DEF OnReconnected, refs
  <2>2. ThinAsked
    BY <2>1, ResumesOnly, AskedThin
  <2> QED  BY <1>4, <2>1, <2>2
<1> QED  BY <1>1, <1>5, <1>6, <1>7, <1>8, <1>9

LEMMA CopyStep == ChatInv /\ CopyInv /\ [Next /\ Patient]_vars => CopyInv'
<1> SUFFICES ASSUME ChatInv, CopyInv, [Next /\ Patient]_vars
             PROVE  CopyInv'
  OBVIOUS
<1>1. ChatTypes /\ ChatTypes'
  <2>1. ChatInv'
    BY ChatStep
  <2> QED  BY <2>1 DEF ChatInv
<1>2. CASE HubNext /\ UNCHANGED <<ws, view, proj, ids, streaming, refs, typed>>
  BY <1>1, <1>2, CopyHub
<1>3. ASSUME Next, Patient, NEW p \in Prompts, OnSubmit(p) \/ OnInterrupt(p)  PROVE CopyInv'
  <2>1. typed' # typed
    BY <1>1, <1>3, RoutingAssumption DEF OnSubmit, OnInterrupt, Types, ChatTypes, TabTypes
  <2> QED  BY <1>1, <1>3, <2>1, CopyTyped DEF Patient
<1>4. CASE UNCHANGED vars
  <2>1. UNCHANGED <<reqs, wire, inbox, given, last, dropped, queued, typed>>
    BY <1>4 DEF vars, hubVars, work, refs
  <2> QED  BY <1>1, <2>1, ThinKeeps, AskedThin, RoutedThin, RefusedThin DEF Thin
<1> QED  BY <1>1, <1>2, <1>3, <1>4, CopyTab, CopyPending, CopyHandled DEF Next

LEMMA CopyInit == Init => CopyInv
<1> SUFFICES ASSUME Init
             PROVE  CopyInv
  OBVIOUS
<1>1. reqs = <<>> /\ wire = <<>> /\ inbox = [w \in Workers |-> <<>>] /\ dropped = FALSE /\ queued = None
      /\ given = [p \in Prompts |-> <<>>]
  BY DEF Init, HubInit
<1>2. DOMAIN <<>> = {} /\ Len(<<>>) <= 1
  OBVIOUS
<1> QED  BY <1>1, <1>2 DEF CopyInv, OneCopy, NoCopy, Asked, Routed, Refused, NoAsked, NoRouted, NoRefused, TakenOnce
-----------------------------------------------------------------------------
\* While a user lets a prompt settle before typing the next, there is one copy of
\* it at most, wherever it is, and none once it was taken.
THEOREM CopyInvariant == PatientSpec => [](ChatInv /\ CopyInv)
<1>1. ChatInv /\ CopyInv /\ [Next /\ Patient]_vars => (ChatInv /\ CopyInv)'
  <2>1. [Next /\ Patient]_vars => [Next]_vars
    OBVIOUS
  <2> QED  BY <2>1, ChatStep, CopyStep
<1>2. PatientSpec => Init /\ [][Next /\ Patient]_vars
  BY DEF PatientSpec
<1> QED  BY <1>1, <1>2, ChatInit, CopyInit, PTL

\* A prompt is taken once though three places send it again: after no_session, on
\* a session_started and after an interrupt.
THEOREM PromptTakenOnce == PatientSpec => []TakenOnce
<1>1. CopyInv => TakenOnce
  BY DEF CopyInv
<1> QED  BY <1>1, CopyInvariant, PTL
=============================================================================
