----------------------- MODULE WorkerConnectionProofs -----------------------
(***************************************************************************)
(* Proofs about WorkerConnection, for any requests, types and number of    *)
(* unasked messages.  That answers are not crossed rests on the lock per   *)
(* response type (LineInv) and on the life of an answer: it is on its way  *)
(* once at most, for a request that was sent, and not taken before         *)
(* (AskedInv, AnswerInv).                                                  *)
(***************************************************************************)
EXTENDS WorkerConnection, SequenceTheorems, TLAPS

Ended == {"returned", "timedOut", "cancelled"}
Sent == Ended \cup {"waiting"}

\* r has been resolved with its own answer.
Served(r) == got[r] # None /\ got[r].answers = r

\* The lock of a type is held by the first of its requests under way, in the
\* order of the calls; only the holder is past it.
LineInv ==
  /\ \A t \in Types : \A j, k \in 1 .. Len(line[t]) :
       line[t][j] = line[t][k] => j = k
  /\ \A t \in Types : \A k \in 1 .. Len(line[t]) :
       /\ kind[line[t][k]] = t
       /\ stage[line[t][k]] \in {"queued", "waiting"}
  /\ \A r \in Reqs :
       /\ kind[r] = None <=> stage[r] = "new"
       /\ stage[r] \in {"queued", "waiting"} =>
            \E k \in 1 .. Len(line[kind[r]]) : line[kind[r]][k] = r
       /\ stage[r] = "waiting" => line[kind[r]] # <<>> /\ Head(line[kind[r]]) = r

\* A future is settled only while its request waits, and cancelled only by close()
\* or with its caller; a link is closed in the teardown.
FutureInv ==
  /\ link = "none" => ending
  /\ \A r \in Reqs :
       /\ fut[r] = "set" <=> got[r] # None
       /\ stage[r] \in {"new", "queued"} => fut[r] = "open"
       /\ stage[r] = "returned" => fut[r] = "set"
       /\ stage[r] = "cancelled" \/ fut[r] = "cancelled" => link = "none" \/ Doomed(r)
       /\ stage[r] = "waiting" /\ Doomed(r) => fut[r] # "open"

\* Nothing travels over a closed link.
ClosedInv == link = "none" => toWorker = <<>> /\ toHub = <<>>

\* A request on its way was sent once, and was not answered yet.
AskedInv ==
  \A k \in 1 .. Len(toWorker) :
    /\ stage[toWorker[k]] \in Sent
    /\ ~ Served(toWorker[k])
    /\ \A j \in 1 .. Len(toWorker) : toWorker[j] = toWorker[k] => j = k
    /\ \A j \in 1 .. Len(toHub) : toHub[j].answers # toWorker[k]

\* An answer on its way is the only one to its request, of its type, and not
\* taken yet.
Owed(m) ==
  IF m.answers = None THEN ~ m.hasId
  ELSE /\ stage[m.answers] \in Sent /\ ~ Served(m.answers)
       /\ kind[m.answers] = m.type /\ m.hasId = echoes
AnswerInv ==
  /\ \A k \in 1 .. Len(toHub) : Owed(toHub[k])
  /\ \A j, k \in 1 .. Len(toHub) :
       toHub[j].answers = toHub[k].answers /\ toHub[k].answers # None => j = k

\* Only a worker that echoes ids has sent one.
EchoInv == supports => echoes

ConnInv ==
  /\ TypeOK
  /\ LineInv
  /\ FutureInv
  /\ ClosedInv
  /\ AskedInv
  /\ AnswerInv
  /\ EchoInv
  /\ OnlyCancelledLinger
  /\ NoCrossTalk
-----------------------------------------------------------------------------
\* A caller joins the end of the line of its type.
LEMMA CallLine ==
  ASSUME TypeOK, LineInv, NEW r \in Reqs, NEW t \in Types, Call(r, t)
  PROVE  LineInv'
<1>1. /\ stage[r] = "new" /\ stage' = [stage EXCEPT ![r] = "queued"]
      /\ kind' = [kind EXCEPT ![r] = t] /\ line' = [line EXCEPT ![t] = Append(line[t], r)]
      /\ line[t] \in Seq(Reqs) /\ Len(line[t]) \in Nat
  BY DEF Call, TypeOK
<1>2. /\ Len(line'[t]) = Len(line[t]) + 1 /\ line'[t][Len(line[t]) + 1] = r
      /\ \A k \in 1 .. Len(line[t]) : line'[t][k] = line[t][k]
      /\ \A u \in Types : u # t => line'[u] = line[u]
  BY <1>1, AppendProperties DEF TypeOK
<1>3. ASSUME NEW u \in Types, NEW k \in 1 .. Len(line[u])
      PROVE  line[u][k] \in Reqs /\ line[u][k] # r
  <2>1. line[u][k] \in Reqs
    BY ElementOfSeq DEF TypeOK
  <2> QED  BY <2>1, <1>1 DEF LineInv
<1>4. ASSUME NEW u \in Types, NEW k \in 1 .. Len(line'[u])
      PROVE  \/ k \in 1 .. Len(line[u]) /\ line'[u][k] = line[u][k]
             \/ u = t /\ k = Len(line[t]) + 1 /\ line'[u][k] = r
  BY <1>1, <1>2
<1>5. \A u \in Types : \A j, k \in 1 .. Len(line'[u]) : line'[u][j] = line'[u][k] => j = k
  BY <1>3, <1>4 DEF LineInv
<1>6. ASSUME NEW u \in Types, NEW k \in 1 .. Len(line'[u])
      PROVE  kind'[line'[u][k]] = u /\ stage'[line'[u][k]] \in {"queued", "waiting"}
  BY <1>1, <1>3, <1>4 DEF TypeOK, LineInv
<1>7. ASSUME NEW q \in Reqs
      PROVE  /\ kind'[q] = None <=> stage'[q] = "new"
             /\ stage'[q] \in {"queued", "waiting"} =>
                  \E k \in 1 .. Len(line'[kind'[q]]) : line'[kind'[q]][k] = q
             /\ stage'[q] = "waiting" =>
                  line'[kind'[q]] # <<>> /\ Head(line'[kind'[q]]) = q
  <2>1. CASE q = r
    BY <2>1, <1>1, <1>2, ConnectionAssumption DEF TypeOK
  <2>2. CASE q # r
    <3>1. kind'[q] = kind[q] /\ stage'[q] = stage[q]
      BY <2>2, <1>1 DEF TypeOK
    <3>2. ASSUME stage[q] \in {"queued", "waiting"}
          PROVE  \E k \in 1 .. Len(line'[kind[q]]) : line'[kind[q]][k] = q
      <4>1. kind[q] \in Types
        BY <3>2 DEF TypeOK, LineInv
      <4>2. PICK k \in 1 .. Len(line[kind[q]]) : line[kind[q]][k] = q
        BY <3>2 DEF LineInv
      <4>3. k \in 1 .. Len(line'[kind[q]]) /\ line'[kind[q]][k] = q
        BY <4>1, <4>2, <1>1, <1>2
      <4> QED  BY <4>3
    <3>3. ASSUME stage[q] = "waiting"
          PROVE  line'[kind[q]] # <<>> /\ Head(line'[kind[q]]) = q
      <4>1. kind[q] \in Types /\ line[kind[q]] # <<>> /\ line[kind[q]][1] = q
        BY <3>3 DEF TypeOK, LineInv
      <4>2. Len(line[kind[q]]) \in Nat \ {0}
        BY <4>1, EmptySeq DEF TypeOK
      <4>3. line'[kind[q]][1] = q /\ Len(line'[kind[q]]) > 0
        BY <4>1, <4>2, <1>2
      <4> QED  BY <4>3
    <3> QED  BY <3>1, <3>2, <3>3 DEF LineInv
  <2> QED  BY <2>1, <2>2
<1> QED  BY <1>5, <1>6, <1>7 DEF LineInv

\* A caller that leaves is the first in line, and the next one gets the lock.
LEMMA LeaveLine ==
  ASSUME TypeOK, LineInv, NEW r \in Reqs, NEW how \in Ended, Leaves(r, how)
  PROVE  line' \in [Types -> Seq(Reqs)] /\ LineInv'
<1> DEFINE t == kind[r]
<1>1. /\ t \in Types /\ line[t] \in Seq(Reqs) /\ line[t] # <<>> /\ line[t][1] = r
      /\ line' = [line EXCEPT ![t] = Tail(line[t])]
      /\ stage' = [stage EXCEPT ![r] = how] /\ kind' = kind
  BY ConnectionAssumption DEF TypeOK, LineInv, Leaves, HasLock
<1>2. /\ Tail(line[t]) \in Seq(Reqs) /\ Len(Tail(line[t])) = Len(line[t]) - 1
      /\ \A k \in 1 .. Len(line[t]) - 1 : Tail(line[t])[k] = line[t][k + 1]
  BY <1>1, HeadTailProperties
<1>3. Len(line[t]) \in Nat \ {0}
  BY <1>1, EmptySeq
<1>4. line' \in [Types -> Seq(Reqs)]
  BY <1>1, <1>2 DEF TypeOK
<1>5. ASSUME NEW u \in Types, NEW j \in 1 .. Len(line'[u]), NEW k \in 1 .. Len(line'[u]),
             line'[u][j] = line'[u][k]
      PROVE  j = k
  <2>1. CASE u = t
    <3>1. /\ j + 1 \in 1 .. Len(line[t]) /\ line'[u][j] = line[t][j + 1]
          /\ k + 1 \in 1 .. Len(line[t]) /\ line'[u][k] = line[t][k + 1]
      BY <2>1, <1>1, <1>2, <1>3 DEF TypeOK
    <3>2. j + 1 = k + 1
      BY <3>1, <1>1, <1>5 DEF LineInv
    <3> QED  BY <3>2
  <2>2. CASE u # t
    BY <2>2, <1>1, <1>5 DEF TypeOK, LineInv
  <2> QED  BY <2>1, <2>2
<1>6. ASSUME NEW u \in Types, NEW k \in 1 .. Len(line'[u])
      PROVE  /\ kind'[line'[u][k]] = u
             /\ stage'[line'[u][k]] \in {"queued", "waiting"}
  <2>1. CASE u = t
    <3>1. line'[u][k] = line[t][k + 1] /\ k + 1 \in 1 .. Len(line[t])
      BY <2>1, <1>1, <1>2, <1>3 DEF TypeOK
    <3>2. line[t][k + 1] # r
      BY <3>1, <1>1, <1>3 DEF LineInv
    <3> QED  BY <2>1, <3>1, <3>2, <1>1, ElementOfSeq DEF TypeOK, LineInv
  <2>2. CASE u # t
    BY <2>2, <1>1, ElementOfSeq DEF TypeOK, LineInv
  <2> QED  BY <2>1, <2>2
<1>7. ASSUME NEW q \in Reqs
      PROVE  /\ kind'[q] = None <=> stage'[q] = "new"
             /\ stage'[q] \in {"queued", "waiting"} =>
                  \E k \in 1 .. Len(line'[kind'[q]]) : line'[kind'[q]][k] = q
             /\ stage'[q] = "waiting" =>
                  line'[kind'[q]] # <<>> /\ Head(line'[kind'[q]]) = q
  <2>1. CASE q = r \/ kind[q] # t
    BY <2>1, <1>1 DEF TypeOK, LineInv, Ended
  <2>2. CASE q # r /\ kind[q] = t
    <3>1. stage[q] # "waiting"
      BY <2>2, <1>1 DEF LineInv
    <3>2. ASSUME stage[q] = "queued"
          PROVE  \E k \in 1 .. Len(line'[t]) : line'[t][k] = q
      <4>1. PICK k \in 1 .. Len(line[t]) : line[t][k] = q
        BY <2>2, <3>2 DEF LineInv
      <4>2. k - 1 \in 1 .. Len(line'[t]) /\ line'[t][k - 1] = q
        BY <4>1, <2>2, <1>1, <1>2, <1>3 DEF TypeOK
      <4> QED  BY <4>2
    <3> QED  BY <2>2, <3>1, <3>2, <1>1 DEF TypeOK, LineInv
  <2> QED  BY <2>1, <2>2
<1> QED  BY <1>4, <1>5, <1>6, <1>7 DEF LineInv

\* A lock per type: of the requests of one type at most one waits.
LEMMA OneWaits ==
  ASSUME LineInv, NEW q \in Reqs, NEW r \in Reqs,
         stage[q] = "waiting", stage[r] = "waiting", kind[q] = kind[r]
  PROVE  q = r
  BY DEF LineInv

\* What reading one message does: nothing to the futures, or it resolves one that
\* is pending, with a message that carries its id or just its type.
LEMMA ReadEffect ==
  ASSUME TypeOK, Read
  PROVE  \E m \in Message :
           /\ toHub # <<>> /\ m = toHub[1] /\ Len(toHub) \in Nat \ {0}
           /\ toHub' \in Seq(Message) /\ Len(toHub') = Len(toHub) - 1
           /\ \A k \in 1 .. Len(toHub) - 1 : toHub'[k] = toHub[k + 1]
           /\ supports' = (supports \/ m.hasId)
           /\ \/ UNCHANGED <<pending, fut, got>>
              \/ \E r \in pending :
                   /\ Resolve(r, m)
                   /\ \/ m.hasId /\ m.answers = r
                      \/ ~ m.hasId /\ ~ supports /\ m.type = kind[r]
<1>1. toHub # <<>> /\ toHub' = Tail(toHub) /\ ReadMessage(Head(toHub))
  BY DEF Read
<1>2. Head(toHub) = toHub[1] /\ Head(toHub) \in Message /\ Len(toHub) \in Nat \ {0}
  BY <1>1, HeadTailProperties, EmptySeq DEF TypeOK
<1>3. /\ toHub' \in Seq(Message) /\ Len(toHub') = Len(toHub) - 1
      /\ \A k \in 1 .. Len(toHub) - 1 : toHub'[k] = toHub[k + 1]
  BY <1>1, HeadTailProperties DEF TypeOK
<1>4. LET m == Head(toHub) IN
        /\ supports' = (supports \/ m.hasId)
        /\ \/ UNCHANGED <<pending, fut, got>>
           \/ \E r \in pending :
                /\ Resolve(r, m)
                /\ \/ m.hasId /\ m.answers = r
                   \/ ~ m.hasId /\ ~ supports /\ m.type = kind[r]
  <2>1. CASE Head(toHub).hasId
    BY <2>1, <1>1, <1>2 DEF ReadMessage, TypeOK, Message
  <2>2. CASE ~ Head(toHub).hasId
    BY <2>2, <1>1, <1>2 DEF ReadMessage, Waiting, TypeOK, Message
  <2> QED  BY <2>1, <2>2
<1> QED  BY <1>1, <1>2, <1>3, <1>4

\* Reading a message keeps ConnInv: whoever else's answer a request gets, that one
\* has left (OneWaits), without its own.
LEMMA ReadConnInv ==
  ASSUME ConnInv, Read
  PROVE  ConnInv'
<1>1. PICK m \in Message :
        /\ toHub # <<>> /\ m = toHub[1] /\ Len(toHub) \in Nat \ {0}
        /\ toHub' \in Seq(Message) /\ Len(toHub') = Len(toHub) - 1
        /\ \A k \in 1 .. Len(toHub) - 1 : toHub'[k] = toHub[k + 1]
        /\ supports' = (supports \/ m.hasId)
        /\ \/ UNCHANGED <<pending, fut, got>>
           \/ \E r \in pending :
                /\ Resolve(r, m)
                /\ \/ m.hasId /\ m.answers = r
                   \/ ~ m.hasId /\ ~ supports /\ m.type = kind[r]
  BY ReadEffect DEF ConnInv
<1>2. UNCHANGED <<echoes, ending, stage, kind, line, toWorker, pushes, link, reader>>
  BY DEF Read, callVars
<1>3. \A k \in 1 .. Len(toHub') : toHub'[k].answers # m.answers \/ m.answers = None
  BY <1>1 DEF ConnInv, AnswerInv
<1>a. /\ m.answers \in Reqs \cup {None} /\ m.hasId \in BOOLEAN /\ m # None
      /\ m.answers = None => ~ m.hasId
      /\ m.answers # None =>
           /\ stage[m.answers] \in Sent /\ ~ Served(m.answers)
           /\ kind[m.answers] = m.type /\ m.hasId = echoes
  BY <1>1, MessageAssumption DEF ConnInv, AnswerInv, Owed, Message
<1>b. link' # "none" /\ EchoInv'
  BY <1>1, <1>2, <1>a DEF ConnInv, ClosedInv, EchoInv
<1>c. \A k \in 1 .. Len(toHub') : k + 1 \in 1 .. Len(toHub) /\ toHub'[k] = toHub[k + 1]
  BY <1>1
<1>d. \A k \in 1 .. Len(toHub) : toHub[k] \in Message /\ toHub[k].answers \in Reqs \cup {None}
  <2>1. \A k \in 1 .. Len(toHub) : toHub[k] \in Message
    BY ElementOfSeq DEF ConnInv, TypeOK
  <2> QED  BY <2>1 DEF Message
<1>e. \A k \in 1 .. Len(toWorker) : toWorker[k] \in Reqs
  BY ElementOfSeq DEF ConnInv, TypeOK
<1>f. ASSUME NEW j \in 1 .. Len(toHub'), NEW k \in 1 .. Len(toHub'),
             toHub'[j].answers = toHub'[k].answers, toHub'[k].answers # None
      PROVE  j = k
  <2>1. j + 1 = k + 1
    BY <1>c, <1>f DEF ConnInv, AnswerInv
  <2> QED  BY <2>1
<1>4. ASSUME UNCHANGED <<fut, got>>, pending' \subseteq pending,
             \A q \in pending \ pending' : fut[q] # "open"
      PROVE  ConnInv'
  <2>1. TypeOK'
    <3>1. supports' \in BOOLEAN
      BY <1>1
    <3> QED  BY <3>1, <1>1, <1>2, <1>4 DEF ConnInv, TypeOK
  <2>a. LineInv' /\ ClosedInv'
    BY <1>2, <1>b DEF ConnInv, LineInv, ClosedInv
  <2>2. FutureInv' /\ OnlyCancelledLinger' /\ NoCrossTalk'
    BY <1>2, <1>4 DEF ConnInv, FutureInv, Doomed, OnlyCancelledLinger, NoCrossTalk
  <2>3. AskedInv'
    BY <1>c, <1>2, <1>4 DEF ConnInv, AskedInv, Served
  <2>4. (\A k \in 1 .. Len(toHub) : Owed(toHub[k]))'
    BY <1>c, <1>2, <1>4 DEF ConnInv, AnswerInv, Owed, Served
  <2> QED  BY <2>1, <2>a, <2>2, <2>3, <2>4, <1>b, <1>f DEF ConnInv, AnswerInv
<1>5. ASSUME NEW r \in pending, Resolve(r, m), fut[r] = "open",
             \/ m.hasId /\ m.answers = r
             \/ ~ m.hasId /\ ~ supports /\ m.type = kind[r]
      PROVE  ConnInv'
  <2>a. /\ r \in Reqs /\ stage[r] = "waiting" /\ fut[r] = "open"
    BY <1>5 DEF ConnInv, TypeOK, OnlyCancelledLinger
  <2>b. got[r] = None
    BY <2>a DEF ConnInv, FutureInv
  <2>1. /\ r \in Reqs /\ stage[r] = "waiting" /\ got[r] = None
        /\ fut' = [fut EXCEPT ![r] = "set"] /\ got' = [got EXCEPT ![r] = m]
        /\ pending' = pending \ {r} /\ m # None
    BY <1>5, <1>a, <2>a, <2>b DEF Resolve
  <2>c. \A q \in Reqs : got'[q] = IF q = r THEN m ELSE got[q]
    BY <2>1 DEF ConnInv, TypeOK
  <2>d. \A q \in Reqs : q # m.answers /\ ~ Served(q) => ~ Served(q)'
    BY <2>c DEF Served
  <2>2. TypeOK'
    BY <1>1, <1>2, <2>1 DEF ConnInv, TypeOK
  <2>3. LineInv'
    BY <1>2 DEF ConnInv, LineInv
  <2>4. FutureInv' /\ ClosedInv' /\ EchoInv' /\ OnlyCancelledLinger'
    <3>1. /\ \A q \in Reqs : fut'[q] = IF q = r THEN "set" ELSE fut[q]
          /\ \A q \in Reqs : q \in pending' <=> q \in pending /\ q # r
      BY <2>1 DEF ConnInv, TypeOK
    <3>2. FutureInv'
      BY <3>1, <1>2, <2>1, <2>c DEF ConnInv, FutureInv, Doomed
    <3>3. OnlyCancelledLinger'
      BY <3>1, <1>2, <2>1 DEF ConnInv, OnlyCancelledLinger
    <3> QED  BY <1>b, <3>2, <3>3 DEF ClosedInv
  <2>5. AskedInv'
    <3>1. \A k \in 1 .. Len(toWorker) : toWorker[k] # m.answers
      BY <1>1 DEF ConnInv, AskedInv
    <3> QED  BY <3>1, <2>d, <1>c, <1>e, <1>2 DEF ConnInv, AskedInv
  <2>6. AnswerInv'
    <3>1. ASSUME NEW k \in 1 .. Len(toHub'), toHub'[k].answers # None
          PROVE  toHub'[k].answers \in Reqs /\ toHub'[k].answers # m.answers
      BY <1>c, <1>d, <1>3, <3>1
    <3>2. (\A k \in 1 .. Len(toHub) : Owed(toHub[k]))'
      BY <3>1, <2>d, <1>c, <1>2 DEF ConnInv, AnswerInv, Owed
    <3> QED  BY <3>2, <1>f DEF AnswerInv
  <2>7. NoCrossTalk'
    <3> SUFFICES ASSUME NEW q \in Reqs, got'[q] # None, got'[q].answers \notin {q, None}
                 PROVE  LET p == got'[q].answers IN
                        /\ ~ echoes' /\ kind'[p] = kind'[q]
                        /\ \/ stage'[p] = "timedOut"
                           \/ stage'[p] = "returned" /\ got'[p].answers # p
      BY DEF NoCrossTalk
    <3> DEFINE p == got'[q].answers
    <3>1. CASE q = r
      <4>1. /\ p = m.answers /\ p \in Reqs /\ p # r /\ kind[p] = kind[r]
            /\ ~ m.hasId /\ m.hasId = echoes
        BY <3>1, <2>1, <2>c, <1>a, <1>5
      <4>2. stage[p] \in {"timedOut", "returned", "cancelled"} /\ ~ Served(p)
        BY <4>1, <2>1, <1>a, OneWaits DEF ConnInv, Sent, Ended
      <4>3. stage[p] # "cancelled"
        <5>1. stage[p] = "cancelled" => Doomed(p)
          BY <4>1, <1>b, <1>2 DEF ConnInv, FutureInv
        <5>2. ~ Doomed(r)
          BY <2>a DEF ConnInv, FutureInv
        <5> QED  BY <4>1, <5>1, <5>2 DEF Doomed
      <4>4. stage[p] = "returned" => got[p] # None
        BY <4>1 DEF ConnInv, FutureInv
      <4> HIDE DEF p
      <4>5. got'[p] = got[p]
        BY <4>1, <2>c
      <4> QED  BY <4>1, <4>2, <4>3, <4>4, <4>5, <3>1, <1>2 DEF Served, p
    <3>2. CASE q # r
      <4>1. got'[q] = got[q] /\ p \in Reqs
        BY <3>2, <2>c DEF ConnInv, TypeOK, Message
      <4>2. /\ ~ echoes /\ kind[p] = kind[q]
            /\ stage[p] = "timedOut" \/ (stage[p] = "returned" /\ got[p].answers # p)
        BY <4>1 DEF ConnInv, NoCrossTalk
      <4>3. p # r
        BY <4>2, <2>1
      <4> HIDE DEF p
      <4> QED  BY <4>1, <4>2, <4>3, <2>c, <1>2 DEF p
    <3> QED  BY <3>1, <3>2
  <2> QED  BY <2>2, <2>3, <2>4, <2>5, <2>6, <2>7 DEF ConnInv
<1>6. ASSUME NEW r \in pending, Resolve(r, m), fut[r] # "open"
      PROVE  ConnInv'
  <2>1. UNCHANGED <<fut, got>>
    BY <1>6 DEF Resolve, ConnInv, TypeOK
  <2>2. pending' = pending \ {r}
    BY <1>6 DEF Resolve
  <2> QED  BY <1>4, <1>6, <2>1, <2>2
<1> QED  BY <1>1, <1>4, <1>5, <1>6
-----------------------------------------------------------------------------
\* A request that was not sent is neither on its way nor answered.
LEMMA Unsent ==
  ASSUME ConnInv, NEW r \in Reqs, stage[r] \in {"new", "queued"}
  PROVE  /\ \A k \in 1 .. Len(toWorker) : toWorker[k] # r
         /\ \A k \in 1 .. Len(toHub) : toHub[k].answers # r
         /\ got[r] = None
<1>1. stage[r] \notin Sent /\ r # None
  BY ConnectionAssumption DEF Sent, Ended
<1>2. \A k \in 1 .. Len(toWorker) : toWorker[k] # r
  BY <1>1 DEF ConnInv, AskedInv
<1>3. \A k \in 1 .. Len(toHub) : toHub[k].answers # r
  BY <1>1 DEF ConnInv, AnswerInv, Owed
<1>4. got[r] = None
  BY DEF ConnInv, FutureInv
<1> QED  BY <1>2, <1>3, <1>4

\* A request enters the wire once.
LEMMA SendAsked ==
  ASSUME ConnInv, NEW r \in Reqs, Send(r)
  PROVE  AskedInv'
<1>1. /\ stage' = [stage EXCEPT ![r] = "waiting"] /\ got' = got /\ toHub' = toHub
      /\ stage[r] = "queued"
  BY DEF Send, MayGo, HasLock
<1>2. /\ \A k \in 1 .. Len(toWorker) : toWorker[k] # r
      /\ \A k \in 1 .. Len(toHub) : toHub[k].answers # r
      /\ got[r] = None
  BY <1>1, Unsent
<1>3. toWorker \in Seq(Reqs) /\ Len(toWorker) \in Nat
  BY DEF ConnInv, TypeOK
<1>4. \A k \in 1 .. Len(toWorker) : toWorker[k] \in Reqs
  BY <1>3, ElementOfSeq
<1>5. ASSUME NEW k \in 1 .. Len(toWorker')
      PROVE  \/ k \in 1 .. Len(toWorker) /\ toWorker'[k] = toWorker[k]
             \/ k = Len(toWorker) + 1 /\ toWorker'[k] = r
  BY <1>3, AppendProperties DEF Send
<1>6. ASSUME NEW k \in 1 .. Len(toWorker')
      PROVE  /\ stage'[toWorker'[k]] \in Sent
             /\ ~ (got'[toWorker'[k]] # None /\ got'[toWorker'[k]].answers = toWorker'[k])
             /\ \A j \in 1 .. Len(toHub') : toHub'[j].answers # toWorker'[k]
  <2>1. CASE toWorker'[k] = r
    BY <2>1, <1>1, <1>2 DEF Sent, ConnInv, TypeOK
  <2>2. CASE k \in 1 .. Len(toWorker) /\ toWorker'[k] = toWorker[k]
    BY <2>2, <1>1, <1>2, <1>4 DEF ConnInv, TypeOK, AskedInv, Served
  <2> QED  BY <2>1, <2>2, <1>5
<1>7. ASSUME NEW k \in 1 .. Len(toWorker'), NEW j \in 1 .. Len(toWorker'),
             toWorker'[j] = toWorker'[k]
      PROVE  j = k
  <2>1. CASE k \in 1 .. Len(toWorker) /\ toWorker'[k] = toWorker[k]
    BY <2>1, <1>2, <1>5, <1>7 DEF ConnInv, AskedInv
  <2>2. CASE k = Len(toWorker) + 1 /\ toWorker'[k] = r
    BY <2>2, <1>2, <1>5, <1>7
  <2> QED  BY <2>1, <2>2, <1>5
<1> QED  BY <1>6, <1>7 DEF AskedInv, Served

\* The messages that are left are a prefix of those on their way.
LEMMA LoseKeeps ==
  ASSUME ConnInv, Lose
  PROVE  TypeOK' /\ AnswerInv'
<1>1. PICK n \in 0 .. Len(toHub) : toHub' = SubSeq(toHub, 1, n)
  BY DEF Lose
<1>2. toHub \in Seq(Message) /\ Len(toHub) \in Nat
  BY DEF ConnInv, TypeOK
<1>3. \A k \in 1 .. n : k \in 1 .. Len(toHub) /\ toHub[k] \in Message
  BY <1>1, <1>2, ElementOfSeq
<1>4. /\ toHub' \in Seq(Message) /\ Len(toHub') = n
      /\ \A k \in 1 .. n : toHub'[k] = toHub[k]
  BY <1>1, <1>2, <1>3, SubSeqProperties
<1>5. UNCHANGED <<stage, kind, got, echoes>>
  BY DEF Lose, callVars, futVars
<1>6. (\A k \in 1 .. Len(toHub) : Owed(toHub[k]))'
  BY <1>3, <1>4, <1>5 DEF ConnInv, AnswerInv, Owed, Served
<1>7. \A j, k \in 1 .. Len(toHub') :
        toHub'[j].answers = toHub'[k].answers /\ toHub'[k].answers # None => j = k
  BY <1>3, <1>4 DEF ConnInv, AnswerInv
<1>8. TypeOK'
  <2>1. /\ toWorker' \in Seq(Reqs) /\ link' = "lost"
        /\ UNCHANGED <<echoes, ending, stage, kind, line, pending, fut, got, supports, pushes, reader>>
    BY EmptySeq DEF Lose, callVars, futVars
  <2> QED  BY <2>1, <1>4 DEF ConnInv, TypeOK
<1> QED  BY <1>6, <1>7, <1>8 DEF AnswerInv

\* An unasked message answers no request.
LEMMA PushAnswer ==
  ASSUME ConnInv, NEW t \in Types, Push(t)
  PROVE  toHub' \in Seq(Message) /\ AnswerInv'
<1> DEFINE u == [type |-> t, answers |-> None, hasId |-> FALSE]
<1>1. u \in Message /\ u.answers = None /\ u.hasId = FALSE
  BY DEF Message
<1> HIDE DEF u
<1>2. toHub \in Seq(Message) /\ Len(toHub) \in Nat
  BY DEF ConnInv, TypeOK
<1>3. toHub' = Append(toHub, u)
  BY DEF Push, u
<1>4. /\ toHub' \in Seq(Message) /\ Len(toHub') = Len(toHub) + 1
      /\ toHub'[Len(toHub) + 1] = u
      /\ \A k \in 1 .. Len(toHub) : toHub'[k] = toHub[k]
  BY <1>1, <1>2, <1>3, AppendProperties
<1>5. \A k \in 1 .. Len(toHub') :
        \/ k \in 1 .. Len(toHub) /\ toHub'[k] = toHub[k]
        \/ k = Len(toHub) + 1 /\ toHub'[k] = u
  BY <1>2, <1>4
<1>6. UNCHANGED <<stage, kind, got, echoes>>
  BY DEF Push, callVars, futVars
<1>7. (\A k \in 1 .. Len(toHub) : Owed(toHub[k]))'
  BY <1>1, <1>5, <1>6 DEF ConnInv, AnswerInv, Owed, Served
<1>8. \A j, k \in 1 .. Len(toHub') :
        toHub'[j].answers = toHub'[k].answers /\ toHub'[k].answers # None => j = k
  BY <1>1, <1>5 DEF ConnInv, AnswerInv
<1> QED  BY <1>4, <1>7, <1>8 DEF AnswerInv

\* An answer is the only one to its request, which is not on its way any more.
LEMMA AnswerAnswer ==
  ASSUME ConnInv, Answer
  PROVE  toHub' \in Seq(Message) /\ AnswerInv'
<1> DEFINE r == toWorker[1]
           a == [type |-> kind[r], answers |-> r, hasId |-> echoes]
<1>1. /\ Len(toWorker) \in Nat \ {0} /\ r = Head(toWorker) /\ r \in Reqs
      /\ toHub \in Seq(Message) /\ Len(toHub) \in Nat
  BY EmptySeq, HeadTailProperties DEF Answer, ConnInv, TypeOK
<1>2. /\ stage[r] \in Sent /\ ~ Served(r)
      /\ \A k \in 1 .. Len(toHub) : toHub[k].answers # r
  BY <1>1 DEF ConnInv, AskedInv
<1>3. a \in Message /\ a.answers = r /\ Owed(a) /\ toHub' = Append(toHub, a)
  <2>1. kind[r] \in Types /\ echoes \in BOOLEAN
    BY <1>1, <1>2 DEF ConnInv, TypeOK, LineInv, Sent, Ended
  <2> QED  BY <1>1, <1>2, <2>1, ConnectionAssumption DEF Message, Owed, Answer
<1> HIDE DEF r, a
<1>4. /\ toHub' \in Seq(Message) /\ Len(toHub') = Len(toHub) + 1 /\ toHub'[Len(toHub) + 1] = a
      /\ \A k \in 1 .. Len(toHub) : toHub'[k] = toHub[k]
  BY <1>1, <1>3, AppendProperties
<1>5. \A k \in 1 .. Len(toHub') :
        \/ k \in 1 .. Len(toHub) /\ toHub'[k] = toHub[k]
        \/ k = Len(toHub) + 1 /\ toHub'[k] = a
  BY <1>1, <1>4
<1>6. UNCHANGED <<stage, kind, got, echoes>>
  BY DEF Answer, callVars, futVars
<1>7. (\A k \in 1 .. Len(toHub) : Owed(toHub[k]))'
  BY <1>3, <1>5, <1>6 DEF ConnInv, AnswerInv, Owed, Served
<1>8. \A j, k \in 1 .. Len(toHub') :
        toHub'[j].answers = toHub'[k].answers /\ toHub'[k].answers # None => j = k
  BY <1>2, <1>3, <1>5 DEF ConnInv, AnswerInv
<1> QED  BY <1>4, <1>7, <1>8 DEF AnswerInv

\* Every step keeps ConnInv.
LEMMA NextConnInv ==
  ASSUME ConnInv, Next
  PROVE  ConnInv'
<1> USE ConnectionAssumption DEF ConnInv, TypeOK, LineInv, FutureInv, ClosedInv, AskedInv,
       AnswerInv, Owed, EchoInv, OnlyCancelledLinger, NoCrossTalk, Ended, Sent, Served, Message,
       Doomed, callVars, futVars, wireVars
<1>1. ASSUME NEW r \in Reqs, NEW t \in Types, Call(r, t)
      PROVE  ConnInv'
  <2>1. TypeOK'
    BY <1>1 DEF Call
  <2>2. LineInv'
    BY <1>1, CallLine
  <2>3. FutureInv'
    BY <1>1 DEF Call
  <2>4. ClosedInv'
    BY <1>1 DEF Call
  <2>5. AskedInv'
    BY <1>1 DEF Call
  <2>6. AnswerInv'
    BY <1>1 DEF Call
  <2>7. EchoInv'
    BY <1>1 DEF Call
  <2>8. OnlyCancelledLinger'
    BY <1>1 DEF Call
  <2>9. NoCrossTalk'
    BY <1>1 DEF Call
  <2> HIDE DEF TypeOK, LineInv, FutureInv, ClosedInv, AskedInv, AnswerInv, EchoInv, OnlyCancelledLinger, NoCrossTalk
  <2> QED  BY <2>1, <2>2, <2>3, <2>4, <2>5, <2>6, <2>7, <2>8, <2>9
<1>2. ASSUME NEW r \in Reqs, Send(r)
      PROVE  ConnInv'
  <2>1. TypeOK'
    BY <1>2 DEF Send, MayGo, HasLock
  <2>2. LineInv'
    BY <1>2 DEF Send, MayGo, HasLock
  <2>3. FutureInv'
    BY <1>2 DEF Send, MayGo, HasLock
  <2>4. ClosedInv'
    BY <1>2 DEF Send, MayGo, HasLock
  <2>5. AskedInv'
    BY <1>2, SendAsked
  <2>6. AnswerInv'
    BY <1>2 DEF Send, MayGo, HasLock
  <2>7. EchoInv'
    BY <1>2 DEF Send, MayGo, HasLock
  <2>8. OnlyCancelledLinger'
    BY <1>2 DEF Send, MayGo, HasLock
  <2>9. NoCrossTalk'
    BY <1>2 DEF Send, MayGo, HasLock
  <2> HIDE DEF TypeOK, LineInv, FutureInv, ClosedInv, AskedInv, AnswerInv, EchoInv, OnlyCancelledLinger, NoCrossTalk
  <2> QED  BY <2>1, <2>2, <2>3, <2>4, <2>5, <2>6, <2>7, <2>8, <2>9
<1>3. ASSUME NEW r \in Reqs, Returns(r)
      PROVE  ConnInv'
  <2>1. line' \in [Types -> Seq(Reqs)] /\ LineInv'
    BY <1>3, LeaveLine DEF Returns
  <2>2. TypeOK'
    BY <1>3, <2>1 DEF Returns, Leaves, HasLock
  <2>3. FutureInv'
    BY <1>3 DEF Returns, Leaves, HasLock
  <2>4. ClosedInv'
    BY <1>3 DEF Returns, Leaves, HasLock
  <2>5. AskedInv'
    BY <1>3 DEF Returns, Leaves, HasLock
  <2>6. AnswerInv'
    BY <1>3 DEF Returns, Leaves, HasLock
  <2>7. EchoInv'
    BY <1>3 DEF Returns, Leaves, HasLock
  <2>8. OnlyCancelledLinger'
    BY <1>3 DEF Returns, Leaves, HasLock
  <2>9. NoCrossTalk'
    BY <1>3 DEF Returns, Leaves, HasLock
  <2> HIDE DEF TypeOK, LineInv, FutureInv, ClosedInv, AskedInv, AnswerInv, EchoInv, OnlyCancelledLinger, NoCrossTalk
  <2> QED  BY <2>1, <2>2, <2>3, <2>4, <2>5, <2>6, <2>7, <2>8, <2>9
<1>4. ASSUME NEW r \in Reqs, TimesOut(r)
      PROVE  ConnInv'
  <2>1. line' \in [Types -> Seq(Reqs)] /\ LineInv'
    BY <1>4, LeaveLine DEF TimesOut
  <2>2. TypeOK'
    BY <1>4, <2>1 DEF TimesOut, Leaves, HasLock
  <2>3. FutureInv'
    BY <1>4 DEF TimesOut, Leaves, HasLock
  <2>4. ClosedInv'
    BY <1>4 DEF TimesOut, Leaves, HasLock
  <2>5. AskedInv'
    BY <1>4 DEF TimesOut, Leaves, HasLock
  <2>6. AnswerInv'
    BY <1>4 DEF TimesOut, Leaves, HasLock
  <2>7. EchoInv'
    BY <1>4 DEF TimesOut, Leaves, HasLock
  <2>8. OnlyCancelledLinger'
    BY <1>4 DEF TimesOut, Leaves, HasLock
  <2>9. NoCrossTalk'
    BY <1>4 DEF TimesOut, Leaves, HasLock
  <2> HIDE DEF TypeOK, LineInv, FutureInv, ClosedInv, AskedInv, AnswerInv, EchoInv, OnlyCancelledLinger, NoCrossTalk
  <2> QED  BY <2>1, <2>2, <2>3, <2>4, <2>5, <2>6, <2>7, <2>8, <2>9
<1>5. ASSUME NEW r \in Reqs, IsCancelled(r)
      PROVE  ConnInv'
  <2>1. line' \in [Types -> Seq(Reqs)] /\ LineInv'
    BY <1>5, LeaveLine DEF IsCancelled
  <2>2. TypeOK'
    BY <1>5, <2>1 DEF IsCancelled, Leaves, HasLock
  <2>3. FutureInv'
    BY <1>5 DEF IsCancelled, Leaves, HasLock
  <2>4. ClosedInv'
    BY <1>5 DEF IsCancelled, Leaves, HasLock
  <2>5. AskedInv'
    BY <1>5 DEF IsCancelled, Leaves, HasLock
  <2>6. AnswerInv'
    BY <1>5 DEF IsCancelled, Leaves, HasLock
  <2>7. EchoInv'
    BY <1>5 DEF IsCancelled, Leaves, HasLock
  <2>8. OnlyCancelledLinger'
    BY <1>5 DEF IsCancelled, Leaves, HasLock
  <2>9. NoCrossTalk'
    BY <1>5 DEF IsCancelled, Leaves, HasLock
  <2> HIDE DEF TypeOK, LineInv, FutureInv, ClosedInv, AskedInv, AnswerInv, EchoInv, OnlyCancelledLinger, NoCrossTalk
  <2> QED  BY <2>1, <2>2, <2>3, <2>4, <2>5, <2>6, <2>7, <2>8, <2>9
<1>6. ASSUME Read
      PROVE  ConnInv'
  BY <1>6, ReadConnInv
<1>7. ASSUME ReaderEnds
      PROVE  ConnInv'
  BY <1>7 DEF ReaderEnds
<1>8. ASSUME Close
      PROVE  ConnInv'
  BY <1>8 DEF Close
<1>9. ASSUME Answer
      PROVE  ConnInv'
  <2>1. TypeOK'
    <3>1. toWorker' \in Seq(Reqs)
      BY <1>9 DEF Answer
    <3>2. toHub' \in Seq(Message)
      BY <1>9, AnswerAnswer
    <3> QED  BY <1>9, <3>1, <3>2 DEF Answer
  <2>2. LineInv'
    BY <1>9 DEF Answer
  <2>3. FutureInv'
    BY <1>9 DEF Answer
  <2>4. ClosedInv'
    BY <1>9 DEF Answer
  <2>5. AskedInv'
    BY <1>9 DEF Answer
  <2>6. AnswerInv'
    BY <1>9, AnswerAnswer
  <2>7. EchoInv'
    BY <1>9 DEF Answer
  <2>8. OnlyCancelledLinger'
    BY <1>9 DEF Answer
  <2>9. NoCrossTalk'
    BY <1>9 DEF Answer
  <2> HIDE DEF TypeOK, LineInv, FutureInv, ClosedInv, AskedInv, AnswerInv, EchoInv, OnlyCancelledLinger, NoCrossTalk
  <2> QED  BY <2>1, <2>2, <2>3, <2>4, <2>5, <2>6, <2>7, <2>8, <2>9
<1>10. ASSUME Ignore
      PROVE  ConnInv'
  BY <1>10 DEF Ignore
<1>11. ASSUME Lose
      PROVE  ConnInv'
  <2>1. TypeOK'
    BY <1>11, LoseKeeps
  <2>2. LineInv'
    BY <1>11 DEF Lose
  <2>3. FutureInv'
    BY <1>11 DEF Lose
  <2>4. ClosedInv'
    BY <1>11 DEF Lose
  <2>5. AskedInv'
    BY <1>11 DEF Lose
  <2>6. AnswerInv'
    BY <1>11, LoseKeeps
  <2>7. EchoInv'
    BY <1>11 DEF Lose
  <2>8. OnlyCancelledLinger'
    BY <1>11 DEF Lose
  <2>9. NoCrossTalk'
    BY <1>11 DEF Lose
  <2> HIDE DEF TypeOK, LineInv, FutureInv, ClosedInv, AskedInv, AnswerInv, EchoInv, OnlyCancelledLinger, NoCrossTalk
  <2> QED  BY <2>1, <2>2, <2>3, <2>4, <2>5, <2>6, <2>7, <2>8, <2>9
<1>12. ASSUME NEW t \in Types, Push(t)
      PROVE  ConnInv'
  <2>1. TypeOK'
    BY <1>12 DEF Push
  <2>2. LineInv'
    BY <1>12 DEF Push
  <2>3. FutureInv'
    BY <1>12 DEF Push
  <2>4. ClosedInv'
    BY <1>12 DEF Push
  <2>5. AskedInv'
    BY <1>12 DEF Push
  <2>6. AnswerInv'
    BY <1>12, PushAnswer
  <2>7. EchoInv'
    BY <1>12 DEF Push
  <2>8. OnlyCancelledLinger'
    BY <1>12 DEF Push
  <2>9. NoCrossTalk'
    BY <1>12 DEF Push
  <2> HIDE DEF TypeOK, LineInv, FutureInv, ClosedInv, AskedInv, AnswerInv, EchoInv, OnlyCancelledLinger, NoCrossTalk
  <2> QED  BY <2>1, <2>2, <2>3, <2>4, <2>5, <2>6, <2>7, <2>8, <2>9
<1>13. ASSUME HandlerEnds
       PROVE  ConnInv'
  <2>1. TypeOK' /\ LineInv' /\ ClosedInv' /\ AskedInv' /\ AnswerInv' /\ EchoInv'
    BY <1>13 DEF HandlerEnds
  <2>2. FutureInv'
    BY <1>13 DEF HandlerEnds
  <2>3. OnlyCancelledLinger'
    BY <1>13 DEF HandlerEnds
  <2>4. NoCrossTalk'
    BY <1>13 DEF HandlerEnds
  <2> HIDE DEF TypeOK, LineInv, FutureInv, ClosedInv, AskedInv, AnswerInv, EchoInv, OnlyCancelledLinger, NoCrossTalk
  <2> QED  BY <2>1, <2>2, <2>3, <2>4
<1> QED
  BY <1>1, <1>2, <1>3, <1>4, <1>5, <1>6, <1>7, <1>8, <1>9, <1>10, <1>11, <1>12, <1>13 DEF Next, Callers

\* It holds at the start.
LEMMA InitConnInv ==
  ASSUME Init
  PROVE  ConnInv
<1>0. <<>> \in Seq(Reqs) /\ <<>> \in Seq(Message)
  BY EmptySeq
<1>1. TypeOK
  <2>1. 0 \in 0 .. MaxPushes
    BY ConnectionAssumption
  <2> QED  BY <1>0, <2>1 DEF Init, TypeOK
<1>2. Len(<<>>) = 0
  OBVIOUS
<1>3. LineInv /\ AskedInv /\ AnswerInv
  BY <1>2 DEF Init, LineInv, AskedInv, AnswerInv
<1>4. FutureInv /\ ClosedInv /\ EchoInv /\ OnlyCancelledLinger /\ NoCrossTalk
  BY DEF Init, FutureInv, Doomed, ClosedInv, EchoInv, OnlyCancelledLinger, NoCrossTalk
<1> QED  BY <1>1, <1>3, <1>4 DEF ConnInv

\* A step that changes nothing keeps it.
LEMMA StutterConnInv ==
  ASSUME ConnInv, UNCHANGED vars
  PROVE  ConnInv'
BY DEF vars, ConnInv, TypeOK, LineInv, FutureInv, ClosedInv, AskedInv, AnswerInv, EchoInv,
       OnlyCancelledLinger, NoCrossTalk, Served, Owed, Doomed
-----------------------------------------------------------------------------
\* The inductive invariant of the connection: the lines of the locks, the life of a
\* future, and that of a request and its answer.
THEOREM ConnInvariant == Spec => []ConnInv
<1>1. ConnInv /\ [Next]_vars => ConnInv'
  BY NextConnInv, StutterConnInv
<1> QED  BY InitConnInv, <1>1, PTL DEF Spec

\* The table of pending futures holds those that are awaited, in every state, and
\* beside them only what a teardown cancelled (request(), _read_loop, close()).
THEOREM PendingIsExact == Spec => []OnlyCancelledLinger
<1>1. ConnInv => OnlyCancelledLinger
  BY DEF ConnInv
<1> QED  BY ConnInvariant, <1>1, PTL

\* The lock per response type keeps answers apart, whoever the worker is; only a
\* request that timed out leaves its answer to another (request() and _read_loop).
THEOREM AnswersNotCrossed == Spec => []NoCrossTalk
<1>1. ConnInv => NoCrossTalk
  BY DEF ConnInv
<1> QED  BY ConnInvariant, <1>1, PTL

\* Once an id was echoed, a future is set only by the answer to its own request
\* (_read_loop and _supports_req_id).
THEOREM EchoedIsExact == Spec => ExactOnceEchoed
<1> DEFINE Own == \A r \in Reqs :
             supports /\ fut[r] = "open" /\ fut'[r] = "set" => got'[r].answers = r
<1>1. ASSUME ConnInv, Next  PROVE Own
  <2>1. CASE Read
    <3>1. PICK m \in Message :
            \/ UNCHANGED <<pending, fut, got>>
            \/ \E r \in pending :
                 /\ Resolve(r, m)
                 /\ \/ m.hasId /\ m.answers = r
                    \/ ~ m.hasId /\ ~ supports /\ m.type = kind[r]
      BY <2>1, <1>1, ReadEffect DEF ConnInv
    <3> QED  BY <3>1, <1>1 DEF Resolve, ConnInv, TypeOK
  <2>2. CASE ~ Read
    BY <2>2, <1>1 DEF Next, Callers, Call, Send, Returns, TimesOut, IsCancelled, Leaves, ReaderEnds,
       HandlerEnds, Close,
       Answer, Ignore, Lose, Push, futVars, ConnInv, TypeOK
  <2> QED  BY <2>1, <2>2
<1>2. ASSUME UNCHANGED vars  PROVE Own
  BY <1>2 DEF vars
<1>3. ConnInv /\ [Next]_vars => [Own]_vars
  BY <1>1, <1>2
<1> QED  BY ConnInvariant, <1>3, PTL DEF Spec, ExactOnceEchoed
=============================================================================
