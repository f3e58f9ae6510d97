--------------------------- MODULE HandlerProofs ---------------------------
(***************************************************************************)
(* Proofs about the connections of the four workers and the parts beside   *)
(* them, for any inbox, add-ins, documents, files and data sockets.        *)
(***************************************************************************)
EXTENDS MCHandlers, FiniteSetTheorems, TLAPS

-----------------------------------------------------------------------------
(* The connection.                                                         *)

Toggling == {"open", "close"}
Request ==
  [t : {"query", "start", "oauth"} \cup Toggling] \cup [t : {"auth", "cancel"}, id : Nat]

ConnTypes ==
  /\ conn \in BOOLEAN /\ panel \in BOOLEAN /\ stray \in BOOLEAN
  /\ inbox \in Seq(Request)
  /\ ids \in Nat /\ banner \in Nat \cup {None}

\* If the last toggle in the inbox opens, the panel is still there, or its close
\* went astray.
PanelInv ==
  \A k \in DOMAIN inbox :
    inbox[k].t = "open" /\ (\A j \in DOMAIN inbox : j > k => inbox[j].t \notin Toggling)
      => panel \/ stray

ConnInv == ConnTypes /\ PanelInv /\ OnlyStraysLackPanel
-----------------------------------------------------------------------------
(* Uploads.                                                                *)

UploadTypes ==
  /\ queue \in Seq(Items)
  /\ flight \in [i : Items, p : {"error", "overwrite", "rename"}] \cup {None}
  /\ asked \in Items \cup {None}
  /\ batch \in [Upl!Outcomes -> Nat]
  /\ IsFiniteSet(DOMAIN added)

\* i is an item of the batch that is not counted yet.
Open(i) == i \in DOMAIN added /\ added[i] = "queued"

\* An item that is under way is in one place, and not counted.
PlaceInv ==
  /\ flight # None => Open(flight.i) /\ asked = None
  /\ asked # None => Open(asked)
  /\ \A k \in DOMAIN queue :
       /\ Open(queue[k])
       /\ asked # queue[k]
       /\ flight # None => flight.i # queue[k]
       /\ \A j \in DOMAIN queue : queue[j] = queue[k] => j = k

\* The counters, as long as something is under way.
BatchInv == ~ Upl!Idle => \A o \in Upl!Outcomes : batch[o] = Cardinality(Upl!Of(o))

UploadInv == UploadTypes /\ PlaceInv /\ BatchInv
-----------------------------------------------------------------------------
(* The knowledge base, the Excel bridge and the dialer.                    *)

\* A document's chunks are its own; an id not handed out has none.
DocsInv ==
  /\ handed \in 0 .. MaxDocs
  /\ docs \in [Kno!Ids -> Texts \cup {None}]
  /\ chunks \in [Kno!Ids -> SUBSET Texts]
  /\ \A d \in Kno!Ids :
       /\ docs[d] # None => chunks[d] = {docs[d]} /\ d <= handed
       /\ d > handed => chunks[d] = {}

\* What a tool read before it awaited the embedding.
ToolsInv ==
  /\ DOMAIN tool = Tools
  /\ \A t \in Tools :
       /\ tool[t].op \in {"search", "insert", "replace"} => tool[t].x \in Texts
       /\ tool[t].op = "replace" => tool[t].d \in Kno!Ids /\ tool[t].d <= handed

BridgeInv ==
  /\ addins \in Seq(Addins)
  /\ lost \subseteq Exc!Listed
  /\ DOMAIN call = Calls
  /\ WaitsForListed

DialerInv == DOMAIN task = Channels /\ NothingLeft

HandlersInv ==
  /\ ConnInv
  /\ UploadInv /\ DocsInv /\ ToolsInv /\ BridgeInv /\ DialerInv
-----------------------------------------------------------------------------
(* What a step does to the inbox, the terminal and the panel: the handlers *)
(* of the four workers differ in everything else.                          *)

Dies == term' = "live" => term = "live"
Quiet == UNCHANGED <<conn, inbox, panel, stray>> /\ Dies
Emptied == inbox' = <<>> /\ UNCHANGED panel /\ conn' \in BOOLEAN /\ term' # "live"
Reads1 == inbox # <<>> /\ inbox' = Tail(inbox) /\ UNCHANGED <<conn, panel, stray>> /\ conn
ReadsOther == Reads1 /\ Head(inbox).t \notin Toggling /\ UNCHANGED term
ReadsOpen == Reads1 /\ Head(inbox).t = "open"
ReadsClose == Reads1 /\ Head(inbox).t = "close" /\ term' = "none"
Sends == \E m \in Request :
  m.t \notin Toggling /\ inbox' = Append(inbox, m) /\ UNCHANGED <<conn, panel, stray, term>>
\* A panel opens or closes: this worker is told, or it is not.
Tells == \E m \in Request :
  /\ m.t = "close" \/ (m.t = "open" /\ panel')
  /\ inbox' = Append(inbox, m) /\ UNCHANGED <<conn, term>>
Apart == UNCHANGED <<conn, inbox, term>> /\ (panel' \/ stray')

Moves ==
  /\ Quiet \/ Emptied \/ ReadsOther \/ ReadsOpen \/ ReadsClose \/ Sends \/ Tells \/ Apart
  /\ ids' \in Nat /\ banner' \in Nat \cup {None} /\ panel' \in BOOLEAN /\ stray' \in BOOLEAN

\* What such a step preserves.
LEMMA MovesKeep ==
  ASSUME ConnInv, Moves
  PROVE  ConnInv'
<1> USE DEF ConnInv, ConnTypes, PanelInv, OnlyStraysLackPanel, Cla!OnlyStraysLackPanel, Cla!Waits,
   Toggling, Dies
<1>1. CASE Quiet
  BY <1>1 DEF Moves, Quiet
<1>2. CASE Emptied
  BY <1>2 DEF Moves, Emptied
<1>3. ASSUME Reads1
      PROVE  /\ inbox' \in Seq(Request) /\ Len(inbox') = Len(inbox) - 1
             /\ \A k \in DOMAIN inbox' : k + 1 \in DOMAIN inbox /\ inbox'[k] = inbox[k + 1]
             /\ \A k \in DOMAIN inbox : k = 1 \/ (k - 1 \in DOMAIN inbox' /\ inbox'[k - 1] = inbox[k])
             /\ 1 \in DOMAIN inbox /\ Head(inbox) = inbox[1]
  BY <1>3 DEF Reads1
<1>4. ASSUME Reads1  PROVE PanelInv'
  <2> SUFFICES ASSUME NEW k \in DOMAIN inbox', inbox'[k].t = "open",
                      \A j \in DOMAIN inbox' : j > k => inbox'[j].t \notin Toggling
               PROVE  panel' \/ stray'
    BY DEF PanelInv
  <2>1. k + 1 \in DOMAIN inbox /\ inbox[k + 1].t = "open"
    BY <1>3, <1>4
  <2>2. ASSUME NEW j \in DOMAIN inbox, j > k + 1  PROVE inbox[j].t \notin Toggling
    <3>1. j \in Nat /\ k \in Nat /\ j # 1
      BY <1>3, <1>4, <2>2
    <3>2. j - 1 \in DOMAIN inbox' /\ j - 1 > k /\ inbox'[j - 1] = inbox[j]
      BY <1>3, <1>4, <2>2, <3>1
    <3> QED  BY <3>2
  <2> QED  BY <1>3, <1>4, <2>1, <2>2 DEF Reads1
<1>5. CASE ReadsOther
  <2>1. Reads1 /\ UNCHANGED <<panel, stray, term>> /\ inbox[1].t \notin Toggling
    BY <1>3, <1>5 DEF ReadsOther, Reads1
  <2>2. ASSUME NEW k \in DOMAIN inbox, inbox[k].t \in Toggling
        PROVE  k - 1 \in DOMAIN inbox' /\ inbox'[k - 1] = inbox[k]
    BY <1>3, <2>1, <2>2
  <2>3. OnlyStraysLackPanel'
    BY <2>1, <2>2 DEF Reads1
  <2> QED  BY <1>3, <1>4, <1>5, <2>1, <2>3 DEF Moves, Reads1
<1>6. CASE ReadsOpen
  <2>1. OnlyStraysLackPanel'
    <3>1. CASE \E k \in DOMAIN inbox : k # 1 /\ inbox[k].t \in Toggling
      <4>1. PICK k \in DOMAIN inbox : k # 1 /\ inbox[k].t \in Toggling
        BY <3>1
      <4>2. k - 1 \in DOMAIN inbox' /\ inbox'[k - 1].t \in Toggling
        BY <1>3, <1>6, <4>1 DEF ReadsOpen
      <4> QED  BY <1>6, <4>2 DEF ReadsOpen, Reads1
    <3>2. CASE \A k \in DOMAIN inbox : k > 1 => inbox[k].t \notin Toggling
      BY <1>3, <1>6, <3>2 DEF ReadsOpen, Reads1
    <3> QED  BY <3>1, <3>2
  <2> QED  BY <1>3, <1>4, <1>6, <2>1 DEF Moves, ReadsOpen, Reads1
<1>7. CASE ReadsClose
  BY <1>3, <1>4, <1>7 DEF Moves, ReadsClose, Reads1
<1>8. ASSUME NEW m \in Request, inbox' = Append(inbox, m)
      PROVE  /\ inbox' \in Seq(Request) /\ Len(inbox') = Len(inbox) + 1
             /\ \A k \in DOMAIN inbox : k \in DOMAIN inbox' /\ inbox'[k] = inbox[k]
             /\ \A k \in DOMAIN inbox' : k = Len(inbox) + 1 \/ k \in DOMAIN inbox
             /\ Len(inbox) + 1 \in DOMAIN inbox' /\ inbox'[Len(inbox) + 1] = m
  BY <1>8
<1>9. CASE Sends
  <2>1. PICK m \in Request : m.t \notin Toggling /\ inbox' = Append(inbox, m)
    BY <1>9 DEF Sends
  <2> QED  BY <1>8, <1>9, <2>1 DEF Moves, Sends
<1>10. CASE Tells
  <2>1. PICK m \in Request :
          (m.t = "close" \/ (m.t = "open" /\ panel')) /\ inbox' = Append(inbox, m)
    BY <1>10 DEF Tells
  <2>2. ConnTypes'
    BY <1>8, <1>10, <2>1 DEF Moves, Tells
  <2>3. PanelInv'
    <3> SUFFICES ASSUME NEW k \in DOMAIN inbox', inbox'[k].t = "open",
                        \A j \in DOMAIN inbox' : j > k => inbox'[j].t \notin Toggling
                 PROVE  panel' \/ stray'
      BY DEF PanelInv
    <3>1. k = Len(inbox) + 1
      BY <1>9, <2>1
    <3> QED  BY <1>8, <2>1, <3>1
  <2>4. OnlyStraysLackPanel'
    BY <1>8, <1>10, <2>1 DEF Tells
  <2> QED  BY <2>2, <2>3, <2>4
<1>11. CASE Apart
  BY <1>11 DEF Moves, Apart
<1> QED  BY <1>1, <1>2, <1>5, <1>6, <1>7, <1>9, <1>10, <1>11 DEF Moves

\* Every step of a Claude connection is such a step.
LEMMA ClaudeMoves ==
  ASSUME ConnInv, Cla!Next
  PROVE  Moves
<1> USE DEF ConnInv, ConnTypes, Moves, Quiet, Emptied, ReadsOther, ReadsOpen, ReadsClose, Reads1,
   Sends, Tells, Apart, Dies, Toggling, Request, Cla!auth, Cla!sesn, Cla!tty, Cla!way, Cla!side,
   Cla!Prompt, Cla!Status, Cla!Reads, Cla!Head1, Cla!Announces, Cla!Send, Cla!Asks
<1>1. CASE Cla!Connect
  <2>1. term # "live"
    BY <1>1 DEF Cla!Connect, OnlyStraysLackPanel, Cla!OnlyStraysLackPanel
  <2>2. Emptied
    BY <1>1, <2>1 DEF Cla!Connect
  <2>3. ids' \in Nat /\ banner' \in Nat \cup {None} /\ panel' \in BOOLEAN /\ stray' \in BOOLEAN
    BY <1>1 DEF Cla!Connect
  <2> QED  BY <2>2, <2>3 DEF Moves
<1>2. CASE Cla!Disconnect
  BY <1>2 DEF Cla!Disconnect
<1>3. CASE Cla!Query
  BY <1>3 DEF Cla!Query
<1>4. CASE Cla!FetchModels
  BY <1>4 DEF Cla!FetchModels
<1>5. CASE Cla!AuthProvided
  BY <1>5 DEF Cla!AuthProvided
<1>6. CASE Cla!AuthCancel
  BY <1>6 DEF Cla!AuthCancel
<1>7. CASE Cla!RequestCredentials
  BY <1>7 DEF Cla!RequestCredentials
<1>8. CASE Cla!BootstrapEnds
  BY <1>8 DEF Cla!BootstrapEnds
<1>9. CASE Cla!StartSession
  BY <1>9 DEF Cla!StartSession
<1>10. CASE Cla!SdkInit
  BY <1>10 DEF Cla!SdkInit
<1>11. CASE Cla!GoesDown
  BY <1>11 DEF Cla!GoesDown
<1>12. CASE Cla!TerminalOpen
  BY <1>12 DEF Cla!TerminalOpen
<1>13. CASE Cla!TerminalClose
  BY <1>13 DEF Cla!TerminalClose
<1>14. CASE Cla!ShellExits
  BY <1>14 DEF Cla!ShellExits
<1>15. CASE Cla!OnExit
  BY <1>15 DEF Cla!OnExit, Cla!Unmounts
<1>16. CASE Cla!Browser
  BY <1>16 DEF Cla!Browser, Cla!SubmitsAuth, Cla!CancelsAuth, Cla!StartsHere, Cla!StartsElsewhere,
     Cla!OpensTerminal, Cla!ClosesTerminal, Cla!ClosesAnother, Cla!Unmounts
<1> QED
  BY <1>1, <1>2, <1>3, <1>4, <1>5, <1>6, <1>7, <1>8, <1>9, <1>10, <1>11, <1>12, <1>13, <1>14,
     <1>15, <1>16 DEF Cla!Next, Cla!Loop

\* Nor does a Windows connection do anything else.
LEMMA WindowsMoves ==
  ASSUME ConnInv, Win!Next
  PROVE  Moves
<1> USE DEF ConnInv, ConnTypes, Moves, Quiet, Emptied, ReadsOther, ReadsOpen, ReadsClose, Reads1,
   Sends, Tells, Apart, Dies, Toggling, Request, Win!Core!auth, Win!Core!sesn, Win!Core!tty,
   Win!Core!way, Win!Core!side, Win!Core!Prompt, Win!Core!Status, Win!Core!Reads, Win!Core!Head1,
   Win!Core!Announces, Win!Core!Send, Win!Core!Asks
<1>1. CASE Win!Connect
  <2>1. term # "live"
    BY <1>1 DEF Win!Connect, Win!Core!Connect, OnlyStraysLackPanel, Cla!OnlyStraysLackPanel
  <2>2. Emptied
    BY <1>1, <2>1 DEF Win!Connect, Win!Core!Connect
  <2>3. ids' \in Nat /\ banner' \in Nat \cup {None} /\ panel' \in BOOLEAN /\ stray' \in BOOLEAN
    BY <1>1 DEF Win!Connect, Win!Core!Connect
  <2> QED  BY <2>2, <2>3 DEF Moves
<1>2. CASE Win!Disconnect
  BY <1>2 DEF Win!Disconnect, Win!Core!Disconnect
<1>3. CASE Win!Lists
  BY <1>3 DEF Win!Lists, Win!Core!Query
<1>4. CASE Win!Answers
  BY <1>4 DEF Win!Answers, Win!Core!FetchModels
<1>5. CASE Win!AuthProvided
  BY <1>5 DEF Win!AuthProvided, Win!Core!AuthProvided
<1>6. CASE Win!AuthCancel
  BY <1>6 DEF Win!AuthCancel, Win!Core!AuthCancel
<1>7. CASE Win!Core!RequestCredentials
  BY <1>7 DEF Win!Core!RequestCredentials
<1>8. CASE Win!Core!BootstrapEnds
  BY <1>8 DEF Win!Core!BootstrapEnds
<1>9. CASE Win!StartSession
  BY <1>9 DEF Win!StartSession, Win!Core!StartSession
<1>10. CASE Win!Core!SdkInit
  BY <1>10 DEF Win!Core!SdkInit
<1>11. CASE Win!GoesDown
  BY <1>11 DEF Win!GoesDown, Win!Core!GoesDown
<1>12. CASE Win!TerminalOpen
  BY <1>12 DEF Win!TerminalOpen, Win!Core!TerminalOpen
<1>13. CASE Win!TerminalClose
  BY <1>13 DEF Win!TerminalClose, Win!Core!TerminalClose
<1>14. CASE Win!ShellExits
  BY <1>14 DEF Win!ShellExits, Win!Core!ShellExits
<1>15. CASE Win!ReadLoopEnds
  BY <1>15 DEF Win!ReadLoopEnds, Win!Core!OnExit, Win!Core!Unmounts
<1>16. CASE Win!Core!Browser
  BY <1>16 DEF Win!Core!Browser, Win!Core!SubmitsAuth, Win!Core!CancelsAuth, Win!Core!StartsHere,
     Win!Core!StartsElsewhere, Win!Core!OpensTerminal, Win!Core!ClosesTerminal,
     Win!Core!ClosesAnother, Win!Core!Unmounts
<1> QED
  BY <1>1, <1>2, <1>3, <1>4, <1>5, <1>6, <1>7, <1>8, <1>9, <1>10, <1>11, <1>12, <1>13, <1>14,
     <1>15, <1>16 DEF Win!Next

\* Nor does a Codex connection do anything else to them.
LEMMA CodexMoves ==
  ASSUME ConnInv, Cdx!Next
  PROVE  Moves
<1> USE DEF ConnInv, ConnTypes, Moves, Quiet, Emptied, ReadsOther, ReadsOpen, ReadsClose, Reads1,
   Sends, Tells, Apart, Dies, Toggling, Request, Cdx!Core!side, Cdx!Core!way, Cdx!Core!auth,
   Cdx!Core!sesn, Cdx!Core!tty, Cdx!Core!Prompt, Cdx!Core!Status, Cdx!Core!Reads, Cdx!Core!Head1,
   Cdx!Core!Announces, Cdx!Core!Send, Cdx!Core!Asks
<1>1. CASE Cdx!Connect
  <2>1. term # "live"
    BY <1>1 DEF Cdx!Connect, Cdx!Core!Connect, OnlyStraysLackPanel, Cla!OnlyStraysLackPanel
  <2>2. Emptied
    BY <1>1, <2>1 DEF Cdx!Connect, Cdx!Core!Connect
  <2>3. ids' \in Nat /\ banner' \in Nat \cup {None} /\ panel' \in BOOLEAN /\ stray' \in BOOLEAN
    BY <1>1 DEF Cdx!Connect, Cdx!Core!Connect
  <2> QED  BY <2>2, <2>3 DEF Moves
<1>2. CASE Cdx!Disconnect
  BY <1>2 DEF Cdx!Disconnect, Cdx!Core!Disconnect
<1>3. CASE Cdx!Lists
  BY <1>3 DEF Cdx!Lists, Cdx!Core!Query
<1>4. CASE Cdx!ListModels
  BY <1>4 DEF Cdx!ListModels, Cdx!Core!FetchModels
<1>5. CASE Cdx!StartSession
  BY <1>5 DEF Cdx!StartSession, Cdx!Core!StartSession
<1>6. CASE Cdx!TerminalOpen
  BY <1>6 DEF Cdx!TerminalOpen, Cdx!Core!TerminalOpen
<1>7. CASE Cdx!TerminalClose
  BY <1>7 DEF Cdx!TerminalClose, Cdx!Core!TerminalClose
<1>8. CASE Cdx!Core!SdkInit
  BY <1>8 DEF Cdx!Core!SdkInit
<1>9. CASE Cdx!Core!ShellExits
  BY <1>9 DEF Cdx!Core!ShellExits
<1>10. CASE Cdx!Core!OnExit
  BY <1>10 DEF Cdx!Core!OnExit, Cdx!Core!Unmounts
<1>11. CASE Cdx!GoesDown
  BY <1>11 DEF Cdx!GoesDown, Cdx!Core!GoesDown
<1>12. CASE Cdx!Core!Browser
  BY <1>12 DEF Cdx!Core!Browser, Cdx!Core!SubmitsAuth, Cdx!Core!CancelsAuth, Cdx!Core!StartsHere,
     Cdx!Core!StartsElsewhere, Cdx!Core!OpensTerminal, Cdx!Core!ClosesTerminal,
     Cdx!Core!ClosesAnother, Cdx!Core!Unmounts
<1> QED
  BY <1>1, <1>2, <1>3, <1>4, <1>5, <1>6, <1>7, <1>8, <1>9, <1>10, <1>11, <1>12 DEF Cdx!Next

\* Nor does a Copilot connection, with its device flows.
LEMMA CopilotMoves ==
  ASSUME ConnInv, Cop!Next
  PROVE  Moves
<1> USE DEF ConnInv, ConnTypes, Moves, Quiet, Emptied, ReadsOther, ReadsOpen, ReadsClose, Reads1,
   Sends, Tells, Apart, Dies, Toggling, Request, Cop!way, Cop!rest, Cop!Core!side, Cop!Core!way,
   Cop!Core!auth, Cop!Core!sesn, Cop!Core!tty, Cop!Core!Prompt, Cop!Core!Status, Cop!Core!Reads,
   Cop!Core!Head1, Cop!Core!Announces, Cop!Core!Send, Cop!Core!Asks, Cop!ResetClient
<1>1. CASE Cop!Connect
  <2>1. term # "live"
    BY <1>1 DEF Cop!Connect, Cop!Core!Connect, OnlyStraysLackPanel, Cla!OnlyStraysLackPanel
  <2>2. Emptied
    BY <1>1, <2>1 DEF Cop!Connect, Cop!Core!Connect
  <2>3. ids' \in Nat /\ banner' \in Nat \cup {None} /\ panel' \in BOOLEAN /\ stray' \in BOOLEAN
    BY <1>1 DEF Cop!Connect, Cop!Core!Connect
  <2> QED  BY <2>2, <2>3 DEF Moves
<1>2. CASE Cop!Disconnect
  BY <1>2 DEF Cop!Disconnect, Cop!Core!Disconnect
<1>3. CASE Cop!Lists
  BY <1>3 DEF Cop!Lists, Cop!Core!Query
<1>4. CASE Cop!ListModels
  BY <1>4 DEF Cop!ListModels, Cop!Core!FetchModels
<1>5. CASE Cop!TerminalOpen
  BY <1>5 DEF Cop!TerminalOpen, Cop!Core!TerminalOpen
<1>6. CASE Cop!TerminalClose
  BY <1>6 DEF Cop!TerminalClose, Cop!Core!TerminalClose
<1>7. CASE Cop!SdkInit
  BY <1>7 DEF Cop!SdkInit, Cop!Core!SdkInit
<1>8. CASE Cop!Core!ShellExits
  BY <1>8 DEF Cop!Core!ShellExits
<1>9. CASE Cop!Core!OnExit
  BY <1>9 DEF Cop!Core!OnExit, Cop!Core!Unmounts
<1>10. CASE Cop!GoesDown
  BY <1>10 DEF Cop!GoesDown, Cop!Core!GoesDown
<1>11. CASE Cop!StartSession
  BY <1>11 DEF Cop!StartSession
<1>12. CASE Cop!AuthProvided
  BY <1>12 DEF Cop!AuthProvided
<1>13. CASE Cop!AuthRequestOauth
  BY <1>13 DEF Cop!AuthRequestOauth
<1>14. CASE Cop!AuthCancel
  BY <1>14 DEF Cop!AuthCancel
<1>15. CASE Cop!RequestsOauth
  BY <1>15 DEF Cop!RequestsOauth
<1>16. ASSUME NEW i \in 1 .. MaxIds, Cop!RunDeviceFlow(i)  PROVE Moves
  BY <1>16, HandlersAssumption DEF Cop!RunDeviceFlow
<1>17. ASSUME NEW i \in 1 .. MaxIds, Cop!DeviceFlowEnds(i)  PROVE Moves
  BY <1>17, HandlersAssumption DEF Cop!DeviceFlowEnds
<1>18. CASE Cop!Core!Browser
  BY <1>18 DEF Cop!Core!Browser, Cop!Core!SubmitsAuth, Cop!Core!CancelsAuth, Cop!Core!StartsHere,
     Cop!Core!StartsElsewhere, Cop!Core!OpensTerminal, Cop!Core!ClosesTerminal,
     Cop!Core!ClosesAnother, Cop!Core!Unmounts
<1> QED
  BY <1>1, <1>2, <1>3, <1>4, <1>5, <1>6, <1>7, <1>8, <1>9, <1>10, <1>11, <1>12, <1>13, <1>14,
     <1>15, <1>16, <1>17, <1>18 DEF Cop!Next
-----------------------------------------------------------------------------
\* An item that is counted was not counted before.
LEMMA CountsOne ==
  ASSUME UploadTypes, BatchInv, ~ Upl!Idle, NEW i, Open(i), NEW o \in Upl!Outcomes, Upl!Counts(i, o)
  PROVE  /\ DOMAIN added' = DOMAIN added
         /\ \A j \in DOMAIN added : j # i => added'[j] = added[j]
         /\ [batch EXCEPT ![o] = @ + 1] \in [Upl!Outcomes -> Nat]
         /\ \A q \in Upl!Outcomes : [batch EXCEPT ![o] = @ + 1][q] = Cardinality(Upl!Of(q)')
<1>1. added' = [added EXCEPT ![i] = o] /\ i \in DOMAIN added /\ added[i] = "queued"
  BY DEF Upl!Counts, Open
<1>2. DOMAIN added' = DOMAIN added /\ added'[i] = o /\ \A j \in DOMAIN added : j # i => added'[j] = added[j]
  BY <1>1
<1>3. batch \in [Upl!Outcomes -> Nat] /\ [batch EXCEPT ![o] = @ + 1] \in [Upl!Outcomes -> Nat]
  BY DEF UploadTypes
<1>4. ASSUME NEW q \in Upl!Outcomes
      PROVE  [batch EXCEPT ![o] = @ + 1][q] = Cardinality(Upl!Of(q)')
  <2>1. IsFiniteSet(Upl!Of(q)) /\ batch[q] = Cardinality(Upl!Of(q))
    <3>1. Upl!Of(q) \subseteq DOMAIN added
      BY DEF Upl!Of
    <3> QED  BY <3>1, FS_Subset DEF UploadTypes, BatchInv
  <2>2. CASE q # o
    <3>1. Upl!Of(q)' = Upl!Of(q)
      BY <1>1, <1>2, <2>2, <1>4 DEF Upl!Of, Upl!Outcomes
    <3> QED  BY <1>3, <2>1, <2>2, <3>1
  <2>3. CASE q = o
    <3>1. Upl!Of(q)' = Upl!Of(q) \cup {i} /\ i \notin Upl!Of(q)
      BY <1>1, <1>2, <2>3, <1>4 DEF Upl!Of, Upl!Outcomes
    <3>2. Cardinality(Upl!Of(q)') = Cardinality(Upl!Of(q)) + 1
      BY <2>1, <3>1, FS_AddElement
    <3> QED  BY <1>3, <2>1, <2>3, <3>2
  <2> QED  BY <2>2, <2>3
<1> QED  BY <1>2, <1>3, <1>4

\* With the last item a batch is summed up, and nothing is under way.
LEMMA CountsKeep ==
  ASSUME UploadInv, ~ Upl!Idle, NEW i, Open(i), NEW o \in Upl!Outcomes, Upl!Counts(i, o),
         flight' = None, asked' = None,
         flight # None => i = flight.i, asked # None => i = asked, flight # None \/ asked # None
  PROVE  /\ UploadInv'
         /\ summary' # summary => \A q \in Upl!Outcomes : summary'[q] = Cardinality(Upl!Of(q)')
<1> USE DEF UploadInv
<1>1. /\ DOMAIN added' = DOMAIN added
      /\ \A j \in DOMAIN added : j # i => added'[j] = added[j]
      /\ [batch EXCEPT ![o] = @ + 1] \in [Upl!Outcomes -> Nat]
      /\ \A q \in Upl!Outcomes : [batch EXCEPT ![o] = @ + 1][q] = Cardinality(Upl!Of(q)')
  BY CountsOne
<1> DEFINE b == [batch EXCEPT ![o] = @ + 1]
<1>2. /\ queue' = queue
      /\ queue = <<>> => batch' = Upl!Empty /\ summary' = b
      /\ queue # <<>> => batch' = b /\ summary' = summary
  BY DEF Upl!Counts
<1>3. b \in [Upl!Outcomes -> Nat] /\ \A q \in Upl!Outcomes : b[q] = Cardinality(Upl!Of(q)')
  BY <1>1
<1> HIDE DEF b
<1>4. UploadTypes'
  BY <1>1, <1>2, <1>3 DEF UploadTypes, Upl!Empty
<1>5. PlaceInv'
  <2> SUFFICES ASSUME NEW k \in DOMAIN queue
               PROVE  /\ queue[k] \in DOMAIN added' /\ added'[queue[k]] = "queued"
                      /\ \A j \in DOMAIN queue : queue[j] = queue[k] => j = k
    <3>1. queue' = queue /\ flight' = None /\ asked' = None
      BY <1>2
    <3>2. \A k \in DOMAIN queue : queue[k] # None
      BY HandlersAssumption DEF UploadTypes
    <3> QED  BY <3>1, <3>2 DEF PlaceInv, Open
  <2>1. Open(queue[k]) /\ queue[k] # i /\ \A j \in DOMAIN queue : queue[j] = queue[k] => j = k
    BY DEF PlaceInv
  <2> QED  BY <1>1, <1>2, <2>1 DEF Open
<1>6. BatchInv'
  <2>1. CASE queue = <<>>
    BY <1>2, <2>1 DEF BatchInv, Upl!Idle
  <2>2. CASE queue # <<>>
    <3> SUFFICES ASSUME NEW q \in Upl!Outcomes
                 PROVE  (batch[q] = Cardinality(Upl!Of(q)))'
      BY DEF BatchInv
    <3> QED  BY <1>2, <1>3, <2>2
  <2> QED  BY <2>1, <2>2
<1>7. summary' # summary => \A q \in Upl!Outcomes : summary'[q] = Cardinality(Upl!Of(q)')
  BY <1>2, <1>3
<1> QED  BY <1>4, <1>5, <1>6, <1>7

\* What neither counts nor begins a batch.
LEMMA BatchKept ==
  ASSUME BatchInv, ~ Upl!Idle, UNCHANGED batch, \A q \in Upl!Outcomes : Upl!Of(q)' = Upl!Of(q)
  PROVE  BatchInv'
<1> SUFFICES ASSUME NEW q \in Upl!Outcomes
             PROVE  (batch[q] = Cardinality(Upl!Of(q)))'
  BY DEF BatchInv
<1> QED  BY DEF BatchInv

\* Every step of the upload queue keeps its invariant, and a summary is exact.
LEMMA UploadStep ==
  ASSUME UploadInv, Upl!Next
  PROVE  /\ UploadInv'
         /\ summary' \notin {None, summary} =>
              \A q \in Upl!Outcomes : summary'[q] = Cardinality(Upl!Of(q)')
<1> DEFINE Exact == summary' \notin {None, summary} =>
                      \A q \in Upl!Outcomes : summary'[q] = Cardinality(Upl!Of(q)')
<1> USE HandlersAssumption DEF UploadInv, Upl!back, Upl!front
<1>1. ASSUME NEW i \in Items, Upl!Enqueue(i)  PROVE UploadInv' /\ Exact
  <2>1. queue' = Append(queue, i) /\ UNCHANGED <<flight,
     asked>> /\ (Upl!Idle \/ i \notin DOMAIN added)
        /\ summary' \in {None, summary}
    BY <1>1 DEF Upl!Enqueue, Upl!Starts
  <2>2. /\ queue' \in Seq(Items) /\ queue' # <<>>
        /\ \A k \in DOMAIN queue' :
             (k \in DOMAIN queue /\ queue'[k] = queue[k]) \/ (k = Len(queue) + 1 /\ queue'[k] = i)
        /\ \A k \in DOMAIN queue : k # Len(queue) + 1
    <3>1. queue \in Seq(Items) /\ queue' = Append(queue, i) /\ i \in Items
      BY <2>1 DEF UploadTypes
    <3> HIDE DEF UploadInv
    <3> QED  BY <3>1
  <2>3. CASE Upl!Idle
    <3>1. added' = [j \in {i} |-> "queued"] /\ batch' = Upl!Empty
      BY <1>1, <2>3 DEF Upl!Enqueue, Upl!Starts
    <3>2. DOMAIN added' = {i} /\ added'[i] = "queued"
      BY <3>1
    <3>3. UploadTypes'
      BY <2>1, <2>2, <3>1, <3>2, FS_Singleton DEF UploadTypes, Upl!Empty
    <3>4. PlaceInv'
      BY <2>1, <2>2, <2>3, <3>2 DEF PlaceInv, Open, Upl!Idle
    <3>5. BatchInv'
      <4> SUFFICES ASSUME NEW q \in Upl!Outcomes
                   PROVE  (batch[q] = Cardinality(Upl!Of(q)))'
        BY DEF BatchInv
      <4>1. Upl!Of(q)' = {}
        BY <3>2 DEF Upl!Of, Upl!Outcomes
      <4> QED  BY <3>1, <4>1, FS_EmptySet DEF Upl!Empty
    <3> QED  BY <2>1, <3>3, <3>4, <3>5
  <2>4. CASE ~ Upl!Idle
    <3>1. /\ added' = [j \in {i} \cup DOMAIN added |-> IF j = i THEN "queued" ELSE added[j]]
          /\ batch' = batch /\ i \notin DOMAIN added
      BY <1>1, <2>1, <2>4 DEF Upl!Enqueue, Upl!Starts
    <3>2. /\ DOMAIN added' = DOMAIN added \cup {i} /\ added'[i] = "queued"
          /\ \A j \in DOMAIN added : added'[j] = added[j]
      BY <3>1
    <3>3. UploadTypes'
      BY <2>1, <2>2, <3>1, <3>2, FS_AddElement DEF UploadTypes
    <3>4. PlaceInv'
      BY <2>1, <2>2, <3>1, <3>2 DEF PlaceInv, Open
    <3>5. BatchInv'
      <4>1. \A q \in Upl!Outcomes : Upl!Of(q)' = Upl!Of(q)
        BY <3>1, <3>2 DEF Upl!Of, Upl!Outcomes
      <4> QED  BY <2>4, <3>1, <4>1, BatchKept
    <3> QED  BY <2>1, <3>3, <3>4, <3>5
  <2> QED  BY <2>3, <2>4
<1>2. CASE Upl!TakeNext
  <2>1. queue # <<>> /\ queue' = Tail(queue) /\ flight = None /\ asked = None /\ flight'.i = queue[1]
        /\ flight' \in [i : Items, p : {"error", "overwrite", "rename"}]
        /\ UNCHANGED <<asked, batch, summary, added>>
    BY <1>2 DEF Upl!TakeNext, Upl!Send, UploadTypes
  <2>2. /\ queue' \in Seq(Items) /\ 1 \in DOMAIN queue
        /\ \A k \in DOMAIN queue' : k + 1 \in DOMAIN queue /\ queue'[k] = queue[k + 1] /\ k + 1 # 1
                                   /\ \A j \in DOMAIN queue' : j + 1 = k + 1 => j = k
    BY <2>1 DEF UploadTypes
  <2>3. UploadTypes'
    BY <2>1, <2>2 DEF UploadTypes
  <2>4. PlaceInv'
    BY <2>1, <2>2 DEF PlaceInv, Open
  <2>5. BatchInv'
    BY <2>1, BatchKept DEF Upl!Of, Upl!Idle
  <2> QED  BY <2>1, <2>3, <2>4, <2>5
<1>3. CASE Upl!MarkUploaded
  BY <1>3, CountsKeep DEF Upl!MarkUploaded, PlaceInv, Upl!Idle, Upl!Outcomes
<1>4. CASE Upl!MarkConflict
  <2>1. flight # None /\ flight' = None /\ asked' = flight.i /\ UNCHANGED <<queue, batch, summary,
     added>>
    BY <1>4 DEF Upl!MarkConflict
  <2>2. UploadTypes'
    BY <2>1 DEF UploadTypes
  <2>3. PlaceInv'
    BY <2>1 DEF PlaceInv, Open
  <2>4. BatchInv'
    BY <2>1, BatchKept DEF Upl!Of, Upl!Idle
  <2> QED  BY <2>1, <2>2, <2>3, <2>4
<1>5. CASE Upl!MarkFailed
  BY <1>5, CountsKeep DEF Upl!MarkFailed, PlaceInv, Upl!Idle, Upl!Outcomes
<1>6. ASSUME NEW r \in {"overwrite", "rename"}, Upl!ResumeConflict(r)  PROVE UploadInv' /\ Exact
  <2>1. asked # None /\ asked' = None /\ flight' = [i |-> asked, p |-> r]
        /\ UNCHANGED <<queue, batch, summary, added>>
    BY <1>6 DEF Upl!ResumeConflict, Upl!Send
  <2>2. UploadTypes'
    BY <2>1 DEF UploadTypes
  <2>3. PlaceInv'
    <3>0. flight' \in [i : Items, p : {"error", "overwrite", "rename"}]
      BY <1>6, <2>1 DEF UploadTypes
    <3>1. flight' # None /\ flight'.i = asked /\ added' = added /\ queue' = queue
      BY <2>1, <3>0
    <3>2. \A k \in DOMAIN queue : queue[k] # None
      BY DEF UploadTypes
    <3> QED  BY <2>1, <3>1, <3>2 DEF PlaceInv, Open
  <2>4. BatchInv'
    BY <2>1, BatchKept DEF Upl!Of, Upl!Idle
  <2> QED  BY <2>1, <2>2, <2>3, <2>4
<1>7. CASE Upl!SkipConflict
  BY <1>7, CountsKeep DEF Upl!SkipConflict, PlaceInv, Upl!Idle, Upl!Outcomes
<1>8. CASE Upl!CancelQueued
  <2>1. /\ queue # <<>> /\ queue' = <<>> /\ asked' = None /\ UNCHANGED <<flight, batch, summary>>
        /\ added' = [i \in {j \in DOMAIN added : added[j] # "queued"}
                           \cup (IF flight = None THEN {} ELSE {flight.i}) |-> added[i]]
    BY <1>8 DEF Upl!CancelQueued
  <2>2. /\ DOMAIN added' \subseteq DOMAIN added
        /\ \A j \in DOMAIN added' : added'[j] = added[j]
        /\ \A j \in DOMAIN added : added[j] # "queued" => j \in DOMAIN added'
        /\ flight # None => flight.i \in DOMAIN added'
    BY <2>1 DEF PlaceInv, Open
  <2>3. UploadTypes'
    BY <2>1, <2>2, FS_Subset DEF UploadTypes
  <2>4. PlaceInv'
    BY <2>1, <2>2 DEF PlaceInv, Open
  <2>5. \A q \in Upl!Outcomes : Upl!Of(q)' = Upl!Of(q)
    BY <2>2 DEF Upl!Of, Upl!Outcomes
  <2>6. BatchInv'
    BY <2>1, <2>5, BatchKept DEF Upl!Idle
  <2> QED  BY <2>1, <2>3, <2>4, <2>6
<1>9. CASE Upl!ClearLastCompleted \/ \E r \in wire : Upl!UploadFile(r)
  <2>1. UNCHANGED <<queue, flight, asked, batch, added>> /\ summary' \in {None, summary}
    BY <1>9 DEF Upl!ClearLastCompleted, Upl!UploadFile
  <2> QED  BY <2>1 DEF UploadTypes, PlaceInv, Open, BatchInv, Upl!Idle, Upl!Of
<1> QED
  BY <1>1, <1>2, <1>3, <1>4, <1>5, <1>6, <1>7, <1>8, <1>9 DEF Upl!Next
-----------------------------------------------------------------------------
\* Every step of the tools leaves the chunks of each document its own.
LEMMA KnowledgeStep ==
  ASSUME DocsInv, ToolsInv, Kno!Next
  PROVE  DocsInv' /\ ToolsInv'
<1> USE HandlersAssumption DEF DocsInv, ToolsInv, Kno!Ids, Kno!Free
<1>1. ASSUME NEW t \in Tools, NEW x \in Texts, Kno!Save(t, x)  PROVE DocsInv' /\ ToolsInv'
  BY <1>1 DEF Kno!Save
<1>2. ASSUME NEW t \in Tools, Kno!SearchChunks(t)  PROVE DocsInv' /\ ToolsInv'
  BY <1>2 DEF Kno!SearchChunks
<1>3. ASSUME NEW t \in Tools, Kno!InsertDocument(t)  PROVE DocsInv' /\ ToolsInv'
  BY <1>3 DEF Kno!InsertDocument, Kno!NextId
<1>4. ASSUME NEW t \in Tools, NEW d \in Kno!Ids, NEW x \in Texts, Kno!Update(t, d, x)
      PROVE  DocsInv' /\ ToolsInv'
  BY <1>4 DEF Kno!Update
<1>5. ASSUME NEW t \in Tools, Kno!ReplaceChunks(t)  PROVE DocsInv' /\ ToolsInv'
  BY <1>5 DEF Kno!ReplaceChunks
<1>6. ASSUME NEW d \in Kno!Ids, Kno!DeleteDocument(d)  PROVE DocsInv' /\ ToolsInv'
  BY <1>6 DEF Kno!DeleteDocument
<1> HIDE DEF DocsInv, ToolsInv, Kno!Ids
<1> QED  BY <1>1, <1>2, <1>3, <1>4, <1>5, <1>6 DEF Kno!Next

\* Whoever is unregistered, the others stay.
LEMMA OthersStay ==
  ASSUME addins \in Seq(Addins), NEW a \in Exc!Listed
  PROVE  /\ Exc!Without(a) \in Seq(Addins)
         /\ \A b \in Exc!Listed \ {a} : \E k \in DOMAIN Exc!Without(a) : Exc!Without(a)[k] = b
<1> DEFINE p == CHOOSE k \in DOMAIN addins : addins[k] = a
           n == Len(addins)
<1>1. p \in 1 .. n /\ addins[p] = a /\ n \in Nat /\ n # 0 /\ DOMAIN addins = 1 .. n
  BY DEF Exc!Listed
<1>2. Exc!Without(a) = [k \in 1 .. n - 1 |-> addins[IF k < p THEN k ELSE k + 1]]
  BY DEF Exc!Without
<1> HIDE DEF p, n
<1>3. \A k \in 1 .. n - 1 : addins[IF k < p THEN k ELSE k + 1] \in Addins
  <2> SUFFICES ASSUME NEW k \in 1 .. n - 1
               PROVE  addins[IF k < p THEN k ELSE k + 1] \in Addins
    OBVIOUS
  <2>1. k \in 1 .. n /\ k + 1 \in 1 .. n
    BY <1>1
  <2> QED  BY <1>1, <2>1
<1>4. ASSUME NEW b \in Exc!Listed, b # a
      PROVE  \E k \in 1 .. n - 1 : addins[IF k < p THEN k ELSE k + 1] = b
  <2>1. PICK j \in 1 .. n : addins[j] = b /\ j # p
    BY <1>1, <1>4 DEF Exc!Listed
  <2>2. CASE j < p
    BY <1>1, <2>1, <2>2
  <2>3. CASE j > p
    <3>1. j - 1 \in 1 .. n - 1 /\ ~ (j - 1 < p) /\ (j - 1) + 1 = j
      BY <1>1, <2>1, <2>3
    <3> QED  BY <2>1, <3>1
  <2> QED  BY <1>1, <2>1, <2>2, <2>3
<1>5. n - 1 \in Nat
  BY <1>1
<1>6. Exc!Without(a) \in [1 .. n - 1 -> Addins]
  BY <1>2, <1>3
<1>7. Exc!Without(a) \in Seq(Addins)
  BY <1>5, <1>6
<1> QED  BY <1>2, <1>4, <1>7

LEMMA BridgeStep ==
  ASSUME BridgeInv, Exc!Next
  PROVE  BridgeInv'
<1> USE DEF BridgeInv, WaitsForListed, Exc!WaitsForListed, Exc!Listed, Exc!Idle, Exc!Settled
<1>1. ASSUME NEW a \in Addins, Exc!Register(a)  PROVE BridgeInv'
  <2>1. addins' = Append(addins, a) /\ UNCHANGED <<lost, call>>
    BY <1>1 DEF Exc!Register
  <2>2. /\ addins' \in Seq(Addins)
        /\ \A k \in DOMAIN addins : k \in DOMAIN addins' /\ addins'[k] = addins[k]
    BY <2>1
  <2>3. \A b \in Exc!Listed : b \in Exc!Listed'
    BY <2>2
  <2> QED  BY <2>1, <2>2, <2>3
<1>2. ASSUME NEW a \in Addins, Exc!Lose(a)  PROVE BridgeInv'
  BY <1>2 DEF Exc!Lose
<1>3. ASSUME NEW a \in Addins, Exc!Unregister(a)  PROVE BridgeInv'
  <2>1. /\ a \in lost /\ lost' = lost \ {a} /\ addins' = Exc!Without(a)
        /\ call' = [c \in Calls |-> IF call[c].to = a THEN Exc!Settled ELSE call[c]]
    BY <1>3 DEF Exc!Unregister
  <2>2. addins' \in Seq(Addins) /\ \A b \in Exc!Listed \ {a} : b \in Exc!Listed'
    BY <2>1, OthersStay
  <2>3. WaitsForListed'
    BY <2>1, <2>2
  <2> QED  BY <2>1, <2>2, <2>3
<1>4. ASSUME NEW c \in Calls, Exc!Execute(c)  PROVE BridgeInv'
  <2>1. addins # <<>> /\ call' = [call EXCEPT ![c] = [st |-> "sending", to |-> Head(addins)]]
        /\ UNCHANGED <<addins, lost>>
    BY <1>4 DEF Exc!Execute
  <2>2. Head(addins) \in Exc!Listed
    BY <2>1
  <2> QED  BY <2>1, <2>2
<1>5. ASSUME NEW c \in Calls, Exc!Sent(c)  PROVE BridgeInv'
  BY <1>5 DEF Exc!Sent
<1>6. ASSUME NEW c \in Calls, Exc!Fails(c)  PROVE BridgeInv'
  BY <1>6 DEF Exc!Fails
<1>7. ASSUME NEW c \in Calls, Exc!Returns(c)  PROVE BridgeInv'
  BY <1>7 DEF Exc!Returns
<1>8. ASSUME NEW a \in Addins, NEW c \in Calls, Exc!HandleMessage(a, c)  PROVE BridgeInv'
  BY <1>8 DEF Exc!HandleMessage
<1> HIDE DEF BridgeInv
<1> QED  BY <1>1, <1>2, <1>3, <1>4, <1>5, <1>6, <1>7, <1>8 DEF Exc!Next

LEMMA DialerStep ==
  ASSUME DialerInv, Dia!Next
  PROVE  DialerInv'
  BY DEF DialerInv, NothingLeft, Dia!NothingLeft, Dia!Next, Dia!Start, Dia!Registers, Dia!Breaks,
     Dia!Closes, Dia!WaitIsOver, Dia!OpenDataChannel, Dia!DataSession, Dia!DataSessionEnds,
     Dia!StopRun, Dia!RunEnds, Dia!Cancelled, Dia!StopData, Dia!StopDone
-----------------------------------------------------------------------------
LEMMA HandlersInit == MCInit => HandlersInv
<1> SUFFICES ASSUME MCInit
             PROVE  HandlersInv
  OBVIOUS
<1> USE HandlersAssumption
<1>1. ConnInv
  <2>1. /\ conn = FALSE /\ panel = FALSE /\ stray = FALSE /\ inbox = <<>>
        /\ ids = 0 /\ banner = None /\ term = "none"
    BY DEF MCInit, Cop!Init, Cop!Core!Init
  <2>2. <<>> \in Seq(Request) /\ DOMAIN <<>> = {}
    OBVIOUS
  <2> QED  BY <2>1, <2>2 DEF ConnInv, ConnTypes, PanelInv, OnlyStraysLackPanel,
     Cla!OnlyStraysLackPanel
<1>2. UploadInv
  <2>1. queue = <<>> /\ flight = None /\ asked = None /\ batch = Upl!Empty /\ added = <<>>
    BY DEF MCInit, Upl!Init
  <2>2. DOMAIN added = {} /\ IsFiniteSet({})
    BY <2>1, FS_EmptySet
  <2>3. UploadTypes
    BY <2>1, <2>2 DEF UploadTypes, Upl!Empty
  <2> QED  BY <2>1, <2>3 DEF UploadInv, PlaceInv, BatchInv, Upl!Idle
<1>3. DocsInv /\ ToolsInv
  BY DEF MCInit, Kno!Init, Kno!Free, Kno!Ids, DocsInv, ToolsInv
<1>4. BridgeInv /\ DialerInv
  BY DEF MCInit, Exc!Init, Exc!Idle, Exc!Listed, BridgeInv, WaitsForListed, Exc!WaitsForListed,
     Dia!Init, DialerInv, NothingLeft, Dia!NothingLeft
<1> QED  BY <1>1, <1>2, <1>3, <1>4 DEF HandlersInv

\* What a part does leaves the invariants of the others alone.
LEMMA ConnFrame == UNCHANGED ofCla /\ ConnInv => ConnInv'
  BY DEF ofCla, ConnInv, ConnTypes, PanelInv, OnlyStraysLackPanel, Cla!OnlyStraysLackPanel,
     Cla!Waits

LEMMA UploadFrame == UploadInv /\ UNCHANGED ofUpl => UploadInv'
<1> SUFFICES ASSUME UploadInv, UNCHANGED ofUpl
             PROVE  UploadInv'
  OBVIOUS
<1>1. UNCHANGED <<queue, flight, asked, batch, added>>
  BY DEF ofUpl
<1> QED  BY <1>1 DEF UploadInv, UploadTypes, PlaceInv, Open, BatchInv, Upl!Idle, Upl!Of

LEMMA KnowledgeFrame == DocsInv /\ ToolsInv /\ UNCHANGED ofKno => DocsInv' /\ ToolsInv'
  BY DEF ofKno, DocsInv, ToolsInv

LEMMA BridgeFrame == BridgeInv /\ UNCHANGED ofExc => BridgeInv'
  BY DEF ofExc, BridgeInv, WaitsForListed, Exc!WaitsForListed, Exc!Listed

LEMMA DialerFrame == DialerInv /\ UNCHANGED ofDia => DialerInv'
  BY DEF ofDia, DialerInv, NothingLeft, Dia!NothingLeft

LEMMA HandlersStep == HandlersInv /\ [MCNext]_allVars => HandlersInv'
<1> SUFFICES ASSUME HandlersInv, [MCNext]_allVars
             PROVE  HandlersInv'
  OBVIOUS
<1> USE ConnFrame, UploadFrame, KnowledgeFrame, BridgeFrame, DialerFrame DEF HandlersInv
<1>2. ASSUME UNCHANGED rest, Cla!Next \/ Win!Next \/ Cdx!Next \/ Cop!Next
      PROVE  HandlersInv'
  <2>1. UploadInv' /\ DocsInv' /\ ToolsInv' /\ BridgeInv' /\ DialerInv'
    BY <1>2 DEF rest
  <2>2. Moves
    BY <1>2, ClaudeMoves, WindowsMoves, CodexMoves, CopilotMoves
  <2>3. ConnInv'
    BY <2>2, MovesKeep
  <2> QED  BY <2>1, <2>3
<1>3. CASE MCNext /\ UNCHANGED rest /\ part \in Handlers
  BY <1>2, <1>3 DEF MCNext, Handlers
<1>4. CASE UNCHANGED ofCla /\ Upl!Next /\ UNCHANGED <<ofKno, ofExc, ofDia>>
  BY <1>4, UploadStep
<1>5. CASE UNCHANGED ofCla /\ Kno!Next /\ UNCHANGED <<ofUpl, ofExc, ofDia>>
  BY <1>5, KnowledgeStep
<1>6. CASE UNCHANGED ofCla /\ Exc!Next /\ UNCHANGED <<ofUpl, ofKno, ofDia>>
  BY <1>6, BridgeStep
<1>7. CASE UNCHANGED ofCla /\ Dia!Next /\ UNCHANGED <<ofUpl, ofKno, ofExc>>
  BY <1>7, DialerStep
<1>8. CASE UNCHANGED ofCla /\ UNCHANGED <<ofUpl, ofKno, ofExc, ofDia>>
  <2>1. UNCHANGED ofUpl /\ UNCHANGED ofKno /\ UNCHANGED ofExc /\ UNCHANGED ofDia
    BY <1>8
  <2> QED  BY <1>8, <2>1
<1>9. CASE UNCHANGED allVars
  BY <1>9 DEF allVars, rest, ofCla
<1> QED
  <2> HIDE DEF HandlersInv
  <2>1. CASE UNCHANGED allVars
    BY <1>9, <2>1
  <2>2. CASE MCNext
    <3>1. \/ MCNext /\ UNCHANGED rest /\ part \in Handlers
          \/ UNCHANGED ofCla /\ UNCHANGED <<ofUpl, ofKno, ofExc, ofDia>>
          \/ UNCHANGED ofCla /\ Upl!Next /\ UNCHANGED <<ofKno, ofExc, ofDia>>
          \/ UNCHANGED ofCla /\ Kno!Next /\ UNCHANGED <<ofUpl, ofExc, ofDia>>
          \/ UNCHANGED ofCla /\ Exc!Next /\ UNCHANGED <<ofUpl, ofKno, ofDia>>
          \/ UNCHANGED ofCla /\ Dia!Next /\ UNCHANGED <<ofUpl, ofKno, ofExc>>
      BY <2>2 DEF MCNext, Handlers, Link
    <3> QED  BY <3>1, <1>3, <1>4, <1>5, <1>6, <1>7, <1>8
  <2> QED  BY <2>1, <2>2
-----------------------------------------------------------------------------
\* The inductive invariant of the connections and the parts.
THEOREM HandlersInvariant == MCSpec => []HandlersInv
<1>1. MCSpec => MCInit /\ [][MCNext]_allVars
  BY DEF MCSpec
<1> QED  BY <1>1, HandlersInit, HandlersStep, PTL

\* A shell has a panel, or a toggle of it that is still to be read, on every
\* worker, unless the close of its panel went to another worker or nowhere:
\* terminal_closed crosses the user's toggles and the two end agreed.
THEOREM ShellsHavePanels == MCSpec => []OnlyStraysLackPanel
<1>1. HandlersInv => OnlyStraysLackPanel
  BY DEF HandlersInv, ConnInv
<1> QED  BY <1>1, HandlersInvariant, PTL

\* The module of the uploads counts as this one does.
LEMMA SameCount == \A S : Upl!Cardinality(S) = Cardinality(S)
  BY DEF Upl!Cardinality, Cardinality

\* The summary of a batch counts each of its files once, as what became of it.
THEOREM SummaryExact == MCSpec => SummaryIsExact
<1>1. ASSUME HandlersInv, [MCNext]_allVars  PROVE [Upl!Sums]_(Upl!vars)
  <2>1. CASE Upl!Next
    BY <1>1, <2>1, UploadStep, SameCount DEF HandlersInv, Upl!Sums
  <2>2. CASE ~ Upl!Next
    <3>1. UNCHANGED ofUpl
      BY <1>1, <2>2 DEF MCNext, Link, rest, allVars
    <3> QED  BY <3>1 DEF ofUpl, Upl!vars, Upl!front, Upl!back
  <2> QED  BY <2>1, <2>2
<1>2. MCSpec => [][MCNext]_allVars
  BY DEF MCSpec
<1> QED  BY <1>1, <1>2, HandlersInvariant, PTL DEF SummaryIsExact, Upl!SummaryIsExact

\* A search finds exactly what the documents say, however updates, deletes and
\* saves overlap: it rests on AUTOINCREMENT, which hands out no id twice.
THEOREM SearchIsTrue == MCSpec => []FoundIsSaid
<1>1. HandlersInv => FoundIsSaid
  BY HandlersAssumption DEF HandlersInv, DocsInv, FoundIsSaid, Kno!FoundIsSaid, Kno!Found, Kno!Ids
<1> QED  BY <1>1, HandlersInvariant, PTL

\* No Excel call waits for an add-in that is gone: unregister settles them all.
THEOREM CallsWaitForListed == MCSpec => []WaitsForListed
<1>1. HandlersInv => WaitsForListed
  BY DEF HandlersInv, BridgeInv
<1> QED  BY <1>1, HandlersInvariant, PTL

\* When stop() of the dialer has returned no data session is left.
THEOREM DialerLeavesNothing == MCSpec => []NothingLeft
<1>1. HandlersInv => NothingLeft
  BY DEF HandlersInv, DialerInv
<1> QED  BY <1>1, HandlersInvariant, PTL
=============================================================================
