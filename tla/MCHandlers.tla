----------------------------- MODULE MCHandlers -----------------------------
(***************************************************************************)
(* The connections of the four kinds of workers, the hub's link to one, and *)
(* what else a worker serves, one of them per behavior: they share no      *)
(* state, so a run of one is a run of all.                                 *)
(***************************************************************************)
EXTENDS WorkerConnection

CONSTANTS MaxIds, MaxInbox,
          Items, Tools, Texts, MaxDocs, Calls, Addins, Channels, MaxWait,
          r1, r2, r3

VARIABLES
  part,
  conn, reach, inbox, at, ids, creds, future, heard, banner, sess, viewed, term, exits,
  panel, stray,
  flows, loud,
  queue, flight, asked, batch, summary, wire, answer, exists, added,
  docs, chunks, handed, tool,
  addins, lost, known, call,
  run, wait, task, stop

\* The loops are alike: the one without credentials is checked with a longer inbox.
Cla == INSTANCE WorkerHandler
Win == INSTANCE WindowsHandler
Cop == INSTANCE CopilotHandler
Cdx == INSTANCE CodexHandler WITH MaxInbox <- MaxInbox + 1
Upl == INSTANCE Uploads
Kno == INSTANCE KnowledgeBase
Exc == INSTANCE ExcelBridge
Dia == INSTANCE HubDialer

\* The marker of what is not there is none of what may be there.
ASSUME HandlersAssumption ==
  /\ MaxIds \in Nat /\ MaxDocs \in Nat
  /\ None \notin Texts \cup Items
  /\ None \notin [i : Items, p : {"error", "overwrite", "rename"}]

ofCla == <<conn, reach, inbox, at, ids, creds, future, heard, banner, sess, viewed, term, exits,
           panel, stray>>
ofCop == <<flows, loud>>
ofUpl == <<queue, flight, asked, batch, summary, wire, answer, exists, added>>
ofKno == <<docs, chunks, handed, tool>>
ofExc == <<addins, lost, known, call>>
ofDia == <<run, wait, task, stop>>
rest  == <<vars, ofUpl, ofKno, ofExc, ofDia>>
allVars == <<part, ofCla, ofCop, rest>>

Handlers == {"claude", "windows", "copilot", "codex"}

MCInit ==
  /\ part \in Handlers \cup {"link", "uploads", "knowledge", "excel", "dialer"}
  /\ Cop!Init /\ Init /\ Upl!Init /\ Kno!Init /\ Exc!Init /\ Dia!Init
  /\ part # "uploads" => exists
  /\ part # "link" => echoes
  /\ part \notin Handlers \ {"codex"} => creds

\* Calls are alike: they are named in the order they are made.  Of the three only
\* the last may be of a task in the background.
InOrder == \A q \in Reqs : stage[q] # "new" =>
             /\ q = r1 \/ (stage[r1] # "new" /\ (q = r2 \/ stage[r2] # "new"))
             /\ kind[q] \in Background => q = r3

Link(A) == A /\ UNCHANGED <<ofUpl, ofKno, ofExc, ofDia>>

MCNext ==
  /\ UNCHANGED part
  /\ \/ /\ UNCHANGED rest
        /\ \/ part = "claude"  /\ Cla!Next /\ UNCHANGED ofCop
           \/ part = "windows" /\ Win!Next /\ UNCHANGED ofCop
           \/ part = "codex"   /\ Cdx!Next /\ UNCHANGED ofCop
           \/ part = "copilot" /\ Cop!Next
     \/ /\ UNCHANGED <<ofCla, ofCop>>
        /\ \/ part = "link"      /\ Link(Next) /\ InOrder'
           \/ part = "uploads"   /\ Upl!Next /\ UNCHANGED <<vars, ofKno, ofExc, ofDia>>
           \/ part = "knowledge" /\ Kno!Next /\ UNCHANGED <<vars, ofUpl, ofExc, ofDia>>
           \/ part = "excel"     /\ Exc!Next /\ UNCHANGED <<vars, ofUpl, ofKno, ofDia>>
           \/ part = "dialer"    /\ Dia!Next /\ UNCHANGED <<vars, ofUpl, ofKno, ofExc>>

\* The fairness of WorkerHandler, for the two workers that run a bootstrap, and of
\* WorkerConnection.
Boots == part \in {"claude", "windows"}
Alone(A) == part = "link" /\ Link(A) /\ UNCHANGED <<part, ofCla, ofCop>>
MCFairness ==
  /\ WF_allVars(Alone(Callers))
  /\ WF_allVars(Boots /\ Cla!Loop /\ UNCHANGED <<part, ofCop, rest>>)
  /\ WF_allVars(Boots /\ Cla!SdkInit /\ UNCHANGED <<part, ofCop, rest>>)

MCSpec == MCInit /\ [][MCNext]_allVars /\ MCFairness
-----------------------------------------------------------------------------
\* What the user answers to a credential prompt is read.
CredentialsAreRead == Boots => Cla!AnswersAreRead

\* A shell without a panel is one whose panel's close went astray.
OnlyStraysLackPanel == Cla!OnlyStraysLackPanel

\* The summary of an upload batch counts each of its files once, as what became
\* of it.
SummaryIsExact == Upl!SummaryIsExact

\* A search of the knowledge base finds what its documents say.
FoundIsSaid == Kno!FoundIsSaid

\* An Excel call waits only for an add-in that is registered.
WaitsForListed == Exc!WaitsForListed

\* No data session outlives the dialer.
NothingLeft == Dia!NothingLeft
=============================================================================
