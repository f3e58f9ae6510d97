------------------------------ MODULE MCAgents ------------------------------
(***************************************************************************)
(* The sessions of the four workers, one of them per behavior: they share  *)
(* no state, so a run of one is a run of all.                              *)
(***************************************************************************)
EXTENDS ClaudeSession, Naturals

CONSTANTS Consumers, MaxResults, None

VARIABLES part, sid, known, cons, current, results

Win == INSTANCE WindowsSession
Cdx == INSTANCE CodexSession
Cop == INSTANCE CopilotSession

ofWin == <<sid, known>>
ofCdx == <<cons, current>>
added == <<ofWin, ofCdx, results>>
\* What the Codex session does not have.
ofSDK == <<screen, reader, turn, cut, timer, dirty, hidden, auto, call, tails>>
allVars == <<part, vars, added>>

NoConsumers == cons = [c \in Consumers |-> "free"] /\ current = None
NoIds == sid = "own" /\ known = "own"

MCInit ==
  \/ part = "claude"  /\ Init /\ NoConsumers /\ NoIds /\ results = 0
  \/ part = "windows" /\ Win!Init /\ NoConsumers /\ results = 0
  \/ part = "copilot" /\ Cop!Init /\ NoConsumers /\ NoIds
  \/ /\ part = "codex" /\ Cdx!Init /\ NoIds /\ results = 0
     /\ screen = "" /\ reader = "" /\ turn = "" /\ cut = "" /\ timer = ""
     /\ dirty = "" /\ hidden = "" /\ auto = "" /\ call = "" /\ tails = ""

MCNext ==
  /\ UNCHANGED part
  /\ \/ part = "claude"  /\ Next /\ UNCHANGED added
     \/ part = "windows" /\ Win!Next /\ UNCHANGED <<cons, current, results>>
     \/ part = "codex"   /\ Cdx!Next /\ UNCHANGED <<results, sid, known>>
                         /\ UNCHANGED ofSDK
     \/ part = "copilot" /\ Cop!Next /\ UNCHANGED <<cons, current, sid, known>>

\* The fairness of ClaudeSession and of CodexSession.
Claude(A) == part = "claude" /\ A /\ UNCHANGED <<part, added>>
Codex(A) == part = "codex" /\ A /\ UNCHANGED <<part, results, sid, known, ofSDK>>
MCFairness ==
  /\ WF_allVars(Claude(Query)) /\ WF_allVars(Claude(SendResult))
  /\ WF_allVars(Claude(TurnEnds)) /\ SF_allVars(Claude(ReadResult))
  /\ \A c \in Calls : WF_allVars(Claude(Request(c) \/ RequestUserInput(c)))
  /\ WF_allVars(Codex(Cdx!RunStreamed)) /\ WF_allVars(Codex(Cdx!Interrupted))
  /\ \A c \in Consumers : /\ WF_allVars(Codex(Cdx!StreamEnds(c)))
                         /\ WF_allVars(Codex(Cdx!Reported(c)))

MCSpec == MCInit /\ [][MCNext]_allVars /\ MCFairness
-----------------------------------------------------------------------------
\* No agent ever has two prompts at once: neither the Claude nor the Windows
\* worker's, nor the Copilot worker's, where the approval for a prompt ends too.
AgentsOneTurn ==
  /\ part \in {"claude", "windows"} => OneTurn
  /\ part = "copilot" => Cop!TurnsScoped

\* Maintenance of the knowledge base is hidden, and nothing else is.
ClaudeHidden == part = "claude" => HiddenIsMaintenance

\* An approval for one prompt ends with it.
ClaudeOneShot == part = "claude" => OneShotScoped

\* A question of an agent is in front of whoever views its session.
AgentsQuestions == part \in {"claude", "windows", "copilot"} => QuestionsShown

\* A turn of a Claude session ends, unless the user leaves it waiting.
ClaudeTurnsEnd == part = "claude" => TurnsEnd

\* A Codex session that works becomes idle, whoever ends its streams.
CodexBecomesIdle == part = "codex" => Cdx!BecomesIdle
=============================================================================
