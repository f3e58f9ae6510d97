--------------------------- MODULE WindowsSession ---------------------------
(***************************************************************************)
(* The Session of the Windows worker (worker-windows/src/sdk/session.py):  *)
(* that of ClaudeSession without a knowledge base, and with one thing of   *)
(* its own.  A new session is not started under the id it announces; the   *)
(* CLI mints one, which the Session adopts with the first ResultMessage,   *)
(* while the client's chat store drops results of any id but the one it    *)
(* has been told in session_started.                                       *)
(***************************************************************************)
CONSTANTS Permissions, Questions, Tasks

VARIABLES boot, link, screen, reader, busy, turn, cut, prompter, timer, dirty,
          hidden, once, auto, call, tails, stop,
          sid,    \* _session_id: the one made up by __init__, or the CLI's
          known   \* activeSessionId of the viewing client

Core == INSTANCE ClaudeSession WITH Knowledge <- FALSE

ids  == <<sid, known>>
vars == <<Core!vars, ids>>

\* A new session, or one resumed under the id of its transcript.
Init ==
  /\ Core!Init
  /\ sid \in {"own", "cli"} /\ known = sid

Start == Core!Start /\ UNCHANGED ids
EnsureCredentials == Core!EnsureCredentials /\ UNCHANGED ids
SdkInit == Core!SdkInit /\ UNCHANGED ids

SendPrompt == Core!SendPrompt /\ UNCHANGED ids

Admit == Core!Admit /\ UNCHANGED ids
Query == Core!Query /\ UNCHANGED ids
Interrupt == Core!Interrupt /\ UNCHANGED ids
SetAutoApprove == Core!SetAutoApprove /\ UNCHANGED ids

Park == Core!Park /\ UNCHANGED ids
\* The client that resumes a session is told its present id.
Reattach == Core!Reattach /\ known' = sid /\ UNCHANGED sid
ResendPendingUserInputs == Core!ResendPendingUserInputs /\ UNCHANGED ids

CanUseTool(c) == Core!CanUseTool(c) /\ UNCHANGED ids
Request(c) == Core!Request(c) /\ UNCHANGED ids
Resolve(c) == Core!Resolve(c) /\ UNCHANGED ids
RequestUserInput(c) == Core!RequestUserInput(c) /\ UNCHANGED ids
ResolveUserInput(c) == Core!ResolveUserInput(c) /\ UNCHANGED ids

ReadResult == Core!ReadResult /\ sid' = "cli" /\ UNCHANGED known

\* The client shows the result if it is for the session it knows.
SendResult ==
  IF known = sid THEN Core!SendResult /\ UNCHANGED ids
  ELSE /\ reader = "push" /\ reader' = "send"
       /\ UNCHANGED <<boot, link, screen, busy, turn, cut, prompter, timer, dirty,
                      hidden, once, auto, call, tails, stop, sid, known>>

TurnEnds == Core!TurnEnds /\ UNCHANGED ids
ReaderFails == Core!ReaderFails /\ UNCHANGED ids
ReaderEnds == Core!ReaderEnds /\ UNCHANGED ids

StartTaskTail(k) == Core!StartTaskTail(k) /\ UNCHANGED ids
StopTaskTail(k) == Core!StopTaskTail(k) /\ UNCHANGED ids
TailTaskOutput(k) == Core!TailTaskOutput(k) /\ UNCHANGED ids

Stop == Core!Stop /\ UNCHANGED ids

Next ==
  \/ Start \/ EnsureCredentials \/ SdkInit
  \/ SendPrompt \/ Admit \/ Query \/ Interrupt \/ SetAutoApprove
  \/ Park \/ Reattach \/ ResendPendingUserInputs
  \/ \E c \in Core!Calls : \/ CanUseTool(c) \/ Request(c) \/ RequestUserInput(c)
                           \/ Resolve(c) \/ ResolveUserInput(c)
  \/ ReadResult \/ SendResult \/ TurnEnds \/ ReaderFails \/ ReaderEnds
  \/ \E k \in Tasks : StartTaskTail(k) \/ StopTaskTail(k) \/ TailTaskOutput(k)
  \/ Stop

Spec == Init /\ [][Next]_vars
-----------------------------------------------------------------------------
\* The agent never has two prompts at once (as in ClaudeSession).
OneTurn == Core!OneTurn

\* The viewer that waits for a result gets it.
ResultReachesViewer ==
  [][reader = "push" /\ reader' = "send" /\ link = "attached"
       => ~ screen'.streaming]_vars
=============================================================================
