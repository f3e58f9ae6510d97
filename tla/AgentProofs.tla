---------------------------- MODULE AgentProofs ----------------------------
(***************************************************************************)
(* Proofs about the sessions of the Claude, the Windows and the Copilot    *)
(* worker, for any tools, questions and background tasks: one turn at a    *)
(* time, hidden maintenance, approvals that end with their prompt, and     *)
(* questions that are never lost.  _busy admits prompts and maintenance,   *)
(* and is set and cleared in different tasks; the argument is about what   *)
(* each of them may find when it clears it.                                *)
(***************************************************************************)
EXTENDS MCAgents, TLAPS

\* The types of what the proofs read.
Types ==
  /\ screen \in [streaming : BOOLEAN, asks : SUBSET Calls]
  /\ call \in [Calls -> {"none", "push", "asked"}]
  /\ busy \in BOOLEAN /\ dirty \in BOOLEAN /\ hidden \in BOOLEAN /\ once \in BOOLEAN
  /\ reader \in {"none", "reading", "push", "send", "dead"}
  /\ turn \in {"none", "user", "maint"}
  /\ prompter \in {"idle", "wait", "query"}
  /\ timer \in {"off", "sleeping", "query"}
  /\ boot \in {"new", "asking", "dialing", "connecting", "up", "none", "broken"}

\* The reader has not ended, though it may not have begun.
Live == reader # "dead" /\ stop = "no"

\* The agent works, and a query is under way, only while the session is busy; from
\* the agent's result to the end of the turn nothing is under way but the session
\* stays busy.  Before the connection is up there is nothing to end.
TurnInv ==
  /\ stop = "no" => (reader = "none" <=> boot # "up")
  /\ Live =>
    /\ reader = "none" => timer = "off" /\ ~ dirty /\ ~ hidden
    /\ turn # "none" => busy /\ ~ LockHeld /\ reader = "reading"
    /\ LockHeld => busy /\ reader \notin {"push", "send"}
    /\ reader \in {"push", "send"} => busy
    /\ ~ (prompter = "query" /\ timer = "query")

\* Output is hidden from the maintenance query to the end of its turn; an approval
\* for one prompt lasts while the session is busy with a prompt.
HiddenInv ==
  Live =>
    /\ turn = "maint" \/ timer = "query" => hidden
    /\ hidden => busy /\ ~ once /\ turn # "user" /\ prompter # "query" /\ reader # "send"
    /\ once => busy

ClaudeInv == Types /\ TurnInv /\ HiddenInv /\ QuestionsShown

\* A Windows session has no knowledge base, and so no maintenance.
NoMaintenance == ~ dirty /\ timer = "off" /\ ~ hidden

\* A Copilot session is busy from the prompt to the idle event.
CopilotInv ==
  /\ Types
  /\ QuestionsShown
  /\ stop = "no" =>
       /\ turn # "none" => busy /\ prompter # "query"
       /\ prompter = "query" => busy
       /\ once => busy

\* One session, of whichever worker.
AgentInv ==
  /\ part = "claude" => ClaudeInv
  /\ part = "windows" => ClaudeInv /\ NoMaintenance
  /\ part = "copilot" => CopilotInv
-----------------------------------------------------------------------------
\* Every step of a Claude session keeps its invariant.
LEMMA ClaudeStep ==
  ASSUME ClaudeInv, Next
  PROVE  ClaudeInv'
<1> USE DEF ClaudeInv, Types, Live, TurnInv, HiddenInv, QuestionsShown, LockHeld, HasClient,
       Listening, Says, Pending, Calls, boots, turns, idles, asks
<1>1. ASSUME Start  PROVE ClaudeInv'
  BY <1>1 DEF Start
<1>2. ASSUME EnsureCredentials  PROVE ClaudeInv'
  BY <1>2 DEF EnsureCredentials
<1>3. ASSUME SdkInit  PROVE ClaudeInv'
  <2>1. boot' \in {"up", "broken"} /\ reader' \in {reader, "reading"}
    BY <1>3 DEF SdkInit
  <2>2. screen' \in [streaming : BOOLEAN, asks : SUBSET Calls] /\ screen'.asks = screen.asks
    <3> HIDE DEF TurnInv, HiddenInv, QuestionsShown, Calls
    <3> QED  BY <1>3 DEF SdkInit
  <2>3. Types'
    <3> HIDE DEF TurnInv, HiddenInv, QuestionsShown, Says, Calls
    <3> QED  BY <1>3, <2>1, <2>2 DEF SdkInit
  <2>4. TurnInv' /\ HiddenInv'
    <3> HIDE DEF QuestionsShown, Says, Calls
    <3> QED  BY <1>3, <2>1, <2>2 DEF SdkInit
  <2>5. QuestionsShown'
    <3> HIDE DEF TurnInv, HiddenInv, Says, Calls
    <3> QED  BY <1>3, <2>1, <2>2 DEF SdkInit
  <2> HIDE DEF Types, TurnInv, HiddenInv, QuestionsShown
  <2> QED  BY <2>3, <2>4, <2>5
<1>4. ASSUME SendPrompt  PROVE ClaudeInv'
  <2>1. prompter' = "wait" /\ screen'.asks = screen.asks
    BY <1>4 DEF SendPrompt
  <2>2. Types'
    <3> HIDE DEF TurnInv, HiddenInv, QuestionsShown
    <3> QED  BY <1>4, <2>1 DEF SendPrompt
  <2>3. TurnInv' /\ HiddenInv'
    BY <1>4, <2>1 DEF SendPrompt
  <2>4. QuestionsShown'
    BY <1>4, <2>1 DEF SendPrompt
  <2> HIDE DEF Types, TurnInv, HiddenInv, QuestionsShown
  <2> QED  BY <2>2, <2>3, <2>4
<1>5. ASSUME Admit  PROVE ClaudeInv'
  <2>1. busy' \in BOOLEAN /\ once' \in BOOLEAN /\ prompter' \in {"idle", "query"}
    BY <1>5 DEF Admit
  <2>2. Types'
    <3> HIDE DEF TurnInv, HiddenInv, QuestionsShown
    <3> QED  BY <1>5, <2>1 DEF Admit
  <2>3. TurnInv' /\ HiddenInv'
    <3>1. CASE busy = TRUE
      BY <1>5, <2>1, <3>1 DEF Admit
    <3>2. CASE busy = FALSE
      BY <1>5, <2>1, <3>2 DEF Admit
    <3> QED  BY <3>1, <3>2
  <2>4. QuestionsShown'
    BY <1>5, <2>1 DEF Admit
  <2> HIDE DEF Types, TurnInv, HiddenInv, QuestionsShown
  <2> QED  BY <2>2, <2>3, <2>4
<1>6. ASSUME Query  PROVE ClaudeInv'
  <2>1. turn' \in {turn, "user"} /\ prompter' = "idle"
    BY <1>6 DEF Query
  <2>2. screen' \in [streaming : BOOLEAN, asks : SUBSET Calls] /\ screen'.asks = screen.asks
    <3> HIDE DEF TurnInv, HiddenInv, QuestionsShown, Calls
    <3> QED  BY <1>6 DEF Query
  <2>3. Types'
    <3> HIDE DEF TurnInv, HiddenInv, QuestionsShown, Says, Calls
    <3> QED  BY <1>6, <2>1, <2>2 DEF Query
  <2>4. TurnInv' /\ HiddenInv'
    <3> HIDE DEF QuestionsShown, Says, Calls
    <3> QED  BY <1>6, <2>1, <2>2 DEF Query
  <2>5. QuestionsShown'
    <3> HIDE DEF TurnInv, HiddenInv, Says, Calls
    <3> QED  BY <1>6, <2>1, <2>2 DEF Query
  <2> HIDE DEF Types, TurnInv, HiddenInv, QuestionsShown
  <2> QED  BY <2>3, <2>4, <2>5
<1>7. ASSUME Interrupt  PROVE ClaudeInv'
  BY <1>7 DEF Interrupt
<1>8. ASSUME SetAutoApprove  PROVE ClaudeInv'
  BY <1>8 DEF SetAutoApprove
<1>9. ASSUME Park  PROVE ClaudeInv'
  BY <1>9 DEF Park
<1>10. ASSUME Reattach  PROVE ClaudeInv'
  BY <1>10 DEF Reattach
<1>11. ASSUME ResendPendingUserInputs  PROVE ClaudeInv'
  BY <1>11 DEF ResendPendingUserInputs
<1>12. ASSUME NEW c \in Calls, CanUseTool(c)  PROVE ClaudeInv'
  BY <1>12 DEF CanUseTool
<1>13. ASSUME NEW c \in Calls, Request(c)  PROVE ClaudeInv'
  BY <1>13 DEF Request
<1>14. ASSUME NEW c \in Calls, RequestUserInput(c)  PROVE ClaudeInv'
  BY <1>14 DEF RequestUserInput
<1>15. ASSUME NEW c \in Calls, Resolve(c) \/ ResolveUserInput(c)  PROVE ClaudeInv'
  BY <1>15 DEF Resolve, ResolveUserInput, Answered
<1>16. ASSUME Work  PROVE ClaudeInv'
  BY <1>16 DEF Work
<1>17. ASSUME ReadResult  PROVE ClaudeInv'
  BY <1>17 DEF ReadResult
<1>18. ASSUME SendResult  PROVE ClaudeInv'
  <2>1. reader' = "send"
    BY <1>18 DEF SendResult
  <2>2. screen' \in [streaming : BOOLEAN, asks : SUBSET Calls] /\ screen'.asks = screen.asks
    <3> HIDE DEF TurnInv, HiddenInv, QuestionsShown, Calls
    <3> QED  BY <1>18 DEF SendResult
  <2>3. Types'
    <3> HIDE DEF TurnInv, HiddenInv, QuestionsShown, Says, Calls
    <3> QED  BY <1>18, <2>1, <2>2 DEF SendResult
  <2>4. TurnInv' /\ HiddenInv'
    <3> HIDE DEF QuestionsShown, Says, Calls
    <3> QED  BY <1>18, <2>1, <2>2 DEF SendResult
  <2>5. QuestionsShown'
    <3> HIDE DEF TurnInv, HiddenInv, Says, Calls
    <3> QED  BY <1>18, <2>1, <2>2 DEF SendResult
  <2> HIDE DEF Types, TurnInv, HiddenInv, QuestionsShown
  <2> QED  BY <2>3, <2>4, <2>5
<1>19. ASSUME TurnEnds  PROVE ClaudeInv'
  BY <1>19 DEF TurnEnds, OnTurnEnd
<1>20. ASSUME ReaderFails  PROVE ClaudeInv'
  <2>1. reader' = "dead"
    BY <1>20 DEF ReaderFails
  <2>2. screen' \in [streaming : BOOLEAN, asks : SUBSET Calls] /\ screen'.asks = screen.asks
    <3> HIDE DEF TurnInv, HiddenInv, QuestionsShown, Calls
    <3> QED  BY <1>20 DEF ReaderFails
  <2>3. Types'
    <3> HIDE DEF TurnInv, HiddenInv, QuestionsShown, Says, Calls
    <3> QED  BY <1>20, <2>1, <2>2 DEF ReaderFails
  <2>4. TurnInv' /\ HiddenInv'
    <3> HIDE DEF QuestionsShown, Says, Calls
    <3> QED  BY <1>20, <2>1, <2>2 DEF ReaderFails
  <2>5. QuestionsShown'
    <3> HIDE DEF TurnInv, HiddenInv, Says, Calls
    <3> QED  BY <1>20, <2>1, <2>2 DEF ReaderFails
  <2> HIDE DEF Types, TurnInv, HiddenInv, QuestionsShown
  <2> QED  BY <2>3, <2>4, <2>5
<1>21. ASSUME ReaderEnds  PROVE ClaudeInv'
  BY <1>21 DEF ReaderEnds
<1>22. ASSUME IdleConsolidateAfter  PROVE ClaudeInv'
  <2>1. timer' \in {"off", "query"} /\ busy' \in BOOLEAN /\ hidden' \in BOOLEAN
    BY <1>22 DEF IdleConsolidateAfter
  <2>2. Types'
    <3> HIDE DEF TurnInv, HiddenInv, QuestionsShown
    <3> QED  BY <1>22, <2>1 DEF IdleConsolidateAfter
  <2>3. TurnInv' /\ HiddenInv'
    <3>1. CASE busy = TRUE
      BY <1>22, <2>1, <3>1 DEF IdleConsolidateAfter
    <3>2. CASE busy = FALSE
      BY <1>22, <2>1, <3>2 DEF IdleConsolidateAfter
    <3> QED  BY <3>1, <3>2
  <2>4. QuestionsShown'
    BY <1>22, <2>1 DEF IdleConsolidateAfter
  <2> HIDE DEF Types, TurnInv, HiddenInv, QuestionsShown
  <2> QED  BY <2>2, <2>3, <2>4
<1>23. ASSUME RunConsolidation  PROVE ClaudeInv'
  <2>1. timer' = "off" /\ busy' \in BOOLEAN /\ hidden' \in BOOLEAN /\ turn' \in {turn, "maint"}
    BY <1>23 DEF RunConsolidation
  <2>2. Types'
    <3> HIDE DEF TurnInv, HiddenInv, QuestionsShown
    <3> QED  BY <1>23, <2>1 DEF RunConsolidation
  <2>3. TurnInv' /\ HiddenInv'
    <3>1. CASE busy = TRUE
      BY <1>23, <2>1, <3>1 DEF RunConsolidation
    <3>2. CASE busy = FALSE
      BY <1>23, <2>1, <3>2 DEF RunConsolidation
    <3> QED  BY <3>1, <3>2
  <2>4. QuestionsShown'
    BY <1>23, <2>1 DEF RunConsolidation
  <2> HIDE DEF Types, TurnInv, HiddenInv, QuestionsShown
  <2> QED  BY <2>2, <2>3, <2>4
<1>24. ASSUME NEW k \in Tasks, TaskEvent(k) \/ TailTaskOutput(k)  PROVE ClaudeInv'
  BY <1>24 DEF TaskEvent, StartTaskTail, StopTaskTail, TailTaskOutput
<1>25. ASSUME Stop  PROVE ClaudeInv'
  BY <1>25 DEF Stop, StopTails, StopClears, StopBootstrap, StopReader, StopClient
<1> HIDE DEF ClaudeInv
<1> QED
  BY <1>1, <1>2, <1>3, <1>4, <1>5, <1>6, <1>7, <1>8, <1>9, <1>10, <1>11, <1>12, <1>13, <1>14, <1>15, <1>16, <1>17, <1>18, <1>19, <1>20, <1>21, <1>22, <1>23, <1>24, <1>25 DEF Next
-----------------------------------------------------------------------------
\* Every step of a Windows session is one of a Claude session without a knowledge
\* base, or drops the result on the way to the screen; it keeps the same invariant
\* and never enters maintenance.
LEMMA WindowsStep ==
  ASSUME ClaudeInv, NoMaintenance, Win!Next
  PROVE  ClaudeInv' /\ NoMaintenance'
<1> USE DEF NoMaintenance, boots, turns, idles, asks, Calls, Says, Pending, HasClient, LockHeld,
       Listening, Approves, Answered, Tailed, Win!Core!boots, Win!Core!turns, Win!Core!idles,
       Win!Core!asks, Win!Core!Calls, Win!Core!Says, Win!Core!Pending, Win!Core!HasClient,
       Win!Core!LockHeld, Win!Core!Listening, Win!Core!Approves, Win!Core!Answered, Win!Core!Tailed
<1>1. ASSUME Win!Start  PROVE Start /\ NoMaintenance'
  BY <1>1 DEF Win!Start, Win!Core!Start, Start
<1>2. ASSUME Win!EnsureCredentials  PROVE EnsureCredentials /\ NoMaintenance'
  BY <1>2 DEF Win!EnsureCredentials, Win!Core!EnsureCredentials, EnsureCredentials
<1>3. ASSUME Win!SdkInit  PROVE SdkInit /\ NoMaintenance'
  BY <1>3 DEF Win!SdkInit, Win!Core!SdkInit, SdkInit
<1>4. ASSUME Win!SendPrompt  PROVE SendPrompt /\ NoMaintenance'
  BY <1>4 DEF Win!SendPrompt, Win!Core!SendPrompt, SendPrompt
<1>5. ASSUME Win!Admit  PROVE Admit /\ NoMaintenance'
  BY <1>5 DEF Win!Admit, Win!Core!Admit, Admit
<1>6. ASSUME Win!Query  PROVE Query /\ NoMaintenance'
  BY <1>6 DEF Win!Query, Win!Core!Query, Query
<1>7. ASSUME Win!Interrupt  PROVE Interrupt /\ NoMaintenance'
  BY <1>7 DEF Win!Interrupt, Win!Core!Interrupt, Interrupt
<1>8. ASSUME Win!SetAutoApprove  PROVE SetAutoApprove /\ NoMaintenance'
  BY <1>8 DEF Win!SetAutoApprove, Win!Core!SetAutoApprove, SetAutoApprove
<1>9. ASSUME Win!Park  PROVE Park /\ NoMaintenance'
  BY <1>9 DEF Win!Park, Win!Core!Park, Park
<1>10. ASSUME Win!Reattach  PROVE Reattach /\ NoMaintenance'
  BY <1>10 DEF Win!Reattach, Win!Core!Reattach, Reattach
<1>11. ASSUME Win!ResendPendingUserInputs  PROVE ResendPendingUserInputs /\ NoMaintenance'
  BY <1>11 DEF Win!ResendPendingUserInputs, Win!Core!ResendPendingUserInputs, ResendPendingUserInputs
<1>12. ASSUME Win!ReadResult  PROVE ReadResult /\ NoMaintenance'
  BY <1>12 DEF Win!ReadResult, Win!Core!ReadResult, ReadResult
<1>13. ASSUME Win!ReaderFails  PROVE ReaderFails /\ NoMaintenance'
  BY <1>13 DEF Win!ReaderFails, Win!Core!ReaderFails, ReaderFails
<1>14. ASSUME Win!ReaderEnds  PROVE ReaderEnds /\ NoMaintenance'
  BY <1>14 DEF Win!ReaderEnds, Win!Core!ReaderEnds, ReaderEnds
<1>15. ASSUME NEW c \in Calls, Win!CanUseTool(c)  PROVE CanUseTool(c) /\ NoMaintenance'
  BY <1>15 DEF Win!CanUseTool, Win!Core!CanUseTool, CanUseTool
<1>16. ASSUME NEW c \in Calls, Win!Request(c)  PROVE Request(c) /\ NoMaintenance'
  BY <1>16 DEF Win!Request, Win!Core!Request, Request
<1>17. ASSUME NEW c \in Calls, Win!RequestUserInput(c)  PROVE RequestUserInput(c) /\ NoMaintenance'
  BY <1>17 DEF Win!RequestUserInput, Win!Core!RequestUserInput, RequestUserInput
<1>18. ASSUME NEW c \in Calls, Win!Resolve(c)  PROVE Resolve(c) /\ NoMaintenance'
  BY <1>18 DEF Win!Resolve, Win!Core!Resolve, Resolve
<1>19. ASSUME NEW c \in Calls, Win!ResolveUserInput(c)  PROVE ResolveUserInput(c) /\ NoMaintenance'
  BY <1>19 DEF Win!ResolveUserInput, Win!Core!ResolveUserInput, ResolveUserInput
<1>20. ASSUME Win!TurnEnds  PROVE TurnEnds /\ NoMaintenance'
  BY <1>20 DEF ClaudeInv, Types, Win!TurnEnds, Win!Core!TurnEnds, Win!Core!OnTurnEnd, TurnEnds, OnTurnEnd
<1>21. ASSUME NEW k \in Tasks, Win!StartTaskTail(k)  PROVE StartTaskTail(k) /\ NoMaintenance'
  BY <1>21 DEF Win!StartTaskTail, Win!Core!StartTaskTail, StartTaskTail
<1>22. ASSUME NEW k \in Tasks, Win!StopTaskTail(k)  PROVE StopTaskTail(k) /\ NoMaintenance'
  BY <1>22 DEF Win!StopTaskTail, Win!Core!StopTaskTail, StopTaskTail
<1>23. ASSUME NEW k \in Tasks, Win!TailTaskOutput(k)  PROVE TailTaskOutput(k) /\ NoMaintenance'
  BY <1>23 DEF Win!TailTaskOutput, Win!Core!TailTaskOutput, TailTaskOutput
<1>24. ASSUME Win!Core!StopTails, Win!Stop  PROVE StopTails /\ NoMaintenance'
  BY <1>24 DEF Win!Core!StopTails, StopTails
<1>25. ASSUME Win!Core!StopClears, Win!Stop  PROVE StopClears /\ NoMaintenance'
  BY <1>25 DEF Win!Core!StopClears, StopClears
<1>26. ASSUME Win!Core!StopBootstrap, Win!Stop  PROVE StopBootstrap /\ NoMaintenance'
  BY <1>26 DEF Win!Core!StopBootstrap, StopBootstrap
<1>27. ASSUME Win!Core!StopReader, Win!Stop  PROVE StopReader /\ NoMaintenance'
  BY <1>27 DEF Win!Core!StopReader, StopReader
<1>28. ASSUME Win!Core!StopClient, Win!Stop  PROVE StopClient /\ NoMaintenance'
  BY <1>28 DEF Win!Core!StopClient, StopClient
<1>29. ASSUME Win!SendResult, known = sid  PROVE SendResult /\ NoMaintenance'
  BY <1>29 DEF Win!SendResult, Win!Core!SendResult, SendResult
\* The client drops the result: the session goes on as if it had shown it.
<1>30. ASSUME Win!SendResult, known # sid  PROVE ClaudeInv' /\ NoMaintenance'
  BY <1>30 DEF ClaudeInv, Types, Live, TurnInv, HiddenInv, QuestionsShown, Win!SendResult
<1>31. (Next /\ NoMaintenance') \/ (ClaudeInv' /\ NoMaintenance')
  <2> HIDE DEF NoMaintenance, Calls, Win!Core!Calls
  <2>1. Win!Core!Calls = Calls
    BY DEF Calls, Win!Core!Calls
  <2>2. CASE Win!Start
    BY <2>2, <1>1 DEF Next
  <2>3. CASE Win!EnsureCredentials
    BY <2>3, <1>2 DEF Next
  <2>4. CASE Win!SdkInit
    BY <2>4, <1>3 DEF Next
  <2>5. CASE Win!SendPrompt
    BY <2>5, <1>4 DEF Next
  <2>6. CASE Win!Admit
    BY <2>6, <1>5 DEF Next
  <2>7. CASE Win!Query
    BY <2>7, <1>6 DEF Next
  <2>8. CASE Win!Interrupt
    BY <2>8, <1>7 DEF Next
  <2>9. CASE Win!SetAutoApprove
    BY <2>9, <1>8 DEF Next
  <2>10. CASE Win!Park
    BY <2>10, <1>9 DEF Next
  <2>11. CASE Win!Reattach
    BY <2>11, <1>10 DEF Next
  <2>12. CASE Win!ResendPendingUserInputs
    BY <2>12, <1>11 DEF Next
  <2>13. CASE Win!ReadResult
    BY <2>13, <1>12 DEF Next
  <2>14. CASE Win!ReaderFails
    BY <2>14, <1>13 DEF Next
  <2>15. CASE Win!ReaderEnds
    BY <2>15, <1>14 DEF Next
  <2>16. CASE \E c \in Calls : Win!CanUseTool(c)
    BY <2>16, <1>15 DEF Next
  <2>17. CASE \E c \in Calls : Win!Request(c)
    BY <2>17, <1>16 DEF Next
  <2>18. CASE \E c \in Calls : Win!RequestUserInput(c)
    BY <2>18, <1>17 DEF Next
  <2>19. CASE \E c \in Calls : Win!Resolve(c)
    BY <2>19, <1>18 DEF Next
  <2>20. CASE \E c \in Calls : Win!ResolveUserInput(c)
    BY <2>20, <1>19 DEF Next
  <2>21. CASE Win!TurnEnds
    BY <2>21, <1>20 DEF Next
  <2>22. CASE \E k \in Tasks : Win!StartTaskTail(k)
    BY <2>22, <1>21 DEF Next, TaskEvent
  <2>23. CASE \E k \in Tasks : Win!StopTaskTail(k)
    BY <2>23, <1>22 DEF Next, TaskEvent
  <2>24. CASE \E k \in Tasks : Win!TailTaskOutput(k)
    BY <2>24, <1>23 DEF Next, TaskEvent
  <2>25. CASE Win!Stop
    BY <2>25, <1>24, <1>25, <1>26, <1>27, <1>28 DEF Next, Stop, Win!Stop, Win!Core!Stop
  <2>26. CASE Win!SendResult
    BY <2>26, <1>29, <1>30 DEF Next
  <2> QED  BY <2>1, <2>2, <2>3, <2>4, <2>5, <2>6, <2>7, <2>8, <2>9, <2>10, <2>11, <2>12, <2>13, <2>14, <2>15, <2>16, <2>17, <2>18, <2>19, <2>20, <2>21, <2>22, <2>23, <2>24, <2>25, <2>26 DEF Win!Next
<1> QED  BY <1>31, ClaudeStep
-----------------------------------------------------------------------------
\* Every step of a Copilot session keeps its invariant.
LEMMA CopilotStep ==
  ASSUME CopilotInv, Cop!Next
  PROVE  CopilotInv'
<1> USE DEF CopilotInv, Types, QuestionsShown, Calls, Pending, Cop!unused, Cop!Core!boots,
       Cop!Core!turns, Cop!Core!idles, Cop!Core!asks, Cop!Core!Calls, Cop!Core!Says,
       Cop!Core!Pending, Cop!Core!HasClient, Cop!Core!Listening
<1>1. ASSUME Cop!Start  PROVE CopilotInv'
  BY <1>1 DEF Cop!Start
<1>2. ASSUME Cop!SdkInit  PROVE CopilotInv'
  <2>1. screen' \in [streaming : BOOLEAN, asks : SUBSET Calls] /\ screen'.asks = screen.asks
    BY <1>2 DEF Cop!SdkInit
  <2>2. Types'
    <3> HIDE DEF QuestionsShown, Pending, Calls, Cop!Core!Says
    <3> QED  BY <1>2, <2>1 DEF Cop!SdkInit
  <2>3. QuestionsShown'
    BY <1>2, <2>1 DEF Cop!SdkInit
  <2> QED  BY <1>2, <2>1, <2>2, <2>3 DEF Cop!SdkInit
<1>3. ASSUME Cop!SendPrompt  PROVE CopilotInv'
  BY <1>3 DEF Cop!SendPrompt
<1>4. ASSUME Cop!Send  PROVE CopilotInv'
  <2>1. screen' \in [streaming : BOOLEAN, asks : SUBSET Calls] /\ screen'.asks = screen.asks
    <3> HIDE DEF QuestionsShown, Calls
    <3> QED  BY <1>4 DEF Cop!Send
  <2>2. busy' \in BOOLEAN /\ once' \in BOOLEAN /\ prompter' = "idle" /\ turn' \in {turn, "user"}
    <3> HIDE DEF QuestionsShown, Calls, Cop!Core!Says
    <3> QED  BY <1>4 DEF Cop!Send
  <2>3. Types'
    <3> HIDE DEF QuestionsShown, Calls, Cop!Core!Says
    <3> QED  BY <1>4, <2>1, <2>2 DEF Cop!Send
  <2>4. QuestionsShown'
    BY <1>4, <2>1 DEF Cop!Send
  <2>5. stop' = "no" => (turn' # "none" => busy' /\ prompter' # "query") /\ (once' => busy')
    <3> HIDE DEF QuestionsShown, Calls, Cop!Core!Says
    <3> QED  BY <1>4, <2>2 DEF Cop!Send
  <2> HIDE DEF Types, QuestionsShown
  <2> QED  BY <2>2, <2>3, <2>4, <2>5
<1>5. ASSUME Cop!Idle  PROVE CopilotInv'
  BY <1>5 DEF Cop!Idle
<1>6. ASSUME Cop!Result  PROVE CopilotInv'
  <2>1. screen' \in [streaming : BOOLEAN, asks : SUBSET Calls] /\ screen'.asks = screen.asks
    BY <1>6 DEF Cop!Result
  <2>2. Types'
    <3> HIDE DEF QuestionsShown, Pending, Calls, Cop!Core!Says
    <3> QED  BY <1>6, <2>1 DEF Cop!Result
  <2>3. QuestionsShown'
    BY <1>6, <2>1 DEF Cop!Result
  <2> QED  BY <1>6, <2>1, <2>2, <2>3 DEF Cop!Result
<1>7. ASSUME Cop!Stop  PROVE CopilotInv'
  BY <1>7 DEF Cop!Stop
<1>8. ASSUME Cop!Interrupt  PROVE CopilotInv'
  BY <1>8 DEF Cop!Interrupt, Cop!Core!Interrupt
<1>9. ASSUME Cop!SetAutoApprove  PROVE CopilotInv'
  BY <1>9 DEF Cop!SetAutoApprove, Cop!Core!SetAutoApprove
<1>10. ASSUME Cop!Park  PROVE CopilotInv'
  BY <1>10 DEF Cop!Park, Cop!Core!Park
<1>11. ASSUME Cop!Reattach  PROVE CopilotInv'
  BY <1>11 DEF Cop!Reattach, Cop!Core!Reattach
<1>12. ASSUME Cop!ResendPendingUserInputs  PROVE CopilotInv'
  BY <1>12 DEF Cop!ResendPendingUserInputs, Cop!Core!ResendPendingUserInputs
<1>13. ASSUME NEW c \in Calls, Cop!OnPermissionRequest(c)  PROVE CopilotInv'
  BY <1>13 DEF Cop!OnPermissionRequest, Cop!Core!CanUseTool
<1>14. ASSUME NEW c \in Calls, Cop!Request(c)  PROVE CopilotInv'
  BY <1>14 DEF Cop!Request, Cop!Core!Request
<1>15. ASSUME NEW c \in Calls, Cop!Resolve(c)  PROVE CopilotInv'
  BY <1>15 DEF Cop!Resolve, Cop!Core!Resolve, Cop!Core!Answered
<1>16. ASSUME NEW c \in Calls, Cop!RequestUserInput(c)  PROVE CopilotInv'
  BY <1>16 DEF Cop!RequestUserInput, Cop!Core!RequestUserInput
<1>17. ASSUME NEW c \in Calls, Cop!ResolveUserInput(c)  PROVE CopilotInv'
  BY <1>17 DEF Cop!ResolveUserInput, Cop!Core!ResolveUserInput, Cop!Core!Answered
<1> HIDE DEF CopilotInv
<1> QED
  BY <1>1, <1>2, <1>3, <1>4, <1>5, <1>6, <1>7, <1>8, <1>9, <1>10, <1>11, <1>12, <1>13, <1>14, <1>15, <1>16, <1>17 DEF Cop!Next
-----------------------------------------------------------------------------
LEMMA AgentInit == MCInit => AgentInv
<1> USE DEF AgentInv, Types, QuestionsShown, Calls, Pending
<1>1. ASSUME part = "claude", Init  PROVE ClaudeInv
  BY <1>1 DEF Init, ClaudeInv, Live, TurnInv, HiddenInv, LockHeld
<1>2. ASSUME Win!Init  PROVE ClaudeInv /\ NoMaintenance
  BY <1>2 DEF Win!Init, Win!Core!Init, Win!Core!Calls, ClaudeInv, Live, TurnInv, HiddenInv,
     LockHeld, NoMaintenance
<1>3. ASSUME Cop!Init  PROVE CopilotInv
  BY <1>3 DEF Cop!Init, Cop!Core!Calls, CopilotInv
<1> QED  BY <1>1, <1>2, <1>3 DEF MCInit

LEMMA AgentStutter == AgentInv /\ UNCHANGED allVars => AgentInv'
<1> SUFFICES ASSUME AgentInv, UNCHANGED allVars
             PROVE  AgentInv'
  OBVIOUS
<1>1. UNCHANGED <<part, vars>>
  BY DEF allVars
<1> QED
  BY <1>1 DEF AgentInv, ClaudeInv, CopilotInv, NoMaintenance, Types, Live, TurnInv, HiddenInv,
     LockHeld, QuestionsShown, Pending, Calls, vars, boots, turns, idles, asks

LEMMA AgentStep == AgentInv /\ MCNext => AgentInv'
<1> SUFFICES ASSUME AgentInv, MCNext
             PROVE  AgentInv'
  OBVIOUS
<1>1. part' = part
  BY DEF MCNext
<1>2. CASE part = "claude"
  BY <1>1, <1>2, ClaudeStep DEF AgentInv, MCNext
<1>3. CASE part = "windows"
  BY <1>1, <1>3, WindowsStep DEF AgentInv, MCNext
<1>4. CASE part = "copilot"
  BY <1>1, <1>4, CopilotStep DEF AgentInv, MCNext
<1>5. CASE part \notin {"claude", "windows", "copilot"}
  BY <1>1, <1>5 DEF AgentInv
<1> QED  BY <1>2, <1>3, <1>4, <1>5

\* The inductive invariant of every worker's session but the Codex worker's: who
\* may hold _lock, _busy and the suppression of output, and who clears them.
THEOREM AgentInvariant == MCSpec => []AgentInv
<1>1. MCSpec => MCInit /\ [][MCNext]_allVars
  BY DEF MCSpec
<1> QED  BY <1>1, AgentInit, AgentStutter, AgentStep, PTL

\* No agent ever works on two prompts, nor on one that its session takes for
\* finished, though send_prompt, the idle timer and the end of a turn set and
\* clear _busy in different tasks.
THEOREM OneTurnAtATime == MCSpec => []AgentsOneTurn
<1>1. AgentInv => AgentsOneTurn
  BY DEF AgentInv, AgentsOneTurn, ClaudeInv, TurnInv, Live, OneTurn, Running, Reading, LockHeld,
     CopilotInv, Cop!TurnsScoped
<1> QED  BY <1>1, AgentInvariant, PTL

\* Output is suppressed from _run_consolidation to the end of its turn: a reply to
\* a prompt is never swallowed, maintenance never shown.
THEOREM MaintenanceIsHidden == MCSpec => []ClaudeHidden
<1>1. AgentInv => ClaudeHidden
  BY DEF AgentInv, ClaudeHidden, ClaudeInv, HiddenInv, Live, HiddenIsMaintenance, Running, Reading
<1> QED  BY <1>1, AgentInvariant, PTL

\* _auto_approve_once never outlives the prompt it was given for.
THEOREM ApprovalEndsWithPrompt == MCSpec => []ClaudeOneShot
<1>1. AgentInv => ClaudeOneShot
  BY DEF AgentInv, ClaudeOneShot, ClaudeInv, HiddenInv, Live, OneShotScoped, Running, Reading
<1> QED  BY <1>1, AgentInvariant, PTL

\* Whoever views a session sees every question its agent blocks on, however often
\* the session was parked and taken up again.
THEOREM QuestionsSurviveParking == MCSpec => []AgentsQuestions
<1>1. AgentInv => AgentsQuestions
  BY DEF AgentInv, AgentsQuestions, ClaudeInv, CopilotInv
<1> QED  BY <1>1, AgentInvariant, PTL
=============================================================================
