--------------------------- MODULE ClaudeSession ----------------------------
(***************************************************************************)
(* One agent session of a Claude worker: the Session object and its        *)
(* permission broker (worker-claude/src/sdk/session.py, permissions.py).   *)
(* The tasks that share the object are the start or the bootstrap task,    *)
(* the message loop of the connection that views it, the reader of the     *)
(* SDK's stream, the callbacks of the SDK that ask the user about a tool,  *)
(* the idle timer of the knowledge base, the tails of background tasks,    *)
(* and whoever stops it.  They interleave at every await.                  *)
(*                                                                         *)
(* The agent itself (the CLI behind the SDK) is external: it works on one  *)
(* prompt at a time, may ask about tools meanwhile, and ends the turn with *)
(* a ResultMessage.                                                        *)
(***************************************************************************)
EXTENDS FiniteSets

CONSTANTS
  Permissions,  \* tool calls that need the user's approval
  Questions,    \* calls of the tools of _USER_INPUT_TOOLS
  Tasks,        \* background tasks of the agent
  Knowledge     \* the session's project has a knowledge base

ASSUME SessionAssumption ==
  /\ Permissions \cap Questions = {}
  /\ Knowledge \in BOOLEAN

Calls == Permissions \cup Questions

VARIABLES
  boot,      \* start(): its stage, and whether it left a client behind
  link,      \* whether a connection views the session, or the registry has it
  screen,    \* what that connection's client shows: streaming, open prompts
  reader,    \* _stream_task: what _consume_stream is awaiting
  busy,      \* _busy
  turn,      \* the prompt the agent works on
  cut,       \* the user interrupted it
  prompter,  \* the message loop inside send_prompt
  timer,     \* _idle_timer
  dirty,     \* _knowledge_dirty
  hidden,    \* _consolidating and _suppress_output, always set together
  once,      \* _auto_approve_once
  auto,      \* _auto_approve
  call,      \* the can_use_tool callbacks
  tails,     \* the tails of background tasks
  stop       \* how far stop() has got

boots == <<boot, link>>
turns == <<reader, busy, turn, cut, prompter>>
idles == <<timer, dirty, hidden>>
asks  == <<once, auto, call>>
vars  == <<boots, screen, turns, idles, asks, tails, stop>>

TypeOK ==
  /\ boot \in {"new", "asking", "dialing", "connecting", "up", "none", "broken"}
  /\ link \in {"attached", "attaching", "parked"}
  /\ screen \in [streaming : BOOLEAN, asks : SUBSET Calls]
  /\ reader \in {"none", "reading", "push", "send", "dead"}
  /\ {busy, cut, dirty, hidden, once, auto} \subseteq BOOLEAN
  /\ turn \in {"none", "user", "maint"}
  /\ prompter \in {"idle", "wait", "query"}
  /\ timer \in {"off", "sleeping", "query"}
  /\ call \in [Calls -> {"none", "push", "asked"}]
  /\ tails \in [Tasks -> {"new", "live", "draining", "lost", "over"}]
  /\ stop \in {"no", "tails", "boot", "reader", "client", "done"}

Init ==
  /\ boot = "new" /\ link = "attached"
  /\ screen = [streaming |-> FALSE, asks |-> {}]
  /\ reader = "none" /\ busy = FALSE /\ turn = "none" /\ cut = FALSE
  /\ prompter = "idle" /\ timer = "off" /\ dirty = FALSE /\ hidden = FALSE
  /\ once = FALSE /\ auto \in BOOLEAN /\ call = [c \in Calls |-> "none"]
  /\ tails = [k \in Tasks |-> "new"]
  /\ stop = "no"

\* self._client is not None: it is assigned before connect() is awaited.
HasClient == boot \in {"dialing", "connecting", "up", "broken"} /\ stop # "done"
\* self._lock is held across query().
LockHeld == prompter = "query" \/ timer = "query"
\* The message loop of the viewer is free to read its next message.
Listening == link = "attached" /\ prompter = "idle"
\* self._send, which does nothing while the session is parked.
Says(s) == screen' = IF link = "parked" THEN screen ELSE s
Pending(C) == {c \in C : call[c] = "asked"}
-----------------------------------------------------------------------------
(* Starting.                                                               *)

\* With credentials the caller of start() awaits the connection ("dialing");
\* without, a bootstrap task asks the user for them first.
Start ==
  /\ boot = "new" /\ stop = "no"
  /\ boot' \in {"dialing", "asking"}
  /\ UNCHANGED <<link, screen, turns, idles, asks, tails, stop>>

\* The user answers, or the bootstrap fails and leaves no client.
EnsureCredentials ==
  /\ boot = "asking"
  /\ boot' \in {"connecting", "none"}
  /\ UNCHANGED <<link, screen, turns, idles, asks, tails, stop>>

\* connect() returns, session_started is sent and the reader begins; or it
\* raises, and the client stays behind.
SdkInit ==
  /\ boot \in {"dialing", "connecting"} /\ stop # "done"
  /\ \/ boot' = "up" /\ reader' = "reading"
        /\ Says([screen EXCEPT !.streaming = FALSE])
     \/ boot' = "broken" /\ UNCHANGED <<reader, screen>>
  /\ UNCHANGED <<link, busy, turn, cut, prompter, idles, asks, tails, stop>>
-----------------------------------------------------------------------------
(* Prompts.                                                                *)

SendPrompt ==
  /\ Listening /\ HasClient /\ boot # "dialing"
  /\ prompter' = "wait"
  /\ screen' = [screen EXCEPT !.streaming = TRUE]
  /\ UNCHANGED <<boots, reader, busy, turn, cut, idles, asks, tails, stop>>

\* Variant: the busy flag is not looked at.
AdmitBusy ==
  /\ prompter = "wait" /\ ~ LockHeld
  /\ busy' = TRUE /\ once' \in {once, TRUE} /\ prompter' = "query"
  /\ UNCHANGED <<boots, screen, reader, turn, cut, idles, auto, call, tails, stop>>

\* With the lock: on to query(), or refused as busy, which leaves the client
\* waiting for the result of the turn that is going on.
Admit ==
  /\ prompter = "wait" /\ ~ LockHeld
  /\ \/ busy /\ prompter' = "idle" /\ UNCHANGED <<busy, once>>
     \/ ~ busy /\ busy' = TRUE /\ once' \in {once, TRUE} /\ prompter' = "query"
  /\ UNCHANGED <<boots, screen, reader, turn, cut, idles, auto, call, tails, stop>>

\* query() hands the prompt to the agent, or raises: the error is shown and
\* _busy stays set.
Query ==
  /\ prompter = "query" /\ prompter' = "idle"
  /\ \/ boot = "up" /\ stop # "done" /\ turn' = "user" /\ UNCHANGED screen
     \/ Says([screen EXCEPT !.streaming = FALSE]) /\ UNCHANGED turn
  /\ UNCHANGED <<boots, reader, busy, cut, idles, asks, tails, stop>>

Interrupt ==
  /\ Listening /\ HasClient /\ turn # "none" /\ cut' = TRUE
  /\ UNCHANGED <<boots, screen, reader, busy, turn, prompter, idles, asks, tails, stop>>

SetAutoApprove ==
  /\ Listening /\ auto' = ~ auto
  /\ UNCHANGED <<boots, screen, turns, idles, once, call, tails, stop>>
-----------------------------------------------------------------------------
(* The registry and the viewer.                                            *)

\* park(): the send is muted and the permissions asked for are denied.
Park ==
  /\ Listening /\ boot # "dialing" /\ stop = "no"
  /\ link' = "parked" /\ screen' = [streaming |-> FALSE, asks |-> {}]
  /\ call' = [c \in Calls |-> IF c \in Pending(Permissions) THEN "none" ELSE call[c]]
  /\ UNCHANGED <<boot, turns, idles, once, auto, tails, stop>>

\* rebind() and the session_started of notify_reconnected().
Reattach ==
  /\ link = "parked" /\ stop = "no"
  /\ link' = "attaching"
  /\ screen' = [streaming |-> busy, asks |-> {}]
  /\ UNCHANGED <<boot, turns, idles, asks, tails, stop>>

\* Variant: the questions are not sent again.
ResendNothing ==
  /\ link = "attaching" /\ link' = "attached"
  /\ UNCHANGED <<boot, screen, turns, idles, asks, tails, stop>>

ResendPendingUserInputs ==
  /\ link = "attaching" /\ link' = "attached"
  /\ screen' = [screen EXCEPT !.asks = @ \cup Pending(Questions)]
  /\ UNCHANGED <<boot, turns, idles, asks, tails, stop>>
-----------------------------------------------------------------------------
(* Tools that ask.                                                         *)

Approves(c) == c \in Permissions /\ (auto \/ once)

\* The agent calls a tool; unless it is approved already, the user's devices
\* are pushed a notification before anything is asked.
CanUseTool(c) ==
  /\ turn # "none" /\ boot = "up" /\ call[c] = "none" /\ ~ Approves(c)
  /\ call' = [call EXCEPT ![c] = "push"]
  /\ UNCHANGED <<boots, screen, turns, idles, once, auto, tails, stop>>

\* request(): approved meanwhile, or the future is recorded, the client is
\* asked, and the callback blocks.
Request(c) ==
  /\ c \in Permissions /\ call[c] = "push"
  /\ \/ /\ Approves(c) /\ call' = [call EXCEPT ![c] = "none"] /\ UNCHANGED screen
     \/ /\ ~ Approves(c) /\ call' = [call EXCEPT ![c] = "asked"]
        /\ Says([screen EXCEPT !.asks = @ \cup {c}])
  /\ UNCHANGED <<boots, turns, idles, once, auto, tails, stop>>

RequestUserInput(c) ==
  /\ c \in Questions /\ call[c] = "push"
  /\ call' = [call EXCEPT ![c] = "asked"]
  /\ Says([screen EXCEPT !.asks = @ \cup {c}])
  /\ UNCHANGED <<boots, turns, idles, once, auto, tails, stop>>

\* The viewer's answer; one that comes too late is dropped.
Answered(c) ==
  /\ Listening /\ c \in screen.asks
  /\ screen' = [screen EXCEPT !.asks = @ \ {c}]
  /\ call' = IF call[c] = "asked" THEN [call EXCEPT ![c] = "none"] ELSE call
  /\ UNCHANGED <<boots, turns, idles, once, auto, tails, stop>>

Resolve(c) == c \in Permissions /\ Answered(c)
ResolveUserInput(c) == c \in Questions /\ Answered(c)
-----------------------------------------------------------------------------
(* The reader of the stream.                                               *)

Reading == reader \in {"reading", "push", "send"}

\* An edit makes the knowledge base worth consolidating.
Work ==
  /\ Knowledge /\ reader = "reading" /\ turn # "none" /\ ~ dirty
  /\ dirty' = TRUE
  /\ UNCHANGED <<boots, screen, turns, timer, hidden, asks, tails, stop>>

\* The agent ends its turn.  A maintenance turn is over at once; the result
\* of a prompt is pushed to the devices first.  The SDK drops the callbacks
\* of a turn that was cut short.
ReadResult ==
  /\ reader = "reading" /\ turn # "none"
  /\ cut \/ \A c \in Calls : call[c] = "none"
  /\ reader' = "push" /\ turn' = "none" /\ cut' = FALSE
  /\ call' = [c \in Calls |-> "none"]
  /\ UNCHANGED <<boots, screen, busy, prompter, idles, once, auto, tails, stop>>

SendResult ==
  /\ reader = "push" /\ ~ hidden /\ reader' = "send"
  /\ Says([screen EXCEPT !.streaming = FALSE])
  /\ UNCHANGED <<boots, busy, turn, cut, prompter, idles, asks, tails, stop>>

\* _on_turn_end: the end of a maintenance turn, or a new idle timer.
OnTurnEnd ==
  IF hidden
  THEN hidden' = FALSE /\ dirty' = FALSE /\ UNCHANGED timer
  ELSE timer' = (IF Knowledge /\ dirty THEN "sleeping" ELSE "off")
       /\ UNCHANGED <<dirty, hidden>>

\* Variant: the approval of one prompt is left armed.
TurnEndsArmed ==
  /\ reader = "send" \/ (reader = "push" /\ hidden)
  /\ reader' = "reading" /\ busy' = FALSE /\ OnTurnEnd
  /\ UNCHANGED <<boots, screen, turn, cut, prompter, asks, tails, stop>>

\* Variant: only a maintenance turn clears the busy flag.
TurnEndsBusy ==
  /\ reader = "send" \/ (reader = "push" /\ hidden)
  /\ reader' = "reading" /\ busy' = ~ hidden /\ once' = FALSE /\ OnTurnEnd
  /\ UNCHANGED <<boots, screen, turn, cut, prompter, auto, call, tails, stop>>

TurnEnds ==
  /\ reader = "send" \/ (reader = "push" /\ hidden)
  /\ reader' = "reading" /\ busy' = FALSE /\ once' = FALSE /\ OnTurnEnd
  /\ UNCHANGED <<boots, screen, turn, cut, prompter, auto, call, tails, stop>>

\* The stream raises: the session is declared idle, and nobody reads on.
ReaderFails ==
  /\ reader \in {"reading", "send"} /\ reader' = "dead"
  /\ busy' = FALSE /\ once' = FALSE
  /\ Says([screen EXCEPT !.streaming = FALSE])
  /\ UNCHANGED <<boots, turn, cut, prompter, idles, auto, call, tails, stop>>

\* The stream ends, or the error cannot be sent: nothing is reset.
ReaderEnds ==
  /\ reader \in {"reading", "send"} /\ reader' = "dead"
  /\ UNCHANGED <<boots, screen, busy, turn, cut, prompter, idles, asks, tails, stop>>
-----------------------------------------------------------------------------
(* Consolidating the knowledge base.                                       *)

IdleConsolidateAfter ==
  /\ timer = "sleeping" /\ ~ LockHeld
  /\ IF busy \/ hidden \/ ~ dirty \/ ~ HasClient
     THEN timer' = "off" /\ UNCHANGED <<busy, hidden>>
     ELSE timer' = "query" /\ busy' = TRUE /\ hidden' = TRUE
  /\ UNCHANGED <<boots, screen, reader, turn, cut, prompter, dirty, asks, tails, stop>>

\* Variant: a failed query leaves the output suppressed.
RunConsolidationHidden ==
  /\ timer = "query" /\ timer' = "off"
  /\ \/ turn' = "maint" /\ stop # "done" /\ UNCHANGED busy
     \/ busy' = FALSE /\ UNCHANGED turn
  /\ UNCHANGED <<boots, screen, reader, cut, prompter, dirty, hidden, asks, tails, stop>>

RunConsolidation ==
  /\ timer = "query" /\ timer' = "off"
  /\ \/ turn' = "maint" /\ stop # "done" /\ UNCHANGED <<busy, hidden>>
     \/ busy' = FALSE /\ hidden' = FALSE /\ UNCHANGED turn
  /\ UNCHANGED <<boots, screen, reader, cut, prompter, dirty, asks, tails, stop>>
-----------------------------------------------------------------------------
(* Tails of background tasks.                                              *)

StartTaskTail(k) ==
  /\ reader = "reading" /\ tails[k] = "new"
  /\ tails' = [tails EXCEPT ![k] = "live"]
  /\ UNCHANGED <<boots, screen, turns, idles, asks, stop>>

\* The task is over: its tail has a moment to drain.
StopTaskTail(k) ==
  /\ reader = "reading" /\ tails[k] = "live"
  /\ tails' = [tails EXCEPT ![k] = "draining"]
  /\ UNCHANGED <<boots, screen, turns, idles, asks, stop>>

\* What _dispatch does with the system messages about a task.
TaskEvent(k) == StartTaskTail(k) \/ StopTaskTail(k)

\* Drained and cancelled, or the tail found no file or failed.
TailTaskOutput(k) ==
  /\ tails[k] \in {"live", "draining"}
  /\ tails' = [tails EXCEPT ![k] = "over"]
  /\ UNCHANGED <<boots, screen, turns, idles, asks, stop>>
-----------------------------------------------------------------------------
(* stop(), by an expiry timer, a takeover or the end of the worker.        *)

Tailed == {k \in Tasks : tails[k] \in {"live", "draining"}}

\* The idle timer and the tails are cancelled, and the tails awaited.
StopTails ==
  /\ stop = "no" /\ boot # "new"
  /\ stop' = IF Tailed = {} THEN "boot" ELSE "tails"
  /\ timer' = "off"
  /\ tails' = [k \in Tasks |-> IF k \in Tailed THEN "over" ELSE tails[k]]
  /\ UNCHANGED <<boots, screen, turns, dirty, hidden, asks>>

\* _task_tails is cleared, with what the reader added to it meanwhile.
StopClears ==
  /\ stop = "tails" /\ stop' = "boot"
  /\ tails' = [k \in Tasks |-> IF tails[k] = "live" THEN "lost" ELSE tails[k]]
  /\ UNCHANGED <<boots, screen, turns, idles, asks>>

StopBootstrap ==
  /\ stop = "boot" /\ stop' = "reader"
  /\ boot' = CASE boot = "asking" -> "none" [] boot = "connecting" -> "broken"
               [] OTHER -> boot
  /\ UNCHANGED <<link, screen, turns, idles, asks, tails>>

\* The reader is cancelled; then every open question is answered with a no.
StopReader ==
  /\ stop = "reader" /\ stop' = "client"
  /\ reader' = "dead"
  /\ call' = [c \in Calls |-> IF call[c] = "asked" THEN "none" ELSE call[c]]
  /\ UNCHANGED <<boots, screen, busy, turn, cut, prompter, idles, once, auto, tails>>

StopClient ==
  /\ stop = "client" /\ stop' = "done"
  /\ turn' = "none" /\ call' = [c \in Calls |-> "none"]
  /\ UNCHANGED <<boots, screen, reader, busy, cut, prompter, idles, once, auto, tails>>

Stop == StopTails \/ StopClears \/ StopBootstrap \/ StopReader \/ StopClient
-----------------------------------------------------------------------------
Next ==
  \/ Start \/ EnsureCredentials \/ SdkInit
  \/ SendPrompt \/ Admit \/ Query \/ Interrupt \/ SetAutoApprove
  \/ Park \/ Reattach \/ ResendPendingUserInputs
  \/ \E c \in Calls : \/ CanUseTool(c) \/ Request(c) \/ RequestUserInput(c)
                       \/ Resolve(c) \/ ResolveUserInput(c)
  \/ Work \/ ReadResult \/ SendResult \/ TurnEnds \/ ReaderFails \/ ReaderEnds
  \/ IdleConsolidateAfter \/ RunConsolidation
  \/ \E k \in Tasks : TaskEvent(k) \/ TailTaskOutput(k)
  \/ Stop

Spec == Init /\ [][Next]_vars

\* The event loop runs what is ready.  An agent may call tools for long but
\* its loop ends: strong fairness, since every question interrupts it.
Fairness ==
  /\ WF_vars(Query) /\ WF_vars(SendResult) /\ WF_vars(TurnEnds)
  /\ \A c \in Calls : WF_vars(Request(c) \/ RequestUserInput(c))
  /\ SF_vars(ReadResult)

FairSpec == Spec /\ Fairness
-----------------------------------------------------------------------------
Running == Reading /\ stop = "no"

\* The agent never has two prompts at once, and never one the session takes
\* for finished: prompts, results and the idle timer are admitted by _busy
\* alone, across the awaits of query() and of the result's delivery.
OneTurn ==
  Running =>
    /\ turn # "none" => busy /\ ~ LockHeld
    /\ LockHeld => busy
    /\ ~ (prompter = "query" /\ timer = "query")

\* Output is suppressed during a maintenance turn and during no other: no
\* reply to a prompt is swallowed, no maintenance is shown as a reply.
HiddenIsMaintenance ==
  Running =>
    /\ turn = "maint" => hidden
    /\ hidden => turn # "user" /\ prompter # "query"

\* An approval given for one prompt ends with it: it never approves the tools
\* of a later prompt or of a maintenance turn.
OneShotScoped == Running => /\ once => busy
                            /\ turn = "maint" => ~ once

\* A question the agent blocks on is in front of whoever views the session,
\* however often the session was parked since.
QuestionsShown ==
  link = "attached" /\ stop = "no" => Pending(Questions) \subseteq screen.asks

\* "the agent can't wait on a human decision for a session nobody is watching"
\* (registry.py): a parked session has no permission to wait for, which its
\* next viewer would not be asked again.
ParkedWaitsForNobody ==
  link = "parked" /\ stop = "no" => Pending(Permissions) = {}

\* A turn ends, unless the user leaves it waiting or the stream breaks.
TurnsEnd ==
  busy /\ turn # "none" ~>
    ~ busy \/ ~ Running \/ Pending(Calls) # {}
=============================================================================
