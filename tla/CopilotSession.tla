--------------------------- MODULE CopilotSession ---------------------------
(***************************************************************************)
(* One session of the Copilot worker (worker-copilot/src/sdk/session.py).  *)
(* Its permission broker and its parking are those of a Claude session and *)
(* taken from there.  Turns are its own: there is no reader, the SDK calls *)
(* back with every event, each of which is dispatched in a task of its     *)
(* own, and the session is idle before the result is pushed and sent.      *)
(***************************************************************************)
EXTENDS Naturals

CONSTANTS
  Permissions, Questions,
  MaxResults   \* bounds how many results are on their way at a time

VARIABLES
  boot, link, screen, busy, turn, cut, prompter, once, auto, call, stop,
  results,     \* dispatch tasks of SessionIdleData that await push and send
  reader, timer, dirty, hidden, tails   \* constant: it has none of these

Core == INSTANCE ClaudeSession WITH Knowledge <- FALSE, Tasks <- {}

unused == <<reader, timer, dirty, hidden, tails>>
vars == <<boot, link, screen, busy, turn, cut, prompter, once, auto, call, stop,
          results, unused>>

Init ==
  /\ boot = "new" /\ link = "attached"
  /\ screen = [streaming |-> FALSE, asks |-> {}]
  /\ busy = FALSE /\ turn = "none" /\ cut = FALSE /\ prompter = "idle"
  /\ once = FALSE /\ auto \in BOOLEAN /\ call = [c \in Core!Calls |-> "none"]
  /\ stop = "no" /\ results = 0
  /\ reader = "reading" /\ timer = "off" /\ dirty = FALSE /\ hidden = FALSE
  /\ tails = <<>>
-----------------------------------------------------------------------------
\* Without credentials start() refuses; the client is sent to the banner.
Start ==
  /\ boot = "new" /\ stop = "no" /\ boot' \in {"dialing", "none"}
  /\ UNCHANGED <<link, screen, busy, turn, cut, prompter, once, auto, call, stop,
                 results, unused>>

\* The SDK session is created or resumed, if need be without the model asked
\* for; its events are subscribed to and session_started is sent.
SdkInit ==
  /\ boot = "dialing" /\ stop # "done"
  /\ \/ boot' = "up" /\ Core!Says([screen EXCEPT !.streaming = FALSE])
     \/ boot' = "none" /\ UNCHANGED screen
  /\ UNCHANGED <<link, busy, turn, cut, prompter, once, auto, call, stop, results, unused>>

SendPrompt ==
  /\ Core!Listening /\ boot = "up" /\ stop # "done"
  /\ screen' = [screen EXCEPT !.streaming = TRUE]
  /\ IF busy THEN UNCHANGED <<busy, once, prompter>>
     ELSE busy' = TRUE /\ once' \in {once, TRUE} /\ prompter' = "query"
  /\ UNCHANGED <<boot, link, turn, cut, auto, call, stop, results, unused>>

\* send() starts a turn, or raises and the session is idle again.
Send ==
  /\ prompter = "query" /\ prompter' = "idle"
  /\ \/ stop # "done" /\ turn' = "user" /\ UNCHANGED <<busy, once, screen>>
     \/ /\ busy' = FALSE /\ once' = FALSE /\ UNCHANGED turn
        /\ Core!Says([screen EXCEPT !.streaming = FALSE])
  /\ UNCHANGED <<boot, link, cut, auto, call, stop, results, unused>>

\* SessionIdleData: the turn is over, aborted or not; the result is on its way.
Idle ==
  /\ turn # "none" /\ prompter # "query" /\ results < MaxResults /\ stop = "no"
  /\ cut \/ \A c \in Core!Calls : call[c] = "none"
  /\ turn' = "none" /\ cut' = FALSE /\ call' = [c \in Core!Calls |-> "none"]
  /\ busy' = FALSE /\ once' = FALSE /\ results' = results + 1
  /\ UNCHANGED <<boot, link, screen, prompter, auto, stop, unused>>

\* A result is sent: whatever the client saw streaming is over for it.
Result ==
  /\ results > 0 /\ results' = results - 1
  /\ Core!Says([screen EXCEPT !.streaming = FALSE])
  /\ UNCHANGED <<boot, link, busy, turn, cut, prompter, once, auto, call, stop, unused>>

\* Events are unsubscribed, pending questions answered with a no, and the SDK
\* session disconnected.
Stop ==
  /\ boot # "new"
  /\ \/ /\ stop = "no" /\ stop' = "client" /\ UNCHANGED turn
        /\ call' = [c \in Core!Calls |-> IF call[c] = "asked" THEN "none" ELSE call[c]]
     \/ /\ stop = "client" /\ stop' = "done" /\ turn' = "none"
        /\ call' = [c \in Core!Calls |-> "none"]
  /\ UNCHANGED <<boot, link, screen, busy, cut, prompter, once, auto, results, unused>>

\* What a Copilot session has in common with a Claude session.
Interrupt == Core!Interrupt /\ UNCHANGED results
SetAutoApprove == Core!SetAutoApprove /\ UNCHANGED results
Park == Core!Park /\ UNCHANGED results
Reattach == Core!Reattach /\ UNCHANGED results
ResendPendingUserInputs == Core!ResendPendingUserInputs /\ UNCHANGED results
OnPermissionRequest(c) == Core!CanUseTool(c) /\ UNCHANGED results
Request(c) == Core!Request(c) /\ UNCHANGED results
Resolve(c) == Core!Resolve(c) /\ UNCHANGED results
RequestUserInput(c) == Core!RequestUserInput(c) /\ UNCHANGED results
ResolveUserInput(c) == Core!ResolveUserInput(c) /\ UNCHANGED results

Next ==
  \/ Start \/ SdkInit \/ SendPrompt \/ Send \/ Idle \/ Result \/ Stop
  \/ Interrupt \/ SetAutoApprove \/ Park \/ Reattach \/ ResendPendingUserInputs
  \/ \E c \in Core!Calls : \/ OnPermissionRequest(c) \/ Request(c) \/ Resolve(c)
                           \/ RequestUserInput(c) \/ ResolveUserInput(c)

Spec == Init /\ [][Next]_vars
-----------------------------------------------------------------------------
\* The agent works on no prompt the session is not busy with, and an approval
\* given for one prompt ends with it, although the end of a turn comes in a
\* task of its own.
TurnsScoped ==
  stop = "no" => /\ turn # "none" => busy /\ prompter # "query"
                 /\ once => busy
=============================================================================
