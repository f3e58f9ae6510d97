---------------------------- MODULE CodexSession ----------------------------
(***************************************************************************)
(* One session of the Codex worker (worker-codex/src/sdk/session.py).      *)
(* Unlike a Claude session it opens a stream for every prompt and consumes *)
(* it in a task of its own; a turn is finished by its last event or by the *)
(* end of its consumer, whichever comes first, and the session is idle     *)
(* before the result is pushed and sent.                                   *)
(***************************************************************************)
EXTENDS Naturals, FiniteSets

CONSTANTS
  Consumers,   \* bounds how many streams are consumed at a time
  None

VARIABLES
  boot,        \* start()
  link,        \* whether a connection views the session or the registry has it
  busy,        \* _busy
  once,        \* _auto_approve_once
  prompter,    \* what the message loop awaits: a stream, or a cancelled consumer
  cons,        \* the consumers
  current,     \* _consumer_task
  stop         \* how far stop() has got

vars == <<boot, link, busy, once, prompter, cons, current, stop>>

TypeOK ==
  /\ boot \in {"new", "up", "failed"} /\ link \in {"attached", "parked"}
  /\ {busy, once} \subseteq BOOLEAN
  /\ prompter \in {"idle", "starting", "interrupt"}
  /\ cons \in [Consumers -> {"free", "reading", "reporting", "drained", "closing"}]
  /\ current \in Consumers \cup {None}
  /\ stop \in {"no", "waiting", "done"}

Init ==
  /\ boot = "new" /\ link = "attached" /\ busy = FALSE /\ once = FALSE
  /\ prompter = "idle" /\ cons = [c \in Consumers |-> "free"]
  /\ current = None /\ stop = "no"

\* The thread exists, and the viewer's message loop reads its next message.
Ready == boot = "up" /\ stop # "done" /\ link = "attached" /\ prompter = "idle"
Live(c) == c # None /\ cons[c] # "free"
-----------------------------------------------------------------------------
Start ==
  /\ boot = "new" /\ boot' \in {"up", "failed"}
  /\ UNCHANGED <<link, busy, once, prompter, cons, current, stop>>

\* A busy session refuses; otherwise run_streamed() is awaited.
SendPrompt ==
  /\ Ready /\ ~ busy /\ busy' = TRUE /\ once' \in {once, TRUE}
  /\ prompter' = "starting"
  /\ UNCHANGED <<boot, link, cons, current, stop>>

\* The stream is handed to a consumer, even if stop() ran meanwhile; or it
\* could not be opened and the client is told so.
RunStreamed ==
  /\ prompter = "starting" /\ prompter' = "idle"
  /\ \/ \E c \in Consumers :
          /\ cons[c] = "free" /\ cons' = [cons EXCEPT ![c] = "reading"]
          /\ current' = c /\ UNCHANGED <<busy, once>>
     \/ /\ busy' = FALSE /\ once' = FALSE
        /\ UNCHANGED <<cons, current>>
  /\ UNCHANGED <<boot, link, stop>>

\* Variant: the session stays busy until somebody interrupts it.
FinishStuck(c, reporting, over) ==
  /\ once' = FALSE /\ UNCHANGED busy
  /\ cons' = [cons EXCEPT ![c] = over]

\* _finish_turn: nothing if the session is idle, else a result to report.
FinishTurn(c, reporting, over) ==
  IF busy THEN busy' = FALSE /\ once' = FALSE /\ cons' = [cons EXCEPT ![c] = reporting]
  ELSE cons' = [cons EXCEPT ![c] = over] /\ UNCHANGED <<busy, once>>

\* turn.completed is dispatched.
TurnCompleted(c) ==
  /\ cons[c] = "reading" /\ FinishTurn(c, "reporting", "drained")
  /\ UNCHANGED <<boot, link, prompter, current, stop>>

\* The stream ends or raises: the consumer's finally clause.
StreamEnds(c) ==
  /\ cons[c] \in {"reading", "drained"} /\ FinishTurn(c, "closing", "free")
  /\ UNCHANGED <<boot, link, prompter, current, stop>>

\* The push was made and the result is sent.
Reported(c) ==
  /\ cons[c] \in {"reporting", "closing"}
  /\ cons' = [cons EXCEPT ![c] = IF @ = "reporting" THEN "drained" ELSE "free"]
  /\ UNCHANGED <<boot, link, busy, once, prompter, current, stop>>
-----------------------------------------------------------------------------
\* task.cancel(): a consumer in the middle of a report loses it, and then
\* runs its finally clause unless it is there already.
Cancel(c) ==
  IF cons[c] = "closing"
  THEN cons' = [cons EXCEPT ![c] = "free"] /\ UNCHANGED <<busy, once>>
  ELSE FinishTurn(c, "closing", "free")

Interrupt ==
  /\ Ready
  /\ \/ Live(current) /\ Cancel(current) /\ prompter' = "interrupt"
     \/ ~ Live(current) /\ busy' = FALSE /\ UNCHANGED <<once, prompter, cons>>
  /\ UNCHANGED <<boot, link, current, stop>>

Interrupted ==
  /\ prompter = "interrupt" /\ ~ Live(current)
  /\ prompter' = "idle" /\ current' = None /\ busy' = FALSE
  /\ UNCHANGED <<boot, link, once, cons, stop>>

Rebind ==
  /\ boot = "up" /\ prompter = "idle" /\ stop = "no"
  /\ link' = IF link = "parked" THEN "attached" ELSE "parked"
  /\ UNCHANGED <<boot, busy, once, prompter, cons, current, stop>>

Stop ==
  /\ boot # "new"
  /\ \/ /\ stop = "no" /\ stop' = "waiting"
        /\ IF Live(current) THEN Cancel(current)
           ELSE UNCHANGED <<busy, once, cons>>
     \/ /\ stop = "waiting" /\ ~ Live(current) /\ stop' = "done"
        /\ UNCHANGED <<busy, once, cons>>
  /\ UNCHANGED <<boot, link, prompter, current>>

Next ==
  \/ Start \/ SendPrompt \/ RunStreamed \/ Interrupt \/ Interrupted \/ Rebind \/ Stop
  \/ \E c \in Consumers : TurnCompleted(c) \/ StreamEnds(c) \/ Reported(c)

Spec == Init /\ [][Next]_vars

\* Streams open and end, and the event loop runs what is ready.
Fairness ==
  /\ WF_vars(RunStreamed) /\ WF_vars(Interrupted)
  /\ \A c \in Consumers : WF_vars(StreamEnds(c)) /\ WF_vars(Reported(c))
-----------------------------------------------------------------------------
\* A session that works becomes idle.
BecomesIdle == busy ~> ~ busy
=============================================================================
