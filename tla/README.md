# Anywhere Agents in TLA+

Anywhere Agents lets a browser drive coding agents (Claude, Copilot, Codex,
a Windows/Excel agent) that run on other machines. A browser holds one
WebSocket to the **hub**; the hub holds one WebSocket per browser and worker to
each **worker**; a worker runs agent **sessions**, each an SDK subprocess with
a transcript on disk. This directory models the parts of the program where
tasks interleave: who owns a session, how an agent's turns, permissions and
questions go, what a connection to a worker serves besides, the hub's links,
retries, requests and routing, and what the browser sends again after a break.

Everything in the Python processes runs on one asyncio event loop, so there are
no data races; what goes wrong goes wrong between two `await`s.

## Inventory

| Part (source) | State | Operations | What is hard | What makes it correct |
|---|---|---|---|---|
| Lock manager (`shared/worker_shared/locks/manager.py`) | session id -> owner, a mutex | `try_acquire`, `release`, `release_all_by_connection` | awaits the old owner's callback inside the mutex; FIFO queue of the mutex | one owner, lost only properly, nobody waits for ever |
| Session manager (`sdk/manager.py`), one per connection | the displayed session | `new_session`, `resume_session`, `stop`, parking, revoke callback | takeovers, reconnects and switches interleave at every await; a session's id changes after its lock was taken | one process per session id, the viewer owns the lock and gets the stream |
| Session registry (`sdk/registry.py`) | parked sessions and their expiry tasks | `park`, `take`, `_expire`, `stop_all` | timers of earlier stays, overwritten entries | expired after the whole time to live, never leaked |
| Worker message loop (`worker-*/src/ws/handler.py`) | the sockets of the worker | one dispatch at a time, `finally` block | the teardown runs after every request, also a failed one | nothing of a closed connection stays |
| Agent sessions (`worker-*/src/sdk/session.py`, `permissions.py`) | busy flag, stream task, pending permissions and questions, task tails | prompt, interrupt, answers, park, reattach, maintenance turn, stop | a stream that breaks, events after the end of a turn, awaits between busy and query, a park during a permission | one turn at a time, approvals end with their prompt, a question finds its viewer, turns end |
| Credential bootstrap (`sdk/bootstrap.py`) | pending futures | request, resolve, cancel | answer races timeout | credentials are used or refused, never lost |
| Hub connection handler (`hub/src/ws/handler.py`) | links, retry tasks, active worker, project ids | connect, route, retry, tear down | reader callbacks, retries and teardown interleave | a worker that is down is retried, nothing survives the browser |
| Worker connection (`hub/src/workers/connection.py`) | pending futures, per-type locks | `request`, `_read_loop`, `close` | late and unasked answers, dead links, callers that are cancelled | an answer goes to its own request |
| Reverse-mode pairing (`hub/src/workers/inbound.py`, `main.py`; `worker-*/src/ws/dialer.py`) | control sockets, waiters | `register_control`, `open_session`, `register_data` | replaced controls, late dials | a data socket is adopted or turned away |
| Project index and routing (`hub/src/workers/project_index.py`, `ws/handler.py`) | ids per browser connection, the active worker | `update_from_worker`, `resolve`, route | ids and the active worker change while messages are under way | what was shown reaches the worker it was shown for |
| Terminal (`shared/worker_shared/terminal`, `worker-windows/src/terminal`) | a PTY and its end | open, close, exit | three ways to end at once, and a close that the hub sends to the active worker | no shell without a panel but for a close that went astray |
| File browser, uploads (`files/browser.py`, `hub/src/main.py`, `frontend/src/stores/uploads.ts`, `hooks/useUploadPump.ts`) | files; a queue with one file in flight | pump, conflict dialogue, retry, cancel | answers that come late, a batch that grows | each file counted once |
| Project knowledge (`shared/worker_shared/knowledge`) | documents and their chunks | save, update, delete, search | embedding awaits between two transactions | a search finds what documents say |
| Excel bridge (`worker-windows/src/modules/excel`) | add-in sockets and their calls | `register`, `execute`, `unregister` | an add-in that reconnects | a call waits only for an add-in that is there |
| Dialer (`worker-*/src/ws/dialer.py`) | control loop, data tasks | start, back off, open, stop | a data session opened during the stop | nothing is left running |
| Frontend chat (`frontend/src/App.tsx`, `stores/`, `hooks/useWebSocket.ts`) | the session on the screen, the last and the queued prompt, the socket | submit, interrupt, pick, reconnect, resend | three places send a prompt again | a prompt goes once, to its session |
| Project scan, preferences, push, access control, file viewer | rows, subscriptions, screens | lookups | little | |

`PROJECT.json` lists the hazards one by one, with the line where each bites and
the property that would catch it.

## Modules

| Module | Models | Composes with |
|---|---|---|
| `SessionLocks` | what the lock manager promises: owners, claims, no mutex and no tasks | refined by `SessionManager` |
| `SessionManager` | lock manager, registry and one session manager per connection, with the message loop that drives them | |
| `MCSessionManager` | TLC instances: two sockets of one device (`c1`, `c2`) and another device (`c3`); symmetry, and a view that forgets garbage | |
| `SessionManagerProofs` | theorems about `SessionManager`: the lock discipline and the refinement | |
| `SessionStreamProofs` | theorems about `SessionManager`: who holds a Session object | extends `SessionManagerProofs` |
| `SessionOrderProofs` | theorems about `SessionManager` with orderly clients and Sessions that keep their ids: one process per id, nothing leaked | extends `SessionStreamProofs` |
| `SessionRegistry` | the registry again, with time, expiry tasks and shutdown | `SessionManager` has it without time |
| `HubLinks` | one browser's links, readers, retry tasks and teardown in the hub | a link's inside is `WorkerConnection` |
| `WorkerConnection` | requests and answers over one link | |
| `InboundPairing` | control and data sockets of a reverse-mode worker | makes the sockets `HubLinks` connects |
| `WorkerConnectionProofs` | theorems about it | |
| `MCParts` | `SessionRegistry`, `HubLinks`, `InboundPairing` side by side | |
| `PartsProofs` | theorems about the three | |
| `ClaudeSession` | a Claude session with its broker, maintenance turns and task tails, seen from its viewer's screen | |
| `WindowsSession`, `CopilotSession` | the sessions of these workers | instances of `ClaudeSession`, with what is different |
| `CodexSession` | a Codex session and the consumers of its streams | |
| `MCAgents` | the four sessions side by side | |
| `AgentProofs` | theorems about the Claude, the Windows and the Copilot session | |
| `WorkerHandler` | a browser's connection to a Claude worker: loop, bootstrap, terminal, the way there through socket and hub, and the browser's banner and panel | |
| `WindowsHandler`, `CopilotHandler`, `CodexHandler` | the same of the other workers | instances of `WorkerHandler`, with what is different (no bootstrap for Codex, a device flow for Copilot) |
| `Uploads`, `KnowledgeBase`, `ExcelBridge`, `HubDialer` | a part each | |
| `MCHandlers` | the four connections, the link of `WorkerConnection` and the four parts side by side | extends `WorkerConnection`, instances of the rest |
| `HandlerProofs` | theorems about the connections and the four parts | |
| `HubRouting` | the hub's ids and routing between a browser and its workers | extended by `ChatClient` |
| `ChatClient`, `MCChat` | the browser's socket, prompts and sessions, composed with the routing | |
| `ChatProofs` | theorems about the composition | |

`MCParts`, `MCAgents` and `MCHandlers` are sums: a variable `part` that no step
changes says which specification a behavior is one of, and the variables
of the others keep still. A property of a part then is `part = ... => P`, or `P`
itself where it holds of the initial state of a part that does not run. A
variable two parts have in common (`closing` of the registry and of the
links) belongs to the one that runs. Fairness is stated again for each part.

### SessionManager

A *task* per connection runs the handler; `pc` says where it stands. `running`
names a task in the middle of code that awaits nothing: no other task steps
meanwhile, so that for example `registry.take` and an uncontended
`try_acquire` are one uninterrupted stretch, as on the event loop. An action
ends at the next point where the code *can* suspend; `MaySuspend` leaves open
whether it does (an `await` of something ready does not).

| Action | Code |
|---|---|
| `NewSession`, `ResumeSession` | `new_session`, `resume_session` up to `try_acquire`; `registry.take` comes first |
| `Queue`, `Enter` | `async with self._mu`: asyncio.Lock hands the mutex over first come first served |
| `Acquire`, `Refuse`, `Notify`, `RevokeStop`, `RevokeNothing`, `RevokeDone` | `try_acquire` and the revoke callback it awaits |
| `Park`, `Release` | `_park_current` |
| `StartNew`, `StartResumed`, `Started`, `StartFails` | `session.start()` |
| `Reattach`, `Reattached` | the fast path |
| `Disconnect`, `ReleaseAll` | the `finally` block: `stop`, then `ConnectionManager.disconnect` |
| `Expire`, `Expired` | `_expire` |
| `StartAdopts`, `ResultAdopts` | a Session takes over the id the SDK chose: in `start()` (Codex, Copilot), with its first result (Windows) |

A Session is an object with an id, a life (`st`) and the connection its output
goes to (`send`). An object nobody refers to is garbage and stands for a new
one; a closed connection likewise.

`sidOf` is what `session.session_id` says now. `own` has the Sessions that
still carry the id they made up, and `Adopts` says when these take another: never
in the Claude worker (`Adopts = {}`), `"starting"` in the Codex and the Copilot
worker, `"live"` in the Windows worker. The lock, the registry entry and the
revoke callback keep the id they were made with. The properties of `SM` hold
with `Adopts` as large as it can be; those of `SM_orderly` only without it.

### HubLinks, WorkerConnection, InboundPairing, SessionRegistry

`HubLinks` has one action per branch of the handler's initial pass, of the
reader's end, of `_retry` and of the teardown. The fetch of all projects after
a reconnect is one stage of the retry task, during which anything can happen.
`WorkerConnection` models `request()` up to its send, its three ways to end,
the read loop's three ways to dispose of a message, the teardown of the handler
that owns the link (`HandlerEnds`) and `close()`. The teardown cancels retry
tasks, and with them the requests they wait in; a request that is cancelled leaves
its future in the table, since `request()` removes it on a timeout only.
`Background` are the types asked for by tasks the teardown does not cancel
(`_refresh_models`), which go on to wait on a closed link. Whether the
worker echoes `_req_id` is chosen at the start: `worker-claude` does, the
other three do not. `InboundPairing` models the endpoints and the registry
for one worker; a timeout or a cancellation may come after the future was set
and before the caller runs. `SessionRegistry` counts time in ticks; a task
cancelled before it resumes from its sleep returns at once.

### ClaudeSession and the other sessions

`turn` is what the agent works on and `busy` what the session believes;
`prompter`, `timer` and `reader` say where the message loop, the idle timer and
the stream's reader stand: waiting for `_lock` or holding it across `query()`,
in the push notification, in a send. A tool call goes through `CanUseTool`, `Request` (the future exists, the
message is sent) and `Resolve`; a question likewise. `screen` is what the
viewer was told: whether a turn streams and which questions are open. `link` is
`attached` or `parked`: `Park` cancels permissions and keeps questions,
`Reattach` sends the questions again. `Stop` goes through the stages of
`stop()`, one per await. A maintenance turn (`IdleConsolidateAfter`,
`RunConsolidation`) is a turn whose output is hidden.

A Windows session has no knowledge base to maintain, and adopts the CLI's id
with its first result; `known` is the id its viewer knows. A Copilot
session is driven by events, one task each, so that its idleness (`Idle`) and
its `Result` are two steps with anything in between. A Codex session starts one
consumer per turn; `interrupt` cancels it and declares the turn over without
waiting for it.

### WorkerHandler and the other connections

The loop handles one message at a time: `at` is where it stands, `inbox` what
the browser has sent. Handlers that await and change nothing modelled are one
action (`Query`, and its end). The bootstrap runs in a task of the session and
waits on `future`, which the loop settles; `banner` is the prompt the
browser shows, which the status of the bootstrap removes and a second prompt
overwrites. `term`, `exits` and `panel` are the shell, its exit under way, and the
browser's panel. `reach` is the way from the browser: `"none"` while its socket or the
hub's link is down (`useWebSocket.ts` then drops what is sent), `"own"` when what
names a project of this worker arrives, `"all"` when it is also the hub's active
worker, to which `terminal_close` goes. `StartsHere` and `StartsElsewhere` are
the session the browser starts or picks here or on another worker, which
moves the active one, as `session_started` does (`Announces`); `Unmounts` is the panel's cleanup, whose close may go
elsewhere or nowhere (`stray`); `ClosesAnother` is another worker's panel,
whose close comes here. The auto-approve flag is one of the queries: what it
does to sessions is described under "Seen in the models".

### Uploads, KnowledgeBase, ExcelBridge, HubDialer

`Uploads` has the store (queue, file in flight, conflict, batch, summary), the
pump's request on the wire and the worker's file: an answer may be lost
after the file was written. `KnowledgeBase` splits a tool call where the service
awaits the embedding; rows are written in one transaction each, an update of
a deleted document included. `ExcelBridge` keeps calls with the socket they were
sent to; `Settled` calls have their outcome and still wait to be run.
`HubDialer` has the control loop, its backoff, the data tasks and the stages of
`stop()`.

### HubRouting and ChatClient

The hub gives each worker an offset when it is first listed, per browser
connection, so that a new connection may number them otherwise. `wire` is what
is under way to the browser, `reqs` to the hub, `inbox` to a worker. Requests
for a project go by its id, everything else to `active`, which a
`session_started` moves. `ChatClient` has the session on the screen, the last
prompt, whether its send was dropped, the prompt queued behind an interrupt, and
the three places that send a prompt again: after `no_session`, on a
`session_started` of an idle session, and after a result or five seconds.
`typed` remembers the session a prompt was typed in and `given` where it
was taken; neither is in the program.

## Runs

| Run | Shows | Bounds |
|---|---|---|
| `SM` | what holds whatever clients do and whenever ids change: `RevokeDropsStopped`, `LockOwnerOpen`, `ViewerGetsStream`, `LockLostProperly`; the lock table implements `SessionLocks!FairSpec`; every request ends | 2 connections of 2 devices, 2 ids, 2 objects, no old transcripts |
| `SM_orderly` | with orderly clients and Sessions that keep their ids: `OneSessionPerId`, `ViewerOwnsLock`, `NoOrphan` | 3 connections of 2 devices, 2 ids, 3 objects |
| `LNK` (`MCParts`) | registry: timers match entries, nothing stopped early or parked for ever. Links: routing and readers agree, live retries are known, a retried worker comes back, only a loss during a fetch goes unretried, the teardown ends everything. Pairing: no waiter without a caller, late dials are turned away, every `open_session` ends | 3 objects (two share an id), 3 tasks, time to live 2; 2 workers, 3 links, 1 leaked socket; 2 control sockets, 2 calls |
| `AG` (`MCAgents`) | one turn at a time in Claude, Windows and Copilot sessions; maintenance is hidden and nothing else; one-shot approvals end with their prompt; open questions are on the viewer's screen; Claude turns end; a Codex session becomes idle | 1 permission, 1 question, 1 task, with maintenance; 3 consumers; 2 results under way |
| `WH` (`MCHandlers`) | no shell without a panel, unless its close went astray; the link's table holds what waits, and beside it only what a teardown cancelled and has still to close; no crossed answers, exactness after the first echo, every request ends; credentials are read; an upload's summary is exact; a search finds what documents say; no Excel call waits for an add-in that is gone; nothing outlives the dialer | 2 request ids, 1 message and the close of a panel in the inbox (2 in the Codex connection); 3 requests of 2 types, the last of them possibly in the background, 1 push; 3 files; 2 tool calls, 2 texts, 2 documents; 2 calls, 3 add-ins; 2 data sessions, backoff of 3 |
| `FE` (`MCChat`) | ids shown within a connection resolve to their worker; for a patient user, a prompt is taken once | 2 workers with a session each, 2 prompts, 1 message per queue |

The bounds are those at which the interesting cases happen: a takeover needs an
owner and a claimant of another device, with force; a third connection, of
the same device as one of them, adds the silent takeover and a longer queue
behind the mutex; two ids allow switching. With two objects the `Room` guard
holds back a request while both are in use, which only leaves out behaviours,
and `SM_orderly` runs with three. In `SM` all ids are made
or adopted in the run, and the second object is what resumes one. All safety properties of `SM` are
proved for every number of connections. A late answer needs two requests of
one type and a third that is served wrongly because of it; a leaked link needs
one link more than there are workers. A Claude session has one `_lock`, one
reader and one prompter whatever the number of calls, and one call of each kind
shows a permission beside a question; three consumers of a Codex session let a
cancelled one end after two later turns began. Three files give one in
conflict, one queued and one added. A second worker is enough for the ids to be
swapped, and a second prompt is what can find the marks of the first. `FE` does
not tell apart in which sessions a prompt was typed and taken (`View`): no action
reads it, and its properties do not either. Every bound is a constant or a named guard (`Room`, `MayLeak`,
`MaxPushes`, `MaxResults`, `MaxIds`, `MaxInbox`, `MaxDocs`, `MaxWait`,
`MaxQueue`).

`CHECK_DEADLOCK FALSE` is set where the system really stops: calls and
sockets of `WorkerConnection` and `InboundPairing` are used once, a handler of
`HubLinks`, a session and a dialer end for good, prompts of `ChatClient` are
typed once, and `Orderly` holds the environment back until a holder is at rest.

### What the runs found

Each of these runs stops at a behaviour that contradicts the repository's own
text, quoted in `PROJECT.json`.

| Run | Behaviour |
|---|---|
| `SM_two_clients` | a takeover that meets the holder inside `start()` or a reattach stops nothing; two processes run for one id |
| `SM_ids` | a session that changed its id left its lock under the old one; another client resumes the new id, finds no lock, and a second process runs, though nobody took anything over |
| `CS_perm` | a permission asked for after the session was parked is neither cancelled nor asked again: the turn waits until the session expires or is stopped |
| `WIN_id` | the first result of a new Windows session carries an id its client does not know, and is dropped: the client keeps streaming |
| `FE_prompt` | a prompt whose send was dropped goes to the session picked since |
| `HUB_ids` | the project id a browser resumes with after a reconnect may be another worker's |

`SM_orderly` says under which conduct of the environment its properties do
hold: no client resumes what it displays, and takeovers find the holder at
rest. They hold of the Claude worker; `SM_ids` has the same clients and a worker
whose Sessions change their ids. `Patient`, in `FE`, has the user type a prompt only when no copy of an
earlier one is under way, dropped or queued; that one may have been dropped,
refused, queued and sent again from each of the three places. These are
restrictions of the runs, not of the actions.

Seen in the models, and no run spent on it:

* Resuming the session one displays parks it, gives its lock away and starts a
  second one (`Park`); from then on a second session parked under an id
  replaces the first.
* A client that reconnects before its old socket is torn down takes its
  session over, which stops it, instead of reclaiming it (`Acquire`).
* Behind a dialer all connections have one label, so that a refusal becomes a
  silent takeover (`MayTakeOver`; `dialer.py:297-301` calls it a placeholder).
* A link lost while its retry task still fetches is not retried;
  `AbandonedOnlyAfterFetch` says that nothing else is abandoned.
* A reader that fails leaves its socket open (`ReaderFails`).
* A late answer resolves the next request of its type if the worker echoes no
  ids, and before the first echo an unasked message can (`ReadMessage`).
* A data socket that arrives as its caller gives up is held for ever
  (`Arrive`, `TimesOut`).
* `query()` that raises leaves the session busy (`Query`); so does a stream that
  ends without a result (`ReaderEnds`).
* A Windows session takes its id over with its first result
  (`worker-windows/src/sdk/session.py:822`), a Codex and a Copilot session in
  `start()` (`worker-codex/src/sdk/session.py:152`,
  `worker-copilot/src/sdk/session.py:255`). Lock, registry entry and revoke
  callback stay with the old id: who displays the session owns no lock of it, a
  switch releases a lock that is not there (`Park`, `Release`), a takeover of
  the new id stops nothing (`RevokeNothing`), and two sessions parked under the new
  id replace one another. None of the three properties of `SM_orderly` holds
  there.
* The auto-approve flag is stored for the project the message names and applied to
  the session the connection displays (`worker-claude/src/ws/handler.py:449-456`,
  `manager.py:287-289`): another client's session of the project keeps the old
  flag, and after a `session_locked` refusal the toggle of the project that was picked
  (`App.tsx:983-990`) reaches the session still displayed. The Copilot and the
  Codex worker store the flag and leave the live session alone, where
  `README.md:426` has it toggled mid-session. There is no property about the flag.
* The close of a terminal goes to the active worker, which a pick of a session on
  another worker moves before the panel is gone, or nowhere when the socket is
  down: the shell runs on without a panel until its connection ends or a terminal is
  opened there (`Unmounts`; `OnlyStraysLackPanel` says that nothing else leaves one).
* A request cancelled by the teardown leaves its future in the table until the
  link is closed a moment later (`IsCancelled`; `OnlyCancelledLinger`). A link
  whose reader ended is no longer among those the teardown closes.
* A second credential prompt overwrites the banner of the first, whose
  bootstrap then waits for its timeout (`Prompt`).
* Credentials for a Copilot worker reset the client that all its sessions
  share (`ResetClient`).
* The flag of a dropped prompt is left set when a queued one becomes the last
  (`App.tsx:240`). If the dropped prompt's session is still being resumed five
  seconds after the user stopped it and queued another, the timer sends the queued
  prompt and the `session_started` of that resume sends it again
  (`SendPendingPrompt`, `OnStarted`; a worker, a session and two prompts under
  `Spec` are enough for TLC to find `TakenOnce` violated).
* A late `session_started` moves the active worker back (`WorkerStarts`).
* An upload that is answered with an error may be written all the same, and a
  second attempt then finds the name taken (`Answers`, `UploadFile`).
* An update of a document that was deleted meanwhile leaves chunks nobody
  owns (`ReplaceChunks`); two tools that save the same text at once store it
  twice (`Save`). The ids of documents are never used again
  (`AUTOINCREMENT`), which is what keeps `FoundIsSaid`.

## Fairness

* `SessionManager`: strong fairness of each task's own steps. The event loop's
  ready queue is first in, first out, so a task that is ready again and again
  is run; weak fairness would not do, since the task is disabled
  whenever another one is `running`. SDK starts and stops and socket writes
  are assumed to return. Nothing makes a client ask or a timer fire.
* `HubLinks`: weak fairness of the handler, of readers and of retry tasks, and
  strong fairness of `RetryConnects`: a worker that keeps being dialled
  answers at last.
* `WorkerConnection`, `InboundPairing`: callers run when they can, whichever
  (`WF_vars(Callers)`: each has a few steps to make), and `asyncio.wait_for`
  always gives up.
* `SessionRegistry`: time passes and a task whose sleep is over is run.
* `ClaudeSession`: tasks that are ready are run, `query()` and the push return
  (the push has a timeout), and an agent that is not kept from it by a tool
  call ends its turn: strong fairness of `ReadResult`, which calls disable again
  and again. No user answers, no broken stream is repaired: `TurnsEnd`
  excepts both.
* `CodexSession`: a stream ends, after a cancellation too, and tasks are run.
* `WorkerHandler`: the loop handles what it has read and an SDK start
  returns. The user and the ten minutes of a bootstrap owe nothing.
* `MCParts`, `MCAgents` and `MCHandlers` state these for the part that runs.

## Proofs

Every invariant that a run expects to hold is a theorem, and so is every action
property, for all values of the constants. Each is derived from an inductive
invariant (`Init => Inv`, `Inv /\ [Next]_vars => Inv'`), proved with one step per
action; hardly any of the properties says enough to be preserved by itself. What is assumed of the constants are the
`ASSUME`s of the modules: that the markers for "none" are none of the values,
that labels, hosts and ids are functions of the right type, that bounds are
natural numbers and the time to live is positive, that a hub has finitely many
workers. No set of connections, sessions, requests, prompts or files is assumed
finite otherwise, and the bounds of the runs are parameters of the proofs. (An
empty cell in the last column stands for the module above it.)

| Theorem | Statement | Module |
|---|---|---|
| `LockInvariant`, `StreamInvariant` | `Spec => []LockInv`, `Spec => []StreamInv` | `SessionManagerProofs`, `SessionStreamProofs` |
| `TypeCorrect`, `OwnersAreOpen`, `RevokeIsExact` | `Spec => []TypeOK`, `[]LockOwnerOpen`, `[]RevokeDropsStopped` | `SessionManagerProofs` |
| `LocksAreKept` | `Spec => LockLostProperly` | |
| `LocksImplemented` | `Spec => Locks!Spec`: the lock table implements `SessionLocks` | |
| `ViewersAreServed` | `Spec => []ViewerGetsStream` | `SessionStreamProofs` |
| `OrderInvariant` | `Adopts = {} => (OrderlySpec => []OrderInv)` | `SessionOrderProofs` |
| `OneProcessPerId`, `ViewersOwnLocks`, `NoneLeaked` | the same for `[]OneSessionPerId`, `[]ViewerOwnsLock`, `[]NoOrphan` | |
| `ConnInvariant` | `Spec => []ConnInv` | `WorkerConnectionProofs` |
| `PendingIsExact`, `AnswersNotCrossed` | `Spec => []OnlyCancelledLinger`, `[]NoCrossTalk` | |
| `EchoedIsExact` | `Spec => ExactOnceEchoed` | |
| `PartsInvariant` | `MCSpec => []PartsInv` | `PartsProofs` |
| `TimersNeverStale`, `ExpiryNeverEarly` | `MCSpec => []TimersMatch`, `NeverEarly` | |
| `RoutesAreRead`, `NoRetryOutlives`, `AbandonedByFetchOnly` | `MCSpec => []RoutesMatchReaders`, `[]RetriesAreKnown`, `AbandonedOnlyAfterFetch` | |
| `WaitersAreAwaited`, `StaleSocketRejected` | `MCSpec => []NoOrphanWaiter`, `StaleRejected` | |
| `AgentInvariant` | `MCSpec => []AgentInv` | `AgentProofs` |
| `OneTurnAtATime`, `MaintenanceIsHidden`, `ApprovalEndsWithPrompt`, `QuestionsSurviveParking` | `MCSpec => []AgentsOneTurn`, `[]ClaudeHidden`, `[]ClaudeOneShot`, `[]AgentsQuestions` | |
| `HandlersInvariant` | `MCSpec => []HandlersInv` | `HandlerProofs` |
| `ShellsHavePanels` | `MCSpec => []OnlyStraysLackPanel` | |
| `SummaryExact`, `SearchIsTrue`, `CallsWaitForListed`, `DialerLeavesNothing` | `MCSpec => SummaryIsExact`, `[]FoundIsSaid`, `[]WaitsForListed`, `[]NothingLeft` | |
| `ChatInvariant`, `IdsReachTheirWorker` | `Spec => []ChatInv`, `[]ShownResolves` | `ChatProofs` |
| `CopyInvariant`, `PromptTakenOnce` | `PatientSpec => [](ChatInv /\ CopyInv)`, `[]TakenOnce` | |

### SessionManager

`LockInv` adds what the properties of the lock rest on: the mutex is
held exactly by the task that stands in `notify` or `revoke`, so there is one
takeover at a time and `Owner` cannot change under it; a task that
stands elsewhere than at rest has a request in hand; and what a takeover is
stopping is what its victim displays or nothing. It is preserved by every
action (`NextLockInv`, one step per action). `LockLossStep` and `LocksStep`
then look at one step from a state of the invariant; the refinement maps
`Acquire`, `Notify`, the two ends of a takeover, `Release` and `ReleaseAll` to
the steps of `SessionLocks` and everything else to a stutter.

`StreamInv` is about the holders of a Session object: at any time the
registry, one request or one screen. The one exception is a park under way,
between `registry.park` and the lock's release, when the object is in the
registry, or already taken from it, and still in `_current` of the connection
that lets it go; that connection sets no `send` any more. It needs `LockInv`
for one thing: no takeover and no refusal meets a session that was never
started, whose id no other client can know, so a park never mutes one.

`OrderInv` is needed because a park puts a session in the registry before it
gives up its lock: a resume may take the session in between, and finds another
connection at the lock. `OneSessionPerId` then depends on the order of the
mutex's queue. `ParkLockInv` and `TakeLockInv` say so: whoever owns the
lock of a parked or a taken session stands before the request in that queue
and gives the lock up (`GivesUp`, `Ahead`); and a request for the same id that
stands further ahead, which found the registry empty, stands before that
owner too, so that it is refused or takes over, and starts nothing beside the
session. `QueueInv` says that the queue holds each task that wants the mutex
once, `LifeInv` what may be alive where. `OrderlySpec` is what the run
`SM_two_clients` shows to be necessary, and `Adopts = {}` what `SM_ids` does: the
proof uses that an id a Session carries is the one its lock was taken under.

### WorkerConnection

`LineInv` says that only the first request of a type's line waits (its
per-type lock), `FutureInv` what an open, a settled and a cancelled future mean,
and that a cancelled one in the table means a teardown that has still to close
the link, and `AskedInv` and
`AnswerInv` follow a request through its life: it is on its way to the worker
or its answer on its way back, never both, never twice, and not after it was
served. From this an answer can settle another request only when its own is no
longer waiting, that is after a timeout, and when the worker sends no ids.

### SessionRegistry, HubLinks, InboundPairing

`StayInv` relates a session's time in the registry to what its timer has
still to sleep (`age + left = TTL`), so that no timer of an earlier stay is
asleep (`TimersNeverStale` is about the timers that sleep; that a parked session
has one is `ParkedEnds`, checked by TLC); `OwnInv` says that a Session is held, parked or being stopped, in one
place only. `LinkInv` says that a worker that is dialled has no link a new one
would replace, `RetryInv` orders the initial pass, the retries and the
teardown, and `TeardownInv` that the teardown still has on its list whatever is
routed to. `closing` belongs to whichever of registry and links runs, so
that `OwnInv` and `TeardownInv` are conditional on `part`. `NoOrphanWaiter` excepts
the waiter of a caller that was cancelled: `open_session` removes it on a timeout
and on a failed send only.

### The sessions

`_busy` is set by the message loop and by the idle timer, and cleared by the
stream's reader, by the interrupt and by a query that fails: `TurnInv` says
what each of them may find: nobody but one holds `_lock` across `query()`,
and from a result to the end of its turn nothing else begins. `HiddenInv`
adds that a hidden turn admits neither prompt nor approval. The Windows
session is the Claude session without maintenance (`NoMaintenance`), but for
the id it adopts; a Copilot session has an invariant of its own, in which the
idle event and the result come in either order (`CopilotInv`).

### The connections and the parts beside them

The handlers of the four workers differ in everything but the inbox, the
terminal and the panel: `Moves` lists what a step can do to those,
`ClaudeMoves`, `WindowsMoves`, `CodexMoves` and `CopilotMoves` show that
each handler's steps are among these, and `MovesKeep` that these keep
`PanelInv`: the last toggle in the inbox is the last thing the panel did, unless
its close went astray.
`BatchInv` relates the counters of an upload batch to the cardinality of the
items with that outcome (`CountsOne`, `CountsKeep`), which needs `PlaceInv`: an
item is in one of queue, flight and dialogue, and not counted yet. `DocsInv` has
every document own its chunks, and an id that was not handed out have none.

### The chat

`IndexInv` says that the offsets handed out are distinct and smaller than
their number, so that the next one is new, which is where finitely many workers are
needed; `ShownInv` that project lists on the way to the browser still agree with
the hub. `CopyInv` is about one prompt at a time: at most one copy of it exists,
asked of the hub, routed to a worker, refused, dropped or queued, and only
as long as nobody has taken it, so that no place that sends again finds
anything to send. It holds for a patient user only, because of the flag described
above.

### Only model-checked

* Liveness, which rests on fairness and `ENABLED` and is out of the prover's
  reach: `RequestsComplete`, the fair part of `ImplementsLocks`, `ParkedEnds`,
  `Reconnects`, `TeardownCompletes`, `OpensSettle`, `RequestsSettle`,
  `ClaudeTurnsEnd`, `CodexBecomesIdle`, `CredentialsAreRead`.
* What a fold or a recursive function computes for every input: the library's
  induction theorems take operators as parameters.


## Not modelled

`PROJECT.json` gives the reason for each part. What is only I/O is left out:
project scan, push messages, access control, preferences, the file viewer and
the reads and writes of the file browser, which keep no state between two calls
(a `file_written` does set the viewer's content to what its editor holds
by then). Of the parts that are modelled these are abstracted:

* `SessionManager`: the database reads before `registry.take` (they only delay
  the request), the refusal of a project directory that is missing (nothing
  changes), and a Claude session without credentials, whose `start()` returns at
  once and whose process starts later: it counts as live. `set_model` and
  `set_effort` read the current session again after an await; a revoke clears
  session and project together, so that the preference is at worst not stored.
* `ClaudeSession`: what messages say, models and efforts, and the stream of a
  session that is parked while its client views another one.
* `HubRouting`: the cache of models, the fan-out of listings and push messages.
* `ChatClient`: the content of the chat, the lock dialogue, a hidden tab's
  refusal to resume except as a choice.
* `WorkerHandler`: files, knowledge settings and preferences, which are queries;
  input and output of the terminal.
* `ExcelBridge`: an add-in comes under a fresh id, as with the shipped
  `taskpane.js`, which sends none; the endpoint would take an id of the caller's
  choice (`?id=`).
* `HubDialer` has the backoff (`wait`) and no property of it; `Uploads` leaves out
  the counter of renamed files, which are among the uploaded ones.

## Plan

The components are modelled, and every safety property of the runs is a theorem.
What could be added:

1. that `WorkerConnection` implements an abstract call (a request is answered,
   times out or is cancelled, once), and `SessionRegistry` a table whose entries
   end after their time, each shown by a refinement as for `SessionLocks`;
2. properties for the hazards that have none yet: the late `session_started`
   that moves the active worker, and a worker that writes a file after its upload
   was answered with an error;
3. what a Codex session's late consumers may and may not end.
