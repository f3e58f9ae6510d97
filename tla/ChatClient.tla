----------------------------- MODULE ChatClient -----------------------------
(***************************************************************************)
(* The chat of one browser tab (frontend/src: App.tsx, stores/chat.ts,     *)
(* hooks/useWebSocket.ts) on top of the hub that routes for it.  The tab   *)
(* knows one socket, one active session and one project id, and remembers  *)
(* prompts in three places: the last one sent, in case a worker has lost   *)
(* its session; whether its send was dropped; and one queued behind an     *)
(* interrupt.                                                              *)
(***************************************************************************)
EXTENDS HubRouting

VARIABLES
  ws,         \* the socket; "closing" until onclose fires
  view,       \* activeSessionId
  proj,       \* activeProjectId
  ids,        \* the project list: the hub's id of each worker's project
  streaming,  \* status is "streaming"
  last,       \* lastPromptRef
  dropped,    \* promptWasDropped
  queued,     \* pendingPromptRef
  typed       \* the session each prompt was typed in

refs == <<last, dropped, queued>>
vars == <<hubVars, ws, view, proj, ids, streaming, refs, typed>>

Init ==
  /\ HubInit
  /\ ws = "down" /\ view = None /\ proj = None /\ streaming = FALSE
  /\ ids = [w \in Workers |-> None]
  /\ last = None /\ dropped = FALSE /\ queued = None
  /\ typed = [p \in Prompts |-> None]
-----------------------------------------------------------------------------
\* send(): nothing unless the socket is open; an open socket with nobody at its
\* other end takes the message all the same.
Send(ms) ==
  /\ reqs = <<>> \/ Len(reqs) + Len(ms) <= MaxQueue
  /\ reqs' = IF ws = "open" /\ hub THEN reqs \o ms ELSE reqs

Prompt(p) == [t |-> "prompt", p |-> p]
Resume(id, s) == [t |-> "resume", id |-> id, s |-> s]

\* resumeLastSession; a hidden tab does not claim the session.
LastSession ==
  IF view = None \/ proj = None THEN {<<>>} ELSE {<<>>, <<Resume(proj, view)>>}

\* The socket opens on a fresh handler.  onReconnect forgets the queued prompt.
Connect ==
  /\ ws = "down" /\ ws' = "open" /\ queued' = None
  /\ \E U \in SUBSET Workers \ {{}} : HandlerStarts(U)
  /\ reqs' \in LastSession
  /\ UNCHANGED <<view, proj, ids, streaming, last, dropped, typed>>

\* The connection breaks; the tab learns of it later.
Break ==
  /\ HandlerEnds
  /\ UNCHANGED <<ws, view, proj, ids, streaming, refs, typed>>

OnClose ==
  /\ ~ hub /\ \/ ws = "open" /\ ws' = "closing"
              \/ ws \in {"open", "closing"} /\ ws' = "down"
  /\ UNCHANGED <<hubVars, view, proj, ids, streaming, refs, typed>>
-----------------------------------------------------------------------------
(* The user.                                                               *)

OnPickSession(s) ==
  /\ s # view /\ ids[Host[s]] # None
  /\ view' = s /\ proj' = ids[Host[s]] /\ streaming' = FALSE
  /\ Send(<<Resume(ids[Host[s]], s)>>)
  /\ UNCHANGED <<hub, wire, links, index, active, inbox, work, ws, ids, refs, typed>>

\* The composer is open.
Types(p) ==
  /\ ws # "down" /\ view # None /\ typed[p] = None
  /\ typed' = [typed EXCEPT ![p] = view] /\ streaming' = TRUE
  /\ UNCHANGED <<hub, wire, links, index, active, inbox, work, ws, view, proj, ids>>

OnSubmit(p) ==
  /\ ~ streaming /\ Types(p)
  /\ last' = p /\ dropped' = (ws # "open") /\ UNCHANGED queued
  /\ Send(<<Prompt(p)>>)

\* Stop, with the next prompt queued until the interrupted turn is over.
OnInterrupt(p) ==
  /\ streaming /\ Types(p)
  /\ queued' = p /\ UNCHANGED <<last, dropped, reqs>>

OnStop ==
  /\ streaming /\ ws # "down" /\ streaming' = FALSE /\ queued' = None
  /\ UNCHANGED <<hubVars, ws, view, proj, ids, last, dropped, typed>>

\* Five seconds have passed.
SendPendingPrompt ==
  /\ queued # None /\ queued' = None /\ last' = queued /\ streaming' = TRUE
  /\ Send(<<Prompt(queued)>>)
  /\ UNCHANGED <<hub, wire, links, index, active, inbox, work, ws, view, proj, ids,
                 dropped, typed>>
-----------------------------------------------------------------------------
(* onServerMessage.                                                        *)

\* The worker has lost the session: resume it and send the prompt again, once.
OnNoSession ==
  IF view # None /\ proj # None /\ last # None
  THEN /\ last' = None /\ Send(<<Resume(proj, view), Prompt(last)>>)
       /\ UNCHANGED <<view, proj, ids, streaming, dropped, queued>>
  ELSE streaming' = FALSE /\ UNCHANGED <<reqs, view, proj, ids, refs>>

\* An error ends the turn on the screen; "busy" does not.
OnError(m) ==
  /\ streaming' = (m.t = "busy")
  /\ UNCHANGED <<reqs, view, proj, ids, refs>>

\* A result, of any session, clears what is remembered of the last prompt and
\* lets the queued one go.
OnResult(m) ==
  /\ dropped' = FALSE /\ last' = queued /\ queued' = None
  /\ IF queued # None THEN streaming' = TRUE /\ Send(<<Prompt(queued)>>)
     ELSE streaming' = (streaming /\ m.s # view) /\ UNCHANGED reqs
  /\ UNCHANGED <<view, proj, ids>>

\* Variant: any prompt that is remembered is sent again.
OnStartedEager(m) ==
  /\ view' = m.s
  /\ IF ~ m.busy /\ last # None
     THEN streaming' = TRUE /\ Send(<<Prompt(last)>>) /\ last' = None /\ dropped' = FALSE
     ELSE streaming' = m.busy /\ UNCHANGED <<reqs, last, dropped>>
  /\ UNCHANGED <<proj, ids, queued>>

\* session_started: the backend says what is active and whether it works; a
\* prompt whose send was dropped is delivered to an idle session.
OnStarted(m) ==
  /\ view' = m.s
  /\ IF ~ m.busy /\ dropped /\ last # None
     THEN streaming' = TRUE /\ Send(<<Prompt(last)>>) /\ last' = None /\ dropped' = FALSE
     ELSE streaming' = m.busy /\ UNCHANGED <<reqs, last, dropped>>
  /\ UNCHANGED <<proj, ids, queued>>

OnProjects(m) ==
  /\ ids' = [w \in Workers |-> IF w \in DOMAIN m.of THEN m.of[w] ELSE None]
  /\ UNCHANGED <<reqs, view, proj, streaming, refs>>

OnReconnected(m) ==
  /\ IF proj # None /\ ids[m.w] = proj
     THEN \E ms \in LastSession : Send(ms) ELSE UNCHANGED reqs
  /\ UNCHANGED <<view, proj, ids, streaming, refs>>

OnServerMessage ==
  /\ ws = "open" /\ wire # <<>> /\ wire' = Tail(wire)
  /\ LET m == Head(wire) IN
       \/ m.t = "no_session" /\ OnNoSession
       \/ m.t \in {"busy", "error"} /\ OnError(m)
       \/ m.t = "result" /\ OnResult(m)
       \/ m.t = "started" /\ OnStarted(m)
       \/ m.t = "projects" /\ OnProjects(m)
       \/ m.t = "reconnected" /\ OnReconnected(m)
  /\ UNCHANGED <<hub, links, index, active, inbox, work, ws, typed>>

Next ==
  \/ HubNext /\ UNCHANGED <<ws, view, proj, ids, streaming, refs, typed>>
  \/ Connect \/ Break \/ OnClose \/ OnServerMessage \/ OnStop \/ SendPendingPrompt
  \/ \E s \in Sessions : OnPickSession(s)
  \/ \E p \in Prompts : OnSubmit(p) \/ OnInterrupt(p)

Spec == Init /\ [][Next]_vars
-----------------------------------------------------------------------------
\* A prompt goes to the session it was typed in: "the user message is already
\* in the UI" (App.tsx) when a dropped prompt is delivered.
PromptInItsSession ==
  \A p \in Prompts : \A k \in DOMAIN given[p] : given[p][k] = typed[p]
-----------------------------------------------------------------------------
(* What holds for a user who lets a prompt settle before the next one is   *)
(* typed.  Patient restricts the user, not the program.                    *)

\* No prompt is under way, to the worker or refused by it.
NoCopy ==
  /\ \A k \in DOMAIN reqs : reqs[k].t # "prompt"
  /\ \A w \in Workers : \A k \in DOMAIN inbox[w] : inbox[w][k].t # "prompt"
  /\ \A k \in DOMAIN wire : wire[k].t # "no_session"

Settled == NoCopy /\ ~ dropped /\ queued = None
Patient == Settled \/ UNCHANGED typed

PatientSpec == Init /\ [][Next /\ Patient]_vars

\* A prompt is taken once: it is sent again only if it was refused or dropped
\* ("without resending a prompt the backend already got", App.tsx).
TakenOnce == \A p \in Prompts : Len(given[p]) <= 1
=============================================================================
