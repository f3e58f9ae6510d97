--------------------------- MODULE WorkerHandler ----------------------------
(***************************************************************************)
(* The connection of one browser to a Claude worker: the message loop      *)
(* (worker-claude/src/ws/handler.py) with what it shares with other tasks: *)
(* the bootstrap of credentials (worker_shared/sdk/bootstrap.py), one      *)
(* session of one project (its turns are in ClaudeSession) and the terminal *)
(* (worker_shared/terminal/session.py).  The loop handles one message at a *)
(* time and reads nothing while it awaits.                                 *)
(*                                                                         *)
(* What the worker sends is taken by the browser at once, as long as       *)
(* there is a way to it.  Its own messages pass through the hub, which     *)
(* gives those of a session, and the close of a terminal, to the worker    *)
(* that is active; they wait in the inbox, so a request may still meet a   *)
(* worker that has said something else meanwhile.                          *)
(***************************************************************************)
EXTENDS Naturals, Sequences, FiniteSets

CONSTANTS
  MaxIds,    \* bounds the request ids of credential prompts
  MaxInbox,  \* bounds the inbox
  None

VARIABLES
  conn,    \* the connection is served
  reach,   \* what the browser sends and gets here: "none" if something is down,
           \* "own" if it names a project of this worker, "all" if this is also
           \* the hub's active worker
  inbox,   \* messages of the browser, unread
  at,      \* what the loop awaits: the next message, or a handler
  ids,     \* request ids handed out
  creds,   \* credentials are in the environment or the store
  future,  \* the bootstrap of the session: its id and the state of its future
  heard,   \* the bootstrap reports to the connection that is served
  banner,  \* browser: the request id of the credential prompt of this worker
  sess,    \* the session and how far it has started
  viewed,  \* it is what the connection views; otherwise it is parked
  term,    \* the terminal the loop refers to
  exits,   \* a terminal has exited and its _on_exit has yet to report: 0 or 1
  panel,   \* browser: a terminal panel of this worker is mounted
  stray    \* the close of the last one did not reach this worker

auth == <<ids, creds, future, heard, banner>>
sesn == <<sess, viewed>>
tty  == <<term, exits>>
way  == <<conn, reach>>
side == <<panel, stray>>
vars == <<way, inbox, at, auth, sesn, tty, side>>

NoFuture == [id |-> None, st |-> "none"]

Init ==
  /\ conn = FALSE /\ reach = "none" /\ inbox = <<>> /\ at = "read"
  /\ ids = 0 /\ creds \in BOOLEAN /\ future = NoFuture /\ heard = FALSE
  /\ banner = None
  /\ sess = "none" /\ viewed = FALSE
  /\ term = "none" /\ exits = 0 /\ panel = FALSE /\ stray = FALSE

\* The browser's store keeps one prompt for each worker: the last one.
Prompt == ids < MaxIds /\ ids' = ids + 1 /\ banner' = ids'
\* A final auth_status drops it, whatever its request id.
Status(to) == banner' = IF to /\ reach # "none" THEN None ELSE banner
-----------------------------------------------------------------------------
(* The loop.                                                               *)

\* The preflight check asks for credentials as soon as a browser connects.  Which
\* worker the hub takes for the active one depends on those that connect before.
Connect ==
  /\ ~ conn /\ conn' = TRUE /\ reach' \in {"own", "all"}
  /\ inbox' = <<>> /\ at' = "read"
  /\ IF creds THEN UNCHANGED <<ids, banner>> ELSE Prompt
  /\ UNCHANGED <<creds, future, heard, sesn, tty, side>>

\* The browser's socket, or the hub's link, breaks: the worker learns of it later.
GoesDown ==
  /\ reach # "none" /\ reach' = "none"
  /\ UNCHANGED <<conn, inbox, at, auth, sesn, tty, side>>

\* Variant: the connection goes and its shell stays.
DisconnectLeavingShell ==
  /\ conn /\ at = "read" /\ conn' = FALSE /\ reach' = "none" /\ inbox' = <<>>
  /\ viewed' = FALSE /\ heard' = FALSE
  /\ UNCHANGED <<at, ids, creds, future, banner, sess, tty, side>>

\* The socket is gone, or silent too long: the terminal is stopped, the session
\* parked, and the send a bootstrap was given leads nowhere.
Disconnect ==
  /\ conn /\ at = "read" /\ conn' = FALSE /\ reach' = "none" /\ inbox' = <<>>
  /\ term' = "none" /\ stray' = FALSE /\ viewed' = FALSE /\ heard' = FALSE
  /\ UNCHANGED <<at, ids, creds, future, banner, sess, exits, panel>>

Head1 == Head(inbox)
Reads(t) == conn /\ at = "read" /\ inbox # <<>> /\ Head1.t = t /\ inbox' = Tail(inbox)

\* Requests whose handler awaits and changes nothing here: the lists (models
\* take an HTTP call of up to 8 s), a session's history, prompts, preferences
\* (auto_approve among them), directories, and files (Uploads has what becomes of
\* those).
Query == /\ Reads("query") /\ at' = "query"
         /\ UNCHANGED <<way, auth, sesn, tty, side>>

FetchModels == /\ at = "query" /\ at' = "read"
               /\ UNCHANGED <<way, inbox, auth, sesn, tty, side>>
-----------------------------------------------------------------------------
(* Credentials.                                                            *)

\* For a bootstrap that waits, or to be saved for the next start.
AuthProvided ==
  /\ Reads("auth")
  /\ IF future = [id |-> Head1.id, st |-> "open"]
     THEN future' = [future EXCEPT !.st = "given"] /\ UNCHANGED <<creds, banner>>
     ELSE creds' = TRUE /\ Status(TRUE) /\ UNCHANGED future
  /\ UNCHANGED <<way, at, ids, heard, sesn, tty, side>>

AuthCancel ==
  /\ Reads("cancel")
  /\ future' = IF future = [id |-> Head1.id, st |-> "open"]
               THEN [future EXCEPT !.st = "cancelled"] ELSE future
  /\ UNCHANGED <<way, at, ids, creds, heard, banner, sesn, tty, side>>

\* The bootstrap task begins: a future, and a prompt if the send still works.
RequestCredentials ==
  /\ sess = "asking" /\ future.st = "none" /\ ids < MaxIds
  /\ ids' = ids + 1 /\ future' = [id |-> ids', st |-> "open"]
  /\ heard' = (conn /\ viewed)
  /\ banner' = IF heard' /\ reach # "none" THEN ids' ELSE banner
  /\ UNCHANGED <<way, inbox, at, creds, sesn, tty, side>>

\* Answered, and saved before it is announced; or cancelled, or expired.
BootstrapEnds ==
  /\ sess = "asking"
  /\ \/ future.st = "given" /\ creds' = TRUE /\ sess' = "connecting"
     \/ future.st \in {"open", "cancelled"} /\ sess' = "failed" /\ UNCHANGED creds
  /\ future' = NoFuture /\ Status(heard)
  /\ UNCHANGED <<way, inbox, at, ids, heard, viewed, tty, side>>
-----------------------------------------------------------------------------
(* The session.                                                            *)

\* session_started: the hub takes its sender for the active worker, though another
\* one was picked meanwhile.
Announces(to) == reach' = IF to /\ reach = "own" THEN "all" ELSE reach

\* Variant: start() awaits the bootstrap.
StartSessionAwaiting ==
  /\ Reads("start") /\ viewed' = TRUE
  /\ IF sess \in {"asking", "connecting", "up"} THEN UNCHANGED <<sess, at>>
     ELSE at' = "start" /\ sess' = IF creds THEN "connecting" ELSE "asking"
  /\ Announces(sess \in {"asking", "connecting", "up"})
  /\ UNCHANGED <<conn, auth, tty, side>>

\* new_session or resume_session: a parked session is bound again; a new one is
\* connected before the loop goes on, if there are credentials.
StartSession ==
  /\ Reads("start") /\ viewed' = TRUE
  /\ IF sess \in {"asking", "connecting", "up"} THEN UNCHANGED <<sess, at>>
     ELSE IF creds THEN sess' = "connecting" /\ at' = "start"
     ELSE sess' = "asking" /\ UNCHANGED at
  /\ Announces(sess \in {"asking", "connecting", "up"})
  /\ UNCHANGED <<conn, auth, tty, side>>

\* The SDK's client connects or does not.
SdkInit ==
  /\ sess = "connecting" /\ sess' \in {"up", "failed"}
  /\ at' = IF at = "start" THEN "read" ELSE at
  /\ Announces(sess' = "up" /\ viewed)
  /\ UNCHANGED <<conn, inbox, auth, viewed, tty, side>>
-----------------------------------------------------------------------------
(* The terminal.                                                           *)

\* A terminal that is open is stopped first; the shell may fail to start.
TerminalOpen ==
  /\ Reads("open")
  /\ term' \in {"live", IF term = "none" THEN "none" ELSE "closed"}
  /\ UNCHANGED <<way, at, auth, sesn, exits, side>>

TerminalClose ==
  /\ Reads("close") /\ term' = "none"
  /\ UNCHANGED <<way, at, auth, sesn, exits, side>>

\* The shell ends by itself: the terminal counts as closed, so that stop() does
\* nothing, while _on_exit awaits the process (of one terminal at a time).
ShellExits ==
  /\ term = "live" /\ exits = 0 /\ term' = "closed" /\ exits' = 1
  /\ UNCHANGED <<way, inbox, at, auth, sesn, side>>

\* The panel goes, and closes the terminal of the worker that is active, if there
\* is a way to it.
Unmounts ==
  /\ panel' = FALSE
  /\ IF reach = "all"
     THEN inbox' = Append(inbox, [t |-> "close"]) /\ stray' = FALSE
     ELSE stray' = TRUE /\ UNCHANGED inbox

\* terminal_closed takes the panel down, which closes the terminal again.
OnExit ==
  /\ exits = 1 /\ exits' = 0
  /\ IF panel /\ reach # "none"
     THEN Unmounts /\ Len(inbox) <= MaxInbox
     ELSE UNCHANGED <<side, inbox>>
  /\ UNCHANGED <<way, at, auth, sesn, term>>
-----------------------------------------------------------------------------
(* The browser.                                                            *)

Send(m) == reach # "none" /\ Len(inbox) < MaxInbox /\ inbox' = Append(inbox, m)

Asks(t) == Send([t |-> t]) /\ UNCHANGED <<way, at, auth, sesn, tty, side>>

\* new_session or resume_session: the hub makes the project's worker the active one.
StartsHere ==
  /\ Send([t |-> "start"]) /\ reach' = "all"
  /\ UNCHANGED <<conn, at, auth, sesn, tty, side>>

StartsElsewhere ==
  /\ reach = "all" /\ reach' = "own"
  /\ UNCHANGED <<conn, inbox, at, auth, sesn, tty, side>>

SubmitsAuth ==
  /\ banner # None /\ Send([t |-> "auth", id |-> banner])
  /\ UNCHANGED <<way, at, auth, sesn, tty, side>>

CancelsAuth ==
  /\ banner # None /\ Send([t |-> "cancel", id |-> banner]) /\ banner' = None
  /\ UNCHANGED <<way, at, ids, creds, future, heard, sesn, tty, side>>

\* terminal_open goes to the worker of the project, or nowhere.
OpensTerminal ==
  /\ ~ panel /\ panel' = TRUE
  /\ IF reach # "none" THEN Send([t |-> "open"]) /\ stray' = FALSE
     ELSE UNCHANGED <<inbox, stray>>
  /\ UNCHANGED <<way, at, auth, sesn, tty>>

\* By the user, or because another session is picked.
ClosesTerminal ==
  /\ panel /\ Len(inbox) < MaxInbox /\ Unmounts
  /\ UNCHANGED <<way, at, auth, sesn, tty>>

\* A panel of another worker goes while this one is active.
ClosesAnother ==
  /\ ~ panel /\ reach = "all" /\ Send([t |-> "close"])
  /\ UNCHANGED <<way, at, auth, sesn, tty, side>>

Browser ==
  \/ Asks("query") \/ StartsHere \/ StartsElsewhere
  \/ SubmitsAuth \/ CancelsAuth
  \/ OpensTerminal \/ ClosesTerminal \/ ClosesAnother
-----------------------------------------------------------------------------
Loop ==
  \/ Query \/ FetchModels \/ AuthProvided \/ AuthCancel
  \/ StartSession
  \/ TerminalOpen \/ TerminalClose
Next ==
  \/ Connect \/ GoesDown \/ Disconnect \/ Loop \/ Browser
  \/ RequestCredentials \/ BootstrapEnds \/ SdkInit
  \/ ShellExits \/ OnExit

Spec == Init /\ [][Next]_vars

\* The event loop runs what is ready; a connection attempt ends.  The user and
\* the ten minutes of a bootstrap owe nothing.
Fairness == WF_vars(Loop) /\ WF_vars(SdkInit)
FairSpec == Spec /\ Fairness
-----------------------------------------------------------------------------
Waits(t) == \E k \in DOMAIN inbox : inbox[k].t = t

\* An answer to a credential prompt is read, whatever was asked before: "if we
\* awaited the bootstrap future here, the loop would NEVER read the incoming
\* auth_provided" (session.py).
AnswersAreRead == Waits("auth") ~> ~ Waits("auth") \/ ~ conn

\* A shell lives only for a served connection, and behind a panel, unless the
\* panel's request to open or to close it is still to be read, or its close was
\* sent to another worker or to nobody.
OnlyStraysLackPanel ==
  term = "live" => conn /\ (panel \/ Waits("close") \/ Waits("open") \/ stray)
=============================================================================
