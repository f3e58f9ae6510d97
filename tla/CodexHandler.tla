---------------------------- MODULE CodexHandler ----------------------------
(***************************************************************************)
(* The connection of one browser to a Codex worker                         *)
(* (worker-codex/src/ws/handler.py): the loop of a Copilot worker, without *)
(* credentials to ask for.  Its sessions start with what the CLI has.      *)
(***************************************************************************)
EXTENDS Naturals, Sequences

CONSTANTS MaxIds, MaxInbox, None

VARIABLES conn, reach, inbox, at, ids, creds, future, heard, banner, sess, viewed,
          term, exits, panel, stray

Core == INSTANCE WorkerHandler
vars == <<conn, reach, inbox, at, ids, creds, future, heard, banner, sess, viewed,
          term, exits, panel, stray>>

Init == Core!Init /\ creds = TRUE

Connect == Core!Connect
GoesDown == Core!GoesDown
Disconnect == Core!Disconnect
Lists == Core!Query
ListModels == Core!FetchModels
StartSession == Core!StartSession
TerminalOpen == Core!TerminalOpen
TerminalClose == Core!TerminalClose

Next ==
  \/ Connect \/ GoesDown \/ Disconnect \/ Lists \/ ListModels \/ StartSession
  \/ TerminalOpen \/ TerminalClose
  \/ Core!Browser \/ Core!SdkInit \/ Core!ShellExits \/ Core!OnExit

Spec == Init /\ [][Next]_vars
=============================================================================
