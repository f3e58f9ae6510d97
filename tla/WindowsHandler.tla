--------------------------- MODULE WindowsHandler ---------------------------
(***************************************************************************)
(* The connection of one browser to a Windows worker                       *)
(* (worker-windows/src/ws/handler.py, terminal/session.py).  Its loop is   *)
(* the one of a Claude worker, without a list of models; its terminal is a *)
(* ConPTY whose read loop notices the end of the shell and then counts as  *)
(* closed before it has told the browser.                                  *)
(***************************************************************************)
EXTENDS Naturals, Sequences

CONSTANTS MaxIds, MaxInbox, None

VARIABLES conn, reach, inbox, at, ids, creds, future, heard, banner, sess, viewed,
          term, exits, panel, stray

Core == INSTANCE WorkerHandler
vars == <<conn, reach, inbox, at, ids, creds, future, heard, banner, sess, viewed,
          term, exits, panel, stray>>

Init == Core!Init
Connect == Core!Connect
GoesDown == Core!GoesDown
Disconnect == Core!Disconnect
Lists == Core!Query
Answers == Core!FetchModels
AuthProvided == Core!AuthProvided
AuthCancel == Core!AuthCancel
StartSession == Core!StartSession
TerminalOpen == Core!TerminalOpen
TerminalClose == Core!TerminalClose
ShellExits == Core!ShellExits
ReadLoopEnds == Core!OnExit

Next ==
  \/ Connect \/ GoesDown \/ Disconnect \/ Lists \/ Answers \/ AuthProvided \/ AuthCancel
  \/ StartSession \/ TerminalOpen \/ TerminalClose
  \/ ShellExits \/ ReadLoopEnds
  \/ Core!Browser \/ Core!RequestCredentials \/ Core!BootstrapEnds \/ Core!SdkInit

Spec == Init /\ [][Next]_vars
=============================================================================
