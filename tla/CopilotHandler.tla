--------------------------- MODULE CopilotHandler ---------------------------
(***************************************************************************)
(* The connection of one browser to a Copilot worker                       *)
(* (worker-copilot/src/ws/handler.py, sdk/oauth.py, sdk/client.py).  A     *)
(* session without credentials does not start; the user provides a token,  *)
(* or asks for a login by device code, which a subprocess carries out in   *)
(* the background.  All sessions share one client, which new credentials   *)
(* replace.                                                                *)
(***************************************************************************)
EXTENDS Naturals, Sequences

CONSTANTS MaxIds, MaxInbox, None

VARIABLES conn, reach, inbox, at, ids, creds, future, heard, banner, sess, viewed,
          term, exits, panel, stray,
          flows,  \* device flows: "spawned", "code" once the user has one,
                  \* "killed" once cancelled
          loud    \* the flows that report to the connection that is served

Core == INSTANCE WorkerHandler
base == <<conn, reach, inbox, at, ids, creds, future, heard, banner, sess, viewed,
          term, exits, panel, stray>>
vars == <<base, flows, loud>>
unflows == <<flows, loud>>
way == <<conn, reach>>
rest == <<term, exits, panel, stray>>

Init == Core!Init /\ flows = [i \in 1 .. MaxIds |-> "none"] /\ loud = {}
-----------------------------------------------------------------------------
Connect == Core!Connect /\ UNCHANGED unflows
GoesDown == Core!GoesDown /\ UNCHANGED unflows
Disconnect == Core!Disconnect /\ loud' = {} /\ UNCHANGED flows
Lists == Core!Query /\ UNCHANGED unflows
ListModels == Core!FetchModels /\ UNCHANGED unflows
TerminalOpen == Core!TerminalOpen /\ UNCHANGED unflows
TerminalClose == Core!TerminalClose /\ UNCHANGED unflows

\* Without credentials the session is left without a client.
StartSession ==
  /\ Core!Reads("start") /\ viewed' = TRUE
  /\ IF sess \in {"connecting", "up"} THEN UNCHANGED <<sess, at>>
     ELSE IF creds THEN sess' = "connecting" /\ at' = "start"
     ELSE sess' = "failed" /\ UNCHANGED at
  /\ Core!Announces(sess \in {"connecting", "up"})
  /\ UNCHANGED <<conn, ids, creds, future, heard, banner, rest, flows, loud>>

SdkInit == Core!SdkInit /\ UNCHANGED unflows
-----------------------------------------------------------------------------
(* Credentials.                                                            *)

\* The client is stopped, also under a session that works with it.
ResetClient == sess' = IF sess = "up" THEN "failed" ELSE sess

AuthProvided ==
  /\ Core!Reads("auth") /\ creds' = TRUE /\ ResetClient /\ Core!Status(TRUE)
  /\ UNCHANGED <<way, at, ids, future, heard, viewed, rest, flows, loud>>

AuthRequestOauth ==
  /\ Core!Reads("oauth") /\ ids < MaxIds /\ ids' = ids + 1
  /\ flows' = [flows EXCEPT ![ids'] = "spawned"] /\ loud' = loud \cup {ids'}
  /\ UNCHANGED <<way, at, creds, future, heard, banner, sess, viewed, rest>>

\* The subprocess prints the device code: a prompt takes the place of the last.
RunDeviceFlow(i) ==
  /\ flows[i] = "spawned" /\ flows' = [flows EXCEPT ![i] = "code"]
  /\ banner' = IF i \in loud /\ reach # "none" THEN i ELSE banner
  /\ UNCHANGED <<way, inbox, at, ids, creds, future, heard, sess, viewed, rest, loud>>

\* It ends: with a token that is saved, or without one.
DeviceFlowEnds(i) ==
  /\ flows[i] \notin {"none", "over"} /\ flows' = [flows EXCEPT ![i] = "over"]
  /\ \/ flows[i] = "code" /\ creds' = TRUE /\ ResetClient
     \/ UNCHANGED <<creds, sess>>
  /\ Core!Status(i \in loud) /\ loud' = loud \ {i}
  /\ UNCHANGED <<way, inbox, at, ids, future, heard, viewed, rest>>

\* cancel_device_flow: the subprocess is terminated.
AuthCancel ==
  /\ Core!Reads("cancel")
  /\ flows' = [i \in DOMAIN flows |->
                 IF i = Core!Head1.id /\ flows[i] # "over" /\ flows[i] # "none"
                 THEN "killed" ELSE flows[i]]
  /\ UNCHANGED <<way, at, ids, creds, future, heard, banner, sess, viewed, rest, loud>>
-----------------------------------------------------------------------------
RequestsOauth ==
  /\ banner # None /\ Core!Send([t |-> "oauth"])
  /\ UNCHANGED <<way, at, ids, creds, future, heard, banner, sess, viewed, rest, flows, loud>>

Next ==
  \/ Connect \/ GoesDown \/ Disconnect \/ Lists \/ ListModels \/ TerminalOpen \/ TerminalClose
  \/ StartSession \/ SdkInit
  \/ AuthProvided \/ AuthRequestOauth \/ AuthCancel \/ RequestsOauth
  \/ \E i \in 1 .. MaxIds : RunDeviceFlow(i) \/ DeviceFlowEnds(i)
  \/ (Core!Browser \/ Core!ShellExits \/ Core!OnExit) /\ UNCHANGED unflows

Spec == Init /\ [][Next]_vars
=============================================================================
