---------------------------- MODULE ExcelBridge -----------------------------
(***************************************************************************)
(* The bridge between the agent's Excel tools and the add-ins              *)
(* (worker-windows/src/modules/excel/bridge.py, mcp_server.py).  A tool    *)
(* call is sent to the add-in that connected first and waits for its       *)
(* answer, which carries the id of the call.  An add-in that loses its     *)
(* socket connects again under an id of its own and answers on the new     *)
(* socket what it was asked on the old one.                                *)
(***************************************************************************)
EXTENDS Naturals, Sequences

CONSTANTS Calls, Addins, None

VARIABLES
  addins,   \* _addins, in the order of their registration
  lost,     \* registered add-ins whose socket is gone
  known,    \* add-ins that have connected
  call      \* tool calls: what they await, and the add-in they were sent to

vars == <<addins, lost, known, call>>

Listed == {addins[k] : k \in DOMAIN addins}
\* _addins.pop(a): the others keep their order.
Without(a) ==
  LET p == CHOOSE k \in DOMAIN addins : addins[k] = a
  IN  [k \in 1 .. Len(addins) - 1 |-> addins[IF k < p THEN k ELSE k + 1]]
Idle == [st |-> "idle", to |-> None]
\* Its future is set; it runs again when it can.
Settled == [st |-> "settled", to |-> None]

Init == addins = <<>> /\ lost = {} /\ known = {} /\ call = [c \in Calls |-> Idle]

Register(a) ==
  /\ a \notin known /\ known' = known \cup {a} /\ addins' = Append(addins, a)
  /\ UNCHANGED <<lost, call>>

Lose(a) == a \in Listed \ lost /\ lost' = lost \cup {a} /\ UNCHANGED <<addins, known, call>>

\* Variant: the calls that wait for the add-in are left to their timeout.
UnregisterQuietly(a) ==
  /\ a \in lost /\ lost' = lost \ {a} /\ addins' = Without(a)
  /\ UNCHANGED <<known, call>>

\* unregister_by_id, cancel_all: the futures of the calls it has are set.
Unregister(a) ==
  /\ a \in lost /\ lost' = lost \ {a} /\ addins' = Without(a)
  /\ call' = [c \in Calls |-> IF call[c].to = a THEN Settled ELSE call[c]]
  /\ UNCHANGED known

\* The future is recorded and the command is being sent.
Execute(c) ==
  /\ call[c] = Idle /\ addins # <<>>
  /\ call' = [call EXCEPT ![c] = [st |-> "sending", to |-> Head(addins)]]
  /\ UNCHANGED <<addins, lost, known>>

Sent(c) ==
  /\ call[c].st = "sending" /\ call' = [call EXCEPT ![c].st = "waiting"]
  /\ UNCHANGED <<addins, lost, known>>

\* The socket refuses the command, or 30 s have passed.
Fails(c) ==
  /\ call[c].st = "waiting" \/ (call[c].st = "sending" /\ call[c].to \in lost)
  /\ call' = [call EXCEPT ![c] = Idle]
  /\ UNCHANGED <<addins, lost, known>>

\* The answer arrives on the socket of a, perhaps before send_text() returned.
\* The answer to a call that a does not have is ignored.
HandleMessage(a, c) ==
  /\ a \in Listed \ lost /\ call[c].to = a
  /\ call' = [call EXCEPT ![c] = Settled]
  /\ UNCHANGED <<addins, lost, known>>

\* The tool call has its answer or its error.
Returns(c) ==
  /\ call[c] = Settled /\ call' = [call EXCEPT ![c] = Idle]
  /\ UNCHANGED <<addins, lost, known>>

Next ==
  \/ \E a \in Addins : Register(a) \/ Lose(a) \/ Unregister(a)
  \/ \E c \in Calls : Execute(c) \/ Sent(c) \/ Fails(c) \/ Returns(c)
  \/ \E a \in Addins, c \in Calls : HandleMessage(a, c)

Spec == Init /\ [][Next]_vars
-----------------------------------------------------------------------------
\* A call waits only for an add-in that is still registered: whoever it was
\* sent to, its end is noticed at once and not by the timeout.
WaitsForListed == \A c \in Calls : call[c].to # None => call[c].to \in Listed
=============================================================================
