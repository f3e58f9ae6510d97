------------------------------- MODULE MCChat -------------------------------
(***************************************************************************)
(* ChatClient for TLC: a worker with two sessions, or two workers with a   *)
(* session each.                                                           *)
(***************************************************************************)
EXTENDS ChatClient, TLC

CONSTANTS w1, w2, s2

MCHost == [s \in Sessions |-> IF s = s2 THEN w2 ELSE w1]

Symmetry == Permutations(Prompts)

\* No action reads in which session a prompt was typed or taken, and TakenOnce only
\* counts.  Not for PromptInItsSession.
View == <<hub, reqs, wire, links, index, active, inbox, cur, live, busy, ws, view, proj,
          ids, streaming, refs, [p \in Prompts |-> <<Len(given[p]), typed[p] = None>>]>>
=============================================================================
