---------------------------- MODULE MCOutputErrors ----------------------------
(***************************************************************************)
(* OutputManager with a history of the ids that wait to be consumed, for   *)
(* the question when the cache is cleaned.                                 *)
(***************************************************************************)
EXTENDS OutputManager

VARIABLE unconsumed \* ghost: ids that were requested and not consumed since

errorVars == <<vars, unconsumed>>

ErrorInit == Init /\ unconsumed = {}

ErrorNext ==
    /\ Next
    /\ unconsumed' =
         (unconsumed \cup (IF m_idCounter' # m_idCounter THEN {m_idCounter} ELSE {}))
         \ {id \in Cached : m_results[id] \in released' \ released}

ErrorSpec == ErrorInit /\ [][ErrorNext]_errorVars

\* The cache is cleaned "in case there's some error" (OutputManager.cpp:39):
\* only when some output was requested and never consumed.
CleanedOnlyInError == [][Cached \ Cached' # {} => unconsumed # {}]_errorVars
=============================================================================
