------------------------------ MODULE StartClaims ------------------------------
(***************************************************************************)
(* What a message of activate_pending_client_plugin says of activations.   *)
(***************************************************************************)
EXTENDS MCPluginStart

VARIABLE started   \* history: <<installation, release>> whose process came up

historyVars == <<startVars, started>>

HistoryInit == StartInit /\ started = {}

HistoryNext ==
  /\ StartNext
  /\ started' = started \cup {<<call[c].inst, call[c].rel>> : c \in
                              {d \in Calls : call[d].at = "spawned" /\ call'[d].at = "started"}}

HistorySpec == HistoryInit /\ [][HistoryNext]_historyVars

\* A pending release of a process plugin becomes active only after its own
\* process has started (the message says: a pending Node/Python version must
\* be activated after its process started successfully).
ActivatedWasStarted ==
  [][\A i \in (DOMAIN ledger \cap DOMAIN ledger') \ damaged :
       LET r == ledger'[i].active.rel IN
         r \in ProcessReleases /\ r = ledger[i].pending.rel => <<i, r>> \in started]_historyVars
=============================================================================
