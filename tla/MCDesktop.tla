------------------------------ MODULE MCDesktop ------------------------------
(***************************************************************************)
(* Small instances of the parts of the desktop that share neither state    *)
(* nor calls with each other.  A behaviour is about one of them; the       *)
(* others stay in one of their initial states.                             *)
(***************************************************************************)
EXTENDS MCPluginStart, SelfUpdate, ScriptRuns

\* An installer in full, without its updater, and a program without payload.
SomePayloads ==
  {[r \in 1 .. MaxRelease |-> p] : p \in {{"main"}, {"main", "updater"}, {}}}

VARIABLE focus

desktopVars == <<focus, startVars, updateVars, scriptVars>>

\* What no behaviour is about is in the first of its initial states.
DesktopInit ==
  /\ focus \in {"start", "update", "scripts"}
  /\ StartInit /\ UpdateInit /\ ScriptInit
  /\ focus # "update" => feed = 1 /\ hashed /\ payload = [r \in 1 .. MaxRelease |-> {}]

DesktopNext ==
  \/ /\ focus = "start" /\ StartNext
     /\ UNCHANGED <<focus, updateVars, scriptVars>>
  \/ /\ focus = "update" /\ UpdateNext
     /\ UNCHANGED <<focus, startVars, scriptVars>>
  \/ /\ focus = "scripts" /\ ScriptNext
     /\ UNCHANGED <<focus, startVars, updateVars>>

DesktopSpec ==
  DesktopInit /\ [][DesktopNext]_desktopVars
    /\ StartFairness /\ UpdateFairness /\ ScriptFairness

\* The state of each part keeps to its type.
DesktopTypeOK == StartTypeOK /\ UpdateTypeOK /\ ScriptTypeOK

\* What was begun comes to an end, whatever the others do: the preparation of
\* a release, an updater whose application does not end, and a run whose child
\* loops or writes more than the pipe holds.
EverythingEnds == PreparingEnds /\ UpdateEnds /\ EveryRunEnds
=============================================================================
