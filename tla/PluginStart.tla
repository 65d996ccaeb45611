----------------------------- MODULE PluginStart ------------------------------
(***************************************************************************)
(* start_installed_plugin and activate_pending_client_plugin on top of the *)
(* installation ledger.                                                    *)
(*                                                                         *)
(* A start is an async command: it picks a release without the lock, works *)
(* for seconds or minutes on a blocking thread without it, and takes it    *)
(* anew for each thing it records - Preparing, then Ready and the          *)
(* activation of a pending release, or Failed and its discarding.  Between *)
(* these steps other starts, downloads and the commands of the main thread *)
(* change the same entry.  The activation of a client plugin is a command  *)
(* of the main thread, and also looks before it takes the lock.            *)
(***************************************************************************)
EXTENDS InstallLedger

CONSTANTS
  Calls,   \* bound: starts that can be under way at the same time
  Faults   \* whether ledger writes can fail and blocking tasks can panic

\* The ledger is asked to record what starts report.
ASSUME StartAssumption ==
  /\ Faults \in BOOLEAN
  /\ MarkStatuses = {"Preparing", "Ready", "Failed"}

VARIABLES
  call,      \* each start: where it is, and what it selected
  preview,   \* installation whose pending client release was just looked at
  leftover   \* history: releases left Preparing by a fault, by an
             \* interrupted uninstall or by the end of the application

callVars  == <<call, preview>>
startVars == <<ledgerVars, call, preview, leftover>>

\* selected -> running -> spawned -> started -> ready, or failed -> marked.
Places  == {"idle", "selected", "running", "spawned", "started", "ready", "failed", "marked"}
CallRec == [at : Places, inst : Insts \cup {0}, rel : Rels \cup {None}, pend : BOOLEAN]
NoCall  == [at |-> "idle", inst |-> 0, rel |-> None, pend |-> FALSE]

StartTypeOK ==
  /\ call \in [Calls -> CallRec]
  /\ \A c \in Calls : call[c].at # "idle" => call[c].inst # 0 /\ call[c].rel # None
  /\ preview \in Insts \cup {0}
  /\ leftover \in SUBSET (Insts \X Rels)

StartInit ==
  /\ LedgerInit
  /\ call = [c \in Calls |-> NoCall]
  /\ preview = 0
  /\ leftover = {}

Goes(c, place) == call' = [call EXCEPT ![c].at = place]
Ends(c)        == call' = [call EXCEPT ![c] = NoCall]

\* The release of a call is one the entry still has.
Recorded(i, r) == i \in DOMAIN ledger /\ r \in Refs(ledger[i])

\* The installation has a pending release.
Waiting(i) == i \in DOMAIN ledger /\ ledger[i].pending.rel # None

\* The releases the ledger says are being prepared.
Preparing ==
  {x \in Insts \X Rels :
     /\ x[1] \in DOMAIN ledger
     /\ \E s \in {ledger[x[1]].active, ledger[x[1]].pending, ledger[x[1]].previous} :
          s = [rel |-> x[2], st |-> "Preparing"]}

\* Those with no excuse: an uninstall interrupted half way can bring one
\* release into two slots, and a status then goes to the first of them.
Owed == {x \in Preparing \ leftover : x[1] \notin damaged}

-----------------------------------------------------------------------------
(* start_installed_plugin                                                  *)

\* selected_release takes no lock: the pending release if there is one.
Select(c, i) ==
  /\ app = "running" /\ call[c].at = "idle"
  /\ i \in DOMAIN ledger
  /\ LET e == ledger[i]  pend == e.pending.rel # None IN
       call' = [call EXCEPT ![c] = [at |-> "selected", inst |-> i, pend |-> pend,
                                    rel |-> IF pend THEN e.pending.rel ELSE e.active.rel]]
  /\ UNCHANGED <<ledgerVars, preview, leftover>>

\* The write cannot be done: the release is not in the entry any more, or
\* the disk fails.
CannotRecord(c) ==
  /\ Serving
  /\ Faults \/ ~Recorded(call[c].inst, call[c].rel)
  /\ UNCHANGED ledgerVars

MarkPreparing(c) ==
  /\ call[c].at = "selected"
  /\ \/ /\ MarkDependencyStatus(call[c].inst, call[c].rel, "Preparing")
        /\ Goes(c, "running")
        /\ leftover' = leftover \ {<<call[c].inst, call[c].rel>>}
     \/ /\ CannotRecord(c)
        /\ Ends(c)
        /\ UNCHANGED leftover
  /\ UNCHANGED preview

\* The runner knows nodejs and python only.
Spawn(c) ==
  /\ call[c].at = "running"
  /\ call[c].rel \in ProcessReleases
  /\ <<call[c].inst, call[c].rel>> \in dirs
  /\ Goes(c, "spawned")
  /\ UNCHANGED <<ledgerVars, preview, leftover>>

Survives(c) ==
  /\ call[c].at = "spawned"
  /\ Goes(c, "started")
  /\ UNCHANGED <<ledgerVars, preview, leftover>>

\* Mutant: a failure ends the command at once.
RunFailsUnrecorded(c) ==
  /\ call[c].at \in {"running", "spawned"}
  /\ Ends(c)
  /\ UNCHANGED <<ledgerVars, preview, leftover>>

\* No such runtime, no directory, dependencies missing, or it died at once.
RunFails(c) ==
  /\ call[c].at \in {"running", "spawned"}
  /\ Goes(c, "failed")
  /\ UNCHANGED <<ledgerVars, preview, leftover>>

\* The blocking task panics: the command returns without recording anything.
RunPanics(c) ==
  /\ Faults
  /\ call[c].at \in {"running", "spawned"}
  /\ Ends(c)
  /\ leftover' = leftover \cup {<<call[c].inst, call[c].rel>>}
  /\ UNCHANGED <<ledgerVars, preview>>

\* An error here ends the command; the process keeps running.
MarkReady(c) ==
  /\ call[c].at = "started"
  /\ \/ /\ MarkDependencyStatus(call[c].inst, call[c].rel, "Ready")
        /\ IF call[c].pend THEN Goes(c, "ready") ELSE Ends(c)
        /\ UNCHANGED leftover
     \/ /\ CannotRecord(c)
        /\ Ends(c)
        /\ leftover' = leftover \cup {<<call[c].inst, call[c].rel>>}
  /\ UNCHANGED preview

\* Whatever is pending now becomes active.
ActivateStarted(c) ==
  /\ call[c].at = "ready"
  /\ \/ ActivatePending(call[c].inst)
     \/ /\ Serving
        /\ Faults \/ ~Waiting(call[c].inst)
        /\ UNCHANGED ledgerVars
  /\ Ends(c)
  /\ UNCHANGED <<preview, leftover>>

\* Mutant: only the discarding of a pending release, no status.
MarkFailedSilently(c) ==
  /\ call[c].at = "failed"
  /\ IF call[c].pend THEN Goes(c, "marked") ELSE Ends(c)
  /\ UNCHANGED <<ledgerVars, preview, leftover>>

MarkFailed(c) ==
  /\ call[c].at = "failed"
  /\ \/ /\ MarkDependencyStatus(call[c].inst, call[c].rel, "Failed")
        /\ UNCHANGED leftover
     \/ /\ CannotRecord(c)
        /\ leftover' = leftover \cup {<<call[c].inst, call[c].rel>>}
  /\ IF call[c].pend THEN Goes(c, "marked") ELSE Ends(c)
  /\ UNCHANGED preview

\* Whatever is pending now is discarded.
DiscardFailed(c) ==
  /\ call[c].at = "marked"
  /\ \/ DiscardPending(call[c].inst)
     \/ /\ Serving
        /\ Faults \/ ~Waiting(call[c].inst)
        /\ UNCHANGED ledgerVars
  /\ Ends(c)
  /\ UNCHANGED <<preview, leftover>>

CallStep(c) ==
  \/ MarkPreparing(c) \/ Spawn(c) \/ Survives(c) \/ RunFails(c) \/ RunPanics(c)
  \/ MarkReady(c) \/ ActivateStarted(c) \/ MarkFailed(c) \/ DiscardFailed(c)

-----------------------------------------------------------------------------
(* activate_pending_client_plugin                                          *)

\* Reads the manifest of the pending release, without the lock.
PreviewClient(i) ==
  /\ app = "running" /\ preview = 0
  /\ i \in DOMAIN ledger
  /\ LET r == ledger[i].pending.rel IN r \notin ProcessReleases /\ <<i, r>> \in dirs
  /\ preview' = i
  /\ UNCHANGED <<ledgerVars, call, leftover>>

ActivateClient ==
  /\ preview # 0
  /\ \/ ActivatePending(preview)
     \/ /\ Serving
        /\ Faults \/ ~Waiting(preview)
        /\ UNCHANGED ledgerVars
  /\ preview' = 0
  /\ UNCHANGED <<call, leftover>>

-----------------------------------------------------------------------------
\* The commands of the main thread wait for a client activation.
OtherCommand ==
  /\ \/ MainThreadCommand /\ preview = 0
     \/ InstallFromUrl \/ LockHolder
     \/ Boot \/ BootRefuses \/ BootSkips \/ BootInstalls \/ BootDone
  /\ leftover' = leftover \cup {x \in Preparing : x[1] \in damaged}
  /\ UNCHANGED callVars

\* The application ends, and the calls with it.
AppEnds ==
  /\ Quit \/ Crash
  /\ call' = [c \in Calls |-> NoCall]
  /\ preview' = 0
  /\ leftover' = leftover \cup Preparing

StartNext ==
  \/ \E c \in Calls : CallStep(c) \/ \E i \in Insts : Select(c, i)
  \/ ActivateClient \/ \E i \in Insts : PreviewClient(i)
  \/ OtherCommand \/ AppEnds

StartSpec == StartInit /\ [][StartNext]_startVars

\* A holder of the lock goes on; a call that keeps finding the lock free gets
\* it at last (no waiter is passed over for ever), and its blocking task ends.
StartFairness ==
  /\ WF_startVars(OtherCommand /\ LockHolder)
  /\ WF_startVars(ActivateClient)
  /\ \A c \in Calls : SF_startVars(CallStep(c))

LiveStartSpec == StartSpec /\ StartFairness

-----------------------------------------------------------------------------
(* Properties                                                              *)

\* A release says Preparing only while a start is at work on it, unless a
\* fault, an interrupted uninstall or the end of the application left it so.
\* A start must therefore record its outcome on the release it selected,
\* wherever in the entry other commands have moved it meanwhile (pending,
\* active or previous).
PreparingHasAStart ==
  \A x \in Owed :
    \E c \in Calls :
      /\ call[c].at \in {"running", "spawned", "started", "failed"}
      /\ <<call[c].inst, call[c].rel>> = x

\* A release being prepared does not stay so while the application runs: its
\* start comes to an end, or the release goes.
PreparingEnds ==
  \A x \in Insts \X Rels :
    x \in Owed ~> (x \notin Owed \/ app # "running")
=============================================================================
