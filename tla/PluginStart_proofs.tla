-------------------------- MODULE PluginStart_proofs --------------------------
(***************************************************************************)
(* Starts of installed plugins, for any number of calls under way: they do *)
(* to the ledger what its operations do, and no release stays Preparing    *)
(* without a start at work on it.                                          *)
(***************************************************************************)
EXTENDS PluginStart, InstallLedger_proofs

-----------------------------------------------------------------------------
(* Calls and the ledger                                                    *)

\* What a call does to the ledger is a command of the ledger, or nothing.
LEMMA CallStepIsCommand ==
  ASSUME StartTypeOK, NEW c \in Calls, CallStep(c)
  PROVE  [LedgerNext]_ledgerVars
<1>1. call[c] \in CallRec
  BY DEF StartTypeOK
<1>2. call[c].at # "idle" => call[c].inst \in Insts /\ call[c].rel \in Rels
  BY <1>1 DEF StartTypeOK, CallRec
<1>3. ASSUME NEW st \in MarkStatuses, call[c].at # "idle",
             MarkDependencyStatus(call[c].inst, call[c].rel, st)
      PROVE  LedgerNext
  BY <1>2, <1>3 DEF LedgerNext, StatusCommand
<1>4. ASSUME call[c].at # "idle", ActivatePending(call[c].inst) PROVE LedgerNext
  BY <1>2, <1>4 DEF LedgerNext, StatusCommand
<1>5. ASSUME call[c].at # "idle", DiscardPending(call[c].inst) PROVE LedgerNext
  BY <1>2, <1>5 DEF LedgerNext, MainThreadCommand
<1>6. CASE MarkPreparing(c)
  BY <1>3, <1>6, StartAssumption DEF MarkPreparing, CannotRecord
<1>7. CASE Spawn(c) \/ Survives(c) \/ RunFails(c) \/ RunPanics(c)
  BY <1>7 DEF Spawn, Survives, RunFails, RunPanics
<1>8. CASE MarkReady(c)
  BY <1>3, <1>8, StartAssumption DEF MarkReady, CannotRecord
<1>9. CASE ActivateStarted(c)
  BY <1>4, <1>9 DEF ActivateStarted
<1>10. CASE MarkFailed(c)
  BY <1>3, <1>10, StartAssumption DEF MarkFailed, CannotRecord
<1>11. CASE DiscardFailed(c)
  BY <1>5, <1>11 DEF DiscardFailed
<1> QED BY <1>6, <1>7, <1>8, <1>9, <1>10, <1>11 DEF CallStep

\* So is every step of the whole.
LEMMA StartStepIsLedgerStep ==
  StartTypeOK /\ [StartNext]_startVars => [LedgerNext]_ledgerVars
<1> SUFFICES ASSUME StartTypeOK, [StartNext]_startVars PROVE [LedgerNext]_ledgerVars
  OBVIOUS
<1>1. ASSUME NEW c \in Calls, CallStep(c) PROVE [LedgerNext]_ledgerVars
  BY <1>1, CallStepIsCommand
<1>2. ASSUME NEW c \in Calls, NEW i \in Insts, Select(c, i) PROVE [LedgerNext]_ledgerVars
  BY <1>2 DEF Select
<1>3. CASE ActivateClient
  BY <1>3 DEF ActivateClient, StartTypeOK, LedgerNext, StatusCommand
<1>4. ASSUME NEW i \in Insts, PreviewClient(i) PROVE [LedgerNext]_ledgerVars
  BY <1>4 DEF PreviewClient
<1>5. CASE OtherCommand
  BY <1>5 DEF OtherCommand, LedgerNext, Lifecycle
<1>6. CASE AppEnds
  BY <1>6 DEF AppEnds, LedgerNext, Lifecycle
<1>7. CASE UNCHANGED startVars
  BY <1>7 DEF startVars
<1> QED BY <1>1, <1>2, <1>3, <1>4, <1>5, <1>6, <1>7 DEF StartNext

-----------------------------------------------------------------------------
(* Who is preparing                                                        *)

\* One of the slots of an entry says that release r is being prepared.
Prepares(e, r) ==
  \/ e.active.rel = r /\ e.active.st = "Preparing"
  \/ e.pending.rel = r /\ e.pending.st = "Preparing"
  \/ e.previous.rel = r /\ e.previous.st = "Preparing"

\* The release that an install is about to store does not arrive as Preparing.
ArrivesUnprepared ==
  op.kind = "install" =>
    \A e \in op.entry : \A s \in {e.active, e.pending} : s.rel = op.rel => s.st # "Preparing"

\* What an uninstall may put back is excused.
TrashExcused ==
  op.kind = "emptying" =>
    \A e \in op.entry : \A r \in Rels : Prepares(e, r) => <<op.inst, r>> \in leftover

StartInv == StartTypeOK /\ ArrivesUnprepared /\ TrashExcused /\ PreparingHasAStart

\* Preparing, slot by slot.
LEMMA PreparingMeans ==
  /\ LedgerTypeOK =>
       \A x \in Insts \X Rels :
         x \in Preparing <=> x[1] \in DOMAIN ledger /\ Prepares(ledger[x[1]], x[2])
  /\ LedgerTypeOK' =>
       \A x \in Insts \X Rels :
         x \in Preparing' <=> x[1] \in DOMAIN ledger' /\ Prepares(ledger'[x[1]], x[2])
<1>1. ASSUME NEW e \in Entry, NEW r
      PROVE  Prepares(e, r) <=> \E s \in {e.active, e.pending, e.previous} :
                                  s = [rel |-> r, st |-> "Preparing"]
  <2>1. \A s \in {e.active, e.pending, e.previous} :
          s = [rel |-> r, st |-> "Preparing"] <=> s.rel = r /\ s.st = "Preparing"
    BY DEF Entry, Slot, Filled
  <2> QED BY <2>1 DEF Prepares
<1>2. LedgerTypeOK => \A i \in DOMAIN ledger : ledger[i] \in Entry
  BY DEF LedgerTypeOK
<1>3. LedgerTypeOK' => \A i \in DOMAIN ledger' : ledger'[i] \in Entry
  BY DEF LedgerTypeOK
<1> QED BY <1>1, <1>2, <1>3 DEF Preparing

\* A ledger write of one entry: what is preparing in it, or was elsewhere.
LEMMA PreparingAfterPut ==
  ASSUME LedgerTypeOK, LedgerTypeOK', NEW i \in Insts, NEW e \in Entry, ledger' = Put(i, e),
         NEW x \in Preparing'
  PROVE  IF x[1] = i THEN Prepares(e, x[2]) ELSE x \in Preparing
<1>1. x \in Insts \X Rels
  BY DEF Preparing
<1>2. x[1] \in DOMAIN ledger' /\ Prepares(ledger'[x[1]], x[2])
  BY <1>1, PreparingMeans
<1>3. /\ DOMAIN ledger' = DOMAIN ledger \cup {i}
      /\ ledger'[i] = e
      /\ \A j \in DOMAIN ledger : j # i => ledger'[j] = ledger[j]
  BY PutType
<1> QED BY <1>1, <1>2, <1>3, PreparingMeans

\* Without a ledger write nothing begins, nor when entries are removed.
LEMMA PreparingAfterDrop ==
  ASSUME LedgerTypeOK, LedgerTypeOK', ledger' = ledger \/ \E S : ledger' = Drop(S)
  PROVE  Preparing' \subseteq Preparing
<1>1. DOMAIN ledger' \subseteq DOMAIN ledger /\ \A j \in DOMAIN ledger' : ledger'[j] = ledger[j]
  BY DropType
<1>2. ASSUME NEW x \in Preparing' PROVE x \in Preparing
  <2>1. x \in Insts \X Rels
    BY DEF Preparing
  <2>2. x[1] \in DOMAIN ledger' /\ Prepares(ledger'[x[1]], x[2])
    BY <2>1, PreparingMeans
  <2> QED BY <1>1, <2>1, <2>2, PreparingMeans
<1> QED BY <1>2

\* The slots move: what an entry prepares afterwards it prepared before.
LEMMA SlotMovesPrepareNothing ==
  ASSUME LedgerTypeOK, LedgerTypeOK', NEW i \in Insts,
         ActivatePending(i) \/ DiscardPending(i) \/ Rollback(i)
  PROVE  Preparing' \subseteq Preparing
<1> DEFINE old == ledger[i]
<1>1. i \in DOMAIN ledger /\ old \in Entry /\ NoSlot \in Slot
  BY SlotFacts DEF LedgerTypeOK, ActivatePending, DiscardPending, Rollback
<1>2. ASSUME NEW e \in Entry, ledger' = Put(i, e), \A r \in Rels : Prepares(e, r) => Prepares(old, r)
      PROVE  Preparing' \subseteq Preparing
  <2> SUFFICES ASSUME NEW x \in Preparing' PROVE x \in Preparing
    OBVIOUS
  <2>1. x \in Insts \X Rels
    BY DEF Preparing
  <2>2. x[1] = i => Prepares(old, x[2])
    BY <1>2, <2>1, PreparingAfterPut
  <2> QED BY <1>1, <1>2, <2>1, <2>2, PreparingAfterPut, PreparingMeans
<1>3. /\ old.active \in Filled /\ old.active \in Slot /\ old.pending \in Slot /\ old.previous \in Slot
      /\ \A s \in Slot : s.rel # None => s \in Filled /\ [rel |-> s.rel, st |-> "Ready"] \in Filled
  BY <1>1, SlotFacts DEF Entry, Filled, Slot, Statuses
<1>4. CASE ActivatePending(i)
  <2> DEFINE e == [old EXCEPT !.active = [rel |-> old.pending.rel, st |-> "Ready"],
                              !.pending = NoSlot, !.previous = old.active]
  <2>1. ledger' = Put(i, e) /\ old.pending.rel # None
    BY <1>4 DEF ActivatePending
  <2>2. e \in Entry
    BY <1>1, <1>3, <2>1 DEF Entry
  <2>3. \A r \in Rels : Prepares(e, r) => Prepares(old, r)
    BY <1>1 DEF Prepares, NoSlot, Entry
  <2> HIDE DEF e
  <2> QED BY <1>2, <2>1, <2>2, <2>3
<1>5. CASE DiscardPending(i)
  <2> DEFINE e == [old EXCEPT !.pending = NoSlot]
  <2>1. ledger' = Put(i, e)
    BY <1>5 DEF DiscardPending
  <2>2. e \in Entry
    BY <1>1 DEF Entry
  <2>3. \A r \in Rels : Prepares(e, r) => Prepares(old, r)
    BY <1>1 DEF Prepares, NoSlot, Entry
  <2> HIDE DEF e
  <2> QED BY <1>2, <2>1, <2>2, <2>3
<1>6. CASE Rollback(i)
  <2> DEFINE e == [old EXCEPT !.active = old.previous, !.pending = NoSlot, !.previous = old.active]
  <2>1. ledger' = Put(i, e) /\ old.previous.rel # None
    BY <1>6 DEF Rollback
  <2>2. e \in Entry
    BY <1>1, <1>3, <2>1 DEF Entry
  <2>3. \A r \in Rels : Prepares(e, r) => Prepares(old, r)
    BY <1>1 DEF Prepares, NoSlot, Entry
  <2> HIDE DEF e
  <2> QED BY <1>2, <2>1, <2>2, <2>3
<1> QED BY <1>4, <1>5, <1>6

\* An install stores a release that is not being prepared.
LEMMA CommitPreparesNothing ==
  ASSUME LedgerInv, LedgerTypeOK', ArrivesUnprepared, InstallCommit,
         NEW x \in Preparing', x[1] \notin damaged
  PROVE  x \in Preparing
<1>1. x \in Insts \X Rels /\ op.inst \in Insts /\ LedgerTypeOK
  BY DEF Preparing, LedgerInv, FreshIds, InstallCommit
<1>2. PICK e \in op.entry : op.entry = {e} /\ (FirstEntry(e) \/ UpdatedEntry(e))
  BY DEF InstallCommit, LedgerInv, InstallHolds
<1>3. e \in Entry /\ ledger' = Put(op.inst, e)
  BY <1>2 DEF InstallCommit, LedgerInv, LedgerTypeOK, Op
<1>4. \A s \in {e.active, e.pending} : s.rel = op.rel => s.st # "Preparing"
  BY <1>2 DEF InstallCommit, ArrivesUnprepared
<1>5. IF x[1] = op.inst THEN Prepares(e, x[2]) ELSE x \in Preparing
  BY <1>1, <1>3, PreparingAfterPut
<1>6. CASE FirstEntry(e)
  BY <1>4, <1>5, <1>6 DEF FirstEntry, Prepares, NoSlot
<1>7. CASE UpdatedEntry(e) /\ x[1] = op.inst
  <2>1. op.inst \in DOMAIN ledger /\ Prepares(ledger[op.inst], x[2])
    BY <1>4, <1>5, <1>7 DEF UpdatedEntry, Prepares
  <2> QED BY <1>1, <1>7, <2>1, PreparingMeans
<1> QED BY <1>2, <1>5, <1>6, <1>7

\* The other commands prepare nothing: they move slots, add releases that wait
\* or are ready, or put back what an uninstall took out.
LEMMA OthersPrepareNothing ==
  ASSUME LedgerInv, LedgerTypeOK', ArrivesUnprepared,
         MainThreadCommand \/ InstallFromUrl \/ LockHolder \/ Lifecycle,
         NEW x \in Preparing', x[1] \notin damaged', x \notin Preparing
  PROVE  op.kind = "emptying" /\ x[1] = op.inst /\ \E e \in op.entry : Prepares(e, x[2])
<1>0. LedgerTypeOK /\ FreshIds
  BY DEF LedgerInv
<1>1. ASSUME ledger' = ledger \/ \E S : ledger' = Drop(S) PROVE FALSE
  BY <1>0, <1>1, PreparingAfterDrop
<1>2. ASSUME NEW p, NEW r, NEW o, NEW prot, InstallStage(p, r, o, prot) PROVE FALSE
  BY <1>1, <1>2 DEF InstallStage
<1>3. CASE MainThreadCommand
  <2>1. ASSUME NEW i \in Insts, DiscardPending(i) \/ Rollback(i) PROVE FALSE
    BY <1>0, <2>1, SlotMovesPrepareNothing
  <2>2. ASSUME NEW i \in Insts, UninstallMove(i) PROVE FALSE
    BY <1>1, <2>2 DEF UninstallMove
  <2>3. ASSUME NEW d \in DevDirs, UnregisterDevDir(d) PROVE FALSE
    BY <1>1, <2>3 DEF UnregisterDevDir
  <2>4. ASSUME NEW d \in DevDirs, NEW p \in DevPackages, RegisterDevDir(d, p) PROVE FALSE
    <3>1. PICK i \in Insts : ledger' = Put(i, DevEntry(d, p))
      BY <1>0, <2>4, DevBegins
    <3>2. DevEntry(d, p) \in Entry
      BY DEF DevEntry, Entry, Packages, Origins, Filled, Rels, Statuses, Slot, NoSlot
    <3>3. x[1] = i /\ Prepares(DevEntry(d, p), x[2])
      BY <1>0, <3>1, <3>2, PreparingAfterPut
    <3> QED BY <3>3 DEF Prepares, DevEntry, NoSlot
  <2> QED BY <1>2, <1>3, <2>1, <2>2, <2>3, <2>4 DEF MainThreadCommand, Install
<1>4. CASE InstallFromUrl
  BY <1>2, <1>4 DEF InstallFromUrl, Install
<1>5. CASE LockHolder
  <2>1. CASE InstallCommit
    BY <2>1, CommitPreparesNothing DEF InstallCommit
  <2>2. CASE UninstallEmptyFails
    <3>1. PICK e \in op.entry : ledger' \in {ledger, Put(op.inst, e)}
      BY <2>2 DEF UninstallEmptyFails
    <3>2. op.kind = "emptying" /\ op.inst \in Insts /\ e \in Entry
      BY <1>0, <2>2, <3>1 DEF UninstallEmptyFails, LedgerTypeOK, FreshIds, Op
    <3>3. x[1] = op.inst /\ Prepares(e, x[2])
      BY <1>0, <1>1, <3>1, <3>2, PreparingAfterPut
    <3> QED BY <3>2, <3>3
  <2>3. CASE InstallAbort \/ Purge \/ UninstallAbort \/ UninstallEmpty \/ DevLoads
    BY <1>1, <2>3 DEF InstallAbort, Purge, UninstallAbort, UninstallEmpty, DevLoads
  <2>4. CASE UninstallCommit \/ DevFailsToLoad
    BY <1>1, <2>4 DEF UninstallCommit, DevFailsToLoad
  <2> QED BY <1>5, <2>1, <2>2, <2>3, <2>4 DEF LockHolder
<1>6. CASE Lifecycle
  BY <1>1, <1>2, <1>6
     DEF Lifecycle, Boot, BootRefuses, BootSkips, BootInstalls, BootDone, Quit, Crash
<1> QED BY <1>3, <1>4, <1>5, <1>6

-----------------------------------------------------------------------------
(* The inductive invariant, conjunct by conjunct                           *)

\* What a call selected is an installation and a release.
LEMMA CallTypes ==
  ASSUME StartTypeOK, NEW c \in Calls, call[c].at # "idle"
  PROVE  call[c].inst \in Insts /\ call[c].rel \in Rels
BY DEF StartTypeOK, CallRec

\* A call moves on, and nothing else of the calls changes.
LEMMA CallGoesOn ==
  ASSUME StartTypeOK, NEW c \in Calls, NEW place \in Places, Goes(c, place)
  PROVE  /\ call' \in [Calls -> CallRec]
         /\ call'[c].at = place /\ call'[c].inst = call[c].inst /\ call'[c].rel = call[c].rel
         /\ \A d \in Calls : d # c => call'[d] = call[d]
<1>1. call \in [Calls -> CallRec] /\ call' = [call EXCEPT ![c].at = place]
  BY DEF StartTypeOK, Goes
<1>2. call'[c] = [call[c] EXCEPT !.at = place] /\ \A d \in Calls : d # c => call'[d] = call[d]
  BY <1>1
<1>3. call'[c] \in CallRec
  BY <1>1, <1>2 DEF CallRec
<1> QED BY <1>1, <1>2, <1>3 DEF CallRec

\* A call ends, and nothing else of the calls changes.
LEMMA EndsHere ==
  ASSUME StartTypeOK, NEW c \in Calls, Ends(c)
  PROVE  /\ call' \in [Calls -> CallRec]
         /\ call'[c].at = "idle"
         /\ \A d \in Calls : d # c => call'[d] = call[d]
BY DEF StartTypeOK, Ends, NoCall, CallRec, Places

\* The types of the calls: what Select reads is an entry.
LEMMA StartTypeStep ==
  ASSUME LedgerTypeOK, StartTypeOK, StartNext
  PROVE  StartTypeOK'
<1>1. ASSUME NEW c \in Calls, call[c].at # "idle", UNCHANGED preview,
             (\E place \in Places : Goes(c, place)) \/ Ends(c),
             leftover' \in {leftover, leftover \cup {<<call[c].inst, call[c].rel>>},
                            leftover \ {<<call[c].inst, call[c].rel>>}}
      PROVE  StartTypeOK'
  <2>1. call[c].inst \in Insts /\ call[c].rel \in Rels
    BY <1>1, CallTypes
  <2>2. leftover' \in SUBSET (Insts \X Rels)
    BY <1>1, <2>1 DEF StartTypeOK
  <2>3. call' \in [Calls -> CallRec] /\ \A d \in Calls : d # c => call'[d] = call[d]
    BY <1>1, CallGoesOn, EndsHere
  <2>4. call'[c].at # "idle" => call'[c].inst # 0 /\ call'[c].rel # None
    BY <1>1, CallGoesOn, EndsHere DEF StartTypeOK
  <2> QED BY <1>1, <2>2, <2>3, <2>4 DEF StartTypeOK
<1>2. ASSUME NEW c \in Calls, CallStep(c) PROVE StartTypeOK'
  <2> USE <1>1 DEF Places
  <2>1. CASE MarkPreparing(c)
    BY <2>1 DEF MarkPreparing
  <2>2. CASE Spawn(c) \/ Survives(c) \/ RunFails(c) \/ RunPanics(c)
    BY <2>2 DEF Spawn, Survives, RunFails, RunPanics
  <2>3. CASE MarkReady(c)
    BY <2>3 DEF MarkReady
  <2>4. CASE ActivateStarted(c) \/ DiscardFailed(c)
    BY <2>4 DEF ActivateStarted, DiscardFailed
  <2>5. CASE MarkFailed(c)
    BY <2>5 DEF MarkFailed
  <2> QED BY <1>2, <2>1, <2>2, <2>3, <2>4, <2>5 DEF CallStep
<1>3. ASSUME NEW c \in Calls, NEW i \in Insts, Select(c, i) PROVE StartTypeOK'
  <2> DEFINE e == ledger[i]
             r == IF e.pending.rel # None THEN e.pending.rel ELSE e.active.rel
             new == [at |-> "selected", inst |-> i, pend |-> e.pending.rel # None, rel |-> r]
  <2>1. e \in Entry
    BY <1>3 DEF Select, LedgerTypeOK
  <2>2. r \in Rels /\ r # None /\ i # 0
    BY <2>1, LedgerAssumption DEF Entry, Filled, Slot, Insts
  <2>3. call' = [call EXCEPT ![c] = new] /\ UNCHANGED <<preview, leftover>>
    BY <1>3 DEF Select
  <2>4. new \in CallRec
    BY <2>2 DEF CallRec, Places
  <2>5. new.at = "selected" /\ new.inst # 0 /\ new.rel # None
    BY <2>2
  <2> HIDE DEF new, r
  <2> QED BY <2>3, <2>4, <2>5 DEF StartTypeOK
<1>4. CASE ActivateClient
  BY <1>4 DEF ActivateClient, StartTypeOK
<1>5. ASSUME NEW i \in Insts, PreviewClient(i) PROVE StartTypeOK'
  BY <1>5 DEF PreviewClient, StartTypeOK
<1>6. CASE OtherCommand
  BY <1>6 DEF OtherCommand, StartTypeOK, callVars, Preparing
<1>7. CASE AppEnds
  <2>1. call' \in [Calls -> CallRec] /\ \A c \in Calls : call'[c].at = "idle"
    BY <1>7 DEF AppEnds, NoCall, CallRec, Places
  <2> QED BY <1>7, <2>1 DEF AppEnds, StartTypeOK, Preparing
<1> QED BY <1>2, <1>3, <1>4, <1>5, <1>6, <1>7 DEF StartNext

\* A slot write leaves the operation alone, or begins a deletion.
LEMMA SlotWriteOp ==
  ASSUME NEW i,
         \/ ActivatePending(i) \/ DiscardPending(i) \/ Rollback(i)
         \/ \E r, st : MarkDependencyStatus(i, r, st)
  PROVE  op' = op \/ op'.kind \in {"idle", "purge"}
<1>1. \A s : PurgeAfter(i, s).kind \in {"idle", "purge"}
  BY DEF PurgeAfter, Idle
<1> QED BY <1>1 DEF ActivatePending, DiscardPending, Rollback, MarkDependencyStatus

\* An install begins as one.
LEMMA StageOp ==
  ASSUME NEW p, NEW r, NEW o, NEW prot, InstallStage(p, r, o, prot)
  PROVE  op'.kind = "install"
BY DEF InstallStage, Idle

\* An installation begins with its check, or goes on.
LEMMA InstallBegins ==
  ASSUME LedgerTypeOK, LedgerNext, op'.kind = "install"
  PROVE  \/ op' = op
         \/ \E p \in Packages, r \in Releases, o \in Origins, prot \in BOOLEAN :
              InstallStage(p, r, o, prot)
<1>1. CASE MainThreadCommand
  BY <1>1, SlotWriteOp, StageOp
     DEF MainThreadCommand, Install, UninstallMove, UnregisterDevDir,
         RegisterDevDir, Idle, Packages, Origins
<1>2. CASE InstallFromUrl
  BY <1>2 DEF InstallFromUrl, Install, Packages, Origins
<1>3. CASE StatusCommand
  BY <1>3, SlotWriteOp DEF StatusCommand
<1>4. CASE LockHolder
  <2>1. UninstallCommit => op'.kind = "emptying"
    BY DEF UninstallCommit, LedgerTypeOK, Op
  <2> QED BY <1>4, <2>1
             DEF Idle, LockHolder, InstallCommit, InstallAbort, Purge, UninstallAbort,
                 UninstallEmpty, UninstallEmptyFails, DevLoads, DevFailsToLoad
<1>5. CASE Lifecycle
  <2>1. CASE BootInstalls
    <3>1. BuiltinSeq[todo] \in Builtins
      BY <2>1 DEF BootInstalls, Booting, LedgerTypeOK, Builtins
    <3>2. bundle[BuiltinSeq[todo]] \in Releases
      BY <3>1, LedgerAssumption DEF LedgerTypeOK
    <3> QED BY <2>1, <3>1, <3>2 DEF BootInstalls, Packages, Origins
  <2> QED BY <1>5, <2>1 DEF Lifecycle, Boot, BootRefuses, BootSkips, BootDone, Quit, Crash, Idle
<1> QED BY <1>1, <1>2, <1>3, <1>4, <1>5 DEF LedgerNext

\* The trash is emptied once the ledger has been written.
LEMMA EmptyingBegins ==
  ASSUME LedgerTypeOK, LedgerNext, op'.kind = "emptying"
  PROVE  op' = op \/ UninstallCommit
<1>1. CASE MainThreadCommand \/ InstallFromUrl
  BY <1>1, SlotWriteOp, StageOp
     DEF MainThreadCommand, InstallFromUrl, Install, UninstallMove, UnregisterDevDir,
         RegisterDevDir, Idle
<1>2. CASE StatusCommand
  BY <1>2, SlotWriteOp DEF StatusCommand
<1>3. CASE LockHolder
  BY <1>3 DEF Idle, LockHolder, InstallCommit, InstallAbort, Purge, UninstallAbort,
              UninstallEmpty, UninstallEmptyFails, DevLoads, DevFailsToLoad
<1>4. CASE Lifecycle
  <2>1. CASE BootInstalls
    BY <2>1, StageOp DEF BootInstalls
  <2> QED BY <1>4, <2>1 DEF Lifecycle, Boot, BootRefuses, BootSkips, BootDone, Quit, Crash, Idle
<1> QED BY <1>1, <1>2, <1>3, <1>4 DEF LedgerNext

\* What an install stores waits, or is a builtin: it is not being prepared.
LEMMA ArrivesStep ==
  ASSUME LedgerTypeOK, FreshIds, ArrivesUnprepared, LedgerNext
  PROVE  ArrivesUnprepared'
<1>1. ASSUME NEW p \in Packages, NEW r \in Releases, NEW o \in Origins, NEW prot \in BOOLEAN,
             InstallStage(p, r, o, prot)
      PROVE  ArrivesUnprepared'
  <2> DEFINE e == NewEntry(p, r, o, prot)
             old == ledger[Lowest(OfPackage(p))]
             s == [rel |-> r, st |-> IF o = "Builtin" THEN "Ready" ELSE "Pending"]
  <2>1. op'.entry = {e} /\ op'.rel = r
    BY <1>1, StageBegins
  <2>2. s.st # "Preparing"
    OBVIOUS
  <2>3. CASE OfPackage(p) = {}
    <3>1. e.active = s /\ e.pending = NoSlot
      BY <2>3 DEF NewEntry
    <3> QED BY <2>1, <2>2, <3>1 DEF ArrivesUnprepared, NoSlot
  <2>4. CASE OfPackage(p) # {}
    <3>1. old \in Entry
      BY <2>4, OfPackageType, LowestMember DEF LedgerTypeOK
    <3>2. old.active.rel # r /\ old.pending.rel # r
      BY <1>1, <2>4 DEF InstallStage, Installable
    <3>3. e = IF o = "Builtin" THEN [old EXCEPT !.active = s, !.previous = old.active]
                               ELSE [old EXCEPT !.pending = s]
      BY <2>4 DEF NewEntry
    <3> HIDE DEF old, s, e
    <3>4. \/ e.active = s /\ e.pending = old.pending
          \/ e.active = old.active /\ e.pending = s
      BY <3>1, <3>3 DEF Entry
    <3> QED BY <2>1, <2>2, <3>2, <3>4 DEF ArrivesUnprepared
  <2> QED BY <2>3, <2>4
<1> QED BY <1>1, InstallBegins DEF ArrivesUnprepared

\* A call at work on a release.
AtWork(c, x) ==
  /\ call[c].at \in {"running", "spawned", "started", "failed"}
  /\ <<call[c].inst, call[c].rel>> = x

\* A call leaves no trash to empty, and takes an excuse back only under the
\* lock, when nothing is in the trash.
LEMMA CallTrash ==
  ASSUME NEW c \in Calls, CallStep(c)
  PROVE  op'.kind # "emptying" \/ (op' = op /\ leftover \subseteq leftover')
<1>1. CASE MarkPreparing(c)
  BY <1>1 DEF MarkPreparing, MarkDependencyStatus, CannotRecord, Serving, Idle, ledgerVars
<1>2. CASE Spawn(c) \/ Survives(c) \/ RunFails(c) \/ RunPanics(c)
  BY <1>2 DEF Spawn, Survives, RunFails, RunPanics, ledgerVars
<1>3. CASE MarkReady(c) \/ MarkFailed(c)
  BY <1>3 DEF MarkReady, MarkFailed, MarkDependencyStatus, CannotRecord, ledgerVars
<1>4. CASE ActivateStarted(c) \/ DiscardFailed(c)
  BY <1>4, SlotWriteOp DEF ActivateStarted, DiscardFailed, ledgerVars
<1> QED BY <1>1, <1>2, <1>3, <1>4 DEF CallStep

\* What an uninstall takes out of the ledger is excused when it does.
LEMMA TrashStep ==
  ASSUME LedgerInv, TrashExcused, StartNext
  PROVE  TrashExcused'
<1>0. LedgerTypeOK
  BY DEF LedgerInv
<1>1. ASSUME op'.kind # "emptying" \/ (op' = op /\ leftover \subseteq leftover')
      PROVE  TrashExcused'
  BY <1>1 DEF TrashExcused
<1>2. ASSUME NEW c \in Calls, CallStep(c) \/ \E i \in Insts : Select(c, i)
      PROVE  TrashExcused'
  BY <1>1, <1>2, CallTrash DEF Select, ledgerVars
<1>3. CASE ActivateClient \/ \E i \in Insts : PreviewClient(i)
  BY <1>1, <1>3, SlotWriteOp DEF ActivateClient, PreviewClient, ledgerVars
<1>4. CASE OtherCommand
  <2>1. LedgerNext /\ leftover \subseteq leftover'
    BY <1>4 DEF OtherCommand, LedgerNext, Lifecycle
  <2>2. CASE UninstallCommit
    <3>1. op.inst \in DOMAIN ledger \cap damaged /\ op.entry = {ledger[op.inst]}
      BY <2>2 DEF UninstallCommit, LedgerInv, UninstallHolds
    <3>2. op'.inst = op.inst /\ op'.entry = op.entry
      BY <1>0, <2>2 DEF UninstallCommit, LedgerTypeOK, Op
    <3>3. \A r \in Rels : Prepares(ledger[op.inst], r) => <<op.inst, r>> \in Preparing
      BY <1>0, <3>1, PreparingMeans DEF LedgerTypeOK
    <3>4. \A x \in Preparing : x[1] \in damaged => x \in leftover'
      BY <1>4 DEF OtherCommand
    <3> QED BY <3>1, <3>2, <3>3, <3>4 DEF TrashExcused
  <2> QED BY <1>0, <1>1, <2>1, <2>2, EmptyingBegins
<1>5. CASE AppEnds
  BY <1>1, <1>5 DEF AppEnds, Quit, Crash, Idle
<1> QED BY <1>2, <1>3, <1>4, <1>5 DEF StartNext

\* A status goes to the slot that holds the release: the only one, unless an
\* uninstall was interrupted.
LEMMA StatusRecorded ==
  ASSUME LedgerInv, LedgerTypeOK', NEW i \in Insts, NEW r \in Rels, NEW st \in MarkStatuses,
         MarkDependencyStatus(i, r, st), NEW x \in Preparing'
  PROVE  /\ x = <<i, r>> \/ x \in Preparing
         /\ st # "Preparing" /\ i \notin damaged => x # <<i, r>>
<1> DEFINE old == ledger[i]
           a == [old EXCEPT !.active.st = st]
           b == [old EXCEPT !.pending.st = st]
           c == [old EXCEPT !.previous.st = st]
<1>1. LedgerTypeOK /\ i \in DOMAIN ledger /\ old \in Entry /\ x \in Insts \X Rels /\ st \in Statuses
  BY LedgerAssumption DEF LedgerInv, LedgerTypeOK, MarkDependencyStatus, Preparing, Statuses
<1>2. a \in Entry /\ b \in Entry /\ c \in Entry
  BY <1>1 DEF Entry, Filled, Slot
<1>3. i \notin damaged => DistinctSlots(old)
  BY <1>1 DEF LedgerInv, SlotsDistinct
<1>4. \/ old.active.rel = r /\ ledger' = Put(i, a)
      \/ old.active.rel # r /\ old.pending.rel = r /\ ledger' = Put(i, b)
      \/ old.active.rel # r /\ old.pending.rel # r /\ old.previous.rel = r /\ ledger' = Put(i, c)
  BY DEF MarkDependencyStatus
<1>5. x[1] # i => x \in Preparing /\ x # <<i, r>>
  BY <1>1, <1>2, <1>4, PreparingAfterPut
<1>6. CASE x[1] = i
  <2>1. x = <<i, x[2]>> /\ x[2] \in Rels /\ r # None
    BY <1>1, <1>6, LedgerAssumption
  <2>2. Prepares(old, x[2]) => x \in Preparing
    BY <1>1, <1>6, PreparingMeans
  <2>3. ASSUME old.active.rel = r, ledger' = Put(i, a)
        PROVE  /\ x[2] = r \/ Prepares(old, x[2])
               /\ st # "Preparing" /\ i \notin damaged => x[2] # r
    <3>1. Prepares(a, x[2])
      BY <1>1, <1>2, <1>6, <2>3, PreparingAfterPut
    <3> QED BY <1>1, <1>3, <2>1, <2>3, <3>1 DEF Prepares, DistinctSlots, Entry, Filled, Slot
  <2>4. ASSUME old.active.rel # r, old.pending.rel = r, ledger' = Put(i, b)
        PROVE  /\ x[2] = r \/ Prepares(old, x[2])
               /\ st # "Preparing" /\ i \notin damaged => x[2] # r
    <3>1. Prepares(b, x[2])
      BY <1>1, <1>2, <1>6, <2>4, PreparingAfterPut
    <3> QED BY <1>1, <1>3, <2>1, <2>4, <3>1 DEF Prepares, DistinctSlots, Entry, Filled, Slot
  <2>5. ASSUME old.active.rel # r, old.pending.rel # r, old.previous.rel = r, ledger' = Put(i, c)
        PROVE  /\ x[2] = r \/ Prepares(old, x[2])
               /\ st # "Preparing" /\ i \notin damaged => x[2] # r
    <3>1. Prepares(c, x[2])
      BY <1>1, <1>2, <1>6, <2>5, PreparingAfterPut
    <3> QED BY <1>1, <1>3, <2>1, <2>5, <3>1 DEF Prepares, DistinctSlots, Entry, Filled, Slot
  <2> HIDE DEF old, a, b, c
  <2> QED BY <1>4, <2>1, <2>2, <2>3, <2>4, <2>5
<1> QED BY <1>5, <1>6

\* The other calls stay at work on what they are at work on.
LEMMA StillAtWork ==
  ASSUME PreparingHasAStart, NEW x \in Owed, NEW c \in Calls,
         \A d \in Calls : d # c => call'[d] = call[d],
         AtWork(c, x) => AtWork(c, x)'
  PROVE  \E d \in Calls : AtWork(d, x)'
<1>1. PICK d \in Calls : AtWork(d, x)
  BY DEF PreparingHasAStart, AtWork
<1> QED BY <1>1 DEF AtWork

\* The steps of one call: it takes up what it marks Preparing, and lets go of
\* it only when the status has been recorded or the fault noted.
LEMMA CallKeepsWorking ==
  ASSUME LedgerInv, LedgerTypeOK', StartInv, NEW c \in Calls, CallStep(c), NEW x \in Owed'
  PROVE  \E d \in Calls : AtWork(d, x)'
<1> DEFINE i == call[c].inst
           r == call[c].rel
<1>0. StartTypeOK /\ PreparingHasAStart /\ LedgerTypeOK
  BY DEF StartInv, LedgerInv
<1>1. x \in Preparing' /\ x \notin leftover' /\ x[1] \notin damaged'
  BY DEF Owed
<1>2. call[c].at # "idle" => i \in Insts /\ r \in Rels
  BY <1>0, CallTypes
<1>3. ASSUME Preparing' \subseteq Preparing, leftover \subseteq leftover', damaged' = damaged
      PROVE  x \in Owed
  BY <1>1, <1>3 DEF Owed
<1>4. ledgerVars' = ledgerVars => Preparing' = Preparing /\ damaged' = damaged
  BY DEF ledgerVars, Preparing
<1>5. CASE MarkPreparing(c)
  <2>1. ASSUME MarkDependencyStatus(i, r, "Preparing"), Goes(c, "running"),
               leftover' = leftover \ {<<i, r>>}
        PROVE  \E d \in Calls : AtWork(d, x)'
    <3>1. x = <<i, r>> => AtWork(c, x)'
      BY <1>0, <2>1, CallGoesOn DEF AtWork, Places
    <3>2. x # <<i, r>> => x \in Owed
      BY <1>1, <1>2, <1>5, <2>1, StatusRecorded, StartAssumption
         DEF Owed, MarkPreparing, MarkDependencyStatus
    <3>3. ~AtWork(c, x) /\ \A d \in Calls : d # c => call'[d] = call[d]
      BY <1>0, <1>5, <2>1, CallGoesOn DEF AtWork, MarkPreparing, Places
    <3> QED BY <1>0, <3>1, <3>2, <3>3, StillAtWork
  <2>2. ASSUME CannotRecord(c), Ends(c), UNCHANGED leftover
        PROVE  \E d \in Calls : AtWork(d, x)'
    <3>1. x \in Owed
      BY <1>3, <1>4, <2>2 DEF CannotRecord
    <3>2. ~AtWork(c, x) /\ \A d \in Calls : d # c => call'[d] = call[d]
      BY <1>0, <1>5, <2>2, EndsHere DEF AtWork, MarkPreparing
    <3> QED BY <1>0, <3>1, <3>2, StillAtWork
  <2> QED BY <1>5, <2>1, <2>2 DEF MarkPreparing
<1>6. CASE Spawn(c) \/ Survives(c) \/ RunFails(c)
  <2>1. x \in Owed
    BY <1>3, <1>4, <1>6 DEF Spawn, Survives, RunFails
  <2>2. PICK place \in {"spawned", "started", "failed"} : Goes(c, place)
    BY <1>6 DEF Spawn, Survives, RunFails
  <2>3. (AtWork(c, x) => AtWork(c, x)') /\ \A d \in Calls : d # c => call'[d] = call[d]
    BY <1>0, <2>2, CallGoesOn DEF AtWork, Places
  <2> QED BY <1>0, <2>1, <2>3, StillAtWork
<1>7. ASSUME x # <<i, r>> \/ call[c].at \in {"ready", "marked"},
             (\E place \in Places : Goes(c, place)) \/ Ends(c), x \in Owed
      PROVE  \E d \in Calls : AtWork(d, x)'
  <2>1. ~AtWork(c, x) /\ \A d \in Calls : d # c => call'[d] = call[d]
    BY <1>0, <1>7, CallGoesOn, EndsHere DEF AtWork
  <2> QED BY <1>0, <1>7, <2>1, StillAtWork
<1>8. CASE RunPanics(c)
  <2>1. x # <<i, r>> /\ x \in Owed /\ Ends(c)
    BY <1>1, <1>3, <1>4, <1>8 DEF RunPanics
  <2> QED BY <1>7, <2>1
<1>9. CASE MarkReady(c) \/ MarkFailed(c)
  <2>1. (\E place \in Places : Goes(c, place)) \/ Ends(c)
    BY <1>9 DEF MarkReady, MarkFailed, Places
  <2>2. ASSUME NEW st \in {"Ready", "Failed"}, MarkDependencyStatus(i, r, st), UNCHANGED leftover
        PROVE  x # <<i, r>> /\ x \in Owed
    <3>1. i \in Insts /\ r \in Rels /\ st \in MarkStatuses /\ st # "Preparing"
      BY <1>2, <1>9, <2>2, StartAssumption DEF MarkReady, MarkFailed
    <3>2. damaged' = damaged
      BY <2>2 DEF MarkDependencyStatus
    <3>3. /\ x = <<i, r>> \/ x \in Preparing
          /\ i \notin damaged => x # <<i, r>>
      BY <1>1, <2>2, <3>1, StatusRecorded
    <3>4. x = <<i, r>> => x[1] = i
      OBVIOUS
    <3> HIDE DEF i, r
    <3> QED BY <1>1, <2>2, <3>2, <3>3, <3>4 DEF Owed
  <2>3. ASSUME CannotRecord(c), leftover' = leftover \cup {<<i, r>>}
        PROVE  x # <<i, r>> /\ x \in Owed
    BY <1>1, <1>3, <1>4, <2>3 DEF CannotRecord
  <2> QED BY <1>7, <1>9, <2>1, <2>2, <2>3 DEF MarkReady, MarkFailed
<1>10. CASE ActivateStarted(c) \/ DiscardFailed(c)
  <2>1. call[c].at \in {"ready", "marked"} /\ Ends(c) /\ UNCHANGED leftover
    BY <1>10 DEF ActivateStarted, DiscardFailed
  <2>2. ActivatePending(i) \/ DiscardPending(i) \/ ledgerVars' = ledgerVars
    BY <1>10 DEF ActivateStarted, DiscardFailed
  <2>3. Preparing' \subseteq Preparing /\ damaged' = damaged
    BY <1>0, <1>2, <1>4, <2>1, <2>2, SlotMovesPrepareNothing DEF ActivatePending, DiscardPending
  <2> QED BY <1>3, <1>7, <2>1, <2>3
<1> QED BY <1>5, <1>6, <1>8, <1>9, <1>10 DEF CallStep

\* The other steps: nothing begins to be prepared in them, and what they
\* leave behind is noted.
LEMMA OthersKeepWorking ==
  ASSUME LedgerInv, LedgerTypeOK', StartInv, NEW x \in Owed',
         \/ ActivateClient \/ OtherCommand \/ AppEnds
         \/ \E i \in Insts : PreviewClient(i) \/ \E c \in Calls : Select(c, i)
  PROVE  \E d \in Calls : AtWork(d, x)'
<1>0. StartTypeOK /\ PreparingHasAStart /\ LedgerTypeOK /\ TrashExcused /\ ArrivesUnprepared
  BY DEF StartInv, LedgerInv
<1>1. x \in Preparing' /\ x \notin leftover' /\ x[1] \notin damaged'
  BY DEF Owed
<1>2. ASSUME x \in Owed, UNCHANGED call PROVE \E d \in Calls : AtWork(d, x)'
  BY <1>0, <1>2 DEF PreparingHasAStart, AtWork
<1>3. ledgerVars' = ledgerVars => Preparing' = Preparing /\ damaged' = damaged
  BY DEF ledgerVars, Preparing
<1>4. CASE ActivateClient
  <2>1. preview \in Insts /\ UNCHANGED <<call, leftover>>
    BY <1>0, <1>4 DEF ActivateClient, StartTypeOK
  <2>2. Preparing' \subseteq Preparing /\ damaged' = damaged
    BY <1>0, <1>3, <1>4, <2>1, SlotMovesPrepareNothing DEF ActivateClient, ActivatePending
  <2> QED BY <1>1, <1>2, <2>1, <2>2 DEF Owed
<1>5. ASSUME NEW i \in Insts, PreviewClient(i) PROVE \E d \in Calls : AtWork(d, x)'
  BY <1>1, <1>2, <1>3, <1>5 DEF PreviewClient, Owed
<1>6. ASSUME NEW i \in Insts, NEW c \in Calls, Select(c, i) PROVE \E d \in Calls : AtWork(d, x)'
  <2>1. x \in Owed
    BY <1>1, <1>3, <1>6 DEF Select, Owed
  <2>2. ~AtWork(c, x) /\ \A d \in Calls : d # c => call'[d] = call[d]
    BY <1>0, <1>6 DEF Select, AtWork, StartTypeOK
  <2> QED BY <1>0, <2>1, <2>2, StillAtWork
<1>7. CASE OtherCommand
  <2>1. MainThreadCommand \/ InstallFromUrl \/ LockHolder \/ Lifecycle
    BY <1>7 DEF OtherCommand, Lifecycle
  <2>2. UNCHANGED call /\ leftover' = leftover \cup {y \in Preparing : y[1] \in damaged}
    BY <1>7 DEF OtherCommand, callVars
  <2>3. x \in Preparing
    <3>1. SUFFICES ASSUME x \notin Preparing PROVE FALSE
      OBVIOUS
    <3>2. op.kind = "emptying" /\ x[1] = op.inst /\ \E e \in op.entry : Prepares(e, x[2])
      BY <1>0, <1>1, <2>1, <3>1, OthersPrepareNothing
    <3>3. x \in Insts \X Rels
      BY <1>1 DEF Preparing
    <3>4. x = <<op.inst, x[2]>> /\ x[2] \in Rels
      BY <3>2, <3>3
    <3> QED BY <1>0, <1>1, <2>2, <3>2, <3>4 DEF TrashExcused
  <2> QED BY <1>1, <1>2, <2>2, <2>3 DEF Owed
<1>8. CASE AppEnds
  <2>1. Preparing' = Preparing /\ Preparing \subseteq leftover'
    BY <1>8 DEF AppEnds, Quit, Crash, Preparing
  <2> QED BY <1>1, <2>1
<1> QED BY <1>4, <1>5, <1>6, <1>7, <1>8

\* Every step of the calls, the commands and the application.
LEMMA StartInvStep ==
  ASSUME LedgerInv, LedgerInv', StartInv, [StartNext]_startVars
  PROVE  StartInv'
<1>0. LedgerTypeOK /\ LedgerTypeOK' /\ FreshIds /\ StartTypeOK /\ TrashExcused /\ ArrivesUnprepared
  BY DEF LedgerInv, StartInv
<1>1. CASE UNCHANGED startVars
  <2>1. UNCHANGED <<op, leftover, call, preview, ledger, damaged>>
    BY <1>1 DEF startVars, ledgerVars
  <2> QED BY <2>1 DEF StartInv, StartTypeOK, ArrivesUnprepared, TrashExcused, PreparingHasAStart,
                      Owed, Preparing
<1>2. CASE StartNext
  <2>1. StartTypeOK' /\ TrashExcused'
    BY <1>0, <1>2, StartTypeStep, TrashStep
  <2>2. ArrivesUnprepared'
    <3>1. [LedgerNext]_ledgerVars
      BY <1>0, <1>2, StartStepIsLedgerStep
    <3>2. CASE UNCHANGED ledgerVars
      BY <1>0, <3>2 DEF ArrivesUnprepared, ledgerVars
    <3> QED BY <1>0, <3>1, <3>2, ArrivesStep
  <2>3. ASSUME NEW x \in Owed' PROVE \E d \in Calls : AtWork(d, x)'
    BY <1>0, <1>2, CallKeepsWorking, OthersKeepWorking DEF StartNext
  <2>4. PreparingHasAStart'
    BY <2>3 DEF PreparingHasAStart, AtWork
  <2> QED BY <2>1, <2>2, <2>4 DEF StartInv
<1> QED BY <1>1, <1>2

LEMMA StartInvInit == StartInit => StartInv
<1> SUFFICES ASSUME StartInit PROVE StartInv
  OBVIOUS
<1>1. StartTypeOK
  BY DEF StartInit, StartTypeOK, NoCall, CallRec, Places
<1>2. Preparing = {}
  BY DEF StartInit, LedgerInit, Preparing
<1> QED BY <1>1, <1>2 DEF StartInit, LedgerInit, StartInv, ArrivesUnprepared, TrashExcused,
                          PreparingHasAStart, Owed, Idle

-----------------------------------------------------------------------------
(* Theorems                                                                *)

\* The types of the calls need the types of the ledger they read, and the
\* steps of the calls are steps of the ledger given their own types: so both
\* are proved together.
LEMMA StartAndLedgerStep ==
  LedgerInv /\ StartInv /\ [StartNext]_startVars => (LedgerInv /\ StartInv)'
<1> SUFFICES ASSUME LedgerInv, StartInv, [StartNext]_startVars PROVE (LedgerInv /\ StartInv)'
  OBVIOUS
<1>1. LedgerInv'
  BY StartStepIsLedgerStep, InvStep DEF StartInv
<1> QED BY <1>1, StartInvStep

LEMMA StartAndLedgerInv == StartSpec => [](LedgerInv /\ StartInv)
<1>1. StartInit => LedgerInv /\ StartInv
  BY InvInit, StartInvInit DEF StartInit
<1> QED BY <1>1, StartAndLedgerStep, PTL DEF StartSpec

\* A call selects an installation and a release, in every state.
THEOREM StartTypeCorrect == StartSpec => []StartTypeOK
<1>1. StartInv => StartTypeOK
  BY DEF StartInv
<1> QED BY <1>1, StartAndLedgerInv, PTL

\* No release stays Preparing without a start at work on it, wherever the
\* other commands have moved it, for any number of starts of any
\* installations.
THEOREM PreparingAccounted == StartSpec => []PreparingHasAStart
<1>1. StartInv => PreparingHasAStart
  BY DEF StartInv
<1> QED BY <1>1, StartAndLedgerInv, PTL
=============================================================================
