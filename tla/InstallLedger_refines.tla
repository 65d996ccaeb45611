----------------------- MODULE InstallLedger_refines ------------------------
(***************************************************************************)
(* InstallLedger implements ReleaseSlots, and what its steps may never do. *)
(***************************************************************************)
EXTENDS InstallLedger_proofs

\* The refinement mapping, under names of its own.
slotsOf   == [i \in DOMAIN ledger |-> SlotsOf(ledger[i])]
leavingOf == IF op.kind = "emptying" THEN {<<op.inst, SlotsOf(e)>> : e \in op.entry} ELSE {}

AbstractNext == Abstract!SlotNext
AbstractStep == AbstractNext \/ UNCHANGED <<slotsOf, leavingOf>>

\* One ledger write is one change of the slots.
LEMMA PutSlots ==
  ASSUME LedgerTypeOK, NEW i \in Insts, NEW e \in Entry, ledger' = Put(i, e)
  PROVE  slotsOf' = Abstract!With(i, SlotsOf(e))
<1>1. /\ DOMAIN ledger' = DOMAIN ledger \cup {i}
      /\ ledger'[i] = e
      /\ \A j \in DOMAIN ledger : j # i => ledger'[j] = ledger[j]
  BY PutType
<1> QED BY <1>1 DEF slotsOf, Abstract!With

\* The removal of entries removes their slots.
LEMMA DropSlots ==
  ASSUME LedgerTypeOK, NEW S, ledger' = Drop(S)
  PROVE  slotsOf' = Abstract!Without(S)
BY DropType DEF slotsOf, Abstract!Without, Drop

\* No entries, no slots.
LEMMA RefinesInit == LedgerInit => Abstract!SlotInit
BY DEF LedgerInit, Abstract!SlotInit, Idle

\* Nothing but an uninstall can be taken back.
LEMMA NotLeaving ==
  /\ op.kind # "emptying" => leavingOf = {}
  /\ op'.kind # "emptying" => leavingOf' = {}
BY DEF leavingOf

\* The slots of an installation, spelled out.
LEMMA SlotsAt ==
  ASSUME LedgerTypeOK, NEW i \in DOMAIN ledger
  PROVE  /\ i \in DOMAIN slotsOf /\ i \in Insts
         /\ slotsOf[i] = [active |-> ledger[i].active.rel, pending |-> ledger[i].pending.rel,
                          previous |-> ledger[i].previous.rel]
         /\ {ledger[i].active.rel, ledger[i].pending.rel, ledger[i].previous.rel} \ {None} \subseteq Rels
         /\ ledger[i].active.rel # None
BY LedgerAssumption DEF slotsOf, SlotsOf, LedgerTypeOK, Entry, Filled, Slot

\* Work on disk that leaves the ledger alone is invisible.
LEMMA StutterSteps ==
  ASSUME LedgerInv, ledger' = ledger, op.kind # "emptying", op'.kind # "emptying"
  PROVE  AbstractStep
BY NotLeaving DEF AbstractStep, slotsOf

\* The abstract changes of slot, in terms of slotsOf.
LEMMA AbstractChanges ==
  ASSUME NEW i, NEW r, Abstract!Settled
  PROVE  LET s == slotsOf[i] IN
         /\ Abstract!Supersede(i, r) <=>
              /\ r \notin {s.active, s.pending}
              /\ slotsOf' = Abstract!With(i, Abstract!Has(r, s.pending, s.active))
         /\ Abstract!Stage(i, r) <=>
              /\ s.pending = None /\ r # s.active
              /\ slotsOf' = Abstract!With(i, Abstract!Has(s.active, r, s.previous))
         /\ Abstract!Promote(i) <=>
              /\ s.pending # None
              /\ slotsOf' = Abstract!With(i, Abstract!Has(s.pending, None, s.active))
         /\ Abstract!Discard(i) <=>
              /\ s.pending # None
              /\ slotsOf' = Abstract!With(i, Abstract!Has(s.active, None, s.previous))
         /\ Abstract!SwapBack(i) <=>
              /\ s.previous # None
              /\ slotsOf' = Abstract!With(i, Abstract!Has(s.previous, None, s.active))
BY DEF slotsOf, Abstract!Supersede, Abstract!Stage, Abstract!Promote, Abstract!Discard,
     Abstract!SwapBack

\* Each single change of slots is a step of the abstract specification.
LEMMA AbstractSteps ==
  ASSUME NEW i \in DOMAIN ledger, NEW r \in Rels,
         \/ Abstract!Supersede(i, r) \/ Abstract!Stage(i, r) \/ Abstract!Rebind(i, r)
         \/ Abstract!Promote(i) \/ Abstract!Discard(i) \/ Abstract!SwapBack(i)
         \/ Abstract!Uninstall(i)
  PROVE  AbstractStep
<1>1. i \in DOMAIN slotsOf
  BY DEF slotsOf
<1> QED BY <1>1 DEF AbstractStep, AbstractNext, Abstract!SlotNext, slotsOf

\* Storing the entry of an install is one change of the slots.
LEMMA CommitRefines ==
  ASSUME LedgerInv, InstallCommit
  PROVE  AbstractStep
<1>1. PICK e \in op.entry : op.entry = {e} /\ (FirstEntry(e) \/ UpdatedEntry(e))
  BY DEF LedgerInv, InstallHolds, InstallCommit
<1>2. /\ e \in Entry /\ op.inst \in Insts /\ op.rel \in Rels /\ op.rel # None
      /\ ledger' = Put(op.inst, e)
  BY <1>1, LedgerAssumption DEF LedgerInv, InstallHolds, InstallCommit, LedgerTypeOK, Op, Rels, FreshIds
<1>3. Abstract!Settled
  BY NotLeaving DEF InstallCommit, Idle, leavingOf, Abstract!Settled
<1>4. slotsOf' = Abstract!With(op.inst, SlotsOf(e))
  BY <1>2, PutSlots DEF LedgerInv
<1>5. CASE FirstEntry(e)
  <2>1. SlotsOf(e) = Abstract!Has(op.rel, None, None)
    BY <1>5 DEF FirstEntry, SlotsOf, Abstract!Has, NoSlot
  <2>2. Abstract!Add(op.inst, op.rel)
    BY <1>3, <1>4, <1>5, <2>1 DEF Abstract!Add, FirstEntry, slotsOf
  <2> QED BY <1>2, <2>2 DEF AbstractStep, AbstractNext, Abstract!SlotNext
<1>6. CASE UpdatedEntry(e)
  <2>1. op.inst \in DOMAIN ledger
    BY <1>6 DEF UpdatedEntry
  <2> DEFINE s == slotsOf[op.inst]
  <2>2. /\ op.inst \in DOMAIN slotsOf
        /\ s = [active |-> ledger[op.inst].active.rel, pending |-> ledger[op.inst].pending.rel,
                previous |-> ledger[op.inst].previous.rel]
    BY <2>1, SlotsAt DEF LedgerInv
  <2>3. op.rel \notin {s.active, s.pending}
    BY <1>6, <2>2 DEF UpdatedEntry
  <2>4. \/ SlotsOf(e) = Abstract!Has(op.rel, s.pending, s.active)
        \/ s.pending = None /\ SlotsOf(e) = Abstract!Has(s.active, op.rel, s.previous)
    BY <1>6, <2>2 DEF UpdatedEntry, SlotsOf, Abstract!Has
  <2>5. Abstract!Supersede(op.inst, op.rel) \/ Abstract!Stage(op.inst, op.rel)
    BY <1>3, <1>4, <2>3, <2>4, AbstractChanges
  <2> QED BY <1>2, <2>1, <2>5, AbstractSteps
<1> QED BY <1>1, <1>5, <1>6

\* Activation, discard, rollback; the dependency status changes no release.
LEMMA SlotCommandRefines ==
  ASSUME LedgerInv, NEW i \in Insts,
         \/ ActivatePending(i) \/ DiscardPending(i) \/ Rollback(i)
         \/ \E r \in Rels, st \in MarkStatuses : MarkDependencyStatus(i, r, st)
  PROVE  AbstractStep
<1> DEFINE old == ledger[i]
           s   == slotsOf[i]
<1>0. i \in DOMAIN ledger /\ op = Idle
  BY DEF ActivatePending, DiscardPending, Rollback, MarkDependencyStatus, Serving
<1>1. /\ old \in Entry /\ old.active \in Filled /\ old.active \in Slot
      /\ old.pending \in Slot /\ old.previous \in Slot
  BY <1>0, SlotFacts DEF LedgerInv, LedgerTypeOK, Entry
<1>2. s = [active |-> old.active.rel, pending |-> old.pending.rel, previous |-> old.previous.rel]
  BY <1>0, SlotsAt DEF LedgerInv
<1>3. op' = op \/ (\E t \in Slot : op' = PurgeAfter(i, t))
  BY <1>1 DEF ActivatePending, DiscardPending, Rollback, MarkDependencyStatus
<1>4. op.kind # "emptying" /\ op'.kind # "emptying"
  BY <1>0, <1>3, PurgeAfterOp DEF Idle
<1>5. Abstract!Settled
  BY <1>4, NotLeaving DEF leavingOf, Abstract!Settled
<1>6. PICK r \in Rels : TRUE
  BY <1>1 DEF Filled
<1>7. CASE ActivatePending(i)
  <2> DEFINE e == [old EXCEPT !.active = [rel |-> old.pending.rel, st |-> "Ready"],
                              !.pending = NoSlot, !.previous = old.active]
  <2>1. old.pending.rel # None /\ ledger' = Put(i, e)
    BY <1>7 DEF ActivatePending
  <2>2. [rel |-> old.pending.rel, st |-> "Ready"] \in Filled
    BY <1>1, <2>1 DEF Filled, Slot, Statuses
  <2>3. /\ e \in Entry
        /\ e.active.rel = old.pending.rel /\ e.pending = NoSlot /\ e.previous = old.active
    BY <1>1, <2>2, SlotFacts DEF Entry
  <2> HIDE DEF e
  <2>4. e \in Entry /\ SlotsOf(e) = Abstract!Has(s.pending, None, s.active)
    BY <1>2, <2>3 DEF SlotsOf, NoSlot, Abstract!Has
  <2> HIDE DEF s
  <2>5. slotsOf' = Abstract!With(i, SlotsOf(e))
    BY <2>1, <2>4, PutSlots DEF LedgerInv
  <2>6. Abstract!Promote(i)
    BY <1>2, <1>5, <1>6, <2>1, <2>4, <2>5, AbstractChanges DEF s
  <2> QED BY <1>0, <1>6, <2>6, AbstractSteps
<1>8. CASE DiscardPending(i)
  <2> DEFINE e == [old EXCEPT !.pending = NoSlot]
  <2>1. old.pending.rel # None /\ ledger' = Put(i, e)
    BY <1>8 DEF DiscardPending
  <2>3. /\ e \in Entry
        /\ SlotsOf(e) = Abstract!Has(s.active, None, s.previous)
    BY <1>1, <1>2, SlotFacts DEF Entry, SlotsOf, NoSlot, Abstract!Has
  <2> HIDE DEF e, s
  <2>4. slotsOf' = Abstract!With(i, SlotsOf(e))
    BY <2>1, <2>3, PutSlots DEF LedgerInv
  <2>5. Abstract!Discard(i)
    BY <1>2, <1>5, <1>6, <2>1, <2>3, <2>4, AbstractChanges DEF s
  <2> QED BY <1>0, <1>6, <2>5, AbstractSteps
<1>9. CASE Rollback(i)
  <2> DEFINE e == [old EXCEPT !.active = old.previous, !.pending = NoSlot,
                              !.previous = old.active]
  <2>1. old.previous.rel # None /\ ledger' = Put(i, e)
    BY <1>9 DEF Rollback
  <2>2. old.previous \in Filled
    BY <1>1, <2>1, SlotFacts
  <2>3. /\ e \in Entry
        /\ e.active.rel = old.previous.rel /\ e.pending = NoSlot /\ e.previous = old.active
    BY <1>1, <2>2, SlotFacts DEF Entry
  <2> HIDE DEF e
  <2>4. e \in Entry /\ SlotsOf(e) = Abstract!Has(s.previous, None, s.active)
    BY <1>2, <2>3 DEF SlotsOf, NoSlot, Abstract!Has
  <2> HIDE DEF s
  <2>5. slotsOf' = Abstract!With(i, SlotsOf(e))
    BY <2>1, <2>4, PutSlots DEF LedgerInv
  <2>6. Abstract!SwapBack(i)
    BY <1>2, <1>5, <1>6, <2>1, <2>4, <2>5, AbstractChanges DEF s
  <2> QED BY <1>0, <1>6, <2>6, AbstractSteps
<1>10. CASE \E q \in Rels, st \in MarkStatuses : MarkDependencyStatus(i, q, st)
  <2>1. PICK e \in UNION {{[old EXCEPT !.active.st = st], [old EXCEPT !.pending.st = st],
                           [old EXCEPT !.previous.st = st]} : st \in MarkStatuses} :
            ledger' = Put(i, e)
    BY <1>10 DEF MarkDependencyStatus
  <2>2. MarkStatuses \subseteq Statuses
    BY LedgerAssumption DEF Statuses
  <2>3. e \in Entry /\ SlotsOf(e) = s
    BY <1>1, <1>2, <2>1, <2>2 DEF Entry, Filled, Slot, SlotsOf
  <2> HIDE DEF s
  <2>4. slotsOf' = Abstract!With(i, s)
    BY <2>1, <2>3, PutSlots DEF LedgerInv
  <2>5. slotsOf' = slotsOf
    BY <1>0, <2>4 DEF s, slotsOf, Abstract!With
  <2> QED BY <1>4, <2>5, NotLeaving DEF AbstractStep
<1> QED BY <1>7, <1>8, <1>9, <1>10

\* An uninstall is visible when the ledger is written, and when it is taken back.
LEMMA UninstallRefines ==
  ASSUME LedgerInv,
         \/ \E i \in Insts : UninstallMove(i)
         \/ UninstallAbort \/ UninstallCommit \/ UninstallEmpty \/ UninstallEmptyFails
  PROVE  AbstractStep
<1>1. CASE (\E i \in Insts : UninstallMove(i)) \/ UninstallAbort
  <2>1. ASSUME NEW i \in Insts, UninstallMove(i)
        PROVE  op.kind = "idle" /\ op'.kind = "uninstall" /\ ledger' = ledger
    BY <2>1 DEF UninstallMove, Serving, Idle
  <2>2. UninstallAbort => op.kind = "uninstall" /\ op' = Idle /\ ledger' = ledger
    BY DEF UninstallAbort
  <2>3. ledger' = ledger /\ op.kind # "emptying" /\ op'.kind # "emptying"
    BY <1>1, <2>1, <2>2 DEF Idle
  <2> QED BY <2>3, StutterSteps
<1>2. CASE UninstallCommit
  <2>1. /\ op.inst \in DOMAIN ledger /\ op.entry = {ledger[op.inst]} /\ op.kind = "uninstall"
        /\ ledger' = Drop({op.inst})
        /\ op' = [op EXCEPT !.kind = "emptying"]
    BY <1>2 DEF UninstallCommit, LedgerInv, UninstallHolds
  <2>2. op'.kind = "emptying" /\ op'.inst = op.inst /\ op'.entry = op.entry
    BY <2>1 DEF LedgerInv, LedgerTypeOK, Op
  <2>3. leavingOf = {}
    BY <2>1 DEF leavingOf
  <2>4. leavingOf' = {<<op.inst, slotsOf[op.inst]>>}
    BY <2>1, <2>2 DEF leavingOf, slotsOf
  <2>5. slotsOf' = Abstract!Without({op.inst})
    BY <2>1, DropSlots DEF LedgerInv
  <2>6. Abstract!Uninstall(op.inst)
    BY <2>3, <2>4, <2>5 DEF Abstract!Uninstall, slotsOf, leavingOf
  <2>7. PICK r \in Rels : TRUE
    BY <2>1 DEF LedgerInv, LedgerTypeOK, Entry, Filled
  <2> QED BY <2>1, <2>6, <2>7, AbstractSteps
<1>3. CASE UninstallEmpty
  <2>1. ledger' = ledger /\ op' = Idle
    BY <1>3 DEF UninstallEmpty
  <2> QED BY <2>1 DEF AbstractStep, AbstractNext, Abstract!SlotNext, Abstract!Settle, Idle
<1>4. CASE UninstallEmptyFails
  <2>1. PICK e \in op.entry : ledger' \in {ledger, Put(op.inst, e)}
    BY <1>4 DEF UninstallEmptyFails
  <2>2. op.kind = "emptying" /\ op' = Idle /\ e \in Entry /\ op.inst \in Insts
    BY <1>4, <2>1 DEF UninstallEmptyFails, LedgerInv, LedgerTypeOK, FreshIds, Op
  <2>3. CASE ledger' = ledger
    BY <2>2, <2>3 DEF AbstractStep, AbstractNext, Abstract!SlotNext, Abstract!Settle, Idle
  <2>4. CASE ledger' = Put(op.inst, e)
    <3>1. slotsOf' = Abstract!With(op.inst, SlotsOf(e))
      BY <2>2, <2>4, PutSlots DEF LedgerInv
    <3>2. <<op.inst, SlotsOf(e)>> \in leavingOf /\ leavingOf' = {}
      BY <2>1, <2>2 DEF leavingOf, Idle
    <3>3. Abstract!ComeBack
      BY <3>1, <3>2 DEF Abstract!ComeBack, slotsOf, leavingOf
    <3> QED BY <3>3 DEF AbstractStep, AbstractNext, Abstract!SlotNext
  <2> QED BY <2>1, <2>3, <2>4
<1> QED BY <1>1, <1>2, <1>3, <1>4

\* A registration adds or rebinds an entry, its failure removes it again.
LEMMA DevRefines ==
  ASSUME LedgerInv,
         \/ \E d \in DevDirs : UnregisterDevDir(d) \/ \E p \in DevPackages : RegisterDevDir(d, p)
         \/ DevLoads \/ DevFailsToLoad
  PROVE  AbstractStep
<1>1. op.kind # "emptying" /\ op'.kind # "emptying"
  <2>1. ASSUME NEW d \in DevDirs, NEW p \in DevPackages, RegisterDevDir(d, p)
        PROVE  op = Idle /\ op'.kind \in {"devold", "devnew"}
    BY <2>1 DEF RegisterDevDir, Serving, Idle
  <2>2. ASSUME NEW d \in DevDirs, UnregisterDevDir(d)
        PROVE  op = Idle /\ op' = op
    BY <2>2 DEF UnregisterDevDir, Serving
  <2>3. DevLoads \/ DevFailsToLoad => op.kind \in {"devold", "devnew"} /\ op' = Idle
    BY DEF DevLoads, DevFailsToLoad
  <2> QED BY <2>1, <2>2, <2>3 DEF Idle
<1>2. Abstract!Settled
  BY <1>1, NotLeaving DEF leavingOf, Abstract!Settled
<1>3. ASSUME NEW d \in DevDirs, NEW p \in DevPackages, RegisterDevDir(d, p)
      PROVE  AbstractStep
  <2>1. PICK i \in Insts : ledger' = Put(i, DevEntry(d, p))
    BY <1>3, DevBegins DEF LedgerInv
  <2>2. /\ DevEntry(d, p) \in Entry
        /\ SlotsOf(DevEntry(d, p)) = Abstract!Has(d, None, None)
        /\ d \in Rels
    BY DEF DevEntry, Entry, Packages, Origins, Filled, Rels, Statuses, Slot, NoSlot, SlotsOf, Abstract!Has
  <2>3. slotsOf' = Abstract!With(i, Abstract!Has(d, None, None))
    BY <2>1, <2>2, PutSlots DEF LedgerInv
  <2>4. CASE i \in DOMAIN ledger
    <3>1. Abstract!Rebind(i, d)
      BY <1>2, <2>3 DEF Abstract!Rebind, slotsOf
    <3> QED BY <2>2, <2>4, <3>1, AbstractSteps
  <2>5. CASE i \notin DOMAIN ledger
    <3>1. Abstract!Add(i, d)
      BY <1>2, <2>3, <2>5 DEF Abstract!Add, slotsOf
    <3> QED BY <2>2, <3>1 DEF AbstractStep, AbstractNext, Abstract!SlotNext
  <2> QED BY <2>4, <2>5
<1>4. CASE (\E d \in DevDirs : UnregisterDevDir(d)) \/ DevFailsToLoad
  <2>1. CASE ledger' = ledger
    BY <1>1, <2>1, StutterSteps
  <2>2. ASSUME NEW S, ledger' = Drop(S)
        PROVE  AbstractStep
    <3> DEFINE T == S \cap DOMAIN ledger
    <3>1. ledger' = Drop(T)
      BY <2>2 DEF Drop
    <3>2. slotsOf' = Abstract!Without(T)
      BY <3>1, DropSlots DEF LedgerInv
    <3>3. Abstract!Remove(T)
      BY <1>2, <3>2 DEF Abstract!Remove, slotsOf
    <3>4. T \in SUBSET DOMAIN slotsOf
      BY DEF slotsOf
    <3> QED BY <3>3, <3>4 DEF AbstractStep, AbstractNext, Abstract!SlotNext, slotsOf
  <2> QED BY <1>4, <2>1, <2>2 DEF UnregisterDevDir, DevFailsToLoad
<1>5. CASE DevLoads
  BY <1>1, <1>5, StutterSteps DEF DevLoads
<1> QED BY <1>3, <1>4, <1>5

\* Setup becomes visible only through the installs it commits.
LEMMA LifecycleRefines ==
  ASSUME LedgerInv, Lifecycle
  PROVE  AbstractStep
<1>1. CASE Crash
  <2>1. ledger' = ledger /\ op' = Idle
    BY <1>1 DEF Crash
  <2> QED BY <2>1 DEF AbstractStep, AbstractNext, Abstract!SlotNext, Abstract!Settle, Idle
<1>2. CASE BootInstalls
  <2>1. ledger' = ledger /\ op.kind # "emptying" /\ op'.kind # "emptying"
    BY <1>2 DEF BootInstalls, Booting, InstallStage, Idle
  <2> QED BY <2>1, StutterSteps
<1>3. CASE Boot \/ BootRefuses \/ BootSkips \/ BootDone \/ Quit
  <2>1. ledger' = ledger /\ op' = op
    BY <1>3 DEF Boot, BootRefuses, BootSkips, BootDone, Quit
  <2> QED BY <2>1 DEF AbstractStep, slotsOf, leavingOf
<1> QED BY <1>1, <1>2, <1>3 DEF Lifecycle

\* Every step is one change of the slots, or none.
LEMMA RefinesStep ==
  ASSUME LedgerInv, [LedgerNext]_ledgerVars
  PROVE  AbstractStep
<1>1. CASE UNCHANGED ledgerVars
  BY <1>1 DEF ledgerVars, AbstractStep, slotsOf, leavingOf
<1>2. CASE InstallFromUrl \/ \E p \in CatalogPackages, r \in Releases : Install(p, r, "Local")
  <2>1. ASSUME NEW p, NEW r, NEW o, Install(p, r, o)
        PROVE  ledger' = ledger /\ op = Idle /\ op'.kind = "install"
    BY <2>1 DEF Install, Serving, InstallStage, Idle
  <2>2. ledger' = ledger /\ op.kind # "emptying" /\ op'.kind # "emptying"
    BY <1>2, <2>1 DEF InstallFromUrl, Idle
  <2> QED BY <2>2, StutterSteps
<1>3. CASE InstallAbort \/ Purge
  <2>1. ledger' = ledger /\ op.kind # "emptying" /\ op'.kind # "emptying"
    BY <1>3 DEF InstallAbort, Purge, Idle
  <2> QED BY <2>1, StutterSteps
<1>4. CASE MainThreadCommand
  BY <1>2, <1>4, SlotCommandRefines, UninstallRefines, DevRefines DEF MainThreadCommand
<1>5. CASE LockHolder
  BY <1>3, <1>5, CommitRefines, UninstallRefines, DevRefines DEF LockHolder
<1>6. CASE StatusCommand
  BY <1>6, SlotCommandRefines DEF StatusCommand
<1>7. CASE Lifecycle
  BY <1>7, LifecycleRefines
<1> QED BY <1>1, <1>2, <1>4, <1>5, <1>6, <1>7 DEF LedgerNext

\* The ledger, with its disk, lock, failures and crashes, implements the
\* slots of ReleaseSlots: to whoever looks only at which releases an
\* installation has, every operation happens in one step or not at all.
THEOREM LedgerRefinesSlots == LedgerSpec => ImplementsReleaseSlots
<1>1. LedgerInit => Abstract!SlotInit
  BY RefinesInit
<1>2. LedgerInv /\ [LedgerNext]_ledgerVars => [Abstract!SlotNext]_(Abstract!slotVars)
  BY RefinesStep DEF AbstractStep, AbstractNext, Abstract!slotVars, slotsOf, leavingOf
<1> QED BY <1>1, <1>2, InvCorrect, PTL DEF LedgerSpec, ImplementsReleaseSlots, Abstract!SlotSpec

-----------------------------------------------------------------------------
(* FallbackKept                                                            *)

Fallback ==
  \A i \in DOMAIN ledger \cap DOMAIN ledger' :
    /\ ledger[i].origin # "Dev"
    /\ ledger'[i].active.rel # ledger[i].active.rel
    => ledger'[i].previous.rel = ledger[i].active.rel

\* A write of one entry that keeps its active release, or keeps it as previous.
LEMMA FallbackPut ==
  ASSUME LedgerTypeOK, NEW i \in Insts, NEW e \in Entry, ledger' = Put(i, e),
         \/ i \notin DOMAIN ledger
         \/ ledger[i].origin = "Dev"
         \/ e.active.rel = ledger[i].active.rel
         \/ e.previous.rel = ledger[i].active.rel
  PROVE  Fallback
<1>1. /\ ledger'[i] = e
      /\ \A j \in DOMAIN ledger : j # i => ledger'[j] = ledger[j]
  BY PutType
<1> QED BY <1>1 DEF Fallback

\* Removals change no active release.
LEMMA FallbackDrop ==
  ASSUME LedgerTypeOK, NEW S, ledger' = Drop(S)
  PROVE  Fallback
<1>1. \A j \in DOMAIN ledger' : ledger'[j] = ledger[j]
  BY DropType
<1> QED BY <1>1 DEF Fallback

\* Activation and rollback keep the release they replace.
LEMMA FallbackSlotCommand ==
  ASSUME LedgerInv, NEW i \in Insts,
         \/ ActivatePending(i) \/ DiscardPending(i) \/ Rollback(i)
         \/ \E r \in Rels, st \in MarkStatuses : MarkDependencyStatus(i, r, st)
  PROVE  Fallback
<1>0. i \in DOMAIN ledger
  BY DEF ActivatePending, DiscardPending, Rollback, MarkDependencyStatus
<1> DEFINE old == ledger[i]
<1>1. /\ old \in Entry /\ old.active \in Filled /\ old.pending \in Slot /\ old.previous \in Slot
  BY <1>0 DEF LedgerInv, LedgerTypeOK, Entry
<1>2. \A j \in DOMAIN ledger : j # i => ledger'[j] = ledger[j]
  BY DEF ActivatePending, DiscardPending, Rollback, MarkDependencyStatus, Put
<1>3. \/ ledger'[i].active.rel = old.active.rel
      \/ ledger'[i].previous.rel = old.active.rel
  <2>1. PICK e : ledger' = Put(i, e) /\ (e.active.rel = old.active.rel \/ e.previous.rel = old.active.rel)
    <3>1. CASE ActivatePending(i)
      <4> DEFINE e == [old EXCEPT !.active = [rel |-> old.pending.rel, st |-> "Ready"],
                                  !.pending = NoSlot, !.previous = old.active]
      <4>1. e.previous = old.active
        BY <1>1 DEF Entry
      <4>2. ledger' = Put(i, e)
        BY <3>1 DEF ActivatePending
      <4> QED BY <4>1, <4>2
    <3>4. CASE Rollback(i)
      <4> DEFINE e == [old EXCEPT !.active = old.previous, !.pending = NoSlot,
                                  !.previous = old.active]
      <4>1. e.previous = old.active
        BY <1>1 DEF Entry
      <4>2. ledger' = Put(i, e)
        BY <3>4 DEF Rollback
      <4> QED BY <4>1, <4>2
    <3>2. CASE DiscardPending(i)
      BY <1>1, <3>2 DEF DiscardPending, Entry
    <3>3. CASE \E r \in Rels, st \in MarkStatuses : MarkDependencyStatus(i, r, st)
      BY <1>1, <3>3 DEF MarkDependencyStatus, Entry, Filled
    <3> QED BY <3>1, <3>2, <3>3, <3>4
  <2> QED BY <2>1 DEF Put
<1> QED BY <1>2, <1>3 DEF Fallback

\* An update of an installation that is not a development directory always
\* leaves the release it replaces as the way back, whoever replaces it: an
\* activation, a rollback or a bundled builtin.
THEOREM FallbackAlwaysKept == LedgerSpec => FallbackKept
<1>1. LedgerInv /\ [LedgerNext]_ledgerVars => [Fallback]_ledgerVars
  <2> SUFFICES ASSUME LedgerInv, LedgerNext PROVE Fallback
    OBVIOUS
  <2>1. CASE ledger' = ledger
    BY <2>1 DEF Fallback
  <2>2. CASE InstallCommit
    <3>1. PICK e \in op.entry : op.entry = {e} /\ (FirstEntry(e) \/ UpdatedEntry(e))
      BY <2>2 DEF LedgerInv, InstallHolds, InstallCommit
    <3>2. e \in Entry /\ op.inst \in Insts /\ ledger' = Put(op.inst, e)
      BY <2>2, <3>1 DEF LedgerInv, InstallCommit, LedgerTypeOK, Op, FreshIds
    <3> QED BY <3>1, <3>2, FallbackPut DEF FirstEntry, UpdatedEntry, LedgerInv
  <2>3. CASE UninstallEmptyFails
    <3>1. PICK e \in op.entry : ledger' \in {ledger, Put(op.inst, e)}
      BY <2>3 DEF UninstallEmptyFails
    <3>2. e \in Entry /\ op.inst \in Insts /\ op.inst \notin DOMAIN ledger
      BY <2>3, <3>1 DEF UninstallEmptyFails, LedgerInv, LedgerTypeOK, Op, FreshIds, UninstallHolds
    <3> QED BY <2>1, <3>1, <3>2, FallbackPut DEF LedgerInv
  <2>4. ASSUME NEW d \in DevDirs, NEW p \in DevPackages, RegisterDevDir(d, p)
        PROVE  Fallback
    <3>1. PICK i \in Insts : /\ ledger' = Put(i, DevEntry(d, p))
                             /\ i \notin DOMAIN ledger \/ ledger[i].origin = "Dev"
      BY <2>4, DevBegins DEF LedgerInv
    <3>2. DevEntry(d, p) \in Entry
      BY DEF DevEntry, Entry, Packages, Origins, Filled, Rels, Statuses, Slot, NoSlot
    <3> QED BY <3>1, <3>2, FallbackPut DEF LedgerInv
  <2>5. CASE UninstallCommit \/ DevFailsToLoad \/ \E d \in DevDirs : UnregisterDevDir(d)
    BY <2>1, <2>5, FallbackDrop DEF UninstallCommit, DevFailsToLoad, UnregisterDevDir, LedgerInv
  <2>6. CASE StatusCommand \/ \E i \in Insts : DiscardPending(i) \/ Rollback(i)
    BY <2>6, FallbackSlotCommand DEF StatusCommand
  <2>7. CASE InstallFromUrl \/ (\E p \in CatalogPackages, r \in Releases : Install(p, r, "Local"))
             \/ (\E i \in Insts : UninstallMove(i))
    BY <2>1, <2>7 DEF InstallFromUrl, Install, InstallStage, UninstallMove
  <2>8. CASE InstallAbort \/ Purge \/ UninstallAbort \/ UninstallEmpty \/ DevLoads
    BY <2>1, <2>8 DEF InstallAbort, Purge, UninstallAbort, UninstallEmpty, DevLoads
  <2>9. CASE Lifecycle
    BY <2>1, <2>9 DEF Lifecycle, Boot, BootRefuses, BootSkips, BootInstalls, InstallStage, BootDone, Quit, Crash
  <2> QED BY <2>2, <2>3, <2>4, <2>5, <2>6, <2>7, <2>8, <2>9
          DEF LedgerNext, MainThreadCommand, LockHolder
<1> QED BY <1>1, InvCorrect, PTL DEF LedgerSpec, FallbackKept, Fallback

=============================================================================
